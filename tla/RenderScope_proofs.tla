------------------------- MODULE RenderScope_proofs -------------------------
(***************************************************************************)
(* From the source to the page: what the parser leaves is a tree that       *)
(* muggin_render can walk, what the call binds is what the template was     *)
(* told it would be given, and so everything Render_proofs proves of a      *)
(* rendering holds of the call (RenderScope).                               *)
(***************************************************************************)
EXTENDS PlmugginCall_proofs

LEMMA SequenceOf ==
  ASSUME NEW S, NEW s \in Seq(S)
  PROVE  Len(s) \in Nat /\ DOMAIN s = 1..Len(s) /\ \A i \in 1..Len(s) : s[i] \in S
OBVIOUS

(* The tree: every node that is read is one muggin_render can walk, and its *)
(* names are the scope's.                                                   *)

Known == { NameOf(id) : id \in DOMAIN names.idxs }

Readables == [type : { "constant", "name" }, id : Chars]

Walkable(m, T, known) ==
  /\ IsTreeNode(m) /\ UsedBy(m) \subseteq known
  /\ m.kind = "element" => m.children \in Seq(T)

Closed(T, known) == \A m \in T : Walkable(m, T, known)

LEMMA ItemsAre == Items = Readables
BY Zenon DEF Items, Readables, Chars

LEMMA KnownName ==
  ASSUME NEW i \in 1..NNames
  PROVE  NameOf(i) \in Known
BY DEF Known, NNames

(* What is read of contents.                                                *)
LEMMA ReadContents ==
  ASSUME ParserInv, NEW contents \in Seq(Refs(NConstants, NNames))
  PROVE  Reading(contents) \in Seq(Items) /\ UsedIn(Reading(contents)) \subseteq Known
<1>1. PICK N \in Nat : N >= 2 /\ Sound(constants, N)
  BY DEF ParserInv, Sized
<1>2. PICK M \in Nat : M >= 2 /\ Sound(names, M)
  BY DEF ParserInv, Sized
<1>3. Len(contents) \in Nat /\ DOMAIN contents = 1..Len(contents)
  OBVIOUS
<1>4. \A i \in 1..Len(contents) :
        \/ contents[i].type = "constant" /\ contents[i].id \in 1..NConstants
        \/ contents[i].type = "name" /\ contents[i].id \in 1..NNames
  <2> SUFFICES ASSUME NEW i \in 1..Len(contents)
               PROVE  \/ contents[i].type = "constant" /\ contents[i].id \in 1..NConstants
                      \/ contents[i].type = "name" /\ contents[i].id \in 1..NNames
    OBVIOUS
  <2>1. contents[i] \in Refs(NConstants, NNames)
    OBVIOUS
  <2> QED
    BY <2>1 DEF Refs
<1>5. \A i \in 1..NConstants : TextOf(i) \in Chars
  BY <1>1, EntryType DEF TextOf, NConstants
<1>6. \A i \in 1..NNames : NameOf(i) \in Chars
  BY <1>2, EntryType DEF NameOf, NNames
<1>7. PICK r : r = Reading(contents)
  OBVIOUS
<1>8. r = [i \in 1..Len(contents) |->
            [type |-> contents[i].type,
             id |-> IF contents[i].type = "name" THEN NameOf(contents[i].id)
                    ELSE TextOf(contents[i].id)]]
  BY <1>3, <1>7 DEF Reading
<1>9. \A i \in 1..Len(contents) :
        /\ r[i] \in Readables
        /\ r[i].type = "name" => r[i].id \in Known
  <2> SUFFICES ASSUME NEW i \in 1..Len(contents)
               PROVE  r[i] \in Readables /\ (r[i].type = "name" => r[i].id \in Known)
    OBVIOUS
  <2>1. CASE contents[i].type = "constant" /\ contents[i].id \in 1..NConstants
    <3>1. r[i] = [type |-> "constant", id |-> TextOf(contents[i].id)]
      BY <1>8, <2>1
    <3> QED
      BY <1>5, <2>1, <3>1 DEF Readables
  <2>2. CASE contents[i].type = "name" /\ contents[i].id \in 1..NNames
    <3>1. r[i] = [type |-> "name", id |-> NameOf(contents[i].id)]
      BY <1>8, <2>2
    <3> QED
      BY <1>6, <2>2, <3>1, KnownName DEF Readables
  <2> QED
    BY <1>4, <2>1, <2>2
<1>10. r \in Seq(Readables) /\ DOMAIN r = 1..Len(contents)
  <2>1. PICK S : S = Readables
    OBVIOUS
  <2>2. \A i \in 1..Len(contents) : r[i] \in S
    BY <1>9, <2>1
  <2>3. r \in [1..Len(contents) -> S]
    BY <1>8, <2>2
  <2>4. \A k \in Nat : [1..k -> S] \subseteq Seq(S)
    OBVIOUS
  <2> QED
    BY <1>3, <2>1, <2>3, <2>4
<1>11. UsedIn(r) \subseteq Known
  BY <1>9, <1>10 DEF UsedIn
<1> QED
  BY <1>7, <1>10, <1>11, ItemsAre

(* A node as it is read, with children of a set.                            *)
LEMMA ReadIsWalkable ==
  ASSUME ParserInv, NEW K, WellMade(K, NConstants, NNames), NEW n \in K,
         NEW T, NEW children \in Seq(T)
  PROVE  Walkable(ReadNode(n, children), T, Known)
<1>1. PICK N \in Nat : N >= 2 /\ Sound(constants, N)
  BY DEF ParserInv, Sized
<1>2. \A i \in 1..NConstants : TextOf(i) \in Chars
  BY <1>1, EntryType DEF TextOf, NConstants
<1>3. PICK m : m = ReadNode(n, children)
  OBVIOUS
<1>4. CASE n \in Texts(NConstants, NNames)
  <2>1. n.kind = "text" /\ n.contents \in Seq(Refs(NConstants, NNames))
    BY <1>4 DEF Texts
  <2>2. m = [kind |-> "text", contents |-> Reading(n.contents)]
    BY <1>3, <2>1 DEF ReadNode
  <2>3. m.kind = "text" /\ m.contents = Reading(n.contents)
    BY <2>2
  <2>4. Reading(n.contents) \in Seq(Items) /\ UsedIn(Reading(n.contents)) \subseteq Known
    BY <2>1, ReadContents
  <2>5. IsTreeNode(m)
    BY <2>3, <2>4 DEF IsTreeNode
  <2>6. UsedBy(m) \subseteq Known
    BY <2>3, <2>4 DEF UsedBy
  <2> QED
    BY <1>3, <2>3, <2>5, <2>6 DEF Walkable
<1>5. CASE n \in Elements(K, NConstants, NNames)
  <2>1. PICK A : A = Attrs(NConstants, NNames)
    OBVIOUS
  <2>2. PICK atts : atts = n.attributes
    OBVIOUS
  <2>3. n.kind = "element" /\ n.void \in BOOLEAN /\ atts \in Seq(A)
    BY <1>5, <2>1, <2>2 DEF Elements
  <2>4. PICK read : read = [i \in DOMAIN atts |->
                       [name |-> TextOf(atts[i].name), contents |-> Reading(atts[i].contents)]]
    OBVIOUS
  <2>5. /\ m.kind = "element" /\ m.void = n.void /\ m.attributes = read
        /\ m.children = children
    <3>1. PICK tag, void : tag = TextOf(n.tag) /\ void = n.void
      OBVIOUS
    <3>2. m = [kind |-> "element", tag |-> tag, void |-> void, attributes |-> read,
               children |-> children]
      <4>1. n.kind # "text"
        BY <2>3
      <4>2. m = [kind |-> "element", tag |-> TextOf(n.tag), void |-> n.void,
                 attributes |->
                   [i \in DOMAIN n.attributes |->
                     [name |-> TextOf(n.attributes[i].name),
                      contents |-> Reading(n.attributes[i].contents)]],
                 children |-> children]
        BY <1>3, <4>1, Zenon DEF ReadNode
      <4>3. read = [i \in DOMAIN n.attributes |->
                     [name |-> TextOf(n.attributes[i].name),
                      contents |-> Reading(n.attributes[i].contents)]]
        BY <2>2, <2>4, Zenon
      <4> QED
        BY <3>1, <4>2, <4>3, Zenon
    <3>3. /\ m.kind = "element" /\ m.void = void /\ m.attributes = read
          /\ m.children = children
      BY ONLY <3>2
    <3> QED
      BY <3>1, <3>3
  <2>6. Len(atts) \in Nat /\ DOMAIN atts = 1..Len(atts) /\ \A i \in 1..Len(atts) : atts[i] \in A
    <3>1. atts \in Seq(A)
      BY <2>3
    <3> QED
      BY ONLY <3>1, SequenceOf, Zenon
  <2>7. \A i \in 1..Len(atts) :
          /\ read[i] \in Attributes
          /\ UsedIn(read[i].contents) \subseteq Known
    <3> SUFFICES ASSUME NEW i \in 1..Len(atts)
                 PROVE  read[i] \in Attributes /\ UsedIn(read[i].contents) \subseteq Known
      OBVIOUS
    <3>1. atts[i].name \in 1..NConstants /\ atts[i].contents \in Seq(Refs(NConstants, NNames))
      BY <2>1, <2>6 DEF Attrs
    <3>2. read[i] = [name |-> TextOf(atts[i].name), contents |-> Reading(atts[i].contents)]
      BY <2>4, <2>6
    <3>3. /\ Reading(atts[i].contents) \in Seq(Items)
          /\ UsedIn(Reading(atts[i].contents)) \subseteq Known
      BY <3>1, ReadContents
    <3>4. TextOf(atts[i].name) \in Seq(STRING)
      BY <1>2, <3>1 DEF Chars
    <3>5. PICK name, contents : name = TextOf(atts[i].name) /\ contents = Reading(atts[i].contents)
      OBVIOUS
    <3>6. PICK S, I : S = Seq(STRING) /\ I = Seq(Items)
      OBVIOUS
    <3>7. name \in S /\ contents \in I /\ read[i] = [name |-> name, contents |-> contents]
      BY <3>2, <3>3, <3>4, <3>5, <3>6
    <3>8. read[i] \in [name : S, contents : I] /\ read[i].contents = contents
      BY ONLY <3>7
    <3> QED
      BY <3>3, <3>5, <3>6, <3>8 DEF Attributes
  <2>8. read \in Seq(Attributes) /\ DOMAIN read = 1..Len(atts)
    <3>1. PICK S : S = Attributes
      OBVIOUS
    <3>2. read \in [1..Len(atts) -> S]
      <4>1. \A i \in 1..Len(atts) : read[i] \in S
        BY <2>7, <3>1
      <4>2. read = [i \in 1..Len(atts) |-> read[i]]
        BY <2>4, <2>6
      <4> QED
        BY <4>1, <4>2
    <3>3. \A k \in Nat : [1..k -> S] \subseteq Seq(S)
      OBVIOUS
    <3> QED
      BY <2>6, <3>1, <3>2, <3>3
  <2>9. Len(children) \in Nat /\ DOMAIN children = 1..Len(children)
    OBVIOUS
  <2>10. IsTreeNode(m)
    BY <2>3, <2>5, <2>8, <2>9 DEF IsTreeNode
  <2>11. UsedBy(m) \subseteq Known
    BY <2>5, <2>7, <2>8 DEF UsedBy
  <2> QED
    BY <1>3, <2>5, <2>10, <2>11 DEF Walkable
<1> QED
  BY <1>4, <1>5 DEF WellMade

(* Tree's two recursions: the levels of the parser's tree, and what is read *)
(* of them from the deepest up.                                             *)

Under(S) == UNION { ToSet(n.children) : n \in { m \in S : m.kind = "element" } }

ReadLevel(S, h, below) ==
  [n \in S |->
    ReadNode(n, IF h = 0 \/ n.kind = "text" THEN <<>>
                ELSE [i \in DOMAIN n.children |-> below[n.children[i]]])]

UnderUp(up, first, L) == up = [d \in 0..L |-> IF d = 0 THEN first ELSE Under(up[d - 1])]

LEMMA UnderExists ==
  ASSUME NEW first, NEW L \in Nat
  PROVE  \E up : UnderUp(up, first, L)
<1> DEFINE Solves(up, m) == up = [d \in 0..m |-> IF d = 0 THEN first ELSE Under(up[d - 1])]
           S == { m \in 0..L : \E up : Solves(up, m) }
<1>1. 0 \in S
  <2>1. Solves([d \in 0..0 |-> first], 0)
    OBVIOUS
  <2> HIDE DEF Solves
  <2> QED
    BY <2>1
<1>2. ASSUME NEW m \in 0..(L - 1), m \in S PROVE m + 1 \in S
  <2>1. PICK up : Solves(up, m)
    BY <1>2
  <2> DEFINE more == [d \in 0..(m + 1) |-> IF d <= m THEN up[d] ELSE Under(up[m])]
  <2>2. ASSUME NEW d \in 0..(m + 1)
        PROVE  more[d] = IF d = 0 THEN first ELSE Under(more[d - 1])
    <3>1. CASE d = 0
      BY <2>1, <3>1
    <3>2. CASE d \in 1..m
      <4>1. up[d] = Under(up[d - 1])
        BY <2>1, <3>2
      <4>2. more[d] = up[d] /\ more[d - 1] = up[d - 1]
        BY <3>2
      <4> QED
        BY <3>2, <4>1, <4>2
    <3>3. CASE d = m + 1
      <4>1. more[d] = Under(up[m]) /\ more[d - 1] = up[m]
        BY <3>3
      <4> QED
        BY <3>3, <4>1
    <3> QED
      BY <3>1, <3>2, <3>3
  <2>3. Solves(more, m + 1)
    <3> HIDE DEF more
    <3>1. more = [d \in 0..(m + 1) |-> more[d]]
      BY DEF more
    <3> QED
      BY <2>2, <3>1
  <2> HIDE DEF more, Solves
  <2> QED
    BY <2>3
<1>3. 0..L \subseteq S
  <2> HIDE DEF S
  <2> QED
    BY <1>1, <1>2, IntervalInduction
<1>4. PICK up : Solves(up, L)
  <2> HIDE DEF Solves
  <2> QED
    BY <1>3
<1>5. UnderUp(up, first, L)
  BY <1>4 DEF UnderUp
<1> QED
  BY <1>5

LEMMA DeepestLevel ==
  ASSUME NEW S, NEW a, NEW b
  PROVE  ReadLevel(S, 0, a) = ReadLevel(S, 0, b)
<1>1. \A x : ReadLevel(S, 0, x) = [n \in S |-> ReadNode(n, <<>>)]
  BY Zenon DEF ReadLevel
<1> QED
  BY <1>1

ReadsUp(up, level, L) == up = [h \in 0..L |-> ReadLevel(level[L - h], h, up[h - 1])]

LEMMA ReadExists ==
  ASSUME NEW level, NEW L \in Nat
  PROVE  \E up : ReadsUp(up, level, L)
<1> DEFINE Solves(up, m) == up = [h \in 0..m |-> ReadLevel(level[L - h], h, up[h - 1])]
           S == { m \in 0..L : \E up : Solves(up, m) }
<1>1. 0 \in S
  <2>1. PICK up : up = [h \in 0..0 |-> ReadLevel(level[L - h], h, <<>>)]
    OBVIOUS
  <2>2. \A h \in 0..0 : up[h] = ReadLevel(level[L - h], h, up[h - 1])
    <3>1. \A h \in 0..0 : h = 0
      OBVIOUS
    <3>2. ReadLevel(level[L - 0], 0, <<>>) = ReadLevel(level[L - 0], 0, up[0 - 1])
      BY DeepestLevel
    <3>3. up[0] = ReadLevel(level[L - 0], 0, <<>>)
      BY <2>1
    <3> QED
      BY <3>1, <3>2, <3>3
  <2>3. up = [h \in 0..0 |-> up[h]]
    BY <2>1
  <2>4. Solves(up, 0)
    BY <2>2, <2>3
  <2> HIDE DEF Solves
  <2> QED
    BY <2>4
<1>2. ASSUME NEW m \in 0..(L - 1), m \in S PROVE m + 1 \in S
  <2>1. PICK up : Solves(up, m)
    BY <1>2
  <2> DEFINE more == [h \in 0..(m + 1) |->
                       IF h <= m THEN up[h] ELSE ReadLevel(level[L - (m + 1)], m + 1, up[m])]
  <2>2. ASSUME NEW h \in 0..(m + 1)
        PROVE  more[h] = ReadLevel(level[L - h], h, more[h - 1])
    <3>1. CASE h = 0
      <4>1. up[0] = ReadLevel(level[L - 0], 0, up[0 - 1])
        BY <2>1
      <4>2. ReadLevel(level[L - 0], 0, up[0 - 1]) = ReadLevel(level[L - 0], 0, more[0 - 1])
        BY DeepestLevel
      <4>3. more[0] = up[0]
        OBVIOUS
      <4> QED
        BY <3>1, <4>1, <4>2, <4>3
    <3>2. CASE h \in 1..m
      <4>1. up[h] = ReadLevel(level[L - h], h, up[h - 1])
        BY <2>1, <3>2
      <4>2. more[h] = up[h] /\ more[h - 1] = up[h - 1]
        BY <3>2
      <4> QED
        BY <4>1, <4>2
    <3>3. CASE h = m + 1
      <4>1. more[h] = ReadLevel(level[L - h], h, up[m]) /\ more[h - 1] = up[m]
        BY <3>3
      <4> QED
        BY <4>1
    <3> QED
      BY <3>1, <3>2, <3>3
  <2>3. Solves(more, m + 1)
    <3> HIDE DEF more
    <3>1. more = [h \in 0..(m + 1) |-> more[h]]
      BY DEF more
    <3> QED
      BY <2>2, <3>1
  <2> HIDE DEF more, Solves
  <2> QED
    BY <2>3
<1>3. 0..L \subseteq S
  <2> HIDE DEF S
  <2> QED
    BY <1>1, <1>2, IntervalInduction
<1> QED
  BY <1>3 DEF ReadsUp

LEMMA TreeRuns ==
  ASSUME NEW top, Len(Source(function.lines)) \in Nat
  PROVE  \E L \in Nat : \E level, read :
           /\ level[0] = { top }
           /\ \A d \in 1..L : level[d] = Under(level[d - 1])
           /\ \A h \in 0..L : read[h] = ReadLevel(level[L - h], h, read[h - 1])
           /\ Tree(top) = read[L][top]
<1> DEFINE L == Len(Source(function.lines))
           first == { top }
           SolvesL(up) == UnderUp(up, first, L)
           level == CHOOSE up : SolvesL(up)
           SolvesR(up) == ReadsUp(up, level, L)
           read == CHOOSE up : SolvesR(up)
<1>1. Tree(top) = read[L][top]
  BY Zenon DEF Tree, Under, ReadLevel, UnderUp, ReadsUp
<1>2. SolvesL(level)
  <2>1. \E up : SolvesL(up)
    <3> HIDE DEF first, L
    <3>1. L \in Nat
      BY DEF L
    <3> QED
      BY <3>1, UnderExists
  <2> HIDE DEF SolvesL
  <2> QED
    BY <2>1
<1>3. SolvesR(read)
  <2>1. \E up : SolvesR(up)
    <3> HIDE DEF level, L
    <3>1. L \in Nat
      BY DEF L
    <3> QED
      BY <3>1, ReadExists
  <2> HIDE DEF SolvesR
  <2> QED
    BY <2>1
<1> HIDE DEF read, level, first
<1>4. PICK n \in Nat : n = L
  OBVIOUS
<1> HIDE DEF L
<1>5. level = [d \in 0..n |-> IF d = 0 THEN first ELSE Under(level[d - 1])]
  BY <1>2, <1>4 DEF UnderUp
<1>6. read = [h \in 0..n |-> ReadLevel(level[n - h], h, read[h - 1])]
  BY <1>3, <1>4 DEF ReadsUp
<1>7. level[0] = first /\ \A d \in 1..n : level[d] = Under(level[d - 1])
  BY <1>5
<1>8. \A h \in 0..n : read[h] = ReadLevel(level[n - h], h, read[h - 1])
  BY <1>6
<1>9. Tree(top) = read[n][top]
  BY <1>1, <1>4
<1>10. level[0] = { top }
  BY <1>7 DEF first
<1> WITNESS n \in Nat
<1> WITNESS level, read
<1> QED
  BY <1>7, <1>8, <1>9, <1>10

LEMMA LevelsInside ==
  ASSUME NEW c, NEW n, NEW K, WellMade(K, c, n), NEW top \in K, NEW L \in Nat,
         NEW level, level[0] = { top }, \A d \in 1..L : level[d] = Under(level[d - 1])
  PROVE  \A d \in 0..L : level[d] \subseteq K
<1> DEFINE S == { d \in 0..L : level[d] \subseteq K }
<1>1. 0 \in S
  OBVIOUS
<1>2. ASSUME NEW d \in 0..(L - 1), d \in S PROVE d + 1 \in S
  <2>1. level[d] \subseteq K
    BY <1>2
  <2>2. level[d + 1] = Under(level[d])
    <3>1. d + 1 \in 1..L /\ (d + 1) - 1 = d
      OBVIOUS
    <3> QED
      BY <3>1
  <2>3. ASSUME NEW m \in level[d], m.kind = "element"
        PROVE  ToSet(m.children) \subseteq K
    <3>1. m \in Texts(c, n) \cup Elements(K, c, n)
      BY <2>1 DEF WellMade
    <3>2. m \in Elements(K, c, n)
      BY <2>3, <3>1 DEF Texts
    <3>3. m.children \in Seq(K)
      BY <3>2 DEF Elements
    <3> QED
      BY <3>3 DEF ToSet
  <2>4. level[d + 1] \subseteq K
    BY <2>2, <2>3 DEF Under
  <2> QED
    BY <2>4
<1>3. 0..L \subseteq S
  <2> HIDE DEF S
  <2> QED
    BY <1>1, <1>2, IntervalInduction
<1> QED
  BY <1>3

Beneath(n, h, below) ==
  IF h = 0 \/ n.kind = "text" THEN <<>>
  ELSE [i \in DOMAIN n.children |-> below[n.children[i]]]

LEMMA ReadAt ==
  ASSUME NEW S, NEW h, NEW below, NEW n \in S
  PROVE  ReadLevel(S, h, below)[n] = ReadNode(n, Beneath(n, h, below))
BY Zenon DEF ReadLevel, Beneath

LEMMA TreeClosed ==
  ASSUME ParserInv, parsing = "parsed", Len(Source(function.lines)) \in Nat
  PROVE  \E T : Tree(root[1]) \in T /\ Closed(T, Known)
<1>1. PICK K : Family(K, NConstants, NNames, open, root, parsing)
  BY DEF ParserInv
<1>2. WellMade(K, NConstants, NNames) /\ root \in Seq(K) /\ root # <<>>
  BY <1>1 DEF Family
<1>3. PICK top \in K : top = root[1]
  BY <1>2
<1>4. PICK L \in Nat : \E level, read :
        /\ level[0] = { top }
        /\ \A d \in 1..L : level[d] = Under(level[d - 1])
        /\ \A h \in 0..L : read[h] = ReadLevel(level[L - h], h, read[h - 1])
        /\ Tree(top) = read[L][top]
  BY TreeRuns
<1>5. PICK level, read :
        /\ level[0] = { top }
        /\ \A d \in 1..L : level[d] = Under(level[d - 1])
        /\ \A h \in 0..L : read[h] = ReadLevel(level[L - h], h, read[h - 1])
        /\ Tree(top) = read[L][top]
  BY <1>4
<1>6. \A d \in 0..L : level[d] \subseteq K
  BY <1>2, <1>5, LevelsInside
<1> DEFINE T == UNION { { read[h][n] : n \in level[L - h] } : h \in 0..L }
<1>7. \A h \in 0..L : \A n \in level[L - h] : read[h][n] \in T
  OBVIOUS
<1>8. ASSUME NEW h \in 0..L, NEW n \in level[L - h]
      PROVE  Walkable(read[h][n], T, Known)
  <2> DEFINE below == [i \in DOMAIN n.children |-> read[h - 1][n.children[i]]]
  <2>1. n \in K
    <3>1. L - h \in 0..L
      OBVIOUS
    <3> QED
      BY <1>6, <3>1
  <2>2. read[h][n] = ReadNode(n, Beneath(n, h, read[h - 1]))
    <3>1. read[h] = ReadLevel(level[L - h], h, read[h - 1])
      BY <1>5
    <3>2. ReadLevel(level[L - h], h, read[h - 1])[n] = ReadNode(n, Beneath(n, h, read[h - 1]))
      BY ReadAt
    <3> QED
      BY <3>1, <3>2
  <2>3. CASE h = 0 \/ n.kind = "text"
    <3> HIDE DEF T
    <3>1. read[h][n] = ReadNode(n, <<>>) /\ <<>> \in Seq(T)
      BY <2>2, <2>3 DEF Beneath
    <3> QED
      BY <1>2, <2>1, <3>1, ReadIsWalkable
  <2>4. CASE ~(h = 0 \/ n.kind = "text")
    <3>1. n \in Elements(K, NConstants, NNames)
      BY <1>2, <2>1, <2>4 DEF WellMade, Texts
    <3>2. n.kind = "element" /\ n.children \in Seq(K)
      BY <3>1 DEF Elements
    <3>3. Len(n.children) \in Nat /\ DOMAIN n.children = 1..Len(n.children)
      BY <3>2, SequenceOf, Zenon
    <3>4. L - (h - 1) \in 1..L /\ (L - (h - 1)) - 1 = L - h /\ h - 1 \in 0..L
      BY <2>4
    <3>5. level[L - (h - 1)] = Under(level[L - h])
      BY <1>5, <3>4
    <3>6. ASSUME NEW i \in 1..Len(n.children)
          PROVE  read[h - 1][n.children[i]] \in T
      <4>1. n.children[i] \in ToSet(n.children)
        BY <3>3 DEF ToSet
      <4>2. n.children[i] \in Under(level[L - h])
        BY <3>2, <4>1 DEF Under
      <4>3. n.children[i] \in level[L - (h - 1)]
        BY <3>5, <4>2
      <4> HIDE DEF T
      <4> QED
        BY <1>7, <3>4, <4>3
    <3> HIDE DEF T
    <3>7. below \in [1..Len(n.children) -> T]
      BY <3>3, <3>6
    <3>8. below \in Seq(T)
      <4> HIDE DEF below
      <4>1. \A k \in Nat : [1..k -> T] \subseteq Seq(T)
        OBVIOUS
      <4> QED
        BY <3>3, <3>7, <4>1
    <3>9. read[h][n] = ReadNode(n, below)
      <4>1. Beneath(n, h, read[h - 1]) = below
        BY <2>4 DEF Beneath
      <4> QED
        BY <2>2, <4>1
    <3> HIDE DEF below
    <3> QED
      BY <1>2, <2>1, <3>8, <3>9, ReadIsWalkable
  <2> QED
    BY <2>3, <2>4
<1>9. Closed(T, Known)
  BY <1>8 DEF Closed
<1>10. Tree(root[1]) \in T
  <2>1. L \in 0..L /\ L - L = 0 /\ top \in level[0]
    BY <1>5
  <2>2. top \in level[L - L]
    BY <2>1
  <2>3. read[L][top] \in T
    BY <1>7, <2>1, <2>2
  <2> HIDE DEF T
  <2> QED
    BY <1>3, <1>5, <2>3
<1> HIDE DEF T
<1> QED
  BY <1>9, <1>10

(* The levels of a template whose nodes are of a closed set.                *)
LEMMA ClosedLevels ==
  ASSUME NEW T, NEW known, Closed(T, known), NEW top \in T, NEW given
  PROVE  \A d \in 0..MaxDepth : \A p \in NodesAt(top, given)[d] : p[1] \in T
<1> DEFINE S == { d \in 0..MaxDepth : \A p \in NodesAt(top, given)[d] : p[1] \in T }
<1>1. 0 \in S
  <2>1. NodesAt(top, given)[0] = { << top, given >> }
    BY LevelsRun
  <2>2. \A p \in NodesAt(top, given)[0] : p[1] \in T
    BY <2>1
  <2> QED
    BY <2>2, DepthAssumption
<1>2. ASSUME NEW d \in 0..(MaxDepth - 1), d \in S PROVE d + 1 \in S
  <2>1. d + 1 \in 1..MaxDepth /\ (d + 1) - 1 = d /\ d + 1 \in 0..MaxDepth
    BY DepthAssumption
  <2>2. NodesAt(top, given)[d + 1] = Deeper(NodesAt(top, given)[d])
    BY <2>1, LevelsRun
  <2>3. PICK level : level = NodesAt(top, given)[d]
    OBVIOUS
  <2>4. \A p \in level : p[1] \in T
    BY <1>2, <2>3
  <2>5. ASSUME NEW p \in Deeper(level) PROVE p[1] \in T
    <3>1. PICK q \in level : q[1].kind = "element" /\ p \in Within(q)
      BY DEF Deeper
    <3>2. q[1] \in T
      BY <2>4
    <3>3. q[1].children \in Seq(T)
      BY <3>1, <3>2 DEF Closed, Walkable
    <3>4. PICK i \in DOMAIN q[1].children : p = << q[1].children[i], q[2] \cup ColumnsOf(q[1]) >>
      BY <3>1 DEF Within
    <3>5. p[1] = q[1].children[i]
      BY <3>4
    <3>6. q[1].children[i] \in T
      <4>1. PICK s \in Seq(T) : s = q[1].children
        BY <3>3
      <4>2. \A j \in DOMAIN s : s[j] \in T
        BY <4>1
      <4> QED
        BY <3>4, <4>1, <4>2
    <3> QED
      BY <3>5, <3>6
  <2>6. \A p \in NodesAt(top, given)[d + 1] : p[1] \in T
    BY <2>2, <2>3, <2>5
  <2> QED
    BY <2>1, <2>6
<1>3. 0..MaxDepth \subseteq S
  <2> HIDE DEF S
  <2> QED
    BY <1>1, <1>2, DepthAssumption, IntervalInduction
<1> QED
  BY <1>3

-----------------------------------------------------------------------------
(* The arguments: what the template is told it is given is what the cells   *)
(* hold when it is rendered.                                                *)

CellTyped(b, t) ==
  b.has \in BOOLEAN /\ b.table \in 0..t /\ b.memory \in { "live", "freed", "junk" }

Typed(sc, t) == \A n \in DOMAIN sc : CellTyped(sc[n], t)

LEMMA PassedIs ==
  ASSUME NEW i
  PROVE  /\ CellTyped(Passed(i), 0)
         /\ i \in DOMAIN Inputs => Readable(Passed(i), 0)
<1>1. CASE i \in DOMAIN Inputs
  <2>1. PICK v : v = Datum(Arg(Inputs[i].name))
    OBVIOUS
  <2>2. PICK b : b = Passed(i)
    OBVIOUS
  <2>3. b = [has |-> TRUE, value |-> v, table |-> 0, memory |-> "live"]
    BY <1>1, <2>1, <2>2 DEF Passed, Bound
  <2>4. b.has /\ b.has \in BOOLEAN /\ b.table = 0 /\ b.memory = "live" /\ b.value = v
    BY <2>3
  <2>5. nulls = {} => v # Zero
    <3> SUFFICES ASSUME nulls = {} PROVE v # Zero
      OBVIOUS
    <3>1. PICK name : name = Inputs[i].name
      OBVIOUS
    <3>2. v = Arg(name)
      BY <2>1, <3>1 DEF Datum
    <3>3. Arg(name).row = 1 /\ Zero.row = 0
      BY DEF Arg, Zero, Value
    <3> QED
      BY <3>2, <3>3
  <2> QED
    BY <1>1, <2>2, <2>4, <2>5 DEF CellTyped, Readable
<1>2. CASE i \notin DOMAIN Inputs
  <2>1. PICK v : v = Junk
    OBVIOUS
  <2>2. PICK b : b = Passed(i)
    OBVIOUS
  <2>3. b = [[has |-> TRUE, value |-> v, table |-> 0, memory |-> "junk"]
               EXCEPT !.memory = "junk"]
    BY <1>2, <2>1, <2>2 DEF Passed, Unwritten
  <2>4. b.has = TRUE /\ b.table = 0 /\ b.memory = "junk"
    BY <2>3
  <2>a. b.has \in BOOLEAN
    BY <2>4, Zenon
  <2>b. b.table \in 0..0
    BY <2>4
  <2>5. b.has \in BOOLEAN /\ b.table \in 0..0
    BY <2>a, <2>b
  <2>6. CellTyped(b, 0)
    BY <2>4, <2>5 DEF CellTyped
  <2> QED
    BY <1>2, <2>2, <2>6
<1> QED
  BY <1>1, <1>2

LEMMA WithArgumentIs ==
  ASSUME Hashes, ParserInv, NEW i, Args[i].name \in Chars,
         NEW cells, DOMAIN cells = Known
  PROVE  /\ DOMAIN WithArgument(cells, i) = Known
         /\ \A n \in Known : WithArgument(cells, i)[n] =
                               IF n = Args[i].name THEN Passed(i) ELSE cells[n]
<1>1. PICK N \in Nat : N >= 2 /\ Sound(names, N)
  BY DEF ParserInv, Sized
<1>2. PICK name \in Chars : name = Args[i].name
  OBVIOUS
<1>3. PICK id : id = P!Lookup(names, name)
  OBVIOUS
<1>4. WithArgument(cells, i) =
        IF id = 0 THEN cells ELSE [cells EXCEPT ![NameOf(id)] = Passed(i)]
  BY <1>2, <1>3, Zenon DEF WithArgument
<1>5. /\ id \in 0..Len(names.idxs)
      /\ id # 0 => P!Entry(names, id) = name
      /\ name # <<>> /\ id = 0 => \A q \in 0..(N - 1) : names.slots[q] # name
  BY <1>1, <1>3, Found
<1>6. CASE id # 0
  <2>1. NameOf(id) = name
    BY <1>5, <1>6 DEF NameOf
  <2>2. PICK b : b = Passed(i)
    OBVIOUS
  <2>3. WithArgument(cells, i) = [cells EXCEPT ![name] = b]
    BY <1>4, <1>6, <2>1, <2>2
  <2>4. DOMAIN WithArgument(cells, i) = Known
    BY <2>3
  <2>5. \A n \in Known : WithArgument(cells, i)[n] = IF n = name THEN b ELSE cells[n]
    BY <2>3
  <2> QED
    BY <1>2, <2>2, <2>4, <2>5
<1>7. CASE id = 0
  <2>1. name \notin Known
    <3> SUFFICES ASSUME name \in Known PROVE FALSE
      OBVIOUS
    <3>1. PICK j \in DOMAIN names.idxs : name = P!Entry(names, j)
      BY DEF Known, NameOf
    <3>2. names.idxs \in Seq(Nat) /\ names.idxs[j] \in 0..(N - 1)
      BY <1>1 DEF Sound, Tables0
    <3>3. j \in 1..Len(names.idxs)
      BY <3>1, <3>2, SequenceOf
    <3>4. P!Entry(names, j) # <<>>
      BY <1>1, <3>3, EntryType
    <3>5. P!Entry(names, j) = names.slots[names.idxs[j]]
      BY DEF P!Entry
    <3> QED
      BY <1>5, <1>7, <3>1, <3>2, <3>4, <3>5
  <2>2. WithArgument(cells, i) = cells
    BY <1>4, <1>7
  <2> QED
    BY <1>2, <2>1, <2>2
<1> QED
  BY <1>6, <1>7

BindsUp(up, first, L) ==
  up = [i \in 0..L |-> IF i = 0 THEN first ELSE WithArgument(up[i - 1], i)]

LEMMA BindingExists ==
  ASSUME NEW first, NEW L \in Nat
  PROVE  \E up : BindsUp(up, first, L)
<1> DEFINE Solves(up, m) ==
             up = [i \in 0..m |-> IF i = 0 THEN first ELSE WithArgument(up[i - 1], i)]
           S == { m \in 0..L : \E up : Solves(up, m) }
<1>1. 0 \in S
  <2>1. Solves([i \in 0..0 |-> first], 0)
    OBVIOUS
  <2> HIDE DEF Solves
  <2> QED
    BY <2>1
<1>2. ASSUME NEW m \in 0..(L - 1), m \in S PROVE m + 1 \in S
  <2>1. PICK up : Solves(up, m)
    BY <1>2
  <2> DEFINE more == [i \in 0..(m + 1) |->
                       IF i <= m THEN up[i] ELSE WithArgument(up[m], m + 1)]
  <2>2. ASSUME NEW i \in 0..(m + 1)
        PROVE  more[i] = IF i = 0 THEN first ELSE WithArgument(more[i - 1], i)
    <3>1. CASE i = 0
      BY <2>1, <3>1
    <3>2. CASE i \in 1..m
      <4>1. up[i] = WithArgument(up[i - 1], i)
        BY <2>1, <3>2
      <4>2. more[i] = up[i] /\ more[i - 1] = up[i - 1]
        BY <3>2
      <4> QED
        BY <3>2, <4>1, <4>2
    <3>3. CASE i = m + 1
      <4>1. more[i] = WithArgument(up[m], i) /\ more[i - 1] = up[m]
        BY <3>3
      <4> QED
        BY <3>3, <4>1
    <3> QED
      BY <3>1, <3>2, <3>3
  <2>3. Solves(more, m + 1)
    <3> HIDE DEF more
    <3>1. more = [i \in 0..(m + 1) |-> more[i]]
      BY DEF more
    <3> QED
      BY <2>2, <3>1
  <2> HIDE DEF more, Solves
  <2> QED
    BY <2>3
<1>3. 0..L \subseteq S
  <2> HIDE DEF S
  <2> QED
    BY <1>1, <1>2, IntervalInduction
<1>4. PICK up : Solves(up, L)
  <2> HIDE DEF Solves
  <2> QED
    BY <1>3
<1>5. BindsUp(up, first, L)
  BY <1>4 DEF BindsUp
<1> QED
  BY <1>5

LEMMA BindingRuns ==
  ASSUME Len(Args) \in Nat
  PROVE  \E bound : /\ bound[0] = scope /\ ArgumentScope = bound[Len(Args)]
                    /\ \A i \in 1..Len(Args) : bound[i] = WithArgument(bound[i - 1], i)
<1> DEFINE L == Len(Args)
           first == scope
           Solves(up) == BindsUp(up, first, L)
           bound == CHOOSE up : Solves(up)
<1>1. ArgumentScope = bound[L]
  BY Zenon DEF ArgumentScope, BindsUp
<1>2. Solves(bound)
  <2>1. \E up : Solves(up)
    <3> HIDE DEF first, L
    <3>1. L \in Nat
      BY DEF L
    <3> QED
      BY <3>1, BindingExists
  <2> HIDE DEF Solves
  <2> QED
    BY <2>1
<1> HIDE DEF bound
<1>3. PICK up, n : up = bound /\ n = Len(Args)
  OBVIOUS
<1>4. up = [i \in 0..n |-> IF i = 0 THEN scope ELSE WithArgument(up[i - 1], i)]
  BY <1>2, <1>3 DEF BindsUp
<1>5. n \in Nat
  BY <1>3
<1>6. up[0] = scope /\ \A i \in 1..n : up[i] = WithArgument(up[i - 1], i)
  BY <1>4, <1>5
<1> QED
  BY <1>1, <1>3, <1>6

(* An argument's value is there when it is given and no output has its name.*)
LEMMA ArgumentsBound ==
  ASSUME Hashes, ParserInv, Args \in Seq([name : Chars, mode : STRING]),
         DOMAIN scope = Known, Typed(scope, 0)
  PROVE  /\ DOMAIN ArgumentScope = Known /\ Typed(ArgumentScope, 0)
         /\ \A n \in Given \cap Known : Readable(ArgumentScope[n], 0)
<1>1. /\ Len(Args) \in Nat /\ DOMAIN Args = 1..Len(Args)
      /\ \A i \in 1..Len(Args) : Args[i].name \in Chars
  <2>1. PICK S : S = [name : Chars, mode : STRING]
    OBVIOUS
  <2>2. PICK a \in Seq(S) : a = Args
    BY <2>1
  <2>3. Len(a) \in Nat /\ DOMAIN a = 1..Len(a) /\ \A i \in 1..Len(a) : a[i] \in S
    BY SequenceOf, Zenon
  <2> QED
    BY <2>1, <2>2, <2>3
<1>2. PICK L \in Nat : L = Len(Args)
  BY <1>1
<1>3. PICK bound : /\ bound[0] = scope /\ ArgumentScope = bound[L]
                   /\ \A i \in 1..L : bound[i] = WithArgument(bound[i - 1], i)
  BY <1>1, <1>2, BindingRuns
<1> DEFINE Given0(n, i) ==
             /\ \E j \in 1..i : Args[j].name = n
             /\ \A j \in 1..i : Args[j].name = n => j \in DOMAIN Inputs
           Good(i) ==
             /\ DOMAIN bound[i] = Known /\ Typed(bound[i], 0)
             /\ \A n \in Known : Given0(n, i) => Readable(bound[i][n], 0)
           S == { i \in 0..L : Good(i) }
<1>4. 0 \in S
  BY <1>3
<1>5. ASSUME NEW i \in 0..(L - 1), i \in S PROVE i + 1 \in S
  <2>1. i + 1 \in 1..L /\ (i + 1) - 1 = i /\ i + 1 \in 0..L /\ i \in Nat
    OBVIOUS
  <2>2. bound[i + 1] = WithArgument(bound[i], i + 1)
    BY <1>3, <2>1
  <2>3. DOMAIN bound[i] = Known /\ Typed(bound[i], 0)
        /\ \A n \in Known : Given0(n, i) => Readable(bound[i][n], 0)
    BY <1>5
  <2>4. Args[i + 1].name \in Chars
    BY <1>1, <1>2, <2>1
  <2>5. /\ DOMAIN bound[i + 1] = Known
        /\ \A n \in Known : bound[i + 1][n] =
              IF n = Args[i + 1].name THEN Passed(i + 1) ELSE bound[i][n]
    BY <2>2, <2>3, <2>4, WithArgumentIs
  <2>6. Typed(bound[i + 1], 0)
    BY <2>3, <2>5, PassedIs DEF Typed
  <2>7. ASSUME NEW n \in Known, Given0(n, i + 1)
        PROVE  Readable(bound[i + 1][n], 0)
    <3>1. CASE n = Args[i + 1].name
      <4>1. i + 1 \in DOMAIN Inputs
        <5>1. i + 1 \in 1..(i + 1)
          BY <2>1
        <5> QED
          BY <2>7, <3>1, <5>1
      <4> QED
        BY <2>5, <3>1, <4>1, PassedIs
    <3>2. CASE n # Args[i + 1].name
      <4>1. Given0(n, i)
        <5>1. \A j \in 1..(i + 1) : j \in 1..i \/ j = i + 1
          BY <2>1
        <5>2. 1..i \subseteq 1..(i + 1)
          BY <2>1
        <5> QED
          BY <2>7, <3>2, <5>1, <5>2
      <4> QED
        BY <2>3, <2>5, <3>2, <4>1
    <3> QED
      BY <3>1, <3>2
  <2> QED
    BY <2>1, <2>5, <2>6, <2>7
<1>6. 0..L \subseteq S
  <2> HIDE DEF S
  <2> QED
    BY <1>4, <1>5, IntervalInduction
<1>7. Good(L)
  BY <1>6
<1>8. ASSUME NEW n \in Given \cap Known PROVE Readable(ArgumentScope[n], 0)
  <2>1. Given0(n, L)
    BY <1>1, <1>2 DEF Given
  <2> QED
    BY <1>3, <1>7, <2>1
<1> QED
  BY <1>3, <1>7, <1>8

-----------------------------------------------------------------------------
(* The rendering: what Render_proofs says nothing of, that every counter    *)
(* and every result number keeps to its range, and that a rendering begins  *)
(* once only.                                                               *)

FrameRange(f, t) ==
  /\ f.todo \in Todos /\ f.row \in 0..Len(f.rows) /\ f.table \in 0..t
  /\ f.todo \in { "open", "query" } => f.row = 0

Ranges(st, t) == t \in Nat /\ \A i \in 1..Len(st) : FrameRange(st[i], t)

\* the innermost activation is not about to start
Begun(st) == st # <<>> => Last(st).todo # "open"

LEMMA WiderRange ==
  ASSUME NEW f, NEW t \in Nat, FrameRange(f, t)
  PROVE  FrameRange(f, t + 1)
BY DEF FrameRange

LEMMA SwapRanges ==
  ASSUME NEW st, Stacked(st), st # <<>>, NEW t, Ranges(st, t),
         NEW t2 \in { t, t + 1 }, NEW f, FrameRange(f, t2), f.todo # "open",
         NEW st2, st2 = Append(Front(st), f)
  PROVE  Ranges(st2, t2) /\ Begun(st2)
<1>1. PICK m \in Nat \ {0} : m = Len(st)
  <2>1. PICK R : st \in Seq(Frames(Nodes, R))
    BY DEF Stacked
  <2> QED
    BY <2>1, Popped
<1>2. Len(st2) = m /\ st2[m] = f /\ \A i \in 1..(m - 1) : st2[i] = st[i]
  BY <1>1, SwapsAny DEF Swaps
<1>3. t \in Nat /\ t2 \in Nat /\ (t2 = t \/ t2 = t + 1)
  BY DEF Ranges
<1>4. ASSUME NEW i \in 1..m PROVE FrameRange(st2[i], t2)
  <2>1. CASE i = m
    BY <1>2, <2>1
  <2>2. CASE i \in 1..(m - 1)
    <3>1. st2[i] = st[i] /\ FrameRange(st[i], t)
      BY <1>1, <1>2, <2>2 DEF Ranges
    <3> QED
      BY <1>3, <3>1, WiderRange
  <2>3. i = m \/ i \in 1..(m - 1)
    BY ONLY m \in Nat \ {0}, i \in 1..m
  <2> QED
    BY <2>1, <2>2, <2>3
<1>5. Last(st2) = f
  BY <1>2 DEF Last
<1> QED
  BY <1>2, <1>3, <1>4, <1>5 DEF Ranges, Begun

LEMMA PopRanges ==
  ASSUME Renderable, NEW st, Shape(st), st # <<>>, NEW t, Ranges(st, t),
         NEW st2, st2 = Front(st)
  PROVE  Ranges(st2, t) /\ Begun(st2)
<1>1. PICK m \in Nat \ {0} : m = Len(st)
  BY TopFacts
<1>2. /\ Shape(st2) /\ Len(st2) = m - 1
      /\ \A i \in 1..(m - 1) : st2[i] = st[i]
  BY <1>1, PopShape DEF Pops
<1>3. Ranges(st2, t)
  BY <1>1, <1>2 DEF Ranges
<1>4. ASSUME st2 # <<>> PROVE Last(st2).todo # "open"
  <2>1. Len(st2) \in Nat \ {0} /\ Last(st2) = st2[Len(st2)]
    BY <1>2, <1>4, TopFacts
  <2>2. m - 1 \in 1..(m - 1) /\ m - 1 \in 1..Len(st) /\ m - 1 < Len(st)
    BY <1>1, <1>2, <2>1
  <2>3. Last(st2) = st[m - 1]
    BY <1>2, <2>1, <2>2
  <2>4. st[m - 1].todo = "children"
    BY <2>2 DEF Shape, Placed
  <2> QED
    BY <2>3, <2>4
<1> QED
  BY <1>3, <1>4 DEF Begun

LEMMA TopRange ==
  ASSUME IInv, stack # <<>>, Ranges(stack, tables)
  PROVE  /\ FrameRange(Top, tables) /\ tables \in Nat /\ Stacked(stack)
         /\ \E R : Top \in Frames(Nodes, R)
<1>1. /\ Len(stack) \in Nat \ {0} /\ Top = stack[Len(stack)]
      /\ \E R : Top \in Frames(Nodes, R)
  BY TopFacts DEF IInv, Static, Top
<1> QED
  BY <1>1 DEF Ranges, IInv, Shape

LEMMA NowRanges ==
  ASSUME IInv, stack # <<>>, Ranges(stack, tables), NEW todo \in Todos \ { "open" },
         todo = "query" => Top.todo = "open", stack' = Now(todo)
  PROVE  Ranges(stack', tables) /\ Begun(stack')
<1>1. PICK R : Top \in Frames(Nodes, R)
  BY TopRange
<1>2. PICK f : f = [Top EXCEPT !.todo = todo]
  OBVIOUS
<1>3. /\ f.todo = todo /\ f.row = Top.row /\ f.rows = Top.rows /\ f.table = Top.table
  BY <1>1, <1>2 DEF Frames
<1>4. FrameRange(f, tables)
  BY <1>3, TopRange DEF FrameRange
<1>5. stack' = Append(Front(stack), f) /\ Stacked(stack) /\ tables \in Nat
  BY <1>2, TopRange DEF Now, Below
<1> QED
  BY <1>3, <1>4, <1>5, SwapRanges

LEMMA BelowRanges ==
  ASSUME IInv, stack # <<>>, Ranges(stack, tables), stack' = Below
  PROVE  Ranges(stack', tables) /\ Begun(stack')
BY PopRanges DEF IInv, Static, Below

LEMMA RenderNodeRanges ==
  ASSUME IInv, Ranges(stack, tables), RenderNode
  PROVE  Ranges(stack', tables') /\ Begun(stack')
<1>1. stack # <<>> /\ Top.todo = "open" /\ stack' = Rest /\ tables' = tables
  BY DEF RenderNode, Running
<1>2. CASE Top.node.kind = "text" \/ Top.node.void
  BY <1>1, <1>2, BelowRanges DEF Rest
<1>3. CASE ~(Top.node.kind = "text" \/ Top.node.void)
  <2>1. PICK todo : todo = IF Looping THEN "query" ELSE "children"
    OBVIOUS
  <2>2. todo \in Todos \ { "open" }
    BY <2>1 DEF Todos
  <2>3. stack' = Now(todo)
    BY <1>1, <1>3, <2>1 DEF Rest
  <2> QED
    BY <1>1, <2>2, <2>3, NowRanges
<1> QED
  BY <1>2, <1>3

LEMMA RunQueryRanges ==
  ASSUME IInv, Ranges(stack, tables), RunQuery
  PROVE  Ranges(stack', tables') /\ Begun(stack')
<1>1. stack # <<>> /\ Top.todo = "query" /\ tables' = tables + 1
  BY DEF RunQuery, Running
<1>2. PICK text : text = QueryOf(Top.node)[1].id
  OBVIOUS
<1>3. PICK rows, cell : /\ rows = [r \in 1..Fetched(text) |-> cell[r]]
                        /\ stack' = Append(Below, [Top EXCEPT !.todo = "rows",
                                      !.table = tables + 1, !.rows = rows])
  <2>1. PICK contents : contents = QueryOf(Top.node)
    OBVIOUS
  <2>2. PICK J : stack' = Append(Below, [Top EXCEPT
                  !.todo = "rows", !.table = tables + 1,
                  !.rows = [r \in 1..Fetched(text) |->
                             [k \in DOMAIN Columns[text] |->
                               Value(Columns[text][k], text,
                                     Arguments(contents, J), r)]]])
    BY <1>2, <2>1 DEF RunQuery
  <2>3. PICK cell : cell = [r \in 1..Fetched(text) |->
                             [k \in DOMAIN Columns[text] |->
                               Value(Columns[text][k], text,
                                     Arguments(contents, J), r)]]
    OBVIOUS
  <2>4. cell = [r \in 1..Fetched(text) |-> cell[r]]
    BY <2>3
  <2>5. stack' = Append(Below, [Top EXCEPT !.todo = "rows", !.table = tables + 1,
                                           !.rows = cell])
    BY <2>2, <2>3
  <2> QED
    BY <2>4, <2>5
<1>4. Fetched(text) \in Nat
  <2>1. FrameOK(Top) /\ Queryable(Top.node)
    BY <1>1, TopFacts DEF Top, IInv, Static, Placed
  <2>2. HasQuery(Top.node)
    BY <1>1, <2>1 DEF FrameOK, HasQuery
  <2>3. db[text] \in Nat
    BY <1>2, <2>1, <2>2 DEF Queryable, QueryText
  <2> QED
    BY <2>3, LimitAssumption DEF Fetched
<1>5. Len(rows) \in Nat
  BY <1>3, <1>4, LenOf
<1>6. PICK f : f = [Top EXCEPT !.todo = "rows", !.table = tables + 1, !.rows = rows]
  OBVIOUS
<1>7. PICK R : Top \in Frames(Nodes, R)
  BY <1>1, TopRange
<1>8. f.todo = "rows" /\ f.row = Top.row /\ f.rows = rows /\ f.table = tables + 1
  BY <1>6, <1>7 DEF Frames
<1>9. Top.row = 0 /\ tables \in Nat /\ Stacked(stack)
  BY <1>1, TopRange DEF FrameRange
<1>10. FrameRange(f, tables + 1)
  BY <1>5, <1>8, <1>9 DEF FrameRange, Todos
<1>11. stack' = Append(Front(stack), f)
  BY <1>3, <1>6 DEF Below
<1> QED
  BY <1>1, <1>8, <1>9, <1>10, <1>11, SwapRanges

LEMMA BindRowRanges ==
  ASSUME IInv, Ranges(stack, tables), BindRow
  PROVE  Ranges(stack', tables') /\ Begun(stack')
<1>1. /\ stack # <<>> /\ Top.todo = "rows" /\ tables' = tables /\ Top.row < Len(Top.rows)
  BY DEF BindRow, Running
<1>2. PICK f : f = [Top EXCEPT !.row = NextRow, !.todo = "children", !.next = 1]
  OBVIOUS
<1>3. PICK R : Top \in Frames(Nodes, R)
  BY <1>1, TopRange
<1>4. f.todo = "children" /\ f.row = Top.row + 1 /\ f.rows = Top.rows /\ f.table = Top.table
  BY <1>2, <1>3 DEF Frames, NextRow
<1>5. FrameRange(Top, tables) /\ tables \in Nat /\ Stacked(stack)
  BY <1>1, TopRange
<1>6. Len(Top.rows) \in Nat
  <2>0. Placed(stack, Len(stack)) /\ Len(stack) \in Nat \ {0} /\ Top = stack[Len(stack)]
    BY <1>1, TopFacts DEF Top, IInv, Static
  <2>1. FrameOK(Top) /\ Len(stack) \in 1..Len(stack) /\ Top = stack[Len(stack)]
    BY <2>0 DEF Placed
  <2>2. Loops(Top)
    BY <1>1, <2>1 DEF FrameOK, Loops
  <2> QED
    BY <2>1, <2>2 DEF IInv, Results, RowsOK
<1>7. FrameRange(f, tables)
  BY <1>1, <1>4, <1>5, <1>6 DEF FrameRange, Todos
<1>8. stack' = Append(Front(stack), f)
  BY <1>2 DEF BindRow, Below
<1> QED
  BY <1>1, <1>4, <1>5, <1>7, <1>8, SwapRanges

LEMMA RenderChildRanges ==
  ASSUME IInv, Ranges(stack, tables), RenderChild
  PROVE  Ranges(stack', tables') /\ Len(stack') # 1
<1>1. /\ stack # <<>> /\ Top.todo = "children" /\ tables' = tables
      /\ Top.next <= Len(Top.node.children)
  BY DEF RenderChild, Running
<1>2. PICK top, f, g : /\ top = Top /\ f = [top EXCEPT !.next = @ + 1]
                       /\ g = Frame(top.node.children[top.next])
  OBVIOUS
<1>3. PICK m \in Nat \ {0} : m = Len(stack)
  BY <1>1, TopFacts DEF IInv, Static
<1>4. PICK R : top \in Frames(Nodes, R)
  BY <1>1, <1>2, TopRange
<1>5. /\ f \in Frames(Nodes, R) /\ f.todo = "children" /\ f.row = top.row
      /\ f.rows = top.rows /\ f.table = top.table
  <2>1. f = [top EXCEPT !.next = top.next + 1]
    BY <1>2
  <2>2. top.next \in Nat \ {0}
    BY <1>4 DEF Frames
  <2>3. top.next + 1 \in Nat \ {0}
    BY <2>2
  <2> QED
    BY <1>1, <1>2, <1>4, <2>1, <2>3 DEF Frames
<1>6. FrameRange(f, tables) /\ tables \in Nat
  BY <1>1, <1>2, <1>5, TopRange DEF FrameRange
<1>7. FrameRange(g, tables)
  <2>1. g.todo = "open" /\ g.row = 0 /\ g.rows = <<>> /\ g.table = 0
    BY <1>2 DEF Frame
  <2>2. Len(g.rows) = 0
    BY <2>1
  <2> QED
    BY <1>6, <2>1, <2>2 DEF FrameRange, Todos
<1>8. stack' = Append(Front(stack), f) \o << g >>
  BY <1>2 DEF RenderChild, Below
<1>9. Pushes(stack, stack', f, g)
  <2>1. g.node \in Nodes
    BY <1>1, <1>2, NextChild DEF IInv, Static, Top, Frame
  <2>2. PICK n \in Nodes : n = top.node.children[top.next]
    BY <1>2, <2>1 DEF Frame
  <2>3. g = [node |-> n, todo |-> "open", next |-> 1, row |-> 0, rows |-> <<>>, table |-> 0]
    BY <1>2, <2>2 DEF Frame
  <2>4. g \in Frames(Nodes, {<<>>})
    BY <2>3 DEF Frames, Todos
  <2> QED
    BY <1>1, <1>5, <1>8, <2>4, PushStack DEF IInv, Static
<1>10. /\ Len(stack') = m + 1 /\ stack'[m] = f /\ stack'[m + 1] = g
       /\ \A i \in 1..(m - 1) : stack'[i] = stack[i]
  BY <1>3, <1>9 DEF Pushes
<1>11. ASSUME NEW i \in 1..(m + 1) PROVE FrameRange(stack'[i], tables)
  <2>1. CASE i = m \/ i = m + 1
    BY <1>6, <1>7, <1>10, <2>1
  <2>2. CASE i \in 1..(m - 1)
    <3>1. i \in 1..Len(stack) /\ stack'[i] = stack[i]
      BY <1>3, <1>10, <2>2
    <3> QED
      BY <3>1 DEF Ranges
  <2> QED
    BY <2>1, <2>2
<1> QED
  BY <1>1, <1>6, <1>10, <1>11 DEF Ranges

LEMMA RangesStep ==
  ASSUME IInv, Ranges(stack, tables), RenderStep
  PROVE  /\ Ranges(stack', tables')
         /\ status' = "rendering" => Begun(stack') \/ Len(stack') # 1
<1>1. CASE RenderNode
  BY <1>1, RenderNodeRanges
<1>2. CASE RunQuery
  BY <1>2, RunQueryRanges
<1>3. CASE QueryFails \/ BadRead \/ Finish
  <2>1. stack' = stack /\ tables' = tables /\ status' \in { "error", "crashed", "done" }
    BY <1>3 DEF QueryFails, BadRead, Finish
  <2>2. status' # "rendering"
    BY <2>1
  <2> QED
    BY <2>1, <2>2
<1>4. CASE BindRow
  BY <1>4, BindRowRanges
<1>5. CASE FreeRows
  <2>1. stack # <<>> /\ stack' = Now("close") /\ tables' = tables
    BY <1>5 DEF FreeRows, Running
  <2>2. "close" \in Todos \ { "open" } /\ "close" # "query"
    BY DEF Todos
  <2> QED
    BY <2>1, <2>2, NowRanges
<1>6. CASE RenderChild
  BY <1>6, RenderChildRanges
<1>7. CASE EndChildren
  <2>1. PICK todo : todo = IF Looping THEN "rows" ELSE "close"
    OBVIOUS
  <2>2. stack # <<>> /\ stack' = Now(todo) /\ tables' = tables
    BY <1>7, <2>1 DEF EndChildren, Running
  <2>3. todo \in Todos \ { "open" } /\ todo # "query"
    BY <2>1 DEF Todos
  <2> QED
    BY <2>2, <2>3, NowRanges
<1>8. CASE CloseElement
  BY <1>8, BelowRanges DEF CloseElement, Running
<1> QED
  BY <1>1, <1>2, <1>3, <1>4, <1>5, <1>6, <1>7, <1>8 DEF RenderStep

(* The cells                                                                *)
LEMMA TypedWider ==
  ASSUME NEW sc, NEW t \in Nat, Typed(sc, t)
  PROVE  Typed(sc, t + 1)
<1>1. 0..t \subseteq 0..(t + 1)
  OBVIOUS
<1> QED
  BY <1>1 DEF Typed, CellTyped

LEMMA TypedStep ==
  ASSUME IInv, Ranges(stack, tables), Typed(scope, tables), RenderStep
  PROVE  Typed(scope', tables')
<1>1. CASE RunQuery
  <2>1. scope' = scope /\ tables' = tables + 1 /\ tables \in Nat
    BY <1>1 DEF RunQuery, Ranges
  <2> QED
    BY <2>1, TypedWider
<1>2. CASE BindRow
  <2>1. PICK row : row = ThisRow
    OBVIOUS
  <2>2. /\ stack # <<>> /\ scope' = [n \in DOMAIN scope |-> BoundTo(n, row)]
        /\ tables' = tables
    BY <1>2, <2>1 DEF BindRow, Running
  <2>3. Top.table \in 0..tables
    BY <2>2, TopRange DEF FrameRange
  <2>4. ASSUME NEW n \in DOMAIN scope PROVE CellTyped(BoundTo(n, row), tables)
    <3>1. CASE ColumnsNamed(n, row) = {}
      BY <3>1 DEF BoundTo, Typed
    <3>2. CASE ColumnsNamed(n, row) # {}
      <4>1. PICK v, t : /\ v = Datum(row[Max(ColumnsNamed(n, row))]) /\ t = Top.table
                        /\ BoundTo(n, row) = Bound(v, t)
        BY <3>2 DEF BoundTo
      <4>2. PICK b : b = BoundTo(n, row)
        OBVIOUS
      <4>3. b = [has |-> TRUE, value |-> v, table |-> t, memory |-> "live"]
        BY <4>1, <4>2 DEF Bound
      <4>4. b.has /\ b.has \in BOOLEAN /\ b.table = t /\ b.memory = "live"
        BY <4>3
      <4> QED
        BY <2>3, <4>1, <4>2, <4>4 DEF CellTyped
    <3> QED
      BY <3>1, <3>2
  <2> QED
    BY <2>2, <2>4 DEF Typed
<1>3. CASE FreeRows
  <2>1. scope' = Freed(Top.table) /\ tables' = tables
    BY <1>3 DEF FreeRows
  <2>2. PICK t : t = Top.table
    OBVIOUS
  <2>3. scope' = [n \in DOMAIN scope |->
           IF scope[n].table = t THEN [scope[n] EXCEPT !.memory = "freed"] ELSE scope[n]]
    BY <2>1, <2>2 DEF Freed
  <2>4. ASSUME NEW n \in DOMAIN scope PROVE CellTyped(scope'[n], tables)
    <3>1. CellTyped(scope[n], tables)
      BY DEF Typed
    <3>2. CASE scope[n].table # t
      BY <2>3, <3>1, <3>2
    <3>3. CASE scope[n].table = t
      <4>1. PICK b, c : b = scope[n] /\ c = scope'[n] /\ c = [b EXCEPT !.memory = "freed"]
        BY <2>3, <3>3
      <4>2. CellTyped(b, tables)
        BY <3>1, <4>1
      <4>3. c.has = b.has /\ c.table = b.table
        BY <4>1
      <4>4. c.memory \in { "live", "freed", "junk" }
        BY <4>1
      <4> QED
        BY <4>1, <4>2, <4>3, <4>4 DEF CellTyped
    <3> QED
      BY <3>2, <3>3
  <2>5. DOMAIN scope' = DOMAIN scope
    BY <2>3
  <2> QED
    BY <2>1, <2>4, <2>5 DEF Typed
<1>4. CASE ~RunQuery /\ ~BindRow /\ ~FreeRows
  <2>1. scope' = scope /\ tables' = tables
    BY <1>4 DEF RenderStep, RenderNode, QueryFails, RenderChild, EndChildren, CloseElement,
                BadRead, Finish
  <2> QED
    BY <2>1
<1> QED
  BY <1>1, <1>2, <1>3, <1>4

-----------------------------------------------------------------------------
(* The call                                                                 *)

(* A template in reach: its elements nest no deeper than MaxDepth, which is *)
(* the bound of the levels Renderable looks at, and its queries exist.      *)
Executable ==
  status = "binding" =>
    /\ Levels[MaxDepth] = {}
    /\ \A d \in 0..MaxDepth : \A p \in Levels[d] : Queryable(p[1])

(* Parsed and loaded: a tree to walk, what it will be given, empty output.  *)
Loaded ==
  /\ template.names = Known /\ template.given = Given
  /\ \E T : template.root \in T /\ Closed(T, Known)
  /\ DOMAIN scope = Known /\ Typed(scope, 0)
  /\ stack = <<>> /\ out = <<>> /\ tables = 0

Blank ==
  /\ template = NoTemplate /\ scope = <<>> /\ stack = <<>> /\ out = <<>> /\ tables = 0

Statuses ==
  { "parsing", "binding", "rendering", "done", "error", "crashed", "hung" }

Asked == db \in function.tables /\ nulls \in function.nulls

Sequence(st) == \E S : st \in Seq(S)

\* a rendering begins in RenderSafety's Begin, and once only
Fresh == Running("open") /\ Len(stack) = 1 => Begin

CallInv ==
  /\ function \in Calls /\ ParserInv /\ status \in Statuses
  /\ status = "parsing" => Blank
  /\ status = "binding" => Loaded
  /\ status \in { "binding", "rendering", "done" } => Asked
  /\ status = "rendering" => IInv
  /\ Fresh /\ Output
  /\ DOMAIN scope = template.names /\ Typed(scope, tables) /\ Ranges(stack, tables)
  /\ Sequence(stack)

LEMMA FunctionOf ==
  ASSUME function \in Calls
  PROVE  /\ Len(Source(function.lines)) \in Nat
         /\ Args \in Seq([name : Chars, mode : STRING])
<1>1. /\ Source(function.lines) \in Seq(STRING)
      /\ function.args \in Seq([name : Seq(STRING), mode : STRING])
  BY CallsAssumption
<1>2. Len(Source(function.lines)) \in Nat
  <2>1. PICK s \in Seq(STRING) : s = Source(function.lines)
    BY <1>1
  <2> QED
    BY <2>1
<1> QED
  BY <1>1, <1>2 DEF Args, Chars

LEMMA EmptyOutput == stack = <<>> /\ out = <<>> => Output
<1> SUFFICES ASSUME stack = <<>>, out = <<>> PROVE Output
  OBVIOUS
<1>1. EnteredOf(stack) = <<>>
  BY DEF EnteredOf
<1>2. TagNames(<<>>) = <<>>
  BY DEF TagNames
<1>3. out \in Seq({})
  OBVIOUS
<1> QED
  BY <1>1, <1>2, <1>3, TagsEmpty DEF Output

LEMMA EmptyRanges == Ranges(<<>>, 0) /\ Sequence(<<>>)
<1>1. <<>> \in Seq({})
  OBVIOUS
<1> QED
  BY <1>1 DEF Ranges, Sequence

LEMMA NotRunning == status # "rendering" => Fresh
BY DEF Fresh, Running

LEMMA BlankInv ==
  function \in Calls /\ ParserInv /\ status = "parsing" /\ Blank => CallInv
<1> SUFFICES ASSUME function \in Calls, ParserInv, status = "parsing", Blank
             PROVE  CallInv
  OBVIOUS
<1>1. Fresh /\ Output /\ Ranges(stack, tables) /\ Sequence(stack)
  BY NotRunning, EmptyOutput, EmptyRanges DEF Blank
<1>2. DOMAIN scope = template.names /\ Typed(scope, tables)
  <2>1. DOMAIN scope = {}
    BY DEF Blank
  <2>2. template.names = {}
    BY DEF Blank, NoTemplate
  <2> QED
    BY <2>1, <2>2 DEF Typed
<1> QED
  BY <1>1, <1>2 DEF CallInv, Statuses

LEMMA CallInit ==
  ASSUME Init
  PROVE  CallInv
<1>1. function \in Calls /\ status = "parsing" /\ Blank
  BY DEF Init, Blank
<1> QED
  BY <1>1, ParserInit, BlankInv

(* What the parser's variables and the call decide                          *)
LEMMA SameNames ==
  ASSUME UNCHANGED << function, parser >>
  PROVE  Known' = Known /\ Given' = Given
<1>1. function' = function /\ names' = names
  BY DEF parser
<1>2. Known' = Known
  BY <1>1 DEF Known, NameOf, P!Entry
<1>3. Args' = Args /\ Inputs' = Inputs
  BY <1>1 DEF Args, Inputs
<1>4. Given' = Given
  BY <1>3 DEF Given
<1> QED
  BY <1>2, <1>4

LEMMA ParseCall ==
  ASSUME CallInv, ParserInv', Parse
  PROVE  CallInv'
<1>1. (function \in Calls /\ status = "parsing" /\ Blank)'
  BY DEF Parse, CallInv, Blank, NoTemplate, page, call
<1> QED
  BY <1>1, BlankInv, PTL

LEMMA LoadCall ==
  ASSUME CallInv, ParserInv', Load
  PROVE  CallInv'
<1>1. /\ function' = function /\ UNCHANGED parser /\ Known' = Known /\ Given' = Given
      /\ status' = "binding" /\ stack' = stack /\ out' = out /\ tables' = tables
  BY SameNames DEF Load
<1>2. template' = [root |-> Tree(root[1]), given |-> Given, names |-> Known]
  BY DEF Load, Known
<1>3. template'.root = Tree(root[1]) /\ template'.names = Known /\ template'.given = Given
  BY <1>2
<1>4. stack' = <<>> /\ out' = <<>> /\ tables' = 0
  BY <1>1 DEF CallInv, Blank, Load
<1>5. \E T : template'.root \in T /\ Closed(T, Known)
  <2>1. parsing = "parsed" /\ Len(Source(function.lines)) \in Nat
    BY FunctionOf DEF Load, CallInv
  <2> QED
    BY <1>3, <2>1, TreeClosed DEF CallInv
<1>6. PICK h \in [Known -> BOOLEAN] : scope' = [n \in Known |-> Unwritten(h[n])]
  BY <1>3 DEF Load
<1>7. DOMAIN scope' = Known /\ Typed(scope', 0)
  <2>1. ASSUME NEW n \in Known PROVE CellTyped(scope'[n], 0)
    <3>1. PICK b, has : b = scope'[n] /\ b = Unwritten(has) /\ has \in BOOLEAN
      <4>1. scope'[n] = Unwritten(h[n])
        BY <1>6
      <4>2. h[n] \in BOOLEAN
        BY <1>6
      <4> QED
        BY <4>1, <4>2
    <3>2. PICK v : b = [has |-> has, value |-> v, table |-> 0, memory |-> "junk"]
      BY <3>1 DEF Unwritten
    <3>3. b.has \in BOOLEAN
      <4>1. b.has = has
        BY <3>2
      <4> QED
        BY <3>1, <4>1, Zenon
    <3>4. b.table \in 0..0 /\ b.memory = "junk"
      BY <3>2
    <3> QED
      BY <3>1, <3>3, <3>4 DEF CellTyped
  <2> QED
    BY <1>6, <2>1 DEF Typed
<1>8. Loaded'
  BY <1>1, <1>3, <1>4, <1>5, <1>7 DEF Loaded, Closed, Walkable, IsTreeNode
<1>9. Asked'
  BY <1>1 DEF Load, Asked
<1>10. Output' /\ Fresh'
  <2>1. (stack = <<>> /\ out = <<>>)' /\ (status # "rendering")'
    BY <1>1, <1>4
  <2> QED
    BY <2>1, EmptyOutput, NotRunning, PTL
<1>11. /\ DOMAIN scope' = template'.names /\ Typed(scope', tables')
       /\ Ranges(stack', tables') /\ Sequence(stack')
  BY <1>3, <1>4, <1>7, EmptyRanges
<1> QED
  BY <1>1, <1>8, <1>9, <1>10, <1>11 DEF CallInv, Statuses

(* The page's own variables once nothing but the status changes             *)
LEMMA StopCall ==
  ASSUME CallInv, ParserInv', UNCHANGED << function, parser, call, scope, stack, out, tables >>,
         status' \in { "error", "crashed", "hung" }
  PROVE  CallInv'
<1>1. Fresh'
  <2>1. (status # "rendering")'
    OBVIOUS
  <2> QED
    BY <2>1, NotRunning, PTL
<1>2. Output'
  BY OutputSame DEF CallInv
<1>3. /\ function' = function /\ template' = template /\ scope' = scope
      /\ stack' = stack /\ tables' = tables
  BY DEF call
<1>4. status' \notin { "parsing", "binding", "rendering", "done" } /\ status' \in Statuses
  BY DEF Statuses
<1>5. /\ DOMAIN scope' = template'.names /\ Typed(scope', tables')
      /\ Ranges(stack', tables') /\ Sequence(stack') /\ function' \in Calls
  BY <1>3 DEF CallInv
<1> QED
  BY <1>1, <1>2, <1>4, <1>5 DEF CallInv

LEMMA LoadFailsCall ==
  ASSUME CallInv, ParserInv', LoadFails
  PROVE  CallInv'
BY StopCall DEF LoadFails

LEMMA BindFailsCall ==
  ASSUME CallInv, ParserInv', BindFails
  PROVE  CallInv'
BY StopCall DEF BindFails

LEMMA BeginGives == Begin => IInv /\ Output /\ Fresh
BY BeginIInv, BeginOutput DEF Fresh

(* muggin_render is called in the state its invariant begins with.          *)
LEMMA BindBegins ==
  ASSUME Hashes, CallInv, Executable, BindArguments
  PROVE  Begin'
<1>1. /\ status = "binding" /\ UNCHANGED call /\ scope' = ArgumentScope
      /\ stack' = << Frame(template.root) >> /\ status' = "rendering"
      /\ out' = out /\ tables' = tables
  BY DEF BindArguments
<1>2. Loaded /\ function \in Calls /\ ParserInv
  BY <1>1 DEF CallInv
<1>3. Args \in Seq([name : Chars, mode : STRING])
  BY <1>2, FunctionOf
<1>4. /\ DOMAIN ArgumentScope = Known /\ Typed(ArgumentScope, 0)
      /\ \A n \in Given \cap Known : Readable(ArgumentScope[n], 0)
  BY <1>2, <1>3, ArgumentsBound DEF Loaded
<1>5. template' = template /\ db' = db /\ nulls' = nulls /\ Levels' = Levels
  BY <1>1, CallSame
<1>6. PICK T : template.root \in T /\ Closed(T, Known)
  BY <1>2 DEF Loaded
<1>7. ASSUME NEW d \in 0..MaxDepth, NEW p \in Levels[d]
      PROVE  IsTreeNode(p[1]) /\ Queryable(p[1]) /\ UsedBy(p[1]) \subseteq template.names
  <2>1. p[1] \in T
    BY <1>6, ClosedLevels DEF Levels
  <2>2. Walkable(p[1], T, Known)
    BY <1>6, <2>1 DEF Closed
  <2>3. Queryable(p[1])
    BY <1>1 DEF Executable
  <2> QED
    BY <1>2, <2>2, <2>3 DEF Walkable, Loaded
<1>8. Levels[MaxDepth] = {}
  BY <1>1 DEF Executable
<1>9. Renderable
  BY <1>7, <1>8 DEF Renderable
<1>10. Renderable'
  BY <1>5, <1>9 DEF Renderable, Queryable
<1>11. DOMAIN scope' = template'.names
  BY <1>1, <1>2, <1>4, <1>5 DEF Loaded
<1>12. ASSUME NEW n \in template'.given \cap template'.names
       PROVE  Readable(scope[n], 0)'
  <2>1. n \in Given \cap Known
    BY <1>2, <1>5 DEF Loaded
  <2>2. Readable(scope'[n], 0)
    BY <1>1, <1>4, <2>1
  <2> QED
    BY <1>5, <2>2 DEF Readable
<1>13. stack' = << Frame(template.root) >> /\ out' = <<>> /\ tables' = 0
  BY <1>1, <1>2 DEF Loaded
<1> QED
  BY <1>1, <1>5, <1>10, <1>11, <1>12, <1>13 DEF Begin, Frame

LEMMA BindCall ==
  ASSUME Hashes, CallInv, ParserInv', Executable, BindArguments
  PROVE  CallInv'
<1>1. (IInv /\ Output /\ Fresh)'
  BY BindBegins, BeginGives, PTL
<1>2. /\ status = "binding" /\ UNCHANGED call /\ scope' = ArgumentScope
      /\ stack' = << Frame(template.root) >> /\ status' = "rendering"
      /\ tables' = tables /\ function' = function
  BY DEF BindArguments
<1>3. Loaded /\ function \in Calls /\ ParserInv /\ Asked
  BY <1>2 DEF CallInv
<1>4. DOMAIN ArgumentScope = Known /\ Typed(ArgumentScope, 0)
  <2>1. Args \in Seq([name : Chars, mode : STRING])
    BY <1>3, FunctionOf
  <2> QED
    BY <1>3, <2>1, ArgumentsBound DEF Loaded
<1>5. DOMAIN scope' = template'.names /\ Typed(scope', tables')
  BY <1>2, <1>3, <1>4 DEF Loaded, call
<1>6. Ranges(stack', tables') /\ Sequence(stack')
  <2>1. PICK g : g = Frame(template.root)
    OBVIOUS
  <2>2. g.todo = "open" /\ g.row = 0 /\ g.rows = <<>> /\ g.table = 0
    BY <2>1 DEF Frame
  <2>3. FrameRange(g, 0)
    <3>1. Len(g.rows) = 0
      BY <2>2
    <3> QED
      BY <2>2, <3>1 DEF FrameRange, Todos
  <2>4. stack' = << g >> /\ tables' = 0
    BY <1>2, <1>3, <2>1 DEF Loaded
  <2>5. Ranges(stack', tables')
    BY <2>3, <2>4 DEF Ranges
  <2>6. << g >> \in Seq({ g })
    OBVIOUS
  <2>7. stack' \in Seq({ g })
    BY <2>4, <2>6
  <2>8. Sequence(stack')
    BY <2>7, Zenon DEF Sequence
  <2> QED
    BY <2>5, <2>8
<1>7. Asked' /\ function' \in Calls
  BY <1>2, <1>3 DEF Asked, call
<1>8. /\ status' \in Statuses /\ status' # "parsing" /\ status' # "binding"
  BY <1>2 DEF Statuses
<1> QED
  BY <1>1, <1>5, <1>6, <1>7, <1>8 DEF CallInv

LEMMA RenderingCall ==
  ASSUME CallInv, ParserInv', Rendering
  PROVE  CallInv'
<1>1. RenderStep /\ function' = function
  BY DEF Rendering
<1>2. status = "rendering"
  BY <1>1 DEF RenderStep, RenderNode, RunQuery, QueryFails, BindRow, FreeRows, RenderChild,
              EndChildren, CloseElement, BadRead, RiskAhead, Finish, Running
<1>3. UNCHANGED call
  BY <1>1 DEF RenderStep, RenderNode, RunQuery, QueryFails, BindRow, FreeRows, RenderChild,
              EndChildren, CloseElement, BadRead, Finish
<1>4. IInv /\ Asked /\ Output /\ Typed(scope, tables) /\ Ranges(stack, tables)
      /\ function \in Calls
  BY <1>2 DEF CallInv
<1>5. IInv'
  BY <1>1, <1>4, IInvStep
<1>6. Output'
  BY <1>1, <1>4, <1>5, OutputStep
<1>7. Ranges(stack', tables') /\ (status' = "rendering" => Begun(stack') \/ Len(stack') # 1)
  BY <1>1, <1>4, RangesStep
<1>8. Typed(scope', tables')
  BY <1>1, <1>4, TypedStep
<1>9. Fresh'
  <2> SUFFICES ASSUME Running("open")', Len(stack') = 1 PROVE FALSE
    BY DEF Fresh
  <2>1. status' = "rendering" /\ stack' # <<>> /\ Last(stack').todo = "open"
    BY DEF Running, Top
  <2> QED
    BY <1>7, <2>1 DEF Begun
<1>10. DOMAIN scope' = template'.names /\ Sequence(stack')
  <2>1. Shape(stack')
    BY <1>3, <1>5, ShapeAgain
  <2> QED
    BY <1>5, <2>1 DEF IInv, Static, Shape, Stacked, Sequence
<1>11. status' \in { "rendering", "done", "error", "crashed" }
  BY <1>1, <1>2 DEF RenderStep, RenderNode, RunQuery, QueryFails, BindRow, FreeRows,
                    RenderChild, EndChildren, CloseElement, BadRead, Finish
<1>12. Asked' /\ function' \in Calls
  BY <1>1, <1>3, <1>4 DEF Asked, call
<1>13. status' \in Statuses /\ status' # "parsing" /\ status' # "binding"
  BY <1>11 DEF Statuses
<1> QED
  BY <1>5, <1>6, <1>7, <1>8, <1>9, <1>10, <1>12, <1>13 DEF CallInv

LEMMA RestCall ==
  ASSUME CallInv, ParserInv', UNCHANGED vars
  PROVE  CallInv'
<1>1. /\ function' = function /\ UNCHANGED parser /\ UNCHANGED page /\ UNCHANGED call
      /\ scope' = scope /\ stack' = stack /\ out' = out /\ tables' = tables
      /\ status' = status /\ template' = template
  BY DEF vars, page, call
<1>2. Known' = Known /\ Given' = Given
  BY <1>1, SameNames
<1>3. Blank => Blank'
  BY <1>1 DEF Blank, NoTemplate
<1>4. Loaded => Loaded'
  BY <1>1, <1>2 DEF Loaded, Closed, Walkable, IsTreeNode
<1>5. Asked => Asked'
  BY <1>1 DEF Asked, call
<1>6. IInv => IInv'
  BY <1>1, IInvStep
<1>7. Begin => Begin'
  <2>1. Levels' = Levels /\ db' = db /\ nulls' = nulls
    BY <1>1, CallSame
  <2>2. Renderable => Renderable'
    BY <1>1, <2>1 DEF Renderable, Queryable
  <2> QED
    BY <1>1, <2>1, <2>2 DEF Begin, Readable, Frame
<1>8. Fresh => Fresh'
  BY <1>1, <1>7 DEF Fresh, Running, Top
<1>9. Output => Output'
  BY <1>1, OutputSame
<1> QED
  BY <1>1, <1>3, <1>4, <1>5, <1>6, <1>8, <1>9 DEF CallInv

LEMMA CallKept ==
  ASSUME Hashes, CallInv, Executable, [Next]_vars
  PROVE  CallInv'
<1>1. ParserInv'
  BY ParserAdvances DEF CallInv
<1>2. CASE Parse
  BY <1>1, <1>2, ParseCall
<1>3. CASE Load
  BY <1>1, <1>3, LoadCall
<1>4. CASE LoadFails
  BY <1>1, <1>4, LoadFailsCall
<1>5. CASE BindArguments
  BY <1>1, <1>5, BindCall
<1>6. CASE BindFails
  BY <1>1, <1>6, BindFailsCall
<1>7. CASE Rendering
  BY <1>1, <1>7, RenderingCall
<1>8. CASE Stop \/ UNCHANGED vars
  BY <1>1, <1>8, RestCall DEF Stop
<1> QED
  BY <1>2, <1>3, <1>4, <1>5, <1>6, <1>7, <1>8 DEF Next

LEMMA CallInvHolds ==
  ASSUME Hashes
  PROVE  Spec /\ []Executable => []CallInv
<1>1. Init => CallInv
  BY CallInit
<1>2. CallInv /\ Executable /\ [Next]_vars => CallInv'
  BY CallKept
<1> QED
  BY <1>1, <1>2, PTL DEF Spec

LEMMA PoolTyped ==
  ASSUME NEW pool, Sized(pool)
  PROVE  /\ DOMAIN pool.slots = 0..(P!Size(pool) - 1)
         /\ Len(pool.idxs) <= P!Size(pool) /\ ToSet(pool.idxs) \subseteq DOMAIN pool.slots
<1>1. PICK N \in Nat : N >= 2 /\ Sound(pool, N)
  BY DEF Sized
<1>2. pool \in Tables0(N) /\ DOMAIN pool.slots = 0..(N - 1)
  BY <1>1 DEF Sound, Tables0
<1>3. P!Size(pool) = N
  BY <1>2, SizeOf
<1>4. Len(pool.idxs) <= N
  BY <1>1, NoMoreNumbers
<1>5. ToSet(pool.idxs) \subseteq 0..(N - 1)
  BY <1>1 DEF Sound, ToSet
<1> QED
  BY <1>2, <1>3, <1>4, <1>5

LEMMA CallTyped ==
  ASSUME CallInv
  PROVE  TypeOK
<1>1. Running("open") /\ Len(stack) = 1 => Begin
  BY DEF CallInv, Fresh
<1>2. status \in { "binding", "rendering", "done" } =>
        db \in function.tables /\ nulls \in function.nulls
  BY DEF CallInv, Asked
<1>3. parsing \in { "parsing", "parsed", "failed", "error", "crashed", "hung" }
  BY DEF CallInv, ParserInv, Outcomes
<1>4. \A pool \in { constants, names } :
        /\ DOMAIN pool.slots = 0..(P!Size(pool) - 1)
        /\ Len(pool.idxs) <= P!Size(pool) /\ ToSet(pool.idxs) \subseteq DOMAIN pool.slots
  BY PoolTyped DEF CallInv, ParserInv
<1>5. \A n \in DOMAIN scope :
        /\ scope[n].has \in BOOLEAN /\ scope[n].table \in 0..tables
        /\ scope[n].memory \in { "live", "freed", "junk" }
  BY DEF CallInv, Typed, CellTyped
<1>6. DOMAIN stack = 1..Len(stack)
  <2>1. PICK S : stack \in Seq(S)
    BY DEF CallInv, Sequence
  <2> QED
    BY <2>1
<1>7. \A i \in DOMAIN stack :
        /\ stack[i].todo \in { "open", "query", "rows", "children", "close" }
        /\ stack[i].row \in 0..Len(stack[i].rows) /\ stack[i].table \in 0..tables
  BY <1>6 DEF CallInv, Ranges, FrameRange, Todos
<1>8. tables \in Nat /\ DOMAIN scope = template.names
  BY DEF CallInv, Ranges
<1>9. status \in { "parsing", "binding", "rendering", "done", "error", "crashed", "hung" }
  BY DEF CallInv, Statuses
<1> QED
  BY <1>1, <1>2, <1>3, <1>4, <1>5, <1>7, <1>8, <1>9 DEF TypeOK

(* Every variable keeps to its type, the templates a call loads are trees   *)
(* whose names are the scope's, and muggin_render is called in the state    *)
(* the properties of a rendering begin with (plmuggin.c:95-178,             *)
(* muggin.c:435-574, 726-841).                                              *)
THEOREM CallTypeCorrect ==
  ASSUME Hashes
  PROVE  Spec /\ []Executable => []TypeOK
<1>1. CallInv => TypeOK
  BY CallTyped
<1> QED
  BY <1>1, CallInvHolds, PTL

(* When no name hides another, a call reads no cell before it is written or *)
(* after its row is freed, from its arguments and its source to its last    *)
(* row (plmuggin.c:147-178, muggin.c:644, 697, 828, 848).                   *)
THEOREM CallSafeReads ==
  ASSUME Hashes
  PROVE  Spec /\ []Executable => []SafeReads
<1>1. CallInv => SafeReads
  <2> SUFFICES ASSUME CallInv PROVE SafeReads
    OBVIOUS
  <2>1. CASE status = "rendering"
    BY <2>1, SafeNow DEF CallInv
  <2>2. CASE status # "rendering"
    BY <2>2 DEF SafeReads, RiskAhead, Running
  <2> QED
    BY <2>1, <2>2
<1> QED
  BY <1>1, CallInvHolds, PTL

(* The tags of a page nest, whatever source the function has, whatever its  *)
(* queries return and at whatever point the call ends (muggin.c:726-841).   *)
THEOREM CallNested ==
  ASSUME Hashes
  PROVE  Spec /\ []Executable => []Nested
<1>1. CallInv => Nested
  BY NestedOutput DEF CallInv
<1> QED
  BY <1>1, CallInvHolds, PTL

-----------------------------------------------------------------------------
(* Sequences, whatever they hold                                            *)

LEMMA InCommon ==
  ASSUME NEW s, NEW t, Sequence(s), Sequence(t)
  PROVE  \E S : s \in Seq(S) /\ t \in Seq(S)
<1>1. PICK S : s \in Seq(S)
  BY DEF Sequence
<1>2. PICK T : t \in Seq(T)
  BY DEF Sequence
<1>3. Seq(S) \subseteq Seq(S \cup T) /\ Seq(T) \subseteq Seq(S \cup T)
  OBVIOUS
<1> QED
  BY <1>1, <1>2, <1>3

LEMMA Concatenated ==
  ASSUME NEW s, NEW t, Sequence(s), Sequence(t)
  PROVE  Sequence(s \o t) /\ s \o <<>> = s /\ <<>> \o s = s
<1>1. PICK S : s \in Seq(S) /\ t \in Seq(S)
  BY InCommon
<1> QED
  BY <1>1, ConcatProperties, ConcatEmptySeq DEF Sequence

LEMMA Associative ==
  ASSUME NEW s, NEW t, NEW u, Sequence(s), Sequence(t), Sequence(u)
  PROVE  (s \o t) \o u = s \o (t \o u)
<1>1. PICK S : s \in Seq(S) /\ t \in Seq(S)
  BY InCommon
<1>2. PICK T : u \in Seq(T)
  BY DEF Sequence
<1>3. Seq(S) \subseteq Seq(S \cup T) /\ Seq(T) \subseteq Seq(S \cup T)
  OBVIOUS
<1>4. PICK U : s \in Seq(U) /\ t \in Seq(U) /\ u \in Seq(U)
  BY <1>1, <1>2, <1>3
<1> QED
  BY <1>4, ConcatAssociative

LEMMA OneToken ==
  ASSUME NEW x
  PROVE  Sequence(<< x >>) /\ Sequence(<<>>)
<1>1. << x >> \in Seq({ x }) /\ <<>> \in Seq({ x })
  OBVIOUS
<1> QED
  BY <1>1 DEF Sequence

LEMMA OneMore ==
  ASSUME NEW s, Sequence(s), NEW x
  PROVE  Append(s, x) = s \o << x >>
<1>1. Sequence(<< x >>)
  BY OneToken
<1>2. PICK S : s \in Seq(S)
  BY DEF Sequence
<1>3. s \in Seq(S \cup { x }) /\ x \in S \cup { x }
  <2>1. Seq(S) \subseteq Seq(S \cup { x })
    OBVIOUS
  <2> QED
    BY <1>2, <2>1
<1> QED
  BY <1>3, AppendIsConcat

LEMMA FamilyIn ==
  ASSUME NEW L \in Nat, NEW s, s = [i \in 1..L |-> s[i]], \A i \in 1..L : Sequence(s[i])
  PROVE  \E X : s \in Seq(Seq(X)) /\ Len(s) = L
<1> DEFINE X == UNION { ToSet(s[i]) : i \in 1..L }
<1>1. ASSUME NEW i \in 1..L PROVE s[i] \in Seq(X)
  <2>1. PICK S : s[i] \in Seq(S)
    BY DEF Sequence
  <2>2. PICK t : t = s[i]
    OBVIOUS
  <2>3. ToSet(t) \subseteq X
    BY <2>2
  <2> HIDE DEF X
  <2>4. t \in Seq(S)
    BY <2>1, <2>2
  <2>5. Len(t) \in Nat /\ DOMAIN t = 1..Len(t) /\ t = [j \in 1..Len(t) |-> t[j]]
    BY <2>4
  <2>6. \A j \in 1..Len(t) : t[j] \in X
    BY <2>3, <2>5 DEF ToSet
  <2>7. PICK k \in Nat : k = Len(t)
    BY <2>5
  <2>8. t \in [1..k -> X]
    BY <2>5, <2>6, <2>7
  <2>9. \A j \in Nat : [1..j -> X] \subseteq Seq(X)
    OBVIOUS
  <2> QED
    BY <2>2, <2>7, <2>8, <2>9
<1> HIDE DEF X
<1>2. PICK Y : Y = Seq(X)
  OBVIOUS
<1>3. s \in [1..L -> Y]
  BY <1>1, <1>2
<1>4. \A j \in Nat : [1..j -> Y] \subseteq Seq(Y)
  OBVIOUS
<1>5. s \in Seq(Y) /\ Len(s) = L
  BY <1>3, <1>4
<1> QED
  BY <1>2, <1>5

(* What is left of a family of sequences behind the first k, put together   *)
Descends(from, s, L) ==
  /\ from[0] = FlattenSeq(s) /\ from[L] = <<>>
  /\ \A k \in 1..L : from[k - 1] = s[k] \o from[k]
  /\ \A k \in 0..L : Sequence(from[k])

After(s, k) == (CHOOSE from : Descends(from, s, Len(s)))[k]

LEMMA AfterRuns ==
  ASSUME NEW L \in Nat, NEW s, s = [i \in 1..L |-> s[i]], \A i \in 1..L : Sequence(s[i])
  PROVE  /\ After(s, 0) = FlattenSeq(s) /\ After(s, L) = <<>>
         /\ \A k \in 1..L : After(s, k - 1) = s[k] \o After(s, k)
         /\ \A k \in 0..L : Sequence(After(s, k))
<1>1. PICK X : s \in Seq(Seq(X)) /\ Len(s) = L
  BY FamilyIn
<1>2. PICK from : GoesOn(from, s, X, L)
  BY <1>1, FlattenFrom
<1>3. Descends(from, s, L)
  <2>1. \A k \in 0..L : from[k] \in Seq(X)
    BY <1>2 DEF GoesOn
  <2> QED
    BY <1>2, <2>1 DEF GoesOn, Descends, Sequence
<1>4. PICK after : after = CHOOSE up : Descends(up, s, Len(s))
  OBVIOUS
<1>5. Descends(after, s, L)
  BY <1>1, <1>3, <1>4
<1>6. \A k : After(s, k) = after[k]
  BY <1>4 DEF After
<1> QED
  BY <1>5, <1>6 DEF Descends

-----------------------------------------------------------------------------
(* Page's two recursions: the nodes of a level, each with its environment,  *)
(* and their pages from the deepest level up.                               *)

Entries(S) == UNION { ChildrenIn(p) : p \in { q \in S : q[1].kind = "element" } }

PagesOf(S, h, below) ==
  [p \in S |-> PageWith(p[1], p[2], IF h = 0 THEN <<>> ELSE below)]

LEMMA EntriesExist ==
  ASSUME NEW first, NEW L \in Nat
  PROVE  \E up : up = [d \in 0..L |-> IF d = 0 THEN first ELSE Entries(up[d - 1])]
<1> DEFINE Solves(up, m) == up = [d \in 0..m |-> IF d = 0 THEN first ELSE Entries(up[d - 1])]
           S == { m \in 0..L : \E up : Solves(up, m) }
<1>1. 0 \in S
  <2>1. Solves([d \in 0..0 |-> first], 0)
    OBVIOUS
  <2> HIDE DEF Solves
  <2> QED
    BY <2>1
<1>2. ASSUME NEW m \in 0..(L - 1), m \in S PROVE m + 1 \in S
  <2>1. PICK up : Solves(up, m)
    BY <1>2
  <2> DEFINE more == [d \in 0..(m + 1) |-> IF d <= m THEN up[d] ELSE Entries(up[m])]
  <2>2. ASSUME NEW d \in 0..(m + 1)
        PROVE  more[d] = IF d = 0 THEN first ELSE Entries(more[d - 1])
    <3>1. CASE d = 0
      BY <2>1, <3>1
    <3>2. CASE d \in 1..m
      <4>1. up[d] = Entries(up[d - 1])
        BY <2>1, <3>2
      <4>2. more[d] = up[d] /\ more[d - 1] = up[d - 1]
        BY <3>2
      <4> QED
        BY <3>2, <4>1, <4>2
    <3>3. CASE d = m + 1
      <4>1. more[d] = Entries(up[m]) /\ more[d - 1] = up[m]
        BY <3>3
      <4> QED
        BY <3>3, <4>1
    <3> QED
      BY <3>1, <3>2, <3>3
  <2>3. Solves(more, m + 1)
    <3> HIDE DEF more
    <3>1. more = [d \in 0..(m + 1) |-> more[d]]
      BY DEF more
    <3> QED
      BY <2>2, <3>1
  <2> HIDE DEF more, Solves
  <2> QED
    BY <2>3
<1>3. 0..L \subseteq S
  <2> HIDE DEF S
  <2> QED
    BY <1>1, <1>2, IntervalInduction
<1> QED
  BY <1>3

LEMMA DeepestPages ==
  ASSUME NEW S, NEW a, NEW b
  PROVE  PagesOf(S, 0, a) = PagesOf(S, 0, b)
<1>1. \A x : PagesOf(S, 0, x) = [p \in S |-> PageWith(p[1], p[2], <<>>)]
  BY Zenon DEF PagesOf
<1> QED
  BY <1>1

PagesUp(up, lv, L) == up = [h \in 0..L |-> PagesOf(lv[L - h], h, up[h - 1])]

LEMMA PagesExist ==
  ASSUME NEW lv, NEW L \in Nat
  PROVE  \E up : PagesUp(up, lv, L)
<1> DEFINE Solves(up, m) == up = [h \in 0..m |-> PagesOf(lv[L - h], h, up[h - 1])]
           S == { m \in 0..L : \E up : Solves(up, m) }
<1>1. 0 \in S
  <2>1. PICK up : up = [h \in 0..0 |-> PagesOf(lv[L - h], h, <<>>)]
    OBVIOUS
  <2>2. \A h \in 0..0 : up[h] = PagesOf(lv[L - h], h, up[h - 1])
    <3>1. \A h \in 0..0 : h = 0
      OBVIOUS
    <3>2. PagesOf(lv[L - 0], 0, <<>>) = PagesOf(lv[L - 0], 0, up[0 - 1])
      BY DeepestPages
    <3>3. up[0] = PagesOf(lv[L - 0], 0, <<>>)
      BY <2>1
    <3> QED
      BY <3>1, <3>2, <3>3
  <2>3. up = [h \in 0..0 |-> up[h]]
    BY <2>1
  <2>4. Solves(up, 0)
    BY <2>2, <2>3
  <2> HIDE DEF Solves
  <2> QED
    BY <2>4
<1>2. ASSUME NEW m \in 0..(L - 1), m \in S PROVE m + 1 \in S
  <2>1. PICK up : Solves(up, m)
    BY <1>2
  <2> DEFINE more == [h \in 0..(m + 1) |->
                       IF h <= m THEN up[h] ELSE PagesOf(lv[L - (m + 1)], m + 1, up[m])]
  <2>2. ASSUME NEW h \in 0..(m + 1)
        PROVE  more[h] = PagesOf(lv[L - h], h, more[h - 1])
    <3>1. CASE h = 0
      <4>1. up[0] = PagesOf(lv[L - 0], 0, up[0 - 1])
        BY <2>1
      <4>2. PagesOf(lv[L - 0], 0, up[0 - 1]) = PagesOf(lv[L - 0], 0, more[0 - 1])
        BY DeepestPages
      <4>3. more[0] = up[0]
        OBVIOUS
      <4> QED
        BY <3>1, <4>1, <4>2, <4>3
    <3>2. CASE h \in 1..m
      <4>1. up[h] = PagesOf(lv[L - h], h, up[h - 1])
        BY <2>1, <3>2
      <4>2. more[h] = up[h] /\ more[h - 1] = up[h - 1]
        BY <3>2
      <4> QED
        BY <4>1, <4>2
    <3>3. CASE h = m + 1
      <4>1. more[h] = PagesOf(lv[L - h], h, up[m]) /\ more[h - 1] = up[m]
        BY <3>3
      <4> QED
        BY <4>1
    <3> QED
      BY <3>1, <3>2, <3>3
  <2>3. Solves(more, m + 1)
    <3> HIDE DEF more
    <3>1. more = [h \in 0..(m + 1) |-> more[h]]
      BY DEF more
    <3> QED
      BY <2>2, <3>1
  <2> HIDE DEF more, Solves
  <2> QED
    BY <2>3
<1>3. 0..L \subseteq S
  <2> HIDE DEF S
  <2> QED
    BY <1>1, <1>2, IntervalInduction
<1> QED
  BY <1>3 DEF PagesUp

Paging(lv, pg, top, env) ==
  /\ lv[0] = { << top, env >> }
  /\ \A d \in 1..MaxDepth : lv[d] = Entries(lv[d - 1])
  /\ \A h \in 0..MaxDepth : pg[h] = PagesOf(lv[MaxDepth - h], h, pg[h - 1])

LEMMA PageRuns ==
  ASSUME NEW top, NEW env
  PROVE  \E lv, pg : /\ Paging(lv, pg, top, env)
                     /\ Page(top, env) = pg[MaxDepth][<< top, env >>]
<1> DEFINE first == { << top, env >> }
           SolvesL(up) == up = [d \in 0..MaxDepth |-> IF d = 0 THEN first ELSE Entries(up[d - 1])]
           level == CHOOSE up : SolvesL(up)
           SolvesP(up) == PagesUp(up, level, MaxDepth)
           pageOf == CHOOSE up : SolvesP(up)
<1>1. Page(top, env) = pageOf[MaxDepth][<< top, env >>]
  BY Zenon DEF Page, Entries, PagesOf, PagesUp
<1>2. SolvesL(level)
  <2>1. \E up : SolvesL(up)
    <3> HIDE DEF first
    <3> QED
      BY EntriesExist, DepthAssumption
  <2> HIDE DEF SolvesL
  <2> QED
    BY <2>1
<1>3. SolvesP(pageOf)
  <2>1. \E up : SolvesP(up)
    <3> HIDE DEF level
    <3> QED
      BY PagesExist, DepthAssumption
  <2> HIDE DEF SolvesP
  <2> QED
    BY <2>1
<1> HIDE DEF pageOf, level, first
<1>4. level = [d \in 0..MaxDepth |-> IF d = 0 THEN first ELSE Entries(level[d - 1])]
  BY <1>2
<1>5. pageOf = [h \in 0..MaxDepth |-> PagesOf(level[MaxDepth - h], h, pageOf[h - 1])]
  BY <1>3 DEF PagesUp
<1>6. level[0] = first /\ \A d \in 1..MaxDepth : level[d] = Entries(level[d - 1])
  BY <1>4, DepthAssumption
<1>7. \A h \in 0..MaxDepth : pageOf[h] = PagesOf(level[MaxDepth - h], h, pageOf[h - 1])
  BY <1>5
<1>8. Paging(level, pageOf, top, env)
  BY <1>6, <1>7 DEF Paging, first
<1> QED
  BY <1>1, <1>8

-----------------------------------------------------------------------------
(* Environments: what a query's rows add to them                            *)

ArgsIn(n, env) ==
  [k \in DOMAIN Parameters(QueryOf(n)) |-> env[QueryOf(n)[Parameters(QueryOf(n))[k]].id]]

RowsIn(n, env) == RowsOf(QueryText(n), ArgsIn(n, env))

LEMMA InsideIs ==
  ASSUME NEW n, NEW env
  PROVE  Inside(n, env) = IF QueryAttributes(n) = {} THEN << env >>
                          ELSE [r \in DOMAIN RowsIn(n, env) |-> Extended(env, RowsIn(n, env)[r])]
BY Zenon DEF Inside, RowsIn, ArgsIn, QueryText

LEMMA RowsAre ==
  ASSUME NEW text, text \in DOMAIN Columns, NEW L \in Nat, db[text] = L, NEW args
  PROVE  /\ DOMAIN RowsOf(text, args) = 1..L /\ Len(RowsOf(text, args)) = L
         /\ \A r \in 1..L : RowOf(RowsOf(text, args)[r], Columns[text])
<1>1. PICK rows, columns : rows = RowsOf(text, args) /\ columns = Columns[text]
  OBVIOUS
<1>2. rows = [r \in 1..L |-> [k \in DOMAIN columns |-> Value(columns[k], text, args, r)]]
  BY <1>1 DEF RowsOf
<1>3. DOMAIN rows = 1..L /\ rows = [r \in 1..L |-> rows[r]]
  BY <1>2
<1>4. Len(rows) = L
  BY <1>3, LenOf
<1>5. ASSUME NEW r \in 1..L PROVE RowOf(rows[r], columns)
  <2>1. rows[r] = [k \in DOMAIN columns |-> Value(columns[k], text, args, r)]
    BY <1>2
  <2>2. ASSUME NEW k PROVE /\ Value(columns[k], text, args, r).col = columns[k]
                           /\ Value(columns[k], text, args, r).row # Zero.row
    BY DEF Value, Zero
  <2>3. ASSUME NEW k \in DOMAIN columns
        PROVE  rows[r][k].col = columns[k] /\ rows[r][k] # Zero
    <3>1. rows[r][k] = Value(columns[k], text, args, r)
      BY <2>1
    <3> QED
      BY <2>2, <3>1
  <2>4. DOMAIN rows[r] = DOMAIN columns
    BY <2>1
  <2> QED
    BY <2>3, <2>4 DEF RowOf
<1> QED
  BY <1>1, <1>3, <1>4, <1>5

Extends(more, env, row, columns) ==
  /\ DOMAIN more = DOMAIN env \cup ToSet(columns)
  /\ \A n \in ToSet(columns) : \E k \in DOMAIN columns : columns[k] = n /\ more[n] = row[k]
  /\ \A n \in DOMAIN env \ ToSet(columns) : more[n] = env[n]

LEMMA ExtendedIs ==
  ASSUME NEW env, NEW row, NEW columns, RowOf(row, columns)
  PROVE  Extends(Extended(env, row), env, row, columns)
<1>1. DOMAIN row = DOMAIN columns /\ \A k \in DOMAIN columns : row[k].col = columns[k]
  BY DEF RowOf
<1>2. PICK own : own = { row[k].col : k \in DOMAIN row }
  OBVIOUS
<1>3. own = ToSet(columns)
  BY <1>1, <1>2 DEF ToSet
<1>4. PICK more : more = Extended(env, row)
  OBVIOUS
<1>5. more = [n \in DOMAIN env \cup own |->
                IF \E k \in DOMAIN row : row[k].col = n
                  THEN row[CHOOSE k \in DOMAIN row : row[k].col = n] ELSE env[n]]
  BY <1>2, <1>4, Zenon DEF Extended
<1>6. DOMAIN more = DOMAIN env \cup own
  BY <1>5
<1>7. ASSUME NEW n \in own
      PROVE  \E k \in DOMAIN columns : columns[k] = n /\ more[n] = row[k]
  <2>1. \E k \in DOMAIN row : row[k].col = n
    BY <1>2
  <2>2. PICK k : k = CHOOSE j \in DOMAIN row : row[j].col = n
    OBVIOUS
  <2>3. k \in DOMAIN row /\ row[k].col = n
    BY <2>1, <2>2
  <2>4. more[n] = row[k]
    BY <1>5, <2>1, <2>2
  <2> QED
    BY <1>1, <2>3, <2>4
<1>8. ASSUME NEW n \in DOMAIN env \ own PROVE more[n] = env[n]
  <2>1. ~(\E k \in DOMAIN row : row[k].col = n)
    BY <1>2
  <2> QED
    BY <1>5, <2>1
<1>9. Extends(more, env, row, columns)
  BY <1>3, <1>6, <1>7, <1>8 DEF Extends
<1> QED
  BY <1>4, <1>9

LEMMA InsideRuns ==
  ASSUME NEW n, n.kind = "element", Queryable(n), NEW env
  PROVE  \E L \in Nat :
           /\ DOMAIN Inside(n, env) = 1..L
           /\ Inside(n, env) = [r \in 1..L |-> Inside(n, env)[r]]
           /\ \A r \in 1..L : DOMAIN Inside(n, env)[r] = DOMAIN env \cup ColumnsOf(n)
           /\ QueryAttributes(n) = {} => L = 1 /\ Inside(n, env)[1] = env
           /\ QueryAttributes(n) # {} =>
                /\ DOMAIN RowsIn(n, env) = 1..L /\ Len(RowsIn(n, env)) = L
                /\ db[QueryText(n)] = L
                /\ \A r \in 1..L : /\ RowOf(RowsIn(n, env)[r], Columns[QueryText(n)])
                                   /\ Inside(n, env)[r] = Extended(env, RowsIn(n, env)[r])
<1>1. CASE QueryAttributes(n) = {}
  <2>1. Inside(n, env) = << env >> /\ ColumnsOf(n) = {}
    BY <1>1, InsideIs DEF ColumnsOf, HasQuery
  <2>2. << env >> = [r \in 1..1 |-> << env >>[r]] /\ DOMAIN << env >> = 1..1
    OBVIOUS
  <2>3. \A r \in 1..1 : << env >>[r] = env
    OBVIOUS
  <2> QED
    BY <1>1, <2>1, <2>2, <2>3
<1>2. CASE QueryAttributes(n) # {}
  <2>1. PICK text : text = QueryText(n)
    OBVIOUS
  <2>2. /\ HasQuery(n) /\ text \in DOMAIN Columns /\ db[text] \in Nat
        /\ ColumnsOf(n) = ToSet(Columns[text])
    BY <1>2, <2>1 DEF HasQuery, Queryable, ColumnsOf
  <2>3. PICK L \in Nat : L = db[text]
    BY <2>2
  <2>4. PICK rows : rows = RowsIn(n, env)
    OBVIOUS
  <2>5. /\ DOMAIN rows = 1..L /\ Len(rows) = L
        /\ \A r \in 1..L : RowOf(rows[r], Columns[text])
    BY <2>1, <2>2, <2>3, <2>4, RowsAre DEF RowsIn
  <2>6. Inside(n, env) = [r \in 1..L |-> Extended(env, rows[r])]
    BY <1>2, <2>4, <2>5, InsideIs
  <2>7. PICK inside : inside = Inside(n, env)
    OBVIOUS
  <2>8. /\ DOMAIN inside = 1..L /\ inside = [r \in 1..L |-> inside[r]]
        /\ \A r \in 1..L : inside[r] = Extended(env, rows[r])
    BY <2>6, <2>7
  <2>9. \A r \in 1..L : DOMAIN inside[r] = DOMAIN env \cup ColumnsOf(n)
    <3>1. ASSUME NEW r \in 1..L PROVE DOMAIN inside[r] = DOMAIN env \cup ColumnsOf(n)
      <4>1. PICK row, columns : row = rows[r] /\ columns = Columns[text]
        OBVIOUS
      <4>a. RowOf(row, columns)
        BY <2>5, <4>1
      <4>2. DOMAIN Extended(env, row) = DOMAIN env \cup ToSet(columns)
        BY <4>a, ExtendedIs DEF Extends
      <4> QED
        BY <2>2, <2>8, <4>1, <4>2
    <3> QED
      BY <3>1
  <2> QED
    BY <1>2, <2>1, <2>3, <2>4, <2>5, <2>7, <2>8, <2>9
<1> QED
  BY <1>1, <1>2

(* A node and its environment stand where the node and the names bound      *)
(* around it do.                                                            *)
LEMMA LevelsMatch ==
  ASSUME Renderable, NEW lv, NEW pg, NEW env, Paging(lv, pg, template.root, env),
         DOMAIN env = template.given
  PROVE  \A d \in 0..MaxDepth : \A p \in lv[d] :
           p = << p[1], p[2] >> /\ << p[1], DOMAIN p[2] >> \in Levels[d]
<1> DEFINE S == { d \in 0..MaxDepth : \A p \in lv[d] :
                    p = << p[1], p[2] >> /\ << p[1], DOMAIN p[2] >> \in Levels[d] }
<1>1. 0 \in S
  <2>1. lv[0] = { << template.root, env >> }
    BY DEF Paging
  <2>2. Levels[0] = { << template.root, template.given >> }
    BY LevelsRun DEF Levels
  <2> QED
    BY <2>1, <2>2, DepthAssumption
<1>2. ASSUME NEW d \in 0..(MaxDepth - 1), d \in S PROVE d + 1 \in S
  <2>1. d \in 0..MaxDepth /\ d + 1 \in 0..MaxDepth /\ d + 1 \in 1..MaxDepth /\ (d + 1) - 1 = d
    BY DepthAssumption
  <2>2. lv[d + 1] = Entries(lv[d])
    BY <2>1 DEF Paging
  <2>3. ASSUME NEW p \in lv[d + 1]
        PROVE  p = << p[1], p[2] >> /\ << p[1], DOMAIN p[2] >> \in Levels[d + 1]
    <3>1. PICK q \in lv[d] : q[1].kind = "element" /\ p \in ChildrenIn(q)
      BY <2>2 DEF Entries
    <3>2. PICK n, e : n = q[1] /\ e = q[2]
      OBVIOUS
    <3>3. << n, DOMAIN e >> \in Levels[d] /\ n.kind = "element"
      BY <1>2, <3>1, <3>2
    <3>4. PICK i \in DOMAIN n.children, e2 \in ToSet(Inside(n, e)) : p = << n.children[i], e2 >>
      BY <3>1, <3>2 DEF ChildrenIn, ToSet
    <3>5. Queryable(n)
      BY <2>1, <3>3, LevelNodes
    <3>6. DOMAIN e2 = DOMAIN e \cup ColumnsOf(n)
      <4>1. PICK L \in Nat : /\ DOMAIN Inside(n, e) = 1..L
                             /\ \A r \in 1..L : DOMAIN Inside(n, e)[r] = DOMAIN e \cup ColumnsOf(n)
        BY <3>3, <3>5, InsideRuns
      <4>2. PICK r \in 1..L : e2 = Inside(n, e)[r]
        BY <3>4, <4>1 DEF ToSet
      <4> QED
        BY <4>1, <4>2
    <3>7. << n.children[i], DOMAIN e \cup ColumnsOf(n) >> \in Levels[d + 1]
      BY <3>3, LevelChild
    <3>8. p[1] = n.children[i] /\ p[2] = e2
      BY <3>4
    <3> QED
      BY <3>4, <3>6, <3>7, <3>8
  <2> QED
    BY <2>1, <2>3
<1> HIDE DEF S
<1>3. 0..MaxDepth \subseteq S
  BY <1>1, <1>2, IntervalInduction, DepthAssumption
<1> QED
  BY <1>3 DEF S

-----------------------------------------------------------------------------
(* The page of a node, split at the points where a rendering may stand      *)

Kids(n, env, below) == [i \in DOMAIN n.children |-> below[<< n.children[i], env >>]]

Turns(n, env, below) ==
  [r \in DOMAIN Inside(n, env) |-> FlattenSeq(Kids(n, Inside(n, env)[r], below))]

Ending(n, env, below) == FlattenSeq(Turns(n, env, below)) \o << Close(n) >>

LEMMA PageWithIs ==
  ASSUME NEW n, NEW env, NEW below
  PROVE  PageWith(n, env, below) =
           IF n.kind = "text" THEN Said(Contents(n), env)
           ELSE (<< Open(n) >> \o Said(Contents(n), env))
                  \o (IF n.void THEN <<>> ELSE Ending(n, env, below))
BY Zenon DEF PageWith, Ending, Turns, Kids, Contents

LEMMA PageAt ==
  ASSUME NEW lv, NEW pg, NEW top, NEW env0, Paging(lv, pg, top, env0),
         NEW d \in 0..(MaxDepth - 1), NEW n, NEW env, << n, env >> \in lv[d]
  PROVE  pg[MaxDepth - d][<< n, env >>] = PageWith(n, env, pg[(MaxDepth - d) - 1])
<1>1. PICK h : h = MaxDepth - d
  OBVIOUS
<1>2. h \in 0..MaxDepth /\ h # 0 /\ MaxDepth - h = d
  BY <1>1, DepthAssumption
<1>3. pg[h] = PagesOf(lv[d], h, pg[h - 1])
  BY <1>2 DEF Paging
<1>4. PagesOf(lv[d], h, pg[h - 1]) = [p \in lv[d] |-> PageWith(p[1], p[2], pg[h - 1])]
  BY <1>2, Zenon DEF PagesOf
<1>5. pg[h][<< n, env >>] = PageWith(<< n, env >>[1], << n, env >>[2], pg[h - 1])
  BY <1>3, <1>4
<1> QED
  BY <1>1, <1>5

LEMMA EntryBelow ==
  ASSUME NEW lv, NEW pg, NEW top, NEW env0, Paging(lv, pg, top, env0),
         NEW d \in 0..(MaxDepth - 1), NEW n, NEW env, << n, env >> \in lv[d],
         n.kind = "element", NEW r \in DOMAIN Inside(n, env), NEW i \in DOMAIN n.children
  PROVE  << n.children[i], Inside(n, env)[r] >> \in lv[d + 1]
<1>1. d + 1 \in 1..MaxDepth /\ (d + 1) - 1 = d
  BY DepthAssumption
<1>2. lv[d + 1] = Entries(lv[d])
  BY <1>1 DEF Paging
<1>3. PICK p, child, e : p = << n, env >> /\ child = n.children[i] /\ e = Inside(n, env)[r]
  OBVIOUS
<1>4. p \in lv[d] /\ p[1] = n /\ p[2] = env
  BY <1>3
<1>5. child \in ToSet(n.children) /\ e \in ToSet(Inside(n, env))
  BY <1>3 DEF ToSet
<1>6. << child, e >> \in ChildrenIn(p)
  BY <1>4, <1>5 DEF ChildrenIn
<1> QED
  BY <1>2, <1>3, <1>4, <1>6 DEF Entries

LEMMA SaidIs ==
  ASSUME NEW contents \in Seq(Items), NEW env
  PROVE  Sequence(Said(contents, env))
<1>1. PICK L \in Nat : L = Len(contents) /\ DOMAIN contents = 1..L
  BY SequenceOf
<1>2. PICK s : s = [i \in DOMAIN contents |->
                     IF contents[i].type = "constant" THEN << Raw(contents[i].id) >>
                     ELSE IF contents[i].id \in DOMAIN env THEN << Shown(env[contents[i].id]) >>
                     ELSE <<>>]
  OBVIOUS
<1>3. s = [i \in 1..L |-> s[i]]
  BY <1>1, <1>2
<1>4. ASSUME NEW i \in 1..L PROVE Sequence(s[i])
  <2>1. PICK a, b : a = Raw(contents[i].id) /\ b = Shown(env[contents[i].id])
    OBVIOUS
  <2>2. s[i] = << a >> \/ s[i] = << b >> \/ s[i] = <<>>
    BY <1>1, <1>2, <2>1
  <2> QED
    BY <2>2, OneToken
<1>5. Said(contents, env) = FlattenSeq(s)
  BY <1>2, Zenon DEF Said
<1>6. Sequence(After(s, 0)) /\ After(s, 0) = FlattenSeq(s)
  BY <1>1, <1>3, <1>4, AfterRuns
<1> QED
  BY <1>5, <1>6

LEMMA ContentsAre ==
  ASSUME NEW n, IsTreeNode(n)
  PROVE  Contents(n) \in Seq(Items)
<1>1. Contents(n) \in Seq(ItemsOf(UsedBy(n)))
  BY NodeItems
<1>2. ItemsOf(UsedBy(n)) \subseteq Items
  BY DEF ItemsOf
<1>3. \A S, T : S \subseteq T => Seq(S) \subseteq Seq(T)
  OBVIOUS
<1> QED
  BY <1>1, <1>2, <1>3

(* The children of an element in each of its turns, when their pages are    *)
(* sequences                                                                *)
KidsFrom(C, s, n, env, below) ==
  /\ C = Len(n.children) /\ DOMAIN n.children = 1..C
  /\ s = Kids(n, env, below) /\ s = [i \in 1..C |-> s[i]]
  /\ \A i \in 1..C : s[i] = below[<< n.children[i], env >>] /\ Sequence(s[i])

LEMMA KidsAre ==
  ASSUME NEW n, n.kind = "element", IsTreeNode(n), NEW env, NEW below,
         \A i \in DOMAIN n.children : Sequence(below[<< n.children[i], env >>])
  PROVE  \E C \in Nat : \E s : KidsFrom(C, s, n, env, below)
<1>1. PICK C \in Nat : C = Len(n.children) /\ DOMAIN n.children = 1..C
  BY DEF IsTreeNode
<1>2. PICK s : s = Kids(n, env, below)
  OBVIOUS
<1>3. s = [i \in 1..C |-> below[<< n.children[i], env >>]]
  BY <1>1, <1>2 DEF Kids
<1>4. s = [i \in 1..C |-> s[i]] /\ \A i \in 1..C : s[i] = below[<< n.children[i], env >>]
  BY <1>3
<1>5. \A i \in 1..C : Sequence(s[i])
  BY <1>1, <1>4
<1>6. KidsFrom(C, s, n, env, below)
  BY <1>1, <1>2, <1>4, <1>5, Zenon DEF KidsFrom
<1> QED
  BY <1>6, Zenon

LEMMA TurnsAre ==
  ASSUME NEW n, n.kind = "element", IsTreeNode(n), Queryable(n), NEW env, NEW below,
         \A r \in DOMAIN Inside(n, env) : \A i \in DOMAIN n.children :
           Sequence(below[<< n.children[i], Inside(n, env)[r] >>])
  PROVE  \E L \in Nat : \E s :
           /\ DOMAIN Inside(n, env) = 1..L
           /\ s = Turns(n, env, below) /\ s = [r \in 1..L |-> s[r]]
           /\ \A r \in 1..L : /\ s[r] = After(Kids(n, Inside(n, env)[r], below), 0)
                              /\ Sequence(s[r])
<1>1. PICK L \in Nat : DOMAIN Inside(n, env) = 1..L
  BY InsideRuns
<1>2. PICK inside, s : inside = Inside(n, env) /\ s = Turns(n, env, below)
  OBVIOUS
<1>3. s = [r \in 1..L |-> FlattenSeq(Kids(n, inside[r], below))]
  BY <1>1, <1>2 DEF Turns
<1>4. s = [r \in 1..L |-> s[r]] /\ \A r \in 1..L : s[r] = FlattenSeq(Kids(n, inside[r], below))
  BY <1>3
<1>5. ASSUME NEW r \in 1..L
      PROVE  s[r] = After(Kids(n, inside[r], below), 0) /\ Sequence(s[r])
  <2>1. PICK e : e = inside[r]
    OBVIOUS
  <2>2. \A i \in DOMAIN n.children : Sequence(below[<< n.children[i], e >>])
    BY <1>1, <1>2, <2>1
  <2>3. PICK C \in Nat : \E k : KidsFrom(C, k, n, e, below)
    BY <2>2, KidsAre
  <2>a. PICK k : /\ k = Kids(n, e, below) /\ k = [i \in 1..C |-> k[i]]
                 /\ \A i \in 1..C : Sequence(k[i])
    BY <2>3, Zenon DEF KidsFrom
  <2>4. After(k, 0) = FlattenSeq(k) /\ Sequence(After(k, 0))
    <3>1. \A j \in 0..C : Sequence(After(k, j))
      BY <2>a, AfterRuns
    <3>2. After(k, 0) = FlattenSeq(k)
      BY <2>a, AfterRuns
    <3> QED
      BY <3>1, <3>2
  <2> QED
    BY <1>4, <2>1, <2>a, <2>4
<1> QED
  BY <1>1, <1>2, <1>4, <1>5

LEMMA EndingIs ==
  ASSUME NEW n, NEW env, NEW below, NEW L \in Nat, NEW s, s = Turns(n, env, below),
         s = [r \in 1..L |-> s[r]], \A r \in 1..L : Sequence(s[r])
  PROVE  Ending(n, env, below) = After(s, 0) \o << Close(n) >>
         /\ Sequence(Ending(n, env, below))
<1>1. After(s, 0) = FlattenSeq(s) /\ Sequence(After(s, 0))
  BY AfterRuns
<1>2. Sequence(<< Close(n) >>)
  BY OneToken
<1>3. Ending(n, env, below) = After(s, 0) \o << Close(n) >>
  BY <1>1 DEF Ending
<1> QED
  BY <1>1, <1>2, <1>3, Concatenated

LEMMA PageSequence ==
  ASSUME NEW n, IsTreeNode(n), Queryable(n), NEW env, NEW below,
         n.kind = "element" =>
           \A r \in DOMAIN Inside(n, env) : \A i \in DOMAIN n.children :
             Sequence(below[<< n.children[i], Inside(n, env)[r] >>])
  PROVE  Sequence(PageWith(n, env, below))
<1>1. Sequence(Said(Contents(n), env))
  BY ContentsAre, SaidIs
<1>2. CASE n.kind = "text"
  BY <1>1, <1>2, PageWithIs
<1>3. CASE n.kind = "element"
  <2>1. PICK end : end = IF n.void THEN <<>> ELSE Ending(n, env, below)
    OBVIOUS
  <2>2. Sequence(Ending(n, env, below))
    <3>1. PICK L \in Nat : \E s : /\ s = Turns(n, env, below) /\ s = [r \in 1..L |-> s[r]]
                                  /\ \A r \in 1..L : Sequence(s[r])
      BY <1>3, TurnsAre
    <3>2. PICK s : /\ s = Turns(n, env, below) /\ s = [r \in 1..L |-> s[r]]
                   /\ \A r \in 1..L : Sequence(s[r])
      BY <3>1
    <3> QED
      BY <3>2, EndingIs
  <2>3. Sequence(end)
    BY <2>1, <2>2, OneToken
  <2>4. PICK start : start = << Open(n) >> \o Said(Contents(n), env)
    OBVIOUS
  <2>5. Sequence(start)
    BY <1>1, <2>4, OneToken, Concatenated
  <2>6. PageWith(n, env, below) = start \o end
    BY <1>3, <2>1, <2>4, PageWithIs
  <2> QED
    BY <2>3, <2>5, <2>6, Concatenated
<1> QED
  BY <1>2, <1>3 DEF IsTreeNode

LEMMA PagesAreSequences ==
  ASSUME Renderable, NEW lv, NEW pg, NEW env0, Paging(lv, pg, template.root, env0),
         DOMAIN env0 = template.given
  PROVE  \A h \in 0..MaxDepth : \A p \in lv[MaxDepth - h] : Sequence(pg[h][p])
<1> DEFINE S == { h \in 0..MaxDepth : \A p \in lv[MaxDepth - h] : Sequence(pg[h][p]) }
<1>0. \A d \in 0..MaxDepth : \A p \in lv[d] :
        p = << p[1], p[2] >> /\ << p[1], DOMAIN p[2] >> \in Levels[d]
  BY LevelsMatch
<1>1. 0 \in S
  <2>1. MaxDepth - 0 = MaxDepth /\ MaxDepth \in 0..MaxDepth
    BY DepthAssumption
  <2>2. lv[MaxDepth] = {}
    BY <1>0, <2>1 DEF Renderable
  <2> QED
    BY <2>1, <2>2, DepthAssumption
<1>2. ASSUME NEW h \in 0..(MaxDepth - 1), h \in S PROVE h + 1 \in S
  <2>1. PICK d : d = MaxDepth - (h + 1)
    OBVIOUS
  <2>2. /\ d \in 0..(MaxDepth - 1) /\ d \in 0..MaxDepth /\ d + 1 = MaxDepth - h
        /\ MaxDepth - d = h + 1 /\ (MaxDepth - d) - 1 = h /\ h + 1 \in 0..MaxDepth
    BY <2>1, DepthAssumption
  <2>3. ASSUME NEW p \in lv[d] PROVE Sequence(pg[h + 1][p])
    <3>1. PICK n, env : p = << n, env >> /\ n = p[1] /\ env = p[2]
      BY <1>0, <2>2
    <3>2. << n, DOMAIN env >> \in Levels[d]
      BY <1>0, <2>2, <3>1
    <3>3. IsTreeNode(n) /\ Queryable(n)
      BY <2>2, <3>2, LevelNodes
    <3>4. << n, env >> \in lv[d]
      BY <3>1
    <3>5. pg[h + 1][<< n, env >>] = PageWith(n, env, pg[h])
      BY <2>2, <3>4, PageAt
    <3>6. ASSUME n.kind = "element", NEW r \in DOMAIN Inside(n, env), NEW i \in DOMAIN n.children
          PROVE  Sequence(pg[h][<< n.children[i], Inside(n, env)[r] >>])
      <4>1. << n.children[i], Inside(n, env)[r] >> \in lv[MaxDepth - h]
        BY <2>2, <3>4, <3>6, EntryBelow
      <4> QED
        BY <1>2, <4>1
    <3> HIDE DEF S
    <3>7. Sequence(PageWith(n, env, pg[h]))
      BY <3>3, <3>6, PageSequence
    <3> QED
      BY <3>1, <3>5, <3>7
  <2> QED
    BY <2>1, <2>2, <2>3
<1> HIDE DEF S
<1>3. 0..MaxDepth \subseteq S
  BY <1>1, <1>2, IntervalInduction, DepthAssumption
<1> QED
  BY <1>3 DEF S

-----------------------------------------------------------------------------
(* What an activation still has to write                                    *)

Turn(f) == IF QueryAttributes(f.node) = {} THEN 1 ELSE f.row

\* the environment of the children it is at
Inner(f, env) == Inside(f.node, env)[Turn(f)]

TurnsLeft(n, env, below, r) == After(Turns(n, env, below), r) \o << Close(n) >>

KidsLeft(f, env, below) == After(Kids(f.node, Inner(f, env), below), f.next - 1)

Left(f, env, below) ==
  CASE f.todo = "open"     -> PageWith(f.node, env, below)
    [] f.todo = "query"    -> TurnsLeft(f.node, env, below, 0)
    [] f.todo = "rows"     -> TurnsLeft(f.node, env, below, f.row)
    [] f.todo = "children" -> KidsLeft(f, env, below) \o TurnsLeft(f.node, env, below, Turn(f))
    [] f.todo = "close"    -> << Close(f.node) >>

(* It is as far as its counters say, with the rows of its query.            *)
AsFar(f, env) ==
  /\ f.todo \in Todos
  /\ f.todo = "open" => f.row = 0 /\ f.next = 1
  /\ f.todo = "query" => f.row = 0
  /\ f.todo = "rows" => /\ QueryAttributes(f.node) # {} /\ f.rows = RowsIn(f.node, env)
                        /\ f.row \in 0..Len(f.rows)
  /\ f.todo = "children" =>
       /\ QueryAttributes(f.node) # {} => f.rows = RowsIn(f.node, env)
       /\ Turn(f) \in DOMAIN Inside(f.node, env)
       /\ f.next \in 1..(Len(f.node.children) + 1)

\* a node that can be run, and the pages of its children are sequences
Ready(n, env, below) ==
  /\ IsTreeNode(n) /\ Queryable(n)
  /\ n.kind = "element" => \A r \in DOMAIN Inside(n, env) : \A i \in DOMAIN n.children :
       Sequence(below[<< n.children[i], Inside(n, env)[r] >>])

TurnOrder(n, env, below, L) ==
  /\ DOMAIN Inside(n, env) = 1..L
  /\ QueryAttributes(n) = {} => L = 1 /\ Inside(n, env)[1] = env
  /\ QueryAttributes(n) # {} => Len(RowsIn(n, env)) = L
  /\ Ending(n, env, below) = TurnsLeft(n, env, below, 0)
  /\ TurnsLeft(n, env, below, L) = << Close(n) >>
  /\ \A r \in 1..L :
       TurnsLeft(n, env, below, r - 1) =
         After(Kids(n, Inside(n, env)[r], below), 0) \o TurnsLeft(n, env, below, r)
  /\ \A r \in 0..L : Sequence(TurnsLeft(n, env, below, r))

KidOrder(n, e, below, C) ==
  /\ C = Len(n.children) /\ DOMAIN n.children = 1..C
  /\ After(Kids(n, e, below), C) = <<>>
  /\ \A k \in 1..C : /\ After(Kids(n, e, below), k - 1) =
                          below[<< n.children[k], e >>] \o After(Kids(n, e, below), k)
                     /\ Sequence(below[<< n.children[k], e >>])
  /\ \A k \in 0..C : Sequence(After(Kids(n, e, below), k))

LEMMA TurnAfter ==
  ASSUME NEW n, n.kind = "element", NEW env, NEW below, Ready(n, env, below)
  PROVE  \E L \in Nat : TurnOrder(n, env, below, L)
<1>1. /\ IsTreeNode(n) /\ Queryable(n)
      /\ \A r \in DOMAIN Inside(n, env) : \A i \in DOMAIN n.children :
           Sequence(below[<< n.children[i], Inside(n, env)[r] >>])
  BY DEF Ready
<1>2. PICK L \in Nat : \E s :
           /\ DOMAIN Inside(n, env) = 1..L
           /\ s = Turns(n, env, below) /\ s = [r \in 1..L |-> s[r]]
           /\ \A r \in 1..L : /\ s[r] = After(Kids(n, Inside(n, env)[r], below), 0)
                              /\ Sequence(s[r])
  BY <1>1, TurnsAre
<1>3. PICK s :
           /\ DOMAIN Inside(n, env) = 1..L
           /\ s = Turns(n, env, below) /\ s = [r \in 1..L |-> s[r]]
           /\ \A r \in 1..L : /\ s[r] = After(Kids(n, Inside(n, env)[r], below), 0)
                              /\ Sequence(s[r])
  BY <1>2
<1>4. /\ After(s, 0) = FlattenSeq(s) /\ After(s, L) = <<>>
      /\ \A k \in 1..L : After(s, k - 1) = s[k] \o After(s, k)
      /\ \A k \in 0..L : Sequence(After(s, k))
  BY <1>3, AfterRuns
<1>5. PICK close : close = << Close(n) >>
  OBVIOUS
<1>6. Sequence(close)
  BY <1>5, OneToken
<1>7. \A r : TurnsLeft(n, env, below, r) = After(s, r) \o close
  BY <1>3, <1>5 DEF TurnsLeft
<1>8. \A r \in 0..L : Sequence(TurnsLeft(n, env, below, r))
  <2>1. ASSUME NEW r \in 0..L PROVE Sequence(TurnsLeft(n, env, below, r))
    <3>1. PICK a : a = After(s, r)
      OBVIOUS
    <3>2. Sequence(a \o close)
      BY <1>4, <1>6, <3>1, Concatenated
    <3> QED
      BY <1>7, <3>1, <3>2
  <2> QED
    BY <2>1
<1>9. TurnsLeft(n, env, below, L) = close
  BY <1>4, <1>6, <1>7, Concatenated
<1>10. ASSUME NEW r \in 1..L
       PROVE  TurnsLeft(n, env, below, r - 1) =
                After(Kids(n, Inside(n, env)[r], below), 0) \o TurnsLeft(n, env, below, r)
  <2>1. PICK a, b : a = s[r] /\ b = After(s, r)
    OBVIOUS
  <2>2. Sequence(a) /\ Sequence(b) /\ After(s, r - 1) = a \o b
    BY <1>3, <1>4, <2>1
  <2>3. (a \o b) \o close = a \o (b \o close)
    BY <1>6, <2>2, Associative
  <2> QED
    BY <1>3, <1>7, <2>1, <2>2, <2>3
<1>11. Ending(n, env, below) = TurnsLeft(n, env, below, 0)
  <2>1. \A r \in 1..L : Sequence(s[r])
    BY <1>3
  <2>2. Ending(n, env, below) = After(s, 0) \o << Close(n) >>
    BY <1>3, <2>1, EndingIs
  <2> QED
    BY <1>5, <1>7, <2>2
<1>12. /\ QueryAttributes(n) = {} => L = 1 /\ Inside(n, env)[1] = env
       /\ QueryAttributes(n) # {} => Len(RowsIn(n, env)) = L
  <2>1. PICK M \in Nat :
           /\ DOMAIN Inside(n, env) = 1..M
           /\ QueryAttributes(n) = {} => M = 1 /\ Inside(n, env)[1] = env
           /\ QueryAttributes(n) # {} => Len(RowsIn(n, env)) = M
    BY <1>1, InsideRuns
  <2>2. 1..M = 1..L
    BY <1>3, <2>1
  <2>3. M = L
    BY <2>2
  <2> QED
    BY <2>1, <2>3
<1> QED
  BY <1>3, <1>5, <1>8, <1>9, <1>10, <1>11, <1>12 DEF TurnOrder

LEMMA KidAfter ==
  ASSUME NEW n, n.kind = "element", NEW env, NEW below, Ready(n, env, below),
         NEW e, \E r \in DOMAIN Inside(n, env) : e = Inside(n, env)[r]
  PROVE  \E C \in Nat : KidOrder(n, e, below, C)
<1>1. /\ IsTreeNode(n)
      /\ \A i \in DOMAIN n.children : Sequence(below[<< n.children[i], e >>])
  BY DEF Ready
<1>2. PICK C \in Nat : \E s : KidsFrom(C, s, n, e, below)
  BY <1>1, KidsAre
<1>3. PICK s :
           /\ C = Len(n.children) /\ DOMAIN n.children = 1..C
           /\ s = Kids(n, e, below) /\ s = [i \in 1..C |-> s[i]]
           /\ \A i \in 1..C : s[i] = below[<< n.children[i], e >>] /\ Sequence(s[i])
  BY <1>2, Zenon DEF KidsFrom
<1>4. /\ After(s, C) = <<>>
      /\ \A k \in 1..C : After(s, k - 1) = s[k] \o After(s, k)
      /\ \A k \in 0..C : Sequence(After(s, k))
  BY <1>3, AfterRuns
<1> QED
  BY <1>3, <1>4 DEF KidOrder

(* Before an element's children come those of the next turn; a turn comes   *)
(* to its end, and so does the element.                                     *)
LEMMA LeftOpen ==
  ASSUME NEW f, f.node.kind = "element", ~f.node.void, NEW env, NEW below,
         Ready(f.node, env, below), f.todo = "open", f.row = 0, f.next = 1,
         NEW g, g.node = f.node, g.row = f.row, g.next = f.next,
         g.todo = IF QueryAttributes(f.node) = {} THEN "children" ELSE "query"
  PROVE  /\ Left(f, env, below) =
              (<< Open(f.node) >> \o Said(Contents(f.node), env)) \o Left(g, env, below)
         /\ AsFar(g, env)
<1>1. PICK n : n = f.node
  OBVIOUS
<1>2a. PICK L \in Nat : TurnOrder(n, env, below, L)
  BY <1>1, TurnAfter
<1>2. /\ DOMAIN Inside(n, env) = 1..L
      /\ QueryAttributes(n) = {} => L = 1 /\ Inside(n, env)[1] = env
      /\ Ending(n, env, below) = TurnsLeft(n, env, below, 0)
      /\ \A r \in 1..L :
           TurnsLeft(n, env, below, r - 1) =
             After(Kids(n, Inside(n, env)[r], below), 0) \o TurnsLeft(n, env, below, r)
  BY <1>2a DEF TurnOrder
<1>3. Left(f, env, below) =
        (<< Open(n) >> \o Said(Contents(n), env)) \o TurnsLeft(n, env, below, 0)
  BY <1>1, <1>2, PageWithIs DEF Left
<1>4. CASE QueryAttributes(n) # {}
  <2>1. g.todo = "query"
    BY <1>1, <1>4
  <2>2. Left(g, env, below) = TurnsLeft(n, env, below, 0)
    BY <1>1, <2>1 DEF Left
  <2>3. AsFar(g, env)
    BY <2>1 DEF AsFar, Todos
  <2> QED
    BY <1>1, <1>3, <2>2, <2>3
<1>5. CASE QueryAttributes(n) = {}
  <2>1. g.todo = "children" /\ Turn(g) = 1 /\ g.next = 1
    BY <1>1, <1>5 DEF Turn
  <2>2. L = 1 /\ 1 \in 1..L /\ 1 - 1 = 0
    BY <1>2, <1>5
  <2>3. TurnsLeft(n, env, below, 0) =
          After(Kids(n, Inside(n, env)[1], below), 0) \o TurnsLeft(n, env, below, 1)
    BY <1>2, <2>2
  <2>4. KidsLeft(g, env, below) = After(Kids(n, Inside(n, env)[1], below), 0)
    BY <1>1, <2>1, <2>2 DEF KidsLeft, Inner
  <2>5. Left(g, env, below) = TurnsLeft(n, env, below, 0)
    BY <1>1, <2>1, <2>3, <2>4 DEF Left
  <2>6. AsFar(g, env)
    <3>1. Len(n.children) \in Nat
      BY <1>1 DEF Ready, IsTreeNode
    <3>2. g.next \in 1..(Len(g.node.children) + 1)
      BY <1>1, <2>1, <3>1
    <3>3. Turn(g) \in DOMAIN Inside(g.node, env) /\ QueryAttributes(g.node) = {}
      BY <1>1, <1>2, <1>5, <2>1, <2>2
    <3> QED
      BY <2>1, <3>2, <3>3 DEF AsFar, Todos
  <2> QED
    BY <1>1, <1>3, <2>5, <2>6
<1> QED
  BY <1>4, <1>5

LEMMA LeftQuery ==
  ASSUME NEW f, f.node.kind = "element", QueryAttributes(f.node) # {}, NEW env, NEW below,
         Ready(f.node, env, below), f.todo = "query", f.row = 0,
         NEW g, g.node = f.node, g.row = f.row, g.todo = "rows", g.rows = RowsIn(f.node, env)
  PROVE  Left(f, env, below) = Left(g, env, below) /\ AsFar(g, env)
<1>1a. PICK L \in Nat : TurnOrder(f.node, env, below, L)
  BY TurnAfter
<1>1. Len(RowsIn(f.node, env)) = L
  BY <1>1a DEF TurnOrder
<1>2. g.row \in 0..Len(g.rows)
  BY <1>1
<1> QED
  BY <1>2 DEF Left, AsFar, Todos

LEMMA LeftRow ==
  ASSUME NEW f, f.node.kind = "element", NEW env, NEW below,
         Ready(f.node, env, below), f.todo = "rows", AsFar(f, env), f.row < Len(f.rows),
         NEW g, g.node = f.node, g.row = f.row + 1, g.rows = f.rows, g.next = 1,
         g.todo = "children"
  PROVE  Left(f, env, below) = Left(g, env, below) /\ AsFar(g, env)
<1>1. PICK n : n = f.node
  OBVIOUS
<1>2. QueryAttributes(n) # {} /\ f.rows = RowsIn(n, env) /\ f.row \in 0..Len(f.rows)
  BY <1>1 DEF AsFar
<1>3a. PICK L \in Nat : TurnOrder(n, env, below, L)
  BY <1>1, <1>2, TurnAfter
<1>3. /\ DOMAIN Inside(n, env) = 1..L /\ Len(RowsIn(n, env)) = L
      /\ \A r \in 1..L :
           TurnsLeft(n, env, below, r - 1) =
             After(Kids(n, Inside(n, env)[r], below), 0) \o TurnsLeft(n, env, below, r)
  BY <1>1, <1>2, <1>3a DEF TurnOrder
<1>4. PICK r \in 1..L : r = f.row + 1 /\ r - 1 = f.row
  <2>1. PICK k, m : k = f.row /\ m = Len(f.rows)
    OBVIOUS
  <2>2. m = L /\ k \in 0..m /\ k < m
    BY <1>2, <1>3, <2>1
  <2>3. k + 1 \in 1..L /\ (k + 1) - 1 = k
    BY <2>2
  <2> QED
    BY <2>1, <2>3
<1>5. Turn(g) = r /\ g.next - 1 = 0
  BY <1>1, <1>2, <1>4 DEF Turn
<1>6. KidsLeft(g, env, below) = After(Kids(n, Inside(n, env)[r], below), 0)
  BY <1>1, <1>5 DEF KidsLeft, Inner
<1>7. TurnsLeft(n, env, below, f.row) =
        After(Kids(n, Inside(n, env)[r], below), 0) \o TurnsLeft(n, env, below, r)
  BY <1>3, <1>4
<1>8. Left(f, env, below) = Left(g, env, below)
  BY <1>1, <1>5, <1>6, <1>7 DEF Left
<1>9. AsFar(g, env)
  <2>1. Len(n.children) \in Nat
    BY <1>1 DEF Ready, IsTreeNode
  <2>2. g.next \in 1..(Len(g.node.children) + 1)
    BY <1>1, <2>1
  <2>3. Turn(g) \in DOMAIN Inside(g.node, env)
    BY <1>1, <1>3, <1>5
  <2> QED
    BY <1>1, <1>2, <2>2, <2>3 DEF AsFar, Todos
<1> QED
  BY <1>8, <1>9

LEMMA LeftFree ==
  ASSUME NEW f, f.node.kind = "element", NEW env, NEW below,
         Ready(f.node, env, below), f.todo = "rows", AsFar(f, env), f.row = Len(f.rows),
         NEW g, g.node = f.node, g.todo = "close"
  PROVE  Left(f, env, below) = Left(g, env, below) /\ AsFar(g, env)
<1>1. PICK n : n = f.node
  OBVIOUS
<1>2. QueryAttributes(n) # {} /\ f.rows = RowsIn(n, env)
  BY <1>1 DEF AsFar
<1>3. TurnsLeft(n, env, below, f.row) = << Close(n) >>
  <2>1. PICK L \in Nat : TurnOrder(n, env, below, L)
    BY <1>1, TurnAfter
  <2> QED
    BY <1>1, <1>2, <2>1 DEF TurnOrder
<1> QED
  BY <1>1, <1>3 DEF Left, AsFar, Todos

LEMMA LeftChild ==
  ASSUME NEW f, f.node.kind = "element", NEW env, NEW below,
         Ready(f.node, env, below), f.todo = "children", AsFar(f, env),
         f.next <= Len(f.node.children),
         NEW g, g.node = f.node, g.todo = "children", g.row = f.row, g.rows = f.rows,
         g.next = f.next + 1
  PROVE  /\ Left(f, env, below) =
              below[<< f.node.children[f.next], Inner(f, env) >>] \o Left(g, env, below)
         /\ AsFar(g, env) /\ f.next \in DOMAIN f.node.children
         /\ Inner(g, env) = Inner(f, env)
<1>1. PICK n, r, e : n = f.node /\ r = Turn(f) /\ e = Inner(f, env)
  OBVIOUS
<1>2. r \in DOMAIN Inside(n, env) /\ e = Inside(n, env)[r] /\ f.next \in 1..(Len(n.children) + 1)
  BY <1>1 DEF AsFar, Inner
<1>3a. PICK C \in Nat : KidOrder(n, e, below, C)
  BY <1>1, <1>2, KidAfter
<1>3. /\ C = Len(n.children) /\ DOMAIN n.children = 1..C
      /\ \A k \in 1..C : /\ After(Kids(n, e, below), k - 1) =
                              below[<< n.children[k], e >>] \o After(Kids(n, e, below), k)
                         /\ Sequence(below[<< n.children[k], e >>])
      /\ \A k \in 0..C : Sequence(After(Kids(n, e, below), k))
  BY <1>3a DEF KidOrder
<1>4. PICK k \in 1..C : k = f.next /\ g.next - 1 = k
  BY <1>1, <1>2, <1>3
<1>5. Turn(g) = r /\ Inner(g, env) = e
  BY <1>1 DEF Turn, Inner
<1>6. PICK a, b, c : /\ a = below[<< n.children[k], e >>] /\ b = After(Kids(n, e, below), k)
                     /\ c = TurnsLeft(n, env, below, r)
  OBVIOUS
<1>7. Sequence(a) /\ Sequence(b)
  BY <1>3, <1>6
<1>8. Sequence(c)
  <2>1a. PICK L \in Nat : TurnOrder(n, env, below, L)
    BY <1>1, TurnAfter
  <2>1. /\ DOMAIN Inside(n, env) = 1..L
        /\ \A j \in 0..L : Sequence(TurnsLeft(n, env, below, j))
    BY <2>1a DEF TurnOrder
  <2> QED
    BY <1>2, <1>6, <2>1
<1>9. KidsLeft(f, env, below) = a \o b
  BY <1>1, <1>3, <1>4, <1>6 DEF KidsLeft
<1>10. KidsLeft(g, env, below) = b
  BY <1>1, <1>4, <1>5, <1>6 DEF KidsLeft
<1>11. Left(f, env, below) = (a \o b) \o c
  BY <1>1, <1>6, <1>9 DEF Left
<1>12. Left(g, env, below) = b \o c
  BY <1>1, <1>5, <1>6, <1>10 DEF Left
<1>13. (a \o b) \o c = a \o (b \o c)
  BY <1>7, <1>8, Associative
<1>14. AsFar(g, env)
  <2>1. g.next \in 1..(Len(g.node.children) + 1)
    BY <1>1, <1>3, <1>4
  <2>2. Turn(g) \in DOMAIN Inside(g.node, env)
    BY <1>1, <1>2, <1>5
  <2> QED
    BY <2>1, <2>2 DEF AsFar, Todos
<1> QED
  BY <1>1, <1>3, <1>4, <1>5, <1>6, <1>11, <1>12, <1>13, <1>14

LEMMA LeftDone ==
  ASSUME NEW f, f.node.kind = "element", NEW env, NEW below,
         Ready(f.node, env, below), f.todo = "children", AsFar(f, env),
         f.next > Len(f.node.children),
         NEW g, g.node = f.node, g.row = f.row, g.rows = f.rows,
         g.todo = IF QueryAttributes(f.node) = {} THEN "close" ELSE "rows"
  PROVE  Left(f, env, below) = Left(g, env, below) /\ AsFar(g, env)
<1>1. PICK n, r, e : n = f.node /\ r = Turn(f) /\ e = Inner(f, env)
  OBVIOUS
<1>2. r \in DOMAIN Inside(n, env) /\ e = Inside(n, env)[r] /\ f.next \in 1..(Len(n.children) + 1)
  BY <1>1 DEF AsFar, Inner
<1>3a. PICK C \in Nat : KidOrder(n, e, below, C)
  BY <1>1, <1>2, KidAfter
<1>3. C = Len(n.children) /\ After(Kids(n, e, below), C) = <<>>
  BY <1>3a DEF KidOrder
<1>4. f.next - 1 = C
  BY <1>1, <1>2, <1>3
<1>5a. PICK L \in Nat : TurnOrder(n, env, below, L)
  BY <1>1, TurnAfter
<1>5. /\ DOMAIN Inside(n, env) = 1..L
      /\ QueryAttributes(n) = {} => L = 1 /\ Inside(n, env)[1] = env
      /\ QueryAttributes(n) # {} => Len(RowsIn(n, env)) = L
      /\ TurnsLeft(n, env, below, L) = << Close(n) >>
      /\ \A j \in 0..L : Sequence(TurnsLeft(n, env, below, j))
  BY <1>5a DEF TurnOrder
<1>6. Sequence(TurnsLeft(n, env, below, r))
  BY <1>2, <1>5
<1>7. KidsLeft(f, env, below) = <<>>
  BY <1>1, <1>3, <1>4 DEF KidsLeft
<1>8. Left(f, env, below) = TurnsLeft(n, env, below, r)
  <2>1. <<>> \o TurnsLeft(n, env, below, r) = TurnsLeft(n, env, below, r)
    BY <1>6, Concatenated
  <2> QED
    BY <1>1, <1>7, <2>1 DEF Left
<1>9. CASE QueryAttributes(n) = {}
  <2>1. r = 1 /\ L = 1 /\ g.todo = "close"
    BY <1>1, <1>5, <1>9 DEF Turn
  <2>2. Left(g, env, below) = << Close(n) >>
    BY <1>1, <2>1 DEF Left
  <2>3. AsFar(g, env)
    BY <2>1 DEF AsFar, Todos
  <2> QED
    BY <1>5, <1>8, <2>1, <2>2, <2>3
<1>10. CASE QueryAttributes(n) # {}
  <2>1. r = f.row /\ g.todo = "rows" /\ f.rows = RowsIn(n, env)
    BY <1>1, <1>10 DEF Turn, AsFar
  <2>2. Left(g, env, below) = TurnsLeft(n, env, below, r)
    BY <1>1, <2>1 DEF Left
  <2>3. g.row \in 0..Len(g.rows)
    BY <1>2, <1>5, <1>10, <2>1
  <2>4. AsFar(g, env)
    BY <1>1, <1>10, <2>1, <2>3 DEF AsFar, Todos
  <2> QED
    BY <1>8, <2>2, <2>4
<1> QED
  BY <1>9, <1>10

LEMMA LeftSequence ==
  ASSUME NEW f, NEW env, NEW below, Ready(f.node, env, below), AsFar(f, env),
         f.todo # "open" => f.node.kind = "element"
  PROVE  Sequence(Left(f, env, below))
<1>1. PICK n : n = f.node
  OBVIOUS
<1>2. CASE f.todo = "open"
  BY <1>2, PageSequence DEF Left, Ready
<1>3. CASE f.todo # "open"
  <2>1a. PICK L \in Nat : TurnOrder(n, env, below, L)
    BY <1>1, <1>3, TurnAfter
  <2>1. /\ DOMAIN Inside(n, env) = 1..L
        /\ QueryAttributes(n) # {} => Len(RowsIn(n, env)) = L
        /\ \A j \in 0..L : Sequence(TurnsLeft(n, env, below, j))
    BY <2>1a DEF TurnOrder
  <2>2. CASE f.todo = "query"
    <3>1. 0 \in 0..L
      OBVIOUS
    <3> QED
      BY <1>1, <2>1, <2>2, <3>1 DEF Left
  <2>3. CASE f.todo = "rows"
    <3>1. f.row \in 0..L
      BY <1>1, <2>1, <2>3 DEF AsFar
    <3> QED
      BY <1>1, <2>1, <2>3, <3>1 DEF Left
  <2>4. CASE f.todo = "close"
    BY <2>4, OneToken DEF Left
  <2>5. CASE f.todo = "children"
    <3>1. PICK r, e : r = Turn(f) /\ e = Inner(f, env)
      OBVIOUS
    <3>2. /\ r \in DOMAIN Inside(n, env) /\ e = Inside(n, env)[r]
          /\ f.next \in 1..(Len(n.children) + 1)
      BY <1>1, <2>5, <3>1 DEF AsFar, Inner
    <3>3a. PICK C \in Nat : KidOrder(n, e, below, C)
      BY <1>1, <1>3, <3>2, KidAfter
    <3>3. /\ C = Len(n.children)
          /\ \A k \in 0..C : Sequence(After(Kids(n, e, below), k))
      BY <3>3a DEF KidOrder
    <3>4. f.next - 1 \in 0..C
      BY <3>2, <3>3
    <3>5. Sequence(KidsLeft(f, env, below))
      BY <1>1, <3>1, <3>3, <3>4 DEF KidsLeft
    <3>6. r \in 0..L
      BY <2>1, <3>2
    <3>7. Sequence(TurnsLeft(n, env, below, r))
      BY <2>1, <3>6
    <3>8. Sequence(KidsLeft(f, env, below) \o TurnsLeft(n, env, below, r))
      BY <3>5, <3>7, Concatenated
    <3> QED
      BY <1>1, <2>5, <3>1, <3>8 DEF Left
  <2> QED
    BY <1>3, <2>2, <2>3, <2>4, <2>5 DEF AsFar, Todos
<1> QED
  BY <1>2, <1>3

-----------------------------------------------------------------------------
(* The cells agree with the environment of the place: what is written, what *)
(* a query is asked and what its rows bind are what they would be in it.    *)

Agrees(sc, env) == \A n \in DOMAIN env \cap DOMAIN sc : sc[n].value = env[n]

AgreesHere(env) ==
  /\ IInv /\ stack # <<>> /\ Scoped /\ nulls = {}
  /\ DOMAIN env = Around(stack, Len(stack)) /\ Agrees(scope, env)

LEMMA CellReadable ==
  ASSUME IInv, stack # <<>>, Scoped, nulls = {}, NEW n \in UsedBy(Top.node)
  PROVE  \E t : Readable(scope[n], t)
<1>1. PICK m \in Nat \ {0} : m = Len(stack)
  BY TopFacts DEF IInv, Static
<1>2. n \in template.names /\ n \in Around(stack, m)
  BY <1>1, TopFacts DEF IInv, Static, Top
<1>3. n \in DOMAIN scope
  BY <1>2 DEF IInv, Static
<1>4. CASE n \in template.given
  BY <1>3, <1>4 DEF IInv, Cells
<1>5. CASE \E j \in 1..(m - 1) : n \in ColumnsOf(stack[j].node)
  <2>1. PICK j \in 1..(m - 1) : n \in ColumnsOf(stack[j].node)
    BY <1>5
  <2>2. j \in 1..m /\ j < m
    OBVIOUS
  <2>3. stack[j].todo = "children"
    BY <1>1, <2>2 DEF IInv, Shape, Placed
  <2> QED
    BY <1>1, <1>3, <2>1, <2>2, <2>3 DEF IInv, Cells
<1> QED
  BY <1>2, <1>4, <1>5, InAround

LEMMA NameHere ==
  ASSUME NEW env, AgreesHere(env), NEW n \in UsedBy(Top.node)
  PROVE  /\ n \in DOMAIN env /\ n \in DOMAIN scope
         /\ scope[n].has /\ scope[n].value = env[n]
<1>1. PICK m \in Nat \ {0} : m = Len(stack)
  BY TopFacts DEF AgreesHere, IInv, Static
<1>2. n \in template.names /\ n \in Around(stack, m)
  BY <1>1, TopFacts DEF AgreesHere, IInv, Static, Top
<1>3. n \in DOMAIN scope /\ n \in DOMAIN env
  BY <1>1, <1>2 DEF AgreesHere, IInv, Static
<1>4. scope[n].value = env[n]
  BY <1>3 DEF AgreesHere, Agrees
<1>5. scope[n].has
  BY CellReadable DEF AgreesHere, Readable
<1> QED
  BY <1>3, <1>4, <1>5

LEMMA NothingDead ==
  ASSUME NEW env, AgreesHere(env), NEW contents \in Seq(ItemsOf(UsedBy(Top.node))),
         NEW J \in SUBSET DeadItems(contents)
  PROVE  J = {}
<1>1. RiskyItems(contents) = {}
  BY NothingRisky DEF AgreesHere
<1> QED
  BY <1>1 DEF DeadItems

LEMMA ContentsSaid ==
  ASSUME NEW env, AgreesHere(env), NEW contents \in Seq(ItemsOf(UsedBy(Top.node)))
  PROVE  Rendered(contents, {}) = Said(contents, env)
<1>1. PICK a : a = [i \in DOMAIN contents |-> Piece(contents, i, {})]
  OBVIOUS
<1>2. PICK b : b = [i \in DOMAIN contents |->
                     IF contents[i].type = "constant" THEN << Raw(contents[i].id) >>
                     ELSE IF contents[i].id \in DOMAIN env THEN << Shown(env[contents[i].id]) >>
                     ELSE <<>>]
  OBVIOUS
<1>3. ASSUME NEW i \in DOMAIN contents PROVE a[i] = b[i]
  <2>1. contents[i] \in ItemsOf(UsedBy(Top.node))
    OBVIOUS
  <2>2. contents[i].type \in { "constant", "name" }
    BY <2>1 DEF ItemsOf, Items
  <2>3. a[i] = Piece(contents, i, {})
    BY <1>1
  <2>4. CASE contents[i].type = "constant"
    <3>1. Piece(contents, i, {}) = << Raw(contents[i].id) >>
      BY <2>4 DEF Piece
    <3> QED
      BY <1>2, <2>3, <2>4, <3>1
  <2>5. CASE contents[i].type = "name"
    <3>1. PICK n : n = contents[i].id
      OBVIOUS
    <3>2. n \in UsedBy(Top.node)
      BY <2>1, <2>5, <3>1 DEF ItemsOf
    <3>3. n \in DOMAIN env /\ scope[n].has /\ scope[n].value = env[n]
      BY <3>2, NameHere
    <3>4. contents[i].type # "constant"
      BY <2>5
    <3>5. Piece(contents, i, {}) = << Shown(scope[n].value) >>
      BY <3>1, <3>3, <3>4 DEF Piece, ReadItem
    <3>6. b[i] = << Shown(env[n]) >>
      BY <1>2, <3>1, <3>3, <3>4
    <3> QED
      BY <2>3, <3>3, <3>5, <3>6
  <2> QED
    BY <2>2, <2>4, <2>5
<1>4. a = b
  BY <1>1, <1>2, <1>3
<1> QED
  BY <1>1, <1>2, <1>4, Zenon DEF Rendered, Said

LEMMA ParametersAre ==
  ASSUME NEW contents \in Seq(Items)
  PROVE  \A k \in DOMAIN Parameters(contents) :
           /\ Parameters(contents)[k] \in DOMAIN contents
           /\ contents[Parameters(contents)[k]].type = "name"
<1> DEFINE X == { i \in DOMAIN contents : contents[i].type = "name" }
<1>1. PICK L \in Nat : L = Len(contents) /\ DOMAIN contents = 1..L
  BY SequenceOf
<1>2. PICK s : s = [i \in DOMAIN contents |->
                     IF contents[i].type = "name" THEN << i >> ELSE <<>>]
  OBVIOUS
<1>3. ASSUME NEW i \in 1..L PROVE s[i] \in Seq(X)
  <2>1. CASE contents[i].type = "name"
    <3>1. s[i] = << i >> /\ i \in X
      BY <1>1, <1>2, <2>1
    <3> HIDE DEF X
    <3> QED
      BY <3>1
  <2>2. CASE contents[i].type # "name"
    <3>1. s[i] = <<>>
      BY <1>1, <1>2, <2>2
    <3> HIDE DEF X
    <3> QED
      BY <3>1
  <2> QED
    BY <2>1, <2>2
<1> HIDE DEF X
<1>4. PICK Y : Y = Seq(X)
  OBVIOUS
<1>5. s = [i \in 1..L |-> s[i]] /\ \A i \in 1..L : s[i] \in Y
  BY <1>1, <1>2, <1>3, <1>4
<1>6. s \in [1..L -> Y]
  BY <1>5
<1>7. \A j \in Nat : [1..j -> Y] \subseteq Seq(Y)
  OBVIOUS
<1>8. s \in Seq(Seq(X))
  BY <1>4, <1>6, <1>7
<1>9. Parameters(contents) \in Seq(X)
  BY <1>2, <1>8, FlattenType, Zenon DEF Parameters
<1>10. \A k \in DOMAIN Parameters(contents) : Parameters(contents)[k] \in X
  BY <1>9
<1> QED
  BY <1>10 DEF X

LEMMA ArgumentsSaid ==
  ASSUME NEW env, AgreesHere(env), QueryOf(Top.node) \in Seq(ItemsOf(UsedBy(Top.node)))
  PROVE  Arguments(QueryOf(Top.node), {}) = ArgsIn(Top.node, env)
<1>1. PICK q : q = QueryOf(Top.node)
  OBVIOUS
<1>2. PICK p : p = Parameters(q)
  OBVIOUS
<1>3. q \in Seq(Items)
  <2>1. PICK I, T : I = ItemsOf(UsedBy(Top.node)) /\ T = Items
    OBVIOUS
  <2>2. I \subseteq T /\ q \in Seq(I)
    BY <1>1, <2>1 DEF ItemsOf
  <2>3. q \in Seq(T)
    BY <2>2
  <2> QED
    BY <2>1, <2>3
<1>4. \A k \in DOMAIN p : p[k] \in DOMAIN q /\ q[p[k]].type = "name"
  BY <1>2, <1>3, ParametersAre
<1>5. ASSUME NEW k \in DOMAIN p PROVE ReadItem(q, p[k], {}) = env[q[p[k]].id]
  <2>1. PICK i \in DOMAIN q : i = p[k] /\ q[i].type = "name"
    BY <1>4
  <2>2. q[i] \in ItemsOf(UsedBy(Top.node))
    BY <1>1
  <2>3. q[i].id \in UsedBy(Top.node)
    BY <2>1, <2>2 DEF ItemsOf
  <2>4. scope[q[i].id].value = env[q[i].id]
    BY <2>3, NameHere
  <2> QED
    BY <2>1, <2>4 DEF ReadItem
<1>6. Arguments(q, {}) = [k \in DOMAIN p |-> ReadItem(q, p[k], {})]
  BY <1>2, Zenon DEF Arguments
<1>7. ArgsIn(Top.node, env) = [k \in DOMAIN p |-> env[q[p[k]].id]]
  BY <1>1, <1>2, Zenon DEF ArgsIn
<1> QED
  BY <1>1, <1>5, <1>6, <1>7

\* no result is cut off
AllFetched == \A t \in DOMAIN db : db[t] <= RowLimit

LEMMA RowsSaid ==
  ASSUME NEW env, AgreesHere(env), AllFetched, Top.todo = "query", NEW J,
         J \in SUBSET DeadItems(QueryOf(Top.node)),
         NEW text, text = QueryText(Top.node)
  PROVE  [r \in 1..Fetched(text) |->
           [k \in DOMAIN Columns[text] |->
             Value(Columns[text][k], text, Arguments(QueryOf(Top.node), J), r)]]
           = RowsIn(Top.node, env)
<1>1. FrameOK(Top) /\ Queryable(Top.node) /\ IsTreeNode(Top.node)
  BY TopFacts DEF AgreesHere, Top, IInv, Static, Placed
<1>2. Top.node.kind = "element" /\ QueryAttributes(Top.node) # {} /\ HasQuery(Top.node)
  BY <1>1 DEF FrameOK, HasQuery
<1>3. QueryOf(Top.node) \in Seq(ItemsOf(UsedBy(Top.node)))
  BY <1>1, <1>2, QueryItems
<1>4. J = {}
  BY <1>3, NothingDead
<1>5. PICK args : args = Arguments(QueryOf(Top.node), J) /\ args = ArgsIn(Top.node, env)
  BY <1>3, <1>4, ArgumentsSaid
<1>6. Fetched(text) = db[text]
  <2>1. text \in DOMAIN db /\ db[text] \in Nat
    BY <1>1, <1>2 DEF Queryable
  <2>2. ~(db[text] > RowLimit)
    BY <2>1, LimitAssumption DEF AllFetched
  <2> QED
    BY <2>2 DEF Fetched
<1>7. RowsIn(Top.node, env) =
        [r \in 1..db[text] |->
          [k \in DOMAIN Columns[text] |-> Value(Columns[text][k], text, args, r)]]
  BY <1>5, Zenon DEF RowsIn, RowsOf
<1> QED
  BY <1>5, <1>6, <1>7

(* Every column of a name has one value in a row.                           *)
LEMMA OneValue ==
  ASSUME NEW text, NEW args, NEW rows, rows = RowsOf(text, args), NEW r \in DOMAIN rows
  PROVE  \A j, k \in DOMAIN rows[r] : rows[r][j].col = rows[r][k].col => rows[r][j] = rows[r][k]
<1>1. PICK columns : columns = Columns[text]
  OBVIOUS
<1>2. rows = [i \in 1..db[text] |-> [k \in DOMAIN columns |-> Value(columns[k], text, args, i)]]
  BY <1>1 DEF RowsOf
<1>3. PICK row : row = rows[r]
  OBVIOUS
<1>4. row = [k \in DOMAIN columns |-> Value(columns[k], text, args, r)]
  BY <1>2, <1>3
<1>5. ASSUME NEW j \in DOMAIN row, NEW k \in DOMAIN row, row[j].col = row[k].col
      PROVE  row[j] = row[k]
  <2>1. row[j] = Value(columns[j], text, args, r) /\ row[k] = Value(columns[k], text, args, r)
    BY <1>4
  <2>2. \A c : Value(c, text, args, r).col = c
    BY DEF Value
  <2>3. columns[j] = columns[k]
    BY <1>5, <2>1, <2>2
  <2> QED
    BY <2>1, <2>3
<1> QED
  BY <1>3, <1>5

LEMMA BoundValue ==
  ASSUME nulls = {}, NEW row, NEW n, ColumnsNamed(n, row) # {},
         NEW k, k = Max(ColumnsNamed(n, row))
  PROVE  BoundTo(n, row).value = row[k]
<1>1. PICK v : v = row[k]
  OBVIOUS
<1>2. Datum(v) = v
  BY DEF Datum
<1>3. BoundTo(n, row) = Bound(v, Top.table)
  BY <1>1, <1>2 DEF BoundTo
<1>4. Bound(v, Top.table).value = v
  BY DEF Bound
<1> QED
  BY <1>1, <1>3, <1>4

LEMMA RowBound ==
  ASSUME nulls = {}, NEW env, Agrees(scope, env), NEW text \in DOMAIN Columns,
         NEW row, RowOf(row, Columns[text]),
         \A j, k \in DOMAIN row : row[j].col = row[k].col => row[j] = row[k],
         NEW sc, sc = [n \in DOMAIN scope |-> BoundTo(n, row)]
  PROVE  Agrees(sc, Extended(env, row))
<1>1. PICK columns : columns = Columns[text]
  OBVIOUS
<1>2. /\ DOMAIN row = DOMAIN columns /\ \A k \in DOMAIN columns : row[k].col = columns[k]
      /\ RowOf(row, columns)
  BY <1>1 DEF RowOf
<1>3. columns \in Seq(Seq(STRING))
  BY <1>1, ColumnsAssumption
<1>4. PICK L \in Nat : DOMAIN columns = 1..L
  BY <1>3
<1>5. PICK more : more = Extended(env, row)
  OBVIOUS
<1>6. /\ DOMAIN more = DOMAIN env \cup ToSet(columns)
      /\ \A n \in ToSet(columns) : \E k \in DOMAIN columns : columns[k] = n /\ more[n] = row[k]
      /\ \A n \in DOMAIN env \ ToSet(columns) : more[n] = env[n]
  <2>1. Extends(more, env, row, columns)
    BY <1>2, <1>5, ExtendedIs
  <2> QED
    BY <2>1 DEF Extends
<1>7. DOMAIN sc = DOMAIN scope /\ \A n \in DOMAIN scope : sc[n] = BoundTo(n, row)
  OBVIOUS
<1>8. ASSUME NEW n \in DOMAIN more \cap DOMAIN scope PROVE BoundTo(n, row).value = more[n]
  <2>1. CASE n \in ToSet(columns)
    <3>1. PICK k \in DOMAIN columns : columns[k] = n /\ more[n] = row[k]
      BY <1>6, <2>1
    <3>2. PICK S : S = ColumnsNamed(n, row)
      OBVIOUS
    <3>3. k \in S /\ S \subseteq 1..L /\ \A i \in S : row[i].col = n /\ i \in DOMAIN row
      BY <1>2, <1>4, <3>1, <3>2 DEF ColumnsNamed
    <3>4. PICK j : j = Max(S)
      OBVIOUS
    <3>5. j \in S
      BY <3>3, <3>4, MaxOfPositions
    <3>6. row[j] = row[k]
      <4>1. /\ j \in DOMAIN row /\ k \in DOMAIN row /\ row[j].col = n /\ row[k].col = n
        BY <3>3, <3>5
      <4> QED
        BY <4>1
    <3>7. BoundTo(n, row).value = row[j]
      BY <3>2, <3>3, <3>4, BoundValue
    <3> QED
      BY <3>1, <3>6, <3>7
  <2>2. CASE n \notin ToSet(columns)
    <3>1. n \in DOMAIN env /\ more[n] = env[n]
      BY <1>6, <2>2
    <3>2. ColumnsNamed(n, row) = {}
      BY <1>2, <2>2 DEF ColumnsNamed, ToSet
    <3>3. BoundTo(n, row) = scope[n]
      BY <3>2 DEF BoundTo
    <3>4. scope[n].value = env[n]
      BY <3>1 DEF Agrees
    <3> QED
      BY <3>1, <3>3, <3>4
  <2> QED
    BY <2>1, <2>2
<1>9. Agrees(sc, more)
  BY <1>7, <1>8 DEF Agrees
<1> QED
  BY <1>5, <1>9

(* Behind the turn of an element what was around it is as before.           *)
LEMMA AroundAgrees ==
  ASSUME NEW n, n.kind = "element", Queryable(n), NEW env, NEW r \in DOMAIN Inside(n, env),
         NEW sc, Agrees(sc, Inside(n, env)[r]), ColumnsOf(n) \cap DOMAIN env = {}
  PROVE  Agrees(sc, env)
<1>1. PICK inside, e : inside = Inside(n, env) /\ e = inside[r]
  OBVIOUS
<1>2. PICK L \in Nat :
        /\ DOMAIN inside = 1..L
        /\ \A j \in 1..L : DOMAIN inside[j] = DOMAIN env \cup ColumnsOf(n)
        /\ QueryAttributes(n) = {} => L = 1 /\ inside[1] = env
        /\ QueryAttributes(n) # {} =>
             \A j \in 1..L : /\ RowOf(RowsIn(n, env)[j], Columns[QueryText(n)])
                             /\ inside[j] = Extended(env, RowsIn(n, env)[j])
  BY <1>1, InsideRuns
<1>3. CASE QueryAttributes(n) = {}
  <2>1. r = 1 /\ e = env
    BY <1>1, <1>2, <1>3
  <2> QED
    BY <1>1, <2>1
<1>4. CASE QueryAttributes(n) # {}
  <2>1. PICK row, columns : row = RowsIn(n, env)[r] /\ columns = Columns[QueryText(n)]
    OBVIOUS
  <2>2. RowOf(row, columns) /\ e = Extended(env, row)
    BY <1>1, <1>2, <1>4, <2>1
  <2>3. \A m \in DOMAIN env \ ToSet(columns) : e[m] = env[m]
    <3>1. RowOf(row, columns)
      BY <2>2
    <3>2. Extends(e, env, row, columns)
      BY <2>2, <3>1, ExtendedIs
    <3> QED
      BY <3>2 DEF Extends
  <2>4. ColumnsOf(n) = ToSet(columns)
    BY <1>4, <2>1 DEF ColumnsOf, HasQuery
  <2>5. \A m \in DOMAIN env : e[m] = env[m] /\ m \in DOMAIN e
    BY <1>1, <1>2, <2>3, <2>4
  <2>6. Agrees(sc, e)
    BY <1>1
  <2> QED
    BY <2>5, <2>6 DEF Agrees
<1> QED
  BY <1>3, <1>4

LEMMA FreedAgrees ==
  ASSUME NEW env, Agrees(scope, env), NEW t, NEW sc, sc = Freed(t)
  PROVE  Agrees(sc, env)
<1>1. DOMAIN sc = DOMAIN scope
  BY DEF Freed
<1>2. ASSUME NEW n \in DOMAIN scope PROVE sc[n].value = scope[n].value
  <2>1. PICK b : b = scope[n]
    OBVIOUS
  <2>2. sc[n] = IF b.table = t THEN [b EXCEPT !.memory = "freed"] ELSE b
    BY <2>1 DEF Freed
  <2>3. [b EXCEPT !.memory = "freed"].value = b.value
    OBVIOUS
  <2> QED
    BY <2>1, <2>2, <2>3
<1> QED
  BY <1>1, <1>2 DEF Agrees

-----------------------------------------------------------------------------
(* What is written and what every activation has left to write is the whole *)
(* page, however far the rendering is: E[i] is the environment of the i-th  *)
(* activation, R[i] what it and those around it have left.                  *)

Together(a, b) == a \o b

\* the pages of the nodes below the i-th activation's
BelowAt(pg, i) == pg[MaxDepth - i]

StandsAt(lv, f, e, i, around) ==
  << f.node, e >> \in lv[i - 1] /\ DOMAIN e = around /\ AsFar(f, e)

LeftAt(pg, st, E, i) == Left(st[i], E[i], BelowAt(pg, i))

Placing(lv, st, E) ==
  /\ \A i \in 1..Len(st) : StandsAt(lv, st[i], E[i], i, Around(st, i))
  /\ \A i \in 1..(Len(st) - 1) : E[i + 1] = Inner(st[i], E[i])

Remaining(pg, st, E, R) ==
  /\ R[0] = <<>>
  /\ \A i \in 1..Len(st) : R[i] = Together(LeftAt(pg, st, E, i), R[i - 1])
  /\ \A i \in 0..Len(st) : Sequence(R[i])

Continues(lv, pg, st, E, R, written, total) ==
  /\ Placing(lv, st, E) /\ Remaining(pg, st, E, R)
  /\ Sequence(written) /\ Together(written, R[Len(st)]) = total

LEMMA JoinedTo ==
  ASSUME NEW a, NEW b, Sequence(a), Sequence(b)
  PROVE  Sequence(Together(a, b)) /\ Together(a, <<>>) = a /\ Together(<<>>, b) = b
BY Concatenated DEF Together

LEMMA JoinedThrough ==
  ASSUME NEW a, NEW b, NEW c, Sequence(a), Sequence(b), Sequence(c)
  PROVE  Together(Together(a, b), c) = Together(a, Together(b, c))
BY Associative DEF Together

LEMMA SameAround ==
  ASSUME NEW st, NEW st2, NEW m \in Nat, \A j \in 1..m : st2[j].node = st[j].node
  PROVE  \A i \in 1..(m + 1) : Around(st2, i) = Around(st, i)
<1>1. ASSUME NEW i \in 1..(m + 1) PROVE Around(st2, i) = Around(st, i)
  <2>1. \A j \in 1..(i - 1) : st2[j].node = st[j].node
    OBVIOUS
  <2> QED
    BY <2>1, AroundSame
<1> QED
  BY <1>1

(* The innermost activation writes what it had left up to f.                *)
LEMMA SwapContinues ==
  ASSUME NEW lv, NEW pg, NEW st, NEW E, NEW R, NEW written, NEW total,
         Continues(lv, pg, st, E, R, written, total),
         NEW m \in Nat \ {0}, Len(st) = m, NEW f, f.node = st[m].node, AsFar(f, E[m]),
         NEW st2, Swaps(st, st2, f), NEW w, Sequence(w),
         Sequence(Left(f, E[m], BelowAt(pg, m))),
         LeftAt(pg, st, E, m) = Together(w, Left(f, E[m], BelowAt(pg, m)))
  PROVE  \E R2 : Continues(lv, pg, st2, E, R2, Together(written, w), total)
<1>1. PICK left, rest : left = Left(f, E[m], BelowAt(pg, m)) /\ rest = R[m - 1]
  OBVIOUS
<1>2. Placing(lv, st, E) /\ Remaining(pg, st, E, R) /\ Sequence(written)
      /\ Together(written, R[m]) = total
  BY DEF Continues
<1>3. Len(st2) = m /\ st2[m] = f /\ \A i \in 1..(m - 1) : st2[i] = st[i]
  BY DEF Swaps
<1>4. \A i \in 1..m : i = m \/ i \in 1..(m - 1)
  OBVIOUS
<1>5. \A i \in 1..m : Around(st2, i) = Around(st, i)
  <2>1. \A i \in 1..m : st2[i].node = st[i].node
    BY <1>3, <1>4
  <2>2. \A i \in 1..(m + 1) : Around(st2, i) = Around(st, i)
    BY <2>1, SameAround
  <2> QED
    BY <2>2
<1>6. Placing(lv, st2, E)
  <2>1. \A i \in 1..m : StandsAt(lv, st[i], E[i], i, Around(st, i))
    BY <1>2 DEF Placing
  <2>2. ASSUME NEW i \in 1..m PROVE StandsAt(lv, st2[i], E[i], i, Around(st2, i))
    <3>1. CASE i = m
      BY <1>3, <1>5, <2>1, <3>1 DEF StandsAt
    <3>2. CASE i \in 1..(m - 1)
      BY <1>3, <1>5, <2>1, <3>2
    <3> QED
      BY <1>4, <3>1, <3>2
  <2>3. \A i \in 1..(m - 1) : E[i + 1] = Inner(st2[i], E[i])
    BY <1>2, <1>3 DEF Placing
  <2> QED
    BY <1>3, <2>2, <2>3 DEF Placing
<1>7. /\ R[0] = <<>> /\ R[m] = Together(Together(w, left), rest)
      /\ \A i \in 1..m : R[i] = Together(LeftAt(pg, st, E, i), R[i - 1])
      /\ \A i \in 0..m : Sequence(R[i])
  BY <1>1, <1>2 DEF Remaining
<1>8. Sequence(rest) /\ Sequence(left)
  BY <1>1, <1>7
<1>9. PICK tail : tail = Together(left, rest)
  OBVIOUS
<1>10. Sequence(tail) /\ R[m] = Together(w, tail)
  BY <1>7, <1>8, <1>9, JoinedTo, JoinedThrough
<1>11. Together(Together(written, w), tail) = total /\ Sequence(Together(written, w))
  BY <1>2, <1>10, JoinedTo, JoinedThrough
<1>12. PICK R2 : R2 = [i \in 0..m |-> IF i = m THEN tail ELSE R[i]]
  OBVIOUS
<1>13. R2[m] = tail /\ \A i \in 0..(m - 1) : R2[i] = R[i]
  BY <1>12
<1>14. Remaining(pg, st2, E, R2)
  <2>1. ASSUME NEW i \in 1..m PROVE R2[i] = Together(LeftAt(pg, st2, E, i), R2[i - 1])
    <3>1. CASE i = m
      BY <1>1, <1>3, <1>9, <1>13, <3>1 DEF LeftAt
    <3>2. CASE i \in 1..(m - 1)
      <4>1. R2[i] = R[i] /\ R2[i - 1] = R[i - 1]
        BY <1>13, <3>2
      <4> QED
        BY <1>3, <1>7, <3>2, <4>1 DEF LeftAt
    <3> QED
      BY <1>4, <3>1, <3>2
  <2>2. R2[0] = <<>> /\ \A i \in 0..m : Sequence(R2[i])
    <3>1. \A i \in 0..m : i = m \/ i \in 0..(m - 1)
      OBVIOUS
    <3> QED
      BY <1>7, <1>10, <1>13, <3>1
  <2> QED
    BY <1>3, <2>1, <2>2 DEF Remaining
<1> QED
  BY <1>3, <1>6, <1>11, <1>13, <1>14 DEF Continues

(* It writes all it had left, and is gone.                                  *)
LEMMA PopContinues ==
  ASSUME NEW lv, NEW pg, NEW st, NEW E, NEW R, NEW written, NEW total,
         Continues(lv, pg, st, E, R, written, total),
         NEW m \in Nat \ {0}, Len(st) = m, NEW st2, Pops(st, st2),
         NEW w, Sequence(w), LeftAt(pg, st, E, m) = w
  PROVE  Continues(lv, pg, st2, E, R, Together(written, w), total)
<1>1. PICK rest : rest = R[m - 1]
  OBVIOUS
<1>2. Placing(lv, st, E) /\ Remaining(pg, st, E, R) /\ Sequence(written)
      /\ Together(written, R[m]) = total
  BY DEF Continues
<1>3. Len(st2) = m - 1 /\ \A i \in 1..(m - 1) : st2[i] = st[i]
  BY DEF Pops
<1>4. \A i \in 1..(m - 1) : i \in 1..m /\ Around(st2, i) = Around(st, i)
  <2>1. \A i \in 1..(m - 1) : st2[i].node = st[i].node
    BY <1>3
  <2>2. PICK k \in Nat : k = m - 1
    OBVIOUS
  <2>3. \A i \in 1..k : st2[i].node = st[i].node
    BY <2>1, <2>2
  <2>4. \A i \in 1..(k + 1) : Around(st2, i) = Around(st, i)
    BY <2>3, SameAround
  <2> QED
    BY <2>2, <2>4
<1>5. Placing(lv, st2, E)
  <2>1. \A i \in 1..m : StandsAt(lv, st[i], E[i], i, Around(st, i))
    BY <1>2 DEF Placing
  <2>2. \A i \in 1..(m - 1) : StandsAt(lv, st2[i], E[i], i, Around(st2, i))
    BY <1>3, <1>4, <2>1
  <2>3. \A i \in 1..((m - 1) - 1) : E[i + 1] = Inner(st2[i], E[i])
    BY <1>2, <1>3 DEF Placing
  <2> QED
    BY <1>3, <2>2, <2>3 DEF Placing
<1>6. /\ R[0] = <<>> /\ R[m] = Together(w, rest)
      /\ \A i \in 1..m : R[i] = Together(LeftAt(pg, st, E, i), R[i - 1])
      /\ \A i \in 0..m : Sequence(R[i])
  BY <1>1, <1>2 DEF Remaining
<1>7. Sequence(rest)
  BY <1>1, <1>6
<1>8. Together(Together(written, w), rest) = total /\ Sequence(Together(written, w))
  BY <1>2, <1>6, <1>7, JoinedTo, JoinedThrough
<1>9. Remaining(pg, st2, E, R)
  <2>1. \A i \in 1..(m - 1) : R[i] = Together(LeftAt(pg, st2, E, i), R[i - 1])
    BY <1>3, <1>4, <1>6 DEF LeftAt
  <2>2. \A i \in 0..(m - 1) : Sequence(R[i])
    BY <1>6
  <2> QED
    BY <1>3, <1>6, <2>1, <2>2 DEF Remaining
<1> QED
  BY <1>1, <1>3, <1>5, <1>8, <1>9 DEF Continues

(* It leaves the next page to a child.                                      *)
LEMMA PushContinues ==
  ASSUME NEW lv, NEW pg, NEW st, NEW E, NEW R, NEW written, NEW total,
         Continues(lv, pg, st, E, R, written, total),
         NEW m \in Nat \ {0}, Len(st) = m, NEW f, f.node = st[m].node, AsFar(f, E[m]),
         NEW g, NEW e, AsFar(g, e), << g.node, e >> \in lv[m], Inner(f, E[m]) = e,
         DOMAIN e = Around(st, m) \cup ColumnsOf(st[m].node),
         NEW st2, Pushes(st, st2, f, g),
         Sequence(Left(f, E[m], BelowAt(pg, m))), Sequence(Left(g, e, BelowAt(pg, m + 1))),
         LeftAt(pg, st, E, m) = Together(Left(g, e, BelowAt(pg, m + 1)),
                                       Left(f, E[m], BelowAt(pg, m)))
  PROVE  \E E2, R2 : Continues(lv, pg, st2, E2, R2, written, total) /\ E2[m + 1] = e
<1>1. PICK left, page1, rest : /\ left = Left(f, E[m], BelowAt(pg, m))
                               /\ page1 = Left(g, e, BelowAt(pg, m + 1))
                               /\ rest = R[m - 1]
  OBVIOUS
<1>2. Placing(lv, st, E) /\ Remaining(pg, st, E, R) /\ Sequence(written)
      /\ Together(written, R[m]) = total
  BY DEF Continues
<1>3. /\ Len(st2) = m + 1 /\ st2[m] = f /\ st2[m + 1] = g
      /\ \A i \in 1..(m - 1) : st2[i] = st[i]
  BY DEF Pushes
<1>4. /\ \A i \in 1..m : i = m \/ i \in 1..(m - 1)
      /\ \A i \in 1..(m + 1) : i = m + 1 \/ i \in 1..m
      /\ m + 1 \in 1..(m + 1) /\ m \in 1..m /\ (m + 1) - 1 = m
  OBVIOUS
<1>5. \A i \in 1..(m + 1) : Around(st2, i) = Around(st, i)
  <2>1. \A i \in 1..m : st2[i].node = st[i].node
    BY <1>3, <1>4
  <2> QED
    BY <2>1, SameAround
<1>6. /\ R[0] = <<>> /\ R[m] = Together(Together(page1, left), rest)
      /\ \A i \in 1..m : R[i] = Together(LeftAt(pg, st, E, i), R[i - 1])
      /\ \A i \in 0..m : Sequence(R[i])
  BY <1>1, <1>2 DEF Remaining
<1>7. Sequence(rest) /\ Sequence(left) /\ Sequence(page1)
  BY <1>1, <1>6
<1>8. PICK tail : tail = Together(left, rest)
  OBVIOUS
<1>9. PICK all : all = Together(page1, tail)
  OBVIOUS
<1>10. Sequence(tail) /\ Sequence(all) /\ R[m] = all
  BY <1>6, <1>7, <1>8, <1>9, JoinedTo, JoinedThrough
<1>11. PICK E2, R2 : /\ E2 = [i \in 1..(m + 1) |-> IF i = m + 1 THEN e ELSE E[i]]
                     /\ R2 = [i \in 0..(m + 1) |-> IF i = m + 1 THEN all
                                                   ELSE IF i = m THEN tail ELSE R[i]]
  OBVIOUS
<1>12. /\ E2[m + 1] = e /\ \A i \in 1..m : E2[i] = E[i]
       /\ R2[m + 1] = all /\ R2[m] = tail /\ \A i \in 0..(m - 1) : R2[i] = R[i]
  BY <1>11
<1>13. Placing(lv, st2, E2)
  <2>1. \A i \in 1..m : StandsAt(lv, st[i], E[i], i, Around(st, i))
    BY <1>2 DEF Placing
  <2>2. DOMAIN e = Around(st2, m + 1)
    BY <1>4, <1>5, AroundOneMore
  <2>3. ASSUME NEW i \in 1..(m + 1) PROVE StandsAt(lv, st2[i], E2[i], i, Around(st2, i))
    <3>1. CASE i = m + 1
      BY <1>3, <1>4, <1>12, <2>2, <3>1 DEF StandsAt
    <3>2. CASE i = m
      BY <1>3, <1>4, <1>5, <1>12, <2>1, <3>2 DEF StandsAt
    <3>3. CASE i \in 1..(m - 1)
      <4>1. i \in 1..m /\ E2[i] = E[i] /\ st2[i] = st[i]
        BY <1>3, <1>12, <3>3
      <4> QED
        BY <1>5, <2>1, <4>1
    <3> QED
      BY <1>4, <3>1, <3>2, <3>3
  <2>4. ASSUME NEW i \in 1..m PROVE E2[i + 1] = Inner(st2[i], E2[i])
    <3>1. CASE i = m
      BY <1>3, <1>12, <3>1
    <3>2. CASE i \in 1..(m - 1)
      <4>1. i + 1 \in 1..m /\ i \in 1..m
        BY <3>2
      <4> QED
        BY <1>2, <1>3, <1>12, <3>2, <4>1 DEF Placing
    <3> QED
      BY <1>4, <3>1, <3>2
  <2> QED
    BY <1>3, <1>4, <2>3, <2>4 DEF Placing
<1>14. Remaining(pg, st2, E2, R2)
  <2>1. ASSUME NEW i \in 1..(m + 1) PROVE R2[i] = Together(LeftAt(pg, st2, E2, i), R2[i - 1])
    <3>1. CASE i = m + 1
      BY <1>1, <1>3, <1>4, <1>9, <1>12, <3>1 DEF LeftAt
    <3>2. CASE i = m
      <4>1. E2[m] = E[m] /\ R2[m - 1] = rest
        BY <1>1, <1>4, <1>12
      <4> QED
        BY <1>1, <1>3, <1>8, <1>12, <3>2, <4>1 DEF LeftAt
    <3>3. CASE i \in 1..(m - 1)
      <4>1. i \in 1..m /\ E2[i] = E[i] /\ R2[i] = R[i] /\ R2[i - 1] = R[i - 1]
        BY <1>12, <3>3
      <4> QED
        BY <1>3, <1>6, <3>3, <4>1 DEF LeftAt
    <3> QED
      BY <1>4, <3>1, <3>2, <3>3
  <2>2. R2[0] = <<>> /\ \A i \in 0..(m + 1) : Sequence(R2[i])
    <3>1. R2[0] = <<>>
      BY <1>6, <1>12
    <3>2. ASSUME NEW i \in 0..(m + 1) PROVE Sequence(R2[i])
      <4>1. i = m + 1 \/ i = m \/ (i \in 0..(m - 1) /\ i \in 0..m)
        OBVIOUS
      <4> QED
        BY <1>6, <1>10, <1>12, <4>1
    <3> QED
      BY <3>1, <3>2
  <2> QED
    BY <1>3, <2>1, <2>2 DEF Remaining
<1>15. Continues(lv, pg, st2, E2, R2, written, total)
  BY <1>2, <1>3, <1>10, <1>12, <1>13, <1>14 DEF Continues
<1> QED
  BY <1>12, <1>15

-----------------------------------------------------------------------------
(* A rendering with a rigid page before it: lv and pg are the levels and    *)
(* the pages of Page, and total is the page of the root.                    *)

\* one scope is enough
Plain == Scoped /\ nulls = {} /\ AllFetched

\* the environment of what is rendered next
Current(f, e) == IF f.todo = "children" THEN Inner(f, e) ELSE e

GoesOnTo(lv, pg, st, sc, written, total) ==
  \E E, R : /\ Continues(lv, pg, st, E, R, written, total)
            /\ st # <<>> => Agrees(sc, Current(Last(st), E[Len(st)]))

Paged(lv, pg, env0) ==
  Paging(lv, pg, template.root, env0) /\ DOMAIN env0 = template.given

Here(lv, pg, env0, E, R, total) ==
  /\ IInv /\ Plain /\ stack # <<>> /\ Paged(lv, pg, env0)
  /\ Continues(lv, pg, stack, E, R, out, total)
  /\ Agrees(scope, Current(Top, E[Len(stack)]))

TopIs(lv, pg, E, m) ==
  /\ Len(stack) = m /\ m <= MaxDepth /\ Top = stack[m] /\ FrameOK(Top)
  /\ << Top.node, E[m] >> \in lv[m - 1] /\ DOMAIN E[m] = Around(stack, m)
  /\ AsFar(Top, E[m]) /\ Ready(Top.node, E[m], BelowAt(pg, m))
  /\ ColumnsOf(Top.node) \cap DOMAIN E[m] = {}

LEMMA ReadyIn ==
  ASSUME Renderable, NEW lv, NEW pg, NEW env0, Paged(lv, pg, env0),
         NEW m \in 1..MaxDepth, NEW n, NEW e, << n, e >> \in lv[m - 1]
  PROVE  Ready(n, e, BelowAt(pg, m))
<1>1. PICK d : d = m - 1
  OBVIOUS
<1>2. /\ d \in 0..(MaxDepth - 1) /\ d \in 0..MaxDepth /\ d + 1 = m
      /\ MaxDepth - m \in 0..MaxDepth /\ MaxDepth - (MaxDepth - m) = m
  BY <1>1, DepthAssumption
<1>3. Paging(lv, pg, template.root, env0) /\ DOMAIN env0 = template.given
  BY DEF Paged
<1>4. PICK p : p = << n, e >>
  OBVIOUS
<1>5. p \in lv[d] /\ p[1] = n /\ p[2] = e
  BY <1>1, <1>4
<1>6. << n, DOMAIN e >> \in Levels[d]
  <2>1. \A q \in lv[d] : q = << q[1], q[2] >> /\ << q[1], DOMAIN q[2] >> \in Levels[d]
    BY <1>2, <1>3, LevelsMatch
  <2> QED
    BY <1>5, <2>1
<1>7. IsTreeNode(n) /\ Queryable(n)
  BY <1>2, <1>6, LevelNodes
<1>8. ASSUME n.kind = "element", NEW r \in DOMAIN Inside(n, e), NEW i \in DOMAIN n.children
      PROVE  Sequence(BelowAt(pg, m)[<< n.children[i], Inside(n, e)[r] >>])
  <2>1. PICK q : q = << n.children[i], Inside(n, e)[r] >>
    OBVIOUS
  <2>2. q \in lv[m]
    BY <1>2, <1>3, <1>4, <1>5, <1>8, <2>1, EntryBelow
  <2>3. PICK h \in 0..MaxDepth : h = MaxDepth - m /\ MaxDepth - h = m
    BY <1>2
  <2>4. \A x \in lv[m] : Sequence(pg[h][x])
    <3>1. \A k \in 0..MaxDepth : \A x \in lv[MaxDepth - k] : Sequence(pg[k][x])
      BY <1>3, PagesAreSequences
    <3> QED
      BY <2>3, <3>1
  <2> QED
    BY <2>1, <2>2, <2>3, <2>4 DEF BelowAt
<1> QED
  BY <1>7, <1>8 DEF Ready

LEMMA TopStands ==
  ASSUME NEW lv, NEW pg, NEW env0, NEW E, NEW R, NEW total, Here(lv, pg, env0, E, R, total)
  PROVE  \E m \in Nat \ {0} : TopIs(lv, pg, E, m)
<1>1. IInv /\ Renderable /\ Shape(stack) /\ stack # <<>> /\ Paged(lv, pg, env0) /\ Scoped
  BY DEF Here, IInv, Static, Plain
<1>2. PICK m \in Nat \ {0} : m = Len(stack)
  BY <1>1, TopFacts
<1>3. /\ m <= MaxDepth /\ Top = stack[m] /\ Placed(stack, m)
      /\ ColumnsOf(Top.node) \cap Around(stack, m) = {}
  BY <1>1, <1>2, TopFacts DEF Top
<1>4. StandsAt(lv, stack[m], E[m], m, Around(stack, m))
  BY <1>2 DEF Here, Continues, Placing
<1>5. << Top.node, E[m] >> \in lv[m - 1] /\ DOMAIN E[m] = Around(stack, m) /\ AsFar(Top, E[m])
  BY <1>3, <1>4 DEF StandsAt
<1>6. m \in 1..MaxDepth
  BY <1>3, DepthAssumption
<1>7. Ready(Top.node, E[m], BelowAt(pg, m))
  BY <1>1, <1>5, <1>6, ReadyIn
<1>8. FrameOK(Top)
  BY <1>3 DEF Placed
<1> QED
  BY <1>2, <1>3, <1>5, <1>7, <1>8 DEF TopIs

LEMMA SwapHere ==
  ASSUME NEW lv, NEW pg, NEW env0, NEW E, NEW R, NEW total, Here(lv, pg, env0, E, R, total),
         NEW m \in Nat \ {0}, TopIs(lv, pg, E, m),
         NEW f, f.node = Top.node, AsFar(f, E[m]), f.todo # "open", f.node.kind = "element",
         NEW w, Sequence(w),
         Left(Top, E[m], BelowAt(pg, m)) = Together(w, Left(f, E[m], BelowAt(pg, m))),
         NEW sc, Agrees(sc, Current(f, E[m])),
         NEW st2, st2 = Append(Below, f)
  PROVE  GoesOnTo(lv, pg, st2, sc, Together(out, w), total)
<1>1. /\ Continues(lv, pg, stack, E, R, out, total) /\ Stacked(stack) /\ stack # <<>>
      /\ Len(stack) = m /\ Top = stack[m] /\ Ready(Top.node, E[m], BelowAt(pg, m))
  BY DEF Here, TopIs, IInv, Shape
<1>2. Swaps(stack, st2, f)
  BY <1>1, SwapsAny DEF Below
<1>3. Sequence(Left(f, E[m], BelowAt(pg, m)))
  BY <1>1, LeftSequence
<1>4. LeftAt(pg, stack, E, m) = Together(w, Left(f, E[m], BelowAt(pg, m)))
  BY <1>1 DEF LeftAt
<1>5. \E R2 : Continues(lv, pg, st2, E, R2, Together(out, w), total)
  <2>1. f.node = stack[m].node
    BY <1>1
  <2> QED
    BY <1>1, <1>2, <1>3, <1>4, <2>1, SwapContinues
<1>6. Last(st2) = f /\ Len(st2) = m
  BY <1>1, <1>2 DEF Swaps, Last
<1> QED
  BY <1>5, <1>6 DEF GoesOnTo

LEMMA PopHere ==
  ASSUME NEW lv, NEW pg, NEW env0, NEW E, NEW R, NEW total, Here(lv, pg, env0, E, R, total),
         NEW m \in Nat \ {0}, TopIs(lv, pg, E, m), Top.todo # "children",
         NEW w, Sequence(w), Left(Top, E[m], BelowAt(pg, m)) = w,
         NEW st2, st2 = Below
  PROVE  GoesOnTo(lv, pg, st2, scope, Together(out, w), total)
<1>1. /\ Continues(lv, pg, stack, E, R, out, total) /\ Shape(stack) /\ stack # <<>>
      /\ Len(stack) = m /\ Top = stack[m] /\ Renderable
  BY DEF Here, TopIs, IInv, Static
<1>2. Shape(st2) /\ Pops(stack, st2)
  BY <1>1, PopShape DEF Below
<1>3. LeftAt(pg, stack, E, m) = w
  BY <1>1 DEF LeftAt
<1>4. Continues(lv, pg, st2, E, R, Together(out, w), total)
  BY <1>1, <1>2, <1>3, PopContinues
<1>5. ASSUME st2 # <<>> PROVE Agrees(scope, Current(Last(st2), E[Len(st2)]))
  <2>1. Len(st2) \in Nat \ {0} /\ Last(st2) = st2[Len(st2)]
    BY <1>1, <1>2, <1>5, TopFacts
  <2>2. PICK k \in Nat \ {0} : k = m - 1 /\ k = Len(st2) /\ k + 1 = m /\ k \in 1..(m - 1)
    BY <1>1, <1>2, <2>1 DEF Pops
  <2>3. Last(st2) = stack[k]
    BY <1>1, <1>2, <2>1, <2>2 DEF Pops
  <2>4. stack[k].todo = "children"
    <3>1. k \in 1..Len(stack) /\ k < Len(stack)
      BY <1>1, <2>2
    <3>2. Placed(stack, k)
      BY <1>1, <3>1 DEF Shape
    <3> QED
      BY <3>1, <3>2 DEF Placed
  <2>5. E[m] = Inner(stack[k], E[k])
    BY <1>1, <2>2 DEF Continues, Placing
  <2>6. Current(Last(st2), E[Len(st2)]) = E[m]
    BY <2>2, <2>3, <2>4, <2>5 DEF Current
  <2>7. Current(Top, E[m]) = E[m]
    BY DEF Current
  <2> QED
    BY <1>1, <2>6, <2>7 DEF Here
<1> QED
  BY <1>4, <1>5 DEF GoesOnTo

LEMMA AgreedHere ==
  ASSUME NEW lv, NEW pg, NEW env0, NEW E, NEW R, NEW total, Here(lv, pg, env0, E, R, total),
         NEW m \in Nat \ {0}, TopIs(lv, pg, E, m), Top.todo # "children"
  PROVE  AgreesHere(E[m]) /\ Agrees(scope, E[m]) /\ Sequence(out) /\ Together(out, <<>>) = out
<1>1. Current(Top, E[m]) = E[m] /\ Len(stack) = m
  BY DEF Current, TopIs
<1>2. Agrees(scope, E[m]) /\ DOMAIN E[m] = Around(stack, Len(stack))
  BY <1>1 DEF Here, TopIs
<1>3. IInv /\ stack # <<>> /\ Scoped /\ nulls = {} /\ Sequence(out)
  BY DEF Here, Plain, Continues
<1>4. Together(out, <<>>) = out
  BY <1>3, OneToken, JoinedTo
<1> QED
  BY <1>2, <1>3, <1>4 DEF AgreesHere

-----------------------------------------------------------------------------
(* Every step goes on to the same page.                                     *)

LEMMA RenderNodeGoes ==
  ASSUME NEW lv, NEW pg, NEW env0, NEW E, NEW R, NEW total, Here(lv, pg, env0, E, R, total),
         RenderNode
  PROVE  GoesOnTo(lv, pg, stack', scope', out', total)
<1>1. PICK m \in Nat \ {0} : TopIs(lv, pg, E, m)
  BY TopStands
<1>2. Top.todo = "open" /\ stack' = Rest /\ scope' = scope
  BY DEF RenderNode, Running
<1>3. PICK n, e, contents, b : /\ n = Top.node /\ e = E[m] /\ contents = Contents(n)
                               /\ b = BelowAt(pg, m)
  OBVIOUS
<1>4. /\ AgreesHere(e) /\ Agrees(scope, e) /\ Sequence(out)
      /\ Ready(n, e, b) /\ IsTreeNode(n) /\ AsFar(Top, e)
  <2>1. Ready(n, e, b) /\ AsFar(Top, e)
    BY <1>1, <1>3 DEF TopIs
  <2>2. IsTreeNode(n)
    BY <2>1 DEF Ready
  <2>3. Top.todo # "children"
    BY <1>2
  <2> QED
    BY <1>1, <1>3, <2>1, <2>2, <2>3, AgreedHere
<1>5. contents \in Seq(ItemsOf(UsedBy(Top.node)))
  BY <1>3, <1>4, NodeItems
<1>6. PICK J : J \in SUBSET DeadItems(contents)
               /\ out' = out \o Opening(n) \o Rendered(contents, J)
  BY <1>3, Zenon DEF RenderNode
<1>7. J = {}
  BY <1>4, <1>5, <1>6, NothingDead
<1>8. PICK said : said = Said(contents, e)
  OBVIOUS
<1>9. out' = (out \o Opening(n)) \o said
  BY <1>4, <1>5, <1>6, <1>7, <1>8, ContentsSaid
<1>10. Sequence(said)
  BY <1>3, <1>4, <1>8, ContentsAre, SaidIs
<1>11. Left(Top, e, b) = PageWith(n, e, b)
  BY <1>2, <1>3 DEF Left
<1>12. CASE n.kind = "text"
  <2>1. Opening(n) = <<>> /\ stack' = Below
    BY <1>2, <1>3, <1>12 DEF Opening, Rest
  <2>2. out' = Together(out, said)
    BY <1>4, <1>9, <2>1, Concatenated DEF Together
  <2>3. Left(Top, e, b) = said
    BY <1>3, <1>8, <1>11, <1>12, PageWithIs
  <2> QED
    BY <1>1, <1>2, <1>3, <1>10, <2>1, <2>2, <2>3, PopHere
<1>13. CASE n.kind = "element"
  <2>1. PICK head, w : head = << Open(n) >> /\ w = head \o said
    OBVIOUS
  <2>2. Sequence(head) /\ Sequence(w)
    BY <1>10, <2>1, OneToken, Concatenated
  <2>3. Opening(n) = head
    BY <1>13, <2>1 DEF Opening
  <2>4. out' = Together(out, w)
    <3>1. out' = (out \o head) \o said
      BY <1>9, <2>3
    <3>2. (out \o head) \o said = out \o (head \o said)
      BY <1>4, <1>10, <2>2, Associative
    <3> QED
      BY <2>1, <3>1, <3>2 DEF Together
  <2>5. CASE n.void
    <3>1. Left(Top, e, b) = w \o <<>>
      BY <1>3, <1>8, <1>11, <1>13, <2>1, <2>5, PageWithIs
    <3>2. Left(Top, e, b) = w
      BY <2>2, <3>1, Concatenated
    <3>3. stack' = Below
      BY <1>2, <1>3, <2>5 DEF Rest
    <3> QED
      BY <1>1, <1>2, <1>3, <2>2, <2>4, <3>2, <3>3, PopHere
  <2>6. CASE ~n.void
    <3>1. PICK todo : todo = IF QueryAttributes(n) = {} THEN "children" ELSE "query"
      OBVIOUS
    <3>2. PICK f : f = [Top EXCEPT !.todo = todo]
      OBVIOUS
    <3>3. PICK F : Top \in Frames(Nodes, F)
      BY TopFacts DEF Here, IInv, Static, Top
    <3>4. f.todo = todo /\ f.node = n /\ f.row = Top.row /\ f.next = Top.next
      BY <1>3, <3>2, <3>3 DEF Frames
    <3>5. Top.row = 0 /\ Top.next = 1
      BY <1>2, <1>4 DEF AsFar
    <3>6. stack' = Append(Below, f)
      BY <1>2, <1>3, <1>13, <2>6, <3>1, <3>2 DEF Rest, Now, Looping
    <3>7. Left(Top, e, b) = w \o Left(f, e, b) /\ AsFar(f, e)
      <4>1. PICK top : top = Top
        OBVIOUS
      <4>2. /\ top.node.kind = "element" /\ ~top.node.void /\ Ready(top.node, e, b)
            /\ top.todo = "open" /\ top.row = 0 /\ top.next = 1
        BY <1>2, <1>3, <1>4, <1>13, <2>6, <3>5, <4>1
      <4>3. /\ f.node = top.node /\ f.row = top.row /\ f.next = top.next
            /\ f.todo = IF QueryAttributes(top.node) = {} THEN "children" ELSE "query"
        BY <1>3, <3>1, <3>4, <4>1
      <4>4. /\ Left(top, e, b) = (<< Open(top.node) >> \o Said(Contents(top.node), e))
                                  \o Left(f, e, b)
            /\ AsFar(f, e)
        BY <4>2, <4>3, LeftOpen
      <4> QED
        BY <1>3, <1>8, <2>1, <4>1, <4>4
    <3>8. Agrees(scope, Current(f, e))
      <4>1. CASE QueryAttributes(n) # {}
        BY <1>4, <3>1, <3>4, <4>1 DEF Current
      <4>2. CASE QueryAttributes(n) = {}
        <5>1. Inner(f, e) = e
          <6>1. Turn(f) = 1 /\ Inside(n, e) = << e >>
            BY <3>4, <4>2, InsideIs DEF Turn
          <6> QED
            BY <3>4, <6>1 DEF Inner
        <5> QED
          BY <1>4, <5>1 DEF Current
      <4> QED
        BY <4>1, <4>2
    <3>9. f.todo # "open"
      BY <3>1, <3>4
    <3> QED
      BY <1>1, <1>2, <1>3, <1>13, <2>2, <2>4, <3>4, <3>6, <3>7, <3>8, <3>9, SwapHere DEF Together
  <2> QED
    BY <2>5, <2>6
<1> QED
  BY <1>4, <1>12, <1>13 DEF IsTreeNode

LEMMA RunQueryGoes ==
  ASSUME NEW lv, NEW pg, NEW env0, NEW E, NEW R, NEW total, Here(lv, pg, env0, E, R, total),
         RunQuery
  PROVE  GoesOnTo(lv, pg, stack', scope', out', total)
<1>1. PICK m \in Nat \ {0} : TopIs(lv, pg, E, m)
  BY TopStands
<1>2. Top.todo = "query" /\ scope' = scope /\ out' = out
  BY DEF RunQuery, Running
<1>3. PICK n, e, b : n = Top.node /\ e = E[m] /\ b = BelowAt(pg, m)
  OBVIOUS
<1>4. /\ AgreesHere(e) /\ Agrees(scope, e) /\ Sequence(out) /\ Together(out, <<>>) = out
      /\ Ready(n, e, b) /\ AsFar(Top, e) /\ FrameOK(Top)
  BY <1>1, <1>2, <1>3, AgreedHere DEF TopIs
<1>5. PICK text, rows : text = QueryText(n) /\ rows = RowsIn(n, e)
  OBVIOUS
<1>6. PICK J : J \in SUBSET DeadItems(QueryOf(Top.node)) /\
        stack' = Append(Below, [Top EXCEPT
                  !.todo = "rows", !.table = tables + 1,
                  !.rows = [r \in 1..Fetched(text) |->
                             [k \in DOMAIN Columns[text] |->
                               Value(Columns[text][k], text,
                                     Arguments(QueryOf(Top.node), J), r)]]])
  BY <1>3, <1>5, Zenon DEF RunQuery, QueryText
<1>7. [r \in 1..Fetched(text) |->
        [k \in DOMAIN Columns[text] |->
          Value(Columns[text][k], text, Arguments(QueryOf(Top.node), J), r)]] = rows
  BY <1>2, <1>3, <1>4, <1>5, <1>6, RowsSaid DEF Here, Plain
<1>8. PICK f : f = [Top EXCEPT !.todo = "rows", !.table = tables + 1, !.rows = rows]
  OBVIOUS
<1>9. stack' = Append(Below, f)
  BY <1>6, <1>7, <1>8, Zenon
<1>10. PICK F : Top \in Frames(Nodes, F)
  BY TopFacts DEF Here, IInv, Static, Top
<1>11. f.todo = "rows" /\ f.node = n /\ f.row = Top.row /\ f.rows = rows
  BY <1>3, <1>8, <1>10 DEF Frames
<1>12. QueryAttributes(n) # {} /\ n.kind = "element" /\ Top.row = 0
  BY <1>2, <1>3, <1>4 DEF FrameOK, AsFar
<1>13. Left(Top, e, b) = Left(f, e, b) /\ AsFar(f, e)
  <2>1. PICK top : top = Top
    OBVIOUS
  <2>2. /\ top.node.kind = "element" /\ QueryAttributes(top.node) # {}
        /\ Ready(top.node, e, b) /\ top.todo = "query" /\ top.row = 0
    BY <1>2, <1>3, <1>4, <1>12, <2>1
  <2>3. /\ f.node = top.node /\ f.row = top.row /\ f.todo = "rows"
        /\ f.rows = RowsIn(top.node, e)
    BY <1>3, <1>5, <1>11, <2>1
  <2>4. Left(top, e, b) = Left(f, e, b) /\ AsFar(f, e)
    BY <2>2, <2>3, LeftQuery
  <2> QED
    BY <2>1, <2>4
<1>14. Sequence(Left(f, e, b))
  BY <1>4, <1>11, <1>12, <1>13, LeftSequence
<1>15. Left(Top, e, b) = Together(<<>>, Left(f, e, b)) /\ Sequence(<<>>)
  BY <1>13, <1>14, OneToken, JoinedTo
<1>16. Agrees(scope, Current(f, e)) /\ f.todo # "open"
  BY <1>4, <1>11 DEF Current
<1>17. GoesOnTo(lv, pg, stack', scope, Together(out, <<>>), total)
  BY <1>1, <1>3, <1>9, <1>11, <1>12, <1>13, <1>15, <1>16, SwapHere
<1> QED
  BY <1>2, <1>4, <1>17

LEMMA BindRowGoes ==
  ASSUME NEW lv, NEW pg, NEW env0, NEW E, NEW R, NEW total, Here(lv, pg, env0, E, R, total),
         BindRow
  PROVE  GoesOnTo(lv, pg, stack', scope', out', total)
<1>1. PICK m \in Nat \ {0} : TopIs(lv, pg, E, m)
  BY TopStands
<1>2. /\ Top.todo = "rows" /\ out' = out /\ Top.row < Len(Top.rows)
      /\ scope' = [n \in DOMAIN scope |-> BoundTo(n, ThisRow)]
      /\ stack' = Append(Below, [Top EXCEPT !.row = NextRow, !.todo = "children", !.next = 1])
  BY DEF BindRow, Running
<1>3. PICK n, e, b : n = Top.node /\ e = E[m] /\ b = BelowAt(pg, m)
  OBVIOUS
<1>4. /\ Agrees(scope, e) /\ Sequence(out) /\ Together(out, <<>>) = out
      /\ Ready(n, e, b) /\ AsFar(Top, e) /\ FrameOK(Top)
  BY <1>1, <1>2, <1>3, AgreedHere DEF TopIs
<1>5. PICK f : f = [Top EXCEPT !.row = NextRow, !.todo = "children", !.next = 1]
  OBVIOUS
<1>6. PICK F : Top \in Frames(Nodes, F)
  BY TopFacts DEF Here, IInv, Static, Top
<1>7. /\ f.todo = "children" /\ f.node = n /\ f.row = Top.row + 1 /\ f.rows = Top.rows
      /\ f.next = 1
  BY <1>3, <1>5, <1>6 DEF Frames, NextRow
<1>8. /\ QueryAttributes(n) # {} /\ n.kind = "element" /\ Top.rows = RowsIn(n, e)
      /\ Top.row \in 0..Len(Top.rows)
  BY <1>2, <1>3, <1>4 DEF FrameOK, AsFar
<1>9. Left(Top, e, b) = Left(f, e, b) /\ AsFar(f, e)
  <2>1. PICK top : top = Top
    OBVIOUS
  <2>2. /\ top.node.kind = "element" /\ Ready(top.node, e, b) /\ top.todo = "rows"
        /\ AsFar(top, e) /\ top.row < Len(top.rows)
    BY <1>2, <1>3, <1>4, <1>8, <2>1
  <2>3. /\ f.node = top.node /\ f.row = top.row + 1 /\ f.rows = top.rows /\ f.next = 1
        /\ f.todo = "children"
    BY <1>3, <1>7, <2>1
  <2>4. Left(top, e, b) = Left(f, e, b) /\ AsFar(f, e)
    BY <2>2, <2>3, LeftRow
  <2> QED
    BY <2>1, <2>4
<1>10. Sequence(Left(f, e, b))
  BY <1>4, <1>7, <1>8, <1>9, LeftSequence
<1>11. Left(Top, e, b) = Together(<<>>, Left(f, e, b)) /\ Sequence(<<>>)
  BY <1>9, <1>10, OneToken, JoinedTo
<1>12. PICK rows, row, text : /\ rows = RowsIn(n, e) /\ row = rows[Top.row + 1]
                              /\ text = QueryText(n)
  OBVIOUS
<1>13. ThisRow = row
  BY <1>8, <1>12 DEF ThisRow
<1>14. PICK L \in Nat : /\ DOMAIN rows = 1..L /\ Len(rows) = L
                        /\ \A r \in 1..L : /\ RowOf(rows[r], Columns[text])
                                           /\ Inside(n, e)[r] = Extended(e, rows[r])
  BY <1>4, <1>8, <1>12, InsideRuns DEF Ready
<1>15. PICK r \in 1..L : r = Top.row + 1
  <2>1. PICK j : j = Top.row
    OBVIOUS
  <2>2. j \in 0..L /\ j < L
    BY <1>2, <1>8, <1>12, <1>14, <2>1
  <2> QED
    BY <2>1, <2>2
<1>16. RowOf(row, Columns[text]) /\ Inside(n, e)[r] = Extended(e, row)
  BY <1>12, <1>14, <1>15
<1>17. text \in DOMAIN Columns
  BY <1>4, <1>8, <1>12 DEF Ready, Queryable, HasQuery
<1>18. \A j, k \in DOMAIN row : row[j].col = row[k].col => row[j] = row[k]
  <2>1. PICK args : rows = RowsOf(text, args)
    BY <1>12 DEF RowsIn
  <2>2. r \in DOMAIN rows /\ row = rows[r]
    BY <1>12, <1>14, <1>15
  <2> QED
    BY <2>1, <2>2, OneValue
<1>19. PICK sc : sc = [k \in DOMAIN scope |-> BoundTo(k, row)]
  OBVIOUS
<1>20. Agrees(sc, Extended(e, row)) /\ scope' = sc
  <2>1. nulls = {}
    BY DEF Here, Plain
  <2>2. Agrees(sc, Extended(e, row))
    BY <1>4, <1>16, <1>17, <1>18, <1>19, <2>1, RowBound
  <2> QED
    BY <1>2, <1>13, <1>19, <2>2
<1>21. Current(f, e) = Extended(e, row)
  <2>1. Turn(f) = r
    BY <1>7, <1>8, <1>15 DEF Turn
  <2> QED
    BY <1>7, <1>16, <2>1 DEF Current, Inner
<1>22. GoesOnTo(lv, pg, stack', sc, Together(out, <<>>), total)
  <2>1. f.todo # "open" /\ Agrees(sc, Current(f, e)) /\ stack' = Append(Below, f)
    BY <1>2, <1>5, <1>7, <1>20, <1>21
  <2> QED
    BY <1>1, <1>3, <1>7, <1>8, <1>9, <1>11, <2>1, SwapHere
<1> QED
  BY <1>2, <1>4, <1>20, <1>22

LEMMA FreeRowsGoes ==
  ASSUME NEW lv, NEW pg, NEW env0, NEW E, NEW R, NEW total, Here(lv, pg, env0, E, R, total),
         FreeRows
  PROVE  GoesOnTo(lv, pg, stack', scope', out', total)
<1>1. PICK m \in Nat \ {0} : TopIs(lv, pg, E, m)
  BY TopStands
<1>2. /\ Top.todo = "rows" /\ out' = out /\ Top.row = Len(Top.rows)
      /\ scope' = Freed(Top.table) /\ stack' = Now("close")
  BY DEF FreeRows, Running
<1>3. PICK n, e, b : n = Top.node /\ e = E[m] /\ b = BelowAt(pg, m)
  OBVIOUS
<1>4. /\ Agrees(scope, e) /\ Sequence(out) /\ Together(out, <<>>) = out
      /\ Ready(n, e, b) /\ AsFar(Top, e) /\ FrameOK(Top)
  BY <1>1, <1>2, <1>3, AgreedHere DEF TopIs
<1>5. PICK f : f = [Top EXCEPT !.todo = "close"]
  OBVIOUS
<1>6. PICK F : Top \in Frames(Nodes, F)
  BY TopFacts DEF Here, IInv, Static, Top
<1>7. f.todo = "close" /\ f.node = n
  BY <1>3, <1>5, <1>6 DEF Frames
<1>8. n.kind = "element"
  BY <1>2, <1>3, <1>4 DEF FrameOK
<1>9. Left(Top, e, b) = Left(f, e, b) /\ AsFar(f, e)
  <2>1. PICK top : top = Top
    OBVIOUS
  <2>2. /\ top.node.kind = "element" /\ Ready(top.node, e, b) /\ top.todo = "rows"
        /\ AsFar(top, e) /\ top.row = Len(top.rows)
    BY <1>2, <1>3, <1>4, <1>8, <2>1
  <2>3. f.node = top.node /\ f.todo = "close"
    BY <1>3, <1>7, <2>1
  <2>4. Left(top, e, b) = Left(f, e, b) /\ AsFar(f, e)
    BY <2>2, <2>3, LeftFree
  <2> QED
    BY <2>1, <2>4
<1>10. Sequence(Left(f, e, b))
  BY <1>4, <1>7, <1>8, <1>9, LeftSequence
<1>11. Left(Top, e, b) = Together(<<>>, Left(f, e, b)) /\ Sequence(<<>>)
  BY <1>9, <1>10, OneToken, JoinedTo
<1>12. PICK sc, t : sc = Freed(t) /\ t = Top.table
  OBVIOUS
<1>13. Agrees(sc, e)
  BY <1>4, <1>12, FreedAgrees
<1>14. Agrees(sc, Current(f, e)) /\ f.todo # "open" /\ stack' = Append(Below, f)
  BY <1>2, <1>5, <1>7, <1>13 DEF Current, Now
<1>15. GoesOnTo(lv, pg, stack', sc, Together(out, <<>>), total)
  BY <1>1, <1>3, <1>7, <1>8, <1>9, <1>11, <1>14, SwapHere
<1> QED
  BY <1>2, <1>4, <1>12, <1>15

LEMMA EndChildrenGoes ==
  ASSUME NEW lv, NEW pg, NEW env0, NEW E, NEW R, NEW total, Here(lv, pg, env0, E, R, total),
         EndChildren
  PROVE  GoesOnTo(lv, pg, stack', scope', out', total)
<1>1. PICK m \in Nat \ {0} : TopIs(lv, pg, E, m)
  BY TopStands
<1>2. /\ Top.todo = "children" /\ out' = out /\ scope' = scope
      /\ Top.next > Len(Top.node.children)
      /\ stack' = Now(IF Looping THEN "rows" ELSE "close")
  BY DEF EndChildren, Running
<1>3. PICK n, e, b : n = Top.node /\ e = E[m] /\ b = BelowAt(pg, m)
  OBVIOUS
<1>4. Ready(n, e, b) /\ AsFar(Top, e) /\ FrameOK(Top) /\ ColumnsOf(n) \cap DOMAIN e = {}
  BY <1>1, <1>3 DEF TopIs
<1>5. PICK todo : todo = IF QueryAttributes(n) = {} THEN "close" ELSE "rows"
  OBVIOUS
<1>6. PICK f : f = [Top EXCEPT !.todo = todo]
  OBVIOUS
<1>7. PICK F : Top \in Frames(Nodes, F)
  BY TopFacts DEF Here, IInv, Static, Top
<1>8. f.todo = todo /\ f.node = n /\ f.row = Top.row /\ f.rows = Top.rows
  BY <1>3, <1>6, <1>7 DEF Frames
<1>9. n.kind = "element"
  BY <1>2, <1>3, <1>4 DEF FrameOK
<1>10. Left(Top, e, b) = Left(f, e, b) /\ AsFar(f, e)
  <2>1. PICK top : top = Top
    OBVIOUS
  <2>2. /\ top.node.kind = "element" /\ Ready(top.node, e, b) /\ top.todo = "children"
        /\ AsFar(top, e) /\ top.next > Len(top.node.children)
    BY <1>2, <1>3, <1>4, <1>9, <2>1
  <2>3. /\ f.node = top.node /\ f.row = top.row /\ f.rows = top.rows
        /\ f.todo = IF QueryAttributes(top.node) = {} THEN "close" ELSE "rows"
    BY <1>3, <1>5, <1>8, <2>1
  <2>4. Left(top, e, b) = Left(f, e, b) /\ AsFar(f, e)
    BY <2>2, <2>3, LeftDone
  <2> QED
    BY <2>1, <2>4
<1>11. Sequence(Left(f, e, b))
  BY <1>4, <1>8, <1>9, <1>10, LeftSequence
<1>12. Left(Top, e, b) = Together(<<>>, Left(f, e, b)) /\ Sequence(<<>>)
  BY <1>10, <1>11, OneToken, JoinedTo
<1>13. Agrees(scope, e)
  <2>1. PICK r : r = Turn(Top)
    OBVIOUS
  <2>2. r \in DOMAIN Inside(n, e) /\ Inner(Top, e) = Inside(n, e)[r]
    BY <1>2, <1>3, <1>4, <2>1 DEF AsFar, Inner
  <2>3. Agrees(scope, Inside(n, e)[r])
    <3>1. Agrees(scope, Current(Top, E[m]))
      BY <1>1 DEF Here, TopIs
    <3> QED
      BY <1>2, <1>3, <2>2, <3>1 DEF Current
  <2>4. Queryable(n)
    BY <1>4 DEF Ready
  <2> QED
    BY <1>4, <1>9, <2>2, <2>3, <2>4, AroundAgrees
<1>14. Agrees(scope, Current(f, e)) /\ f.todo # "open"
  BY <1>5, <1>8, <1>13 DEF Current
<1>15. stack' = Append(Below, f)
  BY <1>2, <1>3, <1>5, <1>6 DEF Now, Looping
<1>16. GoesOnTo(lv, pg, stack', scope, Together(out, <<>>), total)
  BY <1>1, <1>3, <1>8, <1>9, <1>10, <1>12, <1>14, <1>15, SwapHere
<1>17. Together(out, <<>>) = out
  <2>1. Sequence(out)
    BY DEF Here, Continues
  <2> QED
    BY <2>1, OneToken, JoinedTo
<1> QED
  BY <1>2, <1>16, <1>17

LEMMA CloseElementGoes ==
  ASSUME NEW lv, NEW pg, NEW env0, NEW E, NEW R, NEW total, Here(lv, pg, env0, E, R, total),
         CloseElement
  PROVE  GoesOnTo(lv, pg, stack', scope', out', total)
<1>1. PICK m \in Nat \ {0} : TopIs(lv, pg, E, m)
  BY TopStands
<1>2. /\ Top.todo = "close" /\ out' = Append(out, Close(Top.node)) /\ scope' = scope
      /\ stack' = Below
  BY DEF CloseElement, Running
<1>3. PICK token, w : token = Close(Top.node) /\ w = << token >>
  OBVIOUS
<1>4. Sequence(w) /\ Sequence(out)
  BY <1>3, OneToken DEF Here, Continues
<1>5. out' = Together(out, w)
  BY <1>2, <1>3, <1>4, OneMore DEF Together
<1>6. Left(Top, E[m], BelowAt(pg, m)) = w
  BY <1>2, <1>3 DEF Left
<1> QED
  BY <1>1, <1>2, <1>4, <1>5, <1>6, PopHere

LEMMA RenderChildGoes ==
  ASSUME NEW lv, NEW pg, NEW env0, NEW E, NEW R, NEW total, Here(lv, pg, env0, E, R, total),
         RenderChild
  PROVE  GoesOnTo(lv, pg, stack', scope', out', total)
<1>1. PICK m \in Nat \ {0} : TopIs(lv, pg, E, m)
  BY TopStands
<1>2. PICK n, e, b : n = Top.node /\ e = E[m] /\ b = BelowAt(pg, m)
  OBVIOUS
<1>3. PICK f, g : /\ f = [Top EXCEPT !.next = @ + 1]
                  /\ g = Frame(n.children[Top.next])
  OBVIOUS
<1>4. /\ Top.todo = "children" /\ out' = out /\ scope' = scope
      /\ Top.next <= Len(n.children) /\ stack' = Append(Below, f) \o << g >>
  BY <1>2, <1>3 DEF RenderChild, Running
<1>5. /\ Ready(n, e, b) /\ AsFar(Top, e) /\ FrameOK(Top) /\ ColumnsOf(n) \cap DOMAIN e = {}
      /\ Len(stack) = m /\ Top = stack[m] /\ << n, e >> \in lv[m - 1] /\ m <= MaxDepth
      /\ DOMAIN e = Around(stack, m)
  BY <1>1, <1>2 DEF TopIs
<1>6. PICK F : Top \in Frames(Nodes, F)
  BY TopFacts DEF Here, IInv, Static, Top
<1>7. /\ f.todo = "children" /\ f.node = n /\ f.row = Top.row /\ f.rows = Top.rows
      /\ f.next = Top.next + 1 /\ f \in Frames(Nodes, F)
  <2>1. f.todo = "children" /\ f.node = n /\ f.row = Top.row /\ f.rows = Top.rows
        /\ f.next = Top.next + 1
    BY <1>2, <1>3, <1>4, <1>6 DEF Frames
  <2>2. Top.next + 1 \in Nat \ {0}
    BY <1>6 DEF Frames
  <2>3. f \in Frames(Nodes, F)
    BY <1>3, <1>6, <2>2 DEF Frames
  <2> QED
    BY <2>1, <2>3
<1>8. n.kind = "element"
  BY <1>2, <1>4, <1>5 DEF FrameOK
<1>9. PICK child, page1 : child = n.children[Top.next] /\ page1 = b[<< child, Inner(Top, e) >>]
  OBVIOUS
<1>10. /\ Left(Top, e, b) = page1 \o Left(f, e, b) /\ AsFar(f, e)
       /\ Top.next \in DOMAIN n.children /\ Inner(f, e) = Inner(Top, e)
  <2>1. PICK top : top = Top
    OBVIOUS
  <2>2. /\ top.node.kind = "element" /\ Ready(top.node, e, b) /\ top.todo = "children"
        /\ AsFar(top, e) /\ top.next <= Len(top.node.children)
    BY <1>2, <1>4, <1>5, <1>8, <2>1
  <2>3. /\ f.node = top.node /\ f.todo = "children" /\ f.row = top.row /\ f.rows = top.rows
        /\ f.next = top.next + 1
    BY <1>2, <1>7, <2>1
  <2>4. /\ Left(top, e, b) = b[<< top.node.children[top.next], Inner(top, e) >>]
                               \o Left(f, e, b)
        /\ AsFar(f, e) /\ top.next \in DOMAIN top.node.children
        /\ Inner(f, e) = Inner(top, e)
    BY <2>2, <2>3, LeftChild
  <2> QED
    BY <1>2, <1>9, <2>1, <2>4
<1>11. PICK inner, r : inner = Inner(Top, e) /\ r = Turn(Top)
  OBVIOUS
<1>12. r \in DOMAIN Inside(n, e) /\ inner = Inside(n, e)[r]
  BY <1>2, <1>4, <1>5, <1>11 DEF AsFar, Inner
<1>13. Paging(lv, pg, template.root, env0) /\ Paged(lv, pg, env0) /\ Renderable
  BY DEF Here, Paged, IInv, Static
<1>14. << child, inner >> \in lv[m]
  <2>1. PICK d \in 0..(MaxDepth - 1) : d = m - 1 /\ d + 1 = m
    BY <1>5, DepthAssumption
  <2>2. << n, e >> \in lv[d]
    BY <1>5, <2>1
  <2>3. << n.children[Top.next], Inside(n, e)[r] >> \in lv[d + 1]
    BY <1>8, <1>10, <1>12, <1>13, <2>1, <2>2, EntryBelow
  <2> QED
    BY <1>9, <1>12, <2>1, <2>3
<1>15. m < MaxDepth
  <2>1. Shape(stack) /\ stack # <<>> /\ Top = Last(stack)
    BY DEF Here, IInv, Top
  <2> QED
    BY <1>2, <1>4, <1>5, <1>13, <2>1, NextChild
<1>16. DOMAIN inner = DOMAIN e \cup ColumnsOf(n)
  <2>1. Queryable(n)
    BY <1>5 DEF Ready
  <2>2. PICK L \in Nat :
           /\ DOMAIN Inside(n, e) = 1..L
           /\ \A j \in 1..L : DOMAIN Inside(n, e)[j] = DOMAIN e \cup ColumnsOf(n)
    BY <1>8, <2>1, InsideRuns
  <2> QED
    BY <1>12, <2>2
<1>17. /\ g.node = child /\ g.todo = "open" /\ g.next = 1 /\ g.row = 0 /\ g.rows = <<>>
       /\ g.table = 0
  BY <1>3, <1>9 DEF Frame
<1>18. AsFar(g, inner)
  BY <1>17 DEF AsFar, Todos
<1>19. PICK b1 : b1 = BelowAt(pg, m + 1)
  OBVIOUS
<1>20. m + 1 \in 1..MaxDepth /\ (m + 1) - 1 = m
  BY <1>5, <1>15, DepthAssumption
<1>21. Ready(child, inner, b1)
  <2>1. << child, inner >> \in lv[(m + 1) - 1]
    BY <1>14, <1>20
  <2> QED
    BY <1>13, <1>19, <1>20, <2>1, ReadyIn
<1>22. Left(g, inner, b1) = page1
  <2>1. Left(g, inner, b1) = PageWith(child, inner, b1)
    BY <1>17 DEF Left
  <2>2. PICK d \in 0..(MaxDepth - 1) : d = m
    BY <1>15, DepthAssumption
  <2>3. pg[MaxDepth - d][<< child, inner >>] = PageWith(child, inner, pg[(MaxDepth - d) - 1])
    BY <1>13, <1>14, <2>2, PageAt
  <2>4. b1 = pg[(MaxDepth - d) - 1]
    <3>1. MaxDepth - (m + 1) = (MaxDepth - m) - 1
      BY DepthAssumption
    <3> QED
      BY <1>19, <2>2, <3>1 DEF BelowAt
  <2>5. b = pg[MaxDepth - d]
    BY <1>2, <2>2 DEF BelowAt
  <2> QED
    BY <1>9, <1>11, <2>1, <2>3, <2>4, <2>5
<1>23. Sequence(Left(g, inner, b1))
  <2>1. Ready(g.node, inner, b1) /\ g.todo = "open"
    BY <1>17, <1>21
  <2> QED
    BY <1>18, <2>1, LeftSequence
<1>24. Sequence(Left(f, e, b))
  BY <1>5, <1>7, <1>8, <1>10, LeftSequence
<1>25. LeftAt(pg, stack, E, m) = Together(Left(g, inner, b1), Left(f, e, b))
  BY <1>2, <1>5, <1>10, <1>22 DEF LeftAt, Together
<1>26. Pushes(stack, stack', f, g)
  <2>1. g \in Frames(Nodes, { <<>> })
    <3>1. child \in Nodes
      <4>1. Shape(stack) /\ stack # <<>> /\ Top = Last(stack)
        BY DEF Here, IInv, Top
      <4> QED
        BY <1>2, <1>4, <1>5, <1>9, <1>13, <4>1, NextChild
    <3>2. g = [node |-> child, todo |-> "open", next |-> 1, row |-> 0, rows |-> <<>>,
               table |-> 0]
      BY <1>3, <1>9 DEF Frame
    <3> QED
      BY <3>1, <3>2 DEF Frames, Todos
  <2>2. Shape(stack) /\ stack # <<>>
    BY DEF Here, IInv
  <2> QED
    BY <1>4, <1>7, <1>13, <2>1, <2>2, PushStack DEF Below
<1>27. PICK E2, R2 : Continues(lv, pg, stack', E2, R2, out, total) /\ E2[m + 1] = inner
  <2>1. Continues(lv, pg, stack, E, R, out, total)
    BY DEF Here
  <2>2. /\ f.node = stack[m].node /\ AsFar(f, E[m]) /\ << g.node, inner >> \in lv[m]
        /\ Inner(f, E[m]) = inner /\ DOMAIN inner = Around(stack, m) \cup ColumnsOf(stack[m].node)
    BY <1>2, <1>5, <1>7, <1>10, <1>11, <1>14, <1>16, <1>17
  <2>3. /\ Sequence(Left(f, E[m], BelowAt(pg, m)))
        /\ Sequence(Left(g, inner, BelowAt(pg, m + 1)))
        /\ LeftAt(pg, stack, E, m) = Together(Left(g, inner, BelowAt(pg, m + 1)),
                                            Left(f, E[m], BelowAt(pg, m)))
    BY <1>2, <1>19, <1>23, <1>24, <1>25
  <2> QED
    BY <1>5, <1>18, <1>26, <2>1, <2>2, <2>3, PushContinues
<1>28. Last(stack') = g /\ Len(stack') = m + 1
  BY <1>5, <1>26 DEF Pushes, Last
<1>29. Agrees(scope, Current(Last(stack'), E2[Len(stack')]))
  <2>1. Current(g, inner) = inner /\ Current(Top, e) = inner
    BY <1>4, <1>11, <1>17 DEF Current
  <2>2. Agrees(scope, Current(Top, E[Len(stack)]))
    BY DEF Here
  <2> QED
    BY <1>2, <1>5, <1>27, <1>28, <2>1, <2>2
<1> QED
  BY <1>4, <1>27, <1>29 DEF GoesOnTo

-----------------------------------------------------------------------------
(* The call's template and tables stay, and so does its page.               *)

LEMMA RowsSame ==
  ASSUME UNCHANGED call
  PROVE  /\ \A text, args : RowsOf(text, args)' = RowsOf(text, args)
         /\ \A n, e : RowsIn(n, e)' = RowsIn(n, e)
<1>1. db' = db
  BY DEF call
<1>2. ASSUME NEW text, NEW args PROVE RowsOf(text, args)' = RowsOf(text, args)
  <2>1. PICK L : L = db[text] /\ L = db'[text]
    BY <1>1
  <2> QED
    BY <2>1 DEF RowsOf
<1>3. ASSUME NEW n, NEW e PROVE RowsIn(n, e)' = RowsIn(n, e)
  <2>1. RowsOf(QueryText(n), ArgsIn(n, e))' = RowsOf(QueryText(n), ArgsIn(n, e))
    BY <1>2
  <2> QED
    BY <2>1, Zenon DEF RowsIn
<1> QED
  BY <1>2, <1>3

LEMMA InsideSame ==
  ASSUME UNCHANGED call
  PROVE  \A n, e : Inside(n, e)' = Inside(n, e)
<1>1. ASSUME NEW n, NEW e PROVE Inside(n, e)' = Inside(n, e)
  <2>1. PICK rows : rows = RowsIn(n, e) /\ rows = RowsIn(n, e)'
    BY RowsSame
  <2>2. Inside(n, e) = IF QueryAttributes(n) = {} THEN << e >>
                       ELSE [r \in DOMAIN rows |-> Extended(e, rows[r])]
    BY <2>1, InsideIs
  <2>3. Inside(n, e)' = IF QueryAttributes(n) = {} THEN << e >>
                        ELSE [r \in DOMAIN RowsIn(n, e)' |-> Extended(e, RowsIn(n, e)'[r])]
    BY Zenon DEF Inside, RowsIn, ArgsIn, QueryText
  <2> QED
    BY <2>1, <2>2, <2>3
<1> QED
  BY <1>1

LEMMA PageSame ==
  ASSUME UNCHANGED call
  PROVE  \A n, e, b : /\ Turns(n, e, b)' = Turns(n, e, b)
                      /\ PageWith(n, e, b)' = PageWith(n, e, b)
<1>1. ASSUME NEW n, NEW e, NEW b PROVE Turns(n, e, b)' = Turns(n, e, b)
  <2>1. PICK inside : inside = Inside(n, e) /\ inside = Inside(n, e)'
    BY InsideSame
  <2>2. Turns(n, e, b) = [r \in DOMAIN inside |-> FlattenSeq(Kids(n, inside[r], b))]
    BY <2>1 DEF Turns
  <2>3. Turns(n, e, b)' =
          [r \in DOMAIN Inside(n, e)' |-> FlattenSeq(Kids(n, Inside(n, e)'[r], b))]
    BY Zenon DEF Turns
  <2> QED
    BY <2>1, <2>2, <2>3
<1>2. ASSUME NEW n, NEW e, NEW b PROVE PageWith(n, e, b)' = PageWith(n, e, b)
  <2>1. Ending(n, e, b)' = Ending(n, e, b)
    BY <1>1 DEF Ending
  <2>2. PageWith(n, e, b)' =
           IF n.kind = "text" THEN Said(Contents(n), e)
           ELSE (<< Open(n) >> \o Said(Contents(n), e))
                  \o (IF n.void THEN <<>> ELSE Ending(n, e, b)')
    BY Zenon DEF PageWith, Ending, Turns, Kids, Contents
  <2> QED
    BY <2>1, <2>2, PageWithIs
<1> QED
  BY <1>1, <1>2

LEMMA EntriesSame ==
  ASSUME UNCHANGED call
  PROVE  \A S : Entries(S)' = Entries(S)
<1>1. ASSUME NEW p PROVE ChildrenIn(p)' = ChildrenIn(p)
  <2>1. Inside(p[1], p[2])' = Inside(p[1], p[2])
    BY InsideSame
  <2> QED
    BY <2>1 DEF ChildrenIn
<1>2. ASSUME NEW S PROVE Entries(S)' = Entries(S)
  BY <1>1 DEF Entries
<1> QED
  BY <1>2

LEMMA PagedSame ==
  ASSUME UNCHANGED call, NEW lv, NEW pg, NEW env0, Paged(lv, pg, env0)
  PROVE  Paged(lv, pg, env0)'
<1>1. template' = template
  BY DEF call
<1>2. \A S, h, below : PagesOf(S, h, below)' = PagesOf(S, h, below)
  BY PageSame DEF PagesOf
<1>3. /\ lv[0] = { << template.root, env0 >> }
      /\ \A d \in 1..MaxDepth : lv[d] = Entries(lv[d - 1])
      /\ \A h \in 0..MaxDepth : pg[h] = PagesOf(lv[MaxDepth - h], h, pg[h - 1])
      /\ DOMAIN env0 = template.given
  BY DEF Paged, Paging
<1>4. \A d \in 1..MaxDepth : lv[d] = Entries(lv[d - 1])'
  BY <1>3, EntriesSame
<1>5. \A h \in 0..MaxDepth : pg[h] = PagesOf(lv[MaxDepth - h], h, pg[h - 1])'
  BY <1>2, <1>3
<1> QED
  BY <1>1, <1>3, <1>4, <1>5 DEF Paged, Paging

LEMMA LeftSame ==
  ASSUME UNCHANGED call
  PROVE  /\ \A f, e, b : Left(f, e, b)' = Left(f, e, b)
         /\ \A f, e : /\ AsFar(f, e) => AsFar(f, e)'
                      /\ Inner(f, e)' = Inner(f, e) /\ Current(f, e)' = Current(f, e)
<1>1. ASSUME NEW f, NEW e PROVE Inner(f, e)' = Inner(f, e)
  BY InsideSame DEF Inner
<1>2. ASSUME NEW f, NEW e, NEW b PROVE Left(f, e, b)' = Left(f, e, b)
  <2>1. \A r : TurnsLeft(f.node, e, b, r)' = TurnsLeft(f.node, e, b, r)
    <3>1. Turns(f.node, e, b)' = Turns(f.node, e, b)
      BY PageSame
    <3> QED
      BY <3>1 DEF TurnsLeft
  <2>2. KidsLeft(f, e, b)' = KidsLeft(f, e, b)
    BY <1>1 DEF KidsLeft
  <2>3. PageWith(f.node, e, b)' = PageWith(f.node, e, b)
    BY PageSame
  <2> QED
    BY <2>1, <2>2, <2>3 DEF Left
<1>3. ASSUME NEW f, NEW e, AsFar(f, e) PROVE AsFar(f, e)'
  <2>1. Inside(f.node, e)' = Inside(f.node, e) /\ RowsIn(f.node, e)' = RowsIn(f.node, e)
    BY InsideSame, RowsSame
  <2> QED
    BY <1>3, <2>1 DEF AsFar
<1>4. ASSUME NEW f, NEW e PROVE Current(f, e)' = Current(f, e)
  BY <1>1 DEF Current
<1> QED
  BY <1>1, <1>2, <1>3, <1>4

LEMMA FrameSame ==
  ASSUME UNCHANGED call, NEW i, NEW e, NEW b, NEW around,
         NEW lv, StandsAt(lv, stack'[i], e, i, around)
  PROVE  /\ StandsAt(lv, stack[i], e, i, around)'
         /\ Left(stack[i], e, b)' = Left(stack'[i], e, b)
         /\ Inner(stack[i], e)' = Inner(stack'[i], e)
<1>1. PICK f : f = stack'[i]
  OBVIOUS
<1>2. /\ AsFar(f, e) => AsFar(f, e)'
      /\ Left(f, e, b)' = Left(f, e, b) /\ Inner(f, e)' = Inner(f, e)
  BY LeftSame
<1>3. AsFar(f, e)' => AsFar(stack[i], e)'
  BY <1>1
<1>4. Left(f, e, b)' = Left(stack[i], e, b)'
  BY <1>1
<1>5. Inner(f, e)' = Inner(stack[i], e)'
  BY <1>1
<1> QED
  BY <1>1, <1>2, <1>3, <1>4, <1>5 DEF StandsAt

LEMMA ContinuesSame ==
  ASSUME UNCHANGED call, IInv', NEW lv, NEW pg, NEW env0, NEW total,
         Paged(lv, pg, env0),
         GoesOnTo(lv, pg, stack', scope', out', total)
  PROVE  GoesOnTo(lv, pg, stack, scope, out, total)'
<1>1. PICK E, R : /\ Continues(lv, pg, stack', E, R, out', total)
                  /\ stack' # <<>> =>
                       Agrees(scope', Current(Last(stack'), E[Len(stack')]))
  BY DEF GoesOnTo
<1>2. Placing(lv, stack', E) /\ Remaining(pg, stack', E, R) /\ Sequence(out')
      /\ Together(out', R[Len(stack')]) = total
  BY <1>1 DEF Continues
<1>3. PICK m : m = Len(stack')
  OBVIOUS
<1>4. m \in Nat
  <2>1. Shape(stack')
    BY ShapeAgain
  <2>2. PICK F : stack' \in Seq(F)
    BY <2>1 DEF Shape, Stacked
  <2> QED
    BY <1>3, <2>2
<1>5. ASSUME NEW i \in 1..m
      PROVE  /\ StandsAt(lv, stack[i], E[i], i, Around(stack, i))'
             /\ LeftAt(pg, stack, E, i)' = LeftAt(pg, stack', E, i)
             /\ Inner(stack[i], E[i])' = Inner(stack'[i], E[i])
  <2>1. PICK around : around = Around(stack', i)
    OBVIOUS
  <2>2. Around(stack, i)' = around
    BY <1>4, <2>1, CallSame
  <2>3. StandsAt(lv, stack'[i], E[i], i, around)
    BY <1>2, <1>3, <2>1 DEF Placing
  <2>4. PICK e, b : e = E[i] /\ b = BelowAt(pg, i)
    OBVIOUS
  <2>5. /\ StandsAt(lv, stack[i], e, i, around)'
        /\ Left(stack[i], e, b)' = Left(stack'[i], e, b)
        /\ Inner(stack[i], e)' = Inner(stack'[i], e)
    BY <2>3, <2>4, FrameSame
  <2> QED
    BY <2>2, <2>4, <2>5 DEF LeftAt
<1>6. Placing(lv, stack, E)'
  <2>1. \A i \in 1..(m - 1) : i \in 1..m /\ E[i + 1] = Inner(stack'[i], E[i])
    BY <1>2, <1>3, <1>4 DEF Placing
  <2> QED
    BY <1>3, <1>5, <2>1 DEF Placing
<1>7. Remaining(pg, stack, E, R)'
  BY <1>2, <1>3, <1>5 DEF Remaining
<1>8. Continues(lv, pg, stack, E, R, out, total)'
  BY <1>2, <1>6, <1>7 DEF Continues
<1>9. (stack # <<>> => Agrees(scope, Current(Last(stack), E[Len(stack)])))'
  <2>1. PICK f, e : f = Last(stack') /\ e = E[Len(stack')]
    OBVIOUS
  <2>2. Current(f, e)' = Current(f, e)
    BY LeftSame
  <2>3. Current(Last(stack), E[Len(stack)])' = Current(f, e)'
    BY <2>1
  <2> QED
    BY <1>1, <2>1, <2>2, <2>3 DEF Agrees
<1> QED
  BY <1>8, <1>9 DEF GoesOnTo

-----------------------------------------------------------------------------
(* There is one page.                                                       *)
LEMMA PagingUnique ==
  ASSUME NEW top, NEW env, NEW lv, NEW pg, Paging(lv, pg, top, env),
         NEW lv2, NEW pg2, Paging(lv2, pg2, top, env)
  PROVE  pg[MaxDepth] = pg2[MaxDepth]
<1> DEFINE S == { d \in 0..MaxDepth : lv[d] = lv2[d] }
           T == { h \in 0..MaxDepth : pg[h] = pg2[h] }
<1>1. 0 \in S
  BY DepthAssumption DEF Paging
<1>2. ASSUME NEW d \in 0..(MaxDepth - 1), d \in S PROVE d + 1 \in S
  <2>1. d + 1 \in 1..MaxDepth /\ d + 1 \in 0..MaxDepth /\ (d + 1) - 1 = d
    BY DepthAssumption
  <2>2. lv[d + 1] = Entries(lv[d]) /\ lv2[d + 1] = Entries(lv2[d])
    BY <2>1 DEF Paging
  <2> QED
    BY <1>2, <2>1, <2>2
<1>3. \A d \in 0..MaxDepth : lv[d] = lv2[d]
  <2> HIDE DEF S
  <2>1. 0..MaxDepth \subseteq S
    BY <1>1, <1>2, IntervalInduction, DepthAssumption
  <2> QED
    BY <2>1 DEF S
<1>4. ASSUME NEW h \in 0..MaxDepth
      PROVE  /\ pg[h] = PagesOf(lv[MaxDepth - h], h, pg[h - 1])
             /\ pg2[h] = PagesOf(lv[MaxDepth - h], h, pg2[h - 1])
  <2>1. MaxDepth - h \in 0..MaxDepth
    BY DepthAssumption
  <2> QED
    BY <1>3, <2>1 DEF Paging
<1>5. 0 \in T
  <2>1. 0 \in 0..MaxDepth
    BY DepthAssumption
  <2>2. PICK a, b, L : a = pg[0 - 1] /\ b = pg2[0 - 1] /\ L = lv[MaxDepth - 0]
    OBVIOUS
  <2>3. pg[0] = PagesOf(L, 0, a) /\ pg2[0] = PagesOf(L, 0, b)
    BY <1>4, <2>1, <2>2
  <2>4. PagesOf(L, 0, a) = PagesOf(L, 0, b)
    BY DeepestPages
  <2> QED
    BY <2>1, <2>3, <2>4
<1>6. ASSUME NEW h \in 0..(MaxDepth - 1), h \in T PROVE h + 1 \in T
  <2>1. h + 1 \in 0..MaxDepth /\ (h + 1) - 1 = h
    BY DepthAssumption
  <2> QED
    BY <1>4, <1>6, <2>1
<1> HIDE DEF T
<1>7. 0..MaxDepth \subseteq T
  BY <1>5, <1>6, IntervalInduction, DepthAssumption
<1> QED
  BY <1>7, DepthAssumption DEF T

(* The environment of the root                                              *)
Env0 == [n \in template.given |-> Arg(n)]

PageNow(pg) == pg[MaxDepth][<< template.root, Env0 >>]

OnWay ==
  \E lv, pg : /\ Paged(lv, pg, Env0)
              /\ GoesOnTo(lv, pg, stack, scope, out, PageNow(pg))

LEMMA PageIs ==
  ASSUME NEW lv, NEW pg, Paged(lv, pg, Env0)
  PROVE  PageNow(pg) = Page(template.root, Env0)
<1>1. PICK top, env : top = template.root /\ env = Env0
  OBVIOUS
<1>2. PICK lv2, pg2 : /\ Paging(lv2, pg2, top, env)
                      /\ Page(top, env) = pg2[MaxDepth][<< top, env >>]
  BY PageRuns
<1>3. Paging(lv, pg, top, env)
  BY <1>1 DEF Paged
<1>4. pg[MaxDepth] = pg2[MaxDepth]
  BY <1>2, <1>3, PagingUnique
<1> QED
  BY <1>1, <1>2, <1>4 DEF PageNow

LEMMA StepGoes ==
  ASSUME NEW lv, NEW pg, NEW env0, NEW E, NEW R, NEW total, Here(lv, pg, env0, E, R, total),
         RenderStep, status' = "rendering"
  PROVE  GoesOnTo(lv, pg, stack', scope', out', total)
<1>1. CASE RenderNode
  BY <1>1, RenderNodeGoes
<1>2. CASE RunQuery
  BY <1>2, RunQueryGoes
<1>3. CASE BindRow
  BY <1>3, BindRowGoes
<1>4. CASE FreeRows
  BY <1>4, FreeRowsGoes
<1>5. CASE RenderChild
  BY <1>5, RenderChildGoes
<1>6. CASE EndChildren
  BY <1>6, EndChildrenGoes
<1>7. CASE CloseElement
  BY <1>7, CloseElementGoes
<1>8. ~QueryFails /\ ~BadRead /\ ~Finish
  BY DEF QueryFails, BadRead, Finish
<1> QED
  BY <1>1, <1>2, <1>3, <1>4, <1>5, <1>6, <1>7, <1>8 DEF RenderStep

LEMMA OnWayStep ==
  ASSUME IInv, IInv', Plain, OnWay, RenderStep, status' = "rendering"
  PROVE  OnWay'
<1>1. UNCHANGED call
  BY DEF RenderStep, RenderNode, RunQuery, QueryFails, BindRow, FreeRows, RenderChild,
         EndChildren, CloseElement, BadRead, Finish
<1>2. PICK env0 : env0 = Env0
  OBVIOUS
<1>3. PICK lv, pg : /\ Paged(lv, pg, env0)
                    /\ GoesOnTo(lv, pg, stack, scope, out, PageNow(pg))
  BY <1>2 DEF OnWay
<1>4. PICK total : total = PageNow(pg)
  OBVIOUS
<1>5. PICK E, R : /\ Continues(lv, pg, stack, E, R, out, total)
                  /\ stack # <<>> => Agrees(scope, Current(Last(stack), E[Len(stack)]))
  BY <1>3, <1>4 DEF GoesOnTo
<1>6. stack # <<>>
  BY DEF RenderStep, RenderNode, RunQuery, QueryFails, BindRow, FreeRows, RenderChild,
         EndChildren, CloseElement, BadRead, RiskAhead, Finish, Running
<1>7. Here(lv, pg, env0, E, R, total)
  BY <1>3, <1>5, <1>6 DEF Here, Top
<1>8. GoesOnTo(lv, pg, stack', scope', out', total)
  BY <1>7, StepGoes
<1>9. GoesOnTo(lv, pg, stack, scope, out, total)'
  BY <1>1, <1>3, <1>8, ContinuesSame
<1>10. Paged(lv, pg, env0)'
  BY <1>1, <1>3, PagedSame
<1>11. Env0' = env0 /\ PageNow(pg)' = total
  <2>1. template' = template
    BY <1>1 DEF call
  <2>2. Env0' = Env0
    BY <2>1 DEF Env0
  <2> QED
    BY <1>2, <1>4, <2>1, <2>2 DEF PageNow
<1> QED
  BY <1>9, <1>10, <1>11 DEF OnWay

LEMMA OnWaySame ==
  ASSUME UNCHANGED << call, scope, stack, out >>, IInv', OnWay
  PROVE  OnWay'
<1>1. PICK env0 : env0 = Env0
  OBVIOUS
<1>2. PICK lv, pg : /\ Paged(lv, pg, env0)
                    /\ GoesOnTo(lv, pg, stack, scope, out, PageNow(pg))
  BY <1>1 DEF OnWay
<1>3. PICK total : total = PageNow(pg)
  OBVIOUS
<1>4. GoesOnTo(lv, pg, stack', scope', out', total)
  BY <1>2, <1>3
<1>5. GoesOnTo(lv, pg, stack, scope, out, total)'
  BY <1>2, <1>4, ContinuesSame
<1>6. Paged(lv, pg, env0)'
  BY <1>2, PagedSame
<1>7. Env0' = env0 /\ PageNow(pg)' = total
  <2>1. template' = template
    BY DEF call
  <2>2. Env0' = Env0
    BY <2>1 DEF Env0
  <2> QED
    BY <1>1, <1>3, <2>1, <2>2 DEF PageNow
<1> QED
  BY <1>5, <1>6, <1>7 DEF OnWay

(* With nothing left to write all is written.                               *)
Whole == \E lv, pg : Paged(lv, pg, Env0) /\ out = PageNow(pg)

LEMMA AllWritten ==
  ASSUME OnWay, stack = <<>>
  PROVE  Whole
<1>1. PICK lv, pg : /\ Paged(lv, pg, Env0)
                    /\ GoesOnTo(lv, pg, stack, scope, out, PageNow(pg))
  BY DEF OnWay
<1>2. PICK total : total = PageNow(pg)
  OBVIOUS
<1>3. PICK E, R : Continues(lv, pg, stack, E, R, out, total)
  BY <1>1, <1>2 DEF GoesOnTo
<1>4. Len(stack) = 0
  OBVIOUS
<1>5. R[0] = <<>> /\ Sequence(out) /\ Together(out, R[0]) = total
  BY <1>3, <1>4 DEF Continues, Remaining
<1>6. out = total
  BY <1>5, OneToken, JoinedTo
<1> QED
  BY <1>1, <1>2, <1>6 DEF Whole

LEMMA WholeSame ==
  ASSUME UNCHANGED << call, out >>, Whole
  PROVE  Whole'
<1>1. PICK env0 : env0 = Env0
  OBVIOUS
<1>2. PICK lv, pg : Paged(lv, pg, env0) /\ out = PageNow(pg)
  BY <1>1 DEF Whole
<1>3. Paged(lv, pg, env0)'
  BY <1>2, PagedSame
<1>4. Env0' = env0 /\ out' = PageNow(pg)'
  <2>1. template' = template
    BY DEF call
  <2>2. Env0' = Env0
    BY <2>1 DEF Env0
  <2> QED
    BY <1>1, <1>2, <2>1, <2>2 DEF PageNow
<1> QED
  BY <1>3, <1>4 DEF Whole

(* It begins with the whole page to write.                                  *)
LEMMA BeginGoes ==
  ASSUME Begin, Agrees(scope, Env0)
  PROVE  OnWay
<1>1. PICK node, env : node = template.root /\ env = Env0
  OBVIOUS
<1>2. PICK lv, pg : Paging(lv, pg, node, env)
  BY PageRuns
<1>3. Renderable /\ stack = << Frame(node) >> /\ out = <<>>
  BY <1>1 DEF Begin
<1>4. DOMAIN env = template.given
  BY <1>1 DEF Env0
<1>5. Paged(lv, pg, env)
  BY <1>1, <1>2, <1>4 DEF Paged
<1>6. PICK f : f = Frame(node)
  OBVIOUS
<1>7. f.node = node /\ f.todo = "open" /\ f.row = 0 /\ f.next = 1
  BY <1>6 DEF Frame
<1>8. stack = << f >> /\ Len(stack) = 1 /\ stack[1] = f /\ Last(stack) = f
  BY <1>3, <1>6 DEF Last
<1>9. << node, env >> \in lv[0]
  BY <1>2 DEF Paging
<1>10. MaxDepth \in Nat \ {0} /\ 1 \in 1..MaxDepth /\ 0 \in 0..(MaxDepth - 1)
  <2>1. << template.root, template.given >> \in Levels[0] /\ 0 \in 0..MaxDepth
    BY LevelsRun, DepthAssumption DEF Levels
  <2>2. 0 < MaxDepth
    BY <1>3, <2>1, LevelNodes
  <2> QED
    BY <2>2, DepthAssumption
<1>11. Ready(node, env, BelowAt(pg, 1))
  BY <1>3, <1>5, <1>9, <1>10, ReadyIn
<1>12. AsFar(f, env)
  BY <1>7 DEF AsFar, Todos
<1>13. PICK left : left = Left(f, env, BelowAt(pg, 1))
  OBVIOUS
<1>14. Sequence(left)
  BY <1>7, <1>11, <1>12, <1>13, LeftSequence
<1>15. left = pg[MaxDepth][<< node, env >>]
  <2>1. left = PageWith(node, env, pg[MaxDepth - 1])
    BY <1>7, <1>13 DEF Left, BelowAt
  <2>2. pg[MaxDepth - 0][<< node, env >>] = PageWith(node, env, pg[(MaxDepth - 0) - 1])
    BY <1>2, <1>9, <1>10, PageAt
  <2>3. MaxDepth - 0 = MaxDepth
    BY <1>10
  <2> QED
    BY <2>1, <2>2, <2>3
<1>16. PICK E, R : /\ E = [i \in 1..1 |-> env]
                   /\ R = [i \in 0..1 |-> IF i = 1 THEN left ELSE <<>>]
  OBVIOUS
<1>17. E[1] = env /\ R[0] = <<>> /\ R[1] = left
  BY <1>16
<1>18. Around(stack, 1) = template.given
  BY DEF Around
<1>19. Placing(lv, stack, E)
  <2>1. StandsAt(lv, stack[1], E[1], 1, Around(stack, 1))
    BY <1>4, <1>7, <1>8, <1>9, <1>12, <1>17, <1>18 DEF StandsAt
  <2> QED
    BY <1>8, <2>1 DEF Placing
<1>20. Remaining(pg, stack, E, R)
  <2>1. LeftAt(pg, stack, E, 1) = left
    BY <1>8, <1>13, <1>17 DEF LeftAt
  <2>2. R[1] = Together(LeftAt(pg, stack, E, 1), R[1 - 1])
    <3>1. Together(left, <<>>) = left
      BY <1>14, OneToken, JoinedTo
    <3>2. 1 - 1 = 0
      OBVIOUS
    <3> QED
      BY <1>17, <2>1, <3>1, <3>2
  <2>3. \A i \in 0..1 : Sequence(R[i])
    <3>1. Sequence(<<>>)
      BY OneToken
    <3>2. \A i \in 0..1 : i = 0 \/ i = 1
      OBVIOUS
    <3> QED
      BY <1>14, <1>17, <3>1, <3>2
  <2> QED
    BY <1>8, <1>17, <2>2, <2>3 DEF Remaining
<1>21. Continues(lv, pg, stack, E, R, out, left)
  BY <1>3, <1>8, <1>14, <1>17, <1>19, <1>20, JoinedTo, OneToken DEF Continues
<1>22. Current(Last(stack), E[Len(stack)]) = env
  BY <1>7, <1>8, <1>17 DEF Current
<1>23. GoesOnTo(lv, pg, stack, scope, out, left)
  BY <1>1, <1>21, <1>22 DEF GoesOnTo
<1> QED
  BY <1>1, <1>5, <1>15, <1>23 DEF OnWay, PageNow

-----------------------------------------------------------------------------
(* The arguments a call is given are the ones its page is for.              *)
LEMMA InputsAre ==
  ASSUME function \in Calls, IsPrefix(Inputs, Args)
  PROVE  /\ Len(Args) \in Nat /\ DOMAIN Args = 1..Len(Args)
         /\ Len(Inputs) \in 0..Len(Args) /\ DOMAIN Inputs = 1..Len(Inputs)
         /\ \A i \in DOMAIN Inputs : i \in DOMAIN Args /\ Inputs[i] = Args[i]
<1>1. PICK S : S = [name : Chars, mode : STRING]
  OBVIOUS
<1>2. Args \in Seq(S)
  BY <1>1, FunctionOf
<1>3. PICK a, L : a = Args /\ L = Len(a)
  OBVIOUS
<1>4. L \in Nat /\ DOMAIN a = 1..L /\ \A i \in 1..L : a[i] \in S
  BY <1>2, <1>3, SequenceOf
<1>5. PICK s : s = [i \in DOMAIN a |-> IF a[i].mode # "out" THEN << a[i] >> ELSE <<>>]
  OBVIOUS
<1>6. \A x \in S : << x >> \in Seq(S)
  OBVIOUS
<1>7. \A i \in 1..L : s[i] \in Seq(S)
  <2>1. ASSUME NEW i \in 1..L PROVE s[i] \in Seq(S)
    <3>1. s[i] = << a[i] >> \/ s[i] = <<>>
      BY <1>4, <1>5
    <3>2. <<>> \in Seq(S)
      OBVIOUS
    <3> QED
      BY <1>4, <1>6, <3>1, <3>2
  <2> QED
    BY <2>1
<1>8. s \in Seq(Seq(S))
  <2>1. PICK T : T = Seq(S)
    OBVIOUS
  <2>2. s \in [1..L -> T]
    BY <1>4, <1>5, <1>7, <2>1
  <2>3. \A j \in Nat : [1..j -> T] \subseteq Seq(T)
    OBVIOUS
  <2> QED
    BY <1>4, <2>1, <2>2, <2>3
<1>9. FlattenSeq(s) \in Seq(S)
  BY <1>8, FlattenType
<1>10. Inputs = FlattenSeq(s)
  BY <1>3, <1>5, Zenon DEF Inputs, InputsOf
<1>11. PICK b, M : b = Inputs /\ M = Len(b)
  OBVIOUS
<1>12. b \in Seq(S)
  BY <1>9, <1>10, <1>11
<1>13. M \in Nat /\ DOMAIN b = 1..M /\ b = [i \in 1..M |-> b[i]]
  BY <1>11, <1>12
<1>14. M <= L /\ SubSeq(b, 1, M) = SubSeq(a, 1, M)
  BY <1>3, <1>11 DEF IsPrefix
<1>15. ASSUME NEW i \in 1..M PROVE i \in 1..L /\ b[i] = a[i]
  <2>1. a \in Seq(S) /\ i \in 1..L
    BY <1>2, <1>3, <1>4, <1>13, <1>14
  <2>2. SubSeq(b, 1, M)[i] = b[i]
    BY <1>12, <1>13
  <2>3. SubSeq(a, 1, M)[i] = a[i]
    BY <1>4, <1>13, <1>14, <2>1
  <2> QED
    BY <1>14, <2>1, <2>2, <2>3
<1> QED
  BY <1>3, <1>4, <1>11, <1>13, <1>14, <1>15

LEMMA GivenAre ==
  ASSUME function \in Calls, WellCalled
  PROVE  Given = InputNames
<1>1. /\ DOMAIN Inputs \subseteq DOMAIN Args
      /\ \A i \in DOMAIN Inputs : Inputs[i] = Args[i]
      /\ \A i, j \in DOMAIN Args : Args[i].name = Args[j].name => i = j
  BY InputsAre DEF WellCalled
<1>2. DOMAIN Args \cap DOMAIN Inputs = DOMAIN Inputs
  BY <1>1
<1>3. PICK some, more, ins : /\ some = { Args[i].name : i \in DOMAIN Args \cap DOMAIN Inputs }
                             /\ more = { Args[i].name : i \in DOMAIN Args \ DOMAIN Inputs }
                             /\ ins = { Inputs[i].name : i \in DOMAIN Inputs }
  OBVIOUS
<1>4. some = ins
  BY <1>1, <1>2, <1>3
<1>5. some \cap more = {}
  BY <1>1, <1>3
<1>6. Given = some \ more /\ InputNames = ins
  BY <1>3 DEF Given, InputNames
<1> QED
  BY <1>4, <1>5, <1>6

LEMMA PassedValue ==
  ASSUME nulls = {}, NEW i \in DOMAIN Inputs
  PROVE  Passed(i).value = Arg(Inputs[i].name)
<1>1. PICK v : v = Arg(Inputs[i].name)
  OBVIOUS
<1>2. Datum(v) = v
  BY DEF Datum
<1>3. Passed(i) = Bound(v, 0)
  BY <1>1, <1>2 DEF Passed
<1>4. Bound(v, 0).value = v
  BY DEF Bound
<1> QED
  BY <1>1, <1>3, <1>4

LEMMA ArgumentsAgree ==
  ASSUME Hashes, ParserInv, function \in Calls, WellCalled, nulls = {}, Loaded
  PROVE  Agrees(ArgumentScope, Env0)
<1>1. /\ Len(Args) \in Nat /\ DOMAIN Args = 1..Len(Args)
      /\ \A i \in DOMAIN Inputs : i \in DOMAIN Args /\ Inputs[i] = Args[i]
  BY InputsAre DEF WellCalled
<1>2. \A i \in 1..Len(Args) : Args[i].name \in Chars
  <2>1. PICK S : S = [name : Chars, mode : STRING]
    OBVIOUS
  <2>2. PICK a \in Seq(S) : a = Args
    BY <2>1, FunctionOf
  <2>3. \A i \in 1..Len(a) : a[i] \in S
    BY SequenceOf
  <2> QED
    BY <2>1, <2>2, <2>3
<1>3. PICK L \in Nat : L = Len(Args)
  BY <1>1
<1>4. PICK bound : /\ bound[0] = scope /\ ArgumentScope = bound[L]
                   /\ \A i \in 1..L : bound[i] = WithArgument(bound[i - 1], i)
  BY <1>1, <1>3, BindingRuns
<1>5. template.given = Given /\ Given = InputNames /\ DOMAIN scope = Known
  BY GivenAre DEF Loaded
<1> DEFINE Good(i) ==
             /\ DOMAIN bound[i] = Known
             /\ \A j \in 1..i : j \in DOMAIN Inputs /\ Args[j].name \in Known =>
                  bound[i][Args[j].name] = Passed(j)
           S == { i \in 0..L : Good(i) }
<1>6. 0 \in S
  BY <1>4, <1>5
<1>7. ASSUME NEW i \in 0..(L - 1), i \in S PROVE i + 1 \in S
  <2>1. i + 1 \in 1..L /\ (i + 1) - 1 = i /\ i + 1 \in 0..L
    OBVIOUS
  <2>2. bound[i + 1] = WithArgument(bound[i], i + 1)
    BY <1>4, <2>1
  <2>3. /\ DOMAIN bound[i] = Known
        /\ \A j \in 1..i : j \in DOMAIN Inputs /\ Args[j].name \in Known =>
             bound[i][Args[j].name] = Passed(j)
    BY <1>7
  <2>4. Args[i + 1].name \in Chars
    BY <1>2, <1>3, <2>1
  <2>5. /\ DOMAIN bound[i + 1] = Known
        /\ \A n \in Known : bound[i + 1][n] =
              IF n = Args[i + 1].name THEN Passed(i + 1) ELSE bound[i][n]
    BY <2>2, <2>3, <2>4, WithArgumentIs
  <2>6. ASSUME NEW j \in 1..(i + 1), j \in DOMAIN Inputs, Args[j].name \in Known
        PROVE  bound[i + 1][Args[j].name] = Passed(j)
    <3>1. CASE j = i + 1
      BY <2>5, <2>6, <3>1
    <3>2. CASE j # i + 1
      <4>1. j \in 1..i /\ i + 1 \in DOMAIN Args /\ j \in DOMAIN Args
        BY <1>1, <1>3, <2>1, <2>6, <3>2
      <4>2. Args[j].name # Args[i + 1].name
        BY <3>2, <4>1 DEF WellCalled
      <4> QED
        BY <2>3, <2>5, <2>6, <4>1, <4>2
    <3> QED
      BY <3>1, <3>2
  <2> QED
    BY <2>1, <2>5, <2>6
<1>8. 0..L \subseteq S
  <2> HIDE DEF S
  <2> QED
    BY <1>6, <1>7, IntervalInduction
<1>9. Good(L)
  BY <1>8
<1>10. ASSUME NEW n \in DOMAIN Env0 \cap DOMAIN ArgumentScope
       PROVE  ArgumentScope[n].value = Env0[n]
  <2>1. n \in InputNames /\ n \in Known /\ Env0[n] = Arg(n)
    BY <1>4, <1>5, <1>9, <1>10 DEF Env0
  <2>2. PICK j \in DOMAIN Inputs : n = Inputs[j].name
    BY <2>1 DEF InputNames
  <2>3. j \in 1..L /\ Args[j].name = n
    BY <1>1, <1>3, <2>2
  <2>4. ArgumentScope[n] = Passed(j)
    BY <1>4, <1>9, <2>1, <2>3
  <2> QED
    BY <2>1, <2>2, <2>4, PassedValue
<1> QED
  BY <1>10 DEF Agrees

-----------------------------------------------------------------------------
(* The call, from the lines of its source to its page                       *)

LexInv ==
  /\ status \in { "binding", "rendering", "done" } =>
       template.root = Meant /\ template.given = Given
  /\ status = "rendering" /\ WellCalled /\ Plain => OnWay
  /\ status = "done" /\ WellCalled /\ Plain => Whole

LEMMA BeginGoesOn == Begin /\ Agrees(scope, Env0) => OnWay
BY BeginGoes

LEMMA MeaningSame ==
  ASSUME UNCHANGED function
  PROVE  Meant' = Meant /\ Given' = Given /\ (WellCalled' <=> WellCalled)
<1>1. Meant' = Meant
  BY DEF Meant, Lines
<1>2. Args' = Args /\ Inputs' = Inputs
  BY DEF Args, Inputs
<1>3. Unnamed' = Unnamed
  BY <1>2 DEF Unnamed
<1> QED
  BY <1>1, <1>2, <1>3 DEF Given, WellCalled

LEMMA PlainSame ==
  ASSUME UNCHANGED call
  PROVE  Plain' <=> Plain
<1>1. (Scoped' <=> Scoped) /\ nulls' = nulls /\ db' = db
  BY CallSame
<1> QED
  BY <1>1 DEF Plain, AllFetched

LEMMA LexLoad ==
  ASSUME AsWritten, Load
  PROVE  LexInv'
<1>1. /\ status = "parsing" /\ parsing = "parsed" /\ status' = "binding"
      /\ function' = function
      /\ template' = [root |-> Tree(root[1]), given |-> Given, names |-> Known]
  BY DEF Load, Known
<1>2. Tree(root[1]) = Meant
  BY <1>1 DEF AsWritten
<1>3. template'.root = Meant /\ template'.given = Given
  BY <1>1, <1>2
<1>4. Meant' = Meant /\ Given' = Given
  BY <1>1, MeaningSame
<1> QED
  BY <1>1, <1>3, <1>4 DEF LexInv

LEMMA LexBind ==
  ASSUME Hashes, CallInv, Executable, LexInv, BindArguments
  PROVE  LexInv'
<1>1. /\ status = "binding" /\ UNCHANGED call /\ scope' = ArgumentScope
      /\ status' = "rendering" /\ function' = function
  BY DEF BindArguments
<1>2. /\ template' = template /\ Meant' = Meant /\ Given' = Given
      /\ (WellCalled' <=> WellCalled) /\ (Plain' <=> Plain)
  BY <1>1, MeaningSame, PlainSame DEF call
<1>3. template.root = Meant /\ template.given = Given
  BY <1>1 DEF LexInv
<1>4. ASSUME WellCalled, Plain PROVE OnWay'
  <2>1. Agrees(ArgumentScope, Env0)
    BY <1>1, <1>4, ArgumentsAgree DEF CallInv, Plain
  <2>2. Env0' = Env0
    BY <1>2 DEF Env0
  <2>3. Agrees(scope, Env0)'
    BY <1>1, <2>1, <2>2 DEF Agrees
  <2>4. Begin'
    BY BindBegins
  <2> QED
    BY <2>3, <2>4, BeginGoesOn, PTL
<1> QED
  BY <1>1, <1>2, <1>3, <1>4 DEF LexInv

LEMMA LexRendering ==
  ASSUME CallInv, CallInv', LexInv, Rendering
  PROVE  LexInv'
<1>1. RenderStep /\ function' = function
  BY DEF Rendering
<1>2. status = "rendering"
  BY <1>1 DEF RenderStep, RenderNode, RunQuery, QueryFails, BindRow, FreeRows, RenderChild,
              EndChildren, CloseElement, BadRead, RiskAhead, Finish, Running
<1>3. UNCHANGED call
  BY <1>1 DEF RenderStep, RenderNode, RunQuery, QueryFails, BindRow, FreeRows, RenderChild,
              EndChildren, CloseElement, BadRead, Finish
<1>4. /\ template' = template /\ Meant' = Meant /\ Given' = Given
      /\ (WellCalled' <=> WellCalled) /\ (Plain' <=> Plain)
  BY <1>1, <1>3, MeaningSame, PlainSame DEF call
<1>5. template.root = Meant /\ template.given = Given
  BY <1>2 DEF LexInv
<1>6. ASSUME WellCalled, Plain, status' = "rendering" PROVE OnWay'
  <2>1. IInv /\ IInv' /\ OnWay
    BY <1>2, <1>6 DEF CallInv, LexInv
  <2> QED
    BY <1>1, <1>6, <2>1, OnWayStep
<1>7. ASSUME WellCalled, Plain, status' = "done" PROVE Whole'
  <2>1. Finish
    BY <1>1, <1>2, <1>7 DEF RenderStep, RenderNode, RunQuery, QueryFails, BindRow, FreeRows,
                            RenderChild, EndChildren, CloseElement, BadRead
  <2>2. stack = <<>> /\ UNCHANGED << call, out >>
    BY <2>1 DEF Finish
  <2>3. Whole
    BY <1>2, <1>7, <2>2, AllWritten DEF LexInv
  <2> QED
    BY <2>2, <2>3, WholeSame
<1> QED
  BY <1>4, <1>5, <1>6, <1>7 DEF LexInv

LEMMA LexRest ==
  ASSUME CallInv', LexInv, UNCHANGED vars
  PROVE  LexInv'
<1>1. /\ function' = function /\ UNCHANGED call /\ UNCHANGED << call, scope, stack, out >>
      /\ UNCHANGED << call, out >> /\ status' = status /\ template' = template
  BY DEF vars, page, call
<1>2. /\ Meant' = Meant /\ Given' = Given
      /\ (WellCalled' <=> WellCalled) /\ (Plain' <=> Plain)
  BY <1>1, MeaningSame, PlainSame
<1>3. ASSUME status = "rendering", OnWay PROVE OnWay'
  BY <1>1, <1>3, OnWaySame DEF CallInv
<1>4. ASSUME Whole PROVE Whole'
  BY <1>1, <1>4, WholeSame
<1> QED
  BY <1>1, <1>2, <1>3, <1>4 DEF LexInv

LEMMA LexKept ==
  ASSUME Hashes, CallInv, CallInv', Executable, AsWritten, LexInv, [Next]_vars
  PROVE  LexInv'
<1>1. CASE Parse
  BY <1>1 DEF Parse, page, LexInv
<1>2. CASE Load
  BY <1>2, LexLoad
<1>3. CASE LoadFails
  BY <1>3 DEF LoadFails, LexInv
<1>4. CASE BindArguments
  BY <1>4, LexBind
<1>5. CASE BindFails
  BY <1>5 DEF BindFails, LexInv
<1>6. CASE Rendering
  BY <1>6, LexRendering
<1>7. CASE Stop \/ UNCHANGED vars
  BY <1>7, LexRest DEF Stop
<1> QED
  BY <1>1, <1>2, <1>3, <1>4, <1>5, <1>6, <1>7 DEF Next

LEMMA LexGives ==
  ASSUME CallInv, LexInv
  PROVE  LexicalPage
<1> SUFFICES ASSUME status = "done", WellScoped, nulls = {},
                    \A t \in DOMAIN db : db[t] <= RowLimit
             PROVE  out = Page(Meant, [n \in InputNames |-> Arg(n)])
  BY DEF LexicalPage
<1>1. WellCalled /\ InScope(Meant, InputNames) /\ Unshadowed(Meant, InputNames)
  BY DEF WellScoped
<1>2. template.root = Meant /\ template.given = InputNames
  BY <1>1, GivenAre DEF LexInv, CallInv
<1>3. Plain
  BY <1>1, <1>2 DEF Plain, Scoped, AllFetched
<1>4. PICK lv, pg : Paged(lv, pg, Env0) /\ out = PageNow(pg)
  BY <1>1, <1>3 DEF LexInv, Whole
<1>5. out = Page(template.root, Env0)
  BY <1>4, PageIs
<1>6. Env0 = [n \in InputNames |-> Arg(n)]
  BY <1>2 DEF Env0
<1> QED
  BY <1>2, <1>5, <1>6

(* One flat scope is enough when no name hides another: whenever the parser *)
(* has made the tree that the lines mean, the page is the one that lexical  *)
(* scoping gives to the source, for every template, every set of arguments  *)
(* and every table (muggin.c:726-841, plmuggin.c:147-178).                  *)
THEOREM CallLexicalPage ==
  ASSUME Hashes
  PROVE  Spec /\ []Executable /\ []AsWritten => []LexicalPage
<1>1. Init => LexInv
  BY DEF Init, LexInv
<1>2. /\ CallInv /\ CallInv' /\ Executable /\ AsWritten /\ LexInv /\ [Next]_vars
      => LexInv'
  BY LexKept
<1>3. CallInv /\ LexInv => LexicalPage
  BY LexGives
<1> QED
  BY <1>1, <1>2, <1>3, CallInvHolds, PTL DEF Spec
=============================================================================
