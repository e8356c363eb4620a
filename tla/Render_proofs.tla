---------------------------- MODULE Render_proofs ----------------------------
(* Theorems about muggin_render, for every template, scope and database.    *)
EXTENDS RenderSafety, SetInduction, SequenceTheorems, TLAPS

USE DepthAssumption

-----------------------------------------------------------------------------
(* The recursions have solutions, and what they compute step by step.       *)

LEMMA TagsExist ==
  ASSUME NEW tokens, NEW L \in Nat
  PROVE  \E up : up = [k \in 0..L |-> IF k = 0 THEN <<>>
                                      ELSE WithToken(up[k - 1], tokens[k])]
<1> DEFINE Solves(up, m) ==
             up = [k \in 0..m |-> IF k = 0 THEN <<>> ELSE WithToken(up[k - 1], tokens[k])]
           S == { m \in 0..L : \E up : Solves(up, m) }
<1>1. 0 \in S
  <2>1. Solves([k \in 0..0 |-> <<>>], 0)
    OBVIOUS
  <2> HIDE DEF Solves
  <2> QED
    BY <2>1
<1>2. ASSUME NEW m \in 0..(L - 1), m \in S PROVE m + 1 \in S
  <2>1. PICK up : Solves(up, m)
    BY <1>2
  <2> DEFINE more == [k \in 0..(m + 1) |-> IF k <= m THEN up[k]
                                           ELSE WithToken(up[m], tokens[m + 1])]
  <2>2. ASSUME NEW k \in 0..(m + 1)
        PROVE  more[k] = IF k = 0 THEN <<>> ELSE WithToken(more[k - 1], tokens[k])
    <3>1. CASE k = 0
      BY <2>1, <3>1
    <3>2. CASE k \in 1..m
      <4>1. up[k] = WithToken(up[k - 1], tokens[k])
        BY <2>1, <3>2
      <4>2. more[k] = up[k] /\ more[k - 1] = up[k - 1]
        BY <3>2
      <4> QED
        BY <3>2, <4>1, <4>2
    <3>3. CASE k = m + 1
      <4>1. more[k] = WithToken(up[m], tokens[m + 1]) /\ more[k - 1] = up[m]
        BY <3>3
      <4> QED
        BY <3>3, <4>1
    <3> QED
      BY <3>1, <3>2, <3>3
  <2>3. Solves(more, m + 1)
    <3> HIDE DEF more
    <3>1. more = [k \in 0..(m + 1) |-> more[k]]
      BY DEF more
    <3> QED
      BY <2>2, <3>1
  <2> HIDE DEF more, Solves
  <2> QED
    BY <2>3
<1>3. 0..L \subseteq S
  <2> HIDE DEF S
  <2> QED
    BY <1>1, <1>2, IntervalInduction
<1> QED
  BY <1>3

LEMMA TagsRun ==
  ASSUME NEW X, NEW tokens \in Seq(X)
  PROVE  \E up : /\ up[0] = <<>> /\ TagsIn(tokens) = up[Len(tokens)]
                 /\ \A k \in 1..Len(tokens) : up[k] = WithToken(up[k - 1], tokens[k])
<1> DEFINE L == Len(tokens)
           Solves(up) ==
             up = [k \in 0..L |-> IF k = 0 THEN <<>> ELSE WithToken(up[k - 1], tokens[k])]
           after == CHOOSE up : Solves(up)
<1>1. L \in Nat
  OBVIOUS
<1>2. \E up : Solves(up)
  <2> HIDE DEF L
  <2> QED
    BY <1>1, TagsExist
<1>3. Solves(after)
  <2> HIDE DEF Solves
  <2> QED
    BY <1>2
<1>4. TagsIn(tokens) = after[L]
  BY DEF TagsIn
<1>5. after[0] = <<>> /\ \A k \in 1..L : after[k] = WithToken(after[k - 1], tokens[k])
  <2> HIDE DEF after
  <2> QED
    BY <1>1, <1>3
<1> QED
  BY <1>4, <1>5

LEMMA TagsEmpty == TagsIn(<<>>) = <<>>
<1>1. <<>> \in Seq({}) /\ Len(<<>>) = 0
  OBVIOUS
<1> QED
  BY <1>1, TagsRun

(* One token more                                                           *)
LEMMA TagsAppend ==
  ASSUME NEW X, NEW tokens \in Seq(X), NEW token \in X
  PROVE  TagsIn(Append(tokens, token)) = WithToken(TagsIn(tokens), token)
<1> DEFINE L == Len(tokens)
           longer == Append(tokens, token)
<1>1. /\ L \in Nat /\ longer \in Seq(X) /\ Len(longer) = L + 1
      /\ longer[L + 1] = token /\ \A k \in 1..L : longer[k] = tokens[k]
  BY AppendProperties
<1>2. PICK up : /\ up[0] = <<>> /\ TagsIn(tokens) = up[L]
                /\ \A k \in 1..L : up[k] = WithToken(up[k - 1], tokens[k])
  BY TagsRun
<1> HIDE DEF longer
<1>3. PICK up2 : /\ up2[0] = <<>> /\ TagsIn(longer) = up2[Len(longer)]
                 /\ \A k \in 1..Len(longer) : up2[k] = WithToken(up2[k - 1], longer[k])
  BY <1>1, TagsRun
<1> HIDE DEF L
<1> DEFINE S == { k \in 0..L : up[k] = up2[k] }
<1>4. 0 \in S
  BY <1>1, <1>2, <1>3
<1>5. ASSUME NEW k \in 0..(L - 1), k \in S PROVE k + 1 \in S
  <2>1. k + 1 \in 1..L /\ k + 1 \in 1..Len(longer) /\ (k + 1) - 1 = k
    BY <1>1
  <2>2. up[k + 1] = WithToken(up[k], tokens[k + 1])
    BY <1>2, <2>1
  <2>3. up2[k + 1] = WithToken(up2[k], longer[k + 1])
    BY <1>3, <2>1
  <2>4. up[k] = up2[k] /\ longer[k + 1] = tokens[k + 1]
    BY <1>1, <1>5, <2>1
  <2>5. up[k + 1] = up2[k + 1]
    BY <2>2, <2>3, <2>4
  <2> QED
    BY <2>1, <2>5
<1>6. up[L] = up2[L]
  <2>1. 0..L \subseteq S
    <3> HIDE DEF S
    <3> QED
      BY <1>1, <1>4, <1>5, IntervalInduction
  <2> QED
    BY <2>1, <1>1
<1>7. up2[L + 1] = WithToken(up2[L], longer[L + 1])
  <2>1. L + 1 \in 1..Len(longer) /\ (L + 1) - 1 = L
    BY <1>1
  <2> QED
    BY <1>3, <2>1
<1> QED
  BY <1>1, <1>2, <1>3, <1>6, <1>7 DEF longer

(* Tokens that are no tags                                                  *)
LEMMA TagsPlain ==
  ASSUME NEW X, NEW tokens \in Seq(X), NEW Y, NEW plain \in Seq(Y),
         \A t \in Y : t.kind \notin { "open", "close" }
  PROVE  TagsIn(tokens \o plain) = TagsIn(tokens)
<1> DEFINE Z == X \cup Y
           L == Len(plain)
           first(k) == tokens \o SubSeq(plain, 1, k)
           S == { k \in 0..L : TagsIn(first(k)) = TagsIn(tokens) }
<1>1. L \in Nat /\ tokens \in Seq(Z) /\ plain \in Seq(Z)
  OBVIOUS
<1>2. 0 \in S
  <2>1. first(0) = tokens
    <3>1. SubSeq(plain, 1, 0) = <<>>
      BY <1>1
    <3> QED
      BY <3>1
  <2> HIDE DEF first
  <2> QED
    BY <1>1, <2>1
<1>3. ASSUME NEW k \in 0..(L - 1), k \in S PROVE k + 1 \in S
  <2>1. /\ SubSeq(plain, 1, k) \in Seq(Z) /\ plain[k + 1] \in Y /\ plain[k + 1] \in Z
    BY <1>1
  <2>a. SubSeq(plain, 1, k + 1) = Append(SubSeq(plain, 1, k), plain[k + 1])
    BY <1>1, SubSeqRecursiveSecond
  <2>2. first(k) \in Seq(Z)
    BY <1>1, <2>1, ConcatProperties
  <2>3. first(k + 1) = Append(first(k), plain[k + 1])
    BY <1>1, <2>1, <2>a
  <2>4. TagsIn(first(k)) = TagsIn(tokens)
    BY <1>3
  <2> HIDE DEF first, Z, L
  <2>5. TagsIn(first(k + 1)) = WithToken(TagsIn(first(k)), plain[k + 1])
    BY <2>1, <2>2, <2>3, TagsAppend
  <2>6. WithToken(TagsIn(first(k)), plain[k + 1]) = TagsIn(first(k))
    BY <2>1 DEF WithToken
  <2> QED
    BY <1>1, <2>4, <2>5, <2>6
<1>4. 0..L \subseteq S
  <2> HIDE DEF S, L
  <2> QED
    BY <1>1, <1>2, <1>3, IntervalInduction
<1>5. L \in S
  BY <1>1, <1>4
<1>6. SubSeq(plain, 1, L) = plain
  OBVIOUS
<1> QED
  BY <1>5, <1>6

LEMMA LevelsExist ==
  ASSUME NEW first, NEW L \in Nat
  PROVE  \E up : up = [k \in 0..L |-> IF k = 0 THEN first ELSE Deeper(up[k - 1])]
<1> DEFINE Solves(up, m) ==
             up = [k \in 0..m |-> IF k = 0 THEN first ELSE Deeper(up[k - 1])]
           S == { m \in 0..L : \E up : Solves(up, m) }
<1>1. 0 \in S
  <2>1. Solves([k \in 0..0 |-> first], 0)
    OBVIOUS
  <2> HIDE DEF Solves
  <2> QED
    BY <2>1
<1>2. ASSUME NEW m \in 0..(L - 1), m \in S PROVE m + 1 \in S
  <2>1. PICK up : Solves(up, m)
    BY <1>2
  <2> DEFINE more == [k \in 0..(m + 1) |-> IF k <= m THEN up[k] ELSE Deeper(up[m])]
  <2>2. ASSUME NEW k \in 0..(m + 1)
        PROVE  more[k] = IF k = 0 THEN first ELSE Deeper(more[k - 1])
    <3>1. CASE k = 0
      BY <2>1, <3>1
    <3>2. CASE k \in 1..m
      <4>1. up[k] = Deeper(up[k - 1])
        BY <2>1, <3>2
      <4>2. more[k] = up[k] /\ more[k - 1] = up[k - 1]
        BY <3>2
      <4> QED
        BY <3>2, <4>1, <4>2
    <3>3. CASE k = m + 1
      <4>1. more[k] = Deeper(up[m]) /\ more[k - 1] = up[m]
        BY <3>3
      <4> QED
        BY <3>3, <4>1
    <3> QED
      BY <3>1, <3>2, <3>3
  <2>3. Solves(more, m + 1)
    <3> HIDE DEF more
    <3>1. more = [k \in 0..(m + 1) |-> more[k]]
      BY DEF more
    <3> QED
      BY <2>2, <3>1
  <2> HIDE DEF more, Solves
  <2> QED
    BY <2>3
<1>3. 0..L \subseteq S
  <2> HIDE DEF S
  <2> QED
    BY <1>1, <1>2, IntervalInduction
<1> QED
  BY <1>3

LEMMA LevelsRun ==
  ASSUME NEW root, NEW given
  PROVE  /\ NodesAt(root, given)[0] = { << root, given >> }
         /\ \A d \in 1..MaxDepth :
              NodesAt(root, given)[d] = Deeper(NodesAt(root, given)[d - 1])
<1> DEFINE first == { << root, given >> }
           Solves(up) == up = [d \in 0..MaxDepth |-> IF d = 0 THEN first ELSE Deeper(up[d - 1])]
           level == CHOOSE up : Solves(up)
<1>1. \E up : Solves(up)
  <2> HIDE DEF first
  <2> QED
    BY LevelsExist
<1>2. Solves(level)
  <2> HIDE DEF Solves
  <2> QED
    BY <1>1
<1>3. NodesAt(root, given) = level
  BY DEF NodesAt
<1> HIDE DEF level, first
<1>4. level[0] = first /\ \A d \in 1..MaxDepth : level[d] = Deeper(level[d - 1])
  BY <1>2
<1> QED
  BY <1>3, <1>4 DEF first

-----------------------------------------------------------------------------
(* The stack: three ways to change it.                                      *)

Todos == { "open", "query", "rows", "children", "close" }

Frames(N, R) ==
  [node : N, todo : Todos, next : Nat \ {0}, row : Nat, rows : R, table : Nat]

LEMMA Popped ==
  ASSUME NEW F, NEW st \in Seq(F), st # <<>>
  PROVE  /\ Front(st) \in Seq(F) /\ Len(Front(st)) = Len(st) - 1
         /\ \A i \in 1..(Len(st) - 1) : Front(st)[i] = st[i]
         /\ Last(st) \in F /\ Len(st) \in Nat \ {0}
<1>1. Len(st) \in Nat \ {0} /\ st[Len(st)] \in F
  OBVIOUS
<1>2. \A i \in 1..(Len(st) - 1) : st[i] \in F
  OBVIOUS
<1> DEFINE m == Len(st) - 1
<1>3. /\ SubSeq(st, 1, m) \in Seq(F)
      /\ Len(SubSeq(st, 1, m)) = IF 1 <= m THEN m - 1 + 1 ELSE 0
      /\ \A i \in 1..(m - 1 + 1) : SubSeq(st, 1, m)[i] = st[1 + i - 1]
  <2>1. m \in Int /\ 1 \in Int
    BY <1>1
  <2> HIDE DEF m
  <2> QED
    BY <1>2, <2>1, SubSeqProperties DEF m
<1>4. Front(st) = SubSeq(st, 1, m) /\ Last(st) = st[Len(st)]
  BY DEF Front, Last
<1>5. Len(SubSeq(st, 1, m)) = m /\ \A i \in 1..m : SubSeq(st, 1, m)[i] = st[i]
  <2>1. m \in Nat
    BY <1>1
  <2> HIDE DEF m
  <2>2. m - 1 + 1 = m /\ (~(1 <= m) => m = 0)
    BY <2>1
  <2>3. \A i \in 1..m : 1 + i - 1 = i
    BY <2>1
  <2> QED
    BY <1>3, <2>1, <2>2, <2>3
<1> QED
  BY <1>1, <1>3, <1>4, <1>5

LEMMA Swapped ==
  ASSUME NEW N, NEW R, NEW R2, NEW st, NEW f,
         st \in Seq(Frames(N, R)), st # <<>>, f \in Frames(N, R2)
  PROVE  /\ Append(Front(st), f) \in Seq(Frames(N, R \cup R2))
         /\ Len(Append(Front(st), f)) = Len(st)
         /\ Append(Front(st), f)[Len(st)] = f
         /\ \A i \in 1..(Len(st) - 1) : Append(Front(st), f)[i] = st[i]
<1> DEFINE F == Frames(N, R \cup R2)
<1>1. f \in F /\ Frames(N, R) \subseteq F
  BY DEF Frames
<1>2. /\ Front(st) \in Seq(Frames(N, R)) /\ Len(Front(st)) = Len(st) - 1
      /\ \A i \in 1..(Len(st) - 1) : Front(st)[i] = st[i]
      /\ Len(st) \in Nat \ {0}
  BY Popped
<1> HIDE DEF F
<1>3. Front(st) \in Seq(F)
  BY <1>1, <1>2
<1>4. /\ Append(Front(st), f) \in Seq(F)
      /\ Len(Append(Front(st), f)) = Len(Front(st)) + 1
      /\ \A i \in 1..Len(Front(st)) : Append(Front(st), f)[i] = Front(st)[i]
      /\ Append(Front(st), f)[Len(Front(st)) + 1] = f
  BY <1>1, <1>3, AppendProperties
<1> QED
  BY <1>2, <1>4 DEF F

LEMMA Pushed ==
  ASSUME NEW N, NEW R, NEW st \in Seq(Frames(N, R)), NEW R2, NEW f \in Frames(N, R2)
  PROVE  /\ st \o << f >> \in Seq(Frames(N, R \cup R2))
         /\ Len(st \o << f >>) = Len(st) + 1
         /\ (st \o << f >>)[Len(st) + 1] = f
         /\ \A i \in 1..Len(st) : (st \o << f >>)[i] = st[i]
<1> DEFINE F == Frames(N, R \cup R2)
<1>1. f \in F /\ Frames(N, R) \subseteq F
  BY DEF Frames
<1> HIDE DEF F
<1>2. st \in Seq(F) /\ << f >> \in Seq(F) /\ Len(<< f >>) = 1 /\ << f >>[1] = f
  BY <1>1
<1>3. /\ st \o << f >> \in Seq(F) /\ Len(st \o << f >>) = Len(st) + 1
      /\ \A i \in 1..(Len(st) + 1) : (st \o << f >>)[i] =
           IF i <= Len(st) THEN st[i] ELSE << f >>[i - Len(st)]
  BY <1>2, ConcatProperties
<1>4. Len(st) \in Nat
  BY <1>2
<1> QED
  BY <1>2, <1>3, <1>4 DEF F

-----------------------------------------------------------------------------
(* The inductive invariant                                                  *)

(* The activations below the innermost render their children; each is of a *)
(* node of the template, with the names the ones around it bind.            *)
FrameOK(f) ==
  /\ f.todo # "open" => f.node.kind = "element" /\ ~f.node.void
  /\ f.todo \in { "query", "rows" } => QueryAttributes(f.node) # {}

Around(st, i) ==
  template.given \cup UNION { ColumnsOf(st[j].node) : j \in 1..(i - 1) }

Nodes == { p[1] : p \in UNION { Levels[d] : d \in 0..MaxDepth } }

Stacked(st) == \E R : st \in Seq(Frames(Nodes, R))

Placed(st, i) ==
  /\ FrameOK(st[i])
  /\ i < Len(st) => st[i].todo = "children"
  /\ i <= MaxDepth /\ << st[i].node, Around(st, i) >> \in Levels[i - 1]

Shape(st) == Stacked(st) /\ \A i \in 1..Len(st) : Placed(st, i)

(* The results in use, each younger than those around it.                   *)
Loops(f) == f.todo \in { "rows", "children" } /\ QueryAttributes(f.node) # {}

RowOf(row, columns) ==
  /\ DOMAIN row = DOMAIN columns
  /\ \A k \in DOMAIN columns : row[k].col = columns[k] /\ row[k] # Zero

RowsOK(f) ==
  /\ DOMAIN f.rows = 1..Len(f.rows) /\ Len(f.rows) \in Nat
  /\ \A r \in 1..Len(f.rows) : RowOf(f.rows[r], Columns[QueryText(f.node)])

Results(st, t) ==
  /\ t \in Nat
  /\ \A i \in 1..Len(st) : Loops(st[i]) =>
       /\ RowsOK(st[i]) /\ st[i].table \in 1..t
       /\ \A j \in 1..(i - 1) : Loops(st[j]) => st[j].table < st[i].table

(* The cells of the names that are bound where the rendering is.            *)
Cells(st, sc) ==
  Scoped /\ nulls = {} =>
    /\ \A n \in template.given \cap DOMAIN sc : Readable(sc[n], 0)
    /\ \A i \in 1..Len(st) : st[i].todo = "children" =>
         \A n \in ColumnsOf(st[i].node) \cap DOMAIN sc : Readable(sc[n], st[i].table)

Static == Renderable /\ DOMAIN scope = template.names

IInv == Static /\ Shape(stack) /\ Results(stack, tables) /\ Cells(stack, scope)

-----------------------------------------------------------------------------
LEMMA LevelNodes ==
  ASSUME Renderable, NEW d \in 0..MaxDepth, NEW p \in Levels[d]
  PROVE  /\ d < MaxDepth /\ p[1] \in Nodes
         /\ IsTreeNode(p[1]) /\ Queryable(p[1]) /\ UsedBy(p[1]) \subseteq template.names
         /\ Scoped => UsedBy(p[1]) \subseteq p[2] /\ ColumnsOf(p[1]) \cap p[2] = {}
<1>1. d < MaxDepth
  BY DEF Renderable
<1>2. p[1] \in Nodes
  BY DEF Nodes
<1>3. IsTreeNode(p[1]) /\ Queryable(p[1]) /\ UsedBy(p[1]) \subseteq template.names
  BY DEF Renderable
<1>4. Scoped => UsedBy(p[1]) \subseteq p[2] /\ ColumnsOf(p[1]) \cap p[2] = {}
  BY DEF Scoped, InScope, Unshadowed, Levels
<1> QED
  BY <1>1, <1>2, <1>3, <1>4

LEMMA LevelChild ==
  ASSUME NEW d \in 0..(MaxDepth - 1), NEW n, NEW b, << n, b >> \in Levels[d],
         n.kind = "element", NEW i \in DOMAIN n.children
  PROVE  << n.children[i], b \cup ColumnsOf(n) >> \in Levels[d + 1]
<1>1. Levels[d + 1] = Deeper(Levels[d])
  <2>1. d + 1 \in 1..MaxDepth /\ (d + 1) - 1 = d
    OBVIOUS
  <2> QED
    BY <2>1, LevelsRun DEF Levels
<1>2. << n.children[i], b \cup ColumnsOf(n) >> \in Within(<< n, b >>)
  BY DEF Within
<1>3. << n, b >> \in { q \in Levels[d] : q[1].kind = "element" }
  OBVIOUS
<1> QED
  BY <1>1, <1>2, <1>3 DEF Deeper

(* What is around an activation depends on the nodes below it only.         *)
LEMMA AroundSame ==
  ASSUME NEW s, NEW t, NEW i \in Nat, \A j \in 1..(i - 1) : s[j].node = t[j].node
  PROVE  Around(s, i) = Around(t, i)
<1>1. { ColumnsOf(s[j].node) : j \in 1..(i - 1) } = { ColumnsOf(t[j].node) : j \in 1..(i - 1) }
  <2> HIDE DEF ColumnsOf
  <2> QED
    OBVIOUS
<1> QED
  BY <1>1 DEF Around

LEMMA AroundOneMore ==
  ASSUME NEW st, NEW m \in Nat \ {0}
  PROVE  Around(st, m + 1) = Around(st, m) \cup ColumnsOf(st[m].node)
<1>1. 1..((m + 1) - 1) = (1..(m - 1)) \cup {m}
  OBVIOUS
<1> DEFINE C(j) == ColumnsOf(st[j].node)
<1>2. Around(st, m + 1) = template.given \cup UNION { C(j) : j \in (1..(m - 1)) \cup {m} }
  BY <1>1 DEF Around
<1>3. Around(st, m) = template.given \cup UNION { C(j) : j \in 1..(m - 1) }
  BY DEF Around
<1> QED
  <2> HIDE DEF C
  <2>1. UNION { C(j) : j \in (1..(m - 1)) \cup {m} }
          = (UNION { C(j) : j \in 1..(m - 1) }) \cup C(m)
    OBVIOUS
  <2> QED
    BY <1>2, <1>3, <2>1 DEF C

LEMMA TopFacts ==
  ASSUME Renderable, NEW st, Shape(st), st # <<>>
  PROVE  /\ Len(st) \in Nat \ {0} /\ Len(st) <= MaxDepth /\ Last(st) = st[Len(st)]
         /\ \E R : st \in Seq(Frames(Nodes, R)) /\ Last(st) \in Frames(Nodes, R)
         /\ Placed(st, Len(st)) /\ Last(st).node \in Nodes
         /\ Last(st).todo \in Todos /\ Last(st).next \in Nat \ {0}
         /\ Last(st).row \in Nat /\ Last(st).table \in Nat
         /\ << Last(st).node, Around(st, Len(st)) >> \in Levels[Len(st) - 1]
         /\ IsTreeNode(Last(st).node) /\ Queryable(Last(st).node)
         /\ UsedBy(Last(st).node) \subseteq template.names
         /\ Scoped => /\ UsedBy(Last(st).node) \subseteq Around(st, Len(st))
                      /\ ColumnsOf(Last(st).node) \cap Around(st, Len(st)) = {}
<1>1. PICK R : st \in Seq(Frames(Nodes, R))
  BY DEF Shape, Stacked
<1>2. Len(st) \in Nat \ {0} /\ Last(st) = st[Len(st)]
  BY <1>1, Popped DEF Last
<1>3. Last(st) \in Frames(Nodes, R)
  BY <1>1, Popped
<1>4. Placed(st, Len(st))
  BY <1>2 DEF Shape
<1>5. /\ Last(st).todo \in Todos /\ Last(st).next \in Nat \ {0} /\ Last(st).row \in Nat
      /\ Last(st).table \in Nat /\ Last(st).node \in Nodes
  BY <1>3 DEF Frames
<1>6. /\ Len(st) <= MaxDepth
      /\ << Last(st).node, Around(st, Len(st)) >> \in Levels[Len(st) - 1]
  BY <1>2, <1>4 DEF Placed
<1>7. Len(st) - 1 \in 0..MaxDepth
  BY <1>2, <1>6
<1>8. PICK p \in Levels[Len(st) - 1] : p = << Last(st).node, Around(st, Len(st)) >>
  BY <1>6
<1>9. /\ IsTreeNode(p[1]) /\ Queryable(p[1]) /\ UsedBy(p[1]) \subseteq template.names
      /\ Scoped => UsedBy(p[1]) \subseteq p[2] /\ ColumnsOf(p[1]) \cap p[2] = {}
  BY <1>7, LevelNodes
<1>10. p[1] = Last(st).node /\ p[2] = Around(st, Len(st))
  BY <1>8
<1>11. \E S : st \in Seq(Frames(Nodes, S)) /\ Last(st) \in Frames(Nodes, S)
  BY <1>1, <1>3
<1>12. Scoped => /\ UsedBy(Last(st).node) \subseteq Around(st, Len(st))
                 /\ ColumnsOf(Last(st).node) \cap Around(st, Len(st)) = {}
  BY <1>9, <1>10
<1>13. /\ IsTreeNode(Last(st).node) /\ Queryable(Last(st).node)
       /\ UsedBy(Last(st).node) \subseteq template.names
  BY <1>9, <1>10
<1> HIDE DEF Placed, Shape, Frames
<1> QED
  BY <1>2, <1>4, <1>5, <1>6, <1>11, <1>12, <1>13

-----------------------------------------------------------------------------
(* The three ways to change the stack preserve its shape.                   *)

Swaps(st, st2, f) ==
  /\ Len(st2) = Len(st) /\ st2[Len(st)] = f
  /\ \A i \in 1..(Len(st) - 1) : st2[i] = st[i]

Pops(st, st2) ==
  /\ Len(st2) = Len(st) - 1
  /\ \A i \in 1..(Len(st) - 1) : st2[i] = st[i]

Pushes(st, st2, f, g) ==
  /\ Len(st2) = Len(st) + 1 /\ st2[Len(st)] = f /\ st2[Len(st) + 1] = g
  /\ \A i \in 1..(Len(st) - 1) : st2[i] = st[i]

(* An activation stays in its place while those below it do.                *)
LEMMA PlacedSame ==
  ASSUME NEW s, NEW t, NEW i \in Nat, \A j \in 1..(i - 1) : s[j].node = t[j].node,
         s[i].node = t[i].node, FrameOK(t[i]), i < Len(t) => t[i].todo = "children",
         Placed(s, i)
  PROVE  Placed(t, i)
<1>1. Around(s, i) = Around(t, i)
  BY AroundSame
<1> QED
  BY <1>1 DEF Placed

LEMMA SwapStack ==
  ASSUME Renderable, NEW st, Shape(st), st # <<>>, NEW R2, NEW f \in Frames(Nodes, R2)
  PROVE  Stacked(Append(Front(st), f)) /\ Swaps(st, Append(Front(st), f), f)
<1>1. PICK R : st \in Seq(Frames(Nodes, R))
  BY TopFacts
<1>2. /\ Append(Front(st), f) \in Seq(Frames(Nodes, R \cup R2))
      /\ Len(Append(Front(st), f)) = Len(st)
      /\ Append(Front(st), f)[Len(st)] = f
      /\ \A i \in 1..(Len(st) - 1) : Append(Front(st), f)[i] = st[i]
  BY <1>1, Swapped
<1> QED
  BY <1>2, Zenon DEF Stacked, Swaps

LEMMA PushStack ==
  ASSUME Renderable, NEW st, Shape(st), st # <<>>, NEW R2, NEW f \in Frames(Nodes, R2),
         NEW R3, NEW g \in Frames(Nodes, R3)
  PROVE  /\ Stacked(Append(Front(st), f) \o << g >>)
         /\ Pushes(st, Append(Front(st), f) \o << g >>, f, g)
<1>1. PICK R : st \in Seq(Frames(Nodes, R))
  BY TopFacts
<1>2. PICK m \in Nat \ {0} : m = Len(st)
  BY TopFacts
<1>3. PICK mid : mid = Append(Front(st), f)
  OBVIOUS
<1>a. /\ mid \in Seq(Frames(Nodes, R \cup R2))
      /\ Len(mid) = Len(st)
      /\ mid[Len(st)] = f
      /\ \A i \in 1..(Len(st) - 1) : mid[i] = st[i]
  <2>1. /\ Append(Front(st), f) \in Seq(Frames(Nodes, R \cup R2))
        /\ Len(Append(Front(st), f)) = Len(st)
        /\ Append(Front(st), f)[Len(st)] = f
        /\ \A i \in 1..(Len(st) - 1) : Append(Front(st), f)[i] = st[i]
    BY <1>1, Swapped
  <2> QED
    BY <1>3, <2>1, Zenon
<1>4. /\ mid \in Seq(Frames(Nodes, R \cup R2)) /\ Len(mid) = m /\ mid[m] = f
      /\ \A i \in 1..(m - 1) : mid[i] = st[i]
  BY <1>a, <1>2
<1>5. PICK st2 : st2 = mid \o << g >>
  OBVIOUS
<1>6. PICK S : S = R \cup R2
  OBVIOUS
<1>7. mid \in Seq(Frames(Nodes, S))
  BY <1>4, <1>6
<1>8. /\ st2 \in Seq(Frames(Nodes, S \cup R3)) /\ Len(st2) = Len(mid) + 1
      /\ st2[Len(mid) + 1] = g /\ \A i \in 1..Len(mid) : st2[i] = mid[i]
  BY <1>5, <1>7, Pushed
<1>9. Len(st2) = m + 1 /\ st2[m + 1] = g /\ \A i \in 1..m : st2[i] = mid[i]
  BY <1>4, <1>8
<1>10. st2[m] = f /\ \A i \in 1..(m - 1) : st2[i] = st[i]
  <2>1. m \in 1..m /\ \A i \in 1..(m - 1) : i \in 1..m
    OBVIOUS
  <2> QED
    BY <1>4, <1>9, <2>1
<1> QED
  BY <1>2, <1>3, <1>5, <1>8, <1>9, <1>10 DEF Stacked, Pushes

LEMMA SwapShape ==
  ASSUME Renderable, NEW st, Shape(st), st # <<>>,
         NEW f, f.node = Last(st).node, FrameOK(f),
         NEW st2, Stacked(st2), Swaps(st, st2, f)
  PROVE  Shape(st2)
<1>1. PICK m \in Nat \ {0} : m = Len(st)
  BY TopFacts
<1>2. Len(st2) = m /\ st2[m] = f /\ \A i \in 1..(m - 1) : st2[i] = st[i]
  BY <1>1 DEF Swaps
<1>3. st[m] = Last(st)
  BY <1>1, TopFacts
<1>4. \A j \in 1..m : st[j].node = st2[j].node
  BY <1>2, <1>3
<1>5. ASSUME NEW i \in 1..m PROVE Placed(st2, i)
  <2>1. Placed(st, i)
    BY <1>1 DEF Shape
  <2>2. FrameOK(st2[i]) /\ (i < m => st2[i].todo = "children")
    <3>1. CASE i = m
      BY <1>2, <3>1
    <3>2. CASE i # m
      <4>1. i < m /\ i \in 1..(m - 1)
        BY <3>2
      <4> QED
        BY <1>1, <1>2, <2>1, <4>1 DEF Placed
    <3> QED
      BY <3>1, <3>2
  <2>3. \A j \in 1..(i - 1) : j \in 1..m
    OBVIOUS
  <2>4. \A j \in 1..(i - 1) : st[j].node = st2[j].node
    BY <1>4, <2>3
  <2>5. st[i].node = st2[i].node /\ (i < Len(st2) => st2[i].todo = "children")
    BY <1>2, <1>4, <2>2
  <2> QED
    BY <2>1, <2>2, <2>4, <2>5, PlacedSame
<1> QED
  BY <1>2, <1>5 DEF Shape

LEMMA PopShape ==
  ASSUME Renderable, NEW st, Shape(st), st # <<>>, NEW st2, st2 = Front(st)
  PROVE  Shape(st2) /\ Pops(st, st2)
<1>1. PICK R : st \in Seq(Frames(Nodes, R))
  BY TopFacts
<1>2. PICK m \in Nat \ {0} : m = Len(st)
  BY TopFacts
<1>3. /\ st2 \in Seq(Frames(Nodes, R)) /\ Len(st2) = m - 1
      /\ \A i \in 1..(m - 1) : st2[i] = st[i]
  BY <1>1, <1>2, Popped
<1>4. ASSUME NEW i \in 1..(m - 1) PROVE Placed(st2, i)
  <2>1. Placed(st, i) /\ i < m
    BY <1>2 DEF Shape
  <2>2. FrameOK(st2[i]) /\ st2[i].todo = "children" /\ st2[i] = st[i]
    BY <1>2, <1>3, <2>1 DEF Placed
  <2>3. \A j \in 1..(i - 1) : st[j].node = st2[j].node
    BY <1>3
  <2> QED
    BY <2>1, <2>2, <2>3, PlacedSame
<1>5. Stacked(st2)
  BY <1>3 DEF Stacked
<1> QED
  BY <1>2, <1>3, <1>4, <1>5 DEF Shape, Pops

(* The child that is rendered next is a node one level deeper.              *)
LEMMA NextChild ==
  ASSUME Renderable, NEW st, Shape(st), st # <<>>, NEW top, top = Last(st),
         top.todo = "children", top.next <= Len(top.node.children),
         NEW m, m = Len(st), NEW child, child = top.node.children[top.next]
  PROVE  /\ m < MaxDepth /\ child \in Nodes
         /\ << child, Around(st, m) \cup ColumnsOf(top.node) >> \in Levels[m]
<1>1. /\ m \in Nat \ {0} /\ m <= MaxDepth /\ top = st[m] /\ IsTreeNode(top.node)
      /\ top.next \in Nat \ {0}
      /\ << top.node, Around(st, m) >> \in Levels[m - 1] /\ Placed(st, m)
  BY TopFacts
<1>2. top.node.kind = "element"
  BY <1>1 DEF Placed, FrameOK
<1>3. top.next \in DOMAIN top.node.children
  <2>1. DOMAIN top.node.children = 1..Len(top.node.children)
    BY <1>1, <1>2 DEF IsTreeNode
  <2> QED
    BY <1>1, <2>1
<1>4. PICK p \in Levels[m - 1] : p = << top.node, Around(st, m) >>
  BY <1>1
<1>5. m - 1 \in 0..MaxDepth /\ m - 1 < MaxDepth
  <2>1. m - 1 \in 0..MaxDepth
    BY <1>1
  <2> QED
    BY <1>4, <2>1, LevelNodes
<1>6. << child, Around(st, m) \cup ColumnsOf(top.node) >> \in Levels[m]
  <2>1. m - 1 \in 0..(MaxDepth - 1) /\ (m - 1) + 1 = m
    BY <1>1, <1>5
  <2> QED
    BY <1>1, <1>2, <1>3, <2>1, LevelChild
<1>7. PICK q \in Levels[m] : q = << child, Around(st, m) \cup ColumnsOf(top.node) >>
  BY <1>6
<1>8. m < MaxDepth /\ q[1] \in Nodes
  <2>1. m \in 0..MaxDepth
    BY <1>1
  <2> QED
    BY <1>7, <2>1, LevelNodes
<1> QED
  BY <1>6, <1>7, <1>8

LEMMA PushShape ==
  ASSUME Renderable, NEW st, Shape(st), st # <<>>, NEW top, top = Last(st),
         top.todo = "children", top.next <= Len(top.node.children),
         NEW f, f.node = top.node, f.todo = "children", FrameOK(f),
         NEW g, g.node = top.node.children[top.next], g.todo = "open",
         NEW st2, Stacked(st2), Pushes(st, st2, f, g)
  PROVE  Shape(st2)
<1>1. PICK m \in Nat \ {0} : m = Len(st)
  BY TopFacts
<1>2. /\ Len(st2) = m + 1 /\ st2[m] = f /\ st2[m + 1] = g
      /\ \A i \in 1..(m - 1) : st2[i] = st[i]
  BY <1>1 DEF Pushes
<1>3. /\ m < MaxDepth
      /\ << g.node, Around(st, m) \cup ColumnsOf(top.node) >> \in Levels[m]
  BY <1>1, NextChild
<1>4. st[m] = top
  BY <1>1, TopFacts
<1>5. \A j \in 1..m : st[j].node = st2[j].node
  BY <1>2, <1>4
<1>6. ASSUME NEW i \in 1..m PROVE Placed(st2, i)
  <2>1. Placed(st, i)
    BY <1>1 DEF Shape
  <2>2. FrameOK(st2[i]) /\ st2[i].todo = "children"
    <3>1. CASE i = m
      BY <1>2, <3>1
    <3>2. CASE i # m
      <4>1. i < m /\ i \in 1..(m - 1)
        BY <3>2
      <4> QED
        BY <1>1, <1>2, <2>1, <4>1 DEF Placed
    <3> QED
      BY <3>1, <3>2
  <2>3. \A j \in 1..(i - 1) : j \in 1..m
    OBVIOUS
  <2>4. \A j \in 1..(i - 1) : st[j].node = st2[j].node
    BY <1>5, <2>3
  <2>5. st[i].node = st2[i].node
    BY <1>5
  <2> QED
    BY <2>1, <2>2, <2>4, <2>5, PlacedSame
<1>7. Placed(st2, m + 1)
  <2>1. Around(st2, m + 1) = Around(st2, m) \cup ColumnsOf(st2[m].node)
    BY AroundOneMore
  <2>2. Around(st2, m) = Around(st, m)
    BY <1>2, AroundSame
  <2>3. Around(st2, m + 1) = Around(st, m) \cup ColumnsOf(top.node)
    BY <1>2, <2>1, <2>2
  <2>4. (m + 1) - 1 = m /\ m + 1 <= MaxDepth /\ ~(m + 1 < m + 1)
    BY <1>3
  <2>5. FrameOK(st2[m + 1])
    BY <1>2 DEF FrameOK
  <2> QED
    BY <1>2, <1>3, <2>3, <2>4, <2>5 DEF Placed
<1>8. \A i \in 1..(m + 1) : Placed(st2, i)
  <2>1. \A i \in 1..(m + 1) : i \in 1..m \/ i = m + 1
    OBVIOUS
  <2> QED
    BY <1>6, <1>7, <2>1
<1> QED
  BY <1>2, <1>8 DEF Shape

-----------------------------------------------------------------------------
(* What the stack's three changes do to the results and the cells           *)

LEMMA ResultsSwap ==
  ASSUME Renderable, NEW st, Shape(st), st # <<>>, NEW t, Results(st, t),
         NEW top, top = Last(st), NEW f, f.node = top.node,
         Loops(f) => Loops(top) /\ f.rows = top.rows /\ f.table = top.table,
         NEW st2, Swaps(st, st2, f)
  PROVE  Results(st2, t)
<1>1. PICK m \in Nat \ {0} : m = Len(st) /\ st[m] = top
  BY TopFacts
<1>2. Len(st2) = m /\ st2[m] = f /\ \A i \in 1..(m - 1) : st2[i] = st[i]
  BY <1>1 DEF Swaps
<1>3. ASSUME NEW i \in 1..m, Loops(st2[i])
      PROVE  Loops(st[i]) /\ st2[i].table = st[i].table /\ RowsOK(st2[i]) = RowsOK(st[i])
  <2>1. CASE i = m
    BY <1>1, <1>2, <1>3, <2>1 DEF RowsOK
  <2>2. CASE i # m
    <3>1. i \in 1..(m - 1)
      BY <2>2
    <3> QED
      BY <1>2, <1>3, <3>1
  <2> QED
    BY <2>1, <2>2
<1>4. ASSUME NEW i \in 1..m, Loops(st2[i])
      PROVE  /\ RowsOK(st2[i]) /\ st2[i].table \in 1..t
             /\ \A j \in 1..(i - 1) : Loops(st2[j]) => st2[j].table < st2[i].table
  <2>1. RowsOK(st2[i]) /\ st2[i].table \in 1..t
    BY <1>1, <1>3, <1>4 DEF Results
  <2>2. ASSUME NEW j \in 1..(i - 1), Loops(st2[j]) PROVE st2[j].table < st2[i].table
    <3>1. j \in 1..m
      OBVIOUS
    <3>2. st[j].table < st[i].table
      BY <1>1, <1>3, <1>4, <2>2, <3>1 DEF Results
    <3> QED
      BY <1>3, <1>4, <2>2, <3>1, <3>2
  <2> QED
    BY <2>1, <2>2
<1> QED
  BY <1>2, <1>4 DEF Results

LEMMA ResultsPop ==
  ASSUME Renderable, NEW st, Shape(st), st # <<>>, NEW t, Results(st, t),
         NEW st2, Pops(st, st2)
  PROVE  Results(st2, t)
<1>1. PICK m \in Nat \ {0} : m = Len(st)
  BY TopFacts
<1>2. Len(st2) = m - 1 /\ \A i \in 1..(m - 1) : st2[i] = st[i]
  BY <1>1 DEF Pops
<1>3. ASSUME NEW i \in 1..(m - 1), Loops(st2[i])
      PROVE  /\ RowsOK(st2[i]) /\ st2[i].table \in 1..t
             /\ \A j \in 1..(i - 1) : Loops(st2[j]) => st2[j].table < st2[i].table
  <2>1. i \in 1..m /\ st2[i] = st[i]
    BY <1>2
  <2>2. \A j \in 1..(i - 1) : st2[j] = st[j]
    BY <1>2
  <2> QED
    BY <1>1, <1>3, <2>1, <2>2 DEF Results
<1> QED
  BY <1>2, <1>3 DEF Results

LEMMA ResultsPush ==
  ASSUME Renderable, NEW st, Shape(st), st # <<>>, NEW t, Results(st, t),
         NEW top, top = Last(st), NEW f, f.node = top.node,
         Loops(f) => Loops(top) /\ f.rows = top.rows /\ f.table = top.table,
         NEW g, ~Loops(g), NEW st2, Pushes(st, st2, f, g)
  PROVE  Results(st2, t)
<1>1. PICK m \in Nat \ {0} : m = Len(st) /\ st[m] = top
  BY TopFacts
<1>2. /\ Len(st2) = m + 1 /\ st2[m] = f /\ st2[m + 1] = g
      /\ \A i \in 1..(m - 1) : st2[i] = st[i]
  BY <1>1 DEF Pushes
<1>3. ASSUME NEW i \in 1..(m + 1), Loops(st2[i])
      PROVE  /\ i \in 1..m /\ Loops(st[i]) /\ st2[i].table = st[i].table
             /\ RowsOK(st2[i]) = RowsOK(st[i])
  <2>1. CASE i = m
    BY <1>1, <1>2, <1>3, <2>1 DEF RowsOK
  <2>2. CASE i = m + 1
    BY <1>2, <1>3, <2>2
  <2>3. CASE i # m /\ i # m + 1
    <3>1. i \in 1..(m - 1)
      BY <2>3
    <3> QED
      BY <1>2, <1>3, <3>1
  <2> QED
    BY <2>1, <2>2, <2>3
<1>4. ASSUME NEW i \in 1..(m + 1), Loops(st2[i])
      PROVE  /\ RowsOK(st2[i]) /\ st2[i].table \in 1..t
             /\ \A j \in 1..(i - 1) : Loops(st2[j]) => st2[j].table < st2[i].table
  <2>1. RowsOK(st2[i]) /\ st2[i].table \in 1..t
    BY <1>1, <1>3, <1>4 DEF Results
  <2>2. ASSUME NEW j \in 1..(i - 1), Loops(st2[j]) PROVE st2[j].table < st2[i].table
    <3>1. j \in 1..(m + 1)
      OBVIOUS
    <3>2. st[j].table < st[i].table
      BY <1>1, <1>3, <1>4, <2>2, <3>1 DEF Results
    <3> QED
      BY <1>3, <1>4, <2>2, <3>1, <3>2
  <2> QED
    BY <2>1, <2>2
<1> QED
  BY <1>2, <1>4 DEF Results

(* A new result is the youngest.                                            *)
LEMMA ResultsNew ==
  ASSUME Renderable, NEW st, Shape(st), st # <<>>, NEW t, Results(st, t),
         NEW f, RowsOK(f), f.table = t + 1,
         NEW st2, Swaps(st, st2, f)
  PROVE  Results(st2, t + 1)
<1>1. PICK m \in Nat \ {0} : m = Len(st)
  BY TopFacts
<1>2. Len(st2) = m /\ st2[m] = f /\ \A i \in 1..(m - 1) : st2[i] = st[i]
  BY <1>1 DEF Swaps
<1>3. t \in Nat
  BY DEF Results
<1>4. ASSUME NEW i \in 1..(m - 1), Loops(st[i])
      PROVE  /\ RowsOK(st[i]) /\ st[i].table \in 1..t
             /\ \A j \in 1..(i - 1) : Loops(st[j]) => st[j].table < st[i].table
  <2>1. i \in 1..m
    OBVIOUS
  <2> QED
    BY <1>1, <1>4, <2>1 DEF Results
<1>5. ASSUME NEW i \in 1..m, Loops(st2[i])
      PROVE  /\ RowsOK(st2[i]) /\ st2[i].table \in 1..(t + 1)
             /\ \A j \in 1..(i - 1) : Loops(st2[j]) => st2[j].table < st2[i].table
  <2>1. CASE i = m
    <3>1. RowsOK(st2[i]) /\ st2[i].table = t + 1
      BY <1>2, <2>1
    <3>2. ASSUME NEW j \in 1..(i - 1), Loops(st2[j]) PROVE st2[j].table \in 1..t
      <4>1. j \in 1..(m - 1) /\ st2[j] = st[j]
        BY <1>2, <2>1
      <4> QED
        BY <1>4, <3>2, <4>1
    <3> QED
      BY <1>3, <3>1, <3>2
  <2>2. CASE i # m
    <3>1. i \in 1..(m - 1) /\ st2[i] = st[i]
      BY <1>2, <2>2
    <3>2. \A j \in 1..(i - 1) : st2[j] = st[j]
      BY <1>2, <3>1
    <3>3. RowsOK(st[i]) /\ st[i].table \in 1..t
      BY <1>4, <1>5, <3>1
    <3>4. ASSUME NEW j \in 1..(i - 1), Loops(st2[j]) PROVE st2[j].table < st2[i].table
      BY <1>4, <1>5, <3>1, <3>2, <3>4
    <3> QED
      BY <1>3, <3>1, <3>3, <3>4
  <2> QED
    BY <2>1, <2>2
<1> QED
  BY <1>2, <1>3, <1>5 DEF Results

LEMMA CellsSwap ==
  ASSUME Renderable, NEW st, Shape(st), st # <<>>, NEW sc, Cells(st, sc),
         NEW top, top = Last(st), NEW f, f.node = top.node,
         f.todo = "children" => \/ ColumnsOf(f.node) = {}
                                \/ top.todo = "children" /\ f.table = top.table,
         NEW st2, Swaps(st, st2, f)
  PROVE  Cells(st2, sc)
<1>1. PICK m \in Nat \ {0} : m = Len(st) /\ st[m] = top
  BY TopFacts
<1>2. Len(st2) = m /\ st2[m] = f /\ \A i \in 1..(m - 1) : st2[i] = st[i]
  BY <1>1 DEF Swaps
<1>3. ASSUME Scoped, nulls = {}, NEW i \in 1..m, st2[i].todo = "children",
             NEW n \in ColumnsOf(st2[i].node) \cap DOMAIN sc
      PROVE  Readable(sc[n], st2[i].table)
  <2>1. st[i].todo = "children" /\ st2[i].node = st[i].node /\ st2[i].table = st[i].table
    <3>1. CASE i = m
      BY <1>1, <1>2, <1>3, <3>1
    <3>2. CASE i # m
      <4>1. i \in 1..(m - 1)
        BY <3>2
      <4> QED
        BY <1>2, <1>3, <4>1
    <3> QED
      BY <3>1, <3>2
  <2> QED
    BY <1>1, <1>3, <2>1 DEF Cells
<1> QED
  BY <1>2, <1>3 DEF Cells

LEMMA CellsPop ==
  ASSUME Renderable, NEW st, Shape(st), st # <<>>, NEW sc, Cells(st, sc),
         NEW st2, Pops(st, st2)
  PROVE  Cells(st2, sc)
<1>1. PICK m \in Nat \ {0} : m = Len(st)
  BY TopFacts
<1>2. Len(st2) = m - 1 /\ \A i \in 1..(m - 1) : st2[i] = st[i]
  BY <1>1 DEF Pops
<1>3. ASSUME Scoped, nulls = {}, NEW i \in 1..(m - 1), st2[i].todo = "children",
             NEW n \in ColumnsOf(st2[i].node) \cap DOMAIN sc
      PROVE  Readable(sc[n], st2[i].table)
  <2>1. i \in 1..m /\ st2[i] = st[i]
    BY <1>2
  <2> QED
    BY <1>1, <1>3, <2>1 DEF Cells
<1> QED
  BY <1>2, <1>3 DEF Cells

LEMMA CellsPush ==
  ASSUME Renderable, NEW st, Shape(st), st # <<>>, NEW sc, Cells(st, sc),
         NEW top, top = Last(st), NEW f, f.node = top.node,
         top.todo = "children", f.table = top.table,
         NEW g, g.todo = "open", NEW st2, Pushes(st, st2, f, g)
  PROVE  Cells(st2, sc)
<1>1. PICK m \in Nat \ {0} : m = Len(st) /\ st[m] = top
  BY TopFacts
<1>2. /\ Len(st2) = m + 1 /\ st2[m] = f /\ st2[m + 1] = g
      /\ \A i \in 1..(m - 1) : st2[i] = st[i]
  BY <1>1 DEF Pushes
<1>3. ASSUME Scoped, nulls = {}, NEW i \in 1..(m + 1), st2[i].todo = "children",
             NEW n \in ColumnsOf(st2[i].node) \cap DOMAIN sc
      PROVE  Readable(sc[n], st2[i].table)
  <2>1. /\ i \in 1..m /\ st[i].todo = "children"
        /\ st2[i].node = st[i].node /\ st2[i].table = st[i].table
    <3>1. CASE i = m
      BY <1>1, <1>2, <1>3, <3>1
    <3>2. CASE i = m + 1
      BY <1>2, <1>3, <3>2
    <3>3. CASE i # m /\ i # m + 1
      <4>1. i \in 1..(m - 1)
        BY <3>3
      <4> QED
        BY <1>2, <1>3, <4>1
    <3> QED
      BY <3>1, <3>2, <3>3
  <2> QED
    BY <1>1, <1>3, <2>1 DEF Cells
<1> QED
  BY <1>2, <1>3 DEF Cells

(* BindRow makes the cells of its columns readable and touches no other.    *)
LEMMA BoundCell ==
  ASSUME nulls = {}, NEW text \in DOMAIN Columns, NEW row, RowOf(row, Columns[text]), NEW n
  PROVE  /\ n \in ToSet(Columns[text]) => Readable(BoundTo(n, row), Top.table)
         /\ n \notin ToSet(Columns[text]) => BoundTo(n, row) = scope[n]
<1>1. PICK columns : columns = Columns[text]
  OBVIOUS
<1>2. columns \in Seq(Seq(STRING))
  BY <1>1, ColumnsAssumption
<1>3. PICK L \in Nat : DOMAIN columns = 1..L
  BY <1>2
<1>4. DOMAIN row = 1..L /\ \A k \in 1..L : row[k].col = columns[k] /\ row[k] # Zero
  BY <1>1, <1>3 DEF RowOf
<1>5. PICK S : S = ColumnsNamed(n, row)
  OBVIOUS
<1>6. S = { k \in 1..L : columns[k] = n }
  BY <1>4, <1>5 DEF ColumnsNamed
<1>7. n \in ToSet(columns) <=> S # {}
  <2>1. ToSet(columns) = { columns[k] : k \in 1..L }
    BY <1>3 DEF ToSet
  <2> QED
    BY <1>6, <2>1
<1>8. ASSUME S = {} PROVE BoundTo(n, row) = scope[n]
  BY <1>5, <1>8 DEF BoundTo
<1>9. ASSUME S # {} PROVE Readable(BoundTo(n, row), Top.table)
  <2>1. S \subseteq 1..L
    BY <1>6
  <2>2. PICK k : k = Max(S)
    OBVIOUS
  <2>3. k \in S
    BY <1>9, <2>1, <2>2, MaxOfPositions
  <2>4. row[k] # Zero
    BY <1>4, <2>1, <2>3
  <2>5. Datum(row[k]) = row[k]
    BY DEF Datum
  <2>6. BoundTo(n, row) = Bound(row[k], Top.table)
    BY <1>5, <1>9, <2>2, <2>5 DEF BoundTo
  <2> QED
    BY <2>4, <2>6 DEF Readable, Bound
<1> QED
  BY <1>1, <1>7, <1>8, <1>9

LEMMA InAround ==
  ASSUME NEW st, NEW m \in Nat, NEW n
  PROVE  n \in Around(st, m) <=>
           n \in template.given \/ \E j \in 1..(m - 1) : n \in ColumnsOf(st[j].node)
BY DEF Around

LEMMA CellsBind ==
  ASSUME Renderable, Shape(stack), stack # <<>>, Cells(stack, scope),
         HasQuery(Top.node), NEW row, RowOf(row, Columns[QueryText(Top.node)]),
         NEW f, f.node = Top.node, f.table = Top.table,
         NEW st2, Swaps(stack, st2, f),
         NEW sc, sc = [n \in DOMAIN scope |-> BoundTo(n, row)]
  PROVE  Cells(st2, sc)
<1>1. PICK m \in Nat \ {0} : m = Len(stack) /\ stack[m] = Top
  BY TopFacts DEF Top
<1>2. Len(st2) = m /\ st2[m] = f /\ \A i \in 1..(m - 1) : st2[i] = stack[i]
  BY <1>1 DEF Swaps
<1>3. PICK text \in DOMAIN Columns : text = QueryText(Top.node)
  BY TopFacts DEF Top, Queryable
<1>4. ColumnsOf(Top.node) = ToSet(Columns[text])
  BY <1>3 DEF ColumnsOf
<1>5. DOMAIN sc = DOMAIN scope /\ \A n \in DOMAIN scope : sc[n] = BoundTo(n, row)
  OBVIOUS
<1> SUFFICES ASSUME Scoped, nulls = {}
             PROVE  /\ \A n \in template.given \cap DOMAIN sc : Readable(sc[n], 0)
                    /\ \A i \in 1..Len(st2) : st2[i].todo = "children" =>
                         \A n \in ColumnsOf(st2[i].node) \cap DOMAIN sc :
                           Readable(sc[n], st2[i].table)
  BY DEF Cells
<1>6. ColumnsOf(Top.node) \cap Around(stack, m) = {}
  BY <1>1, TopFacts DEF Top
<1>7. ASSUME NEW n \in DOMAIN scope, n \in Around(stack, m) PROVE sc[n] = scope[n]
  BY <1>3, <1>4, <1>5, <1>6, <1>7, BoundCell
<1>8. ASSUME NEW n \in template.given \cap DOMAIN sc PROVE Readable(sc[n], 0)
  <2>1. n \in Around(stack, m) /\ n \in DOMAIN scope
    BY <1>5, InAround
  <2>2. Readable(scope[n], 0)
    BY <1>5 DEF Cells
  <2> QED
    BY <1>7, <2>1, <2>2
<1>9. ASSUME NEW i \in 1..m, st2[i].todo = "children",
             NEW n \in ColumnsOf(st2[i].node) \cap DOMAIN sc
      PROVE  Readable(sc[n], st2[i].table)
  <2>1. CASE i = m
    BY <1>2, <1>3, <1>4, <1>5, <1>9, <2>1, BoundCell
  <2>2. CASE i # m
    <3>1. i \in 1..(m - 1) /\ i \in 1..m /\ st2[i] = stack[i]
      BY <1>2, <2>2
    <3>2. n \in Around(stack, m)
      BY <1>9, <3>1, InAround
    <3>3. Readable(scope[n], stack[i].table)
      BY <1>1, <1>5, <1>9, <3>1 DEF Cells
    <3> QED
      BY <1>5, <1>7, <3>1, <3>2, <3>3
  <2> QED
    BY <2>1, <2>2
<1> QED
  BY <1>2, <1>8, <1>9

(* FreeRows leaves the cells around its element readable.                   *)
LEMMA CellsFree ==
  ASSUME Renderable, Shape(stack), stack # <<>>, Cells(stack, scope),
         Results(stack, tables), Loops(Top), NEW f, f.todo # "children",
         NEW st2, Swaps(stack, st2, f), NEW sc, sc = Freed(Top.table)
  PROVE  Cells(st2, sc)
<1>1. PICK m \in Nat \ {0} : m = Len(stack) /\ stack[m] = Top
  BY TopFacts DEF Top
<1>2. Len(st2) = m /\ st2[m] = f /\ \A i \in 1..(m - 1) : st2[i] = stack[i]
  BY <1>1 DEF Swaps
<1>3. /\ DOMAIN sc = DOMAIN scope
      /\ \A n \in DOMAIN scope : scope[n].table # Top.table => sc[n] = scope[n]
  BY DEF Freed
<1> SUFFICES ASSUME Scoped, nulls = {}
             PROVE  /\ \A n \in template.given \cap DOMAIN sc : Readable(sc[n], 0)
                    /\ \A i \in 1..Len(st2) : st2[i].todo = "children" =>
                         \A n \in ColumnsOf(st2[i].node) \cap DOMAIN sc :
                           Readable(sc[n], st2[i].table)
  BY DEF Cells
<1>4. Top.table \in 1..tables /\ tables \in Nat
  BY <1>1 DEF Results
<1>5. ASSUME NEW n \in template.given \cap DOMAIN sc PROVE Readable(sc[n], 0)
  <2>1. Readable(scope[n], 0)
    BY <1>3 DEF Cells
  <2>2. scope[n].table # Top.table
    BY <1>4, <2>1 DEF Readable
  <2> QED
    BY <1>3, <2>1, <2>2
<1>6. ASSUME NEW i \in 1..m, st2[i].todo = "children",
             NEW n \in ColumnsOf(st2[i].node) \cap DOMAIN sc
      PROVE  Readable(sc[n], st2[i].table)
  <2>1. i # m
    BY <1>2, <1>6
  <2>2. i \in 1..(m - 1) /\ i \in 1..m /\ st2[i] = stack[i]
    BY <1>2, <2>1
  <2>3. Readable(scope[n], stack[i].table)
    BY <1>1, <1>3, <1>6, <2>2 DEF Cells
  <2>4. QueryAttributes(stack[i].node) # {}
    BY <1>6, <2>2 DEF ColumnsOf, HasQuery
  <2>5. Loops(stack[i])
    BY <1>6, <2>2, <2>4 DEF Loops
  <2>6. stack[i].table < Top.table /\ stack[i].table \in 1..tables
    BY <1>1, <2>2, <2>5 DEF Results
  <2>7. scope[n].table # Top.table
    BY <1>4, <2>3, <2>6 DEF Readable
  <2> QED
    BY <1>3, <1>6, <2>2, <2>3, <2>7
<1> QED
  BY <1>2, <1>5, <1>6

-----------------------------------------------------------------------------
(* The steps                                                                *)

LEMMA CallSame ==
  ASSUME UNCHANGED call
  PROVE  /\ template' = template /\ db' = db /\ nulls' = nulls
         /\ Levels' = Levels /\ Nodes' = Nodes
         /\ Scoped' <=> Scoped
         /\ \A i \in Nat : Around(stack, i)' = Around(stack', i)
<1>1. template' = template /\ db' = db /\ nulls' = nulls
  BY DEF call
<1>2. Levels' = Levels
  BY <1>1 DEF Levels
<1>3. Nodes' = Nodes
  BY <1>2 DEF Nodes
<1>4. Scoped' <=> Scoped
  BY <1>1 DEF Scoped
<1>5. \A i \in Nat : Around(stack, i)' = Around(stack', i)
  BY <1>1 DEF Around
<1> QED
  BY <1>1, <1>2, <1>3, <1>4, <1>5

(* What the invariant says next, of the next stack, scope and results       *)
LEMMA NextIInv ==
  ASSUME Static, UNCHANGED call, DOMAIN scope' = DOMAIN scope,
         Shape(stack'), Results(stack', tables'), Cells(stack', scope')
  PROVE  IInv'
<1>1. Static'
  <2>1. Renderable'
    BY CallSame DEF Static, Renderable, Queryable
  <2> QED
    BY <2>1, CallSame DEF Static
<1>2. Shape(stack)'
  <2>1. Stacked(stack)'
    BY CallSame DEF Shape, Stacked
  <2>2. Len(stack') \in Nat
    BY DEF Shape, Stacked
  <2>3. ASSUME NEW i \in 1..Len(stack') PROVE Placed(stack, i)'
    <3>1. Placed(stack', i) /\ i \in Nat
      BY <2>2 DEF Shape
    <3>2. Around(stack, i)' = Around(stack', i) /\ Levels' = Levels
      BY <3>1, CallSame
    <3> QED
      BY <3>1, <3>2 DEF Placed
  <2> QED
    BY <2>1, <2>3 DEF Shape
<1>3. Results(stack, tables)'
  BY DEF Results
<1>4. Cells(stack, scope)'
  BY CallSame DEF Cells, Readable
<1> QED
  BY <1>1, <1>2, <1>3, <1>4 DEF IInv

LEMMA NowStack ==
  ASSUME Renderable, Shape(stack), stack # <<>>, NEW todo \in Todos,
         NEW f, f = [Top EXCEPT !.todo = todo], FrameOK(f)
  PROVE  /\ Shape(Now(todo)) /\ Swaps(stack, Now(todo), f)
         /\ f.node = Top.node /\ f.todo = todo /\ f.rows = Top.rows /\ f.table = Top.table
<1>1. PICK R : Top \in Frames(Nodes, R)
  BY TopFacts DEF Top
<1>2. /\ f \in Frames(Nodes, R) /\ f.node = Top.node /\ f.todo = todo
      /\ f.rows = Top.rows /\ f.table = Top.table
  BY <1>1 DEF Frames
<1>3. Now(todo) = Append(Front(stack), f)
  BY DEF Now, Below
<1>4. Stacked(Now(todo)) /\ Swaps(stack, Now(todo), f)
  BY <1>2, <1>3, SwapStack
<1>5. Shape(Now(todo))
  BY <1>2, <1>4, SwapShape DEF Top
<1> QED
  BY <1>2, <1>4, <1>5

(* An activation that goes on with something else, its rows as they were    *)
LEMMA NowStep ==
  ASSUME IInv, stack # <<>>, UNCHANGED << call, scope, tables >>,
         NEW todo \in Todos, NEW f, f = [Top EXCEPT !.todo = todo], FrameOK(f),
         Loops(f) => Loops(Top), todo = "children" => ColumnsOf(Top.node) = {},
         stack' = Now(todo)
  PROVE  IInv'
<1>1. /\ Shape(Now(todo)) /\ Swaps(stack, Now(todo), f)
      /\ f.node = Top.node /\ f.todo = todo /\ f.rows = Top.rows /\ f.table = Top.table
  BY NowStack DEF IInv, Static
<1>2. Results(Now(todo), tables)
  BY <1>1, ResultsSwap DEF IInv, Static, Top
<1>3. Cells(Now(todo), scope)
  BY <1>1, CellsSwap DEF IInv, Static, Top
<1> QED
  BY <1>1, <1>2, <1>3, NextIInv DEF IInv

LEMMA PopStep ==
  ASSUME IInv, stack # <<>>, UNCHANGED << call, scope, tables >>, stack' = Below
  PROVE  IInv'
<1>1. Shape(Below) /\ Pops(stack, Below)
  BY PopShape DEF IInv, Static, Below
<1>2. Results(Below, tables) /\ Cells(Below, scope)
  BY <1>1, ResultsPop, CellsPop DEF IInv, Static
<1> QED
  BY <1>1, <1>2, NextIInv DEF IInv

LEMMA RenderNodeStep ==
  ASSUME IInv, RenderNode
  PROVE  IInv'
<1>1. stack # <<>> /\ UNCHANGED << call, scope, tables >> /\ stack' = Rest
  BY DEF RenderNode, Running
<1>2. IsTreeNode(Top.node)
  BY <1>1, TopFacts DEF IInv, Static, Top
<1>3. CASE Top.node.kind = "text" \/ Top.node.void
  BY <1>1, <1>3, PopStep DEF Rest
<1>4. CASE ~(Top.node.kind = "text" \/ Top.node.void)
  <2>1. Top.node.kind = "element" /\ ~Top.node.void
    BY <1>2, <1>4 DEF IsTreeNode
  <2>2. PICK todo : todo = IF Looping THEN "query" ELSE "children"
    OBVIOUS
  <2>3. todo \in Todos /\ stack' = Now(todo)
    BY <1>1, <1>4, <2>2 DEF Rest, Todos
  <2>4. PICK f : f = [Top EXCEPT !.todo = todo]
    OBVIOUS
  <2>5. f.node = Top.node /\ f.todo = todo
    <3>1. PICK R : Top \in Frames(Nodes, R)
      BY <1>1, TopFacts DEF Top, IInv, Static
    <3> QED
      BY <2>4, <3>1 DEF Frames
  <2>6. FrameOK(f) /\ ~Loops(f)
    BY <2>1, <2>2, <2>5 DEF FrameOK, Loops, Looping
  <2>7. todo = "children" => ColumnsOf(Top.node) = {}
    BY <2>2 DEF ColumnsOf, HasQuery, Looping
  <2> QED
    BY <1>1, <2>3, <2>4, <2>6, <2>7, NowStep
<1> QED
  BY <1>3, <1>4

LEMMA EndChildrenStep ==
  ASSUME IInv, EndChildren
  PROVE  IInv'
<1>1. /\ stack # <<>> /\ UNCHANGED << call, scope, tables >> /\ Top.todo = "children"
      /\ stack' = Now(IF Looping THEN "rows" ELSE "close")
  BY DEF EndChildren, Running
<1>2. PICK todo : todo = IF Looping THEN "rows" ELSE "close"
  OBVIOUS
<1>3. todo \in Todos /\ stack' = Now(todo) /\ todo # "children"
  BY <1>1, <1>2 DEF Todos
<1>4. PICK f : f = [Top EXCEPT !.todo = todo]
  OBVIOUS
<1>5. f.node = Top.node /\ f.todo = todo
  <2>1. PICK R : Top \in Frames(Nodes, R)
    BY <1>1, TopFacts DEF Top, IInv, Static
  <2> QED
    BY <1>4, <2>1 DEF Frames
<1>6. FrameOK(Top)
  BY <1>1, TopFacts DEF Top, IInv, Static, Placed
<1>7. FrameOK(f) /\ (Loops(f) => Loops(Top))
  BY <1>1, <1>2, <1>5, <1>6 DEF FrameOK, Loops, Looping
<1> QED
  BY <1>1, <1>3, <1>4, <1>7, NowStep

LEMMA CloseElementStep ==
  ASSUME IInv, CloseElement
  PROVE  IInv'
BY PopStep DEF CloseElement, Running

LEMMA RenderChildStep ==
  ASSUME IInv, RenderChild
  PROVE  IInv'
<1>1. /\ stack # <<>> /\ UNCHANGED << call, scope, tables >>
      /\ Top.todo = "children" /\ Top.next <= Len(Top.node.children)
  BY DEF RenderChild, Running
<1>2. PICK top : top = Top
  OBVIOUS
<1>3. PICK f : f = [top EXCEPT !.next = @ + 1]
  OBVIOUS
<1>4. PICK g : g = Frame(top.node.children[top.next])
  OBVIOUS
<1>5. stack' = Append(Front(stack), f) \o << g >>
  BY <1>2, <1>3, <1>4 DEF RenderChild, Below
<1>6. PICK R : top \in Frames(Nodes, R)
  BY <1>1, <1>2, TopFacts DEF Top, IInv, Static
<1>7. FrameOK(top)
  BY <1>1, <1>2, TopFacts DEF Top, IInv, Static, Placed
<1>8. /\ f \in Frames(Nodes, R) /\ f.node = top.node /\ f.todo = top.todo
      /\ f.rows = top.rows /\ f.table = top.table
  BY <1>3, <1>6 DEF Frames
<1>9. FrameOK(f) /\ (Loops(f) => Loops(top))
  BY <1>7, <1>8 DEF FrameOK, Loops
<1>10. PICK m : m = Len(stack)
  OBVIOUS
<1>11. top.node.children[top.next] \in Nodes
  BY <1>1, <1>2, <1>10, NextChild DEF IInv, Static, Top
<1>12. /\ g \in Frames(Nodes, { <<>> }) /\ g.node = top.node.children[top.next]
       /\ g.todo = "open" /\ ~Loops(g)
  BY <1>4, <1>11 DEF Frames, Frame, Todos, Loops
<1>13. PICK st2 : st2 = Append(Front(stack), f) \o << g >>
  OBVIOUS
<1>14. Stacked(st2) /\ Pushes(stack, st2, f, g)
  BY <1>1, <1>8, <1>12, <1>13, PushStack DEF IInv, Static
<1>15. Shape(st2)
  BY <1>1, <1>2, <1>8, <1>9, <1>12, <1>14, PushShape DEF IInv, Static, Top
<1>16. Results(st2, tables)
  BY <1>1, <1>2, <1>8, <1>9, <1>12, <1>14, ResultsPush DEF IInv, Static, Top
<1>17. Cells(st2, scope)
  BY <1>1, <1>2, <1>8, <1>9, <1>12, <1>14, CellsPush DEF IInv, Static, Top
<1> QED
  BY <1>1, <1>5, <1>13, <1>15, <1>16, <1>17, NextIInv DEF IInv

LEMMA LenOf ==
  ASSUME NEW n \in Nat, NEW f, f = [i \in 1..n |-> f[i]]
  PROVE  Len(f) = n
OBVIOUS

LEMMA RunQueryStep ==
  ASSUME IInv, RunQuery
  PROVE  IInv'
<1>1. stack # <<>> /\ UNCHANGED << call, scope >> /\ Top.todo = "query" /\ tables' = tables + 1
  BY DEF RunQuery, Running
<1>2. PICK text : text = QueryOf(Top.node)[1].id
  OBVIOUS
<1>3. PICK contents : contents = QueryOf(Top.node)
  OBVIOUS
<1>4. PICK rows, J : /\ rows = [r \in 1..Fetched(text) |->
                           [k \in DOMAIN Columns[text] |->
                             Value(Columns[text][k], text, Arguments(contents, J), r)]]
                     /\ stack' = Append(Below, [Top EXCEPT !.todo = "rows",
                                          !.table = tables + 1, !.rows = rows])
  BY <1>2, <1>3 DEF RunQuery
<1>5. FrameOK(Top) /\ Queryable(Top.node) /\ tables \in Nat
  BY <1>1, TopFacts DEF Top, IInv, Static, Placed, Results
<1>6. HasQuery(Top.node) /\ text = QueryText(Top.node)
  BY <1>1, <1>2, <1>5 DEF FrameOK, HasQuery, QueryText
<1>7. db[text] \in Nat /\ text \in DOMAIN Columns
  BY <1>5, <1>6 DEF Queryable
<1>8. PICK L \in Nat : L = Fetched(text)
  BY <1>7, LimitAssumption DEF Fetched
<1>9. DOMAIN rows = 1..L /\ Len(rows) = L
  <2>1. DOMAIN rows = 1..L
    BY <1>4, <1>8
  <2>2. rows = [r \in 1..L |-> rows[r]]
    BY <1>4, <1>8
  <2>3. Len(rows) = L
    BY <2>2, LenOf
  <2> QED
    BY <2>1, <2>3
<1>10. ASSUME NEW r \in 1..L PROVE RowOf(rows[r], Columns[text])
  <2>1. PICK columns, args : columns = Columns[text] /\ args = Arguments(contents, J)
    OBVIOUS
  <2>2. rows[r] = [k \in DOMAIN columns |-> Value(columns[k], text, args, r)]
    BY <1>4, <1>8, <2>1
  <2>3. ASSUME NEW k PROVE /\ Value(columns[k], text, args, r).col = columns[k]
                           /\ Value(columns[k], text, args, r).row # Zero.row
    BY DEF Value, Zero
  <2>4. ASSUME NEW k \in DOMAIN columns
        PROVE  rows[r][k].col = columns[k] /\ rows[r][k] # Zero
    <3>1. rows[r][k] = Value(columns[k], text, args, r)
      BY <2>2
    <3> QED
      BY <2>3, <3>1
  <2>5. DOMAIN rows[r] = DOMAIN columns
    BY <2>2
  <2> QED
    BY <2>1, <2>4, <2>5 DEF RowOf
<1>11. PICK f : f = [Top EXCEPT !.todo = "rows", !.table = tables + 1, !.rows = rows]
  OBVIOUS
<1>12. PICK R : Top \in Frames(Nodes, R)
  BY <1>1, TopFacts DEF Top, IInv, Static
<1>13. /\ f \in Frames(Nodes, { rows }) /\ f.node = Top.node /\ f.todo = "rows"
       /\ f.table = tables + 1 /\ f.rows = rows
  <2>1. /\ Top.node \in Nodes /\ Top.next \in Nat \ {0} /\ Top.row \in Nat
        /\ Top = [node |-> Top.node, todo |-> Top.todo, next |-> Top.next,
                  row |-> Top.row, rows |-> Top.rows, table |-> Top.table]
    BY <1>12 DEF Frames
  <2>2. f = [node |-> Top.node, todo |-> "rows", next |-> Top.next, row |-> Top.row,
             rows |-> rows, table |-> tables + 1]
    BY <1>11, <2>1
  <2>3. f \in Frames(Nodes, { rows })
    BY <1>5, <2>1, <2>2 DEF Frames, Todos
  <2> QED
    BY <2>2, <2>3
<1>14. FrameOK(f)
  BY <1>1, <1>5, <1>13 DEF FrameOK
<1>15. RowsOK(f)
  BY <1>6, <1>9, <1>10, <1>13 DEF RowsOK
<1>16. PICK st2 : st2 = Append(Front(stack), f)
  OBVIOUS
<1>17. stack' = st2
  BY <1>4, <1>11, <1>16 DEF Below
<1>18. Stacked(st2) /\ Swaps(stack, st2, f)
  BY <1>1, <1>13, <1>16, SwapStack DEF IInv, Static
<1>19. Shape(st2)
  BY <1>1, <1>13, <1>14, <1>18, SwapShape DEF IInv, Static, Top
<1>20. Results(st2, tables + 1)
  BY <1>1, <1>13, <1>15, <1>18, ResultsNew DEF IInv, Static
<1>21. Cells(st2, scope)
  BY <1>1, <1>13, <1>18, CellsSwap DEF IInv, Static, Top
<1> QED
  BY <1>1, <1>17, <1>19, <1>20, <1>21, NextIInv DEF IInv

LEMMA BindRowStep ==
  ASSUME IInv, BindRow
  PROVE  IInv'
<1>1. /\ stack # <<>> /\ UNCHANGED << call, tables >> /\ Top.todo = "rows"
      /\ Top.row < Len(Top.rows)
      /\ scope' = [n \in DOMAIN scope |-> BoundTo(n, ThisRow)]
  BY DEF BindRow, Running
<1>2. PICK f : f = [Top EXCEPT !.row = NextRow, !.todo = "children", !.next = 1]
  OBVIOUS
<1>3. PICK st2 : st2 = Append(Front(stack), f)
  OBVIOUS
<1>4. stack' = st2
  BY <1>2, <1>3 DEF BindRow, Below
<1>5. /\ FrameOK(Top) /\ Queryable(Top.node) /\ Top.row \in Nat
      /\ Len(stack) \in Nat \ {0} /\ Top = stack[Len(stack)]
  BY <1>1, TopFacts DEF Top, IInv, Static, Placed
<1>6. HasQuery(Top.node) /\ Loops(Top)
  BY <1>1, <1>5 DEF FrameOK, HasQuery, Loops
<1>7. RowsOK(Top)
  BY <1>5, <1>6 DEF IInv, Results
<1>8. PICK row : row = ThisRow
  OBVIOUS
<1>9. RowOf(row, Columns[QueryText(Top.node)])
  <2>1. Top.row + 1 \in 1..Len(Top.rows)
    BY <1>1, <1>5, <1>7 DEF RowsOK
  <2> QED
    BY <1>7, <1>8, <2>1 DEF RowsOK, ThisRow
<1>10. PICK R : Top \in Frames(Nodes, R)
  BY <1>1, TopFacts DEF Top, IInv, Static
<1>11. /\ f \in Frames(Nodes, R) /\ f.node = Top.node /\ f.todo = "children"
       /\ f.table = Top.table /\ f.rows = Top.rows
  <2>1. /\ Top.node \in Nodes /\ Top.rows \in R /\ Top.table \in Nat
        /\ Top = [node |-> Top.node, todo |-> Top.todo, next |-> Top.next,
                  row |-> Top.row, rows |-> Top.rows, table |-> Top.table]
    BY <1>10 DEF Frames
  <2>2. f = [node |-> Top.node, todo |-> "children", next |-> 1, row |-> NextRow,
             rows |-> Top.rows, table |-> Top.table]
    BY <1>2, <2>1
  <2>3. f \in Frames(Nodes, R)
    BY <1>5, <2>1, <2>2 DEF Frames, Todos, NextRow
  <2> QED
    BY <2>2, <2>3
<1>12. FrameOK(f)
  BY <1>1, <1>5, <1>11 DEF FrameOK
<1>13. Stacked(st2) /\ Swaps(stack, st2, f)
  BY <1>1, <1>3, <1>11, SwapStack DEF IInv, Static
<1>14. Shape(st2)
  BY <1>1, <1>11, <1>12, <1>13, SwapShape DEF IInv, Static, Top
<1>15. Results(st2, tables)
  BY <1>1, <1>6, <1>11, <1>13, ResultsSwap DEF IInv, Static, Top
<1>16. PICK sc : sc = [n \in DOMAIN scope |-> BoundTo(n, row)]
  OBVIOUS
<1>17. scope' = sc /\ DOMAIN sc = DOMAIN scope
  BY <1>1, <1>8, <1>16
<1>18. Cells(st2, sc)
  BY <1>1, <1>6, <1>9, <1>11, <1>13, <1>16, CellsBind DEF IInv, Static
<1> QED
  BY <1>1, <1>4, <1>14, <1>15, <1>17, <1>18, NextIInv DEF IInv

LEMMA FreeRowsStep ==
  ASSUME IInv, FreeRows
  PROVE  IInv'
<1>1. /\ stack # <<>> /\ UNCHANGED << call, tables >> /\ Top.todo = "rows"
      /\ scope' = Freed(Top.table) /\ stack' = Now("close")
  BY DEF FreeRows, Running
<1>2. PICK f : f = [Top EXCEPT !.todo = "close"]
  OBVIOUS
<1>3. FrameOK(Top)
  BY <1>1, TopFacts DEF Top, IInv, Static, Placed
<1>4. PICK R : Top \in Frames(Nodes, R)
  BY <1>1, TopFacts DEF Top, IInv, Static
<1>5. f.node = Top.node /\ f.todo = "close"
  BY <1>2, <1>4 DEF Frames
<1>6. FrameOK(f) /\ ~Loops(f) /\ Loops(Top)
  BY <1>1, <1>3, <1>5 DEF FrameOK, Loops
<1>7. "close" \in Todos
  BY DEF Todos
<1>8. /\ Shape(Now("close")) /\ Swaps(stack, Now("close"), f)
  BY <1>1, <1>2, <1>6, <1>7, NowStack DEF IInv, Static
<1>9. Results(Now("close"), tables)
  BY <1>1, <1>5, <1>6, <1>8, ResultsSwap DEF IInv, Static, Top
<1>10. PICK sc : sc = Freed(Top.table)
  OBVIOUS
<1>11. Cells(Now("close"), sc)
  BY <1>1, <1>5, <1>6, <1>8, <1>10, CellsFree DEF IInv, Static
<1>12. DOMAIN sc = DOMAIN scope
  BY <1>10 DEF Freed
<1> QED
  BY <1>1, <1>8, <1>9, <1>10, <1>11, <1>12, NextIInv DEF IInv

(* A step that only changes the status                                      *)
LEMMA StatusStep ==
  ASSUME IInv, UNCHANGED << call, scope, stack, tables >>
  PROVE  IInv'
BY NextIInv DEF IInv

LEMMA BeginIInv ==
  ASSUME Begin
  PROVE  IInv
<1>1. Static
  BY DEF Begin, Static
<1>2. PICK g : g = Frame(template.root)
  OBVIOUS
<1>3. PICK st : st = << g >>
  OBVIOUS
<1>4. stack = st /\ Len(st) = 1 /\ st[1] = g
  BY <1>2, <1>3 DEF Begin
<1>5. Around(st, 1) = template.given
  <2>1. 1..(1 - 1) = {}
    OBVIOUS
  <2> QED
    BY <2>1 DEF Around
<1>6. << template.root, Around(st, 1) >> \in Levels[0]
  BY <1>5, LevelsRun DEF Levels
<1>7. g.node = template.root /\ g.todo = "open"
  BY <1>2 DEF Frame
<1>8. PICK p \in Levels[0] : p = << template.root, Around(st, 1) >>
  BY <1>6
<1>9. 0 < MaxDepth /\ template.root \in Nodes
  <2>1. 0 \in 0..MaxDepth
    OBVIOUS
  <2>2. p[1] = template.root
    BY <1>8
  <2> QED
    BY <1>1, <2>1, <2>2, LevelNodes DEF Static
<1>10. g \in Frames(Nodes, { <<>> })
  BY <1>2, <1>9 DEF Frames, Frame, Todos
<1>11. Stacked(st)
  BY <1>3, <1>10 DEF Stacked
<1>12. FrameOK(st[1])
  BY <1>4, <1>7 DEF FrameOK
<1>13. Placed(st, 1)
  BY <1>4, <1>6, <1>7, <1>9, <1>12 DEF Placed
<1>14. \A i \in 1..1 : i = 1
  OBVIOUS
<1>15. Shape(st)
  BY <1>4, <1>11, <1>13, <1>14 DEF Shape
<1>16. Results(st, tables)
  <2>1. ~Loops(st[1])
    BY <1>4, <1>7 DEF Loops
  <2> QED
    BY <1>4, <1>14, <2>1 DEF Begin, Results
<1>17. Cells(st, scope)
  BY <1>4, <1>7, <1>14 DEF Begin, Cells
<1> QED
  BY <1>1, <1>4, <1>15, <1>16, <1>17 DEF IInv

LEMMA IInvStep ==
  ASSUME IInv, [RenderStep]_page
  PROVE  IInv'
<1>1. CASE RenderNode
  BY <1>1, RenderNodeStep
<1>2. CASE RunQuery
  BY <1>2, RunQueryStep
<1>3. CASE QueryFails
  BY <1>3, StatusStep DEF QueryFails
<1>4. CASE BindRow
  BY <1>4, BindRowStep
<1>5. CASE FreeRows
  BY <1>5, FreeRowsStep
<1>6. CASE RenderChild
  BY <1>6, RenderChildStep
<1>7. CASE EndChildren
  BY <1>7, EndChildrenStep
<1>8. CASE CloseElement
  BY <1>8, CloseElementStep
<1>9. CASE BadRead
  BY <1>9, StatusStep DEF BadRead
<1>10. CASE Finish
  BY <1>10, StatusStep DEF Finish
<1>11. CASE UNCHANGED page
  BY <1>11, StatusStep DEF page
<1> QED
  BY <1>1, <1>2, <1>3, <1>4, <1>5, <1>6, <1>7, <1>8, <1>9, <1>10, <1>11 DEF RenderStep

LEMMA IInvHolds == RenderSpec => []IInv
<1>1. Begin => IInv
  BY BeginIInv
<1>2. IInv /\ [RenderStep]_page => IInv'
  BY IInvStep
<1> QED
  BY <1>1, <1>2, PTL DEF RenderSpec

-----------------------------------------------------------------------------
(* Reads                                                                    *)

ItemsOf(names) == { x \in Items : x.type = "name" => x.id \in names }

LEMMA ContentsItems ==
  ASSUME NEW contents \in Seq(Items)
  PROVE  contents \in Seq(ItemsOf(UsedIn(contents)))
<1>1. PICK L \in Nat : L = Len(contents) /\ DOMAIN contents = 1..L
  OBVIOUS
<1>2. ASSUME NEW i \in 1..L PROVE contents[i] \in ItemsOf(UsedIn(contents))
  BY <1>1 DEF ItemsOf, UsedIn
<1> HIDE DEF ItemsOf
<1> QED
  BY <1>1, <1>2

(* The contents shown of an element use no names but the element's.         *)
LEMMA ShownItems ==
  ASSUME NEW n, n.kind = "element", n.attributes \in Seq(Attributes)
  PROVE  ShownContents(n) \in Seq(ItemsOf(UsedBy(n)))
<1>1. PICK X : X = ItemsOf(UsedBy(n))
  OBVIOUS
<1>2. PICK attributes \in Seq(Attributes) : attributes = n.attributes
  OBVIOUS
<1>3. PICK L \in Nat : L = Len(attributes) /\ DOMAIN attributes = 1..L
  OBVIOUS
<1>4. UsedBy(n) = UNION { UsedIn(attributes[i].contents) : i \in 1..L }
  BY <1>2, <1>3 DEF UsedBy
<1> DEFINE Part(i) == IF attributes[i].name = << "m:q" >> THEN <<>>
                      ELSE << [type |-> "constant", id |-> attributes[i].name] >>
                             \o attributes[i].contents
<1>5. ASSUME NEW i \in 1..L PROVE Part(i) \in Seq(X)
  <2>a. attributes[i] \in Attributes
    BY <1>3
  <2>b. attributes[i].name \in Seq(STRING) /\ attributes[i].contents \in Seq(Items)
    BY <2>a DEF Attributes
  <2>1. PICK name \in Seq(STRING), contents \in Seq(Items) :
          name = attributes[i].name /\ contents = attributes[i].contents
    BY <2>b
  <2>2. UsedIn(contents) \subseteq UsedBy(n)
    BY <1>4, <2>1
  <2>3. contents \in Seq(X)
    <3>1. ItemsOf(UsedIn(contents)) \subseteq X
      BY <1>1, <2>2 DEF ItemsOf
    <3> QED
      BY <3>1, ContentsItems
  <2>4. << [type |-> "constant", id |-> name] >> \in Seq(X)
    BY <1>1 DEF ItemsOf, Items
  <2>5. << [type |-> "constant", id |-> name] >> \o contents \in Seq(X)
    BY <2>3, <2>4, ConcatProperties
  <2>6. <<>> \in Seq(X)
    OBVIOUS
  <2> QED
    BY <2>1, <2>5, <2>6
<1>6. PICK seqs : seqs = [i \in 1..L |-> Part(i)]
  OBVIOUS
<1>7. seqs \in Seq(Seq(X))
  <2> HIDE DEF Part
  <2> QED
    BY <1>5, <1>6
<1>8. ShownContents(n) = FlattenSeq(seqs)
  BY <1>2, <1>3, <1>6 DEF ShownContents
<1>9. FlattenSeq(seqs) \in Seq(X)
  BY <1>7, FlattenType
<1> QED
  BY <1>1, <1>8, <1>9

LEMMA NodeItems ==
  ASSUME NEW n, IsTreeNode(n)
  PROVE  Contents(n) \in Seq(ItemsOf(UsedBy(n)))
<1>1. CASE n.kind = "text"
  BY <1>1, ContentsItems DEF IsTreeNode, Contents, UsedBy
<1>2. CASE n.kind = "element"
  BY <1>2, ShownItems DEF IsTreeNode, Contents
<1> QED
  BY <1>1, <1>2 DEF IsTreeNode

LEMMA QueryItems ==
  ASSUME NEW n, IsTreeNode(n), n.kind = "element", QueryAttributes(n) # {}
  PROVE  QueryOf(n) \in Seq(ItemsOf(UsedBy(n)))
<1>1. PICK L \in Nat : DOMAIN n.attributes = 1..L /\ n.attributes \in Seq(Attributes)
  BY DEF IsTreeNode
<1>2. QueryAttributes(n) \subseteq 1..L
  BY <1>1 DEF QueryAttributes
<1>3. PICK k \in 1..L : k = Max(QueryAttributes(n))
  BY <1>2, MaxOfPositions
<1>a. n.attributes[k] \in Attributes
  BY <1>1
<1>b. n.attributes[k].contents \in Seq(Items)
  BY <1>a DEF Attributes
<1>4. PICK contents \in Seq(Items) : contents = n.attributes[k].contents
  BY <1>b
<1>5. UsedIn(contents) \subseteq UsedBy(n)
  BY <1>1, <1>4 DEF UsedBy
<1>6. ItemsOf(UsedIn(contents)) \subseteq ItemsOf(UsedBy(n))
  BY <1>5 DEF ItemsOf
<1>7. contents \in Seq(ItemsOf(UsedBy(n)))
  BY <1>6, ContentsItems
<1> QED
  BY <1>3, <1>4, <1>7 DEF QueryOf

(* The cells of the names that are bound around the innermost activation    *)
LEMMA CellsReadable ==
  ASSUME IInv, stack # <<>>, Scoped, nulls = {}, NEW n \in UsedBy(Top.node)
  PROVE  ~Risky(scope[n])
<1>1. PICK m \in Nat \ {0} : m = Len(stack)
  BY TopFacts DEF IInv, Static
<1>2. n \in template.names /\ n \in Around(stack, m)
  BY <1>1, TopFacts DEF IInv, Static, Top
<1>3. n \in DOMAIN scope
  BY <1>2 DEF IInv, Static
<1>4. \E t : Readable(scope[n], t)
  <2>1. CASE n \in template.given
    BY <1>3, <2>1 DEF IInv, Cells
  <2>2. CASE \E j \in 1..(m - 1) : n \in ColumnsOf(stack[j].node)
    <3>1. PICK j \in 1..(m - 1) : n \in ColumnsOf(stack[j].node)
      BY <2>2
    <3>2. j \in 1..m /\ j < m
      OBVIOUS
    <3>3. stack[j].todo = "children"
      BY <1>1, <3>2 DEF IInv, Shape, Placed
    <3> QED
      BY <1>1, <1>3, <3>1, <3>2, <3>3 DEF IInv, Cells
  <2> QED
    BY <1>2, <2>1, <2>2, InAround
<1> QED
  BY <1>4 DEF Readable, Risky

LEMMA NothingRisky ==
  ASSUME IInv, stack # <<>>, Scoped, nulls = {},
         NEW contents \in Seq(ItemsOf(UsedBy(Top.node)))
  PROVE  RiskyItems(contents) = {}
<1> SUFFICES ASSUME NEW i \in DOMAIN contents, contents[i].type = "name",
                    Risky(scope[contents[i].id])
             PROVE  FALSE
  BY DEF RiskyItems
<1>1. contents[i] \in ItemsOf(UsedBy(Top.node))
  OBVIOUS
<1>2. contents[i].id \in UsedBy(Top.node)
  BY <1>1 DEF ItemsOf
<1> QED
  BY <1>2, CellsReadable

LEMMA SafeNow ==
  ASSUME IInv
  PROVE  SafeReads
<1> SUFFICES ASSUME RiskAhead, Scoped, nulls = {} PROVE FALSE
  BY DEF SafeReads
<1>1. stack # <<>>
  BY DEF RiskAhead, Running
<1>2. IsTreeNode(Top.node) /\ FrameOK(Top)
  BY <1>1, TopFacts DEF Top, IInv, Static, Placed
<1>3. CASE RiskyItems(Contents(Top.node)) # {}
  BY <1>1, <1>2, <1>3, NodeItems, NothingRisky
<1>4. CASE Running("query") /\ RiskyItems(QueryOf(Top.node)) # {}
  <2>1. Top.node.kind = "element" /\ QueryAttributes(Top.node) # {}
    BY <1>2, <1>4 DEF FrameOK, Running
  <2> QED
    BY <1>1, <1>2, <1>4, <2>1, QueryItems, NothingRisky
<1> QED
  BY <1>3, <1>4 DEF RiskAhead

(* No page and no argument of a query is made of a cell nobody wrote or of  *)
(* a row that is freed, when every name is used where it is bound and none  *)
(* hides another (muggin.c:644, 697, 828): for every template, every scope  *)
(* and whatever the queries return or however they fail.                    *)
THEOREM SafeReadsCorrect == RenderSpec => []SafeReads
<1>1. IInv => SafeReads
  BY SafeNow
<1> QED
  BY <1>1, IInvHolds, PTL

-----------------------------------------------------------------------------
(* Tags                                                                     *)

TagNames(st) == [i \in DOMAIN st |-> st[i].node.tag]

EnteredOf(st) == IF st # <<>> /\ Last(st).todo = "open" THEN Front(st) ELSE st

LEMMA SwapsAny ==
  ASSUME NEW st, Stacked(st), st # <<>>, NEW f
  PROVE  Swaps(st, Append(Front(st), f), f)
<1>1. PICK R : st \in Seq(Frames(Nodes, R))
  BY DEF Stacked
<1>2. PICK F : F = Frames(Nodes, R) \cup {f}
  OBVIOUS
<1>3. st \in Seq(F) /\ f \in F
  BY <1>1, <1>2
<1>4. PICK low : low = Front(st)
  OBVIOUS
<1>5. /\ low \in Seq(F) /\ Len(low) = Len(st) - 1 /\ Len(st) \in Nat \ {0}
      /\ \A i \in 1..(Len(st) - 1) : low[i] = st[i]
  BY <1>3, <1>4, Popped
<1>6. /\ Len(Append(low, f)) = Len(low) + 1 /\ Append(low, f)[Len(low) + 1] = f
      /\ \A i \in 1..Len(low) : Append(low, f)[i] = low[i]
  BY <1>3, <1>5, AppendProperties
<1>7. Len(low) + 1 = Len(st)
  BY <1>5
<1> QED
  BY <1>4, <1>5, <1>6, <1>7 DEF Swaps

LEMMA FrontOfAppend ==
  ASSUME NEW Y, NEW s \in Seq(Y), NEW x \in Y
  PROVE  Append(s, x) # <<>> /\ Last(Append(s, x)) = x /\ Front(Append(s, x)) = s
<1>1. PICK t : t = Append(s, x)
  OBVIOUS
<1>2. PICK n \in Nat : n = Len(s)
  OBVIOUS
<1>3. /\ t \in Seq(Y) /\ Len(t) = n + 1 /\ t[n + 1] = x
      /\ \A i \in 1..n : t[i] = s[i]
  BY <1>1, <1>2, AppendProperties
<1>4. t # <<>>
  <2>1. Len(t) # 0
    BY <1>2, <1>3
  <2> QED
    BY <2>1
<1>5. Last(t) = x
  BY <1>3 DEF Last
<1>6. PICK low : low = Front(t)
  OBVIOUS
<1>7. low \in Seq(Y) /\ Len(low) = Len(t) - 1 /\ \A i \in 1..(Len(t) - 1) : low[i] = t[i]
  BY <1>3, <1>4, <1>6, Popped
<1>8. Len(t) - 1 = n
  BY <1>3
<1>9. Len(low) = Len(s) /\ \A i \in 1..Len(low) : low[i] = s[i]
  BY <1>2, <1>3, <1>7, <1>8
<1>10. low = s
  BY <1>7, <1>9, SeqEqual
<1> QED
  BY <1>1, <1>4, <1>5, <1>6, <1>10

LEMMA TagNamesSame ==
  ASSUME NEW s, Stacked(s), NEW t, Stacked(t), Len(s) = Len(t),
         \A i \in 1..Len(s) : s[i].node = t[i].node
  PROVE  TagNames(s) = TagNames(t)
<1>1. DOMAIN s = 1..Len(s) /\ DOMAIN t = 1..Len(s)
  BY DEF Stacked
<1> QED
  BY <1>1 DEF TagNames

(* The tag of the innermost element, behind those around it                 *)
LEMMA TagNamesSplit ==
  ASSUME Renderable, NEW st, Shape(st), st # <<>>
  PROVE  \E Y : /\ TagNames(Front(st)) \in Seq(Y) /\ Last(st).node.tag \in Y
                /\ TagNames(st) = Append(TagNames(Front(st)), Last(st).node.tag)
<1>1. PICK R : st \in Seq(Frames(Nodes, R))
  BY TopFacts
<1>2. PICK m \in Nat \ {0} : m = Len(st) /\ st[m] = Last(st)
  BY TopFacts
<1>3. PICK low : low = Front(st)
  OBVIOUS
<1>4. /\ low \in Seq(Frames(Nodes, R)) /\ Len(low) = m - 1
      /\ \A i \in 1..(m - 1) : low[i] = st[i]
  BY <1>1, <1>2, <1>3, Popped
<1>5. PICK Y : Y = { st[i].node.tag : i \in 1..m }
  OBVIOUS
<1>6. PICK a : a = TagNames(low)
  OBVIOUS
<1>7. a = [i \in 1..(m - 1) |-> st[i].node.tag]
  BY <1>4, <1>6 DEF TagNames
<1>8. a \in Seq(Y) /\ Len(a) = m - 1
  <2>1. \A i \in 1..(m - 1) : st[i].node.tag \in Y
    BY <1>5
  <2>2. m - 1 \in Nat
    OBVIOUS
  <2> QED
    BY <1>7, <2>1, <2>2
<1>9. PICK b : b = TagNames(st)
  OBVIOUS
<1>10. b = [i \in 1..m |-> st[i].node.tag]
  BY <1>1, <1>2, <1>9 DEF TagNames
<1>11. b \in Seq(Y) /\ Len(b) = m
  <2>1. \A i \in 1..m : st[i].node.tag \in Y
    BY <1>5
  <2> QED
    BY <1>10, <2>1
<1>12. PICK x \in Y : x = Last(st).node.tag
  BY <1>2, <1>5
<1>13. PICK c : c = Append(a, x)
  OBVIOUS
<1>14. c \in Seq(Y) /\ Len(c) = Len(a) + 1 /\ c[Len(a) + 1] = x
       /\ \A i \in 1..Len(a) : c[i] = a[i]
  BY <1>8, <1>13, AppendProperties
<1>15. Len(c) = m /\ c[m] = x /\ \A i \in 1..(m - 1) : c[i] = a[i]
  <2>1. Len(a) + 1 = m
    BY <1>8
  <2> QED
    BY <1>8, <1>14, <2>1
<1>16. \A i \in 1..m : b[i] = c[i]
  <2>1. \A i \in 1..(m - 1) : c[i] = st[i].node.tag
    BY <1>7, <1>15
  <2>2. c[m] = st[m].node.tag
    BY <1>2, <1>12, <1>15
  <2>3. \A i \in 1..m : i \in 1..(m - 1) \/ i = m
    OBVIOUS
  <2> QED
    BY <1>10, <2>1, <2>2, <2>3
<1>17. b = c
  BY <1>11, <1>14, <1>15, <1>16, SeqEqual
<1> QED
  BY <1>3, <1>6, <1>8, <1>9, <1>12, <1>13, <1>17

(* Below the innermost activation none is about to open its element.        *)
LEMMA EnteredBelow ==
  ASSUME Renderable, NEW st, Shape(st), st # <<>>
  PROVE  EnteredOf(Front(st)) = Front(st)
<1>1. PICK m \in Nat \ {0} : m = Len(st)
  BY TopFacts
<1>2. PICK low : low = Front(st)
  OBVIOUS
<1>3. Shape(low) /\ Pops(st, low)
  BY <1>2, PopShape
<1>4. ASSUME low # <<>> PROVE Last(low).todo # "open"
  <2>1. Len(low) \in Nat \ {0} /\ Last(low) = low[Len(low)]
    BY <1>3, <1>4, TopFacts
  <2>2. Len(low) = m - 1 /\ low[m - 1] = st[m - 1] /\ m - 1 \in 1..m /\ m - 1 < m
    BY <1>1, <1>3, <2>1 DEF Pops
  <2>3. st[m - 1].todo = "children"
    BY <1>1, <2>2 DEF Shape, Placed
  <2> QED
    BY <2>1, <2>2, <2>3
<1> QED
  BY <1>2, <1>4 DEF EnteredOf

LEMMA ShapeAgain ==
  ASSUME UNCHANGED call, IInv'
  PROVE  Shape(stack')
<1>1. Shape(stack)'
  BY DEF IInv
<1>2. Stacked(stack')
  BY <1>1, CallSame DEF Shape, Stacked
<1>3. Len(stack') \in Nat
  BY <1>2 DEF Stacked
<1>4. ASSUME NEW i \in 1..Len(stack') PROVE Placed(stack', i)
  <2>1. Placed(stack, i)' /\ i \in Nat
    BY <1>1, <1>3 DEF Shape
  <2>2. Around(stack, i)' = Around(stack', i) /\ Levels' = Levels
    BY <2>1, CallSame
  <2> QED
    BY <2>1, <2>2 DEF Placed
<1> QED
  BY <1>2, <1>4 DEF Shape

(* What is rendered of contents has no tags in it.                          *)
LEMMA RenderedPlain ==
  ASSUME NEW Z, NEW contents \in Seq(Z), NEW J
  PROVE  \E Y : /\ Rendered(contents, J) \in Seq(Y)
                /\ \A t \in Y : t.kind \notin { "open", "close" }
<1>1. PICK L \in Nat : DOMAIN contents = 1..L
  OBVIOUS
<1>2. PICK Y : Y = { t \in { Raw(contents[i].id) : i \in 1..L }
                          \cup { Shown(ReadItem(contents, i, J)) : i \in 1..L } :
                       t.kind \notin { "open", "close" } }
  OBVIOUS
<1>3. ASSUME NEW i \in 1..L PROVE Piece(contents, i, J) \in Seq(Y)
  <2>1. Raw(contents[i].id) \in Y
    <3>1. Raw(contents[i].id).kind = "raw"
      BY DEF Raw
    <3> QED
      BY <1>2, <3>1
  <2>2. Shown(ReadItem(contents, i, J)) \in Y
    <3>1. Shown(ReadItem(contents, i, J)).kind = "value"
      BY DEF Shown
    <3> QED
      BY <1>2, <3>1
  <2>3. <<>> \in Seq(Y) /\ << Raw(contents[i].id) >> \in Seq(Y)
        /\ << Shown(ReadItem(contents, i, J)) >> \in Seq(Y)
    BY <2>1, <2>2
  <2>4. CASE contents[i].type = "constant"
    BY <2>3, <2>4 DEF Piece
  <2>5. CASE contents[i].type # "constant" /\ scope[contents[i].id].has
    BY <2>3, <2>5 DEF Piece
  <2>6. CASE contents[i].type # "constant" /\ ~scope[contents[i].id].has
    BY <2>3, <2>6 DEF Piece
  <2> QED
    BY <2>4, <2>5, <2>6
<1>4. PICK seqs : seqs = [i \in 1..L |-> Piece(contents, i, J)]
  OBVIOUS
<1>5. seqs \in Seq(Seq(Y))
  BY <1>3, <1>4
<1>6. Rendered(contents, J) = FlattenSeq(seqs)
  BY <1>1, <1>4 DEF Rendered
<1>7. FlattenSeq(seqs) \in Seq(Y)
  BY <1>5, FlattenType
<1> QED
  BY <1>2, <1>6, <1>7

Output == TagsIn(out) = TagNames(EnteredOf(stack)) /\ \E X : out \in Seq(X)

LEMMA NestedOutput == Output => Nested
BY DEF Output, Nested, EnteredOf, Entered, Top, Below, TagNames

(* A step that swaps the innermost activation of an element that is entered *)
LEMMA OutputSwap ==
  ASSUME IInv, IInv', UNCHANGED << call, out >>, Output, stack # <<>>,
         Top.todo # "open", NEW f, f.node = Top.node, f.todo # "open",
         stack' = Append(Below, f)
  PROVE  Output'
<1>1. PICK m \in Nat \ {0} : m = Len(stack) /\ stack[m] = Top
  BY TopFacts DEF IInv, Static, Top
<1>2. Stacked(stack) /\ Shape(stack') /\ Stacked(stack')
  BY ShapeAgain DEF IInv, Shape
<1>3. Len(stack') = m /\ stack'[m] = f /\ \A i \in 1..(m - 1) : stack'[i] = stack[i]
  <2>1. Swaps(stack, Append(Front(stack), f), f)
    BY <1>2, SwapsAny
  <2> QED
    BY <1>1, <2>1 DEF Swaps, Below
<1>4. \A i \in 1..m : stack[i].node = stack'[i].node
  BY <1>1, <1>3
<1>5. TagNames(stack) = TagNames(stack')
  BY <1>1, <1>2, <1>3, <1>4, TagNamesSame
<1>6. EnteredOf(stack) = stack
  BY DEF EnteredOf, Top
<1>7. EnteredOf(stack') = stack'
  <2>1. Last(stack') = f
    BY <1>3 DEF Last
  <2> QED
    BY <2>1 DEF EnteredOf
<1> QED
  BY <1>5, <1>6, <1>7 DEF Output, EnteredOf, TagNames

LEMMA RenderChildOutput ==
  ASSUME IInv, IInv', Output, RenderChild
  PROVE  Output'
<1>1. /\ stack # <<>> /\ UNCHANGED << call, scope, tables, out >>
      /\ Top.todo = "children" /\ Top.next <= Len(Top.node.children)
  BY DEF RenderChild, Running
<1>2. PICK top : top = Top
  OBVIOUS
<1>3. PICK f : f = [top EXCEPT !.next = @ + 1]
  OBVIOUS
<1>4. PICK g : g = Frame(top.node.children[top.next])
  OBVIOUS
<1>5. stack' = Append(Front(stack), f) \o << g >>
  BY <1>2, <1>3, <1>4 DEF RenderChild, Below
<1>6. PICK R : top \in Frames(Nodes, R)
  BY <1>1, <1>2, TopFacts DEF Top, IInv, Static
<1>7. f \in Frames(Nodes, R) /\ f.node = top.node
  BY <1>3, <1>6 DEF Frames
<1>8. PICK m \in Nat \ {0} : m = Len(stack) /\ stack[m] = top
  BY <1>1, <1>2, TopFacts DEF IInv, Static, Top
<1>9. top.node.children[top.next] \in Nodes
  BY <1>1, <1>2, <1>8, NextChild DEF IInv, Static, Top
<1>10. g \in Frames(Nodes, { <<>> }) /\ g.todo = "open"
  BY <1>4, <1>9 DEF Frames, Frame, Todos
<1>11. Pushes(stack, stack', f, g)
  BY <1>1, <1>5, <1>7, <1>10, PushStack DEF IInv, Static
<1>12. Shape(stack') /\ Renderable /\ Stacked(stack)
  BY <1>1, ShapeAgain DEF IInv, Static, Shape
<1>13. Len(stack') = m + 1 /\ stack'[m] = f /\ stack'[m + 1] = g
       /\ \A i \in 1..(m - 1) : stack'[i] = stack[i]
  BY <1>8, <1>11 DEF Pushes
<1>14. stack' # <<>>
  BY <1>13
<1>15. PICK low : low = Front(stack')
  OBVIOUS
<1>16. Shape(low) /\ Pops(stack', low)
  BY <1>12, <1>14, <1>15, PopShape
<1>17. Len(low) = m /\ \A i \in 1..m : low[i] = stack'[i]
  BY <1>13, <1>16 DEF Pops
<1>18. \A i \in 1..m : stack[i].node = low[i].node
  BY <1>7, <1>8, <1>13, <1>17
<1>19. TagNames(stack) = TagNames(low)
  BY <1>8, <1>12, <1>16, <1>17, <1>18, TagNamesSame DEF Shape
<1>20. EnteredOf(stack) = stack
  BY <1>1 DEF EnteredOf, Top
<1>21. EnteredOf(stack') = low
  <2>1. Last(stack') = g
    BY <1>13 DEF Last
  <2> QED
    BY <1>10, <1>14, <1>15, <2>1 DEF EnteredOf
<1> QED
  BY <1>1, <1>19, <1>20, <1>21 DEF Output, EnteredOf, TagNames

LEMMA CloseElementOutput ==
  ASSUME IInv, IInv', Output, CloseElement
  PROVE  Output'
<1>1. /\ stack # <<>> /\ Top.todo = "close" /\ stack' = Below
      /\ out' = Append(out, Close(Top.node))
  BY DEF CloseElement, Running
<1>2. PICK low : low = Front(stack)
  OBVIOUS
<1>3. PICK Y : /\ TagNames(low) \in Seq(Y) /\ Top.node.tag \in Y
               /\ TagNames(stack) = Append(TagNames(low), Top.node.tag)
  BY <1>1, <1>2, TagNamesSplit DEF IInv, Static, Top
<1>4. PICK tags \in Seq(Y), tag \in Y : tags = TagNames(low) /\ tag = Top.node.tag
  BY <1>3
<1>5. TagsIn(out) = Append(tags, tag)
  BY <1>1, <1>3, <1>4 DEF Output, EnteredOf, Top
<1>6. PICK token : token = Close(Top.node)
  OBVIOUS
<1>7. token.kind = "close" /\ token.text = tag
  BY <1>4, <1>6 DEF Close, Tag
<1>8. PICK X : out \in Seq(X)
  BY DEF Output
<1>9. PICK Z : Z = X \cup {token}
  OBVIOUS
<1>10. out \in Seq(Z) /\ token \in Z
  BY <1>8, <1>9
<1>11. TagsIn(Append(out, token)) = WithToken(TagsIn(out), token)
  BY <1>10, TagsAppend
<1>12. /\ Append(tags, tag) # <<>> /\ Last(Append(tags, tag)) = tag
       /\ Front(Append(tags, tag)) = tags
  BY FrontOfAppend
<1>13. WithToken(Append(tags, tag), token) = tags
  BY <1>7, <1>12 DEF WithToken
<1>14. TagsIn(out') = TagNames(low)
  BY <1>1, <1>4, <1>5, <1>6, <1>11, <1>13
<1>15. EnteredOf(low) = low
  BY <1>1, <1>2, EnteredBelow DEF IInv, Static
<1>16. out' \in Seq(Z)
  BY <1>1, <1>6, <1>10, AppendProperties
<1> QED
  BY <1>1, <1>2, <1>14, <1>15, <1>16 DEF Output, EnteredOf, TagNames, Below

LEMMA RenderNodeOutput ==
  ASSUME IInv, IInv', Output, RenderNode
  PROVE  Output'
<1>1. stack # <<>> /\ Top.todo = "open" /\ stack' = Rest /\ UNCHANGED call
  BY DEF RenderNode, Running
<1>2. PICK n : n = Top.node
  OBVIOUS
<1>3. PICK J : out' = out \o Opening(n) \o Rendered(Contents(n), J)
  BY <1>2 DEF RenderNode
<1>4. IsTreeNode(n)
  BY <1>1, <1>2, TopFacts DEF IInv, Static, Top
<1>5. PICK low : low = Front(stack)
  OBVIOUS
<1>6. PICK tags : tags = TagNames(low) /\ TagsIn(out) = tags
  BY <1>1, <1>5 DEF Output, EnteredOf, Top
<1>7. PICK plain, P : /\ plain = Rendered(Contents(n), J) /\ plain \in Seq(P)
                      /\ \A t \in P : t.kind \notin { "open", "close" }
  BY <1>4, NodeItems, RenderedPlain
<1>8. PICK X : out \in Seq(X)
  BY DEF Output
<1>9. EnteredOf(low) = low
  BY <1>1, <1>5, EnteredBelow DEF IInv, Static
<1>10. ASSUME NEW mid, NEW Z, mid \in Seq(Z), out' = mid \o plain,
              TagsIn(mid) = TagNames(EnteredOf(stack'))
       PROVE  Output'
  <2>1. TagsIn(out') = TagsIn(mid)
    BY <1>7, <1>10, TagsPlain
  <2>2. out' \in Seq(Z \cup P)
    <3>1. mid \in Seq(Z \cup P) /\ plain \in Seq(Z \cup P)
      BY <1>7, <1>10
    <3> QED
      BY <1>10, <3>1, ConcatProperties
  <2> QED
    BY <1>10, <2>1, <2>2 DEF Output, EnteredOf, TagNames
<1>11. CASE n.kind = "text"
  <2>1. out' = out \o plain
    <3>1. Opening(n) = <<>>
      BY <1>11 DEF Opening
    <3>2. out \o <<>> = out
      BY <1>8
    <3> QED
      BY <1>3, <1>7, <3>1, <3>2
  <2>2. stack' = low
    BY <1>1, <1>2, <1>5, <1>11 DEF Rest, Below
  <2> QED
    BY <1>6, <1>8, <1>9, <1>10, <2>1, <2>2
<1>12. CASE n.kind = "element"
  <2>1. PICK token : token = Open(n)
    OBVIOUS
  <2>2. PICK Z : Z = X \cup {token}
    OBVIOUS
  <2>3. out \in Seq(Z) /\ token \in Z
    BY <1>8, <2>2
  <2>4. PICK mid : mid = Append(out, token)
    OBVIOUS
  <2>5. mid \in Seq(Z)
    BY <2>3, <2>4, AppendProperties
  <2>6. out' = mid \o plain
    <3>1. Opening(n) = << token >>
      BY <1>12, <2>1 DEF Opening
    <3>2. out \o << token >> = Append(out, token)
      BY <2>3
    <3> QED
      BY <1>3, <1>7, <2>4, <3>1, <3>2
  <2>7. TagsIn(mid) = WithToken(tags, token)
    BY <1>6, <2>3, <2>4, TagsAppend
  <2>8. CASE n.void
    <3>1. token.kind = "void"
      BY <2>1, <2>8 DEF Open, Tag
    <3>2. TagsIn(mid) = tags
      BY <2>7, <3>1 DEF WithToken
    <3>3. stack' = low
      BY <1>1, <1>2, <1>5, <2>8 DEF Rest, Below
    <3> QED
      BY <1>6, <1>9, <1>10, <2>5, <2>6, <3>2, <3>3
  <2>9. CASE ~n.void
    <3>1. token.kind = "open" /\ token.text = n.tag
      BY <2>1, <2>9 DEF Open, Tag
    <3>2. TagsIn(mid) = Append(tags, n.tag)
      BY <2>7, <3>1 DEF WithToken
    <3>3. TagNames(stack) = Append(tags, n.tag)
      BY <1>1, <1>2, <1>5, <1>6, TagNamesSplit DEF IInv, Static, Top
    <3>4. PICK todo : /\ todo = IF Looping THEN "query" ELSE "children"
                      /\ stack' = Now(todo)
      BY <1>1, <1>2, <1>12, <2>9 DEF Rest
    <3>5. PICK f : f = [Top EXCEPT !.todo = todo]
      OBVIOUS
    <3>6. PICK R : Top \in Frames(Nodes, R)
      BY <1>1, TopFacts DEF Top, IInv, Static
    <3>7. f.node = Top.node /\ f.todo # "open"
      BY <3>4, <3>5, <3>6 DEF Frames
    <3>8. Stacked(stack) /\ Stacked(stack')
      BY <1>1, ShapeAgain DEF IInv, Shape
    <3>9. Swaps(stack, stack', f)
      <4>1. Swaps(stack, Append(Front(stack), f), f)
        BY <1>1, <3>8, SwapsAny
      <4>2. stack' = Append(Front(stack), f)
        BY <3>4, <3>5 DEF Now, Below
      <4> QED
        BY <4>1, <4>2
    <3>10. PICK m \in Nat \ {0} : m = Len(stack) /\ stack[m] = Top
      BY <1>1, TopFacts DEF IInv, Static, Top
    <3>11. Len(stack') = m /\ stack'[m] = f /\ \A i \in 1..(m - 1) : stack'[i] = stack[i]
      BY <3>9, <3>10 DEF Swaps
    <3>12. \A i \in 1..m : stack[i].node = stack'[i].node
      BY <3>7, <3>10, <3>11
    <3>13. TagNames(stack') = TagNames(stack)
      BY <3>8, <3>10, <3>11, <3>12, TagNamesSame
    <3>14. EnteredOf(stack') = stack'
      <4>1. Last(stack') = f
        BY <3>11 DEF Last
      <4> QED
        BY <3>7, <4>1 DEF EnteredOf
    <3> QED
      BY <1>10, <2>5, <2>6, <3>2, <3>3, <3>13, <3>14
  <2> QED
    BY <2>8, <2>9
<1> QED
  BY <1>4, <1>11, <1>12 DEF IsTreeNode

LEMMA OutputSame ==
  ASSUME Output, UNCHANGED << stack, out >>
  PROVE  Output'
BY DEF Output, EnteredOf, TagNames

LEMMA OutputStep ==
  ASSUME IInv, IInv', Output, [RenderStep]_page
  PROVE  Output'
<1>1. CASE RenderNode
  BY <1>1, RenderNodeOutput
<1>2. CASE RunQuery
  <2>1. PICK rows : stack' = Append(Below, [Top EXCEPT !.todo = "rows",
                                      !.table = tables + 1, !.rows = rows])
    BY <1>2 DEF RunQuery
  <2>2. stack # <<>> /\ Top.todo = "query" /\ UNCHANGED << call, out >>
    BY <1>2 DEF RunQuery, Running
  <2>3. PICK R : Top \in Frames(Nodes, R)
    BY <2>2, TopFacts DEF Top, IInv, Static
  <2>4. PICK f : f = [Top EXCEPT !.todo = "rows", !.table = tables + 1, !.rows = rows]
    OBVIOUS
  <2>5. f.node = Top.node /\ f.todo = "rows"
    BY <2>3, <2>4 DEF Frames
  <2> QED
    BY <2>1, <2>2, <2>4, <2>5, OutputSwap
<1>3. CASE QueryFails
  BY <1>3, OutputSame DEF QueryFails
<1>4. CASE BindRow
  <2>1. stack # <<>> /\ Top.todo = "rows" /\ UNCHANGED << call, out >>
    BY <1>4 DEF BindRow, Running
  <2>2. PICK R : Top \in Frames(Nodes, R)
    BY <2>1, TopFacts DEF Top, IInv, Static
  <2>3. PICK f : f = [Top EXCEPT !.row = NextRow, !.todo = "children", !.next = 1]
    OBVIOUS
  <2>4. f.node = Top.node /\ f.todo = "children"
    BY <2>2, <2>3 DEF Frames
  <2>5. stack' = Append(Below, f)
    BY <1>4, <2>3 DEF BindRow
  <2> QED
    BY <2>1, <2>4, <2>5, OutputSwap
<1>5. CASE FreeRows \/ EndChildren
  <2>1. PICK todo \in { "close", "rows" } : stack' = Now(todo)
    BY <1>5 DEF FreeRows, EndChildren
  <2>2. stack # <<>> /\ Top.todo # "open" /\ UNCHANGED << call, out >>
    BY <1>5 DEF FreeRows, EndChildren, Running
  <2>3. PICK R : Top \in Frames(Nodes, R)
    BY <2>2, TopFacts DEF Top, IInv, Static
  <2>4. PICK f : f = [Top EXCEPT !.todo = todo]
    OBVIOUS
  <2>5. f.node = Top.node /\ f.todo # "open"
    BY <2>3, <2>4 DEF Frames
  <2>6. stack' = Append(Below, f)
    BY <2>1, <2>4 DEF Now
  <2> QED
    BY <2>2, <2>5, <2>6, OutputSwap
<1>6. CASE RenderChild
  BY <1>6, RenderChildOutput
<1>7. CASE CloseElement
  BY <1>7, CloseElementOutput
<1>8. CASE BadRead
  BY <1>8, OutputSame DEF BadRead
<1>9. CASE Finish
  BY <1>9, OutputSame DEF Finish
<1>10. CASE UNCHANGED page
  BY <1>10, OutputSame DEF page
<1> QED
  BY <1>1, <1>2, <1>3, <1>4, <1>5, <1>6, <1>7, <1>8, <1>9, <1>10 DEF RenderStep

LEMMA BeginOutput ==
  ASSUME Begin
  PROVE  Output
<1>1. PICK g : g = Frame(template.root)
  OBVIOUS
<1>2. stack = << g >> /\ g.todo = "open" /\ out = <<>>
  BY <1>1 DEF Begin, Frame
<1>3. EnteredOf(stack) = <<>>
  <2>1. stack # <<>> /\ Last(stack) = g
    BY <1>2 DEF Last
  <2>2. Front(stack) = <<>>
    BY <1>2 DEF Front
  <2> QED
    BY <1>2, <2>1, <2>2 DEF EnteredOf
<1>4. TagNames(<<>>) = <<>>
  BY DEF TagNames
<1>5. out \in Seq({})
  BY <1>2
<1> QED
  BY <1>2, <1>3, <1>4, <1>5, TagsEmpty DEF Output

(* The tags nest: at every moment, and so at whatever point the call ends,  *)
(* the elements open in the output are those the recursion of               *)
(* muggin_render_node is inside of, outermost first (muggin.c:726-841): for *)
(* every template, whatever the queries return and whatever is read.        *)
THEOREM NestedCorrect == RenderSpec => []Nested
<1>1. Begin => Output
  BY BeginOutput
<1>2. IInv /\ IInv' /\ Output /\ [RenderStep]_page => Output'
  BY OutputStep
<1>3. Output => Nested
  BY NestedOutput
<1> QED
  BY <1>1, <1>2, <1>3, IInvHolds, PTL DEF RenderSpec

=============================================================================
