------------------------- MODULE PlmugginCall_proofs -------------------------
(* Theorems about one call of a template function: the parser comes to an   *)
(* end, its pools keep what they are given, the tree it makes is one that   *)
(* muggin_render can be called with, and so what is proved of a rendering   *)
(* holds of the call.                                                       *)
EXTENDS RenderScope, Render_proofs, FiniteSetTheorems

-----------------------------------------------------------------------------
(* Strings                                                                  *)

Chars == Seq(STRING)

LEMMA Cut ==
  ASSUME NEW s \in Chars, NEW n \in Nat
  PROVE  /\ P!Drop(s, n) \in Chars /\ P!Take(s, n) \in Chars
         /\ Len(P!Drop(s, n)) = IF n > Len(s) THEN 0 ELSE Len(s) - n
<1>1. P!Take(s, n) \in Chars
  <2>1. CASE n > Len(s)
    BY <2>1 DEF P!Take
  <2>2. CASE ~(n > Len(s))
    <3>1. P!Take(s, n) = SubSeq(s, 1, n)
      BY <2>2 DEF P!Take
    <3>2. \A i \in 1..n : s[i] \in STRING
      BY <2>2 DEF Chars
    <3>3. SubSeq(s, 1, n) \in Seq(STRING)
      BY <3>2, SubSeqProperties
    <3> QED
      BY <3>1, <3>3 DEF Chars
  <2> QED
    BY <2>1, <2>2
<1>2. CASE n > Len(s)
  <2>1. P!Drop(s, n) = <<>>
    BY <1>2 DEF P!Drop
  <2> QED
    BY <1>1, <1>2, <2>1 DEF Chars
<1>3. CASE ~(n > Len(s))
  <2>1. P!Drop(s, n) = SubSeq(s, n + 1, Len(s))
    BY <1>3 DEF P!Drop
  <2>2. Len(s) \in Nat /\ n <= Len(s) /\ \A i \in (n + 1)..Len(s) : s[i] \in STRING
    BY <1>3 DEF Chars
  <2>3. /\ SubSeq(s, n + 1, Len(s)) \in Seq(STRING)
        /\ Len(SubSeq(s, n + 1, Len(s))) =
             IF n + 1 <= Len(s) THEN Len(s) - (n + 1) + 1 ELSE 0
    BY <2>2, SubSeqProperties
  <2>4. Len(P!Drop(s, n)) = Len(s) - n
    BY <2>1, <2>2, <2>3
  <2> QED
    BY <1>1, <1>3, <2>1, <2>3, <2>4 DEF Chars
<1> QED
  BY <1>2, <1>3

LEMMA FirstAt ==
  ASSUME NEW S, NEW s \in Seq(S), NEW c
  PROVE  /\ P!IndexOf(s, c) \in 0..Len(s)
         /\ P!IndexOf(s, c) = 0 <=> \A i \in DOMAIN s : s[i] # c
         /\ P!IndexOf(s, c) # 0 => s[P!IndexOf(s, c)] = c
<1> DEFINE at == { i \in DOMAIN s : s[i] = c }
<1>1. CASE \E i \in DOMAIN s : s[i] = c
  <2>1. at # {} /\ at \subseteq Nat /\ at \subseteq 1..Len(s)
    BY <1>1
  <2> HIDE DEF at
  <2>2. PICK m \in at : \A k \in at : m <= k
    BY <2>1, LeastNatural
  <2> USE DEF at
  <2>3. m \in DOMAIN s /\ s[m] = c /\ \A j \in 1..(m - 1) : ~(s[j] = c)
    <3> SUFFICES ASSUME NEW j \in 1..(m - 1), s[j] = c PROVE FALSE
      BY <2>2
    <3>1. m \in 1..Len(s) /\ j \in 1..Len(s) /\ j < m
      BY <2>1, <2>2
    <3>2. DOMAIN s = 1..Len(s)
      OBVIOUS
    <3> QED
      BY <2>2, <3>1, <3>2
  <2> HIDE DEF at
  <2>4. P!IndexOf(s, c) = CHOOSE i \in DOMAIN s : s[i] = c /\ \A j \in 1..(i - 1) : ~(s[j] = c)
    BY <1>1, Zenon DEF P!IndexOf, P!FirstOf
  <2>5. P!IndexOf(s, c) \in DOMAIN s /\ s[P!IndexOf(s, c)] = c
    BY <2>3, <2>4, Zenon
  <2>6. DOMAIN s = 1..Len(s) /\ Len(s) \in Nat
    OBVIOUS
  <2>7. P!IndexOf(s, c) # 0
    BY <2>5, <2>6
  <2> QED
    BY <1>1, <2>5, <2>6, <2>7
<1>2. CASE ~\E i \in DOMAIN s : s[i] = c
  <2>1. P!IndexOf(s, c) = 0
    BY <1>2, Zenon DEF P!IndexOf, P!FirstOf
  <2>2. Len(s) \in Nat
    OBVIOUS
  <2> QED
    BY <1>2, <2>1, <2>2
<1> QED
  BY <1>1, <1>2

LEMMA Split ==
  ASSUME NEW s \in Chars, NEW c
  PROVE  /\ P!SplitAt(s, c).split \in Chars /\ P!SplitAt(s, c).rest \in Chars
         /\ Len(P!SplitAt(s, c).rest) <= Len(s)
         /\ s # <<>> => Len(P!SplitAt(s, c).rest) < Len(s)
<1>1. PICK i \in 0..Len(s) : i = P!IndexOf(s, c)
  BY FirstAt DEF Chars
<1>2. Len(s) \in Nat /\ (s # <<>> => Len(s) > 0) /\ <<>> \in Chars /\ Len(<<>>) = 0
  BY DEF Chars
<1>3. CASE i = 0
  <2>1. P!SplitAt(s, c) = [split |-> s, rest |-> <<>>]
    BY <1>1, <1>3, Zenon DEF P!SplitAt
  <2> QED
    BY <1>2, <2>1
<1>4. CASE i # 0
  <2>1. P!SplitAt(s, c) = [split |-> P!Take(s, i - 1), rest |-> P!Drop(s, i)]
    BY <1>1, <1>4, Zenon DEF P!SplitAt
  <2>2. i \in Nat /\ i - 1 \in Nat /\ ~(i > Len(s)) /\ i > 0
    BY <1>2, <1>4
  <2>3. /\ P!Take(s, i - 1) \in Chars /\ P!Drop(s, i) \in Chars
        /\ Len(P!Drop(s, i)) = Len(s) - i
    BY <2>2, Cut
  <2>4. Len(s) - i < Len(s)
    BY <1>2, <2>2
  <2> QED
    BY <1>2, <2>1, <2>3, <2>4
<1> QED
  BY <1>3, <1>4

(* The first character of some kind                                         *)
LEMMA FirstInSet ==
  ASSUME NEW s \in Chars, NEW T, T \subseteq DOMAIN s, T # {}
  PROVE  \E i \in DOMAIN s : i \in T /\ \A j \in 1..(i - 1) : j \notin T
<1>1. DOMAIN s = 1..Len(s) /\ Len(s) \in Nat
  BY DEF Chars
<1>2. T \subseteq Nat
  BY <1>1
<1>3. PICK m \in T : \A k \in T : m <= k
  BY <1>2, LeastNatural
<1>4. m \in Nat /\ \A j \in 1..(m - 1) : ~(m <= j)
  BY <1>2
<1> QED
  BY <1>3, <1>4

LEMMA LTrimmed ==
  ASSUME NEW s \in Chars
  PROVE  P!LTrim(s) \in Chars /\ Len(P!LTrim(s)) <= Len(s)
<1>1. Len(s) \in Nat /\ <<>> \in Chars /\ Len(<<>>) = 0
  BY DEF Chars
<1>2. CASE \E i \in DOMAIN s : P!IsInk(s[i])
  <2> DEFINE at == { i \in DOMAIN s : P!IsInk(s[i]) }
  <2>1. \E i \in DOMAIN s : i \in at /\ \A j \in 1..(i - 1) : j \notin at
    <3>1. at \subseteq DOMAIN s /\ at # {}
      BY <1>2
    <3> HIDE DEF at
    <3> QED
      BY <3>1, FirstInSet
  <2>2. \A i \in DOMAIN s : \A j \in 1..(i - 1) : j \in DOMAIN s
    BY DEF Chars
  <2>3. \E i \in DOMAIN s : P!IsInk(s[i]) /\ \A j \in 1..(i - 1) : ~P!IsInk(s[j])
    BY <2>1, <2>2, Zenon
  <2>4. P!FirstOf(s, P!IsInk) =
          CHOOSE i \in DOMAIN s : P!IsInk(s[i]) /\ \A j \in 1..(i - 1) : ~P!IsInk(s[j])
    BY <1>2, Zenon DEF P!FirstOf
  <2>5. PICK i \in DOMAIN s : i = P!FirstOf(s, P!IsInk)
    BY <2>3, <2>4, Zenon
  <2>6. i \in 1..Len(s)
    BY DEF Chars
  <2>7. P!LTrim(s) = P!Drop(s, i - 1)
    <3>1. i # 0
      BY <2>6
    <3> QED
      BY <2>5, <3>1, Zenon DEF P!LTrim
  <2>8. i - 1 \in Nat /\ ~(i - 1 > Len(s)) /\ Len(s) - (i - 1) <= Len(s)
    BY <1>1, <2>6
  <2> QED
    BY <2>7, <2>8, Cut
<1>3. CASE ~\E i \in DOMAIN s : P!IsInk(s[i])
  <2>1. P!FirstOf(s, P!IsInk) = 0
    BY <1>3, Zenon DEF P!FirstOf
  <2>2. P!LTrim(s) = <<>>
    BY <2>1, Zenon DEF P!LTrim
  <2> QED
    BY <1>1, <2>2
<1> QED
  BY <1>2, <1>3

(* What is taken from the front is no longer.                               *)
LEMMA TakeLength ==
  ASSUME NEW s \in Chars, NEW n \in Nat
  PROVE  /\ Len(P!Take(s, n)) <= Len(s)
         /\ n <= Len(s) => Len(P!Take(s, n)) = n
<1>1. Len(s) \in Nat
  BY DEF Chars
<1>2. CASE n > Len(s)
  <2>1. P!Take(s, n) = s
    BY <1>2 DEF P!Take
  <2> QED
    BY <1>1, <1>2, <2>1
<1>3. CASE ~(n > Len(s))
  <2>1. P!Take(s, n) = SubSeq(s, 1, n)
    BY <1>3 DEF P!Take
  <2>2. \A i \in 1..n : s[i] \in STRING
    BY <1>3 DEF Chars
  <2>3. Len(SubSeq(s, 1, n)) = IF 1 <= n THEN n - 1 + 1 ELSE 0
    BY <2>2, SubSeqProperties
  <2> QED
    BY <1>1, <1>3, <2>1, <2>3
<1> QED
  BY <1>2, <1>3

LEMMA RTrimmed ==
  ASSUME NEW s \in Chars
  PROVE  P!RTrim(s) \in Chars /\ Len(P!RTrim(s)) <= Len(s)
<1> DEFINE ink == { i \in DOMAIN s : P!IsInk(s[i]) }
<1>1. Len(s) \in Nat /\ <<>> \in Chars /\ Len(<<>>) = 0 /\ DOMAIN s = 1..Len(s)
  BY DEF Chars
<1>2. CASE ink = {}
  <2>1. P!RTrim(s) = <<>>
    BY <1>2, Zenon DEF P!RTrim
  <2> QED
    BY <1>1, <2>1
<1>3. CASE ink # {}
  <2>1. P!RTrim(s) = P!Take(s, Max(ink))
    BY <1>3, Zenon DEF P!RTrim, P!Max, Max
  <2>2. ink \subseteq 1..Len(s)
    BY <1>1
  <2> HIDE DEF ink
  <2>3. Max(ink) \in ink
    BY <1>1, <1>3, <2>2, MaxOfPositions
  <2>4. PICK m \in ink : m = Max(ink)
    BY <2>3, Zenon
  <2>5. m \in Nat
    BY <2>2
  <2> QED
    BY <2>1, <2>4, <2>5, Cut, TakeLength
<1> QED
  BY <1>2, <1>3

LEMMA Trimmed ==
  ASSUME NEW s \in Chars
  PROVE  P!Trim(s) \in Chars /\ Len(P!Trim(s)) <= Len(s)
<1>1. PICK r \in Chars : r = P!RTrim(s) /\ Len(r) <= Len(s)
  BY RTrimmed
<1>2. PICK l \in Chars : l = P!LTrim(r) /\ Len(l) <= Len(r)
  BY LTrimmed
<1>3. P!Trim(s) = l
  BY <1>1, <1>2 DEF P!Trim
<1>4. Len(s) \in Nat /\ Len(r) \in Nat /\ Len(l) \in Nat
  BY DEF Chars
<1>5. Len(l) <= Len(s)
  BY <1>1, <1>2, <1>4
<1> QED
  BY <1>3, <1>5

LEMMA MarginPart ==
  ASSUME NEW s \in Chars
  PROVE  P!Margin(s) \in Chars /\ Len(P!Margin(s)) <= Len(s)
<1>1. Len(s) \in Nat
  BY DEF Chars
<1>2. CASE \E i \in DOMAIN s : s[i] \notin { " ", "tab" }
  <2> DEFINE at == { i \in DOMAIN s : s[i] \notin { " ", "tab" } }
             i == P!FirstOf(s, LAMBDA c : c \notin { " ", "tab" })
  <2>1. \E k \in DOMAIN s : k \in at /\ \A j \in 1..(k - 1) : j \notin at
    <3>1. at \subseteq DOMAIN s /\ at # {}
      BY <1>2
    <3> HIDE DEF at
    <3> QED
      BY <3>1, FirstInSet
  <2>2. \A k \in DOMAIN s : \A j \in 1..(k - 1) : j \in DOMAIN s
    BY DEF Chars
  <2>3. \E k \in DOMAIN s : s[k] \notin { " ", "tab" }
                           /\ \A j \in 1..(k - 1) : ~(s[j] \notin { " ", "tab" })
    BY <2>1, <2>2, Zenon
  <2>4. i = CHOOSE k \in DOMAIN s : s[k] \notin { " ", "tab" }
                           /\ \A j \in 1..(k - 1) : ~(s[j] \notin { " ", "tab" })
    BY <1>2, Zenon DEF P!FirstOf
  <2>5. i \in DOMAIN s
    BY <2>3, <2>4, Zenon
  <2>6. P!Margin(s) = IF i = 0 THEN s ELSE P!Take(s, i - 1)
    BY Zenon DEF P!Margin
  <2> HIDE DEF i
  <2>7. i \in 1..Len(s) /\ i # 0 /\ i - 1 \in Nat
    <3>1. DOMAIN s = 1..Len(s)
      BY DEF Chars
    <3> QED
      BY <2>5, <3>1
  <2> QED
    BY <2>6, <2>7, Cut, TakeLength
<1>3. CASE ~\E i \in DOMAIN s : s[i] \notin { " ", "tab" }
  <2>1. P!FirstOf(s, LAMBDA c : c \notin { " ", "tab" }) = 0
    BY <1>3, Zenon DEF P!FirstOf
  <2>2. P!Margin(s) = s
    BY <2>1, Zenon DEF P!Margin
  <2> QED
    BY <1>1, <2>2
<1> QED
  BY <1>2, <1>3

LEMMA RawParts ==
  ASSUME NEW s \in Chars, P!RawStop(s) # 0
  PROVE  /\ P!RawValue(s).split \in Chars /\ P!RawValue(s).rest \in Chars
         /\ Len(P!RawValue(s).rest) <= Len(s)
<1> DEFINE i == P!RawStop(s)
<1>1. Len(s) \in Nat /\ DOMAIN s = 1..Len(s)
  BY DEF Chars
<1>2. i = P!FirstOf(s, LAMBDA c : c \in { ")" } \cup P!Blank)
  BY Zenon DEF P!RawStop
<1>3. \E k \in DOMAIN s : s[k] \in { ")" } \cup P!Blank
  <2> SUFFICES ASSUME ~\E k \in DOMAIN s : s[k] \in { ")" } \cup P!Blank PROVE FALSE
    OBVIOUS
  <2>1. i = 0
    BY <1>2, Zenon DEF P!FirstOf
  <2> QED
    BY <2>1
<1>4. \E k \in DOMAIN s : s[k] \in { ")" } \cup P!Blank
                         /\ \A j \in 1..(k - 1) : ~(s[j] \in { ")" } \cup P!Blank)
  <2> DEFINE at == { k \in DOMAIN s : s[k] \in { ")" } \cup P!Blank }
  <2>1. \E k \in DOMAIN s : k \in at /\ \A j \in 1..(k - 1) : j \notin at
    <3>1. at \subseteq DOMAIN s /\ at # {}
      BY <1>3
    <3> HIDE DEF at
    <3> QED
      BY <3>1, FirstInSet
  <2>2. \A k \in DOMAIN s : \A j \in 1..(k - 1) : j \in DOMAIN s
    BY <1>1
  <2> QED
    BY <2>1, <2>2, Zenon
<1>5. i = CHOOSE k \in DOMAIN s : s[k] \in { ")" } \cup P!Blank
                         /\ \A j \in 1..(k - 1) : ~(s[j] \in { ")" } \cup P!Blank)
  BY <1>2, <1>3, Zenon DEF P!FirstOf
<1>6. i \in DOMAIN s
  BY <1>4, <1>5, Zenon
<1>7. P!RawValue(s) = [split |-> P!Take(s, i - 1),
                       rest |-> P!Drop(s, IF s[i] = ")" THEN i - 1 ELSE i)]
  BY Zenon DEF P!RawValue
<1> HIDE DEF i
<1>8. PICK n \in Nat : n = (IF s[i] = ")" THEN i - 1 ELSE i) /\ n <= Len(s)
  BY <1>1, <1>6
<1>9. i - 1 \in Nat
  BY <1>1, <1>6
<1>10. P!Take(s, i - 1) \in Chars
  BY <1>9, Cut
<1>11. P!Drop(s, n) \in Chars /\ Len(P!Drop(s, n)) <= Len(s)
  <2>1. P!Drop(s, n) \in Chars /\ Len(P!Drop(s, n)) = IF n > Len(s) THEN 0 ELSE Len(s) - n
    BY Cut
  <2> QED
    BY <1>1, <1>8, <2>1
<1>12. P!RawValue(s) = [split |-> P!Take(s, i - 1), rest |-> P!Drop(s, n)]
  BY <1>7, <1>8, Zenon
<1> QED
  BY <1>10, <1>11, <1>12

-----------------------------------------------------------------------------
(* The string pools.  A pool of N slots that nothing is wrong with: the     *)
(* numbers are those of the slots that are not free, each of one, and no    *)
(* string is there twice.                                                   *)

Tables0(N) == [slots : [0..(N - 1) -> Chars], idxs : Seq(Nat)]

Numbered(pool, p) == \E i \in DOMAIN pool.idxs : pool.idxs[i] = p

Sound(pool, N) ==
  /\ pool \in Tables0(N)
  /\ \A i \in DOMAIN pool.idxs : pool.idxs[i] \in 0..(N - 1)
  /\ \A i, j \in DOMAIN pool.idxs : pool.idxs[i] = pool.idxs[j] => i = j
  /\ \A p \in 0..(N - 1) : pool.slots[p] # <<>> <=> Numbered(pool, p)
  /\ \A p, q \in 0..(N - 1) :
       pool.slots[p] # <<>> /\ pool.slots[p] = pool.slots[q] => p = q

Pools == { pool \in UNION { Tables0(N) : N \in Nat } :
             \E N \in Nat : N >= 2 /\ Sound(pool, N) }

(* Numbers keep their strings.                                              *)
Keeps(pool, new) ==
  /\ Len(pool.idxs) <= Len(new.idxs)
  /\ \A i \in 1..Len(pool.idxs) : P!Entry(new, i) = P!Entry(pool, i)

Hashes == \A s \in Chars : Hash(s) \in Nat

LEMMA Remainder ==
  ASSUME NEW N \in Nat, N >= 1, NEW h \in Nat
  PROVE  /\ h % N \in 0..(N - 1) /\ h \div N \in Nat
         /\ h = N * (h \div N) + (h % N)
  OBVIOUS

LEMMA RemainderOf ==
  ASSUME NEW N \in Nat, N >= 1, NEW q \in Nat, NEW p \in 0..(N - 1)
  PROVE  (N * q + p) % N = p
  OBVIOUS

(* The probes of a string come to every slot.                               *)
LEMMA EverySlot ==
  ASSUME NEW N \in Nat, N >= 1, NEW h \in Nat, NEW p \in 0..(N - 1)
  PROVE  \E k \in 0..(N - 1) : (h + k) % N = p
<1>1. PICK q \in Nat, r \in 0..(N - 1) : h = N * q + r
  BY Remainder
<1>2. CASE p >= r
  <2>1. p - r \in 0..(N - 1) /\ h + (p - r) = N * q + p
    BY <1>1, <1>2
  <2> QED
    BY <2>1, RemainderOf
<1>3. CASE p < r
  <2>1. p - r + N \in 0..(N - 1)
    BY <1>1, <1>3
  <2>2. h + (p - r + N) = N * (q + 1) + p
    BY <1>1, <1>3
  <2>3. q + 1 \in Nat
    OBVIOUS
  <2>4. (h + (p - r + N)) % N = p
    BY ONLY <2>2, <2>3, RemainderOf, N \in Nat, N >= 1
  <2> QED
    BY <2>1, <2>4
<1> QED
  BY <1>2, <1>3

LEMMA SizeOf ==
  ASSUME NEW N \in Nat, NEW pool \in Tables0(N)
  PROVE  P!Size(pool) = N
<1>1. DOMAIN pool.slots = 0..(N - 1)
  BY DEF Tables0
<1>2. Cardinality(0..(N - 1)) = N
  <2>1. Cardinality(0..(N - 1)) = IF 0 > N - 1 THEN 0 ELSE (N - 1) - 0 + 1
    BY FS_Interval
  <2> QED
    BY <2>1
<1>3. P!Size(pool) = Cardinality(DOMAIN pool.slots)
  BY Zenon DEF P!Size, P!Cardinality, Cardinality
<1> QED
  BY <1>1, <1>2, <1>3

LEMMA Probed ==
  ASSUME Hashes, NEW N \in Nat, N >= 1, NEW pool \in Tables0(N), NEW s \in Chars,
         NEW strings
  PROVE  LET p == P!FirstProbe(pool, s, strings) IN
         \/ p \in 0..(N - 1) /\ pool.slots[p] \in strings
         \/ p = N /\ \A q \in 0..(N - 1) : pool.slots[q] \notin strings
<1> DEFINE hits == { k \in 0..(N - 1) : pool.slots[(Hash(s) + k) % N] \in strings }
<1>1. P!Size(pool) = N
  BY SizeOf
<1>2. PICK h \in Nat : h = Hash(s)
  BY DEF Hashes
<1>3. \A k : P!Probe(pool, s, k) = (Hash(s) + k) % N
  BY <1>1, Zenon DEF P!Probe
<1>4. P!FirstProbe(pool, s, strings) =
        IF hits = {} THEN N ELSE (Hash(s) + Min(hits)) % N
  <2> DEFINE raw == { k \in 0..(P!Size(pool) - 1) :
                        pool.slots[P!Probe(pool, s, k)] \in strings }
  <2>1. P!FirstProbe(pool, s, strings) =
          IF raw = {} THEN P!Size(pool) ELSE P!Probe(pool, s, Min(raw))
    BY Zenon DEF P!FirstProbe, P!Min, Min
  <2>2. raw = hits
    BY <1>1, <1>3
  <2> HIDE DEF raw, hits
  <2> QED
    BY <1>1, <1>3, <2>1, <2>2
<1>5. CASE hits = {}
  <2>1. ASSUME NEW q \in 0..(N - 1) PROVE pool.slots[q] \notin strings
    <3>1. PICK k \in 0..(N - 1) : (h + k) % N = q
      BY EverySlot
    <3>2. k \notin hits
      BY <1>5
    <3> QED
      BY <1>2, <3>1, <3>2
  <2> HIDE DEF hits
  <2> QED
    BY <1>4, <1>5, <2>1
<1>6. CASE hits # {}
  <2>1. hits \subseteq 0..(N - 1) /\ hits \subseteq Nat
    OBVIOUS
  <2> HIDE DEF hits
  <2>2. \E k \in hits : \A j \in hits : k <= j
    BY <1>6, <2>1, LeastNatural
  <2>3. Min(hits) \in hits
    BY <2>2, Zenon DEF Min
  <2>4. PICK k \in hits : k = Min(hits)
    BY <2>3, Zenon
  <2>5. (h + k) % N \in 0..(N - 1)
    <3>1. h + k \in Nat
      BY <2>1
    <3> QED
      BY <3>1, Remainder
  <2>6. P!FirstProbe(pool, s, strings) = (h + k) % N
    BY <1>2, <1>4, <1>6, <2>4, Zenon
  <2>7. pool.slots[(h + k) % N] \in strings
    BY <1>2 DEF hits
  <2> QED
    BY <2>5, <2>6, <2>7, Zenon
<1> QED
  BY <1>5, <1>6

LEMMA Found ==
  ASSUME Hashes, NEW N \in Nat, N >= 2, NEW pool, Sound(pool, N), NEW s \in Chars
  PROVE  /\ P!Lookup(pool, s) \in 0..Len(pool.idxs)
         /\ P!Lookup(pool, s) # 0 => P!Entry(pool, P!Lookup(pool, s)) = s
         /\ s # <<>> /\ P!Lookup(pool, s) = 0 =>
              \A q \in 0..(N - 1) : pool.slots[q] # s
<1>1. pool \in Tables0(N) /\ pool.idxs \in Seq(Nat) /\ Len(pool.idxs) \in Nat
  BY DEF Sound, Tables0
<1>2. P!Size(pool) = N
  BY <1>1, SizeOf
<1>3. PICK p : p = P!FirstProbe(pool, s, { s })
  OBVIOUS
<1>4. \/ p \in 0..(N - 1) /\ pool.slots[p] \in { s }
      \/ p = N /\ \A q \in 0..(N - 1) : pool.slots[q] \notin { s }
  BY <1>1, <1>3, Probed
<1>5. P!Lookup(pool, s) = IF p = N THEN 0 ELSE P!IndexOf(pool.idxs, p)
  BY <1>2, <1>3, Zenon DEF P!Lookup
<1>6. CASE p = N
  <2>1. \A q \in 0..(N - 1) : pool.slots[q] # s
    BY <1>4, <1>6
  <2> QED
    BY <1>1, <1>5, <1>6, <2>1
<1>7. CASE p \in 0..(N - 1) /\ pool.slots[p] = s
  <2>1. PICK i : i = P!IndexOf(pool.idxs, p)
    OBVIOUS
  <2>2. /\ i \in 0..Len(pool.idxs)
        /\ i = 0 <=> \A j \in DOMAIN pool.idxs : pool.idxs[j] # p
        /\ i # 0 => pool.idxs[i] = p
    BY <1>1, <2>1, FirstAt
  <2>3. P!Lookup(pool, s) = i
    BY <1>5, <1>7, <2>1
  <2>4. i # 0 => P!Entry(pool, i) = s
    BY <1>7, <2>2 DEF P!Entry
  <2>5. s # <<>> => i # 0
    BY <1>7, <2>2 DEF Sound, Numbered
  <2> QED
    BY <2>2, <2>3, <2>4, <2>5
<1> QED
  BY <1>4, <1>6, <1>7

(* There is a free slot as long as there are fewer numbers than slots.      *)
LEMMA FreeSlot ==
  ASSUME NEW N \in Nat, NEW pool, Sound(pool, N), Len(pool.idxs) < N
  PROVE  \E p \in 0..(N - 1) : pool.slots[p] = <<>>
<1> SUFFICES ASSUME \A p \in 0..(N - 1) : pool.slots[p] # <<>> PROVE FALSE
  OBVIOUS
<1>1. PICK L \in Nat : L = Len(pool.idxs) /\ DOMAIN pool.idxs = 1..L
  BY DEF Sound, Tables0
<1> DEFINE f == [i \in 1..L |-> pool.idxs[i]]
<1>2. f \in Surjection(1..L, 0..(N - 1))
  <2>1. f \in [1..L -> 0..(N - 1)]
    BY <1>1 DEF Sound
  <2>2. \A p \in 0..(N - 1) : \E i \in 1..L : f[i] = p
    BY <1>1 DEF Sound, Numbered
  <2> HIDE DEF f
  <2> QED
    BY <2>1, <2>2 DEF Surjection
<1>3. Cardinality(0..(N - 1)) <= L
  <2> HIDE DEF f
  <2>1. ExistsSurjection(1..L, 0..(N - 1))
    BY <1>2, Zenon DEF ExistsSurjection
  <2> QED
    BY <2>1, FS_SurjCardinalityBound
<1>4. Cardinality(0..(N - 1)) = IF 0 > N - 1 THEN 0 ELSE (N - 1) - 0 + 1
  BY FS_Interval
<1> QED
  BY <1>1, <1>3, <1>4

(* There are never more numbers than slots.                                 *)
LEMMA NoMoreNumbers ==
  ASSUME NEW N \in Nat, NEW pool, Sound(pool, N)
  PROVE  Len(pool.idxs) <= N
<1>1. PICK L \in Nat : L = Len(pool.idxs) /\ DOMAIN pool.idxs = 1..L
  BY DEF Sound, Tables0
<1> DEFINE f == [i \in 1..L |-> pool.idxs[i]]
<1>2. f \in Injection(1..L, 0..(N - 1))
  <2>1. f \in [1..L -> 0..(N - 1)]
    BY <1>1 DEF Sound
  <2>2. \A i, j \in 1..L : f[i] = f[j] => i = j
    BY <1>1 DEF Sound
  <2> HIDE DEF f
  <2> QED
    BY <2>1, <2>2 DEF Injection, IsInjective
<1>3. Cardinality(1..L) <= Cardinality(0..(N - 1))
  <2> HIDE DEF f
  <2>1. IsFiniteSet(0..(N - 1))
    BY FS_Interval
  <2> QED
    BY <1>2, <2>1, FS_Injection
<1>4. Cardinality(0..(N - 1)) = IF 0 > N - 1 THEN 0 ELSE (N - 1) - 0 + 1
  BY FS_Interval
<1>5. Cardinality(1..L) = IF 1 > L THEN 0 ELSE L - 1 + 1
  BY FS_Interval
<1> QED
  BY <1>1, <1>3, <1>4, <1>5

LEMMA Inserted ==
  ASSUME Hashes, NEW N \in Nat, N >= 2, NEW pool, Sound(pool, N),
         NEW s \in Chars, s # <<>>, \A q \in 0..(N - 1) : pool.slots[q] # s,
         Len(pool.idxs) < N
  PROVE  /\ Sound(P!Insert(pool, s), N)
         /\ Len(P!Insert(pool, s).idxs) = Len(pool.idxs) + 1
         /\ Keeps(pool, P!Insert(pool, s))
         /\ P!Entry(P!Insert(pool, s), Len(pool.idxs) + 1) = s
<1>1. pool \in Tables0(N)
  BY DEF Sound
<1>2. PICK L \in Nat : L = Len(pool.idxs) /\ DOMAIN pool.idxs = 1..L
  BY <1>1 DEF Tables0
<1>3. PICK p : p = P!FirstProbe(pool, s, { <<>> })
  OBVIOUS
<1>4. p \in 0..(N - 1) /\ pool.slots[p] = <<>>
  <2>1. \/ p \in 0..(N - 1) /\ pool.slots[p] \in { <<>> }
        \/ p = N /\ \A q \in 0..(N - 1) : pool.slots[q] \notin { <<>> }
    BY <1>1, <1>3, Probed
  <2>2. \E q \in 0..(N - 1) : pool.slots[q] = <<>>
    BY FreeSlot
  <2> QED
    BY <2>1, <2>2
<1> DEFINE new == P!Insert(pool, s)
<1>5. new = [slots |-> [pool.slots EXCEPT ![p] = s], idxs |-> Append(pool.idxs, p)]
  BY <1>3, Zenon DEF P!Insert
<1>6. /\ new \in Tables0(N) /\ DOMAIN new.idxs = 1..(L + 1) /\ Len(new.idxs) = L + 1
      /\ new.idxs[L + 1] = p /\ \A i \in 1..L : new.idxs[i] = pool.idxs[i]
  <2>1. pool.slots \in [0..(N - 1) -> Chars] /\ pool.idxs \in Seq(Nat)
    BY <1>1 DEF Tables0
  <2>2. [pool.slots EXCEPT ![p] = s] \in [0..(N - 1) -> Chars]
    BY <2>1
  <2>3. Append(pool.idxs, p) \in Seq(Nat)
    BY <1>4, <2>1
  <2> QED
    BY <1>2, <1>5, <2>1, <2>2, <2>3 DEF Tables0
<1>7. /\ new.slots[p] = s
      /\ \A q \in 0..(N - 1) : q # p => new.slots[q] = pool.slots[q]
  BY <1>1, <1>4, <1>5 DEF Tables0
<1>8. \A i \in 1..L : pool.idxs[i] \in 0..(N - 1) /\ pool.idxs[i] # p
  BY <1>2, <1>4 DEF Sound, Numbered
<1> HIDE DEF new
<1>9. \A i \in 1..(L + 1) : i \in 1..L \/ i = L + 1
  OBVIOUS
<1>10. Sound(new, N)
  <2>1. \A i \in DOMAIN new.idxs : new.idxs[i] \in 0..(N - 1)
    BY <1>4, <1>6, <1>8, <1>9
  <2>2. ASSUME NEW i \in DOMAIN new.idxs, NEW j \in DOMAIN new.idxs,
               new.idxs[i] = new.idxs[j]
        PROVE  i = j
    <3>1. \A k, l \in 1..L : pool.idxs[k] = pool.idxs[l] => k = l
      BY <1>2 DEF Sound
    <3> QED
      BY <1>6, <1>8, <1>9, <2>2, <3>1
  <2>3. ASSUME NEW q \in 0..(N - 1)
        PROVE  new.slots[q] # <<>> <=> Numbered(new, q)
    <3>1. CASE q = p
      <4>1. L + 1 \in 1..(L + 1)
        OBVIOUS
      <4> QED
        BY <1>6, <1>7, <3>1, <4>1 DEF Numbered
    <3>2. CASE q # p
      <4>1. new.slots[q] # <<>> <=> \E i \in 1..L : pool.idxs[i] = q
        BY <1>2, <1>7, <3>2 DEF Sound, Numbered
      <4>2. Numbered(new, q) <=> \E i \in 1..L : pool.idxs[i] = q
        <5>1. ASSUME NEW i \in 1..(L + 1), new.idxs[i] = q
              PROVE  i \in 1..L /\ pool.idxs[i] = q
          BY <1>6, <1>9, <3>2, <5>1
        <5>2. ASSUME NEW i \in 1..L, pool.idxs[i] = q
              PROVE  i \in 1..(L + 1) /\ new.idxs[i] = q
          BY <1>6, <5>2
        <5> QED
          BY <1>6, <5>1, <5>2, Zenon DEF Numbered
      <4> QED
        BY <4>1, <4>2
    <3> QED
      BY <3>1, <3>2
  <2>4. ASSUME NEW q \in 0..(N - 1), NEW r \in 0..(N - 1),
               new.slots[q] # <<>>, new.slots[q] = new.slots[r]
        PROVE  q = r
    BY <1>7, <2>4 DEF Sound
  <2> QED
    BY <1>6, <2>1, <2>2, <2>3, <2>4 DEF Sound
<1>11. ASSUME NEW i \in 1..L PROVE P!Entry(new, i) = P!Entry(pool, i)
  BY <1>6, <1>7, <1>8 DEF P!Entry
<1>12. P!Entry(new, L + 1) = s
  BY <1>6, <1>7 DEF P!Entry
<1>13. Keeps(pool, new)
  BY <1>2, <1>6, <1>11 DEF Keeps
<1> QED
  BY <1>2, <1>6, <1>10, <1>12, <1>13 DEF new

LEMMA InsertType ==
  ASSUME Hashes, NEW N \in Nat, N >= 1, NEW pool \in Tables0(N), NEW s \in Chars
  PROVE  P!Insert(pool, s) \in Tables0(N)
<1>1. PICK p \in Nat : p = P!FirstProbe(pool, s, { <<>> })
  BY Probed
<1>2. P!Insert(pool, s) =
        [slots |-> [pool.slots EXCEPT ![p] = s], idxs |-> Append(pool.idxs, p)]
  BY <1>1, Zenon DEF P!Insert
<1>3. pool.slots \in [0..(N - 1) -> Chars] /\ pool.idxs \in Seq(Nat)
  BY DEF Tables0
<1>4. [pool.slots EXCEPT ![p] = s] \in [0..(N - 1) -> Chars]
  BY <1>3
<1>5. Append(pool.idxs, p) \in Seq(Nat)
  BY <1>3
<1> QED
  BY <1>2, <1>4, <1>5 DEF Tables0

(* The string of a number                                                   *)
LEMMA EntryType ==
  ASSUME NEW N \in Nat, NEW pool, Sound(pool, N), NEW i \in 1..Len(pool.idxs)
  PROVE  P!Entry(pool, i) \in Chars /\ P!Entry(pool, i) # <<>>
<1>1. i \in DOMAIN pool.idxs
  BY DEF Sound, Tables0
<1>2. PICK p \in 0..(N - 1) : p = pool.idxs[i]
  BY <1>1 DEF Sound
<1>3. pool.slots[p] \in Chars /\ pool.slots[p] # <<>>
  BY <1>1, <1>2 DEF Sound, Tables0, Numbered
<1> QED
  BY <1>2, <1>3 DEF P!Entry

LEMMA EmptyPool ==
  ASSUME NEW N \in Nat
  PROVE  Sound(P!NewPool(N), N) /\ Len(P!NewPool(N).idxs) = 0
<1>1. P!NewPool(N) = [slots |-> [p \in 0..(N - 1) |-> <<>>], idxs |-> <<>>]
  BY DEF P!NewPool
<1>2. <<>> \in Chars /\ <<>> \in Seq(Nat)
  BY DEF Chars
<1> QED
  BY <1>1, <1>2 DEF Sound, Tables0, Numbered

(* Growing a pool gives room, and every string its number.                  *)
LEMMA GrownPool ==
  ASSUME Hashes, NEW N \in Nat, N >= 2, NEW pool, Sound(pool, N)
  PROVE  \E M \in Nat : /\ M >= 2 /\ Sound(P!Grown(pool), M)
                        /\ Len(P!Grown(pool).idxs) = Len(pool.idxs)
                        /\ Len(pool.idxs) < M
                        /\ Keeps(pool, P!Grown(pool))
<1> DEFINE L == Len(pool.idxs)
           M == (P!Size(pool) * 1618) \div 1000
           Solves(up) ==
             up = [n \in 0..L |-> IF n = 0 THEN P!NewPool(M)
                                  ELSE P!Insert(up[n - 1], P!Entry(pool, n))]
           moved == CHOOSE up : Solves(up)
           F == [n \in 1..L |-> [v \in Tables0(M) |-> P!Insert(v, P!Entry(pool, n))]]
<1>1. L \in Nat /\ DOMAIN pool.idxs = 1..L
  BY DEF Sound, Tables0
<1>2. M \in Nat /\ M > N /\ M > L /\ M >= 2
  <2>1. P!Size(pool) = N
    BY SizeOf DEF Sound
  <2>2. L <= N
    BY NoMoreNumbers
  <2> QED
    BY <1>1, <2>1, <2>2
<1>3. P!Grown(pool) = moved[L]
  BY Zenon DEF P!Grown
<1>4. Sound(P!NewPool(M), M) /\ Len(P!NewPool(M).idxs) = 0
  <2> HIDE DEF M
  <2> QED
    BY <1>2, EmptyPool
<1> HIDE DEF M, L
<1>5. \A n \in 1..L : P!Entry(pool, n) \in Chars /\ P!Entry(pool, n) # <<>>
  BY EntryType DEF L
<1>6. ASSUME NEW n \in 1..L, NEW v \in Tables0(M)
      PROVE  P!Insert(v, P!Entry(pool, n)) \in Tables0(M)
  BY <1>2, <1>5, InsertType
<1>7. PICK up : Recurs(up, Tables0(M), P!NewPool(M), F, L)
  <2>1. \A n \in 1..L, v \in Tables0(M) : F[n][v] \in Tables0(M)
    BY <1>6
  <2>2. P!NewPool(M) \in Tables0(M)
    BY <1>4 DEF Sound
  <2> HIDE DEF F
  <2> QED
    BY <1>1, <2>1, <2>2, RecursionExists
<1>8. ASSUME NEW n \in 1..L PROVE up[n] = P!Insert(up[n - 1], P!Entry(pool, n))
  <2>1. up[n - 1] \in Tables0(M)
    <3>1. n - 1 \in 0..L
      BY <1>1
    <3> QED
      BY <1>7, <3>1 DEF Recurs
  <2>2. F[n][up[n - 1]] = P!Insert(up[n - 1], P!Entry(pool, n))
    BY <2>1
  <2> QED
    BY <1>7, <2>2 DEF Recurs
<1>9. Solves(up)
  <2> HIDE DEF F
  <2>1. \A n \in 0..L : up[n] = IF n = 0 THEN P!NewPool(M)
                                ELSE P!Insert(up[n - 1], P!Entry(pool, n))
    BY <1>1, <1>7, <1>8 DEF Recurs
  <2> QED
    BY <1>7, <2>1 DEF Recurs
<1>10. Solves(moved)
  <2> HIDE DEF Solves
  <2> QED
    BY <1>9
<1> HIDE DEF moved, F
<1>11. /\ moved[0] = P!NewPool(M)
       /\ \A n \in 1..L : moved[n] = P!Insert(moved[n - 1], P!Entry(pool, n))
  BY <1>1, <1>10
<1> HIDE DEF Solves
<1> DEFINE T == { n \in 0..L : /\ Sound(moved[n], M) /\ Len(moved[n].idxs) = n
                               /\ \A i \in 1..n : P!Entry(moved[n], i) = P!Entry(pool, i) }
<1>12. 0 \in T
  BY <1>1, <1>4, <1>11
<1>13. ASSUME NEW n \in 0..(L - 1), n \in T PROVE n + 1 \in T
  <2>1. PICK m : m = moved[n]
    OBVIOUS
  <2>2. PICK s : s = P!Entry(pool, n + 1)
    OBVIOUS
  <2>3. /\ n + 1 \in 1..L /\ (n + 1) - 1 = n /\ n < M /\ n \in Nat
        /\ Sound(m, M) /\ Len(m.idxs) = n
        /\ \A i \in 1..n : P!Entry(m, i) = P!Entry(pool, i)
    BY <1>1, <1>2, <1>13, <2>1
  <2>4. s \in Chars /\ s # <<>>
    BY <1>5, <2>2, <2>3
  <2>5. moved[n + 1] = P!Insert(m, s)
    BY <1>11, <2>1, <2>2, <2>3
  <2>6. ASSUME NEW q \in 0..(M - 1), m.slots[q] = s PROVE FALSE
    <3>1. PICK i \in DOMAIN m.idxs : m.idxs[i] = q
      BY <2>3, <2>4, <2>6 DEF Sound, Numbered
    <3>2. i \in 1..n
      BY <2>3 DEF Sound, Tables0
    <3>3. P!Entry(m, i) = s
      BY <2>6, <3>1 DEF P!Entry
    <3>4. P!Entry(pool, i) = P!Entry(pool, n + 1)
      BY <2>2, <2>3, <3>2, <3>3
    <3>5. i \in DOMAIN pool.idxs /\ n + 1 \in DOMAIN pool.idxs /\ i # n + 1
      BY <1>1, <2>3, <3>2
    <3>6. pool.idxs[i] \in 0..(N - 1) /\ pool.idxs[n + 1] \in 0..(N - 1)
      BY <3>5 DEF Sound
    <3>7. pool.slots[pool.idxs[i]] # <<>>
      BY <2>2, <2>4, <3>4 DEF P!Entry
    <3>8. pool.idxs[i] = pool.idxs[n + 1]
      BY <3>4, <3>6, <3>7 DEF Sound, P!Entry
    <3> QED
      BY <3>5, <3>8 DEF Sound
  <2>7. \A q \in 0..(M - 1) : m.slots[q] # s
    BY <2>6
  <2>8. /\ Sound(P!Insert(m, s), M) /\ Len(P!Insert(m, s).idxs) = n + 1
        /\ Keeps(m, P!Insert(m, s)) /\ P!Entry(P!Insert(m, s), n + 1) = s
    BY <1>2, <2>3, <2>4, <2>7, Inserted
  <2>9. ASSUME NEW i \in 1..(n + 1)
        PROVE  P!Entry(moved[n + 1], i) = P!Entry(pool, i)
    <3>1. CASE i = n + 1
      BY <2>2, <2>5, <2>8, <3>1
    <3>2. CASE i \in 1..n
      BY <2>3, <2>5, <2>8, <3>2 DEF Keeps
    <3> QED
      BY <2>3, <3>1, <3>2
  <2>10. n + 1 \in 0..L
    BY <2>3
  <2> QED
    BY <2>5, <2>8, <2>9, <2>10
<1>14. L \in T
  <2> HIDE DEF T
  <2>1. 0..L \subseteq T
    BY <1>1, <1>12, <1>13, IntervalInduction
  <2> QED
    BY <1>1, <2>1
<1>15. /\ Sound(P!Grown(pool), M) /\ Len(P!Grown(pool).idxs) = L
       /\ Keeps(pool, P!Grown(pool))
  BY <1>1, <1>3, <1>14 DEF Keeps, L
<1> QED
  BY <1>2, <1>15 DEF L

(* string_pool_use gives the number of the string it is given.              *)
LEMMA Used ==
  ASSUME Hashes, NEW N \in Nat, N >= 2, NEW pool, Sound(pool, N),
         NEW s \in Chars, s # <<>>
  PROVE  /\ \E M \in Nat : M >= 2 /\ Sound(P!Use(pool, s).pool, M)
         /\ Keeps(pool, P!Use(pool, s).pool)
         /\ P!Use(pool, s).id \in 1..Len(P!Use(pool, s).pool.idxs)
         /\ P!Entry(P!Use(pool, s).pool, P!Use(pool, s).id) = s
<1>1. PICK roomy : roomy = IF Len(pool.idxs) = P!Size(pool) THEN P!Grown(pool) ELSE pool
  OBVIOUS
<1>2. P!Size(pool) = N
  BY SizeOf DEF Sound
<1>3. Len(pool.idxs) <= N /\ Len(pool.idxs) \in Nat
  <2>1. Len(pool.idxs) \in Nat
    BY DEF Sound, Tables0
  <2> QED
    BY <2>1, NoMoreNumbers
<1>4. PICK M \in Nat : /\ M >= 2 /\ Sound(roomy, M) /\ Len(roomy.idxs) = Len(pool.idxs)
                       /\ Len(roomy.idxs) < M /\ Keeps(pool, roomy)
  <2>1. CASE Len(pool.idxs) = N
    BY <1>1, <1>2, <2>1, GrownPool
  <2>2. CASE Len(pool.idxs) # N
    BY <1>1, <1>2, <1>3, <2>2 DEF Keeps
  <2> QED
    BY <2>1, <2>2
<1>5. PICK id : id = P!Lookup(roomy, s)
  OBVIOUS
<1>6. /\ id \in 0..Len(roomy.idxs)
      /\ id # 0 => P!Entry(roomy, id) = s
      /\ id = 0 => \A q \in 0..(M - 1) : roomy.slots[q] # s
  BY <1>4, <1>5, Found
<1>7. P!Use(pool, s) = IF id # 0 THEN [pool |-> roomy, id |-> id]
                       ELSE [pool |-> P!Insert(roomy, s), id |-> Len(roomy.idxs) + 1]
  BY <1>1, <1>5, Zenon DEF P!Use
<1>8. CASE id # 0
  <2>1. P!Use(pool, s).pool = roomy /\ P!Use(pool, s).id = id
    BY <1>7, <1>8
  <2>2. id \in 1..Len(roomy.idxs)
    BY <1>3, <1>4, <1>6, <1>8
  <2> QED
    BY <1>4, <1>6, <1>8, <2>1, <2>2
<1>9. CASE id = 0
  <2>1. PICK new : new = P!Insert(roomy, s)
    OBVIOUS
  <2>2. P!Use(pool, s).pool = new /\ P!Use(pool, s).id = Len(roomy.idxs) + 1
    BY <1>7, <1>9, <2>1
  <2>3. /\ Sound(new, M) /\ Len(new.idxs) = Len(roomy.idxs) + 1 /\ Keeps(roomy, new)
        /\ P!Entry(new, Len(roomy.idxs) + 1) = s
    BY <1>4, <1>6, <1>9, <2>1, Inserted
  <2>4. Keeps(pool, new)
    BY <1>3, <1>4, <2>3 DEF Keeps
  <2>5. Len(roomy.idxs) + 1 \in 1..Len(new.idxs)
    BY <1>3, <1>4, <2>3
  <2> QED
    BY <1>4, <2>2, <2>3, <2>4, <2>5
<1> QED
  BY <1>8, <1>9

-----------------------------------------------------------------------------
(* Contents                                                                 *)

ItemSet ==
  [type : { "constant" }, text : Chars \ { <<>> }] \cup [type : { "name" }, text : Chars]
    \cup { P!BadItem }
GoodItems == [type : { "constant", "name" }, text : Chars \ { <<>> }]

(* A recursion that goes back by any number of steps has a solution.        *)
GoesBack(up, L, C, back, pre, mid, alt) ==
  up = [n \in 0..L |-> IF n \in C THEN pre[n] \o (mid[n] \o up[back[n]]) ELSE alt[n]]

LEMMA GoingBack ==
  ASSUME NEW X, NEW L \in Nat, NEW C, NEW back, NEW pre, NEW mid, NEW alt,
         \A n \in 0..L : n \in C =>
           back[n] \in 0..(n - 1) /\ pre[n] \in Seq(X) /\ mid[n] \in Seq(X),
         \A n \in 0..L : n \notin C => alt[n] \in Seq(X)
  PROVE  /\ \E up : GoesBack(up, L, C, back, pre, mid, alt)
         /\ \A up : GoesBack(up, L, C, back, pre, mid, alt) =>
              \A n \in 0..L : up[n] \in Seq(X)
<1> DEFINE Body(up, n) ==
             IF n \in C THEN pre[n] \o (mid[n] \o up[back[n]]) ELSE alt[n]
           Solves(up, m) == up = [n \in 0..m |-> Body(up, n)]
           S == { m \in 0..L : \E up : Solves(up, m) }
<1>1. 0 \in S
  <2>1. 0 \notin C
    <3>1. 0 \in C => back[0] \in 0..(0 - 1)
      OBVIOUS
    <3> QED
      BY <3>1
  <2>2. Solves([n \in 0..0 |-> alt[0]], 0)
    BY <2>1
  <2> HIDE DEF Solves
  <2> QED
    BY <2>2
<1>2. ASSUME NEW m \in 0..(L - 1), m \in S PROVE m + 1 \in S
  <2>1. PICK up : Solves(up, m)
    BY <1>2
  <2> DEFINE more == [n \in 0..(m + 1) |-> IF n <= m THEN up[n] ELSE Body(up, m + 1)]
  <2>2. ASSUME NEW n \in 0..(m + 1) PROVE more[n] = Body(more, n)
    <3>1. n \in 0..L /\ m \in Nat
      OBVIOUS
    <3>2. n \in C => back[n] \in 0..m /\ more[back[n]] = up[back[n]]
      <4> SUFFICES ASSUME n \in C PROVE back[n] \in 0..m /\ more[back[n]] = up[back[n]]
        OBVIOUS
      <4>1. back[n] \in 0..(n - 1)
        BY <3>1
      <4>2. back[n] \in 0..m
        BY <4>1
      <4> QED
        BY <4>2
    <3>3. Body(more, n) = Body(up, n)
      <4> HIDE DEF more
      <4> QED
        BY <3>2
    <3>4. CASE n <= m
      <4> HIDE DEF more, Body
      <4>3. n \in 0..m
        BY <3>4
      <4>1. up[n] = Body(up, n)
        BY <2>1, <4>3
      <4>2. more[n] = up[n]
        BY <3>4, <4>3 DEF more
      <4> QED
        BY <3>3, <4>1, <4>2
    <3>5. CASE n = m + 1
      <4>1. more[n] = Body(up, m + 1)
        BY <3>5
      <4> HIDE DEF more, Body
      <4> QED
        BY <3>3, <3>5, <4>1
    <3> QED
      BY <3>4, <3>5
  <2>3. Solves(more, m + 1)
    <3>1. more = [n \in 0..(m + 1) |-> more[n]]
      OBVIOUS
    <3> HIDE DEF more, Body
    <3> QED
      BY <2>2, <3>1
  <2> HIDE DEF more, Solves
  <2> QED
    BY <2>3
<1>3. \E up : GoesBack(up, L, C, back, pre, mid, alt)
  <2>1. 0..L \subseteq S
    <3> HIDE DEF S
    <3> QED
      BY <1>1, <1>2, IntervalInduction
  <2>2. L \in S
    <3> HIDE DEF S
    <3> QED
      BY <2>1
  <2>3. PICK up : Solves(up, L)
    <3> HIDE DEF Solves
    <3> QED
      BY <2>2
  <2> QED
    BY <2>3, Zenon DEF GoesBack
<1>4. ASSUME NEW up, GoesBack(up, L, C, back, pre, mid, alt), NEW n \in 0..L
      PROVE  up[n] \in Seq(X)
  <2>1. \A k \in 0..L : up[k] =
         IF k \in C THEN pre[k] \o (mid[k] \o up[back[k]]) ELSE alt[k]
    BY <1>4 DEF GoesBack
  <2> DEFINE T == { m \in 0..L : \A k \in 0..m : up[k] \in Seq(X) }
  <2>2. ASSUME NEW k \in 0..L, \A l \in 0..(k - 1) : up[l] \in Seq(X)
        PROVE  up[k] \in Seq(X)
    <3>1. CASE k \in C
      <4>1. PICK q \in Seq(X) : q = up[back[k]]
        BY <2>2, <3>1
      <4>2. PICK r \in Seq(X), l \in Seq(X) : r = pre[k] /\ l = mid[k]
        BY <3>1
      <4>3. r \o (l \o q) \in Seq(X)
        OBVIOUS
      <4> QED
        BY <2>1, <3>1, <4>1, <4>2, <4>3
    <3>2. CASE k \notin C
      BY <2>1, <3>2
    <3> QED
      BY <3>1, <3>2
  <2>3. 0 \in T
    BY <2>2
  <2>4. ASSUME NEW m \in 0..(L - 1), m \in T PROVE m + 1 \in T
    <3>1. up[m + 1] \in Seq(X)
      BY <2>2, <2>4
    <3>2. \A k \in 0..(m + 1) : k \in 0..m \/ k = m + 1
      OBVIOUS
    <3>3. m + 1 \in 0..L
      OBVIOUS
    <3> QED
      BY <2>4, <3>1, <3>2, <3>3
  <2>5. 0..L \subseteq T
    <3> HIDE DEF T
    <3> QED
      BY <2>3, <2>4, IntervalInduction
  <2> QED
    BY <2>5
<1> QED
  BY <1>3, <1>4

LEMMA InString ==
  ASSUME NEW s \in Chars, NEW n \in Nat, P!CharAt(s, n) # "eos"
  PROVE  n \in 1..Len(s)
<1>1. DOMAIN s = 1..Len(s)
  BY DEF Chars
<1> QED
  BY <1>1 DEF P!CharAt

LEMMA ItemsType ==
  ASSUME NEW s \in Chars
  PROVE  P!Items(s) \in Seq(ItemSet)
<1> DEFINE L == Len(s)
           rest(n)   == P!Drop(s, Len(s) - n)
           i(n)      == P!IndexOf(rest(n), "{")
           inside(n) == P!LTrim(P!Drop(rest(n), i(n) + 1))
           j(n)      == P!IndexOf(inside(n), "}")
           Refers(n) == i(n) # 0 /\ P!CharAt(rest(n), i(n) + 1) = "{"
           Ends(n)   == j(n) # 0 /\ P!CharAt(inside(n), j(n) + 1) = "}"
           first(n)  == IF i(n) = 1 THEN <<>> ELSE << P!Constant(P!Take(rest(n), i(n) - 1)) >>
           name(n)   == << P!Name(P!RTrim(P!Take(inside(n), j(n) - 1))) >>
           Body(up, n) ==
             IF Refers(n)
               THEN first(n) \o IF Ends(n) THEN name(n) \o up[Len(P!Drop(inside(n), j(n) + 1))]
                                ELSE << P!BadItem >>
             ELSE IF rest(n) = <<>> THEN <<>> ELSE << P!Constant(rest(n)) >>
           ofLast == CHOOSE up : up = [n \in 0..L |-> Body(up, n)]
           C == { n \in 0..L : Refers(n) /\ Ends(n) }
           back == [n \in 0..L |-> Len(P!Drop(inside(n), j(n) + 1))]
           pre  == [n \in 0..L |-> first(n)]
           mid  == [n \in 0..L |-> name(n)]
           alt  == [n \in 0..L |->
                     IF Refers(n) THEN first(n) \o << P!BadItem >>
                     ELSE IF rest(n) = <<>> THEN <<>> ELSE << P!Constant(rest(n)) >>]
<1>1. P!Items(s) = ofLast[L]
  BY Zenon DEF P!Items
<1>2. L \in Nat
  BY DEF Chars
<1>3. ASSUME NEW n \in 0..L
      PROVE  /\ rest(n) \in Chars /\ Len(rest(n)) = n /\ i(n) \in 0..n
             /\ inside(n) \in Chars /\ j(n) \in 0..Len(inside(n))
             /\ Refers(n) => /\ Len(inside(n)) \in 0..(n - 1)
                             /\ i(n) - 1 \in Nat /\ i(n) \in 1..n
  <2>1. Len(s) - n \in Nat /\ ~(Len(s) - n > Len(s)) /\ Len(s) - (Len(s) - n) = n
    BY <1>2
  <2>2. rest(n) \in Chars /\ Len(rest(n)) = n
    <3>1. /\ rest(n) \in Chars
          /\ Len(rest(n)) = IF Len(s) - n > Len(s) THEN 0 ELSE Len(s) - (Len(s) - n)
      BY <2>1, Cut
    <3> HIDE DEF rest
    <3> QED
      BY <2>1, <3>1
  <2> HIDE DEF rest
  <2>3. i(n) \in 0..n
    <3>1. i(n) \in 0..Len(rest(n))
      BY <2>2, FirstAt DEF Chars
    <3> QED
      BY <2>2, <3>1
  <2>4. Refers(n) => i(n) + 1 <= n
    <3> HIDE DEF i
    <3>1. i(n) + 1 \in Nat
      BY <2>3
    <3>2. Refers(n) => i(n) + 1 \in 1..Len(rest(n))
      BY <2>2, <3>1, InString
    <3> HIDE DEF Refers
    <3> QED
      BY <1>2, <2>2, <2>3, <3>2
  <2> HIDE DEF i
  <2>5. /\ P!Drop(rest(n), i(n) + 1) \in Chars
        /\ Len(P!Drop(rest(n), i(n) + 1)) = IF i(n) + 1 > n THEN 0 ELSE n - (i(n) + 1)
    <3>1. i(n) + 1 \in Nat
      BY <2>3
    <3> QED
      BY <2>2, <3>1, Cut
  <2>6. inside(n) \in Chars /\ Len(inside(n)) <= Len(P!Drop(rest(n), i(n) + 1))
    BY <2>5, LTrimmed
  <2> HIDE DEF inside
  <2>7. Len(inside(n)) \in Nat
    BY <2>6 DEF Chars
  <2>8. j(n) \in 0..Len(inside(n))
    BY <2>6, FirstAt DEF Chars
  <2>9. Refers(n) => /\ Len(inside(n)) \in 0..(n - 1)
                     /\ i(n) - 1 \in Nat /\ i(n) \in 1..n
    <3>1. Refers(n) => i(n) # 0
      OBVIOUS
    <3> HIDE DEF Refers
    <3> QED
      BY <2>3, <2>4, <2>5, <2>6, <2>7, <3>1
  <2> QED
    BY <2>2, <2>3, <2>6, <2>8, <2>9
<1>12. ASSUME NEW n \in 0..L, Ends(n) PROVE j(n) # 0
  BY <1>12
<1> HIDE DEF rest, i, inside, j, L, Refers, Ends
<1>4. ASSUME NEW n \in 0..L, Refers(n) PROVE first(n) \in Seq(ItemSet)
  <2>1. CASE i(n) = 1
    BY <2>1
  <2>2. CASE i(n) # 1
    <3>1. /\ i(n) - 1 \in Nat /\ i(n) - 1 <= Len(rest(n)) /\ i(n) - 1 >= 1
      BY <1>3, <1>4, <2>2
    <3>2. PICK t : t = P!Take(rest(n), i(n) - 1)
      OBVIOUS
    <3>3. t \in Chars /\ Len(t) = i(n) - 1
      BY <1>3, <3>1, <3>2, Cut, TakeLength
    <3>4. t # <<>>
      BY <3>1, <3>3
    <3>5. P!Constant(t) \in ItemSet
      BY <3>3, <3>4 DEF P!Constant, ItemSet
    <3>6. first(n) = << P!Constant(t) >>
      BY <2>2, <3>2
    <3> QED
      BY <3>5, <3>6
  <2> QED
    BY <2>1, <2>2
<1>5. ASSUME NEW n \in 0..L, Refers(n), Ends(n) PROVE name(n) \in Seq(ItemSet)
  <2>1. j(n) - 1 \in Nat
    BY <1>3, <1>5, <1>12 DEF Chars
  <2>2. P!Take(inside(n), j(n) - 1) \in Chars
    BY <1>3, <2>1, Cut
  <2>3. PICK t \in Chars : t = P!RTrim(P!Take(inside(n), j(n) - 1))
    BY <2>2, RTrimmed
  <2>4. P!Name(t) \in ItemSet
    BY DEF P!Name, ItemSet
  <2>5. name(n) = << P!Name(t) >>
    BY <2>3
  <2> QED
    BY <2>4, <2>5
<1>6. ASSUME NEW n \in 0..L, Refers(n), Ends(n)
      PROVE  Len(P!Drop(inside(n), j(n) + 1)) \in 0..(n - 1)
  <2>1. j(n) + 1 \in Nat /\ Len(inside(n)) \in 0..(n - 1)
    BY <1>3, <1>6, <1>12 DEF Chars
  <2>2. Len(P!Drop(inside(n), j(n) + 1)) =
          IF j(n) + 1 > Len(inside(n)) THEN 0 ELSE Len(inside(n)) - (j(n) + 1)
    BY <1>3, <2>1, Cut
  <2> QED
    BY <2>1, <2>2
<1>7. ASSUME NEW n \in 0..L, ~Refers(n), rest(n) # <<>>
      PROVE  << P!Constant(rest(n)) >> \in Seq(ItemSet)
  <2>1. P!Constant(rest(n)) \in ItemSet
    BY <1>3, <1>7 DEF P!Constant, ItemSet
  <2> QED
    BY <2>1
<1> HIDE DEF first, name
<1>8. \A n \in 0..L : n \in C =>
        back[n] \in 0..(n - 1) /\ pre[n] \in Seq(ItemSet) /\ mid[n] \in Seq(ItemSet)
  BY <1>4, <1>5, <1>6
<1>9. \A n \in 0..L : n \notin C => alt[n] \in Seq(ItemSet)
  <2> SUFFICES ASSUME NEW n \in 0..L, n \notin C PROVE alt[n] \in Seq(ItemSet)
    OBVIOUS
  <2>1. CASE Refers(n)
    <3>1. PICK a \in Seq(ItemSet) : a = first(n)
      BY <1>4, <2>1
    <3>2. P!BadItem \in ItemSet
      BY DEF ItemSet
    <3>3. a \o << P!BadItem >> \in Seq(ItemSet)
      BY <3>2
    <3> QED
      BY <2>1, <3>1, <3>3
  <2>2. CASE ~Refers(n)
    BY <1>7, <2>2
  <2> QED
    BY <2>1, <2>2
<1>10. \E up : GoesBack(up, L, C, back, pre, mid, alt)
  <2> HIDE DEF C, back, pre, mid, alt
  <2> QED
    BY <1>2, <1>8, <1>9, GoingBack
<1>11. ASSUME NEW up, NEW n \in 0..L
       PROVE  Body(up, n) =
                IF n \in C THEN pre[n] \o (mid[n] \o up[back[n]]) ELSE alt[n]
  <2>1. CASE Refers(n) /\ Ends(n)
    BY <2>1
  <2>2. CASE ~(Refers(n) /\ Ends(n))
    BY <2>2
  <2> QED
    BY <2>1, <2>2
<1>13. ASSUME NEW up
       PROVE  up = [n \in 0..L |-> Body(up, n)] <=> GoesBack(up, L, C, back, pre, mid, alt)
  <2> HIDE DEF C, back, pre, mid, alt, Body
  <2>1. [n \in 0..L |-> Body(up, n)] =
          [n \in 0..L |->
            IF n \in C THEN pre[n] \o (mid[n] \o up[back[n]]) ELSE alt[n]]
    BY <1>11
  <2> QED
    BY <2>1, Zenon DEF GoesBack
<1>14. GoesBack(ofLast, L, C, back, pre, mid, alt)
  <2> HIDE DEF C, back, pre, mid, alt, Body
  <2> QED
    BY <1>10, <1>13
<1>15. ofLast[L] \in Seq(ItemSet)
  <2>1. L \in 0..L
    BY <1>2
  <2> HIDE DEF C, back, pre, mid, alt, ofLast
  <2> QED
    BY <1>2, <1>8, <1>9, <1>14, <2>1, GoingBack
<1> QED
  BY <1>1, <1>15

LEMMA Unraised ==
  ASSUME NEW items \in Seq(ItemSet), ~P!Raises(items)
  PROVE  items \in Seq(GoodItems)
<1>1. ASSUME NEW k \in 1..Len(items) PROVE items[k] \in GoodItems
  <2>1. items[k] \in ItemSet
    OBVIOUS
  <2>2. items[k] # P!BadItem /\ items[k] # P!Name(<<>>)
    BY DEF P!Raises
  <2> QED
    BY <2>1, <2>2 DEF ItemSet, GoodItems, P!Name
<1> QED
  BY <1>1

(* What contents refer to, when there are c constants and n names           *)
Refs(c, n) == [type : { "constant" }, id : 1..c] \cup [type : { "name" }, id : 1..n]

Sized(pool) == \E N \in Nat : N >= 2 /\ Sound(pool, N)

(* Both pools, and what came of some items                                  *)
Grows(cs, ns, got) ==
  /\ Sized(got.constants) /\ Keeps(cs, got.constants)
  /\ Sized(got.names) /\ Keeps(ns, got.names)

TextAt(got, ref) ==
  P!Entry(IF ref.type = "name" THEN got.names ELSE got.constants, ref.id)

Gots == [constants : Pools, names : Pools, ids : Seq([type : { "constant", "name" }, id : Nat])]

LEMMA KeepsAll ==
  ASSUME NEW a, NEW b, NEW c, Keeps(a, b), Keeps(b, c),
         Len(a.idxs) \in Nat, Len(b.idxs) \in Nat, Len(c.idxs) \in Nat
  PROVE  Keeps(a, c)
BY DEF Keeps

LEMMA SizedLen ==
  ASSUME NEW pool, Sized(pool)
  PROVE  Len(pool.idxs) \in Nat
BY DEF Sized, Sound, Tables0

LEMMA InPools ==
  ASSUME NEW pool
  PROVE  pool \in Pools <=> Sized(pool)
<1>1. ASSUME Sized(pool) PROVE pool \in UNION { Tables0(N) : N \in Nat }
  BY <1>1 DEF Sized, Sound
<1> QED
  BY <1>1 DEF Pools, Sized

LEMMA WithItemType ==
  ASSUME Hashes, NEW got \in Gots, NEW item \in GoodItems
  PROVE  LET new == P!WithItem(got, item)
             ref == [type |-> item.type, id |-> new.ids[Len(got.ids) + 1].id]
         IN  /\ new \in Gots /\ Grows(got.constants, got.names, new)
             /\ new.ids = Append(got.ids, ref)
             /\ ref \in Refs(Len(new.constants.idxs), Len(new.names.idxs))
             /\ TextAt(new, ref) = item.text
<1>1. item.text \in Chars /\ item.text # <<>> /\ item.type \in { "constant", "name" }
  BY DEF GoodItems
<1>2. Sized(got.constants) /\ Sized(got.names) /\ got.ids \in Seq([type : { "constant", "name" }, id : Nat])
  BY InPools DEF Gots
<1>3. \A pool : Sized(pool) => Keeps(pool, pool)
  BY SizedLen DEF Keeps
<1>4. ASSUME NEW pool, Sized(pool)
      PROVE  /\ Sized(P!Use(pool, item.text).pool) /\ Keeps(pool, P!Use(pool, item.text).pool)
             /\ P!Use(pool, item.text).id \in 1..Len(P!Use(pool, item.text).pool.idxs)
             /\ P!Entry(P!Use(pool, item.text).pool, P!Use(pool, item.text).id) = item.text
  <2>1. PICK N \in Nat : N >= 2 /\ Sound(pool, N)
    BY <1>4 DEF Sized
  <2> QED
    BY <1>1, <2>1, Used DEF Sized
<1>5. CASE item.type = "name"
  <2>1. PICK use : use = P!Use(got.names, item.text)
    OBVIOUS
  <2>2. PICK new : new = P!WithItem(got, item)
    OBVIOUS
  <2>3. new = [got EXCEPT !["names"] = use.pool,
                          !.ids = Append(@, [type |-> item.type, id |-> use.id])]
    BY <1>5, <2>1, <2>2, Zenon DEF P!WithItem
  <2>4. /\ Sized(use.pool) /\ Keeps(got.names, use.pool) /\ use.id \in 1..Len(use.pool.idxs)
        /\ P!Entry(use.pool, use.id) = item.text
    BY <1>2, <1>4, <2>1
  <2>5. use.pool \in Pools /\ Len(use.pool.idxs) \in Nat /\ use.id \in Nat
    BY <2>4, InPools, SizedLen
  <2>6. /\ new.names = use.pool /\ new.constants = got.constants
        /\ new.ids = Append(got.ids, [type |-> "name", id |-> use.id])
        /\ new = [constants |-> got.constants, names |-> use.pool, ids |-> new.ids]
    BY <1>5, <2>3 DEF Gots
  <2>7. new.ids \in Seq([type : { "constant", "name" }, id : Nat])
        /\ new.ids[Len(got.ids) + 1] = [type |-> "name", id |-> use.id]
    <3>5. use.id \in Nat
      BY <2>5
    <3>4. [type |-> "name", id |-> use.id] \in [type : { "constant", "name" }, id : Nat]
      BY <3>5
    <3>1. PICK r \in [type : { "constant", "name" }, id : Nat] : r = [type |-> "name", id |-> use.id]
      BY <3>4
    <3>2. new.ids = Append(got.ids, r)
      BY <2>6, <3>1
    <3>3. /\ Append(got.ids, r) \in Seq([type : { "constant", "name" }, id : Nat])
          /\ Append(got.ids, r)[Len(got.ids) + 1] = r
      BY <1>2
    <3> QED
      BY <3>1, <3>2, <3>3
  <2>8. new \in Gots
    BY <2>5, <2>6, <2>7 DEF Gots
  <2>9. Grows(got.constants, got.names, new)
    BY <1>2, <1>3, <2>4, <2>6 DEF Grows
  <2>10. [type |-> "name", id |-> use.id]
           \in Refs(Len(new.constants.idxs), Len(new.names.idxs))
    BY <2>4, <2>6 DEF Refs
  <2>11. TextAt(new, [type |-> "name", id |-> use.id]) = item.text
    BY <2>4, <2>6 DEF TextAt
  <2> QED
    BY <1>5, <2>2, <2>6, <2>7, <2>8, <2>9, <2>10, <2>11
<1>6. CASE item.type = "constant"
  <2>1. PICK use : use = P!Use(got.constants, item.text)
    OBVIOUS
  <2>2. PICK new : new = P!WithItem(got, item)
    OBVIOUS
  <2>3. new = [got EXCEPT !["constants"] = use.pool,
                          !.ids = Append(@, [type |-> item.type, id |-> use.id])]
    <3>1. item.type # "name"
      BY <1>6
    <3> QED
      BY <2>1, <2>2, <3>1, Zenon DEF P!WithItem
  <2>4. /\ Sized(use.pool) /\ Keeps(got.constants, use.pool)
        /\ use.id \in 1..Len(use.pool.idxs)
        /\ P!Entry(use.pool, use.id) = item.text
    BY <1>2, <1>4, <2>1
  <2>5. use.pool \in Pools /\ Len(use.pool.idxs) \in Nat /\ use.id \in Nat
    BY <2>4, InPools, SizedLen
  <2>6. /\ new.constants = use.pool /\ new.names = got.names
        /\ new.ids = Append(got.ids, [type |-> "constant", id |-> use.id])
        /\ new = [constants |-> use.pool, names |-> got.names, ids |-> new.ids]
    BY <1>6, <2>3 DEF Gots
  <2>7. new.ids \in Seq([type : { "constant", "name" }, id : Nat])
        /\ new.ids[Len(got.ids) + 1] = [type |-> "constant", id |-> use.id]
    <3>5. use.id \in Nat
      BY <2>5
    <3>4. [type |-> "constant", id |-> use.id] \in [type : { "constant", "name" }, id : Nat]
      BY <3>5
    <3>1. PICK r \in [type : { "constant", "name" }, id : Nat] : r = [type |-> "constant", id |-> use.id]
      BY <3>4
    <3>2. new.ids = Append(got.ids, r)
      BY <2>6, <3>1
    <3>3. /\ Append(got.ids, r) \in Seq([type : { "constant", "name" }, id : Nat])
          /\ Append(got.ids, r)[Len(got.ids) + 1] = r
      BY <1>2
    <3> QED
      BY <3>1, <3>2, <3>3
  <2>8. new \in Gots
    BY <2>5, <2>6, <2>7 DEF Gots
  <2>9. Grows(got.constants, got.names, new)
    BY <1>2, <1>3, <2>4, <2>6 DEF Grows
  <2>10. [type |-> "constant", id |-> use.id]
           \in Refs(Len(new.constants.idxs), Len(new.names.idxs))
    BY <2>4, <2>6 DEF Refs
  <2>11. TextAt(new, [type |-> "constant", id |-> use.id]) = item.text
    BY <2>4, <2>6 DEF TextAt
  <2> QED
    BY <1>6, <2>2, <2>6, <2>7, <2>8, <2>9, <2>10, <2>11
<1> QED
  BY <1>1, <1>5, <1>6

(* What the items said is what the numbers they get stand for.              *)
LEMMA InternedType ==
  ASSUME Hashes, Sized(constants), Sized(names), NEW items \in Seq(GoodItems)
  PROVE  LET got == P!Interned(items) IN
         /\ got \in Gots /\ Grows(constants, names, got)
         /\ Len(got.ids) = Len(items)
         /\ \A i \in 1..Len(items) :
              /\ got.ids[i] \in Refs(Len(got.constants.idxs), Len(got.names.idxs))
              /\ got.ids[i].type = items[i].type
              /\ TextAt(got, got.ids[i]) = items[i].text
<1> DEFINE L == Len(items)
           none == [constants |-> constants, names |-> names, ids |-> <<>>]
           Solves(up) ==
             up = [n \in 0..L |-> IF n = 0 THEN none ELSE P!WithItem(up[n - 1], items[n])]
           after == CHOOSE up : Solves(up)
           F == [n \in 1..L |-> [v \in Gots |-> P!WithItem(v, items[n])]]
<1>1. L \in Nat /\ \A n \in 1..L : items[n] \in GoodItems
  OBVIOUS
<1>2. none \in Gots
  <2>1. constants \in Pools /\ names \in Pools
    BY InPools
  <2> QED
    BY <2>1 DEF Gots
<1>3. P!Interned(items) = after[L]
  BY Zenon DEF P!Interned
<1> HIDE DEF L, none
<1>4. \A n \in 1..L, v \in Gots : P!WithItem(v, items[n]) \in Gots
  BY <1>1, WithItemType
<1>5. PICK up : Recurs(up, Gots, none, F, L)
  <2>1. \A n \in 1..L, v \in Gots : F[n][v] \in Gots
    BY <1>4
  <2> HIDE DEF F
  <2> QED
    BY <1>1, <1>2, <2>1, RecursionExists
<1>6. ASSUME NEW n \in 1..L PROVE up[n] = P!WithItem(up[n - 1], items[n])
  <2>1. up[n - 1] \in Gots
    <3>1. n - 1 \in 0..L
      BY <1>1
    <3> QED
      BY <1>5, <3>1 DEF Recurs
  <2>2. F[n][up[n - 1]] = P!WithItem(up[n - 1], items[n])
    BY <2>1
  <2> QED
    BY <1>5, <2>2 DEF Recurs
<1>7. Solves(up)
  <2> HIDE DEF F
  <2>1. \A n \in 0..L : up[n] = IF n = 0 THEN none ELSE P!WithItem(up[n - 1], items[n])
    BY <1>1, <1>5, <1>6 DEF Recurs
  <2> QED
    BY <1>5, <2>1 DEF Recurs
<1>8. Solves(after)
  <2> HIDE DEF Solves
  <2> QED
    BY <1>7
<1> HIDE DEF after, F
<1>9. after[0] = none /\ \A n \in 1..L : after[n] = P!WithItem(after[n - 1], items[n])
  BY <1>1, <1>8
<1> HIDE DEF Solves
<1> DEFINE Right(got, i) ==
             /\ got.ids[i] \in Refs(Len(got.constants.idxs), Len(got.names.idxs))
             /\ got.ids[i].type = items[i].type
             /\ TextAt(got, got.ids[i]) = items[i].text
           T == { n \in 0..L :
                   /\ after[n] \in Gots /\ Grows(constants, names, after[n])
                   /\ Len(after[n].ids) = n
                   /\ \A i \in 1..n : Right(after[n], i) }
<1>10. 0 \in T
  <2>1. none.constants = constants /\ none.names = names /\ none.ids = <<>>
    BY DEF none
  <2>2. Grows(constants, names, none)
    BY <2>1, SizedLen DEF Grows, Keeps
  <2> QED
    BY <1>1, <1>2, <1>9, <2>1, <2>2
<1>11. ASSUME NEW n \in 0..(L - 1), n \in T PROVE n + 1 \in T
  <2> HIDE DEF Right
  <2>1. PICK got \in Gots : /\ got = after[n] /\ Grows(constants, names, got)
                            /\ Len(got.ids) = n /\ \A i \in 1..n : Right(got, i)
    BY <1>11
  <2>2. PICK item \in GoodItems : item = items[n + 1] /\ n + 1 \in 1..L /\ n \in Nat
    BY <1>1
  <2>3. PICK new : new = P!WithItem(got, item)
    OBVIOUS
  <2>4. after[n + 1] = new
    <3>1. (n + 1) - 1 = n
      BY <2>2
    <3> QED
      BY <1>9, <2>1, <2>2, <2>3, <3>1
  <2>5. PICK ref : ref = [type |-> item.type, id |-> new.ids[Len(got.ids) + 1].id]
    OBVIOUS
  <2>6. /\ new \in Gots /\ Grows(got.constants, got.names, new)
        /\ new.ids = Append(got.ids, ref)
        /\ ref \in Refs(Len(new.constants.idxs), Len(new.names.idxs))
        /\ TextAt(new, ref) = item.text
    BY <2>3, <2>5, WithItemType, Zenon
  <2>7. /\ got.ids \in Seq([type : { "constant", "name" }, id : Nat]) /\ new.ids[n + 1] = ref
        /\ Len(new.ids) = n + 1 /\ \A i \in 1..n : new.ids[i] = got.ids[i]
    BY <2>1, <2>2, <2>6 DEF Gots
  <2>8. /\ Len(constants.idxs) \in Nat /\ Len(names.idxs) \in Nat
        /\ Len(got.constants.idxs) \in Nat /\ Len(got.names.idxs) \in Nat
        /\ Len(new.constants.idxs) \in Nat /\ Len(new.names.idxs) \in Nat
    BY <2>1, <2>6, SizedLen DEF Grows
  <2>9. Grows(constants, names, new)
    BY <2>1, <2>6, <2>8, KeepsAll DEF Grows
  <2>10. ASSUME NEW i \in 1..n PROVE Right(new, i)
    <3>1. Right(got, i)
      BY <2>1
    <3>2. PICK r : r = got.ids[i] /\ new.ids[i] = r
      BY <2>7
    <3>3. /\ r \in Refs(Len(got.constants.idxs), Len(got.names.idxs))
          /\ r.type = items[i].type /\ TextAt(got, r) = items[i].text
      BY <3>1, <3>2 DEF Right
    <3>4. \/ r.type = "constant" /\ r.id \in 1..Len(got.constants.idxs)
          \/ r.type = "name" /\ r.id \in 1..Len(got.names.idxs)
      BY <3>3 DEF Refs
    <3>5. Keeps(got.constants, new.constants) /\ Keeps(got.names, new.names)
      BY <2>6 DEF Grows
    <3>6. r \in Refs(Len(new.constants.idxs), Len(new.names.idxs))
      <4>1. /\ Len(got.constants.idxs) <= Len(new.constants.idxs)
            /\ Len(got.names.idxs) <= Len(new.names.idxs)
        BY <3>5 DEF Keeps
      <4> QED
        BY <2>8, <3>3, <4>1, SMTT(30) DEF Refs
    <3>7. TextAt(new, r) = TextAt(got, r)
      BY <3>4, <3>5 DEF Keeps, TextAt
    <3> QED
      BY <3>2, <3>3, <3>6, <3>7 DEF Right
  <2>11. Right(new, n + 1)
    BY <2>2, <2>5, <2>6, <2>7 DEF Right
  <2>12. n + 1 \in 0..L /\ \A i \in 1..(n + 1) : i \in 1..n \/ i = n + 1
    BY <2>2
  <2> QED
    BY <2>4, <2>6, <2>7, <2>9, <2>10, <2>11, <2>12
<1>12. L \in T
  <2> HIDE DEF T
  <2>1. 0..L \subseteq T
    BY <1>1, <1>10, <1>11, IntervalInduction
  <2> QED
    BY <1>1, <2>1
<1> QED
  BY <1>3, <1>12 DEF L

-----------------------------------------------------------------------------
(* The parser                                                               *)

Stages   == { "name", "attributes", "content", "children" }
Outcomes == { "parsing", "parsed", "failed", "error", "crashed", "hung" }

(* Nodes that refer to c constants and n names, with children in K.         *)
Texts(c, n) == [kind : { "text" }, contents : Seq(Refs(c, n))]
Attrs(c, n) == [name : 1..c, contents : Seq(Refs(c, n))]
Elements(K, c, n) ==
  [kind : { "element" }, tag : 1..c, void : BOOLEAN, id : Seq(Refs(c, n)),
   classes : Seq(Refs(c, n)), attributes : Seq(Attrs(c, n)), children : Seq(K),
   todo : Stages]

WellMade(K, c, n) == K \subseteq Texts(c, n) \cup Elements(K, c, n)

(* All elements but the innermost wait for their children.                  *)
Wait(o, k) == \A i \in 1..k : o[i].todo = "children"

Family(K, c, n, o, r, p) ==
  /\ WellMade(K, c, n)
  /\ o \in Seq(Elements(K, c, n)) /\ Wait(o, Len(o) - 1)
  /\ r \in Seq(K) /\ (p = "parsed" => r # <<>>)

NConstants == Len(constants.idxs)
NNames     == Len(names.idxs)

ParserInv ==
  /\ input \in Chars /\ parsing \in Outcomes
  /\ Sized(constants) /\ Sized(names)
  /\ \E K : Family(K, NConstants, NNames, open, root, parsing)

Size0(o, p) ==
  Len(o) + (IF p = "parsing" THEN 1 ELSE 0) + IF o = <<>> THEN 0 ELSE Ahead(Last(o).todo)

LEMMA RefsGrow ==
  ASSUME NEW c \in Nat, NEW n \in Nat, NEW c2 \in Nat, NEW n2 \in Nat, c <= c2, n <= n2
  PROVE  /\ Refs(c, n) \subseteq Refs(c2, n2) /\ 1..c \subseteq 1..c2
         /\ Seq(Refs(c, n)) \subseteq Seq(Refs(c2, n2))
         /\ Seq(Attrs(c, n)) \subseteq Seq(Attrs(c2, n2))
<1>1. Refs(c, n) \subseteq Refs(c2, n2) /\ 1..c \subseteq 1..c2
  BY DEF Refs
<1>2. Seq(Refs(c, n)) \subseteq Seq(Refs(c2, n2))
  <2> SUFFICES ASSUME NEW s \in Seq(Refs(c, n)) PROVE s \in Seq(Refs(c2, n2))
    OBVIOUS
  <2> QED
    BY <1>1
<1>3. Attrs(c, n) \subseteq Attrs(c2, n2)
  BY <1>1, <1>2 DEF Attrs
<1>4. Seq(Attrs(c, n)) \subseteq Seq(Attrs(c2, n2))
  <2> SUFFICES ASSUME NEW s \in Seq(Attrs(c, n)) PROVE s \in Seq(Attrs(c2, n2))
    OBVIOUS
  <2> QED
    BY <1>3
<1> QED
  BY <1>1, <1>2, <1>4

LEMMA ElementsGrow ==
  ASSUME NEW K, NEW K2, K \subseteq K2,
         NEW c \in Nat, NEW n \in Nat, NEW c2 \in Nat, NEW n2 \in Nat, c <= c2, n <= n2
  PROVE  /\ Elements(K, c, n) \subseteq Elements(K2, c2, n2)
         /\ Texts(c, n) \subseteq Texts(c2, n2)
         /\ Seq(Elements(K, c, n)) \subseteq Seq(Elements(K2, c2, n2))
<1>1. Seq(K) \subseteq Seq(K2)
  <2> SUFFICES ASSUME NEW s \in Seq(K) PROVE s \in Seq(K2)
    OBVIOUS
  <2> QED
    OBVIOUS
<1>2. /\ Refs(c, n) \subseteq Refs(c2, n2) /\ 1..c \subseteq 1..c2
      /\ Seq(Refs(c, n)) \subseteq Seq(Refs(c2, n2))
      /\ Seq(Attrs(c, n)) \subseteq Seq(Attrs(c2, n2))
  BY RefsGrow
<1>3. Elements(K, c, n) \subseteq Elements(K2, c2, n2)
  <2>1. PICK A, B, C, D, E, F, G, H : /\ A = Seq(K) /\ B = Seq(K2) /\ C = Seq(Refs(c, n))
                                /\ D = Seq(Refs(c2, n2)) /\ E = Seq(Attrs(c, n))
                                /\ F = Seq(Attrs(c2, n2)) /\ G = 1..c /\ H = 1..c2
    OBVIOUS
  <2>2. A \subseteq B /\ C \subseteq D /\ E \subseteq F /\ G \subseteq H
    BY <1>1, <1>2, <2>1
  <2>3. /\ Elements(K, c, n) =
             [kind : { "element" }, tag : G, void : BOOLEAN, id : C, classes : C,
              attributes : E, children : A, todo : Stages]
        /\ Elements(K2, c2, n2) =
             [kind : { "element" }, tag : H, void : BOOLEAN, id : D, classes : D,
              attributes : F, children : B, todo : Stages]
    BY <2>1 DEF Elements
  <2> QED
    BY <2>2, <2>3
<1>4. Texts(c, n) \subseteq Texts(c2, n2)
  BY <1>2 DEF Texts
<1>5. Seq(Elements(K, c, n)) \subseteq Seq(Elements(K2, c2, n2))
  <2> SUFFICES ASSUME NEW s \in Seq(Elements(K, c, n))
               PROVE  s \in Seq(Elements(K2, c2, n2))
    OBVIOUS
  <2>1. PICK X, Y : X = Elements(K, c, n) /\ Y = Elements(K2, c2, n2)
    OBVIOUS
  <2>2. s \in Seq(X) /\ X \subseteq Y
    BY <1>3, <2>1
  <2>3. s \in Seq(Y)
    BY <2>2
  <2> QED
    BY <2>1, <2>3
<1> QED
  BY <1>3, <1>4, <1>5

(* More numbers do not matter to what there is.                             *)
LEMMA Wider ==
  ASSUME NEW K, NEW c \in Nat, NEW n \in Nat, NEW c2 \in Nat, NEW n2 \in Nat,
         c <= c2, n <= n2, NEW o, NEW r, NEW p, Family(K, c, n, o, r, p)
  PROVE  Family(K, c2, n2, o, r, p)
<1>1. /\ Elements(K, c, n) \subseteq Elements(K, c2, n2)
      /\ Texts(c, n) \subseteq Texts(c2, n2)
      /\ Seq(Elements(K, c, n)) \subseteq Seq(Elements(K, c2, n2))
  BY ElementsGrow
<1> QED
  BY <1>1, Zenon DEF Family, WellMade

(* A finished node joins those there are.                                   *)
LEMMA Joins ==
  ASSUME NEW K, NEW c \in Nat, NEW n \in Nat, WellMade(K, c, n),
         NEW m \in Texts(c, n) \cup Elements(K, c, n)
  PROVE  WellMade(K \cup { m }, c, n)
<1>1. PICK K2 : K2 = K \cup { m } /\ K \subseteq K2
  OBVIOUS
<1>2. c <= c /\ n <= n
  OBVIOUS
<1>3. Elements(K, c, n) \subseteq Elements(K2, c, n)
  BY <1>1, <1>2, ElementsGrow
<1> QED
  BY <1>1, <1>3, Zenon DEF WellMade

LEMMA Tops ==
  ASSUME NEW S, NEW s \in Seq(S), s # <<>>
  PROVE  /\ P!Last(s) = Last(s) /\ P!Front(s) = Front(s)
         /\ Last(s) \in S /\ Last(s) = s[Len(s)] /\ Len(s) \in Nat \ {0}
         /\ Front(s) \in Seq(S) /\ Len(Front(s)) = Len(s) - 1
         /\ \A i \in 1..(Len(s) - 1) : Front(s)[i] = s[i]
<1>1. Len(s) \in Nat \ {0}
  OBVIOUS
<1>2. P!Last(s) = Last(s) /\ Last(s) = s[Len(s)]
  BY Zenon DEF P!Last, Last
<1>3. P!Front(s) = Front(s) /\ Front(s) = SubSeq(s, 1, Len(s) - 1)
  BY Zenon DEF P!Front, Front
<1>4. s[Len(s)] \in S /\ \A i \in 1..(Len(s) - 1) : s[i] \in S
  BY <1>1
<1>5. /\ SubSeq(s, 1, Len(s) - 1) \in Seq(S)
      /\ Len(SubSeq(s, 1, Len(s) - 1)) = Len(s) - 1
      /\ \A i \in 1..(Len(s) - 1) : SubSeq(s, 1, Len(s) - 1)[i] = s[i]
  <2>1. PICK m \in Nat : m = Len(s) - 1
    BY <1>1
  <2>2. \A i \in 1..m : s[i] \in S
    BY <1>4, <2>1
  <2>3. /\ SubSeq(s, 1, m) \in Seq(S)
        /\ Len(SubSeq(s, 1, m)) = IF 1 <= m THEN m - 1 + 1 ELSE 0
        /\ \A i \in 1..(m - 1 + 1) : SubSeq(s, 1, m)[i] = s[1 + i - 1]
    BY <2>2, SubSeqProperties
  <2>4. Len(SubSeq(s, 1, m)) = m /\ \A i \in 1..m : SubSeq(s, 1, m)[i] = s[i]
    BY <2>3
  <2> QED
    BY <2>1, <2>3, <2>4
<1> QED
  BY <1>1, <1>2, <1>3, <1>4, <1>5

LEMMA Put ==
  ASSUME NEW S, NEW s \in Seq(S), NEW e \in S
  PROVE  /\ Append(s, e) \in Seq(S) /\ Len(Append(s, e)) = Len(s) + 1
         /\ Append(s, e) # <<>> /\ Last(Append(s, e)) = e
         /\ \A i \in 1..Len(s) : Append(s, e)[i] = s[i]
<1>1. /\ Append(s, e) \in Seq(S) /\ Len(Append(s, e)) = Len(s) + 1
      /\ Append(s, e)[Len(s) + 1] = e
      /\ \A i \in 1..Len(s) : Append(s, e)[i] = s[i]
  OBVIOUS
<1>2. Last(Append(s, e)) = Append(s, e)[Len(Append(s, e))]
  BY Zenon DEF Last
<1>3. Append(s, e) # <<>>
  BY <1>1
<1> QED
  BY <1>1, <1>2, <1>3

(* Update: the innermost element becomes another.                           *)
LEMMA Updated ==
  ASSUME NEW K, NEW c \in Nat, NEW n \in Nat, NEW o, NEW r, NEW p,
         Family(K, c, n, o, r, p), o # <<>>, NEW e \in Elements(K, c, n)
  PROVE  /\ Family(K, c, n, Append(P!Front(o), e), r, p)
         /\ Len(Append(P!Front(o), e)) = Len(o)
         /\ Append(P!Front(o), e) # <<>> /\ Last(Append(P!Front(o), e)) = e
<1>1. PICK S : S = Elements(K, c, n)
  OBVIOUS
<1>2. o \in Seq(S) /\ e \in S /\ Wait(o, Len(o) - 1)
  BY <1>1 DEF Family
<1>3. PICK f \in Seq(S) : /\ f = P!Front(o) /\ Len(o) \in Nat \ {0} /\ Len(f) = Len(o) - 1
                          /\ \A i \in 1..(Len(o) - 1) : f[i] = o[i]
  BY <1>2, Tops
<1>4. PICK g \in Seq(S) : /\ g = Append(f, e) /\ Len(g) = Len(f) + 1 /\ g # <<>>
                          /\ Last(g) = e /\ \A i \in 1..Len(f) : g[i] = f[i]
  <2>1. f \in Seq(S) /\ e \in S
    BY <1>2
  <2>2. /\ Append(f, e) \in Seq(S) /\ Len(Append(f, e)) = Len(f) + 1
        /\ Append(f, e) # <<>> /\ Last(Append(f, e)) = e
        /\ \A i \in 1..Len(f) : Append(f, e)[i] = f[i]
    BY <2>1, Put, Zenon
  <2> QED
    BY <2>2
<1>5. Len(g) = Len(o) /\ Wait(g, Len(g) - 1)
  BY <1>2, <1>3, <1>4 DEF Wait
<1> QED
  BY <1>1, <1>3, <1>4, <1>5 DEF Family

(* A new element, inside those that wait for it                             *)
LEMMA Started ==
  ASSUME NEW K, NEW c \in Nat, NEW n \in Nat, NEW o, NEW r, NEW p,
         Family(K, c, n, o, r, p), Wait(o, Len(o)), NEW e \in Elements(K, c, n)
  PROVE  Family(K, c, n, Append(o, e), r, p)
<1>1. PICK S : S = Elements(K, c, n)
  OBVIOUS
<1>2. o \in Seq(S) /\ e \in S /\ Len(o) \in Nat
  BY <1>1 DEF Family
<1>3. PICK g \in Seq(S) : /\ g = Append(o, e) /\ Len(g) = Len(o) + 1
                          /\ \A i \in 1..Len(o) : g[i] = o[i]
  BY <1>2, Put
<1>4. Wait(g, Len(g) - 1)
  BY <1>2, <1>3 DEF Wait
<1> QED
  BY <1>1, <1>3, <1>4 DEF Family

(* A node goes to the element around it, or is the root.                    *)
LEMMA Gives ==
  ASSUME NEW K, NEW c \in Nat, NEW n \in Nat, WellMade(K, c, n), root \in Seq(K),
         NEW around \in Seq(Elements(K, c, n)), Wait(around, Len(around)),
         NEW m \in Texts(c, n) \cup Elements(K, c, n),
         parsing = "parsing", P!Give(m, around)
  PROVE  /\ \E K2 : Family(K2, c, n, open', root', parsing')
         /\ parsing' \in { "parsing", "parsed" }
         /\ Size0(open', parsing') \in Nat
         /\ Size0(open', parsing') <= Len(around) + 1
<1>1. PICK K2 : K2 = K \cup { m }
  OBVIOUS
<1>2. WellMade(K2, c, n) /\ K \subseteq K2
  BY <1>1, Joins
<1>3. PICK A, B : A = Elements(K, c, n) /\ B = Elements(K2, c, n)
  OBVIOUS
<1>4. A \subseteq B /\ Seq(A) \subseteq Seq(B)
  <2>1. c <= c /\ n <= n
    OBVIOUS
  <2> QED
    BY <1>2, <1>3, <2>1, ElementsGrow
<1>5. CASE around = <<>>
  <2>1. root' = << m >> /\ parsing' = "parsed" /\ open' = <<>>
    BY <1>5 DEF P!Give
  <2>2. << m >> \in Seq(K2) /\ << m >> # <<>>
    BY <1>1
  <2>3. <<>> \in Seq(B) /\ Wait(<<>>, Len(<<>>) - 1)
    BY DEF Wait
  <2>4. Size0(open', parsing') = 0 /\ Len(around) = 0
    BY <1>5, <2>1 DEF Size0
  <2>5. Family(K2, c, n, open', root', parsing')
    BY <1>2, <1>3, <2>1, <2>2, <2>3 DEF Family
  <2> QED
    BY <2>1, <2>4, <2>5
<1>6. CASE around # <<>>
  <2>1. PICK l : l = P!Last(around)
    OBVIOUS
  <2>2. PICK e : e = [l EXCEPT !.children = Append(@, m)]
    OBVIOUS
  <2>3. /\ open' = Append(P!Front(around), e)
        /\ root' = root /\ parsing' = "parsing"
    BY <1>6, <2>1, <2>2, Zenon DEF P!Give
  <2>4. l \in A /\ l.todo = "children" /\ Len(around) \in Nat \ {0}
    <3>1. /\ P!Last(around) \in A /\ P!Last(around) = around[Len(around)]
          /\ Len(around) \in Nat \ {0}
      BY <1>3, <1>6, Tops
    <3> QED
      BY <2>1, <3>1 DEF Wait
  <2>5. e \in B /\ e.todo = "children"
    <3>1. l.children \in Seq(K)
      BY <1>3, <2>4 DEF Elements
    <3>2. Append(l.children, m) \in Seq(K2)
      BY <1>1, <3>1
    <3>3. l \in B
      BY <1>4, <2>4
    <3>4. PICK q \in Seq(K2) : q = Append(l.children, m) /\ e = [l EXCEPT !.children = q]
      BY <2>2, <3>2
    <3> QED
      BY <1>3, <2>4, <3>3, <3>4 DEF Elements
  <2>6. Family(K2, c, n, around, root, "parsing")
    <3>1. around \in Seq(B)
      BY <1>3, <1>4
    <3>2. root \in Seq(K2)
      BY <1>2
    <3>3. Wait(around, Len(around) - 1)
      BY <2>4 DEF Wait
    <3> QED
      BY <1>2, <1>3, <3>1, <3>2, <3>3 DEF Family
  <2>7. /\ Family(K2, c, n, open', root', parsing') /\ Len(open') = Len(around)
        /\ open' # <<>> /\ Last(open') = e
    <3>1. e \in Elements(K2, c, n) /\ open' = Append(P!Front(around), e)
      BY <1>3, <2>3, <2>5
    <3>2. root' = root /\ parsing' = "parsing"
      BY <2>3
    <3>3. /\ Family(K2, c, n, Append(P!Front(around), e), root, "parsing")
          /\ Len(Append(P!Front(around), e)) = Len(around)
          /\ Append(P!Front(around), e) # <<>> /\ Last(Append(P!Front(around), e)) = e
      BY <1>6, <2>6, <3>1, Updated
    <3> QED
      BY <3>1, <3>2, <3>3
  <2>8. Size0(open', parsing') = Len(around) + 1 + 0
    BY <2>3, <2>4, <2>5, <2>7 DEF Size0, Ahead
  <2> QED
    BY <2>3, <2>4, <2>7, <2>8
<1> QED
  BY <1>5, <1>6

(* No node: the element around is finished.                                 *)
LEMMA GivesNone ==
  ASSUME NEW K, NEW c \in Nat, NEW n \in Nat, WellMade(K, c, n), root \in Seq(K),
         NEW around \in Seq(Elements(K, c, n)), Wait(around, Len(around)),
         parsing = "parsing", P!GiveNone(around)
  PROVE  /\ \E K2 : Family(K2, c, n, open', root', parsing')
         /\ parsing' \in Outcomes
         /\ Size0(open', parsing') \in Nat
         /\ Size0(open', parsing') <= Len(around)
<1>1. PICK A : A = Elements(K, c, n)
  OBVIOUS
<1>2. CASE around = <<>>
  <2>1. root' = root /\ parsing' = "failed" /\ open' = <<>>
    BY <1>2 DEF P!GiveNone
  <2>2. <<>> \in Seq(A) /\ Wait(<<>>, Len(<<>>) - 1)
    BY DEF Wait
  <2>3. Size0(open', parsing') = 0 /\ Len(around) = 0
    BY <1>2, <2>1 DEF Size0
  <2>4. Family(K, c, n, open', root', parsing')
    BY <1>1, <2>1, <2>2 DEF Family
  <2> QED
    BY <2>1, <2>3, <2>4 DEF Outcomes
<1>3. CASE around # <<>>
  <2>1. P!Give(P!Last(around), P!Front(around))
    BY <1>3, Zenon DEF P!GiveNone
  <2>2. PICK l \in A, f \in Seq(A) : /\ l = P!Last(around) /\ f = P!Front(around)
                                    /\ Len(around) \in Nat \ {0} /\ Len(f) = Len(around) - 1
                                    /\ \A i \in 1..(Len(around) - 1) : f[i] = around[i]
    <3>1. around \in Seq(A)
      BY <1>1
    <3>2. /\ P!Last(around) = Last(around) /\ P!Front(around) = Front(around)
          /\ Last(around) \in A /\ Last(around) = around[Len(around)]
          /\ Len(around) \in Nat \ {0}
          /\ Front(around) \in Seq(A) /\ Len(Front(around)) = Len(around) - 1
          /\ \A i \in 1..(Len(around) - 1) : Front(around)[i] = around[i]
      BY <1>3, <3>1, Tops, Zenon
    <3> QED
      BY <3>2
  <2>3. Wait(f, Len(f))
    BY <2>2 DEF Wait
  <2>4. l \in Texts(c, n) \cup Elements(K, c, n) /\ f \in Seq(Elements(K, c, n))
    BY <1>1
  <2>5. /\ \E K2 : Family(K2, c, n, open', root', parsing')
        /\ parsing' \in { "parsing", "parsed" }
        /\ Size0(open', parsing') \in Nat
        /\ Size0(open', parsing') <= Len(f) + 1
    BY <2>1, <2>2, <2>3, <2>4, Gives
  <2> QED
    BY <2>2, <2>5 DEF Outcomes
<1> QED
  BY <1>2, <1>3

Falls ==
  \/ Len(input') < Len(input)
  \/ Len(input') = Len(input) /\ Size0(open', parsing') < Size0(open, parsing)

KeepsPools == Keeps(constants, constants') /\ Keeps(names, names')

(* What every step of the parser does                                       *)
Advances == ParserInv' /\ Falls /\ KeepsPools

LEMMA ParserFacts ==
  ASSUME ParserInv
  PROVE  /\ NConstants \in Nat /\ NNames \in Nat /\ Len(input) \in Nat
         /\ \A K : Family(K, NConstants, NNames, open, root, parsing) =>
                     /\ open \in Seq(Elements(K, NConstants, NNames))
                     /\ Len(open) \in Nat /\ root \in Seq(K)
<1>1. NConstants \in Nat /\ NNames \in Nat
  BY SizedLen DEF ParserInv, NConstants, NNames
<1>2. Len(input) \in Nat
  BY DEF ParserInv, Chars
<1> QED
  BY <1>1, <1>2 DEF Family

LEMMA KeptItems ==
  ASSUME Hashes, ParserInv, NEW items \in Seq(GoodItems), P!Keep(P!Interned(items))
  PROVE  /\ Sized(constants') /\ Sized(names') /\ KeepsPools
         /\ NConstants' \in Nat /\ NNames' \in Nat
         /\ \A K : Family(K, NConstants, NNames, open, root, parsing) =>
                     Family(K, NConstants', NNames', open, root, parsing)
         /\ P!Interned(items).ids \in Seq(Refs(NConstants', NNames'))
         /\ Len(P!Interned(items).ids) = Len(items)
         /\ \A i \in 1..Len(items) : P!Interned(items).ids[i].type = items[i].type
<1>1. PICK got : got = P!Interned(items)
  OBVIOUS
<1>2. constants' = got.constants /\ names' = got.names
  BY <1>1, Zenon DEF P!Keep
<1>3. /\ got \in Gots /\ Grows(constants, names, got)
      /\ Len(got.ids) = Len(items)
      /\ \A i \in 1..Len(items) :
           /\ got.ids[i] \in Refs(Len(got.constants.idxs), Len(got.names.idxs))
           /\ got.ids[i].type = items[i].type
           /\ TextAt(got, got.ids[i]) = items[i].text
  <2>1. Sized(constants) /\ Sized(names)
    BY DEF ParserInv
  <2> QED
    BY <1>1, <2>1, InternedType, Zenon
<1>4. Sized(constants') /\ Sized(names') /\ KeepsPools
  BY <1>2, <1>3 DEF Grows, KeepsPools
<1>5. NConstants' \in Nat /\ NNames' \in Nat
  BY <1>4, SizedLen DEF NConstants, NNames
<1>6. NConstants <= NConstants' /\ NNames <= NNames'
  BY <1>4 DEF KeepsPools, Keeps, NConstants, NNames
<1>7. ASSUME NEW K, Family(K, NConstants, NNames, open, root, parsing)
      PROVE  Family(K, NConstants', NNames', open, root, parsing)
  <2>1. PICK c \in Nat, n \in Nat, c2 \in Nat, n2 \in Nat :
          /\ c = NConstants /\ n = NNames /\ c2 = NConstants' /\ n2 = NNames'
          /\ c <= c2 /\ n <= n2
    BY <1>5, <1>6, ParserFacts
  <2> QED
    BY <1>7, <2>1, Wider
<1>8. got.ids \in Seq(Refs(NConstants', NNames'))
  <2>1. PICK R : R = Refs(NConstants', NNames')
    OBVIOUS
  <2>2. \A i \in 1..Len(items) : got.ids[i] \in R
    BY <1>2, <1>3, <2>1 DEF NConstants, NNames
  <2>3. PICK X : got.ids \in Seq(X)
    BY <1>3 DEF Gots
  <2>4. got.ids \in Seq(R)
    BY <1>3, <2>2, <2>3
  <2> QED
    BY <2>1, <2>4
<1> QED
  BY <1>1, <1>3, <1>4, <1>5, <1>7, <1>8

LEMMA SamePools ==
  ASSUME ParserInv, UNCHANGED P!pools
  PROVE  /\ Sized(constants') /\ Sized(names') /\ KeepsPools
         /\ NConstants' = NConstants /\ NNames' = NNames
<1>1. constants' = constants /\ names' = names
  BY DEF P!pools
<1>2. Sized(constants) /\ Sized(names)
  BY DEF ParserInv
<1>3. Keeps(constants, constants) /\ Keeps(names, names)
  BY <1>2, SizedLen DEF Keeps
<1> QED
  BY <1>1, <1>2, <1>3 DEF KeepsPools, NConstants, NNames

LEMMA OneOf ==
  ASSUME NEW S, NEW w \in S
  PROVE  << w >> \in Seq(S) /\ Len(<< w >>) = 1 /\ << w >> # <<>>
<1>1. << w >> \in Seq(S) /\ Len(<< w >>) = 1
  OBVIOUS
<1>2. Len(<<>>) = 0
  OBVIOUS
<1> QED
  BY <1>1, <1>2

(* A string of one word                                                     *)
LEMMA OneWord ==
  ASSUME NEW w \in STRING
  PROVE  << P!Constant(<< w >>) >> \in Seq(GoodItems) /\ Len(<< P!Constant(<< w >>) >>) = 1
<1>1. << w >> \in Chars /\ << w >> # <<>>
  BY OneOf DEF Chars
<1>2. P!Constant(<< w >>) \in GoodItems
  BY <1>1 DEF P!Constant, GoodItems
<1> QED
  BY <1>2

LEMMA FirstChar ==
  ASSUME NEW s \in Chars, P!CharAt(s, 1) # "eos"
  PROVE  /\ s # <<>> /\ Len(s) >= 1 /\ Head(s) \in STRING /\ P!CharAt(s, 1) = Head(s)
         /\ Tail(s) \in Chars /\ Len(Tail(s)) = Len(s) - 1
<1>1. 1 \in 1..Len(s)
  BY InString
<1>2. s # <<>> /\ Len(s) >= 1
  BY <1>1 DEF Chars
<1>3. P!CharAt(s, 1) = s[1]
  BY <1>1 DEF P!CharAt, Chars
<1>4. Head(s) = s[1] /\ Head(s) \in STRING
  BY <1>2 DEF Chars
<1>5. Tail(s) \in Chars /\ Len(Tail(s)) = Len(s) - 1
  BY <1>2 DEF Chars
<1> QED
  BY <1>2, <1>3, <1>4, <1>5

LEMMA LinePart ==
  ASSUME ParserInv
  PROVE  P!Line \in Chars /\ Len(P!Line) <= Len(input)
<1>1. PICK m \in Chars : m = P!Margin(input) /\ Len(m) <= Len(input)
  BY MarginPart DEF ParserInv
<1>2. Len(m) \in Nat /\ Len(input) \in Nat
  BY DEF ParserInv, Chars
<1>3. P!Line = P!Drop(input, Len(m))
  BY <1>1, Zenon DEF P!Line
<1>4. P!Drop(input, Len(m)) \in Chars /\ Len(P!Drop(input, Len(m))) =
        IF Len(m) > Len(input) THEN 0 ELSE Len(input) - Len(m)
  BY <1>2, Cut DEF ParserInv
<1> QED
  BY <1>1, <1>2, <1>3, <1>4

(* Between nodes every element waits; in one the innermost is at a stage.   *)
LEMMA AtNodeWait ==
  ASSUME ParserInv, P!AtNode, NEW K, NEW c \in Nat, NEW n \in Nat,
         Family(K, c, n, open, root, parsing)
  PROVE  /\ Wait(open, Len(open)) /\ parsing = "parsing"
         /\ Size0(open, parsing) = Len(open) + 1
<1>1. /\ parsing = "parsing"
      /\ open # <<>> => Last(open).todo = "children" /\ open[Len(open)].todo = "children"
  BY Zenon DEF P!AtNode, P!Inner, P!Last, Last
<1>2. Len(open) \in Nat /\ (open = <<>> => Len(open) = 0) /\ Wait(open, Len(open) - 1)
  BY DEF Family
<1>3. Wait(open, Len(open))
  BY <1>1, <1>2 DEF Wait
<1>4. Size0(open, parsing) = Len(open) + 1
  BY <1>1, <1>2 DEF Size0, Ahead
<1> QED
  BY <1>1, <1>3, <1>4

LEMMA AtStage ==
  ASSUME ParserInv, NEW stage \in Stages, P!At(stage), NEW K, NEW c \in Nat, NEW n \in Nat,
         Family(K, c, n, open, root, parsing)
  PROVE  /\ parsing = "parsing" /\ open # <<>> /\ Len(open) \in Nat \ {0}
         /\ P!Inner = Last(open) /\ P!Inner \in Elements(K, c, n) /\ P!Inner.todo = stage
         /\ Size0(open, parsing) = Len(open) + 1 + Ahead(stage)
         /\ P!Front(open) \in Seq(Elements(K, c, n))
         /\ Len(P!Front(open)) = Len(open) - 1
         /\ Wait(P!Front(open), Len(P!Front(open)))
<1>1. parsing = "parsing" /\ open # <<>> /\ P!Inner.todo = stage
  BY DEF P!At
<1>2. PICK S : S = Elements(K, c, n)
  OBVIOUS
<1>3. open \in Seq(S) /\ Wait(open, Len(open) - 1)
  BY <1>2 DEF Family
<1>4. /\ P!Last(open) = Last(open) /\ P!Front(open) = Front(open)
      /\ Last(open) \in S /\ Last(open) = open[Len(open)] /\ Len(open) \in Nat \ {0}
      /\ Front(open) \in Seq(S) /\ Len(Front(open)) = Len(open) - 1
      /\ \A i \in 1..(Len(open) - 1) : Front(open)[i] = open[i]
  BY <1>1, <1>3, Tops, Zenon
<1>5. P!Inner = Last(open)
  BY <1>4, Zenon DEF P!Inner
<1>6. Wait(P!Front(open), Len(P!Front(open)))
  BY <1>3, <1>4 DEF Wait
<1>7. Size0(open, parsing) = Len(open) + 1 + Ahead(stage)
  BY <1>1, <1>5 DEF Size0
<1> QED
  BY <1>1, <1>2, <1>4, <1>5, <1>6, <1>7

LEMMA AheadIs ==
  /\ Ahead("name") = 3 /\ Ahead("attributes") = 2
  /\ Ahead("content") = 1 /\ Ahead("children") = 0
BY DEF Ahead

LEMMA SizeNat ==
  ASSUME ParserInv
  PROVE  Size0(open, parsing) \in Nat
<1>1. PICK K : Family(K, NConstants, NNames, open, root, parsing)
  BY DEF ParserInv
<1>2. PICK S : S = Elements(K, NConstants, NNames)
  OBVIOUS
<1>3. open \in Seq(S) /\ Len(open) \in Nat
  BY <1>1, <1>2 DEF Family
<1>4. CASE open = <<>>
  BY <1>3, <1>4 DEF Size0
<1>5. CASE open # <<>>
  <2>1. Last(open) \in S
    BY <1>3, <1>5, Tops
  <2>2. Last(open).todo \in Stages
    BY <1>2, <2>1 DEF Elements
  <2>3. Ahead(Last(open).todo) \in Nat
    BY <2>2, AheadIs DEF Stages
  <2> QED
    BY <1>3, <1>5, <2>3 DEF Size0
<1> QED
  BY <1>4, <1>5

LEMMA InvAfter ==
  ASSUME input' \in Chars, parsing' \in Outcomes, Sized(constants'), Sized(names'),
         \E K : Family(K, NConstants', NNames', open', root', parsing')
  PROVE  ParserInv'
BY DEF ParserInv

(* The parser gives up, and nothing else changes.                           *)
LEMMA StopsStep ==
  ASSUME ParserInv, parsing = "parsing", parsing' \in { "error", "crashed", "hung" },
         UNCHANGED << input, open, P!pools, root >>
  PROVE  Advances
<1>1. /\ input' = input /\ open' = open /\ root' = root
      /\ constants' = constants /\ names' = names
  BY DEF P!pools
<1>2. /\ Sized(constants') /\ Sized(names') /\ KeepsPools
      /\ NConstants' = NConstants /\ NNames' = NNames
  BY <1>1, SamePools DEF P!pools
<1>3. PICK K : Family(K, NConstants, NNames, open, root, parsing)
  BY DEF ParserInv
<1>4. Family(K, NConstants', NNames', open', root', parsing')
  BY <1>1, <1>2, <1>3 DEF Family
<1>5. ParserInv'
  <2>1. input' \in Chars /\ parsing' \in Outcomes
    BY <1>1 DEF ParserInv, Outcomes
  <2> QED
    BY <1>2, <1>4, <2>1, InvAfter
<1>6. Falls
  <2>1. Size0(open, parsing) \in Nat
    BY SizeNat
  <2>2. Len(open) \in Nat
    BY <1>3, ParserFacts
  <2>3. Size0(open, parsing) = Len(open) + 1 + IF open = <<>> THEN 0 ELSE Ahead(Last(open).todo)
    BY DEF Size0
  <2>4. Size0(open', parsing') = Len(open) + 0 + IF open = <<>> THEN 0 ELSE Ahead(Last(open).todo)
    BY <1>1 DEF Size0
  <2>5. (IF open = <<>> THEN 0 ELSE Ahead(Last(open).todo)) \in Nat
    <3>1. CASE open = <<>>
      BY <3>1
    <3>2. CASE open # <<>>
      <4>1. PICK S : S = Elements(K, NConstants, NNames)
        OBVIOUS
      <4>2. Last(open) \in S
        BY <1>3, <3>2, <4>1, Tops DEF Family
      <4>3. Last(open).todo \in Stages
        BY <4>1, <4>2 DEF Elements
      <4> QED
        BY <3>2, <4>3, AheadIs DEF Stages
    <3> QED
      BY <3>1, <3>2
  <2>6. Size0(open', parsing') < Size0(open, parsing)
    BY <2>2, <2>3, <2>4, <2>5
  <2> QED
    BY <1>1, <2>6 DEF Falls
<1> QED
  BY <1>2, <1>5, <1>6 DEF Advances

(* The innermost element is forgotten, with the input at `rest`.            *)
LEMMA ForgetsStep ==
  ASSUME ParserInv, NEW stage \in Stages, P!At(stage), input' \in Chars,
         Len(input') <= Len(input), P!GiveNone(P!Front(open)),
         Sized(constants'), Sized(names'), KeepsPools,
         NConstants' \in Nat, NNames' \in Nat,
         \A K : Family(K, NConstants, NNames, open, root, parsing) =>
                  Family(K, NConstants', NNames', open, root, parsing)
  PROVE  Advances
<1>1. PICK K : Family(K, NConstants, NNames, open, root, parsing)
  BY DEF ParserInv
<1>2. PICK c \in Nat, n \in Nat : c = NConstants' /\ n = NNames'
  OBVIOUS
<1>3. Family(K, c, n, open, root, parsing)
  BY <1>1, <1>2
<1>4. /\ parsing = "parsing" /\ open # <<>> /\ Len(open) \in Nat \ {0}
      /\ P!Inner = Last(open) /\ P!Inner \in Elements(K, c, n) /\ P!Inner.todo = stage
      /\ Size0(open, parsing) = Len(open) + 1 + Ahead(stage)
      /\ P!Front(open) \in Seq(Elements(K, c, n))
      /\ Len(P!Front(open)) = Len(open) - 1
      /\ Wait(P!Front(open), Len(P!Front(open)))
  BY <1>3, AtStage
<1>5. WellMade(K, c, n) /\ root \in Seq(K)
  BY <1>3 DEF Family
<1>6. /\ \E K2 : Family(K2, c, n, open', root', parsing')
      /\ parsing' \in Outcomes
      /\ Size0(open', parsing') \in Nat
      /\ Size0(open', parsing') <= Len(P!Front(open))
  BY <1>4, <1>5, GivesNone
<1>7. ParserInv'
  BY <1>2, <1>6, InvAfter
<1>8. Falls
  <2>1. Ahead(stage) \in Nat
    BY AheadIs DEF Stages
  <2>2. Size0(open', parsing') < Size0(open, parsing)
    BY <1>4, <1>6, <2>1
  <2>3. Len(input') \in Nat /\ Len(input) \in Nat
    BY DEF ParserInv, Chars
  <2> QED
    BY <2>2, <2>3 DEF Falls
<1> QED
  BY <1>7, <1>8 DEF Advances

(* The innermost element becomes another, at some stage, and the input or   *)
(* what is ahead of it is less.                                             *)
LEMMA UpdateStep ==
  ASSUME ParserInv, NEW stage \in Stages, P!At(stage), NEW e, P!Update(e),
         input' \in Chars, Len(input') <= Len(input),
         Len(input') < Len(input) \/ Ahead(e.todo) < Ahead(stage),
         UNCHANGED << root, parsing >>,
         Sized(constants'), Sized(names'), KeepsPools,
         NConstants' \in Nat, NNames' \in Nat,
         NEW K, Family(K, NConstants', NNames', open, root, parsing),
         e \in Elements(K, NConstants', NNames')
  PROVE  Advances
<1>1. PICK c \in Nat, n \in Nat : c = NConstants' /\ n = NNames'
  OBVIOUS
<1>2. Family(K, c, n, open, root, parsing) /\ e \in Elements(K, c, n)
  BY <1>1
<1>3. /\ parsing = "parsing" /\ open # <<>> /\ Len(open) \in Nat \ {0}
      /\ P!Inner = Last(open) /\ P!Inner \in Elements(K, c, n) /\ P!Inner.todo = stage
      /\ Size0(open, parsing) = Len(open) + 1 + Ahead(stage)
      /\ P!Front(open) \in Seq(Elements(K, c, n))
      /\ Len(P!Front(open)) = Len(open) - 1
      /\ Wait(P!Front(open), Len(P!Front(open)))
  BY <1>2, AtStage
<1>4. open' = Append(P!Front(open), e)
  BY DEF P!Update
<1>5. /\ Family(K, c, n, Append(P!Front(open), e), root, parsing)
      /\ Len(Append(P!Front(open), e)) = Len(open)
      /\ Append(P!Front(open), e) # <<>> /\ Last(Append(P!Front(open), e)) = e
  <2>1. open # <<>>
    BY <1>3
  <2> QED
    BY ONLY <1>2, <2>1, Updated
<1>6. Family(K, NConstants', NNames', open', root', parsing')
  BY <1>1, <1>4, <1>5
<1>7. ParserInv'
  <2>1. parsing' \in Outcomes
    BY DEF ParserInv
  <2> QED
    BY <1>6, <2>1, InvAfter
<1>8. Falls
  <2>1. Size0(open', parsing') = Len(open) + 1 + Ahead(e.todo)
    BY <1>3, <1>4, <1>5 DEF Size0
  <2>2. e.todo \in Stages
    BY <1>2 DEF Elements
  <2>3. Ahead(stage) \in Nat /\ Ahead(e.todo) \in Nat
    BY <2>2, AheadIs DEF Stages
  <2>4. Len(input') \in Nat /\ Len(input) \in Nat
    BY DEF ParserInv, Chars
  <2> QED
    BY <1>3, <2>1, <2>3, <2>4 DEF Falls
<1> QED
  BY <1>7, <1>8 DEF Advances

LEMMA StartElementStep ==
  ASSUME Hashes, ParserInv, P!StartElement
  PROVE  Advances
<1>1. /\ P!AtNode /\ P!CharAt(P!Line, 1) \in Words
      /\ input' = Tail(P!Line) /\ UNCHANGED << root, parsing >>
  BY DEF P!StartElement
<1>2. /\ P!Line \in Chars /\ Len(P!Line) <= Len(input)
      /\ P!Line # <<>> /\ Len(P!Line) >= 1 /\ Head(P!Line) \in STRING
      /\ Tail(P!Line) \in Chars /\ Len(Tail(P!Line)) = Len(P!Line) - 1
  <2>1. P!CharAt(P!Line, 1) # "eos"
    BY <1>1, WordsAssumption
  <2> QED
    BY <2>1, LinePart, FirstChar
<1>3. PICK items \in Seq(GoodItems) :
        items = << P!Constant(<< Head(P!Line) >>) >> /\ Len(items) = 1
                /\ items[1].type = "constant"
  <2>1. P!Constant(<< Head(P!Line) >>).type = "constant"
    BY DEF P!Constant
  <2> QED
    BY <1>2, <2>1, OneWord
<1>4. PICK tag : tag = P!Interned(items)
  OBVIOUS
<1>5. P!Keep(tag)
        /\ open' = Append(open, P!Element(tag.ids[1].id, Head(P!Line) \in VoidElements))
  BY <1>3, <1>4, Zenon DEF P!StartElement
<1>6. /\ Sized(constants') /\ Sized(names') /\ KeepsPools
      /\ NConstants' \in Nat /\ NNames' \in Nat
      /\ \A K : Family(K, NConstants, NNames, open, root, parsing) =>
                  Family(K, NConstants', NNames', open, root, parsing)
      /\ tag.ids \in Seq(Refs(NConstants', NNames'))
      /\ Len(tag.ids) = Len(items)
      /\ \A i \in 1..Len(items) : tag.ids[i].type = items[i].type
  <2>1. P!Keep(P!Interned(items))
    BY <1>4, <1>5
  <2> QED
    BY <1>4, <2>1, KeptItems
<1>7. PICK K : Family(K, NConstants, NNames, open, root, parsing)
  BY DEF ParserInv
<1>8. PICK c \in Nat, n \in Nat : c = NConstants' /\ n = NNames'
  BY <1>6
<1>9. Family(K, c, n, open, root, parsing)
  BY <1>6, <1>7, <1>8
<1>10. PICK e : e = P!Element(tag.ids[1].id, Head(P!Line) \in VoidElements)
  OBVIOUS
<1>11. e \in Elements(K, c, n)
  <2>1. tag.ids[1] \in Refs(c, n) /\ tag.ids[1].type = "constant"
    BY <1>3, <1>6, <1>8
  <2>2. tag.ids[1].id \in 1..c
    BY <2>1 DEF Refs
  <2>3. <<>> \in Seq(K) /\ <<>> \in Seq(Refs(c, n)) /\ <<>> \in Seq(Attrs(c, n))
    OBVIOUS
  <2>4. (Head(P!Line) \in VoidElements) \in BOOLEAN
    OBVIOUS
  <2> QED
    BY <1>10, <2>2, <2>3, <2>4 DEF P!Element, Elements, Stages
<1>12. /\ Wait(open, Len(open)) /\ parsing = "parsing"
       /\ Size0(open, parsing) = Len(open) + 1
  BY <1>1, <1>9, AtNodeWait
<1>13. Family(K, c, n, Append(open, e), root, parsing)
  BY <1>9, <1>11, <1>12, Started
<1>14. ParserInv'
  <2>1. Family(K, NConstants', NNames', open', root', parsing')
    BY <1>1, <1>5, <1>8, <1>10, <1>13
  <2>2. input' \in Chars /\ parsing' \in Outcomes
    BY <1>1, <1>2 DEF ParserInv
  <2> QED
    BY <1>6, <2>1, <2>2, InvAfter
<1>15. Falls
  <2>1. Len(input') = Len(P!Line) - 1
    BY <1>1, <1>2
  <2>2. Len(P!Line) \in Nat /\ Len(input) \in Nat /\ Len(P!Line) <= Len(input)
    BY <1>2, ParserFacts DEF Chars
  <2>3. Len(input') < Len(input)
    BY ONLY <2>1, <2>2
  <2> QED
    BY <2>3 DEF Falls
<1> QED
  BY <1>6, <1>14, <1>15 DEF Advances

(* A node is given to the element around it, and the input has become less. *)
LEMMA GivesStep ==
  ASSUME ParserInv, P!AtNode, NEW m, P!Give(m, open),
         input' \in Chars, Len(input') < Len(input),
         Sized(constants'), Sized(names'), KeepsPools,
         NConstants' \in Nat, NNames' \in Nat,
         NEW K, Family(K, NConstants', NNames', open, root, parsing),
         m \in Texts(NConstants', NNames')
  PROVE  Advances
<1>1. PICK c \in Nat, n \in Nat : c = NConstants' /\ n = NNames'
  OBVIOUS
<1>2. Family(K, c, n, open, root, parsing) /\ m \in Texts(c, n) \cup Elements(K, c, n)
  BY <1>1
<1>3. Wait(open, Len(open)) /\ parsing = "parsing" /\ Size0(open, parsing) = Len(open) + 1
  BY <1>2, AtNodeWait
<1>4. WellMade(K, c, n) /\ root \in Seq(K) /\ open \in Seq(Elements(K, c, n))
  BY <1>2 DEF Family
<1>5. /\ \E K2 : Family(K2, c, n, open', root', parsing')
      /\ parsing' \in { "parsing", "parsed" }
      /\ Size0(open', parsing') \in Nat
      /\ Size0(open', parsing') <= Len(open) + 1
  BY <1>2, <1>3, <1>4, Gives
<1>6. ParserInv'
  BY <1>1, <1>5, InvAfter DEF Outcomes
<1>7. Falls
  BY DEF Falls
<1> QED
  BY <1>6, <1>7 DEF Advances

LEMMA TextLineParts ==
  ASSUME ParserInv, P!CharAt(P!Line, 1) # "eos"
  PROVE  /\ P!Trim(P!TextLine.split) \in Chars /\ P!TextLine.rest \in Chars
         /\ Len(P!TextLine.rest) < Len(input)
<1>1. /\ P!Line \in Chars /\ Len(P!Line) <= Len(input)
      /\ Len(P!Line) >= 1
  BY LinePart, FirstChar
<1>2. PICK rest : rest = P!Drop(P!Line, 1)
  OBVIOUS
<1>3. rest \in Chars /\ Len(rest) = Len(P!Line) - 1
  <2>1. P!Drop(P!Line, 1) \in Chars
        /\ Len(P!Drop(P!Line, 1)) = IF 1 > Len(P!Line) THEN 0 ELSE Len(P!Line) - 1
    BY <1>1, Cut
  <2>2. Len(P!Line) \in Nat
    BY <1>1 DEF Chars
  <2> QED
    BY <1>1, <1>2, <2>1, <2>2
<1>4. PICK line : line = P!Trim(rest)
  OBVIOUS
<1>5. line \in Chars /\ Len(line) <= Len(rest)
  BY <1>3, <1>4, Trimmed
<1>6. /\ P!SplitAt(line, "nl").split \in Chars /\ P!SplitAt(line, "nl").rest \in Chars
      /\ Len(P!SplitAt(line, "nl").rest) <= Len(line)
  BY <1>5, Split
<1>7. P!TextLine = P!SplitAt(line, "nl")
  BY <1>2, <1>4 DEF P!TextLine
<1>8. P!Trim(P!TextLine.split) \in Chars
  BY <1>6, <1>7, Trimmed
<1>9. Len(P!TextLine.rest) < Len(input)
  <2>1. Len(P!TextLine.rest) \in Nat /\ Len(line) \in Nat /\ Len(rest) \in Nat
        /\ Len(P!Line) \in Nat /\ Len(input) \in Nat
    BY <1>1, <1>3, <1>5, <1>6, <1>7, ParserFacts DEF Chars
  <2> QED
    BY <1>1, <1>3, <1>5, <1>6, <1>7, <2>1
<1> QED
  BY <1>6, <1>7, <1>8, <1>9

LEMMA ReadItems ==
  ASSUME NEW s \in Chars, ~P!Raises(P!Items(s))
  PROVE  P!Items(s) \in Seq(GoodItems)
BY ItemsType, Unraised

LEMMA ParseTextStep ==
  ASSUME Hashes, ParserInv, P!ParseText
  PROVE  Advances
<1>1. P!AtNode /\ P!CharAt(P!Line, 1) # "eos"
  BY DEF P!ParseText
<1>2. /\ P!Trim(P!TextLine.split) \in Chars /\ P!TextLine.rest \in Chars
      /\ Len(P!TextLine.rest) < Len(input)
  BY <1>1, TextLineParts
<1>3. PICK items : items = P!Items(P!Trim(P!TextLine.split))
  OBVIOUS
<1>4. PICK got : got = P!Interned(items)
  OBVIOUS
<1>5. /\ ~P!Raises(items) /\ input' = P!TextLine.rest /\ P!Keep(got)
      /\ P!Give(P!Text(got.ids), open)
  BY <1>3, <1>4, Zenon DEF P!ParseText
<1>6. items \in Seq(GoodItems)
  BY <1>2, <1>3, <1>5, ReadItems
<1>7. /\ Sized(constants') /\ Sized(names') /\ KeepsPools
      /\ NConstants' \in Nat /\ NNames' \in Nat
      /\ \A K : Family(K, NConstants, NNames, open, root, parsing) =>
                  Family(K, NConstants', NNames', open, root, parsing)
      /\ got.ids \in Seq(Refs(NConstants', NNames'))
  BY <1>4, <1>5, <1>6, KeptItems
<1>8. PICK K : Family(K, NConstants, NNames, open, root, parsing)
  BY DEF ParserInv
<1>9. Family(K, NConstants', NNames', open, root, parsing)
  BY <1>7, <1>8
<1>10. P!Text(got.ids) \in Texts(NConstants', NNames')
  BY <1>7 DEF P!Text, Texts
<1>11. PICK m : m = P!Text(got.ids)
  OBVIOUS
<1>12. input' \in Chars /\ Len(input') < Len(input)
  BY <1>2, <1>5
<1>13. P!Give(m, open) /\ m \in Texts(NConstants', NNames')
  BY <1>5, <1>10, <1>11
<1> QED
  BY <1>1, <1>7, <1>9, <1>12, <1>13, GivesStep

LEMMA ErrorStep ==
  ASSUME ParserInv, parsing = "parsing", P!Error
  PROVE  Advances
BY StopsStep DEF P!Error

LEMMA GivesUpStep ==
  ASSUME ParserInv,
         P!TextRaises \/ P!WildWrite \/ P!AttributeRaises \/ P!ValueNeverEnds
           \/ P!ContentRaises
  PROVE  Advances
<1>1. parsing = "parsing"
  BY Zenon DEF P!TextRaises, P!WildWrite, P!AttributeRaises, P!ValueNeverEnds,
               P!ContentRaises, P!AtNode, P!At
<1>2. CASE P!TextRaises
  BY <1>1, <1>2, ErrorStep DEF P!TextRaises
<1>3. CASE P!WildWrite
  BY <1>1, <1>3, StopsStep DEF P!WildWrite
<1>4. CASE P!AttributeRaises
  BY <1>1, <1>4, ErrorStep DEF P!AttributeRaises
<1>5. CASE P!ValueNeverEnds
  BY <1>1, <1>5, StopsStep DEF P!ValueNeverEnds
<1>6. CASE P!ContentRaises
  BY <1>1, <1>6, ErrorStep DEF P!ContentRaises
<1> QED
  BY <1>2, <1>3, <1>4, <1>5, <1>6

LEMMA NoNodeStep ==
  ASSUME ParserInv, P!NoNode
  PROVE  Advances
<1>1. /\ P!AtNode /\ P!GiveNone(open) /\ UNCHANGED P!pools
      /\ input' = IF P!Indented THEN P!Line ELSE input
  BY DEF P!NoNode
<1>2. input' \in Chars /\ Len(input') <= Len(input)
  <2>1. P!Line \in Chars /\ Len(P!Line) <= Len(input)
    BY LinePart
  <2>2. input \in Chars /\ Len(input) \in Nat
    BY DEF ParserInv, Chars
  <2> QED
    BY <1>1, <2>1, <2>2
<1>3. /\ Sized(constants') /\ Sized(names') /\ KeepsPools
      /\ NConstants' = NConstants /\ NNames' = NNames
  BY <1>1, SamePools
<1>4. PICK K : Family(K, NConstants, NNames, open, root, parsing)
  BY DEF ParserInv
<1>5. NConstants \in Nat /\ NNames \in Nat
  BY ParserFacts
<1>6. Wait(open, Len(open)) /\ parsing = "parsing" /\ Size0(open, parsing) = Len(open) + 1
  BY <1>1, <1>4, <1>5, AtNodeWait
<1>7. /\ WellMade(K, NConstants, NNames) /\ root \in Seq(K)
      /\ open \in Seq(Elements(K, NConstants, NNames))
  BY <1>4 DEF Family
<1>8. /\ \E K2 : Family(K2, NConstants, NNames, open', root', parsing')
      /\ parsing' \in Outcomes
      /\ Size0(open', parsing') \in Nat
      /\ Size0(open', parsing') <= Len(open)
  <2>1. PICK c \in Nat, n \in Nat : c = NConstants /\ n = NNames
    BY <1>5
  <2>2. /\ WellMade(K, c, n) /\ root \in Seq(K) /\ open \in Seq(Elements(K, c, n))
    BY <1>7, <2>1
  <2>3. /\ \E K2 : Family(K2, c, n, open', root', parsing')
        /\ parsing' \in Outcomes
        /\ Size0(open', parsing') \in Nat
        /\ Size0(open', parsing') <= Len(open)
    BY <1>1, <1>6, <2>2, GivesNone
  <2> QED
    BY <2>1, <2>3
<1>9. ParserInv'
  BY <1>2, <1>3, <1>8, InvAfter
<1>10. Falls
  <2>1. Len(open) \in Nat
    BY <1>4, ParserFacts
  <2>2. Size0(open', parsing') < Size0(open, parsing)
    BY <1>6, <1>8, <2>1
  <2>3. Len(input') \in Nat /\ Len(input) \in Nat
    BY <1>2 DEF ParserInv, Chars
  <2> QED
    BY <1>2, <2>2, <2>3 DEF Falls
<1> QED
  BY <1>3, <1>9, <1>10 DEF Advances

(* One field of an element is changed.                                      *)
LEMMA Changed ==
  ASSUME NEW K, NEW c \in Nat, NEW n \in Nat, NEW e \in Elements(K, c, n)
  PROVE  /\ \A ids \in Seq(Refs(c, n)) :
              /\ [e EXCEPT !.id = ids] \in Elements(K, c, n)
              /\ [e EXCEPT !.id = ids].todo = e.todo
              /\ [e EXCEPT !.classes = e.classes \o ids] \in Elements(K, c, n)
              /\ [e EXCEPT !.classes = e.classes \o ids].todo = e.todo
         /\ \A todo \in Stages :
              /\ [e EXCEPT !.todo = todo] \in Elements(K, c, n)
              /\ [e EXCEPT !.todo = todo].todo = todo
         /\ \A as \in Seq(Attrs(c, n)), todo \in Stages :
              /\ [e EXCEPT !.attributes = as, !.todo = todo] \in Elements(K, c, n)
              /\ [e EXCEPT !.attributes = as, !.todo = todo].todo = todo
         /\ \A a \in Attrs(c, n) :
              /\ [e EXCEPT !.attributes = Append(e.attributes, a)] \in Elements(K, c, n)
              /\ [e EXCEPT !.attributes = Append(e.attributes, a)].todo = e.todo
         /\ \A cs \in Seq(K), todo \in Stages :
              /\ [e EXCEPT !.children = cs, !.todo = todo] \in Elements(K, c, n)
              /\ [e EXCEPT !.children = cs, !.todo = todo].todo = todo
<1>1. PICK kind, tag : kind = { "element" } /\ tag = 1..c
  OBVIOUS
<1>2. PICK S : S = Seq(Refs(c, n))
  OBVIOUS
<1>3. PICK A : A = Seq(Attrs(c, n))
  OBVIOUS
<1>4. PICK C : C = Seq(K)
  OBVIOUS
<1>5. PICK T : T = Stages
  OBVIOUS
<1>6. Elements(K, c, n) =
        [kind : kind, tag : tag, void : BOOLEAN, id : S, classes : S, attributes : A,
         children : C, todo : T]
  BY <1>1, <1>2, <1>3, <1>4, <1>5, Zenon DEF Elements
<1>7. e \in [kind : kind, tag : tag, void : BOOLEAN, id : S, classes : S, attributes : A,
             children : C, todo : T]
  BY <1>6
<1>8. \A ids \in S : e.classes \o ids \in S
  <2>1. e.classes \in S
    BY ONLY <1>7
  <2>2. \A x, y \in Seq(Refs(c, n)) : x \o y \in Seq(Refs(c, n))
    OBVIOUS
  <2> QED
    BY <1>2, <2>1, <2>2
<1>9. \A a \in Attrs(c, n) : Append(e.attributes, a) \in A
  <2>1. e.attributes \in A
    BY ONLY <1>7
  <2>2. \A x \in Seq(Attrs(c, n)), y \in Attrs(c, n) : Append(x, y) \in Seq(Attrs(c, n))
    OBVIOUS
  <2> QED
    BY <1>3, <2>1, <2>2
<1>10. \A ids \in S :
         /\ [e EXCEPT !.id = ids] \in Elements(K, c, n)
         /\ [e EXCEPT !.id = ids].todo = e.todo
         /\ [e EXCEPT !.classes = ids] \in Elements(K, c, n)
         /\ [e EXCEPT !.classes = ids].todo = e.todo
  BY ONLY <1>6, <1>7
<1>11. \A as \in A :
         /\ [e EXCEPT !.attributes = as] \in Elements(K, c, n)
         /\ [e EXCEPT !.attributes = as].todo = e.todo
  BY ONLY <1>6, <1>7
<1>12. \A todo \in T :
         /\ [e EXCEPT !.todo = todo] \in Elements(K, c, n)
         /\ [e EXCEPT !.todo = todo].todo = todo
  BY ONLY <1>6, <1>7
<1>13. \A as \in A, todo \in T :
         /\ [e EXCEPT !.attributes = as, !.todo = todo] \in Elements(K, c, n)
         /\ [e EXCEPT !.attributes = as, !.todo = todo].todo = todo
  BY ONLY <1>6, <1>7
<1>14. \A cs \in C, todo \in T :
         /\ [e EXCEPT !.children = cs, !.todo = todo] \in Elements(K, c, n)
         /\ [e EXCEPT !.children = cs, !.todo = todo].todo = todo
  BY ONLY <1>6, <1>7
<1>15. \A ids \in S :
         /\ [e EXCEPT !.classes = e.classes \o ids] \in Elements(K, c, n)
         /\ [e EXCEPT !.classes = e.classes \o ids].todo = e.todo
  BY ONLY <1>8, <1>10
<1>16. \A a \in Attrs(c, n) :
         /\ [e EXCEPT !.attributes = Append(e.attributes, a)] \in Elements(K, c, n)
         /\ [e EXCEPT !.attributes = Append(e.attributes, a)].todo = e.todo
  BY ONLY <1>9, <1>11
<1> QED
  BY ONLY <1>2, <1>3, <1>4, <1>5, <1>10, <1>12, <1>13, <1>14, <1>15, <1>16

(* What is behind the first two characters.                                 *)
LEMMA SecondChar ==
  ASSUME ParserInv, P!CharAt(input, 2) # "eos"
  PROVE  /\ P!Drop(input, 2) \in Chars /\ Len(P!Drop(input, 2)) < Len(input)
         /\ P!CharAt(input, 2) \in STRING
<1>1. input \in Chars /\ 2 \in Nat
  BY DEF ParserInv
<1>2. 2 \in 1..Len(input)
  BY <1>1, InString
<1>3. Len(input) \in Nat /\ Len(input) >= 2
  BY <1>1, <1>2 DEF Chars
<1>4. /\ P!Drop(input, 2) \in Chars
      /\ Len(P!Drop(input, 2)) = IF 2 > Len(input) THEN 0 ELSE Len(input) - 2
  BY <1>1, Cut
<1>5. P!CharAt(input, 2) = input[2] /\ input[2] \in STRING
  <2>1. input \in Seq(STRING)
    BY <1>1 DEF Chars
  <2>2. 2 \in DOMAIN input
    BY <2>1, <1>2
  <2> QED
    BY <2>1, <2>2 DEF P!CharAt
<1> QED
  BY <1>3, <1>4, <1>5

(* #id and .class                                                           *)
LEMMA ReadShortStep ==
  ASSUME Hashes, ParserInv, P!ReadId \/ P!ReadClass
  PROVE  Advances
<1>1. PICK w : w = P!CharAt(input, 2)
  OBVIOUS
<1>2. PICK items : items = << P!Constant(<< w >>) >>
  OBVIOUS
<1>3. PICK got : got = P!Interned(items)
  OBVIOUS
<1>4. /\ P!At("name") /\ w \in Words
      /\ \/ P!Update([P!Inner EXCEPT !.id = got.ids])
         \/ P!Update([P!Inner EXCEPT !.classes = P!Inner.classes \o got.ids])
      /\ input' = P!Drop(input, 2) /\ P!Keep(got) /\ root' = root /\ parsing' = parsing
  <2>1. CASE P!ReadId
    BY <1>1, <1>2, <1>3, <2>1, Zenon DEF P!ReadId
  <2>2. CASE P!ReadClass
    BY <1>1, <1>2, <1>3, <2>2, Zenon DEF P!ReadClass
  <2> QED
    BY <2>1, <2>2
<1>5. P!CharAt(input, 2) # "eos"
  BY <1>1, <1>4, WordsAssumption
<1>6. /\ P!Drop(input, 2) \in Chars /\ Len(P!Drop(input, 2)) < Len(input)
      /\ P!CharAt(input, 2) \in STRING
  BY <1>5, SecondChar
<1>7. items \in Seq(GoodItems)
  BY <1>1, <1>2, <1>6, OneWord
<1>8. /\ Sized(constants') /\ Sized(names') /\ KeepsPools
      /\ NConstants' \in Nat /\ NNames' \in Nat
      /\ \A K : Family(K, NConstants, NNames, open, root, parsing) =>
                  Family(K, NConstants', NNames', open, root, parsing)
      /\ got.ids \in Seq(Refs(NConstants', NNames'))
  BY <1>3, <1>4, <1>7, KeptItems
<1>9. PICK K : Family(K, NConstants, NNames, open, root, parsing)
  BY DEF ParserInv
<1>10. Family(K, NConstants', NNames', open, root, parsing)
  BY <1>8, <1>9
<1>11. PICK c \in Nat, n \in Nat : c = NConstants' /\ n = NNames'
  BY <1>8
<1>12. Family(K, c, n, open, root, parsing) /\ "name" \in Stages
  BY <1>10, <1>11 DEF Stages
<1>13. P!Inner \in Elements(K, c, n) /\ P!Inner.todo = "name"
  BY <1>4, <1>12, AtStage
<1>14. \E e : P!Update(e) /\ e \in Elements(K, c, n)
  <2>1. got.ids \in Seq(Refs(c, n))
    BY <1>8, <1>11
  <2>2. CASE P!Update([P!Inner EXCEPT !.id = got.ids])
    <3>1. [P!Inner EXCEPT !.id = got.ids] \in Elements(K, c, n)
      BY <1>13, <2>1, Changed
    <3> QED
      BY <2>2, <3>1
  <2>3. CASE P!Update([P!Inner EXCEPT !.classes = P!Inner.classes \o got.ids])
    <3>1. [P!Inner EXCEPT !.classes = P!Inner.classes \o got.ids] \in Elements(K, c, n)
      BY <1>13, <2>1, Changed
    <3> QED
      BY <2>3, <3>1
  <2> QED
    BY <1>4, <2>2, <2>3
<1>15. PICK e : P!Update(e) /\ e \in Elements(K, NConstants', NNames')
  BY <1>11, <1>14
<1>16. /\ input' \in Chars /\ Len(input') < Len(input) /\ Len(input') <= Len(input)
       /\ UNCHANGED << root, parsing >>
  <2>1. input' \in Chars /\ Len(input') < Len(input)
    BY <1>4, <1>6
  <2>2. Len(input') \in Nat /\ Len(input) \in Nat
    BY <2>1, ParserFacts DEF Chars
  <2> QED
    BY <1>4, <2>1, <2>2
<1> QED
  BY <1>4, <1>8, <1>10, <1>12, <1>15, <1>16, UpdateStep

(* The attributes that an id and classes stand for: their keys ...          *)
ShortOf(id, classes) ==
  (IF id = <<>> THEN <<>> ELSE << << "id", id >> >>)
    \o (IF classes = <<>> THEN <<>> ELSE << << "class", classes >> >>)

KeysOf(short) == [i \in DOMAIN short |-> P!Constant(<< short[i][1] >>)]

LEMMA ShortAttributes ==
  ASSUME NEW R, NEW id \in Seq(R), NEW classes \in Seq(R), NEW short,
         short = ShortOf(id, classes)
  PROVE  /\ short \in Seq(Words \X Seq(R))
         /\ KeysOf(short) \in Seq(GoodItems) /\ Len(KeysOf(short)) = Len(short)
<1>1. PICK S : S = Words \X Seq(R)
  OBVIOUS
<1>2. << "id", id >> \in S /\ << "class", classes >> \in S
  BY <1>1, WordsAssumption
<1>3. short \in Seq(S)
  <2>1. (IF id = <<>> THEN <<>> ELSE << << "id", id >> >>) \in Seq(S)
    BY <1>2, OneOf
  <2>2. (IF classes = <<>> THEN <<>> ELSE << << "class", classes >> >>) \in Seq(S)
    BY <1>2, OneOf
  <2>3. \A s, t \in Seq(S) : s \o t \in Seq(S)
    OBVIOUS
  <2> QED
    BY <2>1, <2>2, <2>3 DEF ShortOf
<1>4. \A i \in DOMAIN short : P!Constant(<< short[i][1] >>) \in GoodItems
  <2> SUFFICES ASSUME NEW i \in DOMAIN short
               PROVE  P!Constant(<< short[i][1] >>) \in GoodItems
    OBVIOUS
  <2>1. short[i] \in Words \X Seq(R)
    BY <1>1, <1>3
  <2>2. short[i][1] \in STRING
    BY <2>1, WordsAssumption
  <2>3. << short[i][1] >> \in Chars \ { <<>> }
    BY <2>2, OneOf DEF Chars
  <2> QED
    BY <2>3 DEF P!Constant, GoodItems
<1>5. Len(short) \in Nat /\ DOMAIN short = 1..Len(short)
  BY <1>3
<1> DEFINE keys == KeysOf(short)
<1>6. keys \in Seq(GoodItems) /\ Len(keys) = Len(short)
  <2>1. PICK k : k = keys
    OBVIOUS
  <2>2. k \in [1..Len(short) -> GoodItems]
    BY <1>4, <1>5, <2>1 DEF KeysOf
  <2>3. k \in Seq(GoodItems)
    BY <1>5, <2>2
  <2>4. Len(k) = Len(short)
    BY <1>5, <2>2, <2>3
  <2> QED
    BY <2>1, <2>3, <2>4
<1> QED
  BY <1>1, <1>3, <1>6

(* ... and themselves.                                                      *)
LEMMA ShortAre ==
  ASSUME NEW c \in Nat, NEW n \in Nat,
         NEW short \in Seq(Words \X Seq(Refs(c, n))), NEW ids \in Seq(Refs(c, n)),
         Len(ids) = Len(short), \A i \in 1..Len(short) : ids[i].type = "constant"
  PROVE  [i \in DOMAIN short |-> [name |-> ids[i].id, contents |-> short[i][2]]]
           \in Seq(Attrs(c, n))
<1>1. Len(short) \in Nat /\ DOMAIN short = 1..Len(short)
  OBVIOUS
<1>2. \A i \in DOMAIN short : [name |-> ids[i].id, contents |-> short[i][2]] \in Attrs(c, n)
  <2> SUFFICES ASSUME NEW i \in 1..Len(short)
               PROVE  [name |-> ids[i].id, contents |-> short[i][2]] \in Attrs(c, n)
    BY <1>1
  <2>1. ids[i] \in Refs(c, n) /\ ids[i].type = "constant"
    OBVIOUS
  <2>2. ids[i].id \in 1..c
    BY <2>1 DEF Refs
  <2>3. short[i][2] \in Seq(Refs(c, n))
    <3>1. short[i] \in Words \X Seq(Refs(c, n))
      BY <1>1
    <3> QED
      BY ONLY <3>1
  <2> QED
    BY <2>2, <2>3 DEF Attrs
<1>3. PICK A : A = Attrs(c, n)
  OBVIOUS
<1>4. PICK as : as = [i \in DOMAIN short |-> [name |-> ids[i].id, contents |-> short[i][2]]]
  OBVIOUS
<1>5. as \in [1..Len(short) -> A]
  BY <1>1, <1>2, <1>3, <1>4
<1>6. as \in Seq(A)
  <2>1. \A k \in Nat : [1..k -> A] \subseteq Seq(A)
    OBVIOUS
  <2> QED
    BY ONLY <1>1, <1>5, <2>1
<1> QED
  BY <1>3, <1>4, <1>6

Attributed(e, as, todo) == [e EXCEPT !.attributes = as, !.todo = todo]

LEMMA AttributedElement ==
  ASSUME NEW K, NEW c, NEW n, NEW e \in Elements(K, c, n),
         NEW as \in Seq(Attrs(c, n)), NEW todo \in Stages
  PROVE  Attributed(e, as, todo) \in Elements(K, c, n) /\ Attributed(e, as, todo).todo = todo
<1>1. PICK kind, tag : kind = { "element" } /\ tag = 1..c
  OBVIOUS
<1>2. PICK S, A, C, T :
        S = Seq(Refs(c, n)) /\ A = Seq(Attrs(c, n)) /\ C = Seq(K) /\ T = Stages
  OBVIOUS
<1>3. Elements(K, c, n) =
        [kind : kind, tag : tag, void : BOOLEAN, id : S, classes : S, attributes : A,
         children : C, todo : T]
  BY <1>1, <1>2, Zenon DEF Elements
<1>4. e \in [kind : kind, tag : tag, void : BOOLEAN, id : S, classes : S, attributes : A,
             children : C, todo : T]
      /\ as \in A /\ todo \in T
  BY <1>2, <1>3
<1> QED
  BY ONLY <1>3, <1>4 DEF Attributed

LEMMA KeysLength ==
  ASSUME NEW S, NEW s \in Seq(S)
  PROVE  Len(KeysOf(s)) = Len(s)
<1>1. Len(s) \in Nat /\ DOMAIN s = 1..Len(s)
  OBVIOUS
<1> QED
  BY <1>1 DEF KeysOf

LEMMA EndNameStep ==
  ASSUME Hashes, ParserInv, P!EndName
  PROVE  Advances
<1> DEFINE Short(key, contents) ==
             IF contents = <<>> THEN <<>> ELSE << << key, contents >> >>
           short0 == Short("id", P!Inner.id) \o Short("class", P!Inner.classes)
           items0 == [i \in DOMAIN short0 |-> P!Constant(<< short0[i][1] >>)]
           keys0  == P!Interned(items0)
           as0    == [i \in DOMAIN short0 |->
                       [name |-> keys0.ids[i].id, contents |-> short0[i][2]]]
           todo0  == IF P!CharAt(input, 1) = "(" THEN "attributes" ELSE "content"
<1>1. /\ P!At("name") /\ P!Update([P!Inner EXCEPT !.attributes = as0, !.todo = todo0])
      /\ input' = (IF P!CharAt(input, 1) = "(" THEN Tail(input) ELSE input)
      /\ P!Keep(keys0) /\ UNCHANGED << root, parsing >>
  BY Zenon DEF P!EndName
<1>2. PICK short : short = short0
  OBVIOUS
<1>3. PICK items : items = items0 /\ items = KeysOf(short)
  BY <1>2, Zenon DEF KeysOf
<1>4. PICK keys : keys = keys0 /\ keys = P!Interned(items)
  BY <1>3, Zenon
<1>5. PICK as, todo :
        /\ as = as0 /\ todo = todo0
        /\ as = [i \in DOMAIN short |-> [name |-> keys.ids[i].id, contents |-> short[i][2]]]
        /\ todo = IF P!CharAt(input, 1) = "(" THEN "attributes" ELSE "content"
  BY <1>2, <1>4, Zenon
<1>6. /\ P!At("name") /\ P!Update(Attributed(P!Inner, as, todo))
      /\ input' = (IF P!CharAt(input, 1) = "(" THEN Tail(input) ELSE input)
      /\ P!Keep(keys) /\ UNCHANGED << root, parsing >>
  BY <1>1, <1>4, <1>5, Zenon DEF Attributed
<1>7. \A R : P!Inner.id \in Seq(R) /\ P!Inner.classes \in Seq(R) =>
              /\ short \in Seq(Words \X Seq(R))
              /\ items \in Seq(GoodItems) /\ Len(items) = Len(short)
  <2> SUFFICES ASSUME NEW R, P!Inner.id \in Seq(R), P!Inner.classes \in Seq(R)
               PROVE  /\ short \in Seq(Words \X Seq(R))
                      /\ items \in Seq(GoodItems) /\ Len(items) = Len(short)
    OBVIOUS
  <2>1. PICK id \in Seq(R), classes \in Seq(R) : id = P!Inner.id /\ classes = P!Inner.classes
    OBVIOUS
  <2>2. short = ShortOf(id, classes)
    BY <1>2, <2>1, Zenon DEF ShortOf
  <2> HIDE DEF short0, items0, keys0, as0, todo0, Short
  <2>3. /\ short \in Seq(Words \X Seq(R))
        /\ KeysOf(short) \in Seq(GoodItems) /\ Len(KeysOf(short)) = Len(short)
    <3>1. \A r : \A i, c \in Seq(r) : \A s : s = ShortOf(i, c) =>
            /\ s \in Seq(Words \X Seq(r))
            /\ KeysOf(s) \in Seq(GoodItems) /\ Len(KeysOf(s)) = Len(s)
      BY ShortAttributes, Zenon
    <3>2. short \in Seq(Words \X Seq(R))
      BY <2>1, <2>2, <3>1, Zenon
    <3>3. KeysOf(short) \in Seq(GoodItems)
      BY <2>1, <2>2, <3>1, Zenon
    <3>4. Len(KeysOf(short)) = Len(short)
      BY ONLY <3>2, KeysLength
    <3> QED
      BY <3>2, <3>3, <3>4
  <2> QED
    BY <1>3, <2>3
<1> HIDE DEF short0, items0, keys0, as0, todo0, Short
<1>8. PICK K : Family(K, NConstants, NNames, open, root, parsing)
  BY DEF ParserInv
<1>9. PICK c0 \in Nat, n0 \in Nat : c0 = NConstants /\ n0 = NNames
  BY ParserFacts
<1>10. "name" \in Stages /\ todo \in Stages
  BY <1>5 DEF Stages
<1>11. P!Inner \in Elements(K, c0, n0)
  <2>1. Family(K, c0, n0, open, root, parsing)
    BY <1>8, <1>9
  <2> QED
    BY <1>6, <1>10, <2>1, AtStage
<1>12. items \in Seq(GoodItems) /\ Len(items) = Len(short)
  <2>1. PICK R : R = Refs(c0, n0)
    OBVIOUS
  <2>2. P!Inner.id \in Seq(R) /\ P!Inner.classes \in Seq(R)
    BY <1>11, <2>1 DEF Elements
  <2> QED
    BY <1>7, <2>2
<1>13. /\ Sized(constants') /\ Sized(names') /\ KeepsPools
       /\ NConstants' \in Nat /\ NNames' \in Nat
       /\ \A L : Family(L, NConstants, NNames, open, root, parsing) =>
                   Family(L, NConstants', NNames', open, root, parsing)
       /\ keys.ids \in Seq(Refs(NConstants', NNames'))
       /\ Len(keys.ids) = Len(items)
       /\ \A i \in 1..Len(items) : keys.ids[i].type = items[i].type
  BY <1>4, <1>6, <1>12, KeptItems
<1>14. PICK c \in Nat, n \in Nat : c = NConstants' /\ n = NNames'
  BY <1>13
<1>15. Family(K, c, n, open, root, parsing)
  BY <1>8, <1>13, <1>14
<1>16. P!Inner \in Elements(K, c, n) /\ P!Inner.todo = "name"
  BY <1>6, <1>10, <1>15, AtStage
<1>17. as \in Seq(Attrs(c, n))
  <2>1. short \in Seq(Words \X Seq(Refs(c, n)))
    <3>1. PICK R : R = Refs(c, n)
      OBVIOUS
    <3>2. P!Inner.id \in Seq(R) /\ P!Inner.classes \in Seq(R)
      BY <1>16, <3>1 DEF Elements
    <3> QED
      BY <1>7, <3>1, <3>2
  <2>2. keys.ids \in Seq(Refs(c, n)) /\ Len(keys.ids) = Len(short)
    BY <1>12, <1>13, <1>14
  <2>3. \A i \in 1..Len(short) : keys.ids[i].type = "constant"
    <3> SUFFICES ASSUME NEW i \in 1..Len(short) PROVE keys.ids[i].type = "constant"
      OBVIOUS
    <3>1. keys.ids[i].type = items[i].type
      BY <1>12, <1>13
    <3>2. i \in DOMAIN short
      BY <2>1
    <3>3. items[i] = P!Constant(<< short[i][1] >>)
      BY <1>3, <3>2 DEF KeysOf
    <3> QED
      BY <3>1, <3>3 DEF P!Constant
  <2>4. PICK ids : ids = keys.ids
    OBVIOUS
  <2>5. ids \in Seq(Refs(c, n)) /\ Len(ids) = Len(short)
        /\ \A i \in 1..Len(short) : ids[i].type = "constant"
    BY <2>2, <2>3, <2>4
  <2>6. [i \in DOMAIN short |-> [name |-> ids[i].id, contents |-> short[i][2]]]
           \in Seq(Attrs(c, n))
    BY <2>1, <2>5, ShortAre
  <2> QED
    BY <1>5, <2>4, <2>6
<1>18. PICK e : e = Attributed(P!Inner, as, todo)
  OBVIOUS
<1>19. e \in Elements(K, c, n) /\ e.todo = todo
  <2>1. P!Inner \in Elements(K, c, n)
    BY <1>16
  <2> QED
    <3>1. Attributed(P!Inner, as, todo) \in Elements(K, c, n)
      BY <1>10, <1>17, <2>1, AttributedElement, Zenon
    <3>2. Attributed(P!Inner, as, todo).todo = todo
      <4>1. PICK x : x = P!Inner /\ x \in Elements(K, c, n)
        BY <2>1
      <4>2. Attributed(x, as, todo).todo = todo
        <5> HIDE DEF as0, todo0
        <5> QED
          BY ONLY <4>1 DEF Attributed, Elements
      <4> QED
        BY <4>1, <4>2
    <3> QED
      BY <1>18, <3>1, <3>2
<1>20. input' \in Chars /\ Len(input') <= Len(input)
  <2>1. input \in Chars /\ Len(input) \in Nat
    BY ParserFacts DEF ParserInv
  <2>2. CASE P!CharAt(input, 1) = "("
    <3>1. P!CharAt(input, 1) # "eos"
      BY <2>2
    <3>2. Tail(input) \in Chars /\ Len(Tail(input)) = Len(input) - 1
      BY <2>1, <3>1, FirstChar
    <3> QED
      BY <1>6, <2>1, <2>2, <3>2
  <2>3. CASE P!CharAt(input, 1) # "("
    BY <1>6, <2>1, <2>3
  <2> QED
    BY <2>2, <2>3
<1>21. Ahead(e.todo) < Ahead("name")
  BY <1>5, <1>19, AheadIs
<1>22. /\ P!Update(e) /\ e \in Elements(K, NConstants', NNames')
       /\ Family(K, NConstants', NNames', open, root, parsing)
  BY <1>6, <1>14, <1>15, <1>18, <1>19
<1> QED
  BY <1>6, <1>10, <1>13, <1>20, <1>21, <1>22, UpdateStep

(* What is read of an attribute is a part of the input.                     *)
LEMMA KeyParts ==
  ASSUME ParserInv, P!HasKey
  PROVE  /\ P!Key \in STRING
         /\ P!AfterKey \in Chars /\ Len(P!AfterKey) < Len(input)
         /\ P!AfterEqual \in Chars /\ Len(P!AfterEqual) < Len(input)
<1>1. PICK s : s = P!LTrim(input)
  OBVIOUS
<1>2. s \in Chars /\ Len(s) <= Len(input)
  BY <1>1, LTrimmed DEF ParserInv
<1>3. P!CharAt(s, 1) # "eos" /\ P!Key = P!CharAt(s, 1)
  BY <1>1, WordsAssumption DEF P!HasKey, P!Key
<1>4. s # <<>> /\ Len(s) >= 1 /\ Head(s) \in STRING /\ P!CharAt(s, 1) = Head(s)
  BY <1>2, <1>3, FirstChar
<1>5. PICK t : t = P!Drop(s, 1)
  OBVIOUS
<1>6. t \in Chars /\ Len(t) = IF 1 > Len(s) THEN 0 ELSE Len(s) - 1
  BY <1>2, <1>5, Cut
<1>7. PICK u : u = P!LTrim(t)
  OBVIOUS
<1>8. u \in Chars /\ Len(u) <= Len(t)
  BY <1>6, <1>7, LTrimmed
<1>9. PICK v : v = P!Drop(u, 1)
  OBVIOUS
<1>10. v \in Chars /\ Len(v) = IF 1 > Len(u) THEN 0 ELSE Len(u) - 1
  BY <1>8, <1>9, Cut
<1>11. PICK w : w = P!LTrim(v)
  OBVIOUS
<1>12. w \in Chars /\ Len(w) <= Len(v)
  BY <1>10, <1>11, LTrimmed
<1>13. P!AfterKey = u /\ P!AfterEqual = w
  BY <1>1, <1>5, <1>7, <1>9, <1>11 DEF P!AfterKey, P!AfterEqual
<1>14. /\ Len(input) \in Nat /\ Len(s) \in Nat /\ Len(t) \in Nat /\ Len(u) \in Nat
       /\ Len(v) \in Nat /\ Len(w) \in Nat
  BY <1>2, <1>6, <1>8, <1>10, <1>12, ParserFacts DEF Chars
<1>15. Len(u) < Len(input) /\ Len(w) < Len(input)
  BY ONLY <1>2, <1>4, <1>6, <1>8, <1>10, <1>12, <1>14
<1> QED
  BY <1>3, <1>4, <1>8, <1>12, <1>13, <1>15

LEMMA ValueParts ==
  ASSUME ParserInv, P!HasValue
  PROVE  /\ P!Val.split \in Chars /\ P!Val.rest \in Chars
         /\ Len(P!Val.rest) < Len(input)
<1>1. P!HasKey
  BY DEF P!HasValue, P!IsAssigned
<1>2. PICK v : v = P!AfterEqual
  OBVIOUS
<1>3. v \in Chars /\ Len(v) < Len(input) /\ Len(input) \in Nat
  BY <1>1, <1>2, KeyParts, ParserFacts
<1>4. CASE P!IsQuoted
  <2>1. Len(v) > 1 /\ v # <<>>
    BY <1>2, <1>4 DEF P!HasValue
  <2>2. PICK t : t = Tail(v)
    OBVIOUS
  <2>3. t \in Chars /\ Len(t) = Len(v) - 1
    <3>1. v \in Seq(STRING)
      BY <1>3 DEF Chars
    <3>2. Tail(v) \in Seq(STRING) /\ Len(Tail(v)) = Len(v) - 1
      BY ONLY <2>1, <3>1
    <3> QED
      BY <2>2, <3>2 DEF Chars
  <2>4. PICK quote : P!Val = P!SplitAt(Tail(P!AfterEqual), quote)
    BY <1>4, Zenon DEF P!Val, P!Quoted
  <2>5. P!Val = P!SplitAt(t, quote)
    BY <1>2, <2>2, <2>4
  <2>6. /\ P!SplitAt(t, quote).split \in Chars /\ P!SplitAt(t, quote).rest \in Chars
        /\ Len(P!SplitAt(t, quote).rest) <= Len(t)
    BY <2>3, Split
  <2>7. Len(P!SplitAt(t, quote).rest) \in Nat /\ Len(t) \in Nat /\ Len(v) \in Nat
    BY <1>3, <2>3, <2>6 DEF Chars
  <2> QED
    BY <1>3, <2>3, <2>5, <2>6, <2>7
<1>5. CASE ~P!IsQuoted
  <2>1. P!RawStop(v) # 0
    BY <1>2, <1>5 DEF P!HasValue
  <2>2. /\ P!RawValue(v).split \in Chars /\ P!RawValue(v).rest \in Chars
        /\ Len(P!RawValue(v).rest) <= Len(v)
    BY <1>3, <2>1, RawParts
  <2>3. P!Val = P!RawValue(v)
    BY <1>2, <1>5 DEF P!Val
  <2>4. Len(P!RawValue(v).rest) \in Nat /\ Len(v) \in Nat
    BY <1>3, <2>2 DEF Chars
  <2> QED
    BY <1>3, <2>2, <2>3, <2>4
<1> QED
  BY <1>4, <1>5

LEMMA UnreadPart ==
  ASSUME ParserInv
  PROVE  P!Unread \in Chars /\ Len(P!Unread) <= Len(input)
<1>1. Len(input) \in Nat
  BY ParserFacts
<1>2. CASE P!IsAssigned
  <2>1. P!Unread = <<>>
    BY <1>2 DEF P!Unread
  <2> QED
    BY <1>1, <2>1 DEF Chars
<1>3. CASE ~P!IsAssigned /\ P!HasKey
  <2>1. P!AfterKey \in Chars /\ Len(P!AfterKey) < Len(input) /\ P!Unread = P!AfterKey
    BY <1>3, KeyParts DEF P!Unread
  <2>2. Len(P!AfterKey) \in Nat
    BY <2>1 DEF Chars
  <2> QED
    BY <1>1, <2>1, <2>2
<1>4. CASE ~P!IsAssigned /\ ~P!HasKey
  <2>1. P!Unread = P!LTrim(input)
    BY <1>4 DEF P!Unread
  <2> QED
    BY <2>1, LTrimmed DEF ParserInv
<1> QED
  BY <1>2, <1>3, <1>4

LEMMA ReadAttributeStep ==
  ASSUME Hashes, ParserInv, P!ReadAttribute
  PROVE  Advances
<1>1. PICK items : items = P!Items(P!Val.split)
  OBVIOUS
<1>2. PICK all : all = << P!Constant(<< P!Key >>) >> \o items
  OBVIOUS
<1>3. PICK got : got = P!Interned(all)
  OBVIOUS
<1>4. /\ P!At("attributes") /\ P!HasValue /\ ~P!Raises(items)
      /\ P!Update([P!Inner EXCEPT !.attributes =
           Append(P!Inner.attributes, [name |-> Head(got.ids).id, contents |-> Tail(got.ids)])])
      /\ input' = P!Val.rest /\ P!Keep(got) /\ root' = root /\ parsing' = parsing
  BY <1>1, <1>2, <1>3, Zenon DEF P!ReadAttribute
<1>5. /\ P!Val.split \in Chars /\ P!Val.rest \in Chars /\ Len(P!Val.rest) < Len(input)
      /\ P!Key \in STRING
  BY <1>4, ValueParts, KeyParts DEF P!HasValue, P!IsAssigned
<1>6. items \in Seq(GoodItems)
  BY <1>1, <1>4, <1>5, ReadItems
<1>7. PICK first \in Seq(GoodItems) :
        first = << P!Constant(<< P!Key >>) >> /\ Len(first) = 1
          /\ first[1].type = "constant"
  <2>1. P!Constant(<< P!Key >>).type = "constant"
    BY DEF P!Constant
  <2>2. << P!Constant(<< P!Key >>) >> \in Seq(GoodItems)
        /\ Len(<< P!Constant(<< P!Key >>) >>) = 1
    BY <1>5, OneWord
  <2> QED
    BY <2>1, <2>2
<1>8. /\ all \in Seq(GoodItems) /\ Len(all) >= 1 /\ Len(all) \in Nat
      /\ all[1].type = "constant"
  <2>1. all = first \o items
    BY <1>2, <1>7
  <2>2. PICK S : S = GoodItems
    OBVIOUS
  <2>3. first \in Seq(S) /\ items \in Seq(S)
    BY <1>6, <2>2
  <2>4. all \in Seq(S) /\ Len(all) >= 1 /\ Len(all) \in Nat /\ all[1] = first[1]
    BY ONLY <1>7, <2>1, <2>3
  <2> QED
    BY <1>7, <2>2, <2>4
<1>9. /\ Sized(constants') /\ Sized(names') /\ KeepsPools
      /\ NConstants' \in Nat /\ NNames' \in Nat
      /\ \A K : Family(K, NConstants, NNames, open, root, parsing) =>
                  Family(K, NConstants', NNames', open, root, parsing)
      /\ got.ids \in Seq(Refs(NConstants', NNames'))
      /\ Len(got.ids) = Len(all)
      /\ \A i \in 1..Len(all) : got.ids[i].type = all[i].type
  BY <1>3, <1>4, <1>8, KeptItems
<1>10. PICK K : Family(K, NConstants, NNames, open, root, parsing)
  BY DEF ParserInv
<1>11. PICK c \in Nat, n \in Nat : c = NConstants' /\ n = NNames'
  BY <1>9
<1>12. Family(K, c, n, open, root, parsing) /\ "attributes" \in Stages
  BY <1>9, <1>10, <1>11 DEF Stages
<1>13. P!Inner \in Elements(K, c, n)
  BY <1>4, <1>12, AtStage
<1>14. PICK a : a = [name |-> Head(got.ids).id, contents |-> Tail(got.ids)]
  OBVIOUS
<1>15. a \in Attrs(c, n)
  <2>1. PICK ids, R : ids = got.ids /\ R = Refs(c, n)
    OBVIOUS
  <2>2. ids \in Seq(R) /\ Len(ids) >= 1
    BY <1>8, <1>9, <1>11, <2>1
  <2>3. Head(ids) = ids[1] /\ ids[1] \in R /\ Tail(ids) \in Seq(R)
    BY ONLY <2>2
  <2>4. ids[1].type = "constant"
    BY <1>8, <1>9, <2>1
  <2>5. Head(ids).id \in 1..c
    BY <2>1, <2>3, <2>4 DEF Refs
  <2>6. a = [name |-> Head(ids).id, contents |-> Tail(ids)]
    BY <1>14, <2>1
  <2> QED
    BY <2>1, <2>3, <2>5, <2>6 DEF Attrs
<1>16. \E e : P!Update(e) /\ e \in Elements(K, c, n)
  <2>1. [P!Inner EXCEPT !.attributes = Append(P!Inner.attributes, a)] \in Elements(K, c, n)
    BY <1>13, <1>15, Changed
  <2>2. P!Update([P!Inner EXCEPT !.attributes = Append(P!Inner.attributes, a)])
    BY <1>4, <1>14, Zenon
  <2> QED
    BY <2>1, <2>2
<1>17. PICK e : P!Update(e) /\ e \in Elements(K, NConstants', NNames')
  BY <1>11, <1>16
<1>18. /\ input' \in Chars /\ Len(input') < Len(input) /\ Len(input') <= Len(input)
       /\ UNCHANGED << root, parsing >>
  <2>1. input' \in Chars /\ Len(input') < Len(input)
    BY <1>4, <1>5
  <2>2. Len(input') \in Nat /\ Len(input) \in Nat
    BY <2>1, ParserFacts DEF Chars
  <2> QED
    BY <1>4, <2>1, <2>2
<1>19. Family(K, NConstants', NNames', open, root, parsing)
  BY <1>9, <1>10
<1> QED
  BY <1>4, <1>9, <1>12, <1>17, <1>18, <1>19, UpdateStep

(* The name that was not an attribute's.                                    *)
LEMMA KeptKeyFacts ==
  ASSUME Hashes, ParserInv, P!KeptKey
  PROVE  /\ Sized(constants') /\ Sized(names') /\ KeepsPools
         /\ NConstants' \in Nat /\ NNames' \in Nat
         /\ \A K : Family(K, NConstants, NNames, open, root, parsing) =>
                     Family(K, NConstants', NNames', open, root, parsing)
<1>1. PICK items : items = IF P!HasKey THEN << P!Constant(<< P!Key >>) >> ELSE <<>>
  OBVIOUS
<1>2. items \in Seq(GoodItems)
  <2>1. CASE P!HasKey
    <3>1. P!Key \in STRING
      BY <2>1, KeyParts
    <3>2. << P!Constant(<< P!Key >>) >> \in Seq(GoodItems)
      BY <3>1, OneWord
    <3> QED
      BY <1>1, <2>1, <3>2
  <2>2. CASE ~P!HasKey
    BY <1>1, <2>2
  <2> QED
    BY <2>1, <2>2
<1>3. P!Keep(P!Interned(items))
  BY <1>1, Zenon DEF P!KeptKey
<1> QED
  BY <1>2, <1>3, KeptItems

LEMMA EndAttributesStep ==
  ASSUME Hashes, ParserInv, P!EndAttributes
  PROVE  Advances
<1>1. /\ P!At("attributes") /\ P!CharAt(P!Unread, 1) = ")"
      /\ P!Update([P!Inner EXCEPT !.todo = "content"])
      /\ input' = Tail(P!Unread) /\ P!KeptKey /\ UNCHANGED << root, parsing >>
  BY DEF P!EndAttributes, P!NoAttribute
<1>2. /\ Sized(constants') /\ Sized(names') /\ KeepsPools
      /\ NConstants' \in Nat /\ NNames' \in Nat
      /\ \A K : Family(K, NConstants, NNames, open, root, parsing) =>
                  Family(K, NConstants', NNames', open, root, parsing)
  BY <1>1, KeptKeyFacts
<1>3. PICK K : Family(K, NConstants, NNames, open, root, parsing)
  BY DEF ParserInv
<1>4. PICK c \in Nat, n \in Nat : c = NConstants' /\ n = NNames'
  BY <1>2
<1>5. /\ Family(K, c, n, open, root, parsing)
      /\ "attributes" \in Stages /\ "content" \in Stages
  BY <1>2, <1>3, <1>4 DEF Stages
<1>6. P!Inner \in Elements(K, c, n)
  BY <1>1, <1>5, AtStage
<1>7. \E e : P!Update(e) /\ e \in Elements(K, c, n)
  <2>1. [P!Inner EXCEPT !.todo = "content"] \in Elements(K, c, n)
    BY <1>5, <1>6, Changed
  <2> QED
    BY <1>1, <2>1
<1>8. PICK e : P!Update(e) /\ e \in Elements(K, NConstants', NNames')
  BY <1>4, <1>7
<1>9. Family(K, NConstants', NNames', open, root, parsing)
  BY <1>2, <1>3
<1>10. input' \in Chars /\ Len(input') < Len(input) /\ Len(input') <= Len(input)
  <2>1. PICK s : s = P!Unread
    OBVIOUS
  <2>2. s \in Chars /\ Len(s) <= Len(input)
    BY <2>1, UnreadPart
  <2>3. P!CharAt(s, 1) # "eos"
    BY <1>1, <2>1
  <2>4. Tail(s) \in Chars /\ Len(Tail(s)) = Len(s) - 1
    BY <2>2, <2>3, FirstChar
  <2>5. Len(s) \in Nat /\ Len(input) \in Nat
    BY <2>2, ParserFacts DEF Chars
  <2>6. Len(Tail(s)) < Len(input) /\ Len(Tail(s)) <= Len(input)
    BY ONLY <2>2, <2>4, <2>5
  <2>7. input' = Tail(s)
    BY <1>1, <2>1
  <2> QED
    BY ONLY <2>4, <2>6, <2>7
<1> QED
  BY <1>1, <1>2, <1>5, <1>8, <1>9, <1>10, UpdateStep

LEMMA BadAttributesStep ==
  ASSUME Hashes, ParserInv, P!BadAttributes
  PROVE  Advances
<1>1. /\ P!At("attributes") /\ input' = P!Unread /\ P!GiveNone(P!Front(open)) /\ P!KeptKey
  BY DEF P!BadAttributes, P!NoAttribute
<1>2. input' \in Chars /\ Len(input') <= Len(input) /\ "attributes" \in Stages
  BY <1>1, UnreadPart DEF Stages
<1>3. /\ Sized(constants') /\ Sized(names') /\ KeepsPools
      /\ NConstants' \in Nat /\ NNames' \in Nat
      /\ \A K : Family(K, NConstants, NNames, open, root, parsing) =>
                  Family(K, NConstants', NNames', open, root, parsing)
  BY <1>1, KeptKeyFacts
<1> QED
  BY <1>1, <1>2, <1>3, ForgetsStep

LEMMA BadNameStep ==
  ASSUME ParserInv, P!BadName
  PROVE  Advances
<1>1. PICK rest : P!At("name") /\ P!NodeFails(rest) /\ rest \in Chars /\ Len(rest) <= Len(input)
  <2>1. Len(input) \in Nat /\ input \in Chars
    BY ParserFacts DEF ParserInv
  <2>2. P!CharAt(input, 1) # "eos" =>
          Tail(input) \in Chars /\ Len(Tail(input)) <= Len(input)
    <3> SUFFICES ASSUME P!CharAt(input, 1) # "eos"
                 PROVE  Tail(input) \in Chars /\ Len(Tail(input)) <= Len(input)
      OBVIOUS
    <3>1. Tail(input) \in Chars /\ Len(Tail(input)) = Len(input) - 1
      BY <2>1, FirstChar
    <3> QED
      BY <2>1, <3>1
  <2>4. P!At("name")
    BY DEF P!BadName
  <2>5. CASE /\ P!CharAt(input, 1) = "#"
             /\ P!NodeFails(IF P!Inner.id # <<>> THEN input ELSE Tail(input))
    <3>1. CASE P!Inner.id # <<>>
      <4>1. P!NodeFails(input)
        BY <2>5, <3>1
      <4> QED
        BY <2>1, <2>4, <4>1
    <3>2. CASE P!Inner.id = <<>>
      <4>1. P!NodeFails(Tail(input))
        BY <2>5, <3>2
      <4>2. P!CharAt(input, 1) # "eos"
        BY <2>5
      <4> QED
        BY <2>2, <2>4, <4>1, <4>2
    <3> QED
      BY <3>1, <3>2
  <2>6. CASE P!CharAt(input, 1) = "." /\ P!NodeFails(Tail(input))
    <3>1. P!CharAt(input, 1) # "eos"
      BY <2>6
    <3> QED
      BY <2>2, <2>4, <2>6, <3>1
  <2> QED
    BY <2>5, <2>6, Zenon DEF P!BadName
<1>2. input' = rest /\ P!GiveNone(P!Front(open)) /\ UNCHANGED P!pools
  BY <1>1 DEF P!NodeFails, P!BadName
<1>3. /\ Sized(constants') /\ Sized(names') /\ KeepsPools
      /\ NConstants' = NConstants /\ NNames' = NNames
  BY <1>2, SamePools
<1>4. NConstants \in Nat /\ NNames \in Nat
  BY ParserFacts
<1>5. "name" \in Stages /\ input' \in Chars /\ Len(input') <= Len(input)
  BY <1>1, <1>2 DEF Stages
<1>6. \A K : Family(K, NConstants, NNames, open, root, parsing) =>
               Family(K, NConstants', NNames', open, root, parsing)
  BY <1>3
<1>7. NConstants' \in Nat /\ NNames' \in Nat
  BY <1>3, <1>4
<1> QED
  BY <1>1, <1>2, <1>3, <1>5, <1>6, <1>7, ForgetsStep

LEMMA TooManyClassesStep ==
  ASSUME Hashes, ParserInv, P!TooManyClasses
  PROVE  Advances
<1>1. PICK w : w = P!CharAt(input, 2)
  OBVIOUS
<1>2. /\ P!At("name") /\ w \in Words
      /\ input' = P!Drop(input, 2) /\ P!GiveNone(P!Front(open))
      /\ P!Keep(P!Interned(<< P!Constant(<< w >>) >>))
  BY <1>1 DEF P!TooManyClasses, P!NodeFails
<1>3. P!CharAt(input, 2) # "eos" /\ w \in STRING
  BY <1>1, <1>2, WordsAssumption
<1>4. input \in Chars
  BY ParserFacts DEF ParserInv
<1>5. "name" \in Stages /\ input' \in Chars /\ Len(input') <= Len(input)
  <2>1. P!Drop(input, 2) \in Chars /\ Len(P!Drop(input, 2)) < Len(input)
    BY <1>3, <1>4, SecondChar
  <2>2. Len(P!Drop(input, 2)) \in Nat /\ Len(input) \in Nat
    BY <1>4, <2>1 DEF Chars
  <2> QED
    BY <1>2, <2>1, <2>2 DEF Stages
<1>6. PICK items : items = << P!Constant(<< w >>) >> /\ items \in Seq(GoodItems)
  BY <1>3, OneWord
<1>7. P!Keep(P!Interned(items))
  BY <1>2, <1>6
<1>8. /\ Sized(constants') /\ Sized(names') /\ KeepsPools
      /\ NConstants' \in Nat /\ NNames' \in Nat
      /\ \A K : Family(K, NConstants, NNames, open, root, parsing) =>
                  Family(K, NConstants', NNames', open, root, parsing)
  BY <1>6, <1>7, KeptItems
<1> QED
  BY <1>2, <1>5, <1>8, ForgetsStep

(* An element has the first of its children.                                *)
WithChildren(e, children) == [e EXCEPT !.children = children, !.todo = "children"]

LEMMA FilledElement ==
  ASSUME NEW K, NEW c, NEW n, NEW e \in Elements(K, c, n), NEW children \in Seq(K)
  PROVE  /\ WithChildren(e, children) \in Elements(K, c, n)
         /\ WithChildren(e, children).todo = "children"
<1>1. PICK kind, tag : kind = { "element" } /\ tag = 1..c
  OBVIOUS
<1>2. PICK S, A, C, T :
        S = Seq(Refs(c, n)) /\ A = Seq(Attrs(c, n)) /\ C = Seq(K) /\ T = Stages
  OBVIOUS
<1>3. Elements(K, c, n) =
        [kind : kind, tag : tag, void : BOOLEAN, id : S, classes : S, attributes : A,
         children : C, todo : T]
  BY <1>1, <1>2, Zenon DEF Elements
<1>4. e \in [kind : kind, tag : tag, void : BOOLEAN, id : S, classes : S, attributes : A,
             children : C, todo : T]
      /\ children \in C /\ "children" \in T
  BY <1>2, <1>3 DEF Stages
<1> QED
  BY ONLY <1>3, <1>4 DEF WithChildren

LEMMA ReadContentStep ==
  ASSUME Hashes, ParserInv, P!ReadContent
  PROVE  Advances
<1>1. PICK items : items = P!Items(P!Trim(P!Rest.split))
  OBVIOUS
<1>2. PICK got : got = P!Interned(items)
  OBVIOUS
<1>3. PICK children :
        children = IF items = <<>> THEN P!Inner.children
                   ELSE Append(P!Inner.children, P!Text(got.ids))
  OBVIOUS
<1>4. /\ P!At("content") /\ ~P!Raises(items)
      /\ P!Update([P!Inner EXCEPT !.children = IF items = <<>> THEN P!Inner.children
                     ELSE Append(P!Inner.children, P!Text(got.ids)), !.todo = "children"])
      /\ input' = P!Rest.rest /\ P!Keep(got) /\ root' = root /\ parsing' = parsing
  BY <1>1, <1>2, Zenon DEF P!ReadContent
<1>5. /\ P!Rest.split \in Chars /\ P!Rest.rest \in Chars
      /\ Len(P!Rest.rest) <= Len(input)
  BY Split DEF P!Rest, ParserInv
<1>6. items \in Seq(GoodItems)
  <2>1. P!Trim(P!Rest.split) \in Chars
    BY <1>5, Trimmed
  <2> QED
    BY <1>1, <1>4, <2>1, ReadItems
<1>7. /\ Sized(constants') /\ Sized(names') /\ KeepsPools
      /\ NConstants' \in Nat /\ NNames' \in Nat
      /\ \A K : Family(K, NConstants, NNames, open, root, parsing) =>
                  Family(K, NConstants', NNames', open, root, parsing)
      /\ got.ids \in Seq(Refs(NConstants', NNames'))
  BY <1>2, <1>4, <1>6, KeptItems
<1>8. PICK K : Family(K, NConstants, NNames, open, root, parsing)
  BY DEF ParserInv
<1>9. PICK c \in Nat, n \in Nat : c = NConstants' /\ n = NNames'
  BY <1>7
<1>10. PICK m : m = P!Text(got.ids)
  OBVIOUS
<1>11. m \in Texts(c, n)
  BY <1>7, <1>9, <1>10 DEF P!Text, Texts
<1>12. PICK K2 : K2 = K \cup { m }
  OBVIOUS
<1>13. Family(K, c, n, open, root, parsing)
  BY <1>7, <1>8, <1>9
<1>14. Family(K2, c, n, open, root, parsing)
  <2>1. WellMade(K, c, n) /\ m \in Texts(c, n) \cup Elements(K, c, n)
    BY <1>11, <1>13 DEF Family
  <2>2. WellMade(K2, c, n)
    BY <1>12, <2>1, Joins
  <2>3. K \subseteq K2 /\ c <= c /\ n <= n
    BY <1>12
  <2>4. Seq(Elements(K, c, n)) \subseteq Seq(Elements(K2, c, n))
    BY <2>3, ElementsGrow
  <2>5. open \in Seq(Elements(K2, c, n)) /\ root \in Seq(K2)
    <3>1. open \in Seq(Elements(K, c, n)) /\ root \in Seq(K)
      BY <1>13 DEF Family
    <3>2. Seq(K) \subseteq Seq(K2)
      BY <2>3
    <3> QED
      BY <2>4, <3>1, <3>2
  <2>6. /\ Wait(open, Len(open) - 1) /\ (parsing = "parsed" => root # <<>>)
    BY <1>13 DEF Family
  <2> QED
    BY <2>2, <2>5, <2>6 DEF Family
<1>15. "content" \in Stages /\ "children" \in Stages
  BY DEF Stages
<1>16. P!Inner \in Elements(K2, c, n)
  BY <1>4, <1>14, <1>15, AtStage
<1>17. children \in Seq(K2)
  <2>1. PICK old : old = P!Inner.children
    OBVIOUS
  <2>2. old \in Seq(K2)
    BY <1>16, <2>1 DEF Elements
  <2>3. m \in K2
    BY <1>12
  <2>4. Append(old, m) \in Seq(K2)
    BY ONLY <2>2, <2>3
  <2> QED
    BY <1>3, <1>10, <2>1, <2>2, <2>4
<1>18. PICK e : e = WithChildren(P!Inner, children)
  OBVIOUS
<1>19. e \in Elements(K2, c, n) /\ e.todo = "children"
  <2>1. PICK x : x = P!Inner /\ x \in Elements(K2, c, n)
    BY <1>16
  <2>2. WithChildren(x, children) \in Elements(K2, c, n)
        /\ WithChildren(x, children).todo = "children"
    BY <1>17, <2>1, FilledElement
  <2> QED
    BY <1>18, <2>1, <2>2
<1>20. P!Update(e)
  BY <1>3, <1>4, <1>18, Zenon DEF WithChildren
<1>21. e \in Elements(K2, NConstants', NNames')
       /\ Family(K2, NConstants', NNames', open, root, parsing)
  BY <1>9, <1>14, <1>19
<1>22. Ahead(e.todo) < Ahead("content")
  BY <1>19, AheadIs
<1>23. input' \in Chars /\ Len(input') <= Len(input) /\ UNCHANGED << root, parsing >>
  BY <1>4, <1>5
<1> QED
  BY <1>4, <1>7, <1>15, <1>20, <1>21, <1>22, <1>23, UpdateStep

LEMMA ParserStep ==
  ASSUME Hashes, ParserInv, P!Step
  PROVE  Advances
BY StartElementStep, ParseTextStep, GivesUpStep, NoNodeStep, ReadShortStep, BadNameStep,
   TooManyClassesStep, EndNameStep, ReadAttributeStep, EndAttributesStep, BadAttributesStep, ReadContentStep,
   Zenon DEF P!Step

-----------------------------------------------------------------------------
(* A call: the parser's steps are its own, and nothing else touches it.     *)

LEMMA ParserInit ==
  ASSUME Init
  PROVE  ParserInv
<1>1. PICK source : source = Source(function.lines)
  OBVIOUS
<1>2. source \in Chars
  BY <1>1, CallsAssumption DEF Init, Chars
<1>3. /\ input = P!Body(source) /\ open = <<>> /\ root = <<>> /\ parsing = "parsing"
      /\ constants = P!NewPool(FirstSize) /\ names = P!NewPool(FirstSize)
  BY <1>1 DEF Init, P!InitWith
<1>4. input \in Chars
  <2>1. P!IndexOf(source, "---") \in Nat
    <3>1. P!IndexOf(source, "---") \in 0..Len(source)
      BY <1>2, FirstAt DEF Chars
    <3> QED
      BY <3>1
  <2>2. P!Drop(source, P!IndexOf(source, "---")) \in Chars
    BY <1>2, <2>1, Cut
  <2>3. P!LTrim(P!Drop(source, P!IndexOf(source, "---"))) \in Chars
    BY <2>2, LTrimmed
  <2> QED
    BY <1>3, <2>3 DEF P!Body
<1>5. /\ Sized(constants) /\ Sized(names) /\ NConstants = 0 /\ NNames = 0
  <2>1. Sound(P!NewPool(FirstSize), FirstSize) /\ Len(P!NewPool(FirstSize).idxs) = 0
    BY SizeAssumption, EmptyPool
  <2> QED
    BY <1>3, <2>1, SizeAssumption DEF Sized, NConstants, NNames
<1>6. Family({}, NConstants, NNames, open, root, parsing)
  <2>1. WellMade({}, NConstants, NNames)
    BY DEF WellMade
  <2>2. open \in Seq(Elements({}, NConstants, NNames)) /\ root \in Seq({})
    BY <1>3
  <2>3. Wait(open, Len(open) - 1)
    <3>1. Len(open) = 0
      BY <1>3
    <3> QED
      BY <3>1 DEF Wait
  <2>4. parsing # "parsed"
    BY <1>3
  <2> QED
    BY <2>1, <2>2, <2>3, <2>4 DEF Family
<1> QED
  BY <1>3, <1>4, <1>5, <1>6 DEF ParserInv, Outcomes

LEMMA ParserRests ==
  ASSUME ParserInv, UNCHANGED parser
  PROVE  ParserInv' /\ KeepsPools
<1>1. /\ input' = input /\ open' = open /\ constants' = constants /\ names' = names
      /\ root' = root /\ parsing' = parsing
  BY DEF parser
<1>2. /\ Sized(constants') /\ Sized(names') /\ KeepsPools
      /\ NConstants' = NConstants /\ NNames' = NNames
  BY <1>1, SamePools DEF P!pools
<1>3. input' \in Chars /\ parsing' \in Outcomes
  BY <1>1 DEF ParserInv
<1>4. PICK K : Family(K, NConstants, NNames, open, root, parsing)
  BY DEF ParserInv
<1>5. Family(K, NConstants', NNames', open', root', parsing')
  BY <1>1, <1>2, <1>4
<1> QED
  BY <1>2, <1>3, <1>5, InvAfter

LEMMA CallStep ==
  ASSUME [Next]_vars
  PROVE  P!Step \/ UNCHANGED parser
<1>1. CASE Parse
  BY <1>1 DEF Parse
<1>2. CASE Load
  BY <1>2 DEF Load
<1>3. CASE LoadFails
  BY <1>3 DEF LoadFails
<1>4. CASE BindArguments
  BY <1>4 DEF BindArguments
<1>5. CASE BindFails
  BY <1>5 DEF BindFails
<1>6. CASE Rendering
  BY <1>6 DEF Rendering
<1>7. CASE Stop \/ UNCHANGED vars
  BY <1>7 DEF Stop, vars
<1> QED
  BY <1>1, <1>2, <1>3, <1>4, <1>5, <1>6, <1>7 DEF Next

LEMMA ParserAdvances ==
  ASSUME Hashes, ParserInv, [Next]_vars
  PROVE  ParserInv' /\ KeepsPools /\ (UNCHANGED parser \/ Falls)
<1>1. CASE P!Step
  BY <1>1, ParserStep DEF Advances
<1>2. CASE UNCHANGED parser
  BY <1>2, ParserRests
<1> QED
  BY <1>1, <1>2, CallStep

(* Whatever the source, the pools are sound, every number in the tree and   *)
(* in the elements that are open is that of a string, and the elements      *)
(* around the innermost one wait for their children                         *)
(* (muggin.c:83-192, 435-574).                                              *)
THEOREM ParserInvariant ==
  ASSUME Hashes
  PROVE  Spec => []ParserInv
<1>1. Init => ParserInv
  BY ParserInit
<1>2. ParserInv /\ [Next]_vars => ParserInv'
  BY ParserAdvances
<1> QED
  BY <1>1, <1>2, PTL DEF Spec

(* A number keeps its string for as long as there is a parser, however much *)
(* is added and however often the table grows and rehashes                  *)
(* (muggin.c:83-192).                                                       *)
THEOREM NumbersKeepTheirStrings ==
  ASSUME Hashes
  PROVE  Spec => [][KeepsPools]_vars
<1>1. ParserInv /\ [Next]_vars => [KeepsPools]_vars
  BY ParserAdvances
<1> QED
  BY <1>1, ParserInvariant, PTL DEF Spec

(* The parser reads on or finishes what it is at with every step, whatever  *)
(* source it is given (muggin.c:435-574).                                   *)
THEOREM ShrinksCorrect ==
  ASSUME Hashes
  PROVE  Spec => Shrinks
<1>1. ToFinish = Size0(open, parsing)
  BY DEF ToFinish, Size0, P!Inner, P!Last, Last
<1>2. ToFinish' = Size0(open', parsing')
  BY DEF ToFinish, Size0, P!Inner, P!Last, Last
<1>3. ParserInv /\ [Next]_vars =>
        [parser' # parser =>
           \/ Len(input') < Len(input)
           \/ Len(input') = Len(input) /\ ToFinish' < ToFinish]_vars
  BY <1>1, <1>2, ParserAdvances DEF Falls
<1> QED
  BY <1>3, ParserInvariant, PTL DEF Spec, Shrinks
=============================================================================
