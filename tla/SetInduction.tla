---------------------------- MODULE SetInduction ----------------------------
(* Induction over the natural numbers for sets instead of predicates, from  *)
(* the well-foundedness of <.                                               *)
EXTENDS Integers, SequencesExt, FiniteSetsExt, WellFoundedInduction,
        SequenceTheorems, TLAPS

(* A set of natural numbers has a least one.                                *)
LEMMA LeastNatural ==
  ASSUME NEW T, T \subseteq Nat, T # {}
  PROVE  \E m \in T : \A k \in T : m <= k
<1> DEFINE R == OpToRel(<, Nat)
<1>1. IsWellFoundedOn(R, Nat)
  BY NatLessThanWellFounded, Zenon
<1>2. \A x, y \in Nat : << x, y >> \in R <=> x < y
  BY DEF OpToRel
<1> HIDE DEF R
<1>3. PICK m \in T : \A k \in T : << k, m >> \notin R
  BY <1>1, WFMin
<1>4. ASSUME NEW k \in T PROVE m <= k
  <2>1. k \in Nat /\ m \in Nat
    OBVIOUS
  <2>2. ~(k < m)
    BY <2>1, <1>2, <1>3
  <2> QED
    BY <2>1, <2>2
<1> QED
  BY <1>4

(* What holds of 0, and of n + 1 when of n, holds up to any bound.          *)
LEMMA IntervalInduction ==
  ASSUME NEW L \in Nat, NEW S, 0 \in S,
         \A n \in 0..(L - 1) : n \in S => n + 1 \in S
  PROVE  0..L \subseteq S
<1> DEFINE T == (0..L) \ S
<1> SUFFICES ASSUME T # {} PROVE FALSE
  OBVIOUS
<1>1. PICK m \in T : \A k \in T : m <= k
  <2>1. T \subseteq Nat
    OBVIOUS
  <2> HIDE DEF T
  <2> QED
    BY <2>1, LeastNatural
<1>2. m \in 1..L /\ m - 1 \in 0..(L - 1) /\ (m - 1) + 1 = m
  OBVIOUS
<1>3. m - 1 \in S
  BY <1>1, <1>2
<1> QED
  BY <1>2, <1>3

(* The greatest of some positions                                           *)
LEMMA MaxOfPositions ==
  ASSUME NEW n \in Nat, NEW S, S \subseteq 1..n, S # {}
  PROVE  Max(S) \in S /\ \A x \in S : x <= Max(S)
<1> DEFINE T == { n - x : x \in S }
<1>1. T \subseteq Nat /\ T # {}
  <2>1. PICK x : x \in S
    OBVIOUS
  <2>2. n - x \in T
    BY <2>1
  <2>3. T \subseteq Nat
    <3> SUFFICES ASSUME NEW y \in S PROVE n - y \in Nat
      OBVIOUS
    <3>1. y \in 1..n
      OBVIOUS
    <3> HIDE DEF T
    <3> QED
      BY ONLY n \in Nat, <3>1
  <2> QED
    BY <2>2, <2>3
<1>2. PICK m \in T : \A k \in T : m <= k
  <2> HIDE DEF T
  <2> QED
    BY <1>1, LeastNatural
<1>3. PICK x \in S : m = n - x
  OBVIOUS
<1>4. \A y \in S : x >= y
  <2> SUFFICES ASSUME NEW y \in S PROVE x >= y
    OBVIOUS
  <2>1. n - y \in T
    OBVIOUS
  <2>2. m <= n - y
    BY <1>2, <2>1
  <2> QED
    BY <1>3, <2>2
<1>5. Max(S) \in S /\ \A y \in S : Max(S) >= y
  BY <1>4, Zenon DEF Max
<1> QED
  BY <1>5

(* A recursion over an interval has a solution.                             *)
Recurs(up, S, base, F, L) ==
  /\ up \in [0..L -> S] /\ up[0] = base
  /\ \A n \in 1..L : up[n] = F[n][up[n - 1]]

LEMMA RecursionExists ==
  ASSUME NEW S, NEW base \in S, NEW L \in Nat, NEW F,
         \A n \in 1..L, v \in S : F[n][v] \in S
  PROVE  \E up : Recurs(up, S, base, F, L)
<1> DEFINE Solves(up, m) ==
             /\ up \in [0..m -> S] /\ up[0] = base
             /\ \A n \in 1..m : up[n] = F[n][up[n - 1]]
           T == { m \in 0..L : \E up : Solves(up, m) }
<1>1. 0 \in T
  <2>1. Solves([n \in 0..0 |-> base], 0)
    OBVIOUS
  <2> HIDE DEF Solves
  <2> QED
    BY <2>1
<1>2. ASSUME NEW m \in 0..(L - 1), m \in T PROVE m + 1 \in T
  <2>1. PICK up : Solves(up, m)
    BY <1>2
  <2>2. PICK next \in S : next = F[m + 1][up[m]]
    <3>1. m + 1 \in 1..L /\ up[m] \in S
      BY <2>1
    <3> QED
      BY <3>1
  <2> DEFINE more == [n \in 0..(m + 1) |-> IF n <= m THEN up[n] ELSE next]
  <2>3. more \in [0..(m + 1) -> S] /\ more[0] = base
    BY <2>1, <2>2
  <2>4. ASSUME NEW n \in 1..(m + 1) PROVE more[n] = F[n][more[n - 1]]
    <3>1. CASE n <= m
      BY <2>1, <3>1
    <3>2. CASE n = m + 1
      <4>1. more[n] = next /\ more[n - 1] = up[m]
        BY <3>2
      <4> QED
        BY <2>2, <3>2, <4>1
    <3> QED
      BY <3>1, <3>2
  <2>5. Solves(more, m + 1)
    <3> HIDE DEF more
    <3> QED
      BY <2>3, <2>4
  <2> HIDE DEF Solves
  <2> QED
    BY <2>5
<1> HIDE DEF Solves
<1>3. 0..L \subseteq T
  <2> HIDE DEF T
  <2> QED
    BY <1>1, <1>2, IntervalInduction
<1>4. PICK up : Solves(up, L)
  BY <1>3
<1> QED
  BY <1>4 DEF Solves, Recurs

-----------------------------------------------------------------------------
(* A sequence of sequences put end to end                                   *)
Glued(s, t) == s \o t

LEMMA FlattenExists ==
  ASSUME NEW seqs, NEW L \in Nat
  PROVE  \E f : f = [i \in 1..L |-> IF i = 1 THEN seqs[i] ELSE Glued(f[i - 1], seqs[i])]
<1> DEFINE Solves(f, m) ==
             f = [i \in 1..m |-> IF i = 1 THEN seqs[i] ELSE Glued(f[i - 1], seqs[i])]
           S == { m \in 0..L : \E f : Solves(f, m) }
<1>1. 0 \in S
  <2>1. Solves([i \in 1..0 |-> seqs[i]], 0)
    OBVIOUS
  <2> HIDE DEF Solves
  <2> QED
    BY <2>1
<1>2. ASSUME NEW m \in 0..(L - 1), m \in S PROVE m + 1 \in S
  <2>1. PICK f : Solves(f, m)
    BY <1>2
  <2> DEFINE last == IF m = 0 THEN seqs[1] ELSE Glued(f[m], seqs[m + 1])
             more == [i \in 1..(m + 1) |-> IF i <= m THEN f[i] ELSE last]
  <2>2. ASSUME NEW i \in 1..(m + 1)
        PROVE  more[i] = IF i = 1 THEN seqs[i] ELSE Glued(more[i - 1], seqs[i])
    <3>1. CASE i <= m
      <4>1. f[i] = IF i = 1 THEN seqs[i] ELSE Glued(f[i - 1], seqs[i])
        BY <2>1, <3>1
      <4>2. more[i] = f[i] /\ (i # 1 => more[i - 1] = f[i - 1])
        BY <3>1
      <4> QED
        BY <4>1, <4>2
    <3>2. CASE i = m + 1 /\ m = 0
      <4>1. more[i] = seqs[1]
        BY <3>2
      <4> QED
        BY <3>2, <4>1
    <3>3. CASE i = m + 1 /\ m # 0
      <4>1. more[i] = Glued(f[m], seqs[m + 1]) /\ more[i - 1] = f[m]
        BY <3>3
      <4>2. i # 1 /\ m + 1 = i
        BY <3>3
      <4> HIDE DEF more, last
      <4> QED
        BY <4>1, <4>2
    <3> QED
      BY <3>1, <3>2, <3>3
  <2>3. Solves(more, m + 1)
    <3> HIDE DEF more
    <3>1. more = [i \in 1..(m + 1) |-> more[i]]
      BY DEF more
    <3> QED
      BY <2>2, <3>1
  <2> HIDE DEF more, Solves
  <2> QED
    BY <2>3
<1>3. 0..L \subseteq S
  <2> HIDE DEF S
  <2> QED
    BY <1>1, <1>2, IntervalInduction
<1> QED
  BY <1>3

(* What a flattened sequence holds was in one of its parts.                 *)
LEMMA FlattenType ==
  ASSUME NEW X, NEW seqs \in Seq(Seq(X))
  PROVE  FlattenSeq(seqs) \in Seq(X)
<1> DEFINE L == Len(seqs)
           Solves(f) ==
             f = [i \in 1..L |-> IF i = 1 THEN seqs[i] ELSE Glued(f[i - 1], seqs[i])]
           flatten == CHOOSE f : Solves(f)
<1>1. L \in Nat
  OBVIOUS
<1>2. \E f : Solves(f)
  <2> HIDE DEF L
  <2> QED
    BY <1>1, FlattenExists
<1>3. Solves(flatten)
  <2> HIDE DEF Solves
  <2> QED
    BY <1>2
<1>4. CASE L = 0
  <2>1. FlattenSeq(seqs) = seqs /\ seqs = <<>>
    BY <1>4 DEF FlattenSeq
  <2> QED
    BY <2>1
<1>5. CASE L # 0
  <2>1. FlattenSeq(seqs) = flatten[L]
    BY <1>5 DEF FlattenSeq, Glued
  <2> HIDE DEF flatten
  <2> DEFINE S == { m \in 0..L : m = 0 \/ flatten[m] \in Seq(X) }
  <2>2. 0 \in S
    BY <1>1
  <2>3. ASSUME NEW m \in 0..(L - 1), m \in S PROVE m + 1 \in S
    <3>1. flatten[m + 1] = IF m = 0 THEN seqs[m + 1] ELSE Glued(flatten[m], seqs[m + 1])
      BY <1>1, <1>3
    <3>2. seqs[m + 1] \in Seq(X)
      BY <1>1
    <3>3. m = 0 \/ flatten[m] \in Seq(X)
      BY <2>3
    <3>4. flatten[m + 1] \in Seq(X)
      <4>1. CASE m = 0
        BY <4>1, <3>1, <3>2
      <4>2. CASE m # 0
        BY <4>2, <3>1, <3>2, <3>3, ConcatProperties DEF Glued
      <4> QED
        BY <4>1, <4>2
    <3> QED
      BY <1>1, <3>4
  <2>4. 0..L \subseteq S
    <3> HIDE DEF S, L
    <3> QED
      BY <1>1, <2>2, <2>3, IntervalInduction
  <2>5. L \in S
    BY <1>1, <2>4
  <2> QED
    BY <1>5, <2>1, <2>5
<1> QED
  BY <1>4, <1>5

(* It begins with the first part, and goes on with the next.                *)
GoesOn(from, seqs, X, L) ==
  /\ from \in [0..L -> Seq(X)]
  /\ from[0] = FlattenSeq(seqs) /\ from[L] = <<>>
  /\ \A k \in 1..L : from[k - 1] = seqs[k] \o from[k]

LEMMA FlattenFrom ==
  ASSUME NEW X, NEW seqs \in Seq(Seq(X)), NEW L \in Nat, L = Len(seqs)
  PROVE  \E from : GoesOn(from, seqs, X, L)
<1>1. PICK Y : Y = Seq(X)
  OBVIOUS
<1>2. <<>> \in Y /\ \A s, t \in Y : Glued(s, t) \in Y
  BY <1>1, ConcatProperties DEF Glued
<1>3. \A s, t, u \in Y : Glued(Glued(s, t), u) = Glued(s, Glued(t, u))
  BY <1>1, ConcatAssociative, SMTT(30) DEF Glued
<1>4. \A s \in Y : Glued(s, <<>>) = s
  BY <1>1, ConcatEmptySeq DEF Glued
<1>5. \A k \in 1..L : seqs[k] \in Y
  BY <1>1
<1> DEFINE F == [n \in 1..L |-> [s \in Y |-> Glued(seqs[(L - n) + 1], s)]]
<1>6. ASSUME NEW n \in 1..L, NEW s \in Y PROVE F[n][s] \in Y
  <2>1. (L - n) + 1 \in 1..L
    OBVIOUS
  <2>2. seqs[(L - n) + 1] \in Y
    BY <1>5, <2>1
  <2>3. F[n][s] = Glued(seqs[(L - n) + 1], s)
    OBVIOUS
  <2> QED
    BY <1>2, <2>2, <2>3
<1>7. PICK back : Recurs(back, Y, <<>>, F, L)
  <2> HIDE DEF F
  <2>1. PICK e \in Y : e = <<>>
    BY <1>2
  <2>2. \E up : Recurs(up, Y, e, F, L)
    BY <1>6, RecursionExists
  <2> QED
    BY <2>1, <2>2
<1>8. back \in [0..L -> Y] /\ back[0] = <<>>
  BY <1>7 DEF Recurs
<1>9. ASSUME NEW n \in 1..L PROVE back[n] = Glued(seqs[(L - n) + 1], back[n - 1])
  <2>1. n - 1 \in 0..L
    OBVIOUS
  <2>2. back[n - 1] \in Y
    BY <1>8, <2>1
  <2>3. F[n][back[n - 1]] = Glued(seqs[(L - n) + 1], back[n - 1])
    BY <2>2
  <2>4. back[n] = F[n][back[n - 1]]
    BY <1>7 DEF Recurs
  <2> QED
    BY <2>3, <2>4
<1> HIDE DEF F
<1> DEFINE from == [k \in 0..L |-> back[L - k]]
<1>10. from \in [0..L -> Y]
  BY <1>8
<1>11. from[L] = <<>>
  <2>1. L \in 0..L /\ L - L = 0
    OBVIOUS
  <2> QED
    BY <1>8, <2>1
<1>12. ASSUME NEW k \in 1..L PROVE from[k - 1] = seqs[k] \o from[k]
  <2>1. /\ (L - k) + 1 \in 1..L /\ ((L - k) + 1) - 1 = L - k
        /\ (L - ((L - k) + 1)) + 1 = k /\ L - (k - 1) = (L - k) + 1
        /\ k - 1 \in 0..L /\ k \in 0..L
    OBVIOUS
  <2>2. back[(L - k) + 1] = Glued(seqs[(L - ((L - k) + 1)) + 1], back[((L - k) + 1) - 1])
    BY <1>9, <2>1
  <2>3. back[(L - k) + 1] = Glued(seqs[k], back[L - k])
    BY <2>1, <2>2
  <2>4. from[k - 1] = back[L - (k - 1)] /\ from[k] = back[L - k]
    BY <2>1
  <2>5. from[k - 1] = Glued(seqs[k], from[k])
    BY <2>1, <2>3, <2>4
  <2> QED
    BY <2>5 DEF Glued
<1> DEFINE Solves(f) ==
             f = [i \in 1..L |-> IF i = 1 THEN seqs[i] ELSE Glued(f[i - 1], seqs[i])]
           flatten == CHOOSE f : Solves(f)
<1>13. Solves(flatten)
  <2>1. \E f : Solves(f)
    BY FlattenExists
  <2> HIDE DEF Solves
  <2> QED
    BY <2>1
<1>14. from[0] = FlattenSeq(seqs)
  <2>1. CASE L = 0
    <3>1. Len(seqs) = 0 /\ seqs = <<>>
      <4> HIDE DEF flatten, Solves, from
      <4>1. seqs \in Seq(Y)
        BY <1>1
      <4>2. Len(seqs) = 0
        BY <2>1
      <4> QED
        BY <4>1, <4>2, EmptySeq
    <3>2. FlattenSeq(seqs) = seqs
      BY <3>1, Zenon DEF FlattenSeq
    <3> HIDE DEF from
    <3> QED
      BY <1>11, <2>1, <3>1, <3>2
  <2>2. CASE L # 0
    <3>1. FlattenSeq(seqs) = flatten[L]
      BY <2>2, Zenon DEF FlattenSeq, Glued
    <3> HIDE DEF flatten
    <3>2. \A k \in 1..L : flatten[k] = IF k = 1 THEN seqs[k] ELSE Glued(flatten[k - 1], seqs[k])
      BY <1>13
    <3> HIDE DEF Solves, from
    <3>3. ASSUME NEW k \in 1..L PROVE from[k - 1] = Glued(seqs[k], from[k]) /\ from[k] \in Y
      <4>1. from[k - 1] = Glued(seqs[k], from[k])
        BY <1>12 DEF Glued
      <4>2. k \in 0..L
        OBVIOUS
      <4> QED
        BY <1>10, <4>1, <4>2
    <3> DEFINE S == { m \in 0..(L - 1) : /\ flatten[m + 1] \in Y
                                         /\ from[0] = Glued(flatten[m + 1], from[m + 1]) }
    <3>4. 0 \in S
      <4>1. 1 \in 1..L /\ 1 - 1 = 0 /\ 0 \in 0..(L - 1) /\ 0 + 1 = 1
        BY <2>2
      <4>2. from[0] = Glued(seqs[1], from[1])
        BY <3>3, <4>1
      <4>3. flatten[1] = seqs[1] /\ seqs[1] \in Y
        BY <1>5, <3>2, <4>1
      <4> QED
        BY <4>1, <4>2, <4>3
    <3>5. ASSUME NEW m \in 0..((L - 1) - 1), m \in S PROVE m + 1 \in S
      <4>1. /\ (m + 1) + 1 \in 1..L /\ ((m + 1) + 1) - 1 = m + 1 /\ (m + 1) + 1 # 1
            /\ m + 1 \in 0..(L - 1)
        BY <2>2
      <4>2. flatten[m + 1] \in Y /\ from[0] = Glued(flatten[m + 1], from[m + 1])
        BY <3>5
      <4>3. from[m + 1] = Glued(seqs[(m + 1) + 1], from[(m + 1) + 1])
            /\ from[(m + 1) + 1] \in Y /\ seqs[(m + 1) + 1] \in Y
        BY <1>5, <3>3, <4>1
      <4>4. flatten[(m + 1) + 1] = Glued(flatten[m + 1], seqs[(m + 1) + 1])
        BY <3>2, <4>1
      <4>5. flatten[(m + 1) + 1] \in Y
        BY <1>2, <4>2, <4>3, <4>4
      <4>6. from[0] = Glued(flatten[(m + 1) + 1], from[(m + 1) + 1])
        BY <1>3, <4>2, <4>3, <4>4
      <4> QED
        BY <4>1, <4>5, <4>6
    <3>6. 0..(L - 1) \subseteq S
      <4>1. L - 1 \in Nat
        BY <2>2
      <4> HIDE DEF S
      <4> QED
        BY <3>4, <3>5, <4>1, IntervalInduction
    <3>7. L - 1 \in S /\ (L - 1) + 1 = L
      <4>1. L - 1 \in 0..(L - 1) /\ (L - 1) + 1 = L
        BY <2>2
      <4> HIDE DEF S
      <4> QED
        BY <3>6, <4>1
    <3>8. flatten[L] \in Y /\ from[0] = Glued(flatten[L], from[L])
      BY <3>7
    <3> QED
      BY <1>4, <1>11, <3>1, <3>8 DEF from
  <2> QED
    BY <2>1, <2>2
<1>15. GoesOn(from, seqs, X, L)
  <2> HIDE DEF from
  <2> QED
    BY <1>1, <1>10, <1>11, <1>12, <1>14, Zenon DEF GoesOn
<1> QED
  BY <1>15, Zenon
=============================================================================
