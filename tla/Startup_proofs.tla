---------------------------- MODULE Startup_proofs ----------------------------
(* Theorems about a server's start, for every configuration, database and   *)
(* request.                                                                 *)
EXTENDS Declared, SetInduction, SequenceTheorems, TLAPS

-----------------------------------------------------------------------------
(* The invariant                                                            *)

Outcomes == { "none", "not_found", "called" }
Phases == { "config", "fields", "login", "query", "rows", "listen",
            "serving", "exited", "crashed" }

Typed ==
  /\ [config |-> config, world |-> world] \in Setups
  /\ pc \in Phases
  /\ line \in 0..Len(config) /\ greeted \in 0..Len(world.greeting)
  /\ server \in [connection : Seq(STRING), schema : Seq(STRING), port : 0..(PortLimit - 1)]
  /\ fields \in Seq(STRING)
  /\ target \in [host : Seq(STRING), port : 0..(PortLimit - 1), database : Seq(STRING),
                 user : Seq(STRING), password : Seq(STRING)]
  /\ authOk \in BOOLEAN
  /\ routes \in Seq({ ReadEndpoint(world.functions[i]) : i \in DOMAIN world.functions })
  /\ Len(routes) <= Len(world.functions)
  /\ reply.outcome \in Outcomes

(* What has been read of the greeting holds no "Z" but for its last         *)
(* message, and lets the server in when authOk says so.                     *)
Greeted ==
  /\ pc \in { "config", "fields" } => greeted = 0 /\ ~authOk
  /\ authOk <=> \E i \in 1..greeted : world.greeting[i] = "AuthenticationOk"
  /\ \A i \in 1..(greeted - 1) : world.greeting[i] # "Z"
  /\ pc \in { "query", "rows", "listen", "serving" } =>
       authOk /\ world.greeting[greeted] = "Z"

(* Rows become routes in their order, and all of them that can be read.     *)
Routed ==
  /\ \A i \in 1..Len(routes) : routes[i] = ReadEndpoint(world.functions[i])
  /\ pc \in { "listen", "serving" } /\ world.rows >= Len(world.functions) =>
       Len(routes) = Len(world.functions)

(* Why a server is gone.                                                    *)
Excused ==
  /\ pc = "exited" => ~Good(config) \/ config = <<>> \/ world.rows < 0 \/ ~world.free
  /\ pc = "crashed" =>
       \/ ~Reachable
       \/ \E i \in DOMAIN world.functions : CannotRead(world.functions[i])

(* The last value among the first n.                                        *)
LastIn(list, n, key, default) ==
  LET holding == { i \in 1..n : list[i].key = key }
  IN  IF holding = {} THEN default ELSE list[Max(holding)].value

PortIn(n) == ToLong(LastIn(config, n, "port", << "3", "0", "0", "0" >>))

(* What has been read of the configuration, and of the connection line, is  *)
(* what it says so far.                                                     *)
Read ==
  /\ server.connection = LastIn(config, line, "connection", <<>>)
  /\ server.schema = LastIn(config, line, "schema", <<>>)
  /\ PortIn(line) \in 0..PortLimit /\ server.port = PortIn(line) % PortLimit
  /\ pc \notin { "config", "exited" } => line = Len(config)

Agrees(n) ==
  /\ target.host = LastIn(Fields, n, "host", <<>>)
  /\ target.port = ToLong(LastIn(Fields, n, "port", << "5", "4", "3", "2" >>))
  /\ target.database = LastIn(Fields, n, "database", <<>>)
  /\ target.user = LastIn(Fields, n, "user", <<>>)
  /\ target.password = LastIn(Fields, n, "password", <<>>)

Connected ==
  /\ pc = "config" => Agrees(0)
  /\ pc = "fields" =>
       \E n \in 0..Len(Fields) : fields = Left(server.connection, Len(Fields))[n] /\ Agrees(n)
  /\ pc \in { "login", "query", "rows", "listen", "serving" } => Agrees(Len(Fields))
-----------------------------------------------------------------------------
(* What the operations on strings give                                      *)

LEMMA FirstIndex ==
  ASSUME NEW S, NEW s \in Seq(S), NEW c
  PROVE  IndexOf(s, c) \in 0..Len(s)
<1> DEFINE at == { i \in DOMAIN s : s[i] = c }
<1>1. CASE \E i \in DOMAIN s : s[i] = c
  <2>1. at # {} /\ at \subseteq Nat /\ at \subseteq 1..Len(s)
    BY <1>1
  <2> HIDE DEF at
  <2>2. PICK m \in at : \A k \in at : m <= k
    BY <2>1, LeastNatural
  <2> USE DEF at
  <2>3. m \in DOMAIN s /\ s[m] = c /\ \A j \in 1..(m - 1) : ~(s[j] = c)
    <3> SUFFICES ASSUME NEW j \in 1..(m - 1), s[j] = c PROVE FALSE
      BY <2>2
    <3>1. m \in 1..Len(s) /\ j \in 1..Len(s) /\ j < m
      BY <2>1, <2>2
    <3> QED
      BY <2>2, <3>1
  <2> HIDE DEF at
  <2>4. IndexOf(s, c) = CHOOSE i \in DOMAIN s : s[i] = c /\ \A j \in 1..(i - 1) : ~(s[j] = c)
    BY <1>1, Zenon DEF IndexOf, FirstOf
  <2>5. IndexOf(s, c) \in DOMAIN s
    BY <2>3, <2>4, Zenon
  <2> QED
    BY <2>5
<1>2. CASE ~\E i \in DOMAIN s : s[i] = c
  <2>1. IndexOf(s, c) = 0
    BY <1>2, Zenon DEF IndexOf, FirstOf
  <2> QED
    BY <2>1
<1> QED
  BY <1>1, <1>2

LEMMA FirstInk ==
  ASSUME NEW S, NEW s \in Seq(S)
  PROVE  FirstOf(s, IsInk) \in 0..Len(s)
<1> DEFINE at == { i \in DOMAIN s : IsInk(s[i]) }
<1>1. CASE \E i \in DOMAIN s : IsInk(s[i])
  <2>1. at # {} /\ at \subseteq Nat /\ at \subseteq 1..Len(s)
    BY <1>1
  <2> HIDE DEF at
  <2>2. PICK m \in at : \A k \in at : m <= k
    BY <2>1, LeastNatural
  <2> USE DEF at
  <2>3. m \in DOMAIN s /\ IsInk(s[m]) /\ \A j \in 1..(m - 1) : ~IsInk(s[j])
    <3> SUFFICES ASSUME NEW j \in 1..(m - 1), IsInk(s[j]) PROVE FALSE
      BY <2>2
    <3>1. m \in 1..Len(s) /\ j \in 1..Len(s) /\ j < m
      BY <2>1, <2>2
    <3> QED
      BY <2>2, <3>1
  <2> HIDE DEF at
  <2>4. FirstOf(s, IsInk) =
          CHOOSE i \in DOMAIN s : IsInk(s[i]) /\ \A j \in 1..(i - 1) : ~IsInk(s[j])
    BY <1>1, Zenon DEF FirstOf
  <2>5. FirstOf(s, IsInk) \in DOMAIN s
    BY <2>3, <2>4, Zenon
  <2> QED
    BY <2>5
<1>2. CASE ~\E i \in DOMAIN s : IsInk(s[i])
  <2>1. FirstOf(s, IsInk) = 0
    BY <1>2, Zenon DEF FirstOf
  <2> QED
    BY <2>1
<1> QED
  BY <1>1, <1>2

LEMMA Parts ==
  ASSUME NEW S, NEW s \in Seq(S), NEW n \in Nat
  PROVE  Take(s, n) \in Seq(S) /\ Drop(s, n) \in Seq(S)
<1>1. Take(s, n) \in Seq(S)
  BY DEF Take
<1>2. Drop(s, n) \in Seq(S)
  BY DEF Drop
<1> QED
  BY <1>1, <1>2

LEMMA SplitType ==
  ASSUME NEW S, NEW s \in Seq(S), NEW c
  PROVE  SplitAt(s, c) \in [split : Seq(S), rest : Seq(S)]
<1> DEFINE i == IndexOf(s, c)
<1>1. i \in 0..Len(s)
  BY FirstIndex
<1>2. CASE i = 0
  <2>1. SplitAt(s, c) = [split |-> s, rest |-> <<>>]
    BY <1>2, Zenon DEF SplitAt
  <2> QED
    BY <2>1
<1>3. CASE i # 0
  <2>1. SplitAt(s, c) = [split |-> Take(s, i - 1), rest |-> Drop(s, i)]
    BY <1>3, Zenon DEF SplitAt
  <2>2. i \in Nat /\ i - 1 \in Nat
    BY <1>1, <1>3
  <2> HIDE DEF i
  <2>3. Take(s, i - 1) \in Seq(S) /\ Drop(s, i) \in Seq(S)
    BY <2>2, Parts
  <2> QED
    BY <2>1, <2>3
<1> QED
  BY <1>2, <1>3

LEMMA TrimType ==
  ASSUME NEW S, NEW s \in Seq(S)
  PROVE  Trim(s) \in Seq(S)
<1>1. RTrim(s) \in Seq(S)
  <2> DEFINE ink == { i \in DOMAIN s : IsInk(s[i]) }
  <2>1. CASE ink = {}
    BY <2>1, Zenon, EmptySeq DEF RTrim
  <2>2. CASE ink # {}
    <3>1. RTrim(s) = Take(s, Max(ink))
      BY <2>2, Zenon DEF RTrim
    <3>2. ink \subseteq 1..Len(s) /\ Len(s) \in Nat
      OBVIOUS
    <3> HIDE DEF ink
    <3>3. Max(ink) \in ink
      BY <2>2, <3>2, MaxOfPositions
    <3>4. PICK m \in ink : m = Max(ink)
      BY <3>3, Zenon
    <3>5. m \in Nat
      BY <3>2
    <3> QED
      BY <3>1, <3>4, <3>5, Parts
  <2> QED
    BY <2>1, <2>2
<1>2. PICK r \in Seq(S) : r = RTrim(s)
  BY <1>1
<1> DEFINE i == FirstOf(r, IsInk)
<1>3. i \in 0..Len(r)
  BY FirstInk
<1>4. LTrim(r) \in Seq(S)
  <2>1. CASE i = 0
    BY <2>1, Zenon, EmptySeq DEF LTrim
  <2>2. CASE i # 0
    <3>1. LTrim(r) = Drop(r, i - 1)
      BY <2>2, Zenon DEF LTrim
    <3>2. i - 1 \in Nat
      BY <1>3, <2>2
    <3> HIDE DEF i
    <3> QED
      BY <3>1, <3>2, Parts
  <2> QED
    BY <2>1, <2>2
<1> QED
  BY <1>2, <1>4, Zenon DEF Trim

LEMMA DigitValue ==
  ASSUME NEW c \in Digit
  PROVE  HexValue(c) \in 0..9
<1>1. c \in HexDigit /\ HexValue(c) < 10
  BY DEF Digit
<1>2. DOMAIN DigitsInOrder = 1..16 /\ DOMAIN CapitalsInOrder = 1..16
  BY DEF DigitsInOrder, CapitalsInOrder
<1> DEFINE Is(i) == c \in { DigitsInOrder[i], CapitalsInOrder[i] }
<1>3. \E i \in 1..16 : Is(i)
  BY <1>1, <1>2 DEF HexDigit, ToSet
<1>4. HexValue(c) = (CHOOSE i \in 1..16 : Is(i)) - 1
  BY Zenon DEF HexValue
<1> HIDE DEF Is
<1>5. PICK j \in 1..16 : HexValue(c) = j - 1
  BY <1>3, <1>4, Zenon
<1> QED
  BY <1>1, <1>5

(* Digits are added from the left.                                          *)
Adds(up, s) ==
  /\ up \in [0..Len(s) -> Nat] /\ up[0] = 0
  /\ \A n \in 1..Len(s) : up[n] = 10 * up[n - 1] + HexValue(s[n])

LEMMA LongRuns ==
  ASSUME NEW S, NEW s \in Seq(S), \A i \in 1..Len(s) : s[i] \in Digit
  PROVE  \E up : Adds(up, s) /\ ToLong(s) = up[Len(s)]
<1> DEFINE L == Len(s)
           Solves(up) ==
             up = [n \in 0..L |-> IF n = 0 THEN 0 ELSE 10 * up[n - 1] + HexValue(s[n])]
           upTo == CHOOSE up : Solves(up)
           F == [n \in 1..L |-> [v \in Nat |-> 10 * v + HexValue(s[n])]]
<1>1. L \in Nat
  OBVIOUS
<1>2. ASSUME NEW n \in 1..L, NEW v \in Nat PROVE F[n][v] \in Nat
  <2>1. PICK h \in 0..9 : h = HexValue(s[n])
    BY DigitValue
  <2>2. 10 * v + h \in Nat
    OBVIOUS
  <2> QED
    BY <2>1, <2>2
<1>3. PICK up : Recurs(up, Nat, 0, F, L)
  <2> HIDE DEF L, F
  <2> QED
    BY <1>1, <1>2, RecursionExists
<1>4. ASSUME NEW n \in 1..L PROVE up[n] = 10 * up[n - 1] + HexValue(s[n])
  <2>1. up[n - 1] \in Nat
    BY <1>1, <1>3 DEF Recurs
  <2>2. F[n][up[n - 1]] = 10 * up[n - 1] + HexValue(s[n])
    BY <2>1
  <2> QED
    BY <1>3, <2>2 DEF Recurs
<1>5. Solves(up)
  <2> HIDE DEF F
  <2>1. \A n \in 0..L : up[n] = IF n = 0 THEN 0 ELSE 10 * up[n - 1] + HexValue(s[n])
    BY <1>1, <1>3, <1>4 DEF Recurs
  <2> QED
    BY <1>3, <2>1 DEF Recurs
<1>6. Solves(upTo)
  <2> HIDE DEF Solves
  <2> QED
    BY <1>5
<1>7. ToLong(s) = upTo[L]
  BY DEF ToLong
<1> HIDE DEF upTo, F
<1>8. \A n \in 1..L : upTo[n] = 10 * upTo[n - 1] + HexValue(s[n])
  BY <1>1, <1>6
<1>9. upTo[0] = 0
  BY <1>1, <1>6
<1>10. upTo \in [0..L -> Nat]
  <2> DEFINE T == { n \in 0..L : upTo[n] \in Nat }
  <2>1. 0 \in T
    BY <1>1, <1>9
  <2>2. ASSUME NEW n \in 0..(L - 1), n \in T PROVE n + 1 \in T
    <3>1. n + 1 \in 1..L /\ (n + 1) - 1 = n
      BY <1>1
    <3>2. PICK h \in 0..9 : h = HexValue(s[n + 1])
      BY <3>1, DigitValue
    <3>3. upTo[n + 1] = 10 * upTo[n] + h
      BY <1>8, <3>1, <3>2
    <3> QED
      BY <1>1, <2>2, <3>1, <3>3
  <2>3. 0..L \subseteq T
    <3> HIDE DEF T, L
    <3> QED
      BY <1>1, <2>1, <2>2, IntervalInduction
  <2>4. upTo = [n \in 0..L |-> upTo[n]]
    BY <1>6
  <2> HIDE DEF Solves, L
  <2> QED
    BY <2>3, <2>4
<1> HIDE DEF Solves
<1> QED
  BY <1>7, <1>8, <1>9, <1>10 DEF Adds

LEMMA LongType ==
  ASSUME NEW S, NEW s \in Seq(S), IsLong(s)
  PROVE  ToLong(s) \in Nat
<1>1. \A i \in 1..Len(s) : s[i] \in Digit
  BY DEF IsLong, ToSet
<1>2. PICK up : Adds(up, s) /\ ToLong(s) = up[Len(s)]
  BY <1>1, LongRuns
<1>3. Len(s) \in 0..Len(s)
  OBVIOUS
<1> QED
  BY <1>2, <1>3 DEF Adds

(* The ports there are before any is configured.                            *)
LEMMA DefaultPorts ==
  /\ ToLong(<< "3", "0", "0", "0" >>) = 3000
  /\ ToLong(<< "5", "4", "3", "2" >>) = 5432
<1>1. HexValue("0") = 0 /\ HexValue("2") = 2 /\ HexValue("3") = 3
      /\ HexValue("4") = 4 /\ HexValue("5") = 5
  BY DEF HexValue, DigitsInOrder, CapitalsInOrder
<1>2. { "0", "2", "3", "4", "5" } \subseteq Digit
  <2>1. { "0", "2", "3", "4", "5" } \subseteq HexDigit
    BY DEF HexDigit, ToSet, DigitsInOrder
  <2> QED
    BY <1>1, <2>1 DEF Digit
<1>3. ASSUME NEW a \in Digit, NEW b \in Digit, NEW c \in Digit, NEW d \in Digit
      PROVE  ToLong(<< a, b, c, d >>) =
               1000 * HexValue(a) + 100 * HexValue(b) + 10 * HexValue(c) + HexValue(d)
  <2> DEFINE s == << a, b, c, d >>
  <2>1. s \in Seq(Digit) /\ Len(s) = 4 /\ \A i \in 1..Len(s) : s[i] \in Digit
    OBVIOUS
  <2>2. s[1] = a /\ s[2] = b /\ s[3] = c /\ s[4] = d
    OBVIOUS
  <2> HIDE DEF s
  <2>3. PICK up : Adds(up, s) /\ ToLong(s) = up[4]
    BY <2>1, LongRuns
  <2>4. PICK ha \in 0..9, hb \in 0..9, hc \in 0..9, hd \in 0..9 :
          ha = HexValue(a) /\ hb = HexValue(b) /\ hc = HexValue(c) /\ hd = HexValue(d)
    BY DigitValue
  <2>5. /\ up[0] = 0 /\ up[1] = 10 * up[0] + ha /\ up[2] = 10 * up[1] + hb
        /\ up[3] = 10 * up[2] + hc /\ up[4] = 10 * up[3] + hd
    BY <2>1, <2>2, <2>3, <2>4 DEF Adds
  <2>6. up[4] = 1000 * ha + 100 * hb + 10 * hc + hd
    BY <2>5
  <2> USE DEF s
  <2> QED
    BY <2>3, <2>4, <2>6
<1> QED
  BY <1>1, <1>2, <1>3

(* The fields of a text, from left to right                                 *)
After(s, c) == SplitAt(s, c).rest

LEMMA RestsRun ==
  ASSUME NEW S, NEW text \in Seq(S), NEW c, NEW n \in Nat
  PROVE  /\ Rests(text, c, n) \in [0..n -> Seq(S)]
         /\ Rests(text, c, n)[0] = text
         /\ \A k \in 1..n : Rests(text, c, n)[k] = SplitAt(Rests(text, c, n)[k - 1], c).rest
<1>1. PICK X : X = Seq(S)
  OBVIOUS
<1> DEFINE Solves(up) ==
             up = [k \in 0..n |-> IF k = 0 THEN text ELSE After(up[k - 1], c)]
           run == CHOOSE up : Solves(up)
           F == [k \in 1..n |-> [s \in X |-> After(s, c)]]
<1>2. ASSUME NEW s \in X PROVE After(s, c) \in X
  <2>1. SplitAt(s, c) \in [split : Seq(S), rest : Seq(S)]
    BY <1>1, SplitType
  <2> QED
    BY <1>1, <2>1 DEF After
<1>3. \A k \in 1..n, s \in X : F[k][s] \in X
  BY <1>2
<1>4. PICK up : Recurs(up, X, text, F, n)
  <2> HIDE DEF F
  <2> QED
    BY <1>1, <1>3, RecursionExists
<1>5. up \in [0..n -> X] /\ up[0] = text
  BY <1>4 DEF Recurs
<1>6. ASSUME NEW k \in 1..n PROVE up[k] = After(up[k - 1], c)
  <2>1. k - 1 \in 0..n
    OBVIOUS
  <2>2. up[k - 1] \in X
    BY <1>5, <2>1
  <2>3. F[k][up[k - 1]] = After(up[k - 1], c)
    BY <2>2
  <2> QED
    BY <1>4, <2>3 DEF Recurs
<1>7. Solves(up)
  <2> SUFFICES ASSUME NEW k \in 0..n
               PROVE  up[k] = IF k = 0 THEN text ELSE After(up[k - 1], c)
    BY <1>5
  <2>1. k = 0 \/ (k # 0 /\ k \in 1..n)
    OBVIOUS
  <2> QED
    BY <1>5, <1>6, <2>1, Zenon
<1>8. Solves(run)
  <2> HIDE DEF Solves
  <2> QED
    BY <1>7
<1>9. Rests(text, c, n) = run
  BY DEF Rests, After
<1> HIDE DEF run
<1>10. run[0] = text
  BY <1>8
<1>11. ASSUME NEW k \in 1..n PROVE run[k] = After(run[k - 1], c)
  <2>1. k \in 0..n /\ k # 0
    OBVIOUS
  <2> QED
    BY <1>8, <2>1, Zenon
<1>12. run \in [0..n -> X]
  <2> DEFINE T == { k \in 0..n : run[k] \in X }
  <2>1. 0 \in T
    BY <1>1, <1>10
  <2>2. ASSUME NEW k \in 0..(n - 1), k \in T PROVE k + 1 \in T
    <3>1. k + 1 \in 1..n /\ (k + 1) - 1 = k /\ k + 1 \in 0..n
      OBVIOUS
    <3>2. run[k + 1] = After(run[k], c) /\ run[k] \in X
      BY <1>11, <2>2, <3>1
    <3> QED
      BY <1>2, <3>1, <3>2
  <2>3. 0..n \subseteq T
    <3> HIDE DEF T
    <3> QED
      BY <2>1, <2>2, IntervalInduction
  <2>4. run = [k \in 0..n |-> run[k]]
    <3>1. run = [k \in 0..n |-> IF k = 0 THEN text ELSE After(run[k - 1], c)]
      BY <1>8
    <3>2. DOMAIN run = 0..n
      BY <3>1, Zenon
    <3> QED
      BY <3>1, <3>2
  <2> QED
    BY <2>3, <2>4
<1> QED
  BY <1>1, <1>9, <1>10, <1>11, <1>12, Zenon DEF After

LEMMA LeftRun ==
  ASSUME NEW S, NEW text \in Seq(S), NEW n \in Nat
  PROVE  /\ Left(text, n)[0] = text
         /\ \A k \in 1..n : Left(text, n)[k] = SplitAt(Left(text, n)[k - 1], " ").rest
<1>1. PICK c : c = " "
  OBVIOUS
<1>2. Left(text, n) = Rests(text, c, n)
  BY <1>1, Zenon DEF Left
<1>3. /\ Rests(text, c, n)[0] = text
      /\ \A k \in 1..n : Rests(text, c, n)[k] = SplitAt(Rests(text, c, n)[k - 1], c).rest
  BY RestsRun
<1> QED
  BY <1>1, <1>2, <1>3, Zenon

LEMMA LastOfNone ==
  ASSUME NEW list, NEW key, NEW default
  PROVE  LastIn(list, 0, key, default) = default
BY DEF LastIn

(* One more element counts when it has the key.                             *)
LEMMA LastOfMore ==
  ASSUME NEW list, NEW n \in Nat, NEW key, NEW default
  PROVE  LastIn(list, n + 1, key, default) =
           IF list[n + 1].key = key THEN list[n + 1].value ELSE LastIn(list, n, key, default)
<1> DEFINE H(m) == { i \in 1..m : list[i].key = key }
<1>1. CASE list[n + 1].key = key
  <2>1. n + 1 \in H(n + 1) /\ H(n + 1) # {} /\ H(n + 1) \subseteq 1..(n + 1)
    BY <1>1
  <2>2. n + 1 \in Nat
    OBVIOUS
  <2>3. LastIn(list, n + 1, key, default) = list[Max(H(n + 1))].value
    BY <2>1, Zenon DEF LastIn
  <2> HIDE DEF H
  <2>4. Max(H(n + 1)) \in H(n + 1) /\ \A i \in H(n + 1) : i <= Max(H(n + 1))
    BY <2>1, <2>2, MaxOfPositions
  <2>5. PICK m \in H(n + 1) : m = Max(H(n + 1))
    BY <2>4, Zenon
  <2>6. n + 1 <= m /\ m \in 1..(n + 1)
    BY <2>1, <2>4, <2>5
  <2>7. m = n + 1
    BY <2>6
  <2> QED
    BY <1>1, <2>3, <2>5, <2>7
<1>2. CASE list[n + 1].key # key
  <2>1. H(n + 1) = H(n)
    BY <1>2
  <2> QED
    BY <1>2, <2>1, Zenon DEF LastIn
<1> QED
  BY <1>1, <1>2

LEMMA LastOfAll ==
  ASSUME NEW S, NEW list \in Seq(S), NEW key, NEW default
  PROVE  LastIn(list, Len(list), key, default) = LastOf(list, key, default)
<1>1. DOMAIN list = 1..Len(list)
  OBVIOUS
<1> QED
  BY <1>1, Zenon DEF LastIn, LastOf, Holding
-----------------------------------------------------------------------------
(* Type correctness                                                         *)

Strings == Seq(STRING)
Ports   == 0..(PortLimit - 1)
Server  == [connection : Strings, schema : Strings, port : Ports]
Target  ==
  [host : Strings, port : Ports, database : Strings, user : Strings, password : Strings]

LEMMA Given ==
  ASSUME Typed
  PROVE  config \in Seq(Line) /\ world \in World
BY SetupsAssumption DEF Typed

LEMMA WithSettingType ==
  ASSUME NEW text \in Strings, text = Text, Typed, ~BadLine, ~Ignored(Text)
  PROVE  WithSetting \in Server
<1>1. server \in Server /\ PortLimit \in Nat /\ PortLimit > 5432
  BY PortAssumption DEF Typed, Server, Strings, Ports
<1>2. PICK val \in Strings : val = Val
  <2>1. SplitAt(text, ":") \in [split : Seq(STRING), rest : Seq(STRING)]
    BY SplitType DEF Strings
  <2>2. PICK rest \in Seq(STRING) : rest = SplitAt(text, ":").rest
    BY <2>1
  <2>3. Trim(rest) \in Seq(STRING)
    BY TrimType
  <2> QED
    BY <2>2, <2>3, Zenon DEF Val, ValIn, Strings
<1>3. CASE Key = << "connection" >>
  <2>1. WithSetting = [server EXCEPT !.connection = val]
    BY <1>2, <1>3 DEF WithSetting
  <2> QED
    BY <1>1, <2>1 DEF Server
<1>4. CASE Key = << "schema" >>
  <2>1. WithSetting = [server EXCEPT !.schema = val]
    BY <1>2, <1>4 DEF WithSetting
  <2> QED
    BY <1>1, <2>1 DEF Server
<1>5. CASE Key = << "port" >>
  <2>1. ToLong(val) \in 1..PortLimit
    BY <1>2, <1>5, Zenon DEF BadLine, GoodLine, Key, Val
  <2>2. PICK n \in 1..PortLimit : n = ToLong(val)
    BY <2>1
  <2>3. n % PortLimit \in Ports
    BY <1>1 DEF Ports
  <2>4. WithSetting = [server EXCEPT !.port = n % PortLimit]
    BY <1>2, <1>5, <2>2 DEF WithSetting
  <2> QED
    BY <1>1, <2>3, <2>4 DEF Server
<1>6. CASE Key \notin { << "connection" >>, << "schema" >>, << "port" >> }
  <2>1. WithSetting = server
    BY <1>6 DEF WithSetting
  <2> QED
    BY <1>1, <2>1
<1> QED
  BY <1>3, <1>4, <1>5, <1>6

LEMMA FieldTypes ==
  ASSUME NEW text \in Strings
  PROVE  /\ SplitAt(text, " ").split \in Strings /\ SplitAt(text, " ").rest \in Strings
         /\ SplitAt(SplitAt(text, " ").split, "=").rest \in Strings
<1>1. SplitAt(text, " ") \in [split : Seq(STRING), rest : Seq(STRING)]
  BY SplitType DEF Strings
<1>2. PICK field \in Seq(STRING) : field = SplitAt(text, " ").split
  BY <1>1
<1>3. SplitAt(field, "=") \in [split : Seq(STRING), rest : Seq(STRING)]
  BY SplitType
<1> QED
  BY <1>1, <1>2, <1>3 DEF Strings

LEMMA WithFieldType ==
  ASSUME Typed, GoodField
  PROVE  WithField \in Target
<1>1. target \in Target /\ PortLimit \in Nat /\ PortLimit > 5432 /\ fields \in Strings
  BY PortAssumption DEF Typed, Target, Strings, Ports
<1>2. PICK val \in Strings : val = FieldVal
  <2>1. PICK text \in Strings : text = fields
    BY <1>1
  <2>2. SplitAt(SplitAt(text, " ").split, "=").rest \in Strings
    BY ONLY FieldTypes, text \in Strings
  <2>3. FieldVal = SplitAt(SplitAt(text, " ").split, "=").rest
    BY <2>1, Zenon DEF FieldVal, Field
  <2> QED
    BY <2>2, <2>3
<1>3. CASE FieldKey = << "host" >>
  <2>1. WithField = [target EXCEPT !.host = val]
    BY <1>2, <1>3 DEF WithField
  <2> QED
    BY <1>1, <2>1 DEF Target
<1>4. CASE FieldKey = << "port" >>
  <2>1. IsLong(val)
    BY <1>2, <1>4, Zenon DEF GoodField
  <2>2. PICK n \in Nat : n = ToLong(val)
    BY <2>1, LongType DEF Strings
  <2>3. n % PortLimit \in Ports
    BY <1>1 DEF Ports
  <2>4. WithField = [target EXCEPT !.port = n % PortLimit]
    BY <1>2, <1>4, <2>2 DEF WithField
  <2> QED
    BY <1>1, <2>3, <2>4 DEF Target
<1>5. CASE FieldKey = << "database" >>
  <2>1. WithField = [target EXCEPT !.database = val]
    BY <1>2, <1>5 DEF WithField
  <2> QED
    BY <1>1, <2>1 DEF Target
<1>6. CASE FieldKey = << "user" >>
  <2>1. WithField = [target EXCEPT !.user = val]
    BY <1>2, <1>6 DEF WithField
  <2> QED
    BY <1>1, <2>1 DEF Target
<1>7. CASE FieldKey = << "password" >>
  <2>1. WithField = [target EXCEPT !.password = val]
    BY <1>2, <1>7 DEF WithField
  <2> QED
    BY <1>1, <2>1 DEF Target
<1>8. CASE FieldKey \notin
        { << "host" >>, << "port" >>, << "database" >>, << "user" >>, << "password" >> }
  <2>1. WithField = target
    BY <1>8 DEF WithField
  <2> QED
    BY <1>1, <2>1
<1> QED
  BY <1>3, <1>4, <1>5, <1>6, <1>7, <1>8

LEMMA TypedInit ==
  ASSUME Init
  PROVE  Typed
<1>1. PICK setup \in Setups : config = setup.config /\ world = setup.world
  BY DEF Init
<1>2. setup \in [config : Seq(Line), world : World]
  BY <1>1, SetupsAssumption
<1>3. [config |-> config, world |-> world] = setup
  BY <1>1, <1>2
<1>4. config \in Seq(Line) /\ world.greeting \in Seq(STRING) /\ Len(world.functions) \in Nat
  BY <1>1, <1>2 DEF World
<1>5. Len(config) \in Nat /\ Len(world.greeting) \in Nat
  BY <1>4
<1>6. 3000 \in 0..(PortLimit - 1) /\ 5432 \in 0..(PortLimit - 1)
  BY PortAssumption
<1>7. /\ pc = "config" /\ line = 0 /\ fields = <<>> /\ authOk = FALSE /\ greeted = 0
      /\ server = [connection |-> <<>>, schema |-> <<>>, port |-> 3000]
      /\ target = NoTarget
      /\ routes = <<>> /\ reply.outcome = "none"
  BY DEF Init, NoReply
<1>8. /\ server \in [connection : Seq(STRING), schema : Seq(STRING), port : 0..(PortLimit - 1)]
      /\ target \in [host : Seq(STRING), port : 0..(PortLimit - 1), database : Seq(STRING),
                     user : Seq(STRING), password : Seq(STRING)]
  BY <1>6, <1>7 DEF NoTarget
<1>9. routes \in Seq({ ReadEndpoint(world.functions[i]) : i \in DOMAIN world.functions })
      /\ Len(routes) = 0
  BY <1>7
<1>10. [config |-> config, world |-> world] \in Setups
  BY <1>1, <1>3
<1>11. line \in 0..Len(config) /\ greeted \in 0..Len(world.greeting)
  BY <1>5, <1>7
<1>12. Len(routes) <= Len(world.functions)
  BY <1>4, <1>9
<1>13. fields \in Seq(STRING)
  BY <1>7, EmptySeq, Zenon
<1>14. reply.outcome \in Outcomes /\ pc \in Phases /\ authOk \in BOOLEAN
  BY <1>7, Zenon DEF Outcomes, Phases
<1> QED
  BY <1>8, <1>9, <1>10, <1>11, <1>12, <1>13, <1>14 DEF Typed

(* What a step leaves alone keeps its type.                                 *)
LEMMA TypedNext ==
  ASSUME Typed, Next
  PROVE  Typed'
<1>1. /\ config \in Seq(Line) /\ Len(config) \in Nat
      /\ world.greeting \in Seq(STRING) /\ Len(world.greeting) \in Nat
      /\ Len(world.functions) \in Nat
  BY Given DEF World
<1>2. CASE ReadLine
  <2>1. line \in Nat /\ line + 1 \in 1..Len(config) /\ config[line + 1] \in Line
    BY <1>1, <1>2 DEF ReadLine, AtLine, Typed
  <2>2. PICK written \in Seq(STRING) : written = config[line + 1].text
    BY <2>1 DEF Line
  <2>3. PICK text \in Strings : text = Text
    BY <2>2, TrimType DEF Text, Strings
  <2>4. server' \in Server
    <3>1. CASE Ignored(Text)
      BY <1>2, <3>1 DEF ReadLine, Typed, Server, Strings, Ports
    <3>2. CASE ~Ignored(Text)
      <4>1. WithSetting \in Server
        BY <1>2, <2>3, <3>2, WithSettingType DEF ReadLine
      <4> QED
        BY <1>2, <3>2, <4>1 DEF ReadLine
    <3> QED
      BY <3>1, <3>2
  <2>5. line' \in 0..Len(config)
    BY <1>1, <1>2, <2>1 DEF ReadLine
  <2> QED
    BY <1>2, <2>4, <2>5 DEF ReadLine, given, Typed, Server, Strings, Ports
<1>3. CASE RefuseLine
  BY <1>3 DEF RefuseLine, given, Typed, Phases
<1>4. CASE EndConfig
  BY <1>4 DEF EndConfig, given, Typed, Phases
<1>5. CASE ReadField
  <2>1. target' \in Target
    <3>1. CASE Field = <<>>
      BY <1>5, <3>1 DEF ReadField, Typed, Target, Strings, Ports
    <3>2. CASE Field # <<>>
      <4>1. WithField \in Target
        BY <1>5, <3>2, WithFieldType DEF ReadField
      <4> QED
        BY <1>5, <3>2, <4>1 DEF ReadField
    <3> QED
      BY <3>1, <3>2
  <2>2. fields' \in Strings
    <3>1. fields \in Strings
      BY DEF Typed, Strings
    <3> QED
      BY <1>5, <3>1, FieldTypes DEF ReadField
  <2> QED
    BY <1>5, <2>1, <2>2 DEF ReadField, given, Typed, Target, Strings, Ports
<1>6. CASE RefuseField
  BY <1>6 DEF RefuseField, NoConnection, given, Typed, Phases
<1>7. CASE Connect
  BY <1>7 DEF Connect, NoConnection, given, Typed, Phases
<1>8. CASE ReadGreeting
  <2>1. greeted' \in 0..Len(world.greeting) /\ authOk' \in BOOLEAN
    BY <1>1, <1>8 DEF ReadGreeting, Typed
  <2> QED
    BY <1>8, <2>1 DEF ReadGreeting, given, Typed
<1>9. CASE GreetingEnds
  BY <1>9 DEF GreetingEnds, NoConnection, given, Typed, Phases
<1>10. CASE Login
  BY <1>10 DEF Login, NoConnection, given, Typed, Phases
<1>11. CASE Query
  BY <1>11 DEF Query, given, Typed, Phases
<1>12. CASE AddEndpoint
  <2> DEFINE read == { ReadEndpoint(world.functions[i]) : i \in DOMAIN world.functions }
  <2>1. CASE CannotRead(Row)
    BY <1>12, <2>1 DEF AddEndpoint, given, Typed, Phases
  <2>2. CASE ~CannotRead(Row)
    <3>1. routes \in Seq(read) /\ Len(routes) < Len(world.functions)
      BY <1>12 DEF AddEndpoint, HasRow, Typed
    <3>2. Len(routes) + 1 \in DOMAIN world.functions
      BY <3>1, Given DEF World
    <3>3. ReadEndpoint(Row) \in read
      BY <3>2, Zenon DEF Row
    <3>4. routes' = Append(routes, ReadEndpoint(Row))
      BY <1>12, <2>2 DEF AddEndpoint
    <3> HIDE DEF read
    <3>5. routes' \in Seq(read) /\ Len(routes') = Len(routes) + 1 /\ Len(routes) \in Nat
      BY <3>1, <3>3, <3>4
    <3>6. Len(routes') <= Len(world.functions)
      BY <1>1, <3>1, <3>5
    <3>7. UNCHANGED << config, world, pc, line, server, fields, target, authOk, greeted, reply >>
      BY <1>12, <2>2 DEF AddEndpoint, given
    <3> USE DEF read
    <3> QED
      BY <3>5, <3>6, <3>7 DEF Typed
  <2> QED
    BY <2>1, <2>2
<1>13. CASE EndRows
  BY <1>13 DEF EndRows, given, Typed, Phases
<1>14. CASE Listen
  BY <1>14 DEF Listen, given, Typed, Phases
<1>15. CASE Serve
  <2>1. /\ UNCHANGED << config, world, pc, line, server, fields, target, authOk, greeted, routes >>
        /\ \E r, outcome, name, values :
             /\ outcome \in Outcomes
             /\ reply' = [to |-> r, outcome |-> outcome, name |-> name, values |-> values]
    <3>1. PICK r \in Requests : NotFound(r) \/ LacksParameter(r) \/ Call(r)
      BY <1>15 DEF Serve
    <3>2. "not_found" \in Outcomes /\ "called" \in Outcomes
      BY DEF Outcomes
    <3>3. PICK outcome, name, values :
             outcome \in Outcomes /\ Answer(r, outcome, name, values)
      BY <3>1, <3>2, Zenon DEF NotFound, LacksParameter, Call
    <3> QED
      BY <3>3 DEF Answer, given
  <2>2. reply'.outcome \in Outcomes
    BY <2>1
  <2> QED
    BY <2>1, <2>2 DEF Typed
<1>16. CASE Gone
  BY <1>16 DEF Gone, vars, given, Typed
<1> QED
  BY <1>2, <1>3, <1>4, <1>5, <1>6, <1>7, <1>8, <1>9, <1>10, <1>11, <1>12, <1>13,
     <1>14, <1>15, <1>16 DEF Next, Configure, Start

-----------------------------------------------------------------------------
(* The greeting and the routes                                              *)

Others == << config, world, greeted, authOk >>

LEMMA GreetedInit ==
  ASSUME Init
  PROVE  Greeted
BY DEF Init, Greeted

LEMMA GreetedNext ==
  ASSUME Typed, Greeted, Next
  PROVE  Greeted'
<1>1. greeted \in Nat /\ authOk \in BOOLEAN
  BY Given DEF Typed, World
<1>2. CASE Configure
  <2>1. UNCHANGED Others /\ pc = "config" /\ pc' \in { "config", "fields", "exited" }
    BY <1>2 DEF Configure, ReadLine, RefuseLine, EndConfig, AtLine, given, Others
  <2> QED
    BY <2>1 DEF Others, Greeted
<1>3. CASE ReadField \/ RefuseField \/ Connect
  <2>1. UNCHANGED Others /\ pc = "fields" /\ pc' \in { "fields", "login", "crashed" }
    BY <1>3 DEF ReadField, RefuseField, Connect, NoConnection, given, Others
  <2> QED
    BY <2>1 DEF Others, Greeted
<1>4. CASE ReadGreeting
  <2>1. /\ pc = "login" /\ pc' = pc /\ greeted' = greeted + 1 /\ UNCHANGED << config, world >>
        /\ greeted # 0 => world.greeting[greeted] # "Z"
    BY <1>4 DEF ReadGreeting, LastRead, given
  <2>2. authOk' <=> authOk \/ world.greeting[greeted + 1] = "AuthenticationOk"
    BY <1>4 DEF ReadGreeting, Message
  <2>3. 1..(greeted + 1) = (1..greeted) \cup { greeted + 1 }
    BY <1>1
  <2>4. authOk' <=> \E i \in 1..greeted' : world'.greeting[i] = "AuthenticationOk"
    BY <2>1, <2>2, <2>3 DEF Greeted
  <2>5. \A i \in 1..(greeted' - 1) : world'.greeting[i] # "Z"
    <3> SUFFICES ASSUME NEW i \in 1..greeted PROVE world.greeting[i] # "Z"
      BY <1>1, <2>1
    <3>1. CASE i = greeted
      BY <1>1, <2>1, <3>1
    <3>2. CASE i \in 1..(greeted - 1)
      BY <3>2 DEF Greeted
    <3> QED
      BY <1>1, <3>1, <3>2
  <2> QED
    BY <2>1, <2>4, <2>5 DEF Greeted
<1>5. CASE GreetingEnds
  BY <1>5 DEF GreetingEnds, NoConnection, given, Greeted
<1>6. CASE Login
  <2>1. UNCHANGED Others /\ pc' \in { "query", "crashed" }
    BY <1>6 DEF Login, NoConnection, given, Others
  <2>2. CASE pc' = "query"
    <3>1. authOk /\ LastRead = "Z"
      BY <1>6, <2>2 DEF Login, NoConnection
    <3>2. PICK i \in 1..greeted : world.greeting[i] = "AuthenticationOk"
      BY <3>1 DEF Greeted
    <3>3. greeted # 0
      BY <1>1
    <3>4. world.greeting[greeted] = "Z"
      BY <3>1, <3>3 DEF LastRead
    <3> QED
      BY <2>1, <2>2, <3>1, <3>4 DEF Others, Greeted
  <2>3. CASE pc' = "crashed"
    BY <2>1, <2>3 DEF Others, Greeted
  <2> QED
    BY <2>1, <2>2, <2>3
<1>7. CASE Query \/ AddEndpoint \/ EndRows \/ Listen
  <2>1. UNCHANGED Others /\ pc \in { "query", "rows", "listen", "serving" }
        /\ pc' \in { "rows", "listen", "serving", "exited", "crashed" }
    BY <1>7 DEF Query, AddEndpoint, EndRows, Listen, given, Others
  <2> QED
    BY <2>1 DEF Others, Greeted
<1>8. CASE Serve \/ Gone
  <2>1. UNCHANGED Others /\ pc' = pc
    BY <1>8 DEF Serve, NotFound, LacksParameter, Call, Answer, Gone, vars, given, Others
  <2> QED
    BY <2>1 DEF Others, Greeted
<1> QED
  BY <1>2, <1>3, <1>4, <1>5, <1>6, <1>7, <1>8 DEF Next, Start

LEMMA RoutedInit ==
  ASSUME Init
  PROVE  Routed
<1>1. routes = <<>> /\ pc = "config" /\ Len(routes) = 0
  BY DEF Init
<1> QED
  BY <1>1 DEF Routed

LEMMA RoutedNext ==
  ASSUME Typed, Routed, Next
  PROVE  Routed'
<1>1. Len(routes) \in Nat /\ Len(world.functions) \in Nat /\ world.rows \in Int
      /\ Len(routes) <= Len(world.functions)
  BY Given DEF Typed, World
<1>2. CASE AddEndpoint
  <2>1. UNCHANGED << config, world >> /\ pc = "rows" /\ pc' \in { "rows", "crashed" }
    BY <1>2 DEF AddEndpoint, given
  <2>2. CASE CannotRead(Row)
    BY <1>2, <2>1, <2>2 DEF AddEndpoint, Routed
  <2>3. CASE ~CannotRead(Row)
    <3> DEFINE read == { ReadEndpoint(world.functions[i]) : i \in DOMAIN world.functions }
    <3>1. routes' = Append(routes, ReadEndpoint(Row)) /\ routes \in Seq(read)
      BY <1>2, <2>3 DEF AddEndpoint, Typed
    <3>2. PICK e : e = ReadEndpoint(world.functions[Len(routes) + 1])
      OBVIOUS
    <3>3. routes' = Append(routes, e)
      BY <3>1, <3>2, Zenon DEF Row
    <3> HIDE DEF read
    <3>4. /\ Len(routes') = Len(routes) + 1 /\ routes'[Len(routes) + 1] = e
          /\ \A i \in 1..Len(routes) : routes'[i] = routes[i]
      BY <3>1, <3>3
    <3>5. \A i \in 1..Len(routes') : i \in 1..Len(routes) \/ i = Len(routes) + 1
      BY <1>1, <3>4
    <3>6. \A i \in 1..Len(routes') : routes'[i] = ReadEndpoint(world'.functions[i])
      BY <2>1, <3>2, <3>4, <3>5 DEF Routed
    <3> QED
      BY <2>1, <3>6 DEF Routed
  <2> QED
    BY <2>2, <2>3
<1>3. CASE EndRows
  <2>1. UNCHANGED << world, routes >> /\ ~HasRow
    BY <1>3 DEF EndRows, given
  <2>2. Len(routes) >= Len(world.functions) \/ Len(routes) >= world.rows
    BY <1>1, <2>1 DEF HasRow
  <2>3. world.rows >= Len(world.functions) => Len(routes) = Len(world.functions)
    BY <1>1, <2>2
  <2> QED
    BY <2>1, <2>3 DEF Routed
<1>4. CASE Listen
  BY <1>4 DEF Listen, given, Routed
<1>5. CASE ~(AddEndpoint \/ EndRows \/ Listen)
  <2>1. /\ UNCHANGED << world, routes >>
        /\ pc' = pc \/ pc' \notin { "listen", "serving" }
    <3>1. CASE Configure
      BY <3>1 DEF Configure, ReadLine, RefuseLine, EndConfig, given
    <3>2. CASE Serve \/ Gone
      BY <3>2 DEF Serve, NotFound, LacksParameter, Call, Answer, Gone, vars, given
    <3>3. CASE ReadField \/ RefuseField \/ Connect
      BY <3>3 DEF ReadField, RefuseField, Connect, NoConnection, given
    <3>4. CASE ReadGreeting \/ GreetingEnds \/ Login \/ Query
      BY <3>4 DEF ReadGreeting, GreetingEnds, Login, Query, NoConnection, given
    <3> QED
      BY <1>5, <3>1, <3>2, <3>3, <3>4 DEF Next, Start
  <2> QED
    BY <2>1 DEF Routed
<1> QED
  BY <1>2, <1>3, <1>4, <1>5

(* What holds of every start, whatever the configuration's lines mean.      *)
Base == Typed /\ Greeted /\ Routed

LEMMA BaseCorrect == Spec => []Base
<1>1. Init => Base
  BY TypedInit, GreetedInit, RoutedInit DEF Base
<1>2. Base /\ [Next]_vars => Base'
  <2> SUFFICES ASSUME Base, [Next]_vars PROVE Base'
    OBVIOUS
  <2>1. CASE Next
    BY <2>1, TypedNext, GreetedNext, RoutedNext DEF Base
  <2>2. CASE UNCHANGED vars
    BY <2>2 DEF vars, given, Base, Typed, Greeted, Routed
  <2> QED
    BY <2>1, <2>2
<1> QED
  BY <1>1, <1>2, PTL DEF Spec

(* Every variable has its type; a port has 16 bits: of every configuration, *)
(* database and request.                                                    *)
THEOREM TypeCorrect == Spec => []TypeOK
<1>1. Base => TypeOK
  BY DEF Base, Typed, TypeOK, Phases, Outcomes
<1> QED
  BY <1>1, BaseCorrect, PTL

(* read_startup_messages: whatever the database greets with, and whatever   *)
(* m.type was before it was set, the first query goes out only after a      *)
(* greeting that lets the server in and has been read to its end.           *)
THEOREM LoggedInCorrect == Spec => []LoggedIn
<1>1. Base => LoggedIn
  BY DEF Base, Greeted, LoggedIn
<1> QED
  BY <1>1, BaseCorrect, PTL

-----------------------------------------------------------------------------
(* The configuration, when its lines say what they mean                     *)

FieldRecords == [key : STRING, value : Strings, good : BOOLEAN]

LEMMA LineMeans ==
  ASSUME Legible, Typed, NEW i \in DOMAIN config
  PROVE  LineSays(config[i]) /\ config[i] \in Line
<1>1. PICK setup \in Setups : setup = [config |-> config, world |-> world]
  BY DEF Typed
<1>2. LineSays(setup.config[i])
  BY <1>1 DEF Legible
<1>3. config \in Seq(Line)
  BY Given
<1> QED
  BY <1>1, <1>2, <1>3

(* The line that was read last is the one whose fields count.               *)
LEMMA FieldsMean ==
  ASSUME Legible, Typed, Read
  PROVE  /\ Fields \in Seq(FieldRecords)
         /\ line = Len(config) => FieldsSay(server.connection, Fields)
<1> DEFINE H == Holding(config, "connection")
<1>1. config \in Seq(Line) /\ Len(config) \in Nat
  BY Given
<1>2. CASE H = {}
  <2>1. Fields = <<>>
    BY <1>2, Zenon DEF Fields
  <2>2. ASSUME line = Len(config) PROVE FieldsSay(server.connection, Fields)
    <3>1. server.connection = <<>>
      BY <1>1, <1>2, <2>2, LastOfAll DEF Read, LastOf
    <3>2. <<>> \in Seq(STRING) /\ 0 \in Nat
      OBVIOUS
    <3>3. Left(<<>>, 0)[0] = <<>>
      BY <3>2, LeftRun
    <3>4. FieldsSay(<<>>, <<>>)
      BY <3>3 DEF FieldsSay
    <3> QED
      BY <2>1, <3>1, <3>4
  <2> QED
    BY <2>1, <2>2
<1>3. CASE H # {}
  <2>1. H \subseteq 1..Len(config)
    BY <1>1 DEF Holding
  <2>2. PICK m \in H : m = Max(H)
    <3> HIDE DEF H
    <3>1. Max(H) \in H
      BY <1>1, <1>3, <2>1, MaxOfPositions
    <3> QED
      BY <3>1, Zenon
  <2>3. m \in DOMAIN config /\ config[m].key = "connection"
    BY <1>1, <2>2 DEF Holding
  <2>4. Fields = config[m].fields
    BY <1>3, <2>2, Zenon DEF Fields
  <2>5. LineSays(config[m]) /\ config[m] \in Line
    BY <2>3, LineMeans
  <2>6. FieldsSay(config[m].value, config[m].fields)
    BY <2>3, <2>5, Zenon DEF LineSays
  <2>7. ASSUME line = Len(config) PROVE server.connection = config[m].value
    <3>1. server.connection = LastOf(config, "connection", <<>>)
      BY <1>1, <2>7, LastOfAll DEF Read
    <3> QED
      BY <1>3, <2>2, <3>1, Zenon DEF LastOf
  <2> QED
    BY <2>4, <2>5, <2>6, <2>7 DEF Line, FieldRecords, Strings
<1> QED
  BY <1>2, <1>3

LEMMA ReadInit ==
  ASSUME Init
  PROVE  Read
<1>1. /\ line = 0 /\ pc = "config"
      /\ server = [connection |-> <<>>, schema |-> <<>>, port |-> 3000]
  BY DEF Init
<1>2. PortIn(0) = 3000
  BY LastOfNone, DefaultPorts DEF PortIn
<1>3. 3000 \in 0..PortLimit /\ 3000 % PortLimit = 3000
  BY PortAssumption
<1>4. LastIn(config, 0, "connection", <<>>) = <<>> /\ LastIn(config, 0, "schema", <<>>) = <<>>
  BY LastOfNone
<1> QED
  BY <1>1, <1>2, <1>3, <1>4 DEF Read

(* A line sets what has its key.                                            *)
LEMMA ReadOneLine ==
  ASSUME Legible, Typed, Read, ReadLine
  PROVE  Read'
<1> DEFINE l == config[line + 1]
           Now(key, default) == LastIn(config, line, key, default)
           Then(key, default) == LastIn(config, line + 1, key, default)
<1>1. /\ UNCHANGED config /\ pc' = pc /\ pc = "config" /\ line' = line + 1
      /\ line \in Nat /\ line + 1 \in DOMAIN config
  BY Given DEF ReadLine, AtLine, given, Typed
<1>2. LineSays(l)
  BY <1>1, LineMeans
<1>3. \A key, default :
        Then(key, default) = IF l.key = key THEN l.value ELSE Now(key, default)
  BY <1>1, LastOfMore
<1>4. server \in Server /\ PortLimit \in Nat /\ PortLimit > 5432
  BY PortAssumption DEF Typed, Server, Strings, Ports
<1>5. Ignored(Text) \/ GoodLine(Text)
  BY DEF ReadLine, BadLine
<1>6. \A key \in { "connection", "schema", "port" } :
        /\ l.key = key <=> ~Ignored(Text) /\ Key = << key >>
        /\ l.key = key => Val = l.value
  BY <1>2, <1>5, Zenon DEF LineSays, Text, Key, Val
<1> HIDE DEF l, Now, Then
<1>7. /\ server'.connection = Then("connection", <<>>)
      /\ server'.schema = Then("schema", <<>>)
      /\ ToLong(Then("port", << "3", "0", "0", "0" >>)) \in 0..PortLimit
      /\ server'.port = ToLong(Then("port", << "3", "0", "0", "0" >>)) % PortLimit
  <2>1. /\ server.connection = Now("connection", <<>>)
        /\ server.schema = Now("schema", <<>>)
        /\ ToLong(Now("port", << "3", "0", "0", "0" >>)) \in 0..PortLimit
        /\ server.port = ToLong(Now("port", << "3", "0", "0", "0" >>)) % PortLimit
    BY DEF Read, PortIn, Now
  <2>2. CASE Ignored(Text)
    <3>1. server' = server
      BY <2>2 DEF ReadLine
    <3>2. l.key \notin { "connection", "schema", "port" }
      BY <1>6, <2>2
    <3> QED
      BY <1>3, <2>1, <3>1, <3>2
  <2>3. CASE ~Ignored(Text)
    <3>1. server' = WithSetting
      BY <2>3 DEF ReadLine
    <3>2. CASE l.key = "connection"
      <4>1. Key = << "connection" >> /\ Val = l.value
        BY <1>6, <3>2
      <4>2. server' = [server EXCEPT !.connection = l.value]
        BY <3>1, <4>1 DEF WithSetting
      <4>3. /\ server'.connection = l.value /\ server'.schema = server.schema
            /\ server'.port = server.port
        BY <1>4, <4>2 DEF Server
      <4> QED
        BY <1>3, <2>1, <3>2, <4>3
    <3>3. CASE l.key = "schema"
      <4>1. Key = << "schema" >> /\ Val = l.value
        BY <1>6, <3>3
      <4>2. server' = [server EXCEPT !.schema = l.value]
        BY <3>1, <4>1 DEF WithSetting
      <4>3. /\ server'.schema = l.value /\ server'.connection = server.connection
            /\ server'.port = server.port
        BY <1>4, <4>2 DEF Server
      <4> QED
        BY <1>3, <2>1, <3>3, <4>3
    <3>4. CASE l.key = "port"
      <4>1. Key = << "port" >> /\ Val = l.value
        BY <1>6, <3>4
      <4>2. server' = [server EXCEPT !.port = ToLong(l.value) % PortLimit]
        BY <3>1, <4>1 DEF WithSetting
      <4>3. ToLong(l.value) \in 1..PortLimit
        BY <1>5, <2>3, <4>1, Zenon DEF GoodLine, Key, Val
      <4>4. /\ server'.connection = server.connection /\ server'.schema = server.schema
            /\ server'.port = ToLong(l.value) % PortLimit
        BY <1>4, <4>2 DEF Server
      <4>5. /\ Then("connection", <<>>) = Now("connection", <<>>)
            /\ Then("schema", <<>>) = Now("schema", <<>>)
            /\ Then("port", << "3", "0", "0", "0" >>) = l.value
        BY <1>3, <3>4
      <4>6. ToLong(l.value) \in 0..PortLimit
        BY <1>4, <4>3
      <4> QED
        BY <2>1, <4>4, <4>5, <4>6
    <3>5. CASE l.key \notin { "connection", "schema", "port" }
      <4>1. Key \notin { << "connection" >>, << "schema" >>, << "port" >> }
        BY <1>6, <2>3, <3>5
      <4>2. server' = server
        BY <3>1, <4>1 DEF WithSetting
      <4> QED
        BY <1>3, <2>1, <3>5, <4>2
    <3> QED
      BY <3>2, <3>3, <3>4, <3>5
  <2> QED
    BY <2>2, <2>3
<1> USE DEF Then
<1> QED
  BY <1>1, <1>7 DEF Read, PortIn

LEMMA ReadNext ==
  ASSUME Legible, Typed, Read, Next
  PROVE  Read'
<1>1. CASE ReadLine
  BY <1>1, ReadOneLine
<1>2. CASE ~ReadLine
  <2>1. /\ UNCHANGED << config, line, server >>
        /\ pc' \notin { "config", "exited" } =>
             pc \notin { "config", "exited" } \/ line = Len(config)
    <3>1. CASE Configure
      BY <1>2, <3>1 DEF Configure, RefuseLine, EndConfig, given
    <3>2. CASE Serve \/ Gone
      BY <3>2 DEF Serve, NotFound, LacksParameter, Call, Answer, Gone, vars, given
    <3>3. CASE ReadField \/ RefuseField \/ Connect
      BY <3>3 DEF ReadField, RefuseField, Connect, NoConnection, given
    <3>4. CASE ReadGreeting \/ GreetingEnds \/ Login \/ Query
      BY <3>4 DEF ReadGreeting, GreetingEnds, Login, Query, NoConnection, given
    <3>5. CASE AddEndpoint \/ EndRows \/ Listen
      BY <3>5 DEF AddEndpoint, EndRows, Listen, given
    <3> QED
      BY <3>1, <3>2, <3>3, <3>4, <3>5 DEF Next, Start
  <2> QED
    BY <2>1 DEF Read, PortIn
<1> QED
  BY <1>1, <1>2

-----------------------------------------------------------------------------
(* The connection line                                                      *)

(* While fields are left, the next of them is read.                         *)
LEMMA NextField ==
  ASSUME Legible, Typed, Read, line = Len(config), NEW n \in 0..Len(Fields),
         fields = Left(server.connection, Len(Fields))[n]
  PROVE  /\ fields = <<>> => n = Len(Fields)
         /\ fields # <<>> =>
              /\ n + 1 \in DOMAIN Fields /\ FieldSays(Field, Fields[n + 1])
              /\ SplitAt(fields, " ").rest = Left(server.connection, Len(Fields))[n + 1]
<1> DEFINE rest == Left(server.connection, Len(Fields))
<1>1. Fields \in Seq(FieldRecords) /\ FieldsSay(server.connection, Fields)
  BY FieldsMean
<1>2. PICK len \in Nat : len = Len(Fields) /\ DOMAIN Fields = 1..len
  BY <1>1
<1>3. /\ rest[len] = <<>>
      /\ \A k \in 1..len :
           rest[k - 1] # <<>> /\ FieldSays(SplitAt(rest[k - 1], " ").split, Fields[k])
  BY <1>1, <1>2, Zenon DEF FieldsSay
<1>4. server.connection \in Seq(STRING)
  BY DEF Typed
<1>5. \A k \in 1..len : rest[k] = SplitAt(rest[k - 1], " ").rest
  <2>1. PICK text \in Seq(STRING) : text = server.connection
    BY <1>4
  <2>2. \A k \in 1..len : Left(text, len)[k] = SplitAt(Left(text, len)[k - 1], " ").rest
    BY LeftRun, ZenonT(30)
  <2> QED
    BY <1>2, <2>1, <2>2, Zenon
<1> HIDE DEF rest
<1>6. fields = rest[n]
  BY DEF rest
<1>7. CASE n = len
  BY <1>2, <1>3, <1>6, <1>7
<1>8. CASE n # len
  <2>1. n + 1 \in 1..len /\ (n + 1) - 1 = n
    BY <1>2, <1>8
  <2>2. fields # <<>> /\ FieldSays(SplitAt(fields, " ").split, Fields[n + 1])
    BY <1>3, <1>6, <2>1
  <2>3. SplitAt(fields, " ").rest = rest[n + 1]
    BY <1>5, <1>6, <2>1
  <2> QED
    BY <1>2, <2>1, <2>2, <2>3, Zenon DEF Field, rest
<1> QED
  BY <1>7, <1>8

LEMMA ConnectedInit ==
  ASSUME Init
  PROVE  Connected
<1>1. pc = "config" /\ target = NoTarget
  BY DEF Init
<1>2. \A key, default : LastIn(Fields, 0, key, default) = default
  BY LastOfNone
<1>3. Agrees(0)
  BY <1>1, <1>2, DefaultPorts DEF Agrees, NoTarget
<1> QED
  BY <1>1, <1>3 DEF Connected

(* A field sets what has its key.                                           *)
LEMMA ConnectedField ==
  ASSUME Legible, Typed, Read, Connected, ReadField
  PROVE  Connected'
<1>1. PICK n \in 0..Len(Fields) :
        fields = Left(server.connection, Len(Fields))[n] /\ Agrees(n)
  BY DEF ReadField, Connected
<1>2. /\ UNCHANGED << config, world, line, server >> /\ pc = "fields" /\ pc' = pc
      /\ fields # <<>> /\ fields' = SplitAt(fields, " ").rest
  BY DEF ReadField, given
<1>3. line = Len(config)
  BY <1>2 DEF Read
<1>4. /\ n + 1 \in DOMAIN Fields /\ FieldSays(Field, Fields[n + 1])
      /\ fields' = Left(server.connection, Len(Fields))[n + 1]
  BY <1>1, <1>2, <1>3, NextField
<1> DEFINE f == Fields[n + 1]
           Now(key, default) == LastIn(Fields, n, key, default)
           Then(key, default) == LastIn(Fields, n + 1, key, default)
<1>5. \A key, default :
        Then(key, default) = IF f.key = key THEN f.value ELSE Now(key, default)
  <2>1. n \in Nat
    OBVIOUS
  <2> QED
    BY <2>1, LastOfMore
<1>6. target \in Target /\ PortLimit \in Nat /\ PortLimit > 5432
  BY PortAssumption DEF Typed, Target, Strings, Ports
<1>7. \A key \in FieldKeys :
        /\ f.key = key <=> Field # <<>> /\ FieldKey = << key >>
        /\ f.key = key => FieldVal = f.value
  BY <1>4, Zenon DEF FieldSays, FieldKey, FieldVal
<1>8. f.key = "port" /\ IsLong(f.value) => ToLong(f.value) < PortLimit
  BY <1>4, Zenon DEF FieldSays
<1>9. { "host", "port", "database", "user", "password" } \subseteq FieldKeys
  BY DEF FieldKeys
<1>10. f.key = "port" => f.value \in Strings
  <2>1. Fields \in Seq(FieldRecords)
    BY FieldsMean
  <2>2. Fields[n + 1] \in FieldRecords
    BY <1>4, <2>1
  <2>3. f \in FieldRecords
    BY <2>2
  <2> HIDE DEF f
  <2> QED
    BY <2>3 DEF FieldRecords
<1> HIDE DEF f, Now, Then
<1>11. /\ target'.host = Then("host", <<>>)
       /\ target'.port = ToLong(Then("port", << "5", "4", "3", "2" >>))
       /\ target'.database = Then("database", <<>>)
       /\ target'.user = Then("user", <<>>)
       /\ target'.password = Then("password", <<>>)
  <2>1. /\ target.host = Now("host", <<>>)
        /\ target.port = ToLong(Now("port", << "5", "4", "3", "2" >>))
        /\ target.database = Now("database", <<>>)
        /\ target.user = Now("user", <<>>)
        /\ target.password = Now("password", <<>>)
    BY <1>1 DEF Agrees, Now
  <2>2. CASE Field = <<>>
    <3>1. target' = target
      BY <2>2 DEF ReadField
    <3>2. f.key \notin { "host", "port", "database", "user", "password" }
      BY <1>7, <1>9, <2>2
    <3> QED
      BY <1>5, <2>1, <3>1, <3>2
  <2>3. CASE Field # <<>>
    <3>1. target' = WithField /\ GoodField
      BY <2>3 DEF ReadField
    <3>2. CASE f.key = "host"
      <4>1. FieldKey = << "host" >> /\ FieldVal = f.value
        BY <1>7, <1>9, <3>2
      <4>2. target' = [target EXCEPT !.host = f.value]
        BY <3>1, <4>1 DEF WithField
      <4>3. /\ target'.host = f.value
            /\ target'.port = target.port
            /\ target'.database = target.database
            /\ target'.user = target.user
            /\ target'.password = target.password
        BY <1>6, <4>2 DEF Target
      <4> QED
        BY <1>5, <2>1, <3>2, <4>3
    <3>3. CASE f.key = "database"
      <4>1. FieldKey = << "database" >> /\ FieldVal = f.value
        BY <1>7, <1>9, <3>3
      <4>2. target' = [target EXCEPT !.database = f.value]
        BY <3>1, <4>1 DEF WithField
      <4>3. /\ target'.database = f.value
            /\ target'.host = target.host
            /\ target'.port = target.port
            /\ target'.user = target.user
            /\ target'.password = target.password
        BY <1>6, <4>2 DEF Target
      <4> QED
        BY <1>5, <2>1, <3>3, <4>3
    <3>4. CASE f.key = "user"
      <4>1. FieldKey = << "user" >> /\ FieldVal = f.value
        BY <1>7, <1>9, <3>4
      <4>2. target' = [target EXCEPT !.user = f.value]
        BY <3>1, <4>1 DEF WithField
      <4>3. /\ target'.user = f.value
            /\ target'.host = target.host
            /\ target'.port = target.port
            /\ target'.database = target.database
            /\ target'.password = target.password
        BY <1>6, <4>2 DEF Target
      <4> QED
        BY <1>5, <2>1, <3>4, <4>3
    <3>5. CASE f.key = "password"
      <4>1. FieldKey = << "password" >> /\ FieldVal = f.value
        BY <1>7, <1>9, <3>5
      <4>2. target' = [target EXCEPT !.password = f.value]
        BY <3>1, <4>1 DEF WithField
      <4>3. /\ target'.password = f.value
            /\ target'.host = target.host
            /\ target'.port = target.port
            /\ target'.database = target.database
            /\ target'.user = target.user
        BY <1>6, <4>2 DEF Target
      <4> QED
        BY <1>5, <2>1, <3>5, <4>3
    <3>6. CASE f.key = "port"
      <4>1. FieldKey = << "port" >> /\ FieldVal = f.value
        BY <1>7, <1>9, <3>6
      <4>2. target' = [target EXCEPT !.port = ToLong(f.value) % PortLimit]
        BY <3>1, <4>1 DEF WithField
      <4>3. IsLong(f.value)
        BY <3>1, <4>1, Zenon DEF GoodField
      <4>4. PICK p \in Nat : p = ToLong(f.value)
        BY <1>10, <3>6, <4>3, LongType DEF Strings
      <4>5. p % PortLimit = p
        BY <1>6, <1>8, <3>6, <4>3, <4>4
      <4>6. /\ target'.port = p
            /\ target'.host = target.host
            /\ target'.database = target.database
            /\ target'.user = target.user
            /\ target'.password = target.password
        BY <1>6, <4>2, <4>4, <4>5 DEF Target
      <4>7. /\ Then("host", <<>>) = Now("host", <<>>)
            /\ Then("database", <<>>) = Now("database", <<>>)
            /\ Then("user", <<>>) = Now("user", <<>>)
            /\ Then("password", <<>>) = Now("password", <<>>)
            /\ Then("port", << "5", "4", "3", "2" >>) = f.value
        BY <1>5, <3>6
      <4> QED
        BY <2>1, <4>4, <4>6, <4>7
    <3>7. CASE f.key \notin { "host", "port", "database", "user", "password" }
      <4>1. FieldKey \notin
              { << "host" >>, << "port" >>, << "database" >>, << "user" >>, << "password" >> }
        BY <1>7, <1>9, <2>3, <3>7
      <4>2. target' = target
        BY <3>1, <4>1 DEF WithField
      <4> QED
        BY <1>5, <2>1, <3>7, <4>2
    <3> QED
      BY <3>2, <3>3, <3>4, <3>5, <3>6, <3>7
  <2> QED
    BY <2>2, <2>3
<1>12. Fields' = Fields
  BY <1>2 DEF Fields
<1>13. Agrees(n + 1)'
  BY <1>11, <1>12 DEF Agrees, Then
<1>14. n + 1 \in 0..Len(Fields)
  <2>1. Fields \in Seq(FieldRecords)
    BY FieldsMean
  <2> QED
    BY <1>4, <2>1
<1>15. (\E k \in 0..Len(Fields) :
          fields = Left(server.connection, Len(Fields))[k] /\ Agrees(k))'
  BY <1>2, <1>4, <1>12, <1>13, <1>14
<1> QED
  BY <1>2, <1>15 DEF Connected

LEMMA ConnectedNext ==
  ASSUME Legible, Typed, Read, Connected, Next
  PROVE  Connected'
<1>1. UNCHANGED << config, world >>
  BY DEF Next, Configure, ReadLine, RefuseLine, EndConfig, Start, ReadField, RefuseField,
         Connect, ReadGreeting, GreetingEnds, Login, Query, AddEndpoint, EndRows, Listen,
         Serve, NotFound, LacksParameter, Call, Answer, Gone, given, vars
<1>2. Fields' = Fields
  BY <1>1 DEF Fields
<1>3. CASE ReadField
  BY <1>3, ConnectedField
<1>4. CASE EndConfig
  <2>1. /\ pc = "config" /\ pc' \in { "fields", "exited" } /\ fields' = server.connection
        /\ UNCHANGED << server, target >>
    BY <1>4 DEF EndConfig
  <2>2. Agrees(0)'
    BY <1>2, <2>1 DEF Connected, Agrees, LastIn
  <2>3. 0 \in 0..Len(Fields) /\ Len(Fields) \in Nat
    BY FieldsMean
  <2>4. server.connection \in Seq(STRING)
    BY DEF Typed
  <2>5. fields' = Left(server'.connection, Len(Fields'))[0]
    BY <1>2, <2>1, <2>3, <2>4, LeftRun
  <2>6. (\E k \in 0..Len(Fields) :
           fields = Left(server.connection, Len(Fields))[k] /\ Agrees(k))'
    BY <1>2, <2>2, <2>3, <2>5
  <2> QED
    BY <2>1, <2>6 DEF Connected
<1>5. CASE Connect
  <2>1. PICK n \in 0..Len(Fields) :
          fields = Left(server.connection, Len(Fields))[n] /\ Agrees(n)
    BY <1>5 DEF Connect, Connected
  <2>2. /\ UNCHANGED target /\ pc = "fields" /\ fields = <<>>
        /\ pc' \in { "login", "crashed" }
    BY <1>5 DEF Connect, NoConnection
  <2>3. line = Len(config)
    BY <2>2 DEF Read
  <2>4. n = Len(Fields)
    BY <2>1, <2>2, <2>3, NextField
  <2>5. Agrees(Len(Fields))'
    BY <1>2, <2>1, <2>2, <2>4 DEF Agrees
  <2> QED
    BY <2>2, <2>5 DEF Connected
<1>6. CASE ReadLine
  <2>1. pc = "config" /\ pc' = "config" /\ UNCHANGED target
    BY <1>6 DEF ReadLine, AtLine
  <2> QED
    BY <1>2, <2>1 DEF Connected, Agrees
<1>7. CASE ~(ReadLine \/ ReadField \/ EndConfig \/ Connect)
  <2>1. /\ UNCHANGED << server, target >>
        /\ \/ pc' = pc /\ UNCHANGED fields
           \/ pc' \in { "exited", "crashed" }
           \/ { pc, pc' } \subseteq { "login", "query", "rows", "listen", "serving" }
    <3>1. CASE Serve \/ Gone
      BY <3>1 DEF Serve, NotFound, LacksParameter, Call, Answer, Gone, vars, given
    <3>2. CASE RefuseLine \/ RefuseField
      BY <3>2 DEF RefuseLine, RefuseField, NoConnection, given
    <3>3. CASE ReadGreeting \/ GreetingEnds \/ Login \/ Query
      BY <3>3 DEF ReadGreeting, GreetingEnds, Login, Query, NoConnection, given
    <3>4. CASE AddEndpoint \/ EndRows \/ Listen
      BY <3>4 DEF AddEndpoint, EndRows, Listen, given
    <3> QED
      BY <1>7, <3>1, <3>2, <3>3, <3>4 DEF Next, Start, Configure
  <2>2. \A k : Agrees(k)' <=> Agrees(k)
    BY <1>2, <2>1 DEF Agrees
  <2> QED
    BY <1>2, <2>1, <2>2 DEF Connected
<1> QED
  BY <1>3, <1>4, <1>5, <1>6, <1>7

-----------------------------------------------------------------------------
(* Why a server gives up                                                    *)

(* A field of a good connection line is taken where the host is known.      *)
LEMMA GoodFieldTaken ==
  ASSUME Legible, Typed, Read, Connected, pc = "fields", fields # <<>>,
         Good(Fields), world.host
  PROVE  GoodField
<1>1. PICK n \in 0..Len(Fields) :
        fields = Left(server.connection, Len(Fields))[n] /\ Agrees(n)
  BY DEF Connected
<1>2. line = Len(config)
  BY DEF Read
<1>3. n + 1 \in DOMAIN Fields /\ FieldSays(Field, Fields[n + 1])
  BY <1>1, <1>2, NextField
<1>4. PICK f : f = Fields[n + 1]
  OBVIOUS
<1>5. f.good
  BY <1>3, <1>4 DEF Good
<1>6. /\ f.key \in FieldKeys
      /\ f.key = "port" => IsLong(f.value)
      /\ \A key \in FieldKeys :
           f.key = key <=> Field # <<>> /\ FieldKey = << key >>
      /\ f.key \in FieldKeys => FieldVal = f.value
  BY <1>3, <1>4, <1>5, Zenon DEF FieldSays, FieldKey, FieldVal
<1>7. Field # <<>> /\ FieldKey = << f.key >>
  BY <1>6, Zenon
<1>8. FieldKey = << "port" >> => IsLong(FieldVal)
  <2>1. "port" \in FieldKeys
    BY DEF FieldKeys
  <2> QED
    BY <1>6, <1>7, <2>1
<1>9. KnownField
  BY <1>6, <1>7 DEF KnownField, FieldKeys
<1> QED
  BY <1>8, <1>9 DEF GoodField

(* A greeting that lets the server in is read to the end of it.             *)
LEMMA GreetingRead ==
  ASSUME Typed, Greeted, Reachable
  PROVE  /\ LastRead = "Z" => authOk
         /\ LastRead # "Z" => greeted # Len(world.greeting)
<1>1. greeted \in Nat /\ Len(world.greeting) \in Nat
      /\ DOMAIN world.greeting = 1..Len(world.greeting)
  BY Given DEF Typed, World
<1>2. PICK i \in DOMAIN world.greeting, j \in DOMAIN world.greeting :
        /\ i < j /\ world.greeting[i] = "AuthenticationOk" /\ world.greeting[j] = "Z"
        /\ \A k \in 1..i : world.greeting[k] # "Z"
  BY DEF Reachable
<1>3. world.stack # "Z"
  BY DEF Reachable
<1>4. ASSUME LastRead = "Z" PROVE authOk
  <2>1. greeted # 0 /\ world.greeting[greeted] = "Z"
    BY <1>3, <1>4 DEF LastRead
  <2>2. greeted \notin 1..i
    BY <1>2, <2>1
  <2>3. i \in 1..greeted
    BY <1>1, <2>1, <2>2
  <2> QED
    BY <1>2, <2>3 DEF Greeted
<1>5. ASSUME greeted = Len(world.greeting) PROVE LastRead = "Z"
  <2>1. j \in 1..greeted /\ greeted # 0
    BY <1>1, <1>5
  <2>2. j \notin 1..(greeted - 1)
    BY <1>2 DEF Greeted
  <2>3. j = greeted
    BY <1>1, <2>1, <2>2
  <2> QED
    BY <1>2, <2>1, <2>3 DEF LastRead
<1> QED
  BY <1>4, <1>5

LEMMA ExcusedInit ==
  ASSUME Init
  PROVE  Excused
BY DEF Init, Excused

LEMMA ExcusedNext ==
  ASSUME Legible, Typed, Greeted, Read, Connected, Excused, Next
  PROVE  Excused'
<1>1. UNCHANGED << config, world >>
  BY DEF Next, Configure, ReadLine, RefuseLine, EndConfig, Start, ReadField, RefuseField,
         Connect, ReadGreeting, GreetingEnds, Login, Query, AddEndpoint, EndRows, Listen,
         Serve, NotFound, LacksParameter, Call, Answer, Gone, given, vars
<1>2. Reachable' = Reachable
  BY <1>1 DEF Reachable, Fields
<1> HIDE DEF Reachable
<1> DEFINE NoUse == ~Good(config) \/ config = <<>> \/ world.rows < 0 \/ ~world.free
           Unread == \E i \in DOMAIN world.functions : CannotRead(world.functions[i])
<1>3. /\ pc = "exited" => NoUse
      /\ pc = "crashed" => ~Reachable \/ Unread
  BY DEF Excused
<1>4. NoUse' = NoUse /\ Unread' = Unread
  BY <1>1
<1>5. ASSUME pc' = "exited" => NoUse, pc' = "crashed" => ~Reachable \/ Unread
      PROVE  Excused'
  <2>1. /\ pc' = "exited" => NoUse'
        /\ pc' = "crashed" => ~Reachable' \/ Unread'
    BY <1>2, <1>4, <1>5
  <2> QED
    BY <2>1 DEF Excused
<1>6. CASE RefuseLine
  <2>1. line + 1 \in DOMAIN config /\ pc' = "exited"
    BY <1>6, Given DEF RefuseLine, AtLine, Typed
  <2>2. ~config[line + 1].good
    BY <1>6, <2>1, LineMeans, Zenon DEF RefuseLine, BadLine, LineSays, Text
  <2>3. ~Good(config)
    BY <2>1, <2>2 DEF Good
  <2> QED
    BY <1>5, <2>1, <2>3
<1>7. CASE EndConfig
  <2>1. pc' = "exited" => config = <<>>
    BY <1>7 DEF EndConfig
  <2>2. pc' # "crashed"
    BY <1>7 DEF EndConfig
  <2> QED
    BY <1>5, <2>1, <2>2
<1>8. CASE RefuseField
  <2>1. pc' = "crashed" /\ pc = "fields" /\ fields # <<>> /\ ~GoodField
    BY <1>8 DEF RefuseField, NoConnection
  <2>2. ~Reachable
    BY <2>1, GoodFieldTaken DEF Reachable
  <2> QED
    BY <1>5, <2>1, <2>2
<1>9. CASE Connect
  <2>1. pc' # "exited" /\ (pc' = "crashed" => ~world.accepts)
    BY <1>9 DEF Connect, NoConnection
  <2>2. ~world.accepts => ~Reachable
    BY DEF Reachable
  <2> QED
    BY <1>5, <2>1, <2>2
<1>10. CASE GreetingEnds
  <2>1. pc' = "crashed" /\ LastRead # "Z" /\ greeted = Len(world.greeting)
    BY <1>10 DEF GreetingEnds, NoConnection
  <2>2. ~Reachable
    BY <2>1, GreetingRead
  <2> QED
    BY <1>5, <2>1, <2>2
<1>11. CASE Login
  <2>1. pc' # "exited" /\ (pc' = "crashed" => LastRead = "Z" /\ ~authOk)
    BY <1>11 DEF Login, NoConnection
  <2> QED
    BY <1>5, <2>1, GreetingRead
<1>12. CASE Query
  <2>1. world.rows \in Int
    BY Given DEF World
  <2>2. pc' # "crashed" /\ (pc' = "exited" => world.rows < 0)
    BY <1>12, <2>1 DEF Query
  <2> QED
    BY <1>5, <2>2
<1>13. CASE AddEndpoint
  <2>1. pc' # "exited" /\ (pc' = "crashed" => CannotRead(Row))
    BY <1>13 DEF AddEndpoint
  <2>2. Len(routes) + 1 \in DOMAIN world.functions
    <3>1. Len(routes) < Len(world.functions) /\ Len(routes) \in Nat
      BY <1>13 DEF AddEndpoint, HasRow, Typed
    <3> QED
      BY <3>1, Given DEF World
  <2>3. CannotRead(Row) => Unread
    BY <2>2, Zenon DEF Row
  <2> QED
    BY <1>5, <2>1, <2>3
<1>14. CASE Listen
  <2>1. pc' # "crashed" /\ (pc' = "exited" => ~world.free)
    BY <1>14 DEF Listen
  <2> QED
    BY <1>5, <2>1
<1>15. CASE ReadLine \/ ReadField \/ ReadGreeting \/ EndRows \/ Serve \/ Gone
  <2>1. pc' = pc \/ pc' = "listen"
    BY <1>15 DEF ReadLine, ReadField, ReadGreeting, EndRows, Serve, NotFound,
       LacksParameter, Call, Answer, Gone, given, vars
  <2> QED
    BY <1>3, <1>5, <2>1
<1> QED
  BY <1>6, <1>7, <1>8, <1>9, <1>10, <1>11, <1>12, <1>13, <1>14, <1>15
     DEF Next, Configure, Start

(* What holds besides when the configuration's lines say what they mean.    *)
Said == Base /\ Read /\ Connected /\ Excused

LEMMA SaidCorrect ==
  ASSUME Legible
  PROVE  Spec => []Said
<1>1. Init => Said
  BY TypedInit, GreetedInit, RoutedInit, ReadInit, ConnectedInit, ExcusedInit
     DEF Base, Said
<1>2. Said /\ [Next]_vars => Said'
  <2> SUFFICES ASSUME Said, [Next]_vars PROVE Said'
    OBVIOUS
  <2>1. CASE Next
    BY <2>1, TypedNext, GreetedNext, RoutedNext, ReadNext, ConnectedNext, ExcusedNext
       DEF Base, Said
  <2>2. CASE UNCHANGED vars
    <3>1. Typed' /\ Greeted' /\ Routed'
      BY <2>2 DEF vars, given, Said, Base, Typed, Greeted, Routed
    <3>2. Read'
      BY <2>2 DEF vars, given, Said, Read, PortIn
    <3>3. Connected'
      BY <2>2 DEF vars, given, Said, Connected, Agrees, Fields
    <3>4. Excused'
      BY <2>2 DEF vars, given, Said, Excused, Reachable, Fields
    <3> QED
      BY <3>1, <3>2, <3>3, <3>4 DEF Said, Base
  <2> QED
    BY <2>1, <2>2
<1> QED
  BY <1>1, <1>2, PTL DEF Spec

(* load_config and pg_connect: for every configuration whose lines say      *)
(* what they mean, a server that runs uses the last connection, schema and  *)
(* port given, and has connected to the host, port and database the last    *)
(* connection line says, with its user and password.                        *)
THEOREM StartsAsConfiguredCorrect ==
  ASSUME Legible
  PROVE  Spec => []StartsAsConfigured
<1>1. ASSUME Said, pc = "serving", Port # PortLimit
      PROVE  /\ server.port = Port
             /\ server.schema = LastOf(config, "schema", <<>>)
             /\ target.host = LastOf(Fields, "host", <<>>)
             /\ target.port = ToLong(LastOf(Fields, "port", << "5", "4", "3", "2" >>))
             /\ target.database = LastOf(Fields, "database", <<>>)
             /\ target.user = LastOf(Fields, "user", <<>>)
             /\ target.password = LastOf(Fields, "password", <<>>)
  <2>1. Typed /\ Read /\ Agrees(Len(Fields)) /\ line = Len(config)
    BY <1>1 DEF Said, Base, Read, Connected
  <2>2. config \in Seq(Line) /\ Fields \in Seq(FieldRecords)
    BY <2>1, Given, FieldsMean
  <2>3. \A key, default : LastIn(config, Len(config), key, default) = LastOf(config, key, default)
    BY <2>2, LastOfAll
  <2>4. \A key, default : LastIn(Fields, Len(Fields), key, default) = LastOf(Fields, key, default)
    BY <2>2, LastOfAll
  <2>5. PortIn(line) = Port
    BY <2>1, <2>3 DEF PortIn, Port
  <2>6. Port \in 0..PortLimit /\ server.port = Port % PortLimit
    BY <2>1, <2>5 DEF Read
  <2>7. PICK p \in 0..PortLimit : p = Port
    BY <2>6
  <2>8. p % PortLimit = p
    BY <1>1, <2>7, PortAssumption
  <2>9. server.port = Port
    BY <2>6, <2>7, <2>8
  <2> QED
    BY <2>1, <2>3, <2>4, <2>9 DEF Read, Agrees
<1>2. Said => StartsAsConfigured
  BY <1>1 DEF StartsAsConfigured
<1> QED
  BY <1>2, SaidCorrect, PTL

(* main: for such a configuration, whatever the database and the catalog,   *)
(* the server gives up only for one of the four reasons, and otherwise has  *)
(* a route for every function, in the order of the catalog.                 *)
THEOREM ServesCorrect ==
  ASSUME Legible
  PROVE  Spec => []Serves
<1>1. ASSUME Said, pc = "serving", world.rows >= Len(world.functions)
      PROVE  /\ Len(routes) = Len(world.functions)
             /\ \A i \in DOMAIN routes :
                  WellDeclared(world.functions[i]) => routes[i].name = world.functions[i].name
  <2>1. /\ Len(routes) = Len(world.functions)
        /\ \A i \in 1..Len(routes) : routes[i] = ReadEndpoint(world.functions[i])
    BY <1>1 DEF Said, Base, Routed
  <2>2. DOMAIN routes = 1..Len(routes)
    BY <1>1 DEF Said, Base, Typed
  <2>3. ASSUME NEW f, WellDeclared(f) PROVE ReadEndpoint(f).name = f.name
    BY <2>3 DEF WellDeclared, ReadEndpoint, Route
  <2> QED
    BY <2>1, <2>2, <2>3
<1>2. Said => Excused
  BY DEF Said
<1>3. Said => Serves
  BY <1>1, <1>2 DEF Excused, Serves
<1> QED
  BY <1>3, SaidCorrect, PTL

-----------------------------------------------------------------------------
(* Texts that are put together of parts, and taken apart again              *)

LEMMA FirstIs ==
  ASSUME NEW S, NEW s \in Seq(S), NEW c, NEW i \in 1..Len(s), s[i] = c,
         \A j \in 1..(i - 1) : s[j] # c
  PROVE  IndexOf(s, c) = i
<1> DEFINE Is(k) == s[k] = c /\ \A j \in 1..(k - 1) : ~(s[j] = c)
<1>1. i \in DOMAIN s /\ Is(i)
  OBVIOUS
<1>2. ASSUME NEW k \in DOMAIN s, Is(k) PROVE k = i
  <2>1. k \in 1..Len(s) /\ ~(i < k) /\ ~(k < i)
    BY <1>2
  <2> QED
    BY <2>1
<1>3. \E k \in DOMAIN s : s[k] = c
  BY <1>1
<1>4. IndexOf(s, c) = CHOOSE k \in DOMAIN s : Is(k)
  BY <1>3, Zenon DEF IndexOf, FirstOf
<1> HIDE DEF Is
<1>5. IndexOf(s, c) \in DOMAIN s /\ Is(IndexOf(s, c))
  BY <1>1, <1>4, Zenon
<1> QED
  BY <1>2, <1>5

LEMMA FirstNone ==
  ASSUME NEW S, NEW s \in Seq(S), NEW c, \A j \in DOMAIN s : s[j] # c
  PROVE  IndexOf(s, c) = 0
BY Zenon DEF IndexOf, FirstOf

(* What is in front of the first separator is split off.                    *)
LEMMA SplitFirst ==
  ASSUME NEW S, NEW a \in Seq(S), NEW b \in Seq(S), NEW c,
         \A j \in DOMAIN a : a[j] # c, b # <<>> => b[1] = c
  PROVE  /\ SplitAt(a \o b, c).split = a
         /\ SplitAt(a \o b, c).rest = IF b = <<>> THEN <<>> ELSE Tail(b)
<1>1. PICK m \in Nat : m = Len(a) /\ DOMAIN a = 1..m
  OBVIOUS
<1>2. a \o b \in Seq(S)
  OBVIOUS
<1>3. CASE b = <<>>
  <2>1. a \o b = a
    BY <1>3, ConcatEmptySeq
  <2>2. IndexOf(a, c) = 0
    BY FirstNone
  <2> QED
    BY <1>3, <2>1, <2>2, Zenon DEF SplitAt
<1>4. CASE b # <<>>
  <2>1. PICK n \in Nat : n = Len(b) /\ n # 0
    BY <1>4, EmptySeq
  <2>2. Len(a \o b) = m + n /\ (a \o b)[m + 1] = c
    BY <1>1, <1>4, <2>1
  <2>3. \A j \in 1..m : (a \o b)[j] = a[j]
    BY <1>1
  <2>4. m + 1 \in 1..Len(a \o b) /\ (m + 1) - 1 = m
    BY <2>1, <2>2
  <2>5. \A j \in 1..((m + 1) - 1) : (a \o b)[j] # c
    BY <1>1, <2>3, <2>4
  <2>6. IndexOf(a \o b, c) = m + 1 /\ m + 1 # 0
    <3>1. PICK s \in Seq(S) : s = a \o b
      BY <1>2
    <3>2. PICK i \in 1..Len(s) : i = m + 1
      BY <2>4, <3>1
    <3>3. s[i] = c /\ \A j \in 1..(i - 1) : s[j] # c
      BY <2>2, <2>5, <3>1, <3>2
    <3>4. IndexOf(s, c) = i
      BY <3>3, FirstIs
    <3> QED
      BY <1>1, <3>1, <3>2, <3>4
  <2>7. SplitAt(a \o b, c) =
          [split |-> Take(a \o b, (m + 1) - 1), rest |-> Drop(a \o b, m + 1)]
    BY <2>6, Zenon DEF SplitAt
  <2>8. Take(a \o b, (m + 1) - 1) = a
    <3>1. Take(a \o b, (m + 1) - 1) = SubSeq(a \o b, 1, m)
      BY <2>1, <2>2, <2>4 DEF Take
    <3>2. SubSeq(a \o b, 1, m) = a
      BY <1>1, <2>1, <2>2, <2>3
    <3> QED
      BY <3>1, <3>2
  <2>9. Drop(a \o b, m + 1) = Tail(b)
    <3>1. CASE n = 1
      <4>1. Drop(a \o b, m + 1) = SubSeq(a \o b, (m + 1) + 1, m + 1)
        BY <2>2, <3>1 DEF Drop
      <4>2. SubSeq(a \o b, (m + 1) + 1, m + 1) = <<>>
        BY <1>1, <1>2, <2>2
      <4>3. Tail(b) = <<>>
        <5>1. Tail(b) \in Seq(S) /\ Len(Tail(b)) = 0
          <6>1. Tail(b) \in Seq(S) /\ Len(Tail(b)) = Len(b) - 1
            BY <1>4, HeadTailProperties
          <6> QED
            BY <2>1, <3>1, <6>1
        <5> QED
          BY <5>1, EmptySeq
      <4> QED
        BY <4>1, <4>2, <4>3
    <3>2. CASE n # 1
      <4>1. Drop(a \o b, m + 1) = SubSeq(a \o b, (m + 1) + 1, m + n)
        BY <2>1, <2>2, <3>2 DEF Drop
      <4>2. /\ SubSeq(a \o b, (m + 1) + 1, m + n) \in Seq(S)
            /\ Len(SubSeq(a \o b, (m + 1) + 1, m + n)) = n - 1
            /\ \A k \in 1..(n - 1) : SubSeq(a \o b, (m + 1) + 1, m + n)[k] = b[k + 1]
        BY <1>1, <1>2, <2>1, <2>2, <3>2
      <4>3. Tail(b) \in Seq(S) /\ Len(Tail(b)) = n - 1
            /\ \A k \in 1..(n - 1) : Tail(b)[k] = b[k + 1]
        BY <1>4, <2>1
      <4>4. PICK s \in Seq(S) : s = SubSeq(a \o b, (m + 1) + 1, m + n)
        BY <4>2
      <4>5. PICK t \in Seq(S) : t = Tail(b)
        BY <4>3
      <4>6. Len(s) = Len(t) /\ \A k \in 1..Len(s) : s[k] = t[k]
        BY <4>2, <4>3, <4>4, <4>5
      <4>7. s = t
        BY <4>6, SeqEqual
      <4> QED
        BY <4>1, <4>4, <4>5, <4>7
    <3> QED
      BY <3>1, <3>2
  <2> QED
    BY <1>4, <2>7, <2>8, <2>9
<1> QED
  BY <1>3, <1>4

-----------------------------------------------------------------------------
(* What a client escapes, the server reads back                             *)

LEMMA EscapesInclude == { " ", "%", "&", "/", "=" } \subseteq Escapes
BY EscapingAssumption, Zenon DEF Escapes

Hexes == { "0", "1", "2", "3", "4", "5", "6", "7", "8", "9",
           "a", "b", "c", "d", "e", "f", "A", "B", "C", "D", "E", "F" }

LEMMA HexesAre == HexDigit \subseteq Hexes
<1>1. DOMAIN DigitsInOrder = 1..16 /\ DOMAIN CapitalsInOrder = 1..16
  BY DEF DigitsInOrder, CapitalsInOrder
<1>2. ASSUME NEW i \in 1..16 PROVE DigitsInOrder[i] \in Hexes /\ CapitalsInOrder[i] \in Hexes
  <2>1. i \in { 1, 2, 3, 4, 5, 6, 7, 8, 9, 10, 11, 12, 13, 14, 15, 16 }
    OBVIOUS
  <2> QED
    BY <2>1 DEF DigitsInOrder, CapitalsInOrder, Hexes
<1> QED
  BY <1>1, <1>2 DEF HexDigit, ToSet

LEMMA EscapedReads ==
  ASSUME NEW c \in Escapes
  PROVE  \E h, l \in Hexes :
           /\ Escaped(c) = << "%", h, l >>
           /\ h \in HexDigit /\ l \in HexDigit
           /\ Code[16 * HexValue(h) + HexValue(l)] = c
<1>1. PICK h \in HexDigit, l \in HexDigit : Escaping[c] = << "%", h, l >> /\ ByteOf(h, l) = c
  BY EscapingAssumption, Zenon DEF Escapes
<1>2. Escaped(c) = << "%", h, l >>
  BY <1>1, Zenon DEF Escaped
<1>3. Code[16 * HexValue(h) + HexValue(l)] = c
  BY <1>1, Zenon DEF ByteOf
<1> QED
  BY <1>1, <1>2, <1>3, HexesAre, Zenon

(* The characters of texts.  (The provers do not know of a literal that it  *)
(* is a STRING.)                                                            *)
Characters == STRING \cup Hexes \cup { "%", "&", "/", "=", ":" }
Texts == Seq(Characters)

LEMMA Larger ==
  ASSUME NEW S, NEW T, S \subseteq T, NEW s \in Seq(S)
  PROVE  s \in Seq(T)
OBVIOUS

LEMMA OfThese ==
  ASSUME NEW S, NEW T, NEW s \in Seq(S), \A i \in 1..Len(s) : s[i] \in T
  PROVE  s \in Seq(T)
OBVIOUS

LEMMA OneLong ==
  ASSUME NEW S, NEW c \in S
  PROVE  << c >> \in Seq(S) /\ Len(<< c >>) = 1 /\ << c >>[1] = c
OBVIOUS

LEMMA ThreeLong ==
  ASSUME NEW S, NEW a \in S, NEW b \in S, NEW c \in S
  PROVE  /\ << a, b, c >> \in Seq(S) /\ Len(<< a, b, c >>) = 3
         /\ << a, b, c >>[1] = a /\ << a, b, c >>[2] = b /\ << a, b, c >>[3] = c
OBVIOUS

LEMMA EscapedType ==
  ASSUME NEW c \in Characters
  PROVE  /\ Escaped(c) \in Texts /\ Len(Escaped(c)) >= 1
         /\ \A i \in 1..Len(Escaped(c)) :
              Escaped(c)[i] \in ({ c } \ Escapes) \cup { "%" } \cup Hexes
         /\ Escaped(c)[1] = IF c \in Escapes THEN "%" ELSE c
<1>1. CASE c \in Escapes
  <2>1. PICK h, l \in Hexes : Escaped(c) = << "%", h, l >>
    BY <1>1, EscapedReads
  <2>2. h \in Characters /\ l \in Characters /\ "%" \in Characters
    BY Zenon DEF Characters
  <2>3. PICK t : t = << "%", h, l >>
    OBVIOUS
  <2>4. t \in Texts /\ Len(t) = 3 /\ t[1] = "%" /\ t[2] = h /\ t[3] = l
    BY <2>2, <2>3, ThreeLong, Zenon DEF Texts
  <2>5. \A i \in 1..3 : i = 1 \/ i = 2 \/ i = 3
    OBVIOUS
  <2>6. \A i \in 1..3 : t[i] \in { "%" } \cup Hexes
    BY <2>4, <2>5, Zenon
  <2>7. Escaped(c) = t
    BY <2>1, <2>3
  <2>8. Len(t) >= 1
    BY <2>4
  <2>9. \A i \in 1..Len(t) : t[i] \in ({ c } \ Escapes) \cup { "%" } \cup Hexes
    BY <2>4, <2>6, Zenon
  <2> QED
    BY <1>1, <2>4, <2>7, <2>8, <2>9, Zenon
<1>2. CASE c \notin Escapes
  <2>1. Escaped(c) = << c >>
    BY <1>2, Zenon DEF Escaped
  <2>2. << c >> \in Texts /\ Len(<< c >>) = 1 /\ << c >>[1] = c
    BY OneLong, Zenon DEF Texts
  <2>3. \A i \in 1..1 : i = 1
    OBVIOUS
  <2>4. PICK t : t = << c >>
    OBVIOUS
  <2>5. \A i \in 1..Len(t) : t[i] \in ({ c } \ Escapes) \cup { "%" } \cup Hexes
    BY <1>2, <2>2, <2>3, <2>4, Zenon
  <2>6. Len(t) >= 1
    BY <2>2, <2>4
  <2> QED
    BY <1>2, <2>1, <2>2, <2>4, <2>5, <2>6, Zenon
<1> QED
  BY <1>1, <1>2

(* A text's characters, escaped, from each position on.                     *)
EscapedFrom(from, s, L) ==
  /\ from \in [0..L -> Texts] /\ from[0] = Encode(s) /\ from[L] = <<>>
  /\ \A k \in 1..L : from[k - 1] = Escaped(s[k]) \o from[k]

LEMMA EncodeFrom ==
  ASSUME NEW s \in Texts, NEW L \in Nat, L = Len(s)
  PROVE  \E from : EscapedFrom(from, s, L)
<1> DEFINE seqs == [i \in DOMAIN s |-> Escaped(s[i])]
<1>1. DOMAIN s = 1..L /\ \A i \in 1..L : s[i] \in Characters
  BY DEF Texts
<1>2. \A i \in 1..L : Escaped(s[i]) \in Texts
  BY <1>1, EscapedType
<1>3. seqs \in Seq(Texts) /\ Len(seqs) = L /\ \A i \in 1..L : seqs[i] = Escaped(s[i])
  <2>1. PICK Y : Y = Texts
    OBVIOUS
  <2>2. seqs \in [1..L -> Y] /\ \A i \in 1..L : seqs[i] = Escaped(s[i])
    BY <1>1, <1>2, <2>1
  <2>3. seqs \in Seq(Y) /\ Len(seqs) = L
    <3> HIDE DEF seqs
    <3> QED
      BY <2>2
  <2> QED
    BY <2>1, <2>2, <2>3, Zenon
<1>4. Encode(s) = FlattenSeq(seqs)
  BY Zenon DEF Encode
<1> HIDE DEF seqs
<1>5. seqs \in Seq(Seq(Characters))
  BY <1>3 DEF Texts
<1>6. L = Len(seqs)
  BY <1>3
<1>7. PICK from : GoesOn(from, seqs, Characters, L)
  BY <1>5, <1>6, FlattenFrom, Zenon
<1>8. EscapedFrom(from, s, L)
  BY <1>3, <1>4, <1>7, Zenon DEF EscapedFrom, GoesOn, Texts
<1> QED
  BY <1>8

(* No character of an escaped text is one that is escaped, but the "%".     *)
LEMMA EncodeChars ==
  ASSUME NEW s \in Texts
  PROVE  /\ Encode(s) \in Texts
         /\ \A i \in 1..Len(Encode(s)) :
              Encode(s)[i] \in (ToSet(s) \ Escapes) \cup { "%" } \cup Hexes
<1> DEFINE X == (ToSet(s) \ Escapes) \cup { "%" } \cup Hexes
           seqs == [i \in DOMAIN s |-> Escaped(s[i])]
<1>1. PICK L \in Nat : L = Len(s) /\ DOMAIN s = 1..L /\ \A i \in 1..L : s[i] \in Characters
  BY DEF Texts
<1>2. \A i \in 1..L : s[i] \in ToSet(s)
  BY <1>1 DEF ToSet
<1>3. ASSUME NEW i \in 1..L PROVE Escaped(s[i]) \in Seq(X)
  <2>1. /\ Escaped(s[i]) \in Texts
        /\ \A j \in 1..Len(Escaped(s[i])) :
             Escaped(s[i])[j] \in ({ s[i] } \ Escapes) \cup { "%" } \cup Hexes
    BY <1>1, EscapedType
  <2>2. \A j \in 1..Len(Escaped(s[i])) : Escaped(s[i])[j] \in X
    BY <1>2, <2>1
  <2> HIDE DEF X
  <2> QED
    BY <2>1, <2>2, OfThese, Zenon DEF Texts
<1>4. seqs \in Seq(Seq(X))
  <2>1. PICK Y : Y = Seq(X)
    OBVIOUS
  <2>2. seqs \in [1..L -> Y]
    BY <1>1, <1>3, <2>1
  <2> HIDE DEF seqs
  <2>3. seqs \in Seq(Y)
    BY <2>2
  <2> QED
    BY <2>1, <2>3
<1>5. Encode(s) = FlattenSeq(seqs)
  BY Zenon DEF Encode
<1>6. X \subseteq Characters
  <2>1. ToSet(s) \subseteq Characters
    BY <1>1, Zenon DEF ToSet
  <2> QED
    BY <2>1, Zenon DEF Characters
<1> HIDE DEF seqs, X
<1>7. Encode(s) \in Seq(X)
  BY <1>4, <1>5, FlattenType, Zenon
<1>8. Encode(s) \in Texts /\ \A i \in 1..Len(Encode(s)) : Encode(s)[i] \in X
  <2>1. PICK t \in Seq(X) : t = Encode(s)
    BY <1>7
  <2>2. \A i \in 1..Len(t) : t[i] \in X
    OBVIOUS
  <2>3. t \in Texts
    BY <1>6, Larger, Zenon DEF Texts
  <2> QED
    BY <2>1, <2>2, <2>3, Zenon
<1> QED
  BY <1>8 DEF X

LEMMA EncodeLacks ==
  ASSUME NEW s \in Texts, NEW c, c \in { "/", "&", "=" } \/ (c = ":" /\ ":" \notin ToSet(s) \ Escapes)
  PROVE  \A i \in DOMAIN Encode(s) : Encode(s)[i] # c
<1>1. DOMAIN Encode(s) = 1..Len(Encode(s))
  BY EncodeChars DEF Texts
<1>2. c \notin (ToSet(s) \ Escapes) \cup { "%" } \cup Hexes
  BY EscapesInclude DEF Hexes
<1> QED
  BY <1>1, <1>2, EncodeChars

LEMMA EncodeLonger ==
  ASSUME NEW s \in Texts
  PROVE  Len(Encode(s)) >= Len(s) /\ (s = <<>> => Encode(s) = <<>>)
<1>1. PICK L \in Nat : L = Len(s) /\ \A i \in 1..L : s[i] \in Characters
  BY DEF Texts
<1>2. PICK from : EscapedFrom(from, s, L)
  BY <1>1, EncodeFrom, Zenon
<1> DEFINE S == { m \in 0..L : Len(from[L - m]) >= m }
<1>3. 0 \in S
  <2>1. L - 0 = L /\ from[L] = <<>>
    BY <1>2 DEF EscapedFrom
  <2> QED
    BY <2>1
<1>4. ASSUME NEW m \in 0..(L - 1), m \in S PROVE m + 1 \in S
  <2>1. L - m \in 1..L /\ (L - m) - 1 = L - (m + 1) /\ L - m \in 0..L /\ m + 1 \in 0..L
    OBVIOUS
  <2>2. PICK e \in Texts : e = Escaped(s[L - m]) /\ Len(e) >= 1
    BY <1>1, <2>1, EscapedType
  <2>3. PICK r \in Texts : r = from[L - m]
    BY <1>2, <2>1 DEF EscapedFrom
  <2>4. from[(L - m) - 1] = Escaped(s[L - m]) \o from[L - m]
    BY <1>2, <2>1, Zenon DEF EscapedFrom
  <2>5. from[L - (m + 1)] = e \o r
    BY <2>1, <2>2, <2>3, <2>4
  <2>6. Len(e \o r) = Len(e) + Len(r) /\ Len(r) >= m
    BY <1>4, <2>3 DEF Texts
  <2>7. Len(e \o r) >= m + 1
    BY <2>2, <2>6 DEF Texts
  <2> QED
    BY <2>1, <2>5, <2>7
<1>5. 0..L \subseteq S
  <2> HIDE DEF S
  <2> QED
    BY <1>3, <1>4, IntervalInduction
<1>6. L \in S /\ L - L = 0
  BY <1>5
<1>7. Len(from[0]) >= L
  BY <1>6
<1>8. s = <<>> => L = 0
  BY <1>1
<1> QED
  BY <1>1, <1>2, <1>7, <1>8 DEF EscapedFrom

PlainText(s) == \A i \in 1..Len(s) : s[i] \notin Escapes

LEMMA PlainStays ==
  ASSUME NEW s \in Texts, PlainText(s)
  PROVE  Encode(s) = s
<1>1. PICK L \in Nat : L = Len(s) /\ \A i \in 1..L : s[i] \in Characters
  BY DEF Texts
<1>2. PICK from : EscapedFrom(from, s, L)
  BY <1>1, EncodeFrom, Zenon
<1> DEFINE S == { m \in 0..L : /\ Len(from[L - m]) = m
                               /\ \A i \in 1..m : from[L - m][i] = s[(L - m) + i] }
<1>3. 0 \in S
  <2>1. L - 0 = L /\ from[L] = <<>>
    BY <1>2 DEF EscapedFrom
  <2> QED
    BY <2>1
<1>4. ASSUME NEW m \in 0..(L - 1), m \in S PROVE m + 1 \in S
  <2>1. L - m \in 1..L /\ (L - m) - 1 = L - (m + 1) /\ L - m \in 0..L /\ m + 1 \in 0..L
    OBVIOUS
  <2>2. PICK c \in Characters : c = s[L - m]
    BY <1>1, <2>1
  <2>3. PICK r \in Texts : r = from[L - m]
    BY <1>2, <2>1 DEF EscapedFrom
  <2>4. Escaped(s[L - m]) = << c >>
    <3>1. s[L - m] \notin Escapes
      BY <1>1, <2>1 DEF PlainText
    <3> QED
      BY <2>2, <3>1, Zenon DEF Escaped
  <2>5. from[(L - m) - 1] = Escaped(s[L - m]) \o from[L - m]
    BY <1>2, <2>1, Zenon DEF EscapedFrom
  <2>6. from[L - (m + 1)] = << c >> \o r
    BY <2>1, <2>3, <2>4, <2>5, Zenon
  <2>7. Len(r) = m /\ \A i \in 1..m : r[i] = s[(L - m) + i]
    BY <1>4, <2>3
  <2>8. /\ Len(<< c >> \o r) = m + 1 /\ (<< c >> \o r)[1] = c
        /\ \A i \in 2..(m + 1) : (<< c >> \o r)[i] = r[i - 1]
    BY <2>7 DEF Texts
  <2>9. ASSUME NEW i \in 1..(m + 1) PROVE (<< c >> \o r)[i] = s[(L - (m + 1)) + i]
    <3>1. CASE i = 1
      <4>1. (L - (m + 1)) + i = L - m
        BY <3>1
      <4> QED
        BY <2>2, <2>8, <3>1, <4>1
    <3>2. CASE i # 1
      <4>1. (L - (m + 1)) + i = (L - m) + (i - 1) /\ i - 1 \in 1..m /\ i \in 2..(m + 1)
        BY <3>2
      <4> QED
        BY <2>7, <2>8, <4>1
    <3> QED
      BY <3>1, <3>2
  <2> QED
    BY <2>1, <2>6, <2>8, <2>9
<1>5. 0..L \subseteq S
  <2> HIDE DEF S
  <2> QED
    BY <1>3, <1>4, IntervalInduction
<1>6. L \in S /\ L - L = 0
  BY <1>5
<1>7. Len(from[0]) = L /\ \A i \in 1..L : from[0][i] = s[i]
  <2>1. Len(from[L - L]) = L /\ \A i \in 1..L : from[L - L][i] = s[(L - L) + i]
    BY <1>6, Zenon
  <2>2. \A i \in 1..L : (L - L) + i = i
    OBVIOUS
  <2> QED
    BY <1>6, <2>1, <2>2, Zenon
<1>8. PICK t \in Texts : t = from[0] /\ t = Encode(s)
  BY <1>1, <1>2 DEF EscapedFrom
<1>9. t = s
  <2>1. Len(t) = Len(s) /\ \A i \in 1..Len(t) : t[i] = s[i]
    BY <1>1, <1>7, <1>8
  <2> QED
    BY <2>1, SeqEqual DEF Texts
<1> QED
  BY <1>8, <1>9

LEMMA PlainWas ==
  ASSUME NEW s \in Texts, PlainText(Encode(s))
  PROVE  PlainText(s)
<1>1. PICK L \in Nat : L = Len(s) /\ \A i \in 1..L : s[i] \in Characters
  BY DEF Texts
<1>2. PICK from : EscapedFrom(from, s, L)
  BY <1>1, EncodeFrom, Zenon
<1> DEFINE S == { k \in 0..L : PlainText(from[k]) /\ \A i \in 1..k : s[i] \notin Escapes }
<1>3. 0 \in S
  BY <1>2 DEF EscapedFrom
<1>4. ASSUME NEW k \in 0..(L - 1), k \in S PROVE k + 1 \in S
  <2>1. k + 1 \in 1..L /\ (k + 1) - 1 = k /\ k + 1 \in 0..L
    OBVIOUS
  <2>2. PICK e \in Texts : /\ e = Escaped(s[k + 1]) /\ Len(e) >= 1
                           /\ e[1] = IF s[k + 1] \in Escapes THEN "%" ELSE s[k + 1]
    BY <1>1, <2>1, EscapedType
  <2>3. PICK r \in Texts : r = from[k + 1]
    BY <1>2, <2>1 DEF EscapedFrom
  <2>4. from[(k + 1) - 1] = Escaped(s[k + 1]) \o from[k + 1]
    BY <1>2, <2>1, Zenon DEF EscapedFrom
  <2>5. from[k] = e \o r
    BY <2>1, <2>2, <2>3, <2>4
  <2>6. /\ Len(e \o r) = Len(e) + Len(r) /\ (e \o r)[1] = e[1]
        /\ \A i \in 1..Len(r) : (e \o r)[Len(e) + i] = r[i]
        /\ Len(e) \in Nat /\ Len(r) \in Nat
    BY <2>2 DEF Texts
  <2>7. \A i \in 1..Len(e \o r) : (e \o r)[i] \notin Escapes
    BY <1>4, <2>5 DEF PlainText
  <2>8. PlainText(r)
    <3> SUFFICES ASSUME NEW i \in 1..Len(r) PROVE r[i] \notin Escapes
      BY DEF PlainText
    <3>1. Len(e) + i \in 1..Len(e \o r)
      BY <2>6
    <3> QED
      BY <2>6, <2>7, <3>1
  <2>9. s[k + 1] \notin Escapes
    <3>1. e[1] \notin Escapes
      <4>1. 1 \in 1..Len(e \o r)
        BY <2>2, <2>6
      <4> QED
        BY <2>6, <2>7, <4>1
    <3> QED
      BY <2>2, <3>1, EscapesInclude
  <2>10. \A i \in 1..(k + 1) : i \in 1..k \/ i = k + 1
    OBVIOUS
  <2> QED
    BY <1>4, <2>1, <2>3, <2>8, <2>9, <2>10
<1>5. 0..L \subseteq S
  <2> HIDE DEF S
  <2> QED
    BY <1>3, <1>4, IntervalInduction
<1>6. L \in S
  BY <1>5
<1> QED
  BY <1>1, <1>6 DEF PlainText

(* A text that needs no escapes is what a client prints for itself only.    *)
LEMMA PlainPrinted ==
  ASSUME NEW s \in Texts, NEW t \in Texts, PlainText(t)
  PROVE  Encode(s) = t <=> s = t
BY PlainStays, PlainWas

DecodeRun(f, begin, L) ==
  f = [n \in 0..L |-> IF n = 0 THEN begin ELSE DecodeNext(f[n - 1])]

LEMMA DecodeExists ==
  ASSUME NEW begin, NEW L \in Nat
  PROVE  \E f : DecodeRun(f, begin, L)
<1> DEFINE Solves(f, m) ==
             f = [n \in 0..m |-> IF n = 0 THEN begin ELSE DecodeNext(f[n - 1])]
           S == { m \in 0..L : \E f : Solves(f, m) }
<1>1. 0 \in S
  <2>1. Solves([n \in 0..0 |-> begin], 0)
    OBVIOUS
  <2> HIDE DEF Solves
  <2> QED
    BY <2>1
<1>2. ASSUME NEW m \in 0..(L - 1), m \in S PROVE m + 1 \in S
  <2>1. PICK up : Solves(up, m)
    BY <1>2
  <2> DEFINE last == DecodeNext(up[m])
             more == [n \in 0..(m + 1) |-> IF n <= m THEN up[n] ELSE last]
  <2>2. ASSUME NEW n \in 0..(m + 1)
        PROVE  more[n] = IF n = 0 THEN begin ELSE DecodeNext(more[n - 1])
    <3>1. CASE n = 0
      BY <2>1, <3>1
    <3>2. CASE n # 0 /\ n <= m
      <4>1. n \in 0..m /\ more[n] = up[n] /\ more[n - 1] = up[n - 1]
        BY <3>2
      <4>2. up[n] = DecodeNext(up[n - 1])
        BY <2>1, <3>2, <4>1
      <4> QED
        BY <3>2, <4>1, <4>2
    <3>3. CASE n = m + 1
      <4>1. more[n] = last /\ more[n - 1] = up[m] /\ n # 0
        BY <3>3
      <4> HIDE DEF more
      <4> QED
        BY <4>1
    <3> QED
      BY <3>1, <3>2, <3>3
  <2>3. Solves(more, m + 1)
    <3> HIDE DEF more
    <3>1. more = [n \in 0..(m + 1) |-> more[n]]
      BY DEF more
    <3> QED
      BY <2>2, <3>1
  <2> HIDE DEF more, Solves
  <2> QED
    BY <2>3
<1>3. 0..L \subseteq S
  <2> HIDE DEF S
  <2> QED
    BY <1>1, <1>2, IntervalInduction
<1>4. \E f : Solves(f, L)
  BY <1>3
<1> QED
  BY <1>4, Zenon DEF DecodeRun

Undecoded(s) == [left |-> s, out |-> <<>>, ok |-> TRUE]
Decoding(up, s, L) ==
  /\ up[0] = Undecoded(s)
  /\ \A n \in 1..L : up[n] = DecodeNext(up[n - 1])

LEMMA DecodeRuns ==
  ASSUME NEW s, NEW L \in Nat, L = Len(s)
  PROVE  \E up : /\ Decoding(up, s, L)
                 /\ UrlDecode(s).value =
                      IF up[L].ok THEN up[L].out ELSE up[L].out \o Drop(s, Len(up[L].out))
<1> DEFINE up == CHOOSE f : DecodeRun(f, Undecoded(s), Len(s))
<1>1. DecodeRun(up, Undecoded(s), L)
  <2>1. PICK begin : begin = Undecoded(s)
    OBVIOUS
  <2>2. \E f : DecodeRun(f, begin, L)
    BY DecodeExists, Zenon
  <2> QED
    BY <2>1, <2>2, Zenon
<1>2. UrlDecode(s) =
        [ok |-> up[Len(s)].ok,
         value |-> IF up[Len(s)].ok THEN up[Len(s)].out
                   ELSE up[Len(s)].out \o Drop(s, Len(up[Len(s)].out))]
  BY Zenon DEF UrlDecode, Undecoded, DecodeRun
<1> HIDE DEF up
<1>3. up[0] = Undecoded(s)
  <2>1. 0 \in 0..L
    OBVIOUS
  <2> QED
    BY <1>1, <2>1, Zenon DEF DecodeRun
<1>4. \A n \in 1..L : up[n] = DecodeNext(up[n - 1])
  <2> SUFFICES ASSUME NEW n \in 1..L PROVE up[n] = DecodeNext(up[n - 1])
    OBVIOUS
  <2>1. n \in 0..L /\ n # 0
    OBVIOUS
  <2> QED
    BY <1>1, <2>1, Zenon DEF DecodeRun
<1>5. Decoding(up, s, L)
  BY <1>3, <1>4 DEF Decoding
<1> QED
  BY <1>2, <1>5

LEMMA DropFirst ==
  ASSUME NEW S, NEW a \in Seq(S), NEW b \in Seq(S)
  PROVE  Drop(a \o b, Len(a)) = b
<1>1. PICK m \in Nat, n \in Nat : m = Len(a) /\ n = Len(b)
  OBVIOUS
<1>2. PICK s \in Seq(S) : s = a \o b
  BY ConcatProperties
<1>3. Len(s) = m + n /\ \A i \in 1..n : s[m + i] = b[i]
  BY <1>1, <1>2
<1>4. Drop(s, m) = SubSeq(s, m + 1, m + n)
  BY <1>3 DEF Drop
<1>5. PICK t \in Seq(S) : t = SubSeq(s, m + 1, m + n)
  <2>1. SubSeq(s, m + 1, m + n) \in Seq(S)
    BY <1>3
  <2> QED
    BY <2>1, Zenon
<1>6. Len(t) = n /\ \A i \in 1..n : t[i] = s[m + i]
  BY <1>3, <1>5
<1>7. Len(t) = Len(b) /\ \A i \in 1..Len(t) : t[i] = b[i]
  BY <1>1, <1>3, <1>6
<1>8. t = b
  BY <1>7, SeqEqual
<1> QED
  BY <1>1, <1>2, <1>4, <1>5, <1>8

LEMMA TailOfFirst ==
  ASSUME NEW S, NEW c \in S, NEW b \in Seq(S)
  PROVE  /\ << c >> \o b \in Seq(S) /\ << c >> \o b # <<>> /\ (<< c >> \o b)[1] = c
         /\ Tail(<< c >> \o b) = b
<1>1. PICK s \in Seq(S) : s = << c >> \o b
  <2>1. << c >> \in Seq(S)
    OBVIOUS
  <2> QED
    BY <2>1, ConcatProperties
<1>2. Len(s) = 1 + Len(b) /\ s[1] = c /\ \A i \in 1..Len(b) : s[1 + i] = b[i]
  BY <1>1
<1>3. s # <<>>
  BY <1>2
<1>4. PICK t \in Seq(S) : t = Tail(s) /\ Len(t) = Len(s) - 1
        /\ \A i \in 1..Len(t) : t[i] = s[i + 1]
  BY <1>3, HeadTailProperties
<1>5. Len(t) = Len(b) /\ \A i \in 1..Len(t) : t[i] = b[i]
  BY <1>2, <1>4
<1>6. t = b
  BY <1>5, SeqEqual
<1> QED
  BY <1>1, <1>2, <1>3, <1>4, <1>6


(* A turn of the loop reads a character as it was.                          *)
LEMMA DecodeStep ==
  ASSUME NEW c \in Characters, c \notin Refused \ Escapes, NEW rest \in Texts, NEW out
  PROVE  DecodeNext([left |-> Escaped(c) \o rest, out |-> out, ok |-> TRUE]) =
           [left |-> rest, out |-> Append(out, c), ok |-> TRUE]
<1>1. PICK s \in Texts : s = Escaped(c) \o rest
  BY EscapedType, ConcatProperties DEF Texts
<1>2. PICK d : d = [left |-> s, out |-> out, ok |-> TRUE]
  OBVIOUS
<1>3. d.left = s /\ d.out = out /\ d.ok = TRUE
  BY <1>2
<1>4. CASE c \in Escapes
  <2>1. PICK h, l \in Hexes : /\ Escaped(c) = << "%", h, l >>
                              /\ h \in HexDigit /\ l \in HexDigit
                              /\ Code[16 * HexValue(h) + HexValue(l)] = c
    BY <1>4, EscapedReads
  <2>2. PICK e \in Texts : e = Escaped(c)
    BY EscapedType
  <2>3. Len(e) = 3 /\ e[1] = "%" /\ e[2] = h /\ e[3] = l
    BY <2>1, <2>2
  <2>4. s = e \o rest
    BY <1>1, <2>2
  <2>5. s[1] = "%" /\ s[2] = h /\ s[3] = l /\ Len(s) >= 3
    <3>1. Len(e \o rest) = Len(e) + Len(rest) /\ \A i \in 1..Len(e) : (e \o rest)[i] = e[i]
      BY ConcatProperties DEF Texts
    <3>2. Len(rest) \in Nat /\ 1 \in 1..3 /\ 2 \in 1..3 /\ 3 \in 1..3
      BY DEF Texts
    <3>3. Len(s) = 3 + Len(rest) /\ \A i \in 1..3 : s[i] = e[i]
      BY <2>3, <2>4, <3>1
    <3> QED
      BY <2>3, <3>2, <3>3
  <2>6. s # <<>> /\ 2 \in DOMAIN s /\ 3 \in DOMAIN s
    BY <2>5 DEF Texts
  <2>7. Drop(s, 3) = rest
    <3>1. Drop(e \o rest, Len(e)) = rest
      BY DropFirst, Zenon DEF Texts
    <3> QED
      BY <2>3, <2>4, <3>1
  <2>8. Escape(s)
    BY <2>1, <2>5, <2>6, Zenon DEF Escape, CharAt
  <2>9. DecodeNext(d) = [d EXCEPT !.left = Drop(@, 3), !.out = Append(@,
            Code[16 * HexValue(d.left[2]) + HexValue(d.left[3])])]
    BY <1>3, <2>6, <2>8, Zenon DEF DecodeNext, ByteOf
  <2>10. DecodeNext(d) = [left |-> Drop(s, 3), out |-> Append(out, 
            Code[16 * HexValue(s[2]) + HexValue(s[3])]), ok |-> TRUE]
    BY <1>2, <1>3, <2>9, ZenonT(30)
  <2>11. Code[16 * HexValue(s[2]) + HexValue(s[3])] = c
    BY <2>1, <2>5, Zenon
  <2> QED
    BY <1>1, <1>2, <2>7, <2>10, <2>11, Zenon
<1>5. CASE c \notin Escapes
  <2>1. Escaped(c) = << c >>
    BY <1>5, Zenon DEF Escaped
  <2>2. s # <<>> /\ s[1] = c /\ Tail(s) = rest
    BY <1>1, <2>1, TailOfFirst, Zenon DEF Texts
  <2>3. c # "%" /\ c \notin Refused \cup { "%" }
    BY <1>5, EscapesInclude
  <2>4. ~Escape(s)
    BY <2>2, <2>3, Zenon DEF Escape
  <2>5. DecodeNext(d) = [d EXCEPT !.left = Tail(@), !.out = Append(@, d.left[1])]
    BY <1>3, <2>2, <2>3, <2>4, Zenon DEF DecodeNext
  <2>6. DecodeNext(d) = [left |-> Tail(s), out |-> Append(out, s[1]), ok |-> TRUE]
    BY <1>2, <1>3, <2>5
  <2> QED
    BY <1>1, <1>2, <2>2, <2>6, Zenon
<1> QED
  BY <1>4, <1>5

LEMMA FirstChars ==
  ASSUME NEW S, NEW s \in Seq(S)
  PROVE  /\ SubSeq(s, 1, 0) = <<>> /\ SubSeq(s, 1, Len(s)) = s
         /\ \A k \in 1..Len(s) : SubSeq(s, 1, k) = Append(SubSeq(s, 1, k - 1), s[k])
<1>1. PICK L \in Nat : L = Len(s)
  OBVIOUS
<1>2. SubSeq(s, 1, 0) = <<>>
  OBVIOUS
<1>3. SubSeq(s, 1, L) = s
  <2>1. PICK t \in Seq(S) : t = SubSeq(s, 1, L)
    BY <1>1
  <2>2. Len(t) = L /\ \A i \in 1..L : t[i] = s[i]
    BY <1>1, <2>1
  <2> QED
    BY <1>1, <2>1, <2>2, SeqEqual
<1>4. ASSUME NEW k \in 1..L PROVE SubSeq(s, 1, k) = Append(SubSeq(s, 1, k - 1), s[k])
  <2>1. PICK m \in Nat : m = k - 1
    OBVIOUS
  <2>2. PICK t \in Seq(S) : t = SubSeq(s, 1, m) /\ Len(t) = m /\ \A i \in 1..m : t[i] = s[i]
    <3>1. SubSeq(s, 1, m) \in Seq(S) /\ Len(SubSeq(s, 1, m)) = m
          /\ \A i \in 1..m : SubSeq(s, 1, m)[i] = s[i]
      BY <1>1, <2>1
    <3> QED
      BY <3>1
  <2>3. PICK u \in Seq(S) : u = SubSeq(s, 1, k) /\ Len(u) = k /\ \A i \in 1..k : u[i] = s[i]
    <3>1. SubSeq(s, 1, k) \in Seq(S) /\ Len(SubSeq(s, 1, k)) = k
          /\ \A i \in 1..k : SubSeq(s, 1, k)[i] = s[i]
      BY <1>1
    <3> QED
      BY <3>1
  <2>4. s[k] \in S
    BY <1>1
  <2>5. PICK v \in Seq(S) : /\ v = Append(t, s[k]) /\ Len(v) = m + 1 /\ v[m + 1] = s[k]
                            /\ \A i \in 1..m : v[i] = t[i]
    <3>1. PICK c \in S : c = s[k]
      BY <2>4
    <3>2. PICK v \in Seq(S) : v = Append(t, c)
      BY <2>2, AppendProperties
    <3>3. Len(v) = Len(t) + 1 /\ v[Len(t) + 1] = c /\ \A i \in 1..Len(t) : v[i] = t[i]
      BY <2>2, <3>2, AppendProperties
    <3> QED
      BY <2>2, <3>1, <3>2, <3>3
  <2>6. Len(u) = Len(v) /\ \A i \in 1..Len(u) : u[i] = v[i]
    BY <2>1, <2>2, <2>3, <2>5
  <2> QED
    BY <2>1, <2>2, <2>3, <2>5, <2>6, SeqEqual
<1> QED
  BY <1>1, <1>2, <1>3, <1>4

(* What a client escaped is what the server gets, unless the server would   *)
(* refuse a character of it that came as it is.                             *)
LEMMA DecodeEncoded ==
  ASSUME NEW s \in Texts, ToSet(s) \cap (Refused \ Escapes) = {}
  PROVE  UrlDecode(Encode(s)).value = s
<1>1. PICK L \in Nat : L = Len(s) /\ \A i \in 1..L : s[i] \in Characters /\ s[i] \notin Refused \ Escapes
  BY DEF Texts, ToSet
<1>2. PICK from : EscapedFrom(from, s, L)
  BY <1>1, EncodeFrom, Zenon
<1>3. PICK text \in Texts : text = Encode(s)
  BY EncodeChars
<1>4. PICK M \in Nat : M = Len(text) /\ M >= L
  BY <1>1, <1>3, EncodeLonger DEF Texts
<1>5. PICK up : /\ Decoding(up, text, M)
                /\ UrlDecode(text).value =
                      IF up[M].ok THEN up[M].out ELSE up[M].out \o Drop(text, Len(up[M].out))
  BY <1>4, DecodeRuns, Zenon
<1> DEFINE State(k) == [left |-> from[k], out |-> SubSeq(s, 1, k), ok |-> TRUE]
           S == { k \in 0..L : up[k] = State(k) }
<1>6. 0 \in S
  <2>1. up[0] = Undecoded(text)
    BY <1>5 DEF Decoding
  <2>2. SubSeq(s, 1, 0) = <<>>
    BY FirstChars, Zenon DEF Texts
  <2>3. up[0] = State(0)
    BY <1>2, <1>3, <2>1, <2>2, Zenon DEF Undecoded, EscapedFrom
  <2> QED
    BY <2>3
<1>7. ASSUME NEW k \in 0..(L - 1), k \in S PROVE k + 1 \in S
  <2>1. k + 1 \in 1..L /\ k + 1 \in 1..M /\ (k + 1) - 1 = k /\ k + 1 \in 0..L
    BY <1>4
  <2>2. PICK c \in Characters : c = s[k + 1] /\ c \notin Refused \ Escapes
    BY <1>1, <2>1
  <2>3. PICK rest \in Texts : rest = from[k + 1]
    BY <1>2, <2>1 DEF EscapedFrom
  <2>4. PICK out : out = SubSeq(s, 1, k)
    OBVIOUS
  <2>5. from[k] = Escaped(c) \o rest
    BY <1>2, <2>1, <2>2, <2>3 DEF EscapedFrom
  <2>6. up[k + 1] = DecodeNext(up[k])
    BY <1>5, <2>1 DEF Decoding
  <2>7. up[k] = [left |-> Escaped(c) \o rest, out |-> out, ok |-> TRUE]
    BY <1>7, <2>4, <2>5
  <2>8. up[k + 1] = [left |-> rest, out |-> Append(out, c), ok |-> TRUE]
    <3>1. DecodeNext([left |-> Escaped(c) \o rest, out |-> out, ok |-> TRUE]) =
            [left |-> rest, out |-> Append(out, c), ok |-> TRUE]
      BY <2>2, <2>3, DecodeStep
    <3> QED
      BY <2>6, <2>7, <3>1, Zenon
  <2>9. SubSeq(s, 1, k + 1) = Append(out, c)
    <3>1. \A j \in 1..Len(s) : SubSeq(s, 1, j) = Append(SubSeq(s, 1, j - 1), s[j])
      BY FirstChars DEF Texts
    <3> QED
      BY <1>1, <2>1, <2>2, <2>4, <3>1
  <2> QED
    BY <2>1, <2>3, <2>8, <2>9
<1>8. 0..L \subseteq S
  <2> HIDE DEF S
  <2> QED
    BY <1>6, <1>7, IntervalInduction
<1>9. PICK end : end = [left |-> <<>>, out |-> s, ok |-> TRUE]
  OBVIOUS
<1>10. up[L] = end
  <2>1. up[L] = State(L)
    BY <1>8
  <2>2. SubSeq(s, 1, L) = s
    BY <1>1, FirstChars DEF Texts
  <2> QED
    BY <1>2, <1>9, <2>1, <2>2 DEF EscapedFrom
<1> HIDE DEF S
<1>11. DecodeNext(end) = end
  <2>1. end.left = <<>>
    BY <1>9
  <2> QED
    BY <2>1, Zenon DEF DecodeNext
<1> DEFINE T == { k \in 0..(M - L) : up[L + k] = end }
<1>12. 0 \in T
  BY <1>4, <1>10
<1>13. ASSUME NEW k \in 0..((M - L) - 1), k \in T PROVE k + 1 \in T
  <2>1. L + (k + 1) \in 1..M /\ (L + (k + 1)) - 1 = L + k /\ k + 1 \in 0..(M - L)
    BY <1>4
  <2>2. up[L + (k + 1)] = DecodeNext(up[L + k])
    BY <1>5, <2>1 DEF Decoding
  <2> QED
    BY <1>11, <1>13, <2>1, <2>2
<1>14. 0..(M - L) \subseteq T
  <2>1. M - L \in Nat
    BY <1>4
  <2> HIDE DEF T
  <2> QED
    BY <1>12, <1>13, <2>1, IntervalInduction
<1>15. up[M] = end
  <2>1. M - L \in 0..(M - L) /\ L + (M - L) = M
    BY <1>4
  <2> QED
    BY <1>14, <2>1
<1>16. up[M].ok = TRUE /\ up[M].out = s
  BY <1>9, <1>15
<1> QED
  BY <1>3, <1>5, <1>16, Zenon


LEMMA SplitFirstText ==
  ASSUME NEW a \in Texts, NEW b \in Texts, NEW c \in Characters,
         \A j \in DOMAIN a : a[j] # c, b # <<>> => b[1] = c
  PROVE  /\ SplitAt(a \o b, c).split = a
         /\ SplitAt(a \o b, c).rest = IF b = <<>> THEN <<>> ELSE Tail(b)
<1>1. PICK S : S = Characters
  OBVIOUS
<1>2. a \in Seq(S) /\ b \in Seq(S)
  BY <1>1 DEF Texts
<1> QED
  BY <1>2, SplitFirst

-----------------------------------------------------------------------------
(* The parameters of a form                                                 *)
Pair == [name : Texts, value : Texts]
PairPrinted(p) == Encode(p.name) \o << "=" >> \o Encode(p.value)

LEMMA EncodePart ==
  ASSUME NEW s \in Texts
  PROVE  /\ Encode(s) \in Texts
         /\ \A i \in DOMAIN Encode(s) :
              Encode(s)[i] # "/" /\ Encode(s)[i] # "&" /\ Encode(s)[i] # "="
<1>1. \A c \in { "/", "&", "=" } : \A i \in DOMAIN Encode(s) : Encode(s)[i] # c
  <2> SUFFICES ASSUME NEW c \in { "/", "&", "=" }
               PROVE  \A i \in DOMAIN Encode(s) : Encode(s)[i] # c
    OBVIOUS
  <2> QED
    <3>1. c \in { "/", "&", "=" } \/ (c = ":" /\ ":" \notin ToSet(s) \ Escapes)
      BY Zenon
    <3> QED
      BY <3>1, EncodeLacks
<1> QED
  BY <1>1, EncodeChars

LEMMA PairSplits ==
  ASSUME NEW p \in Pair
  PROVE  /\ PairPrinted(p) \in Texts /\ PairPrinted(p) # <<>>
         /\ \A i \in DOMAIN PairPrinted(p) : PairPrinted(p)[i] # "&"
         /\ SplitAt(PairPrinted(p), "=").split = Encode(p.name)
         /\ SplitAt(PairPrinted(p), "=").rest = Encode(p.value)
<1>1. p.name \in Texts /\ p.value \in Texts
  BY DEF Pair
<1>2. PICK a \in Texts : a = Encode(p.name) /\ \A i \in DOMAIN a : a[i] # "&" /\ a[i] # "="
  BY <1>1, EncodePart
<1>3. PICK v \in Texts : v = Encode(p.value) /\ \A i \in DOMAIN v : v[i] # "&" /\ v[i] # "="
  BY <1>1, EncodePart
<1>4. PICK c \in Characters : c = "="
  BY DEF Characters
<1>5. PICK b \in Texts : b = << c >> \o v /\ b # <<>> /\ b[1] = c /\ Tail(b) = v
  BY TailOfFirst, Zenon DEF Texts
<1>6. << c >> \in Texts
  BY DEF Texts
<1>7. PairPrinted(p) = (a \o << c >>) \o v
  BY <1>2, <1>3, <1>4, Zenon DEF PairPrinted
<1>8. (a \o << c >>) \o v = a \o (<< c >> \o v)
  BY <1>6, ConcatAssociative DEF Texts
<1>9. PICK t \in Texts : t = a \o b /\ PairPrinted(p) = t
  <2>1. a \o b \in Texts
    BY ConcatProperties DEF Texts
  <2> QED
    BY <1>5, <1>7, <1>8, <2>1, Zenon
<1>10. /\ Len(t) = Len(a) + Len(b)
       /\ \A i \in 1..Len(a) : t[i] = a[i]
       /\ \A i \in 1..Len(b) : t[Len(a) + i] = b[i]
  BY <1>9 DEF Texts
<1>11. Len(a) \in Nat /\ Len(b) = Len(v) + 1 /\ Len(v) \in Nat /\ \A i \in 1..Len(v) : b[i + 1] = v[i]
  <2>1. Len(v) \in Nat /\ Len(<< c >>) = 1
    BY DEF Texts
  <2>2. Len(b) = Len(v) + 1
    BY <1>5, <1>6, <2>1, ConcatProperties DEF Texts
  <2>3. v \in Seq(Characters) /\ Tail(b) \in Seq(Characters) /\ \A i \in 1..Len(Tail(b)) : Tail(b)[i] = b[i + 1]
    BY <1>5, HeadTailProperties DEF Texts
  <2> QED
    BY <1>5, <2>1, <2>2, <2>3 DEF Texts
<1>12. \A i \in DOMAIN t : t[i] # "&"
  <2> SUFFICES ASSUME NEW i \in 1..Len(t) PROVE t[i] # "&"
    BY DEF Texts
  <2>1. CASE i <= Len(a)
    <3>1. i \in 1..Len(a)
      BY <1>11, <2>1
    <3>2. i \in DOMAIN a
      BY <3>1 DEF Texts
    <3> QED
      BY <1>2, <1>10, <3>1, <3>2
  <2>2. CASE i = Len(a) + 1
    <3>1. t[i] = b[1]
      BY <1>10, <1>11, <2>2
    <3> QED
      BY <1>4, <1>5, <3>1
  <2>3. CASE i > Len(a) + 1
    <3>1. PICK j \in 1..Len(v) : i = Len(a) + (j + 1)
      <4>1. i - (Len(a) + 1) \in 1..Len(v) /\ i = Len(a) + ((i - (Len(a) + 1)) + 1)
        BY <1>10, <1>11, <2>3
      <4> QED
        BY <4>1
    <3>2. j + 1 \in 1..Len(b)
      BY <1>11
    <3>3. t[i] = v[j]
      BY <1>10, <1>11, <3>1, <3>2
    <3>4. j \in DOMAIN v
      BY DEF Texts
    <3> QED
      BY <1>3, <3>3, <3>4
  <2> QED
    BY <1>11, <2>1, <2>2, <2>3
<1>13. t # <<>>
  BY <1>10, <1>11
<1>14. /\ SplitAt(a \o b, c).split = a
       /\ SplitAt(a \o b, c).rest = IF b = <<>> THEN <<>> ELSE Tail(b)
  <2>1. \A j \in DOMAIN a : a[j] # c
    BY <1>2, <1>4
  <2> QED
    <3>1. b # <<>> => b[1] = c
      BY <1>5
    <3> QED
      BY <2>1, <3>1, SplitFirstText
<1> QED
  BY <1>2, <1>3, <1>4, <1>5, <1>9, <1>12, <1>13, <1>14, Zenon

(* What is put end to end of parts that are not empty is as long as they    *)
(* are many.                                                                *)
LEMMA GoesLonger ==
  ASSUME NEW X, NEW seqs \in Seq(Seq(X)), NEW L \in Nat, L = Len(seqs),
         NEW from, GoesOn(from, seqs, X, L), \A k \in 1..L : seqs[k] # <<>>
  PROVE  Len(from[0]) >= L
<1> DEFINE S == { m \in 0..L : Len(from[L - m]) >= m }
<1>1. 0 \in S
  <2>1. L - 0 = L /\ from[L] = <<>>
    BY DEF GoesOn
  <2> QED
    BY <2>1
<1>2. ASSUME NEW m \in 0..(L - 1), m \in S PROVE m + 1 \in S
  <2>1. L - m \in 1..L /\ (L - m) - 1 = L - (m + 1) /\ L - m \in 0..L /\ m + 1 \in 0..L
    OBVIOUS
  <2>2. PICK e \in Seq(X) : e = seqs[L - m] /\ Len(e) >= 1
    <3>1. seqs[L - m] \in Seq(X) /\ seqs[L - m] # <<>>
      BY <2>1
    <3> QED
      BY <3>1, EmptySeq
  <2>3. PICK r \in Seq(X) : r = from[L - m]
    BY <2>1 DEF GoesOn
  <2>4. from[L - (m + 1)] = e \o r
    BY <2>1, <2>2, <2>3 DEF GoesOn
  <2>5. Len(e \o r) = Len(e) + Len(r) /\ Len(r) >= m /\ Len(e) \in Nat /\ Len(r) \in Nat
    BY <1>2, <2>3
  <2>6. Len(e \o r) >= m + 1
    BY <2>2, <2>5
  <2> QED
    BY <2>1, <2>4, <2>6
<1>3. 0..L \subseteq S
  <2> HIDE DEF S
  <2> QED
    BY <1>1, <1>2, IntervalInduction
<1>4. L \in S /\ L - L = 0
  BY <1>3
<1> QED
  BY <1>4

(* The pairs of a form, from each on; a "&" is in front of all but the      *)
(* first.                                                                   *)
PairsFrom(from, held, L) ==
  /\ from \in [0..L -> Texts] /\ from[0] = Pairs(held) /\ from[L] = <<>>
  /\ \A k \in 1..L :
       from[k - 1] = IF k = 1 THEN PairPrinted(held[k]) \o from[k]
                     ELSE << "&" >> \o (PairPrinted(held[k]) \o from[k])
  /\ Len(from[0]) >= L

LEMMA PairsGoOn ==
  ASSUME NEW held \in Seq(Pair), NEW L \in Nat, L = Len(held)
  PROVE  \E from : PairsFrom(from, held, L)
<1>1. PICK c \in Characters : c = "&"
  BY DEF Characters
<1> DEFINE parts == [i \in DOMAIN held |-> PairPrinted(held[i])]
           seqs == [i \in DOMAIN parts |-> IF i = 1 THEN parts[i] ELSE << c >> \o parts[i]]
<1>2. \A i \in 1..L : PairPrinted(held[i]) \in Texts /\ PairPrinted(held[i]) # <<>>
  BY PairSplits
<1>3. << c >> \in Texts
  BY DEF Texts
<1>4. DOMAIN held = 1..L
  OBVIOUS
<1>5. Pairs(held) = FlattenSeq(seqs)
  BY <1>1, Zenon DEF Pairs, Join, PairPrinted
<1>6. DOMAIN seqs = 1..L /\ \A i \in 1..L : seqs[i] =
        IF i = 1 THEN PairPrinted(held[i]) ELSE << c >> \o PairPrinted(held[i])
  BY <1>4
<1> HIDE DEF seqs
<1>7. \A i \in 1..L : seqs[i] \in Texts /\ seqs[i] # <<>>
  <2> SUFFICES ASSUME NEW i \in 1..L PROVE seqs[i] \in Texts /\ seqs[i] # <<>>
    OBVIOUS
  <2>1. PICK p \in Texts : p = PairPrinted(held[i]) /\ p # <<>>
    BY <1>2
  <2>2. << c >> \o p \in Texts /\ << c >> \o p # <<>>
    BY TailOfFirst, Zenon DEF Texts
  <2> QED
    BY <1>6, <2>1, <2>2, Zenon
<1>8. seqs \in Seq(Seq(Characters)) /\ Len(seqs) = L
  <2>1. PICK Y : Y = Texts
    OBVIOUS
  <2>2. seqs = [i \in 1..L |-> seqs[i]]
    BY <1>4 DEF seqs
  <2>3. seqs \in [1..L -> Y]
    BY <1>7, <2>1, <2>2
  <2>4. seqs \in Seq(Y) /\ Len(seqs) = L
    BY <2>3
  <2> QED
    BY <2>1, <2>4 DEF Texts
<1>9. PICK from : GoesOn(from, seqs, Characters, L)
  BY <1>8, FlattenFrom, Zenon
<1>10. Len(from[0]) >= L
  BY <1>7, <1>8, <1>9, GoesLonger, Zenon
<1>11. ASSUME NEW k \in 1..L
       PROVE  from[k - 1] = IF k = 1 THEN PairPrinted(held[k]) \o from[k]
                            ELSE << "&" >> \o (PairPrinted(held[k]) \o from[k])
  <2>1. from[k - 1] = seqs[k] \o from[k]
    BY <1>9 DEF GoesOn
  <2>2. PICK p \in Texts : p = PairPrinted(held[k])
    BY <1>2
  <2>3. PICK r \in Texts : r = from[k]
    <3>1. k \in 0..L
      OBVIOUS
    <3> QED
      BY <1>9, <3>1 DEF GoesOn, Texts
  <2>4. (<< c >> \o p) \o r = << c >> \o (p \o r)
    BY <1>3, ConcatAssociative, SMTT(30) DEF Texts
  <2> QED
    BY <1>1, <1>6, <2>1, <2>2, <2>3, <2>4, Zenon
<1>12. PairsFrom(from, held, L)
  BY <1>5, <1>9, <1>10, <1>11, Zenon DEF PairsFrom, GoesOn, Texts
<1> QED
  BY <1>12


(* What is left after each pair is the next pairs, without the "&".         *)
LeftOf(from, k) == IF k = 0 \/ from[k] = <<>> THEN from[k] ELSE Tail(from[k])

LEMMA PairTaken ==
  ASSUME NEW held \in Seq(Pair), NEW L \in Nat, L = Len(held),
         NEW from, PairsFrom(from, held, L), NEW k \in 1..L
  PROVE  /\ SplitAt(LeftOf(from, k - 1), "&").split = PairPrinted(held[k])
         /\ SplitAt(LeftOf(from, k - 1), "&").rest = LeftOf(from, k)
<1>1. PICK c \in Characters : c = "&"
  BY DEF Characters
<1>2. PICK p \in Texts : p = PairPrinted(held[k]) /\ \A i \in DOMAIN p : p[i] # c
  BY <1>1, PairSplits
<1>3. k \in 0..L /\ k - 1 \in 0..L /\ k # 0 /\ (k # L => k + 1 \in 1..L /\ k + 1 \in 0..L /\ k + 1 # 1)
      /\ (k + 1) - 1 = k
  OBVIOUS
<1>4. PICK r \in Texts : r = from[k]
  BY <1>3 DEF PairsFrom
<1>5. PICK t \in Texts : t = p \o r
  BY ConcatProperties DEF Texts
<1>6. LeftOf(from, k - 1) = t
  <2>1. CASE k = 1
    <3>1. k - 1 = 0 /\ from[k - 1] = PairPrinted(held[k]) \o from[k]
      <4>1. from[k - 1] = PairPrinted(held[k]) \o from[k]
        BY <2>1, Zenon DEF PairsFrom
      <4> QED
        BY <2>1, <4>1
    <3>2. from[k - 1] = t
      BY <1>2, <1>4, <1>5, <3>1, Zenon
    <3> QED
      BY <3>1, <3>2, Zenon DEF LeftOf
  <2>2. CASE k # 1
    <3>1. from[k - 1] = << c >> \o t /\ k - 1 # 0
      <4>1. from[k - 1] = << "&" >> \o (PairPrinted(held[k]) \o from[k])
        BY <2>2, Zenon DEF PairsFrom
      <4>2. k - 1 # 0
        BY <2>2
      <4> QED
        BY <1>1, <1>2, <1>4, <1>5, <4>1, <4>2, Zenon
    <3>2. << c >> \o t # <<>> /\ Tail(<< c >> \o t) = t
      BY TailOfFirst, Zenon DEF Texts
    <3> QED
      BY <3>1, <3>2, Zenon DEF LeftOf
  <2> QED
    BY <2>1, <2>2
<1>7. r # <<>> => r[1] = c
  <2> SUFFICES ASSUME r # <<>> PROVE r[1] = c
    OBVIOUS
  <2>1. k # L
    BY <1>4 DEF PairsFrom
  <2>2. PICK q \in Texts : q = PairPrinted(held[k + 1])
    BY <1>3, <2>1, PairSplits
  <2>3. PICK u \in Texts : u = from[k + 1]
    BY <1>3, <2>1 DEF PairsFrom
  <2>4. PICK v \in Texts : v = q \o u
    BY ConcatProperties DEF Texts
  <2>5. from[(k + 1) - 1] = << c >> \o v
    BY <1>1, <1>3, <2>1, <2>2, <2>3, <2>4, Zenon DEF PairsFrom
  <2>6. r = << c >> \o v
    BY <1>3, <1>4, <2>5
  <2> QED
    BY <2>6, TailOfFirst, Zenon DEF Texts
<1>8. /\ SplitAt(p \o r, c).split = p
      /\ SplitAt(p \o r, c).rest = IF r = <<>> THEN <<>> ELSE Tail(r)
  BY <1>2, <1>7, SplitFirstText
<1>9. LeftOf(from, k) = IF r = <<>> THEN <<>> ELSE Tail(r)
  BY <1>3, <1>4, Zenon DEF LeftOf
<1> QED
  BY <1>1, <1>2, <1>5, <1>6, <1>8, <1>9, Zenon

LEMMA NothingSplit ==
  ASSUME NEW c
  PROVE  SplitAt(<<>>, c).split = <<>> /\ SplitAt(<<>>, c).rest = <<>>
<1>1. IndexOf(<<>>, c) = 0
  <2>1. DOMAIN <<>> = {}
    OBVIOUS
  <2> QED
    BY <2>1, Zenon DEF IndexOf, FirstOf
<1> QED
  BY <1>1, Zenon DEF SplitAt

(* Once nothing is left, nothing more is split off.                         *)
LEMMA RestsEnd ==
  ASSUME NEW S, NEW text \in Seq(S), NEW c, NEW n \in Nat, NEW L \in 0..n,
         Rests(text, c, n)[L] = <<>>
  PROVE  \A k \in L..n : Rests(text, c, n)[k] = <<>>
<1>1. PICK run : run = Rests(text, c, n)
  OBVIOUS
<1>2. run[L] = <<>> /\ \A k \in 1..n : run[k] = SplitAt(run[k - 1], c).rest
  BY <1>1, RestsRun, SMTT(30)
<1> DEFINE T == { k \in 0..(n - L) : run[L + k] = <<>> }
<1>3. 0 \in T
  BY <1>2
<1>4. ASSUME NEW k \in 0..((n - L) - 1), k \in T PROVE k + 1 \in T
  <2>1. L + (k + 1) \in 1..n /\ (L + (k + 1)) - 1 = L + k /\ k + 1 \in 0..(n - L)
    OBVIOUS
  <2>2. run[L + (k + 1)] = SplitAt(run[L + k], c).rest
    BY <1>2, <2>1
  <2> QED
    BY <1>4, <2>1, <2>2, NothingSplit
<1>5. 0..(n - L) \subseteq T
  <2>1. n - L \in Nat
    OBVIOUS
  <2> HIDE DEF T
  <2> QED
    BY <1>3, <1>4, <2>1, IntervalInduction
<1> SUFFICES ASSUME NEW k \in L..n PROVE run[k] = <<>>
  BY <1>1
<1>6. k - L \in 0..(n - L) /\ L + (k - L) = k
  OBVIOUS
<1> QED
  BY <1>5, <1>6

LEMMA MinOfNaturals ==
  ASSUME NEW T, T \subseteq Nat, T # {}
  PROVE  Min(T) \in T /\ \A x \in T : Min(T) <= x
<1>1. PICK m \in T : \A k \in T : m <= k
  BY LeastNatural
<1> QED
  BY <1>1, Zenon DEF Min

(* A printed form has for each name the first value that was given.         *)
LEMMA FormReads ==
  ASSUME NEW held \in Seq(Pair), NEW name \in Texts, PlainText(name)
  PROVE  FormParameter(Pairs(held), name) =
           IF Named(held, name) = {} THEN Unset
           ELSE Set(Encode(held[Min(Named(held, name))].value))
<1>1. PICK L \in Nat : L = Len(held) /\ DOMAIN held = 1..L
  OBVIOUS
<1>2. PICK from : PairsFrom(from, held, L)
  BY <1>1, PairsGoOn
<1>3. PICK text \in Texts : text = Pairs(held) /\ text = from[0]
  BY <1>2 DEF PairsFrom
<1>4. PICK M \in Nat : M = Len(text) /\ M >= L
  BY <1>2, <1>3 DEF PairsFrom, Texts
<1>5. PICK run : run = Rests(text, "&", M)
  OBVIOUS
<1>6. run[0] = text /\ \A k \in 1..M : run[k] = SplitAt(run[k - 1], "&").rest
  <2>1. PICK c : c = "&"
    OBVIOUS
  <2>2. /\ Rests(text, c, M)[0] = text
        /\ \A k \in 1..M : Rests(text, c, M)[k] = SplitAt(Rests(text, c, M)[k - 1], c).rest
    BY RestsRun DEF Texts
  <2> QED
    BY <1>5, <2>1, <2>2
<1> DEFINE T == { k \in 0..L : run[k] = LeftOf(from, k) }
<1>7. 0 \in T
  BY <1>3, <1>6 DEF LeftOf
<1>8. ASSUME NEW k \in 0..(L - 1), k \in T PROVE k + 1 \in T
  <2>1. k + 1 \in 1..L /\ k + 1 \in 1..M /\ (k + 1) - 1 = k /\ k + 1 \in 0..L
    BY <1>4
  <2>2. run[k + 1] = SplitAt(run[k], "&").rest
    BY <1>6, <2>1
  <2>3. SplitAt(LeftOf(from, (k + 1) - 1), "&").rest = LeftOf(from, k + 1)
    BY <1>1, <1>2, <2>1, PairTaken
  <2> QED
    BY <1>8, <2>1, <2>2, <2>3
<1>9. 0..L \subseteq T
  <2> HIDE DEF T
  <2> QED
    BY <1>7, <1>8, IntervalInduction
<1>10. ASSUME NEW n \in 1..L PROVE SplitAt(run[n - 1], "&").split = PairPrinted(held[n])
  <2>1. n - 1 \in 0..L
    OBVIOUS
  <2>2. run[n - 1] = LeftOf(from, n - 1)
    BY <1>9, <2>1
  <2> QED
    BY <1>1, <1>2, <2>2, PairTaken
<1>11. \A k \in L..M : run[k] = <<>>
  <2>1. run[L] = <<>>
    <3>1. run[L] = LeftOf(from, L) /\ from[L] = <<>>
      BY <1>2, <1>9 DEF PairsFrom
    <3> QED
      BY <3>1 DEF LeftOf
  <2>2. PICK c : c = "&"
    OBVIOUS
  <2>3. L \in 0..M
    BY <1>4
  <2>4. Rests(text, c, M)[L] = <<>>
    BY <1>5, <2>1, <2>2
  <2>5. \A k \in L..M : Rests(text, c, M)[k] = <<>>
    BY <2>3, <2>4, RestsEnd DEF Texts
  <2> QED
    BY <1>5, <2>2, <2>5
<1> HIDE DEF T
<1> DEFINE part(n) == SplitAt(run[n - 1], "&").split
           named == { n \in 1..M : part(n) # <<>> /\ SplitAt(part(n), "=").split = name }
<1>12. ASSUME NEW n \in 1..M
       PROVE  n \in named <=> n \in Named(held, name)
  <2>1. CASE n <= L
    <3>1. n \in 1..L
      BY <2>1
    <3>2. part(n) = PairPrinted(held[n])
      BY <1>10, <3>1
    <3>3. PICK p \in Pair : p = held[n]
      BY <1>1, <3>1
    <3>4. PairPrinted(p) # <<>> /\ SplitAt(PairPrinted(p), "=").split = Encode(p.name)
      BY PairSplits
    <3>5. Encode(p.name) = name <=> p.name = name
      <4>1. p.name \in Texts
        BY DEF Pair
      <4> QED
        BY <4>1, PlainPrinted
    <3>6. n \in named <=> p.name = name
      BY <3>2, <3>3, <3>4, <3>5
    <3> QED
      BY <1>1, <3>1, <3>3, <3>6 DEF Named
  <2>2. CASE ~(n <= L)
    <3>1. n - 1 \in L..M /\ n \notin 1..L
      BY <2>2
    <3>2. part(n) = <<>>
      <4>1. run[n - 1] = <<>>
        BY <1>11, <3>1
      <4> QED
        BY <4>1, NothingSplit
    <3> QED
      BY <1>1, <3>1, <3>2 DEF Named
  <2> QED
    BY <2>1, <2>2
<1>13. named = Named(held, name)
  <2>1. Named(held, name) \subseteq 1..M
    BY <1>1, <1>4 DEF Named
  <2> QED
    BY <1>12, <2>1
<1>14. FormParameter(text, name) =
         IF named = {} THEN Unset ELSE Set(SplitAt(part(Min(named)), "=").rest)
  <2>1. FormParameter(text, name) =
          LET rest == Rests(text, "&", Len(text))
              part1(n) == SplitAt(rest[n - 1], "&").split
              named1 == { n \in 1..Len(text) :
                            part1(n) # <<>> /\ SplitAt(part1(n), "=").split = name }
          IN  IF named1 = {} THEN Unset ELSE Set(SplitAt(part1(Min(named1)), "=").rest)
    BY Zenon DEF FormParameter
  <2> QED
    BY <1>4, <1>5, <2>1, Zenon
<1>15. CASE named = {}
  BY <1>3, <1>13, <1>14, <1>15, Zenon
<1>16. CASE named # {}
  <2>1. Min(Named(held, name)) \in Named(held, name)
    <3>1. Named(held, name) \subseteq Nat
      BY <1>1 DEF Named
    <3> QED
      BY <1>13, <1>16, <3>1, MinOfNaturals
  <2>2. PICK n \in 1..L : n = Min(Named(held, name))
    BY <1>1, <2>1 DEF Named
  <2>3. PICK p \in Pair : p = held[n]
    BY <1>1
  <2>4. part(n) = PairPrinted(held[n])
    BY <1>10
  <2>5. SplitAt(part(n), "=").rest = Encode(held[n].value)
    BY <2>3, <2>4, PairSplits
  <2> HIDE DEF part, named
  <2> QED
    BY <1>3, <1>13, <1>14, <1>16, <2>2, <2>5, Zenon
<1> QED
  BY <1>15, <1>16


-----------------------------------------------------------------------------
(* The match of a route with a path, turn by turn                           *)
MatchRun(f, e, begin, L) ==
  f = [n \in 0..L |-> IF n = 0 THEN begin ELSE MatchNext(e, f[n - 1])]

LEMMA MatchExists ==
  ASSUME NEW e, NEW begin, NEW L \in Nat
  PROVE  \E f : MatchRun(f, e, begin, L)
<1> DEFINE Solves(f, m) ==
             f = [n \in 0..m |-> IF n = 0 THEN begin ELSE MatchNext(e, f[n - 1])]
           S == { m \in 0..L : \E f : Solves(f, m) }
<1>1. 0 \in S
  <2>1. Solves([n \in 0..0 |-> begin], 0)
    OBVIOUS
  <2> HIDE DEF Solves
  <2> QED
    BY <2>1
<1>2. ASSUME NEW m \in 0..(L - 1), m \in S PROVE m + 1 \in S
  <2>1. PICK up : Solves(up, m)
    BY <1>2
  <2> DEFINE last == MatchNext(e, up[m])
             more == [n \in 0..(m + 1) |-> IF n <= m THEN up[n] ELSE last]
  <2>2. ASSUME NEW n \in 0..(m + 1)
        PROVE  more[n] = IF n = 0 THEN begin ELSE MatchNext(e, more[n - 1])
    <3>1. CASE n = 0
      BY <2>1, <3>1
    <3>2. CASE n # 0 /\ n <= m
      <4>1. n \in 0..m /\ more[n] = up[n] /\ more[n - 1] = up[n - 1]
        BY <3>2
      <4>2. up[n] = MatchNext(e, up[n - 1])
        BY <2>1, <3>2, <4>1
      <4> QED
        BY <3>2, <4>1, <4>2
    <3>3. CASE n = m + 1
      <4>1. more[n] = last /\ more[n - 1] = up[m] /\ n # 0
        BY <3>3
      <4> HIDE DEF more
      <4> QED
        BY <4>1
    <3> QED
      BY <3>1, <3>2, <3>3
  <2>3. Solves(more, m + 1)
    <3> HIDE DEF more
    <3>1. more = [n \in 0..(m + 1) |-> more[n]]
      BY DEF more
    <3> QED
      BY <2>2, <3>1
  <2> HIDE DEF more, Solves
  <2> QED
    BY <2>3
<1>3. 0..L \subseteq S
  <2> HIDE DEF S
  <2> QED
    BY <1>1, <1>2, IntervalInduction
<1>4. \E f : Solves(f, L)
  BY <1>3
<1> QED
  BY <1>4, Zenon DEF MatchRun


Unmatched(e, path) ==
  [route |-> e.path, path |-> path, ok |-> TRUE, values |-> [i \in DOMAIN e.args |-> Unset]]
Matched(up, e, path, L) ==
  /\ up[0] = Unmatched(e, path)
  /\ \A n \in 1..L : up[n] = MatchNext(e, up[n - 1])

LEMMA MatchRuns ==
  ASSUME NEW e, NEW path, NEW L \in Nat, L = Len(e.path)
  PROVE  \E up : /\ Matched(up, e, path, L)
                 /\ PathMatch(e, path) =
                      [ok |-> up[L].ok /\ up[L].route = <<>> /\ up[L].path = <<>>,
                       values |-> up[L].values]
<1> DEFINE up == CHOOSE f : MatchRun(f, e, Unmatched(e, path), Len(e.path))
<1>1. MatchRun(up, e, Unmatched(e, path), L)
  <2>1. PICK begin : begin = Unmatched(e, path)
    OBVIOUS
  <2>2. \E f : MatchRun(f, e, begin, L)
    BY MatchExists, Zenon
  <2> QED
    BY <2>1, <2>2, Zenon
<1>2. PathMatch(e, path) =
        [ok |-> up[Len(e.path)].ok /\ up[Len(e.path)].route = <<>> /\ up[Len(e.path)].path = <<>>,
         values |-> up[Len(e.path)].values]
  BY Zenon DEF PathMatch, Unmatched, MatchRun
<1> HIDE DEF up
<1>3. up[0] = Unmatched(e, path)
  <2>1. 0 \in 0..L
    OBVIOUS
  <2> QED
    BY <1>1, <2>1, Zenon DEF MatchRun
<1>4. \A n \in 1..L : up[n] = MatchNext(e, up[n - 1])
  <2> SUFFICES ASSUME NEW n \in 1..L PROVE up[n] = MatchNext(e, up[n - 1])
    OBVIOUS
  <2>1. n \in 0..L /\ n # 0
    OBVIOUS
  <2> QED
    BY <1>1, <2>1, Zenon DEF MatchRun
<1>5. Matched(up, e, path, L)
  BY <1>3, <1>4 DEF Matched
<1> QED
  BY <1>2, <1>5, Zenon

(* A state of the match that the loop gets to: each turn before took a      *)
(* character of the route at least.                                         *)
At(up, L, m) == \E n \in 0..L : up[n] = m /\ n + Len(m.route) <= L

State(route, path, values) == [route |-> route, path |-> path, ok |-> TRUE, values |-> values]

LEMMA AtNext ==
  ASSUME NEW e, NEW path, NEW L \in Nat, NEW up, Matched(up, e, path, L),
         NEW m, At(up, L, m), Len(m.route) \in Nat, Len(MatchNext(e, m).route) \in Nat,
         Len(MatchNext(e, m).route) < Len(m.route)
  PROVE  At(up, L, MatchNext(e, m))
<1>1. PICK n \in 0..L : up[n] = m /\ n + Len(m.route) <= L
  BY DEF At
<1>2. n + 1 \in 1..L /\ n + 1 \in 0..L /\ (n + 1) - 1 = n
      /\ (n + 1) + Len(MatchNext(e, m).route) <= L
  <2>1. PICK a \in Nat, b \in Nat : a = Len(m.route) /\ b = Len(MatchNext(e, m).route) /\ b < a
    OBVIOUS
  <2>2. n + a <= L
    BY <1>1, <2>1
  <2>3. n + 1 \in 1..L /\ n + 1 \in 0..L /\ (n + 1) - 1 = n /\ (n + 1) + b <= L
    <3>1. a \in Nat /\ b \in Nat /\ b < a /\ n \in Nat /\ L \in Nat
      BY <2>1
    <3> QED
      BY ONLY <2>2, <3>1
  <2> QED
    BY <2>1, <2>3
<1>3. up[n + 1] = MatchNext(e, up[(n + 1) - 1])
  BY <1>2, Zenon DEF Matched
<1>4. up[n + 1] = MatchNext(e, m)
  BY <1>1, <1>2, <1>3
<1> QED
  BY <1>2, <1>4, Zenon DEF At

(* What a turn leaves as it is, the loop ends with.                         *)
LEMMA Stays ==
  ASSUME NEW e, NEW path, NEW L \in Nat, NEW up, Matched(up, e, path, L),
         NEW n \in 0..L, MatchNext(e, up[n]) = up[n]
  PROVE  up[L] = up[n]
<1> DEFINE S == { k \in 0..(L - n) : up[n + k] = up[n] }
<1>1. 0 \in S
  OBVIOUS
<1>2. ASSUME NEW k \in 0..((L - n) - 1), k \in S PROVE k + 1 \in S
  <2>1. n + (k + 1) \in 1..L /\ (n + (k + 1)) - 1 = n + k /\ k + 1 \in 0..(L - n)
    OBVIOUS
  <2>2. up[n + (k + 1)] = MatchNext(e, up[n + k])
    BY <2>1 DEF Matched
  <2> QED
    BY <1>2, <2>1, <2>2
<1>3. 0..(L - n) \subseteq S
  <2>1. L - n \in Nat
    OBVIOUS
  <2> HIDE DEF S
  <2> QED
    BY <1>1, <1>2, <2>1, IntervalInduction
<1>4. L - n \in 0..(L - n) /\ n + (L - n) = L
  OBVIOUS
<1> QED
  BY <1>3, <1>4

LEMMA AtEnd ==
  ASSUME NEW e, NEW path, NEW L \in Nat, NEW up, Matched(up, e, path, L),
         NEW route, NEW left, NEW values, At(up, L, State(route, left, values)),
         route = <<>> \/ left = <<>>
  PROVE  up[L] = State(route, left, values)
<1>1. PICK m : m = State(route, left, values)
  OBVIOUS
<1>2. m.route = route /\ m.path = left
  BY <1>1 DEF State
<1>3. MatchNext(e, m) = m
  BY <1>2, Zenon DEF MatchNext
<1>4. PICK n \in 0..L : up[n] = m
  BY <1>1 DEF At
<1> QED
  BY <1>1, <1>3, <1>4, Stays

(* What neither is the same nor can be a parameter ends the match.          *)
LEMMA AtDifference ==
  ASSUME NEW e, NEW path, NEW L \in Nat, NEW up, Matched(up, e, path, L),
         NEW route \in Texts, NEW left, NEW values, At(up, L, State(route, left, values)),
         route # <<>>, left # <<>>, route[1] # left[1],
         ~TakesValue(e, State(route, left, values))
  PROVE  up[L].ok = FALSE
<1>1. PICK m : m = State(route, left, values)
  OBVIOUS
<1>2. m.route = route /\ m.path = left /\ m.ok = TRUE
  BY <1>1 DEF State
<1>3. MatchNext(e, m) = [m EXCEPT !.ok = FALSE]
  <2>1. ~TakesValue(e, m) /\ m.route[1] # m.path[1]
    BY <1>1, <1>2
  <2>2. ~(~m.ok \/ m.route = <<>> \/ m.path = <<>>)
    BY <1>2
  <2> QED
    BY <2>1, <2>2, Zenon DEF MatchNext
<1>4. PICK w : w = MatchNext(e, m)
  OBVIOUS
<1>5. w.ok = FALSE
  BY <1>1, <1>3, <1>4 DEF State
<1>6. MatchNext(e, w) = w
  BY <1>5, Zenon DEF MatchNext
<1>7. PICK n \in 0..L : up[n] = m /\ n + Len(m.route) <= L
  BY <1>1 DEF At
<1>8. n + 1 \in 0..L /\ n + 1 \in 1..L /\ (n + 1) - 1 = n
  <2>1. Len(m.route) \in Nat /\ Len(m.route) # 0
    BY <1>2, EmptySeq DEF Texts
  <2> QED
    BY <1>7, <2>1
<1>9. up[n + 1] = w
  BY <1>4, <1>7, <1>8 DEF Matched
<1>10. up[L] = w
  BY <1>6, <1>8, <1>9, Stays
<1> QED
  BY <1>5, <1>10


Rest(s, k) == SubSeq(s, k + 1, Len(s))

LEMMA RestIs ==
  ASSUME NEW S, NEW s \in Seq(S)
  PROVE  /\ Rest(s, 0) = s /\ Rest(s, Len(s)) = <<>>
         /\ \A k \in 0..Len(s) : Rest(s, k) \in Seq(S)
         /\ \A k \in 0..(Len(s) - 1) : Rest(s, k) = << s[k + 1] >> \o Rest(s, k + 1)
         /\ \A k \in 0..Len(s) : SubSeq(s, 1, k) \in Seq(S) /\ s = SubSeq(s, 1, k) \o Rest(s, k)
<1>1. PICK n \in Nat : n = Len(s)
  OBVIOUS
<1>2. ASSUME NEW k \in 0..n
      PROVE  /\ Rest(s, k) \in Seq(S) /\ Len(Rest(s, k)) = n - k
             /\ \A i \in 1..(n - k) : Rest(s, k)[i] = s[k + i]
             /\ SubSeq(s, 1, k) \in Seq(S) /\ Len(SubSeq(s, 1, k)) = k
             /\ \A i \in 1..k : SubSeq(s, 1, k)[i] = s[i]
  BY <1>1 DEF Rest
<1>3. Rest(s, 0) = s
  <2>1. PICK r \in Seq(S) : r = Rest(s, 0) /\ Len(r) = n - 0 /\ \A i \in 1..(n - 0) : r[i] = s[0 + i]
    BY <1>2
  <2>2. Len(r) = Len(s) /\ \A i \in 1..Len(r) : r[i] = s[i]
    BY <1>1, <2>1
  <2> QED
    BY <2>1, <2>2, SeqEqual
<1>4. Rest(s, n) = <<>>
  <2>1. PICK r \in Seq(S) : r = Rest(s, n) /\ Len(r) = n - n
    BY <1>2
  <2> QED
    BY <2>1, EmptySeq
<1>5. ASSUME NEW k \in 0..(n - 1) PROVE Rest(s, k) = << s[k + 1] >> \o Rest(s, k + 1)
  <2>1. k \in 0..n /\ k + 1 \in 0..n /\ k + 1 \in 1..n
    OBVIOUS
  <2>2. PICK r \in Seq(S) : r = Rest(s, k) /\ Len(r) = n - k
          /\ \A i \in 1..(n - k) : r[i] = s[k + i]
    BY <1>2, <2>1
  <2>3. PICK t \in Seq(S) : t = Rest(s, k + 1) /\ Len(t) = n - (k + 1)
          /\ \A i \in 1..(n - (k + 1)) : t[i] = s[(k + 1) + i]
    BY <1>2, <2>1
  <2>4. PICK c \in S : c = s[k + 1]
    BY <1>1, <2>1
  <2>5. PICK u \in Seq(S) : u = << c >> \o t /\ Len(u) = 1 + Len(t) /\ u[1] = c
          /\ \A i \in 1..Len(t) : u[1 + i] = t[i]
    <3>1. << c >> \in Seq(S) /\ Len(<< c >>) = 1 /\ << c >>[1] = c
      OBVIOUS
    <3>2. PICK u \in Seq(S) : u = << c >> \o t
      BY <3>1, ConcatProperties
    <3>3. PICK o \in Seq(S) : o = << c >> /\ Len(o) = 1 /\ o[1] = c
      BY <3>1
    <3>4. /\ Len(u) = Len(o) + Len(t) /\ \A i \in 1..Len(o) : u[i] = o[i]
          /\ \A i \in 1..Len(t) : u[Len(o) + i] = t[i]
      BY <3>2, <3>3, ConcatProperties
    <3>5. Len(u) = 1 + Len(t)
      BY <3>3, <3>4, Zenon
    <3>6. u[1] = c
      <4>1. 1 \in 1..Len(o)
        BY <3>3
      <4> QED
        BY <3>3, <3>4, <4>1, Zenon
    <3>7. \A i \in 1..Len(t) : u[1 + i] = t[i]
      BY <3>3, <3>4, Zenon
    <3> QED
      BY <3>2, <3>5, <3>6, <3>7, Zenon
  <2>6. Len(u) = Len(r)
    BY <2>2, <2>3, <2>5
  <2>7. ASSUME NEW i \in 1..Len(r) PROVE u[i] = r[i]
    <3>1. CASE i = 1
      BY <2>2, <2>4, <2>5, <3>1
    <3>2. CASE i # 1
      <4>1. i - 1 \in 1..Len(t) /\ 1 + (i - 1) = i /\ (k + 1) + (i - 1) = k + i
            /\ i \in 1..(n - k) /\ i - 1 \in 1..(n - (k + 1))
        BY <2>2, <2>3, <3>2
      <4>2. u[1 + (i - 1)] = t[i - 1]
        BY <2>5, <4>1
      <4>3. t[i - 1] = s[(k + 1) + (i - 1)]
        BY <2>3, <4>1
      <4>4. r[i] = s[k + i]
        BY <2>2, <4>1
      <4> QED
        BY <4>1, <4>2, <4>3, <4>4
    <3> QED
      BY <3>1, <3>2
  <2>8. u = r
    BY <2>6, <2>7, SeqEqual
  <2> QED
    BY <2>2, <2>3, <2>4, <2>5, <2>8
<1>6. ASSUME NEW k \in 0..n PROVE s = SubSeq(s, 1, k) \o Rest(s, k)
  <2>1. PICK a \in Seq(S) : a = SubSeq(s, 1, k) /\ Len(a) = k /\ \A i \in 1..k : a[i] = s[i]
    BY <1>2
  <2>2. PICK r \in Seq(S) : r = Rest(s, k) /\ Len(r) = n - k
          /\ \A i \in 1..(n - k) : r[i] = s[k + i]
    BY <1>2
  <2>3. PICK u \in Seq(S) : u = a \o r
    BY ConcatProperties
  <2>4. Len(u) = n /\ (\A i \in 1..k : u[i] = a[i]) /\ \A i \in 1..(n - k) : u[k + i] = r[i]
    <3>1. Len(u) = Len(a) + Len(r) /\ (\A i \in 1..Len(a) : u[i] = a[i])
          /\ \A i \in 1..Len(r) : u[Len(a) + i] = r[i]
      BY <2>3
    <3> QED
      BY <2>1, <2>2, <3>1
  <2>5. ASSUME NEW i \in 1..Len(s) PROVE u[i] = s[i]
    <3>1. CASE i <= k
      BY <2>1, <2>4, <3>1
    <3>2. CASE ~(i <= k)
      <4>1. i - k \in 1..(n - k) /\ k + (i - k) = i
        BY <1>1, <3>2
      <4>2. u[k + (i - k)] = r[i - k] /\ r[i - k] = s[k + (i - k)]
        BY <2>2, <2>4, <4>1
      <4> QED
        BY <4>1, <4>2
    <3> QED
      BY <3>1, <3>2
  <2>6. u = s
    BY <1>1, <2>4, <2>5, SeqEqual
  <2> QED
    BY <2>1, <2>2, <2>3, <2>6
<1> QED
  BY <1>1, <1>2, <1>3, <1>4, <1>5, <1>6

LEMMA AtSame ==
  ASSUME NEW e, NEW path, NEW L \in Nat, NEW up, Matched(up, e, path, L), NEW c \in Characters,
         NEW route \in Texts, NEW left \in Texts, NEW values,
         At(up, L, State(<< c >> \o route, << c >> \o left, values))
  PROVE  At(up, L, State(route, left, values))
<1>1. PICK r \in Texts : r = << c >> \o route /\ r # <<>> /\ r[1] = c /\ Tail(r) = route
  BY TailOfFirst, Zenon DEF Texts
<1>2. PICK l \in Texts : l = << c >> \o left /\ l # <<>> /\ l[1] = c /\ Tail(l) = left
  BY TailOfFirst, Zenon DEF Texts
<1>3. PICK m : m = State(r, l, values)
  OBVIOUS
<1>4. m.route = r /\ m.path = l /\ m.ok = TRUE
  BY <1>3 DEF State
<1>5. MatchNext(e, m) = [m EXCEPT !.route = Tail(@), !.path = Tail(@)]
  <2>1. m.route[1] = m.path[1] /\ ~(~m.ok \/ m.route = <<>> \/ m.path = <<>>)
    BY <1>1, <1>2, <1>4
  <2> QED
    BY <2>1, Zenon DEF MatchNext
<1>6. MatchNext(e, m) = State(route, left, values)
  <2>1. MatchNext(e, m) = [m EXCEPT !.route = route, !.path = left]
    BY <1>1, <1>2, <1>4, <1>5
  <2> QED
    BY <1>3, <2>1 DEF State
<1>7. PICK w : w = MatchNext(e, m) /\ w.route = route
  BY <1>6 DEF State
<1>8. Len(r) \in Nat /\ Len(route) \in Nat /\ Len(route) < Len(r)
  <2>1. Len(Tail(r)) = Len(r) - 1 /\ Len(r) \in Nat /\ Len(route) \in Nat
    BY <1>1, HeadTailProperties DEF Texts
  <2> QED
    BY <1>1, <2>1
<1>9. At(up, L, m)
  BY <1>1, <1>2, <1>3
<1>10. Len(m.route) \in Nat /\ Len(MatchNext(e, m).route) \in Nat
       /\ Len(MatchNext(e, m).route) < Len(m.route)
  BY <1>4, <1>7, <1>8
<1>11. At(up, L, MatchNext(e, m))
  BY <1>9, <1>10, AtNext
<1> QED
  BY <1>6, <1>11

(* What route and path have in common is passed over.                       *)
LEMMA AtCommon ==
  ASSUME NEW e, NEW path, NEW L \in Nat, NEW up, Matched(up, e, path, L),
         NEW a \in Texts, NEW route \in Texts, NEW left \in Texts, NEW values,
         At(up, L, State(a \o route, a \o left, values))
  PROVE  At(up, L, State(route, left, values))
<1>1. PICK n \in Nat : n = Len(a)
  BY DEF Texts
<1> DEFINE S == { k \in 0..n : At(up, L, State(Rest(a, k) \o route, Rest(a, k) \o left, values)) }
<1>2. 0 \in S
  <2>1. Rest(a, 0) = a
    BY RestIs, Zenon DEF Texts
  <2> QED
    BY <2>1
<1>3. ASSUME NEW k \in 0..(n - 1), k \in S PROVE k + 1 \in S
  <2>1. k + 1 \in 1..n /\ k + 1 \in 0..n
    OBVIOUS
  <2>2. Rest(a, k) = << a[k + 1] >> \o Rest(a, k + 1)
    BY <1>1, RestIs, Zenon DEF Texts
  <2>3. PICK c \in Characters : c = a[k + 1]
    BY <1>1, <2>1 DEF Texts
  <2>4. PICK b \in Texts : b = Rest(a, k + 1)
    BY <1>1, <2>1, RestIs DEF Texts
  <2>5. << c >> \in Texts
    BY DEF Texts
  <2>6. PICK r \in Texts : r = b \o route /\ (<< c >> \o b) \o route = << c >> \o r
    <3>1. b \o route \in Texts
      BY ConcatProperties DEF Texts
    <3>2. (<< c >> \o b) \o route = << c >> \o (b \o route)
      BY <2>5, ConcatAssociative DEF Texts
    <3> QED
      BY <3>1, <3>2
  <2>7. PICK l \in Texts : l = b \o left /\ (<< c >> \o b) \o left = << c >> \o l
    <3>1. b \o left \in Texts
      BY ConcatProperties DEF Texts
    <3>2. (<< c >> \o b) \o left = << c >> \o (b \o left)
      BY <2>5, ConcatAssociative, SMTT(30) DEF Texts
    <3> QED
      BY <3>1, <3>2
  <2>8. At(up, L, State(Rest(a, k) \o route, Rest(a, k) \o left, values))
    BY <1>3
  <2>9. At(up, L, State(<< c >> \o r, << c >> \o l, values))
    BY <2>2, <2>3, <2>4, <2>6, <2>7, <2>8
  <2>10. At(up, L, State(r, l, values))
    BY <2>9, AtSame
  <2> QED
    BY <2>1, <2>4, <2>6, <2>7, <2>10
<1>4. 0..n \subseteq S
  <2> HIDE DEF S
  <2> QED
    BY <1>2, <1>3, IntervalInduction
<1>5. At(up, L, State(Rest(a, n) \o route, Rest(a, n) \o left, values))
  BY <1>4
<1>6. Rest(a, n) = <<>>
  BY <1>1, RestIs, Zenon DEF Texts
<1>7. <<>> \o route = route /\ <<>> \o left = left
  BY ConcatEmptySeq DEF Texts
<1> QED
  BY <1>5, <1>6, <1>7


(* What a segment is followed by                                            *)
Slashed(x) == x = <<>> \/ x[1] = "/"
Behind(x)  == IF x = <<>> THEN <<>> ELSE Tail(x)
Lacks(s, c) == \A i \in DOMAIN s : s[i] # c

(* A parameter takes what is in front of the next "/", and that goes with   *)
(* it; one that is no argument ends the match.                              *)
LEMMA AtParameter ==
  ASSUME NEW e, NEW path, NEW L \in Nat, NEW up, Matched(up, e, path, L),
         NEW t \in Texts, NEW s \in Texts, NEW x \in Texts, NEW y \in Texts, NEW values,
         Lacks(t, "/"), Lacks(s, "/"), Slashed(x), Slashed(y), s # <<>>, s[1] # ":",
         At(up, L, State(<< ":" >> \o (t \o x), s \o y, values)),
         NEW p, p = IndexOf(e.args, t)
  PROVE  /\ p = 0 => up[L].ok = FALSE
         /\ p # 0 => At(up, L, State(Behind(x), Behind(y), [values EXCEPT ![p] = Set(s)]))
<1>1. PICK c \in Characters : c = ":"
  BY DEF Characters
<1>2. PICK d \in Characters : d = "/"
  BY DEF Characters
<1>3. PICK tx \in Texts : tx = t \o x
  BY ConcatProperties DEF Texts
<1>4. PICK r \in Texts : r = << c >> \o tx /\ r # <<>> /\ r[1] = c /\ Tail(r) = tx
  BY TailOfFirst, Zenon DEF Texts
<1>5. PICK l \in Texts : l = s \o y /\ l # <<>> /\ l[1] = s[1]
  <2>1. PICK l \in Texts : l = s \o y
    BY ConcatProperties DEF Texts
  <2>2. Len(s) \in Nat /\ Len(s) # 0 /\ Len(y) \in Nat
    BY EmptySeq DEF Texts
  <2>3. Len(l) = Len(s) + Len(y) /\ 1 \in 1..Len(s) /\ \A i \in 1..Len(s) : l[i] = s[i]
    BY <2>1, <2>2 DEF Texts
  <2>4. l # <<>>
    BY <2>2, <2>3
  <2> QED
    BY <2>1, <2>3, <2>4
<1>6. /\ SplitAt(t \o x, d).split = t
      /\ SplitAt(t \o x, d).rest = IF x = <<>> THEN <<>> ELSE Tail(x)
  BY <1>2, SplitFirstText DEF Lacks, Slashed
<1>7. /\ SplitAt(s \o y, d).split = s
      /\ SplitAt(s \o y, d).rest = IF y = <<>> THEN <<>> ELSE Tail(y)
  BY <1>2, SplitFirstText DEF Lacks, Slashed
<1>8. SplitAt(tx, "/").split = t /\ SplitAt(tx, "/").rest = Behind(x)
  BY <1>2, <1>3, <1>6, Zenon DEF Behind
<1>9. SplitAt(l, "/").split = s /\ SplitAt(l, "/").rest = Behind(y)
  BY <1>2, <1>5, <1>7, Zenon DEF Behind
<1>10. PICK m : m = State(r, l, values)
  OBVIOUS
<1>11. m.route = r /\ m.path = l /\ m.ok = TRUE /\ m.values = values
  BY <1>10 DEF State
<1>12. At(up, L, m)
  BY <1>1, <1>3, <1>4, <1>5, <1>10
<1>13. Parameter(e, m) = p
  BY <1>4, <1>8, <1>11, Zenon DEF Parameter
<1>14. TakesValue(e, m) <=> p # 0
  <2>1. m.route[1] = ":" /\ SplitAt(m.path, "/").split # <<>>
    BY <1>1, <1>4, <1>9, <1>11
  <2> QED
    BY <1>13, <2>1, Zenon DEF TakesValue
<1>15. m.route[1] # m.path[1]
  BY <1>1, <1>4, <1>5, <1>11
<1>16. p = 0 => up[L].ok = FALSE
  <2> SUFFICES ASSUME p = 0 PROVE up[L].ok = FALSE
    OBVIOUS
  <2>1. ~TakesValue(e, State(r, l, values))
    BY <1>10, <1>14
  <2>2. r[1] # l[1]
    BY <1>11, <1>15
  <2> QED
    BY <1>4, <1>5, <1>10, <1>12, <2>1, <2>2, AtDifference
<1>17. ASSUME p # 0
       PROVE  At(up, L, State(Behind(x), Behind(y), [values EXCEPT ![p] = Set(s)]))
  <2>1. TakesValue(e, m) /\ ~(~m.ok \/ m.route = <<>> \/ m.path = <<>>)
    BY <1>4, <1>5, <1>11, <1>14, <1>17
  <2>2. MatchNext(e, m) =
          [m EXCEPT !.route = SplitAt(Tail(@), "/").rest, !.path = SplitAt(@, "/").rest,
                    !.values[Parameter(e, m)] = Set(SplitAt(m.path, "/").split)]
    BY <1>15, <2>1, Zenon DEF MatchNext
  <2>3. MatchNext(e, m) = [m EXCEPT !.route = Behind(x), !.path = Behind(y), !.values[p] = Set(s)]
    BY <1>4, <1>8, <1>9, <1>11, <1>13, <2>2
  <2>4. MatchNext(e, m) = State(Behind(x), Behind(y), [values EXCEPT ![p] = Set(s)])
    BY <1>10, <2>3 DEF State
  <2>5. Len(m.route) \in Nat /\ Len(MatchNext(e, m).route) \in Nat
        /\ Len(MatchNext(e, m).route) < Len(m.route)
    <3>1. PICK w : w = MatchNext(e, m) /\ w.route = Behind(x)
      BY <2>4 DEF State
    <3>2. PICK b \in Texts : b = Behind(x) /\ Len(b) <= Len(x)
      <4>1. CASE x = <<>>
        <5>1. Behind(x) = x
          BY <4>1 DEF Behind
        <5>2. Len(x) \in Nat
          BY DEF Texts
        <5> QED
          BY <5>1, <5>2
      <4>2. CASE x # <<>>
        <5>1. Behind(x) = Tail(x)
          BY <4>2 DEF Behind
        <5>2. Tail(x) \in Texts /\ Len(Tail(x)) = Len(x) - 1 /\ Len(x) \in Nat
          BY <4>2, HeadTailProperties DEF Texts
        <5>3. PICK n \in Nat : n = Len(x)
          BY <5>2
        <5>4. Len(Tail(x)) <= Len(x)
          BY <5>2, <5>3
        <5> QED
          BY <5>1, <5>2, <5>4
      <4> QED
        BY <4>1, <4>2
    <3>3. Len(tx) = Len(t) + Len(x) /\ Len(t) \in Nat /\ Len(x) \in Nat /\ Len(tx) \in Nat
          /\ Len(b) \in Nat /\ Len(r) \in Nat
      BY <1>3, ConcatProperties DEF Texts
    <3>4. Len(tx) = Len(r) - 1
      BY <1>4, HeadTailProperties DEF Texts
    <3>5. Len(b) < Len(r)
      BY <3>2, <3>3, <3>4
    <3> QED
      BY <1>11, <3>1, <3>2, <3>3, <3>5
  <2>6. At(up, L, MatchNext(e, m))
    BY <1>12, <2>5, AtNext
  <2> QED
    BY <2>4, <2>6
<1> QED
  BY <1>16, <1>17

(* Two texts that differ have a first difference.                           *)
LEMMA FirstDifference ==
  ASSUME NEW a \in Texts, NEW b \in Texts, a # b
  PROVE  \E k \in 0..Len(a) :
           /\ k <= Len(b) /\ ~(k = Len(a) /\ k = Len(b))
           /\ SubSeq(a, 1, k) = SubSeq(b, 1, k)
           /\ k < Len(a) /\ k < Len(b) => a[k + 1] # b[k + 1]
<1>1. PICK m \in Nat, n \in Nat : m = Len(a) /\ n = Len(b)
  BY DEF Texts
<1> DEFINE D == { i \in Nat : i > m \/ i > n \/ a[i + 1] # b[i + 1] \/ i = m \/ i = n }
<1>2. m \in D
  OBVIOUS
<1>3. PICK k \in D : \A j \in D : k <= j
  <2>1. D \subseteq Nat /\ D # {}
    BY <1>2
  <2> HIDE DEF D
  <2> QED
    BY <2>1, LeastNatural
<1>4. n \in D
  OBVIOUS
<1>5. k <= m /\ k <= n /\ k \in Nat
  BY <1>2, <1>3, <1>4
<1>6. \A j \in 0..(k - 1) : a[j + 1] = b[j + 1]
  <2> SUFFICES ASSUME NEW j \in 0..(k - 1), a[j + 1] # b[j + 1] PROVE FALSE
    OBVIOUS
  <2>1. j \in D /\ j < k
    BY <1>5
  <2>2. k <= j
    BY <1>3, <2>1
  <2> QED
    BY <1>5, <2>1, <2>2
<1>7. \A i \in 1..k : a[i] = b[i]
  <2> SUFFICES ASSUME NEW i \in 1..k PROVE a[i] = b[i]
    OBVIOUS
  <2>1. i - 1 \in 0..(k - 1) /\ (i - 1) + 1 = i
    BY <1>5
  <2> QED
    BY <1>6, <2>1
<1>8. SubSeq(a, 1, k) = SubSeq(b, 1, k)
  <2>1. PICK u \in Texts : u = SubSeq(a, 1, k) /\ Len(u) = k /\ \A i \in 1..k : u[i] = a[i]
    <3>1. SubSeq(a, 1, k) \in Texts /\ Len(SubSeq(a, 1, k)) = k
          /\ \A i \in 1..k : SubSeq(a, 1, k)[i] = a[i]
      BY <1>1, <1>5 DEF Texts
    <3> QED
      BY <3>1
  <2>2. PICK v \in Texts : v = SubSeq(b, 1, k) /\ Len(v) = k /\ \A i \in 1..k : v[i] = b[i]
    <3>1. SubSeq(b, 1, k) \in Texts /\ Len(SubSeq(b, 1, k)) = k
          /\ \A i \in 1..k : SubSeq(b, 1, k)[i] = b[i]
      BY <1>1, <1>5 DEF Texts
    <3> QED
      BY <3>1
  <2>3. Len(u) = Len(v) /\ \A i \in 1..Len(u) : u[i] = v[i]
    BY <1>7, <2>1, <2>2
  <2> QED
    BY <2>1, <2>2, <2>3, SeqEqual DEF Texts
<1>9. ~(k = m /\ k = n)
  <2> SUFFICES ASSUME k = m, k = n PROVE FALSE
    OBVIOUS
  <2>1. Len(a) = Len(b) /\ \A i \in 1..Len(a) : a[i] = b[i]
    BY <1>1, <1>7
  <2> QED
    BY <2>1, SeqEqual DEF Texts
<1>10. k < m /\ k < n => a[k + 1] # b[k + 1]
  BY <1>5
<1>11. k \in 0..Len(a)
  BY <1>1, <1>5
<1> QED
  BY <1>1, <1>5, <1>8, <1>9, <1>10, <1>11


LEMMA TextsAssociate ==
  ASSUME NEW a \in Texts, NEW b \in Texts, NEW c \in Texts
  PROVE  (a \o b) \o c = a \o (b \o c)
BY ConcatAssociative DEF Texts

LEMMA Regrouped ==
  ASSUME NEW c \in Texts, NEW a \in Texts, NEW t, NEW x \in Texts, NEW u,
         t = c \o a, u = a \o x
  PROVE  t \o x = c \o u
BY TextsAssociate

LEMMA HeadOf ==
  ASSUME NEW a \in Texts, NEW x \in Texts
  PROVE  /\ a \o x \in Texts
         /\ a = <<>> => a \o x = x
         /\ a # <<>> => a \o x # <<>> /\ (a \o x)[1] = a[1]
<1>1. PICK l \in Texts : l = a \o x
  BY ConcatProperties DEF Texts
<1>2. a = <<>> => l = x
  BY <1>1, ConcatEmptySeq DEF Texts
<1>3. ASSUME a # <<>> PROVE l # <<>> /\ l[1] = a[1]
  <2>1. Len(a) \in Nat /\ Len(a) # 0 /\ Len(x) \in Nat
    BY <1>3, EmptySeq DEF Texts
  <2>2. Len(l) = Len(a) + Len(x) /\ 1 \in 1..Len(a) /\ \A i \in 1..Len(a) : l[i] = a[i]
    BY <1>1, <2>1 DEF Texts
  <2>3. l # <<>>
    BY <2>1, <2>2
  <2> QED
    BY <2>2, <2>3
<1> QED
  BY <1>1, <1>2, <1>3

LEMMA RestText ==
  ASSUME NEW a \in Texts, NEW k \in 0..Len(a)
  PROVE  /\ Rest(a, k) \in Texts /\ SubSeq(a, 1, k) \in Texts
         /\ a = SubSeq(a, 1, k) \o Rest(a, k)
         /\ k = Len(a) => Rest(a, k) = <<>>
         /\ k < Len(a) => Rest(a, k) # <<>> /\ Rest(a, k)[1] = a[k + 1] /\ k + 1 \in DOMAIN a
<1>1. PICK S : S = Characters
  OBVIOUS
<1>2. a \in Seq(S)
  BY <1>1 DEF Texts
<1>3. /\ Rest(a, Len(a)) = <<>>
      /\ \A j \in 0..Len(a) : Rest(a, j) \in Seq(S)
      /\ \A j \in 0..(Len(a) - 1) : Rest(a, j) = << a[j + 1] >> \o Rest(a, j + 1)
      /\ \A j \in 0..Len(a) : SubSeq(a, 1, j) \in Seq(S) /\ a = SubSeq(a, 1, j) \o Rest(a, j)
  BY <1>2, RestIs, Zenon
<1>4. k < Len(a) => Rest(a, k) # <<>> /\ Rest(a, k)[1] = a[k + 1] /\ k + 1 \in DOMAIN a
  <2> SUFFICES ASSUME k < Len(a)
               PROVE  Rest(a, k) # <<>> /\ Rest(a, k)[1] = a[k + 1] /\ k + 1 \in DOMAIN a
    OBVIOUS
  <2>1. Len(a) \in Nat /\ k \in 0..(Len(a) - 1) /\ k + 1 \in 0..Len(a) /\ k + 1 \in 1..Len(a)
    BY <1>2
  <2>2. PICK c \in S : c = a[k + 1]
    BY <1>2, <2>1
  <2>3. PICK r \in Seq(S) : r = Rest(a, k + 1)
    BY <1>3, <2>1
  <2>4. Rest(a, k) = << c >> \o r
    BY <1>3, <2>1, <2>2, <2>3
  <2>5. << c >> \o r # <<>> /\ (<< c >> \o r)[1] = c
    BY TailOfFirst, Zenon
  <2>6. k + 1 \in DOMAIN a
    BY <1>2, <2>1
  <2> QED
    BY <2>2, <2>4, <2>5, <2>6, Zenon
<1> QED
  BY <1>1, <1>3, <1>4, Zenon DEF Texts

(* A segment that is said otherwise is not matched.                         *)
LEMMA AtOther ==
  ASSUME NEW e, NEW path, NEW L \in Nat, NEW up, Matched(up, e, path, L),
         NEW t \in Texts, NEW s \in Texts, NEW x \in Texts, NEW y \in Texts, NEW values,
         Lacks(t, "/"), Lacks(t, ":"), Lacks(s, "/"), Slashed(x), Slashed(y), t # s,
         At(up, L, State(t \o x, s \o y, values))
  PROVE  ~(up[L].ok /\ up[L].route = <<>> /\ up[L].path = <<>>)
<1>1. PICK k \in 0..Len(t) :
           /\ k <= Len(s) /\ ~(k = Len(t) /\ k = Len(s))
           /\ SubSeq(t, 1, k) = SubSeq(s, 1, k)
           /\ k < Len(t) /\ k < Len(s) => t[k + 1] # s[k + 1]
  BY FirstDifference
<1>2. Len(t) \in Nat /\ Len(s) \in Nat /\ k \in 0..Len(s)
  <2>1. Len(t) \in Nat /\ Len(s) \in Nat
    BY DEF Texts
  <2> QED
    BY <1>1, <2>1
<1>3. PICK c \in Texts : c = SubSeq(t, 1, k) /\ c = SubSeq(s, 1, k)
  BY <1>1, RestText
<1>4. PICK a : /\ a \in Texts /\ a = Rest(t, k) /\ t = c \o a /\ (k = Len(t) => a = <<>>)
               /\ k < Len(t) => a # <<>> /\ a[1] = t[k + 1] /\ k + 1 \in DOMAIN t
  BY <1>3, RestText
<1>5. PICK b : /\ b \in Texts /\ b = Rest(s, k) /\ s = c \o b /\ (k = Len(s) => b = <<>>)
               /\ k < Len(s) => b # <<>> /\ b[1] = s[k + 1] /\ k + 1 \in DOMAIN s
  BY <1>2, <1>3, RestText
<1>6. PICK u : /\ u \in Texts /\ u = a \o x /\ (a = <<>> => u = x)
               /\ (a # <<>> => u # <<>> /\ u[1] = a[1])
  BY <1>4, HeadOf
<1>7. PICK v : /\ v \in Texts /\ v = b \o y /\ (b = <<>> => v = y)
               /\ (b # <<>> => v # <<>> /\ v[1] = b[1])
  BY <1>5, HeadOf
<1>8. t \o x = c \o u /\ s \o y = c \o v
  <2>1. t \o x = c \o u
    <3>1. t = c \o a /\ u = a \o x
      BY <1>4, <1>6, Zenon
    <3> QED
      BY <1>4, <3>1, Regrouped, SMTT(30)
  <2>2. s \o y = c \o v
    <3>1. s = c \o b /\ v = b \o y
      BY <1>5, <1>7, Zenon
    <3> QED
      BY <1>5, <3>1, Regrouped, SMTT(30)
  <2> QED
    BY <2>1, <2>2
<1>9. At(up, L, State(u, v, values))
  BY <1>6, <1>7, <1>8, AtCommon
<1>10. a = <<>> \/ (a # <<>> /\ a[1] # "/" /\ a[1] # ":")
  BY <1>1, <1>2, <1>4 DEF Lacks
<1>11. b = <<>> \/ (b # <<>> /\ b[1] # "/")
  <2>1. k < Len(s) \/ k = Len(s)
    BY <1>1, <1>2
  <2>2. k < Len(s) => b # <<>> /\ b[1] # "/"
    BY <1>5 DEF Lacks
  <2> QED
    BY <1>5, <2>1, <2>2
<1>12. ~(a = <<>> /\ b = <<>>) /\ (a # <<>> /\ b # <<>> => a[1] # b[1])
  <2>1. k < Len(t) \/ k < Len(s)
    BY <1>1, <1>2
  <2>2. k < Len(t) \/ k = Len(t)
    BY <1>1, <1>2
  <2>3. k < Len(s) \/ k = Len(s)
    BY <1>1, <1>2
  <2> QED
    BY <1>1, <1>4, <1>5, <2>1, <2>2, <2>3, Zenon
<1>13. ~(u = <<>> /\ v = <<>>)
  BY <1>6, <1>7, <1>12
<1>14. u # <<>> => u[1] # ":"
  <2>1. a = <<>> => u = x
    BY <1>6
  <2>2. x # <<>> => x[1] # ":"
    BY DEF Slashed
  <2> QED
    BY <1>6, <1>10, <2>1, <2>2
<1>15. u # <<>> /\ v # <<>> => u[1] # v[1]
  <2>1. CASE a = <<>>
    <3>1. u = x /\ b # <<>> /\ v[1] = b[1] /\ b[1] # "/"
      BY <1>6, <1>7, <1>11, <1>12, <2>1
    <3> QED
      BY <3>1 DEF Slashed
  <2>2. CASE a # <<>> /\ b = <<>>
    <3>1. v = y /\ u[1] = a[1] /\ a[1] # "/"
      BY <1>6, <1>7, <1>10, <2>2
    <3> QED
      BY <3>1 DEF Slashed
  <2>3. CASE a # <<>> /\ b # <<>>
    BY <1>6, <1>7, <1>12, <2>3
  <2> QED
    BY <2>1, <2>2, <2>3
<1>16. CASE u = <<>> \/ v = <<>>
  <2>1. up[L] = State(u, v, values)
    BY <1>9, <1>16, AtEnd
  <2> QED
    BY <1>13, <2>1 DEF State
<1>17. CASE u # <<>> /\ v # <<>>
  <2>1. PICK m : m = State(u, v, values)
    OBVIOUS
  <2>2. m.route[1] # ":"
    BY <1>14, <1>17, <2>1 DEF State
  <2>3. ~TakesValue(e, m)
    BY <2>2, Zenon DEF TakesValue
  <2>4. up[L].ok = FALSE
    BY <1>6, <1>9, <1>15, <1>17, <2>1, <2>3, AtDifference
  <2> QED
    BY <2>4
<1> QED
  BY <1>16, <1>17


-----------------------------------------------------------------------------
(* The match, segment by segment                                            *)

(* Texts, each behind a "/", from each on                                   *)
SlashedFrom(from, texts, L) ==
  /\ from \in [0..L -> Texts] /\ from[L] = <<>>
  /\ from[0] = FlattenSeq([i \in 1..L |-> << "/" >> \o texts[i]])
  /\ \A k \in 1..L : from[k - 1] = << "/" >> \o (texts[k] \o from[k])

LEMMA SlashesGoOn ==
  ASSUME NEW L \in Nat, NEW texts, \A i \in 1..L : texts[i] \in Texts
  PROVE  \E from : SlashedFrom(from, texts, L)
<1>1. PICK c \in Characters : c = "/"
  BY DEF Characters
<1> DEFINE seqs == [i \in 1..L |-> << c >> \o texts[i]]
<1>2. << c >> \in Texts
  BY DEF Texts
<1>3. ASSUME NEW i \in 1..L PROVE seqs[i] \in Texts /\ seqs[i] = << c >> \o texts[i]
  <2>1. PICK t \in Texts : t = texts[i]
    OBVIOUS
  <2>2. << c >> \o t \in Texts
    BY TailOfFirst, Zenon DEF Texts
  <2> QED
    BY <2>1, <2>2
<1>4. DOMAIN seqs = 1..L /\ seqs = [i \in 1..L |-> seqs[i]]
  OBVIOUS
<1>5. FlattenSeq([i \in 1..L |-> << "/" >> \o texts[i]]) = FlattenSeq(seqs)
  BY <1>1
<1> HIDE DEF seqs
<1>6. seqs \in Seq(Seq(Characters)) /\ Len(seqs) = L
  <2>1. PICK Y : Y = Texts
    OBVIOUS
  <2>2. seqs \in [1..L -> Y]
    BY <1>3, <1>4, <2>1
  <2>3. seqs \in Seq(Y) /\ Len(seqs) = L
    BY <2>2
  <2> QED
    BY <2>1, <2>3 DEF Texts
<1>7. PICK from : GoesOn(from, seqs, Characters, L)
  BY <1>6, FlattenFrom, Zenon
<1>8. from \in [0..L -> Texts] /\ from[L] = <<>> /\ from[0] = FlattenSeq(seqs)
  BY <1>7, Zenon DEF GoesOn, Texts
<1>9. ASSUME NEW k \in 1..L PROVE from[k - 1] = << "/" >> \o (texts[k] \o from[k])
  <2>1. from[k - 1] = seqs[k] \o from[k]
    BY <1>7 DEF GoesOn
  <2>2. PICK t \in Texts : t = texts[k]
    OBVIOUS
  <2>3. PICK r \in Texts : r = from[k]
    <3>1. k \in 0..L
      OBVIOUS
    <3> QED
      BY <1>8, <3>1
  <2>4. (<< c >> \o t) \o r = << c >> \o (t \o r)
    BY <1>2, TextsAssociate
  <2> QED
    BY <1>1, <1>3, <2>1, <2>2, <2>3, <2>4, Zenon
<1>10. SlashedFrom(from, texts, L)
  BY <1>5, <1>8, <1>9, Zenon DEF SlashedFrom
<1> QED
  BY <1>10

LEMMA SlashedParts ==
  ASSUME NEW L \in Nat, NEW texts, \A i \in 1..L : texts[i] \in Texts,
         NEW from, SlashedFrom(from, texts, L), NEW k \in 0..L
  PROVE  /\ from[k] \in Texts /\ Slashed(from[k]) /\ Behind(from[k]) \in Texts
         /\ k = L => from[k] = <<>>
         /\ k < L => /\ from[k] = << "/" >> \o Behind(from[k]) /\ from[k] # <<>>
                     /\ Behind(from[k]) = texts[k + 1] \o from[k + 1]
<1>1. from[k] \in Texts /\ (k = L => from[k] = <<>>)
  BY DEF SlashedFrom
<1>2. CASE k = L
  <2>1. Behind(from[k]) = from[k] /\ Slashed(from[k])
    BY <1>1, <1>2 DEF Behind, Slashed
  <2>2. ~(k < L)
    BY <1>2
  <2> QED
    BY <1>1, <2>1, <2>2, Zenon
<1>3. CASE k < L
  <2>1. k + 1 \in 1..L /\ (k + 1) - 1 = k /\ k + 1 \in 0..L
    BY <1>3
  <2>2. PICK t \in Texts : t = texts[k + 1]
    BY <2>1
  <2>3. PICK r \in Texts : r = from[k + 1]
    BY <2>1 DEF SlashedFrom
  <2>4. PICK u \in Texts : u = t \o r
    BY ConcatProperties DEF Texts
  <2>5. PICK c \in Characters : c = "/"
    BY DEF Characters
  <2>6. from[k] = << c >> \o u
    <3>1. from[(k + 1) - 1] = << "/" >> \o (texts[k + 1] \o from[k + 1])
      BY <2>1, Zenon DEF SlashedFrom
    <3> QED
      BY <2>1, <2>2, <2>3, <2>4, <2>5, <3>1
  <2>7. PICK b \in Texts : b = << c >> \o u /\ b # <<>> /\ b[1] = c /\ Tail(b) = u
    BY TailOfFirst, Zenon DEF Texts
  <2>8. from[k] = b /\ Behind(from[k]) = u
    BY <2>6, <2>7 DEF Behind
  <2>9. Slashed(from[k]) /\ from[k] # <<>>
    BY <2>5, <2>7, <2>8 DEF Slashed
  <2>10. Behind(from[k]) = texts[k + 1] \o from[k + 1]
    BY <2>2, <2>3, <2>4, <2>8, Zenon
  <2>11. from[k] = << "/" >> \o Behind(from[k])
    BY <2>5, <2>7, <2>8, Zenon
  <2>12. Behind(from[k]) \in Texts
    BY <2>8
  <2> QED
    BY <1>1, <2>9, <2>10, <2>11, <2>12, Zenon
<1>4. k = L \/ k < L
  OBVIOUS
<1> QED
  BY <1>2, <1>3, <1>4

(* A name's segments and a request's, facing each other.                    *)
SegmentText(s) == IF s.param THEN << ":" >> \o s.text ELSE s.text
Stated(s) ==
  /\ s.param \in BOOLEAN /\ s.text \in Texts /\ Lacks(s.text, "/")
  /\ ~s.param => Lacks(s.text, ":") /\ PlainText(s.text)

(* The last segment has something in it, if the one before is a parameter.  *)
TextAtEnd(fs) ==
  Len(fs) > 1 /\ fs[Len(fs) - 1].param => SegmentText(fs[Len(fs)]) # <<>>

RouteTexts(fs) == [i \in 1..Len(fs) |-> SegmentText(fs[i])]
PathTexts(rs)  == [i \in 1..Len(rs) |-> Encode(rs[i])]

\* no ":" that is not escaped
Unmarked(s) == ":" \notin ToSet(s) \ Escapes

Facing(fs, rs, fr, pr) ==
  /\ Len(fs) \in Nat /\ TextAtEnd(fs) /\ \A i \in 1..Len(fs) : Stated(fs[i])
  /\ Len(rs) \in Nat /\ \A i \in 1..Len(rs) : rs[i] \in Texts /\ rs[i] # <<>> /\ Unmarked(rs[i])
  /\ SlashedFrom(fr, RouteTexts(fs), Len(fs))
  /\ SlashedFrom(pr, PathTexts(rs), Len(rs))

LEMMA SegmentTexts ==
  ASSUME NEW s, Stated(s)
  PROVE  SegmentText(s) \in Texts
<1>1. CASE s.param
  <2>1. PICK c \in Characters : c = ":"
    BY DEF Characters
  <2>2. PICK t \in Texts : t = s.text
    BY DEF Stated
  <2>3. << c >> \o t \in Texts
    BY TailOfFirst, Zenon DEF Texts
  <2> QED
    BY <1>1, <2>1, <2>2, <2>3 DEF SegmentText
<1>2. CASE ~s.param
  BY <1>2 DEF SegmentText, Stated
<1> QED
  BY <1>1, <1>2

LEMMA EncodeKeeps ==
  ASSUME NEW s \in Texts, s # <<>>, Unmarked(s)
  PROVE  /\ Encode(s) \in Texts /\ Encode(s) # <<>> /\ Lacks(Encode(s), "/")
         /\ Lacks(Encode(s), ":") /\ Encode(s)[1] # ":"
<1>1. Encode(s) \in Texts /\ Lacks(Encode(s), "/")
  BY EncodePart DEF Lacks
<1>2. Encode(s) # <<>>
  <2>1. Len(Encode(s)) >= Len(s) /\ Len(s) \in Nat /\ Len(s) # 0
    BY EncodeLonger, EmptySeq DEF Texts
  <2> QED
    BY <2>1
<1>3. Lacks(Encode(s), ":")
  <2>1. ":" \notin ToSet(s) \ Escapes
    BY Zenon DEF Unmarked
  <2>2. PICK c : c = ":"
    OBVIOUS
  <2>3. c \in { "/", "&", "=" } \/ (c = ":" /\ ":" \notin ToSet(s) \ Escapes)
    BY <2>1, <2>2
  <2>4. \A i \in DOMAIN Encode(s) : Encode(s)[i] # c
    BY <2>3, EncodeLacks
  <2> QED
    BY <2>2, <2>4 DEF Lacks
<1>4. 1 \in DOMAIN Encode(s)
  <2>1. PICK e \in Texts : e = Encode(s) /\ e # <<>>
    BY <1>1, <1>2
  <2>2. Len(e) \in Nat /\ Len(e) # 0
    BY <2>1, EmptySeq DEF Texts
  <2>3. 1 \in DOMAIN e
    BY <2>2 DEF Texts
  <2> QED
    BY <2>1, <2>3
<1> QED
  BY <1>1, <1>2, <1>3, <1>4 DEF Lacks


AtSegment(up, L, fs, fr, pr, k, values) ==
  \/ At(up, L, State(fr[k], pr[k], values))
  \/ k > 0 /\ fs[k].param /\ At(up, L, State(Behind(fr[k]), Behind(pr[k]), values))

Done(up, L) == up[L].ok /\ up[L].route = <<>> /\ up[L].path = <<>>

LEMMA RouteParts ==
  ASSUME NEW fs, NEW rs, NEW fr, NEW pr, Facing(fs, rs, fr, pr), NEW k \in 0..Len(fs)
  PROVE  /\ fr[k] \in Texts /\ Slashed(fr[k]) /\ Behind(fr[k]) \in Texts
         /\ k = Len(fs) => fr[k] = <<>>
         /\ k < Len(fs) => /\ fr[k] = << "/" >> \o Behind(fr[k]) /\ fr[k] # <<>>
                           /\ Behind(fr[k]) = SegmentText(fs[k + 1]) \o fr[k + 1]
<1>1. PICK K \in Nat : K = Len(fs)
  BY DEF Facing
<1>2. PICK ft : ft = RouteTexts(fs) /\ SlashedFrom(fr, ft, K)
  BY <1>1 DEF Facing
<1>3. \A i \in 1..K : ft[i] = SegmentText(fs[i]) /\ ft[i] \in Texts
  <2>1. \A i \in 1..K : ft[i] = SegmentText(fs[i])
    BY <1>1, <1>2 DEF RouteTexts
  <2>2. \A i \in 1..K : SegmentText(fs[i]) \in Texts
    BY <1>1, SegmentTexts DEF Facing
  <2> QED
    BY <2>1, <2>2
<1>4. /\ fr[k] \in Texts /\ Slashed(fr[k]) /\ Behind(fr[k]) \in Texts
      /\ k = K => fr[k] = <<>>
      /\ k < K => /\ fr[k] = << "/" >> \o Behind(fr[k]) /\ fr[k] # <<>>
                  /\ Behind(fr[k]) = ft[k + 1] \o fr[k + 1]
  BY <1>1, <1>2, <1>3, SlashedParts
<1>5. k < K => ft[k + 1] = SegmentText(fs[k + 1])
  <2>1. k < K => k + 1 \in 1..K
    BY <1>1
  <2> QED
    BY <1>3, <2>1
<1> QED
  BY <1>1, <1>4, <1>5, Zenon

LEMMA PathParts ==
  ASSUME NEW fs, NEW rs, NEW fr, NEW pr, Facing(fs, rs, fr, pr), NEW k \in 0..Len(rs)
  PROVE  /\ pr[k] \in Texts /\ Slashed(pr[k]) /\ Behind(pr[k]) \in Texts
         /\ k = Len(rs) => pr[k] = <<>>
         /\ k < Len(rs) => /\ pr[k] = << "/" >> \o Behind(pr[k]) /\ pr[k] # <<>>
                           /\ Behind(pr[k]) = Encode(rs[k + 1]) \o pr[k + 1]
<1>1. PICK K \in Nat : K = Len(rs)
  BY DEF Facing
<1>2. PICK pt : pt = PathTexts(rs) /\ SlashedFrom(pr, pt, K)
  BY <1>1 DEF Facing
<1>3. \A i \in 1..K : pt[i] = Encode(rs[i]) /\ pt[i] \in Texts
  <2>1. \A i \in 1..K : pt[i] = Encode(rs[i])
    BY <1>1, <1>2 DEF PathTexts
  <2>2. \A i \in 1..K : Encode(rs[i]) \in Texts
    BY <1>1, EncodeChars DEF Facing
  <2> QED
    BY <2>1, <2>2
<1>4. /\ pr[k] \in Texts /\ Slashed(pr[k]) /\ Behind(pr[k]) \in Texts
      /\ k = K => pr[k] = <<>>
      /\ k < K => /\ pr[k] = << "/" >> \o Behind(pr[k]) /\ pr[k] # <<>>
                  /\ Behind(pr[k]) = pt[k + 1] \o pr[k + 1]
  BY <1>1, <1>2, <1>3, SlashedParts
<1>5. k < K => pt[k + 1] = Encode(rs[k + 1])
  <2>1. k < K => k + 1 \in 1..K
    BY <1>1
  <2> QED
    BY <1>3, <2>1
<1> QED
  BY <1>1, <1>4, <1>5, Zenon

(* At a segment, and the "/" in front of it passed.                         *)
LEMMA AtTexts ==
  ASSUME NEW e, NEW path, NEW L \in Nat, NEW up, Matched(up, e, path, L),
         NEW fs, NEW rs, NEW fr, NEW pr, Facing(fs, rs, fr, pr),
         NEW k \in Nat, k < Len(fs), k < Len(rs), NEW values,
         AtSegment(up, L, fs, fr, pr, k, values)
  PROVE  At(up, L, State(SegmentText(fs[k + 1]) \o fr[k + 1],
                         Encode(rs[k + 1]) \o pr[k + 1], values))
<1>1. k \in 0..Len(fs) /\ k \in 0..Len(rs)
  BY DEF Facing
<1>2. /\ fr[k] = << "/" >> \o Behind(fr[k]) /\ Behind(fr[k]) \in Texts
      /\ Behind(fr[k]) = SegmentText(fs[k + 1]) \o fr[k + 1]
  BY <1>1, RouteParts, Zenon
<1>3. /\ pr[k] = << "/" >> \o Behind(pr[k]) /\ Behind(pr[k]) \in Texts
      /\ Behind(pr[k]) = Encode(rs[k + 1]) \o pr[k + 1]
  BY <1>1, PathParts, Zenon
<1>4. PICK r \in Texts : r = Behind(fr[k])
  BY <1>2
<1>5. PICK l \in Texts : l = Behind(pr[k])
  BY <1>3
<1>6. PICK c \in Characters : c = "/"
  BY DEF Characters
<1>7. At(up, L, State(r, l, values))
  <2>1. CASE At(up, L, State(Behind(fr[k]), Behind(pr[k]), values))
    BY <1>4, <1>5, <2>1
  <2>2. CASE At(up, L, State(fr[k], pr[k], values))
    <3>1. At(up, L, State(<< c >> \o r, << c >> \o l, values))
      BY <1>2, <1>3, <1>4, <1>5, <1>6, <2>2
    <3> QED
      BY <3>1, AtSame
  <2> QED
    BY <2>1, <2>2 DEF AtSegment
<1> QED
  BY <1>2, <1>3, <1>4, <1>5, <1>7

Taking(values, p, text) == [values EXCEPT ![p] = Set(text)]

(* A segment that faces another is passed, or the match fails.              *)
Passes(up, L, fs, fr, pr, k, values, s, text, p) ==
  /\ ~s.param /\ s.text = text => AtSegment(up, L, fs, fr, pr, k + 1, values)
  /\ ~s.param /\ s.text # text => ~Done(up, L)
  /\ s.param /\ p = 0 => ~Done(up, L)
  /\ s.param /\ p # 0 => AtSegment(up, L, fs, fr, pr, k + 1, Taking(values, p, Encode(text)))

LEMMA SegmentStep ==
  ASSUME NEW e, NEW path, NEW L \in Nat, NEW up, Matched(up, e, path, L),
         NEW fs, NEW rs, NEW fr, NEW pr, Facing(fs, rs, fr, pr),
         NEW k \in Nat, k < Len(fs), k < Len(rs), NEW values,
         AtSegment(up, L, fs, fr, pr, k, values),
         NEW s, s = fs[k + 1], NEW p, p = IndexOf(e.args, s.text)
  PROVE  Passes(up, L, fs, fr, pr, k, values, s, rs[k + 1], p)
<1>1. k + 1 \in 1..Len(fs) /\ k + 1 \in 1..Len(rs) /\ k + 1 \in 0..Len(fs) /\ k + 1 \in 0..Len(rs)
  BY DEF Facing
<1>2. Stated(s)
  BY <1>1 DEF Facing
<1>3. PICK x : x = fr[k + 1] /\ x \in Texts /\ Slashed(x)
  BY <1>1, RouteParts, Zenon
<1>4. PICK y : y = pr[k + 1] /\ y \in Texts /\ Slashed(y)
  BY <1>1, PathParts, Zenon
<1>5. PICK q : q = rs[k + 1] /\ q \in Texts /\ q # <<>> /\ Unmarked(q)
  BY <1>1 DEF Facing
<1>6. PICK d : d = Encode(q) /\ d \in Texts /\ d # <<>> /\ Lacks(d, "/") /\ d[1] # ":"
  <2>1. q \in Texts /\ q # <<>> /\ Unmarked(q)
    BY <1>5
  <2> QED
    BY <2>1, EncodeKeeps
<1>7. PICK t : t = s.text /\ t \in Texts /\ Lacks(t, "/")
  BY <1>2 DEF Stated
<1>8. At(up, L, State(SegmentText(s) \o x, d \o y, values))
  <2>1. At(up, L, State(SegmentText(fs[k + 1]) \o fr[k + 1],
                         Encode(rs[k + 1]) \o pr[k + 1], values))
    BY AtTexts
  <2> QED
    BY <1>3, <1>4, <1>5, <1>6, <2>1
<1>9. ASSUME ~s.param
      PROVE  /\ t = q => AtSegment(up, L, fs, fr, pr, k + 1, values)
             /\ t # q => ~Done(up, L)
  <2>1. SegmentText(s) = t
    BY <1>7, <1>9, Zenon DEF SegmentText
  <2>2. At(up, L, State(t \o x, d \o y, values))
    BY <1>8, <2>1
  <2>3. Lacks(t, ":") /\ PlainText(t)
    BY <1>2, <1>7, <1>9, Zenon DEF Stated
  <2>4. d = t <=> q = t
    BY <1>5, <1>6, <1>7, <2>3, PlainPrinted
  <2>5. ASSUME t = q PROVE AtSegment(up, L, fs, fr, pr, k + 1, values)
    <3>1. At(up, L, State(t \o x, t \o y, values))
      BY <2>2, <2>4, <2>5
    <3>2. At(up, L, State(x, y, values))
      BY <1>3, <1>4, <1>7, <3>1, AtCommon
    <3> QED
      BY <1>3, <1>4, <3>2, Zenon DEF AtSegment
  <2>6. ASSUME t # q PROVE ~Done(up, L)
    <3>1. t # d
      BY <2>4, <2>6
    <3>2. ~(up[L].ok /\ up[L].route = <<>> /\ up[L].path = <<>>)
      BY <1>3, <1>4, <1>6, <1>7, <2>2, <2>3, <3>1, AtOther
    <3> QED
      BY <3>2, Zenon DEF Done
  <2> QED
    BY <2>5, <2>6
<1>10. ASSUME s.param
       PROVE  /\ p = 0 => ~Done(up, L)
              /\ p # 0 => AtSegment(up, L, fs, fr, pr, k + 1, Taking(values, p, d))
  <2>1. PICK c : c = ":" /\ c \in Characters /\ << c >> \in Texts
    BY DEF Characters, Texts
  <2>2. SegmentText(s) = << c >> \o t
    BY <1>7, <1>10, <2>1, Zenon DEF SegmentText
  <2>3. SegmentText(s) \o x = << ":" >> \o (t \o x)
    <3>1. << c >> \in Texts /\ t \in Texts /\ x \in Texts
      BY <1>3, <1>7, <2>1
    <3>2. (<< c >> \o t) \o x = << c >> \o (t \o x)
      BY <3>1, TextsAssociate
    <3> QED
      BY <2>1, <2>2, <3>2
  <2>4. At(up, L, State(<< ":" >> \o (t \o x), d \o y, values))
    BY <1>8, <2>3
  <2>5. p = IndexOf(e.args, t)
    BY <1>7
  <2>6. /\ p = 0 => up[L].ok = FALSE
        /\ p # 0 => At(up, L, State(Behind(x), Behind(y), [values EXCEPT ![p] = Set(d)]))
    BY <1>3, <1>4, <1>6, <1>7, <2>4, <2>5, AtParameter
  <2>7. k + 1 > 0 /\ fs[k + 1].param
    BY <1>10
  <2> QED
    BY <1>3, <1>4, <2>6, <2>7, Zenon DEF AtSegment, Done, Taking
<1> QED
  BY <1>5, <1>6, <1>7, <1>9, <1>10, Zenon DEF Passes

(* The match ends with the segments of the one or the other.                *)
LEMMA SegmentEnd ==
  ASSUME NEW e, NEW path, NEW L \in Nat, NEW up, Matched(up, e, path, L),
         NEW fs, NEW rs, NEW fr, NEW pr, Facing(fs, rs, fr, pr),
         NEW k \in Nat, k <= Len(fs), k <= Len(rs), NEW values,
         AtSegment(up, L, fs, fr, pr, k, values), k = Len(fs) \/ k = Len(rs)
  PROVE  IF Len(fs) = Len(rs) THEN Done(up, L) /\ up[L].values = values ELSE ~Done(up, L)
<1>1. k \in 0..Len(fs) /\ k \in 0..Len(rs)
  BY DEF Facing
<1>2. /\ k = Len(fs) => fr[k] = <<>> /\ Behind(fr[k]) = <<>>
      /\ k = Len(rs) => pr[k] = <<>> /\ Behind(pr[k]) = <<>>
  BY <1>1, RouteParts, PathParts, Zenon DEF Behind
<1>3. k < Len(fs) => fr[k] # <<>> /\ (k > 0 /\ fs[k].param => Behind(fr[k]) # <<>>)
  <2> SUFFICES ASSUME k < Len(fs)
               PROVE  fr[k] # <<>> /\ (k > 0 /\ fs[k].param => Behind(fr[k]) # <<>>)
    OBVIOUS
  <2>1. k + 1 \in 1..Len(fs) /\ k + 1 \in 0..Len(fs)
    BY DEF Facing
  <2>2. fr[k] # <<>> /\ Behind(fr[k]) = SegmentText(fs[k + 1]) \o fr[k + 1] /\ fr[k + 1] \in Texts
    BY <1>1, <2>1, RouteParts, Zenon
  <2>3. SegmentText(fs[k + 1]) \in Texts
    BY <2>1, SegmentTexts, Zenon DEF Facing
  <2>4. ASSUME k > 0, fs[k].param
        PROVE  SegmentText(fs[k + 1]) # <<>> \/ fr[k + 1] # <<>>
    <3>1. CASE k + 1 < Len(fs)
      BY <2>1, <3>1, RouteParts, Zenon
    <3>2. CASE k + 1 = Len(fs)
      <4>1. Len(fs) > 1 /\ Len(fs) - 1 = k
        BY <2>4, <3>2
      <4> QED
        BY <2>4, <3>2, <4>1, Zenon DEF Facing, TextAtEnd
    <3>3. k + 1 < Len(fs) \/ k + 1 = Len(fs)
      BY <2>1
    <3> QED
      BY <3>1, <3>2, <3>3
  <2>5. PICK g, h : /\ g = SegmentText(fs[k + 1]) /\ h = fr[k + 1] /\ g \in Texts /\ h \in Texts
    BY <2>2, <2>3
  <2>6. g # <<>> \/ h # <<>> => g \o h # <<>>
    BY <2>5, EmptySeq, ConcatProperties DEF Texts
  <2> QED
    BY <2>2, <2>4, <2>5, <2>6, Zenon
<1>4. k < Len(rs) => pr[k] # <<>> /\ Behind(pr[k]) # <<>>
  <2> SUFFICES ASSUME k < Len(rs) PROVE pr[k] # <<>> /\ Behind(pr[k]) # <<>>
    OBVIOUS
  <2>1. k + 1 \in 1..Len(rs) /\ k + 1 \in 0..Len(rs)
    BY DEF Facing
  <2>2. pr[k] # <<>> /\ Behind(pr[k]) = Encode(rs[k + 1]) \o pr[k + 1] /\ pr[k + 1] \in Texts
    BY <1>1, <2>1, PathParts, Zenon
  <2>3. Encode(rs[k + 1]) \in Texts /\ Encode(rs[k + 1]) # <<>>
    BY <2>1, EncodeKeeps, Zenon DEF Facing
  <2> QED
    BY <2>2, <2>3, HeadOf, ZenonT(30)
<1>5. PICK r, l : /\ At(up, L, State(r, l, values)) /\ (r = <<>> <=> fr[k] = <<>>)
                  /\ (l = <<>> <=> pr[k] = <<>>)
  <2>1. /\ k > 0 /\ fs[k].param => (Behind(fr[k]) = <<>> <=> fr[k] = <<>>)
        /\ Behind(pr[k]) = <<>> <=> pr[k] = <<>>
    <3>1. (k = Len(fs) \/ k < Len(fs)) /\ (k = Len(rs) \/ k < Len(rs))
      BY <1>1
    <3> QED
      BY <1>2, <1>3, <1>4, <3>1, Zenon
  <2> QED
    BY <2>1, Zenon DEF AtSegment
<1>6. r = <<>> \/ l = <<>>
  BY <1>2, <1>5
<1>7. up[L] = State(r, l, values)
  BY <1>5, <1>6, AtEnd
<1>8. (r = <<>> /\ l = <<>>) <=> Len(fs) = Len(rs)
  <2>1. /\ k = Len(fs) \/ k < Len(fs)
        /\ k = Len(rs) \/ k < Len(rs)
        /\ k < Len(fs) => k # Len(fs)
        /\ k < Len(rs) => k # Len(rs)
    BY <1>1
  <2> QED
    BY <1>2, <1>3, <1>4, <1>5, <2>1, Zenon
<1>9. up[L].ok = TRUE /\ up[L].route = r /\ up[L].path = l /\ up[L].values = values
  BY <1>7 DEF State
<1> QED
  BY <1>8, <1>9, Zenon DEF Done


LEMMA FirstFound ==
  ASSUME NEW S, NEW s \in Seq(S), NEW c, \E j \in DOMAIN s : s[j] = c
  PROVE  IndexOf(s, c) \in DOMAIN s /\ IndexOf(s, c) # 0 /\ s[IndexOf(s, c)] = c
<1> DEFINE T == { j \in DOMAIN s : s[j] = c }
<1>1. PICK m \in T : \A j \in T : m <= j
  <2>1. T \subseteq Nat /\ T # {}
    OBVIOUS
  <2> HIDE DEF T
  <2> QED
    BY <2>1, LeastNatural
<1>2. m \in 1..Len(s) /\ s[m] = c /\ \A j \in 1..(m - 1) : s[j] # c
  <2>1. ASSUME NEW j \in 1..(m - 1), s[j] = c PROVE FALSE
    <3>1. j \in DOMAIN s /\ ~(m <= j)
      BY <1>1
    <3> QED
      BY <1>1, <2>1, <3>1
  <2> QED
    BY <1>1, <2>1
<1>3. IndexOf(s, c) = m
  BY <1>2, FirstIs
<1> QED
  BY <1>2, <1>3

(* What k segments of a path give arguments: the last for a name counts,    *)
(* and of several arguments of a name the first gets it.                    *)
Into(fs, k, name) == { j \in 1..k : fs[j].param /\ fs[j].text = name }
GivenBy(args, fs, rs, k) ==
  [i \in DOMAIN args |->
     IF Into(fs, k, args[i]) = {} \/ IndexOf(args, args[i]) # i THEN Unset
     ELSE Set(Encode(rs[Max(Into(fs, k, args[i]))]))]

LEMMA GivesNothing ==
  ASSUME NEW fs, NEW rs, NEW args, NEW k \in Nat, fs[k + 1].param = FALSE
  PROVE  GivenBy(args, fs, rs, k + 1) = GivenBy(args, fs, rs, k)
<1>1. \A name : Into(fs, k + 1, name) = Into(fs, k, name)
  <2> SUFFICES ASSUME NEW name PROVE Into(fs, k + 1, name) = Into(fs, k, name)
    OBVIOUS
  <2>1. \A j : j \in 1..(k + 1) <=> j \in 1..k \/ j = k + 1
    OBVIOUS
  <2> QED
    BY <2>1 DEF Into
<1>2. PICK new, old : new = GivenBy(args, fs, rs, k + 1) /\ old = GivenBy(args, fs, rs, k)
  OBVIOUS
<1>3. /\ new = [i \in DOMAIN args |-> new[i]] /\ old = [i \in DOMAIN args |-> old[i]]
      /\ \A i \in DOMAIN args :
           /\ new[i] = IF Into(fs, k + 1, args[i]) = {} \/ IndexOf(args, args[i]) # i THEN Unset
                       ELSE Set(Encode(rs[Max(Into(fs, k + 1, args[i]))]))
           /\ old[i] = IF Into(fs, k, args[i]) = {} \/ IndexOf(args, args[i]) # i THEN Unset
                       ELSE Set(Encode(rs[Max(Into(fs, k, args[i]))]))
  BY <1>2, Zenon DEF GivenBy
<1>4. \A i \in DOMAIN args : new[i] = old[i]
  <2> SUFFICES ASSUME NEW i \in DOMAIN args PROVE new[i] = old[i]
    OBVIOUS
  <2>1. Into(fs, k + 1, args[i]) = Into(fs, k, args[i])
    BY <1>1
  <2> QED
    BY <1>3, <2>1, Zenon
<1>5. new = old
  BY <1>3, <1>4
<1> QED
  BY <1>2, <1>5

LEMMA GivesOne ==
  ASSUME NEW fs, NEW rs, NEW S, NEW args \in Seq(S), NEW k \in Nat, fs[k + 1].param = TRUE,
         NEW p, p = IndexOf(args, fs[k + 1].text), p # 0
  PROVE  GivenBy(args, fs, rs, k + 1) =
           Taking(GivenBy(args, fs, rs, k), p, Encode(rs[k + 1]))
<1>1. PICK t : t = fs[k + 1].text
  OBVIOUS
<1>2. \E j \in DOMAIN args : args[j] = t
  BY <1>1, FirstNone
<1>3. p \in DOMAIN args /\ args[p] = t
  BY <1>1, <1>2, FirstFound
<1>4. \A name : Into(fs, k + 1, name) = Into(fs, k, name) \cup (IF name = t THEN {k + 1} ELSE {})
  <2> SUFFICES ASSUME NEW name
               PROVE  Into(fs, k + 1, name) =
                        Into(fs, k, name) \cup (IF name = t THEN {k + 1} ELSE {})
    OBVIOUS
  <2>1. \A j : j \in 1..(k + 1) <=> j \in 1..k \/ j = k + 1
    OBVIOUS
  <2> QED
    BY <1>1, <2>1 DEF Into
<1>5. Into(fs, k + 1, t) # {} /\ Max(Into(fs, k + 1, t)) = k + 1
  <2>1. Into(fs, k + 1, t) \subseteq 1..(k + 1) /\ k + 1 \in Into(fs, k + 1, t)
    BY <1>4 DEF Into
  <2>2. /\ Max(Into(fs, k + 1, t)) \in Into(fs, k + 1, t)
        /\ k + 1 <= Max(Into(fs, k + 1, t))
    <3>1. k + 1 \in Nat
      OBVIOUS
    <3> QED
      BY <2>1, <3>1, MaxOfPositions
  <2>3. Max(Into(fs, k + 1, t)) \in 1..(k + 1)
    BY <2>1, <2>2
  <2>4. Max(Into(fs, k + 1, t)) = k + 1
    BY <2>2, <2>3
  <2> QED
    BY <2>1, <2>4
<1> DEFINE new == GivenBy(args, fs, rs, k + 1)
           old == GivenBy(args, fs, rs, k)
<1>6. /\ DOMAIN new = DOMAIN args /\ DOMAIN old = DOMAIN args
      /\ new = [i \in DOMAIN args |-> new[i]] /\ old = [i \in DOMAIN args |-> old[i]]
  BY Zenon DEF GivenBy
<1>7. new[p] = Set(Encode(rs[k + 1]))
  <2>1. new[p] = IF Into(fs, k + 1, args[p]) = {} \/ IndexOf(args, args[p]) # p THEN Unset
                 ELSE Set(Encode(rs[Max(Into(fs, k + 1, args[p]))]))
    BY <1>3, Zenon DEF GivenBy
  <2> HIDE DEF new
  <2> QED
    BY <1>1, <1>3, <1>5, <2>1, Zenon
<1>8. ASSUME NEW i \in DOMAIN args, i # p PROVE new[i] = old[i]
  <2>1. /\ new[i] = IF Into(fs, k + 1, args[i]) = {} \/ IndexOf(args, args[i]) # i THEN Unset
                    ELSE Set(Encode(rs[Max(Into(fs, k + 1, args[i]))]))
        /\ old[i] = IF Into(fs, k, args[i]) = {} \/ IndexOf(args, args[i]) # i THEN Unset
                    ELSE Set(Encode(rs[Max(Into(fs, k, args[i]))]))
    BY Zenon DEF GivenBy
  <2> HIDE DEF new, old
  <2>2. CASE args[i] = t
    BY <1>1, <1>8, <2>1, <2>2, Zenon
  <2>3. CASE args[i] # t
    <3>1. Into(fs, k + 1, args[i]) = Into(fs, k, args[i])
      BY <1>4, <2>3
    <3> QED
      BY <2>1, <3>1, Zenon
  <2> QED
    BY <2>2, <2>3
<1> HIDE DEF new, old
<1>9. new = [old EXCEPT ![p] = Set(Encode(rs[k + 1]))]
  BY <1>3, <1>6, <1>7, <1>8
<1> QED
  BY <1>9, Zenon DEF new, old, Taking

(* The segments that are no parameters are what they face.                  *)
Alike(fs, rs, k) == \A i \in 1..k : ~fs[i].param => fs[i].text = rs[i]

Gains(args, fs, rs, k, s, text, p) ==
  /\ ~s.param => GivenBy(args, fs, rs, k + 1) = GivenBy(args, fs, rs, k)
  /\ s.param /\ p # 0 =>
       GivenBy(args, fs, rs, k + 1) = Taking(GivenBy(args, fs, rs, k), p, Encode(text))

LEMMA GivesNext ==
  ASSUME NEW fs, NEW rs, NEW S, NEW args \in Seq(S), NEW k \in Nat, NEW s, s = fs[k + 1],
         s.param \in BOOLEAN, NEW p, p = IndexOf(args, s.text)
  PROVE  Gains(args, fs, rs, k, s, rs[k + 1], p)
<1>1. CASE s.param = TRUE
  <2>1. fs[k + 1].param = TRUE
    BY <1>1
  <2>2. ASSUME p # 0
        PROVE  GivenBy(args, fs, rs, k + 1) =
                 Taking(GivenBy(args, fs, rs, k), p, Encode(rs[k + 1]))
    <3>1. p = IndexOf(args, fs[k + 1].text)
      OBVIOUS
    <3> QED
      BY <2>1, <2>2, <3>1, GivesOne
  <2> QED
    BY <1>1, <2>2, Zenon DEF Gains
<1>2. CASE s.param = FALSE
  <2>1. fs[k + 1].param = FALSE
    BY <1>2
  <2>2. GivenBy(args, fs, rs, k + 1) = GivenBy(args, fs, rs, k)
    BY <2>1, GivesNothing
  <2> QED
    BY <1>2, <2>2, Zenon DEF Gains
<1> QED
  BY <1>1, <1>2

(* A match that is to succeed gets to every segment, with the values the    *)
(* ones before give.                                                        *)
LEMMA MatchWalk ==
  ASSUME NEW e, NEW path, NEW L \in Nat, NEW up, Matched(up, e, path, L),
         L = Len(e.path), NEW S, NEW args \in Seq(S), args = e.args,
         NEW fs, NEW rs, NEW fr, NEW pr, Facing(fs, rs, fr, pr),
         e.path = fr[0], path = pr[0],
         NEW K \in Nat, K <= Len(fs), K <= Len(rs),
         \/ Done(up, L)
         \/ /\ Alike(fs, rs, K)
            /\ \A i \in 1..K : fs[i].param => IndexOf(args, fs[i].text) # 0
  PROVE  /\ AtSegment(up, L, fs, fr, pr, K, GivenBy(args, fs, rs, K))
         /\ Alike(fs, rs, K)
<1> DEFINE T == { k \in 0..K : /\ AtSegment(up, L, fs, fr, pr, k, GivenBy(args, fs, rs, k))
                               /\ Alike(fs, rs, k) }
<1>1. 0 \in T
  <2>1. GivenBy(args, fs, rs, 0) = [i \in DOMAIN args |-> Unset]
    <3>1. \A name : Into(fs, 0, name) = {}
      BY DEF Into
    <3> QED
      BY <3>1, Zenon DEF GivenBy
  <2>2. up[0] = State(fr[0], pr[0], GivenBy(args, fs, rs, 0))
    BY <2>1, Zenon DEF Matched, Unmatched, State
  <2>3. PICK m : m = State(fr[0], pr[0], GivenBy(args, fs, rs, 0))
    OBVIOUS
  <2>4. m.route = fr[0]
    BY <2>3 DEF State
  <2>5. 0 \in 0..L /\ 0 + Len(m.route) <= L
    BY <2>4
  <2>6. At(up, L, m)
    BY <2>2, <2>3, <2>5, Zenon DEF At
  <2>7. Alike(fs, rs, 0)
    BY DEF Alike
  <2>8. AtSegment(up, L, fs, fr, pr, 0, GivenBy(args, fs, rs, 0))
    BY <2>3, <2>6, Zenon DEF AtSegment
  <2> QED
    BY <2>7, <2>8
<1>2. ASSUME NEW k \in 0..(K - 1), k \in T PROVE k + 1 \in T
  <2>1. k \in Nat /\ k + 1 \in 1..K /\ k + 1 \in 0..K
    OBVIOUS
  <2>2. k < Len(fs) /\ k < Len(rs) /\ k + 1 \in 1..Len(fs)
    <3>1. Len(fs) \in Nat /\ Len(rs) \in Nat
      BY DEF Facing
    <3> QED
      BY <3>1
  <2>3. PICK old : /\ old = GivenBy(args, fs, rs, k)
                   /\ AtSegment(up, L, fs, fr, pr, k, old) /\ Alike(fs, rs, k)
    BY <1>2
  <2> HIDE DEF T
  <2>4. PICK s, p : s = fs[k + 1] /\ p = IndexOf(e.args, s.text)
    OBVIOUS
  <2>5. s.param \in BOOLEAN
    BY <2>2, <2>4, Zenon DEF Facing, Stated
  <2>6. Passes(up, L, fs, fr, pr, k, old, s, rs[k + 1], p)
    BY <2>1, <2>2, <2>3, <2>4, SegmentStep
  <2>7. Gains(args, fs, rs, k, s, rs[k + 1], p)
    BY <2>1, <2>4, <2>5, GivesNext
  <2>8. Done(up, L) \/ ((~s.param => s.text = rs[k + 1]) /\ (s.param => p # 0))
    BY <2>1, <2>4, Zenon DEF Alike
  <2>9. (~s.param => s.text = rs[k + 1]) /\ (s.param => p # 0)
    BY <2>6, <2>8, Zenon DEF Passes
  <2>10. AtSegment(up, L, fs, fr, pr, k + 1, GivenBy(args, fs, rs, k + 1))
    BY <2>3, <2>5, <2>6, <2>7, <2>9, Zenon DEF Passes, Gains
  <2>11. Alike(fs, rs, k + 1)
    <3>1. \A j : j \in 1..(k + 1) <=> j \in 1..k \/ j = k + 1
      BY <2>1
    <3> QED
      BY <2>3, <2>4, <2>9, <3>1 DEF Alike
  <2> QED
    BY <2>1, <2>10, <2>11 DEF T
<1>3. 0..K \subseteq T
  <2> HIDE DEF T
  <2> QED
    BY <1>1, <1>2, IntervalInduction
<1>4. K \in 0..K
  OBVIOUS
<1> QED
  BY <1>3, <1>4


(* A path matches a route exactly when their segments do; the values are    *)
(* those the path has for the route's parameters.                           *)
Facts(fs, rs) ==
  /\ Len(fs) \in Nat /\ TextAtEnd(fs) /\ \A i \in 1..Len(fs) : Stated(fs[i])
  /\ Len(rs) \in Nat /\ \A i \in 1..Len(rs) : rs[i] \in Texts /\ rs[i] # <<>> /\ Unmarked(rs[i])
RouteOf(fs) == FlattenSeq([i \in 1..Len(fs) |-> << "/" >> \o SegmentText(fs[i])])
PathOf(rs)  == FlattenSeq([i \in 1..Len(rs) |-> << "/" >> \o Encode(rs[i])])

LEMMA FacingThere ==
  ASSUME NEW fs, NEW rs, Facts(fs, rs)
  PROVE  \E fr, pr : /\ Facing(fs, rs, fr, pr) /\ fr[0] \in Texts
                     /\ fr[0] = RouteOf(fs) /\ pr[0] = PathOf(rs)
<1>1. PICK K \in Nat : K = Len(fs)
  BY DEF Facts
<1>2. PICK N \in Nat : N = Len(rs)
  BY DEF Facts
<1>3. PICK ft : ft = RouteTexts(fs)
  OBVIOUS
<1>4. \A i \in 1..K : ft[i] = SegmentText(fs[i]) /\ ft[i] \in Texts
  <2>1. \A i \in 1..K : ft[i] = SegmentText(fs[i])
    BY <1>1, <1>3 DEF RouteTexts
  <2>2. \A i \in 1..K : SegmentText(fs[i]) \in Texts
    BY <1>1, SegmentTexts DEF Facts
  <2> QED
    BY <2>1, <2>2
<1>5. PICK pt : pt = PathTexts(rs)
  OBVIOUS
<1>6. \A i \in 1..N : pt[i] = Encode(rs[i]) /\ pt[i] \in Texts
  <2>1. \A i \in 1..N : pt[i] = Encode(rs[i])
    BY <1>2, <1>5 DEF PathTexts
  <2>2. \A i \in 1..N : Encode(rs[i]) \in Texts
    BY <1>2, EncodeChars DEF Facts
  <2> QED
    BY <2>1, <2>2
<1>7. PICK fr : SlashedFrom(fr, ft, K)
  BY <1>4, SlashesGoOn
<1>8. PICK pr : SlashedFrom(pr, pt, N)
  BY <1>6, SlashesGoOn
<1>9. Facing(fs, rs, fr, pr)
  BY <1>1, <1>2, <1>3, <1>5, <1>7, <1>8, Zenon DEF Facing, Facts
<1>10. fr[0] \in Texts /\ fr[0] = RouteOf(fs)
  <2>1. [i \in 1..K |-> << "/" >> \o ft[i]] = [i \in 1..K |-> << "/" >> \o SegmentText(fs[i])]
    BY <1>4
  <2>2. fr[0] = FlattenSeq([i \in 1..K |-> << "/" >> \o ft[i]])
    BY <1>7 DEF SlashedFrom
  <2>3. 0 \in 0..K
    OBVIOUS
  <2> QED
    BY <1>1, <1>7, <2>1, <2>2, <2>3, Zenon DEF RouteOf, SlashedFrom
<1>11. pr[0] = PathOf(rs)
  <2>1. [i \in 1..N |-> << "/" >> \o pt[i]] = [i \in 1..N |-> << "/" >> \o Encode(rs[i])]
    BY <1>6
  <2>2. pr[0] = FlattenSeq([i \in 1..N |-> << "/" >> \o pt[i]])
    BY <1>8 DEF SlashedFrom
  <2> QED
    BY <1>2, <2>1, <2>2, Zenon DEF PathOf
<1> QED
  BY <1>9, <1>10, <1>11, Zenon

Agree(fs, rs) == Len(fs) = Len(rs) /\ Alike(fs, rs, Len(fs))
Known(fs, args) == \A i \in 1..Len(fs) : fs[i].param => IndexOf(args, fs[i].text) # 0

LEMMA RouteMatches ==
  ASSUME NEW fs, NEW rs, Facts(fs, rs), NEW e, NEW path,
         e.path = RouteOf(fs), path = PathOf(rs), NEW S, NEW args \in Seq(S), args = e.args
  PROVE  /\ PathMatch(e, path).ok => Agree(fs, rs)
         /\ Agree(fs, rs) /\ Known(fs, args) =>
              PathMatch(e, path).ok /\ PathMatch(e, path).values = GivenBy(args, fs, rs, Len(fs))
<1>1. PICK fr, pr : /\ Facing(fs, rs, fr, pr) /\ fr[0] \in Texts
                    /\ fr[0] = RouteOf(fs) /\ pr[0] = PathOf(rs)
  BY FacingThere
<1>2. PICK K \in Nat : K = Len(fs)
  BY DEF Facts
<1>3. PICK N \in Nat : N = Len(rs)
  BY DEF Facts
<1>4. PICK L \in Nat : L = Len(e.path)
  BY <1>1 DEF Texts
<1>5. PICK up : /\ Matched(up, e, path, L)
                /\ PathMatch(e, path) =
                     [ok |-> up[L].ok /\ up[L].route = <<>> /\ up[L].path = <<>>,
                      values |-> up[L].values]
  BY <1>4, MatchRuns
<1>6. /\ PathMatch(e, path).ok <=> Done(up, L)
      /\ PathMatch(e, path).values = up[L].values
  <2>1. PICK w : w = PathMatch(e, path)
    OBVIOUS
  <2>2. w = [ok |-> Done(up, L), values |-> up[L].values]
    BY <1>5, <2>1, Zenon DEF Done
  <2>3. (w.ok <=> Done(up, L)) /\ w.values = up[L].values
    BY <2>2
  <2> QED
    BY <2>1, <2>3
<1>7. PICK M \in Nat : /\ M <= K /\ M <= N /\ (M = K \/ M = N) /\ (K = N => M = K)
  <2>1. K <= N \/ N <= K
    OBVIOUS
  <2> QED
    BY <2>1, SMTT(30)
<1>8. PICK given1 : given1 = GivenBy(args, fs, rs, M)
  OBVIOUS
<1>9. ASSUME Done(up, L) \/ (Agree(fs, rs) /\ Known(fs, args))
      PROVE  AtSegment(up, L, fs, fr, pr, M, given1) /\ Alike(fs, rs, M)
  <2>1. \/ Done(up, L)
        \/ /\ Alike(fs, rs, M)
           /\ \A i \in 1..M : fs[i].param => IndexOf(args, fs[i].text) # 0
    BY <1>2, <1>3, <1>7, <1>9 DEF Agree, Known, Alike
  <2>2. M <= Len(fs) /\ M <= Len(rs) /\ e.path = fr[0] /\ path = pr[0]
    BY <1>1, <1>2, <1>3, <1>7
  <2>3. AtSegment(up, L, fs, fr, pr, M, GivenBy(args, fs, rs, M)) /\ Alike(fs, rs, M)
    BY <1>1, <1>4, <1>5, <2>1, <2>2, MatchWalk
  <2> QED
    BY <1>8, <2>3
<1>10. ASSUME AtSegment(up, L, fs, fr, pr, M, given1)
       PROVE  /\ Len(fs) = Len(rs) => Done(up, L) /\ up[L].values = given1
              /\ Len(fs) # Len(rs) => ~Done(up, L)
  <2>1. M <= Len(fs) /\ M <= Len(rs) /\ (M = Len(fs) \/ M = Len(rs))
    BY <1>2, <1>3, <1>7
  <2>2. IF Len(fs) = Len(rs) THEN Done(up, L) /\ up[L].values = given1 ELSE ~Done(up, L)
    BY <1>1, <1>5, <1>10, <2>1, SegmentEnd
  <2> QED
    BY <2>2, Zenon
<1>11. Done(up, L) => Agree(fs, rs)
  <2>1. ASSUME Done(up, L) PROVE Len(fs) = Len(rs) /\ Alike(fs, rs, M)
    BY <1>9, <1>10, <2>1, Zenon
  <2> QED
    BY <1>2, <1>3, <1>7, <2>1, Zenon DEF Agree
<1>12. Agree(fs, rs) /\ Known(fs, args) =>
         Done(up, L) /\ up[L].values = GivenBy(args, fs, rs, Len(fs))
  <2>1. ASSUME Agree(fs, rs), Known(fs, args)
        PROVE  Done(up, L) /\ up[L].values = given1 /\ M = Len(fs)
    <3>1. Len(fs) = Len(rs)
      BY <2>1 DEF Agree
    <3>2. M = Len(fs)
      BY <1>2, <1>3, <1>7, <3>1
    <3> QED
      BY <1>9, <1>10, <2>1, <3>1, <3>2, Zenon
  <2> QED
    BY <1>8, <2>1, Zenon
<1> QED
  BY <1>6, <1>11, <1>12, Zenon


-----------------------------------------------------------------------------
(* Functions and requests as they are said, and as they are text            *)
Fn ==
  [type : STRING, name : Seq(STRING),
   args : Seq([name : Seq(STRING), mode : { "in", "out" }]),
   segments : Seq([param : BOOLEAN, text : Seq(STRING)])]

LEMMA OfStrings ==
  ASSUME NEW t \in Seq(STRING)
  PROVE  t \in Texts
<1>1. STRING \subseteq Characters
  BY DEF Characters
<1>2. PICK S, T : S = STRING /\ T = Characters /\ S \subseteq T
  BY <1>1
<1>3. t \in Seq(S)
  BY <1>2
<1>4. t \in Seq(T)
  BY <1>2, <1>3, Larger
<1> QED
  BY <1>2, <1>4 DEF Texts

LEMMA LacksIt ==
  ASSUME NEW t \in Texts, NEW c, c \notin ToSet(t)
  PROVE  Lacks(t, c)
BY DEF Lacks, ToSet

LEMMA SegmentSaid ==
  ASSUME NEW s, s.param \in BOOLEAN, s.text \in Texts,
         ToSet(s.text) \cap (IF s.param THEN { "/" } ELSE Escapes \cup { ":" }) = {}
  PROVE  /\ Stated(s) /\ Segment(s) = << "/" >> \o SegmentText(s)
         /\ Segment(s) # << "/" >> => SegmentText(s) # <<>>
<1>1. PICK t \in Texts : t = s.text
  OBVIOUS
<1>2. PICK c \in Characters : c = "/" /\ << c >> \in Texts
  BY DEF Characters, Texts
<1>3. PICK d \in Characters : d = ":" /\ << d >> \in Texts
  BY DEF Characters, Texts
<1>4. Lacks(t, "/")
  <2>1. "/" \in Escapes
    BY EscapesInclude
  <2>2. "/" \notin ToSet(t)
    BY <1>1, <2>1
  <2> QED
    BY <2>2, LacksIt
<1>5. ~s.param => Lacks(t, ":") /\ PlainText(t)
  <2> SUFFICES ASSUME ~s.param PROVE Lacks(t, ":") /\ PlainText(t)
    OBVIOUS
  <2>1. ToSet(t) \cap (Escapes \cup { ":" }) = {}
    BY <1>1
  <2>2. Lacks(t, ":")
    BY <2>1, LacksIt
  <2>3. PlainText(t)
    <3>1. \A i \in 1..Len(t) : t[i] \in ToSet(t)
      BY DEF ToSet, Texts
    <3> QED
      BY <2>1, <3>1 DEF PlainText
  <2> QED
    BY <2>2, <2>3
<1>6. Segment(s) = << "/" >> \o SegmentText(s)
  <2>1. CASE s.param
    <3>1. Segment(s) = (<< c >> \o << d >>) \o t /\ SegmentText(s) = << d >> \o t
      BY <1>1, <1>2, <1>3, <2>1, Zenon DEF Segment, SegmentText
    <3>2. PICK g \in Texts, h \in Texts : g = << c >> /\ h = << d >>
      BY <1>2, <1>3
    <3>3. (g \o h) \o t = g \o (h \o t)
      BY TextsAssociate
    <3> QED
      BY <1>2, <3>1, <3>2, <3>3
  <2>2. CASE ~s.param
    <3>1. Segment(s) = (<< c >> \o <<>>) \o t /\ SegmentText(s) = t
      BY <1>1, <1>2, <2>2, Zenon DEF Segment, SegmentText
    <3>2. << c >> \o <<>> = << c >>
      BY <1>2, ConcatEmptySeq DEF Texts
    <3> QED
      BY <1>2, <3>1, <3>2
  <2> QED
    BY <2>1, <2>2
<1>7. SegmentText(s) = <<>> => Segment(s) = << "/" >>
  <2>1. << c >> \o <<>> = << c >>
    BY <1>2, ConcatEmptySeq DEF Texts
  <2> QED
    BY <1>2, <1>6, <2>1
<1> QED
  BY <1>1, <1>4, <1>5, <1>6, <1>7, Zenon DEF Stated

LEMMA NameSays ==
  ASSUME NEW f \in Fn, Spells(f), EndsInText(f), NEW fs, fs = f.segments
  PROVE  /\ Len(fs) \in Nat /\ DOMAIN fs = 1..Len(fs)
         /\ TextAtEnd(fs) /\ \A i \in 1..Len(fs) : Stated(fs[i])
         /\ f.name[1] = Head(f.name) /\ Tail(f.name) = RouteOf(fs)
<1>1. PICK S : S = [param : BOOLEAN, text : Seq(STRING)]
  OBVIOUS
<1>2. fs \in Seq(S)
  BY <1>1 DEF Fn
<1>3. PICK K \in Nat : K = Len(fs) /\ DOMAIN fs = 1..K
  BY <1>2
<1>4. ASSUME NEW i \in 1..K
      PROVE  /\ Stated(fs[i]) /\ Segment(fs[i]) = << "/" >> \o SegmentText(fs[i])
             /\ Segment(fs[i]) # << "/" >> => SegmentText(fs[i]) # <<>>
  <2>1. PICK s : s = fs[i] /\ s \in S /\ s \in ToSet(fs)
    BY <1>2, <1>3 DEF ToSet
  <2>2. s.param \in BOOLEAN /\ s.text \in Seq(STRING)
    BY <1>1, <2>1
  <2>3. s.text \in Texts
    BY <2>2, OfStrings
  <2>4. ToSet(s.text) \cap (IF s.param THEN { "/" } ELSE Escapes \cup { ":" }) = {}
    BY <2>1 DEF Spells
  <2> QED
    BY <2>1, <2>2, <2>3, <2>4, SegmentSaid
<1>5. TextAtEnd(fs)
  <2> SUFFICES ASSUME K > 1, fs[K - 1].param PROVE SegmentText(fs[K]) # <<>>
    BY <1>3 DEF TextAtEnd
  <2>1. Segment(fs[K]) # << "/" >>
    BY <1>3 DEF EndsInText
  <2>2. K \in 1..K
    OBVIOUS
  <2> QED
    BY <1>4, <2>1, <2>2
<1>6. f.name = << f.name[1] >> \o RouteOf(fs)
  <2>1. [i \in DOMAIN fs |-> Segment(fs[i])] = [i \in 1..K |-> << "/" >> \o SegmentText(fs[i])]
    BY <1>3, <1>4
  <2>2. f.name = << f.name[1] >> \o FlattenSeq([i \in DOMAIN fs |-> Segment(fs[i])])
    BY DEF Spells
  <2> QED
    BY <1>3, <2>1, <2>2, Zenon DEF RouteOf
<1>7. RouteOf(fs) \in Texts
  <2>1. PICK ft : ft = [i \in 1..K |-> SegmentText(fs[i])]
    OBVIOUS
  <2>2. \A i \in 1..K : ft[i] = SegmentText(fs[i]) /\ ft[i] \in Texts
    BY <1>4, <2>1, SegmentTexts
  <2>3. PICK fr : SlashedFrom(fr, ft, K)
    BY <2>2, SlashesGoOn
  <2>4. [i \in 1..K |-> << "/" >> \o ft[i]] = [i \in 1..K |-> << "/" >> \o SegmentText(fs[i])]
    BY <2>2
  <2>5. fr[0] \in Texts /\ fr[0] = FlattenSeq([i \in 1..K |-> << "/" >> \o ft[i]])
    BY <2>3 DEF SlashedFrom
  <2> QED
    BY <1>3, <2>4, <2>5, Zenon DEF RouteOf
<1>8. PICK T, c, r : /\ T = Characters \cup { f.name[1] } /\ c = f.name[1] /\ r = RouteOf(fs)
                     /\ c \in T /\ r \in Seq(T)
  <2>1. PICK T : T = Characters \cup { f.name[1] } /\ Characters \subseteq T
    OBVIOUS
  <2>2. RouteOf(fs) \in Seq(T)
    BY <1>7, <2>1, Larger DEF Texts
  <2> QED
    BY <2>1, <2>2
<1>9. Tail(<< c >> \o r) = r /\ Head(<< c >> \o r) = c
  BY <1>8, TailOfFirst
<1> QED
  BY <1>3, <1>4, <1>5, <1>6, <1>8, <1>9


LEMMA PathSays ==
  ASSUME NEW r \in Request, Ordinary(r), NEW rs, rs = r.segments
  PROVE  /\ Len(rs) \in Nat /\ DOMAIN rs = 1..Len(rs) /\ Len(rs) > 0
         /\ \A i \in 1..Len(rs) :
              /\ rs[i] \in Texts /\ rs[i] # <<>> /\ Unmarked(rs[i])
              /\ ToSet(rs[i]) \cap (Refused \ Escapes) = {}
         /\ Printed(r).path = PathOf(rs)
<1>1. PICK S : S = Seq(STRING)
  OBVIOUS
<1>2. rs \in Seq(S)
  BY <1>1 DEF Request
<1>3. PICK N \in Nat : N = Len(rs) /\ DOMAIN rs = 1..N
  BY <1>2
<1>4. N > 0
  <2>1. rs # <<>>
    BY DEF Ordinary
  <2> QED
    BY <1>2, <1>3, <2>1, EmptySeq
<1>5. ASSUME NEW i \in 1..N
      PROVE  /\ rs[i] \in Texts /\ rs[i] # <<>> /\ Unmarked(rs[i])
             /\ ToSet(rs[i]) \cap (Refused \ Escapes) = {}
  <2>1. rs[i] \in ToSet(rs) /\ rs[i] \in S
    BY <1>2, <1>3 DEF ToSet
  <2>2. rs[i] \in Texts
    BY <1>1, <2>1, OfStrings
  <2>3. rs[i] # <<>> /\ ":" \notin ToSet(rs[i]) \ Escapes
        /\ ToSet(rs[i]) \cap (Refused \ Escapes) = {}
    BY <2>1 DEF Ordinary
  <2> QED
    BY <2>2, <2>3 DEF Unmarked
<1>6. Printed(r).path = PathOf(rs)
  <2>1. Printed(r).path = FlattenSeq([i \in DOMAIN rs |-> << "/" >> \o Encode(rs[i])])
    BY DEF Printed
  <2> QED
    BY <1>3, <2>1, Zenon DEF PathOf
<1> QED
  BY <1>3, <1>4, <1>5, <1>6

LEMMA FlattenHead ==
  ASSUME NEW X, NEW seqs \in Seq(Seq(X)), NEW ins \in Seq(X), NEW L \in Nat, NEW m \in Nat,
         L = Len(seqs), m = Len(ins), m <= L,
         \A i \in 1..m : seqs[i] = << ins[i] >>, \A i \in (m + 1)..L : seqs[i] = <<>>
  PROVE  FlattenSeq(seqs) = ins
<1>1. PICK from : GoesOn(from, seqs, X, L)
  BY FlattenFrom
<1>2. /\ from[L] = <<>> /\ from[0] = FlattenSeq(seqs)
      /\ \A k \in 0..L : from[k] \in Seq(X)
      /\ \A k \in 1..L : from[k - 1] = seqs[k] \o from[k]
  BY <1>1 DEF GoesOn
<1> DEFINE S == { k \in 0..(L - m) : from[L - k] = <<>> }
<1>3. 0 \in S
  BY <1>2
<1>4. ASSUME NEW k \in 0..((L - m) - 1), k \in S PROVE k + 1 \in S
  <2>1. L - k \in 1..L /\ L - k \in (m + 1)..L /\ (L - k) - 1 = L - (k + 1) /\ k + 1 \in 0..(L - m)
    OBVIOUS
  <2>2. from[L - (k + 1)] = seqs[L - k] \o from[L - k]
    BY <1>2, <2>1
  <2>3. from[L - (k + 1)] = <<>> \o <<>>
    BY <1>4, <2>1, <2>2
  <2> QED
    BY <2>1, <2>3
<1>5. 0..(L - m) \subseteq S
  <2>1. L - m \in Nat
    OBVIOUS
  <2> HIDE DEF S
  <2> QED
    BY <1>3, <1>4, <2>1, IntervalInduction
<1>6. from[m] = <<>>
  <2>1. L - m \in 0..(L - m) /\ L - (L - m) = m
    OBVIOUS
  <2> QED
    BY <1>5, <2>1
<1>7. /\ Rest(ins, m) = <<>>
      /\ \A j \in 0..(m - 1) : Rest(ins, j) = << ins[j + 1] >> \o Rest(ins, j + 1)
      /\ ins = Rest(ins, 0)
  <2>1. /\ Rest(ins, Len(ins)) = <<>>
        /\ \A j \in 0..(Len(ins) - 1) : Rest(ins, j) = << ins[j + 1] >> \o Rest(ins, j + 1)
    BY RestIs, Zenon
  <2>2. ins = Rest(ins, 0)
    BY DEF Rest
  <2> QED
    BY <2>1, <2>2
<1> DEFINE T == { k \in 0..m : from[m - k] = Rest(ins, m - k) }
<1>8. 0 \in T
  BY <1>6, <1>7
<1>9. ASSUME NEW k \in 0..(m - 1), k \in T PROVE k + 1 \in T
  <2>1. m - k \in 1..L /\ m - k \in 1..m /\ (m - k) - 1 = m - (k + 1) /\ k + 1 \in 0..m
        /\ m - (k + 1) \in 0..(m - 1) /\ (m - (k + 1)) + 1 = m - k
    OBVIOUS
  <2>2. from[m - (k + 1)] = << ins[m - k] >> \o from[m - k]
    BY <1>2, <2>1
  <2>3. Rest(ins, m - (k + 1)) = << ins[m - k] >> \o Rest(ins, m - k)
    BY <1>7, <2>1
  <2> QED
    BY <1>9, <2>1, <2>2, <2>3
<1>10. 0..m \subseteq T
  <2> HIDE DEF T
  <2> QED
    BY <1>8, <1>9, IntervalInduction
<1>11. from[0] = Rest(ins, 0)
  <2>1. m \in 0..m /\ m - m = 0
    OBVIOUS
  <2> QED
    BY <1>10, <2>1
<1> QED
  BY <1>2, <1>7, <1>11

(* The names of a well declared function's arguments are those of its       *)
(* inputs.                                                                  *)
LEMMA InputsFirst ==
  ASSUME NEW f \in Fn, WellDeclared(f)
  PROVE  \E m \in Nat :
           /\ InputsOf(f) = SubSeq(f.args, 1, m) /\ DOMAIN InputsOf(f) = 1..m /\ m <= Len(f.args)
           /\ \A i \in 1..m :
                /\ InputsOf(f)[i] = f.args[i] /\ f.args[i].mode # "out"
                /\ f.args[i].name \in Seq(STRING)
<1>1. PICK X : X = [name : Seq(STRING), mode : { "in", "out" }]
  OBVIOUS
<1>2. PICK args : args = f.args /\ args \in Seq(X)
  BY <1>1 DEF Fn
<1>3. PICK L \in Nat : L = Len(args) /\ DOMAIN args = 1..L
  BY <1>2
<1>4. \A i \in 1..L : args[i].mode # "out" => \A j \in 1..(i - 1) : args[j].mode # "out"
  BY <1>2, <1>3 DEF WellDeclared
<1>5. PICK m \in 0..L : /\ \A i \in 1..m : args[i].mode # "out"
                        /\ \A i \in (m + 1)..L : args[i].mode = "out"
  <2> DEFINE outs == { i \in 1..L : args[i].mode = "out" }
  <2>1. CASE outs = {}
    <3>1. \A i \in 1..L : args[i].mode # "out"
      BY <2>1
    <3>2. L \in 0..L /\ (L + 1)..L = {}
      OBVIOUS
    <3> QED
      BY <3>1, <3>2
  <2>2. CASE outs # {}
    <3>1. PICK n \in outs : \A k \in outs : n <= k
      <4>1. outs \subseteq Nat
        OBVIOUS
      <4> HIDE DEF outs
      <4> QED
        BY <2>2, <4>1, LeastNatural
    <3>2. n - 1 \in 0..L /\ n \in 1..L /\ args[n].mode = "out"
      BY <3>1
    <3>3. \A i \in 1..(n - 1) : args[i].mode # "out"
      BY <3>1, <3>2
    <3>4. \A i \in ((n - 1) + 1)..L : args[i].mode = "out"
      <4> SUFFICES ASSUME NEW i \in n..L, args[i].mode # "out" PROVE FALSE
        BY <3>2
      <4>1. i \in 1..L /\ (n \in 1..(i - 1) \/ n = i)
        BY <3>2
      <4> QED
        BY <1>4, <3>2, <4>1
    <3> QED
      BY <3>2, <3>3, <3>4
  <2> QED
    BY <2>1, <2>2
<1>6. PICK ins \in Seq(X) : /\ ins = SubSeq(args, 1, m) /\ Len(ins) = m
                            /\ \A i \in 1..m : ins[i] = args[i]
  <2>1. \A k \in 0..Len(args) : SubSeq(args, 1, k) \in Seq(X)
    BY <1>2, RestIs, Zenon
  <2>2. SubSeq(args, 1, m) \in Seq(X)
    BY <1>3, <2>1
  <2>3. SubSeq(args, 1, m) = [i \in 1..m |-> args[i]]
    BY <1>2, <1>3
  <2>4. PICK ins \in Seq(X) : ins = SubSeq(args, 1, m) /\ ins = [i \in 1..m |-> args[i]]
    BY <2>2, <2>3
  <2>5. Len(ins) = m /\ \A i \in 1..m : ins[i] = args[i]
    BY <2>4
  <2> QED
    BY <2>4, <2>5
<1>7. PICK seqs : seqs = [i \in 1..L |-> IF args[i].mode = "out" THEN <<>> ELSE << args[i] >>]
  OBVIOUS
<1>8. seqs \in Seq(Seq(X)) /\ Len(seqs) = L
  <2>1. \A i \in 1..L : args[i] \in X
    BY <1>2, <1>3
  <2>2. \A i \in 1..L : << args[i] >> \in Seq(X) /\ <<>> \in Seq(X)
    BY <2>1
  <2>3. PICK Y : Y = Seq(X)
    OBVIOUS
  <2>4. seqs \in [1..L -> Y]
    BY <1>7, <2>2, <2>3
  <2>5. seqs \in Seq(Y) /\ Len(seqs) = L
    BY <2>4
  <2> QED
    BY <2>3, <2>5
<1>9. FlattenSeq(seqs) = ins
  <2>1. \A i \in 1..m : seqs[i] = << ins[i] >>
    BY <1>5, <1>6, <1>7
  <2>2. \A i \in (m + 1)..L : seqs[i] = <<>>
    BY <1>5, <1>7
  <2>3. m \in Nat /\ m <= L
    OBVIOUS
  <2> QED
    BY <1>6, <1>8, <2>1, <2>2, <2>3, FlattenHead
<1>10. InputsOf(f) = ins
  <2>1. InputsOf(f) =
          FlattenSeq([i \in DOMAIN args |-> IF args[i].mode = "out" THEN <<>> ELSE << args[i] >>])
    BY <1>2, Zenon DEF InputsOf
  <2> QED
    BY <1>3, <1>7, <1>9, <2>1, Zenon
<1>11. \A i \in 1..m : args[i].name \in Seq(STRING)
  <2>1. \A i \in 1..m : args[i] \in X
    BY <1>2, <1>3
  <2> QED
    BY <1>1, <2>1
<1>12. m \in Nat /\ m <= L /\ DOMAIN ins = 1..m
  BY <1>6
<1> QED
  BY <1>2, <1>3, <1>5, <1>6, <1>10, <1>11, <1>12, ZenonT(30)


LEMMA ReadAs ==
  ASSUME NEW f \in Fn, NEW e, e = ReadEndpoint(f)
  PROVE  /\ e.args = ArgNames(f)
         /\ f.type \in Types /\ CharAt(f.name, 1) \in Methods =>
              e.name = f.name /\ e.path = Tail(f.name)
         /\ ~(f.type \in Types /\ CharAt(f.name, 1) \in Methods) => e.path = <<>>
<1>1. PICK t, a : t = Tail(f.name) /\ a = ArgNames(f)
  OBVIOUS
<1>2. CASE f.type \in Types /\ CharAt(f.name, 1) \in Methods
  <2>1. e = [name |-> f.name, path |-> t, args |-> a]
    BY <1>1, <1>2, Zenon DEF ReadEndpoint, Route
  <2> QED
    BY <1>1, <1>2, <2>1
<1>3. CASE ~(f.type \in Types /\ CharAt(f.name, 1) \in Methods)
  <2>1. e = [name |-> <<>>, path |-> <<>>, args |-> a]
    BY <1>1, <1>3, Zenon DEF ReadEndpoint, Route
  <2> QED
    BY <1>1, <1>3, <2>1
<1> QED
  BY <1>2, <1>3

LEMMA ArgNamesType ==
  ASSUME NEW f \in Fn
  PROVE  \E S : ArgNames(f) \in Seq(S)
<1>1. PICK X : X = [name : Seq(STRING), mode : { "in", "out" }]
  OBVIOUS
<1>2. PICK args : args = f.args /\ args \in Seq(X)
  BY <1>1 DEF Fn
<1>3. PICK seqs : seqs = [i \in DOMAIN args |->
                            IF args[i].mode = "out" THEN <<>> ELSE << args[i] >>]
  OBVIOUS
<1>4. seqs \in Seq(Seq(X))
  <2>1. PICK L \in Nat : L = Len(args) /\ DOMAIN args = 1..L
    BY <1>2
  <2>2. \A i \in 1..L : args[i] \in X
    BY <1>2, <2>1
  <2>3. \A i \in 1..L : << args[i] >> \in Seq(X) /\ <<>> \in Seq(X)
    BY <2>2
  <2>4. PICK Y : Y = Seq(X)
    OBVIOUS
  <2>5. seqs \in [1..L -> Y]
    BY <1>3, <2>1, <2>3, <2>4
  <2> QED
    BY <2>4, <2>5
<1>5. InputsOf(f) \in Seq(X)
  <2>1. InputsOf(f) = FlattenSeq(seqs)
    BY <1>2, <1>3, Zenon DEF InputsOf
  <2> QED
    BY <1>4, <2>1, FlattenType
<1>6. PICK m \in Nat : DOMAIN InputsOf(f) = 1..m
  BY <1>5
<1>7. ArgNames(f) = [i \in 1..m |-> args[i].name]
  BY <1>2, <1>6, Zenon DEF ArgNames
<1>8. PICK S : S = { args[i].name : i \in 1..m }
  OBVIOUS
<1>9. \A i \in 1..m : args[i].name \in S
  BY <1>8
<1>10. ArgNames(f) \in [1..m -> S]
  BY <1>7, <1>9
<1>11. ArgNames(f) \in Seq(S)
  BY <1>10
<1> QED
  BY <1>11

LEMMA SaidFacts ==
  ASSUME NEW f \in Fn, Spells(f), EndsInText(f), NEW r \in Request, Ordinary(r)
  PROVE  /\ Facts(f.segments, r.segments)
         /\ Fits(f, r) <=> Agree(f.segments, r.segments)
<1>1. PICK fs, rs : fs = f.segments /\ rs = r.segments
  OBVIOUS
<1>2. /\ Len(fs) \in Nat /\ DOMAIN fs = 1..Len(fs) /\ TextAtEnd(fs)
      /\ \A i \in 1..Len(fs) : Stated(fs[i])
  BY <1>1, NameSays
<1>3. /\ Len(rs) \in Nat
      /\ \A i \in 1..Len(rs) : rs[i] \in Texts /\ rs[i] # <<>> /\ Unmarked(rs[i])
  BY <1>1, PathSays
<1>4. Facts(fs, rs)
  BY <1>2, <1>3, Zenon DEF Facts
<1>5. Fits(f, r) <=> Agree(fs, rs)
  BY <1>1, <1>2, Zenon DEF Fits, Agree, Alike
<1> QED
  BY <1>1, <1>4, <1>5

(* A function's route is found by the requests it fits, and gets from their *)
(* paths what its parameters say.                                           *)
LEMMA FitsMatches ==
  ASSUME NEW f \in Fn, Spells(f), EndsInText(f), NEW r \in Request, Ordinary(r),
         NEW e, e = ReadEndpoint(f)
  PROVE  /\ PathMatch(e, Printed(r).path).ok => Fits(f, r)
         /\ WellDeclared(f) /\ Fits(f, r) =>
              /\ PathMatch(e, Printed(r).path).ok
              /\ PathMatch(e, Printed(r).path).values =
                   GivenBy(ArgNames(f), f.segments, r.segments, Len(f.segments))
<1>1. PICK fs, rs, args, path :
        /\ fs = f.segments /\ rs = r.segments /\ args = ArgNames(f) /\ path = Printed(r).path
  OBVIOUS
<1>2. Facts(fs, rs) /\ (Fits(f, r) <=> Agree(fs, rs))
  BY <1>1, SaidFacts
<1>3. PICK S : args \in Seq(S)
  BY <1>1, ArgNamesType
<1>4. args = e.args
  BY <1>1, ReadAs
<1>5. path = PathOf(rs) /\ Len(rs) > 0 /\ Len(rs) \in Nat
  BY <1>1, PathSays
<1>6. CASE f.type \in Types /\ CharAt(f.name, 1) \in Methods
  <2>1. e.path = RouteOf(fs)
    <3>1. e.path = Tail(f.name)
      BY <1>6, ReadAs
    <3>2. Tail(f.name) = RouteOf(fs)
      BY <1>1, NameSays
    <3> QED
      BY <3>1, <3>2
  <2>2. /\ PathMatch(e, path).ok => Agree(fs, rs)
        /\ Agree(fs, rs) /\ Known(fs, args) =>
             PathMatch(e, path).ok /\ PathMatch(e, path).values = GivenBy(args, fs, rs, Len(fs))
    BY <1>2, <1>3, <1>4, <1>5, <2>1, RouteMatches
  <2>3. WellDeclared(f) => Known(fs, args)
    <3> SUFFICES ASSUME WellDeclared(f), NEW i \in 1..Len(fs), fs[i].param
                 PROVE  IndexOf(args, fs[i].text) # 0
      BY DEF Known
    <3>1. DOMAIN fs = 1..Len(fs)
      BY <1>1, NameSays
    <3>2. fs[i] \in ToSet(fs)
      BY <3>1 DEF ToSet
    <3>3. PICK j \in DOMAIN InputsOf(f) : InputsOf(f)[j].name = fs[i].text
      BY <1>1, <3>2 DEF WellDeclared
    <3>4. j \in DOMAIN args /\ args[j] = fs[i].text
      <4>1. PICK m \in Nat : DOMAIN InputsOf(f) = 1..m /\ \A k \in 1..m : InputsOf(f)[k] = f.args[k]
        BY InputsFirst
      <4>2. DOMAIN args = DOMAIN InputsOf(f) /\ args[j] = f.args[j].name
        BY <1>1, Zenon DEF ArgNames
      <4> QED
        BY <3>3, <4>1, <4>2
    <3> QED
      BY <1>3, <3>4, FirstFound
  <2> QED
    BY <1>1, <1>2, <2>2, <2>3, Zenon
<1>7. CASE ~(f.type \in Types /\ CharAt(f.name, 1) \in Methods)
  <2>1. ~WellDeclared(f)
    BY <1>7 DEF WellDeclared
  <2>2. PICK none : none = <<>> /\ Len(none) = 0
    OBVIOUS
  <2>3. Facts(none, rs)
    BY <1>2, <2>2 DEF Facts, TextAtEnd
  <2>4. e.path = RouteOf(none)
    <3>1. PICK fr, pr : Facing(none, rs, fr, pr) /\ fr[0] = RouteOf(none)
      BY <2>3, FacingThere
    <3>2. fr[0] = <<>>
      BY <2>2, <3>1, Zenon DEF Facing, SlashedFrom
    <3>3. e.path = <<>>
      BY <1>7, ReadAs
    <3> QED
      BY <3>1, <3>2, <3>3
  <2>5. PathMatch(e, path).ok => Agree(none, rs)
    BY <1>3, <1>4, <1>5, <2>3, <2>4, RouteMatches
  <2>6. ~Agree(none, rs)
    BY <1>5, <2>2 DEF Agree
  <2> QED
    BY <1>1, <2>1, <2>5, <2>6, Zenon
<1> QED
  BY <1>6, <1>7, Zenon


LEMMA ItemType ==
  ASSUME NEW S, NEW s \in Seq(S), NEW n \in DOMAIN s
  PROVE  s[n] \in S
OBVIOUS

(* What is asked for by name, in the query, else in a form                  *)
LEMMA PairsHeld ==
  ASSUME NEW held \in Seq([name : Seq(STRING), value : Seq(STRING)])
  PROVE  held \in Seq(Pair)
<1>1. PICK S, T : S = [name : Seq(STRING), value : Seq(STRING)] /\ T = Pair
  OBVIOUS
<1>2. S \subseteq T
  <2> SUFFICES ASSUME NEW p \in S PROVE p \in T
    OBVIOUS
  <2>1. p = [name |-> p.name, value |-> p.value] /\ p.name \in Seq(STRING) /\ p.value \in Seq(STRING)
    BY <1>1
  <2>2. p.name \in Texts /\ p.value \in Texts
    BY <2>1, OfStrings
  <2> QED
    BY <1>1, <2>1, <2>2 DEF Pair
<1>3. held \in Seq(S)
  BY <1>1
<1>4. held \in Seq(T)
  BY <1>2, <1>3, Larger
<1> QED
  BY <1>1, <1>4

FormGives(held, name) ==
  IF Named(held, name) = {} THEN Unset ELSE Set(Encode(held[Min(Named(held, name))].value))

LEMMA ParameterRead ==
  ASSUME NEW r \in Request, NEW name \in Texts, PlainText(name)
  PROVE  RequestParameter(Printed(r), name) =
           IF Named(r.query, name) # {} \/ ~r.typed THEN FormGives(r.query, name)
           ELSE FormGives(r.form, name)
<1>1. PICK req : req = Printed(r)
  OBVIOUS
<1>2. PICK q, b : q = Pairs(r.query) /\ b = Pairs(r.form)
  OBVIOUS
<1>3. req.query = q /\ req.body = b /\ (req.form <=> r.typed)
  <2>1. PICK p : req = [path |-> p, query |-> q, body |-> b, form |-> r.typed]
    BY <1>1, <1>2, Zenon DEF Printed
  <2> QED
    BY <2>1
<1>4. FormParameter(q, name) = FormGives(r.query, name)
  <2>1. r.query \in Seq(Pair)
    <3>1. r.query \in Seq([name : Seq(STRING), value : Seq(STRING)])
      BY DEF Request
    <3> QED
      BY <3>1, PairsHeld
  <2>2. FormParameter(Pairs(r.query), name) =
          IF Named(r.query, name) = {} THEN Unset
          ELSE Set(Encode(r.query[Min(Named(r.query, name))].value))
    BY <2>1, FormReads
  <2> QED
    BY <1>2, <2>2, Zenon DEF FormGives
<1>5. FormParameter(b, name) = FormGives(r.form, name)
  <2>1. r.form \in Seq(Pair)
    <3>1. r.form \in Seq([name : Seq(STRING), value : Seq(STRING)])
      BY DEF Request
    <3> QED
      BY <3>1, PairsHeld
  <2>2. FormParameter(Pairs(r.form), name) =
          IF Named(r.form, name) = {} THEN Unset
          ELSE Set(Encode(r.form[Min(Named(r.form, name))].value))
    BY <2>1, FormReads
  <2> QED
    BY <1>2, <2>2, Zenon DEF FormGives
<1>6. FormGives(r.query, name).has <=> Named(r.query, name) # {}
  BY DEF FormGives, Set, Unset
<1>7. RequestParameter(req, name) =
        IF FormParameter(q, name).has \/ ~req.form THEN FormParameter(q, name)
        ELSE FormParameter(b, name)
  BY <1>3, Zenon DEF RequestParameter
<1> QED
  BY <1>1, <1>3, <1>4, <1>5, <1>6, <1>7, Zenon

(* An argument's name is the one its input has, and no other's.             *)
LEMMA ArgumentName ==
  ASSUME NEW f \in Fn, WellDeclared(f), NEW args, args = ArgNames(f), NEW i \in DOMAIN args
  PROVE  /\ DOMAIN args = DOMAIN InputsOf(f) /\ args[i] = InputsOf(f)[i].name
         /\ args[i] \in Texts /\ PlainText(args[i]) /\ IndexOf(args, args[i]) = i
<1>1. PICK m \in Nat :
        /\ DOMAIN InputsOf(f) = 1..m /\ m <= Len(f.args)
        /\ \A k \in 1..m :
             /\ InputsOf(f)[k] = f.args[k] /\ f.args[k].mode # "out"
             /\ f.args[k].name \in Seq(STRING)
  BY InputsFirst
<1>2. DOMAIN args = 1..m /\ \A k \in 1..m : args[k] = f.args[k].name
  <2>1. args = [k \in DOMAIN InputsOf(f) |-> f.args[k].name]
    BY Zenon DEF ArgNames
  <2> QED
    BY <1>1, <2>1
<1>3. args[i] = InputsOf(f)[i].name
  BY <1>1, <1>2
<1>4. args[i] \in Texts
  <2>1. args[i] \in Seq(STRING)
    BY <1>1, <1>2
  <2> QED
    BY <2>1, OfStrings
<1>5. \A k \in 1..m : k \in DOMAIN f.args
  <2>1. PICK X : f.args \in Seq(X)
    BY DEF Fn
  <2> QED
    BY <1>1, <2>1
<1>6. PlainText(args[i])
  <2>1. ToSet(args[i]) \cap Escapes = {}
    BY <1>2, <1>5 DEF WellDeclared
  <2>2. \A k \in 1..Len(args[i]) : args[i][k] \in ToSet(args[i])
    BY <1>4 DEF ToSet, Texts
  <2> QED
    BY <2>1, <2>2 DEF PlainText
<1>7. \A j \in 1..(i - 1) : args[j] # args[i]
  <2> SUFFICES ASSUME NEW j \in 1..(i - 1) PROVE args[j] # args[i]
    OBVIOUS
  <2>1. i \in 1..m /\ j \in 1..m
    BY <1>2
  <2>2. f.args[j].name # f.args[i].name
    BY <1>1, <1>5, <2>1 DEF WellDeclared
  <2> QED
    BY <1>2, <2>1, <2>2
<1>8. IndexOf(args, args[i]) = i
  <2>1. PICK S : args \in Seq(S)
    BY ArgNamesType
  <2>2. i \in 1..Len(args)
    BY <2>1
  <2>3. PICK c : c = args[i] /\ \A j \in 1..(i - 1) : args[j] # c
    BY <1>7
  <2> QED
    BY <2>1, <2>2, <2>3, FirstIs
<1> QED
  BY <1>1, <1>2, <1>3, <1>4, <1>6, <1>8

(* What an argument gets, still escaped: nothing, or what the request says. *)
ArgumentOf(f, r, name) ==
  IF Gives(f, r, name) THEN Set(Encode(ValueOf(f, r, name))) ELSE Unset

LEMMA ArgumentRead ==
  ASSUME NEW f \in Fn, WellDeclared(f), Spells(f), EndsInText(f), NEW r \in Request,
         NEW args, args = ArgNames(f), NEW i \in DOMAIN args,
         NEW value, value = GivenBy(args, f.segments, r.segments, Len(f.segments))[i]
  PROVE  (IF value.has THEN value ELSE RequestParameter(Printed(r), args[i])) =
           ArgumentOf(f, r, InputsOf(f)[i].name)
<1>1. PICK name \in Texts : name = args[i]
  BY ArgumentName
<1>2. name = InputsOf(f)[i].name /\ PlainText(name) /\ IndexOf(args, args[i]) = i
  BY <1>1, ArgumentName
<1>3. PICK into : into = InPath(f, name)
  OBVIOUS
<1>4. Into(f.segments, Len(f.segments), args[i]) = into
  <2>1. DOMAIN f.segments = 1..Len(f.segments)
    BY NameSays
  <2> QED
    BY <1>1, <1>3, <2>1 DEF Into, InPath
<1>5. value = IF into = {} THEN Unset ELSE Set(Encode(r.segments[Max(into)]))
  <2>1. value = IF Into(f.segments, Len(f.segments), args[i]) = {} \/ IndexOf(args, args[i]) # i
                THEN Unset
                ELSE Set(Encode(r.segments[Max(Into(f.segments, Len(f.segments), args[i]))]))
    BY Zenon DEF GivenBy
  <2> QED
    BY <1>2, <1>4, <2>1, Zenon
<1>6. CASE into # {}
  <2>1. value.has = TRUE
    BY <1>5, <1>6 DEF Set
  <2>2. Gives(f, r, name) /\ ValueOf(f, r, name) = r.segments[Max(into)]
    BY <1>3, <1>6, Zenon DEF Gives, ValueOf
  <2> QED
    BY <1>2, <1>5, <1>6, <2>1, <2>2, Zenon DEF ArgumentOf
<1>7. CASE into = {}
  <2>1. value.has = FALSE
    BY <1>5, <1>7 DEF Unset
  <2>2. RequestParameter(Printed(r), name) =
          IF Named(r.query, name) # {} \/ ~r.typed THEN FormGives(r.query, name)
          ELSE FormGives(r.form, name)
    BY <1>2, ParameterRead
  <2>3. CASE Named(r.query, name) # {}
    <3>1. Gives(f, r, name) /\ ValueOf(f, r, name) = r.query[Min(Named(r.query, name))].value
      BY <1>3, <1>7, <2>3, Zenon DEF Gives, ValueOf
    <3> QED
      BY <1>1, <1>2, <2>1, <2>2, <2>3, <3>1, Zenon DEF ArgumentOf, FormGives
  <2>4. CASE Named(r.query, name) = {} /\ ~r.typed
    <3>1. ~Gives(f, r, name)
      BY <1>3, <1>7, <2>4, Zenon DEF Gives
    <3> QED
      BY <1>1, <1>2, <2>1, <2>2, <2>4, <3>1, Zenon DEF ArgumentOf, FormGives
  <2>5. CASE Named(r.query, name) = {} /\ r.typed /\ Named(r.form, name) = {}
    <3>1. ~Gives(f, r, name)
      BY <1>3, <1>7, <2>5, Zenon DEF Gives
    <3> QED
      BY <1>1, <1>2, <2>1, <2>2, <2>5, <3>1, Zenon DEF ArgumentOf, FormGives
  <2>6. CASE Named(r.query, name) = {} /\ r.typed /\ Named(r.form, name) # {}
    <3>1. Gives(f, r, name) /\ ValueOf(f, r, name) = r.form[Min(Named(r.form, name))].value
      BY <1>3, <1>7, <2>6, Zenon DEF Gives, ValueOf
    <3> QED
      BY <1>1, <1>2, <2>1, <2>2, <2>6, <3>1, Zenon DEF ArgumentOf, FormGives
  <2> QED
    BY <2>3, <2>4, <2>5, <2>6
<1> QED
  BY <1>6, <1>7

(* Decoded, it is what the request says.                                    *)
LEMMA ValueRead ==
  ASSUME NEW f \in Fn, NEW r \in Request, Spells(f), EndsInText(f), Ordinary(r), Fits(f, r),
         NEW name, Gives(f, r, name)
  PROVE  UrlDecode(Encode(ValueOf(f, r, name))).value = ValueOf(f, r, name)
<1>1. PICK v : v = ValueOf(f, r, name)
  OBVIOUS
<1>2. \A held \in Seq([name : Seq(STRING), value : Seq(STRING)]) :
        Named(held, name) # {} =>
          /\ held[Min(Named(held, name))].value \in Texts
          /\ held[Min(Named(held, name))].value \in Values(held)
  <2> SUFFICES ASSUME NEW held \in Seq([name : Seq(STRING), value : Seq(STRING)]),
                      Named(held, name) # {}
               PROVE  /\ held[Min(Named(held, name))].value \in Texts
                      /\ held[Min(Named(held, name))].value \in Values(held)
    OBVIOUS
  <2>1. Named(held, name) \subseteq Nat /\ Named(held, name) \subseteq DOMAIN held
    BY DEF Named
  <2>2. Min(Named(held, name)) \in Named(held, name)
    BY <2>1, MinOfNaturals
  <2>3. PICK n \in DOMAIN held : n = Min(Named(held, name))
    BY <2>1, <2>2
  <2>4. held[n] \in ToSet(held) /\ held[n].value \in Seq(STRING)
    <3>1. PICK S : S = [name : Seq(STRING), value : Seq(STRING)] /\ held \in Seq(S)
      OBVIOUS
    <3>2. held[n] \in S
      BY <3>1, ItemType, Zenon
    <3>3. held[n] \in ToSet(held)
      BY Zenon DEF ToSet
    <3> QED
      BY <3>1, <3>2, <3>3
  <2>5. held[n].value \in Texts
    BY <2>4, OfStrings
  <2> QED
    BY <2>3, <2>4, <2>5 DEF Values
<1>3. v \in Texts /\ ToSet(v) \cap (Refused \ Escapes) = {}
  <2>1. CASE InPath(f, name) # {}
    <3>1. PICK K \in Nat : K = Len(f.segments) /\ DOMAIN f.segments = 1..K
      BY NameSays
    <3>2. InPath(f, name) \subseteq 1..K
      BY <3>1 DEF InPath
    <3>3. Max(InPath(f, name)) \in 1..K
      BY <2>1, <3>2, MaxOfPositions
    <3>4. Len(r.segments) = K
      BY <3>1 DEF Fits
    <3>5. v = r.segments[Max(InPath(f, name))]
      BY <1>1, <2>1, Zenon DEF ValueOf
    <3> QED
      BY <3>3, <3>4, <3>5, PathSays
  <2>2. CASE InPath(f, name) = {} /\ Named(r.query, name) # {}
    <3>1. v = r.query[Min(Named(r.query, name))].value
      BY <1>1, <2>2, Zenon DEF ValueOf
    <3>2. r.query \in Seq([name : Seq(STRING), value : Seq(STRING)])
      BY DEF Request
    <3>3. v \in Texts /\ v \in Values(r.query)
      BY <1>2, <2>2, <3>1, <3>2
    <3> QED
      BY <3>3 DEF Ordinary
  <2>3. CASE InPath(f, name) = {} /\ Named(r.query, name) = {}
    <3>1. Named(r.form, name) # {}
      BY <2>3 DEF Gives
    <3>2. v = r.form[Min(Named(r.form, name))].value
      BY <1>1, <2>3, Zenon DEF ValueOf
    <3>3. r.form \in Seq([name : Seq(STRING), value : Seq(STRING)])
      BY DEF Request
    <3>4. v \in Texts /\ v \in Values(r.form)
      BY <1>2, <3>1, <3>2, <3>3
    <3> QED
      BY <3>4 DEF Ordinary
  <2> QED
    BY <2>1, <2>2, <2>3
<1> QED
  BY <1>1, <1>3, DecodeEncoded


-----------------------------------------------------------------------------
(* The answers                                                              *)

(* A server's routes are its functions', all of them, and everything is     *)
(* said clearly.                                                            *)
Served(r) ==
  /\ world.functions \in Seq(Fn) /\ r \in Request /\ Ordinary(r)
  /\ Len(routes) = Len(world.functions) /\ DOMAIN routes = DOMAIN world.functions
  /\ \A i \in DOMAIN world.functions :
       /\ routes[i] = ReadEndpoint(world.functions[i])
       /\ Spells(world.functions[i]) /\ EndsInText(world.functions[i])
       /\ i \in Fitting(r) => WellDeclared(world.functions[i])

LEMMA MatchingIs ==
  ASSUME NEW r, Served(r)
  PROVE  Matching(routes, Printed(r)) = Fitting(r)
<1> SUFFICES ASSUME NEW i \in DOMAIN world.functions
             PROVE  PathMatch(routes[i], Printed(r).path).ok <=> Fits(world.functions[i], r)
  BY DEF Served, Matching, Fitting
<1>1. PICK f \in Fn : f = world.functions[i]
  BY ItemType DEF Served
<1>2. /\ routes[i] = ReadEndpoint(f) /\ Spells(f) /\ EndsInText(f)
      /\ Fits(f, r) => WellDeclared(f)
  BY <1>1 DEF Served, Fitting
<1>3. PICK e : e = routes[i] /\ e = ReadEndpoint(f)
  BY <1>2
<1>4. r \in Request /\ Ordinary(r)
  BY DEF Served
<1>5. /\ PathMatch(e, Printed(r).path).ok => Fits(f, r)
      /\ WellDeclared(f) /\ Fits(f, r) => PathMatch(e, Printed(r).path).ok
  BY <1>2, <1>3, <1>4, FitsMatches
<1> QED
  BY <1>1, <1>2, <1>3, <1>5, Zenon

LEMMA FirstFitting ==
  ASSUME NEW r, Served(r), Fitting(r) # {}
  PROVE  Min(Fitting(r)) \in Fitting(r) /\ Min(Fitting(r)) \in DOMAIN world.functions
<1>1. Fitting(r) \subseteq DOMAIN world.functions
  BY DEF Fitting
<1>2. DOMAIN world.functions \subseteq Nat
  BY DEF Served
<1>3. Min(Fitting(r)) \in Fitting(r)
  <2>1. Fitting(r) \subseteq Nat
    BY <1>1, <1>2
  <2> QED
    BY <2>1, MinOfNaturals
<1> QED
  BY <1>1, <1>3

(* Each argument of a function as a request gives it, and its value.        *)
Arguments(f, r) == [i \in DOMAIN InputsOf(f) |-> ArgumentOf(f, r, InputsOf(f)[i].name)]
ValuesOf(f, r)  == [i \in DOMAIN InputsOf(f) |-> ValueOf(f, r, InputsOf(f)[i].name)]

LEMMA RawIs ==
  ASSUME NEW r, Served(r), Fitting(r) # {}, NEW f, f = world.functions[Min(Fitting(r))]
  PROVE  /\ f \in Fn /\ WellDeclared(f) /\ Spells(f) /\ EndsInText(f) /\ Fits(f, r)
         /\ Found(routes, Printed(r)).name = f.name
         /\ DOMAIN ArgNames(f) = DOMAIN InputsOf(f)
         /\ Raw(routes, Printed(r)) = Arguments(f, r)
<1>1. PICK n : n = Min(Fitting(r)) /\ n \in Fitting(r) /\ n \in DOMAIN world.functions
  BY FirstFitting
<1>2. f = world.functions[n] /\ f \in Fn
  <2>1. world.functions[n] \in Fn
    BY <1>1, ItemType DEF Served
  <2> QED
    BY <1>1, <2>1
<1>3. r \in Request /\ Ordinary(r)
  BY DEF Served
<1>4. routes[n] = ReadEndpoint(f) /\ WellDeclared(f) /\ Spells(f) /\ EndsInText(f)
  BY <1>1, <1>2 DEF Served
<1>5. Fits(f, r)
  BY <1>1, <1>2 DEF Fitting
<1>6. PICK e : e = Found(routes, Printed(r)) /\ e = ReadEndpoint(f)
  <2>1. Found(routes, Printed(r)) = routes[n]
    BY <1>1, MatchingIs, Zenon DEF Found
  <2> QED
    BY <1>4, <2>1
<1>7. PICK args : args = ArgNames(f) /\ args = e.args
  BY <1>2, <1>6, ReadAs
<1>8. e.name = f.name
  BY <1>2, <1>4, <1>6, ReadAs DEF WellDeclared
<1>9. PICK matched : /\ matched = PathMatch(e, Printed(r).path).values
                     /\ matched = GivenBy(args, f.segments, r.segments, Len(f.segments))
  BY <1>2, <1>3, <1>4, <1>5, <1>6, <1>7, FitsMatches, ZenonT(30)
<1>10. DOMAIN args = DOMAIN InputsOf(f)
  BY <1>7, Zenon DEF ArgNames
<1>11. Raw(routes, Printed(r)) =
         [i \in DOMAIN args |->
            IF matched[i].has THEN matched[i] ELSE RequestParameter(Printed(r), args[i])]
  BY <1>6, <1>7, <1>9, Zenon DEF Raw
<1>12. ASSUME NEW i \in DOMAIN args
       PROVE  (IF matched[i].has THEN matched[i] ELSE RequestParameter(Printed(r), args[i])) =
                ArgumentOf(f, r, InputsOf(f)[i].name)
  <2>1. PICK value : value = matched[i]
    OBVIOUS
  <2>2. value = GivenBy(args, f.segments, r.segments, Len(f.segments))[i]
    BY <1>9, <2>1
  <2>3. (IF value.has THEN value ELSE RequestParameter(Printed(r), args[i])) =
          ArgumentOf(f, r, InputsOf(f)[i].name)
    BY <1>2, <1>3, <1>4, <1>7, <2>2, ArgumentRead, ZenonT(30)
  <2> QED
    BY <2>1, <2>3, Zenon
<1>13. Raw(routes, Printed(r)) =
         [i \in DOMAIN InputsOf(f) |-> ArgumentOf(f, r, InputsOf(f)[i].name)]
  <2>1. PICK g, h : /\ g = Raw(routes, Printed(r))
                    /\ h = [i \in DOMAIN args |-> ArgumentOf(f, r, InputsOf(f)[i].name)]
    OBVIOUS
  <2>2. g = [i \in DOMAIN args |-> g[i]] /\ h = [i \in DOMAIN args |-> h[i]]
    BY <1>11, <2>1, Zenon
  <2>3. \A i \in DOMAIN args : g[i] = h[i]
    <3> SUFFICES ASSUME NEW i \in DOMAIN args PROVE g[i] = h[i]
      OBVIOUS
    <3>1. g[i] = IF matched[i].has THEN matched[i] ELSE RequestParameter(Printed(r), args[i])
      BY <1>11, <2>1, Zenon
    <3>2. h[i] = ArgumentOf(f, r, InputsOf(f)[i].name)
      BY <2>1, Zenon
    <3> QED
      BY <1>12, <3>1, <3>2, Zenon
  <2>4. g = h
    BY <2>2, <2>3
  <2> QED
    BY <1>10, <2>1, <2>4, Zenon
<1>14. Raw(routes, Printed(r)) = Arguments(f, r)
  BY <1>13, Zenon DEF Arguments
<1> QED
  BY <1>2, <1>4, <1>5, <1>6, <1>7, <1>8, <1>10, <1>14, Zenon

LEMMA AnswerIs ==
  ASSUME NEW r, Served(r), Fitting(r) # {}, NEW f, f = world.functions[Min(Fitting(r))]
  PROVE  /\ Found(routes, Printed(r)).name = f.name
         /\ Incomplete(routes, Printed(r)) <=> ~GivesAll(f, r)
         /\ GivesAll(f, r) =>
              Decoded(routes, Printed(r)) = ValuesOf(f, r)
<1>1. PICK raw : raw = Raw(routes, Printed(r))
  OBVIOUS
<1>2. /\ f \in Fn /\ Spells(f) /\ EndsInText(f) /\ Fits(f, r)
      /\ Found(routes, Printed(r)).name = f.name
      /\ raw = [i \in DOMAIN InputsOf(f) |-> ArgumentOf(f, r, InputsOf(f)[i].name)]
  <2>1. /\ f \in Fn /\ Spells(f) /\ EndsInText(f) /\ Fits(f, r)
        /\ Found(routes, Printed(r)).name = f.name
        /\ raw = Arguments(f, r)
    BY <1>1, RawIs
  <2> QED
    BY <2>1, Zenon DEF Arguments
<1>3. r \in Request /\ Ordinary(r)
  BY DEF Served
<1>4. ASSUME NEW i \in DOMAIN InputsOf(f)
      PROVE  /\ raw[i].has <=> Gives(f, r, InputsOf(f)[i].name)
             /\ Gives(f, r, InputsOf(f)[i].name) =>
                  raw[i].text = Encode(ValueOf(f, r, InputsOf(f)[i].name))
  <2>1. PICK name : name = InputsOf(f)[i].name
    OBVIOUS
  <2>2. raw[i] = ArgumentOf(f, r, name)
    BY <1>2, <2>1
  <2>3. CASE Gives(f, r, name)
    <3>1. raw[i] = Set(Encode(ValueOf(f, r, name)))
      BY <2>2, <2>3, Zenon DEF ArgumentOf
    <3> QED
      BY <2>1, <2>3, <3>1 DEF Set
  <2>4. CASE ~Gives(f, r, name)
    <3>1. raw[i] = Unset
      BY <2>2, <2>4, Zenon DEF ArgumentOf
    <3> QED
      BY <2>1, <2>4, <3>1 DEF Unset
  <2> QED
    BY <2>3, <2>4
<1>5. DOMAIN raw = DOMAIN InputsOf(f)
  BY <1>2
<1>6. Incomplete(routes, Printed(r)) <=> ~GivesAll(f, r)
  BY <1>1, <1>4, <1>5, Zenon DEF Incomplete, GivesAll
<1>7. ASSUME GivesAll(f, r)
      PROVE  Decoded(routes, Printed(r)) = ValuesOf(f, r)
  <2>1. PICK g, h : /\ g = Decoded(routes, Printed(r))
                    /\ h = [i \in DOMAIN InputsOf(f) |-> ValueOf(f, r, InputsOf(f)[i].name)]
                    /\ h = ValuesOf(f, r)
    BY Zenon DEF ValuesOf
  <2>2. g = [i \in DOMAIN raw |-> UrlDecode(raw[i].text).value]
    BY <1>1, <2>1, Zenon DEF Decoded
  <2>3. /\ g = [i \in DOMAIN InputsOf(f) |-> g[i]] /\ h = [i \in DOMAIN InputsOf(f) |-> h[i]]
    BY <1>5, <2>1, <2>2, Zenon
  <2>4. \A i \in DOMAIN InputsOf(f) : g[i] = h[i]
    <3> SUFFICES ASSUME NEW i \in DOMAIN InputsOf(f) PROVE g[i] = h[i]
      OBVIOUS
    <3>1. PICK name : name = InputsOf(f)[i].name /\ Gives(f, r, name)
      BY <1>7 DEF GivesAll
    <3>2. raw[i].text = Encode(ValueOf(f, r, name))
      BY <1>4, <3>1
    <3>3. g[i] = UrlDecode(raw[i].text).value
      BY <1>5, <2>2
    <3>4. h[i] = ValueOf(f, r, name)
      BY <2>1, <3>1
    <3>5. UrlDecode(Encode(ValueOf(f, r, name))).value = ValueOf(f, r, name)
      BY <1>2, <1>3, <3>1, ValueRead
    <3> QED
      BY <3>2, <3>3, <3>4, <3>5, Zenon
  <2>5. g = h
    BY <2>3, <2>4
  <2> QED
    BY <2>1, <2>5
<1> QED
  BY <1>2, <1>6, <1>7

-----------------------------------------------------------------------------
(* What has been answered                                                   *)

(* An answer is one of the three that the routes have for its request.      *)
Missed(req)   == Matching(routes, req) = {} \/ Incomplete(routes, req)
CalledBy(req) ==
  /\ Matching(routes, req) # {} /\ ~Incomplete(routes, req)
  /\ reply.name = Found(routes, req).name
  /\ reply.values = Decoded(routes, req)

Answered ==
  reply.outcome # "none" =>
    /\ pc = "serving" /\ reply.to \in Requests
    /\ reply.outcome = "not_found" => Missed(Wire(reply.to))
    /\ reply.outcome = "called" => CalledBy(Wire(reply.to))

LEMMA AnsweredInit == Init => Answered
BY DEF Init, NoReply, Answered

LEMMA AnsweredNext ==
  ASSUME Typed, Answered, Next
  PROVE  Answered'
<1>1. ASSUME pc # "serving", reply' = reply PROVE Answered'
  BY <1>1 DEF Answered
<1>2. CASE Configure
  <2>1. pc # "serving" /\ reply' = reply
    BY <1>2 DEF Configure, ReadLine, RefuseLine, EndConfig, AtLine
  <2> QED
    BY <1>1, <2>1
<1>3. CASE Start
  <2>1. pc # "serving" /\ reply' = reply
    BY <1>3 DEF Start, ReadField, RefuseField, Connect, ReadGreeting, GreetingEnds, Login,
       Query, AddEndpoint, EndRows, Listen
  <2> QED
    BY <1>1, <2>1
<1>4. CASE Serve
  <2>1. PICK r \in Requests : NotFound(r) \/ LacksParameter(r) \/ Call(r)
    BY <1>4 DEF Serve
  <2>2. PICK req : req = Wire(r)
    OBVIOUS
  <2>3. ASSUME NEW outcome, NEW name, NEW values, Answer(r, outcome, name, values)
        PROVE  /\ routes' = routes /\ pc' = pc /\ reply'.to = r
               /\ reply'.outcome = outcome /\ reply'.name = name /\ reply'.values = values
    BY <2>3 DEF Answer
  <2>4. CASE NotFound(r)
    <3>1. pc = "serving" /\ Matching(routes, req) = {} /\ Answer(r, "not_found", <<>>, <<>>)
      BY <2>2, <2>4 DEF NotFound
    <3>2. routes' = routes /\ pc' = pc /\ reply'.to = r /\ reply'.outcome = "not_found"
      BY <2>3, <3>1
    <3> QED
      BY <2>2, <3>1, <3>2 DEF Answered, Missed
  <2>5. CASE LacksParameter(r)
    <3>1. pc = "serving" /\ Incomplete(routes, req) /\ Answer(r, "not_found", <<>>, <<>>)
      BY <2>2, <2>5 DEF LacksParameter
    <3>2. routes' = routes /\ pc' = pc /\ reply'.to = r /\ reply'.outcome = "not_found"
      BY <2>3, <3>1
    <3> QED
      BY <2>2, <3>1, <3>2 DEF Answered, Missed
  <2>6. CASE Call(r)
    <3>1. /\ pc = "serving" /\ Matching(routes, req) # {} /\ ~Incomplete(routes, req)
          /\ Answer(r, "called", Found(routes, req).name, Decoded(routes, req))
      BY <2>2, <2>6 DEF Call
    <3>2. /\ routes' = routes /\ pc' = pc /\ reply'.to = r /\ reply'.outcome = "called"
          /\ reply'.name = Found(routes, req).name /\ reply'.values = Decoded(routes, req)
      BY <2>3, <3>1
    <3> QED
      BY <2>2, <3>1, <3>2 DEF Answered, CalledBy
  <2> QED
    BY <2>1, <2>4, <2>5, <2>6
<1>5. CASE Gone
  BY <1>5 DEF Gone, vars, given, Answered, Missed, CalledBy
<1> QED
  BY <1>2, <1>3, <1>4, <1>5 DEF Next

LEMMA AnsweredCorrect == Spec => [](Base /\ Answered)
<1>1. Init => Base /\ Answered
  BY AnsweredInit, TypedInit, GreetedInit, RoutedInit DEF Base
<1>2. (Base /\ Answered) /\ [Next]_vars => (Base /\ Answered)'
  <2> SUFFICES ASSUME Base, Answered, [Next]_vars PROVE Base' /\ Answered'
    OBVIOUS
  <2>1. CASE Next
    BY <2>1, TypedNext, GreetedNext, RoutedNext, AnsweredNext DEF Base
  <2>2. CASE UNCHANGED vars
    <3>1. Base'
      BY <2>2 DEF vars, given, Base, Typed, Greeted, Routed
    <3>2. Answered'
      BY <2>2 DEF vars, given, Answered, Missed, CalledBy
    <3> QED
      BY <3>1, <3>2
  <2> QED
    BY <2>1, <2>2
<1> QED
  BY <1>1, <1>2, PTL DEF Spec

(* What is said clearly is served, as it was printed.                       *)
LEMMA ClearlyServed ==
  ASSUME Spelled, Asked, Base, Answered, Clear, reply.outcome # "none"
  PROVE  Served(reply.to) /\ Wire(reply.to) = Printed(reply.to)
<1>1. pc = "serving" /\ reply.to \in Requests
  BY DEF Answered
<1>2. reply.to \in Request /\ Wire(reply.to) = Printed(reply.to)
  BY <1>1 DEF Asked
<1>3. world \in World
  BY Given DEF Base
<1>4. world.functions \in Seq(Fn)
  BY <1>3 DEF World, Fn
<1>5. \A i \in DOMAIN world.functions : Spells(world.functions[i])
  <2>1. PICK setup \in Setups : setup = [config |-> config, world |-> world]
    BY DEF Base, Typed
  <2>2. setup.world = world
    BY <2>1
  <2> QED
    BY <2>2 DEF Spelled
<1>6. Len(routes) = Len(world.functions)
  BY <1>1 DEF Clear, Base, Routed
<1>7. DOMAIN routes = 1..Len(routes) /\ DOMAIN world.functions = 1..Len(world.functions)
  BY <1>4 DEF Base, Typed
<1>8. \A i \in DOMAIN world.functions : routes[i] = ReadEndpoint(world.functions[i])
  BY <1>6, <1>7 DEF Base, Routed
<1>9. /\ Ordinary(reply.to)
      /\ \A i \in DOMAIN world.functions : EndsInText(world.functions[i])
      /\ \A i \in Fitting(reply.to) : WellDeclared(world.functions[i])
  BY DEF Clear
<1> QED
  BY <1>2, <1>4, <1>5, <1>6, <1>7, <1>8, <1>9, Zenon DEF Served

(* Routing: for every catalog whose names spell what they are said to, and  *)
(* every request as a client prints it, whichever characters it escapes and *)
(* in either case (Escaping), the function that is called is the            *)
(* first whose path the request has, and each of its arguments gets the     *)
(* value given under its name, as it was before it was escaped.             *)
THEOREM CalledAsDeclaredCorrect ==
  ASSUME Spelled, Asked
  PROVE  Spec => []CalledAsDeclared
<1>1. ASSUME Base, Answered, reply.outcome = "called", Clear,
             NEW r, r = reply.to, NEW f, f = world.functions[Min(Fitting(r))]
      PROVE  Fitting(r) # {} /\ reply.name = f.name /\ reply.values = ValuesOf(f, r)
  <2>1. Served(r) /\ Wire(r) = Printed(r)
    BY <1>1, ClearlyServed
  <2>2. CalledBy(Printed(r))
    BY <1>1, <2>1 DEF Answered
  <2>3. Fitting(r) # {}
    BY <2>1, <2>2, MatchingIs DEF CalledBy
  <2>4. /\ Found(routes, Printed(r)).name = f.name
        /\ Incomplete(routes, Printed(r)) <=> ~GivesAll(f, r)
        /\ GivesAll(f, r) => Decoded(routes, Printed(r)) = ValuesOf(f, r)
    BY <1>1, <2>1, <2>3, AnswerIs
  <2> QED
    BY <2>2, <2>3, <2>4 DEF CalledBy
<1>2. ASSUME Base, Answered PROVE CalledAsDeclared
  <2>1. ASSUME reply.outcome = "called", Clear
        PROVE  LET r == reply.to
                   f == world.functions[Min(Fitting(r))]
               IN  /\ Fitting(r) # {} /\ reply.name = f.name
                   /\ reply.values = ValuesOf(f, r)
    BY <1>1, <1>2, <2>1
  <2> QED
    BY <2>1, Zenon DEF CalledAsDeclared, ValuesOf
<1>3. Base /\ Answered => CalledAsDeclared
  BY <1>2
<1> QED
  BY <1>3, AnsweredCorrect, PTL

(* Routing: for such a catalog and request, 404 says that no function has   *)
(* the request's path, or that the request does not give all that the first *)
(* with its path asks for.                                                  *)
THEOREM FoundAsDeclaredCorrect ==
  ASSUME Spelled, Asked
  PROVE  Spec => []FoundAsDeclared
<1>1. ASSUME Base, Answered, reply.outcome = "not_found", Clear,
             NEW r, r = reply.to, Fitting(r) # {}, NEW f, f = world.functions[Min(Fitting(r))]
      PROVE  ~GivesAll(f, r)
  <2>1. Served(r) /\ Wire(r) = Printed(r)
    BY <1>1, ClearlyServed
  <2>2. Missed(Printed(r))
    BY <1>1, <2>1 DEF Answered
  <2>3. Incomplete(routes, Printed(r))
    BY <1>1, <2>1, <2>2, MatchingIs DEF Missed
  <2> QED
    BY <1>1, <2>1, <2>3, AnswerIs
<1>2. Base /\ Answered => FoundAsDeclared
  BY <1>1, Zenon DEF FoundAsDeclared
<1> QED
  BY <1>2, AnsweredCorrect, PTL
=============================================================================
