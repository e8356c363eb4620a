-------------------------- MODULE HttpWorker_proofs --------------------------
(* However many clients and workers there are, whatever is sent, in what    *)
(* pieces, and whoever leaves: a client is served by one worker at a time,  *)
(* and is answered once.                                                    *)
EXTENDS HttpWorker, SetInduction, SequenceTheorems, FiniteSetTheorems, TLAPS

Units == UNION { Range(r) : r \in Requests }

(* The shape of the variables the two properties depend on.                 *)
Shape ==
  /\ plan \in [Clients -> Seq(Units)] /\ todo \in [Clients -> Seq(Units)]
  /\ DOMAIN wire = Clients /\ DOMAIN replies = Clients
  /\ backlog \in Seq(Clients) /\ open \subseteq Clients
  /\ pc \in [Workers -> { "accept", "recv", "body", "handle" }]
  /\ DOMAIN client = Workers

Sent(c)  == Len(todo[c]) < Len(plan[c])
Busy(w)  == pc[w] # "accept"

Waiting == { backlog[i] : i \in 1..Len(backlog) }

(* A client stands in the queue once, and is then not open.                 *)
Queue ==
  /\ \A i, j \in 1..Len(backlog) : backlog[i] = backlog[j] => i = j
  /\ Waiting \cap open = {}

(* Who waits or is served has no answer yet.                                *)
Unanswered ==
  /\ \A c \in Waiting : replies[c] = <<>>
  /\ \A w \in Workers : Busy(w) => client[w] \in open /\ replies[client[w]] = <<>>

(* What is received, and what is answered, was sent before: Connect refuses *)
(* a client that has sent something, so nobody answered comes back.         *)
SentFirst ==
  /\ \A c \in Clients : Len(todo[c]) <= Len(plan[c])
  /\ \A c \in Clients : wire[c] # <<>> \/ replies[c] # <<>> => Sent(c)
  /\ \A w \in Workers : pc[w] \in { "body", "handle" } => Sent(client[w])

\* accept takes the client it returns off the backlog
Apart ==
  \A v, w \in Workers :
    v # w /\ pc[v] # "accept" /\ pc[w] # "accept" => client[v] # client[w]

IInv == Shape /\ Queue /\ Unanswered /\ SentFirst /\ Apart /\ OneReply

LEMMA SequenceOfUnits ==
  ASSUME NEW r \in Requests
  PROVE  r \in Seq(Units)
<1>1. r \in Seq(Range(r)) /\ Range(r) \subseteq Units
  BY RequestsAssumption DEF Units
<1> QED
  BY <1>1

LEMMA AppendOne ==
  ASSUME NEW x
  PROVE  Len(Append(<<>>, x)) = 1
<1>1. <<>> \in Seq({ x })
  OBVIOUS
<1> QED
  BY <1>1

LEMMA InitIInv == Init => IInv
<1> SUFFICES ASSUME Init PROVE IInv
  OBVIOUS
<1> USE DEF Init
<1>1. plan \in [Clients -> Seq(Units)] /\ todo = plan
  BY SequenceOfUnits
<1>2. Shape
  BY <1>1 DEF Shape
<1>3. Waiting = {}
  BY DEF Waiting
<1>4. Queue /\ Unanswered
  BY <1>3 DEF Queue, Unanswered, Busy
<1>5. SentFirst
  <2>1. \A c \in Clients : Len(todo[c]) <= Len(plan[c])
    BY <1>1
  <2> QED
    BY <2>1 DEF SentFirst
<1>6. Apart /\ OneReply
  BY DEF Apart, OneReply
<1> QED
  BY <1>2, <1>4, <1>5, <1>6 DEF IInv

-----------------------------------------------------------------------------
(* The steps of a client                                                    *)

LEMMA ConnectIInv ==
  ASSUME IInv, NEW c \in Clients, Connect(c)
  PROVE  IInv'
<1> USE DEF IInv, Shape
<1>1. /\ backlog' = Append(backlog, c) /\ ~Arrived(c) /\ ~Left(c)
      /\ UNCHANGED << plan, todo, wire, open, replies, pc, client >>
  BY DEF Connect, conns
<1>2. c \notin Waiting /\ c \notin open /\ plan[c] = todo[c]
  <2>1. c \notin Range(backlog)
    BY <1>1 DEF Arrived
  <2>2. Waiting = Range(backlog)
    BY DEF Waiting, Range
  <2> QED
    BY <1>1, <2>1, <2>2 DEF Arrived, Left
<1>3. /\ backlog' \in Seq(Clients) /\ Len(backlog') = Len(backlog) + 1
      /\ \A i \in 1..Len(backlog) : backlog'[i] = backlog[i]
      /\ backlog'[Len(backlog) + 1] = c
  BY <1>1
<1>l. Len(backlog) \in Nat
  OBVIOUS
<1>n. ASSUME NEW i \in 1..Len(backlog'), i \notin 1..Len(backlog)
      PROVE  i = Len(backlog) + 1
  <2> HIDE DEF IInv, Shape
  <2> QED
    BY <1>n, <1>l, <1>3
<1>i. /\ 1..Len(backlog) \subseteq 1..Len(backlog')
      /\ Len(backlog) + 1 \in 1..Len(backlog')
  <2> HIDE DEF IInv, Shape
  <2> QED
    BY <1>l, <1>3
<1>4. Waiting' = Waiting \cup { c }
  <2>1. ASSUME NEW i \in 1..Len(backlog') PROVE backlog'[i] \in Waiting \cup { c }
    <3>1. CASE i \in 1..Len(backlog)
      BY <1>3, <3>1 DEF Waiting
    <3>2. CASE i \notin 1..Len(backlog)
      BY <1>3, <1>n, <3>2
    <3> QED
      BY <3>1, <3>2
  <2>2. c \in Waiting' /\ \A i \in 1..Len(backlog) : backlog[i] \in Waiting'
    BY <1>3, <1>i DEF Waiting
  <2> QED
    BY <2>1, <2>2 DEF Waiting
<1>5. Queue'
  <2>1. Waiting' \cap open' = {}
    BY <1>1, <1>2, <1>4 DEF Queue
  <2>2. ASSUME NEW i \in 1..Len(backlog'), NEW j \in 1..Len(backlog'),
               backlog'[i] = backlog'[j]
        PROVE  i = j
    <3>1. CASE i \in 1..Len(backlog) /\ j \in 1..Len(backlog)
      BY <1>3, <2>2, <3>1 DEF Queue
    <3>2. CASE i \notin 1..Len(backlog) /\ j \notin 1..Len(backlog)
      BY <1>n, <3>2
    <3>3. \A k \in 1..Len(backlog) : backlog'[k] # c
      BY <1>2, <1>3 DEF Waiting
    <3>4. CASE i \in 1..Len(backlog) /\ j \notin 1..Len(backlog)
      BY <1>3, <1>n, <2>2, <3>3, <3>4
    <3>5. CASE i \notin 1..Len(backlog) /\ j \in 1..Len(backlog)
      BY <1>3, <1>n, <2>2, <3>3, <3>5
    <3> QED
      BY <3>1, <3>2, <3>4, <3>5
  <2> QED
    BY <2>1, <2>2 DEF Queue
<1>6. replies[c] = <<>>
  BY <1>2 DEF SentFirst, Sent
<1>7. Unanswered'
  BY <1>1, <1>4, <1>6 DEF Unanswered, Busy
<1>8. Shape' /\ SentFirst' /\ Apart' /\ OneReply'
  BY <1>1, <1>3 DEF SentFirst, Sent, Apart, OneReply
<1> QED
  BY <1>5, <1>7, <1>8

(* What is left to send gets shorter, so its client has sent something.     *)
LEMMA SendSegmentIInv ==
  ASSUME IInv, NEW c \in Clients, SendSegment(c)
  PROVE  IInv'
<1> USE DEF IInv, Shape
<1>1. PICK n \in 1..Len(todo[c]) :
        todo' = [todo EXCEPT ![c] = SubSeq(@, n + 1, Len(@))]
  <2>1. todo[c] # <<>> /\ todo[c] \in Seq(Units)
    BY DEF SendSegment
  <2>2. Len(todo[c]) \in 1..Len(todo[c])
    BY <2>1
  <2>3. PICK n \in IF "segments" \in Conduct THEN 1..Len(todo[c]) ELSE { Len(todo[c]) } :
          todo' = [todo EXCEPT ![c] = SubSeq(@, n + 1, Len(@))]
    BY DEF SendSegment
  <2>4. n \in 1..Len(todo[c])
    BY <2>2, <2>3
  <2> QED
    BY <2>3, <2>4
<1>2. /\ UNCHANGED << plan, backlog, open, replies, pc, client >>
      /\ DOMAIN wire' = Clients
      /\ \A d \in Clients \ { c } : wire'[d] = wire[d]
  BY DEF SendSegment, conns
<1>3. /\ todo'[c] \in Seq(Units) /\ Len(todo'[c]) = Len(todo[c]) - n
      /\ todo' \in [Clients -> Seq(Units)]
      /\ \A d \in Clients \ { c } : todo'[d] = todo[d]
  <2>1. /\ SubSeq(todo[c], n + 1, Len(todo[c])) \in Seq(Units)
        /\ Len(SubSeq(todo[c], n + 1, Len(todo[c]))) = Len(todo[c]) - n
    BY <1>1
  <2> QED
    BY <1>1, <2>1
<1>4. Len(todo[c]) \in Nat /\ Len(plan[c]) \in Nat /\ Len(todo[c]) <= Len(plan[c])
  BY DEF SentFirst
<1>5. Sent(c)' /\ \A d \in Clients : Sent(d) => Sent(d)'
  BY <1>1, <1>2, <1>3, <1>4 DEF Sent
<1>6. SentFirst'
  <2>1. \A d \in Clients : Len(todo'[d]) <= Len(plan'[d])
    <3>1. Len(todo'[c]) <= Len(plan'[c])
      BY <1>1, <1>2, <1>3, <1>4
    <3>2. \A d \in Clients \ { c } : Len(todo'[d]) <= Len(plan'[d])
      BY <1>2, <1>3 DEF SentFirst
    <3> QED
      BY <3>1, <3>2
  <2>2. \A d \in Clients : wire'[d] # <<>> \/ replies'[d] # <<>> => Sent(d)'
    BY <1>2, <1>5 DEF SentFirst
  <2>3. \A w \in Workers : pc'[w] \in { "body", "handle" } => Sent(client[w])'
    <3> SUFFICES ASSUME NEW w \in Workers, pc[w] \in { "body", "handle" }
                 PROVE  Sent(client[w])'
      BY <1>2
    <3>1. client[w] \in Clients
      BY DEF Unanswered, Busy
    <3>2. Sent(client[w])
      BY DEF SentFirst
    <3>3. Len(todo'[client[w]]) < Len(plan'[client[w]])
      BY <1>5, <3>1, <3>2 DEF Sent
    <3> QED
      BY <1>2, <3>3 DEF Sent
  <2> QED
    BY <1>2, <2>1, <2>2, <2>3 DEF SentFirst, Sent
<1>7. Shape' /\ Queue' /\ Unanswered' /\ Apart' /\ OneReply'
  BY <1>2, <1>3 DEF Queue, Waiting, Unanswered, Busy, Apart, OneReply
<1> QED
  BY <1>6, <1>7

(* A step that changes nothing the invariant reads.                         *)
LEMMA Elsewhere ==
  ASSUME IInv,
         UNCHANGED << plan, todo, wire, backlog, open, replies, pc, client >>
  PROVE  IInv'
BY DEF IInv, Shape, Queue, Waiting, Unanswered, Busy, SentFirst, Sent, Apart,
       OneReply

-----------------------------------------------------------------------------
(* The steps of a worker                                                    *)

(* The client is taken from the queue; nobody else serves it, since it was  *)
(* not open.                                                                *)
LEMMA AcceptIInv ==
  ASSUME IInv, NEW w \in Workers, Accept(w)
  PROVE  IInv'
<1> USE DEF IInv, Shape
<1> DEFINE c == Head(backlog)
<1>1. /\ backlog # <<>> /\ backlog' = Tail(backlog) /\ open' = open \cup { c }
      /\ client' = [client EXCEPT ![w] = c] /\ pc' = [pc EXCEPT ![w] = "recv"]
      /\ UNCHANGED << plan, todo, wire, replies >>
  BY DEF Accept, Goto
<1>2. Len(backlog) \in Nat \ {0} /\ c = backlog[1] /\ c \in Clients /\ c \in Waiting
  BY <1>1 DEF Waiting
<1>3. /\ backlog' \in Seq(Clients) /\ Len(backlog') = Len(backlog) - 1
      /\ \A i \in 1..Len(backlog') : backlog'[i] = backlog[i + 1]
  BY <1>1, <1>2
<1>n. ASSUME NEW i \in 1..Len(backlog') PROVE i \in Nat /\ i + 1 \in 2..Len(backlog)
  <2>1. Len(backlog) \in Nat /\ Len(backlog') = Len(backlog) - 1
    BY <1>2, <1>3
  <2> HIDE DEF c, IInv, Shape
  <2> QED
    BY <2>1
<1>4. Waiting' \subseteq Waiting \ { c }
  <2> SUFFICES ASSUME NEW i \in 1..Len(backlog')
               PROVE  backlog'[i] \in Waiting \ { c }
    BY DEF Waiting
  <2>1. i \in Nat /\ i + 1 \in 2..Len(backlog) /\ backlog'[i] = backlog[i + 1]
    <3> HIDE DEF c, IInv, Shape
    <3> QED
      BY <1>n, <1>3
  <2>2. backlog[i + 1] # backlog[1]
    BY <1>2, <2>1 DEF Queue
  <2> QED
    BY <1>2, <2>1, <2>2, SMTT(30) DEF Waiting
<1>5. c \notin open /\ replies[c] = <<>>
  BY <1>2 DEF Queue, Unanswered
<1>6. Queue'
  <2>1. Waiting' \cap open' = {}
    BY <1>1, <1>4 DEF Queue
  <2>2. ASSUME NEW i \in 1..Len(backlog'), NEW j \in 1..Len(backlog'),
               backlog'[i] = backlog'[j]
        PROVE  i = j
    <3>1. i + 1 \in 1..Len(backlog) /\ j + 1 \in 1..Len(backlog)
      BY <1>n
    <3>2. backlog[i + 1] = backlog[j + 1]
      BY <1>3, <2>2
    <3>3. i + 1 = j + 1
      BY <3>1, <3>2 DEF Queue
    <3> QED
      BY <1>n, <3>3
  <2> QED
    BY <2>1, <2>2 DEF Queue
<1>7. /\ client'[w] = c /\ pc'[w] = "recv"
      /\ \A v \in Workers \ { w } : client'[v] = client[v] /\ pc'[v] = pc[v]
  BY <1>1
<1>8. Unanswered'
  BY <1>1, <1>4, <1>5, <1>7 DEF Unanswered, Busy
<1>9. Apart'
  <2>1. \A v \in Workers : pc[v] # "accept" => client[v] # c
    BY <1>5 DEF Unanswered, Busy
  <2> SUFFICES ASSUME NEW u \in Workers, NEW v \in Workers, u # v,
                      pc'[u] # "accept", pc'[v] # "accept"
               PROVE  client'[u] # client'[v]
    BY DEF Apart
  <2>2. CASE u # w /\ v # w
    BY <1>7, <2>2 DEF Apart
  <2>3. CASE u = w
    BY <1>7, <2>1, <2>3
  <2>4. CASE v = w
    BY <1>7, <2>1, <2>4
  <2> QED
    BY <2>2, <2>3, <2>4
<1>10. Shape' /\ SentFirst' /\ OneReply'
  <2>1. Shape'
    BY <1>1, <1>2, <1>3
  <2>2. SentFirst'
    BY <1>1, <1>7 DEF SentFirst, Sent
  <2> QED
    BY <1>1, <2>1, <2>2 DEF OneReply
<1> QED
  BY <1>6, <1>8, <1>9, <1>10

(* The worker turns to the next client, having closed the socket or not,    *)
(* having answered or not.                                                  *)
LEMMA TurnAway ==
  ASSUME IInv, NEW w \in Workers, Busy(w), Sent(client[w]) \/ replies' = replies,
         pc' = [pc EXCEPT ![w] = "accept"], open' \in { open, open \ { client[w] } },
         replies' = replies
           \/ \E answer : replies' = [replies EXCEPT ![client[w]] = Append(@, answer)],
         DOMAIN wire' = DOMAIN wire,
         \A c \in Clients : wire'[c] # <<>> => wire[c] # <<>>,
         UNCHANGED << plan, todo, backlog, client >>
  PROVE  IInv'
<1> DEFINE c == client[w]
<1>1. c \in open /\ c \in Clients /\ replies[c] = <<>>
  BY DEF IInv, Unanswered, Shape
<1>2. /\ DOMAIN replies' = Clients
      /\ \A d \in Clients \ { c } : replies'[d] = replies[d]
      /\ replies'[c] = <<>> \/ (Sent(c) /\ Len(replies'[c]) = 1)
  <2>1. CASE replies' = replies
    BY <1>1, <2>1 DEF IInv, Shape
  <2>2. CASE replies' # replies
    <3>1. PICK answer : replies' = [replies EXCEPT ![c] = Append(@, answer)]
      BY <2>2
    <3>2. Len(Append(<<>>, answer)) = 1
      BY AppendOne
    <3>3. replies'[c] = Append(<<>>, answer)
      BY <1>1, <3>1 DEF IInv, Shape
    <3> QED
      BY <2>2, <3>1, <3>2, <3>3 DEF IInv, Shape
  <2> QED
    BY <2>1, <2>2
<1>3. Shape'
  BY <1>2 DEF IInv, Shape
<1>4. Queue' /\ Waiting' = Waiting /\ c \notin Waiting
  BY <1>1 DEF IInv, Queue, Waiting
<1>5. \A v \in Workers : pc'[v] # "accept" =>
        v # w /\ pc'[v] = pc[v] /\ client[v] # c /\ client[v] \in open
  BY DEF IInv, Shape, Apart, Unanswered, Busy
<1>6. Unanswered'
  <2>1. \A d \in Waiting' : replies'[d] = <<>>
    <3>1. Waiting \subseteq Clients
      BY DEF IInv, Shape, Waiting
    <3> QED
      BY <1>2, <1>4, <3>1 DEF IInv, Unanswered
  <2>2. \A v \in Workers : Busy(v)' => client'[v] \in open' /\ replies'[client'[v]] = <<>>
    <3> SUFFICES ASSUME NEW v \in Workers, pc'[v] # "accept"
                 PROVE  client[v] \in open' /\ replies'[client[v]] = <<>>
      BY DEF Busy
    <3>1. client[v] # c /\ client[v] \in open /\ client[v] \in Clients
      BY <1>5 DEF IInv, Shape
    <3>2. replies[client[v]] = <<>>
      BY <1>5 DEF IInv, Unanswered, Busy
    <3> QED
      BY <1>2, <3>1, <3>2
  <2> QED
    BY <2>1, <2>2 DEF Unanswered
<1>7. SentFirst'
  <2>1. \A d \in Clients : wire'[d] # <<>> \/ replies'[d] # <<>> => Sent(d)
    BY <1>2 DEF IInv, SentFirst
  <2>2. \A v \in Workers : pc'[v] \in { "body", "handle" } => Sent(client[v])
    BY <1>5 DEF IInv, SentFirst
  <2> QED
    BY <2>1, <2>2 DEF IInv, SentFirst, Sent
<1>8. Apart' /\ OneReply'
  <2>1. Len(<<>>) = 0
    OBVIOUS
  <2>2. OneReply'
    BY <1>2, <2>1 DEF IInv, OneReply
  <2>3. Apart'
    BY <1>5 DEF IInv, Apart
  <2> QED
    BY <2>2, <2>3
<1> QED
  BY <1>3, <1>4, <1>6, <1>7, <1>8 DEF IInv

(* The worker goes on with a client that has sent something.                *)
LEMMA GoOn ==
  ASSUME IInv, NEW w \in Workers, Busy(w), Sent(client[w]),
         NEW p \in { "body", "handle" }, pc' = [pc EXCEPT ![w] = p],
         DOMAIN wire' = DOMAIN wire,
         \A c \in Clients : wire'[c] # <<>> => wire[c] # <<>>,
         UNCHANGED << plan, todo, backlog, open, replies, client >>
  PROVE  IInv'
<1>1. pc'[w] = p /\ \A v \in Workers \ { w } : pc'[v] = pc[v]
  BY DEF IInv, Shape
<1>2. \A v \in Workers : Busy(v)' => Busy(v)
  BY <1>1 DEF Busy
<1>3. Shape'
  BY DEF IInv, Shape
<1>4. Queue' /\ Unanswered'
  BY <1>2 DEF IInv, Queue, Waiting, Unanswered
<1>5. SentFirst'
  BY <1>1 DEF IInv, SentFirst, Sent
<1>6. Apart' /\ OneReply'
  BY <1>2 DEF IInv, Apart, OneReply, Busy
<1> QED
  BY <1>3, <1>4, <1>5, <1>6 DEF IInv

(* Receiving something shows that it was sent; a line in error is answered  *)
(* at once, and the worker turns away.                                      *)
LEMMA ReceiveIInv ==
  ASSUME IInv, NEW w \in Workers, Receive(w)
  PROVE  IInv'
<1> DEFINE h == Parsed[Received(w)]
<1>1. Busy(w) /\ client[w] \in open /\ client[w] \in Clients
  BY DEF Receive, At, Busy, IInv, Unanswered, Shape
<1>2. Sent(client[w])
  BY <1>1 DEF Receive, IInv, SentFirst
<1>3. /\ UNCHANGED << plan, todo, backlog, open, client >>
      /\ DOMAIN wire' = DOMAIN wire
      /\ \A c \in Clients : wire'[c] # <<>> => wire[c] # <<>>
      /\ pc' = [pc EXCEPT ![w] = AfterParse(h)]
  BY DEF Receive, Goto
<1>4. CASE h.state = "REQ_BODY"
  <2>1. replies' = replies /\ AfterParse(h) = "body"
    BY <1>4 DEF Receive, AfterParse
  <2> QED
    BY <1>1, <1>2, <1>3, <2>1, GoOn
<1>5. CASE h.state = "REQ_DONE"
  <2>1. replies' = replies /\ AfterParse(h) = "handle"
    BY <1>5 DEF Receive, AfterParse
  <2> QED
    BY <1>1, <1>2, <1>3, <2>1, GoOn
<1>6. CASE h.state \notin { "REQ_BODY", "REQ_DONE" }
  <2>1. AfterParse(h) = "accept"
    BY <1>6 DEF AfterParse
  <2>2. \/ replies' = replies
        \/ \E answer : replies' = [replies EXCEPT ![client[w]] = Append(@, answer)]
    BY DEF Receive, Reply
  <2>3. pc' = [pc EXCEPT ![w] = "accept"] /\ open' \in { open, open \ { client[w] } }
    BY <1>3, <2>1
  <2> HIDE DEF h
  <2> QED
    BY <1>1, <1>2, <1>3, <2>2, <2>3, TurnAway
<1> QED
  BY <1>4, <1>5, <1>6

LEMMA ServingIInv ==
  ASSUME IInv, NEW w \in Workers, Serving(w)
  PROVE  IInv'
<1>1. CASE GiveUp(w)
  <2>1. /\ Busy(w) /\ pc' = [pc EXCEPT ![w] = "accept"] /\ open' = open \ { client[w] }
        /\ UNCHANGED << plan, todo, wire, backlog, replies, client >>
    BY <1>1 DEF GiveUp, At, Busy, Goto, CloseSocket, conns
  <2> QED
    BY <2>1, TurnAway
<1>2. CASE Receive(w)
  BY <1>2, ReceiveIInv
<1>3. CASE ReadBody(w)
  <2>1. /\ Busy(w) /\ Sent(client[w]) /\ pc[w] = "body" /\ pc' = pc
        /\ DOMAIN wire' = DOMAIN wire
        /\ UNCHANGED << plan, todo, backlog, open, replies, client >>
    BY <1>3 DEF ReadBody, At, Busy, IInv, SentFirst
  <2>2. \A c \in Clients : wire'[c] # <<>> => wire[c] # <<>>
    BY <1>3 DEF ReadBody
  <2>3. pc' = [pc EXCEPT ![w] = "body"]
    BY <2>1 DEF IInv, Shape
  <2> QED
    BY <2>1, <2>2, <2>3, GoOn
<1>4. CASE BodyNotThere(w)
  <2>1. /\ Busy(w) /\ Sent(client[w]) /\ pc' = [pc EXCEPT ![w] = "accept"]
        /\ replies' = [replies EXCEPT
                         ![client[w]] = Append(@, [code |-> "400", body |-> <<>>])]
        /\ UNCHANGED << plan, todo, wire, backlog, open, client >>
    BY <1>4 DEF BodyNotThere, At, Busy, Goto, Reply, sockets, IInv, SentFirst
  <2> QED
    BY <2>1, TurnAway
<1>5. CASE BodyEnds(w)
  BY <1>5, Elsewhere DEF BodyEnds, vars
<1>6. CASE BodyComplete(w)
  <2>1. /\ Busy(w) /\ Sent(client[w]) /\ pc' = [pc EXCEPT ![w] = "handle"]
        /\ UNCHANGED << plan, todo, wire, backlog, open, replies, client >>
    BY <1>6 DEF BodyComplete, At, Busy, Goto, sockets, IInv, SentFirst
  <2> QED
    BY <2>1, GoOn
<1>7. CASE Handle(w)
  <2>1. /\ Busy(w) /\ Sent(client[w]) /\ pc' = [pc EXCEPT ![w] = "accept"]
        /\ open' = open \ { client[w] }
        /\ UNCHANGED << plan, todo, wire, backlog, client >>
    BY <1>7 DEF Handle, At, Busy, Goto, CloseSocket, conns, IInv, SentFirst
  <2>2. \E answer : replies' = [replies EXCEPT ![client[w]] = Append(@, answer)]
    BY <1>7 DEF Handle, Reply
  <2> QED
    BY <2>1, <2>2, TurnAway
<1>8. CASE HandleDangling(w)
  BY <1>8, Elsewhere DEF HandleDangling, sockets, conns
<1> QED
  BY <1>1, <1>2, <1>3, <1>4, <1>5, <1>6, <1>7, <1>8 DEF Serving

LEMMA NextIInv == IInv /\ [Next]_vars => IInv'
<1> SUFFICES ASSUME IInv, [Next]_vars PROVE IInv'
  OBVIOUS
<1>1. ASSUME NEW w \in Workers, Accept(w) PROVE IInv'
  BY <1>1, AcceptIInv
<1>2. ASSUME NEW w \in Workers, Serving(w) PROVE IInv'
  BY <1>2, ServingIInv
<1>3. ASSUME NEW c \in Clients, ClientStep(c) PROVE IInv'
  <2>1. CASE Connect(c)
    BY <2>1, ConnectIInv
  <2>2. CASE SendSegment(c)
    BY <2>2, SendSegmentIInv
  <2>3. CASE Leave(c)
    BY <2>3, Elsewhere DEF Leave, conns
  <2> QED
    BY <1>3, <2>1, <2>2, <2>3 DEF ClientStep
<1>4. CASE Idle
  BY <1>4, Elsewhere DEF Idle, vars
<1>5. CASE UNCHANGED vars
  BY <1>5, Elsewhere DEF vars
<1> QED
  BY <1>1, <1>2, <1>3, <1>4, <1>5 DEF Next

-----------------------------------------------------------------------------
LEMMA Invariance == Spec => []IInv
BY InitIInv, NextIInv, PTL DEF Spec

(* No client is answered twice (mugshot.c:1131-1193), malformed requests,   *)
(* bodies that do not arrive, and clients that leave and come again         *)
(* included.                                                                *)
THEOREM OneReplyCorrect == Spec => []OneReply
<1>1. IInv => OneReply
  BY DEF IInv
<1> QED
  BY <1>1, Invariance, PTL

-----------------------------------------------------------------------------
(* From the client's units to the answer: what a worker has of a request is *)
(* what the client sent, in order, and goes into its buffer; and what that  *)
(* means for the verdict.                                                   *)

-----------------------------------------------------------------------------
(* What _mugshot_http_read makes of the lines it is given, whatever they    *)
(* are.                                                                     *)

(* The recursion of Parse has a solution: it is built a unit at a time.     *)
LEMMA StepsExist ==
  ASSUME NEW units, NEW L \in Nat
  PROVE  \E up : up = [n \in 0..L |-> IF n = 0 THEN Start
                                               ELSE ParseUnit(up[n - 1], units[n])]
<1> DEFINE Solves(up, m) ==
             up = [n \in 0..m |-> IF n = 0 THEN Start ELSE ParseUnit(up[n - 1], units[n])]
           S == { m \in 0..L : \E up : Solves(up, m) }
<1>1. 0 \in S
  <2>1. Solves([n \in 0..0 |-> Start], 0)
    OBVIOUS
  <2> HIDE DEF Solves
  <2> QED
    BY <2>1
<1>2. ASSUME NEW m \in 0..(L - 1), m \in S PROVE m + 1 \in S
  <2>1. PICK up : Solves(up, m)
    BY <1>2
  <2> DEFINE more == [n \in 0..(m + 1) |-> IF n <= m THEN up[n]
                                           ELSE ParseUnit(up[m], units[m + 1])]
  <2>2. ASSUME NEW n \in 0..(m + 1)
        PROVE  more[n] = IF n = 0 THEN Start ELSE ParseUnit(more[n - 1], units[n])
    <3>1. CASE n = 0
      BY <2>1, <3>1
    <3>2. CASE n \in 1..m
      <4>1. up[n] = ParseUnit(up[n - 1], units[n])
        BY <2>1, <3>2
      <4>2. more[n] = up[n] /\ more[n - 1] = up[n - 1]
        BY <3>2
      <4> QED
        BY <3>2, <4>1, <4>2
    <3>3. CASE n = m + 1
      <4>1. more[n] = ParseUnit(up[m], units[m + 1]) /\ more[n - 1] = up[m]
        BY <3>3
      <4> QED
        BY <3>3, <4>1
    <3> QED
      BY <3>1, <3>2, <3>3
  <2>3. Solves(more, m + 1)
    <3> HIDE DEF more
    <3>1. more = [n \in 0..(m + 1) |-> more[n]]
      BY DEF more
    <3> QED
      BY <2>2, <3>1
  <2> HIDE DEF more, Solves
  <2> QED
    BY <2>3
<1>3. 0..L \subseteq S
  <2> HIDE DEF S
  <2> QED
    BY <1>1, <1>2, IntervalInduction
<1> QED
  BY <1>3

(* What follows is proved along the units read so far.                      *)
Run(up, units) ==
  /\ up[0] = Start
  /\ \A n \in 1..Len(units) : up[n] = ParseUnit(up[n - 1], units[n])

LEMMA ParseRuns ==
  ASSUME NEW U, NEW units \in Seq(U)
  PROVE  \E up : Run(up, units) /\ Parse(units) = up[Len(units)]
<1> DEFINE L == Len(units)
           Solves(up) ==
             up = [n \in 0..L |-> IF n = 0 THEN Start ELSE ParseUnit(up[n - 1], units[n])]
           upto == CHOOSE up : Solves(up)
<1>1. L \in Nat
  OBVIOUS
<1>2. \E up : Solves(up)
  <2> HIDE DEF L
  <2> QED
    BY <1>1, StepsExist
<1>3. Solves(upto)
  <2> HIDE DEF Solves
  <2> QED
    BY <1>2
<1>4. Parse(units) = upto[L]
  BY DEF Parse
<1>5. Run(upto, units)
  <2> HIDE DEF upto
  <2> QED
    BY <1>1, <1>3 DEF Run
<1> QED
  BY <1>4, <1>5

-----------------------------------------------------------------------------
(* What has been read of a request, line by line                            *)

LEMMA LineKinds ==
  /\ DOMAIN LengthOf = { "length1", "length2", "length3" }
  /\ \A u \in DOMAIN LengthOf : LengthOf[u] \in 1..3
  /\ DOMAIN LengthOf \subseteq HeaderLines /\ HeaderLines \subseteq LineEnds
  /\ "request" \notin HeaderLines /\ "blank" \notin HeaderLines
  /\ { "request", "blank", "junk", "too_long", "crlf" } \subseteq LineEnds
  /\ "part" \notin LineEnds
BY DEF LengthOf, HeaderLines, LineEnds

(* One unit more                                                            *)
LEMMA LengthStep ==
  ASSUME NEW req, NEW n \in Nat \ {0}
  PROVE  DeclaredLength(req, n + 1) =
           IF req[n] \in DOMAIN LengthOf THEN LengthOf[req[n]] ELSE DeclaredLength(req, n)
<1>1. CASE req[n] \in DOMAIN LengthOf
  <2>1. n \in Lengths(req, n + 1) /\ \A j \in Lengths(req, n + 1) : j \in Int /\ j <= n
    BY <1>1 DEF Lengths
  <2>2. LastLength(req, n + 1) = n
    <3>1. \A i \in Lengths(req, n + 1) :
            (\A j \in Lengths(req, n + 1) : j <= i) => i = n
      BY <2>1
    <3> QED
      BY <2>1, <3>1 DEF LastLength
  <2>3. Lengths(req, n + 1) # {}
    BY <2>1
  <2>4. DeclaredLength(req, n + 1) = LengthOf[req[LastLength(req, n + 1)]]
    BY <2>3, Zenon DEF DeclaredLength
  <2> QED
    BY <1>1, <2>2, <2>4
<1>2. CASE req[n] \notin DOMAIN LengthOf
  <2>1. Lengths(req, n + 1) = Lengths(req, n)
    BY <1>2 DEF Lengths
  <2>2. LastLength(req, n + 1) = LastLength(req, n)
    BY <2>1, Zenon DEF LastLength
  <2>3. DeclaredLength(req, n + 1) = DeclaredLength(req, n)
    BY <2>1, <2>2, Zenon DEF DeclaredLength
  <2> QED
    BY <1>2, <2>3
<1> QED
  BY <1>1, <1>2

LEMMA HeadersFinite ==
  ASSUME NEW req, NEW k \in Int
  PROVE  IsFiniteSet(HeadersIn(req, k)) /\ Cardinality(HeadersIn(req, k)) \in Nat
<1>1. IsFiniteSet(1..(k - 1)) /\ HeadersIn(req, k) \subseteq 1..(k - 1)
  BY FS_Interval DEF HeadersIn
<1> QED
  BY <1>1, FS_Subset, FS_CardinalityType

LEMMA HeadersStep ==
  ASSUME NEW req, NEW n \in Nat \ {0}
  PROVE  Cardinality(HeadersIn(req, n + 1)) =
           Cardinality(HeadersIn(req, n)) + IF req[n] \in HeaderLines THEN 1 ELSE 0
<1>1. IsFiniteSet(HeadersIn(req, n)) /\ Cardinality(HeadersIn(req, n)) \in Nat
  BY HeadersFinite
<1>2. CASE req[n] \in HeaderLines
  <2>1. HeadersIn(req, n + 1) = HeadersIn(req, n) \cup { n }
    BY <1>2 DEF HeadersIn
  <2>2. n \notin HeadersIn(req, n)
    BY DEF HeadersIn
  <2> QED
    BY <1>1, <1>2, <2>1, <2>2, FS_AddElement
<1>3. CASE req[n] \notin HeaderLines
  <2>1. HeadersIn(req, n + 1) = HeadersIn(req, n)
    BY <1>3 DEF HeadersIn
  <2> QED
    BY <1>1, <1>3, <2>1
<1> QED
  BY <1>2, <1>3

(* The units before k are a request line and headers, not too many.         *)
RequestHead(req, k) ==
  \E first \in 1..(k - 1) :
    /\ req[first] = "request" /\ \A i \in 1..(first - 1) : req[i] \notin LineEnds
    /\ \A i \in (first + 1)..(k - 1) : req[i] \in LineEnds => req[i] \in HeaderLines

Counted(h, req, k) ==
  /\ h.content_length = DeclaredLength(req, k)
  /\ h.headers = Cardinality(HeadersIn(req, k)) /\ h.headers <= MaxHeaders

Heads == [ state : States, content_length : 0..3, body_start : Nat, headers : Nat, pos : Nat ]

(* What the parser's state says of the n units it has read.                 *)
Shows(h, req, n) ==
  /\ h \in Heads
  /\ h.state # "ERR" => h.pos = n
  /\ h.body_start <= n
  /\ h.state = "REQ_START" =>
       Counted(h, req, n + 1) /\ \A i \in 1..n : req[i] \notin LineEnds
  /\ h.state = "REQ_HEADERS" => Counted(h, req, n + 1) /\ RequestHead(req, n + 1)
  /\ h.state \in { "REQ_BODY", "REQ_DONE" } =>
       /\ h.body_start \in 1..n /\ req[h.body_start] = "blank"
       /\ Counted(h, req, h.body_start) /\ RequestHead(req, h.body_start)
       /\ \A i \in (h.body_start + 1)..n : req[i] \notin LineEnds
       /\ h.state = "REQ_BODY" <=> h.content_length > 0

LEMMA StartShows ==
  ASSUME NEW req
  PROVE  Shows(Start, req, 0)
<1>1. Lengths(req, 1) = {} /\ HeadersIn(req, 1) = {}
  BY DEF Lengths, HeadersIn
<1>2. DeclaredLength(req, 1) = 0 /\ Cardinality(HeadersIn(req, 1)) = 0
  BY <1>1, FS_EmptySet DEF DeclaredLength
<1>3. Start \in Heads
  BY DEF Start, Heads, States
<1> QED
  BY <1>2, <1>3, BoundsAssumption DEF Start, Shows, Counted

LEMMA HeadGrows ==
  ASSUME NEW req, NEW n \in Nat \ {0}, RequestHead(req, n),
         req[n] \in LineEnds => req[n] \in HeaderLines
  PROVE  RequestHead(req, n + 1)
<1>1. PICK first \in 1..(n - 1) :
        /\ req[first] = "request" /\ \A i \in 1..(first - 1) : req[i] \notin LineEnds
        /\ \A i \in (first + 1)..(n - 1) : req[i] \in LineEnds => req[i] \in HeaderLines
  BY DEF RequestHead
<1>2. \A i \in (first + 1)..n : req[i] \in LineEnds => req[i] \in HeaderLines
  <2> SUFFICES ASSUME NEW i \in (first + 1)..n
               PROVE  req[i] \in LineEnds => req[i] \in HeaderLines
    OBVIOUS
  <2>1. CASE i = n
    BY <2>1
  <2>2. CASE i # n
    <3>1. i \in (first + 1)..(n - 1)
      BY <2>2
    <3> QED
      BY <1>1, <3>1
  <2> QED
    BY <2>1, <2>2
<1>3. first \in 1..((n + 1) - 1) /\ (n + 1) - 1 = n
  OBVIOUS
<1> QED
  BY <1>1, <1>2, <1>3 DEF RequestHead

(* The outcomes of a line                                                   *)
LEMMA NextStates ==
  ASSUME NEW h, NEW line
  PROVE  /\ h.state = "REQ_START" /\ line = "request" => NextState(h, line) = "REQ_HEADERS"
         /\ h.state = "REQ_HEADERS" /\ line = "blank" =>
              NextState(h, line) = IF h.content_length > 0 THEN "REQ_BODY" ELSE "REQ_DONE"
         /\ h.state = "REQ_HEADERS" /\ line \in HeaderLines /\ h.headers < MaxHeaders =>
              NextState(h, line) = "REQ_HEADERS"
         /\ /\ ~(h.state = "REQ_START" /\ line = "request")
            /\ ~(h.state = "REQ_HEADERS" /\ line = "blank")
            /\ ~(h.state = "REQ_HEADERS" /\ line \in HeaderLines /\ h.headers < MaxHeaders)
            => NextState(h, line) = "ERR"
<1> DEFINE A == h.state = "REQ_START" /\ line = "request"
           B == h.state = "REQ_HEADERS" /\ line = "blank"
           C == h.state = "REQ_HEADERS" /\ line \in HeaderLines /\ h.headers < MaxHeaders
           long == h.content_length > 0
<1>1. NextState(h, line) =
        CASE A -> "REQ_HEADERS" [] B -> IF long THEN "REQ_BODY" ELSE "REQ_DONE"
          [] C -> "REQ_HEADERS" [] OTHER -> "ERR"
  BY DEF NextState
<1>2. ~(A /\ B) /\ ~(A /\ C) /\ ~(B /\ C)
  BY LineKinds
<1> HIDE DEF A, B, C, long
<1>3. /\ A => NextState(h, line) = "REQ_HEADERS"
      /\ B => NextState(h, line) = IF long THEN "REQ_BODY" ELSE "REQ_DONE"
      /\ C => NextState(h, line) = "REQ_HEADERS"
      /\ ~A /\ ~B /\ ~C => NextState(h, line) = "ERR"
  BY <1>1, <1>2
<1> QED
  BY <1>3 DEF A, B, C, long

(* One unit of the buffer, in every state of the parser                     *)
LEMMA UnitShows ==
  ASSUME NEW req, NEW n \in Nat \ {0}, NEW h, Shows(h, req, n - 1)
  PROVE  Shows(ParseUnit(h, req[n]), req, n)
<1> DEFINE u == req[n]
           g == ParseUnit(h, u)
<1> SUFFICES Shows(g, req, n)
  OBVIOUS
<1>n. n - 1 \in Nat /\ (n - 1) + 1 = n
  OBVIOUS
<1>h. h \in Heads /\ h.body_start <= n - 1
  BY DEF Shows
<1>1. CASE h.state = "ERR"
  <2>1. g = h
    BY <1>1 DEF ParseUnit
  <2> QED
    BY <1>1, <1>h, <2>1 DEF Shows, Heads
<1>2. CASE h.state # "ERR" /\ u \notin LineEnds
  <2>1. /\ g = [ h EXCEPT !.pos = n ] /\ g \in Heads
        /\ g.state = h.state /\ g.pos = n /\ g.body_start = h.body_start
        /\ g.content_length = h.content_length /\ g.headers = h.headers
    BY <1>2, <1>h, <1>n DEF ParseUnit, Shows, Heads
  <2>2. Counted(h, req, n) => Counted(g, req, n + 1)
    <3>1. u \notin DOMAIN LengthOf /\ u \notin HeaderLines
      BY <1>2, LineKinds
    <3>2. DeclaredLength(req, n + 1) = DeclaredLength(req, n)
      BY <3>1, LengthStep
    <3>3. Cardinality(HeadersIn(req, n + 1)) = Cardinality(HeadersIn(req, n))
      BY <3>1, HeadersStep, HeadersFinite
    <3> QED
      BY <2>1, <3>2, <3>3 DEF Counted
  <2>3. h.state = "REQ_START" =>
          Counted(g, req, n + 1) /\ \A i \in 1..n : req[i] \notin LineEnds
    BY <1>2, <1>n, <2>2 DEF Shows
  <2>4. h.state = "REQ_HEADERS" => Counted(g, req, n + 1) /\ RequestHead(req, n + 1)
    BY <1>2, <1>n, <2>2, HeadGrows DEF Shows
  <2>5. h.state \in { "REQ_BODY", "REQ_DONE" } =>
          /\ h.body_start \in 1..n /\ req[h.body_start] = "blank"
          /\ Counted(g, req, h.body_start) /\ RequestHead(req, h.body_start)
          /\ \A i \in (h.body_start + 1)..n : req[i] \notin LineEnds
          /\ h.state = "REQ_BODY" <=> h.content_length > 0
    <3> SUFFICES ASSUME h.state \in { "REQ_BODY", "REQ_DONE" }
                 PROVE  /\ h.body_start \in 1..n /\ req[h.body_start] = "blank"
                        /\ Counted(h, req, h.body_start) /\ RequestHead(req, h.body_start)
                        /\ \A i \in (h.body_start + 1)..n : req[i] \notin LineEnds
                        /\ h.state = "REQ_BODY" <=> h.content_length > 0
      BY <2>1 DEF Counted
    <3>1. h.body_start \in 1..(n - 1)
      BY DEF Shows
    <3>2. \A i \in (h.body_start + 1)..n : i = n \/ i \in (h.body_start + 1)..(n - 1)
      BY <3>1
    <3> QED
      BY <1>2, <3>1, <3>2 DEF Shows
  <2>6. g.body_start <= n
    BY <1>h, <2>1 DEF Heads
  <2> HIDE DEF g
  <2>7. g \in Heads /\ g.pos = n /\ g.state = h.state /\ g.body_start = h.body_start
        /\ g.content_length = h.content_length
    BY <2>1
  <2> QED
    BY <2>3, <2>4, <2>5, <2>6, <2>7 DEF Shows
<1>3. CASE h.state # "ERR" /\ u \in LineEnds
  <2>1. /\ g = ParseLine(h, u) /\ h.pos = n - 1 /\ g.state = NextState(h, u)
        /\ g.pos = n /\ g.state \in States
        /\ g.content_length = IF u \in DOMAIN LengthOf THEN LengthOf[u] ELSE h.content_length
        /\ g.headers = IF u \in HeaderLines THEN h.headers + 1 ELSE h.headers
        /\ g.body_start = IF h.state = "REQ_HEADERS" /\ u = "blank" THEN n ELSE h.body_start
    <3>1. g = ParseLine(h, u) /\ h.pos = n - 1
      BY <1>3 DEF ParseUnit, Shows
    <3>2. NextState(h, u) \in States
      BY NextStates, Zenon DEF States
    <3> QED
      BY <3>1, <3>2 DEF ParseLine
  <2>2. g \in Heads /\ g.body_start <= n
    <3>1. g.content_length \in 0..3 /\ g.headers \in Nat /\ g.body_start \in Nat
      BY <1>h, <2>1, LineKinds DEF Heads
    <3> QED
      BY <1>h, <2>1, <3>1 DEF ParseLine, Heads
  <2>3. Counted(h, req, n) /\ (u \in HeaderLines => h.headers < MaxHeaders) =>
          Counted(g, req, n + 1)
    <3>1. DeclaredLength(req, n + 1) =
            IF u \in DOMAIN LengthOf THEN LengthOf[u] ELSE DeclaredLength(req, n)
      BY LengthStep
    <3>2. Cardinality(HeadersIn(req, n + 1)) =
            Cardinality(HeadersIn(req, n)) + IF u \in HeaderLines THEN 1 ELSE 0
      BY HeadersStep
    <3>3. h.headers \in Nat
      BY <1>h DEF Heads
    <3> QED
      BY <2>1, <3>1, <3>2, <3>3, BoundsAssumption DEF Counted
  <2> DEFINE next == NextState(h, u)
  <2>n. /\ h.state = "REQ_START" /\ u = "request" => next = "REQ_HEADERS"
        /\ h.state = "REQ_HEADERS" /\ u = "blank" =>
             next = IF h.content_length > 0 THEN "REQ_BODY" ELSE "REQ_DONE"
        /\ h.state = "REQ_HEADERS" /\ u \in HeaderLines /\ h.headers < MaxHeaders =>
             next = "REQ_HEADERS"
        /\ /\ ~(h.state = "REQ_START" /\ u = "request")
           /\ ~(h.state = "REQ_HEADERS" /\ u = "blank")
           /\ ~(h.state = "REQ_HEADERS" /\ u \in HeaderLines /\ h.headers < MaxHeaders)
           => next = "ERR"
    BY NextStates, Zenon
  <2>s. g.state = next
    BY <2>1
  <2> HIDE DEF g, next
  <2>4. CASE h.state = "REQ_START" /\ u = "request"
    <3>1. g.state = "REQ_HEADERS"
      BY <2>n, <2>s, <2>4
    <3>2. Counted(h, req, n) /\ \A i \in 1..(n - 1) : req[i] \notin LineEnds
      BY <1>n, <2>4 DEF Shows
    <3>3. Counted(g, req, n + 1)
      BY <2>3, <2>4, <3>2, LineKinds
    <3>4. RequestHead(req, n + 1)
      <4>1. n \in 1..((n + 1) - 1) /\ (n + 1)..((n + 1) - 1) = {}
        OBVIOUS
      <4> QED
        BY <2>4, <3>2, <4>1 DEF RequestHead
    <3> QED
      BY <2>1, <2>2, <3>1, <3>3, <3>4 DEF Shows
  <2>5. CASE h.state = "REQ_HEADERS" /\ u = "blank"
    <3>1. g.state = IF h.content_length > 0 THEN "REQ_BODY" ELSE "REQ_DONE"
      BY <2>n, <2>s, <2>5
    <3>2. g.body_start = n /\ g.content_length = h.content_length /\ g.headers = h.headers
      BY <2>1, <2>5, LineKinds
    <3>3. Counted(h, req, n) /\ RequestHead(req, n)
      BY <1>n, <2>5 DEF Shows
    <3>4. Counted(g, req, n) /\ n \in 1..n /\ (n + 1)..n = {}
      BY <3>2, <3>3 DEF Counted
    <3> QED
      BY <2>1, <2>2, <2>5, <3>1, <3>2, <3>3, <3>4 DEF Shows
  <2>6. CASE h.state = "REQ_HEADERS" /\ u \in HeaderLines /\ h.headers < MaxHeaders
    <3>1. g.state = "REQ_HEADERS"
      BY <2>n, <2>s, <2>6
    <3>2. Counted(h, req, n) /\ RequestHead(req, n)
      BY <1>n, <2>6 DEF Shows
    <3>3. Counted(g, req, n + 1) /\ RequestHead(req, n + 1)
      BY <2>3, <2>6, <3>2, HeadGrows
    <3> QED
      BY <2>1, <2>2, <3>1, <3>3 DEF Shows
  <2>7. CASE /\ ~(h.state = "REQ_START" /\ u = "request")
             /\ ~(h.state = "REQ_HEADERS" /\ u = "blank")
             /\ ~(h.state = "REQ_HEADERS" /\ u \in HeaderLines /\ h.headers < MaxHeaders)
    <3>1. g.state = "ERR"
      BY <2>n, <2>s, <2>7
    <3> QED
      BY <2>2, <3>1 DEF Shows
  <2> QED
    BY <2>4, <2>5, <2>6, <2>7
<1> QED
  BY <1>1, <1>2, <1>3

(* Whatever is sent, the outcome of a read says no more than the units do.  *)
LEMMA ParseShows ==
  ASSUME NEW U, NEW units \in Seq(U)
  PROVE  Shows(Parse(units), units, Len(units))
<1>1. PICK up : Run(up, units) /\ Parse(units) = up[Len(units)]
  BY ParseRuns
<1> DEFINE L == Len(units)
           S == { n \in 0..L : Shows(up[n], units, n) }
<1>2. L \in Nat
  OBVIOUS
<1>3. 0 \in S
  BY <1>1, <1>2, StartShows DEF Run
<1>4. ASSUME NEW n \in 0..(L - 1), n \in S PROVE n + 1 \in S
  <2>1. n + 1 \in 1..L /\ n + 1 \in Nat \ {0} /\ (n + 1) - 1 = n
    BY <1>2
  <2>2. up[n + 1] = ParseUnit(up[n], units[n + 1])
    BY <1>1, <2>1 DEF Run
  <2> QED
    BY <1>4, <2>1, <2>2, UnitShows
<1>5. 0..L \subseteq S
  <2> HIDE DEF S, L
  <2> QED
    BY <1>2, <1>3, <1>4, IntervalInduction
<1> QED
  BY <1>1, <1>2, <1>5

-----------------------------------------------------------------------------
(* What a read says of the request it is the beginning of                   *)

LEMMA NothingDeclared ==
  ASSUME NEW req
  PROVE  DeclaredLength(req, 1) = 0
<1>1. Lengths(req, 1) = {}
  BY DEF Lengths
<1> QED
  BY <1>1 DEF DeclaredLength

LEMMA SameHead ==
  ASSUME NEW a, NEW b, NEW k \in Nat \ {0}, \A i \in 1..(k - 1) : a[i] = b[i]
  PROVE  /\ HeadersIn(a, k) = HeadersIn(b, k)
         /\ DeclaredLength(a, k) = DeclaredLength(b, k)
         /\ RequestHead(a, k) => RequestHead(b, k)
<1>1. HeadersIn(a, k) = HeadersIn(b, k)
  BY DEF HeadersIn
<1>2. DeclaredLength(a, k) = DeclaredLength(b, k)
  <2> DEFINE S == { n \in 0..(k - 1) : DeclaredLength(a, n + 1) = DeclaredLength(b, n + 1) }
  <2>1. 0 \in S
    BY NothingDeclared
  <2>2. ASSUME NEW n \in 0..((k - 1) - 1), n \in S PROVE n + 1 \in S
    <3>1. n + 1 \in 1..(k - 1) /\ n + 1 \in Nat \ {0} /\ a[n + 1] = b[n + 1]
      OBVIOUS
    <3>2. DeclaredLength(a, (n + 1) + 1) = DeclaredLength(b, (n + 1) + 1)
      BY <2>2, <3>1, LengthStep
    <3> QED
      BY <3>1, <3>2
  <2>3. 0..(k - 1) \subseteq S
    <3>1. k - 1 \in Nat
      OBVIOUS
    <3> HIDE DEF S
    <3> QED
      BY <3>1, <2>1, <2>2, IntervalInduction
  <2> QED
    <3>1. k - 1 \in S /\ (k - 1) + 1 = k
      BY <2>3
    <3> QED
      BY <3>1
<1>3. RequestHead(a, k) => RequestHead(b, k)
  BY DEF RequestHead
<1> QED
  BY <1>1, <1>2, <1>3

(* A complete head of a framed request is well-formed, and its length what  *)
(* the parser has read.                                                     *)
LEMMA HeadRead ==
  ASSUME NEW U, NEW req \in Seq(U), Framed(req),
         NEW units \in Seq(U), Len(units) <= Len(req),
         \A i \in 1..Len(units) : units[i] = req[i],
         NEW h, Shows(h, units, Len(units)), h.state \in { "REQ_BODY", "REQ_DONE" }
  PROVE  /\ h.body_start \in 1..Len(units) /\ HeadAndBody(req, h.body_start)
         /\ h.content_length = DeclaredLength(req, h.body_start)
         /\ h.state = "REQ_BODY" <=> h.content_length > 0
<1> DEFINE b == h.body_start
<1>1. PICK k \in 1..Len(req) : EndsHead(req, k)
  BY DEF Framed
<1>2. /\ b \in 1..Len(units) /\ units[b] = "blank"
      /\ Counted(h, units, b) /\ RequestHead(units, b)
      /\ h.state = "REQ_BODY" <=> h.content_length > 0
  BY DEF Shows
<1>l. Len(units) \in Nat /\ Len(req) \in Nat
  OBVIOUS
<1> HIDE DEF b
<1>3. b \in Nat \ {0} /\ \A i \in 1..b : units[i] = req[i]
  BY <1>2, <1>l
<1>4. /\ HeadersIn(req, b) = HeadersIn(units, b)
      /\ DeclaredLength(req, b) = DeclaredLength(units, b)
      /\ RequestHead(req, b)
  <2>1. \A i \in 1..(b - 1) : units[i] = req[i]
    BY <1>3
  <2> QED
    BY <1>2, <1>3, <2>1, SameHead
<1>5. PICK first \in 1..(b - 1) :
        /\ req[first] = "request" /\ \A i \in 1..(first - 1) : req[i] \notin LineEnds
        /\ \A i \in (first + 1)..(b - 1) : req[i] \in LineEnds => req[i] \in HeaderLines
  BY <1>4 DEF RequestHead
<1>6. b = k
  <2>1. ~(b < k)
    <3> SUFFICES ASSUME b < k PROVE FALSE
      OBVIOUS
    <3>1. b \in 1..(k - 1) /\ req[b] = "blank"
      BY <1>2, <1>3
    <3> QED
      BY <1>1, <3>1, LineKinds DEF EndsHead
  <2>2. ~(k < b)
    <3> SUFFICES ASSUME k < b PROVE FALSE
      OBVIOUS
    <3>1. req[k] = "blank" /\ req[k] \in LineEnds /\ req[k] \notin HeaderLines
      BY <1>1, LineKinds DEF EndsHead
    <3>2. k \in 1..(first - 1) \/ k = first \/ k \in (first + 1)..(b - 1)
      BY <1>3, <1>5
    <3> QED
      BY <1>5, <3>1, <3>2
  <2> QED
    BY <1>3, <2>1, <2>2
<1>7. ASSUME NEW i \in 1..(k - 1), req[i] \notin LineEnds PROVE req[i] = "part"
  BY <1>1, <1>7, LineKinds DEF EndsHead
<1>8. HeadAndBody(req, k)
  <2>1. req[k] = "blank" /\ Len(req) = k + DeclaredLength(req, k)
    BY <1>1 DEF EndsHead
  <2>2. Cardinality(HeadersIn(req, k)) <= MaxHeaders
    BY <1>2, <1>4, <1>6 DEF Counted
  <2>3. \A i \in 1..(first - 1) : req[i] = "part"
    <3>1. \A i \in 1..(first - 1) : i \in 1..(k - 1)
      BY <1>5, <1>6
    <3> QED
      BY <1>5, <1>7, <3>1
  <2>4. \A i \in (first + 1)..(k - 1) : req[i] \in HeaderLines \cup { "part" }
    <3>1. \A i \in (first + 1)..(k - 1) : i \in 1..(k - 1)
      BY <1>5
    <3> QED
      BY <1>5, <1>6, <1>7, <3>1
  <2> QED
    BY <1>5, <1>6, <2>1, <2>2, <2>3, <2>4 DEF HeadAndBody
<1>9. h.content_length = DeclaredLength(req, k)
  BY <1>2, <1>4, <1>6 DEF Counted
<1> QED
  BY <1>2, <1>6, <1>8, <1>9 DEF b

-----------------------------------------------------------------------------
(* A well-formed request that is read whole                                 *)

LEMMA HeadUnique ==
  ASSUME NEW req, NEW j \in Nat, NEW k \in Nat, HeadAndBody(req, j), HeadAndBody(req, k)
  PROVE  j = k
<1>1. ASSUME NEW m \in Nat, NEW n \in Nat, HeadAndBody(req, m), HeadAndBody(req, n)
      PROVE  ~(m < n)
  <2> SUFFICES ASSUME m < n PROVE FALSE
    OBVIOUS
  <2>1. PICK first \in 1..(n - 1) :
          /\ req[first] = "request" /\ \A i \in 1..(first - 1) : req[i] = "part"
          /\ \A i \in (first + 1)..(n - 1) : req[i] \in HeaderLines \cup { "part" }
    BY <1>1 DEF HeadAndBody
  <2>2. req[m] = "blank" /\ m \in 1..(n - 1)
    <3>1. m # 0
      BY <1>1 DEF HeadAndBody
    <3> QED
      BY <1>1, <3>1 DEF HeadAndBody
  <2>3. m \in 1..(first - 1) \/ m = first \/ m \in (first + 1)..(n - 1)
    BY <2>1, <2>2
  <2> QED
    BY <2>1, <2>2, <2>3, LineKinds
<1>2. ~(j < k) /\ ~(k < j)
  BY <1>1
<1> QED
  BY <1>2

LEMMA BodyIs ==
  ASSUME NEW req, Len(req) \in Nat, NEW k \in 1..Len(req), HeadAndBody(req, k)
  PROVE  BodyOf(req) = SubSeq(req, k + 1, Len(req))
<1>1. \A i \in 1..Len(req) : HeadAndBody(req, i) => i = k
  BY HeadUnique
<1>2. (CHOOSE i \in 1..Len(req) : HeadAndBody(req, i)) = k
  BY <1>1
<1> QED
  BY <1>2, Zenon DEF BodyOf

(* What does not complete a line is skipped.                                *)
LEMMA PlainUnit ==
  ASSUME NEW h \in Heads, h.state # "ERR", NEW u, u \notin LineEnds
  PROVE  ParseUnit(h, u).state = h.state
<1>1. ParseUnit(h, u) = [ h EXCEPT !.pos = @ + 1 ]
  BY DEF ParseUnit
<1> QED
  BY <1>1 DEF Heads

LEMMA LineUnit ==
  ASSUME NEW h, h.state # "ERR", NEW u \in LineEnds
  PROVE  ParseUnit(h, u).state = NextState(h, u)
<1>1. ParseUnit(h, u) = ParseLine(h, u)
  BY DEF ParseUnit
<1> QED
  BY <1>1 DEF ParseLine

LEMMA WholeParse ==
  ASSUME NEW U, NEW req \in Seq(U), NEW k \in 1..Len(req), HeadAndBody(req, k),
         PlainBody(req)
  PROVE  Parse(req).state \in { "REQ_BODY", "REQ_DONE" }
<1>1. PICK up : Run(up, req) /\ Parse(req) = up[Len(req)]
  BY ParseRuns
<1>2. PICK first \in 1..(k - 1) :
        /\ req[first] = "request" /\ \A i \in 1..(first - 1) : req[i] = "part"
        /\ \A i \in (first + 1)..(k - 1) : req[i] \in HeaderLines \cup { "part" }
  BY DEF HeadAndBody
<1>3. req[k] = "blank" /\ \A i \in (k + 1)..Len(req) : req[i] \notin LineEnds
  BY DEF HeadAndBody, PlainBody
<1> DEFINE L == Len(req)
           On(n) == IF n < first THEN { "REQ_START" }
                    ELSE IF n < k THEN { "REQ_HEADERS" } ELSE { "REQ_BODY", "REQ_DONE" }
           S == { n \in 0..L : Shows(up[n], req, n) /\ up[n].state \in On(n) }
<1>4. L \in Nat /\ k \in 1..L /\ first \in 1..(k - 1)
  OBVIOUS
<1> HIDE DEF L
<1>5. 0 \in S
  <2>1. up[0] = Start /\ Start.state = "REQ_START"
    BY <1>1 DEF Run, Start
  <2>2. 0 < first /\ 0 \in 0..L
    BY <1>4
  <2> QED
    BY <2>1, <2>2, StartShows
<1>6. ASSUME NEW n \in 0..(L - 1), n \in S PROVE n + 1 \in S
  <2> DEFINE h == up[n]
             u == req[n + 1]
  <2>1. /\ n + 1 \in 1..L /\ n + 1 \in 0..L /\ n \in Nat /\ n + 1 \in Nat \ {0}
        /\ (n + 1) - 1 = n
    BY <1>4
  <2>2. /\ up[n + 1] = ParseUnit(h, u) /\ Shows(h, req, n) /\ h.state \in On(n)
        /\ h \in Heads
    BY <1>1, <1>6, <2>1 DEF Run, L, Shows
  <2>3. Shows(ParseUnit(h, u), req, n + 1)
    BY <2>1, <2>2, UnitShows
  <2>4. h.state # "ERR"
    BY <2>2
  <2>5. ParseUnit(h, u).state \in On(n + 1)
    <3> HIDE DEF h, S
    <3>1. CASE n + 1 < first
      <4>1. u = "part" /\ n < first
        BY <1>2, <1>4, <2>1, <3>1
      <4> QED
        BY <2>2, <2>4, <3>1, <4>1, PlainUnit, LineKinds
    <3>2. CASE n + 1 = first
      <4>1. u = "request" /\ n < first /\ ~(n + 1 < first) /\ n + 1 < k
        BY <1>2, <1>4, <2>1, <3>2
      <4>2. u \in LineEnds
        BY <4>1, LineKinds
      <4>3. h.state = "REQ_START"
        BY <2>2, <4>1
      <4>4. NextState(h, u) = "REQ_HEADERS"
        BY <4>1, <4>3, NextStates
      <4> QED
        BY <2>4, <4>1, <4>2, <4>4, LineUnit
    <3>3. CASE n + 1 \in (first + 1)..(k - 1)
      <4>1. /\ u \in HeaderLines \cup { "part" } /\ ~(n < first) /\ n < k
            /\ ~(n + 1 < first) /\ n + 1 < k
        BY <1>2, <1>4, <2>1, <3>3
      <4>2. h.state = "REQ_HEADERS"
        BY <2>2, <4>1
      <4>3. CASE u = "part"
        BY <2>2, <2>4, <4>1, <4>2, <4>3, PlainUnit, LineKinds
      <4>4. CASE u \in HeaderLines
        <5>1. h.headers < MaxHeaders
          <6> DEFINE count(m) == Cardinality(HeadersIn(req, m))
          <6>1. count((n + 1) + 1) = count(n + 1) + 1
            BY <2>1, <4>4, HeadersStep
          <6>2. count((n + 1) + 1) <= count(k)
            <7>1. HeadersIn(req, (n + 1) + 1) \subseteq HeadersIn(req, k)
              BY <1>4, <2>1, <4>1 DEF HeadersIn
            <7>2. IsFiniteSet(HeadersIn(req, k))
              BY HeadersFinite
            <7> QED
              BY <7>1, <7>2, FS_Subset
          <6>3. count(k) <= MaxHeaders
            BY DEF HeadAndBody
          <6>4. h.headers = count(n + 1) /\ count(n + 1) \in Nat /\ count(k) \in Nat
            BY <2>1, <2>2, <4>2, HeadersFinite DEF Shows, Counted
          <6> HIDE DEF count
          <6> QED
            BY <6>1, <6>2, <6>3, <6>4, BoundsAssumption
        <5>2. NextState(h, u) = "REQ_HEADERS"
          BY <4>2, <4>4, <5>1, NextStates
        <5>3. u \in LineEnds
          BY <4>4, LineKinds
        <5> QED
          BY <2>4, <4>1, <5>2, <5>3, LineUnit
      <4> QED
        BY <4>1, <4>3, <4>4
    <3>4. CASE n + 1 = k
      <4>1. u = "blank" /\ ~(n < first) /\ n < k /\ ~(n + 1 < first) /\ ~(n + 1 < k)
        BY <1>3, <1>4, <2>1, <3>4
      <4>2. h.state = "REQ_HEADERS" /\ u \in LineEnds
        BY <2>2, <4>1, LineKinds
      <4>3. NextState(h, u) \in { "REQ_BODY", "REQ_DONE" }
        BY <4>1, <4>2, NextStates
      <4> QED
        BY <2>4, <4>1, <4>2, <4>3, LineUnit
    <3>5. CASE n + 1 > k
      <4>1. u \notin LineEnds /\ ~(n < first) /\ ~(n < k) /\ ~(n + 1 < first) /\ ~(n + 1 < k)
        BY <1>3, <1>4, <2>1, <3>5 DEF L
      <4> QED
        BY <2>2, <2>4, <4>1, PlainUnit
    <3>6. n + 1 < first \/ n + 1 = first \/ n + 1 \in (first + 1)..(k - 1) \/ n + 1 = k \/ n + 1 > k
      BY <1>4, <2>1
    <3> QED
      BY <3>1, <3>2, <3>3, <3>4, <3>5, <3>6
  <2> QED
    BY <2>1, <2>2, <2>3, <2>5
<1>7. 0..L \subseteq S
  <2> HIDE DEF S
  <2> QED
    BY <1>4, <1>5, <1>6, IntervalInduction
<1>8. up[L].state \in On(L) /\ ~(L < first) /\ ~(L < k)
  BY <1>4, <1>7
<1> QED
  BY <1>1, <1>8 DEF L

-----------------------------------------------------------------------------
(* Every request, every segmentation                                        *)

Types ==
  /\ plan \in [Clients -> Requests] /\ wire \in [Clients -> Seq(Units)]
  /\ gone \subseteq Clients /\ client \in [Workers -> Clients \cup { None }]
  /\ head \in [Workers -> Heads] /\ buf \in [Workers -> Seq(Units)]
  /\ buf_len \in [Workers -> Nat] /\ capacity \in [Workers -> Nat]
  /\ body_read \in [Workers -> Nat] /\ dangling \in [Workers -> BOOLEAN]
  /\ process \in { "up", "aborted" }

(* How much of a client's request workers have taken from the socket.       *)
Taken(c) == Len(plan[c]) - Len(todo[c]) - Len(wire[c])

(* What is on its way, and what is still to be sent, are the next units of  *)
(* the request.                                                             *)
InOrder(c) ==
  /\ Taken(c) >= 0
  /\ \A i \in 1..Len(wire[c]) : wire[c][i] = plan[c][Taken(c) + i]
  /\ \A i \in 1..Len(todo[c]) : todo[c][i] = plan[c][Taken(c) + Len(wire[c]) + i]

(* A worker's first recv gets the beginning of a request; where it reads a  *)
(* body, the space behind buf_len is enough for what is missing.            *)
Room(w) ==
  /\ Len(buf[w]) <= capacity[w] /\ Capacity <= capacity[w]
  /\ pc[w] = "recv" => Taken(client[w]) = 0
  /\ pc[w] = "body" =>
       /\ head[w].body_start <= buf_len[w] /\ buf_len[w] <= Len(buf[w])
       /\ buf_len[w] - head[w].body_start <= body_read[w]
       /\ Needed(head[w]) <= capacity[w]

Flow ==
  /\ Types
  /\ \A c \in Clients : InOrder(c)
  /\ \A c \in Waiting : Taken(c) = 0
  /\ \A w \in Workers : Room(w)

(* Sequences have lengths.                                                  *)
LEMMA Lens ==
  ASSUME IInv, Types, NEW c \in Clients
  PROVE  /\ plan[c] \in Seq(Units) /\ todo[c] \in Seq(Units) /\ wire[c] \in Seq(Units)
         /\ Len(plan[c]) \in Nat /\ Len(todo[c]) \in Nat /\ Len(wire[c]) \in Nat
         /\ Taken(c) \in Int
BY DEF IInv, Shape, Types, Taken

LEMMA InitFlow == Init => Flow
<1> SUFFICES ASSUME Init PROVE Flow
  OBVIOUS
<1>0. IInv
  BY InitIInv
<1>1. Types
  <2>1. Start \in Heads
    BY DEF Start, Heads, States
  <2>2. <<>> \in Seq(Units)
    OBVIOUS
  <2> QED
    BY <2>1, <2>2, BoundsAssumption DEF Init, Types
<1>2. ASSUME NEW c \in Clients PROVE Taken(c) = 0 /\ InOrder(c)
  <2>1. /\ Len(plan[c]) \in Nat /\ todo[c] = plan[c]
        /\ Len(todo[c]) = Len(plan[c]) /\ Len(wire[c]) = 0
    BY <1>0, <1>1, Lens DEF Init
  <2>2. Taken(c) = 0
    BY <2>1 DEF Taken
  <2> QED
    BY <2>1, <2>2 DEF InOrder
<1>3. Waiting \subseteq Clients
  BY <1>0 DEF IInv, Shape, Waiting
<1>4. ASSUME NEW w \in Workers PROVE Room(w)
  <2>1. Len(<<>>) = 0 /\ pc[w] = "accept" /\ buf[w] = <<>> /\ capacity[w] = Capacity
    BY <1>4 DEF Init
  <2> QED
    BY <2>1, BoundsAssumption DEF Room
<1> QED
  BY <1>1, <1>2, <1>3, <1>4 DEF Flow

-----------------------------------------------------------------------------
(* What a step does to the units on their way                               *)

LEMMA Untouched ==
  ASSUME Flow, NEW d \in Clients,
         wire'[d] = wire[d] /\ todo'[d] = todo[d] /\ plan'[d] = plan[d]
  PROVE  Taken(d)' = Taken(d) /\ InOrder(d)'
<1>1. Taken(d)' = Taken(d)
  BY DEF Taken
<1>2. InOrder(d)'
  <2>1. InOrder(d)
    BY DEF Flow
  <2> QED
    BY <1>1, <2>1, Zenon DEF InOrder
<1> QED
  BY <1>1, <1>2

LEMMA SentOn ==
  ASSUME IInv, Flow, NEW c \in Clients, SendSegment(c)
  PROVE  /\ wire' \in [Clients -> Seq(Units)]
         /\ \A d \in Clients : Taken(d)' = Taken(d) /\ InOrder(d)'
<1> DEFINE L == Len(todo[c])
           M == Len(wire[c])
<1>1. todo[c] \in Seq(Units) /\ wire[c] \in Seq(Units) /\ L \in Nat /\ M \in Nat
  BY Lens DEF Flow
<1>2. PICK n \in 1..L :
        /\ wire' = [wire EXCEPT ![c] = @ \o SubSeq(todo[c], 1, n)]
        /\ todo' = [todo EXCEPT ![c] = SubSeq(@, n + 1, Len(@))]
  <2>1. L # 0
    BY <1>1 DEF SendSegment
  <2>2. PICK n \in IF "segments" \in Conduct THEN 1..L ELSE { L } :
          /\ wire' = [wire EXCEPT ![c] = @ \o SubSeq(todo[c], 1, n)]
          /\ todo' = [todo EXCEPT ![c] = SubSeq(@, n + 1, Len(@))]
    BY DEF SendSegment
  <2>3. n \in 1..L
    BY <1>1, <2>1, <2>2
  <2> QED
    BY <2>2, <2>3
<1>3. plan' = plan
  BY DEF SendSegment
<1> DEFINE moved == SubSeq(todo[c], 1, n)
           left  == SubSeq(todo[c], n + 1, L)
<1>4. /\ moved \in Seq(Units) /\ Len(moved) = n /\ \A i \in 1..n : moved[i] = todo[c][i]
      /\ left \in Seq(Units) /\ Len(left) = L - n
      /\ \A i \in 1..(L - n) : left[i] = todo[c][n + i]
  BY <1>1
<1>5. wire'[c] = wire[c] \o moved /\ todo'[c] = left
  BY <1>2 DEF IInv, Shape, Flow, Types
<1>6. /\ wire'[c] \in Seq(Units) /\ Len(wire'[c]) = M + n
      /\ \A i \in 1..M : wire'[c][i] = wire[c][i]
      /\ \A i \in (M + 1)..(M + n) : wire'[c][i] = moved[i - M]
  <2> DEFINE w == wire[c]
  <2>1. w \in Seq(Units) /\ Len(w) = M
    BY <1>1
  <2> HIDE DEF moved, left, M, w
  <2>2. /\ w \o moved \in Seq(Units) /\ Len(w \o moved) = M + n
        /\ \A i \in 1..M : (w \o moved)[i] = w[i]
        /\ \A i \in (M + 1)..(M + n) : (w \o moved)[i] = moved[i - M]
    <3>1. /\ w \o moved \in Seq(Units) /\ Len(w \o moved) = Len(w) + Len(moved)
          /\ \A i \in 1..(Len(w) + Len(moved)) :
               (w \o moved)[i] = IF i <= Len(w) THEN w[i] ELSE moved[i - Len(w)]
      BY <1>4, <2>1, ConcatProperties
    <3>2. Len(w) = M /\ Len(moved) = n /\ M \in Nat /\ n \in Nat
      BY <1>1, <1>4, <2>1
    <3> QED
      BY <3>1, <3>2
  <2> QED
    BY <1>5, <2>2 DEF w
<1>7. \A d \in Clients \ { c } : wire'[d] = wire[d] /\ todo'[d] = todo[d]
  BY <1>2 DEF IInv, Shape, Flow, Types
<1>8. wire' \in [Clients -> Seq(Units)]
  BY <1>2, <1>5, <1>6 DEF Flow, Types
<1>9. ASSUME NEW d \in Clients PROVE Taken(d)' = Taken(d) /\ InOrder(d)'
  <2>1. CASE d # c
    <3>1. wire'[d] = wire[d] /\ todo'[d] = todo[d] /\ plan'[d] = plan[d]
      BY <1>3, <1>7, <2>1
    <3> QED
      BY <3>1, Untouched
  <2>2. CASE d = c
    <3> DEFINE t == Taken(c)
    <3>1. /\ t \in Nat
          /\ \A i \in 1..M : wire[c][i] = plan[c][t + i]
          /\ \A i \in 1..L : todo[c][i] = plan[c][t + M + i]
      BY Lens DEF Flow, InOrder
    <3>2. Taken(c)' = t
      <4>1. Len(todo'[c]) = L - n /\ Len(wire'[c]) = M + n /\ Len(plan[c]) \in Nat
        BY <1>4, <1>5, <1>6, Lens DEF Flow
      <4> QED
        BY <1>1, <1>3, <4>1 DEF Taken
    <3> HIDE DEF t, moved, left, L, M
    <3>3. \A i \in 1..(M + n) : wire'[c][i] = plan[c][t + i]
      <4> SUFFICES ASSUME NEW i \in 1..(M + n) PROVE wire'[c][i] = plan[c][t + i]
        OBVIOUS
      <4>1. CASE i \in 1..M
        BY <1>6, <3>1, <4>1
      <4>2. CASE i \in (M + 1)..(M + n)
        <5>1. i - M \in 1..n /\ i - M \in 1..L /\ t + M + (i - M) = t + i
          BY <1>1, <1>2, <3>1, <4>2
        <5>2. wire'[c][i] = todo[c][i - M]
          BY <1>4, <1>6, <4>2, <5>1
        <5> QED
          BY <3>1, <5>1, <5>2
      <4> QED
        BY <1>1, <4>1, <4>2
    <3>4. \A i \in 1..(L - n) : left[i] = plan[c][t + (M + n) + i]
      <4> SUFFICES ASSUME NEW i \in 1..(L - n) PROVE left[i] = plan[c][t + (M + n) + i]
        OBVIOUS
      <4>1. n + i \in 1..L /\ t + M + (n + i) = t + (M + n) + i
        BY <1>1, <1>2, <3>1
      <4> QED
        BY <1>4, <3>1, <4>1
    <3>5. Len(wire'[c]) = M + n /\ Len(todo'[c]) = L - n /\ todo'[c] = left /\ plan' = plan
      BY <1>3, <1>4, <1>5, <1>6
    <3>6. InOrder(c)'
      BY <3>1, <3>2, <3>3, <3>4, <3>5 DEF InOrder
    <3> QED
      BY <2>2, <3>2, <3>6 DEF t
  <2> QED
    BY <2>1, <2>2
<1> QED
  BY <1>8, <1>9

(* A worker takes n units from the socket of c.                             *)
LEMMA TakenOff ==
  ASSUME IInv, Flow, NEW c \in Clients, NEW n \in 0..Len(wire[c]),
         wire' = [wire EXCEPT ![c] = SubSeq(@, n + 1, Len(@))], UNCHANGED << plan, todo >>
  PROVE  /\ wire' \in [Clients -> Seq(Units)]
         /\ Taken(c)' = Taken(c) + n
         /\ \A d \in Clients \ { c } : Taken(d)' = Taken(d)
         /\ \A d \in Clients : InOrder(d)'
<1> DEFINE L == Len(todo[c])
           M == Len(wire[c])
           t == Taken(c)
           left == SubSeq(wire[c], n + 1, M)
<1>1. wire[c] \in Seq(Units) /\ L \in Nat /\ M \in Nat /\ Len(plan[c]) \in Nat
  BY Lens DEF Flow
<1>2. left \in Seq(Units) /\ Len(left) = M - n /\ \A i \in 1..(M - n) : left[i] = wire[c][n + i]
  BY <1>1
<1>3. wire'[c] = left /\ \A d \in Clients \ { c } : wire'[d] = wire[d]
  BY DEF Flow, Types
<1>4. wire' \in [Clients -> Seq(Units)]
  BY <1>2, <1>3 DEF Flow, Types
<1>5. /\ t \in Nat
      /\ \A i \in 1..M : wire[c][i] = plan[c][t + i]
      /\ \A i \in 1..L : todo[c][i] = plan[c][t + M + i]
  BY Lens DEF Flow, InOrder
<1>6. Taken(c)' = t + n
  <2> DEFINE P == Len(plan[c])
  <2>1. Taken(c)' = P - L - Len(wire'[c]) /\ t = P - L - M
    BY DEF Taken
  <2>2. Len(wire'[c]) = M - n
    BY <1>2, <1>3
  <2>3. P \in Nat /\ n \in Int
    BY <1>1
  <2>4. L \in Nat /\ M \in Nat
    BY <1>1
  <2> HIDE DEF P, L, M, t
  <2>5. P - L - (M - n) = (P - L - M) + n
    BY <2>3, <2>4
  <2> QED
    BY <2>1, <2>2, <2>5, Zenon
<1>7. ASSUME NEW d \in Clients \ { c } PROVE Taken(d)' = Taken(d) /\ InOrder(d)'
  <2>1. wire'[d] = wire[d] /\ todo'[d] = todo[d] /\ plan'[d] = plan[d]
    BY <1>3
  <2> QED
    BY <2>1, Untouched
<1>8. InOrder(c)'
  <2> HIDE DEF t, left, L, M
  <2>n. n \in 0..M
    BY DEF M
  <2>1. \A i \in 1..(M - n) : left[i] = plan[c][(t + n) + i]
    <3> SUFFICES ASSUME NEW i \in 1..(M - n) PROVE left[i] = plan[c][(t + n) + i]
      OBVIOUS
    <3>1. n + i \in 1..M /\ t + (n + i) = (t + n) + i
      BY <1>1, <1>5, <2>n
    <3> QED
      BY <1>2, <1>5, <3>1
  <2>2. \A i \in 1..L : todo[c][i] = plan[c][(t + n) + (M - n) + i]
    <3>1. \A i \in 1..L : (t + n) + (M - n) + i = t + M + i
      BY <1>1, <1>5, <2>n
    <3> QED
      BY <1>5, <3>1
  <2>3. t + n >= 0
    BY <1>5, <2>n
  <2> QED
    BY <1>2, <1>3, <1>6, <2>1, <2>2, <2>3 DEF InOrder, L
<1> QED
  BY <1>4, <1>6, <1>7, <1>8

-----------------------------------------------------------------------------
(* What a step does to the buffers                                          *)

(* What a recv writes over, or behind, the end of a buffer                  *)
LEMMA Overwritten ==
  ASSUME NEW U, NEW b \in Seq(U), NEW s \in Seq(U), NEW from \in 0..Len(b)
  PROVE  /\ Overwrite(b, from, s) \in Seq(U)
         /\ Len(b) <= Len(Overwrite(b, from, s))
         /\ Len(Overwrite(b, from, s)) <= Len(b) \/ Len(Overwrite(b, from, s)) = from + Len(s)
<1> DEFINE first == SubSeq(b, 1, from)
           last == SubSeq(b, from + Len(s) + 1, Len(b))
           rest == IF from + Len(s) <= Len(b) THEN Len(b) - (from + Len(s)) ELSE 0
<1>1. Len(b) \in Nat /\ Len(s) \in Nat /\ from \in Nat
  OBVIOUS
<1>2. first \in Seq(U) /\ Len(first) = from
  OBVIOUS
<1>3. last \in Seq(U) /\ Len(last) = rest
  <2>1. \A i \in (from + Len(s) + 1)..Len(b) : b[i] \in U
    BY <1>1
  <2>2. /\ last \in Seq(U)
        /\ Len(last) = IF from + Len(s) + 1 <= Len(b)
                         THEN Len(b) - (from + Len(s) + 1) + 1 ELSE 0
    BY <1>1, <2>1, SubSeqProperties
  <2> QED
    BY <1>1, <2>2
<1> HIDE DEF first, last
<1>4. first \o s \in Seq(U) /\ Len(first \o s) = from + Len(s)
  BY <1>2, ConcatProperties
<1> DEFINE mid == first \o s
           all == Overwrite(b, from, s)
<1>5. all = mid \o last
  BY DEF Overwrite, first, last
<1> HIDE DEF mid, all, rest
<1>6. mid \in Seq(U) /\ Len(mid) = from + Len(s)
  BY <1>4 DEF mid
<1>7. all \in Seq(U) /\ Len(all) = Len(mid) + Len(last)
  BY <1>3, <1>5, <1>6, ConcatProperties
<1>8. Len(all) = from + Len(s) + rest
  BY <1>3, <1>6, <1>7
<1>9. Len(b) <= Len(all) /\ (Len(all) <= Len(b) \/ Len(all) = from + Len(s))
  <2>1. CASE from + Len(s) <= Len(b)
    <3>1. rest = Len(b) - (from + Len(s))
      BY <2>1 DEF rest
    <3> QED
      BY <1>1, <1>8, <3>1
  <2>2. CASE ~(from + Len(s) <= Len(b))
    <3>1. rest = 0
      BY <2>2 DEF rest
    <3> QED
      BY <1>1, <1>8, <2>2, <3>1
  <2> QED
    BY <2>1, <2>2
<1> QED
  BY <1>7, <1>9 DEF all

(* A worker that does not step, or has turned to the next client            *)
LEMMA RoomKept ==
  ASSUME Flow, NEW v \in Workers,
         buf'[v] = buf[v], buf_len'[v] = buf_len[v], capacity'[v] = capacity[v],
         head'[v] = head[v], body_read'[v] = body_read[v], client'[v] = client[v],
         pc'[v] = pc[v] \/ pc'[v] \in { "accept", "handle" },
         pc[v] = "recv" => Taken(client[v])' = Taken(client[v])
  PROVE  Room(v)'
<1>1. Room(v)
  BY DEF Flow
<1>2. pc'[v] = "recv" => Taken(client[v])' = 0
  BY <1>1 DEF Room
<1> QED
  BY <1>1, <1>2 DEF Room

(* A step that leaves the sockets and the buffers alone                     *)
LEMMA FlowElsewhere ==
  ASSUME IInv, Flow, Types',
         UNCHANGED << plan, todo, wire, backlog, client, buf, buf_len, capacity, body_read >>,
         NEW w, \A v \in Workers \ { w } : pc'[v] = pc[v] /\ head'[v] = head[v],
         pc'[w] \in { "accept", "handle" }
           \/ UNCHANGED << pc, head >>
  PROVE  Flow'
<1>1. \A d \in Clients : Taken(d)' = Taken(d) /\ InOrder(d)'
  BY Untouched
<1>2. Waiting' = Waiting /\ Waiting \subseteq Clients
  BY DEF Waiting, IInv, Shape
<1>3. ASSUME NEW v \in Workers PROVE Room(v)'
  <2>1. Taken(client[v])' = Taken(client[v])
    BY DEF Taken
  <2>2. CASE head'[v] = head[v]
    BY <2>1, <2>2, RoomKept
  <2>3. CASE v = w /\ pc'[w] \in { "accept", "handle" }
    BY <2>3 DEF Flow, Room
  <2> QED
    BY <2>2, <2>3
<1> QED
  BY <1>1, <1>2, <1>3 DEF Flow

LEMMA FlowStutter == IInv /\ Flow /\ UNCHANGED vars => Flow'
BY FlowElsewhere DEF vars, Flow, Types

LEMMA ConnectFlow ==
  ASSUME IInv, Flow, NEW c \in Clients, Connect(c)
  PROVE  Flow'
<1>1. /\ backlog' = Append(backlog, c) /\ ~Left(c)
      /\ UNCHANGED << plan, todo, wire, gone, pc, conns, process >>
  BY DEF Connect
<1>2. Waiting' \subseteq Waiting \cup { c }
  <2>1. backlog \in Seq(Clients)
    BY DEF IInv, Shape
  <2>2. ASSUME NEW i \in 1..Len(backlog') PROVE backlog'[i] \in Waiting \cup { c }
    <3>1. CASE i = Len(backlog) + 1
      BY <1>1, <2>1, <3>1
    <3>2. CASE i # Len(backlog) + 1
      <4>1. i \in 1..Len(backlog) /\ backlog'[i] = backlog[i]
        BY <1>1, <2>1, <3>2
      <4> QED
        BY <4>1 DEF Waiting
    <3> QED
      BY <3>1, <3>2
  <2> QED
    BY <2>2 DEF Waiting
<1>3. Taken(c) = 0
  <2>1. todo[c] = plan[c] /\ ~Sent(c)
    BY <1>1, Lens DEF Left, Sent, Flow
  <2>2. wire[c] = <<>>
    BY <2>1 DEF IInv, SentFirst
  <2>3. Len(wire[c]) = 0 /\ Len(todo[c]) = Len(plan[c]) /\ Len(plan[c]) \in Nat
    BY <2>1, <2>2, Lens DEF Flow
  <2> QED
    BY <2>3 DEF Taken
<1>4. \A d \in Clients : Taken(d)' = Taken(d) /\ InOrder(d)'
  BY <1>1, Untouched
<1>5. Types'
  BY <1>1 DEF Flow, Types, conns
<1>6. ASSUME NEW v \in Workers PROVE Room(v)'
  BY <1>1, RoomKept DEF conns, Taken
<1>7. Waiting \subseteq Clients
  BY DEF IInv, Shape, Waiting
<1> QED
  BY <1>2, <1>3, <1>4, <1>5, <1>6, <1>7 DEF Flow

LEMMA SendSegmentFlow ==
  ASSUME IInv, Flow, NEW c \in Clients, SendSegment(c)
  PROVE  Flow'
<1>1. UNCHANGED << plan, gone, backlog, pc, conns, process >>
  BY DEF SendSegment
<1>2. wire' \in [Clients -> Seq(Units)] /\ \A d \in Clients : Taken(d)' = Taken(d) /\ InOrder(d)'
  BY SentOn
<1>3. Types'
  BY <1>1, <1>2 DEF Flow, Types, conns
<1>4. Waiting' = Waiting /\ Waiting \subseteq Clients
  BY <1>1 DEF IInv, Shape, Waiting
<1>5. ASSUME NEW v \in Workers PROVE Room(v)'
  <2>1. pc[v] = "recv" => client[v] \in Clients
    BY DEF IInv, Shape, Unanswered, Busy
  <2> QED
    BY <1>1, <1>2, <2>1, RoomKept DEF conns
<1> QED
  BY <1>2, <1>3, <1>4, <1>5 DEF Flow

LEMMA AcceptFlow ==
  ASSUME IInv, Flow, NEW w \in Workers, Accept(w)
  PROVE  Flow'
<1> DEFINE c == Head(backlog)
<1>1. /\ backlog # <<>> /\ backlog' = Tail(backlog)
      /\ client' = [client EXCEPT ![w] = c] /\ pc' = [pc EXCEPT ![w] = "recv"]
      /\ buf' = [buf EXCEPT ![w] = <<>>] /\ buf_len' = [buf_len EXCEPT ![w] = 0]
      /\ head' = [head EXCEPT ![w] = Start] /\ body_read' = [body_read EXCEPT ![w] = 0]
      /\ dangling' = [dangling EXCEPT ![w] = FALSE]
      /\ UNCHANGED << plan, todo, wire, gone, capacity, process >>
  BY DEF Accept, Goto
<1>2. backlog \in Seq(Clients) /\ c \in Clients /\ c \in Waiting /\ Taken(c) = 0
  <2>1. backlog \in Seq(Clients)
    BY DEF IInv, Shape
  <2>2. c = backlog[1] /\ 1 \in 1..Len(backlog) /\ c \in Clients
    BY <1>1, <2>1
  <2>3. c \in Waiting
    BY <2>2 DEF Waiting
  <2> QED
    BY <2>1, <2>2, <2>3 DEF Flow
<1> HIDE DEF c
<1>3. Waiting' \subseteq Waiting /\ Waiting \subseteq Clients
  <2>1. ASSUME NEW i \in 1..Len(backlog') PROVE backlog'[i] \in Waiting
    <3>1. i + 1 \in 1..Len(backlog) /\ backlog'[i] = backlog[i + 1]
      BY <1>1, <1>2
    <3> QED
      BY <3>1 DEF Waiting
  <2> QED
    BY <1>2, <2>1 DEF Waiting
<1>4. \A d \in Clients : Taken(d)' = Taken(d) /\ InOrder(d)'
  BY <1>1, Untouched
<1>5. Types'
  <2>1. Start \in Heads
    BY DEF Start, Heads, States
  <2>2. <<>> \in Seq(Units)
    OBVIOUS
  <2> QED
    BY <1>1, <1>2, <2>1, <2>2 DEF Flow, Types
<1>6. ASSUME NEW v \in Workers PROVE Room(v)'
  <2>1. CASE v # w
    <3>1. /\ buf'[v] = buf[v] /\ buf_len'[v] = buf_len[v] /\ capacity'[v] = capacity[v]
          /\ head'[v] = head[v] /\ body_read'[v] = body_read[v]
          /\ client'[v] = client[v] /\ pc'[v] = pc[v]
      BY <1>1, <2>1 DEF Flow, Types, IInv, Shape
    <3>2. Taken(client[v])' = Taken(client[v])
      BY <1>1, <3>1 DEF Taken
    <3> QED
      BY <3>1, <3>2, RoomKept
  <2>2. CASE v = w
    <3>1. /\ buf'[w] = <<>> /\ client'[w] = c /\ pc'[w] = "recv" /\ capacity'[w] = capacity[w]
      BY <1>1 DEF Flow, Types, IInv, Shape
    <3>2. Len(<<>>) = 0
      OBVIOUS
    <3>3. Taken(client[w])' = 0
      BY <1>1, <1>2, <3>1 DEF Taken
    <3>4. Capacity <= capacity[w] /\ capacity[w] \in Nat
      BY DEF Flow, Room, Types
    <3> QED
      BY <2>2, <3>1, <3>2, <3>3, <3>4 DEF Room
  <2> QED
    BY <2>1, <2>2
<1> QED
  BY <1>2, <1>3, <1>4, <1>5, <1>6 DEF Flow

(* The first recv gets the beginning of the client's request, as much as    *)
(* has arrived and fits, and Parsed is what its lines parse to.             *)
LEMMA FirstRead ==
  ASSUME IInv, Flow, NEW w \in Workers, pc[w] = "recv", wire[client[w]] # <<>>
  PROVE  LET c == client[w]  units == Received(w)
         IN  /\ c \in Clients /\ units \in Seq(Units)
             /\ Len(units) \in 1..Len(wire[c]) /\ Len(units) <= capacity[w]
             /\ Len(units) = Len(wire[c]) \/ Len(units) = capacity[w]
             /\ Len(units) <= Len(plan[c])
             /\ \A i \in 1..Len(units) : units[i] = plan[c][i]
             /\ Shows(Parsed[units], units, Len(units))
             /\ Parsed[units] = Parse(units)
<1> DEFINE c == client[w]
           M == Len(wire[c])
           n == IF M < capacity[w] THEN M ELSE capacity[w]
           units == Received(w)
<1>1. c \in Clients /\ Taken(c) = 0
  BY DEF IInv, Shape, Unanswered, Busy, Flow, Room
<1> HIDE DEF c
<1>2. /\ plan[c] \in Seq(Units) /\ wire[c] \in Seq(Units) /\ Len(plan[c]) \in Nat
      /\ Len(todo[c]) \in Nat /\ M \in Nat
  BY <1>1, Lens DEF Flow
<1>3. capacity[w] \in Nat /\ capacity[w] >= 1
  BY BoundsAssumption DEF Flow, Types, Room
<1>4. M # 0
  BY <1>2 DEF c
<1>5. n \in 1..M /\ n <= capacity[w] /\ (n = M \/ n = capacity[w])
  BY <1>2, <1>3, <1>4
<1>6. M <= Len(plan[c]) /\ \A i \in 1..M : wire[c][i] = plan[c][i]
  <2>1. Len(plan[c]) - Len(todo[c]) - M = 0
    BY <1>1 DEF Taken
  <2>2. \A i \in 1..M : wire[c][i] = plan[c][0 + i]
    BY <1>1 DEF Flow, InOrder
  <2>3. M <= Len(plan[c])
    <3> HIDE DEF M
    <3> QED
      BY <1>2, <2>1
  <2>4. \A i \in 1..M : 0 + i = i
    BY <1>2
  <2> QED
    BY <2>2, <2>3, <2>4
<1>7. units = SubSeq(wire[c], 1, n)
  BY DEF Received, c
<1> HIDE DEF n, M, units
<1>8. n \in Nat /\ n <= Len(plan[c]) /\ n <= Len(wire[c]) /\ Len(wire[c]) \in Nat
  BY <1>2, <1>5, <1>6 DEF M
<1>9. units \in Seq(Units) /\ Len(units) = n /\ \A i \in 1..n : units[i] = wire[c][i]
  <2>1. \A i \in 1..n : wire[c][i] \in Units /\ 1 + i - 1 = i /\ i \in 1..(n - 1 + 1)
    BY <1>2, <1>8, ElementOfSeq
  <2>2. /\ units \in Seq(Units) /\ Len(units) = IF 1 <= n THEN n - 1 + 1 ELSE 0
        /\ \A i \in 1..(n - 1 + 1) : units[i] = wire[c][1 + i - 1]
    BY <1>7, <1>8, <2>1, SubSeqProperties
  <2> QED
    BY <1>8, <2>1, <2>2
<1>10. \A i \in 1..n : units[i] = plan[c][i]
  BY <1>2, <1>5, <1>6, <1>9
<1>11. units \in FirstReads
  <2>1. /\ SubSeq(plan[c], 1, n) \in Seq(Units) /\ Len(SubSeq(plan[c], 1, n)) = n
        /\ \A i \in 1..n : SubSeq(plan[c], 1, n)[i] = plan[c][i]
    BY <1>2, <1>8
  <2>2. units = SubSeq(plan[c], 1, n)
    BY <1>9, <1>10, <2>1, SeqEqual
  <2>3. plan[c] \in Requests /\ n \in 1..Len(plan[c])
    BY <1>1, <1>2, <1>5, <1>8 DEF Flow, Types
  <2> QED
    BY <2>2, <2>3 DEF FirstReads
<1>12. Parsed[units] = Parse(units)
  BY <1>11 DEF Parsed
<1>13. Shows(Parsed[units], units, Len(units))
  BY <1>9, <1>12, ParseShows
<1> QED
  BY <1>1, <1>5, <1>8, <1>9, <1>10, <1>12, <1>13 DEF c, units, M

LEMMA ReceiveFlow ==
  ASSUME IInv, Flow, NEW w \in Workers, Receive(w)
  PROVE  /\ Flow'
         /\ Taken(client[w])' = Len(Received(w))
<1>0. PICK c, units, h : c = client[w] /\ units = Received(w) /\ h = Parsed[units]
  OBVIOUS
<1> DEFINE grows == h.state = "REQ_BODY" /\ capacity[w] < Needed(h)
<1>1. /\ pc[w] = "recv" /\ wire[c] # <<>>
      /\ wire' = [wire EXCEPT ![c] = SubSeq(@, Len(units) + 1, Len(@))]
      /\ buf' = [buf EXCEPT ![w] = units] /\ buf_len' = [buf_len EXCEPT ![w] = Len(units)]
      /\ head' = [head EXCEPT ![w] = h] /\ pc' = [pc EXCEPT ![w] = AfterParse(h)]
      /\ capacity' = [capacity EXCEPT ![w] = IF grows THEN Needed(h) ELSE @]
      /\ \E moved \in { FALSE, grows } : dangling' = [dangling EXCEPT ![w] = moved]
      /\ body_read' = [body_read EXCEPT ![w] =
                         IF h.state = "REQ_BODY" THEN BodyInBuffer(h, units) ELSE 0]
      /\ UNCHANGED << plan, todo, gone, backlog, open, client, process >>
  BY <1>0 DEF Receive, At, Goto
<1>2. /\ c \in Clients /\ units \in Seq(Units) /\ Len(units) \in 1..Len(wire[c])
      /\ Len(units) <= capacity[w] /\ Shows(h, units, Len(units))
  BY <1>0, <1>1, FirstRead
<1>3. /\ Len(units) \in Nat /\ h \in Heads /\ h.body_start <= Len(units)
      /\ h.body_start \in Nat /\ h.content_length \in Nat /\ capacity[w] \in Nat
  BY <1>2 DEF Shows, Heads, Flow, Types
<1>4. Len(units) \in 0..Len(wire[c]) /\ Len(wire[c]) \in Nat
  BY <1>2, Lens DEF Flow
<1>5. /\ wire' \in [Clients -> Seq(Units)] /\ Taken(c)' = Taken(c) + Len(units)
      /\ \A d \in Clients \ { c } : Taken(d)' = Taken(d)
      /\ \A d \in Clients : InOrder(d)'
  <2>1. UNCHANGED << plan, todo >>
    BY <1>1
  <2> QED
    BY <1>1, <1>2, <1>4, <2>1, TakenOff
<1>6. Taken(c) = 0
  BY <1>0, <1>1 DEF Flow, Room
<1>7. Types'
  <2>1. /\ Needed(h) \in Nat /\ BodyInBuffer(h, units) \in Nat
        /\ (IF grows THEN Needed(h) ELSE capacity[w]) \in Nat
        /\ (IF h.state = "REQ_BODY" THEN BodyInBuffer(h, units) ELSE 0) \in Nat
    BY <1>3 DEF Needed, BodyInBuffer
  <2>2. grows \in BOOLEAN
    OBVIOUS
  <2> HIDE DEF grows
  <2>3. dangling' \in [Workers -> BOOLEAN]
    BY <1>1, <2>2 DEF Flow, Types
  <2>4. /\ head' \in [Workers -> Heads] /\ buf' \in [Workers -> Seq(Units)]
        /\ buf_len' \in [Workers -> Nat] /\ capacity' \in [Workers -> Nat]
        /\ body_read' \in [Workers -> Nat]
    BY <1>1, <1>2, <1>3, <2>1 DEF Flow, Types
  <2> QED
    BY <1>1, <1>5, <2>3, <2>4 DEF Flow, Types
<1>8. ASSUME NEW d \in Waiting' PROVE Taken(d)' = 0
  <2>1. d \in Waiting /\ Waiting \subseteq Clients /\ c \in open
    BY <1>0, <1>1 DEF Waiting, IInv, Shape, Unanswered, Busy
  <2>2. d # c
    BY <2>1 DEF IInv, Queue
  <2> QED
    BY <1>5, <2>1, <2>2 DEF Flow
<1>9. ASSUME NEW v \in Workers PROVE Room(v)'
  <2>1. CASE v # w
    <3>1. /\ buf'[v] = buf[v] /\ buf_len'[v] = buf_len[v] /\ capacity'[v] = capacity[v]
          /\ head'[v] = head[v] /\ body_read'[v] = body_read[v]
          /\ client'[v] = client[v] /\ pc'[v] = pc[v]
      BY <1>1, <2>1 DEF Flow, Types, IInv, Shape
    <3>2. pc[v] = "recv" => client[v] \in Clients \ { c }
      BY <1>0, <1>1, <2>1 DEF IInv, Shape, Apart, Unanswered, Busy
    <3>3. pc[v] = "recv" => Taken(client[v])' = Taken(client[v])
      BY <1>1, <1>5, <3>2
    <3> QED
      BY <3>1, <3>3, RoomKept
  <2>2. CASE v = w
    <3>1. /\ buf'[w] = units /\ buf_len'[w] = Len(units) /\ head'[w] = h
          /\ pc'[w] = AfterParse(h)
          /\ capacity'[w] = IF grows THEN Needed(h) ELSE capacity[w]
          /\ body_read'[w] = IF h.state = "REQ_BODY" THEN BodyInBuffer(h, units) ELSE 0
      BY <1>1 DEF Flow, Types, IInv, Shape
    <3>2. pc'[w] # "recv" /\ (pc'[w] = "body" => h.state = "REQ_BODY")
      BY <3>1 DEF AfterParse
    <3>3. Needed(h) = h.body_start + h.content_length /\ Capacity <= capacity[w]
      BY DEF Needed, Flow, Room
    <3>4. capacity[w] <= capacity'[w] /\ (h.state = "REQ_BODY" => Needed(h) <= capacity'[w])
      BY <1>3, <3>1, <3>3
    <3>5. /\ capacity'[w] \in Nat /\ Len(units) <= capacity'[w] /\ Capacity <= capacity'[w]
      BY <1>2, <1>3, <1>7, <3>3, <3>4, BoundsAssumption, SMTT(30) DEF Types
    <3>6. h.state = "REQ_BODY" =>
            /\ Len(units) - h.body_start = body_read'[w] /\ body_read'[w] \in Nat
      BY <1>3, <3>1 DEF BodyInBuffer
    <3> HIDE DEF grows
    <3> QED
      BY <1>3, <2>2, <3>1, <3>2, <3>4, <3>5, <3>6 DEF Room
  <2> QED
    BY <2>1, <2>2
<1>10. Flow'
  BY <1>5, <1>7, <1>8, <1>9 DEF Flow
<1>11. Taken(client[w])' = Len(units)
  <2>1. Taken(c)' = Len(units)
    BY <1>3, <1>5, <1>6
  <2>2. client' = client
    BY <1>1
  <2> QED
    BY <1>0, <2>1, <2>2 DEF Taken
<1> QED
  BY <1>0, <1>10, <1>11

(* What ReadBody asks for fits behind buf_len, since what came with the     *)
(* headers is part of what has been read.                                   *)
LEMMA ReadBodyFlow ==
  ASSUME IInv, Flow, NEW w \in Workers, ReadBody(w)
  PROVE  /\ Flow'
         /\ body_read'[w] - body_read[w] = Taken(client[w])' - Taken(client[w])
<1>0. PICK c, n : /\ c = client[w]
                  /\ n = IF Len(wire[c]) < Missing(w) THEN Len(wire[c]) ELSE Missing(w)
  OBVIOUS
<1> DEFINE got == SubSeq(wire[c], 1, n)
<1>1. /\ pc[w] = "body" /\ ~HasBody(w)
      /\ buf' = [buf EXCEPT ![w] = Overwrite(@, buf_len[w], got)]
      /\ wire' = [wire EXCEPT ![c] = SubSeq(@, n + 1, Len(@))]
      /\ body_read' = [body_read EXCEPT ![w] = @ + n]
      /\ UNCHANGED << plan, todo, gone, backlog, open, replies, pc, client, buf_len,
                       capacity, head, dangling, process >>
  BY <1>0 DEF ReadBody, At
<1>2. c \in Clients /\ c \in open
  BY <1>0, <1>1 DEF IInv, Shape, Unanswered, Busy
<1>3. /\ head[w] \in Heads /\ head[w].content_length \in Nat /\ head[w].body_start \in Nat
      /\ body_read[w] \in Nat /\ buf_len[w] \in Nat /\ capacity[w] \in Nat
      /\ buf[w] \in Seq(Units) /\ Len(buf[w]) \in Nat
  <2>1. head[w] \in Heads /\ buf[w] \in Seq(Units)
    BY DEF Flow, Types
  <2> QED
    BY <2>1 DEF Flow, Types, Heads
<1>4. wire[c] \in Seq(Units) /\ Len(wire[c]) \in Nat
  BY <1>2, Lens DEF Flow
<1>5. Missing(w) \in Nat /\ Missing(w) = head[w].content_length - body_read[w]
  BY <1>1, <1>3 DEF Missing, HasBody
<1>6. n \in 0..Len(wire[c]) /\ n <= Missing(w)
  BY <1>0, <1>4, <1>5
<1>7. got \in Seq(Units) /\ Len(got) = n
  <2>1. \A i \in 1..n : wire[c][i] \in Units
    BY <1>4, <1>6, ElementOfSeq
  <2>2. got \in Seq(Units) /\ Len(got) = IF 1 <= n THEN n - 1 + 1 ELSE 0
    BY <1>6, <2>1, SubSeqProperties
  <2> QED
    BY <1>6, <2>2
<1> HIDE DEF got
<1>8. /\ wire' \in [Clients -> Seq(Units)] /\ Taken(c)' = Taken(c) + n
      /\ \A d \in Clients \ { c } : Taken(d)' = Taken(d)
      /\ \A d \in Clients : InOrder(d)'
  <2>1. UNCHANGED << plan, todo >>
    BY <1>1
  <2> QED
    BY <1>1, <1>2, <1>6, <2>1, TakenOff
<1>9. /\ head[w].body_start <= buf_len[w] /\ buf_len[w] <= Len(buf[w])
      /\ buf_len[w] - head[w].body_start <= body_read[w]
      /\ Needed(head[w]) = head[w].body_start + head[w].content_length
      /\ Needed(head[w]) <= capacity[w] /\ Len(buf[w]) <= capacity[w] /\ Capacity <= capacity[w]
  BY <1>1 DEF Flow, Room, Needed
<1>10. PICK b : b = Overwrite(buf[w], buf_len[w], got)
  OBVIOUS
<1>11. /\ b \in Seq(Units) /\ Len(buf[w]) <= Len(b) /\ Len(b) \in Nat
       /\ Len(b) <= Len(buf[w]) \/ Len(b) = buf_len[w] + n
  <2>1. buf_len[w] \in 0..Len(buf[w])
    BY <1>3, <1>9
  <2> QED
    BY <1>3, <1>7, <1>10, <2>1, Overwritten
<1>12. Len(b) <= capacity[w]
  <2>1. buf_len[w] + n <= capacity[w]
    <3> DEFINE start == head[w].body_start
               length == head[w].content_length
    <3>1. n \in Nat /\ n <= length - body_read[w]
      BY <1>5, <1>6
    <3>2. /\ start \in Nat /\ length \in Nat /\ body_read[w] \in Nat
          /\ buf_len[w] \in Nat /\ capacity[w] \in Nat
      BY <1>3
    <3>3. buf_len[w] - start <= body_read[w] /\ start + length <= capacity[w]
      BY <1>9
    <3> HIDE DEF start, length
    <3> QED
      BY <3>1, <3>2, <3>3
  <2> QED
    BY <1>3, <1>9, <1>11, <2>1
<1>13. Types'
  <2>1. body_read[w] + n \in Nat
    BY <1>3, <1>6
  <2>2. body_read' \in [Workers -> Nat]
    BY <1>1, <2>1 DEF Flow, Types
  <2>3. buf' \in [Workers -> Seq(Units)]
    BY <1>1, <1>10, <1>11 DEF Flow, Types
  <2> QED
    BY <1>1, <1>8, <2>2, <2>3 DEF Flow, Types
<1>14. ASSUME NEW d \in Waiting' PROVE Taken(d)' = 0
  <2>1. d \in Waiting /\ Waiting \subseteq Clients
    BY <1>1 DEF Waiting, IInv, Shape
  <2>2. d # c
    BY <1>2, <2>1 DEF IInv, Queue
  <2> QED
    BY <1>8, <2>1, <2>2 DEF Flow
<1>15. ASSUME NEW v \in Workers PROVE Room(v)'
  <2>1. CASE v # w
    <3>1. /\ buf'[v] = buf[v] /\ buf_len'[v] = buf_len[v] /\ capacity'[v] = capacity[v]
          /\ head'[v] = head[v] /\ body_read'[v] = body_read[v]
          /\ client'[v] = client[v] /\ pc'[v] = pc[v]
      BY <1>1, <2>1 DEF Flow, Types, IInv, Shape
    <3>2. pc[v] = "recv" => client[v] \in Clients \ { c }
      BY <1>0, <1>1, <2>1 DEF IInv, Shape, Apart, Unanswered, Busy
    <3>3. pc[v] = "recv" => Taken(client[v])' = Taken(client[v])
      BY <1>1, <1>8, <3>2
    <3> QED
      BY <3>1, <3>3, RoomKept
  <2>2. CASE v = w
    <3>1. /\ buf'[w] = b /\ body_read'[w] = body_read[w] + n /\ pc'[w] = "body"
          /\ buf_len'[w] = buf_len[w] /\ head'[w] = head[w] /\ capacity'[w] = capacity[w]
      BY <1>1, <1>10 DEF Flow, Types
    <3>2. /\ buf_len[w] <= Len(b)
          /\ buf_len[w] - head[w].body_start <= body_read[w] + n
      BY <1>3, <1>6, <1>9, <1>11
    <3> QED
      BY <1>9, <1>12, <2>2, <3>1, <3>2 DEF Room, Needed
  <2> QED
    BY <2>1, <2>2
<1>16. body_read'[w] - body_read[w] = Taken(client[w])' - Taken(client[w])
  <2>1. body_read'[w] - body_read[w] = n
    BY <1>1, <1>3, <1>6 DEF Flow, Types
  <2>2. Taken(client[w])' = Taken(c) + n /\ Taken(client[w]) = Taken(c) /\ Taken(c) \in Int
    BY <1>0, <1>1, <1>2, <1>8, Lens DEF Flow
  <2> QED
    BY <1>6, <2>1, <2>2
<1> QED
  BY <1>8, <1>13, <1>14, <1>15, <1>16 DEF Flow

LEMMA NextFlow == IInv /\ Flow /\ [Next]_vars => Flow'
<1> SUFFICES ASSUME IInv, Flow, [Next]_vars PROVE Flow'
  OBVIOUS
<1>1. ASSUME NEW w \in Workers, Accept(w) PROVE Flow'
  BY <1>1, AcceptFlow
<1>2. ASSUME NEW w \in Workers, Serving(w) PROVE Flow'
  <2>1. CASE GiveUp(w)
    <3>1. /\ UNCHANGED << plan, todo, wire, gone, backlog, replies, conns, process >>
          /\ pc' = [pc EXCEPT ![w] = "accept"]
      BY <2>1 DEF GiveUp, Goto
    <3>2. Types' /\ pc'[w] = "accept" /\ \A v \in Workers \ { w } : pc'[v] = pc[v]
      BY <3>1 DEF Flow, Types, conns, IInv, Shape
    <3> QED
      BY <3>1, <3>2, FlowElsewhere DEF conns
  <2>2. CASE Receive(w)
    BY <2>2, ReceiveFlow
  <2>3. CASE ReadBody(w)
    BY <2>3, ReadBodyFlow
  <2>4. CASE BodyNotThere(w) \/ BodyComplete(w)
    <3>1. PICK st \in States, p \in { "accept", "handle" } :
            /\ head' = [head EXCEPT ![w].state = st] /\ pc' = [pc EXCEPT ![w] = p]
            /\ UNCHANGED << sockets, client, buf, buf_len, capacity, body_read, dangling,
                             process >>
      BY <2>4 DEF BodyNotThere, BodyComplete, Goto, States
    <3>2. head' \in [Workers -> Heads] /\ \A v \in Workers \ { w } : head'[v] = head[v]
      <4>1. head[w] \in Heads /\ [ head[w] EXCEPT !.state = st ] \in Heads
        BY DEF Flow, Types, Heads
      <4>2. head' = [ head EXCEPT ![w] = [ head[w] EXCEPT !.state = st ] ]
        BY <3>1
      <4> QED
        BY <4>1, <4>2 DEF Flow, Types
    <3>3. Types' /\ pc'[w] = p /\ \A v \in Workers \ { w } : pc'[v] = pc[v]
      BY <3>1, <3>2 DEF Flow, Types, sockets, IInv, Shape
    <3> QED
      BY <3>1, <3>2, <3>3, FlowElsewhere DEF sockets
  <2>5. CASE Handle(w)
    <3>1. /\ UNCHANGED << plan, todo, wire, gone, backlog, conns, process >>
          /\ pc' = [pc EXCEPT ![w] = "accept"]
      BY <2>5 DEF Handle, Goto
    <3>2. Types' /\ pc'[w] = "accept" /\ \A v \in Workers \ { w } : pc'[v] = pc[v]
      BY <3>1 DEF Flow, Types, conns, IInv, Shape
    <3> QED
      BY <3>1, <3>2, FlowElsewhere DEF conns
  <2>6. CASE BodyEnds(w)
    BY <2>6, FlowStutter DEF BodyEnds
  <2>7. CASE HandleDangling(w)
    <3>1. UNCHANGED << sockets, replies, pc, conns >> /\ process' = "aborted"
      BY <2>7 DEF HandleDangling
    <3>2. Types'
      BY <3>1 DEF Flow, Types, sockets, conns
    <3> QED
      BY <3>1, <3>2, FlowElsewhere DEF sockets, conns
  <2> QED
    BY <1>2, <2>1, <2>2, <2>3, <2>4, <2>5, <2>6, <2>7 DEF Serving
<1>3. ASSUME NEW c \in Clients, ClientStep(c) PROVE Flow'
  <2>1. CASE Leave(c)
    <3>1. UNCHANGED << plan, todo, wire, backlog, open, replies, pc, conns, process >>
          /\ gone' = gone \cup { c }
      BY <2>1 DEF Leave
    <3>2. Types'
      BY <3>1 DEF Flow, Types, conns
    <3> QED
      BY <3>1, <3>2, FlowElsewhere DEF conns
  <2> QED
    BY <1>3, <2>1, ConnectFlow, SendSegmentFlow DEF ClientStep
<1>4. CASE Idle
  BY <1>4, FlowStutter DEF Idle
<1>5. CASE UNCHANGED vars
  BY <1>5, FlowStutter
<1> QED
  BY <1>1, <1>2, <1>3, <1>4, <1>5 DEF Next

-----------------------------------------------------------------------------
LEMMA FlowInvariance == Spec => [](IInv /\ Flow)
<1>1. Init => IInv /\ Flow
  BY InitIInv, InitFlow
<1>2. (IInv /\ Flow) /\ [Next]_vars => (IInv /\ Flow)'
  BY NextIInv, NextFlow
<1> QED
  BY <1>1, <1>2, PTL DEF Spec

LEMMA Retyped ==
  ASSUME NEW S, NEW T, NEW s \in Seq(S), \A i \in 1..Len(s) : s[i] \in T
  PROVE  s \in Seq(T)
<1>1. 1 \in Int /\ Len(s) \in Int
  OBVIOUS
<1>2. SubSeq(s, 1, Len(s)) \in Seq(T)
  BY <1>1, SubSeqProperties
<1>3. SubSeq(s, 1, Len(s)) = s
  BY SubSeqFull
<1> QED
  BY <1>2, <1>3

(* Every variable keeps to its type, for any requests and whatever clients  *)
(* do: what is on its way to a worker are units of the client's own         *)
(* request, and no count of body bytes is negative (mugshot.c:780-798).     *)
THEOREM TypeCorrect == Spec => []TypeOK
<1>1. IInv /\ Flow => TypeOK
  <2> SUFFICES ASSUME IInv, Flow PROVE TypeOK
    OBVIOUS
  <2>1. ASSUME NEW c \in Clients
        PROVE  todo[c] \in Seq(Range(plan[c])) /\ wire[c] \in Seq(Range(plan[c]))
    <3> DEFINE t == Taken(c)
               P == Len(plan[c])
               L == Len(todo[c])
               M == Len(wire[c])
    <3>1. /\ plan[c] \in Seq(Units) /\ todo[c] \in Seq(Units) /\ wire[c] \in Seq(Units)
          /\ P \in Nat /\ L \in Nat /\ M \in Nat
      BY Lens DEF Flow
    <3>2. /\ t >= 0 /\ t = P - L - M
          /\ \A i \in 1..M : wire[c][i] = plan[c][t + i]
          /\ \A i \in 1..L : todo[c][i] = plan[c][t + M + i]
      BY DEF Flow, InOrder, Taken
    <3>3. \A j \in 1..P : plan[c][j] \in Range(plan[c])
      BY <3>1 DEF Range
    <3> HIDE DEF t, P, L, M
    <3>4. \A i \in 1..M : t + i \in 1..P
      BY <3>1, <3>2
    <3>5. \A i \in 1..L : t + M + i \in 1..P
      BY <3>1, <3>2
    <3>6. \A i \in 1..M : wire[c][i] \in Range(plan[c])
      BY <3>2, <3>3, <3>4
    <3>7. \A i \in 1..L : todo[c][i] \in Range(plan[c])
      BY <3>2, <3>3, <3>5
    <3> QED
      BY <3>1, <3>6, <3>7, Retyped DEF L, M
  <2>2. \A w \in Workers : head[w].state \in States
    BY DEF Flow, Types, Heads
  <2> QED
    BY <2>1, <2>2 DEF TypeOK, Flow, Types, IInv, Shape
<1> QED
  BY <1>1, FlowInvariance, PTL

(* No recv writes past the end of a buffer (mugshot.c:795-810): none of the *)
(* body's, which all write at the end of the first recv's bytes, for any    *)
(* request and any segments.                                                *)
THEOREM WithinCapacityCorrect == Spec => []WithinCapacity
<1>1. Flow => WithinCapacity
  BY DEF Flow, Room, WithinCapacity, Needed
<1> QED
  BY <1>1, FlowInvariance, PTL

-----------------------------------------------------------------------------
(* Requests that are framed: what a worker works on is all there is.        *)

AllFramed == \A r \in Requests : Framed(r)

(* What was taken from the client of a worker at a body, or at the handler, *)
(* is the head of a well-formed request and the bytes of the body counted.  *)
Account(w) ==
  pc[w] \in { "body", "handle" } =>
    /\ Taken(client[w]) = head[w].body_start + body_read[w]
    /\ head[w].body_start \in 1..Len(plan[client[w]])
    /\ HeadAndBody(plan[client[w]], head[w].body_start)
    /\ head[w].content_length = DeclaredLength(plan[client[w]], head[w].body_start)
    /\ pc[w] = "handle" => HasBody(w)

Accounts == (\A w \in Workers : Account(w)) /\ HandledIsComplete

(* A worker whose own state and whose client's sockets do not change        *)
LEMMA AccountKept ==
  ASSUME NEW v \in Workers, Account(v), plan' = plan, client'[v] = client[v],
         body_read'[v] = body_read[v], head'[v].body_start = head[v].body_start,
         head'[v].content_length = head[v].content_length,
         pc[v] \in { "body", "handle" } => Taken(client[v])' = Taken(client[v]),
         pc'[v] \in { "body", "handle" } => pc[v] \in { "body", "handle" },
         pc'[v] = "handle" => pc[v] = "handle" \/ HasBody(v)
  PROVE  Account(v)'
BY DEF Account, HasBody

(* The verdict on those who were answered stays.                            *)
LEMMA CompleteKept ==
  ASSUME IInv, HandledIsComplete, plan' = plan, replies' = replies,
         \A c \in Clients : Handled(c) => todo'[c] = todo[c] /\ wire'[c] = wire[c]
  PROVE  HandledIsComplete'
BY DEF HandledIsComplete, Handled, Served, CodeOf

(* A worker at the handler has the whole request.                           *)
LEMMA WholeAtHandler ==
  ASSUME IInv, Flow, AllFramed, NEW w \in Workers, Account(w),
         pc[w] \in { "body", "handle" }, HasBody(w)
  PROVE  /\ WellFormed(plan[client[w]]) /\ todo[client[w]] = <<>> /\ wire[client[w]] = <<>>
         /\ body_read[w] = head[w].content_length
<1>0. PICK c : c = client[w]
  OBVIOUS
<1> DEFINE P == Len(plan[c])
           L == Len(todo[c])
           M == Len(wire[c])
           start == head[w].body_start
           length == head[w].content_length
<1>1. c \in Clients
  BY <1>0 DEF IInv, Shape, Unanswered, Busy
<1>2. /\ todo[c] \in Seq(Units) /\ wire[c] \in Seq(Units)
      /\ P \in Nat /\ L \in Nat /\ M \in Nat /\ Taken(c) = P - L - M
  BY <1>1, Lens DEF Flow, Taken
<1>3. /\ Taken(c) = start + body_read[w] /\ HeadAndBody(plan[c], start)
      /\ length = DeclaredLength(plan[c], start) /\ start \in 1..P
  BY <1>0 DEF Account
<1>4. P = start + length
  BY <1>3 DEF HeadAndBody
<1>5. start \in Nat /\ length \in Nat /\ body_read[w] \in Nat /\ body_read[w] >= length
  <2>1. head[w] \in Heads
    BY DEF Flow, Types
  <2> QED
    BY <2>1 DEF Flow, Types, Heads, HasBody
<1>6. WellFormed(plan[c])
  BY <1>3 DEF WellFormed
<1>7. L = 0 /\ M = 0 /\ body_read[w] = length
  <2> DEFINE read == body_read[w]
  <2>1. P - L - M = start + read
    BY <1>2, <1>3
  <2>2. P \in Nat /\ L \in Nat /\ M \in Nat /\ start \in Nat /\ length \in Nat /\ read \in Nat
    BY <1>2, <1>5
  <2>3. P = start + length /\ read >= length
    BY <1>4, <1>5
  <2> HIDE DEF P, L, M, start, length, read
  <2>4. L = 0 /\ M = 0 /\ read = length
    BY <2>1, <2>2, <2>3
  <2> QED
    BY <2>4 DEF read
<1>8. todo[c] = <<>> /\ wire[c] = <<>>
  BY <1>2, <1>7, EmptySeq DEF L, M
<1> QED
  BY <1>0, <1>6, <1>7, <1>8 DEF length

(* Whom a worker serves has no answer, and a 400 is not the handler's.      *)
LEMMA CompleteElsewhere ==
  ASSUME IInv, HandledIsComplete, NEW w \in Workers, Busy(w), plan' = plan,
         \/ replies' = replies
         \/ replies' = [replies EXCEPT
                          ![client[w]] = Append(@, [code |-> "400", body |-> <<>>])],
         todo' = todo, \A d \in Clients \ { client[w] } : wire'[d] = wire[d]
  PROVE  HandledIsComplete'
<1> DEFINE bad == [code |-> "400", body |-> <<>>]
<1>0. PICK c : c = client[w]
  OBVIOUS
<1>1. c \in Clients /\ replies[c] = <<>>
  BY <1>0 DEF IInv, Shape, Unanswered
<1>2. /\ replies'[c] = <<>> \/ replies'[c] = Append(<<>>, bad)
      /\ \A d \in Clients \ { c } : replies'[d] = replies[d]
  BY <1>0, <1>1 DEF IInv, Shape
<1>3. ~Handled(c)'
  <2>1. Append(<<>>, bad)[1] = bad
    <3>1. <<>> \in Seq({ bad })
      OBVIOUS
    <3> QED
      BY <3>1
  <2> QED
    BY <1>2, <2>1 DEF Handled, Served, CodeOf
<1> QED
  BY <1>0, <1>2, <1>3 DEF HandledIsComplete, Handled, Served, CodeOf

(* Nothing a worker counts by changes.                                      *)
LEMMA AccountsElsewhere ==
  ASSUME IInv, Flow, Accounts,
         UNCHANGED << plan, client, body_read, head, pc, replies >>,
         \A d \in Clients : Taken(d)' = Taken(d),
         \A d \in Clients : Handled(d) => todo'[d] = todo[d] /\ wire'[d] = wire[d]
  PROVE  Accounts'
<1>1. ASSUME NEW v \in Workers PROVE Account(v)'
  <2>1. pc[v] \in { "body", "handle" } => client[v] \in Clients
    BY DEF IInv, Shape, Unanswered, Busy
  <2> QED
    BY <2>1, AccountKept DEF Accounts
<1> QED
  BY <1>1, CompleteKept DEF Accounts

LEMMA InitAccounts == Init => Accounts
<1> SUFFICES ASSUME Init PROVE Accounts
  OBVIOUS
<1>1. \A w \in Workers : Account(w)
  BY DEF Init, Account
<1> QED
  BY <1>1 DEF Init, Accounts, HandledIsComplete, Handled, Served

LEMMA ReceiveAccounts ==
  ASSUME IInv, Flow, AllFramed, Accounts, NEW w \in Workers, Receive(w)
  PROVE  Accounts'
<1>0. PICK c, units, h : c = client[w] /\ units = Received(w) /\ h = Parsed[units]
  OBVIOUS
<1>1. /\ pc[w] = "recv" /\ wire[c] # <<>>
      /\ wire' = [wire EXCEPT ![c] = SubSeq(@, Len(units) + 1, Len(@))]
      /\ head' = [head EXCEPT ![w] = h] /\ pc' = [pc EXCEPT ![w] = AfterParse(h)]
      /\ body_read' = [body_read EXCEPT ![w] =
                         IF h.state = "REQ_BODY" THEN BodyInBuffer(h, units) ELSE 0]
      /\ UNCHANGED << plan, todo, client >>
  BY <1>0 DEF Receive, At, Goto
<1>2. /\ c \in Clients /\ units \in Seq(Units) /\ Shows(h, units, Len(units))
      /\ Len(units) <= Len(plan[c]) /\ \A i \in 1..Len(units) : units[i] = plan[c][i]
  BY <1>0, <1>1, FirstRead
<1>3. Taken(client[w])' = Len(units)
  BY <1>0, ReceiveFlow
<1>4. ASSUME NEW v \in Workers PROVE Account(v)'
  <2>1. CASE v # w
    <3>1. /\ client'[v] = client[v] /\ body_read'[v] = body_read[v]
          /\ head'[v] = head[v] /\ pc'[v] = pc[v]
      BY <1>1, <2>1 DEF Flow, Types, IInv, Shape
    <3>2. pc[v] \in { "body", "handle" } => client[v] # c
      BY <1>0, <1>1, <2>1 DEF IInv, Apart
    <3>3. pc[v] \in { "body", "handle" } => Taken(client[v])' = Taken(client[v])
      <4>1. client[v] # c => wire'[client[v]] = wire[client[v]]
        BY <1>1
      <4> QED
        BY <1>1, <3>2, <4>1 DEF Taken
    <3> QED
      BY <1>1, <3>1, <3>3, AccountKept DEF Accounts
  <2>2. CASE v = w
    <3>1. /\ head'[w] = h /\ pc'[w] = AfterParse(h) /\ plan' = plan /\ client'[w] = c
          /\ body_read'[w] = IF h.state = "REQ_BODY" THEN BodyInBuffer(h, units) ELSE 0
      BY <1>0, <1>1 DEF Flow, Types, IInv, Shape
    <3>2. /\ pc'[w] = "body" => h.state = "REQ_BODY"
          /\ pc'[w] = "handle" => h.state = "REQ_DONE"
      BY <3>1 DEF AfterParse
    <3> SUFFICES ASSUME h.state \in { "REQ_BODY", "REQ_DONE" }
                 PROVE  /\ Len(units) = h.body_start + body_read'[w]
                        /\ h.body_start \in 1..Len(plan[c])
                        /\ HeadAndBody(plan[c], h.body_start)
                        /\ h.content_length = DeclaredLength(plan[c], h.body_start)
                        /\ h.state = "REQ_DONE" => body_read'[w] >= h.content_length
      BY <1>3, <2>2, <3>1, <3>2 DEF Account, HasBody
    <3>3. plan[c] \in Requests /\ plan[c] \in Seq(Units)
      BY <1>2, Lens DEF Flow, Types
    <3>4. /\ h.body_start \in 1..Len(units) /\ HeadAndBody(plan[c], h.body_start)
          /\ h.content_length = DeclaredLength(plan[c], h.body_start)
          /\ h.state = "REQ_BODY" <=> h.content_length > 0
      BY <1>2, <3>3, HeadRead DEF AllFramed
    <3>5. h.body_start \in Nat /\ h.content_length \in Nat /\ Len(units) \in Nat /\ Len(plan[c]) \in Nat
      BY <1>2, <3>3 DEF Shows, Heads
    <3>6. Len(plan[c]) = h.body_start + h.content_length
      BY <3>4 DEF HeadAndBody
    <3>7. CASE h.state = "REQ_BODY"
      BY <1>2, <3>1, <3>4, <3>5, <3>7 DEF BodyInBuffer
    <3>8. CASE h.state = "REQ_DONE"
      <4>1. h.content_length = 0 /\ body_read'[w] = 0
        BY <3>1, <3>4, <3>5, <3>8
      <4>2. Len(units) = h.body_start
        BY <1>2, <3>4, <3>5, <3>6, <4>1
      <4> QED
        BY <3>4, <3>5, <3>6, <4>1, <4>2
    <3> QED
      BY <3>7, <3>8
  <2> QED
    BY <2>1, <2>2
<1>5. HandledIsComplete'
  <2>1. \/ replies' = replies
        \/ replies' = [replies EXCEPT ![client[w]] = Append(@, [code |-> "400", body |-> <<>>])]
    BY DEF Receive, Reply
  <2>2. Busy(w) /\ \A d \in Clients \ { client[w] } : wire'[d] = wire[d]
    BY <1>0, <1>1 DEF Busy, Flow, Types
  <2> QED
    BY <1>1, <2>1, <2>2, CompleteElsewhere DEF Accounts
<1> QED
  BY <1>4, <1>5 DEF Accounts

LEMMA ReadBodyAccounts ==
  ASSUME IInv, Flow, Accounts, NEW w \in Workers, ReadBody(w)
  PROVE  Accounts'
<1>0. PICK c : c = client[w]
  OBVIOUS
<1>1. /\ pc[w] = "body" /\ UNCHANGED << plan, todo, client, head, pc, replies >>
      /\ \E n : /\ wire' = [wire EXCEPT ![c] = SubSeq(@, n + 1, Len(@))]
               /\ body_read' = [body_read EXCEPT ![w] = @ + n]
  BY <1>0 DEF ReadBody, At
<1>2. /\ body_read'[w] - body_read[w] = Taken(client[w])' - Taken(client[w]) /\ Flow'
      /\ c \in Clients
  BY <1>0, <1>1, ReadBodyFlow DEF IInv, Shape, Unanswered, Busy
<1>3. \A d \in Clients \ { c } : wire'[d] = wire[d]
  BY <1>1 DEF Flow, Types
<1>4. ASSUME NEW v \in Workers PROVE Account(v)'
  <2>1. CASE v # w
    <3>1. body_read'[v] = body_read[v]
      BY <1>1, <2>1 DEF Flow, Types
    <3>2. pc[v] \in { "body", "handle" } => client[v] \in Clients \ { c }
      BY <1>0, <1>1, <2>1 DEF IInv, Shape, Apart, Unanswered, Busy
    <3>3. pc[v] \in { "body", "handle" } => Taken(client[v])' = Taken(client[v])
      BY <1>1, <1>3, <3>2 DEF Taken
    <3> QED
      BY <1>1, <3>1, <3>3, AccountKept DEF Accounts
  <2>2. CASE v = w
    <3>1. /\ body_read[w] \in Nat /\ body_read'[w] \in Nat
          /\ head[w].body_start \in Nat
      BY <1>2 DEF Flow, Types, Heads
    <3>2. Taken(client[w]) = head[w].body_start + body_read[w]
      BY <1>1 DEF Accounts, Account
    <3>3. Taken(client[w])' = head[w].body_start + body_read'[w]
      <4>1. Taken(client[w])' \in Int
        <5>1. Taken(c)' \in Int
          <6>1. /\ plan' = plan /\ todo' = todo /\ wire'[c] \in Seq(Units)
            BY <1>1, <1>2 DEF Flow, Types
          <6>2. Len(plan[c]) \in Int /\ Len(todo[c]) \in Int /\ Len(wire'[c]) \in Int
            BY <1>2, <6>1, Lens DEF Flow
          <6> QED
            BY <6>1, <6>2 DEF Taken
        <5> QED
          BY <1>0, <1>1, <5>1 DEF Taken
      <4> QED
        BY <1>2, <3>1, <3>2, <4>1
    <3> QED
      BY <1>1, <2>2, <3>3 DEF Accounts, Account
  <2> QED
    BY <2>1, <2>2
<1>5. HandledIsComplete'
  BY <1>0, <1>1, <1>3, CompleteElsewhere DEF Accounts, Busy
<1> QED
  BY <1>4, <1>5 DEF Accounts

(* A worker leaves its client, or goes from the body to the handler.        *)
LEMMA AccountsMove ==
  ASSUME IInv, Flow, Accounts, NEW w \in Workers, Busy(w),
         NEW p \in { "accept", "handle" }, pc' = [pc EXCEPT ![w] = p],
         p = "handle" => pc[w] = "body" /\ HasBody(w),
         UNCHANGED << plan, todo, wire, client, body_read >>,
         head' = head \/ \E st : head' = [head EXCEPT ![w].state = st],
         \/ replies' = replies
         \/ replies' = [replies EXCEPT
                          ![client[w]] = Append(@, [code |-> "400", body |-> <<>>])]
  PROVE  Accounts'
<1>1. \A v \in Workers : /\ head'[v].body_start = head[v].body_start
                          /\ head'[v].content_length = head[v].content_length
  <2>1. head \in [Workers -> Heads]
    BY DEF Flow, Types
  <2> QED
    BY <2>1, SMTT(30) DEF Heads
<1>2. ASSUME NEW v \in Workers PROVE Account(v)'
  <2>1. Taken(client[v])' = Taken(client[v])
    BY DEF Taken
  <2>2. /\ v # w => pc'[v] = pc[v]
        /\ v = w => pc'[v] = p
    BY DEF IInv, Shape
  <2> QED
    BY <1>1, <2>1, <2>2, AccountKept DEF Accounts
<1>3. HandledIsComplete'
  BY CompleteElsewhere DEF Accounts
<1> QED
  BY <1>2, <1>3 DEF Accounts

LEMMA HandleAccounts ==
  ASSUME IInv, Flow, AllFramed, Accounts, NEW w \in Workers, Handle(w)
  PROVE  Accounts'
<1>0. PICK c : c = client[w]
  OBVIOUS
<1>1. /\ pc[w] = "handle" /\ pc' = [pc EXCEPT ![w] = "accept"]
      /\ UNCHANGED << plan, todo, wire, client, body_read, head >>
      /\ \E answer : replies' = [replies EXCEPT ![c] = Append(@, answer)]
  BY <1>0 DEF Handle, At, Goto, Reply, conns
<1>2. ASSUME NEW v \in Workers PROVE Account(v)'
  <2>1. Taken(client[v])' = Taken(client[v])
    BY <1>1 DEF Taken
  <2>2. v # w => pc'[v] = pc[v]
    BY <1>1 DEF IInv, Shape
  <2>3. pc'[w] = "accept"
    BY <1>1 DEF IInv, Shape
  <2> QED
    BY <1>1, <2>1, <2>2, <2>3, AccountKept DEF Accounts
<1>3. HandledIsComplete'
  <2>1. WellFormed(plan[c]) /\ todo[c] = <<>> /\ wire[c] = <<>>
    BY <1>0, <1>1, WholeAtHandler DEF Accounts, Account
  <2>2. \A d \in Clients \ { c } : replies'[d] = replies[d]
    BY <1>1 DEF IInv, Shape
  <2> QED
    BY <1>1, <2>1, <2>2 DEF Accounts, HandledIsComplete, Handled, Served, CodeOf
<1> QED
  BY <1>2, <1>3 DEF Accounts

LEMMA NextAccounts ==
  ASSUME AllFramed
  PROVE  IInv /\ Flow /\ Accounts /\ [Next]_vars => Accounts'
<1> SUFFICES ASSUME IInv, Flow, Accounts, [Next]_vars PROVE Accounts'
  OBVIOUS
<1>0. ASSUME UNCHANGED << plan, todo, wire, client, body_read, head, pc, replies >>
      PROVE  Accounts'
  BY <1>0, AccountsElsewhere DEF Taken
<1>1. ASSUME NEW w \in Workers, Accept(w) PROVE Accounts'
  <2>1. /\ pc[w] = "accept" /\ pc' = [pc EXCEPT ![w] = "recv"]
        /\ UNCHANGED << plan, todo, wire, replies >>
        /\ \A v \in Workers \ { w } :
             client'[v] = client[v] /\ head'[v] = head[v] /\ body_read'[v] = body_read[v]
    BY <1>1 DEF Accept, At, Goto, Flow, Types
  <2>2. ASSUME NEW v \in Workers PROVE Account(v)'
    <3>1. CASE v = w
      BY <2>1, <3>1 DEF Account, IInv, Shape
    <3>2. CASE v # w
      <4>1. pc'[v] = pc[v] /\ Taken(client[v])' = Taken(client[v])
        BY <2>1, <3>2 DEF IInv, Shape, Taken
      <4> QED
        BY <2>1, <3>2, <4>1, AccountKept DEF Accounts
    <3> QED
      BY <3>1, <3>2
  <2> QED
    BY <2>1, <2>2, CompleteKept DEF Accounts
<1>2. ASSUME NEW w \in Workers, Serving(w) PROVE Accounts'
  <2>1. CASE GiveUp(w)
    <3>1. /\ Busy(w) /\ pc' = [pc EXCEPT ![w] = "accept"]
          /\ UNCHANGED << plan, todo, wire, client, body_read, head, replies >>
      BY <2>1 DEF GiveUp, At, Busy, Goto, conns
    <3> QED
      BY <3>1, AccountsMove
  <2>2. CASE BodyNotThere(w)
    <3>1. /\ Busy(w) /\ pc' = [pc EXCEPT ![w] = "accept"]
          /\ UNCHANGED << plan, todo, wire, client, body_read >>
          /\ head' = [head EXCEPT ![w].state = "ERR"]
          /\ replies' = [replies EXCEPT
                           ![client[w]] = Append(@, [code |-> "400", body |-> <<>>])]
      BY <2>2 DEF BodyNotThere, At, Busy, Goto, Reply, sockets
    <3> QED
      BY <3>1, AccountsMove
  <2>3. CASE BodyComplete(w)
    <3>1. /\ Busy(w) /\ pc' = [pc EXCEPT ![w] = "handle"] /\ pc[w] = "body" /\ HasBody(w)
          /\ UNCHANGED << plan, todo, wire, client, body_read, replies >>
          /\ head' = [head EXCEPT ![w].state = "REQ_DONE"]
      BY <2>3 DEF BodyComplete, At, Busy, Goto, sockets
    <3> QED
      BY <3>1, AccountsMove
  <2>4. CASE BodyEnds(w) \/ HandleDangling(w)
    BY <1>0, <2>4 DEF BodyEnds, HandleDangling, vars, sockets, conns
  <2> QED
    BY <1>2, <2>1, <2>2, <2>3, <2>4, ReceiveAccounts, ReadBodyAccounts, HandleAccounts
       DEF Serving
<1>3. ASSUME NEW c \in Clients, ClientStep(c) PROVE Accounts'
  <2>1. CASE SendSegment(c)
    <3>1. UNCHANGED << plan, client, body_read, head, pc, replies >> /\ todo[c] # <<>>
          /\ \A d \in Clients \ { c } : todo'[d] = todo[d] /\ wire'[d] = wire[d]
      BY <2>1 DEF SendSegment, conns, Flow, Types, IInv, Shape
    <3>2. ~Handled(c)
      BY <3>1 DEF Accounts, HandledIsComplete
    <3> QED
      BY <2>1, <3>1, <3>2, SentOn, AccountsElsewhere
  <2>2. CASE Connect(c) \/ Leave(c)
    BY <1>0, <2>2 DEF Connect, Leave, conns
  <2> QED
    BY <1>3, <2>1, <2>2 DEF ClientStep
<1>4. CASE Idle
  BY <1>0, <1>4 DEF Idle, vars
<1>5. CASE UNCHANGED vars
  BY <1>0, <1>5 DEF vars
<1> QED
  BY <1>1, <1>2, <1>3, <1>4, <1>5 DEF Next

LEMMA AccountsInvariance ==
  ASSUME AllFramed
  PROVE  Spec => [](IInv /\ Flow /\ Accounts)
<1>1. Init => IInv /\ Flow /\ Accounts
  BY InitIInv, InitFlow, InitAccounts
<1>2. (IInv /\ Flow /\ Accounts) /\ [Next]_vars => (IInv /\ Flow /\ Accounts)'
  BY NextIInv, NextFlow, NextAccounts
<1> QED
  BY <1>1, <1>2, PTL DEF Spec

(* A handler runs only for a well-formed request of which every byte was    *)
(* received (mugshot.c:1154), in whatever pieces requests come, whoever     *)
(* leaves, and however many of them are malformed.  The assumption: clients *)
(* send as many bytes of body as they announce (AllFramed), since a worker  *)
(* takes a request with more behind it as complete.                         *)
THEOREM HandledIsCompleteCorrect ==
  ASSUME AllFramed
  PROVE  Spec => []HandledIsComplete
<1>1. IInv /\ Flow /\ Accounts => HandledIsComplete
  BY DEF Accounts
<1> QED
  BY <1>1, AccountsInvariance, PTL

-----------------------------------------------------------------------------
(* Requests that come in one segment, fit, and have no line end in a body   *)

WholeRequests ==
  /\ AllFramed /\ "segments" \notin Conduct
  /\ \A r \in Requests : PlainBody(r) /\ Len(r) <= Capacity

(* Behind the first recv nothing is missing.                                *)
Entire(w) ==
  pc[w] \in { "body", "handle" } =>
    /\ Len(buf[w]) = Len(plan[client[w]])
    /\ \A i \in 1..Len(plan[client[w]]) : buf[w][i] = plan[client[w]][i]
    /\ HasBody(w)

Whole ==
  /\ \A c \in Clients : todo[c] = plan[c] \/ todo[c] = <<>>
  /\ \A w \in Workers : Entire(w)
  /\ FairVerdict

LEMMA EntireKept ==
  ASSUME NEW v \in Workers, Entire(v), plan' = plan, client'[v] = client[v],
         buf'[v] = buf[v], body_read'[v] = body_read[v],
         head'[v].content_length = head[v].content_length,
         pc'[v] \in { "body", "handle" } => pc[v] \in { "body", "handle" }
  PROVE  Entire(v)'
BY DEF Entire, HasBody

(* The first recv gets all of a request, and its lines are in error only    *)
(* when they make no well-formed request.                                   *)
LEMMA WholeRead ==
  ASSUME IInv, Flow, Whole, WholeRequests, NEW w \in Workers, pc[w] = "recv",
         wire[client[w]] # <<>>
  PROVE  LET c == client[w]  units == Received(w)  h == Parsed[units]
         IN  /\ c \in Clients /\ units = plan[c] /\ Shows(h, units, Len(units))
             /\ h.state = "REQ_BODY" =>
                  h.body_start + h.content_length = Len(units)
             /\ WellFormed(plan[c]) => h.state \in { "REQ_BODY", "REQ_DONE" }
<1>0. PICK c, units, h : c = client[w] /\ units = Received(w) /\ h = Parsed[units]
  OBVIOUS
<1>1. /\ c \in Clients /\ units \in Seq(Units) /\ Len(units) \in 1..Len(wire[c])
      /\ Len(units) <= capacity[w] /\ (Len(units) = Len(wire[c]) \/ Len(units) = capacity[w])
      /\ Len(units) <= Len(plan[c])
      /\ \A i \in 1..Len(units) : units[i] = plan[c][i]
      /\ Shows(h, units, Len(units)) /\ h = Parse(units)
  BY <1>0, FirstRead
<1>2. /\ plan[c] \in Seq(Units) /\ Len(plan[c]) \in Nat /\ Len(wire[c]) \in Nat
      /\ Len(units) \in Nat /\ plan[c] \in Requests
  BY <1>1, Lens DEF Flow, Types
<1>3. todo[c] = <<>>
  <2>1. Sent(c)
    BY <1>0, <1>1 DEF IInv, SentFirst
  <2> QED
    BY <1>1, <1>2, <2>1 DEF Whole, Sent
<1>4. Len(wire[c]) = Len(plan[c])
  <2>1. Taken(c) = 0 /\ Len(todo[c]) = 0
    BY <1>0, <1>3, EmptySeq DEF Flow, Room
  <2>2. Len(plan[c]) - 0 - Len(wire[c]) = 0
    BY <2>1 DEF Taken
  <2> QED
    BY <1>2, <2>2
<1>5. Len(units) = Len(plan[c])
  <2>1. Len(plan[c]) <= Capacity /\ Capacity <= capacity[w] /\ capacity[w] \in Nat
    BY <1>2 DEF WholeRequests, Flow, Room, Types
  <2> QED
    BY <1>1, <1>2, <1>4, <2>1, BoundsAssumption
<1>6. units = plan[c]
  BY <1>1, <1>2, <1>5, SeqEqual
<1>7. ASSUME h.state = "REQ_BODY" PROVE h.body_start + h.content_length = Len(units)
  <2>1. /\ HeadAndBody(plan[c], h.body_start)
        /\ h.content_length = DeclaredLength(plan[c], h.body_start)
    BY <1>1, <1>2, <1>7, HeadRead DEF WholeRequests, AllFramed
  <2> QED
    BY <1>6, <2>1 DEF HeadAndBody
<1>8. ASSUME WellFormed(plan[c]) PROVE h.state \in { "REQ_BODY", "REQ_DONE" }
  <2>1. PICK k \in 1..Len(plan[c]) : HeadAndBody(plan[c], k)
    BY <1>8 DEF WellFormed
  <2>2. PlainBody(plan[c])
    BY <1>2 DEF WholeRequests
  <2> QED
    BY <1>1, <1>2, <1>6, <2>1, <2>2, WholeParse
<1> QED
  BY <1>0, <1>1, <1>6, <1>7, <1>8

(* What the handler gets is the body.                                       *)
LEMMA RightBody ==
  ASSUME IInv, Flow, AllFramed, NEW w \in Workers, Account(w), Entire(w), pc[w] = "handle"
  PROVE  WellFormed(plan[client[w]]) /\ Body(w) = BodyOf(plan[client[w]])
<1>0. PICK c, r : c = client[w] /\ r = plan[c]
  OBVIOUS
<1> DEFINE start == head[w].body_start
           length == head[w].content_length
           rest == SubSeq(r, start + 1, Len(r))
<1>1. r \in Seq(Units) /\ Len(r) \in Nat
  BY <1>0, Lens DEF IInv, Shape, Unanswered, Busy, Flow
<1>2. /\ start \in 1..Len(r) /\ HeadAndBody(r, start) /\ Len(r) = start + length
      /\ Len(buf[w]) = Len(r) /\ \A i \in 1..Len(r) : buf[w][i] = r[i]
  BY <1>0 DEF Account, Entire, HeadAndBody
<1>3. length \in Nat
  <2>1. head[w] \in Heads
    BY DEF Flow, Types
  <2> QED
    BY <2>1 DEF Heads
<1>4. WellFormed(r) /\ BodyOf(r) = rest
  BY <1>1, <1>2, BodyIs DEF WellFormed
<1> HIDE DEF start, length
<1>5. /\ rest \in Seq(Units) /\ Len(rest) = length
      /\ \A i \in 1..length : rest[i] = r[start + i]
  <2>1. \A i \in (start + 1)..Len(r) : r[i] \in Units
    BY <1>1, <1>2, ElementOfSeq
  <2>2. /\ rest \in Seq(Units)
        /\ Len(rest) = IF start + 1 <= Len(r) THEN Len(r) - (start + 1) + 1 ELSE 0
        /\ \A i \in 1..(Len(r) - (start + 1) + 1) : rest[i] = r[start + 1 + i - 1]
    BY <1>1, <1>2, <2>1, SubSeqProperties
  <2>3. Len(r) - (start + 1) + 1 = length /\ \A i \in 1..length : start + 1 + i - 1 = start + i
    BY <1>1, <1>2, <1>3
  <2>4. Len(rest) = length
    BY <1>1, <1>2, <1>3, <2>2
  <2> QED
    BY <2>2, <2>3, <2>4
<1> HIDE DEF rest
<1>6. rest = [i \in 1..length |-> rest[i]]
  BY <1>5, LenProperties
<1>7. ASSUME NEW i \in 1..length
      PROVE  (IF start + i <= Len(buf[w]) THEN buf[w][start + i] ELSE "stale") = rest[i]
  <2>1. start + i \in 1..Len(r) /\ start + i <= Len(buf[w])
    BY <1>1, <1>2, <1>3
  <2> QED
    BY <1>2, <1>5, <2>1
<1>8. Body(w) = [i \in 1..length |->
                   IF start + i <= Len(buf[w]) THEN buf[w][start + i] ELSE "stale"]
  BY DEF Body, start, length
<1>9. Body(w) = rest
  BY <1>6, <1>7, <1>8
<1> QED
  BY <1>0, <1>4, <1>9

LEMMA InitWhole == Init => Whole
<1> SUFFICES ASSUME Init PROVE Whole
  OBVIOUS
<1>1. \A w \in Workers : Entire(w)
  BY DEF Init, Entire
<1>2. \A c \in Clients : todo[c] = plan[c]
  BY DEF Init
<1> QED
  BY <1>1, <1>2 DEF Init, Whole, FairVerdict, Served

LEMMA ReceiveWhole ==
  ASSUME IInv, Flow, Whole, WholeRequests, NEW w \in Workers, Receive(w)
  PROVE  /\ Whole'
         /\ WellFormed(plan[client[w]]) => pc'[w] \in { "body", "handle" }
<1>0. PICK c, units, h : c = client[w] /\ units = Received(w) /\ h = Parsed[units]
  OBVIOUS
<1>1. /\ pc[w] = "recv" /\ wire[c] # <<>>
      /\ buf' = [buf EXCEPT ![w] = units]
      /\ head' = [head EXCEPT ![w] = h] /\ pc' = [pc EXCEPT ![w] = AfterParse(h)]
      /\ body_read' = [body_read EXCEPT ![w] =
                         IF h.state = "REQ_BODY" THEN BodyInBuffer(h, units) ELSE 0]
      /\ UNCHANGED << plan, todo, client >>
      /\ IF h.state = "ERR"
           THEN replies' = [replies EXCEPT ![c] = Append(@, [code |-> "400", body |-> <<>>])]
           ELSE UNCHANGED replies
  BY <1>0 DEF Receive, At, Goto, Reply
<1>2. /\ c \in Clients /\ units = plan[c] /\ Shows(h, units, Len(units))
      /\ h.state = "REQ_BODY" => h.body_start + h.content_length = Len(units)
      /\ WellFormed(plan[c]) => h.state \in { "REQ_BODY", "REQ_DONE" }
  BY <1>0, <1>1, WholeRead
<1>3. /\ Len(units) \in Nat /\ h.body_start \in Nat /\ h.content_length \in Nat
      /\ h.state = "REQ_DONE" => h.content_length = 0
  BY <1>2, Lens DEF Shows, Heads, Flow
<1>4. ASSUME NEW v \in Workers PROVE Entire(v)'
  <2>1. CASE v # w
    <3>1. /\ client'[v] = client[v] /\ body_read'[v] = body_read[v] /\ buf'[v] = buf[v]
          /\ head'[v] = head[v] /\ pc'[v] = pc[v]
      BY <1>1, <2>1 DEF Flow, Types, IInv, Shape
    <3> QED
      BY <1>1, <3>1, EntireKept DEF Whole
  <2>2. CASE v = w
    <3>1. /\ head'[w] = h /\ pc'[w] = AfterParse(h) /\ plan' = plan /\ client'[w] = c
          /\ buf'[w] = units
          /\ body_read'[w] = IF h.state = "REQ_BODY" THEN BodyInBuffer(h, units) ELSE 0
      BY <1>0, <1>1 DEF Flow, Types, IInv, Shape
    <3>2. /\ pc'[w] = "body" => h.state = "REQ_BODY"
          /\ pc'[w] = "handle" => h.state = "REQ_DONE"
      BY <3>1 DEF AfterParse
    <3>3. h.state \in { "REQ_BODY", "REQ_DONE" } => body_read'[w] >= h.content_length
      BY <1>2, <1>3, <3>1 DEF BodyInBuffer
    <3> QED
      BY <1>2, <2>2, <3>1, <3>2, <3>3 DEF Entire, HasBody
  <2> QED
    BY <2>1, <2>2
<1>5. FairVerdict'
  <2>1. replies[c] = <<>> /\ \A d \in Clients \ { c } : replies'[d] = replies[d]
    BY <1>0, <1>1 DEF IInv, Shape, Unanswered, Busy
  <2>2. CASE h.state = "ERR"
    <3> DEFINE bad == [code |-> "400", body |-> <<>>]
    <3>1. replies'[c] = Append(<<>>, bad)
      BY <1>1, <1>2, <2>1, <2>2 DEF IInv, Shape
    <3>2. Append(<<>>, bad)[1] = bad
      <4>1. <<>> \in Seq({ bad })
        OBVIOUS
      <4> QED
        BY <4>1
    <3>3. ~WellFormed(plan[c]) /\ replies'[c][1].code = "400"
      BY <1>2, <2>2, <3>1, <3>2
    <3> QED
      BY <1>1, <2>1, <3>3 DEF Whole, FairVerdict, Served, CodeOf
  <2>3. CASE h.state # "ERR"
    BY <1>1, <2>3 DEF Whole, FairVerdict, Served, CodeOf
  <2> QED
    BY <2>2, <2>3
<1>6. WellFormed(plan[c]) => pc'[w] \in { "body", "handle" }
  BY <1>1, <1>2 DEF IInv, Shape, AfterParse
<1> QED
  BY <1>0, <1>1, <1>4, <1>5, <1>6 DEF Whole

LEMMA HandleWhole ==
  ASSUME IInv, Flow, Accounts, Whole, WholeRequests, NEW w \in Workers, Handle(w)
  PROVE  Whole'
<1>0. PICK c : c = client[w]
  OBVIOUS
<1>1. /\ pc[w] = "handle" /\ pc' = [pc EXCEPT ![w] = "accept"]
      /\ UNCHANGED << plan, todo, client, body_read, head, buf >>
      /\ \E code \in { "served", "not_found" } :
           replies' = [replies EXCEPT ![c] = Append(@, [code |-> code, body |-> Body(w)])]
  BY <1>0 DEF Handle, At, Goto, Reply, conns
<1>2. ASSUME NEW v \in Workers PROVE Entire(v)'
  <2>1. pc'[v] = pc[v] \/ pc'[v] = "accept"
    BY <1>1 DEF IInv, Shape
  <2> QED
    BY <1>1, <2>1, EntireKept DEF Whole
<1>3. FairVerdict'
  <2>1. /\ c \in Clients /\ replies[c] = <<>>
        /\ \A d \in Clients \ { c } : replies'[d] = replies[d]
    BY <1>0, <1>1 DEF IInv, Shape, Unanswered, Busy
  <2>2. PICK code \in { "served", "not_found" } :
          replies'[c] = Append(<<>>, [code |-> code, body |-> Body(w)])
    BY <1>1, <2>1 DEF IInv, Shape
  <2>3. replies'[c][1] = [code |-> code, body |-> Body(w)]
    <3>1. <<>> \in Seq({ [code |-> code, body |-> Body(w)] })
      OBVIOUS
    <3> QED
      BY <2>2, <3>1
  <2>4. WellFormed(plan[c]) /\ Body(w) = BodyOf(plan[c])
    BY <1>0, <1>1, RightBody DEF Accounts, Whole, WholeRequests
  <2>5. replies'[c][1].code # "400" /\ replies'[c][1].body = BodyOf(plan[c])
    BY <2>3, <2>4
  <2> QED
    BY <1>1, <2>1, <2>4, <2>5 DEF Whole, FairVerdict, Served, CodeOf
<1> QED
  BY <1>1, <1>2, <1>3 DEF Whole

(* A step that answers nobody and reads nothing                             *)
LEMMA WholeElsewhere ==
  ASSUME Whole, UNCHANGED << plan, replies >>,
         \A c \in Clients : todo'[c] = todo[c] \/ todo'[c] = <<>>,
         \A v \in Workers : Entire(v)'
  PROVE  Whole'
BY DEF Whole, FairVerdict, Served, CodeOf

LEMMA NothingMissing ==
  ASSUME Whole, NEW w \in Workers
  PROVE  ~ReadBody(w) /\ ~BodyNotThere(w) /\ ~BodyEnds(w)
BY DEF Whole, Entire, ReadBody, BodyNotThere, BodyEnds, At

LEMMA NextWhole ==
  ASSUME WholeRequests
  PROVE  IInv /\ Flow /\ Accounts /\ Whole /\ [Next]_vars => Whole'
<1> SUFFICES ASSUME IInv, Flow, Accounts, Whole, [Next]_vars PROVE Whole'
  OBVIOUS
<1>0. ASSUME UNCHANGED << plan, todo, client, body_read, head, pc, buf, replies >>
      PROVE  Whole'
  <2>1. \A v \in Workers : Entire(v)'
    BY <1>0, EntireKept DEF Whole
  <2> QED
    BY <1>0, <2>1, WholeElsewhere
<1>1. ASSUME NEW w \in Workers, Accept(w) PROVE Whole'
  <2>1. /\ pc' = [pc EXCEPT ![w] = "recv"] /\ UNCHANGED << plan, todo, replies >>
        /\ \A v \in Workers \ { w } :
             /\ client'[v] = client[v] /\ head'[v] = head[v] /\ body_read'[v] = body_read[v]
             /\ buf'[v] = buf[v]
    BY <1>1 DEF Accept, Goto, Flow, Types
  <2>2. ASSUME NEW v \in Workers PROVE Entire(v)'
    <3>1. CASE v = w
      BY <2>1, <3>1 DEF Entire, IInv, Shape
    <3>2. CASE v # w
      <4>1. pc'[v] = pc[v]
        BY <2>1, <3>2 DEF IInv, Shape
      <4> QED
        BY <2>1, <3>2, <4>1, EntireKept DEF Whole
    <3> QED
      BY <3>1, <3>2
  <2> QED
    BY <2>1, <2>2, WholeElsewhere
<1>2. ASSUME NEW w \in Workers, Serving(w) PROVE Whole'
  <2>1. CASE GiveUp(w)
    <3>1. /\ pc' = [pc EXCEPT ![w] = "accept"]
          /\ UNCHANGED << plan, todo, client, body_read, head, buf, replies >>
      BY <2>1 DEF GiveUp, Goto, conns
    <3>2. \A v \in Workers : pc'[v] = pc[v] \/ pc'[v] = "accept"
      BY <3>1 DEF IInv, Shape
    <3>3. \A v \in Workers : Entire(v)'
      BY <3>1, <3>2, EntireKept DEF Whole
    <3> QED
      BY <3>1, <3>3, WholeElsewhere
  <2>2. CASE BodyComplete(w)
    <3>1. /\ pc[w] = "body" /\ pc' = [pc EXCEPT ![w] = "handle"]
          /\ UNCHANGED << plan, todo, client, body_read, buf, replies >>
          /\ head' = [head EXCEPT ![w].state = "REQ_DONE"]
      BY <2>2 DEF BodyComplete, At, Goto, sockets
    <3>2. \A v \in Workers : pc'[v] \in { "body", "handle" } => pc[v] \in { "body", "handle" }
      BY <3>1 DEF IInv, Shape
    <3>3. \A v \in Workers : head'[v].content_length = head[v].content_length
      <4>1. head \in [Workers -> Heads]
        BY DEF Flow, Types
      <4> QED
        BY <3>1, <4>1 DEF Heads
    <3>4. \A v \in Workers : Entire(v)'
      BY <3>1, <3>2, <3>3, EntireKept DEF Whole
    <3> QED
      BY <3>1, <3>4, WholeElsewhere
  <2>3. CASE HandleDangling(w)
    BY <1>0, <2>3 DEF HandleDangling, sockets, conns
  <2> QED
    BY <1>2, <2>1, <2>2, <2>3, ReceiveWhole, HandleWhole, NothingMissing DEF Serving
<1>3. ASSUME NEW c \in Clients, ClientStep(c) PROVE Whole'
  <2>1. CASE SendSegment(c)
    <3>1. /\ UNCHANGED << plan, client, body_read, head, pc, buf, replies >>
          /\ todo' = [todo EXCEPT ![c] = SubSeq(@, Len(@) + 1, Len(@))]
      BY <2>1 DEF SendSegment, conns, WholeRequests
    <3>2. SubSeq(todo[c], Len(todo[c]) + 1, Len(todo[c])) = <<>>
      <4>1. Len(todo[c]) \in Nat
        BY Lens DEF Flow
      <4> QED
        BY <4>1, SubSeqEmpty
    <3>3. \A d \in Clients : todo'[d] = todo[d] \/ todo'[d] = <<>>
      BY <3>1, <3>2 DEF IInv, Shape
    <3>4. \A v \in Workers : Entire(v)'
      BY <3>1, EntireKept DEF Whole
    <3> QED
      BY <3>1, <3>3, <3>4, WholeElsewhere
  <2>2. CASE Connect(c) \/ Leave(c)
    BY <1>0, <2>2 DEF Connect, Leave, conns
  <2> QED
    BY <1>3, <2>1, <2>2 DEF ClientStep
<1>4. CASE Idle
  BY <1>0, <1>4 DEF Idle, vars
<1>5. CASE UNCHANGED vars
  BY <1>0, <1>5 DEF vars
<1> QED
  BY <1>1, <1>2, <1>3, <1>4, <1>5 DEF Next

LEMMA WholeInvariance ==
  ASSUME WholeRequests
  PROVE  Spec => [](IInv /\ Flow /\ Accounts /\ Whole)
<1>1. Init => IInv /\ Flow /\ Accounts /\ Whole
  BY InitIInv, InitFlow, InitAccounts, InitWhole
<1>2. AllFramed
  BY DEF WholeRequests
<1>3. (IInv /\ Flow /\ Accounts /\ Whole) /\ [Next]_vars
        => (IInv /\ Flow /\ Accounts /\ Whole)'
  BY <1>2, NextIInv, NextFlow, NextAccounts, NextWhole
<1> QED
  BY <1>1, <1>3, PTL DEF Spec

(* A request is answered by what it is: 400 only for a malformed one, and   *)
(* the handler gets the body the client sent (mugshot.c:651-821).  The      *)
(* assumptions are those under which the code keeps the promise: a request  *)
(* comes in one segment, fits the buffer, and no byte of its body ends a    *)
(* line (WholeRequests).                                                    *)
THEOREM FairVerdictCorrect ==
  ASSUME WholeRequests
  PROVE  Spec => []FairVerdict
<1>1. IInv /\ Flow /\ Accounts /\ Whole => FairVerdict
  BY DEF Whole
<1> QED
  BY <1>1, WholeInvariance, PTL

-----------------------------------------------------------------------------
(* A worker that takes up a client has it served until it closes it.        *)
LEMMA NextNoLeak ==
  ASSUME WholeRequests, \A r \in Requests : WellFormed(r)
  PROVE  IInv /\ Flow /\ Whole /\ NoLeak /\ [Next]_vars => NoLeak'
<1> SUFFICES ASSUME IInv, Flow, Whole, NoLeak, [Next]_vars PROVE NoLeak'
  OBVIOUS
<1>0. ASSUME UNCHANGED << open, pc, client >> PROVE NoLeak'
  BY <1>0 DEF NoLeak
<1>1. ASSUME NEW w \in Workers, Accept(w) PROVE NoLeak'
  <2>1. /\ pc[w] = "accept" /\ pc' = [pc EXCEPT ![w] = "recv"]
        /\ client' = [client EXCEPT ![w] = Head(backlog)]
        /\ open' = open \cup { Head(backlog) }
    BY <1>1 DEF Accept, At, Goto
  <2>2. /\ pc'[w] # "accept" /\ client'[w] = Head(backlog)
        /\ \A v \in Workers \ { w } : pc'[v] = pc[v] /\ client'[v] = client[v]
    BY <2>1 DEF IInv, Shape
  <2>3. ASSUME NEW c \in open PROVE \E v \in Workers : client'[v] = c /\ pc'[v] # "accept"
    <3>1. PICK v \in Workers : client[v] = c /\ pc[v] # "accept"
      BY DEF NoLeak
    <3> QED
      BY <2>1, <2>2, <3>1
  <2> QED
    BY <2>1, <2>2, <2>3 DEF NoLeak
<1>2. ASSUME NEW w \in Workers, Serving(w) PROVE NoLeak'
  <2>1. CASE GiveUp(w) \/ Handle(w)
    <3>1. open' = open \ { client[w] } /\ pc' = [pc EXCEPT ![w] = "accept"] /\ client' = client
      BY <2>1 DEF GiveUp, Handle, CloseSocket, Goto, conns
    <3>2. \A v \in Workers : client[v] # client[w] => pc'[v] = pc[v]
      BY <3>1 DEF IInv, Shape
    <3> QED
      BY <3>1, <3>2 DEF NoLeak
  <2>2. CASE Receive(w)
    <3>1. /\ pc[w] = "recv" /\ UNCHANGED << open, client >>
          /\ \A v \in Workers \ { w } : pc'[v] = pc[v]
      BY <2>2 DEF Receive, At, Goto, IInv, Shape
    <3>2. pc'[w] \in { "body", "handle" }
      <4>1. client[w] \in Clients
        BY <3>1 DEF IInv, Shape, Unanswered, Busy
      <4>2. WellFormed(plan[client[w]])
        BY <4>1 DEF Flow, Types
      <4> QED
        BY <2>2, <4>2, ReceiveWhole
    <3>3. \A v \in Workers : pc[v] # "accept" => pc'[v] # "accept"
      BY <3>1, <3>2
    <3> QED
      BY <3>1, <3>3 DEF NoLeak
  <2>3. CASE BodyComplete(w)
    <3>1. /\ pc' = [pc EXCEPT ![w] = "handle"] /\ UNCHANGED << open, client >>
      BY <2>3 DEF BodyComplete, Goto, sockets
    <3>2. \A v \in Workers : pc[v] # "accept" => pc'[v] # "accept"
      BY <3>1 DEF IInv, Shape
    <3> QED
      BY <3>1, <3>2 DEF NoLeak
  <2>4. CASE HandleDangling(w)
    BY <1>0, <2>4 DEF HandleDangling, sockets, conns
  <2> QED
    BY <1>2, <2>1, <2>2, <2>3, <2>4, NothingMissing DEF Serving
<1>3. ASSUME NEW c \in Clients, ClientStep(c) PROVE NoLeak'
  BY <1>0, <1>3 DEF ClientStep, Connect, SendSegment, Leave, conns
<1>4. CASE Idle
  BY <1>0, <1>4 DEF Idle, vars
<1>5. CASE UNCHANGED vars
  BY <1>0, <1>5 DEF vars
<1> QED
  BY <1>1, <1>2, <1>3, <1>4, <1>5 DEF Next

(* A socket is open only while a worker serves it (mugshot.c:297), clients  *)
(* that leave or say nothing included, if all requests are well-formed: one *)
(* in error is answered and its socket forgotten.                           *)
THEOREM NoLeakCorrect ==
  ASSUME WholeRequests, \A r \in Requests : WellFormed(r)
  PROVE  Spec => []NoLeak
<1>1. Init => NoLeak
  BY DEF Init, NoLeak
<1>2. IInv /\ Flow /\ Accounts /\ Whole /\ NoLeak /\ [Next]_vars => NoLeak'
  BY NextNoLeak
<1> QED
  BY <1>1, <1>2, WholeInvariance, PTL DEF Spec
=============================================================================
