----------------------------- MODULE HttpWorker -----------------------------
(***************************************************************************)
(* The worker threads of the mugshot server and their HTTP clients: accept *)
(* from the shared socket, read and parse one request, answer, close       *)
(* (src/mugshot/mugshot.c:574-597, 651-821, 1077-1196).                    *)
(*                                                                         *)
(* A request is a sequence of units.  A unit either completes a line (its  *)
(* CRLF is in it) or does not:                                             *)
(*   request   a request line: method, path, version                       *)
(*   junk      a line that is neither a request line nor "name: value"     *)
(*   header    a header;  length1..3, too_long  a Content-Length header    *)
(*   blank     the empty line                                              *)
(*   b1..b3    bytes of the body;  crlf  a byte of the body ending a line  *)
(*   part      the first part of a line, cut by the end of a segment       *)
(* ensure_connection is ServePg's; here the database is always there.      *)
(***************************************************************************)
EXTENDS Naturals, Sequences, FiniteSets, SequencesExt

CONSTANTS
  Workers, Clients,
  Requests,      \* the requests clients send, as sequences of units
  Conduct,       \* what clients do beyond sending a request in one segment
  Capacity,      \* units in a worker's initial buffer
  MaxHeaders,    \* MUGSHOT_MAX_HEADERS
  MaxOpen        \* bound of the process on open client sockets

(* Conduct: "segments", the request comes in pieces; "close", the client    *)
(* may leave at any time.                                                   *)
ASSUME ConductAssumption == Conduct \subseteq { "segments", "close" }
ASSUME RequestsAssumption == \A r \in Requests : r \in Seq(Range(r))
ASSUME BoundsAssumption ==
  Capacity \in Nat \ {0} /\ MaxHeaders \in Nat /\ MaxOpen \in Nat

LengthOf == [ length1 |-> 1, length2 |-> 2, length3 |-> 3 ]
HeaderLines == { "header" } \cup DOMAIN LengthOf
LineEnds == HeaderLines \cup { "request", "junk", "too_long", "blank", "crlf" }

VARIABLES
  \* clients and the kernel
  plan,      \* the request each client means to send
  todo,      \* what it has not sent yet
  wire,      \* sent, not received by the server
  gone,      \* clients that closed their end
  backlog,   \* connected, not accepted
  open,      \* clients whose socket is open in the server
  replies,   \* what each client was answered
  \* workers: control point, client, and the mugshot_conn
  pc, client,
  buf,            \* contents of the buffer
  buf_len,        \* how much of it the first recv filled
  capacity,       \* *buf_capacity
  head,           \* state, content_length, body_start: see Parse
  body_read,
  dangling,       \* path points into a buffer that realloc gave back
  process

sockets == << plan, todo, wire, gone, backlog, open >>
conns   == << client, buf, buf_len, capacity, head, body_read, dangling >>
vars    == << plan, todo, wire, gone, backlog, open, replies, pc, client, buf,
              buf_len, capacity, head, body_read, dangling, process >>

None == "none"

States == { "REQ_START", "REQ_HEADERS", "REQ_BODY", "REQ_DONE", "ERR" }

-----------------------------------------------------------------------------
(* _mugshot_http_read: the lines received so far                            *)

Start == [ state |-> "REQ_START", content_length |-> 0, body_start |-> 0,
           headers |-> 0, pos |-> 0 ]

(* The empty line ends the headers; a line in any other state is an error,  *)
(* one that is part of a body as well.                                      *)
\* Mutant: a body is not told from a request without one.
NextStateNoBody(h, line) ==
  CASE h.state = "REQ_START"   /\ line = "request" -> "REQ_HEADERS"
    [] h.state = "REQ_HEADERS" /\ line = "blank"   -> "REQ_DONE"
    [] h.state = "REQ_HEADERS" /\ line \in HeaderLines /\ h.headers < MaxHeaders
                                                   -> "REQ_HEADERS"
    [] OTHER                                       -> "ERR"

NextState(h, line) ==
  CASE h.state = "REQ_START"   /\ line = "request" -> "REQ_HEADERS"
    [] h.state = "REQ_HEADERS" /\ line = "blank"   ->
         IF h.content_length > 0 THEN "REQ_BODY" ELSE "REQ_DONE"
    [] h.state = "REQ_HEADERS" /\ line \in HeaderLines /\ h.headers < MaxHeaders
                                                   -> "REQ_HEADERS"
    [] OTHER                                       -> "ERR"

ParseLine(h, line) ==
  [ state          |-> NextState(h, line),
    content_length |-> IF line \in DOMAIN LengthOf THEN LengthOf[line]
                                                   ELSE h.content_length,
    body_start     |-> IF h.state = "REQ_HEADERS" /\ line = "blank"
                         THEN h.pos + 1 ELSE h.body_start,
    headers        |-> IF line \in HeaderLines THEN h.headers + 1 ELSE h.headers,
    pos            |-> h.pos + 1 ]

(* One unit of the buffer; after a failure nothing more is parsed.          *)
ParseUnit(h, u) ==
  IF h.state = "ERR" THEN h
  ELSE IF u \in LineEnds THEN ParseLine(h, u)
  ELSE [ h EXCEPT !.pos = @ + 1 ]

Parse(units) ==
  LET upto[n \in 0..Len(units)] ==
        IF n = 0 THEN Start ELSE ParseUnit(upto[n - 1], units[n])
  IN  upto[Len(units)]

(* The outcome for everything a worker's first recv may return: a prefix of *)
(* a request.                                                               *)
FirstReads == UNION { { SubSeq(r, 1, n) : n \in 1..Len(r) } : r \in Requests }
Parsed == [ units \in FirstReads |-> Parse(units) ]

-----------------------------------------------------------------------------
Init ==
  /\ plan \in [Clients -> Requests] /\ todo = plan
  /\ wire = [c \in Clients |-> <<>>] /\ gone = {} /\ backlog = <<>> /\ open = {}
  /\ replies = [c \in Clients |-> <<>>]
  /\ pc = [w \in Workers |-> "accept"] /\ client = [w \in Workers |-> None]
  /\ buf = [w \in Workers |-> <<>>] /\ buf_len = [w \in Workers |-> 0]
  /\ capacity = [w \in Workers |-> Capacity]
  /\ head = [w \in Workers |-> Start] /\ body_read = [w \in Workers |-> 0]
  /\ dangling = [w \in Workers |-> FALSE]
  /\ process = "up"

(* Clients                                                                  *)
Arrived(c) == c \in open \/ c \in Range(backlog)
Left(c)    == plan[c] # todo[c] \/ c \in gone   \* c has been here

Connect(c) ==
  /\ ~Arrived(c) /\ ~Left(c)
  /\ backlog' = Append(backlog, c)
  /\ UNCHANGED << plan, todo, wire, gone, open, replies, pc, conns, process >>

SendSegment(c) ==
  /\ Arrived(c) /\ c \notin gone /\ todo[c] # <<>>
  /\ \E n \in IF "segments" \in Conduct THEN 1..Len(todo[c]) ELSE { Len(todo[c]) } :
       /\ wire' = [wire EXCEPT ![c] = @ \o SubSeq(todo[c], 1, n)]
       /\ todo' = [todo EXCEPT ![c] = SubSeq(@, n + 1, Len(@))]
  /\ UNCHANGED << plan, gone, backlog, open, replies, pc, conns, process >>

Leave(c) ==
  /\ "close" \in Conduct /\ Arrived(c) /\ c \notin gone
  /\ gone' = gone \cup {c}
  /\ UNCHANGED << plan, todo, wire, backlog, open, replies, pc, conns, process >>

-----------------------------------------------------------------------------
(* Workers                                                                  *)

At(w, p) == process = "up" /\ pc[w] = p

Goto(w, p) == pc' = [pc EXCEPT ![w] = p]

Reply(w, code, body) ==
  replies' = [replies EXCEPT ![client[w]] = Append(@, [code |-> code, body |-> body])]

\* Mutant: the socket is forgotten, not closed.
CloseNothing(w) == open' = open

CloseSocket(w) == open' = open \ { client[w] }

(* accept; it fails when the process has no descriptor left, and the worker *)
(* tries again a second later.                                              *)
Accept(w) ==
  /\ At(w, "accept") /\ backlog # <<>> /\ Cardinality(open) < MaxOpen
  /\ client' = [client EXCEPT ![w] = Head(backlog)]
  /\ backlog' = Tail(backlog)
  /\ open' = open \cup { Head(backlog) }
  /\ Goto(w, "recv")
  /\ buf' = [buf EXCEPT ![w] = <<>>] /\ buf_len' = [buf_len EXCEPT ![w] = 0]
  /\ head' = [head EXCEPT ![w] = Start]
  /\ body_read' = [body_read EXCEPT ![w] = 0]
  /\ dangling' = [dangling EXCEPT ![w] = FALSE]
  /\ UNCHANGED << plan, todo, wire, gone, replies, capacity, process >>

(* Nothing to read: the client has closed, or was silent for five seconds.  *)
\* Mutant: the socket stays open.
GiveUpNoClose(w) ==
  /\ At(w, "recv") /\ wire[client[w]] = <<>>
  /\ Goto(w, "accept")
  /\ UNCHANGED << sockets, replies, conns, process >>

\* Mutant: only a closed socket ends the wait.
GiveUpOnClose(w) ==
  /\ At(w, "recv") /\ wire[client[w]] = <<>> /\ client[w] \in gone
  /\ CloseSocket(w) /\ Goto(w, "accept")
  /\ UNCHANGED << plan, todo, wire, gone, backlog, replies, conns, process >>

GiveUp(w) ==
  /\ At(w, "recv") /\ wire[client[w]] = <<>>
  /\ CloseSocket(w) /\ Goto(w, "accept")
  /\ UNCHANGED << plan, todo, wire, gone, backlog, replies, conns, process >>

(* The first recv and _mugshot_http_read of what it got, up to the body:    *)
(* the one time a connection's lines are parsed.  Unless the request is     *)
(* complete or lacks only its body, the worker turns to the next client.    *)
Received(w) ==
  LET c == client[w]
      n == IF Len(wire[c]) < capacity[w] THEN Len(wire[c]) ELSE capacity[w]
  IN  SubSeq(wire[c], 1, n)

AfterParse(h) ==
  CASE h.state = "REQ_BODY" -> "body"
    [] h.state = "REQ_DONE" -> "handle"
    [] OTHER                -> "accept"

\* Mutant: room for the body alone.
NeededBodyOnly(h) == h.content_length

Needed(h) == h.body_start + h.content_length

(* Body bytes that came with the headers.                                   *)
\* Mutant: the subtraction the other way round.
BodyInBufferSwapped(h, units) == h.body_start - Len(units)

\* Mutant: what came with the headers is asked for again.
BodyInBufferZero(h, units) == 0

BodyInBuffer(h, units) == Len(units) - h.body_start

Receive(w) ==
  LET c == client[w]
      units == Received(w)
      h == Parsed[units]
      grows == h.state = "REQ_BODY" /\ capacity[w] < Needed(h)
  IN
  /\ At(w, "recv") /\ wire[c] # <<>>
  /\ wire' = [wire EXCEPT ![c] = SubSeq(@, Len(units) + 1, Len(@))]
  /\ buf' = [buf EXCEPT ![w] = units]
  /\ buf_len' = [buf_len EXCEPT ![w] = Len(units)]
  /\ head' = [head EXCEPT ![w] = h]
  /\ Goto(w, AfterParse(h))
  /\ IF h.state = "ERR" THEN Reply(w, "400", <<>>) ELSE UNCHANGED replies
  /\ capacity' = [capacity EXCEPT ![w] = IF grows THEN Needed(h) ELSE @]
  /\ \E moved \in { FALSE, grows } : dangling' = [dangling EXCEPT ![w] = moved]
  /\ body_read' = [body_read EXCEPT ![w] =
                     IF h.state = "REQ_BODY" THEN BodyInBuffer(h, units) ELSE 0]
  /\ UNCHANGED << plan, todo, gone, backlog, open, client, process >>

(* The rest of the body: every recv writes at buf_len, which stays.         *)
Missing(w) == head[w].content_length - body_read[w]
HasBody(w) == body_read[w] >= head[w].content_length

Overwrite(b, from, units) ==
  SubSeq(b, 1, from) \o units \o SubSeq(b, from + Len(units) + 1, Len(b))

ReadBody(w) ==
  LET c == client[w]
      n == IF Len(wire[c]) < Missing(w) THEN Len(wire[c]) ELSE Missing(w)
  IN
  /\ At(w, "body") /\ ~HasBody(w) /\ wire[c] # <<>>
  /\ buf' = [buf EXCEPT ![w] = Overwrite(@, buf_len[w], SubSeq(wire[c], 1, n))]
  /\ wire' = [wire EXCEPT ![c] = SubSeq(@, n + 1, Len(@))]
  /\ body_read' = [body_read EXCEPT ![w] = @ + n]
  /\ UNCHANGED << plan, todo, gone, backlog, open, replies, pc, client, buf_len,
                  capacity, head, dangling, process >>

(* The next byte is still on its way: EAGAIN fails the request.             *)
BodyNotThere(w) ==
  /\ At(w, "body") /\ ~HasBody(w) /\ wire[client[w]] = <<>> /\ client[w] \notin gone
  /\ head' = [head EXCEPT ![w].state = "ERR"]
  /\ Reply(w, "400", <<>>)
  /\ Goto(w, "accept")
  /\ UNCHANGED << sockets, client, buf, buf_len, capacity, body_read, dangling,
                  process >>

(* The client has gone: recv returns 0, again and again.                    *)
BodyEnds(w) ==
  /\ At(w, "body") /\ ~HasBody(w) /\ wire[client[w]] = <<>> /\ client[w] \in gone
  /\ UNCHANGED vars

BodyComplete(w) ==
  /\ At(w, "body") /\ HasBody(w)
  /\ head' = [head EXCEPT ![w].state = "REQ_DONE"]
  /\ Goto(w, "handle")
  /\ UNCHANGED << sockets, replies, client, buf, buf_len, capacity, body_read,
                  dangling, process >>

(* What the handler sees as the body: a byte no recv wrote is whatever the  *)
(* buffer held.                                                             *)
Body(w) ==
  [ i \in 1..head[w].content_length |->
      LET p == head[w].body_start + i
      IN  IF p <= Len(buf[w]) THEN buf[w][p] ELSE "stale" ]

(* Routing, the handler, its answer, close.  The path is looked at first.   *)
\* Mutant: a request no route handles is neither answered nor closed.
HandleNoFallback(w) ==
  /\ At(w, "handle") /\ ~dangling[w]
  /\ \/ Reply(w, "served", Body(w)) /\ CloseSocket(w)
     \/ UNCHANGED << replies, open >>
  /\ Goto(w, "accept")
  /\ UNCHANGED << plan, todo, wire, gone, backlog, conns, process >>

\* Mutant: a parameter that is missing answers 404, and goes on to do so again.
HandleTwice(w) ==
  /\ At(w, "handle") /\ ~dangling[w]
  /\ Reply(w, "not_found", Body(w))
  /\ \/ CloseSocket(w) /\ Goto(w, "accept")
     \/ UNCHANGED << open, pc >>
  /\ UNCHANGED << plan, todo, wire, gone, backlog, conns, process >>

Handle(w) ==
  /\ At(w, "handle") /\ ~dangling[w]
  /\ \E code \in { "served", "not_found" } : Reply(w, code, Body(w))
  /\ CloseSocket(w) /\ Goto(w, "accept")
  /\ UNCHANGED << plan, todo, wire, gone, backlog, conns, process >>

(* The path is in memory realloc gave back: the address sanitizer ends the  *)
(* process.                                                                 *)
HandleDangling(w) ==
  /\ At(w, "handle") /\ dangling[w]
  /\ process' = "aborted"
  /\ UNCHANGED << sockets, replies, pc, conns >>

-----------------------------------------------------------------------------
(* Blocked in accept for ever, or the process has ended                     *)
Idle ==
  /\ process = "aborted" \/ \A w \in Workers : pc[w] = "accept"
  /\ UNCHANGED vars

Serving(w) ==
  \/ GiveUp(w) \/ Receive(w) \/ ReadBody(w) \/ BodyNotThere(w) \/ BodyEnds(w)
  \/ BodyComplete(w) \/ Handle(w) \/ HandleDangling(w)

ClientStep(c) == Connect(c) \/ SendSegment(c) \/ Leave(c)

Next ==
  \/ \E w \in Workers : Accept(w) \/ Serving(w)
  \/ \E c \in Clients : ClientStep(c)
  \/ Idle

(* Threads are scheduled; clients may stop anywhere.                        *)
Spec ==
  /\ Init /\ [][Next]_vars
  /\ \A w \in Workers : WF_vars(Accept(w)) /\ WF_vars(Serving(w))

-----------------------------------------------------------------------------
(* Properties                                                               *)

Served(c)   == replies[c] # <<>>
CodeOf(c)   == replies[c][1].code
Handled(c)  == Served(c) /\ CodeOf(c) # "400"

(* The grammar of requests: request line, headers, empty line, and as many  *)
(* units of body as the last length in the headers says.                    *)
Lengths(req, k) == { i \in 1..(k - 1) : req[i] \in DOMAIN LengthOf }
LastLength(req, k) ==
  CHOOSE i \in Lengths(req, k) : \A j \in Lengths(req, k) : j <= i
DeclaredLength(req, k) ==
  IF Lengths(req, k) = {} THEN 0 ELSE LengthOf[req[LastLength(req, k)]]

HeadersIn(req, k) == { i \in 1..(k - 1) : req[i] \in HeaderLines }

HeadAndBody(req, k) ==   \* unit k is the empty line
  /\ req[k] = "blank"
  /\ \E first \in 1..(k - 1) :
       /\ req[first] = "request" /\ \A i \in 1..(first - 1) : req[i] = "part"
       /\ \A i \in (first + 1)..(k - 1) : req[i] \in HeaderLines \cup { "part" }
  /\ Cardinality(HeadersIn(req, k)) <= MaxHeaders
  /\ Len(req) = k + DeclaredLength(req, k)

WellFormed(req) == \E k \in 1..Len(req) : HeadAndBody(req, k)

BodyOf(req) ==
  LET k == CHOOSE i \in 1..Len(req) : HeadAndBody(req, i)
  IN  SubSeq(req, k + 1, Len(req))

(* What a client that counts its bytes sends, be it well-formed or not: up  *)
(* to the empty line no byte of a body, behind it as many as announced.     *)
EndsHead(req, k) ==
  /\ req[k] = "blank"
  /\ \A i \in 1..(k - 1) :
       req[i] \in HeaderLines \cup { "part", "request", "junk", "too_long" }
  /\ Len(req) = k + DeclaredLength(req, k)

Framed(req) == \E k \in 1..Len(req) : EndsHead(req, k)

(* ... in whose body nothing ends a line.                                   *)
PlainBody(req) ==
  \A k \in 1..Len(req) :
    req[k] = "blank" => \A i \in (k + 1)..Len(req) : req[i] \notin LineEnds

(* Every variable keeps to its type.                                        *)
TypeOK ==
  /\ \A c \in Clients :
       todo[c] \in Seq(Range(plan[c])) /\ wire[c] \in Seq(Range(plan[c]))
  /\ gone \subseteq Clients /\ open \subseteq Clients /\ backlog \in Seq(Clients)
  /\ pc \in [Workers -> { "accept", "recv", "body", "handle" }]
  /\ client \in [Workers -> Clients \cup { None }]
  /\ \A w \in Workers : head[w].state \in States
  /\ body_read \in [Workers -> Nat] /\ dangling \in [Workers -> BOOLEAN]
  /\ process \in { "up", "aborted" }

(* A request is answered by what it is, however it arrived: 400 only for a  *)
(* malformed one, and the handler gets the body the client sent             *)
(* (mugshot.c:651-821).                                                     *)
FairVerdict ==
  \A c \in Clients : Served(c) =>
    IF WellFormed(plan[c])
      THEN CodeOf(c) # "400" /\ replies[c][1].body = BodyOf(plan[c])
      ELSE CodeOf(c) = "400"

(* The body a handler gets is the client's, also when it comes piecemeal    *)
(* (mugshot.c:324, 800-810).                                                *)
OwnBody ==
  \A c \in Clients :
    Handled(c) /\ WellFormed(plan[c]) => replies[c][1].body = BodyOf(plan[c])

(* A handler runs only for a well-formed request of which every byte was    *)
(* received (mugshot.c:1154).                                               *)
HandledIsComplete ==
  \A c \in Clients :
    Handled(c) => WellFormed(plan[c]) /\ todo[c] = <<>> /\ wire[c] = <<>>

(* No client is answered twice.                                             *)
OneReply == \A c \in Clients : Len(replies[c]) <= 1

(* No recv writes past the end of the buffer, the ones for the body, which  *)
(* all write at buf_len, included (mugshot.c:795-810).                      *)
WithinCapacity ==
  \A w \in Workers :
    Len(buf[w]) <= capacity[w]
      /\ (pc[w] = "body" =>
            head[w].body_start + head[w].content_length <= capacity[w])

(* A socket is open only while a worker serves it (mugshot.c:297).          *)
NoLeak ==
  \A c \in open : \E w \in Workers : client[w] = c /\ pc[w] # "accept"

(* A worker comes back from every client (mugshot.c:1131-1151).             *)
WorkersReturn ==
  \A w \in Workers : (pc[w] = "recv") ~> (pc[w] = "accept" \/ process = "aborted")

(* Every client that connects is accepted: the process does not run out of  *)
(* descriptors (mugshot.c:1098-1105, 1192).                                 *)
BacklogDrains == \A c \in Clients : (c \in Range(backlog)) ~> (c \notin Range(backlog))

(* A client whose whole request was sent while its socket was open is       *)
(* answered, or its socket is closed (mugshot.c:1132-1137, 1188-1193).      *)
AnsweredOrClosed ==
  \A c \in Clients :
    (c \in open /\ todo[c] = <<>>) ~> (Served(c) \/ c \notin open)
=============================================================================
