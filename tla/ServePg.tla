------------------------------ MODULE ServePg ------------------------------
(***************************************************************************)
(* One mugshot worker and its PostgreSQL connection: ensure_connection,    *)
(* mugshot_serve_pg and the reading half of pgwire.c, at the grain of one  *)
(* blocking read (src/mugshot/mugshot.c:953-1075, pgwire.c:328-590).       *)
(*                                                                         *)
(* Requests are numbered in the order the worker serves them.  The worker  *)
(* sends all queries of a request with one write and then reads messages   *)
(* one by one; the backend answers a whole request when it reaches Sync.   *)
(* Nothing in the protocol names the request an answer belongs to, so      *)
(* whatever is left unread is taken for the answer to the next request.    *)
(***************************************************************************)
EXTENDS PgScripts

CONSTANTS
  MaxRequests,   \* bound: requests served in a behaviour
  Outcomes,      \* the outcomes a request may have in the backend
  Faults,        \* the faults of the environment
  DebugBuild     \* compiled with -DDEBUG, as src/mugshot/Makefile does

ASSUME MaxRequestsAssumption == MaxRequests \in Nat
ASSUME OutcomesAssumption    == Outcomes \subseteq AllOutcomes
ASSUME FaultsAssumption      == Faults \subseteq AllFaults
ASSUME BuildAssumption       == DebugBuild \in BOOLEAN

Requests == 1..MaxRequests

VARIABLES
  \* worker: control point and locals of mugshot_serve_pg
  pc,        \* where the worker is
  query,     \* which of the three queries it is reading the result of
  cur,       \* the request being served, 0 before the first
  body,      \* whose row `response` holds, 0 when it is no function row
  status,    \* what the status row says
  \* the PgConn
  delay,     \* seconds until the next connection attempt
  conn,      \* "none", "open", or "freed" (pg_close was called on it)
  close,     \* PgConn.close
  error,     \* PgConn.error: "none", "syntax" (invalid input syntax), "other"
  aligned,   \* the socket's read position is at the start of a message
  \* the wire and the backend
  stream,    \* sent by the backend, unread: a sequence of (partial) answers
  backend,   \* "up"; "fatal": ended, its last message a FATAL error; "gone"
  asked,     \* requests the backend has not answered yet
  setting,   \* mugshot.http_status of the session
  \* what others see
  replies,   \* HTTP responses each client got
  process,   \* "up" or "aborted": the server process
  \* history
  effect,    \* what each request did in the database
  sentDead   \* requests sent on this connection after its backend ended

locals  == << query, body, status >>
pgconn  == << delay, conn, close, error, aligned >>
wire    == << stream, backend, asked, setting >>
outside == << replies, process >>
history == << effect, sentDead >>
vars    == << pc, query, cur, body, status, delay, conn, close, error, aligned,
              stream, backend, asked, setting, replies, process, effect,
              sentDead >>

ReadPoints == { "parse", "bind", "describe", "complete", "row", "extra",
                "ready", "resync", "resync_final" }
PCs == ReadPoints \cup { "ensure", "accept", "send", "respond", "not_ready",
                         "clear", "fail" }

Statuses == { "200", "409" }
Effects  == Statuses \cup { "none", "rejected", "failed" }
Settings == Statuses \cup { "unset" }
Codes    == Settings \cup { "400", "501", "junk" }
Delays   == { 5, 10, 20, 40, 60 }
Errors   == { "none", "syntax", "other" }

(* A (partly read) answer: to request `of`, messages pos..end of the script *)
(* of `out`, notices still pending before the positions in `notices`, the   *)
(* status row carrying `status`.                                            *)
Answers == [ of : Requests, out : AllOutcomes, pos : Nat, end : Nat,
             notices : SUBSET Nat, status : Settings ]

Init ==
  /\ pc = "ensure" /\ query = 1 /\ cur = 0 /\ body = 0 /\ status = "junk"
  /\ delay = 5 /\ conn = "none" /\ close = FALSE /\ error = "none" /\ aligned = TRUE
  /\ stream = <<>> /\ backend = "gone" /\ asked = <<>>
  /\ setting = "unset"
  /\ replies = [r \in Requests |-> <<>>]
  /\ process = "up"
  /\ effect = [r \in Requests |-> "none"] /\ sentDead = 0

-----------------------------------------------------------------------------
(* Reading one message from the socket.                                     *)

Front         == stream[1]
NoticePending == Front.pos \in Front.notices

(* recv gives up after 60 seconds; without "late" the backend always        *)
(* answers sooner, so only a worker waiting for what never comes times out. *)
\* Mutant: SO_RCVTIMEO is not set.
NeverTimesOut == FALSE

TimesOut ==
  stream = <<>> /\ backend = "up" /\ (asked = <<>> \/ "late" \in Faults)

Readable == stream # <<>> \/ backend # "up" \/ TimesOut

Incoming ==
  IF stream # <<>>
    THEN IF NoticePending THEN "notice" ELSE Script[Front.out][Front.pos]
    ELSE IF backend = "fatal" THEN "error" ELSE "nothing"

(* The class of the error message at the head of the stream, as read_error  *)
(* stores it: only a Bind error says "invalid input syntax".                *)
IncomingError ==
  IF stream # <<>> /\ Front.out = "bad_input" THEN "syntax" ELSE "other"

Consume ==
  /\ process = "up" /\ Readable /\ aligned
  /\ stream' = IF stream = <<>> THEN stream
               ELSE IF NoticePending
                 THEN [stream EXCEPT ![1].notices = @ \ {Front.pos}]
               ELSE IF Front.pos < Front.end
                 THEN [stream EXCEPT ![1].pos = @ + 1]
               ELSE Tail(stream)
  /\ backend' = IF stream = <<>> /\ backend = "fatal" THEN "gone" ELSE backend
  /\ UNCHANGED << asked, setting, cur, delay, conn, outside, history >>

(* expect_msg(c, m) at pc `here`: on the message go `next`; after an error   *)
(* message go `errpc`, where read_error wants ReadyForQuery; else go `bad`. *)
ExpectMsg(here, m, next, errpc, bad) ==
  /\ pc = here
  /\ Consume
  /\ UNCHANGED << body, status >>
  /\ \/ /\ Incoming = m
        /\ pc' = next
        /\ UNCHANGED << error, aligned >>
     \/ /\ Incoming = "notice"
        /\ UNCHANGED << pc, error, aligned >>
     \/ /\ Incoming = "error"
        /\ pc' = errpc
        /\ error' = IncomingError
        /\ UNCHANGED aligned
     \/ /\ Incoming \notin { m, "notice", "error" }
        /\ pc' = bad
        \* the header is consumed, the payload is not
        /\ aligned' = ~(Incoming # "nothing" /\ HasPayload(Incoming))
        /\ UNCHANGED error

(* pg_read_result of the current query                                      *)
\* Mutant: an error response is not followed by the wait for ReadyForQuery.
ReadParseCompleteNoResync ==
  ExpectMsg("parse", "parseOk", "bind", "fail", "fail")
    /\ UNCHANGED << query, close >>

ReadParseComplete ==
  ExpectMsg("parse", "parseOk", "bind", "resync", "fail")
    /\ UNCHANGED << query, close >>

ReadBindComplete ==
  ExpectMsg("bind", "bindOk", "describe", "resync", "fail")
    /\ UNCHANGED << query, close >>

(* pg_read_result returns: the SET has no rows to read, the others do.      *)
AfterResult == IF query = 1 THEN "parse" ELSE "row"

ReadDescription ==
  /\ pc = "describe"
  /\ Consume
  /\ pc' = CASE Incoming = "noData"  -> "complete"
             [] Incoming = "rowDesc" -> AfterResult
             [] OTHER                -> "fail"
  /\ query' = IF pc' = "parse" THEN 2 ELSE query
  /\ UNCHANGED << body, status, close, error, aligned >>

ReadCommandComplete ==
  /\ ExpectMsg("complete", "complete", AfterResult, "resync", "fail")
  /\ query' = IF pc' = "parse" THEN 2 ELSE query
  /\ UNCHANGED close

(* pg_next_row for the row that must be there                               *)

\* Mutant: the response still points at the value last read.
ReadRowKeepsPointer ==
  /\ pc = "row"
  /\ Consume
  /\ pc' = IF Incoming = "notice" THEN "row"
           ELSE IF IsRow(Incoming) THEN "extra" ELSE "fail"
  /\ body' = IF IsRow(Incoming)
               THEN IF Incoming = "row" THEN Front.of ELSE 0
               ELSE body
  /\ status' = IF query # 2 /\ Incoming = "statusRow" THEN Front.status ELSE status
  /\ UNCHANGED << query, close, error, aligned >>

\* Mutant: a notice in front of a row is not handled.
ReadRowNoNotice ==
  /\ pc = "row"
  /\ Consume
  /\ pc' = IF IsRow(Incoming) THEN "extra" ELSE "fail"
  /\ body' = IF query = 2 /\ Incoming = "row" THEN Front.of ELSE body
  /\ status' = IF query # 2 /\ Incoming = "statusRow" THEN Front.status ELSE status
  /\ UNCHANGED << query, close, error, aligned >>

ReadRow ==
  /\ pc = "row"
  /\ Consume
  /\ pc' = IF Incoming = "notice" THEN "row"
           ELSE IF IsRow(Incoming) THEN "extra" ELSE "fail"
  /\ body' = IF query = 2 /\ IsRow(Incoming)
               THEN IF Incoming = "row" THEN Front.of ELSE 0
               ELSE body
  /\ status' = IF query # 2 /\ IsRow(Incoming)
                 THEN IF Incoming = "statusRow" THEN Front.status ELSE "junk"
                 ELSE status
  /\ UNCHANGED << query, close, error, aligned >>

(* pg_next_row for the row that must not be there: after the function's row *)
(* it must report the end of the rows, after the status row any failure to  *)
(* read a row passes.                                                       *)
ReadNoMoreRows ==
  /\ pc = "extra"
  /\ Consume
  /\ pc' = IF Incoming = "notice" THEN "extra"
           ELSE IF query = 2
             THEN IF Incoming = "complete" THEN "parse" ELSE "fail"
             ELSE IF IsRow(Incoming) THEN "fail" ELSE "respond"
  /\ query' = IF pc' = "parse" THEN 3 ELSE query
  /\ UNCHANGED << body, status, close, error, aligned >>

(* pg_ready                                                                 *)

\* Mutant: any message but ReadyForQuery, a notice too, is a failure.
ReadReadyStrict ==
  /\ pc = "ready"
  /\ Consume
  /\ pc' = IF Incoming = "ready" THEN "clear" ELSE "not_ready"
  /\ UNCHANGED << locals, error, aligned, close >>

ReadReady ==
  ExpectMsg("ready", "ready", "clear", "resync_final", "not_ready")
    /\ UNCHANGED << query, close >>

(* read_error: the connection is to be closed unless ReadyForQuery follows. *)
\* Mutant: read_error does not mark the connection for closing.
ReadyAfterErrorKeeps ==
  /\ \/ ExpectMsg("resync", "ready", "fail", "resync", "fail")
     \/ ExpectMsg("resync_final", "ready", "not_ready", "resync_final", "not_ready")
  /\ UNCHANGED << query, close >>

ReadyAfterError ==
  /\ \/ ExpectMsg("resync", "ready", "fail", "resync", "fail")
     \/ ExpectMsg("resync_final", "ready", "not_ready", "resync_final", "not_ready")
  /\ close' = (close \/ Incoming \notin { "ready", "notice" })
  /\ UNCHANGED query

(* A read in the middle of a message: five bytes of payload taken for a     *)
(* header.  No payload looks like ParseComplete (a zero-size message), so   *)
(* it fails; a length made of payload bytes may swallow anything after it,  *)
(* and bytes that look like an empty error message set close.               *)
ReadJunk ==
  /\ process = "up" /\ pc = "parse" /\ ~aligned /\ Readable
  /\ \E k \in 0..Len(stream) :
       LET rest == SubSeq(stream, k + 1, Len(stream)) IN
       \/ rest = <<>> /\ stream' = <<>>
       \/ /\ rest # <<>>
          /\ \E p \in rest[1].pos..rest[1].end :
               stream' = [rest EXCEPT ![1].pos = p]
  /\ aligned' \in BOOLEAN
  /\ close' \in { close, TRUE }
  /\ pc' = "fail"
  /\ UNCHANGED << locals, cur, delay, conn, error, backend, asked, setting,
                  outside, history >>

-----------------------------------------------------------------------------
(* The rest of the worker                                                   *)

Reply(code, of) ==
  replies' = [replies EXCEPT ![cur] = Append(@, [code |-> code, body |-> of])]

ClosedWire ==
  /\ stream' = <<>> /\ asked' = <<>> /\ aligned' = TRUE

(* ensure_connection: a connection marked close is replaced, and a missing  *)
(* one is opened, however many attempts that takes.                         *)
\* Mutant: the close flag is not looked at.
KeepAnyConnection ==
  /\ process = "up" /\ pc = "ensure" /\ conn = "open"
  /\ pc' = "accept"
  /\ UNCHANGED << cur, locals, pgconn, wire, outside, history >>

KeepConnection ==
  /\ process = "up" /\ pc = "ensure" /\ conn = "open" /\ ~close
  /\ pc' = "accept"
  /\ UNCHANGED << cur, locals, pgconn, wire, outside, history >>

\* Mutant: the flag outlives the connection.
CloseConnectionKeepsFlag ==
  /\ process = "up" /\ pc = "ensure" /\ conn = "open" /\ close
  /\ conn' = "none"
  /\ ClosedWire /\ backend' = "gone" /\ setting' = "unset"
  /\ UNCHANGED << pc, cur, locals, delay, close, error, outside, history >>

CloseConnection ==
  /\ process = "up" /\ pc = "ensure" /\ conn = "open" /\ close
  /\ conn' = "none" /\ close' = FALSE
  /\ ClosedWire /\ backend' = "gone" /\ setting' = "unset"
  /\ UNCHANGED << pc, cur, locals, delay, error, outside, history >>

Connect ==
  /\ process = "up" /\ pc = "ensure" /\ conn = "none"
  /\ conn' = "open" /\ close' = FALSE /\ error' = "none"
  /\ ClosedWire /\ backend' = "up" /\ setting' = "unset"
  /\ delay' = 5 /\ sentDead' = 0
  /\ pc' = "accept"
  /\ UNCHANGED << cur, locals, outside, effect >>

(* pg_connect returned NULL: the debug build's LOG_DEBUG follows the null   *)
(* pointer, the other build sleeps and tries again.                         *)
\* Mutant: the delay between attempts is not capped.
ConnectFailsUncapped ==
  /\ process = "up" /\ pc = "ensure" /\ conn = "none" /\ "down" \in Faults
  /\ delay' = 2 * delay
  /\ UNCHANGED << pc, cur, locals, conn, close, error, aligned, wire, outside,
                  history >>

ConnectFails ==
  /\ process = "up" /\ pc = "ensure" /\ conn = "none" /\ "down" \in Faults
  /\ IF DebugBuild
       THEN process' = "aborted" /\ UNCHANGED delay
       ELSE /\ delay' = IF 2 * delay > 60 THEN 60 ELSE 2 * delay
            /\ UNCHANGED process
  /\ UNCHANGED << pc, cur, locals, conn, close, error, aligned, wire, replies,
                  history >>

(* The worker has accepted and parsed a request for some endpoint.          *)
Accept ==
  /\ process = "up" /\ pc = "accept" /\ cur < MaxRequests
  /\ cur' = cur + 1
  /\ pc' = "send" /\ query' = 1 /\ body' = 0 /\ status' = "junk"
  /\ UNCHANGED << pgconn, wire, outside, history >>

(* pg_put_query three times and pg_sync: one write, whose failure (it is    *)
(* -1) passes for success.                                                  *)
Send ==
  /\ process = "up" /\ pc = "send"
  /\ asked' = IF backend = "up" THEN Append(asked, cur) ELSE asked
  /\ sentDead' = IF backend = "up" THEN sentDead ELSE sentDead + 1
  /\ pc' = "parse"
  /\ UNCHANGED << cur, locals, pgconn, stream, backend, setting, outside, effect >>

(* Status line, headers and body go out before pg_ready is awaited.         *)
Respond ==
  /\ process = "up" /\ pc = "respond"
  /\ Reply(status, body)
  /\ pc' = "ready"
  /\ UNCHANGED << cur, locals, pgconn, wire, process, history >>

(* pg_ready failed: pg_close frees the PgConn.                              *)
\* Mutant: pg_ready failing goes to fail like every other failure.
NotReadyFails ==
  /\ process = "up" /\ pc = "not_ready"
  /\ pc' = "fail"
  /\ UNCHANGED << cur, locals, pgconn, wire, outside, history >>

NotReady ==
  /\ process = "up" /\ pc = "not_ready"
  /\ conn' = "freed"
  /\ pc' = "clear"
  /\ UNCHANGED << cur, locals, delay, close, error, aligned, wire, outside, history >>

(* pg_clear(conn); on a freed PgConn the address sanitizer the Makefile     *)
(* builds with ends the process.                                            *)
Clear ==
  /\ process = "up" /\ pc = "clear"
  /\ IF conn = "freed"
       THEN process' = "aborted" /\ UNCHANGED << pc, error >>
       ELSE pc' = "ensure" /\ error' = "none" /\ UNCHANGED process
  /\ UNCHANGED << cur, locals, delay, conn, close, aligned, wire, replies, history >>

\* Mutants: the class of the error is not looked at; any error is the client's.
FailCodeInternal == "501"
FailCodeAnyError == IF error # "none" THEN "400" ELSE "501"

FailCode == IF error = "syntax" THEN "400" ELSE "501"

Fail ==
  /\ process = "up" /\ pc = "fail"
  /\ Reply(FailCode, 0)
  /\ error' = "none"
  /\ pc' = "ensure"
  /\ UNCHANGED << cur, locals, delay, conn, close, aligned, wire, process, history >>

-----------------------------------------------------------------------------
(* The backend                                                              *)

(* The first of the three queries gives the setting its default back.       *)
\* Mutant: without that query.
SettingLeftAlone(old) == old

SettingAfterSet(old) == "200"

(* The status the function chooses.                                         *)
ChosenStatus(out) == IF out = "conflict" THEN "409" ELSE "200"

SettingAt(out) ==
  IF out = "conflict" THEN "409" ELSE SettingAfterSet(setting)

EffectOf(out) ==
  CASE out = "bad_input"     -> "rejected"
    [] out \in Committing    -> ChosenStatus(out)
    [] OTHER                 -> "failed"

BackendAnswers ==
  /\ backend = "up" /\ asked # <<>>
  /\ \E out \in Outcomes :
     \E n \in (IF "notice" \in Faults THEN NoticePoints(out) ELSE {}) \cup {0} :
       /\ stream' = Append(stream,
                      [ of |-> Head(asked), out |-> out, pos |-> 1,
                        end |-> Len(Script[out]), notices |-> {n},
                        status |-> SettingAt(out) ])
       /\ effect' = [effect EXCEPT ![Head(asked)] = EffectOf(out)]
       /\ setting' = IF out \in Committing THEN SettingAt(out) ELSE setting
       /\ IF out = "fatal_exec"
            THEN backend' = "gone" /\ asked' = <<>>
            ELSE backend' = "up"   /\ asked' = Tail(asked)
  /\ UNCHANGED << pc, cur, locals, pgconn, outside, sentDead >>

(* Terminated between requests: the backend says so and closes.             *)
BackendTerminated ==
  /\ "fatal_idle" \in Faults /\ backend = "up"
  /\ backend' = "fatal" /\ asked' = <<>>
  /\ UNCHANGED << pc, cur, locals, pgconn, stream, setting, outside, history >>

(* Dead without a word, perhaps in the middle of an answer, whose           *)
(* transaction may or may not have committed.                               *)
BackendCrashes ==
  /\ "crash" \in Faults /\ backend = "up"
  /\ backend' = "gone" /\ asked' = <<>>
  /\ \/ UNCHANGED << stream, effect >>
     \/ /\ asked # <<>>
        /\ \E end \in 1..(Len(Script["ok"]) - 1), e \in { EffectOf("ok"), "failed" } :
             /\ stream' = Append(stream,
                            [ of |-> Head(asked), out |-> "ok", pos |-> 1,
                              end |-> end, notices |-> {},
                              status |-> SettingAt("ok") ])
             /\ effect' = [effect EXCEPT ![Head(asked)] = e]
  /\ UNCHANGED << pc, cur, locals, pgconn, setting, outside, sentDead >>

-----------------------------------------------------------------------------
(* Blocked in accept for ever, or the process has ended                     *)
Idle ==
  /\ process = "aborted" \/ (pc = "accept" /\ cur = MaxRequests)
  /\ UNCHANGED vars

ReadStep ==
  \/ ReadParseComplete \/ ReadBindComplete \/ ReadDescription
  \/ ReadCommandComplete \/ ReadRow \/ ReadNoMoreRows \/ ReadReady
  \/ ReadyAfterError \/ ReadJunk

(* What the worker does by itself, without a client or a working database   *)
WorkerStep ==
  \/ ReadStep \/ KeepConnection \/ CloseConnection \/ Send \/ Respond
  \/ NotReady \/ Clear \/ Fail

BackendStep == BackendAnswers \/ BackendTerminated \/ BackendCrashes

Next == WorkerStep \/ Connect \/ ConnectFails \/ Accept \/ BackendStep \/ Idle

(* The worker thread keeps running, and connecting succeeds in the end.     *)
(* Clients need not come, and the backend need not fail.                    *)
Spec == Init /\ [][Next]_vars /\ WF_vars(WorkerStep) /\ WF_vars(Connect)

(* The backend also answers every request in the end.                       *)
AnsweringSpec == Spec /\ WF_vars(BackendAnswers)

-----------------------------------------------------------------------------
(* Properties                                                               *)

Replied(r)   == replies[r] # <<>>
CodeOf(r)    == replies[r][1].code
BodyOf(r)    == replies[r][1].body
Succeeded(r) == Replied(r) /\ CodeOf(r) \in Settings \cup { "junk" }

(* Every variable keeps to its type.                                        *)
TypeOK ==
  /\ pc \in PCs /\ query \in 1..3 /\ cur \in 0..MaxRequests
  /\ body \in 0..MaxRequests /\ status \in Settings \cup { "junk" }
  /\ delay \in Delays /\ conn \in { "none", "open", "freed" }
  /\ close \in BOOLEAN /\ error \in Errors /\ aligned \in BOOLEAN
  /\ stream \in Seq(Answers) /\ backend \in { "up", "fatal", "gone" }
  /\ asked \in Seq(Requests) /\ setting \in Settings
  /\ replies \in [Requests -> Seq([code : Codes, body : 0..MaxRequests])]
  /\ process \in { "up", "aborted" }
  /\ effect \in [Requests -> Effects] /\ sentDead \in Nat

(* A client that gets a page gets the row its own function call returned,   *)
(* although nothing on the wire says whose row it is                        *)
(* (mugshot.c:990-1032).                                                    *)
OwnAnswer == \A r \in Requests : Succeeded(r) => BodyOf(r) = r

(* A page is sent only for a call that committed, under the status that     *)
(* call chose: not one left in the session by an earlier request, and not   *)
(* before the transaction is known to stand (mugshot.c:974, 1014-1034).     *)
HonestSuccess ==
  \A r \in Requests : Succeeded(r) => effect[r] = CodeOf(r)

(* A call that committed is never reported to its client as an error.       *)
CommittedIsReported ==
  \A r \in Requests :
    effect[r] \in Statuses /\ Replied(r) => CodeOf(r) = effect[r]

(* "Bad request" goes to the client whose own argument was rejected, and to *)
(* no other, although the error is kept in the connection                   *)
(* (mugshot.c:1042-1050).                                                   *)
BadRequestIsOwn ==
  \A r \in Requests :
    Replied(r) => (CodeOf(r) = "400" <=> effect[r] = "rejected")

(* No client sees two responses on one connection: a failure after the page *)
(* was written must not write another status line (mugshot.c:1026-1048).    *)
OneReply == \A r \in Requests : Len(replies[r]) <= 1

(* When the worker goes to accept the next client, nothing of an earlier    *)
(* request is left on its connection (mugshot.c:1098-1099).                 *)
InSyncAtAccept ==
  pc \in { "accept", "send" } => aligned /\ stream = <<>> /\ asked = <<>>

(* A backend that ended costs at most one request: the worker notices and   *)
(* opens another connection (pgwire.c:391-392, mugshot.c:1058-1062).        *)
AtMostOneLost == sentDead <= 1

(* Neither a lost connection nor a failed one makes the worker follow a     *)
(* stale or null PgConn (mugshot.c:1037-1039, 1064-1065).                   *)
ProcessSurvives == process = "up"

(* Every accepted request is answered, unless the process ends.             *)
EveryRequestAnswered ==
  \A r \in Requests :
    (cur = r /\ pc = "send") ~> (Replied(r) \/ process = "aborted")

(* A worker whose backend is known to be gone gets another one without      *)
(* waiting for a client.                                                    *)
Reconnects == [](close => <>(conn = "open" /\ ~close))

(* The abstract specification: clients see one call each, answered once, by *)
(* its own effect.                                                          *)
Call == INSTANCE PgCall WITH
          N        <- MaxRequests,
          called   <- cur,
          effect   <- effect,
          reply    <- [r \in Requests |->
                        IF Replied(r) THEN replies[r][1]
                                      ELSE [code |-> "none", body |-> 0]]

(* The worker implements it, in steps and in progress.                      *)
ImplementsCall == Call!Spec
=============================================================================
