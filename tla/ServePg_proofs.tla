--------------------------- MODULE ServePg_proofs ---------------------------
(***************************************************************************)
(* Theorems about ServePg, for every number of requests and every choice   *)
(* of outcomes and faults.                                                 *)
(***************************************************************************)
EXTENDS ServePgInv, SequenceTheorems, TLAPS

USE DEF locals, pgconn, wire, outside, history

(* No script is empty.                                                      *)
LEMMA ScriptTypes ==
  \A o \in AllOutcomes : Len(Script[o]) \in Nat /\ Len(Script[o]) > 0
<1> SUFFICES ASSUME NEW o \in AllOutcomes
             PROVE  Len(Script[o]) \in Nat /\ Len(Script[o]) > 0
  OBVIOUS
<1>1. CASE o = "ok"
  BY <1>1 DEF Script
<1>2. CASE o = "conflict"
  BY <1>2 DEF Script
<1>3. CASE o = "parse_error"
  BY <1>3 DEF Script
<1>4. CASE o = "bad_input"
  BY <1>4 DEF Script
<1>5. CASE o = "exec_error"
  BY <1>5 DEF Script
<1>6. CASE o = "no_row"
  BY <1>6 DEF Script
<1>7. CASE o = "two_rows"
  BY <1>7 DEF Script
<1>8. CASE o = "commit_error"
  BY <1>8 DEF Script
<1>9. CASE o = "param_status"
  BY <1>9 DEF Script
<1>10. CASE o = "fatal_exec"
  BY <1>10 DEF Script
<1> QED BY <1>1, <1>2, <1>3, <1>4, <1>5, <1>6, <1>7, <1>8, <1>9, <1>10 DEF AllOutcomes

(* Reading a message leaves a well-typed rest of the stream.                *)
LEMMA ConsumeTypes ==
  ASSUME TypeOK, Consume
  PROVE  stream' \in Seq(Answers) /\ backend' \in { "up", "fatal", "gone" }
<1> stream \in Seq(Answers) BY DEF TypeOK
<1>1. backend' \in { "up", "fatal", "gone" }
  BY DEF TypeOK, Consume
<1>2. CASE stream = <<>>
  BY <1>1, <1>2 DEF Consume
<1>3. CASE stream # <<>>
  <2>1. Len(stream) \in Nat /\ Len(stream) > 0 /\ Front \in Answers
    BY <1>3 DEF Front
  <2>2. CASE NoticePending
    <3>1. stream' = [stream EXCEPT ![1].notices = @ \ {Front.pos}]
      BY <1>3, <2>2 DEF Consume
    <3>2. [Front EXCEPT !.notices = @ \ {Front.pos}] \in Answers
      BY <2>1 DEF Answers
    <3>3. stream' = [stream EXCEPT ![1] = [Front EXCEPT !.notices = @ \ {Front.pos}]]
      BY <3>1 DEF Front
    <3> QED BY <3>2, <3>3, <2>1, <1>1
  <2>3. CASE ~NoticePending /\ Front.pos < Front.end
    <3>1. stream' = [stream EXCEPT ![1].pos = @ + 1]
      BY <1>3, <2>3 DEF Consume
    <3>a. Front.pos + 1 \in Nat
      BY <2>1 DEF Answers
    <3>2. [Front EXCEPT !.pos = @ + 1] \in Answers
      BY <2>1, <3>a DEF Answers
    <3>3. stream' = [stream EXCEPT ![1] = [Front EXCEPT !.pos = @ + 1]]
      BY <3>1 DEF Front
    <3> QED BY <3>2, <3>3, <2>1, <1>1
  <2>4. CASE ~NoticePending /\ ~(Front.pos < Front.end)
    <3>1. stream' = Tail(stream)
      BY <1>3, <2>4 DEF Consume
    <3> QED BY <3>1, <1>1, <1>3, HeadTailProperties
  <2> QED BY <2>2, <2>3, <2>4
<1> QED BY <1>2, <1>3

(* A row message comes out of an answer.                                    *)
LEMMA RowIsInStream ==
  ASSUME TypeOK, Incoming \in { "row", "statusRow" }
  PROVE  Front \in Answers
<1>1. stream # <<>>
  BY DEF Incoming
<1> QED BY <1>1 DEF TypeOK, Front

(* What a read leaves alone, and the types of what expect_msg sets.         *)
LEMMA ExpectTypes ==
  ASSUME TypeOK,
         NEW here, NEW m, NEW next \in PCs, NEW errpc \in PCs, NEW bad \in PCs,
         ExpectMsg(here, m, next, errpc, bad)
  PROVE  /\ pc' \in PCs /\ error' \in Errors /\ aligned' \in BOOLEAN
         /\ stream' \in Seq(Answers) /\ backend' \in { "up", "fatal", "gone" }
         /\ UNCHANGED << body, status, asked, setting, cur, delay, conn,
                         replies, process, effect, sentDead >>
<1>1. Consume
  BY DEF ExpectMsg
<1>2. stream' \in Seq(Answers) /\ backend' \in { "up", "fatal", "gone" }
  BY <1>1, ConsumeTypes
<1>3. UNCHANGED << asked, setting, cur, delay, conn, replies, process,
                   effect, sentDead >>
  BY <1>1 DEF Consume
<1>4. UNCHANGED << body, status >>
  BY DEF ExpectMsg
<1>5. pc' \in PCs /\ error' \in Errors /\ aligned' \in BOOLEAN
  BY DEF ExpectMsg, TypeOK, IncomingError, Errors
<1> QED BY <1>2, <1>3, <1>4, <1>5

LEMMA ReplyTypes ==
  ASSUME TypeOK, NEW code \in Codes, NEW of \in 0..MaxRequests, Reply(code, of)
  PROVE  replies' \in [Requests -> Seq([code : Codes, body : 0..MaxRequests])]
<1> DEFINE R == [code : Codes, body : 0..MaxRequests]
<1>1. [code |-> code, body |-> of] \in R
  OBVIOUS
<1>2. replies \in [Requests -> Seq(R)]
  BY DEF TypeOK
<1>3. \A s \in Seq(R) : Append(s, [code |-> code, body |-> of]) \in Seq(R)
  BY <1>1
<1>4. replies' = [replies EXCEPT ![cur] = Append(@, [code |-> code, body |-> of])]
  BY DEF Reply
<1> HIDE DEF R
<1>5. replies' \in [Requests -> Seq(R)]
  BY <1>2, <1>3, <1>4
<1> QED BY <1>5 DEF R

(* Entering an answer further on keeps the stream well-typed.               *)
LEMMA SkippedTypes ==
  \A rest \in Seq(Answers) : rest # <<>> =>
    \A p \in rest[1].pos..rest[1].end :
      [rest EXCEPT ![1].pos = p] \in Seq(Answers)
<1> SUFFICES ASSUME NEW rest \in Seq(Answers), rest # <<>>,
                    NEW p \in rest[1].pos..rest[1].end
             PROVE  [rest EXCEPT ![1].pos = p] \in Seq(Answers)
  OBVIOUS
<1>1. Len(rest) > 0 /\ rest[1] \in Answers
  OBVIOUS
<1>2. p \in Nat
  BY <1>1 DEF Answers
<1>3. [rest[1] EXCEPT !.pos = p] \in Answers
  BY <1>1, <1>2 DEF Answers
<1>4. [rest EXCEPT ![1].pos = p] = [rest EXCEPT ![1] = [rest[1] EXCEPT !.pos = p]]
  OBVIOUS
<1> QED BY <1>1, <1>3, <1>4

(* Everything an action that reads leaves alone, with a well-typed rest.    *)
LEMMA ReadTypes ==
  ASSUME TypeOK, ReadStep
  PROVE  TypeOK'
<1> USE DEF ReadPoints, PCs
<1>1. CASE ReadParseComplete
  BY <1>1, ExpectTypes DEF ReadParseComplete, TypeOK
<1>2. CASE ReadBindComplete
  BY <1>2, ExpectTypes DEF ReadBindComplete, TypeOK
<1>3. CASE ReadDescription
  <2>1. Consume /\ UNCHANGED << body, status, close, error, aligned >>
    BY <1>3 DEF ReadDescription
  <2>2. pc' \in PCs
    BY <1>3 DEF ReadDescription, AfterResult
  <2>3. query' \in 1..3
    BY <1>3 DEF ReadDescription, TypeOK
  <2> QED BY <2>1, <2>2, <2>3, ConsumeTypes DEF Consume, TypeOK
<1>4. CASE ReadCommandComplete
  <2>1. query' \in 1..3 /\ close' = close
    BY <1>4 DEF ReadCommandComplete, TypeOK
  <2>2. AfterResult \in PCs
    BY DEF AfterResult
  <2> QED BY <1>4, <2>1, <2>2, ExpectTypes DEF ReadCommandComplete, TypeOK
<1>5. CASE ReadRow
  <2>1. Consume /\ UNCHANGED << query, close, error, aligned >> /\ pc' \in PCs
    BY <1>5 DEF ReadRow
  <2>2. body' \in 0..MaxRequests
    <3>1. body' \in { body, 0 } \/ (Incoming = "row" /\ body' = Front.of)
      BY <1>5 DEF ReadRow
    <3>2. Incoming = "row" => Front.of \in 1..MaxRequests
      BY RowIsInStream DEF Answers, Requests
    <3> QED BY <3>1, <3>2, MaxRequestsAssumption DEF TypeOK
  <2>3. status' \in Settings \cup { "junk" }
    BY <1>5, RowIsInStream DEF ReadRow, TypeOK, Answers
  <2> QED BY <2>1, <2>2, <2>3, ConsumeTypes DEF Consume, TypeOK
<1>6. CASE ReadNoMoreRows
  <2>1. Consume /\ UNCHANGED << body, status, close, error, aligned >>
    BY <1>6 DEF ReadNoMoreRows
  <2>2. pc' \in PCs
    BY <1>6 DEF ReadNoMoreRows
  <2>3. query' \in 1..3
    BY <1>6 DEF ReadNoMoreRows, TypeOK
  <2> QED BY <2>1, <2>2, <2>3, ConsumeTypes DEF Consume, TypeOK
<1>7. CASE ReadReady
  BY <1>7, ExpectTypes DEF ReadReady, TypeOK
<1>8. CASE ReadyAfterError
  <2>1. close' \in BOOLEAN /\ query' = query
    BY <1>8 DEF ReadyAfterError, TypeOK
  <2>2. CASE ExpectMsg("resync", "ready", "fail", "resync", "fail")
    BY <2>1, <2>2, ExpectTypes DEF TypeOK
  <2>3. CASE ExpectMsg("resync_final", "ready", "not_ready", "resync_final",
                       "not_ready")
    BY <2>1, <2>3, ExpectTypes DEF TypeOK
  <2> QED BY <1>8, <2>2, <2>3 DEF ReadyAfterError
<1>9. CASE ReadJunk
  <2>1. /\ pc' \in PCs /\ aligned' \in BOOLEAN /\ close' \in BOOLEAN
        /\ UNCHANGED << locals, cur, delay, conn, error, backend, asked,
                        setting, outside, history >>
    BY <1>9 DEF ReadJunk, TypeOK
  <2>2. PICK k \in 0..Len(stream) :
          \/ stream' = <<>>
          \/ /\ SubSeq(stream, k + 1, Len(stream)) # <<>>
             /\ \E p \in SubSeq(stream, k + 1, Len(stream))[1].pos..
                         SubSeq(stream, k + 1, Len(stream))[1].end :
                  stream' = [SubSeq(stream, k + 1, Len(stream)) EXCEPT ![1].pos = p]
    BY <1>9 DEF ReadJunk
  <2>a. SubSeq(stream, k + 1, Len(stream)) \in Seq(Answers)
    BY SubSeqProperties, LenProperties DEF TypeOK
  <2>3. PICK rest \in Seq(Answers) : rest = SubSeq(stream, k + 1, Len(stream))
    BY <2>a
  <2>4. \/ stream' = <<>>
        \/ rest # <<>> /\ \E p \in rest[1].pos..rest[1].end :
                            stream' = [rest EXCEPT ![1].pos = p]
    BY <2>2, <2>3
  <2>5. <<>> \in Seq(Answers)
    OBVIOUS
  <2>6. stream' \in Seq(Answers)
    BY <2>4, <2>5, SkippedTypes
  <2> QED BY <2>1, <2>6 DEF TypeOK
<1> QED
  BY <1>1, <1>2, <1>3, <1>4, <1>5, <1>6, <1>7, <1>8, <1>9 DEF ReadStep

(* The worker serves no request before it has taken one on.                 *)
Serving == pc \notin { "ensure", "accept" } => cur > 0

LEMMA WorkerTypes ==
  ASSUME TypeOK, Serving,
         \/ KeepConnection \/ CloseConnection \/ Connect \/ ConnectFails
         \/ Accept \/ Send \/ Respond \/ NotReady \/ Clear \/ Fail
  PROVE  TypeOK'
<1> USE DEF ReadPoints, PCs
<1>0. <<>> \in Seq(Answers) /\ <<>> \in Seq(Requests)
  OBVIOUS
<1>1. CASE KeepConnection
  BY <1>1 DEF KeepConnection, TypeOK
<1>2. CASE CloseConnection
  BY <1>0, <1>2 DEF CloseConnection, ClosedWire, Settings, TypeOK
<1>3. CASE Connect
  BY <1>0, <1>3 DEF Connect, ClosedWire, Settings, Errors, Delays, TypeOK
<1>4. CASE ConnectFails
  <2>1. delay' \in Delays
    BY <1>4 DEF ConnectFails, Delays, TypeOK
  <2> QED BY <1>4, <2>1 DEF ConnectFails, TypeOK
<1>5. CASE Accept
  <2>1. cur' \in 0..MaxRequests
    BY <1>5, MaxRequestsAssumption DEF Accept, TypeOK
  <2>2. query' \in 1..3 /\ body' \in 0..MaxRequests /\ status' = "junk"
    BY <1>5, MaxRequestsAssumption DEF Accept
  <2> QED BY <1>5, <2>1, <2>2 DEF Accept, TypeOK
<1>6. CASE Send
  <2>1. sentDead' \in Nat
    BY <1>6 DEF Send, TypeOK
  <2>2. cur \in Requests
    BY <1>6 DEF Send, Serving, TypeOK, Requests
  <2>3. asked' \in Seq(Requests)
    BY <1>6, <2>2 DEF Send, TypeOK
  <2> QED BY <1>6, <2>1, <2>3 DEF Send, TypeOK
<1>7. CASE Respond
  <2>1. status \in Codes
    BY DEF TypeOK, Codes
  <2>2. replies' \in [Requests -> Seq([code : Codes, body : 0..MaxRequests])]
    BY <1>7, <2>1, ReplyTypes DEF Respond, TypeOK
  <2> QED BY <1>7, <2>2 DEF Respond, TypeOK
<1>8. CASE NotReady
  BY <1>8 DEF NotReady, TypeOK
<1>9. CASE Clear
  BY <1>9 DEF Clear, Errors, TypeOK
<1>10. CASE Fail
  <2>1. FailCode \in Codes /\ 0 \in 0..MaxRequests
    BY MaxRequestsAssumption DEF FailCode, Codes
  <2>2. replies' \in [Requests -> Seq([code : Codes, body : 0..MaxRequests])]
    BY <1>10, <2>1, ReplyTypes DEF Fail
  <2> QED BY <1>10, <2>2 DEF Fail, Errors, TypeOK
<1> QED
  BY <1>1, <1>2, <1>3, <1>4, <1>5, <1>6, <1>7, <1>8, <1>9, <1>10

LEMMA BackendTypes ==
  ASSUME TypeOK, BackendStep
  PROVE  TypeOK'
<1>0. stream \in Seq(Answers) /\ asked \in Seq(Requests) /\ setting \in Settings
  BY DEF TypeOK
<1>a. asked # <<>> => Head(asked) \in Requests /\ Tail(asked) \in Seq(Requests)
  BY <1>0, HeadTailProperties
<1>b. <<>> \in Seq(Requests)
  OBVIOUS
<1>c. \A out \in AllOutcomes : SettingAt(out) \in Statuses
  BY DEF SettingAt, SettingAfterSet, Statuses
<1>d. \A out \in AllOutcomes : EffectOf(out) \in Effects
  BY <1>c DEF EffectOf, ChosenStatus, Statuses, Effects, Committing, AllOutcomes
<1>1. CASE BackendAnswers
  <2>0. PICK out \in Outcomes :
          \E n \in (IF "notice" \in Faults THEN NoticePoints(out) ELSE {}) \cup {0} :
          /\ stream' = Append(stream,
                         [ of |-> Head(asked), out |-> out, pos |-> 1,
                           end |-> Len(Script[out]), notices |-> {n},
                           status |-> SettingAt(out) ])
          /\ effect' = [effect EXCEPT ![Head(asked)] = EffectOf(out)]
          /\ setting' = IF out \in Committing THEN SettingAt(out) ELSE setting
          /\ IF out = "fatal_exec"
               THEN backend' = "gone" /\ asked' = <<>>
               ELSE backend' = "up"   /\ asked' = Tail(asked)
    BY <1>1 DEF BackendAnswers
  <2>1. PICK n \in (IF "notice" \in Faults THEN NoticePoints(out) ELSE {}) \cup {0} :
          /\ stream' = Append(stream,
                         [ of |-> Head(asked), out |-> out, pos |-> 1,
                           end |-> Len(Script[out]), notices |-> {n},
                           status |-> SettingAt(out) ])
          /\ effect' = [effect EXCEPT ![Head(asked)] = EffectOf(out)]
          /\ setting' = IF out \in Committing THEN SettingAt(out) ELSE setting
          /\ IF out = "fatal_exec"
               THEN backend' = "gone" /\ asked' = <<>>
               ELSE backend' = "up"   /\ asked' = Tail(asked)
    BY <2>0
  <2>2. out \in AllOutcomes /\ asked # <<>>
    BY <1>1, OutcomesAssumption DEF BackendAnswers
  <2>3. n \in Nat /\ Len(Script[out]) \in Nat
    BY <2>2, ScriptTypes DEF NoticePoints
  <2>4. [ of |-> Head(asked), out |-> out, pos |-> 1, end |-> Len(Script[out]),
          notices |-> {n}, status |-> SettingAt(out) ] \in Answers
    BY <1>a, <1>c, <2>2, <2>3 DEF Answers, Settings
  <2>5. stream' \in Seq(Answers)
    BY <1>0, <2>1, <2>4
  <2>6. effect' \in [Requests -> Effects]
    BY <1>d, <2>1, <2>2 DEF TypeOK
  <2>7. setting' \in Settings /\ asked' \in Seq(Requests)
        /\ backend' \in { "up", "fatal", "gone" }
    BY <1>0, <1>a, <1>b, <1>c, <2>1, <2>2 DEF Settings
  <2>8. UNCHANGED << pc, cur, locals, pgconn, outside, sentDead >>
    BY <1>1 DEF BackendAnswers
  <2> QED BY <2>5, <2>6, <2>7, <2>8 DEF TypeOK
<1>2. CASE BackendTerminated
  BY <1>b, <1>2 DEF BackendTerminated, TypeOK
<1>3. CASE BackendCrashes
  <2>1. /\ UNCHANGED << pc, cur, locals, pgconn, setting, outside, sentDead >>
        /\ backend' = "gone" /\ asked' \in Seq(Requests)
    BY <1>b, <1>3 DEF BackendCrashes
  <2>2. CASE UNCHANGED << stream, effect >>
    BY <2>1, <2>2 DEF TypeOK
  <2>3. CASE
          /\ asked # <<>>
          /\ \E end \in 1..(Len(Script["ok"]) - 1), e \in { EffectOf("ok"), "failed" } :
               /\ stream' = Append(stream,
                              [ of |-> Head(asked), out |-> "ok", pos |-> 1,
                                end |-> end, notices |-> {},
                                status |-> SettingAt("ok") ])
               /\ effect' = [effect EXCEPT ![Head(asked)] = e]
    <3>0. "ok" \in AllOutcomes
      BY DEF AllOutcomes
    <3>1. PICK end \in 1..(Len(Script["ok"]) - 1), e \in { EffectOf("ok"), "failed" } :
               /\ stream' = Append(stream,
                              [ of |-> Head(asked), out |-> "ok", pos |-> 1,
                                end |-> end, notices |-> {},
                                status |-> SettingAt("ok") ])
               /\ effect' = [effect EXCEPT ![Head(asked)] = e]
      BY <2>3
    <3>2. [ of |-> Head(asked), out |-> "ok", pos |-> 1, end |-> end,
            notices |-> {}, status |-> SettingAt("ok") ] \in Answers
      BY <1>a, <1>c, <2>3, <3>0, <3>1, ScriptTypes DEF Answers, Settings
    <3>3. stream' \in Seq(Answers)
      BY <1>0, <3>1, <3>2
    <3>4. effect' \in [Requests -> Effects]
      BY <1>d, <3>0, <3>1 DEF TypeOK, Effects
    <3> QED BY <2>1, <3>3, <3>4 DEF TypeOK
  <2> QED BY <1>3, <2>2, <2>3 DEF BackendCrashes
<1> QED
  BY <1>1, <1>2, <1>3 DEF BackendStep

LEMMA ServingStep ==
  ASSUME TypeOK, Serving, [Next]_vars
  PROVE  Serving'
<1>1. CASE Accept
  BY <1>1 DEF Accept, Serving, TypeOK
<1>2. CASE ReadStep
  BY <1>2 DEF ReadStep, ReadParseComplete, ReadBindComplete, ReadDescription,
     ReadCommandComplete, ReadRow, ReadNoMoreRows, ReadReady, ReadyAfterError,
     ReadJunk, ExpectMsg, Consume, Serving
<1>3. CASE KeepConnection \/ CloseConnection \/ Connect \/ ConnectFails
  BY <1>3 DEF KeepConnection, CloseConnection, Connect, ConnectFails, Serving
<1>4. CASE Send \/ Respond \/ NotReady \/ Clear \/ Fail
  BY <1>4 DEF Send, Respond, NotReady, Clear, Fail, Serving
<1>5. CASE BackendStep
  BY <1>5 DEF BackendStep, BackendAnswers, BackendTerminated, BackendCrashes,
     Serving
<1>6. CASE Idle \/ UNCHANGED vars
  BY <1>6 DEF Idle, vars, Serving
<1> QED
  BY <1>1, <1>2, <1>3, <1>4, <1>5, <1>6 DEF Next, WorkerStep

LEMMA TypesStep ==
  ASSUME TypeOK, Serving, [Next]_vars
  PROVE  TypeOK'
<1>1. CASE Idle \/ UNCHANGED vars
  BY <1>1 DEF Idle, vars, TypeOK
<1> QED
  BY <1>1, ReadTypes, WorkerTypes, BackendTypes DEF Next, WorkerStep

LEMMA InitTypes == Init => TypeOK /\ Serving
<1> SUFFICES ASSUME Init PROVE TypeOK /\ Serving
  OBVIOUS
<1>1. replies \in [Requests -> Seq([code : Codes, body : 0..MaxRequests])]
  <2>1. <<>> \in Seq([code : Codes, body : 0..MaxRequests])
    OBVIOUS
  <2> QED BY <2>1 DEF Init
<1>2. effect \in [Requests -> Effects]
  BY DEF Init, Effects
<1>3. stream \in Seq(Answers) /\ asked \in Seq(Requests)
  <2>1. <<>> \in Seq(Answers) /\ <<>> \in Seq(Requests)
    OBVIOUS
  <2> QED BY <2>1 DEF Init
<1>4. pc \in PCs /\ setting \in Settings /\ delay \in Delays /\ error \in Errors
  BY DEF Init, PCs, Settings, Delays, Errors
<1>5. cur \in 0..MaxRequests /\ body \in 0..MaxRequests
  BY MaxRequestsAssumption DEF Init
<1>6. /\ query \in 1..3 /\ status \in Settings \cup { "junk" }
      /\ conn \in { "none", "open", "freed" }
      /\ backend \in { "up", "fatal", "gone" }
      /\ process \in { "up", "aborted" } /\ sentDead \in Nat
  BY SMT DEF Init
<1>8. close \in BOOLEAN /\ aligned \in BOOLEAN
  BY Zenon DEF Init
<1>7. Serving
  BY DEF Init, Serving
<1> QED
  BY <1>1, <1>2, <1>3, <1>4, <1>5, <1>6, <1>7, <1>8 DEF TypeOK

(* Whatever the requests, the outcomes and the faults, every variable keeps *)
(* to its type.                                                             *)
THEOREM TypeCorrect == Spec => []TypeOK
<1>1. Init => TypeOK /\ Serving
  BY InitTypes
<1>2. TypeOK /\ Serving /\ [Next]_vars => (TypeOK /\ Serving)'
  BY TypesStep, ServingStep
<1> QED BY <1>1, <1>2, PTL DEF Spec

-----------------------------------------------------------------------------
(* One reply per request.                                                   *)

(* Reading never writes to a client, and never returns to a point before    *)
(* the reply from one after it.                                             *)
LEMMA ReadQuiet ==
  ASSUME ReadStep
  PROVE  /\ UNCHANGED << replies, cur >>
         /\ pc' \in BeforeReply => pc \in BeforeReply
<1> USE DEF BeforeReply
<1>1. CASE ReadParseComplete \/ ReadBindComplete \/ ReadCommandComplete
  BY <1>1 DEF ReadParseComplete, ReadBindComplete, ReadCommandComplete,
              ExpectMsg, Consume
<1>2. CASE ReadDescription \/ ReadRow \/ ReadNoMoreRows \/ ReadJunk
  BY <1>2 DEF ReadDescription, ReadRow, ReadNoMoreRows, ReadJunk, Consume
<1>3. CASE ReadReady
  BY <1>3 DEF ReadReady, ExpectMsg, Consume
<1>4. CASE ReadyAfterError
  BY <1>4 DEF ReadyAfterError, ExpectMsg, Consume
<1> QED BY <1>1, <1>2, <1>3, <1>4 DEF ReadStep

(* The one reply goes to a client that has got none.                        *)
LEMMA ReplyOnce ==
  ASSUME TypeOK, RepliesInOrder, cur > 0, pc \in BeforeReply,
         NEW code, NEW of, Reply(code, of), UNCHANGED cur, pc' \notin BeforeReply
  PROVE  RepliesInOrder'
<1>1. cur \in Requests
  BY MaxRequestsAssumption DEF TypeOK, Requests
<1>2. replies[cur] = <<>>
  BY <1>1 DEF RepliesInOrder
<1>3. replies' = [replies EXCEPT ![cur] = << [code |-> code, body |-> of] >>]
  BY <1>2 DEF Reply
<1>4. DOMAIN replies = Requests
  BY DEF TypeOK
<1>5. \A r \in Requests :
        replies'[r] = IF r = cur THEN << [code |-> code, body |-> of] >>
                                 ELSE replies[r]
  BY <1>3, <1>4
<1>6. OneReply'
  <2> SUFFICES ASSUME NEW r \in Requests
               PROVE  Len(replies'[r]) <= 1
    BY DEF OneReply
  <2>1. CASE r = cur
    <3>1. replies'[r] = << [code |-> code, body |-> of] >>
      BY <2>1, <1>5
    <3>2. Len(<< [code |-> code, body |-> of] >>) = 1
      OBVIOUS
    <3> QED BY <3>1, <3>2
  <2>2. CASE r # cur
    BY <2>2, <1>5 DEF RepliesInOrder, OneReply
  <2> QED BY <2>1, <2>2
<1>7. \A r \in Requests : r > cur => replies'[r] = <<>>
  BY <1>5, <1>1 DEF RepliesInOrder, Requests
<1> QED BY <1>6, <1>7 DEF RepliesInOrder

LEMMA OneReplyStep ==
  ASSUME TypeOK, Serving, RepliesInOrder, [Next]_vars
  PROVE  RepliesInOrder'
<1>1. ASSUME UNCHANGED << replies, cur >>, pc' \in BeforeReply => pc \in BeforeReply
      PROVE  RepliesInOrder'
  BY <1>1 DEF RepliesInOrder, OneReply
<1>2. CASE ReadStep
  BY <1>1, <1>2, ReadQuiet
<1>3. CASE KeepConnection \/ CloseConnection \/ Connect \/ ConnectFails
  BY <1>1, <1>3 DEF KeepConnection, CloseConnection, Connect, ConnectFails,
                    BeforeReply
<1>4. CASE Accept
  <2>1. /\ UNCHANGED replies /\ cur' = cur + 1 /\ cur \in Nat
    BY <1>4, MaxRequestsAssumption DEF Accept, TypeOK
  <2>2. \A r \in Requests : r >= cur' => r > cur
    BY <2>1 DEF Requests
  <2> QED BY <2>1, <2>2 DEF RepliesInOrder, OneReply, Requests
<1>5. CASE Send \/ NotReady \/ Clear
  BY <1>1, <1>5 DEF Send, NotReady, Clear, BeforeReply
<1>6. CASE Respond
  BY <1>6, ReplyOnce DEF Respond, Serving, BeforeReply
<1>7. CASE Fail
  BY <1>7, ReplyOnce DEF Fail, Serving, BeforeReply
<1>8. CASE BackendStep
  BY <1>1, <1>8 DEF BackendStep, BackendAnswers, BackendTerminated, BackendCrashes
<1>9. CASE Idle \/ UNCHANGED vars
  BY <1>1, <1>9 DEF Idle, vars
<1> QED
  BY <1>2, <1>3, <1>4, <1>5, <1>6, <1>7, <1>8, <1>9 DEF Next, WorkerStep

(* Whatever the outcomes and the faults, no client gets two responses: of   *)
(* the two writes of mugshot_serve_pg, the page and the error at fail, a    *)
(* request reaches one, once.                                               *)
THEOREM OneReplyCorrect == Spec => []OneReply
<1>1. Init => RepliesInOrder
  <2> SUFFICES ASSUME Init PROVE RepliesInOrder
    OBVIOUS
  <2>1. \A r \in Requests : replies[r] = <<>> /\ Len(replies[r]) = 0
    BY DEF Init
  <2> QED BY <2>1 DEF RepliesInOrder, OneReply
<1>2. TypeOK /\ Serving /\ [Next]_vars => (TypeOK /\ Serving)'
  BY TypesStep, ServingStep
<1>3. TypeOK /\ Serving /\ RepliesInOrder /\ [Next]_vars => RepliesInOrder'
  BY OneReplyStep
<1>4. RepliesInOrder => OneReply
  BY DEF RepliesInOrder
<1> QED BY <1>1, <1>2, <1>3, <1>4, InitTypes, PTL DEF Spec

-----------------------------------------------------------------------------
(***************************************************************************)
(* Under the faults the code copes with, the worker's replies are right:   *)
(* IInv is inductive, and the safety properties of ServePg follow from it. *)
(***************************************************************************)

(* What is left of an answer after a read keeps its identity.               *)
SameAnswer(b, a) ==
  /\ b.of = a.of /\ b.out = a.out /\ b.end = a.end /\ b.status = a.status
  /\ b.notices \subseteq a.notices

LEMMA Advance ==
  ASSUME TypeOK, Len(stream) = 1, Consume
  PROVE  /\ UNCHANGED << backend, asked, setting, cur, delay, conn, replies,
                         process, effect, sentDead >>
         /\ process = "up" /\ aligned
         /\ NoticePending =>
              /\ Len(stream') = 1 /\ SameAnswer(stream'[1], stream[1])
              /\ stream'[1].pos = stream[1].pos
         /\ ~NoticePending /\ Front.pos < Front.end =>
              /\ Len(stream') = 1 /\ SameAnswer(stream'[1], stream[1])
              /\ stream'[1].pos = stream[1].pos + 1
         /\ ~NoticePending /\ ~(Front.pos < Front.end) => stream' = <<>>
<1>1. stream # <<>> /\ stream \in Seq(Answers) /\ stream[1] \in Answers
  <2>1. stream \in Seq(Answers)
    BY DEF TypeOK
  <2>2. stream # <<>>
    BY <2>1
  <2> QED BY <2>1, <2>2
<1>2. UNCHANGED << backend, asked, setting, cur, delay, conn, replies,
                   process, effect, sentDead >> /\ process = "up" /\ aligned
  <2>1. backend' = backend
    BY <1>1 DEF Consume
  <2>2. aligned
    BY Zenon DEF Consume
  <2>3. /\ UNCHANGED << asked, setting, cur, delay, conn, replies, process,
                       effect, sentDead >>
        /\ process = "up"
    BY DEF Consume
  <2> QED BY Zenon, <2>1, <2>2, <2>3
<1>3. ASSUME NoticePending
      PROVE  /\ Len(stream') = 1 /\ SameAnswer(stream'[1], stream[1])
             /\ stream'[1].pos = stream[1].pos
  <2>1. stream' = [stream EXCEPT ![1].notices = @ \ {Front.pos}]
    BY <1>1, <1>3 DEF Consume
  <2>2. Len(stream') = 1
    BY <1>1, <2>1
  <2>3. stream'[1] = [stream[1] EXCEPT !.notices = @ \ {Front.pos}]
    BY <1>1, <2>1
  <2> QED BY <1>1, <2>2, <2>3 DEF SameAnswer, Answers
<1>4. ASSUME ~NoticePending, Front.pos < Front.end
      PROVE  /\ Len(stream') = 1 /\ SameAnswer(stream'[1], stream[1])
             /\ stream'[1].pos = stream[1].pos + 1
  <2>1. stream' = [stream EXCEPT ![1].pos = @ + 1]
    BY <1>1, <1>4 DEF Consume
  <2>2. Len(stream') = 1
    BY <1>1, <2>1
  <2>3. stream'[1] = [stream[1] EXCEPT !.pos = @ + 1]
    BY <1>1, <2>1
  <2> QED BY <1>1, <2>2, <2>3 DEF SameAnswer, Answers
<1>5. ASSUME ~NoticePending, ~(Front.pos < Front.end)
      PROVE  stream' = <<>>
  <2>1. stream' = Tail(stream)
    BY <1>1, <1>5 DEF Consume
  <2>2. stream' \in Seq(Answers) /\ Len(stream') = 0
    BY <1>1, <2>1, HeadTailProperties
  <2> QED BY <2>2, EmptySeq
<1> QED
  BY <1>2, <1>3, <1>4, <1>5

(* The message the answer holds at the worker's control point.              *)
Due(out) ==
  CASE pc = "parse"    -> IF out = "parse_error" /\ query = 2 THEN "error"
                                                              ELSE "parseOk"
    [] pc = "bind"     -> IF out = "bad_input" /\ query = 2 THEN "error"
                                                            ELSE "bindOk"
    [] pc = "describe" -> IF query = 1 THEN "noData" ELSE "rowDesc"
    [] pc = "row"      -> IF query = 2 THEN "row" ELSE "statusRow"
    [] pc \in { "complete", "extra" } -> "complete"
    [] OTHER           -> "ready"

(* The end of the answer is its ReadyForQuery.                              *)
LEMMA DueInScript ==
  ASSUME NEW out \in CopedOutcomes, query \in 1..3, ReachedIn(out),
         pc # "respond"
  PROVE  /\ Script[out][PositionIn(out)] = Due(out)
         /\ PositionIn(out) = Len(Script[out]) <=> Due(out) = "ready"
         /\ PositionIn(out) \in 1..Len(Script[out])
<1>1. CASE out = "ok"
  BY <1>1 DEF ReachedIn, PositionIn, Base, Due, Script
<1>2. CASE out = "conflict"
  BY <1>2 DEF ReachedIn, PositionIn, Base, Due, Script
<1>3. CASE out = "parse_error"
  BY <1>3 DEF ReachedIn, PositionIn, Base, Due, Script
<1>4. CASE out = "bad_input"
  BY <1>4 DEF ReachedIn, PositionIn, Base, Due, Script
<1> QED
  BY <1>1, <1>2, <1>3, <1>4 DEF CopedOutcomes

LEMMA ReadingMessage ==
  ASSUME TypeOK, Reading, pc # "respond"
  PROVE  /\ stream # <<>> /\ stream[1] \in Answers /\ Len(stream) = 1
         /\ NoticePending => Incoming = "notice" /\ pc # "describe"
         /\ ~NoticePending => Incoming = Due(Front.out)
         /\ ~NoticePending =>
              (Front.pos < Front.end <=> Due(Front.out) # "ready")
         /\ Due(Front.out) # "notice"
<1>1. /\ stream \in Seq(Answers) /\ query \in 1..3
      /\ Len(stream) = 1 /\ OwnUnread(stream[1])
  BY DEF TypeOK, Reading
<1>2. stream # <<>> /\ stream[1] \in Answers
  BY <1>1
<1>3. /\ Front.out \in CopedOutcomes /\ ReachedIn(Front.out)
      /\ Front.pos = PositionIn(Front.out) /\ Front.end = Len(Script[Front.out])
      /\ Front.notices \subseteq NoticePoints(Front.out) \cup { 0 }
  BY <1>1 DEF OwnUnread, Front
<1>4. /\ Script[Front.out][Front.pos] = Due(Front.out)
      /\ Front.pos = Front.end <=> Due(Front.out) = "ready"
      /\ Front.pos \in 1..Front.end
  BY <1>1, <1>3, DueInScript
<1>5. Front.end \in Nat /\ Front.pos \in Nat
  BY <1>2 DEF Front, Answers
<1>6. NoticePending => Due(Front.out) \in { "parseOk", "bindOk", "row", "complete", "ready" }
  BY <1>3, <1>4 DEF NoticePending, NoticePoints
<1>7. NoticePending => pc # "describe"
  BY <1>6 DEF Due
<1>8. Due(Front.out) # "notice"
  BY DEF Due
<1>9. /\ NoticePending => Incoming = "notice"
      /\ ~NoticePending => Incoming = Due(Front.out)
  BY <1>2, <1>4 DEF Incoming
<1> QED
  BY <1>1, <1>2, <1>4, <1>5, <1>7, <1>8, <1>9

(* What a read does to Connected and Ledger: nothing, as long as the reply  *)
(* is out exactly from the control point "ready" on.                        *)
LEMMA ReadFrame ==
  ASSUME IInv, pc \in ReadPoints,
         UNCHANGED << cur, effect, replies, conn, sentDead >>, aligned',
         pc' \in ReadPoints \cup { "fail", "respond", "clear" },
         pc' \in { "ready", "clear" } <=> pc = "ready",
         close' => pc' = "fail"
  PROVE  Connected' /\ Ledger'
<1>1. Connected'
  BY Zenon DEF IInv, Connected, ReadPoints
<1>2. Ledger'
  BY DEF IInv, Connected, Ledger, Answered, Untouched, Deserved, ReadPoints
<1> QED BY <1>1, <1>2

(* A notice changes nothing but itself.                                     *)
LEMMA NoticeRead ==
  ASSUME TypeOK, Reading, pc # "respond", Consume, NoticePending,
         UNCHANGED << pc, query, body, status, error >>
  PROVE  Reading'
<1>1. /\ Len(stream') = 1 /\ SameAnswer(stream'[1], stream[1])
      /\ stream'[1].pos = stream[1].pos
      /\ UNCHANGED << backend, asked, cur, effect, sentDead >>
  BY Advance, ReadingMessage
<1>2. OwnUnread(stream[1]) /\ asked = <<>> /\ backend # "gone" /\ sentDead = 0
  BY DEF Reading
<1>3. OwnUnread(stream[1])'
  BY <1>1, <1>2 DEF OwnUnread, SameAnswer, PositionIn, ReachedIn, Captured
<1> QED BY <1>1, <1>2, <1>3 DEF Reading

(* The worker reads the message that is due and moves to where the next one *)
(* is read.                                                                 *)
LEMMA MessageRead ==
  ASSUME TypeOK, Reading, pc # "respond", Consume, ~NoticePending,
         NEW a, a = stream[1], Due(a.out) # "ready",
         PositionIn(a.out)' = PositionIn(a.out) + 1,
         ReachedIn(a.out)', Captured(a)',
         error' = IF pc' = "resync"
                    THEN IF a.out = "bad_input" THEN "syntax" ELSE "other"
                    ELSE "none"
  PROVE  Reading'
<1>1. /\ Len(stream') = 1 /\ SameAnswer(stream'[1], a)
      /\ stream'[1].pos = a.pos + 1
      /\ UNCHANGED << backend, asked, cur, effect, sentDead >>
  BY Advance, ReadingMessage DEF Front
<1>2. OwnUnread(a) /\ asked = <<>> /\ backend # "gone" /\ sentDead = 0
  BY DEF Reading
<1>3. PICK b : b = stream'[1]
  OBVIOUS
<1>4. b.of = a.of /\ b.out = a.out /\ b.end = a.end /\ b.status = a.status
      /\ b.notices \subseteq a.notices /\ b.pos = a.pos + 1
  BY <1>1, <1>3 DEF SameAnswer
<1>5. Captured(b)'
  BY <1>4 DEF Captured
<1>6. b.pos = PositionIn(b.out)' /\ ReachedIn(b.out)'
  BY <1>2, <1>4 DEF OwnUnread
<1>7. OwnUnread(b)'
  BY <1>1, <1>2, <1>4, <1>5, <1>6 DEF OwnUnread
<1>8. OwnUnread(stream[1])'
  BY <1>3, <1>7
<1> QED BY <1>1, <1>2, <1>8 DEF Reading

(* Reading ReadyForQuery empties the wire.                                  *)
LEMMA AnswerEnds ==
  ASSUME TypeOK, Reading, pc # "respond", Consume, ~NoticePending,
         Due(Front.out) = "ready"
  PROVE  /\ stream' = <<>> /\ asked' = <<>> /\ backend' = backend
         /\ backend # "gone" /\ sentDead' = 0
  BY Advance, ReadingMessage DEF Reading

(* Without lateness a worker waiting for an answer reads only when its      *)
(* backend has gone, and then reads the backend's last words.               *)
LEMMA WaitingRead ==
  ASSUME TypeOK, Coped, Waiting, Consume
  PROVE  /\ Incoming = "error" /\ IncomingError = "other"
         /\ stream' = <<>> /\ asked' = <<>> /\ backend' = "gone"
         /\ UNCHANGED << cur, conn, replies, effect, sentDead >>
<1>1. stream = <<>>
  BY DEF Waiting
<1>2. ~(asked = << cur >> /\ asked = <<>>)
  OBVIOUS
<1>3. "late" \notin Faults
  BY DEF Coped, CopedFaults
<1>4. Readable
  BY DEF Consume
<1>5. backend = "fatal" /\ asked = <<>>
  BY <1>1, <1>2, <1>3, <1>4 DEF Readable, TimesOut, Waiting
<1> QED
  BY <1>1, <1>5 DEF Consume, Incoming, IncomingError

(* The invariant after a notice, and after a message that was due.          *)
LEMMA NoticeStep ==
  ASSUME IInv, ReadStep, Reading, Consume, NoticePending, pc \in ReadPoints,
         UNCHANGED << pc, query, body, status, close, error, aligned >>
  PROVE  IInv'
<1>1. TypeOK /\ TypeOK'
  BY ReadTypes DEF IInv
<1>2. pc # "respond"
  BY DEF ReadPoints
<1>3. UNCHANGED << cur, effect, replies, conn, sentDead >>
  BY DEF Consume
<1>4. aligned' /\ (close' => pc' = "fail")
  BY Zenon DEF IInv, Connected, ReadPoints
<1>5. Reading'
  BY <1>1, <1>2, NoticeRead
<1>6. pc' \in { "ready", "clear" } <=> pc = "ready"
  BY DEF ReadPoints
<1>7. Connected' /\ Ledger'
  BY <1>3, <1>4, <1>6, ReadFrame
<1> QED BY <1>1, <1>5, <1>7 DEF IInv

LEMMA DueStep ==
  ASSUME IInv, ReadStep, Reading, Consume, ~NoticePending,
         pc \in ReadPoints \ { "ready" },
         NEW a, a = stream[1], Due(a.out) # "ready",
         pc' \in (ReadPoints \ { "ready" }) \cup { "respond" },
         UNCHANGED << close, aligned >>,
         PositionIn(a.out)' = PositionIn(a.out) + 1,
         ReachedIn(a.out)', Captured(a)',
         error' = IF pc' = "resync"
                    THEN IF a.out = "bad_input" THEN "syntax" ELSE "other"
                    ELSE "none"
  PROVE  IInv'
<1>1. TypeOK /\ TypeOK'
  BY ReadTypes DEF IInv
<1>2. pc # "respond"
  BY DEF ReadPoints
<1>3. UNCHANGED << cur, effect, replies, conn, sentDead >>
  BY DEF Consume
<1>4. aligned' /\ ~close'
  BY Zenon DEF IInv, Connected, ReadPoints
<1>5. Reading'
  BY <1>1, <1>2, MessageRead
<1>6. Connected' /\ Ledger'
  BY <1>3, <1>4, ReadFrame DEF ReadPoints
<1> QED BY <1>1, <1>5, <1>6 DEF IInv

(* What holds of the answer being read.                                     *)
LEMMA ReadingFacts ==
  ASSUME IInv, Reading, NEW a, a = stream[1]
  PROVE  /\ TypeOK /\ OwnUnread(a) /\ a = Front /\ a.out \in CopedOutcomes
         /\ ReachedIn(a.out) /\ Captured(a) /\ query \in 1..3
         /\ a.out \in { "ok", "conflict" } =>
              a.status \in Statuses /\ effect[cur] = a.status
         /\ error = IF pc = "resync"
                      THEN IF a.out = "bad_input" THEN "syntax" ELSE "other"
                      ELSE "none"
  BY DEF IInv, Reading, OwnUnread, Front, TypeOK

LEMMA ParseStep ==
  ASSUME IInv, Coped, ReadParseComplete
  PROVE  IInv'
<1>1. /\ pc = "parse" /\ Consume /\ UNCHANGED << query, close, body, status >>
      /\ ExpectMsg("parse", "parseOk", "bind", "resync", "fail")
      /\ ReadStep /\ pc \in ReadPoints \ { "ready" }
  BY DEF ReadParseComplete, ExpectMsg, ReadStep, ReadPoints
<1>2. UNCHANGED << cur, effect, replies, conn, sentDead >>
  BY <1>1 DEF Consume
<1>3. CASE Reading
  <2>1. PICK a : a = stream[1]
    OBVIOUS
  <2>2. /\ TypeOK /\ OwnUnread(a) /\ a = Front /\ a.out \in CopedOutcomes
        /\ ReachedIn(a.out) /\ Captured(a) /\ query \in 1..3
        /\ error = "none"
    BY <1>1, <1>3, <2>1, ReadingFacts
  <2>3. CASE NoticePending
    <3>1. Incoming = "notice"
      BY <1>1, <1>3, <2>2, <2>3, ReadingMessage
    <3>2. UNCHANGED << pc, error, aligned >>
      BY <1>1, <3>1 DEF ExpectMsg
    <3> QED BY <1>1, <1>3, <2>3, <3>2, NoticeStep
  <2>4. CASE ~NoticePending /\ Due(a.out) = "parseOk"
    <3>1. Incoming = "parseOk"
      BY <1>1, <1>3, <2>2, <2>4, ReadingMessage
    <3>2. pc' = "bind" /\ UNCHANGED << error, aligned >>
      BY <1>1, <3>1 DEF ExpectMsg
    <3>3. /\ PositionIn(a.out)' = PositionIn(a.out) + 1 /\ ReachedIn(a.out)'
          /\ Captured(a)'
      BY <1>1, <1>2, <2>2, <2>4, <3>2
      DEF PositionIn, ReachedIn, Base, Captured, Due, CopedOutcomes
    <3> QED BY <1>1, <1>3, <2>1, <2>2, <2>4, <3>2, <3>3, DueStep DEF ReadPoints
  <2>5. CASE ~NoticePending /\ Due(a.out) # "parseOk"
    <3>1. Due(a.out) = "error" /\ a.out = "parse_error" /\ query = 2
      BY <1>1, <2>5 DEF Due
    <3>2. Incoming = "error" /\ IncomingError = "other"
      BY <1>1, <1>3, <2>2, <2>5, <3>1, ReadingMessage DEF IncomingError
    <3>3. pc' = "resync" /\ error' = "other" /\ UNCHANGED aligned
      BY <1>1, <3>2 DEF ExpectMsg
    <3>4. /\ PositionIn(a.out)' = PositionIn(a.out) + 1 /\ ReachedIn(a.out)'
          /\ Captured(a)'
      BY <1>1, <1>2, <2>2, <3>1, <3>3
      DEF PositionIn, ReachedIn, Base, Captured
    <3> QED BY <1>1, <1>3, <2>1, <2>5, <3>1, <3>3, <3>4, DueStep DEF ReadPoints
  <2> QED BY <2>3, <2>4, <2>5
<1>4. CASE Waiting
  <2>1. /\ Incoming = "error" /\ IncomingError = "other"
        /\ stream' = <<>> /\ asked' = <<>> /\ backend' = "gone"
    BY <1>1, <1>4, WaitingRead DEF IInv
  <2>2. pc' = "resync" /\ error' = "other" /\ UNCHANGED aligned
    BY <1>1, <2>1 DEF ExpectMsg
  <2>3. Lost'
    BY <1>2, <1>4, <2>1, <2>2 DEF Waiting, Lost
  <2>4. aligned' /\ ~close'
    BY Zenon, <1>1, <2>2 DEF IInv, Connected
  <2>5. Connected' /\ Ledger'
    BY <1>1, <1>2, <2>2, <2>4, ReadFrame DEF ReadPoints
  <2>6. TypeOK'
    BY <1>1, ReadTypes DEF IInv
  <2> QED BY <2>3, <2>5, <2>6 DEF IInv
<1> QED
  BY <1>1, <1>3, <1>4 DEF IInv, Lost, Resting, Failing

LEMMA BindStep ==
  ASSUME IInv, Coped, ReadBindComplete
  PROVE  IInv'
<1>1. /\ pc = "bind" /\ Consume /\ UNCHANGED << query, close, body, status >>
      /\ ExpectMsg("bind", "bindOk", "describe", "resync", "fail")
      /\ ReadStep /\ pc \in ReadPoints \ { "ready" }
  BY DEF ReadBindComplete, ExpectMsg, ReadStep, ReadPoints
<1>2. UNCHANGED << cur, effect, replies, conn, sentDead >>
  BY <1>1 DEF Consume
<1>3. Reading
  BY <1>1 DEF IInv, Waiting, Lost, Resting, Failing
<1>4. PICK a : a = stream[1]
  OBVIOUS
<1>5. /\ TypeOK /\ OwnUnread(a) /\ a = Front /\ a.out \in CopedOutcomes
      /\ ReachedIn(a.out) /\ Captured(a) /\ query \in 1..3
      /\ error = "none"
  BY <1>1, <1>3, <1>4, ReadingFacts
<1>6. CASE NoticePending
  <2>1. Incoming = "notice"
    BY <1>1, <1>3, <1>5, <1>6, ReadingMessage
  <2>2. UNCHANGED << pc, error, aligned >>
    BY <1>1, <2>1 DEF ExpectMsg
  <2> QED BY <1>1, <1>3, <1>6, <2>2, NoticeStep
<1>7. CASE ~NoticePending /\ Due(a.out) = "bindOk"
  <2>1. Incoming = "bindOk"
    BY <1>1, <1>3, <1>5, <1>7, ReadingMessage
  <2>2. pc' = "describe" /\ UNCHANGED << error, aligned >>
    BY <1>1, <2>1 DEF ExpectMsg
  <2>3. /\ PositionIn(a.out)' = PositionIn(a.out) + 1 /\ ReachedIn(a.out)'
        /\ Captured(a)'
    BY <1>1, <1>2, <1>5, <1>7, <2>2
    DEF PositionIn, ReachedIn, Base, Captured, Due, CopedOutcomes
  <2> QED BY <1>1, <1>3, <1>4, <1>5, <1>7, <2>2, <2>3, DueStep DEF ReadPoints
<1>8. CASE ~NoticePending /\ Due(a.out) # "bindOk"
  <2>1. Due(a.out) = "error" /\ a.out = "bad_input" /\ query = 2
    BY <1>1, <1>8 DEF Due
  <2>2. Incoming = "error" /\ IncomingError = "syntax"
    BY <1>1, <1>3, <1>5, <1>8, <2>1, ReadingMessage DEF IncomingError
  <2>3. pc' = "resync" /\ error' = "syntax" /\ UNCHANGED aligned
    BY <1>1, <2>2 DEF ExpectMsg
  <2>4. /\ PositionIn(a.out)' = PositionIn(a.out) + 1 /\ ReachedIn(a.out)'
        /\ Captured(a)'
    BY <1>1, <1>2, <1>5, <2>1, <2>3
    DEF PositionIn, ReachedIn, Base, Captured
  <2> QED BY <1>1, <1>3, <1>4, <1>8, <2>1, <2>3, <2>4, DueStep DEF ReadPoints
<1> QED BY <1>6, <1>7, <1>8

LEMMA DescribeStep ==
  ASSUME IInv, Coped, ReadDescription
  PROVE  IInv'
<1>1. /\ pc = "describe" /\ Consume
      /\ UNCHANGED << body, status, close, error, aligned >>
      /\ ReadStep /\ pc \in ReadPoints \ { "ready" }
  BY DEF ReadDescription, ReadStep, ReadPoints
<1>2. UNCHANGED << cur, effect, replies, conn, sentDead >>
  BY <1>1 DEF Consume
<1>3. Reading
  BY <1>1 DEF IInv, Waiting, Lost, Resting, Failing
<1>4. PICK a : a = stream[1]
  OBVIOUS
<1>5. /\ TypeOK /\ OwnUnread(a) /\ a = Front /\ a.out \in CopedOutcomes
      /\ ReachedIn(a.out) /\ Captured(a) /\ query \in 1..3
      /\ error = "none"
  BY <1>1, <1>3, <1>4, ReadingFacts
<1>6. ~NoticePending /\ Incoming = Due(a.out)
  BY <1>1, <1>3, <1>5, ReadingMessage
<1>7. CASE query = 1
  <2>1. Incoming = "noData"
    BY <1>1, <1>6, <1>7 DEF Due
  <2>2. pc' = "complete" /\ query' = 1
    BY <1>7, <2>1 DEF ReadDescription
  <2>3. /\ PositionIn(a.out)' = PositionIn(a.out) + 1 /\ ReachedIn(a.out)'
        /\ Captured(a)' /\ Due(a.out) # "ready"
    BY <1>1, <1>2, <1>5, <1>6, <1>7, <2>1, <2>2
    DEF PositionIn, ReachedIn, Base, Captured, CopedOutcomes
  <2> QED BY <1>1, <1>3, <1>4, <1>5, <1>6, <2>2, <2>3, DueStep DEF ReadPoints
<1>8. CASE query # 1
  <2>1. Incoming = "rowDesc"
    BY <1>1, <1>6, <1>8 DEF Due
  <2>2. pc' = "row" /\ query' = query
    BY <1>8, <2>1 DEF ReadDescription, AfterResult
  <2>3. /\ PositionIn(a.out)' = PositionIn(a.out) + 1 /\ ReachedIn(a.out)'
        /\ Captured(a)' /\ Due(a.out) # "ready"
    BY <1>1, <1>2, <1>5, <1>6, <1>8, <2>1, <2>2
    DEF PositionIn, ReachedIn, Base, Captured, CopedOutcomes
  <2> QED BY <1>1, <1>3, <1>4, <1>5, <1>6, <2>2, <2>3, DueStep DEF ReadPoints
<1> QED BY <1>7, <1>8

LEMMA CompleteStep ==
  ASSUME IInv, Coped, ReadCommandComplete
  PROVE  IInv'
<1>1. /\ pc = "complete" /\ Consume /\ UNCHANGED << close, body, status >>
      /\ ExpectMsg("complete", "complete", AfterResult, "resync", "fail")
      /\ ReadStep /\ pc \in ReadPoints \ { "ready" }
  BY DEF ReadCommandComplete, ExpectMsg, ReadStep, ReadPoints
<1>2. UNCHANGED << cur, effect, replies, conn, sentDead >>
  BY <1>1 DEF Consume
<1>3. Reading
  BY <1>1 DEF IInv, Waiting, Lost, Resting, Failing
<1>4. PICK a : a = stream[1]
  OBVIOUS
<1>5. /\ TypeOK /\ OwnUnread(a) /\ a = Front /\ a.out \in CopedOutcomes
      /\ ReachedIn(a.out) /\ Captured(a) /\ query \in 1..3
      /\ error = "none"
  BY <1>1, <1>3, <1>4, ReadingFacts
<1>6. query = 1
  BY <1>1, <1>5 DEF ReachedIn
<1>7. CASE NoticePending
  <2>1. Incoming = "notice"
    BY <1>1, <1>3, <1>5, <1>7, ReadingMessage
  <2>2. UNCHANGED << pc, query, error, aligned >>
    BY <1>1, <2>1 DEF ExpectMsg, ReadCommandComplete
  <2> QED BY <1>1, <1>3, <1>7, <2>2, NoticeStep
<1>8. CASE ~NoticePending
  <2>1. Incoming = "complete" /\ Due(a.out) = "complete"
    BY <1>1, <1>3, <1>5, <1>8, ReadingMessage DEF Due
  <2>2. pc' = "parse" /\ query' = 2 /\ UNCHANGED << error, aligned >>
    BY <1>1, <1>6, <2>1 DEF ExpectMsg, ReadCommandComplete, AfterResult
  <2>3. /\ PositionIn(a.out)' = PositionIn(a.out) + 1 /\ ReachedIn(a.out)'
        /\ Captured(a)'
    BY <1>1, <1>2, <1>5, <1>6, <2>2
    DEF PositionIn, ReachedIn, Base, Captured, CopedOutcomes
  <2> QED BY <1>1, <1>3, <1>4, <1>5, <1>8, <2>1, <2>2, <2>3, DueStep DEF ReadPoints
<1> QED BY <1>7, <1>8

LEMMA RowStep ==
  ASSUME IInv, Coped, ReadRow
  PROVE  IInv'
<1>1. /\ pc = "row" /\ Consume /\ UNCHANGED << query, close, error, aligned >>
      /\ ReadStep /\ pc \in ReadPoints \ { "ready" }
  BY DEF ReadRow, ReadStep, ReadPoints
<1>2. UNCHANGED << cur, effect, replies, conn, sentDead >>
  BY <1>1 DEF Consume
<1>3. Reading
  BY <1>1 DEF IInv, Waiting, Lost, Resting, Failing
<1>4. PICK a : a = stream[1]
  OBVIOUS
<1>5. /\ TypeOK /\ OwnUnread(a) /\ a = Front /\ a.out \in CopedOutcomes
      /\ ReachedIn(a.out) /\ Captured(a) /\ query \in 1..3
      /\ error = "none" /\ a.of = cur
  BY <1>1, <1>3, <1>4, ReadingFacts DEF OwnUnread
<1>6. a.out \in { "ok", "conflict" } /\ query # 1
  BY <1>1, <1>5 DEF ReachedIn
<1>7. CASE NoticePending
  <2>1. Incoming = "notice"
    BY <1>1, <1>3, <1>5, <1>7, ReadingMessage
  <2>2. UNCHANGED << pc, body, status >>
    BY <1>1, <2>1 DEF ReadRow, IsRow
  <2> QED BY <1>1, <1>3, <1>7, <2>2, NoticeStep
<1>8. CASE ~NoticePending
  <2>1. Incoming = IF query = 2 THEN "row" ELSE "statusRow"
    BY <1>1, <1>3, <1>5, <1>8, ReadingMessage DEF Due
  <2>2. /\ pc' = "extra"
        /\ IF query = 2 THEN body' = cur /\ status' = status
                        ELSE body' = body /\ status' = a.status
    BY <1>5, <2>1 DEF ReadRow, IsRow
  <2>3. /\ PositionIn(a.out)' = PositionIn(a.out) + 1 /\ ReachedIn(a.out)'
        /\ Captured(a)' /\ Due(a.out) # "ready"
    BY <1>1, <1>2, <1>5, <1>6, <2>2
    DEF PositionIn, ReachedIn, Base, Captured, CopedOutcomes, Due
  <2> QED BY <1>1, <1>3, <1>4, <1>5, <1>8, <2>2, <2>3, DueStep DEF ReadPoints
<1> QED BY <1>7, <1>8

LEMMA NoMoreRowsStep ==
  ASSUME IInv, Coped, ReadNoMoreRows
  PROVE  IInv'
<1>1. /\ pc = "extra" /\ Consume
      /\ UNCHANGED << body, status, close, error, aligned >>
      /\ ReadStep /\ pc \in ReadPoints \ { "ready" }
  BY DEF ReadNoMoreRows, ReadStep, ReadPoints
<1>2. UNCHANGED << cur, effect, replies, conn, sentDead >>
  BY <1>1 DEF Consume
<1>3. Reading
  BY <1>1 DEF IInv, Waiting, Lost, Resting, Failing
<1>4. PICK a : a = stream[1]
  OBVIOUS
<1>5. /\ TypeOK /\ OwnUnread(a) /\ a = Front /\ a.out \in CopedOutcomes
      /\ ReachedIn(a.out) /\ Captured(a) /\ query \in 1..3
      /\ error = "none" /\ a.of = cur
  BY <1>1, <1>3, <1>4, ReadingFacts DEF OwnUnread
<1>6. a.out \in { "ok", "conflict" } /\ query # 1
  BY <1>1, <1>5 DEF ReachedIn
<1>7. CASE NoticePending
  <2>1. Incoming = "notice"
    BY <1>1, <1>3, <1>5, <1>7, ReadingMessage
  <2>2. UNCHANGED << pc, query >>
    BY <1>1, <2>1 DEF ReadNoMoreRows
  <2> QED BY <1>1, <1>3, <1>7, <2>2, NoticeStep
<1>8. CASE ~NoticePending
  <2>1. Incoming = "complete" /\ Due(a.out) = "complete"
    BY <1>1, <1>3, <1>5, <1>8, ReadingMessage DEF Due
  <2>2. IF query = 2 THEN pc' = "parse" /\ query' = 3
                     ELSE pc' = "respond" /\ query' = query
    BY <2>1 DEF ReadNoMoreRows, IsRow
  <2>3. /\ PositionIn(a.out)' = PositionIn(a.out) + 1 /\ ReachedIn(a.out)'
        /\ Captured(a)'
    BY <1>1, <1>2, <1>5, <1>6, <2>2
    DEF PositionIn, ReachedIn, Base, Captured, CopedOutcomes
  <2> QED BY <1>1, <1>3, <1>4, <1>5, <1>8, <2>1, <2>2, <2>3, DueStep DEF ReadPoints
<1> QED BY <1>7, <1>8

LEMMA ReadyStep ==
  ASSUME IInv, Coped, ReadReady
  PROVE  IInv'
<1>1. /\ pc = "ready" /\ Consume /\ UNCHANGED << query, close, body, status >>
      /\ ExpectMsg("ready", "ready", "clear", "resync_final", "not_ready")
      /\ ReadStep /\ pc \in ReadPoints
  BY DEF ReadReady, ExpectMsg, ReadStep, ReadPoints
<1>2. UNCHANGED << cur, effect, replies, conn, sentDead >>
  BY <1>1 DEF Consume
<1>3. Reading
  BY <1>1 DEF IInv, Waiting, Lost, Resting, Failing
<1>4. PICK a : a = stream[1]
  OBVIOUS
<1>5. /\ TypeOK /\ a = Front /\ error = "none"
  BY <1>1, <1>3, <1>4, ReadingFacts
<1>6. Due(a.out) = "ready"
  BY <1>1 DEF Due
<1>7. CASE NoticePending
  <2>1. Incoming = "notice"
    BY <1>1, <1>3, <1>5, <1>7, ReadingMessage
  <2>2. UNCHANGED << pc, error, aligned >>
    BY <1>1, <2>1 DEF ExpectMsg
  <2> QED BY <1>1, <1>3, <1>7, <2>2, NoticeStep
<1>8. CASE ~NoticePending
  <2>1. Incoming = "ready"
    BY <1>1, <1>3, <1>5, <1>6, <1>8, ReadingMessage
  <2>2. pc' = "clear" /\ UNCHANGED << error, aligned >>
    BY <1>1, <2>1 DEF ExpectMsg
  <2>3. /\ stream' = <<>> /\ asked' = <<>> /\ backend' = backend
        /\ backend # "gone" /\ sentDead' = 0
    BY <1>1, <1>3, <1>5, <1>6, <1>8, AnswerEnds
  <2>4. ~close' /\ aligned'
    BY Zenon, <1>1, <2>2 DEF IInv, Connected
  <2>5. Resting'
    BY <1>5, <2>2, <2>3, <2>4 DEF Resting, Quiet
  <2>6. Connected' /\ Ledger'
    BY <1>1, <1>2, <2>2, <2>4, ReadFrame
  <2>7. TypeOK'
    BY <1>1, <1>5, ReadTypes
  <2> QED BY <2>5, <2>6, <2>7 DEF IInv
<1> QED BY <1>7, <1>8

LEMMA ResyncStep ==
  ASSUME IInv, Coped, ReadyAfterError
  PROVE  IInv'
<1>0. pc # "resync_final"
  BY DEF IInv, Reading, OwnUnread, ReachedIn, Waiting, Lost, Resting, Failing,
         CopedOutcomes
<1>1. /\ pc = "resync" /\ Consume /\ UNCHANGED << query, body, status >>
      /\ ExpectMsg("resync", "ready", "fail", "resync", "fail")
      /\ close' = (close \/ Incoming \notin { "ready", "notice" })
      /\ ReadStep /\ pc \in ReadPoints
  BY <1>0 DEF ReadyAfterError, ExpectMsg, ReadStep, ReadPoints
<1>2. UNCHANGED << cur, effect, replies, conn, sentDead >>
  BY <1>1 DEF Consume
<1>3. TypeOK /\ TypeOK'
  BY <1>1, ReadTypes DEF IInv
<1>4. ~close /\ aligned
  BY Zenon, <1>1 DEF IInv, Connected
<1>5. CASE Reading
  <2>1. PICK a : a = stream[1]
    OBVIOUS
  <2>2. /\ OwnUnread(a) /\ a = Front /\ a.out \in CopedOutcomes
        /\ ReachedIn(a.out) /\ query \in 1..3
        /\ error = IF a.out = "bad_input" THEN "syntax" ELSE "other"
    BY <1>1, <1>5, <2>1, ReadingFacts
  <2>3. Due(a.out) = "ready" /\ a.out \in { "parse_error", "bad_input" }
    BY <1>1, <2>2 DEF Due, ReachedIn, CopedOutcomes
  <2>4. effect[cur] = IF a.out = "bad_input" THEN "rejected" ELSE "failed"
    BY <2>2, <2>3 DEF OwnUnread
  <2>5. CASE NoticePending
    <3>1. Incoming = "notice"
      BY <1>1, <1>3, <1>5, <2>2, <2>5, ReadingMessage
    <3>2. UNCHANGED << pc, error, aligned >>
      BY <1>1, <3>1 DEF ExpectMsg
    <3>3. close' = close
      BY <1>1, <1>3, <3>1 DEF TypeOK
    <3> QED BY <1>1, <1>5, <2>5, <3>2, <3>3, NoticeStep
  <2>6. CASE ~NoticePending
    <3>1. Incoming = "ready"
      BY <1>1, <1>3, <1>5, <2>2, <2>3, <2>6, ReadingMessage
    <3>2. pc' = "fail" /\ UNCHANGED << error, aligned >>
      BY <1>1, <3>1 DEF ExpectMsg
    <3>3. ~close'
      BY <1>1, <1>4, <3>1
    <3>4. /\ stream' = <<>> /\ asked' = <<>> /\ backend' = backend
          /\ backend # "gone" /\ sentDead' = 0
      BY <1>1, <1>3, <1>5, <2>2, <2>3, <2>6, AnswerEnds
    <3>5. Failing'
      BY <1>2, <2>2, <2>3, <2>4, <3>2, <3>3, <3>4 DEF Failing, Quiet
    <3>6. Connected' /\ Ledger'
      BY <1>1, <1>2, <1>4, <3>2, <3>3, ReadFrame
    <3> QED BY <1>3, <3>5, <3>6 DEF IInv
  <2> QED BY <2>5, <2>6
<1>6. CASE Lost
  <2>1. Incoming = "nothing" /\ stream' = <<>> /\ backend' = "gone" /\ asked' = <<>>
    BY <1>1, <1>6 DEF Lost, Incoming, Consume
  <2>2. pc' = "fail" /\ aligned' /\ UNCHANGED error
    BY <1>1, <2>1 DEF ExpectMsg
  <2>3. close' = TRUE
    BY <1>1, <2>1
  <2>4. Failing'
    BY <1>2, <1>6, <2>1, <2>2, <2>3 DEF Lost, Failing, Quiet
  <2>5. Connected' /\ Ledger'
    BY <1>1, <1>2, <2>2, ReadFrame
  <2> QED BY <1>3, <2>4, <2>5 DEF IInv
<1> QED
  BY <1>1, <1>5, <1>6 DEF IInv, Waiting, Resting, Failing

(* Nothing the worker reads is ever off a message boundary.                 *)
LEMMA ReadPreserves ==
  ASSUME IInv, Coped, ReadStep
  PROVE  IInv'
<1>1. ~ReadJunk
  BY Zenon DEF IInv, Connected, ReadJunk
<1> QED
  BY <1>1, ParseStep, BindStep, DescribeStep, CompleteStep, RowStep,
     NoMoreRowsStep, ReadyStep, ResyncStep
  DEF ReadStep

LEMMA ConnectPreserves ==
  ASSUME IInv, Coped,
         KeepConnection \/ CloseConnection \/ Connect \/ ConnectFails
  PROVE  IInv'
<1>1. TypeOK'
  <2>1. Serving
    BY DEF IInv, Connected, Serving
  <2> QED BY <2>1, WorkerTypes DEF IInv
<1>2. pc = "ensure" /\ Resting
  BY DEF KeepConnection, CloseConnection, Connect, ConnectFails, IInv, Waiting,
         Lost, Resting, Failing, Reading, OwnUnread, ReachedIn, CopedOutcomes
<1>3. CASE KeepConnection
  <2>1. /\ pc' = "accept" /\ conn = "open"
        /\ UNCHANGED << cur, locals, pgconn, wire, outside, history >>
    BY <1>3 DEF KeepConnection
  <2>2. ~close /\ aligned
    BY Zenon, <1>3 DEF KeepConnection, IInv, Connected
  <2>3. Resting'
    BY <1>2, <2>1, <2>2 DEF Resting, Quiet
  <2>4. Connected'
    BY <2>1, <2>2 DEF IInv, Connected
  <2>5. Ledger'
    BY <1>2, <2>1 DEF IInv, Ledger, Answered, Untouched, Deserved
  <2> QED BY <1>1, <2>3, <2>4, <2>5 DEF IInv
<1>4. CASE CloseConnection
  <2>1. /\ pc' = pc /\ conn' = "none" /\ error' = error /\ stream' = <<>>
        /\ asked' = <<>> /\ backend' = "gone"
        /\ UNCHANGED << cur, replies, effect, sentDead >>
    BY <1>4 DEF CloseConnection, ClosedWire
  <2>2. ~close' /\ aligned'
    BY Zenon, <1>4 DEF CloseConnection, ClosedWire
  <2>3. Resting'
    BY <1>2, <2>1, <2>2 DEF Resting, Quiet
  <2>4. Connected'
    BY <1>2, <2>1, <2>2 DEF IInv, Connected
  <2>5. Ledger'
    BY <1>2, <2>1 DEF IInv, Ledger, Answered, Untouched, Deserved
  <2> QED BY <1>1, <2>3, <2>4, <2>5 DEF IInv
<1>5. CASE Connect
  <2>1. /\ pc' = "accept" /\ conn' = "open" /\ error' = "none" /\ stream' = <<>>
        /\ asked' = <<>> /\ backend' = "up" /\ sentDead' = 0
        /\ UNCHANGED << cur, replies, effect >>
    BY <1>5 DEF Connect, ClosedWire
  <2>2. ~close' /\ aligned'
    BY Zenon, <1>5 DEF Connect, ClosedWire
  <2>3. Resting'
    BY <1>2, <2>1, <2>2 DEF Resting, Quiet
  <2>4. Connected'
    BY <2>1, <2>2 DEF IInv, Connected
  <2>5. Ledger'
    BY <1>2, <2>1 DEF IInv, Ledger, Answered, Untouched, Deserved
  <2> QED BY <1>1, <2>3, <2>4, <2>5 DEF IInv
<1>6. CASE ConnectFails
  <2>1. UNCHANGED << pc, cur, conn, close, error, aligned, wire, replies, history >>
    BY <1>6 DEF ConnectFails
  <2>2. Resting'
    BY <1>2, <2>1 DEF Resting, Quiet
  <2>3. Connected'
    BY <2>1 DEF IInv, Connected
  <2>4. Ledger'
    BY <1>2, <2>1 DEF IInv, Ledger, Answered, Untouched, Deserved
  <2> QED BY <1>1, <2>2, <2>3, <2>4 DEF IInv
<1> QED BY <1>3, <1>4, <1>5, <1>6

LEMMA AcceptPreserves ==
  ASSUME IInv, Coped, Accept
  PROVE  IInv'
<1>1. TypeOK'
  <2>1. Serving
    BY DEF IInv, Connected, Serving
  <2> QED BY <2>1, WorkerTypes DEF IInv
<1>2. pc = "accept" /\ Resting
  BY DEF Accept, IInv, Waiting, Lost, Resting, Failing, Reading, OwnUnread,
         ReachedIn, CopedOutcomes
<1>3. /\ cur' = cur + 1 /\ pc' = "send" /\ cur < MaxRequests
      /\ UNCHANGED << pgconn, wire, outside, history >>
  BY DEF Accept
<1>4. cur \in Nat /\ cur' \in Requests
  BY <1>3, MaxRequestsAssumption DEF IInv, TypeOK, Requests
<1>5. Resting'
  BY <1>2, <1>3 DEF Resting, Quiet
<1>6. Connected'
  BY <1>2, <1>3, <1>4 DEF IInv, Connected
<1>7. Ledger'
  <2>1. \A r \in Requests : (Answered(r) <=> Answered(r)')
                            /\ (Untouched(r) <=> Untouched(r)')
    BY <1>3 DEF Answered, Untouched, Deserved
  <2>2. \A r \in Requests : r < cur' => r < cur \/ r = cur
    BY <1>3, <1>4 DEF Requests
  <2>3. \A r \in Requests : r = cur => Answered(r)
    BY <1>2, <1>4 DEF IInv, Ledger, Requests
  <2>4. \A r \in Requests : r < cur' => Answered(r)'
    BY <2>1, <2>2, <2>3 DEF IInv, Ledger
  <2>5. \A r \in Requests : r > cur' => Untouched(r)'
    BY <1>3, <1>4, <2>1 DEF IInv, Ledger, Requests
  <2>6. Untouched(cur')
    BY <1>3, <1>4 DEF IInv, Ledger
  <2>7. replies'[cur'] = <<>> /\ effect'[cur'] = "none"
    BY <1>3, <2>6 DEF Untouched
  <2>8. query' = 1
    BY DEF Accept
  <2> QED BY <1>3, <2>4, <2>5, <2>7, <2>8 DEF Ledger
<1> QED BY <1>1, <1>5, <1>6, <1>7 DEF IInv

LEMMA SendPreserves ==
  ASSUME IInv, Coped, Send
  PROVE  IInv'
<1>1. TypeOK'
  <2>1. Serving
    BY DEF IInv, Connected, Serving
  <2> QED BY <2>1, WorkerTypes DEF IInv
<1>2. pc = "send" /\ Resting
  BY DEF Send, IInv, Waiting, Lost, Resting, Failing, Reading, OwnUnread,
         ReachedIn, CopedOutcomes
<1>3. /\ pc' = "parse"
      /\ UNCHANGED << cur, locals, pgconn, stream, backend, outside, effect >>
  BY DEF Send
<1>4. conn = "open" /\ cur > 0
  BY <1>2 DEF IInv, Connected
<1>5. ~close
  BY Zenon, <1>2 DEF IInv, Connected
<1>6. sentDead = 0 /\ backend \in { "up", "fatal" }
  BY <1>2, <1>4, <1>5 DEF Resting, Quiet, IInv, TypeOK
<1>7. asked' = (IF backend = "up" THEN << cur >> ELSE <<>>)
      /\ sentDead' = (IF backend = "up" THEN 0 ELSE 1)
  <2>1. asked = <<>>
    BY <1>2 DEF Resting, Quiet
  <2>2. asked' = IF backend = "up" THEN Append(<<>>, cur) ELSE <<>>
    BY <2>1 DEF Send
  <2>3. Append(<<>>, cur) = << cur >>
    OBVIOUS
  <2>4. sentDead' = IF backend = "up" THEN sentDead ELSE sentDead + 1
    BY DEF Send
  <2>5. sentDead' = IF backend = "up" THEN 0 ELSE 1
    BY <1>6, <2>4
  <2> QED BY <2>2, <2>3, <2>5
<1>8. Waiting'
  BY <1>2, <1>3, <1>6, <1>7 DEF Waiting, Resting, Quiet, IInv, Ledger
<1>9. Connected'
  BY <1>3, <1>4, <1>5, <1>6, <1>7 DEF IInv, Connected
<1>10. Ledger'
  BY <1>2, <1>3, <1>4 DEF IInv, Ledger, Answered, Untouched, Deserved
<1> QED BY <1>1, <1>8, <1>9, <1>10 DEF IInv

(* Writing a reply settles the current request.                             *)
LEMMA ReplySettles ==
  ASSUME TypeOK, Ledger, cur > 0, replies[cur] = <<>>,
         NEW code, NEW of, Reply(code, of),
         [code |-> code, body |-> of] = Deserved(cur),
         UNCHANGED << cur, effect >>,
         pc' \in { "ready", "clear", "ensure", "accept" }
  PROVE  Ledger'
<1>1. cur \in Requests
  BY DEF TypeOK, Requests
<1>2. \A r \in Requests : Deserved(r)' = Deserved(r)
  BY DEF Deserved
<1>3. replies' = [replies EXCEPT ![cur] = Append(<<>>, Deserved(cur))]
  BY DEF Reply
<1>4. Append(<<>>, Deserved(cur)) = << Deserved(cur) >>
  OBVIOUS
<1>5. /\ replies'[cur] = << Deserved(cur) >>
      /\ \A r \in Requests : r # cur => replies'[r] = replies[r]
  BY <1>1, <1>3, <1>4 DEF TypeOK
<1>6. Answered(cur)'
  BY <1>2, <1>1, <1>5 DEF Answered
<1>7. \A r \in Requests : r < cur' => Answered(r)'
  BY <1>1, <1>2, <1>5 DEF Ledger, Answered, Requests
<1>8. \A r \in Requests : r > cur' => Untouched(r)'
  BY <1>1, <1>5 DEF Ledger, Untouched, Requests
<1> QED BY <1>6, <1>7, <1>8 DEF Ledger

LEMMA RespondPreserves ==
  ASSUME IInv, Coped, Respond
  PROVE  IInv'
<1>1. TypeOK'
  <2>1. Serving
    BY DEF IInv, Connected, Serving
  <2> QED BY <2>1, WorkerTypes DEF IInv
<1>2. /\ pc = "respond" /\ pc' = "ready" /\ Reply(status, body)
      /\ UNCHANGED << cur, locals, pgconn, wire, process, history >>
  BY DEF Respond
<1>3. Reading
  BY <1>2 DEF IInv, Waiting, Lost, Resting, Failing
<1>4. PICK a : a = stream[1]
  OBVIOUS
<1>5. /\ OwnUnread(a) /\ a.out \in CopedOutcomes /\ ReachedIn(a.out)
      /\ Captured(a) /\ error = "none"
      /\ a.out \in { "ok", "conflict" } =>
           a.status \in Statuses /\ effect[cur] = a.status
  BY <1>2, <1>3, <1>4, ReadingFacts
<1>6. a.out \in { "ok", "conflict" } /\ query = 3
  BY <1>2, <1>5 DEF ReachedIn, CopedOutcomes
<1>7. status = effect[cur] /\ body = cur /\ effect[cur] \in Statuses
  BY <1>2, <1>5, <1>6 DEF Captured
<1>8. cur > 0 /\ replies[cur] = <<>> /\ Ledger /\ TypeOK
  BY <1>2 DEF IInv, Connected, Ledger
<1>9. [code |-> status, body |-> body] = Deserved(cur)
  BY <1>7 DEF Deserved
<1>10. Ledger'
  BY <1>2, <1>8, <1>9, ReplySettles
<1>11. OwnUnread(a)'
  BY <1>2, <1>5, <1>6 DEF OwnUnread, PositionIn, ReachedIn, Captured
<1>12. Reading'
  BY <1>2, <1>3, <1>4, <1>11 DEF Reading
<1>13. Connected'
  BY <1>2 DEF IInv, Connected
<1> QED BY <1>1, <1>10, <1>12, <1>13 DEF IInv

LEMMA FailPreserves ==
  ASSUME IInv, Coped, Fail
  PROVE  IInv'
<1>1. TypeOK'
  <2>1. Serving
    BY DEF IInv, Connected, Serving
  <2> QED BY <2>1, WorkerTypes DEF IInv
<1>2. /\ pc = "fail" /\ pc' = "ensure" /\ error' = "none" /\ Reply(FailCode, 0)
      /\ UNCHANGED << cur, locals, delay, conn, close, aligned, wire, process,
                      history >>
  BY DEF Fail
<1>3. Failing
  BY <1>2 DEF IInv, Waiting, Lost, Resting, Reading, OwnUnread, ReachedIn,
              CopedOutcomes
<1>4. cur > 0 /\ replies[cur] = <<>> /\ Ledger /\ TypeOK
  BY <1>2 DEF IInv, Connected, Ledger
<1>5. [code |-> FailCode, body |-> 0] = Deserved(cur)
  BY <1>3 DEF Failing, FailCode, Deserved, Statuses
<1>6. Ledger'
  BY <1>2, <1>4, <1>5, ReplySettles
<1>7. Resting'
  BY <1>2, <1>3 DEF Failing, Resting, Quiet
<1>8. Connected'
  BY <1>2 DEF IInv, Connected
<1> QED BY <1>1, <1>6, <1>7, <1>8 DEF IInv

LEMMA ClearPreserves ==
  ASSUME IInv, Coped, Clear
  PROVE  IInv'
<1>1. TypeOK'
  <2>1. Serving
    BY DEF IInv, Connected, Serving
  <2> QED BY <2>1, WorkerTypes DEF IInv
<1>2. conn # "freed"
  BY DEF IInv, Connected
<1>3. /\ pc = "clear" /\ pc' = "ensure" /\ error' = "none"
      /\ UNCHANGED << cur, locals, delay, conn, close, aligned, wire, replies,
                      history >>
  BY <1>2 DEF Clear
<1>4. Resting
  BY <1>3 DEF IInv, Waiting, Lost, Failing, Reading, OwnUnread, ReachedIn,
              CopedOutcomes
<1>5. Resting'
  BY <1>3, <1>4 DEF Resting, Quiet
<1>6. Connected'
  BY <1>3 DEF IInv, Connected
<1>7. Ledger'
  BY <1>3 DEF IInv, Ledger, Answered, Untouched, Deserved
<1> QED BY <1>1, <1>5, <1>6, <1>7 DEF IInv

LEMMA AnswerPreserves ==
  ASSUME IInv, Coped, BackendAnswers
  PROVE  IInv'
<1>1. TypeOK /\ TypeOK'
  BY BackendTypes DEF IInv, BackendStep
<1>2. UNCHANGED << pc, cur, locals, pgconn, outside, sentDead >>
      /\ asked # <<>> /\ backend = "up"
  BY DEF BackendAnswers
<1>3. Waiting
  BY <1>2 DEF IInv, Reading, Lost, Resting, Failing, Quiet
<1>4. /\ pc = "parse" /\ query = 1 /\ stream = <<>> /\ asked = << cur >>
      /\ error = "none" /\ sentDead = 0 /\ effect[cur] = "none"
  BY <1>2, <1>3 DEF Waiting
<1>5. cur \in Requests /\ Head(asked) = cur /\ Tail(asked) = <<>>
  <2>1. cur \in Requests
    BY <1>1, <1>4 DEF IInv, Connected, TypeOK, Requests
  <2>2. asked = << cur >>
    BY <1>4
  <2>3. Head(<< cur >>) = cur
    OBVIOUS
  <2>4. Tail(<< cur >>) = <<>>
    <3>1. << cur >> \in Seq(Requests) /\ << cur >> # <<>> /\ Len(<< cur >>) = 1
      BY <2>1
    <3>2. Tail(<< cur >>) \in Seq(Requests) /\ Len(Tail(<< cur >>)) = 0
      BY <3>1, HeadTailProperties
    <3> QED BY <3>2, EmptySeq
  <2> QED BY <2>1, <2>2, <2>3, <2>4
<1>6. PICK out \in Outcomes :
        \E n \in (IF "notice" \in Faults THEN NoticePoints(out) ELSE {}) \cup {0} :
          /\ stream' = Append(stream,
                         [ of |-> Head(asked), out |-> out, pos |-> 1,
                           end |-> Len(Script[out]), notices |-> {n},
                           status |-> SettingAt(out) ])
          /\ effect' = [effect EXCEPT ![Head(asked)] = EffectOf(out)]
          /\ IF out = "fatal_exec"
               THEN backend' = "gone" /\ asked' = <<>>
               ELSE backend' = "up"   /\ asked' = Tail(asked)
  BY DEF BackendAnswers
<1>7. PICK n \in NoticePoints(out) \cup { 0 } :
          /\ stream' = Append(stream,
                         [ of |-> Head(asked), out |-> out, pos |-> 1,
                           end |-> Len(Script[out]), notices |-> {n},
                           status |-> SettingAt(out) ])
          /\ effect' = [effect EXCEPT ![Head(asked)] = EffectOf(out)]
          /\ IF out = "fatal_exec"
               THEN backend' = "gone" /\ asked' = <<>>
               ELSE backend' = "up"   /\ asked' = Tail(asked)
  BY <1>6
<1>8. out \in CopedOutcomes
  BY DEF Coped
<1>9. PICK a : a = [ of |-> cur, out |-> out, pos |-> 1,
                     end |-> Len(Script[out]), notices |-> {n},
                     status |-> SettingAt(out) ]
  OBVIOUS
<1>10. stream' = << a >> /\ asked' = <<>> /\ backend' = "up"
  <2>1. stream' = Append(<<>>, a)
    BY <1>4, <1>5, <1>7, <1>9
  <2>2. Append(<<>>, a) = << a >>
    OBVIOUS
  <2> QED BY <1>5, <1>7, <1>8, <2>1, <2>2 DEF CopedOutcomes
<1>11. effect' = [effect EXCEPT ![cur] = EffectOf(out)]
  BY <1>5, <1>7
<1>12. effect'[cur] = EffectOf(out)
  BY <1>1, <1>5, <1>11 DEF TypeOK
<1>13. /\ out \in { "ok", "conflict" } =>
            SettingAt(out) \in Statuses /\ EffectOf(out) = SettingAt(out)
       /\ out = "parse_error" => EffectOf(out) = "failed"
       /\ out = "bad_input"   => EffectOf(out) = "rejected"
  BY DEF EffectOf, ChosenStatus, SettingAt, SettingAfterSet, Statuses, Committing
<1>14. OwnUnread(a)'
  BY <1>2, <1>4, <1>8, <1>9, <1>12, <1>13
  DEF OwnUnread, PositionIn, ReachedIn, Base, Captured, CopedOutcomes
<1>15. Reading'
  BY <1>2, <1>4, <1>10, <1>14 DEF Reading
<1>16. Connected'
  BY <1>2 DEF IInv, Connected
<1>17. Ledger'
  <2>1. \A r \in Requests : r # cur => effect'[r] = effect[r]
    BY <1>1, <1>11 DEF TypeOK
  <2>2. \A r \in Requests : r # cur =>
          (Answered(r) <=> Answered(r)') /\ (Untouched(r) <=> Untouched(r)')
    BY <1>2, <2>1 DEF Answered, Untouched, Deserved
  <2>3. \A r \in Requests : (r < cur \/ r > cur) => r # cur
    BY <1>5 DEF Requests
  <2>4. \A r \in Requests : r < cur' => Answered(r)'
    BY <1>2, <2>2, <2>3 DEF IInv, Ledger
  <2>5. \A r \in Requests : r > cur' => Untouched(r)'
    BY <1>2, <2>2, <2>3 DEF IInv, Ledger
  <2>6. replies'[cur'] = <<>> /\ pc' = "parse"
    BY <1>2, <1>4 DEF IInv, Ledger, Connected
  <2> QED BY <2>4, <2>5, <2>6 DEF Ledger
<1> QED BY <1>1, <1>15, <1>16, <1>17 DEF IInv

LEMMA TerminatedPreserves ==
  ASSUME IInv, Coped, BackendTerminated
  PROVE  IInv'
<1>1. TypeOK'
  BY BackendTypes DEF IInv, BackendStep
<1>2. /\ backend = "up" /\ backend' = "fatal" /\ asked' = <<>>
      /\ UNCHANGED << pc, cur, locals, pgconn, stream, setting, outside, history >>
  BY DEF BackendTerminated
<1>3. Connected'
  BY <1>2 DEF IInv, Connected
<1>4. Ledger'
  BY <1>2 DEF IInv, Ledger, Answered, Untouched, Deserved
<1>5. CASE Reading
  <2>1. OwnUnread(stream[1])'
    BY <1>2, <1>5 DEF Reading, OwnUnread, PositionIn, ReachedIn, Captured
  <2>2. Reading'
    BY <1>2, <1>5, <2>1 DEF Reading
  <2> QED BY <1>1, <1>3, <1>4, <2>2 DEF IInv
<1>6. CASE Waiting
  <2>1. Waiting'
    BY <1>2, <1>6 DEF Waiting
  <2> QED BY <1>1, <1>3, <1>4, <2>1 DEF IInv
<1>7. CASE Resting \/ Failing
  <2>1. Resting' \/ Failing'
    BY <1>2, <1>7 DEF Resting, Failing, Quiet
  <2> QED BY <1>1, <1>3, <1>4, <2>1 DEF IInv
<1> QED BY <1>2, <1>5, <1>6, <1>7 DEF IInv, Lost

LEMMA InitIInv == Init => IInv
<1> SUFFICES ASSUME Init PROVE IInv
  OBVIOUS
<1>1. TypeOK
  BY InitTypes
<1>2. Resting
  BY DEF Init, Resting, Quiet
<1>3. Connected
  <2>1. aligned /\ ~close
    BY Zenon DEF Init
  <2> QED BY <2>1 DEF Init, Connected
<1>4. Ledger
  BY DEF Init, Ledger, Untouched, Requests
<1> QED BY <1>1, <1>2, <1>3, <1>4 DEF IInv

LEMMA IInvStep ==
  ASSUME IInv, Coped, [Next]_vars
  PROVE  IInv'
<1>1. CASE Idle \/ UNCHANGED vars
  <2>1. UNCHANGED vars
    BY <1>1 DEF Idle
  <2>2. TypeOK' /\ Connected' /\ Ledger'
    BY <2>1 DEF vars, IInv, TypeOK, Connected, Ledger, Answered, Untouched,
                Deserved
  <2>3. Reading \/ Waiting \/ Lost \/ Resting \/ Failing
    BY DEF IInv
  <2>4. (Reading \/ Waiting \/ Lost \/ Resting \/ Failing)'
    BY <2>1, <2>3 DEF vars, Reading, OwnUnread, PositionIn, ReachedIn, Captured,
       Waiting, Lost, Resting, Failing, Quiet
  <2> QED BY <2>2, <2>4 DEF IInv
<1>2. ~NotReady /\ ~BackendCrashes
  BY DEF NotReady, BackendCrashes, Coped, CopedFaults, IInv, Reading, OwnUnread,
         ReachedIn, CopedOutcomes, Waiting, Lost, Resting, Failing
<1> QED
  BY <1>1, <1>2, ReadPreserves, ConnectPreserves, AcceptPreserves, SendPreserves,
     RespondPreserves, FailPreserves, ClearPreserves, AnswerPreserves,
     TerminatedPreserves
  DEF Next, WorkerStep, BackendStep

-----------------------------------------------------------------------------
(* The results                                                              *)

(* Under the faults the code copes with, the worker always knows whose      *)
(* answer it is reading and how far it has come: IInv is an invariant.      *)
THEOREM IInvCorrect ==
  ASSUME Coped
  PROVE  Spec => []IInv
<1>1. Init => IInv
  BY InitIInv
<1>2. IInv /\ [Next]_vars => IInv'
  BY IInvStep
<1> QED BY <1>1, <1>2, PTL DEF Spec

(* A reply is there only for a request taken on, and it is the one deserved. *)
LEMMA RepliesDeserved ==
  ASSUME IInv, NEW r \in Requests
  PROVE  Replied(r) => Answered(r)
<1>1. cur \in Nat /\ r \in Nat
  BY MaxRequestsAssumption DEF IInv, TypeOK, Requests
<1>2. CASE r > cur
  BY <1>2 DEF IInv, Ledger, Untouched, Replied
<1>3. CASE r < cur
  BY <1>3 DEF IInv, Ledger
<1>4. CASE r = cur
  <2>1. cur > 0
    BY <1>4 DEF Requests
  <2> QED BY <1>4, <2>1 DEF IInv, Ledger, Replied
<1> QED BY <1>1, <1>2, <1>3, <1>4

LEMMA DeservedReplies ==
  ASSUME IInv, NEW r \in Requests, Replied(r)
  PROVE  /\ Len(replies[r]) = 1
         /\ CodeOf(r) = Deserved(r).code /\ BodyOf(r) = Deserved(r).body
<1>1. replies[r] = << Deserved(r) >>
  BY RepliesDeserved DEF Answered
<1>2. Len(<< Deserved(r) >>) = 1 /\ << Deserved(r) >>[1] = Deserved(r)
  OBVIOUS
<1> QED BY <1>1, <1>2 DEF CodeOf, BodyOf

LEMMA RepliesRight ==
  ASSUME IInv
  PROVE  OwnAnswer /\ HonestSuccess /\ CommittedIsReported /\ BadRequestIsOwn
         /\ OneReply
<1>1. \A r \in Requests : Replied(r) =>
        /\ Len(replies[r]) = 1
        /\ CodeOf(r) = Deserved(r).code /\ BodyOf(r) = Deserved(r).body
  BY DeservedReplies
<1>2. \A r \in Requests :
        IF effect[r] \in Statuses
          THEN Deserved(r).code = effect[r] /\ Deserved(r).body = r
          ELSE IF effect[r] = "rejected" THEN Deserved(r).code = "400"
                                         ELSE Deserved(r).code = "501"
  BY DEF Deserved
<1>3. OwnAnswer /\ HonestSuccess
  BY <1>1, <1>2 DEF OwnAnswer, HonestSuccess, Succeeded, Settings, Statuses
<1>4. CommittedIsReported /\ BadRequestIsOwn
  BY <1>1, <1>2 DEF CommittedIsReported, BadRequestIsOwn, Statuses
<1>5. OneReply
  <2> SUFFICES ASSUME NEW r \in Requests
               PROVE  Len(replies[r]) <= 1
    BY DEF OneReply
  <2>1. CASE replies[r] = <<>>
    BY <2>1
  <2>2. CASE replies[r] # <<>>
    <3>1. Len(replies[r]) = 1
      BY <2>2, DeservedReplies DEF Replied
    <3> QED BY <3>1
  <2> QED BY <2>1, <2>2
<1> QED BY <1>3, <1>4, <1>5

LEMMA ConnectionRight ==
  ASSUME IInv
  PROVE  InSyncAtAccept /\ AtMostOneLost
<1>1. AtMostOneLost
  BY DEF IInv, Connected, AtMostOneLost
<1>2. pc \in { "accept", "send" } => Resting
  BY DEF IInv, Waiting, Lost, Failing, Reading, OwnUnread, ReachedIn,
         CopedOutcomes
<1>3. pc \in { "accept", "send" } => stream = <<>> /\ asked = <<>>
  BY <1>2 DEF Resting, Quiet
<1>4. aligned
  BY Zenon DEF IInv, Connected
<1> QED BY Zenon, <1>1, <1>3, <1>4 DEF InSyncAtAccept

(* The page a client gets is the one its own call returned.                 *)
THEOREM OwnAnswerCorrect == ASSUME Coped PROVE Spec => []OwnAnswer
<1>1. IInv => OwnAnswer
  BY RepliesRight
<1> QED BY <1>1, IInvCorrect, PTL

(* A page is sent only for a call that committed, with the status it set.   *)
THEOREM HonestSuccessCorrect == ASSUME Coped PROVE Spec => []HonestSuccess
<1>1. IInv => HonestSuccess
  BY RepliesRight
<1> QED BY <1>1, IInvCorrect, PTL

(* No committed call is reported as an error.                               *)
THEOREM CommittedIsReportedCorrect ==
  ASSUME Coped PROVE Spec => []CommittedIsReported
<1>1. IInv => CommittedIsReported
  BY RepliesRight
<1> QED BY <1>1, IInvCorrect, PTL

(* "Bad request" answers exactly the rejected arguments.                    *)
THEOREM BadRequestIsOwnCorrect == ASSUME Coped PROVE Spec => []BadRequestIsOwn
<1>1. IInv => BadRequestIsOwn
  BY RepliesRight
<1> QED BY <1>1, IInvCorrect, PTL

(* The connection is clean whenever the next client is accepted.            *)
THEOREM InSyncCorrect == ASSUME Coped PROVE Spec => []InSyncAtAccept
<1>1. IInv => InSyncAtAccept
  BY ConnectionRight
<1> QED BY <1>1, IInvCorrect, PTL

(* A backend that ends costs at most one request.                           *)
THEOREM AtMostOneLostCorrect == ASSUME Coped PROVE Spec => []AtMostOneLost
<1>1. IInv => AtMostOneLost
  BY ConnectionRight
<1> QED BY <1>1, IInvCorrect, PTL

(* Under those faults the worker never follows a stale PgConn; the null one *)
(* that a failed pg_connect returns is followed in the debug build only.    *)
THEOREM ProcessSurvivesCorrect ==
  ASSUME Coped, ~DebugBuild \/ "down" \notin Faults
  PROVE  Spec => []ProcessSurvives
<1>1. Init => ProcessSurvives
  BY DEF Init, ProcessSurvives
<1>2. ASSUME IInv, ProcessSurvives, [Next]_vars
      PROVE  ProcessSurvives'
  <2>1. CASE ConnectFails
    BY <1>2, <2>1 DEF ConnectFails, ProcessSurvives
  <2>2. CASE Clear
    BY <1>2, <2>2 DEF Clear, IInv, Connected, ProcessSurvives
  <2>3. CASE ReadStep
    BY <1>2, <2>3 DEF ReadStep, ReadParseComplete, ReadBindComplete,
       ReadDescription, ReadCommandComplete, ReadRow, ReadNoMoreRows, ReadReady,
       ReadyAfterError, ReadJunk, ExpectMsg, Consume, ProcessSurvives
  <2>4. CASE KeepConnection \/ CloseConnection \/ Send \/ Respond \/ NotReady
             \/ Fail \/ Connect \/ Accept
    BY <1>2, <2>4 DEF KeepConnection, CloseConnection, Send, Respond, NotReady,
       Fail, Connect, Accept, ProcessSurvives
  <2>5. CASE BackendStep \/ Idle \/ UNCHANGED vars
    BY <1>2, <2>5 DEF BackendStep, BackendAnswers, BackendTerminated,
       BackendCrashes, Idle, vars, ProcessSurvives
  <2> QED BY <1>2, <2>1, <2>2, <2>3, <2>4, <2>5 DEF Next, WorkerStep
<1>3. Spec => []IInv
  BY IInvCorrect
<1> QED BY <1>1, <1>2, <1>3, PTL DEF Spec

-----------------------------------------------------------------------------
(* Every step is a step of the abstract specification or changes nothing a  *)
(* client can see.                                                          *)

ShownReply(r) == IF Replied(r) THEN replies[r][1]
                               ELSE [code |-> "none", body |-> 0]

LEMMA HiddenStep ==
  ASSUME UNCHANGED << cur, effect, replies >>
  PROVE  UNCHANGED Call!vars
  BY DEF Call!vars, Replied

LEMMA TakeStep ==
  ASSUME IInv, Accept
  PROVE  Call!Take
<1>1. cur < MaxRequests /\ cur' = cur + 1 /\ UNCHANGED << effect, replies >>
      /\ pc = "accept"
  BY DEF Accept
<1>2. cur > 0 => cur \in Requests /\ Answered(cur)
  BY <1>1 DEF IInv, Ledger, TypeOK, Requests
<1>3. cur > 0 => Replied(cur) /\ replies[cur][1].code # "none"
  <2> SUFFICES ASSUME cur > 0
               PROVE  Replied(cur) /\ replies[cur][1].code # "none"
    OBVIOUS
  <2>1. replies[cur] = << Deserved(cur) >>
    BY <1>2 DEF Answered
  <2>2. << Deserved(cur) >> # <<>> /\ << Deserved(cur) >>[1] = Deserved(cur)
    OBVIOUS
  <2>3. Deserved(cur).code # "none"
    BY DEF Deserved, Statuses
  <2> QED BY <2>1, <2>2, <2>3 DEF Replied
<1> QED
  BY <1>1, <1>2, <1>3
  DEF Call!Take, Call!NoReply, Call!Requests, Requests, Replied

LEMMA ExecuteStep ==
  ASSUME IInv, Coped, BackendAnswers
  PROVE  Call!Execute
<1>1. UNCHANGED << cur, replies >> /\ pc' = pc /\ asked # <<>>
  BY DEF BackendAnswers
<1>2. Waiting
  BY <1>1 DEF IInv, Reading, Lost, Resting, Failing, Quiet
<1>3. /\ pc = "parse" /\ asked = << cur >> /\ effect[cur] = "none"
      /\ cur > 0 /\ replies[cur] = <<>>
  BY <1>1, <1>2 DEF Waiting, IInv, Connected, Ledger
<1>4. Head(asked) = cur /\ cur \in Requests
  <2>1. Head(<< cur >>) = cur
    OBVIOUS
  <2> QED BY <1>3, <2>1 DEF IInv, TypeOK, Requests
<1>5. PICK out \in Outcomes : effect' = [effect EXCEPT ![Head(asked)] = EffectOf(out)]
  BY DEF BackendAnswers
<1>6. EffectOf(out) \in Call!Effects \ { "none" }
  BY OutcomesAssumption
  DEF EffectOf, ChosenStatus, Call!Effects, SettingAt, SettingAfterSet, Statuses, Committing,
      AllOutcomes
<1>7. \E e \in Call!Effects \ { "none" } : effect' = [effect EXCEPT ![cur] = e]
  BY <1>4, <1>5, <1>6
<1>8. ~Replied(cur)
  BY <1>3 DEF Replied
<1> QED
  BY <1>1, <1>3, <1>4, <1>7, <1>8
  DEF Call!Execute, Call!NoReply, Call!Requests, Requests, Replied

LEMMA AnswerStep ==
  ASSUME IInv, IInv', cur \in Requests, replies[cur] = <<>>,
         NEW code, NEW of, Reply(code, of), UNCHANGED << cur, effect >>,
         [code |-> code, body |-> of] = Deserved(cur)
  PROVE  Call!Answer
<1>1. replies' = [replies EXCEPT ![cur] = Append(<<>>, Deserved(cur))]
  BY DEF Reply
<1>2. Append(<<>>, Deserved(cur)) = << Deserved(cur) >>
  OBVIOUS
<1>3. DOMAIN replies = Requests /\ DOMAIN replies' = Requests
  BY DEF IInv, TypeOK
<1>4. /\ replies'[cur] = << Deserved(cur) >>
      /\ \A r \in Requests : r # cur => replies'[r] = replies[r]
  BY <1>1, <1>2, <1>3
<1>5. << Deserved(cur) >> # <<>> /\ << Deserved(cur) >>[1] = Deserved(cur)
  OBVIOUS
<1>6. ShownReply(cur)' = Deserved(cur)
  BY <1>4, <1>5 DEF ShownReply, Replied
<1>7. \A r \in Requests : r # cur => ShownReply(r)' = ShownReply(r)
  BY <1>4 DEF ShownReply, Replied
<1>8. ShownReply(cur) = [code |-> "none", body |-> 0]
  BY DEF ShownReply, Replied
<1>9. Deserved(cur) = Call!Deserved(cur)
  BY DEF Deserved, Call!Deserved, Statuses
<1>10. [r \in Requests |-> ShownReply(r)]'
         = [[r \in Requests |-> ShownReply(r)] EXCEPT ![cur] = Deserved(cur)]
  BY <1>6, <1>7 DEF Requests
<1> QED
  BY <1>8, <1>9, <1>10
  DEF Call!Answer, Call!NoReply, Call!Requests, Requests, ShownReply

LEMMA CallInit == Init => Call!Init
<1> SUFFICES ASSUME Init PROVE Call!Init
  OBVIOUS
<1>1. [r \in Requests |-> ShownReply(r)]
        = [r \in Requests |-> [code |-> "none", body |-> 0]]
  BY DEF Init, ShownReply, Replied
<1> QED
  BY <1>1 DEF Init, Call!Init, Call!NoReply, Call!Requests, Requests, ShownReply

LEMMA CallStep ==
  ASSUME IInv, Coped, [Next]_vars
  PROVE  [Call!Next]_(Call!vars)
<1>1. IInv'
  BY IInvStep
<1>2. CASE Accept
  BY <1>2, TakeStep DEF Call!Next
<1>3. CASE BackendAnswers
  BY <1>3, ExecuteStep DEF Call!Next
<1>4. CASE Respond
  <2>1. /\ pc = "respond" /\ Reply(status, body) /\ UNCHANGED << cur, effect >>
    BY <1>4 DEF Respond
  <2>2. cur \in Requests /\ replies[cur] = <<>>
    BY <2>1 DEF IInv, Connected, Ledger, TypeOK, Requests
  <2>3. [code |-> status, body |-> body] = Deserved(cur)
    <3>1. Reading
      BY <2>1 DEF IInv, Waiting, Lost, Resting, Failing
    <3>2. PICK a : a = stream[1]
      OBVIOUS
    <3>3. /\ a.out \in CopedOutcomes /\ ReachedIn(a.out) /\ Captured(a)
          /\ a.out \in { "ok", "conflict" } =>
               a.status \in Statuses /\ effect[cur] = a.status
      BY <2>1, <3>1, <3>2, ReadingFacts
    <3>4. a.out \in { "ok", "conflict" } /\ query = 3
      BY <2>1, <3>3 DEF ReachedIn, CopedOutcomes
    <3>5. status = effect[cur] /\ body = cur /\ effect[cur] \in Statuses
      BY <2>1, <3>3, <3>4 DEF Captured
    <3> QED BY <3>5 DEF Deserved
  <2> QED BY <1>1, <2>1, <2>2, <2>3, AnswerStep DEF Call!Next
<1>5. CASE Fail
  <2>1. /\ pc = "fail" /\ Reply(FailCode, 0) /\ UNCHANGED << cur, effect >>
    BY <1>5 DEF Fail
  <2>2. cur \in Requests /\ replies[cur] = <<>>
    BY <2>1 DEF IInv, Connected, Ledger, TypeOK, Requests
  <2>3. Failing
    BY <2>1 DEF IInv, Waiting, Lost, Resting, Reading, OwnUnread, ReachedIn,
                CopedOutcomes
  <2>4. [code |-> FailCode, body |-> 0] = Deserved(cur)
    BY <2>3 DEF Failing, FailCode, Deserved, Statuses
  <2> QED BY <1>1, <2>1, <2>2, <2>4, AnswerStep DEF Call!Next
<1>6. CASE ReadStep
  <2>1. UNCHANGED << cur, effect, replies >>
    BY <1>6 DEF ReadStep, ReadParseComplete, ReadBindComplete, ReadDescription,
       ReadCommandComplete, ReadRow, ReadNoMoreRows, ReadReady, ReadyAfterError,
       ReadJunk, ExpectMsg, Consume
  <2> QED BY <2>1, HiddenStep
<1>7. CASE KeepConnection \/ CloseConnection \/ Connect \/ ConnectFails
           \/ Send \/ NotReady \/ Clear
  <2>1. UNCHANGED << cur, effect, replies >>
    BY <1>7 DEF KeepConnection, CloseConnection, Connect, ConnectFails, Send,
       NotReady, Clear
  <2> QED BY <2>1, HiddenStep
<1>8. CASE BackendTerminated
  <2>1. UNCHANGED << cur, effect, replies >>
    BY <1>8 DEF BackendTerminated
  <2> QED BY <2>1, HiddenStep
<1>9. CASE Idle \/ UNCHANGED vars
  <2>1. UNCHANGED << cur, effect, replies >>
    BY <1>9 DEF Idle, vars
  <2> QED BY <2>1, HiddenStep
<1>10. ~BackendCrashes
  BY DEF BackendCrashes, Coped, CopedFaults
<1> QED
  BY <1>2, <1>3, <1>4, <1>5, <1>6, <1>7, <1>8, <1>9, <1>10
  DEF Next, WorkerStep, BackendStep

(* The worker, its connection and the backend together do nothing a client  *)
(* can see that the abstract specification would not allow.                 *)
THEOREM ImplementsCallSteps ==
  ASSUME Coped
  PROVE  Spec => Call!Init /\ [][Call!Next]_(Call!vars)
<1>1. Init => Call!Init
  BY CallInit
<1>2. IInv /\ [Next]_vars => [Call!Next]_(Call!vars)
  BY CallStep
<1> QED BY <1>1, <1>2, IInvCorrect, PTL DEF Spec
=============================================================================
