----------------------------- MODULE ServePgInv -----------------------------
(***************************************************************************)
(* The inductive invariant of ServePg under the faults the code copes      *)
(* with: at every read the one unread answer on the wire is the current    *)
(* request's, and its read position is where the worker's control point    *)
(* says.  The safety properties of ServePg follow from it.                 *)
(***************************************************************************)
EXTENDS ServePg

CopedOutcomes == { "ok", "conflict", "parse_error", "bad_input" }
CopedFaults   == { "notice", "fatal_idle", "down" }
Coped == Outcomes \subseteq CopedOutcomes /\ Faults \subseteq CopedFaults

(* The read position that control point p and query q stand for.            *)
Base(q) == IF q = 1 THEN 1 ELSE IF q = 2 THEN 5 ELSE 10

PositionIn(out) ==
  CASE pc = "parse"                   -> Base(query)
    [] pc = "bind"                    -> Base(query) + 1
    [] pc = "describe"                -> Base(query) + 2
    [] pc \in { "complete", "row" }   -> Base(query) + 3
    [] pc = "extra"                   -> Base(query) + 4
    [] pc \in { "respond", "ready" }  -> 15
    [] OTHER                          -> IF out = "parse_error" THEN 6 ELSE 7

(* The control points an answer of a given outcome takes the worker to: an  *)
(* error ends the second query's result at Parse or at Bind.                *)
ReachedIn(out) ==
  CASE out \in { "ok", "conflict" } ->
         \/ pc \in { "parse", "bind", "describe" }
         \/ pc = "complete" /\ query = 1
         \/ pc \in { "row", "extra" } /\ query # 1
         \/ pc \in { "respond", "ready" } /\ query = 3
    [] OTHER ->
         \/ pc \in { "parse", "bind", "describe", "complete" } /\ query = 1
         \/ pc = "parse" /\ query = 2
         \/ pc = "bind"  /\ query = 2 /\ out = "bad_input"
         \/ pc = "resync"

(* What the worker has taken from the answer so far.                        *)
Captured(a) ==
  /\ (pc = "extra" \/ query = 3) => body = cur
  /\ (pc = "extra" /\ query = 3) \/ pc = "respond" => status = a.status

(* The answer is the current request's, as the backend decided it.          *)
OwnUnread(a) ==
  /\ a.of = cur /\ a.out \in CopedOutcomes
  /\ a.end = Len(Script[a.out])
  /\ a.pos = PositionIn(a.out) /\ ReachedIn(a.out)
  /\ a.notices \subseteq NoticePoints(a.out) \cup { 0 }
  /\ a.out \in { "ok", "conflict" } =>
       a.status \in Statuses /\ effect[cur] = a.status
  /\ a.out = "parse_error" => effect[cur] = "failed"
  /\ a.out = "bad_input"   => effect[cur] = "rejected"
  /\ error = IF pc = "resync"
               THEN IF a.out = "bad_input" THEN "syntax" ELSE "other"
               ELSE "none"
  /\ Captured(a)

(* An answer is being read.                                                 *)
Reading ==
  /\ Len(stream) = 1 /\ OwnUnread(stream[1])
  /\ asked = <<>> /\ backend # "gone" /\ sentDead = 0

(* The request is sent, the answer is not there; the backend may have gone. *)
Waiting ==
  /\ pc = "parse" /\ query = 1 /\ stream = <<>>
  /\ error = "none" /\ effect[cur] = "none"
  /\ \/ backend = "up" /\ asked = << cur >> /\ sentDead = 0
     \/ backend = "fatal" /\ asked = <<>>

(* The backend's last words were read in place of an answer.                *)
Lost ==
  /\ pc = "resync" /\ stream = <<>> /\ asked = <<>>
  /\ backend = "gone" /\ error = "other" /\ effect[cur] = "none"

(* Nothing is under way on the wire.                                        *)
Quiet ==
  /\ stream = <<>> /\ asked = <<>>
  /\ close  => backend = "gone" /\ pc \in { "fail", "ensure" }
  /\ ~close /\ conn = "open" => sentDead = 0 /\ backend # "gone"

Resting ==
  /\ pc \in { "ensure", "accept", "send", "clear" } /\ error = "none"
  /\ Quiet

Failing ==
  /\ pc = "fail" /\ Quiet
  /\ error = IF effect[cur] = "rejected" THEN "syntax" ELSE "other"
  /\ effect[cur] \in { "none", "rejected", "failed" }

(* The reply a request's effect deserves, as PgCall has it.                 *)
Deserved(r) ==
  IF effect[r] \in Statuses THEN [code |-> effect[r], body |-> r]
  ELSE IF effect[r] = "rejected" THEN [code |-> "400", body |-> 0]
  ELSE [code |-> "501", body |-> 0]

Answered(r)  == replies[r] = << Deserved(r) >>
Untouched(r) == replies[r] = <<>> /\ effect[r] = "none"

(* The requests before the current one are answered as they deserve, those  *)
(* after it are untouched, and the current one is answered once the worker  *)
(* has written its reply.                                                   *)
Ledger ==
  /\ \A r \in Requests : r < cur => Answered(r)
  /\ \A r \in Requests : r > cur => Untouched(r)
  /\ cur > 0 => IF pc \in { "ready", "clear", "ensure", "accept" }
                  THEN Answered(cur)
                  ELSE replies[cur] = <<>>
  /\ pc = "send" => query = 1 /\ effect[cur] = "none"

Connected ==
  /\ conn # "freed" /\ aligned
  /\ pc # "ensure" => conn = "open"
  /\ pc \notin { "ensure", "fail" } => ~close
  /\ conn = "none" => ~close
  /\ sentDead <= 1
  /\ pc \notin { "ensure", "accept" } => cur > 0

(* Under every outcome and fault: the control points up to the reply of a   *)
(* request, at which nothing has been written to its client, and what the   *)
(* clients have got at any other.                                           *)
BeforeReply == { "send", "parse", "bind", "describe", "complete", "row",
                 "extra", "resync", "respond", "fail" }

RepliesInOrder ==
  /\ OneReply
  /\ \A r \in Requests :
       r > cur \/ (r = cur /\ pc \in BeforeReply) => replies[r] = <<>>

IInv ==
  /\ TypeOK /\ Connected /\ Ledger
  /\ Reading \/ Waiting \/ Lost \/ Resting \/ Failing
=============================================================================
