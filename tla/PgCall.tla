------------------------------- MODULE PgCall -------------------------------
(***************************************************************************)
(* What one mugshot worker promises its clients: each request is one call  *)
(* of a database function in a transaction of its own, executed at most    *)
(* once and not before the previous one was answered, and answered exactly *)
(* once by what that call did (src/mugshot/mugshot.c:944-951).             *)
(* There is no connection, no message and no error flag here; ServePg is   *)
(* shown to implement this under the faults the code copes with.           *)
(***************************************************************************)
EXTENDS Naturals

CONSTANTS
  N,        \* number of requests, a natural number
  Statuses  \* HTTP statuses a function may choose

Requests == 1..N

VARIABLES
  called,   \* how many requests the worker has taken on
  effect,   \* effect[r]: what the call of r did in the database
  reply     \* reply[r]: the status and page client r got

vars == << called, effect, reply >>

Effects == Statuses \cup { "none", "rejected", "failed" }

NoReply == [code |-> "none", body |-> 0]

(* The reply a call's effect deserves: the page of that very call if it     *)
(* committed, "bad request" if its arguments were rejected.                 *)
Deserved(r) ==
  CASE effect[r] \in Statuses  -> [code |-> effect[r], body |-> r]
    [] effect[r] = "rejected"  -> [code |-> "400",     body |-> 0]
    [] OTHER                   -> [code |-> "501",     body |-> 0]

Init ==
  /\ called = 0
  /\ effect = [r \in Requests |-> "none"]
  /\ reply  = [r \in Requests |-> NoReply]

(* One request at a time: the last one taken on has been answered.          *)
Take ==
  /\ called < N
  /\ called > 0 => reply[called] # NoReply
  /\ called' = called + 1
  /\ UNCHANGED << effect, reply >>

Execute ==
  /\ called > 0 /\ reply[called] = NoReply /\ effect[called] = "none"
  /\ \E e \in Effects \ { "none" } : effect' = [effect EXCEPT ![called] = e]
  /\ UNCHANGED << called, reply >>

Answer ==
  /\ called > 0 /\ reply[called] = NoReply
  /\ reply' = [reply EXCEPT ![called] = Deserved(called)]
  /\ UNCHANGED << called, effect >>

Next == Take \/ Execute \/ Answer

Spec == Init /\ [][Next]_vars /\ WF_vars(Answer)
=============================================================================
