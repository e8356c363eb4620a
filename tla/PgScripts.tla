----------------------------- MODULE PgScripts -----------------------------
(***************************************************************************)
(* What a PostgreSQL backend sends back for the three pipelined queries of *)
(* mugshot_serve_pg (src/mugshot/mugshot.c:974-981): SET of the HTTP       *)
(* status, the call of the endpoint's function, SELECT of the status,      *)
(* followed by one Sync.  The backend is not part of the repository; this  *)
(* is the extended query protocol as src/mugshot/pgwire.c reads it.        *)
(*                                                                         *)
(* A message is named by its type:                                         *)
(*   parseOk '1'  bindOk '2'  noData 'n'  rowDesc 'T'  complete 'C'        *)
(*   row 'D' (the function's row)  statusRow 'D' (the setting)             *)
(*   ready 'Z'  error 'E'  notice 'N'  paramStatus 'S'                     *)
(* "nothing" stands for a read that ends without a message: end of file,   *)
(* or the 60 second receive timeout of the socket.                         *)
(***************************************************************************)
EXTENDS Naturals, Sequences

(* The ways one request can go inside the backend.                          *)
(*   ok, conflict   : the function returns its row (conflict also sets the  *)
(*                    setting mugshot.http_status to 409)                   *)
(*   bad_input      : an argument is not valid for its type, found at Bind  *)
(*   parse_error    : the call does not parse (e.g. function dropped)       *)
(*   exec_error     : the function raises                                   *)
(*   no_row/two_rows: a set-returning function yields 0 or 2 rows           *)
(*   commit_error   : a deferred constraint fails when Sync commits         *)
(*   param_status   : the function changed a reported run-time parameter    *)
(*   fatal_exec     : the backend is terminated while the function runs     *)
Script ==
  [ ok           |-> << "parseOk", "bindOk", "noData", "complete",
                        "parseOk", "bindOk", "rowDesc", "row", "complete",
                        "parseOk", "bindOk", "rowDesc", "statusRow", "complete",
                        "ready" >>,
    conflict     |-> << "parseOk", "bindOk", "noData", "complete",
                        "parseOk", "bindOk", "rowDesc", "row", "complete",
                        "parseOk", "bindOk", "rowDesc", "statusRow", "complete",
                        "ready" >>,
    parse_error  |-> << "parseOk", "bindOk", "noData", "complete",
                        "error", "ready" >>,
    bad_input    |-> << "parseOk", "bindOk", "noData", "complete",
                        "parseOk", "error", "ready" >>,
    exec_error   |-> << "parseOk", "bindOk", "noData", "complete",
                        "parseOk", "bindOk", "rowDesc", "error", "ready" >>,
    no_row       |-> << "parseOk", "bindOk", "noData", "complete",
                        "parseOk", "bindOk", "rowDesc", "complete",
                        "parseOk", "bindOk", "rowDesc", "statusRow", "complete",
                        "ready" >>,
    two_rows     |-> << "parseOk", "bindOk", "noData", "complete",
                        "parseOk", "bindOk", "rowDesc", "row", "row", "complete",
                        "parseOk", "bindOk", "rowDesc", "statusRow", "complete",
                        "ready" >>,
    commit_error |-> << "parseOk", "bindOk", "noData", "complete",
                        "parseOk", "bindOk", "rowDesc", "row", "complete",
                        "parseOk", "bindOk", "rowDesc", "statusRow", "complete",
                        "error", "ready" >>,
    param_status |-> << "parseOk", "bindOk", "noData", "complete",
                        "parseOk", "bindOk", "rowDesc", "row", "complete",
                        "parseOk", "bindOk", "rowDesc", "statusRow", "complete",
                        "paramStatus", "ready" >>,
    fatal_exec   |-> << "parseOk", "bindOk", "noData", "complete",
                        "parseOk", "bindOk", "rowDesc", "error" >> ]

AllOutcomes == { "ok", "conflict", "parse_error", "bad_input", "exec_error",
                 "no_row", "two_rows", "commit_error", "param_status",
                 "fatal_exec" }

(* Everything between two Syncs is one transaction: it commits unless some  *)
(* message of it is an error.                                               *)
Committing == { "ok", "conflict", "no_row", "two_rows", "param_status" }

(* Faults of the environment.                                               *)
(*   notice     : the backend sends notices along with its answer           *)
(*   fatal_idle : an administrator terminates the backend between requests  *)
(*   crash      : the backend or the network dies without a word            *)
(*   late       : the backend may need more than the 60 second timeout      *)
(*   down       : connecting may fail                                       *)
AllFaults == { "notice", "fatal_idle", "crash", "late", "down" }

(* Parsing, binding, executing and committing may each raise a notice; the  *)
(* backend never sends one between BindComplete and the description.        *)
NoticePoints(out) ==
  { p \in 1..Len(Script[out]) :
      Script[out][p] \in { "parseOk", "bindOk", "row", "complete", "ready" } }

(* What expect_msg's header read leaves on the wire when the type is not    *)
(* the one it wants: everything but these three carries a payload.          *)
HasPayload(m) == m \notin { "parseOk", "bindOk", "noData" }

IsRow(m) == m \in { "row", "statusRow" }
=============================================================================
