----------------------------- MODULE MCServePg -----------------------------
(* Instances of ServePg for TLC.                                            *)
EXTENDS ServePgInv

\* what the code copes with
HandledOutcomes == { "ok", "conflict", "parse_error", "bad_input" }
HandledFaults   == { "notice", "fatal_idle", "down" }
\* every way an answer can stop making sense ("conflict" and "parse_error" are
\* read like "ok" and "bad_input")
RoughOutcomes == AllOutcomes \ { "conflict", "parse_error" }
RoughFaults   == AllFaults \ { "notice" }
=============================================================================
