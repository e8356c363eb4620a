----------------------------- MODULE MCPgBuffer -----------------------------
(* An instance of PgBuffer for TLC: the proportions of the real sizes, with *)
(* a largest increase that is reached.                                      *)
EXTENDS PgBuffer

SomeLengths == { 0, 5, 20 }
=============================================================================
