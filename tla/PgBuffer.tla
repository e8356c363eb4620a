------------------------------ MODULE PgBuffer ------------------------------
(***************************************************************************)
(* The one buffer of a PgConn, which holds the messages to be sent and     *)
(* then, from position 0 again, the messages received                      *)
(* (src/mugshot/pgwire.c:21-56, 186-212, 236-320, 443-454, pgwire.h).      *)
(* Positions and sizes are in bytes; what the bytes say is left out.       *)
(***************************************************************************)
EXTENDS Integers

CONSTANTS
  MinSize,       \* MIN_BUFFER_SIZE
  MinIncrease,   \* MIN_BUFFER_INCREASE
  MaxIncrease,   \* MAX_BUFFER_INCREASE
  Lengths,       \* lengths of fields, payloads and values
  MaxPos         \* bound on the position

(* A length prefix of four bytes fits in the smallest buffer, and in what   *)
(* pg_ensure_buf leaves free.                                               *)
ASSUME SizesAssumption ==
  /\ MinSize \in Nat /\ MinIncrease \in Nat /\ MaxIncrease \in Nat
  /\ MinSize >= 4 /\ MinIncrease >= 4
ASSUME LengthsAssumption == Lengths \subseteq Nat /\ MaxPos \in Nat

VARIABLES
  phase,     \* "startup": its message is open; "hello": what follows is read
             \* "put": a message is open; "between" two messages
             \* "read"; "failed": a result could not be read
  buf_size, buf_pos,
  len_pos,   \* where the open message's length goes
  written,   \* the bytes the last step wrote: [from, to)
  row        \* the bytes of the row in use

vars == << phase, buf_size, buf_pos, len_pos, written, row >>

Nothing == [ from |-> 0, to |-> 0 ]
Span(from, to) == [ from |-> from, to |-> to ]
Spans == [ from : Nat, to : Nat ]
Phases == { "startup", "hello", "put", "between", "read", "failed" }

(* pg_ensure_buf: the size of the buffer after room was made for `extra`    *)
(* bytes at `pos`.  1.618 is BUFFER_INCREASE_FACTOR.                        *)
Scaled(size) == (size * 1618) \div 1000

Wanted(pos, extra) == pos + extra + MinIncrease

\* Mutant: the growth alone, however little it is.
EnsuredByFactor(size, pos, extra) ==
  IF Wanted(pos, extra) <= size THEN size ELSE Scaled(size)

Ensured(size, pos, extra) ==
  LET wanted == Wanted(pos, extra)
      increase == Scaled(size) - size
  IN  IF wanted <= size THEN size
      ELSE IF Scaled(size) < wanted \/ increase > MaxIncrease THEN wanted
      ELSE IF increase < MinIncrease THEN size + MinIncrease
      ELSE Scaled(size)

(* pg_connect: the length of the startup message comes first, no type.      *)
Init ==
  /\ phase = "startup" /\ buf_size = MinSize
  /\ len_pos = 0 /\ buf_pos = 4
  /\ written = Nothing /\ row = Nothing

(* put_ch, put_i16, put_i32, put_string, put_str, put_len_str               *)
PutField(n) ==
  /\ phase \in { "startup", "put" } /\ buf_pos + n <= MaxPos
  /\ buf_size' = Ensured(buf_size, buf_pos, n)
  /\ written' = Span(buf_pos, buf_pos + n)
  /\ buf_pos' = buf_pos + n
  /\ UNCHANGED << phase, len_pos, row >>

(* The type byte, then mark_len, which skips four bytes without asking for  *)
(* them.                                                                    *)
BeginMessage ==
  /\ phase = "between" /\ buf_pos + 5 <= MaxPos
  /\ buf_size' = Ensured(buf_size, buf_pos, 1)
  /\ written' = Span(buf_pos, buf_pos + 1)
  /\ len_pos' = buf_pos + 1
  /\ buf_pos' = buf_pos + 5
  /\ phase' = "put"
  /\ UNCHANGED row

(* update_len; the startup message is sent by itself.                       *)
EndMessage ==
  /\ phase \in { "startup", "put" }
  /\ written' = Span(len_pos, len_pos + 4)
  /\ IF phase = "startup"
       THEN phase' = "hello" /\ buf_pos' = 0
       ELSE phase' = "between" /\ UNCHANGED buf_pos
  /\ UNCHANGED << buf_size, len_pos, row >>

(* put_sync and pg_send                                                     *)
Sync ==
  /\ phase = "between"
  /\ buf_size' = Ensured(Ensured(buf_size, buf_pos, 1), buf_pos + 1, 4)
  /\ written' = Span(buf_pos, buf_pos + 5)
  /\ buf_pos' = 0
  /\ phase' = "read"
  /\ UNCHANGED << len_pos, row >>

(* read_msg: the payload is kept.  A row that is to be used later is one of *)
(* these messages.                                                          *)
\* Mutant: the next message overwrites the last one.
ReadMessageInPlace(n) ==
  /\ phase \in { "hello", "read" } /\ buf_pos + n <= MaxPos
  /\ buf_size' = Ensured(buf_size, buf_pos, n)
  /\ written' = Span(buf_pos, buf_pos + n)
  /\ row' \in { row } \cup (IF phase = "read" THEN { Span(buf_pos, buf_pos + n) } ELSE {})
  /\ UNCHANGED << phase, buf_pos, len_pos >>

ReadMessage(n) ==
  /\ phase \in { "hello", "read" } /\ buf_pos + n <= MaxPos
  /\ buf_size' = Ensured(buf_size, buf_pos, n)
  /\ written' = Span(buf_pos, buf_pos + n)
  /\ buf_pos' = buf_pos + n
  /\ row' \in { row } \cup (IF phase = "read" THEN { Span(buf_pos, buf_pos + n) } ELSE {})
  /\ UNCHANGED << phase, len_pos >>

(* expect_msg, read_error, handle_notice: the payload is not kept.          *)
ReadScratch(n) ==
  /\ phase = "read" /\ buf_pos + n <= MaxPos
  /\ buf_size' = Ensured(buf_size, buf_pos, n)
  /\ written' = Span(buf_pos, buf_pos + n)
  /\ UNCHANGED << phase, buf_pos, len_pos, row >>

(* pg_read_result fails: what was read before is given up.                  *)
\* Mutant: the position is set to the "not read yet" of PgResult.row_start.
ResultFailsSentinel ==
  /\ phase = "read"
  /\ buf_pos' = -1 /\ phase' = "failed"
  /\ UNCHANGED << buf_size, len_pos, written, row >>

ResultFails ==
  /\ phase = "read"
  /\ buf_pos' = 0 /\ phase' = "failed"
  /\ UNCHANGED << buf_size, len_pos, written, row >>

(* read_startup_messages discards what it has read.                         *)
DiscardStartup ==
  /\ phase = "hello"
  /\ buf_pos' = 0 /\ phase' = "between"
  /\ UNCHANGED << buf_size, len_pos, written, row >>

(* pg_clear at the end of a request gives a large buffer back.              *)
Clear ==
  /\ phase \in { "read", "failed" }
  /\ buf_pos' = 0
  /\ buf_size' = IF buf_size > 10 * MinSize THEN MinSize ELSE buf_size
  /\ row' = Nothing /\ written' = Nothing
  /\ phase' = "between"
  /\ UNCHANGED len_pos

Next ==
  \/ \E n \in Lengths : PutField(n) \/ ReadMessage(n) \/ ReadScratch(n)
  \/ BeginMessage \/ EndMessage \/ Sync \/ ResultFails \/ DiscardStartup
  \/ Clear

Spec == Init /\ [][Next]_vars

-----------------------------------------------------------------------------
(* Properties                                                               *)

TypeOK ==
  /\ phase \in Phases /\ buf_size \in Nat /\ buf_pos \in Nat /\ len_pos \in Nat
  /\ written \in Spans /\ row \in Spans

(* No write leaves the buffer: not the length, whose place mark_len takes   *)
(* without asking pg_ensure_buf, nor anything after pg_clear has made the   *)
(* buffer smaller (pgwire.h:208-210, pgwire.c:443-454).                     *)
InBounds ==
  /\ written.to <= buf_size /\ buf_pos <= buf_size
  /\ phase \in { "startup", "put" } => len_pos + 4 <= buf_pos

(* While a row is in use no message that is read after it touches it: the   *)
(* response is written to the client after the status was read              *)
(* (mugshot.c:995-1032).                                                    *)
RowIntact ==
  [][ row # Nothing /\ row' = row =>
        written' = written \/ written'.from >= row.to ]_vars

=============================================================================
