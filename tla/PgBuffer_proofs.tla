--------------------------- MODULE PgBuffer_proofs ---------------------------
(* The buffer of a PgConn is never overrun, and a row in use is never       *)
(* overwritten, whatever the sizes.                                         *)
EXTENDS PgBuffer, TLAPS

USE SizesAssumption, LengthsAssumption

(* pg_ensure_buf leaves room for what was asked, and four bytes more.       *)
LEMMA EnsuredSuffices ==
  ASSUME NEW size \in Nat, NEW pos \in Nat, NEW extra \in Nat
  PROVE  /\ Ensured(size, pos, extra) \in Nat
         /\ Ensured(size, pos, extra) >= pos + extra + 4
         /\ Ensured(size, pos, extra) >= pos + extra + MinIncrease
<1>1. Scaled(size) \in Nat
  BY DEF Scaled
<1>2. CASE Wanted(pos, extra) <= size
  BY <1>2 DEF Ensured, Wanted
<1>3. CASE ~(Wanted(pos, extra) <= size)
  BY <1>1, <1>3 DEF Ensured, Wanted
<1>4. QED
  BY <1>2, <1>3

(* A row in use lies below the position where the next message goes.        *)
Room ==
  /\ phase \in { "read", "failed" } \/ row = Nothing
  /\ phase = "read" => row.to <= buf_pos

IInv == TypeOK /\ InBounds /\ Room

LEMMA SpanType ==
  ASSUME NEW from \in Nat, NEW to \in Nat
  PROVE  Span(from, to) \in Spans /\ Span(from, to).from = from
                                  /\ Span(from, to).to = to
BY DEF Span, Spans

LEMMA InitIInv == Init => IInv
BY DEF Init, IInv, TypeOK, InBounds, Room, Nothing, Spans, Phases

LEMMA NextIInv == IInv /\ [Next]_vars => IInv'
<1> SUFFICES ASSUME IInv, [Next]_vars PROVE IInv'
  OBVIOUS
<1> USE DEF IInv, TypeOK, Phases
<1>t. Nothing \in Spans /\ Nothing.to = 0 /\ row.to \in Nat
  BY DEF Nothing, Spans
<1>1. ASSUME NEW n \in Lengths, PutField(n) PROVE IInv'
  <2>1. n \in Nat /\ buf_pos + n \in Nat
    OBVIOUS
  <2>2. /\ Span(buf_pos, buf_pos + n) \in Spans
        /\ Span(buf_pos, buf_pos + n).to = buf_pos + n
    BY <2>1, SpanType
  <2>3. buf_size' \in Nat /\ buf_size' >= buf_pos + n + 4
    BY <1>1, <2>1, EnsuredSuffices DEF PutField
  <2>4. TypeOK' /\ InBounds'
    BY <1>1, <2>1, <2>2, <2>3 DEF PutField, InBounds
  <2>5. Room'
    BY <1>1, <1>t, <2>1, <2>2 DEF PutField, Room
  <2> QED
    BY <2>4, <2>5
<1>2. ASSUME NEW n \in Lengths, ReadMessage(n) PROVE IInv'
  <2>1. n \in Nat /\ buf_pos + n \in Nat
    OBVIOUS
  <2>2. /\ Span(buf_pos, buf_pos + n) \in Spans
        /\ Span(buf_pos, buf_pos + n).to = buf_pos + n
    BY <2>1, SpanType
  <2>3. buf_size' \in Nat /\ buf_size' >= buf_pos + n + 4
    BY <1>2, <2>1, EnsuredSuffices DEF ReadMessage
  <2>4. TypeOK' /\ InBounds'
    BY <1>2, <2>1, <2>2, <2>3 DEF ReadMessage, InBounds
  <2>5. Room'
    BY <1>2, <1>t, <2>1, <2>2 DEF ReadMessage, Room
  <2> QED
    BY <2>4, <2>5
<1>3. ASSUME NEW n \in Lengths, ReadScratch(n) PROVE IInv'
  <2>1. n \in Nat /\ buf_pos + n \in Nat
    OBVIOUS
  <2>2. /\ Span(buf_pos, buf_pos + n) \in Spans
        /\ Span(buf_pos, buf_pos + n).to = buf_pos + n
    BY <2>1, SpanType
  <2>3. buf_size' \in Nat /\ buf_size' >= buf_pos + n + 4
    BY <1>3, <2>1, EnsuredSuffices DEF ReadScratch
  <2>4. TypeOK' /\ InBounds'
    BY <1>3, <2>1, <2>2, <2>3 DEF ReadScratch, InBounds
  <2>5. Room'
    BY <1>3, <1>t, <2>1, <2>2 DEF ReadScratch, Room
  <2> QED
    BY <2>4, <2>5
<1>4. ASSUME BeginMessage PROVE IInv'
  <2>1. /\ Span(buf_pos, buf_pos + 1) \in Spans
        /\ Span(buf_pos, buf_pos + 1).to = buf_pos + 1
    BY SpanType
  <2>2. buf_size' \in Nat /\ buf_size' >= buf_pos + 1 + 4
    BY <1>4, EnsuredSuffices DEF BeginMessage
  <2>3. TypeOK' /\ InBounds'
    BY <1>4, <2>1, <2>2 DEF BeginMessage, InBounds
  <2>4. Room'
    BY <1>4, <1>t DEF BeginMessage, Room
  <2> QED
    BY <2>3, <2>4
<1>5. ASSUME EndMessage PROVE IInv'
  BY <1>5, <1>t, SpanType DEF EndMessage, InBounds, Room
<1>6. ASSUME Sync PROVE IInv'
  <2> DEFINE typed == Ensured(buf_size, buf_pos, 1)
  <2>1. typed \in Nat /\ buf_pos + 1 \in Nat
    BY EnsuredSuffices
  <2> HIDE DEF typed
  <2>2. /\ Ensured(typed, buf_pos + 1, 4) \in Nat
        /\ Ensured(typed, buf_pos + 1, 4) >= buf_pos + 1 + 4 + 4
    BY <2>1, EnsuredSuffices
  <2>3. buf_size' = Ensured(typed, buf_pos + 1, 4)
    BY <1>6 DEF Sync, typed
  <2>4. buf_size' \in Nat /\ buf_size' >= buf_pos + 5
    BY <2>2, <2>3
  <2> QED
    BY <1>6, <1>t, <2>4, SpanType DEF Sync, InBounds, Room
<1>7. ASSUME ResultFails PROVE IInv'
  BY <1>7, <1>t DEF ResultFails, InBounds, Room
<1>8. ASSUME DiscardStartup PROVE IInv'
  BY <1>8, <1>t DEF DiscardStartup, InBounds, Room
<1>9. ASSUME Clear PROVE IInv'
  BY <1>9, <1>t DEF Clear, InBounds, Room
<1>10. CASE UNCHANGED vars
  BY <1>10 DEF vars, InBounds, Room
<1> QED
  BY <1>1, <1>2, <1>3, <1>4, <1>5, <1>6, <1>7, <1>8, <1>9, <1>10 DEF Next

LEMMA InductiveInvariant == Spec => []IInv
BY InitIInv, NextIInv, PTL DEF Spec

(* Positions and sizes stay natural numbers: the position a failed result   *)
(* goes back to is one of the buffer, never the -1 of a row not read yet.   *)
THEOREM TypeCorrect == Spec => []TypeOK
<1>1. IInv => TypeOK
  BY DEF IInv
<1> QED
  BY <1>1, InductiveInvariant, PTL

(* No write of the connection leaves its buffer, for any sizes of buffer,   *)
(* messages and values, the four bytes mark_len takes unasked included.     *)
THEOREM InBoundsCorrect == Spec => []InBounds
<1>1. IInv => InBounds
  BY DEF IInv
<1> QED
  BY <1>1, InductiveInvariant, PTL

(* No message overwrites a row that was read before it and is in use.       *)
THEOREM RowIntactCorrect == Spec => RowIntact
<1>1. IInv /\ [Next]_vars =>
        [ row # Nothing /\ row' = row =>
            written' = written \/ written'.from >= row.to ]_vars
  <2> SUFFICES ASSUME IInv, Next, row # Nothing, row' = row
               PROVE  written' = written \/ written'.from >= row.to
    BY DEF vars
  <2> USE DEF IInv, TypeOK, Room
  <2>1. phase \in { "read", "failed" }
    OBVIOUS
  <2>2. ASSUME NEW n \in Lengths, ReadMessage(n) \/ ReadScratch(n)
        PROVE  written'.from >= row.to
    <3>1. phase = "read" /\ written' = Span(buf_pos, buf_pos + n)
      BY <2>1, <2>2 DEF ReadMessage, ReadScratch
    <3> QED
      BY <3>1, SpanType DEF Spans
  <2>3. ASSUME ResultFails PROVE written' = written
    BY <2>3 DEF ResultFails
  <2>4. ~Clear
    BY DEF Clear
  <2> QED
    BY <2>1, <2>2, <2>3, <2>4
    DEF Next, PutField, BeginMessage, EndMessage, Sync, DiscardStartup
<1> QED
  BY <1>1, InductiveInvariant, PTL DEF Spec, RowIntact
=============================================================================
