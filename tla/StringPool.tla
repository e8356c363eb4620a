------------------------------ MODULE StringPool ------------------------------
(***************************************************************************)
(* The string pools of the template parser (src/muggin.c:83-192): a hash    *)
(* table with linear probing whose entries are numbered in the order they   *)
(* came.  The number stays with the string when the table grows, and what   *)
(* has been parsed refers to strings by number.                             *)
(*                                                                         *)
(* slots is the array of strings, an empty string where it is free; idxs    *)
(* says in which slot the string of each number is.  Numbers count from 1.  *)
(***************************************************************************)
EXTENDS Str

CONSTANTS
  Hash(_),    \* str_hash
  FirstSize   \* 64 in the code

NewPool(size) == [slots |-> [p \in 0..(size - 1) |-> <<>>], idxs |-> <<>>]

Size(pool) == Cardinality(DOMAIN pool.slots)

\* CONSTANT(t, idx), NAME(t, idx)
Entry(pool, id) == pool.slots[pool.idxs[id]]

(* The slots in the order in which a string is looked for.                  *)
Probe(pool, s, k) == (Hash(s) + k) % Size(pool)
FirstProbe(pool, s, strings) ==
  LET hits == { k \in 0..(Size(pool) - 1) :
                  pool.slots[Probe(pool, s, k)] \in strings }
  IN  IF hits = {} THEN Size(pool) ELSE Probe(pool, s, Min(hits))

(* string_pool_lookup: the number of a string, 0 when it has none.  The     *)
(* empty string "is" in every free slot and has no number, which ends the   *)
(* call (LOG_ERROR): callers test that.                                     *)
Lookup(pool, s) ==
  LET p == FirstProbe(pool, s, { s }) IN
  IF p = Size(pool) THEN 0 ELSE IndexOf(pool.idxs, p)

(* string_pool_idx of a string that is not in the pool.                     *)
\* Mutant: a string goes to the slot its hash names, whoever is there.
InsertNoProbe(pool, s) ==
  LET p == Probe(pool, s, 0) IN
  [slots |-> [pool.slots EXCEPT ![p] = s], idxs |-> Append(pool.idxs, p)]

Insert(pool, s) ==
  LET p == FirstProbe(pool, s, { <<>> }) IN
  [slots |-> [pool.slots EXCEPT ![p] = s], idxs |-> Append(pool.idxs, p)]

(* string_pool_use: a full table first moves, string by string, into one    *)
(* 1.618 times as large.                                                    *)
Grown(pool) ==
  LET moved[n \in 0..Len(pool.idxs)] ==
        IF n = 0 THEN NewPool((Size(pool) * 1618) \div 1000)
        ELSE Insert(moved[n - 1], Entry(pool, n))
  IN  moved[Len(pool.idxs)]

Use(pool, s) ==
  LET roomy == IF Len(pool.idxs) = Size(pool) THEN Grown(pool) ELSE pool
      id    == Lookup(roomy, s)
  IN  IF id # 0 THEN [pool |-> roomy, id |-> id]
      ELSE [pool |-> Insert(roomy, s), id |-> Len(roomy.idxs) + 1]
=============================================================================
