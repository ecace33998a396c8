------------------------------ MODULE KVNamespace ------------------------------
(***************************************************************************)
(* The key-value namespace behind the worker (Cloudflare KV, external to   *)
(* the repository).  It may be eventually consistent: a read returns any   *)
(* value that is still visible somewhere.                                  *)
(***************************************************************************)
CONSTANT Eventual      \* FALSE: every read returns what was written last

ASSUME EventualAssumption == Eventual \in BOOLEAN

\* What was written last, and what reads may return.
Cell(v) == [latest |-> v, visible |-> {v}]

\* A put, or a delete when v stands for absence.
Written(cell, v) == [latest |-> v, visible |-> {v} \cup IF Eventual THEN cell.visible ELSE {}]

\* The last write has reached every place.
Settled(cell) == Cell(cell.latest)

=============================================================================
