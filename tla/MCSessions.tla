----------------------------- MODULE MCSessions -----------------------------
(* Sessions on small instances. *)
EXTENDS Sessions, TLC

CONSTANTS c1, c2, c3, i1, i2, ann, bob

\* Calls, ids and people are interchangeable; only invariants are checked
\* under this symmetry.
Interchangeable == Permutations(Calls) \cup Permutations(Ids) \cup Permutations(Staff)
=============================================================================
