----------------------------- MODULE MCBreaker -----------------------------
(* Instances of Breaker for TLC. *)
EXTENDS Breaker, TLC

(* Requests are interchangeable: sound for the safety runs. *)
CallSymmetry == Permutations(Calls)
=============================================================================
