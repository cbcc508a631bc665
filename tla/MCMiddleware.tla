---------------------------- MODULE MCMiddleware ----------------------------
(* Instances of Middleware for TLC. *)
EXTENDS Middleware, TLC

(* Requests are interchangeable: sound for safety. *)
RequestSymmetry == Permutations(Requests)
=============================================================================
