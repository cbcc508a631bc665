----------------------------- MODULE MCJourney -----------------------------
(* Journey on small instances. *)
EXTENDS Journey

CONSTANTS first, second
=============================================================================
