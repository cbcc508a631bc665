------------------------- MODULE MCBreakerRecovery -------------------------
(* Instances of BreakerRecovery for TLC. *)
EXTENDS BreakerRecovery
=============================================================================
