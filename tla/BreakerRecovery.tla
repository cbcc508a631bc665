--------------------------- MODULE BreakerRecovery ---------------------------
(***************************************************************************)
(* What the breaker owes in the long run: Breaker with a vendor whose      *)
(* health, after any history, settles.                                     *)
(***************************************************************************)
EXTENDS Breaker

VARIABLE health   \* of the vendor: "mixed" until it settles "up" or "down"

rvars == <<vars, health>>

Possible == CASE health = "up"   -> {"ok", "fault"}
              [] health = "down" -> {"failed"}
              [] OTHER           -> Results

Settles ==
  /\ health = "mixed"
  /\ health' \in {"up", "down"}
  /\ UNCHANGED vars

RecoveryInit == Init /\ health = "mixed"

\* A call's result is one its vendor can produce.
Answered(c, r) == r \in Possible /\ Record(c, r) /\ UNCHANGED health

RecoveryNext ==
  \/ Settles
  \/ (Tick \/ \E c \in Calls : Admit(c) \/ Refuse(c) \/ Leave(c)) /\ UNCHANGED health
  \/ \E c \in Calls, r \in Results : Answered(c, r)

(* Time passes and every call returns: its context ends it.                  *)
CodeFairness ==
  /\ WF_rvars(Tick /\ UNCHANGED health)
  /\ \A c \in Calls : WF_rvars(\E r \in Results : Answered(c, r))

(* The users: a refusal is not held for ever, requests keep coming, and      *)
(* valid ones that a healthy vendor prices are among them for ever.          *)
UserFairness ==
  /\ \A c \in Calls : WF_rvars(Leave(c) /\ UNCHANGED health)
  /\ WF_rvars(\E c \in Calls : Admit(c) /\ UNCHANGED health)
  /\ SF_rvars(\E c \in Calls : Answered(c, "ok"))

RecoverySpec == RecoveryInit /\ [][RecoveryNext]_rvars /\ CodeFairness /\ UserFairness

-----------------------------------------------------------------------------
(* Once the vendor is healthy the circuit closes and stays closed: no        *)
(* schedule of probes, of calls that began in the outage, of request faults  *)
(* and of refusals holds it open or half-open for ever (breaker.go:84-104).  *)
Recovers == health = "up" ~> [](state = "closed")

(* Once every call fails the circuit opens, and is never again closed: "a    *)
(* breaker that can never trip" is what Load is said to refuse               *)
(* (contract.md:273-274). It takes a window of at least one: see README.md.  *)
TripsInOutage == health = "down" ~> [](state # "closed")
=============================================================================
