----------------------------- MODULE Middleware -----------------------------
(***************************************************************************)
(* The resilience stack of the Middleware: Breaker(Retrier(VendorClient))  *)
(* as NewRouter composes it, under the request's deadline, with concurrent *)
(* requests, callers that disconnect and a vendor that fails.              *)
(*                                                                         *)
(* A request is handled by Breaker.Quote: reject() refuses it or admits it *)
(* to Retrier.Quote, and record() takes the result the retrier returns.    *)
(* One clock drives both: the age the breaker sees is the budget used.     *)
(***************************************************************************)
EXTENDS Retrier, Sequences

CONSTANTS
  Window, MinSamples, ThresholdNum, ThresholdDen, OpenFor, Probes

\* As in Breaker.
ASSUME MiddlewareAssumption ==
  /\ {Window, MinSamples, ThresholdNum, OpenFor, Probes} \subseteq Nat
  /\ ThresholdDen \in Nat \ {0}
  /\ MinSamples <= Window

VARIABLES
  state, outcomes, sinceOpened, successes, inFlight,  \* Breaker
  refused,      \* requests that hold a refusal
  told, stale,  \* as in Breaker
  answer,       \* the error the last answer of each request rendered, or none
  causes        \* history: whose doing the failures recorded since the
                \* circuit last closed were, "vendor" or "caller"

\* A request the breaker refused never enters the retrier.
pc == [c \in Requests |-> IF c \in refused THEN "refused"
                          ELSE IF c \in Active THEN "calling" ELSE "idle"]

B == INSTANCE Breaker WITH Calls <- Requests, CallBound <- RequestBudget, age <- used

bvars == <<state, outcomes, sinceOpened, successes, inFlight, told, stale>>
mvars == <<rvars, bvars, refused, answer, causes>>

MiddlewareInit ==
  /\ RetrierInit
  /\ refused = {}
  /\ answer = [c \in Requests |-> NoError]
  /\ causes = {}
  /\ B!Init

-----------------------------------------------------------------------------
\* Mutant: a request fault counts against the vendor.
ResultOfEveryError(e) == IF e = NoError THEN "ok" ELSE "failed"

(* What record() makes of the error the retrier returned. *)
ResultOf(e) ==
  IF e.marker = "fault" THEN "fault" ELSE IF e = NoError THEN "ok" ELSE "failed"

\* A cancelled context is the one failure that says nothing of the vendor.
CauseOf(e) ==
  IF e = NoError \/ e.marker = "fault" THEN {}
  ELSE IF e = TransportError("canceled", FALSE) THEN {"caller"} ELSE {"vendor"}

\* reject() lets the request through.
Enter(c) ==
  /\ c \notin refused
  /\ Begin(c)
  /\ UNCHANGED refused
  /\ B!Admit(c)
  /\ answer' = [answer EXCEPT ![c] = NoError]
  /\ UNCHANGED causes

\* reject() does not: circuitOpen() is the answer, with the wait it gave.
TurnAway(c) ==
  /\ stage[c] = "idle" /\ c \notin refused
  /\ refused' = refused \cup {c}
  /\ UNCHANGED rvars
  /\ B!Refuse(c)
  /\ answer' = [answer EXCEPT ![c] = CircuitOpen(told'[c])]
  /\ UNCHANGED causes

GoesAway(c) ==
  /\ c \in refused
  /\ refused' = refused \ {c}
  /\ UNCHANGED rvars
  /\ B!Leave(c)
  /\ answer' = [answer EXCEPT ![c] = NoError]
  /\ UNCHANGED causes

\* The retrier works without the breaker's lock.
Proceed(c) ==
  /\ VendorCreates(c) \/ CallerLeaves(c) \/ Works(c)
  /\ UNCHANGED <<bvars, refused, answer, causes>>

\* Mutant: record() is not called for a request fault.
FinishSkippingFaults(c) ==
  /\ Deliver(c)
  /\ UNCHANGED refused
  /\ IF err[c].marker = "fault" THEN UNCHANGED bvars ELSE B!Record(c, ResultOf(err[c]))
  /\ answer' = [answer EXCEPT ![c] = err[c]]
  /\ causes' = causes \cup CauseOf(err[c])

\* record(), and the handler writes the answer.
Finish(c) ==
  /\ Deliver(c)
  /\ UNCHANGED refused
  /\ B!Record(c, ResultOf(err[c]))
  /\ answer' = [answer EXCEPT ![c] = err[c]]
  /\ causes' = IF state # "closed" /\ state' = "closed" THEN {} ELSE causes \cup CauseOf(err[c])

Clock ==
  /\ TimePasses
  /\ UNCHANGED <<refused, answer, causes>>
  /\ B!Elapse

MiddlewareNext ==
  \/ Clock
  \/ \E c \in Requests :
       Enter(c) \/ TurnAway(c) \/ GoesAway(c) \/ Proceed(c) \/ Finish(c)

MiddlewareSpec == MiddlewareInit /\ [][MiddlewareNext]_mvars
-----------------------------------------------------------------------------
(* The stack implements the breaker's specification with CallBound equal to  *)
(* the request budget: every request the breaker admits comes back to        *)
(* record() exactly once and within its budget, whatever mix of attempts,    *)
(* backoffs, Retry-Afters and disconnections it went through.                *)
ImplementsBreaker == B!Spec

(* The circuit never opens on request faults alone: what counts as a failure *)
(* is the vendor's, the network's or a caller's (breaker.go:113-117).        *)
OpensForCause == state # "closed" => causes # {}

(* "Breaker stops calling a vendor that is failing" (breaker.go:45).         *)
OpensForVendor == state # "closed" => "vendor" \in causes

StartsAttempt(c) == attempt'[c] > attempt[c]

(* The vendor is called with the circuit open only by requests admitted      *)
(* before it opened, and no more once a request budget has passed.           *)
OnlyStragglersCall ==
  [][\A c \in Requests :
       StartsAttempt(c) /\ state' = "open"
         => c \in stale /\ sinceOpened < RequestBudget]_mvars
=============================================================================
