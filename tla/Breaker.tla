------------------------------ MODULE Breaker ------------------------------
(***************************************************************************)
(* The circuit breaker of internal/cqappmiddleware/breaker.go, shared by   *)
(* every request of the Middleware.                                        *)
(*                                                                         *)
(* Breaker.Quote runs in one goroutine per request and takes the mutex     *)
(* twice: reject() before the call to the vendor, record() after it.       *)
(* Admit and Refuse are the two results of reject(); Record is record().   *)
(* Between them the call is outside the lock, so any number of other       *)
(* calls can move the circuit.                                             *)
(*                                                                         *)
(* Time is a number of ticks.  The code keeps openedAt and reads only      *)
(* now() - openedAt, compared with OpenFor; sinceOpened is that            *)
(* difference, counted up to OpenFor.                                      *)
(***************************************************************************)
EXTENDS Naturals, Sequences, FiniteSets

CONSTANTS
  Calls,          \* the requests that can be inside Breaker.Quote at once
  Window,         \* BreakerConfig.Window
  MinSamples,     \* BreakerConfig.MinSamples
  ThresholdNum,   \* BreakerConfig.Threshold as a fraction
  ThresholdDen,
  OpenFor,        \* BreakerConfig.OpenFor, in ticks
  Probes,         \* BreakerConfig.Probes
  CallBound       \* how long the wrapped call may last, in ticks: the request
                  \* budget its context carries

ASSUME CallsAssumption  == IsFiniteSet(Calls)
\* Load refuses MinSamples > Window (config.go:124) and nothing else here.
ASSUME ConfigAssumption == /\ {Window, MinSamples, ThresholdNum, OpenFor, Probes, CallBound}
                                \subseteq Nat
                           /\ ThresholdDen \in Nat \ {0}
                           /\ MinSamples <= Window

VARIABLES
  state,        \* Breaker.state
  outcomes,     \* Breaker.outcomes: TRUE is a failure, most recent last
  sinceOpened,  \* now() - openedAt, counted up to OpenFor
  successes,    \* Breaker.successes
  inFlight,     \* Breaker.inFlight
  pc,           \* where each request is in Breaker.Quote
  age,          \* ticks since each call was admitted
  told,         \* what is left of the wait a refused caller was given
  stale         \* history: calls and refusals older than the last opening

circuit == <<state, outcomes, sinceOpened, successes, inFlight>>
callers == <<pc, age, told, stale>>
vars    == <<circuit, callers>>

States == {"closed", "open", "halfOpen"}

\* What err tells record(): nil, ErrRequestFault, or anything else.
Results == {"ok", "fault", "failed"}

Calling == {c \in Calls : pc[c] = "calling"}

Init ==
  /\ state = "closed"
  /\ outcomes = << >>
  /\ sinceOpened = OpenFor
  /\ successes = 0
  /\ inFlight = 0
  /\ pc = [c \in Calls |-> "idle"]
  /\ age = [c \in Calls |-> 0]
  /\ told = [c \in Calls |-> 0]
  /\ stale = {}

-----------------------------------------------------------------------------
(* enter(), one operator per target state. *)

\* Mutant: the window survives the opening.
EnterOpenKeepingWindow ==
  /\ state' = "open"
  /\ successes' = 0
  /\ sinceOpened' = 0
  /\ UNCHANGED outcomes

EnterOpen ==
  /\ state' = "open"
  /\ successes' = 0
  /\ sinceOpened' = 0
  /\ outcomes' = << >>

\* Mutant: the count of successes survives the closing.
EnterClosedKeepingCount ==
  /\ state' = "closed"
  /\ outcomes' = << >>
  /\ UNCHANGED <<sinceOpened, successes>>

EnterClosed ==
  /\ state' = "closed"
  /\ successes' = 0
  /\ outcomes' = << >>
  /\ UNCHANGED sinceOpened

EnterHalfOpen ==
  /\ state' = "halfOpen"
  /\ successes' = 0
  /\ UNCHANGED <<outcomes, sinceOpened>>

(* reject(). An open circuit whose time is up becomes half-open first, and   *)
(* the decision is taken in the state it is then in: a caller can be the one *)
(* that half-opens the circuit and still be refused.                         *)

\* Mutant: half-open one tick early.
CoolingOneTickLess == state = "open" /\ sinceOpened + 1 < OpenFor

Cooling == state = "open" /\ sinceOpened < OpenFor

\* Mutant: the cooled circuit lets requests through without half-opening.
StayOpenWhenCooled == UNCHANGED <<state, outcomes, sinceOpened, successes>>

HalfOpenIfCooled ==
  IF state = "open" THEN EnterHalfOpen
                    ELSE UNCHANGED <<state, outcomes, sinceOpened, successes>>

\* Mutant: one probe too many.
ProbesBusyOffByOne == state # "closed" /\ inFlight > Probes
ProbesBusy == state # "closed" /\ inFlight >= Probes

Admit(c) ==
  /\ pc[c] = "idle"
  /\ ~Cooling
  /\ ~ProbesBusy
  /\ HalfOpenIfCooled
  /\ inFlight' = inFlight + 1
  /\ pc' = [pc EXCEPT ![c] = "calling"]
  /\ UNCHANGED <<age, told, stale>>

\* Mutant: the time already spent is given as the time to wait.
RefuseOpenForElapsed(c) ==
  /\ Cooling
  /\ told' = [told EXCEPT ![c] = sinceOpened]
  /\ UNCHANGED circuit

RefuseOpen(c) ==
  /\ Cooling
  /\ told' = [told EXCEPT ![c] = OpenFor - sinceOpened]
  /\ UNCHANGED circuit

RefuseBusy(c) ==
  /\ ~Cooling
  /\ ProbesBusy
  /\ HalfOpenIfCooled
  /\ told' = [told EXCEPT ![c] = OpenFor]
  /\ UNCHANGED inFlight

Refuse(c) ==
  /\ pc[c] = "idle"
  /\ RefuseOpen(c) \/ RefuseBusy(c)
  /\ pc' = [pc EXCEPT ![c] = "refused"]
  /\ UNCHANGED <<age, stale>>

\* The refused caller goes away, or is about to come back.
Leave(c) ==
  /\ pc[c] = "refused"
  /\ pc' = [pc EXCEPT ![c] = "idle"]
  /\ told' = [told EXCEPT ![c] = 0]
  /\ stale' = stale \ {c}
  /\ UNCHANGED <<circuit, age>>

-----------------------------------------------------------------------------
(* record(). *)

LastOf(s, n) == IF Len(s) > n THEN SubSeq(s, Len(s) - n + 1, Len(s)) ELSE s

Failures(s) == Cardinality({i \in DOMAIN s : s[i]})

\* Mutant: more than MinSamples outcomes are needed.
ShouldTripLate(s) ==
  /\ Len(s) > MinSamples
  /\ Failures(s) * ThresholdDen >= ThresholdNum * Len(s)

\* failures / len >= Threshold. An empty window divides zero by zero, and a
\* NaN is not >= anything.
ShouldTrip(s) ==
  /\ Len(s) >= MinSamples
  /\ Len(s) > 0
  /\ Failures(s) * ThresholdDen >= ThresholdNum * Len(s)

\* Mutant: the window is never trimmed.
RememberedAll(failed) == Append(outcomes, failed)
Remembered(failed) == LastOf(Append(outcomes, failed), Window)

\* Mutant: record() leaves early when the circuit is open, slot and all.
ReturnedUnlessOpen(c) ==
  /\ inFlight' = IF state = "open" THEN inFlight ELSE inFlight - 1
  /\ pc' = [pc EXCEPT ![c] = "idle"]
  /\ age' = [age EXCEPT ![c] = 0]
  /\ UNCHANGED told

Returned(c) ==
  /\ inFlight' = inFlight - 1
  /\ pc' = [pc EXCEPT ![c] = "idle"]
  /\ age' = [age EXCEPT ![c] = 0]
  /\ UNCHANGED told

\* Every other request still inside Quote, or holding a refusal, now dates
\* from before the opening.
Outdated(c) == {d \in Calls \ {c} : pc[d] # "idle"}

Ignored(c, r) ==
  /\ r = "fault" \/ state = "open"
  /\ stale' = stale \ {c}
  /\ UNCHANGED <<state, outcomes, sinceOpened, successes>>

ProbeFailed(c, r) ==
  /\ r = "failed" /\ state = "halfOpen"
  /\ EnterOpen
  /\ stale' = Outdated(c)

ProbeSucceeded(c, r) ==
  /\ r = "ok" /\ state = "halfOpen"
  /\ stale' = stale \ {c}
  /\ IF successes + 1 >= Probes
     THEN EnterClosed
     ELSE /\ successes' = successes + 1
          /\ UNCHANGED <<state, outcomes, sinceOpened>>

Sampled(c, r) ==
  /\ r # "fault" /\ state = "closed"
  /\ ~ShouldTrip(Remembered(r = "failed"))
  /\ outcomes' = Remembered(r = "failed")
  /\ stale' = stale \ {c}
  /\ UNCHANGED <<state, sinceOpened, successes>>

Tripped(c, r) ==
  /\ r # "fault" /\ state = "closed"
  /\ ShouldTrip(Remembered(r = "failed"))
  /\ EnterOpen
  /\ stale' = Outdated(c)

Record(c, r) ==
  /\ pc[c] = "calling"
  /\ Returned(c)
  /\ \/ Ignored(c, r)
     \/ ProbeFailed(c, r)
     \/ ProbeSucceeded(c, r)
     \/ Sampled(c, r)
     \/ Tripped(c, r)

-----------------------------------------------------------------------------
(* One tick of the clock. *)
Elapse ==
  /\ age' = [c \in Calls |-> IF pc[c] = "calling" THEN age[c] + 1 ELSE 0]
  /\ sinceOpened' = IF sinceOpened < OpenFor THEN sinceOpened + 1 ELSE sinceOpened
  /\ told' = [c \in Calls |-> IF told[c] > 0 THEN told[c] - 1 ELSE 0]
  /\ UNCHANGED <<state, outcomes, successes, inFlight, pc, stale>>

(* The context of a call ends it at CallBound, so time does not pass while a *)
(* call that old has yet to return.                                          *)
Tick == (\A c \in Calling : age[c] < CallBound) /\ Elapse

Next ==
  \/ Tick
  \/ \E c \in Calls : Admit(c) \/ Refuse(c) \/ Leave(c)
  \/ \E c \in Calls, r \in Results : Record(c, r)

Spec == Init /\ [][Next]_vars

-----------------------------------------------------------------------------
(* Every variable has its type. The counters never leave their ranges, the   *)
(* window never outgrows Window, and nobody outlives the call bound.         *)
TypeOK ==
  /\ state \in States
  /\ outcomes \in Seq(BOOLEAN)
  /\ Len(outcomes) <= Window
  /\ sinceOpened \in 0..OpenFor
  /\ successes \in Nat
  /\ inFlight \in Nat
  /\ pc \in [Calls -> {"idle", "calling", "refused"}]
  /\ age \in [Calls -> 0..CallBound]
  /\ told \in [Calls -> 0..OpenFor]
  /\ stale \subseteq Calls

(* inFlight is exactly the number of requests between reject() and record(). *)
(* The early returns of record() (request fault, reopened circuit) and the   *)
(* refusals of reject() leak no slot and free none twice: a leak would leave *)
(* a half-open circuit refusing every probe for ever.                        *)
InFlightExact == inFlight = Cardinality(Calling)

(* "Probes are a trickle" (breaker.go:98): a half-open circuit lets at most   *)
(* Probes requests through at a time, however many callers arrive together   *)
(* when the time is up. Requests older than the opening are not probes.      *)
ProbesTrickle == state = "halfOpen" => Cardinality(Calling \ stale) <= Probes

(* Once the circuit has left open, no call that began before it opened is    *)
(* still out: so no late answer from the outage can be taken for a probe, or *)
(* for a sample of the recovered vendor. The code has no tag on a call that  *)
(* would tell; it holds because OpenFor exceeds the request budget.          *)
NoStaleEvidence == state # "open" => Calling \cap stale = {}

(* A refused caller that waits as long as reject() said is not refused by    *)
(* the same opening again.                                                   *)
AdviceHonest ==
  \A c \in Calls : pc[c] = "refused" /\ told[c] = 0 /\ c \notin stale => ~Cooling

(* A closed circuit never sits on a window that should have tripped it, and  *)
(* a circuit that is not closed remembers no outcome of the previous era     *)
(* (breaker.go:170-172).                                                     *)
WindowCurrent == IF state = "closed" THEN ~ShouldTrip(outcomes) ELSE outcomes = << >>

(* Successes that close the circuit are consecutive and of one half-open     *)
(* period: a count below Probes exists in half-open only.                    *)
SuccessesOfThisTrial == IF state = "halfOpen" THEN successes < Probes ELSE successes = 0

=============================================================================
