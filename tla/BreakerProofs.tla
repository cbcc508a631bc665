--------------------------- MODULE BreakerProofs ---------------------------
(***************************************************************************)
(* Theorems about Breaker, for every number of concurrent calls and every  *)
(* configuration.                                                          *)
(***************************************************************************)
EXTENDS Breaker, FiniteSetTheorems, TLAPS

LEMMA ConstantTypes ==
  /\ Window \in Nat /\ MinSamples \in Nat /\ ThresholdNum \in Nat
  /\ OpenFor \in Nat /\ Probes \in Nat /\ CallBound \in Nat
  /\ ThresholdDen \in Nat
BY ConfigAssumption

(* Trimming the window keeps outcomes and leaves at most Window of them. *)
LEMMA LastOfType ==
  ASSUME NEW s \in Seq(BOOLEAN), NEW n \in Nat
  PROVE  LastOf(s, n) \in Seq(BOOLEAN) /\ Len(LastOf(s, n)) <= n
<1>1. CASE Len(s) > n
  <2>1. Len(s) - n + 1 \in 1..(Len(s) + 1) /\ Len(s) \in Nat
    BY <1>1
  <2>2. \A i \in (Len(s) - n + 1)..Len(s) : s[i] \in BOOLEAN
    BY <2>1
  <2> QED BY <1>1, <2>1, <2>2 DEF LastOf
<1>2. CASE ~(Len(s) > n)
  BY <1>2 DEF LastOf
<1> QED BY <1>1, <1>2

LEMMA RememberedType ==
  ASSUME outcomes \in Seq(BOOLEAN), NEW failed \in BOOLEAN
  PROVE  Remembered(failed) \in Seq(BOOLEAN) /\ Len(Remembered(failed)) <= Window
<1>1. Append(outcomes, failed) \in Seq(BOOLEAN)
  OBVIOUS
<1> QED BY <1>1, LastOfType, ConstantTypes DEF Remembered

(* The calls in flight are finitely many. *)
LEMMA CallingFinite == IsFiniteSet(Calling) /\ Cardinality(Calling) \in Nat
BY CallsAssumption, FS_Subset, FS_CardinalityType DEF Calling

-----------------------------------------------------------------------------
(* What each step does to the set of calls in flight. *)

LEMMA CallingAfterAdmit ==
  ASSUME TypeOK, NEW c \in Calls, Admit(c)
  PROVE  /\ c \notin Calling
         /\ Calling' = Calling \cup {c}
         /\ Cardinality(Calling') = Cardinality(Calling) + 1
<1>1. c \notin Calling /\ Calling' = Calling \cup {c}
  BY DEF TypeOK, Admit, Calling
<1> QED BY <1>1, CallingFinite, FS_AddElement

LEMMA CallingAfterRecord ==
  ASSUME TypeOK, NEW c \in Calls, NEW r \in Results, Record(c, r)
  PROVE  /\ c \in Calling
         /\ Calling' = Calling \ {c}
         /\ Cardinality(Calling') = Cardinality(Calling) - 1
<1>1. c \in Calling /\ Calling' = Calling \ {c}
  BY DEF TypeOK, Record, Returned, Calling
<1> QED BY <1>1, CallingFinite, FS_RemoveElement

LEMMA CallingAfterOther ==
  ASSUME TypeOK,
         Tick \/ (\E c \in Calls : Refuse(c) \/ Leave(c)) \/ UNCHANGED vars
  PROVE  Calling' = Calling
BY DEF TypeOK, Tick, Elapse, Refuse, Leave, vars, callers, Calling

-----------------------------------------------------------------------------
(* Type correctness and the exact count of slots need one another: inFlight  *)
(* is decremented, and stays in Nat only because it counts the calls.        *)
Counted == TypeOK /\ InFlightExact

LEMMA InitCounted == Init => Counted
<1> SUFFICES ASSUME Init PROVE Counted OBVIOUS
<1>1. TypeOK
  BY ConstantTypes DEF Init, TypeOK, States
<1>2. Calling = {}
  BY DEF Init, Calling
<1> QED BY <1>1, <1>2, FS_EmptySet DEF Init, Counted, InFlightExact

LEMMA NextCounted == Counted /\ [Next]_vars => Counted'
<1> SUFFICES ASSUME Counted, [Next]_vars PROVE Counted'
  OBVIOUS
<1> USE ConstantTypes
<1>0. TypeOK /\ InFlightExact
  BY DEF Counted
<1>1. CASE Tick
  <2>1. TypeOK'
    BY <1>0, <1>1 DEF TypeOK, Tick, Elapse, Calling, States
  <2>2. InFlightExact'
    BY <1>0, <1>1, CallingAfterOther DEF InFlightExact, Tick, Elapse
  <2> QED BY <2>1, <2>2 DEF Counted
<1>2. ASSUME NEW c \in Calls, Admit(c) PROVE Counted'
  <2>1. TypeOK'
    BY <1>0, <1>2 DEF TypeOK, Admit, HalfOpenIfCooled, EnterHalfOpen, States
  <2>2. InFlightExact'
    BY <1>0, <1>2, CallingAfterAdmit DEF InFlightExact, Admit
  <2> QED BY <2>1, <2>2 DEF Counted
<1>3. ASSUME NEW c \in Calls, Refuse(c) PROVE Counted'
  <2>1. TypeOK'
    <3>1. CASE RefuseOpen(c)
      BY <1>0, <1>3, <3>1 DEF TypeOK, Refuse, RefuseOpen, Cooling, circuit, States
    <3>2. CASE RefuseBusy(c)
      BY <1>0, <1>3, <3>2 DEF TypeOK, Refuse, RefuseBusy, HalfOpenIfCooled, EnterHalfOpen, States
    <3> QED BY <1>3, <3>1, <3>2 DEF Refuse
  <2>2. inFlight' = inFlight
    BY <1>3 DEF Refuse, RefuseOpen, RefuseBusy, circuit
  <2>3. InFlightExact'
    BY <1>0, <1>3, <2>2, CallingAfterOther DEF InFlightExact
  <2> QED BY <2>1, <2>3 DEF Counted
<1>4. ASSUME NEW c \in Calls, Leave(c) PROVE Counted'
  <2>1. TypeOK'
    BY <1>0, <1>4 DEF TypeOK, Leave, circuit, States
  <2>2. InFlightExact'
    BY <1>0, <1>4, CallingAfterOther DEF InFlightExact, Leave, circuit
  <2> QED BY <2>1, <2>2 DEF Counted
<1>5. ASSUME NEW c \in Calls, NEW r \in Results, Record(c, r) PROVE Counted'
  <2>1. inFlight' = inFlight - 1 /\ inFlight' \in Nat /\ InFlightExact'
    <3>1. inFlight' = Cardinality(Calling')
      BY <1>0, <1>5, CallingAfterRecord DEF InFlightExact, Record, Returned
    <3>2. Calling' \subseteq Calls
      BY DEF Calling
    <3>3. Cardinality(Calling') \in Nat
      BY <3>2, CallsAssumption, FS_Subset, FS_CardinalityType
    <3> QED BY <3>1, <3>3, <1>5 DEF InFlightExact, Record, Returned
  <2>2. /\ pc' \in [Calls -> {"idle", "calling", "refused"}]
        /\ age' \in [Calls -> 0..CallBound]
        /\ told' \in [Calls -> 0..OpenFor]
    BY <1>0, <1>5 DEF TypeOK, Record, Returned
  <2>3. /\ Remembered(r = "failed") \in Seq(BOOLEAN)
        /\ Len(Remembered(r = "failed")) <= Window
    BY <1>0, RememberedType DEF TypeOK
  <2>4. /\ state' \in States
        /\ outcomes' \in Seq(BOOLEAN) /\ Len(outcomes') <= Window
        /\ sinceOpened' \in 0..OpenFor
        /\ successes' \in Nat
        /\ stale' \subseteq Calls
    <3>0. << >> \in Seq(BOOLEAN) /\ Len(<< >>) <= Window
      OBVIOUS
    <3>1. CASE Ignored(c, r)
      <4>1. UNCHANGED <<state, outcomes, sinceOpened, successes>> /\ stale' = stale \ {c}
        BY <3>1 DEF Ignored
      <4> QED BY <1>0, <4>1 DEF TypeOK
    <3>2. CASE ProbeFailed(c, r) \/ Tripped(c, r)
      <4>1. EnterOpen /\ stale' = Outdated(c)
        BY <3>2 DEF ProbeFailed, Tripped
      <4>2. state' \in States /\ successes' \in Nat /\ sinceOpened' \in 0..OpenFor
        BY <4>1 DEF EnterOpen, States
      <4>3. outcomes' = << >>
        BY <4>1 DEF EnterOpen
      <4>4. stale' \subseteq Calls
        BY <4>1 DEF Outdated
      <4> QED BY <3>0, <4>2, <4>3, <4>4
    <3>3. CASE ProbeSucceeded(c, r)
      <4>1. state' \in States /\ successes' \in Nat /\ sinceOpened' \in 0..OpenFor
        BY <1>0, <3>3 DEF TypeOK, ProbeSucceeded, EnterClosed, States
      <4>2. outcomes' = outcomes \/ outcomes' = << >>
        BY <3>3 DEF ProbeSucceeded, EnterClosed
      <4>3. stale' \subseteq Calls
        BY <1>0, <3>3 DEF TypeOK, ProbeSucceeded
      <4> QED BY <1>0, <3>0, <4>1, <4>2, <4>3 DEF TypeOK
    <3>4. CASE Sampled(c, r)
      BY <1>0, <3>4, <2>3 DEF TypeOK, Sampled
    <3> QED BY <1>5, <3>1, <3>2, <3>3, <3>4 DEF Record
  <2> QED BY <2>1, <2>2, <2>4 DEF Counted, TypeOK
<1>6. CASE UNCHANGED vars
  <2>1. TypeOK'
    BY <1>0, <1>6 DEF TypeOK, vars, circuit, callers
  <2>2. InFlightExact'
    BY <1>0, <1>6, CallingAfterOther DEF InFlightExact, vars, circuit
  <2> QED BY <2>1, <2>2 DEF Counted
<1> QED BY <1>1, <1>2, <1>3, <1>4, <1>5, <1>6 DEF Next

THEOREM AlwaysCounted == Spec => []Counted
BY InitCounted, NextCounted, PTL DEF Spec

(* Type correctness. *)
THEOREM TypeCorrect == Spec => []TypeOK
BY AlwaysCounted, PTL DEF Counted

(* No slot of the half-open circuit leaks or is freed twice. *)
THEOREM SlotsExact == Spec => []InFlightExact
BY AlwaysCounted, PTL DEF Counted

-----------------------------------------------------------------------------
(* Dating calls against the opening. While the circuit is open every call in *)
(* flight predates the opening, so each is at least as old as it; and a      *)
(* refusal of the present opening is not shorter than what is left of it.    *)
Dated ==
  /\ stale \subseteq {c \in Calls : pc[c] # "idle"}
  /\ state = "open" => \A c \in Calling : c \in stale /\ age[c] >= sinceOpened
  /\ state = "open" => \A c \in Calls : pc[c] = "refused" /\ c \notin stale
                                         => told[c] + sinceOpened >= OpenFor

LEMMA InitDated == Init => Dated
BY DEF Init, Dated

LEMMA NextDated == TypeOK /\ Dated /\ [Next]_vars => Dated'
<1> SUFFICES ASSUME TypeOK, Dated, [Next]_vars PROVE Dated'
  OBVIOUS
<1> USE ConstantTypes
<1>1. CASE Tick
  BY <1>1 DEF TypeOK, Dated, Tick, Elapse, Calling
<1>2. ASSUME NEW c \in Calls, Admit(c) PROVE Dated'
  <2>1. state' # "open"
    BY <1>2 DEF Admit, HalfOpenIfCooled, EnterHalfOpen
  <2>2. stale' = stale /\ \A d \in Calls : pc[d] # "idle" => pc'[d] # "idle"
    BY <1>2 DEF TypeOK, Admit
  <2> QED BY <2>1, <2>2 DEF Dated
<1>3. ASSUME NEW c \in Calls, Refuse(c) PROVE Dated'
  <2>1. /\ stale' = stale /\ age' = age
        /\ pc' = [pc EXCEPT ![c] = "refused"]
        /\ c \notin Calling
    BY <1>3 DEF TypeOK, Refuse, Calling
  <2>2. CASE RefuseOpen(c)
    BY <2>1, <2>2 DEF TypeOK, Dated, RefuseOpen, circuit, Calling, Cooling
  <2>3. CASE RefuseBusy(c)
    <3>1. state' # "open"
      BY <2>3 DEF RefuseBusy, HalfOpenIfCooled, EnterHalfOpen
    <3> QED BY <2>1, <3>1 DEF TypeOK, Dated
  <2> QED BY <1>3, <2>2, <2>3 DEF Refuse
<1>4. ASSUME NEW c \in Calls, Leave(c) PROVE Dated'
  BY <1>4 DEF TypeOK, Dated, Leave, circuit, Calling
<1>5. ASSUME NEW c \in Calls, NEW r \in Results, Record(c, r) PROVE Dated'
  <2>1. /\ pc' = [pc EXCEPT ![c] = "idle"] /\ age' = [age EXCEPT ![c] = 0]
        /\ told' = told
    BY <1>5 DEF Record, Returned
  <2>2. CASE ProbeFailed(c, r) \/ Tripped(c, r)
    <3>1. sinceOpened' = 0 /\ stale' = {d \in Calls \ {c} : pc[d] # "idle"}
      BY <2>2 DEF ProbeFailed, Tripped, EnterOpen, Outdated
    <3> QED BY <2>1, <3>1 DEF TypeOK, Dated, Calling
  <2>3. CASE Ignored(c, r) \/ ProbeSucceeded(c, r) \/ Sampled(c, r)
    <3>1. stale' = stale \ {c}
      BY <2>3 DEF Ignored, ProbeSucceeded, Sampled
    <3>2. state' = "open" => state = "open" /\ sinceOpened' = sinceOpened
      BY <2>3 DEF Ignored, ProbeSucceeded, EnterClosed, Sampled
    <3> QED BY <2>1, <3>1, <3>2 DEF TypeOK, Dated, Calling
  <2> QED BY <1>5, <2>2, <2>3 DEF Record
<1>6. CASE UNCHANGED vars
  BY <1>6 DEF Dated, vars, circuit, callers, Calling
<1> QED BY <1>1, <1>2, <1>3, <1>4, <1>5, <1>6 DEF Next

THEOREM AlwaysDated == Spec => []Dated
BY TypeCorrect, InitDated, NextDated, PTL DEF Spec

(* A refused caller that waits as told is not refused by the same opening.   *)
THEOREM AdviceKept == Spec => []AdviceHonest
<1>1. TypeOK /\ Dated => AdviceHonest
  BY ConstantTypes DEF TypeOK, Dated, AdviceHonest, Cooling
<1> QED BY <1>1, TypeCorrect, AlwaysDated, PTL

-----------------------------------------------------------------------------
(* Evidence is fresh whenever the circuit stays open longer than a call may  *)
(* last: then a call older than the opening would have outlived its bound by *)
(* the time the circuit half-opens.                                          *)
LEMMA NextFresh ==
  ASSUME OpenFor > CallBound
  PROVE  TypeOK /\ Dated /\ NoStaleEvidence /\ [Next]_vars => NoStaleEvidence'
<1> SUFFICES ASSUME TypeOK, Dated, NoStaleEvidence, [Next]_vars, state' # "open"
             PROVE  Calling' \cap stale' = {}
  BY DEF NoStaleEvidence
<1> USE ConstantTypes
<1>1. ~Cooling => Calling \cap stale = {}
  BY DEF TypeOK, Dated, NoStaleEvidence, Cooling, Calling
<1>2. CASE Tick
  BY <1>2, CallingAfterOther DEF Tick, Elapse, NoStaleEvidence
<1>3. ASSUME NEW c \in Calls, Admit(c) PROVE Calling' \cap stale' = {}
  <2>1. ~Cooling /\ stale' = stale /\ c \notin stale
    BY <1>3 DEF Admit, Dated
  <2> QED BY <1>1, <1>3, <2>1, CallingAfterAdmit
<1>4. ASSUME NEW c \in Calls, Refuse(c) PROVE Calling' \cap stale' = {}
  <2>1. ~Cooling /\ stale' = stale
    BY <1>4 DEF Refuse, RefuseOpen, RefuseBusy, Cooling, circuit
  <2> QED BY <1>1, <1>4, <2>1, CallingAfterOther
<1>5. ASSUME NEW c \in Calls, Leave(c) PROVE Calling' \cap stale' = {}
  BY <1>5, CallingAfterOther DEF Leave, circuit, NoStaleEvidence
<1>6. ASSUME NEW c \in Calls, NEW r \in Results, Record(c, r)
      PROVE  Calling' \cap stale' = {}
  <2>1. state # "open" /\ stale' \subseteq stale
    BY <1>6 DEF Record, Ignored, ProbeFailed, ProbeSucceeded, Sampled, Tripped, EnterOpen
  <2> QED BY <1>6, <2>1, CallingAfterRecord DEF NoStaleEvidence
<1>7. CASE UNCHANGED vars
  BY <1>7, CallingAfterOther DEF vars, circuit, callers, NoStaleEvidence
<1> QED BY <1>2, <1>3, <1>4, <1>5, <1>6, <1>7 DEF Next

(* No answer from before the opening is ever taken for a probe or for a      *)
(* sample of the recovered vendor.                                           *)
THEOREM EvidenceFresh ==
  ASSUME OpenFor > CallBound
  PROVE  Spec => []NoStaleEvidence
<1>1. Init => NoStaleEvidence
  BY DEF Init, NoStaleEvidence
<1>2. TypeOK /\ Dated /\ NoStaleEvidence /\ [Next]_vars => NoStaleEvidence'
  BY NextFresh
<1> QED BY <1>1, <1>2, TypeCorrect, AlwaysDated, PTL DEF Spec

-----------------------------------------------------------------------------
(* The trickle. Calls the half-open circuit admitted are counted among those *)
(* in flight, and the one that half-opens it finds only older ones there.    *)
LEMMA NextTrickle == Counted /\ Dated /\ ProbesTrickle /\ [Next]_vars => ProbesTrickle'
<1> SUFFICES ASSUME Counted, Dated, ProbesTrickle, [Next]_vars, state' = "halfOpen"
             PROVE  Cardinality(Calling' \ stale') <= Probes
  BY DEF ProbesTrickle
<1> USE ConstantTypes
<1>0. TypeOK /\ inFlight = Cardinality(Calling)
  BY DEF Counted, InFlightExact
<1>1. state = "open" => Calling \ stale = {}
  BY DEF Dated
<1>2. state # "closed" => Cardinality(Calling \ stale) <= Probes
  <2>1. ASSUME state = "open" PROVE Cardinality(Calling \ stale) = 0
    BY <1>1, <2>1, FS_EmptySet, Zenon
  <2>2. state \in {"closed", "open", "halfOpen"}
    BY <1>0 DEF TypeOK, States
  <2> QED BY <2>1, <2>2 DEF ProbesTrickle
<1>3. CASE Tick \/ (\E c \in Calls : Refuse(c) \/ Leave(c)) \/ UNCHANGED vars
  <2>1. Calling' = Calling
    BY <1>0, <1>3, CallingAfterOther
  <2>2. Calling' \ stale' = Calling \ stale
    BY <1>3, <2>1 DEF Tick, Elapse, Refuse, Leave, Calling, vars, callers
  <2>3. state # "closed"
    BY <1>3 DEF Tick, Elapse, Refuse, RefuseOpen, RefuseBusy, HalfOpenIfCooled, Leave,
                vars, circuit
  <2> QED BY <1>2, <2>2, <2>3
<1>4. ASSUME NEW c \in Calls, Admit(c) PROVE Cardinality(Calling' \ stale') <= Probes
  <2>1. state # "closed"
    BY <1>4 DEF Admit, HalfOpenIfCooled
  <2>2. inFlight < Probes
    BY <1>0, <1>4, <2>1 DEF Admit, ProbesBusy, TypeOK
  <2>3. Cardinality(Calling') <= Probes
    BY <1>0, <1>4, <2>2, CallingAfterAdmit DEF TypeOK
  <2>4. IsFiniteSet(Calling')
    BY <1>0, <1>4, CallingAfterAdmit, CallingFinite, FS_AddElement
  <2>5. /\ Cardinality(Calling' \ stale') <= Cardinality(Calling')
        /\ Cardinality(Calling' \ stale') \in Nat /\ Cardinality(Calling') \in Nat
    BY <2>4, FS_Subset, FS_CardinalityType
  <2> QED BY <2>3, <2>5
<1>5. ASSUME NEW c \in Calls, NEW r \in Results, Record(c, r)
      PROVE  Cardinality(Calling' \ stale') <= Probes
  <2>1. state # "closed" /\ stale' = stale \ {c}
    BY <1>5 DEF Record, Ignored, ProbeFailed, ProbeSucceeded, Sampled, Tripped,
                EnterOpen, EnterClosed
  <2>2. Calling' \ stale' = (Calling \ stale) \ {c}
    BY <1>0, <1>5, <2>1, CallingAfterRecord
  <2>3. IsFiniteSet(Calling \ stale)
    BY CallingFinite, FS_Subset
  <2>4. /\ Cardinality(Calling' \ stale') <= Cardinality(Calling \ stale)
        /\ Cardinality(Calling' \ stale') \in Nat /\ Cardinality(Calling \ stale) \in Nat
    BY <2>2, <2>3, FS_Subset, FS_CardinalityType
  <2> QED BY <1>2, <2>1, <2>4
<1> QED BY <1>3, <1>4, <1>5 DEF Next

(* A half-open circuit lets at most Probes new requests through at a time.   *)
THEOREM TrickleKept == Spec => []ProbesTrickle
<1>1. Init => ProbesTrickle
  BY DEF Init, ProbesTrickle
<1> QED BY <1>1, NextTrickle, AlwaysCounted, AlwaysDated, PTL DEF Spec

-----------------------------------------------------------------------------
LEMMA NextWindow == WindowCurrent /\ [Next]_vars => WindowCurrent'
<1> SUFFICES ASSUME WindowCurrent, [Next]_vars PROVE WindowCurrent'
  OBVIOUS
<1>1. \A x, y : state' = x /\ outcomes' = y =>
        (WindowCurrent' <=> IF x = "closed" THEN ~ShouldTrip(y) ELSE y = << >>)
  BY DEF WindowCurrent, ShouldTrip, Failures
<1>2. CASE outcomes' = outcomes /\ (state' = "closed" <=> state = "closed")
  BY <1>1, <1>2 DEF WindowCurrent
<1>3. CASE state' = "open" /\ outcomes' = << >>
  BY <1>1, <1>3
<1>4. CASE state' = "closed" /\ outcomes' = << >>
  <2>1. ~ShouldTrip(<< >>)
    BY DEF ShouldTrip
  <2> QED BY <1>1, <1>4, <2>1
<1>5. CASE \E c \in Calls, r \in Results : Sampled(c, r)
  <2>1. state' = "closed" /\ ~ShouldTrip(outcomes')
    BY <1>5 DEF Sampled
  <2> QED BY <1>1, <2>1
<1>6. ASSUME NEW c \in Calls, NEW r \in Results, Record(c, r) PROVE WindowCurrent'
  <2>1. CASE Ignored(c, r)
    BY <1>2, <2>1 DEF Ignored
  <2>2. CASE ProbeFailed(c, r) \/ Tripped(c, r)
    BY <1>3, <2>2 DEF ProbeFailed, Tripped, EnterOpen
  <2>3. CASE ProbeSucceeded(c, r)
    BY <1>2, <1>4, <2>3 DEF ProbeSucceeded, EnterClosed
  <2>4. CASE Sampled(c, r)
    BY <1>5, <2>4
  <2> QED BY <1>6, <2>1, <2>2, <2>3, <2>4 DEF Record
<1>7. CASE ~\E c \in Calls, r \in Results : Record(c, r)
  BY <1>2, <1>7 DEF Next, vars, circuit, Tick, Elapse, Admit, Refuse, RefuseOpen, RefuseBusy,
                    HalfOpenIfCooled, EnterHalfOpen, Leave
<1> QED BY <1>6, <1>7

(* A closed circuit never keeps a window that should have tripped it, and    *)
(* nothing of one era is carried into the next.                              *)
THEOREM WindowKept == Spec => []WindowCurrent
<1>1. Init => WindowCurrent
  BY DEF Init, WindowCurrent, ShouldTrip
<1> QED BY <1>1, NextWindow, PTL DEF Spec

-----------------------------------------------------------------------------
LEMMA NextSuccesses ==
  ASSUME Probes >= 1
  PROVE  TypeOK /\ SuccessesOfThisTrial /\ [Next]_vars => SuccessesOfThisTrial'
<1> SUFFICES ASSUME TypeOK, SuccessesOfThisTrial, [Next]_vars PROVE SuccessesOfThisTrial'
  OBVIOUS
<1> USE ConstantTypes DEF SuccessesOfThisTrial
<1>1. CASE state' = state /\ successes' = successes
  BY <1>1
<1>2. CASE successes' = 0
  BY <1>2
<1>3. ASSUME NEW c \in Calls, NEW r \in Results, Record(c, r) PROVE SuccessesOfThisTrial'
  <2>1. CASE ProbeSucceeded(c, r)
    BY <2>1 DEF ProbeSucceeded, EnterClosed, TypeOK
  <2>2. CASE Ignored(c, r) \/ ProbeFailed(c, r) \/ Sampled(c, r) \/ Tripped(c, r)
    BY <1>1, <1>2, <2>2 DEF Ignored, ProbeFailed, Sampled, Tripped, EnterOpen
  <2> QED BY <1>3, <2>1, <2>2 DEF Record
<1>4. CASE ~\E c \in Calls, r \in Results : Record(c, r)
  BY <1>1, <1>2, <1>4 DEF Next, vars, circuit, Tick, Elapse, Admit, Refuse, RefuseOpen,
                          RefuseBusy, HalfOpenIfCooled, EnterHalfOpen, Leave
<1> QED BY <1>3, <1>4

(* The successes that close the circuit all belong to one half-open period.  *)
THEOREM SuccessesKept ==
  ASSUME Probes >= 1
  PROVE  Spec => []SuccessesOfThisTrial
<1>1. Init => SuccessesOfThisTrial
  BY DEF Init, SuccessesOfThisTrial
<1>2. TypeOK /\ SuccessesOfThisTrial /\ [Next]_vars => SuccessesOfThisTrial'
  BY NextSuccesses
<1> QED BY <1>1, <1>2, TypeCorrect, PTL DEF Spec
=============================================================================
