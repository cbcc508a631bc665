-------------------------- MODULE MiddlewareProofs --------------------------
(***************************************************************************)
(* Theorems about Retrier, for any number of requests and any configuration *)
(* Load accepts, and about the composition: the breaker around the retrier *)
(* is the breaker of Breaker, the retrier in it the retrier of Retrier.    *)
(*                                                                         *)
(* The retrier first: types, then three safety properties that speak of    *)
(* the moment an attempt is made and are not inductive. Each is             *)
(* strengthened with what the sleep before the attempt, or the result it    *)
(* retries, already guarantees. The composition rests on that invariant.   *)
(***************************************************************************)
EXTENDS Middleware, FiniteSetTheorems, TLAPS

-----------------------------------------------------------------------------
(* What the pieces of the loop return. *)

LEMMA Parameters ==
  /\ Attempts \in Nat /\ Cap \in Nat /\ MinAttemptBudget \in Nat
  /\ VendorTimeout \in Nat /\ RequestBudget \in Nat
  /\ Attempts >= 1
  /\ \A wait \in VendorWaits : wait \in Nat
BY RetrierAssumption

LEMMA Constructors ==
  /\ NoError             = [code |-> "NONE", status |-> 200, marker |-> "none", retryAfter |-> 0]
  /\ UpstreamUnavailable =
       [code |-> "UPSTREAM_UNAVAILABLE", status |-> 502, marker |-> "none", retryAfter |-> 0]
  /\ UpstreamContract    =
       [code |-> "UPSTREAM_CONTRACT", status |-> 502, marker |-> "none", retryAfter |-> 0]
  /\ UpstreamTimeout     =
       [code |-> "UPSTREAM_TIMEOUT", status |-> 504, marker |-> "none", retryAfter |-> 0]
BY DEF NoError, UpstreamUnavailable, UpstreamContract, UpstreamTimeout, HttpError

\* What translate() returns is an error of the type. One that is retried says
\* that the handler has not run, and carries the wait the vendor asked for.
LEMMA TranslateResult ==
  ASSUME NEW status \in VendorStatuses, NEW wait \in VendorWaits, NEW usable \in BOOLEAN,
         wait > 0 => status = 429
  PROVE  /\ Translate(status, wait, usable) \in Errors
         /\ Translate(status, wait, usable).marker = "transient" => status \notin {201, 500}
         /\ Translate(status, wait, usable).retryAfter = wait
<1>1. wait \in Nat
  BY RetrierAssumption
<1>2. CASE status = 201
  BY <1>1, <1>2, Constructors DEF Translate, Decode, Errors, Markers
<1>3. CASE status = 429
  <2> DEFINE limited == [code |-> "UPSTREAM_UNAVAILABLE", status |-> 502,
                         marker |-> "transient", retryAfter |-> wait]
  <2>1. [UpstreamUnavailable EXCEPT !.retryAfter = wait]
          = [code |-> "UPSTREAM_UNAVAILABLE", status |-> 502, marker |-> "none", retryAfter |-> wait]
    BY Constructors
  <2>2. Translate(status, wait, usable) = limited
    <3>1. Translate(status, wait, usable) = Transient([UpstreamUnavailable EXCEPT !.retryAfter = wait])
      BY <1>3 DEF Translate
    <3>2. Transient([code |-> "UPSTREAM_UNAVAILABLE", status |-> 502, marker |-> "none",
                     retryAfter |-> wait]) = limited
      BY DEF Transient
    <3> QED BY <2>1, <3>1, <3>2
  <2>3. limited \in Errors
    BY DEF Errors, Markers
  <2> QED BY <1>3, <2>2, <2>3
<1>4. CASE status \in {502, 503, 504}
  BY <1>1, <1>4, Constructors DEF Translate, Transient, Errors, Markers
<1>5. CASE status \in {401, 403, 500}
  BY <1>1, <1>5, Constructors DEF Translate, Errors, Markers
<1>6. CASE status = 400
  BY <1>1, <1>6, Constructors DEF Translate, RequestFault, Errors, Markers
<1> QED BY <1>2, <1>3, <1>4, <1>5, <1>6 DEF VendorStatuses

LEMMA TransportResult ==
  ASSUME NEW cause \in {"deadline", "canceled", "network"}, NEW late \in BOOLEAN
  PROVE  /\ TransportError(cause, late) \in Errors
         /\ TransportError(cause, late).retryAfter = 0
BY Constructors DEF TransportError, Transient, Errors, Markers

LEMMA CanceledNotRetried == TransportError("canceled", FALSE).marker # "transient"
BY Constructors DEF TransportError

LEMMA NoErrorTyped == NoError \in Errors
BY Constructors DEF Errors, Markers

LEMMA BackoffsCover ==
  ASSUME NEW n \in Nat, NEW e \in Errors, NEW delay \in Backoffs(n, e)
  PROVE  delay \in Nat /\ delay >= e.retryAfter
<1>1. e.retryAfter \in Nat
  BY Parameters DEF Errors
<1>2. PICK d \in Jitter(n) : delay = IF e.retryAfter > d THEN e.retryAfter ELSE d
  BY DEF Backoffs
<1>3. d \in Nat
  BY <1>2, Parameters DEF Jitter
<1> QED BY <1>1, <1>2, <1>3

-----------------------------------------------------------------------------
(* The inductive invariant. *)

\* Quotes made are accounted for: during an attempt by the failures before it
\* and its own handler, before the next attempt by the failures alone.
Accounted(c) ==
  /\ stage[c] \in {"idle", "returning"} => made[c] <= 1 + timeouts[c] + resets[c]
  /\ stage[c] = "attempt" => made[c] <= timeouts[c] + resets[c] + (IF handled[c] THEN 1 ELSE 0)
  /\ stage[c] = "sleep" => made[c] <= timeouts[c] + resets[c]

\* A sleep leaves room for the attempt after it.
Budgeted(c) ==
  /\ stage[c] = "sleep" => used[c] + sleepLeft[c] + MinAttemptBudget < RequestBudget
  /\ stage[c] = "attempt" /\ attempt[c] > 1 /\ attemptAge[c] = 0
       => used[c] + MinAttemptBudget < RequestBudget

\* A sleep is at least as long as the vendor asked, and ends before a retry.
Patient(c) ==
  /\ stage[c] \in {"idle", "attempt"} => asked[c] = 0
  /\ stage[c] = "sleep" => asked[c] <= sleepLeft[c]

\* A sleeping request has an attempt to come.
Hopeful(c) == stage[c] = "sleep" => attempt[c] + 1 <= Attempts

Sound(c) == Accounted(c) /\ Budgeted(c) /\ Patient(c) /\ Hopeful(c)

IInv == RetrierTypeOK /\ \A c \in Requests : Sound(c)

LEMMA InitSound == RetrierInit => IInv
BY Parameters, NoErrorTyped
   DEF RetrierInit, IInv, RetrierTypeOK, Sound, Accounted, Budgeted, Patient, Hopeful

\* How an attempt with the result e can go on.
Returned(c) ==
  /\ stage' = [stage EXCEPT ![c] = "returning"]
  /\ UNCHANGED <<attempt, sleepLeft, handled>>

Retried(c) ==
  /\ attempt[c] + 1 <= Attempts
  /\ used[c] + MinAttemptBudget < RequestBudget
  /\ stage' = [stage EXCEPT ![c] = "attempt"]
  /\ attempt' = [attempt EXCEPT ![c] = @ + 1]
  /\ sleepLeft' = [sleepLeft EXCEPT ![c] = 0]
  /\ handled' = [handled EXCEPT ![c] = FALSE]

PutToSleep(c, delay) ==
  /\ attempt[c] + 1 <= Attempts
  /\ used[c] + delay + MinAttemptBudget < RequestBudget
  /\ stage' = [stage EXCEPT ![c] = "sleep"]
  /\ sleepLeft' = [sleepLeft EXCEPT ![c] = delay]
  /\ UNCHANGED <<attempt, handled>>

LEMMA AfterAttemptCases ==
  ASSUME RetrierTypeOK, NEW c \in Requests, NEW e \in Errors, AfterAttempt(c, e)
  PROVE  /\ err' = [err EXCEPT ![c] = e]
         /\ attemptAge' = [attemptAge EXCEPT ![c] = 0]
         /\ used' = used /\ made' = made
         /\ \/ Returned(c)
            \/ e.marker = "transient" /\ e.retryAfter = 0 /\ Retried(c)
            \/ /\ e.marker = "transient"
               /\ \E delay \in Nat : delay >= e.retryAfter /\ PutToSleep(c, delay)
<1>1. err' = [err EXCEPT ![c] = e] /\ used' = used /\ made' = made
  BY DEF AfterAttempt
<1>2. ASSUME Return(c)
      PROVE  attemptAge' = [attemptAge EXCEPT ![c] = 0] /\ Returned(c)
  BY <1>2 DEF Return, Returned
<1>3. CASE ~Retryable(c, e)
  BY <1>1, <1>2, <1>3 DEF AfterAttempt
<1>4. CASE Retryable(c, e)
  <2>1. PICK delay \in Backoffs(attempt[c], e) :
          IF WorthWaiting(c, delay) THEN Backoff(c, delay) ELSE Return(c)
    BY <1>4 DEF AfterAttempt
  <2>2. attempt[c] \in 0..Attempts /\ used[c] \in 0..RequestBudget
    BY DEF RetrierTypeOK
  <2>3. delay \in Nat /\ delay >= e.retryAfter /\ e.retryAfter \in Nat
    BY <2>2, BackoffsCover, Parameters DEF Errors
  <2>4. e.marker = "transient" /\ attempt[c] + 1 <= Attempts
    BY <1>4, <2>2, Parameters DEF Retryable
  <2>5. CASE ~WorthWaiting(c, delay)
    BY <1>1, <1>2, <2>1, <2>5
  <2>6. CASE WorthWaiting(c, delay)
    <3>1. used[c] + delay + MinAttemptBudget < RequestBudget
      BY <2>2, <2>3, <2>6, Parameters DEF WorthWaiting
    <3>2. CASE delay = 0
      <4>1. CallAgain(c)
        BY <2>1, <2>6, <3>2 DEF Backoff
      <4>2. Retried(c) /\ attemptAge' = [attemptAge EXCEPT ![c] = 0]
        BY <2>2, <2>4, <3>1, <3>2, <4>1, Parameters DEF CallAgain, Retried
      <4> QED BY <1>1, <2>3, <2>4, <3>2, <4>2
    <3>3. CASE delay # 0
      <4>1. PutToSleep(c, delay) /\ attemptAge' = [attemptAge EXCEPT ![c] = 0]
        BY <2>1, <2>4, <2>6, <3>1, <3>3 DEF Backoff, PutToSleep
      <4> QED BY <1>1, <2>3, <2>4, <4>1
    <3> QED BY <3>2, <3>3
  <2> QED BY <2>5, <2>6
<1> QED BY <1>3, <1>4

\* An attempt that ends, whatever ended it, leaves the invariant when its
\* result accounts for what the vendor did and carries the wait it asked for.
LEMMA AttemptEnds ==
  ASSUME IInv, NEW c \in Requests, NEW e \in Errors, stage[c] = "attempt",
         AfterAttempt(c, e), gone' = gone,
         timeouts' \in [Requests -> Nat], resets' \in [Requests -> Nat],
         asked' \in [Requests -> Nat],
         \A d \in Requests \ {c} :
           timeouts'[d] = timeouts[d] /\ resets'[d] = resets[d] /\ asked'[d] = asked[d],
         made[c] <= 1 + timeouts'[c] + resets'[c],
         e.marker = "transient" => made[c] <= timeouts'[c] + resets'[c],
         asked'[c] = e.retryAfter
  PROVE  IInv'
<1> USE DEF IInv
<1>1. /\ err' = [err EXCEPT ![c] = e]
      /\ attemptAge' = [attemptAge EXCEPT ![c] = 0]
      /\ used' = used /\ made' = made
      /\ \/ Returned(c)
         \/ e.marker = "transient" /\ e.retryAfter = 0 /\ Retried(c)
         \/ /\ e.marker = "transient"
            /\ \E delay \in Nat : delay >= e.retryAfter /\ PutToSleep(c, delay)
  BY AfterAttemptCases
<1>2. e.retryAfter \in Nat
  BY Parameters DEF Errors
<1>3. RetrierTypeOK'
  <2>1. CASE Returned(c)
    BY <1>1, <2>1, Parameters DEF RetrierTypeOK, Returned
  <2>2. CASE Retried(c)
    BY <1>1, <2>2, Parameters DEF RetrierTypeOK, Retried
  <2>3. CASE \E delay \in Nat : PutToSleep(c, delay)
    BY <1>1, <2>3, Parameters DEF RetrierTypeOK, PutToSleep
  <2> QED BY <1>1, <2>1, <2>2, <2>3
<1>4. ASSUME NEW d \in Requests, d # c
      PROVE  Sound(d)'
  <2>1. /\ stage'[d] = stage[d] /\ attempt'[d] = attempt[d] /\ used'[d] = used[d]
        /\ attemptAge'[d] = attemptAge[d] /\ sleepLeft'[d] = sleepLeft[d]
        /\ handled'[d] = handled[d] /\ made'[d] = made[d]
        /\ timeouts'[d] = timeouts[d] /\ resets'[d] = resets[d] /\ asked'[d] = asked[d]
    BY <1>1, <1>4 DEF RetrierTypeOK, Returned, Retried, PutToSleep
  <2> QED BY <2>1 DEF Sound, Accounted, Budgeted, Patient, Hopeful
<1>5. Sound(c)'
  <2>1. CASE Returned(c)
    <3>1. stage'[c] = "returning" /\ made'[c] = made[c]
      BY <1>1, <2>1 DEF Returned, RetrierTypeOK
    <3> QED BY <3>1 DEF Sound, Accounted, Budgeted, Patient, Hopeful
  <2>2. CASE e.marker = "transient" /\ e.retryAfter = 0 /\ Retried(c)
    <3>1. /\ stage'[c] = "attempt" /\ made'[c] = made[c] /\ ~handled'[c]
          /\ used'[c] + MinAttemptBudget < RequestBudget
      BY <1>1, <2>2 DEF Retried, RetrierTypeOK
    <3>2. made[c] \in Nat /\ timeouts'[c] \in Nat /\ resets'[c] \in Nat
      BY DEF RetrierTypeOK
    <3> QED BY <2>2, <3>1, <3>2 DEF Sound, Accounted, Budgeted, Patient, Hopeful
  <2>3. CASE /\ e.marker = "transient"
             /\ \E delay \in Nat : delay >= e.retryAfter /\ PutToSleep(c, delay)
    <3>1. PICK delay \in Nat : delay >= e.retryAfter /\ PutToSleep(c, delay)
      BY <2>3
    <3>2. /\ stage'[c] = "sleep" /\ made'[c] = made[c] /\ sleepLeft'[c] = delay
          /\ used'[c] + delay + MinAttemptBudget < RequestBudget
          /\ attempt'[c] + 1 <= Attempts
      BY <1>1, <3>1 DEF PutToSleep, RetrierTypeOK
    <3> QED BY <2>3, <3>1, <3>2, <1>2 DEF Sound, Accounted, Budgeted, Patient, Hopeful
  <2> QED BY <1>1, <2>1, <2>2, <2>3
<1> QED BY <1>3, <1>4, <1>5

-----------------------------------------------------------------------------
(* Every step keeps it. *)

LEMMA RespondedKeeps ==
  ASSUME IInv, NEW c \in Requests, Responded(c)  PROVE IInv'
<1>1. PICK status \in VendorStatuses, wait \in VendorWaits, usable \in BOOLEAN :
        /\ status = 201 => handled[c]
        /\ status \notin {201, 500} => ~handled[c]
        /\ wait > 0 => status = 429
        /\ usable => status = 201
        /\ asked' = [asked EXCEPT ![c] = wait]
        /\ AfterAttempt(c, Translate(status, wait, usable))
  BY Zenon DEF Responded
<1> DEFINE e == Translate(status, wait, usable)
<1>2. /\ e \in Errors /\ e.retryAfter = wait
      /\ e.marker = "transient" => status \notin {201, 500}
  BY <1>1, TranslateResult
<1>3. stage[c] = "attempt" /\ gone' = gone /\ timeouts' = timeouts /\ resets' = resets
  BY DEF Responded
<1>4. wait \in Nat
  BY Parameters
<1>5. asked' \in [Requests -> Nat] /\ asked'[c] = wait /\ \A d \in Requests \ {c} : asked'[d] = asked[d]
  BY <1>1, <1>4 DEF IInv, RetrierTypeOK
<1>6. made[c] \in Nat /\ timeouts[c] \in Nat /\ resets[c] \in Nat /\ handled[c] \in BOOLEAN
  BY DEF IInv, RetrierTypeOK
<1>7. made[c] <= timeouts[c] + resets[c] + (IF handled[c] THEN 1 ELSE 0)
  BY <1>3 DEF IInv, Sound, Accounted
<1>8. made[c] <= 1 + timeouts'[c] + resets'[c]
  BY <1>3, <1>6, <1>7
<1>9. e.marker = "transient" => made[c] <= timeouts'[c] + resets'[c]
  BY <1>1, <1>2, <1>3, <1>6, <1>7
<1>10. timeouts' \in [Requests -> Nat] /\ resets' \in [Requests -> Nat]
  BY <1>3 DEF IInv, RetrierTypeOK
<1>11. AfterAttempt(c, e)
  BY <1>1
<1> HIDE DEF e
<1> QED BY <1>2, <1>3, <1>5, <1>8, <1>9, <1>10, <1>11, AttemptEnds

LEMMA ExpiredKeeps ==
  ASSUME IInv, NEW c \in Requests, Expired(c)  PROVE IInv'
<1> DEFINE e == TransportError("deadline", used[c] >= RequestBudget)
<1>1. /\ stage[c] = "attempt" /\ gone' = gone /\ resets' = resets /\ asked' = asked
      /\ timeouts' = [timeouts EXCEPT ![c] = @ + 1]
      /\ AfterAttempt(c, e)
  BY DEF Expired
<1>2. e \in Errors /\ e.retryAfter = 0
  <2>1. (used[c] >= RequestBudget) \in BOOLEAN
    OBVIOUS
  <2> QED BY <2>1, TransportResult, Zenon
<1>3. made[c] \in Nat /\ timeouts[c] \in Nat /\ resets[c] \in Nat /\ handled[c] \in BOOLEAN
  BY DEF IInv, RetrierTypeOK
<1>4. /\ timeouts' \in [Requests -> Nat] /\ timeouts'[c] = timeouts[c] + 1
      /\ resets' \in [Requests -> Nat] /\ asked' \in [Requests -> Nat]
      /\ \A d \in Requests \ {c} : timeouts'[d] = timeouts[d]
  BY <1>1 DEF IInv, RetrierTypeOK
<1>5. made[c] <= timeouts[c] + resets[c] + (IF handled[c] THEN 1 ELSE 0) /\ asked[c] = 0
  BY <1>1 DEF IInv, Sound, Accounted, Patient
<1>6. made[c] <= timeouts'[c] + resets'[c]
  BY <1>1, <1>3, <1>4, <1>5
<1>7. made[c] <= 1 + timeouts'[c] + resets'[c]
  BY <1>1, <1>3, <1>4, <1>6
<1> HIDE DEF e
<1> QED BY <1>1, <1>2, <1>4, <1>5, <1>6, <1>7, AttemptEnds

LEMMA CanceledKeeps ==
  ASSUME IInv, NEW c \in Requests, Canceled(c)  PROVE IInv'
<1> DEFINE e == TransportError("canceled", FALSE)
<1>1. /\ stage[c] = "attempt" /\ gone' = gone /\ UNCHANGED history
      /\ AfterAttempt(c, e)
  BY DEF Canceled
<1>2. e \in Errors /\ e.retryAfter = 0 /\ e.marker # "transient"
  BY TransportResult, CanceledNotRetried
<1>3. made[c] \in Nat /\ timeouts[c] \in Nat /\ resets[c] \in Nat /\ handled[c] \in BOOLEAN
  BY DEF IInv, RetrierTypeOK
<1>4. /\ timeouts' = timeouts /\ resets' = resets /\ asked' = asked
      /\ timeouts' \in [Requests -> Nat] /\ resets' \in [Requests -> Nat]
      /\ asked' \in [Requests -> Nat]
  BY <1>1 DEF IInv, RetrierTypeOK, history
<1>5. made[c] <= timeouts[c] + resets[c] + (IF handled[c] THEN 1 ELSE 0) /\ asked[c] = 0
  BY <1>1 DEF IInv, Sound, Accounted, Patient
<1>6. made[c] <= 1 + timeouts'[c] + resets'[c]
  BY <1>3, <1>4, <1>5
<1> HIDE DEF e
<1> QED BY <1>1, <1>2, <1>4, <1>5, <1>6, AttemptEnds

LEMMA NetworkFailsKeeps ==
  ASSUME IInv, NEW c \in Requests, NetworkFails(c)  PROVE IInv'
<1> DEFINE e == TransportError("network", FALSE)
<1>1. /\ stage[c] = "attempt" /\ gone' = gone /\ timeouts' = timeouts /\ asked' = asked
      /\ resets' = [resets EXCEPT ![c] = IF handled[c] THEN @ + 1 ELSE @]
      /\ AfterAttempt(c, e)
  BY DEF NetworkFails
<1>2. e \in Errors /\ e.retryAfter = 0
  BY TransportResult
<1>3. made[c] \in Nat /\ timeouts[c] \in Nat /\ resets[c] \in Nat /\ handled[c] \in BOOLEAN
  BY DEF IInv, RetrierTypeOK
<1>4. /\ resets' \in [Requests -> Nat]
      /\ resets'[c] = IF handled[c] THEN resets[c] + 1 ELSE resets[c]
      /\ timeouts' \in [Requests -> Nat] /\ asked' \in [Requests -> Nat]
      /\ \A d \in Requests \ {c} : resets'[d] = resets[d]
  BY <1>1 DEF IInv, RetrierTypeOK
<1>5. made[c] <= timeouts[c] + resets[c] + (IF handled[c] THEN 1 ELSE 0) /\ asked[c] = 0
  BY <1>1 DEF IInv, Sound, Accounted, Patient
<1>6. made[c] <= timeouts'[c] + resets'[c]
  BY <1>1, <1>3, <1>4, <1>5
<1>7. made[c] <= 1 + timeouts'[c] + resets'[c]
  BY <1>1, <1>3, <1>4, <1>6
<1> HIDE DEF e
<1> QED BY <1>1, <1>2, <1>4, <1>5, <1>6, <1>7, AttemptEnds

LEMMA VendorCreatesKeeps ==
  ASSUME IInv, NEW c \in Requests, VendorCreates(c)  PROVE IInv'
<1>1. /\ stage[c] = "attempt" /\ ~handled[c]
      /\ handled' = [handled EXCEPT ![c] = TRUE]
      /\ made' = [made EXCEPT ![c] = @ + 1]
      /\ UNCHANGED <<stage, attempt, err, used, attemptAge, sleepLeft, gone, timeouts, resets, asked>>
  BY DEF VendorCreates, loop, history
<1>2. RetrierTypeOK'
  BY <1>1 DEF IInv, RetrierTypeOK
<1>3. ASSUME NEW d \in Requests  PROVE Sound(d)'
  <2>1. made[d] \in Nat /\ timeouts[d] \in Nat /\ resets[d] \in Nat /\ Sound(d)
    BY DEF IInv, RetrierTypeOK
  <2>2. CASE d = c
    <3>1. made'[d] = made[d] + 1 /\ handled'[d]
      BY <1>1, <2>2 DEF IInv, RetrierTypeOK
    <3> QED BY <1>1, <2>1, <2>2, <3>1 DEF Sound, Accounted, Budgeted, Patient, Hopeful
  <2>3. CASE d # c
    <3>1. made'[d] = made[d] /\ handled'[d] = handled[d]
      BY <1>1, <2>3 DEF IInv, RetrierTypeOK
    <3> QED BY <1>1, <2>1, <3>1 DEF Sound, Accounted, Budgeted, Patient, Hopeful
  <2> QED BY <2>2, <2>3
<1> QED BY <1>2, <1>3 DEF IInv

LEMMA CallerLeavesKeeps ==
  ASSUME IInv, NEW c \in Requests, CallerLeaves(c)  PROVE IInv'
<1>1. /\ gone' = [gone EXCEPT ![c] = TRUE]
      /\ UNCHANGED <<loop, vendor, history>>
  BY DEF CallerLeaves
<1> QED BY <1>1
       DEF IInv, RetrierTypeOK, Sound, Accounted, Budgeted, Patient, Hopeful, loop, vendor, history

\* The four steps between two states of the loop that move one request.
LEMMA OthersKeep ==
  ASSUME IInv, NEW c \in Requests,
         \E s \in {"idle", "attempt", "returning"} : stage' = [stage EXCEPT ![c] = s],
         attempt' \in [Requests -> 0..Attempts], err' \in [Requests -> Errors],
         used' \in [Requests -> 0..RequestBudget], attemptAge' \in [Requests -> 0..VendorTimeout],
         sleepLeft' \in [Requests -> Nat], gone' \in [Requests -> BOOLEAN],
         handled' \in [Requests -> BOOLEAN], made' \in [Requests -> Nat],
         timeouts' \in [Requests -> Nat], resets' \in [Requests -> Nat],
         asked' \in [Requests -> Nat],
         \A d \in Requests \ {c} :
           /\ attempt'[d] = attempt[d] /\ used'[d] = used[d] /\ attemptAge'[d] = attemptAge[d]
           /\ sleepLeft'[d] = sleepLeft[d] /\ handled'[d] = handled[d] /\ made'[d] = made[d]
           /\ timeouts'[d] = timeouts[d] /\ resets'[d] = resets[d] /\ asked'[d] = asked[d],
         Sound(c)'
  PROVE  IInv'
<1>1. PICK s \in {"idle", "attempt", "returning"} : stage' = [stage EXCEPT ![c] = s]
  OBVIOUS
<1>2. RetrierTypeOK'
  BY <1>1 DEF IInv, RetrierTypeOK
<1>3. ASSUME NEW d \in Requests, d # c  PROVE Sound(d)'
  <2>1. stage'[d] = stage[d] /\ Sound(d)
    BY <1>1, <1>3 DEF IInv, RetrierTypeOK
  <2> QED BY <1>3, <2>1 DEF Sound, Accounted, Budgeted, Patient, Hopeful
<1> QED BY <1>2, <1>3 DEF IInv

LEMMA BeginKeeps ==
  ASSUME IInv, NEW c \in Requests, Begin(c)  PROVE IInv'
<1>1. Sound(c) /\ stage[c] = "idle" /\ RetrierTypeOK
  BY DEF IInv, Begin
<1>2. /\ stage' = [stage EXCEPT ![c] = "attempt"] /\ attempt' = [attempt EXCEPT ![c] = 1]
      /\ made' = [made EXCEPT ![c] = 0] /\ timeouts' = [timeouts EXCEPT ![c] = 0]
      /\ resets' = [resets EXCEPT ![c] = 0]
      /\ UNCHANGED <<err, used, attemptAge, sleepLeft, gone, handled, asked>>
  BY DEF Begin
<1>3. /\ attempt' \in [Requests -> 0..Attempts] /\ made' \in [Requests -> Nat]
      /\ timeouts' \in [Requests -> Nat] /\ resets' \in [Requests -> Nat]
  BY <1>1, <1>2, Parameters DEF RetrierTypeOK
<1>4. Sound(c)'
  <2>1. /\ stage'[c] = "attempt" /\ attempt'[c] = 1 /\ made'[c] = 0
        /\ timeouts'[c] = 0 /\ resets'[c] = 0 /\ asked'[c] = 0
    BY <1>1, <1>2 DEF RetrierTypeOK, Sound, Patient
  <2> QED BY <2>1 DEF Sound, Accounted, Budgeted, Patient, Hopeful
<1> QED BY <1>1, <1>2, <1>3, <1>4, OthersKeep DEF RetrierTypeOK

LEMMA WakeKeeps ==
  ASSUME IInv, NEW c \in Requests, Wake(c)  PROVE IInv'
<1>1. Sound(c) /\ stage[c] = "sleep" /\ sleepLeft[c] = 0
  BY DEF IInv, Wake
<1>2. /\ stage' = [stage EXCEPT ![c] = "attempt"]
      /\ attempt' = [attempt EXCEPT ![c] = @ + 1]
      /\ attemptAge' = [attemptAge EXCEPT ![c] = 0]
      /\ sleepLeft' = [sleepLeft EXCEPT ![c] = 0]
      /\ handled' = [handled EXCEPT ![c] = FALSE]
      /\ UNCHANGED <<err, used, gone, made, timeouts, resets, asked>>
  BY DEF Wake, CallAgain, history
<1>3. RetrierTypeOK
  BY DEF IInv
<1>4. attempt[c] + 1 \in 0..Attempts
  BY <1>1, <1>3, Parameters DEF Sound, Hopeful, RetrierTypeOK
<1>5. /\ attempt' \in [Requests -> 0..Attempts] /\ attemptAge' \in [Requests -> 0..VendorTimeout]
      /\ sleepLeft' \in [Requests -> Nat] /\ handled' \in [Requests -> BOOLEAN]
  BY <1>2, <1>3, <1>4, Parameters DEF RetrierTypeOK
<1>6. Sound(c)'
  <2>1. /\ stage'[c] = "attempt" /\ ~handled'[c] /\ used'[c] = used[c] /\ made'[c] = made[c]
        /\ timeouts'[c] = timeouts[c] /\ resets'[c] = resets[c] /\ asked'[c] = asked[c]
    BY <1>2, <1>3 DEF RetrierTypeOK
  <2>2. /\ made[c] \in Nat /\ timeouts[c] \in Nat /\ resets[c] \in Nat /\ asked[c] \in Nat
        /\ used[c] \in Nat
    BY <1>3, Parameters DEF RetrierTypeOK
  <2> QED BY <1>1, <2>1, <2>2, Parameters DEF Sound, Accounted, Budgeted, Patient, Hopeful
<1> QED BY <1>2, <1>3, <1>5, <1>6, OthersKeep DEF RetrierTypeOK

LEMMA SleepAbortedKeeps ==
  ASSUME IInv, NEW c \in Requests, SleepAborted(c)  PROVE IInv'
<1>1. Sound(c) /\ stage[c] = "sleep" /\ RetrierTypeOK
  BY DEF IInv, SleepAborted
<1>2. /\ stage' = [stage EXCEPT ![c] = "returning"]
      /\ attemptAge' = [attemptAge EXCEPT ![c] = 0]
      /\ UNCHANGED <<attempt, sleepLeft, handled, err, used, gone, made, timeouts, resets, asked>>
  BY DEF SleepAborted, Return, history
<1>3. attemptAge' \in [Requests -> 0..VendorTimeout]
  BY <1>1, <1>2, Parameters DEF RetrierTypeOK
<1>4. Sound(c)'
  <2>1. stage'[c] = "returning" /\ made[c] \in Nat /\ timeouts[c] \in Nat /\ resets[c] \in Nat
    BY <1>1, <1>2 DEF RetrierTypeOK
  <2> QED BY <1>1, <1>2, <2>1 DEF Sound, Accounted, Budgeted, Patient, Hopeful
<1> QED BY <1>1, <1>2, <1>3, <1>4, OthersKeep DEF RetrierTypeOK

LEMMA DeliverKeeps ==
  ASSUME IInv, NEW c \in Requests, Deliver(c)  PROVE IInv'
<1>1. Sound(c) /\ stage[c] = "returning" /\ RetrierTypeOK
  BY DEF IInv, Deliver
<1>2. /\ stage' = [stage EXCEPT ![c] = "idle"] /\ err' = [err EXCEPT ![c] = NoError]
      /\ attempt' = [attempt EXCEPT ![c] = 0] /\ used' = [used EXCEPT ![c] = 0]
      /\ sleepLeft' = [sleepLeft EXCEPT ![c] = 0] /\ gone' = [gone EXCEPT ![c] = FALSE]
      /\ handled' = [handled EXCEPT ![c] = FALSE] /\ asked' = [asked EXCEPT ![c] = 0]
      /\ UNCHANGED <<attemptAge, made, timeouts, resets>>
  BY DEF Deliver
<1>3. /\ err' \in [Requests -> Errors] /\ attempt' \in [Requests -> 0..Attempts]
      /\ used' \in [Requests -> 0..RequestBudget] /\ sleepLeft' \in [Requests -> Nat]
      /\ gone' \in [Requests -> BOOLEAN] /\ handled' \in [Requests -> BOOLEAN]
      /\ asked' \in [Requests -> Nat]
  BY <1>1, <1>2, NoErrorTyped, Parameters DEF RetrierTypeOK
<1>4. Sound(c)'
  <2>1. stage'[c] = "idle" /\ asked'[c] = 0 /\ UNCHANGED <<made, timeouts, resets>>
    BY <1>1, <1>2 DEF RetrierTypeOK
  <2> QED BY <1>1, <2>1 DEF Sound, Accounted, Budgeted, Patient, Hopeful
<1> QED BY <1>1, <1>2, <1>3, <1>4, OthersKeep DEF RetrierTypeOK

LEMMA TimePassesKeeps ==
  ASSUME IInv, TimePasses  PROVE IInv'
<1> USE Parameters
<1>1. RetrierTypeOK
  BY DEF IInv
<1>2. ASSUME NEW c \in Requests
      PROVE  /\ stage[c] \in {"attempt", "sleep"} => used[c] + 1 <= RequestBudget
             /\ stage[c] = "attempt" => attemptAge[c] + 1 <= VendorTimeout
             /\ stage[c] = "sleep" => sleepLeft[c] > 0
             /\ stage[c] # "returning"
  BY <1>1 DEF TimePasses, Due, RetrierTypeOK
<1>3. UNCHANGED <<stage, attempt, err, gone, handled, made, timeouts, resets>>
  BY DEF TimePasses, vendor
<1>4. used' \in [Requests -> 0..RequestBudget]
  BY <1>1, <1>2 DEF TimePasses, Active, RetrierTypeOK
<1>5. attemptAge' \in [Requests -> 0..VendorTimeout]
  BY <1>1, <1>2 DEF TimePasses, RetrierTypeOK
<1>6. sleepLeft' \in [Requests -> Nat] /\ asked' \in [Requests -> Nat]
  BY <1>1 DEF TimePasses, RetrierTypeOK
<1>7. RetrierTypeOK'
  BY <1>1, <1>3, <1>4, <1>5, <1>6 DEF RetrierTypeOK
<1>8. ASSUME NEW c \in Requests  PROVE Sound(c)'
  <2>1. /\ stage[c] \in {"attempt", "sleep"} => used'[c] = used[c] + 1
        /\ stage[c] = "attempt" => attemptAge'[c] = attemptAge[c] + 1
        /\ stage[c] = "sleep" => sleepLeft'[c] = sleepLeft[c] - 1
        /\ asked'[c] = IF asked[c] > 0 THEN asked[c] - 1 ELSE 0
    BY <1>1, <1>2 DEF TimePasses, Active, RetrierTypeOK
  <2>2. /\ used[c] \in Nat /\ attemptAge[c] \in Nat /\ sleepLeft[c] \in Nat /\ asked[c] \in Nat
    BY <1>1 DEF RetrierTypeOK
  <2>3. Sound(c)
    BY DEF IInv
  <2>4. Accounted(c)' /\ Hopeful(c)'
    BY <1>3, <2>3 DEF Sound, Accounted, Hopeful
  <2>5. Budgeted(c)'
    BY <1>2, <1>3, <2>1, <2>2, <2>3 DEF Sound, Budgeted
  <2>6. Patient(c)'
    BY <1>2, <1>3, <2>1, <2>2, <2>3 DEF Sound, Patient
  <2> QED BY <2>4, <2>5, <2>6 DEF Sound
<1> QED BY <1>7, <1>8 DEF IInv

THEOREM AlwaysSound == RetrierSpec => []IInv
<1>1. IInv /\ [RetrierNext]_rvars => IInv'
  <2> SUFFICES ASSUME IInv, [RetrierNext]_rvars  PROVE IInv'
    OBVIOUS
  <2>1. CASE TimePasses
    BY <2>1, TimePassesKeeps
  <2>2. ASSUME NEW c \in Requests, Begin(c)  PROVE IInv'
    BY <2>2, BeginKeeps
  <2>3. ASSUME NEW c \in Requests, CallerLeaves(c)  PROVE IInv'
    BY <2>3, CallerLeavesKeeps
  <2>4. ASSUME NEW c \in Requests, VendorCreates(c)  PROVE IInv'
    BY <2>4, VendorCreatesKeeps
  <2>5. ASSUME NEW c \in Requests, Works(c)  PROVE IInv'
    BY <2>5, RespondedKeeps, ExpiredKeeps, CanceledKeeps, NetworkFailsKeeps, WakeKeeps,
       SleepAbortedKeeps DEF Works
  <2>6. ASSUME NEW c \in Requests, Deliver(c)  PROVE IInv'
    BY <2>6, DeliverKeeps
  <2>7. CASE UNCHANGED rvars
    BY <2>7 DEF rvars, loop, vendor, history, IInv, RetrierTypeOK, Sound, Accounted, Budgeted,
                Patient, Hopeful
  <2> QED BY <2>1, <2>2, <2>3, <2>4, <2>5, <2>6, <2>7 DEF RetrierNext
<1> QED BY <1>1, InitSound, PTL DEF RetrierSpec

-----------------------------------------------------------------------------
(* What follows. *)

(* No request makes more than Attempts calls or outlives its budget.         *)
THEOREM RetrierTyped == RetrierSpec => []RetrierTypeOK
<1>1. IInv => RetrierTypeOK
  BY DEF IInv
<1> QED BY <1>1, AlwaysSound, PTL

(* A second quote is only ever created behind a timeout or a connection that *)
(* broke after the vendor's handler had run (retry.go:74-78).                *)
THEOREM DuplicatesExplained == RetrierSpec => []NoNeedlessDuplicate
<1>1. IInv => NoNeedlessDuplicate
  <2> SUFFICES ASSUME IInv, NEW c \in Requests
               PROVE  made[c] <= 1 + timeouts[c] + resets[c]
    BY DEF NoNeedlessDuplicate
  <2>1. /\ made[c] \in Nat /\ timeouts[c] \in Nat /\ resets[c] \in Nat
        /\ stage[c] \in {"idle", "attempt", "sleep", "returning"}
    BY DEF IInv, RetrierTypeOK
  <2> QED BY <2>1 DEF IInv, Sound, Accounted
<1> QED BY <1>1, AlwaysSound, PTL

(* A retry has more than minAttemptBudget of the request's budget before it, *)
(* however long the vendor's Retry-After made the wait (retry.go:131-137).   *)
THEOREM BudgetKept == RetrierSpec => []RetryHasBudget
<1>1. IInv => RetryHasBudget
  <2> SUFFICES ASSUME IInv, NEW c \in Requests,
                      stage[c] = "attempt", attempt[c] > 1, attemptAge[c] = 0
               PROVE  RequestBudget - used[c] > MinAttemptBudget
    BY DEF RetryHasBudget
  <2>1. used[c] \in Nat
    BY Parameters DEF IInv, RetrierTypeOK
  <2> QED BY <2>1, Parameters DEF IInv, Sound, Budgeted
<1> QED BY <1>1, AlwaysSound, PTL

(* No attempt is made before the Retry-After of the last one is over         *)
(* (retry.go:122-125).                                                       *)
THEOREM VendorNotHurried == RetrierSpec => []RetryAfterHonoured
<1>1. IInv => RetryAfterHonoured
  BY DEF IInv, Sound, Patient, RetryAfterHonoured
<1> QED BY <1>1, AlwaysSound, PTL

(* The deadline never ends a sleep: it was refused if it did not fit         *)
(* (retry.go:131-137).                                                       *)
THEOREM SleepsEndByThemselves == RetrierSpec => SleepNotCutShort
<1>1. IInv /\ [RetrierNext]_rvars =>
        [\A c \in Requests : stage[c] = "sleep" /\ stage'[c] = "returning" => gone[c]]_rvars
  <2> SUFFICES ASSUME IInv, RetrierNext, NEW c \in Requests,
                      stage[c] = "sleep", stage'[c] = "returning", ~gone[c]
               PROVE  FALSE
    BY DEF rvars
  <2>1. used[c] + MinAttemptBudget < RequestBudget
    BY Parameters DEF IInv, RetrierTypeOK, Sound, Budgeted
  <2>2. ~SleepAborted(c)
    BY <2>1, Parameters DEF SleepAborted, IInv, RetrierTypeOK
  <2>3. ASSUME NEW d \in Requests, Works(d)  PROVE d = c => Wake(c)
    BY <2>2, <2>3 DEF Works, Responded, Expired, Canceled, NetworkFails
  <2>4. ASSUME NEW d \in Requests, Works(d)  PROVE d = c
    <3>1. stage \in [Requests -> {"idle", "attempt", "sleep", "returning"}]
      BY DEF IInv, RetrierTypeOK
    <3>2. ASSUME NEW delay  PROVE Backoff(d, delay) => stage'[c] = stage[c] \/ d = c
      BY <3>1 DEF Backoff, CallAgain
    <3>3. CallAgain(d) \/ Return(d) => stage'[c] = stage[c] \/ d = c
      BY <3>1 DEF CallAgain, Return
    <3>4. ASSUME NEW e  PROVE AfterAttempt(d, e) => stage'[c] = stage[c] \/ d = c
      BY <3>2, <3>3 DEF AfterAttempt
    <3>5. stage'[c] = stage[c] \/ d = c
      BY <2>4, <3>3, <3>4 DEF Works, Responded, Expired, Canceled, NetworkFails, Wake, SleepAborted
    <3> QED BY <3>5
  <2>5. ~Wake(c)
    BY DEF Wake, CallAgain, IInv, RetrierTypeOK
  <2>6. stage'[c] = stage[c] \/ \E d \in Requests : Works(d)
    BY DEF RetrierNext, TimePasses, Begin, CallerLeaves, VendorCreates, Deliver, loop, vendor,
       IInv, RetrierTypeOK
  <2> QED BY <2>3, <2>4, <2>5, <2>6
<1> QED BY <1>1, AlwaysSound, PTL DEF RetrierSpec, SleepNotCutShort

-----------------------------------------------------------------------------
(* The composition. *)

LEMMA Thresholds ==
  /\ Window \in Nat /\ MinSamples \in Nat /\ ThresholdNum \in Nat /\ OpenFor \in Nat
  /\ Probes \in Nat /\ ThresholdDen \in Nat /\ ThresholdDen > 0
BY MiddlewareAssumption

-----------------------------------------------------------------------------
(* The retrier's part. *)

LEMMA StepOfRetrier == [MiddlewareNext]_mvars => [RetrierNext]_rvars
<1> SUFFICES ASSUME [MiddlewareNext]_mvars  PROVE [RetrierNext]_rvars
  OBVIOUS
<1>1. CASE Clock
  BY <1>1 DEF Clock, RetrierNext
<1>2. ASSUME NEW c \in Requests, Enter(c)  PROVE RetrierNext
  BY <1>2 DEF Enter, RetrierNext
<1>3. ASSUME NEW c \in Requests, TurnAway(c) \/ GoesAway(c)  PROVE UNCHANGED rvars
  BY <1>3 DEF TurnAway, GoesAway
<1>4. ASSUME NEW c \in Requests, Proceed(c)  PROVE RetrierNext
  BY <1>4 DEF Proceed, RetrierNext
<1>5. ASSUME NEW c \in Requests, Finish(c)  PROVE RetrierNext
  BY <1>5 DEF Finish, RetrierNext
<1>6. CASE UNCHANGED mvars
  BY <1>6 DEF mvars
<1> QED BY <1>1, <1>2, <1>3, <1>4, <1>5, <1>6 DEF MiddlewareNext

(* Inside the breaker the retrier is the one Retrier specifies, so all that  *)
(* is proved of it holds of the stack: how many calls, when, and what quotes *)
(* they make.                                                              *)
THEOREM RetriesAsSpecified == MiddlewareSpec => RetrierSpec
<1>1. MiddlewareInit => RetrierInit
  BY DEF MiddlewareInit
<1> QED BY <1>1, StepOfRetrier, PTL DEF MiddlewareSpec, RetrierSpec

LEMMA SoundInside == MiddlewareSpec => []IInv
BY RetriesAsSpecified, AlwaysSound, PTL

\* What a step of the loop does to what the breaker sees.
Moves(c) ==
  /\ stage[c] \in {"attempt", "sleep"}
  /\ \E s \in {"attempt", "sleep", "returning"} : stage' = [stage EXCEPT ![c] = s]
  /\ used' = used
  /\ \/ attempt' = attempt
     \/ attempt' = [attempt EXCEPT ![c] = @ + 1] /\ used[c] < RequestBudget

LEMMA AttemptMoves ==
  ASSUME IInv, NEW c \in Requests, NEW e \in Errors, stage[c] = "attempt", AfterAttempt(c, e)
  PROVE  Moves(c)
<1>1. RetrierTypeOK
  BY DEF IInv
<1>2. /\ used' = used
      /\ \/ Returned(c) \/ Retried(c)
         \/ \E delay \in Nat : PutToSleep(c, delay)
  BY <1>1, AfterAttemptCases, Zenon
<1>3. used[c] \in Nat
  BY <1>1, Parameters DEF RetrierTypeOK
<1>4. CASE Returned(c)
  BY <1>2, <1>4 DEF Returned, Moves
<1>5. CASE Retried(c)
  <2>1. used[c] < RequestBudget
    BY <1>3, <1>5, Parameters DEF Retried
  <2> QED BY <1>2, <1>5, <2>1 DEF Retried, Moves
<1>6. CASE \E delay \in Nat : PutToSleep(c, delay)
  BY <1>2, <1>6 DEF PutToSleep, Moves
<1> QED BY <1>2, <1>4, <1>5, <1>6

LEMMA WorksMoves ==
  ASSUME IInv, NEW c \in Requests, Works(c)
  PROVE  Moves(c)
<1>1. RetrierTypeOK /\ Sound(c)
  BY DEF IInv
<1>2. CASE Responded(c)
  <2>1. PICK status \in VendorStatuses, wait \in VendorWaits, usable \in BOOLEAN :
          /\ status = 201 => handled[c]
          /\ status \notin {201, 500} => ~handled[c]
          /\ wait > 0 => status = 429
          /\ usable => status = 201
          /\ asked' = [asked EXCEPT ![c] = wait]
          /\ AfterAttempt(c, Translate(status, wait, usable))
    BY <1>2, Zenon DEF Responded
  <2>2. Translate(status, wait, usable) \in Errors
    BY <2>1, TranslateResult
  <2>3. stage[c] = "attempt"
    BY <1>2 DEF Responded
  <2> QED BY <2>1, <2>2, <2>3, AttemptMoves
<1>3. CASE Expired(c)
  <2>1. (used[c] >= RequestBudget) \in BOOLEAN
    OBVIOUS
  <2>2. TransportError("deadline", used[c] >= RequestBudget) \in Errors
    BY <2>1, TransportResult, Zenon
  <2> QED BY <1>3, <2>2, AttemptMoves DEF Expired
<1>4. CASE Canceled(c)
  BY <1>4, TransportResult, AttemptMoves DEF Canceled
<1>5. CASE NetworkFails(c)
  BY <1>5, TransportResult, AttemptMoves DEF NetworkFails
<1>6. CASE Wake(c)
  <2>1. used[c] < RequestBudget
    BY <1>1, <1>6, Parameters DEF Wake, Sound, Budgeted, RetrierTypeOK
  <2> QED BY <1>6, <2>1 DEF Wake, CallAgain, Moves
<1>7. CASE SleepAborted(c)
  BY <1>7 DEF SleepAborted, Return, Moves
<1> QED BY <1>2, <1>3, <1>4, <1>5, <1>6, <1>7 DEF Works

LEMMA ProceedMoves ==
  ASSUME IInv, NEW c \in Requests, Proceed(c)
  PROVE  /\ UNCHANGED <<bvars, refused, answer, causes>>
         /\ UNCHANGED <<stage, used, attempt>> \/ Moves(c)
<1>1. UNCHANGED <<bvars, refused, answer, causes>>
  BY DEF Proceed
<1>2. CASE VendorCreates(c) \/ CallerLeaves(c)
  BY <1>1, <1>2 DEF VendorCreates, CallerLeaves, loop
<1>3. CASE Works(c)
  BY <1>1, <1>3, WorksMoves
<1> QED BY <1>2, <1>3 DEF Proceed

-----------------------------------------------------------------------------
(* The breaker's part. *)

\* Whoever holds a refusal is not in the retrier.
Apart == refused \subseteq {c \in Requests : stage[c] = "idle"}

Composed == IInv /\ Apart

LEMMA NextApart == Composed /\ [MiddlewareNext]_mvars => Apart'
<1> SUFFICES ASSUME IInv, Apart, [MiddlewareNext]_mvars  PROVE Apart'
  BY DEF Composed
<1>0. stage \in [Requests -> {"idle", "attempt", "sleep", "returning"}]
  BY DEF IInv, RetrierTypeOK
<1>1. CASE Clock
  BY <1>1 DEF Clock, TimePasses, Apart
<1>2. ASSUME NEW c \in Requests, Enter(c)  PROVE Apart'
  BY <1>0, <1>2 DEF Enter, Begin, Apart
<1>3. ASSUME NEW c \in Requests, TurnAway(c)  PROVE Apart'
  BY <1>3 DEF TurnAway, Apart, rvars, loop
<1>4. ASSUME NEW c \in Requests, GoesAway(c)  PROVE Apart'
  BY <1>4 DEF GoesAway, Apart, rvars, loop
<1>5. ASSUME NEW c \in Requests, Proceed(c)  PROVE Apart'
  BY <1>0, <1>5, ProceedMoves DEF Moves, Apart
<1>6. ASSUME NEW c \in Requests, Finish(c)  PROVE Apart'
  BY <1>0, <1>6 DEF Finish, Deliver, Apart
<1>7. CASE UNCHANGED mvars
  BY <1>7 DEF mvars, rvars, loop, Apart
<1> QED BY <1>1, <1>2, <1>3, <1>4, <1>5, <1>6, <1>7 DEF MiddlewareNext

LEMMA AlwaysComposed == MiddlewareSpec => []Composed
<1>1. MiddlewareInit => Apart
  BY DEF MiddlewareInit, Apart
<1>2. IInv /\ Apart /\ [MiddlewareNext]_mvars => Apart'
  BY NextApart DEF Composed
<1>3. MiddlewareSpec => []Apart
  BY <1>1, <1>2, SoundInside, PTL DEF MiddlewareSpec
<1> QED BY <1>3, SoundInside, PTL DEF Composed

LEMMA StepOfBreaker == Composed /\ [MiddlewareNext]_mvars => [B!Next]_(B!vars)
<1> SUFFICES ASSUME Composed, [MiddlewareNext]_mvars  PROVE [B!Next]_(B!vars)
  OBVIOUS
<1>0. IInv /\ RetrierTypeOK /\ Apart
  BY DEF Composed, IInv
<1>1. CASE Clock
  <2>1. \A c \in B!Calling : used[c] < RequestBudget
    <3>1. ASSUME NEW c \in Requests, c \in Active  PROVE used[c] < RequestBudget
      <4>1. ~Due(c) /\ used[c] \in 0..RequestBudget
        BY <1>0, <1>1 DEF Clock, TimePasses, RetrierTypeOK
      <4> QED BY <3>1, <4>1, Parameters DEF Due, Active
    <3> QED BY <3>1 DEF B!Calling, pc
  <2> QED BY <1>1, <2>1 DEF Clock, B!Next, B!Tick
<1>2. ASSUME NEW c \in Requests, Enter(c) \/ TurnAway(c) \/ GoesAway(c)  PROVE B!Next
  BY <1>2 DEF Enter, TurnAway, GoesAway, B!Next
<1>3. ASSUME NEW c \in Requests, Proceed(c)  PROVE UNCHANGED B!vars
  <2>1. UNCHANGED <<bvars, refused, used>> /\ Active' = Active
    BY <1>0, <1>3, ProceedMoves DEF Moves, Active, RetrierTypeOK
  <2>2. pc' = pc
    BY <2>1 DEF pc
  <2> QED BY <2>1, <2>2 DEF bvars, B!vars, B!circuit, B!callers
<1>4. ASSUME NEW c \in Requests, Finish(c)  PROVE B!Next
  <2>1. ResultOf(err[c]) \in B!Results
    BY DEF ResultOf, B!Results
  <2> QED BY <1>4, <2>1 DEF Finish, B!Next
<1>5. CASE UNCHANGED mvars
  BY <1>5 DEF mvars, rvars, loop, bvars, pc, Active, B!vars, B!circuit, B!callers
<1> QED BY <1>1, <1>2, <1>3, <1>4, <1>5 DEF MiddlewareNext

(* The stack implements the breaker's specification with the request budget  *)
(* for the bound of a call: whatever attempts, sleeps and disconnections a   *)
(* request went through, it comes back to record() once and within that.    *)
THEOREM StackImplementsBreaker == MiddlewareSpec => ImplementsBreaker
<1>1. MiddlewareInit => B!Init
  BY DEF MiddlewareInit
<1> QED BY <1>1, StepOfBreaker, AlwaysComposed, PTL DEF MiddlewareSpec, ImplementsBreaker, B!Spec

-----------------------------------------------------------------------------
(* Who calls while the circuit is open: every request in the retrier is from *)
(* before the opening and has used at least as much of its budget as has    *)
(* passed since.                                                           *)
Late ==
  /\ sinceOpened \in Nat
  /\ state = "open" => \A c \in Active : c \in stale /\ sinceOpened <= used[c]

LEMMA NextLate == Composed /\ Late /\ [MiddlewareNext]_mvars => Late'
<1> SUFFICES ASSUME Composed, Late, [MiddlewareNext]_mvars  PROVE Late'
  OBVIOUS
<1>0. RetrierTypeOK /\ IInv /\ Apart /\ \A c \in Requests : used[c] \in Nat
  BY Parameters DEF Composed, IInv, RetrierTypeOK
<1>1. CASE Clock
  <2>1. /\ UNCHANGED <<state, stale, stage>>
        /\ sinceOpened' = IF sinceOpened < OpenFor THEN sinceOpened + 1 ELSE sinceOpened
        /\ used' = [c \in Requests |-> IF c \in Active THEN used[c] + 1 ELSE 0]
    BY <1>1 DEF Clock, B!Elapse, TimePasses
  <2> QED BY <1>0, <2>1 DEF Late, Active
<1>2. ASSUME NEW c \in Requests, Enter(c)  PROVE Late'
  <2>1. state' # "open" /\ sinceOpened' = sinceOpened
    BY <1>2 DEF Enter, B!Admit, B!HalfOpenIfCooled, B!EnterHalfOpen
  <2> QED BY <2>1 DEF Late
<1>3. ASSUME NEW c \in Requests, TurnAway(c)  PROVE Late'
  <2>1. /\ state' = "open" => state = "open"
        /\ UNCHANGED <<sinceOpened, stale, stage, used>>
    BY <1>3 DEF TurnAway, B!Refuse, B!RefuseOpen, B!RefuseBusy, B!HalfOpenIfCooled,
                B!EnterHalfOpen, B!circuit, rvars, loop
  <2> QED BY <2>1 DEF Late, Active
<1>4. ASSUME NEW c \in Requests, GoesAway(c)  PROVE Late'
  <2>1. c \notin Active /\ stale' = stale \ {c} /\ UNCHANGED <<state, sinceOpened, stage, used>>
    BY <1>0, <1>4 DEF GoesAway, B!Leave, B!circuit, rvars, loop, Apart, Active
  <2> QED BY <2>1 DEF Late, Active
<1>5. ASSUME NEW c \in Requests, Proceed(c)  PROVE Late'
  <2>1. UNCHANGED <<bvars, used>> /\ Active' = Active
    BY <1>0, <1>5, ProceedMoves DEF Moves, Active, RetrierTypeOK
  <2> QED BY <2>1 DEF Late, bvars
<1>6. ASSUME NEW c \in Requests, Finish(c)  PROVE Late'
  <2> DEFINE r == ResultOf(err[c])
  <2>1. Active' = Active \ {c} /\ \A d \in Active' : used'[d] = used[d]
    BY <1>0, <1>6 DEF Finish, Deliver, Active, RetrierTypeOK
  <2>2. CASE B!ProbeFailed(c, r) \/ B!Tripped(c, r)
    <3>1. sinceOpened' = 0 /\ stale' = {d \in Requests \ {c} : pc[d] # "idle"}
      BY <2>2 DEF B!ProbeFailed, B!Tripped, B!EnterOpen, B!Outdated
    <3>2. Active \ {c} \subseteq stale'
      BY <3>1 DEF pc, Active
    <3>3. \A d \in Active' : used'[d] \in Nat
      BY <1>0, <2>1 DEF Active
    <3> QED BY <2>1, <3>1, <3>2, <3>3 DEF Late
  <2>3. CASE B!Ignored(c, r) \/ B!ProbeSucceeded(c, r) \/ B!Sampled(c, r)
    <3>1. stale' = stale \ {c} /\ sinceOpened' = sinceOpened /\ (state' = "open" => state = "open")
      BY <2>3 DEF B!Ignored, B!ProbeSucceeded, B!EnterClosed, B!Sampled
    <3> QED BY <2>1, <3>1 DEF Late
  <2> QED BY <1>6, <2>2, <2>3 DEF Finish, B!Record
<1>7. CASE UNCHANGED mvars
  BY <1>7 DEF mvars, rvars, loop, bvars, Late, Active
<1> QED BY <1>1, <1>2, <1>3, <1>4, <1>5, <1>6, <1>7 DEF MiddlewareNext

LEMMA AlwaysLate == MiddlewareSpec => []Late
<1>1. MiddlewareInit => Late
  BY Thresholds DEF MiddlewareInit, B!Init, Late
<1> QED BY <1>1, NextLate, AlwaysComposed, PTL DEF MiddlewareSpec

(* The vendor is called with the circuit open only by requests admitted      *)
(* before it opened, and no more once a request budget has passed            *)
(* (breaker.go:45).                                                        *)
THEOREM OnlyOldRequestsCall == MiddlewareSpec => OnlyStragglersCall
<1>1. Composed /\ Late /\ [MiddlewareNext]_mvars
        => [\A c \in Requests : StartsAttempt(c) /\ state' = "open"
              => c \in stale /\ sinceOpened < RequestBudget]_mvars
  <2> SUFFICES ASSUME Composed, Late, MiddlewareNext, NEW c \in Requests,
                      StartsAttempt(c), state' = "open"
               PROVE  c \in stale /\ sinceOpened < RequestBudget
    OBVIOUS
  <2>0. IInv /\ attempt \in [Requests -> 0..Attempts] /\ used[c] \in Nat
    BY Parameters DEF Composed, IInv, RetrierTypeOK
  <2>1. attempt'[c] # attempt[c] /\ attempt'[c] # 0
    <3>1. attempt[c] \in Nat
      BY <2>0, Parameters
    <3> QED BY <3>1 DEF StartsAttempt
  <2>2. ~Clock
    BY <2>1 DEF Clock, TimePasses
  <2>3. ASSUME NEW d \in Requests  PROVE ~Enter(d)
    BY DEF Enter, B!Admit, B!HalfOpenIfCooled, B!EnterHalfOpen
  <2>4. ASSUME NEW d \in Requests  PROVE ~TurnAway(d) /\ ~GoesAway(d)
    BY <2>1 DEF TurnAway, GoesAway, rvars, loop
  <2>5. ASSUME NEW d \in Requests  PROVE ~Finish(d)
    BY <2>0, <2>1 DEF Finish, Deliver
  <2>6. PICK d \in Requests : Proceed(d)
    BY <2>2, <2>3, <2>4, <2>5 DEF MiddlewareNext
  <2>7. Moves(d) /\ state = "open"
    BY <2>0, <2>1, <2>6, ProceedMoves DEF bvars
  <2>8. d = c /\ used[c] < RequestBudget /\ c \in Active
    BY <2>0, <2>1, <2>7 DEF Moves, Active
  <2> QED BY <2>0, <2>7, <2>8, Parameters DEF Late
<1> QED BY <1>1, AlwaysComposed, AlwaysLate, PTL DEF MiddlewareSpec, OnlyStragglersCall

-----------------------------------------------------------------------------
(* Why the circuit opens: a failure in the window, like a circuit that is    *)
(* not closed, has somebody behind it.                                      *)
Caused ==
  /\ outcomes \in Seq(BOOLEAN)
  /\ (\E i \in DOMAIN outcomes : outcomes[i]) => causes # {}
  /\ OpensForCause

LEMMA FailuresHaveCauses ==
  ASSUME NEW e, ResultOf(e) = "failed"  PROVE CauseOf(e) # {}
BY DEF ResultOf, CauseOf

\* A window that trips the circuit holds a failure.
LEMMA TripNeedsFailure ==
  ASSUME ThresholdNum > 0, NEW s \in Seq(BOOLEAN), B!ShouldTrip(s)
  PROVE  \E i \in DOMAIN s : s[i]
<1> SUFFICES ASSUME \A i \in DOMAIN s : ~s[i]  PROVE FALSE
  OBVIOUS
<1>1. {i \in DOMAIN s : s[i]} = {}
  OBVIOUS
<1>2. B!Failures(s) = 0
  <2>1. B!Cardinality({}) = Cardinality({})
    BY DEF B!Cardinality, Cardinality
  <2>2. B!Failures(s) = B!Cardinality({})
    BY <1>1 DEF B!Failures
  <2> QED BY <2>1, <2>2, FS_EmptySet
<1>3. \A a, b \in Nat : a > 0 /\ b > 0 => a * b > 0
  OBVIOUS
<1>4. Len(s) \in Nat /\ Len(s) > 0 /\ 0 * ThresholdDen >= ThresholdNum * Len(s)
  BY <1>2 DEF B!ShouldTrip
<1>5. ThresholdNum * Len(s) > 0 /\ ThresholdNum * Len(s) \in Nat
  BY <1>3, <1>4, Thresholds
<1> QED BY <1>4, <1>5, Thresholds

\* Trimming adds no failure.
LEMMA RememberedFailures ==
  ASSUME outcomes \in Seq(BOOLEAN), NEW failed \in BOOLEAN
  PROVE  /\ B!Remembered(failed) \in Seq(BOOLEAN)
         /\ (\E i \in DOMAIN B!Remembered(failed) : B!Remembered(failed)[i])
              => failed \/ \E i \in DOMAIN outcomes : outcomes[i]
<1> DEFINE s == Append(outcomes, failed)
<1>1. s \in Seq(BOOLEAN) /\ ((\E i \in DOMAIN s : s[i]) => failed \/ \E i \in DOMAIN outcomes : outcomes[i])
  OBVIOUS
<1> HIDE DEF s
<1>2. CASE Len(s) > Window
  <2> DEFINE m == Len(s) - Window + 1
  <2>1. m \in 1..(Len(s) + 1) /\ Len(s) \in Nat
    BY <1>1, <1>2, Thresholds
  <2>2. \A i \in m..Len(s) : s[i] \in BOOLEAN
    BY <1>1, <2>1
  <2>3. B!Remembered(failed) = SubSeq(s, m, Len(s))
    BY <1>2 DEF B!Remembered, B!LastOf, s
  <2> HIDE DEF m
  <2>4. SubSeq(s, m, Len(s)) \in Seq(BOOLEAN)
    BY <2>1, <2>2
  <2>5. \A i \in DOMAIN SubSeq(s, m, Len(s)) :
          i + m - 1 \in DOMAIN s /\ SubSeq(s, m, Len(s))[i] = s[i + m - 1]
    BY <1>1, <2>1
  <2> QED BY <1>1, <2>3, <2>4, <2>5
<1>3. CASE ~(Len(s) > Window)
  <2>1. B!Remembered(failed) = s
    BY <1>3 DEF B!Remembered, B!LastOf, s
  <2> QED BY <1>1, <2>1
<1> QED BY <1>2, <1>3

LEMMA FinishCaused ==
  ASSUME ThresholdNum > 0, Caused, NEW c \in Requests, Finish(c)
  PROVE  Caused'
<1> DEFINE r == ResultOf(err[c])
<1>1. /\ outcomes \in Seq(BOOLEAN)
      /\ (\E i \in DOMAIN outcomes : outcomes[i]) => causes # {}
      /\ state # "closed" => causes # {}
  BY DEF Caused, OpensForCause
<1>2. (state = "closed" \/ state' # "closed") => causes' = causes \cup CauseOf(err[c])
  BY DEF Finish
<1>3. r = "failed" => CauseOf(err[c]) # {}
  BY FailuresHaveCauses
<1>4. << >> \in Seq(BOOLEAN) /\ DOMAIN << >> = {}
  OBVIOUS
<1> HIDE DEF r
<1>5. (r = "failed") \in BOOLEAN
  OBVIOUS
<1>6. /\ B!Remembered(r = "failed") \in Seq(BOOLEAN)
      /\ (\E i \in DOMAIN B!Remembered(r = "failed") : B!Remembered(r = "failed")[i])
           => causes # {} \/ r = "failed"
  BY <1>1, <1>5, RememberedFailures
<1>7. CASE B!Ignored(c, r)
  BY <1>1, <1>2, <1>7 DEF B!Ignored, Caused, OpensForCause
<1>8. CASE B!ProbeFailed(c, r)
  BY <1>1, <1>2, <1>4, <1>8 DEF B!ProbeFailed, B!EnterOpen, Caused, OpensForCause
<1>9. CASE B!ProbeSucceeded(c, r)
  <2>1. CASE B!EnterClosed
    BY <1>4, <2>1 DEF B!EnterClosed, Caused, OpensForCause
  <2>2. CASE UNCHANGED <<state, outcomes>>
    BY <1>1, <1>2, <1>9, <2>2 DEF B!ProbeSucceeded, Caused, OpensForCause
  <2> QED BY <1>9, <2>1, <2>2 DEF B!ProbeSucceeded
<1>10. CASE B!Sampled(c, r)
  BY <1>2, <1>3, <1>6, <1>10 DEF B!Sampled, Caused, OpensForCause
<1>11. CASE B!Tripped(c, r)
  <2>1. causes' # {}
    BY <1>2, <1>3, <1>6, <1>11, TripNeedsFailure DEF B!Tripped
  <2> QED BY <1>4, <1>11, <2>1 DEF B!Tripped, B!EnterOpen, Caused, OpensForCause
<1> QED BY <1>7, <1>8, <1>9, <1>10, <1>11 DEF Finish, B!Record, r

(* The circuit never opens on request faults alone (breaker.go:113-117),     *)
(* unless the threshold is 0, which Load accepts: then successes open it.    *)
THEOREM OpenedByFailures ==
  ASSUME ThresholdNum > 0
  PROVE  MiddlewareSpec => []OpensForCause
<1>1. MiddlewareInit => Caused
  BY DEF MiddlewareInit, B!Init, Caused, OpensForCause
<1>2. Caused /\ Composed /\ [MiddlewareNext]_mvars => Caused'
  <2> SUFFICES ASSUME Caused, Composed, [MiddlewareNext]_mvars  PROVE Caused'
    OBVIOUS
  <2>0. IInv
    BY DEF Composed
  <2>1. CASE Clock
    BY <2>1 DEF Clock, B!Elapse, Caused, OpensForCause
  <2>2. ASSUME NEW c \in Requests, Enter(c) \/ TurnAway(c)  PROVE Caused'
    <3>1. UNCHANGED <<outcomes, causes>> /\ (state' # "closed" => state # "closed")
      BY <2>2 DEF Enter, TurnAway, B!Admit, B!Refuse, B!RefuseOpen, B!RefuseBusy,
                  B!HalfOpenIfCooled, B!EnterHalfOpen, B!circuit
    <3> QED BY <3>1 DEF Caused, OpensForCause
  <2>3. ASSUME NEW c \in Requests, GoesAway(c)  PROVE Caused'
    BY <2>3 DEF GoesAway, B!Leave, B!circuit, Caused, OpensForCause
  <2>4. ASSUME NEW c \in Requests, Proceed(c)  PROVE Caused'
    BY <2>4 DEF Proceed, bvars, Caused, OpensForCause
  <2>5. ASSUME NEW c \in Requests, Finish(c)  PROVE Caused'
    BY <2>5, FinishCaused
  <2>6. CASE UNCHANGED mvars
    BY <2>6 DEF mvars, bvars, Caused, OpensForCause
  <2> QED BY <2>1, <2>2, <2>3, <2>4, <2>5, <2>6 DEF MiddlewareNext
<1>3. Caused => OpensForCause
  BY DEF Caused
<1> QED BY <1>1, <1>2, <1>3, AlwaysComposed, PTL DEF MiddlewareSpec
=============================================================================
