----------------------------- MODULE CqapiMock ------------------------------
(***************************************************************************)
(* The vendor's mock (internal/cqapimock) under concurrent requests: the    *)
(* key is checked, then the injector draws the request's fate under its     *)
(* lock and sleeps, and then the handler may run. What a request asks and   *)
(* what it costs is QuoteRequest's subject; here a body is one the handler  *)
(* takes or not.                                                           *)
(*                                                                         *)
(* The random source is a stream that the seed fixes, of which taken is the *)
(* part that has been used. Its values are small naturals; a Float64() is  *)
(* below its rate when the value is 0. Int64N takes one value.             *)
(***************************************************************************)
EXTENDS Integers, Sequences

CONSTANTS
  Requests,
  Values,      \* what the random source can give
  LatencyMin, LatencyMax, SlowDelay

ASSUME MockAssumption ==
  /\ Values \subseteq Nat /\ 0 \in Values
  /\ {LatencyMin, LatencyMax, SlowDelay} \subseteq Nat
  /\ LatencyMin <= LatencyMax

VARIABLES
  taken,   \* the random values used so far
  lock,    \* who holds the injector's mutex, or Nobody
  pc,      \* of each request's goroutine
  keyed,   \* requests with the vendor's key
  fate,    \* what was drawn for it
  gone,    \* requests whose caller has given up
  status,  \* the status written, 0 for none
  order,   \* history: who took the lock, and how much of the stream was used then
  made     \* history: quotes generated for each

mvars == <<taken, lock, pc, keyed, fate, gone, status, order, made>>

Nobody == "nobody"

ASSUME NobodyAssumption == Nobody \notin Requests

NoFate == [fail |-> FALSE, slow |-> FALSE, latency |-> 0]

MockInit ==
  /\ taken = <<>>
  /\ lock = Nobody
  /\ pc = [r \in Requests |-> "off"]
  /\ keyed \in SUBSET Requests
  /\ fate = [r \in Requests |-> NoFate]
  /\ gone = {}
  /\ status = [r \in Requests |-> 0]
  /\ order = <<>>
  /\ made = [r \in Requests |-> 0]

Arrive(r) ==
  /\ pc[r] = "off"
  /\ pc' = [pc EXCEPT ![r] = "arrived"]
  /\ UNCHANGED <<taken, lock, keyed, fate, gone, status, order, made>>

\* The Middleware's attempt times out or is cancelled. Nothing but the sleep
\* looks, so whoever gives up before it may as well do so at its beginning.
GivesUp(r) ==
  /\ pc[r] = "sleep" /\ r \notin gone
  /\ gone' = gone \cup {r}
  /\ UNCHANGED <<taken, lock, pc, keyed, fate, status, order, made>>

\* The handler returns; 0 is an empty answer to somebody who has left.
Done(r, code) ==
  /\ pc' = [pc EXCEPT ![r] = "done"]
  /\ status' = [status EXCEPT ![r] = code]

RequireAPIKey(r) ==
  /\ pc[r] = "arrived"
  /\ IF r \in keyed THEN pc' = [pc EXCEPT ![r] = "injector"] /\ UNCHANGED status ELSE Done(r, 401)
  /\ UNCHANGED <<taken, lock, keyed, fate, gone, order, made>>

-----------------------------------------------------------------------------
(* draw(): one step for each value it takes, all under the lock. *)

\* Mutant: no lock.
EnterUnlocked(r) ==
  /\ pc[r] = "injector"
  /\ lock' = r
  /\ order' = Append(order, [by |-> r, at |-> Len(taken)])
  /\ pc' = [pc EXCEPT ![r] = "fail"]
  /\ UNCHANGED <<taken, keyed, fate, gone, status, made>>

Lock(r) ==
  /\ pc[r] = "injector" /\ lock = Nobody
  /\ lock' = r
  /\ order' = Append(order, [by |-> r, at |-> Len(taken)])
  /\ pc' = [pc EXCEPT ![r] = "fail"]
  /\ UNCHANGED <<taken, keyed, fate, gone, status, made>>

Draw(r, f, next) ==
  /\ fate' = [fate EXCEPT ![r] = f]
  /\ pc' = [pc EXCEPT ![r] = next]
  /\ UNCHANGED <<keyed, gone, status, order, made>>

DrawFail(r) ==
  /\ pc[r] = "fail"
  /\ \E v \in Values : /\ taken' = Append(taken, v)
                      /\ Draw(r, [fate[r] EXCEPT !.fail = v = 0], "slow")
  /\ UNCHANGED lock

DrawSlow(r) ==
  /\ pc[r] = "slow"
  /\ \E v \in Values : /\ taken' = Append(taken, v)
                      /\ Draw(r, [fate[r] EXCEPT !.slow = v = 0], "latency")
  /\ UNCHANGED lock

Spread == LatencyMax - LatencyMin

SetLatency(r) ==
  IF fate[r].slow \/ Spread = 0
  THEN /\ Draw(r, [fate[r] EXCEPT !.latency = IF fate[r].slow THEN SlowDelay ELSE LatencyMin], "sleep")
       /\ UNCHANGED taken
  ELSE \E v \in Values :
         /\ taken' = Append(taken, v)
         /\ Draw(r, [fate[r] EXCEPT !.latency = LatencyMin + (v % Spread)], "sleep")

\* Mutant: unlocked at the end only, and a slow request has returned before.
DrawLatencyKeepsLock(r) ==
  /\ pc[r] = "latency"
  /\ SetLatency(r)
  /\ lock' = IF fate[r].slow THEN lock ELSE Nobody

\* A third value only for a request that is not slow, where there is a spread.
DrawLatency(r) ==
  /\ pc[r] = "latency"
  /\ SetLatency(r)
  /\ lock' = Nobody

-----------------------------------------------------------------------------
(* The rest of the injector, and the handler. *)

\* Mutant: the fault is injected into the handler's answer.
WakesAndQuotes(r) ==
  /\ pc[r] = "sleep"
  /\ Done(r, IF fate[r].fail THEN 503 ELSE 201)
  /\ made' = [made EXCEPT ![r] = @ + 1]
  /\ UNCHANGED <<taken, lock, keyed, fate, gone, order>>

\* Slept through, which a sleep of zero always is: 503, or on to the handler.
Wakes(r) ==
  /\ pc[r] = "sleep"
  /\ IF fate[r].fail THEN Done(r, 503) ELSE pc' = [pc EXCEPT ![r] = "handler"] /\ UNCHANGED status
  /\ UNCHANGED <<taken, lock, keyed, fate, gone, order, made>>

\* sleep() sees that the caller gave up, and nothing is written.
Cancelled(r) ==
  /\ pc[r] = "sleep" /\ r \in gone /\ fate[r].latency > 0
  /\ Done(r, 0)
  /\ UNCHANGED <<taken, lock, keyed, fate, gone, order, made>>

\* The handler does not look at the context; Rejects of QuoteRequest decides.
Quote(r) ==
  /\ pc[r] = "handler"
  /\ \/ Done(r, 201) /\ made' = [made EXCEPT ![r] = @ + 1]
     \/ Done(r, 400) /\ UNCHANGED made
  /\ UNCHANGED <<taken, lock, keyed, fate, gone, order>>

Handles(r) ==
  \/ RequireAPIKey(r) \/ Lock(r) \/ DrawFail(r) \/ DrawSlow(r) \/ DrawLatency(r)
  \/ Wakes(r) \/ Cancelled(r) \/ Quote(r)

MockNext == \E r \in Requests : Arrive(r) \/ GivesUp(r) \/ Handles(r)

\* The goroutines run on, the mutex is handed to whoever waits, and timers fire.
MockSpec == MockInit /\ [][MockNext]_mvars /\ \A r \in Requests : WF_mvars(Handles(r))

-----------------------------------------------------------------------------
Places == {"off", "arrived", "injector", "fail", "slow", "latency", "sleep", "handler", "done"}

\* The i-th value of the stream, as far as it has been used.
Stream(i) == IF i <= Len(taken) THEN taken[i] ELSE -1

\* How many values a fate takes that begins after the first at of them.
Takes(at) == IF Stream(at + 2) = 0 \/ Spread = 0 THEN 2 ELSE 3

(* "the sequence depends only on the seed and the request order, not on how *)
(* the goroutines interleave" (inject.go:51-53): the fate of the n-th that  *)
(* drew is read off the stream alone, from where that of the one before it *)
(* ended, and is what became of it. Requests without the key are none of    *)
(* these, and always answered 401: they neither move the sequence nor are  *)
(* failed by it (inject.go:16-18).                                         *)
FateBySeedAndOrder ==
  /\ \A n \in 1..Len(order) :
       LET r  == order[n].by
           at == order[n].at
       IN  /\ r \in keyed
           /\ at = IF n = 1 THEN 0 ELSE order[n - 1].at + Takes(order[n - 1].at)
           /\ pc[r] \in {"sleep", "handler", "done"} =>
                /\ fate[r].fail <=> Stream(at + 1) = 0
                /\ fate[r].slow <=> Stream(at + 2) = 0
                /\ fate[r].latency = IF fate[r].slow THEN SlowDelay
                                     ELSE IF Spread = 0 THEN LatencyMin
                                     ELSE LatencyMin + (Stream(at + 3) % Spread)
                /\ pc[r] = "handler" => ~fate[r].fail
  /\ \A r \in Requests \ keyed : pc[r] = "done" => status[r] = 401

(* A 503 "honestly says the request was never processed" (inject.go:81-86),  *)
(* and so do a 400, a 401 and a request given up in the sleep: a quote is  *)
(* made exactly for a 201. The Retrier's model takes the vendor's statuses *)
(* at this word.                                                           *)
StatusTellsTheTruth ==
  \A r \in Requests : pc[r] = "done" => made[r] = (IF status[r] = 201 THEN 1 ELSE 0)

(* Nobody waits for ever: the lock is given back on every path of draw().   *)
EveryRequestEnds == \A r \in Requests : pc[r] = "arrived" ~> pc[r] = "done"
=============================================================================
