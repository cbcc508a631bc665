------------------------------ MODULE Retrier ------------------------------
(***************************************************************************)
(* The retry loop of internal/cqappmiddleware/retry.go around VendorClient,*)
(* with the vendor and the network it talks to.                            *)
(*                                                                         *)
(* Each request runs Retrier.Quote in its own goroutine; they share        *)
(* nothing here.  A request is                                             *)
(*   idle       outside Quote;                                             *)
(*   attempt    inside next.Quote, the vendor call outstanding;            *)
(*   sleep      inside r.sleep, between two attempts;                      *)
(*   returning  Quote has its result.                                      *)
(* The loop's local decisions between two of these take no time and touch  *)
(* nothing shared, so the end of an attempt carries on to the next of them.*)
(*                                                                         *)
(* The vendor is external.  It creates a quote when its handler runs, once *)
(* per attempt it received; what the caller then sees is a separate step.  *)
(***************************************************************************)
EXTENDS VendorClient, FiniteSets

CONSTANTS
  Requests,
  Attempts,          \* RetryConfig.Attempts
  Base, Cap,         \* RetryConfig.Base and .Cap, in ticks
  MinAttemptBudget,  \* minAttemptBudget, in ticks
  VendorTimeout,     \* http.Client.Timeout: one attempt, in ticks
  RequestBudget,     \* the deadline of the request's context, in ticks
  VendorWaits        \* Retry-After values the vendor may send, 0 for none

ASSUME RetrierAssumption ==
  /\ IsFiniteSet(Requests)
  /\ {Attempts, Base, Cap, MinAttemptBudget, VendorTimeout, RequestBudget} \subseteq Nat
  /\ Attempts >= 1              \* config.go:121
  /\ VendorWaits \subseteq Nat

VARIABLES
  stage,
  attempt,     \* the loop variable
  err,         \* what the last attempt returned (lastErr once in the loop)
  used,        \* ticks of the request budget used
  attemptAge,  \* ticks since the outstanding call was made
  sleepLeft,   \* what is left of the backoff
  gone,        \* the caller disconnected: the context is cancelled
  handled,     \* vendor: its handler has run for the outstanding attempt
  made,        \* history: quotes the vendor created for this request
  timeouts,    \* history: attempts that ended with the deadline
  resets,      \* history: attempts the network broke after the handler ran
  asked        \* history: what is left of the Retry-After the vendor asked for

loop    == <<stage, attempt, err, used, attemptAge, sleepLeft>>
vendor  == <<handled, made>>
history == <<timeouts, resets, asked>>
rvars   == <<loop, gone, vendor, history>>

Active == {c \in Requests : stage[c] \in {"attempt", "sleep", "returning"}}

RetrierInit ==
  /\ stage      = [c \in Requests |-> "idle"]
  /\ attempt    = [c \in Requests |-> 0]
  /\ err        = [c \in Requests |-> NoError]
  /\ used       = [c \in Requests |-> 0]
  /\ attemptAge = [c \in Requests |-> 0]
  /\ sleepLeft  = [c \in Requests |-> 0]
  /\ gone       = [c \in Requests |-> FALSE]
  /\ handled    = [c \in Requests |-> FALSE]
  /\ made       = [c \in Requests |-> 0]
  /\ timeouts   = [c \in Requests |-> 0]
  /\ resets     = [c \in Requests |-> 0]
  /\ asked      = [c \in Requests |-> 0]

-----------------------------------------------------------------------------
(* backoff() and worthWaiting(). *)

\* Base << (attempt - 1), capped.
BackoffWindow(n) == LET w == Base * 2^(n - 1) IN IF w > Cap THEN Cap ELSE w

\* Full jitter: a draw from [0, window), or none when the window is empty.
Jitter(n) == {d \in 0..Cap : d = 0 \/ d < BackoffWindow(n)}

\* Mutant: the vendor's Retry-After is not looked at.
BackoffsOfOurs(n, e) == Jitter(n)

\* A longer Retry-After wins.
Backoffs(n, e) == {IF e.retryAfter > d THEN e.retryAfter ELSE d : d \in Jitter(n)}

\* Mutant: no room is kept for the attempt itself.
WorthWaitingForDelay(c, delay) == RequestBudget - used[c] > delay
\* Mutant: the wait itself is not counted.
WorthWaitingForAttempt(c, delay) == RequestBudget - used[c] > MinAttemptBudget

WorthWaiting(c, delay) == RequestBudget - used[c] > delay + MinAttemptBudget

\* The next turn of the loop: the call goes out again.
CallAgain(c) ==
  /\ stage' = [stage EXCEPT ![c] = "attempt"]
  /\ attempt' = [attempt EXCEPT ![c] = @ + 1]
  /\ attemptAge' = [attemptAge EXCEPT ![c] = 0]
  /\ sleepLeft' = [sleepLeft EXCEPT ![c] = 0]
  /\ handled' = [handled EXCEPT ![c] = FALSE]

Return(c) ==
  /\ stage' = [stage EXCEPT ![c] = "returning"]
  /\ UNCHANGED <<attempt, sleepLeft, handled>>
  /\ attemptAge' = [attemptAge EXCEPT ![c] = 0]

\* sleepCtx() with nothing to wait for returns at once, even from a cancelled
\* context; otherwise the timer starts.
Backoff(c, delay) ==
  IF delay = 0
  THEN CallAgain(c)
  ELSE /\ stage' = [stage EXCEPT ![c] = "sleep"]
       /\ sleepLeft' = [sleepLeft EXCEPT ![c] = delay]
       /\ attemptAge' = [attemptAge EXCEPT ![c] = 0]
       /\ UNCHANGED <<attempt, handled>>

\* Mutant: attempts are not counted.
RetryableForEver(c, e) == e.marker = "transient"
Retryable(c, e) == e.marker = "transient" /\ attempt[c] # Attempts

\* What the loop does with the result e of an attempt.
AfterAttempt(c, e) ==
  /\ err' = [err EXCEPT ![c] = e]
  /\ UNCHANGED <<used, made>>
  /\ IF Retryable(c, e)
     THEN \E delay \in Backoffs(attempt[c], e) :
            IF WorthWaiting(c, delay) THEN Backoff(c, delay) ELSE Return(c)
     ELSE Return(c)

-----------------------------------------------------------------------------
(* Quote is called, with a fresh context of RequestBudget. *)
Begin(c) ==
  /\ stage[c] = "idle"
  /\ stage' = [stage EXCEPT ![c] = "attempt"]
  /\ attempt' = [attempt EXCEPT ![c] = 1]
  /\ made' = [made EXCEPT ![c] = 0]
  /\ timeouts' = [timeouts EXCEPT ![c] = 0]
  /\ resets' = [resets EXCEPT ![c] = 0]
  /\ UNCHANGED <<err, used, attemptAge, sleepLeft, gone, handled, asked>>

CallerLeaves(c) ==
  /\ c \in Active
  /\ ~gone[c]
  /\ gone' = [gone EXCEPT ![c] = TRUE]
  /\ UNCHANGED <<loop, vendor, history>>

\* The vendor's handler runs: from here a quote exists.
VendorCreates(c) ==
  /\ stage[c] = "attempt"
  /\ ~handled[c]
  /\ handled' = [handled EXCEPT ![c] = TRUE]
  /\ made' = [made EXCEPT ![c] = @ + 1]
  /\ UNCHANGED <<loop, gone, history>>

\* A response arrives. 201 only after the handler ran; what is refused at the
\* vendor's edge, rate limited, unauthorised or invalid never reached it; a
\* 500 may come either way (contract.md section 6).
Responded(c) ==
  /\ stage[c] = "attempt"
  /\ \E status \in VendorStatuses, wait \in VendorWaits, usable \in BOOLEAN :
       /\ status = 201 => handled[c]
       /\ status \notin {201, 500} => ~handled[c]
       /\ wait > 0 => status = 429
       /\ usable => status = 201
       /\ asked' = [asked EXCEPT ![c] = wait]
       /\ AfterAttempt(c, Translate(status, wait, usable))
  /\ UNCHANGED <<gone, timeouts, resets>>

\* http.Client.Timeout or the request's deadline, whichever comes first.
Expired(c) ==
  /\ stage[c] = "attempt"
  /\ attemptAge[c] >= VendorTimeout \/ used[c] >= RequestBudget
  /\ timeouts' = [timeouts EXCEPT ![c] = @ + 1]
  /\ AfterAttempt(c, TransportError("deadline", used[c] >= RequestBudget))
  /\ UNCHANGED <<gone, resets, asked>>

\* The call notices that the caller is gone.
Canceled(c) ==
  /\ stage[c] = "attempt"
  /\ gone[c]
  /\ AfterAttempt(c, TransportError("canceled", FALSE))
  /\ UNCHANGED <<gone, history>>

\* Refused, unresolved, or reset before the headers: the last of these can
\* follow the handler's run.
NetworkFails(c) ==
  /\ stage[c] = "attempt"
  /\ resets' = [resets EXCEPT ![c] = IF handled[c] THEN @ + 1 ELSE @]
  /\ AfterAttempt(c, TransportError("network", FALSE))
  /\ UNCHANGED <<gone, timeouts, asked>>

\* The backoff is over and the loop turns.
Wake(c) ==
  /\ stage[c] = "sleep"
  /\ sleepLeft[c] = 0
  /\ CallAgain(c)
  /\ UNCHANGED <<err, used, gone, made, history>>

\* ctx.Done() ends the sleep: the loop breaks and lastErr is the result.
SleepAborted(c) ==
  /\ stage[c] = "sleep"
  /\ gone[c] \/ used[c] >= RequestBudget
  /\ Return(c)
  /\ UNCHANGED <<err, used, gone, made, history>>

\* Quote returns err to its caller and the request is over.
Deliver(c) ==
  /\ stage[c] = "returning"
  /\ err' = [err EXCEPT ![c] = NoError]
  /\ stage' = [stage EXCEPT ![c] = "idle"]
  /\ attempt' = [attempt EXCEPT ![c] = 0]
  /\ used' = [used EXCEPT ![c] = 0]
  /\ sleepLeft' = [sleepLeft EXCEPT ![c] = 0]
  /\ gone' = [gone EXCEPT ![c] = FALSE]
  /\ handled' = [handled EXCEPT ![c] = FALSE]
  /\ asked' = [asked EXCEPT ![c] = 0]
  /\ UNCHANGED <<attemptAge, made, timeouts, resets>>

\* Nothing that is due is late: a call ends at its timeout or deadline, a
\* sleeper wakes, a cancelled context is noticed and a result is delivered
\* before the clock moves on.
Due(c) ==
  \/ stage[c] = "returning" \/ gone[c]
  \/ stage[c] = "attempt" /\ (attemptAge[c] >= VendorTimeout \/ used[c] >= RequestBudget)
  \/ stage[c] = "sleep" /\ (sleepLeft[c] = 0 \/ used[c] >= RequestBudget)

TimePasses ==
  /\ \A c \in Requests : ~Due(c)
  /\ used' = [c \in Requests |-> IF c \in Active THEN used[c] + 1 ELSE 0]
  /\ attemptAge' = [c \in Requests |-> IF stage[c] = "attempt" THEN attemptAge[c] + 1 ELSE 0]
  /\ sleepLeft' = [c \in Requests |-> IF sleepLeft[c] > 0 THEN sleepLeft[c] - 1 ELSE 0]
  /\ asked' = [c \in Requests |-> IF asked[c] > 0 THEN asked[c] - 1 ELSE 0]
  /\ UNCHANGED <<stage, attempt, err, gone, vendor, timeouts, resets>>

\* The steps of a request between its beginning and its result.
Works(c) ==
  \/ Responded(c) \/ Expired(c) \/ Canceled(c) \/ NetworkFails(c)
  \/ Wake(c) \/ SleepAborted(c)

RetrierNext ==
  \/ TimePasses
  \/ \E c \in Requests :
       \/ Begin(c) \/ CallerLeaves(c) \/ VendorCreates(c)
       \/ Works(c) \/ Deliver(c)

RetrierSpec == RetrierInit /\ [][RetrierNext]_rvars

-----------------------------------------------------------------------------
Errors == [code : {"UPSTREAM_UNAVAILABLE", "UPSTREAM_CONTRACT", "UPSTREAM_TIMEOUT", "NONE"},
           status : {200, 502, 504}, marker : Markers, retryAfter : VendorWaits \cup {0}]

(* Every variable has its type: in particular no request makes more than     *)
(* Attempts calls, and none outlives its budget.                             *)
RetrierTypeOK ==
  /\ stage \in [Requests -> {"idle", "attempt", "sleep", "returning"}]
  /\ attempt \in [Requests -> 0..Attempts]
  /\ err \in [Requests -> Errors]
  /\ used \in [Requests -> 0..RequestBudget]
  /\ attemptAge \in [Requests -> 0..VendorTimeout]
  /\ sleepLeft \in [Requests -> Nat]
  /\ gone \in [Requests -> BOOLEAN]
  /\ handled \in [Requests -> BOOLEAN]
  /\ made \in [Requests -> Nat]
  /\ timeouts \in [Requests -> Nat]
  /\ resets \in [Requests -> Nat]
  /\ asked \in [Requests -> Nat]

(* Retrying creates a second quote only behind a failure that left the first *)
(* one in doubt: a timeout, or a connection that broke after the vendor's    *)
(* handler had run. Every other failure that is retried provably produced    *)
(* none, and every other failure that may have produced one is not retried.  *)
NoNeedlessDuplicate ==
  \A c \in Requests : made[c] <= 1 + timeouts[c] + resets[c]

(* "Only failures that provably produced no quote" (vendor.go:42, :163): of  *)
(* those retried, the timeout alone is accepted as ambiguous.                *)
OnlyTimeoutsDuplicate ==
  \A c \in Requests : made[c] <= 1 + timeouts[c]

(* "No quote was created, so nothing is duplicated by trying again."         *)
(* (App.tsx:115), which the user is shown for every failure that reaches     *)
(* them from here.                                                           *)
FailureMeansNoQuote ==
  [][\A c \in Requests : Deliver(c) /\ err[c] # NoError /\ ~gone[c] => made[c] = 0]_rvars

(* A retry starts with more than minAttemptBudget of the budget left, also   *)
(* after a sleep the vendor's Retry-After made longer (retry.go:23-26).      *)
RetryHasBudget ==
  \A c \in Requests :
    stage[c] = "attempt" /\ attempt[c] > 1 /\ attemptAge[c] = 0
      => RequestBudget - used[c] > MinAttemptBudget

(* Of the two contexts that can end a sleep, only the caller's does: no      *)
(* request spends the end of its budget waiting for an attempt that is never *)
(* made, and is then answered with a failure of before the wait              *)
(* (retry.go:96, :131-137).                                                  *)
SleepNotCutShort ==
  [][\A c \in Requests : stage[c] = "sleep" /\ stage'[c] = "returning" => gone[c]]_rvars

(* The vendor is not called again before the Retry-After it sent is over     *)
(* (contract.md section 6, "Honour Retry-After if present").                 *)
RetryAfterHonoured ==
  \A c \in Requests : stage[c] = "attempt" => asked[c] = 0
=============================================================================
