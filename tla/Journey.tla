------------------------------ MODULE Journey ------------------------------
(***************************************************************************)
(* A quote request from the page to the Middleware and back: web/src       *)
(* (App.tsx, api.ts), the BFF's Quote and its client of the Middleware     *)
(* (internal/cqappbff/quotes.go), the order of the Middleware's own checks *)
(* (handler.go), and the BFF's life as a server (httpx/server.go).         *)
(*                                                                         *)
(* What the layers owe each other is here: whose timeout ends first, whose *)
(* error is shown, and what still runs when the page has its answer. The   *)
(* Middleware's work with the vendor is one stretch of at most             *)
(* RequestBudget ticks (RetrierTypeOK of Retrier) and ends in any of the   *)
(* errors that Retrier and Breaker return.                                 *)
(*                                                                         *)
(* A connection can break, which both ends notice, or go silent, which     *)
(* neither does.                                                           *)
(***************************************************************************)
EXTENDS Httpx

CONSTANTS
  Submissions,   \* of one page, each used once
  RequestBudget, \* of the Middleware, in ticks
  BFFTimeout,    \* the deadline of the BFF's request and of its client
  Grace          \* ShutdownGrace

ASSUME JourneyAssumption == {RequestBudget, BFFTimeout, Grace} \subseteq Nat

VARIABLES
  page,       \* of each submission: "unsent", "waiting" or "ended"
  shown,      \* what the page made of it
  bff,        \* "none", "arrived", "calling", "answered" or "over"
  bffAnswer,  \* what the BFF answers
  bffAge,     \* ticks in the BFF, of what is in hand there
  mw,         \* "none", "arrived", "vendor", "answered" or "over"
  mwAnswer,   \* what the Middleware answered, NoAnswer before
  mwAge,      \* ticks in the Middleware, alike
  front,      \* the connection to the BFF: "good", "broken" or "silent"
  back,       \* the connection to the Middleware, alike
  server,     \* the BFF's process: "up", "draining" or "down"
  graceLeft   \* of a drain

pages   == <<page, shown>>
bffs    == <<bff, bffAnswer, bffAge>>
mws     == <<mw, mwAnswer, mwAge>>
process == <<server, graceLeft>>
jvars   == <<pages, bffs, mws, front, back, process>>

NoAnswer == HttpError("PENDING", 0)

View(kind, code) == [kind |-> kind, code |-> code]

JourneyInit ==
  /\ page = [s \in Submissions |-> "unsent"]
  /\ shown = [s \in Submissions |-> View("nothing", "")]
  /\ bff = [s \in Submissions |-> "none"]
  /\ bffAnswer = [s \in Submissions |-> NoAnswer]
  /\ bffAge = [s \in Submissions |-> 0]
  /\ mw = [s \in Submissions |-> "none"]
  /\ mwAnswer = [s \in Submissions |-> NoAnswer]
  /\ mwAge = [s \in Submissions |-> 0]
  /\ front = [s \in Submissions |-> "good"]
  /\ back = [s \in Submissions |-> "good"]
  /\ server = "up" /\ graceLeft = 0

InBFF(s) == bff[s] \in {"arrived", "calling"}
InMiddleware(s) == mw[s] \in {"arrived", "vendor"}

-----------------------------------------------------------------------------
(* The page. *)

\* Quoting.handle(), and setQuote for an answer without an error.
Handle(e) ==
  CASE e = NoError                     -> View("quote", "")
    [] e.code = "UNAUTHENTICATED"      -> View("signIn", "")
    [] e.code = "FORBIDDEN"            -> View("notEntitled", "")
    [] e.code = "VALIDATION_FAILED"    -> View("fields", "")
    [] OTHER                           -> View("banner", e.code)

\* An error whose body does not parse becomes INTERNAL; a quote whose body
\* does not is null, and nothing is shown for it.
HandleWithoutBody(e) == IF e = NoError THEN View("nothing", "") ELSE Handle(Internal)

\* The button is disabled while one is waited for, and NotEntitled has none.
CanSubmit(s) ==
  /\ page[s] = "unsent"
  /\ \A r \in Submissions : page[r] # "waiting" /\ shown[r].kind # "notEntitled"

Submit(s) ==
  /\ CanSubmit(s) /\ server = "up"
  /\ page' = [page EXCEPT ![s] = "waiting"]
  /\ bff' = [bff EXCEPT ![s] = "arrived"]
  /\ UNCHANGED <<shown, bffAnswer, bffAge, mws, front, back, process>>

\* The edge finds no BFF and answers 502 with a page of its own.
SubmitInVain(s) ==
  /\ CanSubmit(s) /\ server # "up"
  /\ page' = [page EXCEPT ![s] = "ended"]
  /\ shown' = [shown EXCEPT ![s] = HandleWithoutBody(NotAnEnvelope)]
  /\ UNCHANGED <<bffs, mws, front, back, process>>

PageReceives(s) ==
  /\ page[s] = "waiting" /\ bff[s] = "answered" /\ front[s] = "good"
  /\ page' = [page EXCEPT ![s] = "ended"]
  /\ shown' = [shown EXCEPT ![s] = Handle(bffAnswer[s])]
  /\ bff' = [bff EXCEPT ![s] = "over"]
  /\ UNCHANGED <<bffAnswer, bffAge, mws, front, back, process>>

\* The connection breaks: before the headers, or between them and the body.
FrontBreaks(s) ==
  /\ page[s] = "waiting" /\ front[s] = "good"
  /\ front' = [front EXCEPT ![s] = "broken"]
  /\ page' = [page EXCEPT ![s] = "ended"]
  /\ \/ shown' = [shown EXCEPT ![s] = View("banner", "NETWORK")]
     \/ bff[s] = "answered" /\ shown' = [shown EXCEPT ![s] = HandleWithoutBody(bffAnswer[s])]
  /\ UNCHANGED <<bffs, mws, back, process>>

FrontFallsSilent(s) ==
  /\ page[s] = "waiting" /\ front[s] = "good"
  /\ front' = [front EXCEPT ![s] = "silent"]
  /\ UNCHANGED <<pages, bffs, mws, back, process>>

-----------------------------------------------------------------------------
(* The BFF. *)

BFFAnswers(s, e) ==
  /\ bff' = [bff EXCEPT ![s] = "answered"]
  /\ bffAnswer' = [bffAnswer EXCEPT ![s] = e]
  /\ bffAge' = [bffAge EXCEPT ![s] = 0]

\* Handler.Quote: the session check, then the call.
NoSession(s) ==
  /\ bff[s] = "arrived"
  /\ BFFAnswers(s, Unauthenticated)
  /\ UNCHANGED <<pages, mws, front, back, process>>

Forward(s) ==
  /\ bff[s] = "arrived"
  /\ bff' = [bff EXCEPT ![s] = "calling"]
  /\ mw' = [mw EXCEPT ![s] = "arrived"]
  /\ UNCHANGED <<pages, bffAnswer, bffAge, mwAnswer, mwAge, front, back, process>>

\* A 200 as it is; an error by its code, without its Retry-After; a 401 is the
\* BFF's own fault, not the user's.
Rewrite(e) ==
  IF e.code = "" THEN UpstreamContract
  ELSE IF e.status = 401 THEN UpstreamUnavailable
  ELSE [e EXCEPT !.retryAfter = 0]

BFFReceives(s) ==
  /\ bff[s] = "calling" /\ mw[s] = "answered" /\ back[s] = "good"
  /\ BFFAnswers(s, Rewrite(mwAnswer[s]))
  /\ mw' = [mw EXCEPT ![s] = "over"]
  /\ UNCHANGED <<pages, mwAnswer, mwAge, front, back, process>>

\* Mutant: the inner layer is not given the time it may take.
PatienceBelowBudget == RequestBudget - 1

\* Mutant: the deadline comes a tick late.
PatienceAboveDeadline == BFFTimeout + 1

\* When the request's context and the client's timeout end, which is together.
Patience == BFFTimeout

\* Mutant: the deadline is renewed, as a timeout of each read would be.
BFFWaitsOn(s) ==
  /\ bff[s] = "calling" /\ bffAge[s] >= Patience
  /\ bffAge' = [bffAge EXCEPT ![s] = 0]
  /\ UNCHANGED <<pages, bff, bffAnswer, mws, front, back, process>>

BFFExpires(s) ==
  /\ bff[s] = "calling" /\ bffAge[s] >= Patience
  /\ \/ BFFAnswers(s, UpstreamTimeout)
     \/ mw[s] = "answered" /\ BFFAnswers(s, UpstreamContract) \* while it reads the body
  /\ UNCHANGED <<pages, mws, front, back, process>>

\* Refused or reset; or cut off within the Middleware's answer.
BackBreaks(s) ==
  /\ bff[s] = "calling" /\ back[s] = "good"
  /\ back' = [back EXCEPT ![s] = "broken"]
  /\ \/ BFFAnswers(s, UpstreamUnavailable)
     \/ mw[s] = "answered" /\ BFFAnswers(s, UpstreamContract)
  /\ UNCHANGED <<pages, mws, front, process>>

BackFallsSilent(s) ==
  /\ bff[s] = "calling" /\ back[s] = "good"
  /\ back' = [back EXCEPT ![s] = "silent"]
  /\ UNCHANGED <<pages, bffs, mws, front, process>>

\* The page is gone: the request's context is cancelled, and with it the call.
BFFNotices(s) ==
  /\ InBFF(s) /\ front[s] = "broken"
  /\ bff' = [bff EXCEPT ![s] = "over"]
  /\ bffAge' = [bffAge EXCEPT ![s] = 0]
  /\ UNCHANGED <<pages, bffAnswer, mws, front, back, process>>

-----------------------------------------------------------------------------
(* The Middleware. *)

MiddlewareAnswers(s, answers) ==
  /\ mw' = [mw EXCEPT ![s] = "answered"]
  /\ \E e \in answers : mwAnswer' = [mwAnswer EXCEPT ![s] = e]
  /\ mwAge' = [mwAge EXCEPT ![s] = 0]
  /\ UNCHANGED <<pages, bffs, front, back, process>>

\* Authenticate, Authorise and Validate, before the vendor is called; or what
\* answers at its address is not the Middleware's handler.
Refused(s) ==
  /\ mw[s] = "arrived"
  /\ MiddlewareAnswers(s, {Unauthenticated, Forbidden, ValidationFailed, NotAnEnvelope})

CallsVendor(s) ==
  /\ mw[s] = "arrived"
  /\ mw' = [mw EXCEPT ![s] = "vendor"]
  /\ UNCHANGED <<pages, bffs, mwAnswer, mwAge, front, back, process>>

VendorOutcomes ==
  {NoError, UpstreamUnavailable, UpstreamContract, UpstreamTimeout, CircuitOpen(1), Internal}

Returned(s) ==
  /\ mw[s] = "vendor"
  /\ MiddlewareAnswers(s, VendorOutcomes)

\* Its caller has hung up, and the connection tells it so.
CalledInVain(s) ==
  mw[s] \in {"arrived", "vendor", "answered"} /\ bff[s] # "calling" /\ back[s] # "silent"

MiddlewareNotices(s) ==
  /\ CalledInVain(s)
  /\ mw' = [mw EXCEPT ![s] = "over"]
  /\ mwAge' = [mwAge EXCEPT ![s] = 0]
  /\ UNCHANGED <<pages, bffs, mwAnswer, front, back, process>>

-----------------------------------------------------------------------------
(* The BFF's server, and time. *)

Signal ==
  /\ server = "up"
  /\ server' = "draining" /\ graceLeft' = Grace
  /\ UNCHANGED <<pages, bffs, mws, front, back>>

\* Mutant: the listener and every connection are closed at once.
DrainedAtOnce == TRUE

Drained == (\A s \in Submissions : ~InBFF(s)) \/ graceLeft = 0

\* Shutdown returns: nothing is in hand, or the grace is over and what is in
\* hand goes down with the process.
Exit ==
  /\ server = "draining" /\ Drained
  /\ server' = "down" /\ graceLeft' = 0
  /\ bff' = [s \in Submissions |-> IF InBFF(s) THEN "over" ELSE bff[s]]
  /\ front' = [s \in Submissions |-> IF InBFF(s) THEN "broken" ELSE front[s]]
  /\ page' = [s \in Submissions |-> IF InBFF(s) /\ front[s] = "good" THEN "ended" ELSE page[s]]
  /\ shown' = [s \in Submissions |->
       IF InBFF(s) /\ front[s] = "good" THEN HandleWithoutBody(NotAnEnvelope) ELSE shown[s]]
  /\ bffAge' = [s \in Submissions |-> 0]
  /\ UNCHANGED <<bffAnswer, mws, back>>

StartAgain ==
  /\ server = "down"
  /\ server' = "up"
  /\ UNCHANGED <<pages, bffs, mws, front, back, graceLeft>>

\* What takes no time: everything but the vendor, and timers that are due.
Due(s) ==
  \/ "arrived" \in {bff[s], mw[s]}
  \/ InBFF(s) /\ front[s] = "broken"
  \/ bff[s] = "calling" /\ bffAge[s] >= Patience
  \/ bff[s] = "calling" /\ mw[s] = "answered" /\ back[s] = "good"
  \/ bff[s] = "answered" /\ page[s] = "waiting" /\ front[s] = "good"
  \/ mw[s] = "vendor" /\ mwAge[s] >= RequestBudget
  \/ CalledInVain(s)

TimePasses ==
  /\ \A s \in Submissions : ~Due(s)
  /\ server = "draining" => ~Drained
  /\ server = "draining" \/ \E s \in Submissions : InBFF(s) \/ InMiddleware(s)
  /\ bffAge' = [s \in Submissions |-> IF InBFF(s) THEN bffAge[s] + 1 ELSE bffAge[s]]
  /\ mwAge' = [s \in Submissions |-> IF InMiddleware(s) THEN mwAge[s] + 1 ELSE mwAge[s]]
  /\ graceLeft' = IF graceLeft > 0 THEN graceLeft - 1 ELSE 0
  /\ UNCHANGED <<pages, bff, bffAnswer, mw, mwAnswer, front, back, server>>

\* What the code and the runtime see to.
Handled(s) ==
  \/ PageReceives(s) \/ NoSession(s) \/ Forward(s) \/ BFFReceives(s) \/ BFFExpires(s)
  \/ BFFNotices(s) \/ Refused(s) \/ CallsVendor(s) \/ Returned(s) \/ MiddlewareNotices(s)

JourneyNext ==
  \/ TimePasses \/ Signal \/ Exit \/ StartAgain
  \/ \E s \in Submissions :
       \/ Submit(s) \/ SubmitInVain(s) \/ Handled(s)
       \/ FrontBreaks(s) \/ FrontFallsSilent(s) \/ BackBreaks(s) \/ BackFallsSilent(s)

(* Handlers run, connections deliver while they work, and time passes.       *)
JourneySpec ==
  /\ JourneyInit /\ [][JourneyNext]_jvars
  /\ WF_jvars(TimePasses) /\ WF_jvars(Exit)
  /\ \A s \in Submissions : WF_jvars(Handled(s))

-----------------------------------------------------------------------------
\* What a handler can have answered.
Answers ==
  {NoAnswer, Unauthenticated, Forbidden, ValidationFailed, NotAnEnvelope} \cup VendorOutcomes

\* Rewrite drops the wait.
BFFAnswersSeen == {[e EXCEPT !.retryAfter = 0] : e \in Answers}

(* Every variable has its type; in particular no request is in the BFF       *)
(* longer than its deadline or in the Middleware longer than its budget.     *)
JourneyTypeOK ==
  /\ page \in [Submissions -> {"unsent", "waiting", "ended"}]
  /\ \A s \in Submissions : shown[s].kind # "nothing" => page[s] = "ended"
  /\ bff \in [Submissions -> {"none", "arrived", "calling", "answered", "over"}]
  /\ bffAnswer \in [Submissions -> BFFAnswersSeen]
  /\ bffAge \in [Submissions -> 0..BFFTimeout]
  /\ mw \in [Submissions -> {"none", "arrived", "vendor", "answered", "over"}]
  /\ mwAnswer \in [Submissions -> Answers]
  /\ mwAge \in [Submissions -> 0..RequestBudget]
  /\ front \in [Submissions -> {"good", "broken", "silent"}]
  /\ back \in [Submissions -> {"good", "broken", "silent"}]
  /\ server \in {"up", "draining", "down"}
  /\ graceLeft \in 0..Grace

(* A shutdown cuts no request short: the grace covers what one may take.     *)
DrainCutsNothing ==
  [][server = "draining" /\ server' = "down" => \A s \in Submissions : ~InBFF(s)]_jvars

(* A page that waits gets its answer, unless its own connection is silent:   *)
(* whatever happens behind the BFF, and through a restart of it.             *)
PageIsAnswered ==
  \A s \in Submissions : page[s] = "waiting" ~> page[s] = "ended" \/ front[s] = "silent"
-----------------------------------------------------------------------------
\* What has been decided: that nobody is signed in, or what the Middleware
\* answered. Its refusal of the BFF's token is no verdict on the user
\* (quotes.go:129-134), and an answer without an envelope is nobody's.
Decided(s) ==
  IF mw[s] = "none" /\ bffAnswer[s] = Unauthenticated THEN View("signIn", "")
  ELSE CASE mwAnswer[s] = NoAnswer        -> View("undecided", "")
         [] mwAnswer[s] = Unauthenticated -> View("banner", "UPSTREAM_UNAVAILABLE")
         [] mwAnswer[s] = NotAnEnvelope   -> View("banner", "UPSTREAM_CONTRACT")
         [] OTHER                         -> Handle(mwAnswer[s])

Banners(codes) == {View("banner", code) : code \in codes}

Upstream == {"UPSTREAM_TIMEOUT", "UPSTREAM_UNAVAILABLE", "UPSTREAM_CONTRACT"}

VerdictViews ==
  {View(kind, "") : kind \in {"quote", "signIn", "notEntitled", "fields"}}
    \cup Banners(Upstream \cup {"UPSTREAM_CIRCUIT_OPEN", "INTERNAL"})

FaultViews == {View("nothing", "")} \cup Banners(Upstream \cup {"NETWORK", "INTERNAL"})

Service ==
  INSTANCE QuoteService WITH
    Verdicts <- VerdictViews,
    Faults   <- FaultViews,
    verdict  <- [s \in Submissions |-> Decided(s)],
    working  <- {s \in Submissions : bff[s] = "arrived" \/ InMiddleware(s)},
    broken   <- {s \in Submissions : "broken" \in {front[s], back[s]}},
    silent   <- {s \in Submissions : "silent" \in {front[s], back[s]}}

(* With its deadlines as they nest, all this is the service that QuoteService *)
(* specifies. "The inner layer always reports the specific failure rather   *)
(* than the outer layer reporting a generic timeout" (contract.md:247-248): *)
(* a page with its connections good shows what was decided. It is sent to   *)
(* sign in only if the BFF has no session (contract.md:204). And since "a   *)
(* second submit while one is in flight could bill twice" (App.tsx:70), the *)
(* form comes back to life only when nothing is at work for it, unless a    *)
(* connection broke: a Middleware that fell silent has ended by its own     *)
(* deadline before the BFF gives it up.                                     *)
ImplementsService == Service!Spec
=============================================================================
