--------------------------- MODULE JourneyProofs ---------------------------
(***************************************************************************)
(* Theorems about Journey, for any number of submissions and any budgets    *)
(* that nest: page, BFF and Middleware together are the QuoteService, and   *)
(* a shutdown of the BFF cuts no request short.                             *)
(*                                                                         *)
(* The invariant says of each submission how the stages, answers, clocks   *)
(* and connections of its two handlers belong together.                    *)
(***************************************************************************)
EXTENDS Journey, TLAPS

Budgets == RequestBudget < BFFTimeout

-----------------------------------------------------------------------------
(* Errors and views.                                                         *)

LEMMA Records ==
  /\ NoAnswer            = [code |-> "PENDING", status |-> 0, marker |-> "none", retryAfter |-> 0]
  /\ NoError             = [code |-> "NONE", status |-> 200, marker |-> "none", retryAfter |-> 0]
  /\ UpstreamUnavailable = [code |-> "UPSTREAM_UNAVAILABLE", status |-> 502, marker |-> "none", retryAfter |-> 0]
  /\ UpstreamContract    = [code |-> "UPSTREAM_CONTRACT", status |-> 502, marker |-> "none", retryAfter |-> 0]
  /\ UpstreamTimeout     = [code |-> "UPSTREAM_TIMEOUT", status |-> 504, marker |-> "none", retryAfter |-> 0]
  /\ ValidationFailed    = [code |-> "VALIDATION_FAILED", status |-> 400, marker |-> "none", retryAfter |-> 0]
  /\ Unauthenticated     = [code |-> "UNAUTHENTICATED", status |-> 401, marker |-> "none", retryAfter |-> 0]
  /\ Forbidden           = [code |-> "FORBIDDEN", status |-> 403, marker |-> "none", retryAfter |-> 0]
  /\ Internal            = [code |-> "INTERNAL", status |-> 500, marker |-> "none", retryAfter |-> 0]
  /\ NotAnEnvelope       = [code |-> "", status |-> 404, marker |-> "none", retryAfter |-> 0]
BY DEF NoAnswer, NoError, UpstreamUnavailable, UpstreamContract, UpstreamTimeout,
       ValidationFailed, Unauthenticated, Forbidden, Internal, NotAnEnvelope, HttpError

LEMMA CircuitOpenRecord ==
  ASSUME NEW n
  PROVE  CircuitOpen(n) =
           [code |-> "UPSTREAM_CIRCUIT_OPEN", status |-> 503, marker |-> "none", retryAfter |-> n]
BY DEF CircuitOpen, HttpError

LEMMA RewriteTable ==
  /\ Rewrite(Unauthenticated) = UpstreamUnavailable
  /\ Rewrite(NotAnEnvelope) = UpstreamContract
  /\ Rewrite(CircuitOpen(1)) = CircuitOpen(0)
  /\ \A e \in {NoError, Forbidden, ValidationFailed, Internal,
               UpstreamUnavailable, UpstreamContract, UpstreamTimeout} : Rewrite(e) = e
<1>1. Rewrite(Unauthenticated) = UpstreamUnavailable
  BY DEF Rewrite, Unauthenticated, HttpError
<1>2. Rewrite(NotAnEnvelope) = UpstreamContract
  BY DEF Rewrite, NotAnEnvelope, HttpError
<1>3. Rewrite(CircuitOpen(1)) = CircuitOpen(0)
  <2>1. Rewrite([code |-> "UPSTREAM_CIRCUIT_OPEN", status |-> 503, marker |-> "none", retryAfter |-> 1])
          = [code |-> "UPSTREAM_CIRCUIT_OPEN", status |-> 503, marker |-> "none", retryAfter |-> 0]
    BY DEF Rewrite
  <2> QED BY <2>1, CircuitOpenRecord
<1>4. Rewrite(NoError) = NoError
  BY DEF Rewrite, NoError, HttpError
<1>5. Rewrite(Forbidden) = Forbidden
  BY DEF Rewrite, Forbidden, HttpError
<1>6. Rewrite(ValidationFailed) = ValidationFailed
  BY DEF Rewrite, ValidationFailed, HttpError
<1>7. Rewrite(Internal) = Internal
  BY DEF Rewrite, Internal, HttpError
<1>8. Rewrite(UpstreamUnavailable) = UpstreamUnavailable
  BY DEF Rewrite, UpstreamUnavailable, HttpError
<1>9. Rewrite(UpstreamContract) = UpstreamContract
  BY DEF Rewrite, UpstreamContract, HttpError
<1>10. Rewrite(UpstreamTimeout) = UpstreamTimeout
  BY DEF Rewrite, UpstreamTimeout, HttpError
<1> QED BY <1>1, <1>2, <1>3, <1>4, <1>5, <1>6, <1>7, <1>8, <1>9, <1>10, Zenon

LEMMA HandleTable ==
  /\ Handle(NoError) = View("quote", "")
  /\ Handle(Unauthenticated) = View("signIn", "")
  /\ Handle(Forbidden) = View("notEntitled", "")
  /\ Handle(ValidationFailed) = View("fields", "")
  /\ Handle(Internal) = View("banner", "INTERNAL")
  /\ Handle(UpstreamUnavailable) = View("banner", "UPSTREAM_UNAVAILABLE")
  /\ Handle(UpstreamContract) = View("banner", "UPSTREAM_CONTRACT")
  /\ Handle(UpstreamTimeout) = View("banner", "UPSTREAM_TIMEOUT")
  /\ \A n \in {0, 1} : Handle(CircuitOpen(n)) = View("banner", "UPSTREAM_CIRCUIT_OPEN")
<1> USE Records DEF Handle
<1>1. Handle(NoError) = View("quote", "")
  OBVIOUS
<1>2. Handle(Unauthenticated) = View("signIn", "")
  OBVIOUS
<1>3. Handle(Forbidden) = View("notEntitled", "")
  OBVIOUS
<1>4. Handle(ValidationFailed) = View("fields", "")
  OBVIOUS
<1>5. Handle(Internal) = View("banner", "INTERNAL")
  OBVIOUS
<1>6. /\ Handle(UpstreamUnavailable) = View("banner", "UPSTREAM_UNAVAILABLE")
      /\ Handle(UpstreamContract) = View("banner", "UPSTREAM_CONTRACT")
      /\ Handle(UpstreamTimeout) = View("banner", "UPSTREAM_TIMEOUT")
  OBVIOUS
<1>7. \A n \in {0, 1} : Handle(CircuitOpen(n)) = View("banner", "UPSTREAM_CIRCUIT_OPEN")
  BY CircuitOpenRecord
<1> QED BY <1>1, <1>2, <1>3, <1>4, <1>5, <1>6, <1>7

LEMMA ViewTable ==
  /\ {View("quote", ""), View("signIn", ""), View("notEntitled", ""), View("fields", ""),
      View("banner", "INTERNAL"), View("banner", "UPSTREAM_UNAVAILABLE"),
      View("banner", "UPSTREAM_CONTRACT"), View("banner", "UPSTREAM_TIMEOUT"),
      View("banner", "UPSTREAM_CIRCUIT_OPEN")} \subseteq VerdictViews
  /\ {View("nothing", ""), View("banner", "NETWORK"), View("banner", "INTERNAL"),
      View("banner", "UPSTREAM_UNAVAILABLE"), View("banner", "UPSTREAM_CONTRACT"),
      View("banner", "UPSTREAM_TIMEOUT")} \subseteq FaultViews
BY DEF VerdictViews, FaultViews, Banners, Upstream

\* The errors differ in their codes.
LEMMA Distinct ==
  /\ NoAnswer \notin {NoError, Unauthenticated, Forbidden, ValidationFailed, NotAnEnvelope, Internal,
                      UpstreamUnavailable, UpstreamContract, UpstreamTimeout, CircuitOpen(1)}
  /\ Unauthenticated \notin {NoError, Forbidden, ValidationFailed, NotAnEnvelope, Internal,
                      UpstreamUnavailable, UpstreamContract, UpstreamTimeout,
                      CircuitOpen(1), CircuitOpen(0)}
  /\ NotAnEnvelope \notin {NoError, Forbidden, ValidationFailed, Internal,
                      UpstreamUnavailable, UpstreamContract, UpstreamTimeout, CircuitOpen(1)}
<1>1. /\ NoAnswer.code = "PENDING" /\ NoError.code = "NONE"
      /\ Unauthenticated.code = "UNAUTHENTICATED" /\ Forbidden.code = "FORBIDDEN"
      /\ ValidationFailed.code = "VALIDATION_FAILED" /\ NotAnEnvelope.code = ""
      /\ Internal.code = "INTERNAL" /\ UpstreamUnavailable.code = "UPSTREAM_UNAVAILABLE"
      /\ UpstreamContract.code = "UPSTREAM_CONTRACT" /\ UpstreamTimeout.code = "UPSTREAM_TIMEOUT"
  BY Records
<1>2. CircuitOpen(1).code = "UPSTREAM_CIRCUIT_OPEN" /\ CircuitOpen(0).code = "UPSTREAM_CIRCUIT_OPEN"
  BY CircuitOpenRecord
<1> QED BY <1>1, <1>2

LEMMA RewriteType ==
  ASSUME NEW e \in Answers
  PROVE  Rewrite(e) \in BFFAnswersSeen
<1>1. CASE e.code = ""
  <2>1. [UpstreamContract EXCEPT !.retryAfter = 0] = UpstreamContract
    BY DEF UpstreamContract, HttpError
  <2>2. UpstreamContract \in Answers
    BY DEF Answers, VendorOutcomes
  <2>3. Rewrite(e) = UpstreamContract
    BY <1>1 DEF Rewrite
  <2> QED BY <2>1, <2>2, <2>3 DEF BFFAnswersSeen
<1>2. CASE e.code # "" /\ e.status = 401
  <2>1. [UpstreamUnavailable EXCEPT !.retryAfter = 0] = UpstreamUnavailable
    BY DEF UpstreamUnavailable, HttpError
  <2>2. UpstreamUnavailable \in Answers
    BY DEF Answers, VendorOutcomes
  <2>3. Rewrite(e) = UpstreamUnavailable
    BY <1>2 DEF Rewrite
  <2> QED BY <2>1, <2>2, <2>3 DEF BFFAnswersSeen
<1>3. CASE e.code # "" /\ e.status # 401
  BY <1>3 DEF Rewrite, BFFAnswersSeen
<1> QED BY <1>1, <1>2, <1>3

\* What the BFF makes of an answer of the Middleware, and that the page shows
\* it as the verdict that the answer is.
Meaning(e) ==
  CASE e = NoAnswer        -> View("undecided", "")
    [] e = Unauthenticated -> View("banner", "UPSTREAM_UNAVAILABLE")
    [] e = NotAnEnvelope   -> View("banner", "UPSTREAM_CONTRACT")
    [] OTHER               -> Handle(e)

LEMMA Rewritten ==
  ASSUME NEW e \in Answers \ {NoAnswer}
  PROVE  /\ Rewrite(e) \in BFFAnswersSeen
         /\ Rewrite(e) # Unauthenticated
         /\ Handle(Rewrite(e)) = Meaning(e)
         /\ Meaning(e) \in VerdictViews
<1>1. CASE e = Unauthenticated
  BY <1>1, RewriteTable, HandleTable, ViewTable, Distinct, RewriteType DEF Meaning
<1>2. CASE e = NotAnEnvelope
  BY <1>2, RewriteTable, HandleTable, ViewTable, Distinct, RewriteType DEF Meaning
<1>3. CASE e = CircuitOpen(1)
  BY <1>3, RewriteTable, HandleTable, ViewTable, Distinct, RewriteType DEF Meaning
<1>4. CASE e \in {Forbidden, ValidationFailed, NoError, Internal,
                  UpstreamUnavailable, UpstreamContract, UpstreamTimeout}
  BY <1>4, RewriteTable, HandleTable, ViewTable, Distinct, RewriteType DEF Meaning
<1> QED BY <1>1, <1>2, <1>3, <1>4 DEF Answers, VendorOutcomes

-----------------------------------------------------------------------------
(* The invariant.                                                            *)

\* A stage of a submission and what goes with it.
Stages(s) ==
  /\ page[s] = "unsent" => bff[s] = "none"
  /\ InBFF(s) => page[s] = "waiting" \/ front[s] = "broken"
  /\ bff[s] \in {"none", "arrived"} =>
       mw[s] = "none" /\ back[s] = "good" /\ bffAnswer[s] = NoAnswer
  /\ bff[s] = "calling" =>
       /\ mw[s] \in {"arrived", "vendor", "answered"} /\ back[s] \in {"good", "silent"}
       /\ bffAnswer[s] = NoAnswer
  /\ mw[s] \in {"none", "arrived", "vendor"} => mwAnswer[s] = NoAnswer
  /\ mw[s] = "answered" => mwAnswer[s] # NoAnswer

\* The clocks of the two services agree while both are at work, and whoever
\* works on behind the other's back does so because a connection broke.
Clocks(s) ==
  /\ bff[s] \in {"none", "arrived"} => bffAge[s] = 0
  /\ mw[s] \in {"none", "arrived"} => mwAge[s] = 0
  /\ bff[s] = "calling" /\ InMiddleware(s) => mwAge[s] = bffAge[s]
  /\ bff[s] = "calling" /\ back[s] = "good" => bffAge[s] <= RequestBudget
  /\ InMiddleware(s) /\ bff[s] # "calling" => "broken" \in {front[s], back[s]}

\* What the BFF answers is the verdict, or a fault of its own connection behind
\* which nobody works on, unless it broke.
Answered(s) ==
  bff[s] = "answered" =>
    \/ mw[s] = "none" /\ bffAnswer[s] = Unauthenticated
    \/ mw[s] = "over" /\ mwAnswer[s] # NoAnswer /\ bffAnswer[s] = Rewrite(mwAnswer[s])
    \/ /\ mw[s] # "none" /\ back[s] # "good"
       /\ bffAnswer[s] \in {UpstreamTimeout, UpstreamUnavailable, UpstreamContract}
       /\ InMiddleware(s) => back[s] = "broken"

\* A drain's grace and the deadline of what is in hand run down together.
Draining(s) ==
  server = "draining" /\ InBFF(s) => graceLeft + bffAge[s] >= Grace

ShownIsFunction == shown = [s \in Submissions |-> shown[s]]

JourneyInv ==
  /\ JourneyTypeOK /\ ShownIsFunction
  /\ \A s \in Submissions : Stages(s) /\ Clocks(s) /\ Answered(s) /\ Draining(s)

Related(s) == Stages(s) /\ Clocks(s) /\ Answered(s) /\ Draining(s)

LEMMA Naturals == RequestBudget \in Nat /\ BFFTimeout \in Nat /\ Grace \in Nat
BY JourneyAssumption

LEMMA OwnAnswers ==
  /\ {NoAnswer, Unauthenticated, UpstreamTimeout, UpstreamUnavailable, UpstreamContract}
       \subseteq BFFAnswersSeen
  /\ NoAnswer \in Answers
<1>1. /\ [NoAnswer EXCEPT !.retryAfter = 0] = NoAnswer
      /\ [Unauthenticated EXCEPT !.retryAfter = 0] = Unauthenticated
  BY DEF NoAnswer, Unauthenticated, HttpError
<1>2. /\ [UpstreamTimeout EXCEPT !.retryAfter = 0] = UpstreamTimeout
      /\ [UpstreamUnavailable EXCEPT !.retryAfter = 0] = UpstreamUnavailable
      /\ [UpstreamContract EXCEPT !.retryAfter = 0] = UpstreamContract
  BY DEF UpstreamTimeout, UpstreamUnavailable, UpstreamContract, HttpError
<1>3. {NoAnswer, Unauthenticated, UpstreamTimeout, UpstreamUnavailable, UpstreamContract} \subseteq Answers
  BY DEF Answers, VendorOutcomes
<1> QED BY <1>1, <1>2, <1>3 DEF BFFAnswersSeen

LEMMA VendorOutcomesAnswer == \A e \in VendorOutcomes : e \in Answers /\ e # NoAnswer
BY Distinct DEF Answers, VendorOutcomes

LEMMA InitInv == JourneyInit => JourneyInv
<1> SUFFICES ASSUME JourneyInit PROVE JourneyInv
  OBVIOUS
<1>1. JourneyTypeOK /\ ShownIsFunction
  <2>1. \A s \in Submissions : shown[s].kind = "nothing"
    BY DEF View, JourneyInit
  <2>2. 0 \in 0..BFFTimeout /\ 0 \in 0..RequestBudget /\ 0 \in 0..Grace
    BY Naturals
  <2>3. /\ bffAge \in [Submissions -> 0..BFFTimeout] /\ mwAge \in [Submissions -> 0..RequestBudget]
        /\ bffAnswer \in [Submissions -> BFFAnswersSeen] /\ mwAnswer \in [Submissions -> Answers]
        /\ graceLeft \in 0..Grace
    BY <2>2, OwnAnswers, Zenon DEF JourneyInit
  <2> QED BY <2>1, <2>3 DEF JourneyTypeOK, JourneyInit, ShownIsFunction
<1>2. ASSUME NEW s \in Submissions PROVE Stages(s) /\ Clocks(s) /\ Answered(s) /\ Draining(s)
  BY <1>2, Naturals DEF JourneyInit, Stages, Clocks, Answered, Draining, InBFF, InMiddleware
<1> QED BY <1>1, <1>2 DEF JourneyInv

\* A submission that a step of another one leaves alone.
LEMMA Unaffected ==
  ASSUME NEW r \in Submissions, Related(r),
         UNCHANGED <<page[r], bff[r], bffAnswer[r], bffAge[r], mw[r], mwAnswer[r], mwAge[r],
                     front[r], back[r], process>>
  PROVE  Related(r)'
BY DEF Related, Stages, Clocks, Answered, Draining, InBFF, InMiddleware, process

-----------------------------------------------------------------------------
(* The page's steps keep it.                                                 *)

LEMMA PageSteps ==
  ASSUME JourneyInv, NEW s \in Submissions,
         Submit(s) \/ SubmitInVain(s) \/ PageReceives(s) \/ FrontBreaks(s) \/ FrontFallsSilent(s)
  PROVE  JourneyInv'
<1> USE DEF JourneyInv, pages, bffs, mws, process
<1>1. CASE Submit(s)
  <2>1. JourneyTypeOK' /\ ShownIsFunction'
    BY <1>1 DEF ShownIsFunction, Submit, CanSubmit, JourneyTypeOK
  <2>2. Related(s)'
    BY <1>1 DEF Submit, CanSubmit, JourneyTypeOK, Related, Stages, Clocks, Answered, Draining, InBFF, InMiddleware
  <2>3. ASSUME NEW r \in Submissions, r # s PROVE Related(r)'
    BY <1>1, <2>3, Unaffected DEF Submit, JourneyTypeOK, Related
  <2> QED BY <2>1, <2>2, <2>3 DEF Related
<1>2. CASE SubmitInVain(s)
  <2>1. JourneyTypeOK' /\ ShownIsFunction'
    BY <1>2 DEF ShownIsFunction, SubmitInVain, CanSubmit, JourneyTypeOK
  <2>2. Related(s)'
    BY <1>2 DEF SubmitInVain, CanSubmit, JourneyTypeOK, Related, Stages, Clocks, Answered, Draining, InBFF, InMiddleware
  <2>3. ASSUME NEW r \in Submissions, r # s PROVE Related(r)'
    BY <1>2, <2>3, Unaffected DEF SubmitInVain, JourneyTypeOK, Related
  <2> QED BY <2>1, <2>2, <2>3 DEF Related
<1>3. CASE PageReceives(s)
  <2>1. JourneyTypeOK' /\ ShownIsFunction'
    BY <1>3 DEF ShownIsFunction, PageReceives, JourneyTypeOK
  <2>2. Related(s)'
    BY <1>3 DEF PageReceives, JourneyTypeOK, Related, Stages, Clocks, Answered, Draining, InBFF, InMiddleware
  <2>3. ASSUME NEW r \in Submissions, r # s PROVE Related(r)'
    BY <1>3, <2>3, Unaffected DEF PageReceives, JourneyTypeOK, Related
  <2> QED BY <2>1, <2>2, <2>3 DEF Related
<1>4. CASE FrontBreaks(s)
  <2>1. JourneyTypeOK' /\ ShownIsFunction'
    BY <1>4 DEF ShownIsFunction, FrontBreaks, JourneyTypeOK
  <2>2. Related(s)'
    BY <1>4 DEF FrontBreaks, JourneyTypeOK, Related, Stages, Clocks, Answered, Draining, InBFF, InMiddleware
  <2>3. ASSUME NEW r \in Submissions, r # s PROVE Related(r)'
    BY <1>4, <2>3, Unaffected DEF FrontBreaks, JourneyTypeOK, Related
  <2> QED BY <2>1, <2>2, <2>3 DEF Related
<1>5. CASE FrontFallsSilent(s)
  <2>1. JourneyTypeOK' /\ ShownIsFunction'
    BY <1>5 DEF ShownIsFunction, FrontFallsSilent, JourneyTypeOK
  <2>2. Related(s)'
    BY <1>5 DEF FrontFallsSilent, JourneyTypeOK, Related, Stages, Clocks, Answered, Draining, InBFF, InMiddleware
  <2>3. ASSUME NEW r \in Submissions, r # s PROVE Related(r)'
    BY <1>5, <2>3, Unaffected DEF FrontFallsSilent, JourneyTypeOK, Related
  <2> QED BY <2>1, <2>2, <2>3 DEF Related
<1> QED BY <1>1, <1>2, <1>3, <1>4, <1>5

-----------------------------------------------------------------------------
(* The BFF's steps keep it.                                                  *)

LEMMA BFFSteps ==
  ASSUME Budgets, JourneyInv, NEW s \in Submissions,
         NoSession(s) \/ Forward(s) \/ BFFReceives(s) \/ BFFExpires(s)
           \/ BackBreaks(s) \/ BackFallsSilent(s) \/ BFFNotices(s)
  PROVE  JourneyInv'
<1> USE Naturals, OwnAnswers DEF JourneyInv, pages, bffs, mws, process
<1>1. CASE NoSession(s)
  <2>1. JourneyTypeOK' /\ ShownIsFunction'
    BY <1>1 DEF ShownIsFunction, NoSession, BFFAnswers, JourneyTypeOK
  <2>2. Related(s)'
    BY <1>1 DEF NoSession, BFFAnswers, JourneyTypeOK, Related, Stages, Clocks, Answered, Draining,
                  InBFF, InMiddleware
  <2>3. ASSUME NEW r \in Submissions, r # s PROVE Related(r)'
    BY <1>1, <2>3, Unaffected DEF NoSession, BFFAnswers, JourneyTypeOK, Related
  <2> QED BY <2>1, <2>2, <2>3 DEF Related
<1>2. CASE Forward(s)
  <2>1. JourneyTypeOK' /\ ShownIsFunction'
    BY <1>2 DEF ShownIsFunction, Forward, BFFAnswers, JourneyTypeOK
  <2>2. Related(s)'
    BY <1>2 DEF Forward, BFFAnswers, JourneyTypeOK, Related, Stages, Clocks, Answered, Draining,
                  InBFF, InMiddleware
  <2>3. ASSUME NEW r \in Submissions, r # s PROVE Related(r)'
    BY <1>2, <2>3, Unaffected DEF Forward, BFFAnswers, JourneyTypeOK, Related
  <2> QED BY <2>1, <2>2, <2>3 DEF Related
<1>3. CASE BFFReceives(s)
  <2>1. JourneyTypeOK' /\ ShownIsFunction'
    BY <1>3, RewriteType DEF ShownIsFunction, BFFReceives, BFFAnswers, JourneyTypeOK
  <2>2. Related(s)'
    BY <1>3 DEF BFFReceives, BFFAnswers, JourneyTypeOK, Related, Stages, Clocks, Answered, Draining,
                  InBFF, InMiddleware
  <2>3. ASSUME NEW r \in Submissions, r # s PROVE Related(r)'
    BY <1>3, <2>3, Unaffected DEF BFFReceives, BFFAnswers, JourneyTypeOK, Related
  <2> QED BY <2>1, <2>2, <2>3 DEF Related
<1>4. CASE BFFExpires(s)
  <2>1. JourneyTypeOK' /\ ShownIsFunction'
    BY <1>4 DEF ShownIsFunction, BFFExpires, BFFAnswers, JourneyTypeOK
  <2>2. Related(s)'
    BY <1>4 DEF BFFExpires, Patience, Budgets, BFFAnswers, JourneyTypeOK, Related, Stages, Clocks, Answered, Draining,
                  InBFF, InMiddleware
  <2>3. ASSUME NEW r \in Submissions, r # s PROVE Related(r)'
    BY <1>4, <2>3, Unaffected DEF BFFExpires, BFFAnswers, JourneyTypeOK, Related
  <2> QED BY <2>1, <2>2, <2>3 DEF Related
<1>5. CASE BackBreaks(s)
  <2>1. JourneyTypeOK' /\ ShownIsFunction'
    BY <1>5 DEF ShownIsFunction, BackBreaks, BFFAnswers, JourneyTypeOK
  <2>2. Related(s)'
    BY <1>5 DEF BackBreaks, BFFAnswers, JourneyTypeOK, Related, Stages, Clocks, Answered, Draining,
                  InBFF, InMiddleware
  <2>3. ASSUME NEW r \in Submissions, r # s PROVE Related(r)'
    BY <1>5, <2>3, Unaffected DEF BackBreaks, BFFAnswers, JourneyTypeOK, Related
  <2> QED BY <2>1, <2>2, <2>3 DEF Related
<1>6. CASE BackFallsSilent(s)
  <2>1. JourneyTypeOK' /\ ShownIsFunction'
    BY <1>6 DEF ShownIsFunction, BackFallsSilent, BFFAnswers, JourneyTypeOK
  <2>2. Related(s)'
    BY <1>6 DEF BackFallsSilent, BFFAnswers, JourneyTypeOK, Related, Stages, Clocks, Answered, Draining,
                  InBFF, InMiddleware
  <2>3. ASSUME NEW r \in Submissions, r # s PROVE Related(r)'
    BY <1>6, <2>3, Unaffected DEF BackFallsSilent, BFFAnswers, JourneyTypeOK, Related
  <2> QED BY <2>1, <2>2, <2>3 DEF Related
<1>7. CASE BFFNotices(s)
  <2>1. JourneyTypeOK' /\ ShownIsFunction'
    BY <1>7 DEF ShownIsFunction, BFFNotices, BFFAnswers, JourneyTypeOK
  <2>2. Related(s)'
    BY <1>7 DEF BFFNotices, BFFAnswers, JourneyTypeOK, Related, Stages, Clocks, Answered, Draining,
                  InBFF, InMiddleware
  <2>3. ASSUME NEW r \in Submissions, r # s PROVE Related(r)'
    BY <1>7, <2>3, Unaffected DEF BFFNotices, BFFAnswers, JourneyTypeOK, Related
  <2> QED BY <2>1, <2>2, <2>3 DEF Related
<1> QED BY <1>1, <1>2, <1>3, <1>4, <1>5, <1>6, <1>7

-----------------------------------------------------------------------------
(* The Middleware's steps keep it.                                           *)

LEMMA MiddlewareSteps ==
  ASSUME JourneyInv, NEW s \in Submissions,
         Refused(s) \/ CallsVendor(s) \/ Returned(s) \/ MiddlewareNotices(s)
  PROVE  JourneyInv'
<1> USE Naturals, OwnAnswers DEF JourneyInv, pages, bffs, mws, process
<1>1. CASE Refused(s)
  <2>1. JourneyTypeOK' /\ ShownIsFunction'
    <3>1. {Unauthenticated, Forbidden, ValidationFailed, NotAnEnvelope} \subseteq Answers
      BY DEF Answers
    <3> QED BY <1>1, <3>1 DEF ShownIsFunction, Refused, MiddlewareAnswers, JourneyTypeOK
  <2>2. Related(s)'
    BY <1>1, Distinct DEF Refused, MiddlewareAnswers, JourneyTypeOK, Related, Stages, Clocks, Answered, Draining,
                  InBFF, InMiddleware
  <2>3. ASSUME NEW r \in Submissions, r # s PROVE Related(r)'
    BY <1>1, <2>3, Unaffected DEF Refused, MiddlewareAnswers, JourneyTypeOK, Related
  <2> QED BY <2>1, <2>2, <2>3 DEF Related
<1>2. CASE CallsVendor(s)
  <2>1. JourneyTypeOK' /\ ShownIsFunction'
    BY <1>2 DEF ShownIsFunction, CallsVendor, MiddlewareAnswers, JourneyTypeOK
  <2>2. Related(s)'
    BY <1>2 DEF CallsVendor, MiddlewareAnswers, JourneyTypeOK, Related, Stages, Clocks, Answered, Draining,
                  InBFF, InMiddleware
  <2>3. ASSUME NEW r \in Submissions, r # s PROVE Related(r)'
    BY <1>2, <2>3, Unaffected DEF CallsVendor, MiddlewareAnswers, JourneyTypeOK, Related
  <2> QED BY <2>1, <2>2, <2>3 DEF Related
<1>3. CASE Returned(s)
  <2>1. JourneyTypeOK' /\ ShownIsFunction'
    BY <1>3, VendorOutcomesAnswer DEF ShownIsFunction, Returned, MiddlewareAnswers, JourneyTypeOK
  <2>2. Related(s)'
    BY <1>3, VendorOutcomesAnswer DEF Returned, MiddlewareAnswers, JourneyTypeOK, Related, Stages, Clocks, Answered, Draining,
                  InBFF, InMiddleware
  <2>3. ASSUME NEW r \in Submissions, r # s PROVE Related(r)'
    BY <1>3, <2>3, Unaffected DEF Returned, MiddlewareAnswers, JourneyTypeOK, Related
  <2> QED BY <2>1, <2>2, <2>3 DEF Related
<1>4. CASE MiddlewareNotices(s)
  <2>1. JourneyTypeOK' /\ ShownIsFunction'
    BY <1>4 DEF ShownIsFunction, MiddlewareNotices, CalledInVain, JourneyTypeOK
  <2>2. Related(s)'
    BY <1>4 DEF MiddlewareNotices, CalledInVain, JourneyTypeOK, Related, Stages, Clocks, Answered, Draining,
                  InBFF, InMiddleware
  <2>3. ASSUME NEW r \in Submissions, r # s PROVE Related(r)'
    BY <1>4, <2>3, Unaffected DEF MiddlewareNotices, MiddlewareAnswers, JourneyTypeOK, Related
  <2> QED BY <2>1, <2>2, <2>3 DEF Related
<1> QED BY <1>1, <1>2, <1>3, <1>4

-----------------------------------------------------------------------------
(* The server's life and time keep it.                                       *)

LEMMA ServerSteps ==
  ASSUME JourneyInv, Signal \/ Exit \/ StartAgain
  PROVE  JourneyInv'
<1> USE Naturals DEF JourneyInv, pages, bffs, mws, process
<1>1. CASE Signal
  <2>1. JourneyTypeOK' /\ ShownIsFunction'
    BY <1>1 DEF ShownIsFunction, Signal, JourneyTypeOK
  <2>2. ASSUME NEW s \in Submissions PROVE Related(s)'
    BY <1>1, <2>2 DEF Signal, JourneyTypeOK, Related, Stages, Clocks, Answered, Draining, InBFF, InMiddleware
  <2> QED BY <2>1, <2>2 DEF Related
<1>2. CASE Exit
  <2>1. JourneyTypeOK' /\ ShownIsFunction'
    BY <1>2 DEF ShownIsFunction, Exit, JourneyTypeOK
  <2>2. ASSUME NEW s \in Submissions PROVE Related(s)'
    BY <1>2, <2>2 DEF Exit, JourneyTypeOK, Related, Stages, Clocks, Answered, Draining, InBFF, InMiddleware
  <2> QED BY <2>1, <2>2 DEF Related
<1>3. CASE StartAgain
  <2>1. JourneyTypeOK' /\ ShownIsFunction'
    BY <1>3 DEF ShownIsFunction, StartAgain, JourneyTypeOK
  <2>2. ASSUME NEW s \in Submissions PROVE Related(s)'
    BY <1>3, <2>2 DEF StartAgain, JourneyTypeOK, Related, Stages, Clocks, Answered, Draining, InBFF, InMiddleware
  <2> QED BY <2>1, <2>2 DEF Related
<1> QED BY <1>1, <1>2, <1>3

\* Time stands still while anything is due, so no clock runs past its bound.
LEMMA TimeSteps ==
  ASSUME Budgets, JourneyInv, TimePasses
  PROVE  JourneyInv'
<1> USE Naturals DEF JourneyInv, pages, bffs, mws, process
<1>1. JourneyTypeOK' /\ ShownIsFunction'
  <2>1. ASSUME NEW s \in Submissions
        PROVE  /\ InBFF(s) => bffAge[s] + 1 \in 0..BFFTimeout
               /\ InMiddleware(s) => mwAge[s] + 1 \in 0..RequestBudget
    BY DEF TimePasses, Due, Patience, InBFF, InMiddleware, JourneyTypeOK
  <2>2. /\ bffAge' \in [Submissions -> 0..BFFTimeout]
        /\ mwAge' \in [Submissions -> 0..RequestBudget]
    BY <2>1 DEF TimePasses, JourneyTypeOK
  <2> QED BY <2>2 DEF TimePasses, JourneyTypeOK, ShownIsFunction
<1>2. ASSUME NEW s \in Submissions PROVE Related(s)'
  <2> USE DEF TimePasses, JourneyTypeOK, Related, InBFF, InMiddleware
  <2>1. Stages(s)' /\ Answered(s)'
    BY DEF Stages, Answered
  <2>2. Clocks(s)'
    BY DEF Stages, Clocks, Due
  <2>3. Draining(s)'
    BY DEF Draining, Drained
  <2> QED BY <2>1, <2>2, <2>3
<1> QED BY <1>1, <1>2 DEF Related

LEMMA StepInv ==
  ASSUME Budgets
  PROVE  JourneyInv /\ [JourneyNext]_jvars => JourneyInv'
<1> SUFFICES ASSUME JourneyInv, [JourneyNext]_jvars PROVE JourneyInv'
  OBVIOUS
<1>1. CASE UNCHANGED jvars
  BY <1>1 DEF JourneyInv, JourneyTypeOK, ShownIsFunction, Stages, Clocks, Answered, Draining, InBFF, InMiddleware,
              jvars, pages, bffs, mws, process
<1>2. CASE JourneyNext
  BY <1>2, PageSteps, BFFSteps, MiddlewareSteps, ServerSteps, TimeSteps DEF JourneyNext, Handled
<1> QED BY <1>1, <1>2

\* The types, clocks included: no request is longer in the BFF than its
\* deadline, nor in the Middleware than its budget.
THEOREM JourneyTypes ==
  ASSUME Budgets
  PROVE  JourneySpec => []JourneyTypeOK
<1>1. JourneyInv /\ [JourneyNext]_jvars => JourneyInv'
  BY StepInv
<1>2. JourneyInv => JourneyTypeOK
  BY DEF JourneyInv
<1> QED BY <1>1, <1>2, InitInv, PTL DEF JourneySpec

-----------------------------------------------------------------------------
(* Draining.                                                                 *)

LEMMA ExitWithEmptyHands ==
  ASSUME BFFTimeout < Grace, JourneyInv, Exit
  PROVE  \A s \in Submissions : ~InBFF(s)
<1> SUFFICES ASSUME NEW s \in Submissions, InBFF(s) PROVE FALSE
  OBVIOUS
<1>1. server = "draining" /\ graceLeft = 0
  BY DEF Exit, Drained
<1>2. bffAge[s] >= Grace /\ bffAge[s] \in 0..BFFTimeout
  BY <1>1, Naturals DEF JourneyInv, JourneyTypeOK, Draining
<1> QED BY <1>2, Naturals

\* A grace longer than the BFF's deadline cuts no request short, whenever the
\* signal comes (httpx/server.go's ShutdownGrace, 10 s against 8 s).
THEOREM DrainKept ==
  ASSUME Budgets, BFFTimeout < Grace
  PROVE  JourneySpec => DrainCutsNothing
<1>1. JourneyInv /\ [JourneyNext]_jvars => JourneyInv'
  BY StepInv
<1>2. JourneyInv /\ [JourneyNext]_jvars
        => [server = "draining" /\ server' = "down" => \A s \in Submissions : ~InBFF(s)]_jvars
  <2> SUFFICES ASSUME JourneyInv, JourneyNext, server = "draining", server' = "down"
               PROVE  \A s \in Submissions : ~InBFF(s)
    BY DEF jvars
  <2>1. Exit
    BY DEF JourneyNext, TimePasses, Signal, StartAgain, Submit, SubmitInVain, FrontBreaks,
           FrontFallsSilent, BackBreaks, BackFallsSilent, Handled, PageReceives, NoSession, Forward,
           BFFReceives, BFFExpires, BFFNotices, Refused, CallsVendor, Returned, MiddlewareNotices,
           MiddlewareAnswers, process
  <2> QED BY <2>1, ExitWithEmptyHands
<1> QED BY <1>1, <1>2, InitInv, PTL DEF JourneySpec, DrainCutsNothing

-----------------------------------------------------------------------------
(* The refinement: what each variable of QuoteService is in Journey.         *)

verdictBar == [s \in Submissions |-> Decided(s)]
workingBar == {s \in Submissions : bff[s] = "arrived" \/ InMiddleware(s)}
brokenBar  == {s \in Submissions : "broken" \in {front[s], back[s]}}
silentBar  == {s \in Submissions : "silent" \in {front[s], back[s]}}
bars == <<page, shown, verdictBar, workingBar, brokenBar, silentBar>>

LEMMA Mapping == Service!svars = bars /\ Service!cut = brokenBar \cup silentBar
BY DEF Service!svars, Service!cut, bars, verdictBar, workingBar, brokenBar, silentBar

LEMMA DecidedIsMeaning ==
  ASSUME NEW s
  PROVE  Decided(s) = IF mw[s] = "none" /\ bffAnswer[s] = Unauthenticated THEN View("signIn", "")
                      ELSE Meaning(mwAnswer[s])
BY DEF Decided, Meaning

LEMMA Meanings ==
  /\ Meaning(NoAnswer) = Service!Undecided
  /\ \A e \in Answers \ {NoAnswer} : Meaning(e) \in VerdictViews
  /\ Service!Undecided \notin VerdictViews
  /\ View("signIn", "") \in VerdictViews
<1>1. Meaning(NoAnswer) = Service!Undecided
  BY Distinct DEF Meaning, View, Service!Undecided
<1>2. Service!Undecided \notin VerdictViews
  BY DEF Service!Undecided, VerdictViews, View, Banners, Upstream
<1> QED BY <1>1, <1>2, Rewritten, ViewTable

LEMMA UndecidedWhileWorking ==
  ASSUME JourneyInv, NEW s \in Submissions, bff[s] = "arrived" \/ InMiddleware(s)
  PROVE  Decided(s) = Service!Undecided
BY DecidedIsMeaning, Meanings, Distinct DEF JourneyInv, Stages, InMiddleware

LEMMA InitService == JourneyInit => Service!Init
<1> SUFFICES ASSUME JourneyInit PROVE Service!Init
  OBVIOUS
<1>1. \A s \in Submissions : Decided(s) = Service!Undecided
  BY DecidedIsMeaning, Meanings, Distinct DEF JourneyInit
<1> QED BY <1>1 DEF JourneyInit, Service!Init, InMiddleware, View

\* A step that shows the page nothing and changes no variable of the service.
LEMMA Stutters ==
  ASSUME UNCHANGED pages,
         \A r \in Submissions :
           /\ Decided(r)' = Decided(r)
           /\ (bff[r] = "arrived" \/ InMiddleware(r))' <=> (bff[r] = "arrived" \/ InMiddleware(r))
           /\ ("broken" \in {front[r], back[r]})' <=> ("broken" \in {front[r], back[r]})
           /\ ("silent" \in {front[r], back[r]})' <=> ("silent" \in {front[r], back[r]})
  PROVE  UNCHANGED Service!svars
<1>1. verdictBar' = verdictBar
  BY DEF verdictBar
<1>2. workingBar' = workingBar
  BY DEF workingBar
<1>3. brokenBar' = brokenBar /\ silentBar' = silentBar
  BY DEF brokenBar, silentBar
<1> QED BY <1>1, <1>2, <1>3, Mapping DEF bars, pages, Service!svars, verdictBar, workingBar, brokenBar, silentBar

\* Decisions depend on the Middleware's answer, and on the BFF's only where the
\* Middleware was not asked.
LEMMA DecisionsKept ==
  ASSUME \A r \in Submissions :
           /\ mwAnswer'[r] = mwAnswer[r]
           /\ mw'[r] = "none" /\ bffAnswer'[r] = Unauthenticated
                <=> mw[r] = "none" /\ bffAnswer[r] = Unauthenticated
  PROVE  verdictBar' = verdictBar
<1>1. ASSUME NEW r \in Submissions PROVE Decided(r)' = Decided(r)
  <2>1. CASE mw[r] = "none" /\ bffAnswer[r] = Unauthenticated
    BY <2>1 DEF Decided
  <2>2. CASE ~(mw[r] = "none" /\ bffAnswer[r] = Unauthenticated)
    <3>1. Decided(r) = Meaning(mwAnswer[r])
      BY <2>2, DecidedIsMeaning
    <3>2. Decided(r)' = Meaning(mwAnswer'[r])
      BY <2>2 DEF Decided, Meaning
    <3> QED BY <3>1, <3>2
  <2> QED BY <2>1, <2>2
<1> QED BY <1>1 DEF verdictBar

LEMMA SubmitIsAsk ==
  ASSUME JourneyInv, NEW s \in Submissions, Submit(s)
  PROVE  Service!Ask(s)
<1> USE DEF JourneyInv, JourneyTypeOK, Submit, CanSubmit, pages, bffs, mws, process
<1>1. Service!MayAsk(s)
  BY DEF Service!MayAsk
<1>2. workingBar \subseteq brokenBar
  BY DEF workingBar, brokenBar, Stages, Clocks, InBFF, InMiddleware
<1>3. verdictBar' = verdictBar
  BY DEF verdictBar, Decided, Stages, InMiddleware
<1>4. workingBar' = workingBar \cup {s} /\ brokenBar' = brokenBar /\ silentBar' = silentBar
  BY DEF workingBar, brokenBar, silentBar, InMiddleware
<1> QED BY <1>1, <1>2, <1>3, <1>4 DEF Service!Ask, verdictBar, workingBar, brokenBar, silentBar

LEMMA SubmitInVainIsAskInVain ==
  ASSUME JourneyInv, NEW s \in Submissions, SubmitInVain(s)
  PROVE  Service!AskInVain(s)
<1>1. HandleWithoutBody(NotAnEnvelope) = View("banner", "INTERNAL")
  BY HandleTable, Distinct DEF HandleWithoutBody
<1>2. \E view \in FaultViews : Service!Show(s, view)
  BY <1>1, ViewTable DEF SubmitInVain, Service!Show
<1>3. Service!MayAsk(s)
  BY DEF SubmitInVain, CanSubmit, Service!MayAsk
<1> QED BY <1>2, <1>3 DEF SubmitInVain, Service!AskInVain, Decided, InMiddleware, bffs, mws

\* With its connections good the page is told the verdict, and otherwise a fault.
LEMMA ReceivingIsTelling ==
  ASSUME JourneyInv, NEW s \in Submissions, PageReceives(s)
  PROVE  Service!Tell(s) \/ Service!TellFault(s)
<1> USE DEF PageReceives, mws
<1>1. /\ verdictBar' = verdictBar /\ workingBar' = workingBar
      /\ brokenBar' = brokenBar /\ silentBar' = silentBar
  BY DEF JourneyInv, JourneyTypeOK, Answered, Decided, verdictBar, workingBar, brokenBar, silentBar,
         InMiddleware
<1>2. CASE /\ Decided(s) # Service!Undecided
           /\ Handle(bffAnswer[s]) = Decided(s)
  <2>1. verdictBar[s] = Decided(s)
    BY DEF verdictBar
  <2> QED BY <1>1, <1>2, <2>1
          DEF Service!Tell, Service!Show, verdictBar, workingBar, brokenBar, silentBar
<1>3. CASE /\ back[s] # "good" /\ Handle(bffAnswer[s]) \in FaultViews
           /\ InMiddleware(s) => back[s] = "broken"
  <2>1. s \in brokenBar \cup silentBar /\ (s \in workingBar => s \in brokenBar)
    BY <1>3 DEF JourneyInv, JourneyTypeOK, brokenBar, silentBar, workingBar
  <2> QED BY <1>1, <1>3, <2>1, Mapping
          DEF Service!TellFault, Service!Show, verdictBar, workingBar, brokenBar, silentBar
<1>4. \/ mw[s] = "none" /\ bffAnswer[s] = Unauthenticated
      \/ mw[s] = "over" /\ mwAnswer[s] # NoAnswer /\ bffAnswer[s] = Rewrite(mwAnswer[s])
      \/ /\ mw[s] # "none" /\ back[s] # "good"
         /\ bffAnswer[s] \in {UpstreamTimeout, UpstreamUnavailable, UpstreamContract}
         /\ InMiddleware(s) => back[s] = "broken"
  BY DEF JourneyInv, Answered
<1>5. CASE mw[s] = "none" /\ bffAnswer[s] = Unauthenticated
  BY <1>2, <1>5, DecidedIsMeaning, Meanings, HandleTable
<1>6. CASE mw[s] = "over" /\ mwAnswer[s] # NoAnswer /\ bffAnswer[s] = Rewrite(mwAnswer[s])
  <2>1. mwAnswer[s] \in Answers \ {NoAnswer}
    BY <1>6 DEF JourneyInv, JourneyTypeOK
  <2> QED BY <1>2, <1>6, <2>1, DecidedIsMeaning, Meanings, Rewritten
<1>7. CASE /\ mw[s] # "none" /\ back[s] # "good"
           /\ bffAnswer[s] \in {UpstreamTimeout, UpstreamUnavailable, UpstreamContract}
           /\ InMiddleware(s) => back[s] = "broken"
  <2>1. Handle(bffAnswer[s]) \in FaultViews
    BY <1>7, HandleTable, ViewTable
  <2> QED BY <1>3, <1>7, <2>1
<1> QED BY <1>4, <1>5, <1>6, <1>7

LEMMA FrontBreaksBreaks ==
  ASSUME JourneyInv, NEW s \in Submissions, FrontBreaks(s)
  PROVE  Service!Breaks(s)
<1> USE DEF FrontBreaks, bffs, mws
<1>1. /\ verdictBar' = verdictBar /\ workingBar' = workingBar
      /\ brokenBar' = brokenBar \cup {s} /\ silentBar' = silentBar
  BY DEF JourneyInv, JourneyTypeOK, Decided, verdictBar, workingBar, brokenBar, silentBar, InMiddleware
<1>2. \E view \in FaultViews : Service!Show(s, view)
  <2>1. HandleWithoutBody(bffAnswer[s]) \in FaultViews
    BY HandleTable, ViewTable DEF HandleWithoutBody
  <2> QED BY <2>1, ViewTable DEF Service!Show
<1> QED BY <1>1, <1>2 DEF Service!Breaks, verdictBar, workingBar, brokenBar, silentBar

LEMMA BackBreaksBreaks ==
  ASSUME JourneyInv, NEW s \in Submissions, BackBreaks(s)
  PROVE  Service!Breaks(s)
<1> USE DEF BackBreaks, BFFAnswers, pages, mws
<1>1. verdictBar' = verdictBar
  BY DecisionsKept DEF JourneyInv, JourneyTypeOK, Stages
<1>2. workingBar' = workingBar /\ brokenBar' = brokenBar \cup {s} /\ silentBar' = silentBar
  BY DEF JourneyInv, JourneyTypeOK, workingBar, brokenBar, silentBar, InMiddleware
<1>3. page[s] # "unsent"
  BY DEF JourneyInv, Stages
<1> QED BY <1>1, <1>2, <1>3 DEF Service!Breaks, verdictBar, workingBar, brokenBar, silentBar

LEMMA SilenceIsSilence ==
  ASSUME JourneyInv, NEW s \in Submissions, FrontFallsSilent(s) \/ BackFallsSilent(s)
  PROVE  Service!FallsSilent(s)
<1> USE DEF FrontFallsSilent, BackFallsSilent, pages, bffs, mws
<1>1. verdictBar' = verdictBar /\ workingBar' = workingBar
  BY DecisionsKept DEF workingBar, InMiddleware
<1>2. brokenBar' = brokenBar /\ silentBar' = silentBar \cup {s}
  BY DEF JourneyInv, JourneyTypeOK, brokenBar, silentBar
<1>3. page[s] # "unsent"
  BY DEF JourneyInv, Stages
<1> QED BY <1>1, <1>2, <1>3 DEF Service!FallsSilent, verdictBar, workingBar, brokenBar, silentBar

\* The BFF and the Middleware decide, each at most once.
LEMMA NoSessionDecides ==
  ASSUME JourneyInv, NEW s \in Submissions, NoSession(s)
  PROVE  Service!Decide(s)
<1> USE DEF JourneyInv, JourneyTypeOK, NoSession, BFFAnswers, pages, mws
<1>1. mw[s] = "none" /\ bffAnswer[s] = NoAnswer
  BY DEF Stages
<1>2. s \in workingBar /\ workingBar' = workingBar \ {s}
  BY <1>1 DEF workingBar, InMiddleware
<1>3. brokenBar' = brokenBar /\ silentBar' = silentBar
  BY DEF brokenBar, silentBar
<1>4. verdictBar[s] = Service!Undecided
  BY UndecidedWhileWorking DEF verdictBar
<1>5. verdictBar' = [verdictBar EXCEPT ![s] = View("signIn", "")]
  <2>1. ASSUME NEW r \in Submissions, r # s PROVE Decided(r)' = Decided(r)
    BY <2>1 DEF Decided
  <2>2. Decided(s)' = View("signIn", "")
    BY <1>1 DEF Decided
  <2> QED BY <2>1, <2>2 DEF verdictBar
<1> QED BY <1>2, <1>3, <1>4, <1>5, ViewTable
        DEF Service!Decide, verdictBar, workingBar, brokenBar, silentBar

LEMMA MiddlewareDecides ==
  ASSUME JourneyInv, NEW s \in Submissions, Refused(s) \/ Returned(s)
  PROVE  Service!Decide(s)
<1> USE DEF JourneyInv, JourneyTypeOK, MiddlewareAnswers, pages, bffs
<1>1. PICK e \in Answers \ {NoAnswer} : mwAnswer' = [mwAnswer EXCEPT ![s] = e]
  <2>1. CASE Refused(s)
    BY <2>1, Distinct DEF Refused, Answers
  <2>2. CASE Returned(s)
    BY <2>2, VendorOutcomesAnswer DEF Returned
  <2> QED BY <2>1, <2>2
<1>2. /\ mw' = [mw EXCEPT ![s] = "answered"] /\ InMiddleware(s)
      /\ UNCHANGED <<page, shown, bff, bffAnswer, front, back>>
  BY DEF Refused, Returned, InMiddleware
<1>3. bff[s] # "arrived"
  BY <1>2 DEF Stages, InMiddleware
<1>4. s \in workingBar /\ workingBar' = workingBar \ {s}
  BY <1>2, <1>3 DEF workingBar, InMiddleware
<1>5. brokenBar' = brokenBar /\ silentBar' = silentBar
  BY <1>2 DEF brokenBar, silentBar
<1>6. verdictBar[s] = Service!Undecided
  BY <1>2, UndecidedWhileWorking DEF verdictBar
<1>7. verdictBar' = [verdictBar EXCEPT ![s] = Meaning(e)]
  <2>1. ASSUME NEW r \in Submissions, r # s PROVE Decided(r)' = Decided(r)
    BY <1>1, <1>2, <2>1 DEF Decided
  <2>2. mw'[s] = "answered" /\ mwAnswer'[s] = e
    BY <1>1, <1>2
  <2>3. Decided(s)' = Meaning(e)
    BY <2>2 DEF Decided, Meaning
  <2> QED BY <2>1, <2>3 DEF verdictBar
<1>8. Meaning(e) \in VerdictViews
  BY <1>1, Meanings
<1> QED BY <1>2, <1>4, <1>5, <1>6, <1>7, <1>8
        DEF Service!Decide, verdictBar, workingBar, brokenBar, silentBar

\* Work is given up only behind a connection that broke.
LEMMA NoticingAbandons ==
  ASSUME JourneyInv, NEW s \in Submissions, BFFNotices(s) \/ MiddlewareNotices(s)
  PROVE  Service!Abandon(s) \/ UNCHANGED Service!svars
<1> USE DEF JourneyInv, JourneyTypeOK, BFFNotices, MiddlewareNotices, pages, bffs, mws
<1>1. verdictBar' = verdictBar
  BY DecisionsKept DEF Stages, CalledInVain
<1>2. brokenBar' = brokenBar /\ silentBar' = silentBar /\ UNCHANGED pages
  BY DEF brokenBar, silentBar
<1>3. ASSUME s \in brokenBar, s \in workingBar, workingBar' = workingBar \ {s}
      PROVE  Service!Abandon(s)
  BY <1>1, <1>2, <1>3, Mapping DEF Service!Abandon, verdictBar, workingBar, brokenBar, silentBar
<1>4. ASSUME workingBar' = workingBar
      PROVE  UNCHANGED Service!svars
  BY <1>1, <1>2, <1>4, Mapping DEF bars, Service!svars, verdictBar, workingBar, brokenBar, silentBar
<1>5. CASE BFFNotices(s) /\ bff[s] = "arrived"
  <2>1. workingBar' = workingBar \ {s}
    BY <1>5 DEF workingBar, InMiddleware, Stages
  <2>2. s \in workingBar /\ s \in brokenBar
    BY <1>5 DEF workingBar, brokenBar
  <2> QED BY <1>3, <2>1, <2>2
<1>6. CASE BFFNotices(s) /\ bff[s] = "calling"
  <2>1. workingBar' = workingBar
    BY <1>6 DEF workingBar, InMiddleware
  <2> QED BY <1>4, <2>1
<1>7. CASE MiddlewareNotices(s)
  <2>1. bff[s] # "arrived" /\ mw' = [mw EXCEPT ![s] = "over"] /\ bff' = bff
    BY <1>7 DEF CalledInVain, Stages
  <2>2. CASE InMiddleware(s)
    <3>1. workingBar' = workingBar \ {s} /\ s \in workingBar
      BY <2>1, <2>2 DEF workingBar, InMiddleware
    <3>2. s \in brokenBar
      BY <1>7, <2>2 DEF CalledInVain, Clocks, brokenBar
    <3> QED BY <1>3, <3>1, <3>2
  <2>3. CASE ~InMiddleware(s)
    <3>1. workingBar' = workingBar
      BY <2>1, <2>3 DEF workingBar, InMiddleware
    <3> QED BY <1>4, <3>1
  <2> QED BY <2>2, <2>3
<1> QED BY <1>5, <1>6, <1>7 DEF InBFF

LEMMA HandlingStutters ==
  ASSUME JourneyInv, NEW s \in Submissions,
         Forward(s) \/ BFFReceives(s) \/ BFFExpires(s) \/ CallsVendor(s)
  PROVE  UNCHANGED Service!svars
<1> USE DEF JourneyInv, JourneyTypeOK, Forward, BFFReceives, BFFExpires, CallsVendor, BFFAnswers,
            pages, bffs, mws
<1>1. verdictBar' = verdictBar
  BY DecisionsKept, Distinct DEF Stages
<1>2. workingBar' = workingBar
  BY DEF workingBar, InMiddleware
<1>3. brokenBar' = brokenBar /\ silentBar' = silentBar /\ UNCHANGED pages
  BY DEF brokenBar, silentBar
<1> QED BY <1>1, <1>2, <1>3, Mapping
        DEF bars, Service!svars, verdictBar, workingBar, brokenBar, silentBar

LEMMA ServerStutters ==
  ASSUME BFFTimeout < Grace, JourneyInv, TimePasses \/ Signal \/ Exit \/ StartAgain
  PROVE  UNCHANGED Service!svars
<1>1. UNCHANGED <<page, shown, bff, bffAnswer, mw, mwAnswer, front, back>>
  <2>1. CASE TimePasses \/ Signal \/ StartAgain
    BY <2>1 DEF TimePasses, Signal, StartAgain, pages, bffs, mws
  <2>2. CASE Exit
    <3>1. \A s \in Submissions : ~InBFF(s)
      BY <2>2, ExitWithEmptyHands
    <3>2. bff' = bff /\ front' = front /\ page' = page /\ shown' = shown
      BY <2>2, <3>1 DEF Exit, JourneyInv, JourneyTypeOK, ShownIsFunction
    <3> QED BY <2>2, <3>2 DEF Exit, mws
  <2> QED BY <2>1, <2>2
<1> QED BY <1>1 DEF Service!svars, Decided, InMiddleware

LEMMA StepService ==
  ASSUME BFFTimeout < Grace
  PROVE  JourneyInv /\ [JourneyNext]_jvars => [Service!Next]_(Service!svars)
<1> SUFFICES ASSUME JourneyInv, [JourneyNext]_jvars
             PROVE  Service!Next \/ UNCHANGED Service!svars
  OBVIOUS
<1>1. CASE UNCHANGED jvars
  BY <1>1 DEF jvars, pages, bffs, mws, Service!svars, Decided, InMiddleware
<1>2. CASE TimePasses \/ Signal \/ Exit \/ StartAgain
  BY <1>2, ServerStutters
<1>3. ASSUME NEW s \in Submissions,
             Submit(s) \/ SubmitInVain(s) \/ Handled(s)
               \/ FrontBreaks(s) \/ FrontFallsSilent(s) \/ BackBreaks(s) \/ BackFallsSilent(s)
      PROVE  Service!Next \/ UNCHANGED Service!svars
  BY <1>3, SubmitIsAsk, SubmitInVainIsAskInVain, ReceivingIsTelling, FrontBreaksBreaks,
     BackBreaksBreaks, SilenceIsSilence, NoSessionDecides, MiddlewareDecides, NoticingAbandons,
     HandlingStutters
     DEF Handled, Service!Next
<1> QED BY <1>1, <1>2, <1>3 DEF JourneyNext

\* Budgets that nest make the three layers the service that QuoteService
\* specifies: one verdict for each submission, shown as it was reached; no
\* fault shown as a verdict; nothing at work when the next is asked.
THEOREM ServiceImplemented ==
  ASSUME Budgets, BFFTimeout < Grace
  PROVE  JourneySpec => ImplementsService
<1>1. JourneyInv /\ [JourneyNext]_jvars => JourneyInv'
  BY StepInv
<1>2. JourneyInv /\ [JourneyNext]_jvars => [Service!Next]_(Service!svars)
  BY StepService
<1> QED BY <1>1, <1>2, InitInv, InitService, PTL DEF JourneySpec, ImplementsService, Service!Spec
=============================================================================
