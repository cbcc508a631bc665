---------------------------- MODULE QuoteRequest ----------------------------
(***************************************************************************)
(* One request for a quote, from what is typed to what is shown: the page's *)
(* form and validate() (web/src), the Middleware's Validate (validate.go),  *)
(* the vendor's checks and pricing as its mock has them (cqapimock), and    *)
(* the way of the figures back (vendor.go's decode).                       *)
(*                                                                         *)
(* Three programs check one request, on three representations of it: the   *)
(* text typed, the JSON that another program made of it, and the amount    *)
(* written out again with two places. Here they meet; sessions, transport  *)
(* and failures are other modules' subjects. Requests share nothing, so a  *)
(* behaviour has one caller, the page or another client that posts JSON.   *)
(***************************************************************************)
EXTENDS Money, FiniteSets, FiniteSetsExt

CONSTANTS
  TypedAmounts, TypedTerms,  \* texts typed into the form
  JsonAmounts, JsonTerms,    \* texts another client may put into its JSON
  MinAmount, MaxAmount,      \* in cents
  OddAnswers                 \* what a vendor that is not the mock may answer

MinMonths == 6
MaxMonths == 360
ValidBands == {"A", "B", "C"}

Shapes == {"decimal", "padded", "long", "exponent", "other", "blank",
           "string", "null", "absent", "true", "object"}
Texts == [shape : Shapes, units : Int, places : Nat]

ASSUME RequestAssumption ==
  /\ MinAmount \in Nat /\ MaxAmount \in Nat /\ 0 < MinAmount /\ MinAmount <= MaxAmount
  /\ \A t \in TypedAmounts \cup TypedTerms :
       t \in Texts /\ t.shape \in {"decimal", "padded", "long", "exponent", "other", "blank"}
  /\ \A a \in OddAnswers : a.status = 201 /\ a.hasId \in BOOLEAN
  /\ \A t \in JsonAmounts \cup JsonTerms
           \cup UNION {{a.commissionRate, a.totalCommission} : a \in OddAnswers} :
       t \in Texts /\ t.shape \notin {"padded", "other", "blank"}

VARIABLES
  caller,   \* "page" or "client"
  input,    \* Quoting's input: the texts in the form
  errors,   \* Quoting's errors
  quote,    \* Quoting's quote, and of what input it was asked
  request   \* the request under way and how far it has come

rvars == <<caller, input, errors, quote, request>>

Blank == Text("blank", 0, 0)
Empty == [loanAmount |-> Blank, loanTermInMonths |-> Blank, riskBand |-> ""]

NoQuote == [shown |-> FALSE]
NoRequest == [stage |-> "none"]

RequestInit ==
  /\ caller \in {"page", "client"}
  /\ input = Empty
  /\ errors = {}
  /\ quote = NoQuote
  /\ request = NoRequest

Fields == {"loanAmount", "loanTermInMonths", "riskBand"}

\* The field errors of a verdict that has a code, or "ok", for every field.
Failures(codes) == {<<f, codes[f]>> : f \in {g \in Fields : codes[g] # "ok"}}

AmountInRange(text) ==
  /\ ~Less(Parsed(text), Decimal(MinAmount, 2))
  /\ ~Less(Decimal(MaxAmount, 2), Parsed(text))

BandCode(band) == IF band \in ValidBands THEN "ok" ELSE "risk_band_invalid"

-----------------------------------------------------------------------------
(* The page: validation.ts and Quoting. *)

\* \d+ with an optional fraction, zeros before it or not.
Digits(text) == text.shape \in {"decimal", "padded", "long"} /\ text.units >= 0

\* A text too long for parseDecimal with at most two places is more than any
\* bound.
PageAmountCode(text) ==
  IF ~Digits(text) THEN "amount_invalid"
  ELSE IF text.places > 2 THEN "amount_precision"
  ELSE IF text.shape = "long" \/ ~AmountInRange(text) THEN "amount_out_of_range"
  ELSE "ok"

PageTermCode(text) ==
  IF text.places > 0 THEN "term_not_integer"
  ELSE IF ~Digits(text) THEN "term_invalid"
  ELSE IF text.shape = "long" \/ text.units \notin MinMonths..MaxMonths
    THEN "term_out_of_range"
  ELSE "ok"

PageErrors(i) ==
  Failures([loanAmount |-> PageAmountCode(i.loanAmount),
            loanTermInMonths |-> PageTermCode(i.loanTermInMonths),
            riskBand |-> BandCode(i.riskBand)])

\* JSON.stringify(Number(text)): no zeros before the number or at its end.
Canonical(text) ==
  LET p == Min({q \in 0..text.places : text.units % 10^(text.places - q) = 0})
  IN  Text("decimal", text.units \div 10^(text.places - p), p)

PageBody(i) ==
  [form |-> "object", loanAmount |-> Canonical(i.loanAmount),
   loanTermInMonths |-> Canonical(i.loanTermInMonths), riskBand |-> i.riskBand]

\* The form is shown, and stays open, while a request is under way.
Type ==
  /\ caller = "page" /\ ~quote.shown
  /\ \/ \E t \in TypedAmounts : input' = [input EXCEPT !.loanAmount = t]
     \/ \E t \in TypedTerms : input' = [input EXCEPT !.loanTermInMonths = t]
     \/ \E b \in ValidBands \cup {""} : input' = [input EXCEPT !.riskBand = b]
  /\ UNCHANGED <<caller, errors, quote, request>>

Submit ==
  /\ caller = "page" /\ ~quote.shown /\ request = NoRequest
  /\ errors' = PageErrors(input)
  /\ request' = IF errors' # {} THEN NoRequest
                ELSE [stage |-> "posted", body |-> PageBody(input), of |-> input]
  /\ UNCHANGED <<caller, input, quote>>

\* setQuote, or handle(): field errors are shown, any other failure as a banner.
Receive ==
  /\ caller = "page" /\ request.stage = "returned"
  /\ IF request.result.kind = "quote"
     THEN quote' = [shown |-> TRUE, of |-> request.of] /\ UNCHANGED errors
     ELSE /\ errors' = IF request.result.kind = "details" THEN request.result.details ELSE errors
          /\ UNCHANGED quote
  /\ request' = NoRequest
  /\ UNCHANGED <<caller, input>>

\* QuoteSummary's onEdit.
EditQuote ==
  /\ quote.shown
  /\ quote' = NoQuote
  /\ UNCHANGED <<caller, input, errors, request>>

-----------------------------------------------------------------------------
(* Another client of the Middleware. *)

\* "malformed" is no JSON object, one with an unknown field, or a riskBand of
\* another type; "followed" and "closed" are an object with more after it,
\* "closed" when that begins with } or ].
Bodies ==
  [form : {"object", "malformed", "followed", "closed"}, loanAmount : JsonAmounts,
   loanTermInMonths : JsonTerms, riskBand : ValidBands \cup {"b", "null"}]

ClientPosts ==
  /\ caller = "client" /\ request = NoRequest
  /\ \E b \in Bodies : request' = [stage |-> "posted", body |-> b, of |-> Empty]
  /\ UNCHANGED <<caller, input, errors, quote>>

ClientReceives ==
  /\ caller = "client" /\ request.stage = "returned"
  /\ request' = NoRequest
  /\ UNCHANGED <<caller, input, errors, quote>>

-----------------------------------------------------------------------------
(* The Middleware: Validate and the handler. *)

IsNumberText(text) == text.shape \notin {"string", "null", "absent"}

\* Mutant: the number of places is not looked at.
AmountCodeAnyPlaces(text) ==
  IF ~IsNumberText(text) \/ ~Parses(text) THEN "amount_invalid"
  ELSE IF ~AmountInRange(text) THEN "amount_out_of_range"
  ELSE "ok"

AmountCode(text) ==
  IF ~IsNumberText(text) \/ ~Parses(text) THEN "amount_invalid"
  ELSE IF text.places > 2 THEN "amount_precision"
  ELSE IF ~AmountInRange(text) THEN "amount_out_of_range"
  ELSE "ok"

\* json.Number.Int64: digits only, and not more than 64 bits of them.
IsInt64(text) == text.shape = "decimal" /\ text.places = 0

HasPointOrE(text) == text.places > 0 \/ text.shape \in {"exponent", "true"}

\* Mutant: a term of no months is let through.
TermCodeFromZero(text) ==
  IF ~IsNumberText(text) THEN "term_invalid"
  ELSE IF ~IsInt64(text) THEN "term_not_integer"
  ELSE IF text.units \notin 0..MaxMonths THEN "term_out_of_range"
  ELSE "ok"

TermCode(text) ==
  IF ~IsNumberText(text) THEN "term_invalid"
  ELSE IF ~IsInt64(text) THEN IF HasPointOrE(text) THEN "term_not_integer" ELSE "term_invalid"
  ELSE IF text.units \notin MinMonths..MaxMonths THEN "term_out_of_range"
  ELSE "ok"

\* dec.More() is false before a } or a ].
Malformed(body) == body.form \in {"malformed", "followed"}

\* Mutant: the first failure wins.
FirstError(body) ==
  LET codes == [loanAmount |-> AmountCode(body.loanAmount),
                loanTermInMonths |-> IF AmountCode(body.loanAmount) = "ok"
                                     THEN TermCode(body.loanTermInMonths) ELSE "ok",
                riskBand |-> BandCode(body.riskBand)]
  IN  IF Malformed(body) THEN {<<"body", "malformed_body">>} ELSE Failures(codes)

ValidationErrors(body) ==
  IF Malformed(body) THEN {<<"body", "malformed_body">>}
  ELSE Failures([loanAmount |-> AmountCode(body.loanAmount),
                 loanTermInMonths |-> TermCode(body.loanTermInMonths),
                 riskBand |-> BandCode(body.riskBand)])

\* QuoteRequest, as VendorClient.Quote writes it.
VendorBody(body) ==
  [loanAmount |-> Rendered(Parsed(body.loanAmount), 2),
   loanTermInMonths |-> body.loanTermInMonths, riskBand |-> body.riskBand]

Return(result) ==
  request' = [stage |-> "returned", body |-> request.body, of |-> request.of,
              answer |-> IF request.stage = "answered" THEN request.answer ELSE [status |-> 0],
              result |-> result]

Validate ==
  /\ request.stage = "posted"
  /\ LET found == ValidationErrors(request.body)
     IN  IF found # {} THEN Return([kind |-> "details", details |-> found])
         ELSE request' = [stage |-> "asked", body |-> request.body, of |-> request.of,
                          ask |-> VendorBody(request.body)]
  /\ UNCHANGED <<caller, input, errors, quote>>

-----------------------------------------------------------------------------
(* The vendor: cqapimock's handler and its pricing, in ten thousandths. *)

Rejects(ask) ==
  \/ ~IsNumberText(ask.loanAmount) \/ ~Parses(ask.loanAmount)
  \/ ask.loanAmount.places > 2 \/ ask.loanAmount.units <= 0
  \/ ~IsNumberText(ask.loanTermInMonths) \/ ~IsInt64(ask.loanTermInMonths)
  \/ ask.loanTermInMonths.units <= 0
  \/ ask.riskBand \notin ValidBands

BaseRate == [A |-> 100, B |-> 150, C |-> 225]

TermStep == 5
TermAdjustCap == 30
MonthsPerYear == 12

CommissionRate(band, months) ==
  LET adjustment == TermStep * (months \div MonthsPerYear)
  IN  Decimal(BaseRate[band] + Min({adjustment, TermAdjustCap}), 4)

Generate(ask) ==
  LET rate == CommissionRate(ask.riskBand, ask.loanTermInMonths.units)
  IN  [status |-> 201, hasId |-> TRUE, commissionRate |-> Rendered(rate, 4),
       totalCommission |-> Rendered(Mul(Parsed(ask.loanAmount), rate), 2)]

Answer(a) ==
  /\ request.stage = "asked"
  /\ request' = [stage |-> "answered", body |-> request.body, of |-> request.of, answer |-> a]
  /\ UNCHANGED <<caller, input, errors, quote>>

VendorAnswers ==
  /\ request.stage = "asked"
  /\ Answer(IF Rejects(request.ask) THEN [status |-> 400] ELSE Generate(request.ask))

VendorAnswersOddly == \E a \in OddAnswers : Answer(a)

-----------------------------------------------------------------------------
(* Back in the Middleware: decode, and the quote as it is written out. *)

Unreadable(a) ==
  \/ ~a.hasId
  \/ \E text \in {a.commissionRate, a.totalCommission} : ~IsNumberText(text) \/ ~Parses(text)

\* Mutant: the rate is written like an amount.
FiguresTwoPlaces(a) ==
  [kind |-> "quote", commissionRate |-> Rendered(Parsed(a.commissionRate), 2),
   totalCommission |-> Rendered(Parsed(a.totalCommission), 2)]

Figures(a) ==
  [kind |-> "quote", commissionRate |-> Rendered(Parsed(a.commissionRate), 4),
   totalCommission |-> Rendered(Parsed(a.totalCommission), 2)]

\* A 400 is "validation has drifted": the fault is ours.
Decode ==
  /\ request.stage = "answered"
  /\ Return(IF request.answer.status = 400 THEN [kind |-> "drifted"]
            ELSE IF Unreadable(request.answer) THEN [kind |-> "contract"]
            ELSE Figures(request.answer))
  /\ UNCHANGED <<caller, input, errors, quote>>

RequestNext ==
  \/ Type \/ Submit \/ Receive \/ EditQuote
  \/ ClientPosts \/ ClientReceives
  \/ Validate \/ VendorAnswers \/ VendorAnswersOddly \/ Decode

RequestSpec == RequestInit /\ [][RequestNext]_rvars

-----------------------------------------------------------------------------
Returned(kind) == request.stage = "returned" /\ request.result.kind = kind

\* The input as another client would post it, the texts as they are.
LiteralBody(i) ==
  [form |-> "object", loanAmount |-> i.loanAmount,
   loanTermInMonths |-> i.loanTermInMonths, riskBand |-> i.riskBand]

(* Nor does the page refuse what the Middleware would take: on texts that    *)
(* can stand in JSON they decide alike, and on numbers without a sign and  *)
(* not too long they name the same codes (validation.ts:1-3).              *)
SameVerdict ==
  LET texts == {input.loanAmount, input.loanTermInMonths}
      page  == PageErrors(input)
      ours  == ValidationErrors(LiteralBody(input))
  IN  /\ (\A t \in texts : t.shape \in {"decimal", "long", "exponent"})
            => (page = {} <=> ours = {})
      /\ (\A t \in texts : t.shape = "decimal" /\ t.units >= 0) => page = ours

(* What one layer lets through the next does too: a form that the page sends *)
(* is never sent back with field errors, Number() and JSON.stringify        *)
(* between the two rules included (App.tsx:107-108 calls that drift), and   *)
(* the vendor never refuses a request that the Middleware let through       *)
(* (vendor.go:202-205).                                                     *)
NoDrift == ~Returned("drifted") /\ (caller = "page" => ~Returned("details"))

\* The body with the fields in fs set right.
Repaired(body, fs) ==
  [form |-> "object",
   loanAmount |-> IF "loanAmount" \in fs THEN Text("decimal", MinAmount, 2) ELSE body.loanAmount,
   loanTermInMonths |-> IF "loanTermInMonths" \in fs THEN Text("decimal", MinMonths, 0)
                        ELSE body.loanTermInMonths,
   riskBand |-> IF "riskBand" \in fs THEN "A" ELSE body.riskBand]

(* Of a body that can be read, the details name the fields that stand in    *)
(* the way and no others: whoever sets right all of them is let through,   *)
(* and whoever leaves one is not (validate.go:56-60).                      *)
DetailsAreExact ==
  Returned("details") /\ ~Malformed(request.body) =>
    \A fs \in SUBSET Fields :
      ValidationErrors(Repaired(request.body, fs)) = {}
        <=> {e[1] : e \in request.result.details} \subseteq fs

\* contract.md:75-80, without division: base by band and a twentieth of a
\* percent for each full year, six at most; the commission to the nearest cent,
\* a tie upwards.
ContractRate(band, months) ==
  (CASE band = "A" -> 100 [] band = "B" -> 150 [] OTHER -> 225)
    + 5 * Cardinality({year \in 1..6 : 12 * year <= months})

(* What the mock's quote says, when it is back from two renderings and two  *)
(* parsings, is the contract's price of what was typed or posted.          *)
PricedByContract ==
  Returned("quote") /\ request.answer \notin OddAnswers =>
    LET asked == IF caller = "page" THEN request.of ELSE request.body
        rate  == ContractRate(asked.riskBand, asked.loanTermInMonths.units)
        exact == AtScale(asked.loanAmount, 2) * rate
        cents == AtScale(request.result.totalCommission, 2)
    IN  /\ SameValue(request.result.commissionRate, Decimal(rate, 4))
        /\ 10000 * cents - 5000 <= exact /\ exact < 10000 * cents + 5000

(* A quote has the figures the vendor answered, whatever form it wrote them *)
(* in (vendor.go:227-229: the commission is never recomputed), and an       *)
(* answer without an id or with a figure that is no plain decimal makes no  *)
(* quote.                                                                  *)
FiguresAreVendors ==
  Returned("quote") =>
    /\ request.answer.hasId
    /\ SameValue(request.result.commissionRate, request.answer.commissionRate)
    /\ SameValue(request.result.totalCommission, request.answer.totalCommission)
    /\ {request.answer.commissionRate.shape, request.answer.totalCommission.shape} = {"decimal"}

(* "it carries the values the quote was produced from: a quote cannot be    *)
(* checked without them" (QuoteSummary.tsx:12-13).                         *)
SummaryIsOfQuote == quote.shown => input = quote.of
=============================================================================
