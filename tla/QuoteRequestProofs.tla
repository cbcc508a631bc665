------------------------- MODULE QuoteRequestProofs -------------------------
(***************************************************************************)
(* Theorems about QuoteRequest, for any texts whatever, typed or posted.   *)
(*                                                                         *)
(* What each layer lets through has at most two places. So its powers of   *)
(* ten are few and known, and whether two representations of an amount are *)
(* the same is arithmetic.                                                 *)
(***************************************************************************)
EXTENDS QuoteRequest, FiniteSetTheorems, TLAPS

LEMMA Bounds ==
  MinAmount \in Nat /\ MaxAmount \in Nat /\ 0 < MinAmount /\ MinAmount <= MaxAmount
BY RequestAssumption

LEMMA Powers == 10^0 = 1 /\ 10^1 = 10 /\ 10^2 = 100 /\ 10^4 = 10000
OBVIOUS

LEMMA PowerOf ==
  ASSUME NEW n
  PROVE  (n = 0 => 10^n = 1) /\ (n = 1 => 10^n = 10) /\ (n = 2 => 10^n = 100)
<1>1. (n = 0 => 10^n = 10^0) /\ (n = 1 => 10^n = 10^1) /\ (n = 2 => 10^n = 10^2)
  OBVIOUS
<1>2. 10^0 = 1 /\ 10^1 = 10 /\ 10^2 = 100
  OBVIOUS
<1> QED BY <1>1, <1>2, Zenon

LEMMA PowerTyped == ASSUME NEW n \in 0..4  PROVE 10^n \in Int
<1>1. CASE n \in 0..2
  BY <1>1, PowerOf
<1>2. CASE n = 3
  <2>1. 10^n = 10^3 /\ 10^3 = 1000
    BY <1>2
  <2> QED BY <2>1
<1>3. CASE n = 4
  <2>1. 10^n = 10^4 /\ 10^4 = 10000
    BY <1>3
  <2> QED BY <2>1
<1> QED BY <1>1, <1>2, <1>3

-----------------------------------------------------------------------------
(* Amounts of at most two places, in cents. *)

Cents(d) == IF d.places = 0 THEN 100 * d.units ELSE IF d.places = 1 THEN 10 * d.units ELSE d.units

LEMMA CentsAtScale ==
  ASSUME NEW d, d.units \in Int, d.places \in 0..2
  PROVE  AtScale(d, 2) = Cents(d)
<1>1. CASE d.places = 0
  BY <1>1, Powers DEF AtScale, Cents
<1>2. CASE d.places = 1
  BY <1>2, Powers DEF AtScale, Cents
<1>3. CASE d.places = 2
  BY <1>3, Powers DEF AtScale, Cents
<1> QED BY <1>1, <1>2, <1>3

LEMMA InRange ==
  ASSUME NEW text, text.units \in Int, text.places \in 0..2
  PROVE  AmountInRange(text) <=> MinAmount <= Cents(text) /\ Cents(text) <= MaxAmount
<1> DEFINE a == Parsed(text)
<1>1. a.units = text.units /\ a.places = text.places
  BY DEF Parsed, Decimal
<1>2. Cents(a) = Cents(text)
  BY <1>1 DEF Cents
<1> HIDE DEF a
<1>3. AtScale(a, 2) = Cents(text)
  BY <1>1, <1>2, CentsAtScale
<1>4. ASSUME NEW n \in Nat
      PROVE  /\ AtScale(Decimal(n, 2), 2) = n
             /\ CommonScale(a, Decimal(n, 2)) = 2 /\ CommonScale(Decimal(n, 2), a) = 2
  BY <1>1, Powers DEF AtScale, Decimal, CommonScale
<1>5. Cents(text) \in Int
  BY DEF Cents
<1> QED BY <1>3, <1>4, <1>5, Bounds DEF AmountInRange, Less, a

LEMMA NoFailures ==
  ASSUME NEW a, NEW b, NEW c
  PROVE  Failures([loanAmount |-> a, loanTermInMonths |-> b, riskBand |-> c]) = {}
           <=> a = "ok" /\ b = "ok" /\ c = "ok"
<1> DEFINE codes == [loanAmount |-> a, loanTermInMonths |-> b, riskBand |-> c]
<1>1. codes["loanAmount"] = a /\ codes["loanTermInMonths"] = b /\ codes["riskBand"] = c
  OBVIOUS
<1> HIDE DEF codes
<1>2. Failures(codes) = {} <=> \A f \in Fields : codes[f] = "ok"
  BY DEF Failures
<1> QED BY <1>1, <1>2 DEF Fields, codes

\* Nothing is rounded that has no more places than it is written with.
LEMMA RendersExactly ==
  ASSUME NEW d, d.units \in Int, NEW k \in {2, 4}, d.places \in 0..k
  PROVE  /\ Rendered(d, k) = Text("decimal", AtScale(d, k), k)
         /\ AtScale(d, k) \in Int
         /\ SameValue(Rendered(d, k), d)
<1>1. PICK e : e = k - d.places
  OBVIOUS
<1>2. e \in 0..4
  BY <1>1
<1>3. PICK t : t = 10^e
  OBVIOUS
<1>4. t \in Int
  BY <1>2, <1>3, PowerTyped
<1>5. AtScale(d, k) = d.units * t
  BY <1>1, <1>3 DEF AtScale
<1>6. AtScale(d, k) \in Int
  BY <1>4, <1>5
<1>7. Rendered(d, k) = Text("decimal", AtScale(d, k), k)
  BY DEF Rendered, RoundHalfUp, Decimal
<1>8. SameValue(Text("decimal", AtScale(d, k), k), d)
  <2> DEFINE w == Text("decimal", AtScale(d, k), k)
  <2>1. w.units = AtScale(d, k) /\ w.places = k
    BY DEF Text
  <2> HIDE DEF w
  <2>2. CommonScale(w, d) = k
    BY <2>1 DEF CommonScale
  <2>3. AtScale(w, k) = AtScale(d, k)
    <3>1. k - k = 0
      OBVIOUS
    <3>2. 10^(k - k) = 1
      BY <3>1, PowerOf, Zenon
    <3>3. AtScale(w, k) = AtScale(d, k) * 10^(k - k)
      BY <2>1 DEF AtScale
    <3>4. AtScale(w, k) = AtScale(d, k) * 1
      BY <3>2, <3>3, Zenon
    <3> QED BY <1>6, <3>4
  <2>4. SameValue(w, d)
    BY <2>2, <2>3 DEF SameValue
  <2> QED BY <2>4 DEF w
<1> QED BY <1>6, <1>7, <1>8

-----------------------------------------------------------------------------
(* What JSON.stringify(Number(text)) makes of a text: the same value.        *)

LEMMA MinOfFew ==
  ASSUME NEW S \in SUBSET (0..2), S # {}  PROVE Min(S) \in S
<1>1. \E x \in S : \A y \in S : x <= y
  <2>1. CASE 0 \in S
    BY <2>1
  <2>2. CASE 0 \notin S /\ 1 \in S
    <3>1. \A y \in S : 1 <= y
      BY <2>2
    <3> QED BY <2>2, <3>1
  <2>3. CASE 0 \notin S /\ 1 \notin S
    <3>1. \A y \in S : y = 2
      BY <2>3
    <3>2. PICK x \in S : TRUE
      OBVIOUS
    <3>3. x = 2
      BY <3>1, <3>2
    <3> QED BY <3>1, <3>3
  <2> QED BY <2>1, <2>2, <2>3
<1> QED BY <1>1 DEF Min

LEMMA DividesOut ==
  ASSUME NEW n \in Int
  PROVE  /\ n % 1 = 0 /\ n \div 1 = n
         /\ n % 10 = 0 => n \div 10 \in Int /\ 10 * (n \div 10) = n
         /\ n % 100 = 0 => n \div 100 \in Int /\ 100 * (n \div 100) = n
OBVIOUS

LEMMA CanonicalKeeps ==
  ASSUME NEW text \in Texts, text.places \in 0..2
  PROVE  \E u \in Int, p \in 0..text.places :
           Canonical(text) = Text("decimal", u, p) /\ Cents(Text("decimal", u, p)) = Cents(text)
<1> DEFINE S == {q \in 0..text.places : text.units % 10^(text.places - q) = 0}
           p == Min(S)
           u == text.units \div 10^(text.places - p)
<1>1. text.units \in Int
  BY DEF Texts
<1>2. p \in S
  <2>1. 10^(text.places - text.places) = 1
    <3>1. text.places - text.places = 0
      OBVIOUS
    <3> QED BY <3>1, PowerOf, Zenon
  <2>2. text.places \in S
    <3>1. text.units % 1 = 0
      BY <1>1, DividesOut
    <3>2. text.units % 10^(text.places - text.places) = 0
      BY <2>1, <3>1, Zenon
    <3>3. text.places \in 0..text.places
      OBVIOUS
    <3> QED BY <3>2, <3>3, Zenon
  <2>3. S \in SUBSET (0..2) /\ S # {}
    BY <2>2
  <2> HIDE DEF S
  <2> QED BY <2>3, MinOfFew
<1>3. Canonical(text) = Text("decimal", u, p)
  BY DEF Canonical
<1>4. p \in 0..text.places /\ text.units % 10^(text.places - p) = 0
  BY <1>2
<1> HIDE DEF p
<1>5. u \in Int /\ Cents(Text("decimal", u, p)) = Cents(text)
  <2>1. CASE text.places - p = 0
    <3>1. 10^(text.places - p) = 1
      BY <2>1, PowerOf, Zenon
    <3>2. text.units % 1 = 0 /\ u = text.units \div 1
      BY <1>4, <3>1, Zenon
    <3>3. u = text.units
      BY <1>1, <3>2, DividesOut
    <3> QED BY <1>1, <1>4, <2>1, <3>3 DEF Cents, Text
  <2>2. CASE text.places - p = 1
    <3>1. 10^(text.places - p) = 10
      BY <2>2, PowerOf, Zenon
    <3>2. text.units % 10 = 0 /\ u = text.units \div 10
      BY <1>4, <3>1, Zenon
    <3>3. u \in Int /\ 10 * u = text.units
      BY <1>1, <3>2, DividesOut
    <3> QED BY <1>4, <2>2, <3>3 DEF Cents, Text
  <2>3. CASE text.places - p = 2
    <3>1. 10^(text.places - p) = 100
      BY <2>3, PowerOf, Zenon
    <3>2. text.units % 100 = 0 /\ u = text.units \div 100
      BY <1>4, <3>1, Zenon
    <3>3. u \in Int /\ 100 * u = text.units
      BY <1>1, <3>2, DividesOut
    <3> QED BY <1>4, <2>3, <3>3 DEF Cents, Text
  <2> QED BY <1>4, <2>1, <2>2, <2>3
<1> HIDE DEF u
<1> QED BY <1>3, <1>4, <1>5

LEMMA CanonicalWhole ==
  ASSUME NEW text \in Texts, text.places = 0
  PROVE  Canonical(text) = Text("decimal", text.units, 0)
<1>1. PICK u \in Int, p \in 0..text.places :
        Canonical(text) = Text("decimal", u, p) /\ Cents(Text("decimal", u, p)) = Cents(text)
  BY CanonicalKeeps
<1>2. p = 0 /\ u = text.units /\ text.units \in Int
  BY <1>1 DEF Cents, Text, Texts
<1> QED BY <1>1, <1>2

-----------------------------------------------------------------------------
(* The two validators. *)

LEMMA PageAmountOk ==
  ASSUME NEW text \in Texts
  PROVE  PageAmountCode(text) = "ok"
           <=> /\ text.shape \in {"decimal", "padded"} /\ text.places \in 0..2
               /\ MinAmount <= Cents(text) /\ Cents(text) <= MaxAmount
<1>1. text.units \in Int /\ text.places \in Nat
  BY DEF Texts
<1>2. CASE text.places > 2
  BY <1>1, <1>2 DEF PageAmountCode
<1>3. CASE text.places \in 0..2
  <2>1. AmountInRange(text) <=> MinAmount <= Cents(text) /\ Cents(text) <= MaxAmount
    BY <1>1, <1>3, InRange
  <2>2. MinAmount <= Cents(text) => text.units >= 0
    BY <1>1, Bounds DEF Cents
  <2> QED BY <1>3, <2>1, <2>2 DEF PageAmountCode, Digits
<1> QED BY <1>1, <1>2, <1>3

LEMMA AmountOk ==
  ASSUME NEW text \in Texts
  PROVE  AmountCode(text) = "ok"
           <=> /\ text.shape \in {"decimal", "padded"} /\ text.places \in 0..2
               /\ MinAmount <= Cents(text) /\ Cents(text) <= MaxAmount
<1>1. text.units \in Int /\ text.places \in Nat
  BY DEF Texts
<1>2. CASE text.places > 2
  BY <1>1, <1>2 DEF AmountCode
<1>3. CASE text.places \in 0..2
  <2>1. AmountInRange(text) <=> MinAmount <= Cents(text) /\ Cents(text) <= MaxAmount
    BY <1>1, <1>3, InRange
  <2> QED BY <1>3, <2>1 DEF AmountCode, IsNumberText, Parses
<1> QED BY <1>1, <1>2, <1>3

LEMMA PageTermOk ==
  ASSUME NEW text \in Texts
  PROVE  PageTermCode(text) = "ok"
           <=> /\ text.shape \in {"decimal", "padded"} /\ text.places = 0
               /\ text.units \in MinMonths..MaxMonths
BY DEF PageTermCode, Digits, Texts, MinMonths, MaxMonths

LEMMA TermOk ==
  ASSUME NEW text \in Texts
  PROVE  TermCode(text) = "ok"
           <=> /\ text.shape = "decimal" /\ text.places = 0
               /\ text.units \in MinMonths..MaxMonths
BY DEF TermCode, IsNumberText, IsInt64, Texts, MinMonths, MaxMonths

LEMMA BandOk == ASSUME NEW band  PROVE BandCode(band) = "ok" <=> band \in ValidBands
BY DEF BandCode

\* What a body is that the Middleware takes.
Sendable(body) ==
  /\ body.loanAmount.shape \in {"decimal", "padded"} /\ body.loanAmount.places \in 0..2
  /\ MinAmount <= Cents(body.loanAmount) /\ Cents(body.loanAmount) <= MaxAmount
  /\ body.loanTermInMonths.shape = "decimal" /\ body.loanTermInMonths.places = 0
  /\ body.loanTermInMonths.units \in MinMonths..MaxMonths
  /\ body.riskBand \in ValidBands

LEMMA ValidIsSendable ==
  ASSUME NEW body, body.loanAmount \in Texts, body.loanTermInMonths \in Texts
  PROVE  ValidationErrors(body) = {} <=> ~Malformed(body) /\ Sendable(body)
<1>1. CASE Malformed(body)
  BY <1>1 DEF ValidationErrors
<1>2. CASE ~Malformed(body)
  BY <1>2, NoFailures, AmountOk, TermOk, BandOk DEF ValidationErrors, Sendable
<1> QED BY <1>1, <1>2

\* What the page lets through is what the Middleware takes, as it arrives.
LEMMA PageBodySendable ==
  ASSUME NEW i, i.loanAmount \in Texts, i.loanTermInMonths \in Texts, PageErrors(i) = {}
  PROVE  /\ PageBody(i).loanAmount \in Texts /\ PageBody(i).loanTermInMonths \in Texts
         /\ ~Malformed(PageBody(i)) /\ Sendable(PageBody(i))
         /\ Cents(PageBody(i).loanAmount) = Cents(i.loanAmount)
         /\ PageBody(i).loanTermInMonths.units = i.loanTermInMonths.units
         /\ PageBody(i).riskBand = i.riskBand
         /\ i.loanAmount.places \in 0..2
<1>1. /\ i.loanAmount.places \in 0..2
      /\ MinAmount <= Cents(i.loanAmount) /\ Cents(i.loanAmount) <= MaxAmount
      /\ i.loanTermInMonths.places = 0 /\ i.loanTermInMonths.units \in MinMonths..MaxMonths
      /\ i.riskBand \in ValidBands
  BY NoFailures, PageAmountOk, PageTermOk, BandOk DEF PageErrors
<1>2. PICK u \in Int, p \in 0..i.loanAmount.places :
        /\ Canonical(i.loanAmount) = Text("decimal", u, p)
        /\ Cents(Text("decimal", u, p)) = Cents(i.loanAmount)
  BY <1>1, CanonicalKeeps
<1>3. Canonical(i.loanTermInMonths) = Text("decimal", i.loanTermInMonths.units, 0)
  BY <1>1, CanonicalWhole
<1>4. PageBody(i) = [form |-> "object", loanAmount |-> Text("decimal", u, p),
                     loanTermInMonths |-> Text("decimal", i.loanTermInMonths.units, 0),
                     riskBand |-> i.riskBand]
  BY <1>2, <1>3 DEF PageBody
<1>5. Text("decimal", u, p) \in Texts /\ Text("decimal", i.loanTermInMonths.units, 0) \in Texts
  BY <1>1 DEF Text, Texts, Shapes
<1>6. ~Malformed(PageBody(i))
  BY <1>4 DEF Malformed
<1> QED BY <1>1, <1>2, <1>4, <1>5, <1>6 DEF Sendable, Text

-----------------------------------------------------------------------------
(* The vendor. *)

LEMMA VendorBodyOf ==
  ASSUME NEW body, body.loanAmount \in Texts, body.loanTermInMonths \in Texts, Sendable(body)
  PROVE  VendorBody(body) = [loanAmount |-> Text("decimal", Cents(body.loanAmount), 2),
                             loanTermInMonths |-> body.loanTermInMonths,
                             riskBand |-> body.riskBand]
<1> DEFINE d == Parsed(body.loanAmount)
<1>1. d.units = body.loanAmount.units /\ d.places = body.loanAmount.places
  BY DEF Parsed, Decimal
<1>2. d.units \in Int /\ d.places \in 0..2
  BY <1>1 DEF Sendable, Texts
<1>3. Cents(d) = Cents(body.loanAmount)
  BY <1>1 DEF Cents
<1> HIDE DEF d
<1>4. Rendered(d, 2) = Text("decimal", Cents(body.loanAmount), 2)
  BY <1>2, <1>3, RendersExactly, CentsAtScale
<1> QED BY <1>4 DEF VendorBody, d

\* The vendor's rules are among ours.
LEMMA NotRejected ==
  ASSUME NEW body, body.loanAmount \in Texts, body.loanTermInMonths \in Texts, Sendable(body)
  PROVE  ~Rejects(VendorBody(body))
<1>1. Cents(body.loanAmount) \in Int /\ Cents(body.loanAmount) > 0
  BY Bounds DEF Sendable, Texts, Cents
<1> QED BY <1>1, VendorBodyOf
        DEF Rejects, Sendable, Text, IsNumberText, Parses, IsInt64, MinMonths, MaxMonths

LEMMA FullYears ==
  ASSUME NEW months \in Nat
  PROVE  Cardinality({year \in 1..6 : 12 * year <= months})
           = IF months \div 12 <= 6 THEN months \div 12 ELSE 6
<1> DEFINE k == IF months \div 12 <= 6 THEN months \div 12 ELSE 6
<1>1. k \in 0..6
  OBVIOUS
<1>2. {year \in 1..6 : 12 * year <= months} = 1..k
  OBVIOUS
<1> HIDE DEF k
<1>3. Cardinality(1..k) = k
  <2>1. k \in Int /\ 1 \in Int
    BY <1>1
  <2>2. Cardinality(1..k) = IF 1 > k THEN 0 ELSE k - 1 + 1
    BY <2>1, FS_Interval, Zenon
  <2> QED BY <1>1, <2>2
<1> QED BY <1>2, <1>3 DEF k

LEMMA RateOfContract ==
  ASSUME NEW band \in ValidBands, NEW months \in Nat
  PROVE  /\ ContractRate(band, months) \in Nat
         /\ CommissionRate(band, months) = Decimal(ContractRate(band, months), 4)
<1>1. BaseRate["A"] = 100 /\ BaseRate["B"] = 150 /\ BaseRate["C"] = 225
  BY DEF BaseRate
<1>2. \A x \in Nat : Min({x, 30}) = IF x <= 30 THEN x ELSE 30
  BY DEF Min
<1>3. PICK y \in Nat : y = months \div 12
  OBVIOUS
<1>4. Min({5 * y, 30}) = IF 5 * y <= 30 THEN 5 * y ELSE 30
  BY <1>2
<1>5. 5 * Cardinality({year \in 1..6 : 12 * year <= months}) = Min({5 * y, 30})
  BY <1>3, <1>4, FullYears
<1>6. Min({5 * y, 30}) \in Nat
  BY <1>4
<1>7. (CASE band = "A" -> 100 [] band = "B" -> 150 [] OTHER -> 225) = BaseRate[band]
  BY <1>1 DEF ValidBands
<1>8. ContractRate(band, months) = BaseRate[band] + Min({5 * y, 30})
  BY <1>5, <1>7 DEF ContractRate
<1>9. CommissionRate(band, months) = Decimal(BaseRate[band] + Min({5 * y, 30}), 4)
  BY <1>3 DEF CommissionRate, TermStep, TermAdjustCap, MonthsPerYear
<1> QED BY <1>1, <1>6, <1>8, <1>9 DEF ValidBands

LEMMA GenerateIs ==
  ASSUME NEW ask, NEW r, r = CommissionRate(ask.riskBand, ask.loanTermInMonths.units)
  PROVE  Generate(ask) = [status |-> 201, hasId |-> TRUE, commissionRate |-> Rendered(r, 4),
                          totalCommission |-> Rendered(Mul(Parsed(ask.loanAmount), r), 2)]
BY DEF Generate

\* The mock's answer: the contract's rate, and its product with the amount to
\* the nearest cent.
RateOf(body) == ContractRate(body.riskBand, body.loanTermInMonths.units)

Price(body) == Cents(body.loanAmount) * RateOf(body)

NearestCent(price) == (2 * price + 10000) \div 20000

LEMMA GeneratedAnswer ==
  ASSUME NEW body, body.loanAmount \in Texts, body.loanTermInMonths \in Texts, Sendable(body)
  PROVE  /\ RateOf(body) \in Nat /\ Price(body) \in Int
         /\ Generate(VendorBody(body)) =
              [status |-> 201, hasId |-> TRUE,
               commissionRate |-> Text("decimal", RateOf(body), 4),
               totalCommission |-> Text("decimal", NearestCent(Price(body)), 2)]
<1> DEFINE ask == VendorBody(body)
           rate == RateOf(body)
           cents == Cents(body.loanAmount)
<1>1. body.loanTermInMonths.units \in Nat /\ body.riskBand \in ValidBands
  BY DEF Sendable, MinMonths, MaxMonths
<1>2. rate \in Nat
      /\ CommissionRate(body.riskBand, body.loanTermInMonths.units) = Decimal(rate, 4)
  BY <1>1, RateOfContract DEF RateOf
<1>3. cents \in Int
  BY DEF Cents, Texts
<1>4. /\ ask.loanAmount = Text("decimal", cents, 2)
      /\ ask.loanTermInMonths = body.loanTermInMonths /\ ask.riskBand = body.riskBand
  BY VendorBodyOf
<1>5. Price(body) = cents * rate
  BY DEF Price
<1> HIDE DEF ask, rate, cents
<1>6. PICK x \in Int : x = cents * rate
  BY <1>2, <1>3
<1>7. Rendered(Decimal(rate, 4), 4) = Text("decimal", rate, 4)
  <2>1. PICK d : d = Decimal(rate, 4)
    OBVIOUS
  <2>2. d.units = rate /\ d.places = 4
    BY <2>1 DEF Decimal
  <2>3. AtScale(d, 4) = rate
    BY <1>2, <2>2, Powers DEF AtScale
  <2> QED BY <1>2, <2>1, <2>2, <2>3, RendersExactly
<1>8. Mul(Parsed(ask.loanAmount), Decimal(rate, 4)) = Decimal(x, 6)
  BY <1>4, <1>6 DEF Mul, Parsed, Decimal, Text
<1>9. Rendered(Decimal(x, 6), 2) = Text("decimal", NearestCent(x), 2)
  <2>1. RoundHalfUp(Decimal(x, 6), 2) = Decimal(NearestCent(x), 2)
    BY Powers DEF NearestCent, RoundHalfUp, Decimal
  <2> QED BY <2>1 DEF Rendered, Decimal
<1>10. PICK total : total = Text("decimal", NearestCent(x), 2)
  OBVIOUS
<1>11. PICK written : written = Text("decimal", rate, 4)
  OBVIOUS
<1>12. Generate(ask) = [status |-> 201, hasId |-> TRUE, commissionRate |-> written,
                        totalCommission |-> total]
  <2>1. PICK r : r = CommissionRate(ask.riskBand, ask.loanTermInMonths.units)
    OBVIOUS
  <2>2. r = Decimal(rate, 4)
    BY <1>2, <1>4, <2>1
  <2>3. PICK c, d : c = Rendered(r, 4) /\ d = Rendered(Mul(Parsed(ask.loanAmount), r), 2)
    OBVIOUS
  <2>4. Generate(ask) = [status |-> 201, hasId |-> TRUE, commissionRate |-> c,
                         totalCommission |-> d]
    BY <2>1, <2>3, GenerateIs, Zenon
  <2>5. c = written
    BY <1>7, <1>11, <2>2, <2>3, Zenon
  <2>6. d = total
    <3>1. Mul(Parsed(ask.loanAmount), r) = Decimal(x, 6)
      BY <1>8, <2>2, Zenon
    <3> QED BY <1>9, <1>10, <2>3, <3>1, Zenon
  <2> QED BY <2>4, <2>5, <2>6, Zenon
<1>13. Generate(VendorBody(body)) =
         [status |-> 201, hasId |-> TRUE, commissionRate |-> written, totalCommission |-> total]
  BY <1>12 DEF ask
<1>14. total = Text("decimal", NearestCent(Price(body)), 2) /\ Price(body) \in Int
  BY <1>5, <1>6, <1>10, Zenon
<1> QED BY <1>2, <1>11, <1>13, <1>14, Zenon DEF rate

-----------------------------------------------------------------------------
(* The invariant: what each stage of a request has been found to be.         *)

Inputs == [loanAmount : Texts, loanTermInMonths : Texts, riskBand : ValidBands \cup {""}]

CallerOK == caller \in {"page", "client"} /\ input \in Inputs

\* A body under way is the page's, of an input it found no fault with, or JSON.
SentOK ==
  request.stage \in {"posted", "asked", "answered", "returned"} =>
    /\ request.body.loanAmount \in Texts /\ request.body.loanTermInMonths \in Texts
    /\ caller = "page" => /\ request.of \in Inputs /\ PageErrors(request.of) = {}
                          /\ request.body = PageBody(request.of)

AskedOK ==
  request.stage = "asked" =>
    ValidationErrors(request.body) = {} /\ request.ask = VendorBody(request.body)

\* Whoever answers has been asked for something valid.
Answers(body, a) ==
  /\ ValidationErrors(body) = {}
  /\ a \in OddAnswers \/ a = Generate(VendorBody(body))

AnsweredOK == request.stage = "answered" => Answers(request.body, request.answer)

Refused == /\ request.result.kind = "details"
           /\ request.result.details = ValidationErrors(request.body)
           /\ ValidationErrors(request.body) # {}

Quoted == /\ Answers(request.body, request.answer) /\ ~Unreadable(request.answer)
          /\ request.result = Figures(request.answer)

ReturnedOK ==
  request.stage = "returned" => Refused \/ request.result.kind = "contract" \/ Quoted

RequestInv == CallerOK /\ SentOK /\ AskedOK /\ AnsweredOK /\ ReturnedOK

LEMMA BlankTyped == Empty \in Inputs
BY DEF Empty, Inputs, Blank, Text, Texts, Shapes

LEMMA InitInv == RequestInit => RequestInv
BY BlankTyped DEF RequestInit, RequestInv, CallerOK, SentOK, AskedOK, AnsweredOK, ReturnedOK, NoRequest

\* A step that leaves the request alone, or ends it.
LEMMA IdleKeeps ==
  ASSUME RequestInv, caller' = caller, input' \in Inputs,
         request' = request \/ request' = NoRequest
  PROVE  RequestInv'
<1>1. CASE request' = request
  BY <1>1 DEF RequestInv, CallerOK, SentOK, AskedOK, AnsweredOK, ReturnedOK, Refused, Quoted
<1>2. CASE request' = NoRequest
  BY <1>2 DEF RequestInv, CallerOK, SentOK, AskedOK, AnsweredOK, ReturnedOK, NoRequest
<1> QED BY <1>1, <1>2

LEMMA TypeKeeps == ASSUME RequestInv, Type  PROVE RequestInv'
<1>1. /\ \A t \in TypedAmounts \cup TypedTerms : t \in Texts
      /\ input \in Inputs
  BY RequestAssumption DEF RequestInv, CallerOK
<1>2. input' \in Inputs
  BY <1>1 DEF Type, Inputs
<1> QED BY <1>2, IdleKeeps DEF Type

LEMMA SubmitKeeps == ASSUME RequestInv, Submit  PROVE RequestInv'
<1>1. caller = "page" /\ caller' = caller /\ input' = input /\ input \in Inputs
  BY DEF Submit, RequestInv, CallerOK
<1>2. CASE request' = NoRequest
  BY <1>1, <1>2, IdleKeeps
<1>3. CASE PageErrors(input) = {} /\ request' = [stage |-> "posted", body |-> PageBody(input), of |-> input]
  <2>1. input.loanAmount \in Texts /\ input.loanTermInMonths \in Texts
    BY <1>1 DEF Inputs
  <2>2. PICK b : b = PageBody(input)
    OBVIOUS
  <2>3. b.loanAmount \in Texts /\ b.loanTermInMonths \in Texts
    BY <1>3, <2>1, <2>2, PageBodySendable
  <2>4. PICK i : i = input
    OBVIOUS
  <2>5. request' = [stage |-> "posted", body |-> b, of |-> i] /\ i \in Inputs /\ PageErrors(i) = {}
        /\ b = PageBody(i)
    BY <1>1, <1>3, <2>2, <2>4
  <2> QED BY <1>1, <2>3, <2>5
          DEF RequestInv, CallerOK, SentOK, AskedOK, AnsweredOK, ReturnedOK
<1> QED BY <1>2, <1>3 DEF Submit

LEMMA ClientPostsKeeps == ASSUME RequestInv, ClientPosts  PROVE RequestInv'
<1>1. PICK b \in Bodies : request' = [stage |-> "posted", body |-> b, of |-> Empty]
  BY DEF ClientPosts
<1>2. b.loanAmount \in Texts /\ b.loanTermInMonths \in Texts
  BY RequestAssumption DEF Bodies
<1>3. caller = "client" /\ caller' = caller /\ input' = input /\ input \in Inputs
  BY DEF ClientPosts, RequestInv, CallerOK
<1> QED BY <1>1, <1>2, <1>3 DEF RequestInv, CallerOK, SentOK, AskedOK, AnsweredOK, ReturnedOK

LEMMA ValidateKeeps == ASSUME RequestInv, Validate  PROVE RequestInv'
<1>1. request.stage = "posted" /\ caller' = caller /\ input' = input
  BY DEF Validate
<1>2. PICK q : q = request
  OBVIOUS
<1>3. /\ CallerOK /\ q.body.loanAmount \in Texts /\ q.body.loanTermInMonths \in Texts
      /\ caller = "page" => q.of \in Inputs /\ PageErrors(q.of) = {} /\ q.body = PageBody(q.of)
  BY <1>1, <1>2 DEF RequestInv, SentOK
<1>4. CASE ValidationErrors(q.body) # {}
  <2>1. request' = [stage |-> "returned", body |-> q.body, of |-> q.of, answer |-> [status |-> 0],
                    result |-> [kind |-> "details", details |-> ValidationErrors(q.body)]]
    BY <1>1, <1>2, <1>4 DEF Validate, Return
  <2>2. PICK r : r = [kind |-> "details", details |-> ValidationErrors(q.body)]
    OBVIOUS
  <2>3. r.kind = "details" /\ r.details = ValidationErrors(q.body)
    BY <2>2
  <2>4. request' = [stage |-> "returned", body |-> q.body, of |-> q.of, answer |-> [status |-> 0],
                    result |-> r]
    BY <2>1, <2>2
  <2> QED BY <1>1, <1>3, <1>4, <2>3, <2>4
          DEF RequestInv, CallerOK, SentOK, AskedOK, AnsweredOK, ReturnedOK, Refused
<1>5. CASE ValidationErrors(q.body) = {}
  <2>1. request' = [stage |-> "asked", body |-> q.body, of |-> q.of, ask |-> VendorBody(q.body)]
    BY <1>1, <1>2, <1>5 DEF Validate
  <2> QED BY <1>1, <1>3, <1>5, <2>1
          DEF RequestInv, CallerOK, SentOK, AskedOK, AnsweredOK, ReturnedOK
<1> QED BY <1>4, <1>5

LEMMA AnswerKeeps ==
  ASSUME RequestInv, NEW a, Answer(a), Answers(request.body, a)
  PROVE  RequestInv'
<1>1. PICK q : q = request
  OBVIOUS
<1>2. /\ q.stage = "asked" /\ caller' = caller /\ input' = input
      /\ request' = [stage |-> "answered", body |-> q.body, of |-> q.of, answer |-> a]
  BY <1>1 DEF Answer
<1>3. /\ CallerOK /\ q.body.loanAmount \in Texts /\ q.body.loanTermInMonths \in Texts
      /\ caller = "page" => q.of \in Inputs /\ PageErrors(q.of) = {} /\ q.body = PageBody(q.of)
      /\ Answers(q.body, a)
  BY <1>1, <1>2 DEF RequestInv, SentOK
<1> QED BY <1>2, <1>3 DEF RequestInv, CallerOK, SentOK, AskedOK, AnsweredOK, ReturnedOK

LEMMA VendorAnswersKeeps ==
  ASSUME RequestInv, VendorAnswers \/ VendorAnswersOddly  PROVE RequestInv'
<1>1. CASE VendorAnswers
  <2>1. /\ request.stage = "asked" /\ request.ask = VendorBody(request.body)
        /\ ValidationErrors(request.body) = {}
        /\ request.body.loanAmount \in Texts /\ request.body.loanTermInMonths \in Texts
    BY <1>1 DEF VendorAnswers, RequestInv, AskedOK, SentOK
  <2>2. ~Rejects(VendorBody(request.body))
    BY <2>1, ValidIsSendable, NotRejected
  <2>3. Answer(Generate(VendorBody(request.body)))
    BY <1>1, <2>1, <2>2 DEF VendorAnswers
  <2> QED BY <2>1, <2>3, AnswerKeeps DEF Answers
<1>2. CASE VendorAnswersOddly
  <2>1. PICK a \in OddAnswers : Answer(a)
    BY <1>2 DEF VendorAnswersOddly
  <2>2. ValidationErrors(request.body) = {}
    BY <2>1 DEF Answer, RequestInv, AskedOK
  <2> QED BY <2>1, <2>2, AnswerKeeps DEF Answers
<1> QED BY <1>1, <1>2

LEMMA DecodeKeeps == ASSUME RequestInv, Decode  PROVE RequestInv'
<1>1. PICK q : q = request
  OBVIOUS
<1>2. /\ q.stage = "answered" /\ caller' = caller /\ input' = input
      /\ CallerOK /\ q.body.loanAmount \in Texts /\ q.body.loanTermInMonths \in Texts
      /\ caller = "page" => q.of \in Inputs /\ PageErrors(q.of) = {} /\ q.body = PageBody(q.of)
      /\ Answers(q.body, q.answer)
  BY <1>1 DEF Decode, RequestInv, SentOK, AnsweredOK
<1>3. q.answer.status # 400
  <2>1. CASE q.answer \in OddAnswers
    BY <2>1, RequestAssumption
  <2>2. CASE q.answer = Generate(VendorBody(q.body))
    BY <2>2 DEF Generate
  <2> QED BY <1>2, <2>1, <2>2 DEF Answers
<1>4. PICK r : /\ request' = [stage |-> "returned", body |-> q.body, of |-> q.of,
                              answer |-> q.answer, result |-> r]
               /\ r = IF Unreadable(q.answer) THEN [kind |-> "contract"] ELSE Figures(q.answer)
  BY <1>1, <1>2, <1>3 DEF Decode, Return
<1>5. \/ r.kind = "contract"
      \/ ~Unreadable(q.answer) /\ r = Figures(q.answer)
  BY <1>4
<1>6. CallerOK' /\ SentOK' /\ AskedOK' /\ AnsweredOK'
  BY <1>2, <1>4 DEF CallerOK, SentOK, AskedOK, AnsweredOK
<1>7. ReturnedOK'
  BY <1>2, <1>4, <1>5 DEF ReturnedOK, Refused, Quoted
<1> QED BY <1>6, <1>7 DEF RequestInv

THEOREM AlwaysInv == RequestSpec => []RequestInv
<1>1. RequestInv /\ [RequestNext]_rvars => RequestInv'
  <2> SUFFICES ASSUME RequestInv, [RequestNext]_rvars  PROVE RequestInv'
    OBVIOUS
  <2>0. input \in Inputs
    BY DEF RequestInv, CallerOK
  <2>1. CASE Type
    BY <2>1, TypeKeeps
  <2>2. CASE Submit
    BY <2>2, SubmitKeeps
  <2>3. CASE Receive \/ EditQuote \/ ClientReceives
    BY <2>0, <2>3, IdleKeeps DEF Receive, EditQuote, ClientReceives
  <2>4. CASE ClientPosts
    BY <2>4, ClientPostsKeeps
  <2>5. CASE Validate
    BY <2>5, ValidateKeeps
  <2>6. CASE VendorAnswers \/ VendorAnswersOddly
    BY <2>6, VendorAnswersKeeps
  <2>7. CASE Decode
    BY <2>7, DecodeKeeps
  <2>8. CASE UNCHANGED rvars
    BY <2>0, <2>8, IdleKeeps DEF rvars
  <2> QED BY <2>1, <2>2, <2>3, <2>4, <2>5, <2>6, <2>7, <2>8 DEF RequestNext
<1> QED BY <1>1, InitInv, PTL DEF RequestSpec

-----------------------------------------------------------------------------
(* What follows. *)

(* A form the page sends is never sent back with field errors, and the       *)
(* vendor never refuses what the Middleware let through (App.tsx:107-108,    *)
(* vendor.go:202-205), for all texts that can be typed or posted.            *)
THEOREM NothingDrifts == RequestSpec => []NoDrift
<1>1. RequestInv => NoDrift
  <2> SUFFICES ASSUME RequestInv, request.stage = "returned"  PROVE NoDrift
    BY DEF NoDrift, Returned
  <2>1. request.result.kind # "drifted"
    BY DEF RequestInv, ReturnedOK, Refused, Quoted, Figures
  <2>2. caller = "page" => ~Refused
    <3>1. PICK i : i = request.of
      OBVIOUS
    <3>2. caller = "page" => i.loanAmount \in Texts /\ i.loanTermInMonths \in Texts
                             /\ PageErrors(i) = {} /\ request.body = PageBody(i)
      BY <3>1 DEF RequestInv, SentOK, Inputs
    <3>3. caller = "page" => ValidationErrors(PageBody(i)) = {}
      BY <3>2, PageBodySendable, ValidIsSendable
    <3> QED BY <3>2, <3>3 DEF Refused
  <2>3. caller = "page" => request.result.kind # "details"
    BY <2>2 DEF RequestInv, ReturnedOK, Quoted, Figures
  <2> QED BY <2>1, <2>3 DEF NoDrift, Returned
<1> QED BY <1>1, AlwaysInv, PTL

(* The page refuses nothing the Middleware would take, and names the same    *)
(* codes (validation.ts:1-3), for all texts.                                *)
THEOREM VerdictsAgree == RequestSpec => []SameVerdict
<1>1. RequestInv => SameVerdict
  <2> SUFFICES ASSUME NEW i \in Inputs, i = input  PROVE SameVerdict
    BY DEF RequestInv, CallerOK
  <2> DEFINE a == i.loanAmount
             t == i.loanTermInMonths
  <2>1. a \in Texts /\ t \in Texts
    BY DEF Inputs
  <2>2. ValidationErrors(LiteralBody(i))
          = Failures([loanAmount |-> AmountCode(a), loanTermInMonths |-> TermCode(t),
                      riskBand |-> BandCode(i.riskBand)])
    BY DEF ValidationErrors, Malformed, LiteralBody
  <2>3. PageErrors(i)
          = Failures([loanAmount |-> PageAmountCode(a), loanTermInMonths |-> PageTermCode(t),
                      riskBand |-> BandCode(i.riskBand)])
    BY DEF PageErrors
  <2>4. ASSUME a.shape \in {"decimal", "long", "exponent"}, t.shape \in {"decimal", "long", "exponent"}
        PROVE  PageErrors(i) = {} <=> ValidationErrors(LiteralBody(i)) = {}
    <3>1. PageAmountCode(a) = "ok" <=> AmountCode(a) = "ok"
      BY <2>1, PageAmountOk, AmountOk
    <3>2. PageTermCode(t) = "ok" <=> TermCode(t) = "ok"
      BY <2>1, <2>4, PageTermOk, TermOk
    <3> QED BY <2>2, <2>3, <3>1, <3>2, NoFailures
  <2>5. ASSUME a.shape = "decimal", t.shape = "decimal", a.units >= 0, t.units >= 0
        PROVE  PageErrors(i) = ValidationErrors(LiteralBody(i))
    <3>1. PageAmountCode(a) = AmountCode(a)
      BY <2>5 DEF PageAmountCode, AmountCode, Digits, IsNumberText, Parses
    <3>2. PageTermCode(t) = TermCode(t)
      BY <2>1, <2>5 DEF PageTermCode, TermCode, Digits, IsNumberText, IsInt64, HasPointOrE, Texts
    <3> QED BY <2>2, <2>3, <3>1, <3>2
  <2> QED BY <2>4, <2>5 DEF SameVerdict
<1> QED BY <1>1, AlwaysInv, PTL

LEMMA RepairsNamed ==
  ASSUME NEW body, body.loanAmount \in Texts, body.loanTermInMonths \in Texts,
         ~Malformed(body), NEW fs \in SUBSET Fields
  PROVE  ValidationErrors(Repaired(body, fs)) = {}
           <=> {e[1] : e \in ValidationErrors(body)} \subseteq fs
<1> DEFINE codes == [loanAmount |-> AmountCode(body.loanAmount),
                     loanTermInMonths |-> TermCode(body.loanTermInMonths),
                     riskBand |-> BandCode(body.riskBand)]
           fixed == Repaired(body, fs)
<1>1. /\ codes["loanAmount"] = AmountCode(body.loanAmount)
      /\ codes["loanTermInMonths"] = TermCode(body.loanTermInMonths)
      /\ codes["riskBand"] = BandCode(body.riskBand)
  OBVIOUS
<1>2. ValidationErrors(body) = Failures(codes)
  BY DEF ValidationErrors
<1>3. AmountCode(fixed.loanAmount) = "ok" <=> "loanAmount" \in fs \/ codes["loanAmount"] = "ok"
  <2>1. AmountCode(Text("decimal", MinAmount, 2)) = "ok"
    <3>1. Text("decimal", MinAmount, 2) \in Texts /\ Cents(Text("decimal", MinAmount, 2)) = MinAmount
      BY Bounds DEF Text, Texts, Shapes, Cents
    <3> QED BY <3>1, Bounds, AmountOk DEF Text
  <2> QED BY <1>1, <2>1 DEF Repaired
<1>4. TermCode(fixed.loanTermInMonths) = "ok"
        <=> "loanTermInMonths" \in fs \/ codes["loanTermInMonths"] = "ok"
  <2>1. TermCode(Text("decimal", MinMonths, 0)) = "ok"
    BY DEF Text, TermCode, IsNumberText, IsInt64, MinMonths, MaxMonths
  <2> QED BY <1>1, <2>1 DEF Repaired
<1>5. BandCode(fixed.riskBand) = "ok" <=> "riskBand" \in fs \/ codes["riskBand"] = "ok"
  BY <1>1 DEF Repaired, BandCode, ValidBands
<1>6. ValidationErrors(fixed)
        = Failures([loanAmount |-> AmountCode(fixed.loanAmount),
                    loanTermInMonths |-> TermCode(fixed.loanTermInMonths),
                    riskBand |-> BandCode(fixed.riskBand)])
  <2>1. ~Malformed(fixed)
    BY DEF Repaired, Malformed
  <2> QED BY <2>1 DEF ValidationErrors
<1> HIDE DEF codes, fixed
<1>7. ValidationErrors(fixed) = {} <=> \A f \in Fields : f \in fs \/ codes[f] = "ok"
  BY <1>3, <1>4, <1>5, <1>6, NoFailures DEF Fields
<1>8. {e[1] : e \in Failures(codes)} = {f \in Fields : codes[f] # "ok"}
  <2>1. \A f \in Fields : codes[f] # "ok" => <<f, codes[f]>> \in Failures(codes)
    BY DEF Failures
  <2>2. \A e \in Failures(codes) : \E f \in Fields : codes[f] # "ok" /\ e = <<f, codes[f]>>
    BY DEF Failures
  <2>3. \A f \in Fields : codes[f] # "ok" => f \in {e[1] : e \in Failures(codes)}
    <3> SUFFICES ASSUME NEW f \in Fields, codes[f] # "ok"
                 PROVE  \E e \in Failures(codes) : e[1] = f
      OBVIOUS
    <3>1. PICK e : e = <<f, codes[f]>>
      OBVIOUS
    <3>2. e \in Failures(codes) /\ e[1] = f
      BY <2>1, <3>1
    <3> QED BY <3>2
  <2>4. \A e \in Failures(codes) : e[1] \in Fields /\ codes[e[1]] # "ok"
    BY <2>2
  <2> QED BY <2>3, <2>4
<1> QED BY <1>2, <1>7, <1>8 DEF fixed

(* The details of a readable body name the fields that stand in the way and  *)
(* no others (validate.go:56-60), for every body.                           *)
THEOREM DetailsNameAllAndOnly == RequestSpec => []DetailsAreExact
<1>1. RequestInv => DetailsAreExact
  <2> SUFFICES ASSUME RequestInv, Returned("details"), ~Malformed(request.body),
                      NEW fs \in SUBSET Fields
               PROVE  ValidationErrors(Repaired(request.body, fs)) = {}
                        <=> {e[1] : e \in request.result.details} \subseteq fs
    BY DEF DetailsAreExact
  <2>1. request.body.loanAmount \in Texts /\ request.body.loanTermInMonths \in Texts
    BY DEF RequestInv, SentOK, Returned
  <2>2. request.result.details = ValidationErrors(request.body)
    BY DEF RequestInv, ReturnedOK, Returned, Refused, Quoted, Figures
  <2>3. ValidationErrors(Repaired(request.body, fs)) = {}
          <=> {e[1] : e \in ValidationErrors(request.body)} \subseteq fs
    BY <2>1, RepairsNamed
  <2> QED BY <2>2, <2>3
<1> QED BY <1>1, AlwaysInv, PTL

LEMMA FiguresExact ==
  ASSUME NEW a, a.commissionRate.units \in Int, a.commissionRate.places \in 0..4,
         a.totalCommission.units \in Int, a.totalCommission.places \in 0..2
  PROVE  /\ Figures(a).commissionRate = Text("decimal", AtScale(a.commissionRate, 4), 4)
         /\ Figures(a).totalCommission = Text("decimal", AtScale(a.totalCommission, 2), 2)
         /\ SameValue(Figures(a).commissionRate, a.commissionRate)
         /\ SameValue(Figures(a).totalCommission, a.totalCommission)
<1>1. ASSUME NEW d, d.units \in Int, NEW k \in {2, 4}, d.places \in 0..k
      PROVE  Rendered(Parsed(d), k) = Text("decimal", AtScale(d, k), k)
             /\ SameValue(Rendered(Parsed(d), k), d)
  <2>1. PICK e : e = Parsed(d)
    OBVIOUS
  <2>2. e.units = d.units /\ e.places = d.places
    BY <2>1 DEF Parsed, Decimal
  <2>3. Rendered(e, k) = Text("decimal", AtScale(e, k), k) /\ SameValue(Rendered(e, k), e)
    BY <1>1, <2>2, RendersExactly
  <2>4. AtScale(e, k) = AtScale(d, k)
    BY <2>2 DEF AtScale
  <2>5. \A r : SameValue(r, e) <=> SameValue(r, d)
    BY <2>2 DEF SameValue, AtScale, CommonScale
  <2> QED BY <2>1, <2>3, <2>4, <2>5
<1>2. Figures(a).commissionRate = Rendered(Parsed(a.commissionRate), 4)
      /\ Figures(a).totalCommission = Rendered(Parsed(a.totalCommission), 2)
  BY DEF Figures
<1>3. PICK c, d : c = a.commissionRate /\ d = a.totalCommission
  OBVIOUS
<1>4. /\ Rendered(Parsed(c), 4) = Text("decimal", AtScale(c, 4), 4) /\ SameValue(Rendered(Parsed(c), 4), c)
      /\ Rendered(Parsed(d), 2) = Text("decimal", AtScale(d, 2), 2) /\ SameValue(Rendered(Parsed(d), 2), d)
  BY <1>1, <1>3
<1> QED BY <1>2, <1>3, <1>4, Zenon

\* What a quote was made of that is the mock's.
LEMMA OfTheMock ==
  ASSUME RequestInv, Returned("quote"), request.answer \notin OddAnswers
  PROVE  LET body == request.body
         IN  /\ body.loanAmount \in Texts /\ body.loanTermInMonths \in Texts /\ Sendable(body)
             /\ request.answer = [status |-> 201, hasId |-> TRUE,
                                  commissionRate |-> Text("decimal", RateOf(body), 4),
                                  totalCommission |-> Text("decimal", NearestCent(Price(body)), 2)]
             /\ request.result = Figures(request.answer)
             /\ RateOf(body) \in Nat /\ Price(body) \in Int
<1>1. PICK body : body = request.body
  OBVIOUS
<1>2. body.loanAmount \in Texts /\ body.loanTermInMonths \in Texts
  BY <1>1 DEF RequestInv, SentOK, Returned
<1>3. Quoted
  BY DEF RequestInv, ReturnedOK, Returned, Refused
<1>4. /\ ValidationErrors(body) = {} /\ request.answer = Generate(VendorBody(body))
      /\ request.result = Figures(request.answer)
  BY <1>1, <1>3 DEF Quoted, Answers
<1>5. Sendable(body)
  BY <1>2, <1>4, ValidIsSendable
<1> QED BY <1>1, <1>2, <1>4, <1>5, GeneratedAnswer, Zenon

\* What it was asked for: what is posted, or what was typed.
LEMMA AskedFor ==
  ASSUME RequestInv, request.stage = "returned", Sendable(request.body),
         NEW asked, asked = IF caller = "page" THEN request.of ELSE request.body
  PROVE  /\ AtScale(asked.loanAmount, 2) = Cents(request.body.loanAmount)
         /\ ContractRate(asked.riskBand, asked.loanTermInMonths.units) = RateOf(request.body)
<1>1. PICK body : body = request.body
  OBVIOUS
<1>2. /\ asked.loanAmount.units \in Int /\ asked.loanAmount.places \in 0..2
      /\ Cents(asked.loanAmount) = Cents(body.loanAmount)
      /\ asked.loanTermInMonths.units = body.loanTermInMonths.units
      /\ asked.riskBand = body.riskBand
  <2>1. CASE caller # "page"
    BY <1>1, <2>1 DEF RequestInv, SentOK, Sendable, Texts
  <2>2. CASE caller = "page"
    <3>1. /\ asked.loanAmount \in Texts /\ asked.loanTermInMonths \in Texts
          /\ PageErrors(asked) = {} /\ body = PageBody(asked)
      BY <1>1, <2>2 DEF RequestInv, SentOK, Inputs
    <3> QED BY <3>1, PageBodySendable DEF Texts
  <2> QED BY <2>1, <2>2
<1>3. AtScale(asked.loanAmount, 2) = Cents(body.loanAmount)
  BY <1>2, CentsAtScale
<1> QED BY <1>1, <1>2, <1>3 DEF RateOf

(* A quote of the mock's is the contract's price of what was typed or        *)
(* posted, to the nearest cent (contract.md:75-80, pricing.go, vendor.go),   *)
(* for every amount, term and band that all three programs let through.     *)
THEOREM PricedAsContracted == RequestSpec => []PricedByContract
<1>1. RequestInv => PricedByContract
  <2> SUFFICES ASSUME RequestInv, Returned("quote"), request.answer \notin OddAnswers
               PROVE  PricedByContract
    BY DEF PricedByContract
  <2>a. PICK asked : asked = IF caller = "page" THEN request.of ELSE request.body
    OBVIOUS
  <2>b. PICK rate : rate = ContractRate(asked.riskBand, asked.loanTermInMonths.units)
    OBVIOUS
  <2>c. PICK exact, cents : /\ exact = AtScale(asked.loanAmount, 2) * rate
                            /\ cents = AtScale(request.result.totalCommission, 2)
    OBVIOUS
  <2>1. PICK body, a : body = request.body /\ a = request.answer
    OBVIOUS
  <2>2. /\ Sendable(body) /\ request.result = Figures(a)
        /\ a = [status |-> 201, hasId |-> TRUE,
                commissionRate |-> Text("decimal", RateOf(body), 4),
                totalCommission |-> Text("decimal", NearestCent(Price(body)), 2)]
        /\ RateOf(body) \in Nat /\ Price(body) \in Int
    BY <2>1, OfTheMock
  <2>3. rate = RateOf(body) /\ exact = Price(body)
    BY <2>1, <2>2, <2>a, <2>b, <2>c, AskedFor DEF Returned, Price
  <2>4. PICK n \in Int : n = NearestCent(Price(body))
    BY <2>2 DEF NearestCent
  <2>5. 10000 * n - 5000 <= exact /\ exact < 10000 * n + 5000
    BY <2>2, <2>3, <2>4 DEF NearestCent
  <2>6. PICK c, d : c = a.commissionRate /\ d = a.totalCommission
    OBVIOUS
  <2>7. c.units = rate /\ c.places = 4 /\ d.units = n /\ d.places = 2
    BY <2>2, <2>3, <2>4, <2>6 DEF Text
  <2>8. /\ request.result.commissionRate = Text("decimal", AtScale(c, 4), 4)
        /\ request.result.totalCommission = Text("decimal", AtScale(d, 2), 2)
    BY <2>2, <2>3, <2>6, <2>7, FiguresExact
  <2>9. AtScale(c, 4) = rate /\ AtScale(d, 2) = n
    BY <2>2, <2>3, <2>7, Powers DEF AtScale
  <2>10. cents = n
    <3>1. PICK f : f = Text("decimal", n, 2)
      OBVIOUS
    <3>2. cents = AtScale(f, 2) /\ f.units = n /\ f.places = 2
      BY <2>c, <2>8, <2>9, <3>1 DEF Text
    <3> QED BY <3>2, Powers DEF AtScale
  <2>11. SameValue(Text("decimal", rate, 4), Decimal(rate, 4))
    BY DEF SameValue, AtScale, CommonScale, Text, Decimal
  <2>12. /\ SameValue(request.result.commissionRate, Decimal(rate, 4))
         /\ 10000 * cents - 5000 <= exact /\ exact < 10000 * cents + 5000
    BY <2>5, <2>8, <2>9, <2>10, <2>11
  <2> QED BY <2>a, <2>b, <2>c, <2>12 DEF PricedByContract
<1> QED BY <1>1, AlwaysInv, PTL

\* The wire's form: two places of an amount, four of a rate (contract.md:27-28).
WireForm == \A a \in OddAnswers : a.commissionRate.places <= 4 /\ a.totalCommission.places <= 2

(* The figures of a quote are the vendor's, as long as it writes no more     *)
(* places than the wire's form has; an answer without an id, or with a      *)
(* figure that is no plain decimal, makes no quote (vendor.go's decode).    *)
THEOREM FiguresAsAnswered ==
  ASSUME WireForm
  PROVE  RequestSpec => []FiguresAreVendors
<1>1. RequestInv => FiguresAreVendors
  <2> SUFFICES ASSUME RequestInv, Returned("quote"), NEW a, a = request.answer
               PROVE  /\ a.hasId
                      /\ SameValue(request.result.commissionRate, a.commissionRate)
                      /\ SameValue(request.result.totalCommission, a.totalCommission)
                      /\ {a.commissionRate.shape, a.totalCommission.shape} = {"decimal"}
    BY DEF FiguresAreVendors
  <2>1. Quoted
    BY DEF RequestInv, ReturnedOK, Returned, Refused
  <2>2. request.result = Figures(a) /\ ~Unreadable(a)
    BY <2>1 DEF Quoted
  <2>3. /\ a.hasId /\ Parses(a.commissionRate) /\ Parses(a.totalCommission)
    BY <2>2 DEF Unreadable
  <2>4. /\ a.commissionRate.units \in Int /\ a.commissionRate.places \in 0..4
        /\ a.totalCommission.units \in Int /\ a.totalCommission.places \in 0..2
        /\ a.commissionRate.shape # "padded" /\ a.totalCommission.shape # "padded"
    <3>1. CASE a \in OddAnswers
      <4>1. \A t \in {a.commissionRate, a.totalCommission} : t \in Texts /\ t.shape # "padded"
        BY <3>1, RequestAssumption
      <4>2. a.commissionRate.places <= 4 /\ a.totalCommission.places <= 2
        BY <3>1 DEF WireForm
      <4> QED BY <4>1, <4>2 DEF Texts
    <3>2. CASE a \notin OddAnswers
      <4>1. PICK body : body = request.body
        OBVIOUS
      <4>2. /\ a = [status |-> 201, hasId |-> TRUE,
                    commissionRate |-> Text("decimal", RateOf(body), 4),
                    totalCommission |-> Text("decimal", NearestCent(Price(body)), 2)]
            /\ RateOf(body) \in Nat /\ Price(body) \in Int
        BY <3>2, <4>1, OfTheMock
      <4>3. PICK n \in Int : n = NearestCent(Price(body))
        BY <4>2 DEF NearestCent
      <4> QED BY <4>2, <4>3 DEF Text
    <3> QED BY <3>1, <3>2
  <2>5. a.commissionRate.shape = "decimal" /\ a.totalCommission.shape = "decimal"
    BY <2>3, <2>4 DEF Parses
  <2> QED BY <2>2, <2>3, <2>4, <2>5, FiguresExact
<1> QED BY <1>1, AlwaysInv, PTL
=============================================================================
