--------------------------- MODULE MCQuoteRequest ---------------------------
(* QuoteRequest on texts at and around every boundary of its rules.        *)
EXTENDS QuoteRequest

CONSTANT Few \* TRUE: a handful of texts

D(units, places) == Text("decimal", units, places)

Odd(shapes) == {Text(s, 1, 0) : s \in shapes}

\* The bounds and one cent beyond; a tie (1000.50 at one percent); zeros at the
\* end and before; three and more places; 1e3; more than 32 digits.
MCTypedAmounts ==
  IF Few THEN {D(1000, 0), D(2000, 0)}
  ELSE {D(99999, 2), D(1000, 0), D(10005, 1), D(100050, 2), D(4000000, 2), D(4000001, 2),
        D(1000999, 3), D(-5000, 0), Text("padded", 20000, 1), Text("long", 1000, 0)}
       \cup Odd({"exponent", "other"})

MCTypedTerms ==
  IF Few THEN {D(6, 0)}
  ELSE {D(t, 0) : t \in {-6, 5, 6, 12, 71, 360, 361}} \cup {D(60, 1), Text("padded", 72, 0),
        Text("long", 12, 0)} \cup Odd({"exponent", "other"})

Never == {"string", "null", "absent", "true", "object", "exponent"}

MCJsonAmounts ==
  IF Few THEN {D(1000, 0)}
  ELSE {D(u, 2) : u \in {-100000, 0, 99999, 100000, 100001, 100050, 123457, 3999999, 4000000, 4000001}}
       \cup {D(1000, 0), D(40000, 0), D(10005, 1), D(1000000, 3), D(1000005, 3)}
       \cup {Text("long", 1000, 0), Text("long", 1000, 30)} \cup Odd(Never)

MCJsonTerms ==
  IF Few THEN {D(6, 0)}
  ELSE {D(t, 0) : t \in {-6, 0, 5, 6, 7, 11, 12, 13, 24, 71, 72, 73, 84, 359, 360, 361}}
       \cup {D(60, 1), Text("long", 12, 0)} \cup Odd(Never)

OddAnswer(id, rate, total) ==
  [status |-> 201, hasId |-> id, commissionRate |-> rate, totalCommission |-> total]

\* Fewer places than our own, or none; no id; a quoted or a missing figure.
MCOddAnswers ==
  IF Few THEN {}
  ELSE {OddAnswer(TRUE, D(2, 2), D(20, 0)), OddAnswer(TRUE, D(255, 4), D(-105, 1)),
        OddAnswer(FALSE, D(100, 4), D(1000, 2)),
        OddAnswer(TRUE, Text("string", 1, 0), D(1000, 2)),
        OddAnswer(TRUE, D(100, 4), Text("exponent", 1, 0)),
        OddAnswer(TRUE, D(100, 4), Text("absent", 0, 0))}
=============================================================================
