------------------------------- MODULE Money -------------------------------
(***************************************************************************)
(* internal/platform/money: exact decimal values, and the one rounding rule *)
(* of every boundary they cross.                                           *)
(*                                                                         *)
(* A decimal is units / 10^places. Amounts are parsed or built as one, and  *)
(* sums and products of decimals are decimals, so this is all a big.Rat of *)
(* the package ever holds.                                                 *)
(*                                                                         *)
(* A text is what stands where a number is expected, by its shape:         *)
(*   "decimal"   an optional minus, digits, at most one point with digits  *)
(*   "padded"    the same with zeros before it, which JSON does not allow  *)
(*   "long"      the same with more characters than maxTextLen             *)
(* and others, which are not decimals. Its places are the digits after the *)
(* point as written, its units all the digits.                             *)
(***************************************************************************)
EXTENDS Integers

Decimal(units, places) == [units |-> units, places |-> places]

Text(shape, units, places) == [shape |-> shape, units |-> units, places |-> places]

\* A decimal's units at a scale that is at least its own.
AtScale(d, places) == d.units * 10^(places - d.places)

CommonScale(a, b) == IF a.places > b.places THEN a.places ELSE b.places

\* Cmp(a, b) < 0.
Less(a, b) == AtScale(a, CommonScale(a, b)) < AtScale(b, CommonScale(a, b))

SameValue(a, b) == AtScale(a, CommonScale(a, b)) = AtScale(b, CommonScale(a, b))

Mul(a, r) == Decimal(a.units * r.units, a.places + r.places)

\* Mutant: digits are cut off.
RoundDown(d, places) ==
  IF d.places <= places THEN Decimal(AtScale(d, places), places)
  ELSE Decimal(d.units \div 10^(d.places - places), places)

\* The floor of the scaled value plus a half: a tie goes up.
RoundHalfUp(d, places) ==
  IF d.places <= places THEN Decimal(AtScale(d, places), places)
  ELSE LET unit == 10^(d.places - places)
       IN  Decimal((2 * d.units + unit) \div (2 * unit), places)

\* String and MarshalJSON: an amount has two places, a rate four.
Rendered(d, places) ==
  LET r == RoundHalfUp(d, places) IN Text("decimal", r.units, r.places)

\* parseDecimal: any number of places, no exponent, and a bound on the length.
Parses(text) == text.shape \in {"decimal", "padded"}

\* What parseDecimal returns of a text that parses; places is the scale.
Parsed(text) == Decimal(text.units, text.places)
=============================================================================
