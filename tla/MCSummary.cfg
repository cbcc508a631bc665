\* Two amounts and one term: enough to edit the form while a request is under way.
SPECIFICATION RequestSpec
CONSTANTS
  Few = TRUE
  TypedAmounts <- MCTypedAmounts
  TypedTerms <- MCTypedTerms
  JsonAmounts <- MCJsonAmounts
  JsonTerms <- MCJsonTerms
  OddAnswers <- MCOddAnswers
  MinAmount = 100000
  MaxAmount = 4000000
CHECK_DEADLOCK TRUE
INVARIANTS
  SummaryIsOfQuote
