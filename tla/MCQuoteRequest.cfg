SPECIFICATION RequestSpec
CONSTANTS
  Few = FALSE
  TypedAmounts <- MCTypedAmounts
  TypedTerms <- MCTypedTerms
  JsonAmounts <- MCJsonAmounts
  JsonTerms <- MCJsonTerms
  OddAnswers <- MCOddAnswers
  MinAmount = 100000
  MaxAmount = 4000000
CHECK_DEADLOCK TRUE
INVARIANTS
  
  NoDrift
  DetailsAreExact
  PricedByContract
  FiguresAreVendors
