\* Two submissions of one page, so that the second can meet what is left of
\* the first; budgets nested with one tick to spare, as 6 s, 8 s and 10 s are.
SPECIFICATION JourneySpec
CONSTANTS
  first = first
  second = second
  Submissions = {first, second}
  RequestBudget = 2
  BFFTimeout = 3
  Grace = 4
INVARIANTS
  JourneyTypeOK
PROPERTIES
  DrainCutsNothing
  PageIsAnswered
  ImplementsService
