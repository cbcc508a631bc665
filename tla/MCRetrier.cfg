\* One request with the default shape: three attempts of a third of the budget,
\* backoff windows of two ticks and of the cap, minAttemptBudget one tick.
SPECIFICATION RetrierSpec
CONSTANTS
  Requests = {r1}
  Attempts = 3
  Base = 2
  Cap = 3
  MinAttemptBudget = 1
  VendorTimeout = 3
  RequestBudget = 9
  VendorWaits = {0, 1, 4}
INVARIANTS
  RetrierTypeOK
  
  RetryHasBudget
  RetryAfterHonoured
PROPERTIES
  SleepNotCutShort
