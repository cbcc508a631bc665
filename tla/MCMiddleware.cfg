\* Two concurrent requests of two attempts each; the circuit opens on half of
\* two outcomes and stays open one tick longer than the request budget.
SPECIFICATION MiddlewareSpec
CONSTANTS
  Requests = {r1, r2}
  Attempts = 2
  Base = 1
  Cap = 1
  MinAttemptBudget = 0
  VendorTimeout = 2
  RequestBudget = 3
  VendorWaits = {0, 1}
  Window = 2
  MinSamples = 2
  ThresholdNum = 1
  ThresholdDen = 2
  OpenFor = 4
  Probes = 1
SYMMETRY RequestSymmetry
INVARIANTS
  OpensForCause
PROPERTIES
  ImplementsBreaker
  OnlyStragglersCall
