\* One request at a time, whose callers may disconnect.
SPECIFICATION MiddlewareSpec
CONSTANTS
  Requests = {r1}
  Attempts = 2
  Base = 1
  Cap = 1
  MinAttemptBudget = 0
  VendorTimeout = 2
  RequestBudget = 3
  VendorWaits = {0, 1}
  Window = 2
  MinSamples = 2
  ThresholdNum = 1
  ThresholdDen = 2
  OpenFor = 4
  Probes = 1
INVARIANTS
  OpensForVendor
