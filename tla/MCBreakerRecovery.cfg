\* Requests that outlive the open period: answers from before the opening do
\* reach the half-open circuit here. No symmetry: it is unsound with liveness.
SPECIFICATION RecoverySpec
CONSTANTS
  Calls = {c1, c2, c3}
  Window = 2
  MinSamples = 2
  ThresholdNum = 1
  ThresholdDen = 2
  OpenFor = 1
  Probes = 2
  CallBound = 2
PROPERTIES
  Recovers
  TripsInOutage
