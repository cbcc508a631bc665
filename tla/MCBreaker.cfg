\* Four concurrent requests against a window of four; the circuit stays open
\* longer than a request may last, as in the default configuration.
SPECIFICATION Spec
CONSTANTS
  Calls = {c1, c2, c3, c4}
  Window = 4
  MinSamples = 2
  ThresholdNum = 1
  ThresholdDen = 2
  OpenFor = 4
  Probes = 2
  CallBound = 3
SYMMETRY CallSymmetry
INVARIANTS
  TypeOK
  InFlightExact
  ProbesTrickle
  NoStaleEvidence
  AdviceHonest
  WindowCurrent
  SuccessesOfThisTrial
CHECK_DEADLOCK TRUE
