\* Three requests, so that one draws between the values of another while a third
\* waits; two latencies, of which one is none. Every request is made once, and
\* when all are answered the mock is idle.
SPECIFICATION MockSpec
CONSTANTS
  r1 = r1
  r2 = r2
  r3 = r3
  Requests = {r1, r2, r3}
  Values = {0, 1}
  LatencyMin = 0
  LatencyMax = 2
  SlowDelay = 5
CHECK_DEADLOCK FALSE
INVARIANTS
  FateBySeedAndOrder
  StatusTellsTheTruth
PROPERTIES
  EveryRequestEnds
