\* Half seconds: a life of 3 s that the BFF's 2 s wait and the lost second just
\* fit into; clocks that differ by more than the leeway, and less.
SPECIFICATION AuthSpec
CONSTANTS
  ann = ann
  bob = bob
  Staff = {ann, bob}
  Second = 2
  TokenTTL = 6
  DevTTLs <- MCDevTTLs
  ClockSkew = 2
  BFFTimeout = 4
  MaxSkew = 3
  Horizon = 13
CHECK_DEADLOCK TRUE
INVARIANTS
  AuthTypeOK
  InTimeIsNot401
  GoodForNoMore
