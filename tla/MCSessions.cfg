SPECIFICATION SessionsSpec
CONSTANTS
  c1 = c1
  c2 = c2
  c3 = c3
  i1 = i1
  i2 = i2
  ann = ann
  bob = bob
  Tabs = {"tab"}
  Staff = {ann, bob}
  Ids = {i1, i2}
  Calls = {c1, c2, c3}
  SessionTTL = 1
SYMMETRY Interchangeable
CHECK_DEADLOCK TRUE
INVARIANTS
  SessionsTypeOK
  SignOutInvalidates
  OwnSession
  QuoteIsOwn
