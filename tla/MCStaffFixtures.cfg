\* Two runs beside the committed files, for the same or different ids, with
\* every way to type them. The system really may stop: with files that do not
\* parse nothing starts until somebody edits them.
SPECIFICATION FixturesSpec
CONSTANTS
  committed = committed
  first = first
  second = second
  ann = ann
  bob = bob
  Runs = {committed, first, second}
  Committed = committed
  Ids = {ann, bob}
  Padding = {FALSE, TRUE}
  Shapes = {"row", "broken", "comment"}
CHECK_DEADLOCK FALSE
INVARIANTS
  NoCredentialWithoutIdentity
  NoOrphanCredential
  StartableUnlessMishap
PROPERTIES
  ComesUp
