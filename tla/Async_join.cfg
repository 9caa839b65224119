\* A notify future over up to three handlers; Drop code in it may panic.
SPECIFICATION FairSpec
CONSTANTS
  Call = {c1}
  Setter = {s}
  Dropper = {c1}
  Priority = {0}
  Payload = {"String", "opaque"}
  MaxId = 3
  NULL = NULL
INVARIANTS TypeOK ReportsInOrder AllFinished OneAfterTheOther NoLostWake CallbackUnlocked
PROPERTY NotifyEnds
