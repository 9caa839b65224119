\* Three threads come and go and nest two announcements; t1 walks the list.
SPECIFICATION Spec
CONSTANTS
  Thread = {t1, t2, t3}
  Record = {r1, r2, r3, r4}
  Addr = {a, b}
  NULL = NULL
  SLOTS = 2
  Scanner = {t1}
  Mortal = {t1, t2, t3}
INVARIANTS TypeOK OneOwner ListWhole SlotPerPin RecordsBounded ScanComplete
SYMMETRY Symmetry
