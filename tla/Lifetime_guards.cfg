\* Three threads, two guards of which one may be moved into the other's
\* handler, and a once handler.
SPECIFICATION FairSpec
CONSTANTS
  Thread = {t1, t2, t3}
  Id = {g1, g2, h}
  Once = {h}
  NULL = NULL
INVARIANTS TypeOK OwnersCounted GuardRemoves
PROPERTY NothingLeaks
CHECK_DEADLOCK FALSE
