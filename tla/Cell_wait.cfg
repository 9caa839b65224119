\* A waiter, two writers and two readers; t1 loses its record on the way.
SPECIFICATION Spec
CONSTANTS
  NULL = NULL
  Thread = {t1, t2, t3}
  Cell = {c1}
  Addr = {a1, a2, a3, a4}
  SLOTS = 1
  MaxDepth = 1
  Reader = {t1, t2}
  Loader = {}
  Updater = {t2, t3}
  Waiter = {t3}
  Mortal = {t1}
  Unwinder = {}
  Disposable = {}
SYMMETRY Symmetry
INVARIANTS WaitOutlasts WaitInv RetiredLenTells NoUserCodeUnderLock
