SPECIFICATION Spec
CONSTANTS
  NULL = NULL
  Thread = {t1, t2}
  Cell = {c1, c2}
  Addr = {a1, a2, a3}
  SLOTS = 1
  MaxDepth = 2
  Reader = {t1, t2}
  Loader = {}
  Updater = {t1}
  Waiter = {t1}
  Mortal = {}
  Unwinder = {}
  Disposable = {}
INVARIANT WaitComplete
