\* Two threads read and write, also from inside their own dispatches; t2
\* waits as well; every handler returns.
SPECIFICATION FairSpec
CONSTANTS
  NULL = NULL
  Thread = {t1, t2}
  Cell = {c1}
  Addr = {a1, a2, a3}
  SLOTS = 1
  MaxDepth = 2
  Reader = {t1, t2}
  Loader = {}
  Updater = {t1, t2}
  Waiter = {t2}
  Mortal = {}
  Unwinder = {}
  Disposable = {}
PROPERTIES WaitEnds RetiredFreed
