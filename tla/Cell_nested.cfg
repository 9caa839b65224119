\* Two registries share one slot per thread, so that a nested dispatch takes
\* the fallback path; both threads write, t2 clones, dispatches of t1 unwind,
\* and c2 is dropped and created again.
SPECIFICATION Spec
CONSTANTS
  NULL = NULL
  Thread = {t1, t2}
  Cell = {c1, c2}
  Addr = {a1, a2, a3}
  SLOTS = 1
  MaxDepth = 2
  Reader = {t1, t2}
  Loader = {t2}
  Updater = {t1, t2}
  Waiter = {}
  Mortal = {}
  Unwinder = {t1}
  Disposable = {c2}
SYMMETRY Symmetry
INVARIANTS TypeOK NoUseAfterFree RefcountExact FallbackExact SafeInv
PROPERTY Implements
