\* Nested dispatches, with one slot per thread; t1 waits anywhere, t2 outside a dispatch.
SPECIFICATION Spec
CONSTANTS
  Thread = {t1, t2, t3}
  Priority = {0}
  SLOTS = 1
  MaxId = 2
  MaxDepth = 2
  MaxPanics = 0
  MaxEpoch = 0
  Registrar = {t1}
  OnceUser = {}
  Notifier = {t1, t2, t3}
  Remover = {t3}
  Waiter = {t1, t2}
  InnerWaiter = {t1}
  Dropper = {}
INVARIANT WaitStops
