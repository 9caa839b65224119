\* Three threads register at two priorities, one of them also removes, and
\* one dispatches, re-entrantly, over what is there: its once handlers remove
\* themselves, and the Drop of a panic payload may panic.
SPECIFICATION Spec
CONSTANTS
  Thread = {t1, t2, t3}
  Priority = {0, 1}
  SLOTS = 1
  MaxId = 3
  MaxDepth = 2
  MaxPanics = 1
  MaxEpoch = 0
  Registrar = {t1, t2, t3}
  OnceUser = {t2}
  Notifier = {t2}
  Remover = {t1}
  Waiter = {}
  InnerWaiter = {}
  Dropper = {t2}
INVARIANTS FiringOrder LiveList
