\* Two threads dispatch, re-entrantly, over a once handler and a plain one
\* that t2 may remove meanwhile.  Handlers and callbacks panic while the
\* callback is replaced and removed.
SPECIFICATION Spec
CONSTANTS
  Thread = {t1, t2}
  Priority = {0}
  SLOTS = 1
  MaxId = 2
  MaxDepth = 2
  MaxPanics = 2
  MaxEpoch = 1
  Registrar = {t1}
  OnceUser = {t1}
  Notifier = {t1, t2}
  Remover = {t2}
  Waiter = {}
  InnerWaiter = {}
  Dropper = {}
INVARIANTS TypeOK OnceOnly CallbackCurrent
PROPERTY NotifyComplete
