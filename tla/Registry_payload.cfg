\* Two handlers; the first panics with a payload whose Drop panics.
SPECIFICATION Spec
CONSTANTS
  Thread = {t1}
  Priority = {0}
  SLOTS = 1
  MaxId = 2
  MaxDepth = 1
  MaxPanics = 1
  MaxEpoch = 0
  Registrar = {t1}
  OnceUser = {}
  Notifier = {t1}
  Remover = {}
  Waiter = {}
  InnerWaiter = {}
  Dropper = {t1}
PROPERTY NotifyComplete
