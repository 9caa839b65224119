\* Every program, with fewer and smaller dispatches.
SPECIFICATION Spec
CONSTANTS
  Program = {"basic", "priority", "guards", "panic_isolation", "concurrent", "async_basic", "async_concurrent_vs_sequential", "pattern_audit_fanout", "pattern_hot_reload", "pattern_metric_event", "pattern_transaction_hooks", "event_payload", "handler_churn"}
  Worker = {"w1", "w2", "w3"}
  PerThread = 2
  Requests = 3
  Sizes = {1, 64, 67}
  Tags = {0, 1, 3}
  MaxOps = 7
INVARIANTS AssertionsHold SubscribersAgree
PROPERTY EndsWithResult
CHECK_DEADLOCK FALSE
