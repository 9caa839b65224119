------------------------------ MODULE Programs ------------------------------
(***************************************************************************)
(* The programs that come with the crate, over the registries: those under *)
(* examples/ and the fuzz targets.  A program is a script of calls for     *)
(* each of its threads; a fuzz target takes its calls from its input.      *)
(*                                                                         *)
(* A dispatch holds the list it loaded and makes one step per handler,     *)
(* which is atomic: what a handler shares with others it changes under a   *)
(* mutex or with single atomic operations, except where one thread is all  *)
(* there is.  The handlers of a concurrent asynchronous dispatch finish in *)
(* any order.                                                              *)
(***************************************************************************)
EXTENDS HandlerList, Functions

CONSTANTS
  Program,   \* which programs are run
  Worker,    \* the threads concurrent spawns
  PerThread, \* the dispatches of each of them
  Requests,  \* the requests of pattern_metric_event
  Sizes,     \* the sizes of the input of event_payload, in bytes
  Tags,      \* the tags in that input
  MaxOps     \* bound: operations in the input of handler_churn

\* The examples, and the two fuzz targets.
ProgramNames ==
  {"basic", "priority", "guards", "panic_isolation", "concurrent", "async_basic",
   "async_concurrent_vs_sequential", "pattern_audit_fanout", "pattern_hot_reload",
   "pattern_metric_event", "pattern_transaction_hooks", "event_payload",
   "handler_churn"}

ASSUME ConstantsAssumption ==
  /\ Program \subseteq ProgramNames /\ "main" \notin Worker
  /\ PerThread \in Nat /\ Requests \in Nat /\ MaxOps \in Nat
  /\ Sizes \subseteq Nat \ {0} /\ Tags \subseteq Nat

VARIABLES
  program, input,
  script,    \* what is left to do for each thread
  handlers, next_id,
  dispatch,  \* the dispatch each thread is in
  shared,    \* what the handlers and the program share
  failed     \* an assertion of the program has failed

registryVars == <<handlers, next_id>>
programVars == <<program, input>>
vars == <<programVars, script, registryVars, dispatch, shared, failed>>

Thread == {"main"} \cup Worker

-----------------------------------------------------------------------------
(* Calls *)

Register(priority, hook) ==
  [call |-> "register", priority |-> priority, hook |-> hook]
Unregister(id) == [call |-> "unregister", id |-> id]  \* asserted to succeed
DropGuard(id) == [call |-> "drop", id |-> id]
Count(n) == [call |-> "count", n |-> n]  \* handler_count is to return n
Notify(event) == [call |-> "notify", event |-> event, join |-> FALSE]
NotifyJoin(event) == [call |-> "notify", event |-> event, join |-> TRUE]
Mutate(field, value) == [call |-> "mutate", field |-> field, value |-> value]
Spawn == [call |-> "spawn"]
Join == [call |-> "join"]
Request(i) == [call |-> "request", i |-> i]  \* the loop over the requests, at i
Arbitrary(n) == [call |-> "arbitrary", left |-> n]

-----------------------------------------------------------------------------
(* The programs; handler ids count from 1 *)

Basic == <<Register(0, "add"), Register(0, "print"), Notify(2), Notify(3),
           Unregister(1), Notify(100)>>

Priority == <<Register(50, "hi-prio"), Register(0, "default"),
              Register(-100, "lo-prio"), Notify("ping")>>

Guards == <<Count(0), Register(0, "print"), Count(1), Notify(7),
            DropGuard(1), Count(0), Register(0, "print"),
            Count(1), Notify(42), Unregister(2), Count(0)>>

PanicIsolation == <<Register(0, "print"), Register(0, "panic"),
                    Register(0, "print"), Register(0, "panic"),
                    Count(4), Notify("()")>>

Concurrent == [i \in 1..4 |-> Register(0, "add")] \o <<Spawn, Join>>
ConcurrentWorker == [i \in 1..PerThread |-> Notify(1)]

AsyncBasic == [i \in 1..3 |-> Register(0, "add")] \o <<NotifyJoin(7)>>

AsyncConcurrentVsSequential ==
  [i \in 1..4 |-> Register(0, "print")] \o <<NotifyJoin("()"), Notify("()")>>

AuditFanout ==
  <<Register(0, "stdout"), Register(0, "file"), Register(0, "alert"),
    Notify("Info"), Notify("Warn"), Notify("Critical"),
    DropGuard(2), DropGuard(3), DropGuard(1), Count(0)>>

HotReload ==
  <<Register(0, "timeout"), Register(0, "toggle"),
    Mutate("request_timeout_ms", 5000), Mutate("feature_flag_search_v2", TRUE),
    Mutate("feature_flag_search_v2", FALSE), Mutate("feature_flag_search_v2", TRUE)>>

\* The loop over the requests from request i on, and the body of the loop.
Traffic(i) == IF i < Requests THEN <<Request(i)>> ELSE <<>>
RequestEvents(i) ==
  <<Notify([kind |-> "RequestStarted"])>> \o
  (IF i % 97 = 0 THEN <<Notify([kind |-> "Error"])>> ELSE <<>>) \o
  <<Notify([kind |-> "RequestCompleted", latency_us |-> 150 + (i % 50)])>>

MetricEvent == <<Register(0, "aggregate"), Register(0, "batch")>> \o Traffic(0)

Transition(txid, transition) == Notify([txid |-> txid, transition |-> transition])

TransactionHooks ==
  <<Register(1000, "wal:flush"), Register(500, "cache:invalidate"),
    Register(0, "replication:send"), Register(-100, "metrics"),
    Transition(42, "Begun"), Transition(42, "Prepared"), Transition(42, "Committed"),
    Transition(43, "Begun"), Transition(43, "Aborted")>>

\* event_payload cuts its input into chunks of 64 bytes; the first four bytes
\* of a chunk are its tag.
ChunkCount(size) == (size + 63) \div 64
PayloadLen(size, i) ==
  LET take == Min({64, size - 64 * (i - 1)}) IN IF take > 4 THEN take - 4 ELSE 0

EventPayload(size, tag) ==
  <<Register(0, "bytes"), Register(0, "max_tag"), Register(0, "even")>> \o
  [i \in 1..ChunkCount(size) |->
     Notify([tag |-> tag[i], len |-> PayloadLen(size, i)])]

HandlerChurn == <<Arbitrary(MaxOps)>>

\* The inputs of a program; all but event_payload and handler_churn have none.
Inputs(p) ==
  UNION {[size : {n}, tag : [1..ChunkCount(n) -> Tags]] :
           n \in IF p = "event_payload" THEN Sizes ELSE {0}}

\* What the main thread of a program does.
Main(p, in) ==
  CASE p = "basic" -> Basic
    [] p = "priority" -> Priority
    [] p = "guards" -> Guards
    [] p = "panic_isolation" -> PanicIsolation
    [] p = "concurrent" -> Concurrent
    [] p = "async_basic" -> AsyncBasic
    [] p = "async_concurrent_vs_sequential" -> AsyncConcurrentVsSequential
    [] p = "pattern_audit_fanout" -> AuditFanout
    [] p = "pattern_hot_reload" -> HotReload
    [] p = "pattern_metric_event" -> MetricEvent
    [] p = "pattern_transaction_hooks" -> TransactionHooks
    [] p = "event_payload" -> EventPayload(in.size, in.tag)
    [] p = "handler_churn" -> HandlerChurn

-----------------------------------------------------------------------------
(* What the handlers do *)

\* What handlers and program share at the start.
Initially(p) ==
  CASE p = "pattern_audit_fanout" -> [captured |-> <<>>, triggered |-> 0]
    [] p = "pattern_hot_reload" ->
         [snapshot |-> [generation |-> 0, request_timeout_ms |-> 30000,
                        feature_flag_search_v2 |-> FALSE],
          timeout_observed |-> 0, last_v2 |-> FALSE, toggle_count |-> 0]
    [] p = "pattern_metric_event" ->
         [started |-> 0, completed |-> 0, total_latency_us |-> 0, errors |-> 0,
          pending |-> <<>>]
    [] p = "event_payload" -> [total_bytes |-> 0, max_tag |-> 0]
    [] p = "handler_churn" -> [invocations |-> 0, live_ids |-> <<>>, stale_id |-> 0]
    [] OTHER -> [total |-> 0, order |-> <<>>, panic_count |-> 0]

\* FileSink, StdoutSink and CriticalAlertSink.
Sink(hook, severity, s) ==
  CASE hook = "stdout" -> s
    [] hook = "file" -> [s EXCEPT !.captured = Append(@, severity)]
    [] hook = "alert" -> IF severity = "Critical" THEN [s EXCEPT !.triggered = @ + 1]
                         ELSE s

\* The subscribers of Config.
Subscriber(hook, snap, s) ==
  IF hook = "timeout" THEN [s EXCEPT !.timeout_observed = snap.request_timeout_ms]
  ELSE [s EXCEPT !.last_v2 = snap.feature_flag_search_v2,
                 !.toggle_count = IF s.last_v2 # snap.feature_flag_search_v2
                                  THEN @ + 1 ELSE @]

\* The aggregator.
Aggregate(evt, s) ==
  CASE evt.kind = "RequestStarted" -> [s EXCEPT !.started = @ + 1]
    [] evt.kind = "RequestCompleted" ->
         [s EXCEPT !.completed = @ + 1, !.total_latency_us = @ + evt.latency_us]
    [] evt.kind = "Error" -> [s EXCEPT !.errors = @ + 1]

\* The hooks of a transaction push what they do, for the transitions that
\* concern them.
Hook(hook, evt, s) ==
  LET concerns == CASE hook = "cache:invalidate" -> {"Committed", "Aborted"}
                    [] hook = "metrics" -> {evt.transition}
                    [] OTHER -> {"Committed"} IN
  IF evt.transition \in concerns
  THEN [s EXCEPT !.order = Append(@, <<evt.txid, hook, evt.transition>>)] ELSE s

\* What the handler of an entry does with an event, its panic and the panic
\* callback of panic_isolation included.
Effect(e, event, s) ==
  CASE e.hook = "add" -> [s EXCEPT !.total = @ + event]
    [] e.hook = "print" -> [s EXCEPT !.order = Append(@, e.id)]
    [] e.hook \in {"hi-prio", "default", "lo-prio"} ->
         [s EXCEPT !.order = Append(@, e.hook)]
    [] e.hook = "panic" -> [s EXCEPT !.panic_count = @ + 1]
    [] e.hook \in {"stdout", "file", "alert"} -> Sink(e.hook, event, s)
    [] e.hook \in {"timeout", "toggle"} -> Subscriber(e.hook, event, s)
    [] e.hook = "aggregate" -> Aggregate(event, s)
    [] e.hook = "batch" -> [s EXCEPT !.pending = Append(@, event)]
    [] e.hook = "bytes" -> [s EXCEPT !.total_bytes = @ + event.len]
    [] e.hook = "max_tag" -> [s EXCEPT !.max_tag = IF event.tag > @ THEN event.tag ELSE @]
    [] e.hook = "even" -> s
    [] e.hook \in {"fuzz", "fuzz_panic"} -> [s EXCEPT !.invocations = @ + 1]
    [] OTHER -> Hook(e.hook, event, s)

Panics(e, event) ==
  \/ e.hook \in {"panic", "fuzz_panic"}
  \/ e.hook = "even" /\ event.tag % 2 = 0

-----------------------------------------------------------------------------
\* The event of a dispatch is a sequence of one.
NoDispatch == [list |-> <<>>, todo |-> {}, event |-> <<>>, join |-> FALSE]

Init ==
  /\ program \in Program
  /\ input \in Inputs(program)
  /\ script = [t \in Thread |->
                 IF t = "main" THEN Main(program, input) ELSE <<>>]
  /\ handlers = <<>> /\ next_id = 1
  /\ dispatch = [t \in Thread |-> NoDispatch]
  /\ shared = Initially(program)
  /\ failed = FALSE

\* Thread t is in no dispatch.
Between(t) == dispatch[t].todo = {}

\* Thread t is between two calls, and the next one is c.
Calls(t, c) ==
  /\ Between(t)
  /\ script[t] # <<>> /\ Head(script[t]).call = c

Continue(t) == script' = [script EXCEPT ![t] = Tail(@)]

\* An assertion of the program.
Asserted(holds) == failed' = (failed \/ ~holds)

\* register, register_with_priority and register_guard.
RegisterStep(t) ==
  /\ Calls(t, "register")
  /\ LET c == Head(script[t]) IN
     handlers' = Insert(handlers, [id |-> next_id, priority |-> c.priority,
                                   hook |-> c.hook])
  /\ next_id' = next_id + 1
  /\ Continue(t)
  /\ UNCHANGED <<programVars, dispatch, shared, failed>>

\* unregister returns whether the handler was there; a guard's Drop does not
\* ask.
Removed(id) ==
  handlers' = IF ContainsId(handlers, id) THEN RemoveId(handlers, id) ELSE handlers

UnregisterStep(t) ==
  /\ Calls(t, "unregister")
  /\ Removed(Head(script[t]).id)
  /\ Asserted(ContainsId(handlers, Head(script[t]).id))
  /\ Continue(t)
  /\ UNCHANGED <<programVars, next_id, dispatch, shared>>

DropStep(t) ==
  /\ Calls(t, "drop")
  /\ Removed(Head(script[t]).id)
  /\ Continue(t)
  /\ UNCHANGED <<programVars, next_id, dispatch, shared, failed>>

CountStep(t) ==
  /\ Calls(t, "count")
  /\ Asserted(Len(handlers) = Head(script[t]).n)
  /\ Continue(t)
  /\ UNCHANGED <<programVars, registryVars, dispatch, shared>>

\* notify loads the list.
Dispatched(t, event, join) ==
  dispatch' = [dispatch EXCEPT ![t] =
                 IF handlers = <<>> THEN NoDispatch
                 ELSE [list |-> handlers, todo |-> DOMAIN handlers,
                       event |-> <<event>>, join |-> join]]

NotifyStep(t) ==
  /\ Calls(t, "notify")
  /\ LET c == Head(script[t]) IN Dispatched(t, c.event, c.join)
  /\ Continue(t)
  /\ UNCHANGED <<programVars, registryVars, shared, failed>>

\* Mutant: a panic ends the dispatch.
MutHandlerStep(t) ==
  LET d == dispatch[t] IN
  /\ d.todo # {}
  /\ \E i \in IF d.join THEN d.todo ELSE {Min(d.todo)} :
       /\ shared' = Effect(d.list[i], Head(d.event), shared)
       /\ dispatch' = [dispatch EXCEPT ![t] =
            IF d.todo = {i} \/ Panics(d.list[i], Head(d.event)) THEN NoDispatch
            ELSE [d EXCEPT !.todo = @ \ {i}]]
  /\ UNCHANGED <<programVars, script, registryVars, failed>>

\* One handler of the dispatch runs, and may panic; the next one is called
\* all the same.
HandlerStep(t) ==
  LET d == dispatch[t] IN
  /\ d.todo # {}
  /\ \E i \in IF d.join THEN d.todo ELSE {Min(d.todo)} :
       /\ shared' = Effect(d.list[i], Head(d.event), shared)
       /\ dispatch' = [dispatch EXCEPT ![t] =
            IF d.todo = {i} THEN NoDispatch ELSE [d EXCEPT !.todo = @ \ {i}]]
  /\ UNCHANGED <<programVars, script, registryVars, failed>>

\* Mutant: the subscribers are notified of the snapshot that was replaced.
MutMutateStep(t) ==
  /\ Calls(t, "mutate")
  /\ LET c == Head(script[t])
         next == [shared.snapshot EXCEPT ![c.field] = c.value, !.generation = @ + 1] IN
     /\ shared' = [shared EXCEPT !.snapshot = next]
     /\ Dispatched(t, shared.snapshot, FALSE)
  /\ Continue(t)
  /\ UNCHANGED <<programVars, registryVars, failed>>

\* Config::mutate.
MutateStep(t) ==
  /\ Calls(t, "mutate")
  /\ LET c == Head(script[t])
         next == [shared.snapshot EXCEPT ![c.field] = c.value, !.generation = @ + 1] IN
     /\ shared' = [shared EXCEPT !.snapshot = next]
     /\ Dispatched(t, next, FALSE)
  /\ Continue(t)
  /\ UNCHANGED <<programVars, registryVars, failed>>

\* Threads are spawned, and joined when they have ended.
SpawnStep(t) ==
  /\ Calls(t, "spawn")
  /\ script' = [u \in Thread |-> IF u = t THEN Tail(script[t]) ELSE ConcurrentWorker]
  /\ UNCHANGED <<programVars, registryVars, dispatch, shared, failed>>

JoinStep(t) ==
  /\ Calls(t, "join")
  /\ \A u \in Worker : script[u] = <<>> /\ Between(u)
  /\ Continue(t)
  /\ UNCHANGED <<programVars, registryVars, dispatch, shared, failed>>

\* One round of the loop over the requests.
RequestStep(t) ==
  /\ Calls(t, "request")
  /\ LET i == Head(script[t]).i IN
     script' = [script EXCEPT ![t] = RequestEvents(i) \o Traffic(i + 1)]
  /\ UNCHANGED <<programVars, registryVars, dispatch, shared, failed>>

-----------------------------------------------------------------------------
(* The operations of handler_churn *)

\* The next operation of the input is taken, or the input ends.
TakesOp ==
  /\ Calls("main", "arbitrary")
  /\ LET left == Head(script["main"]).left IN
     script' = [script EXCEPT !["main"] =
                  IF left > 1 THEN <<Arbitrary(left - 1)>> ELSE <<>>]
  /\ UNCHANGED programVars

\* Vec::swap_remove.
SwapRemove(s, i) ==
  [j \in 1..(Len(s) - 1) |-> IF j = i THEN s[Len(s)] ELSE s[j]]

OpRegister ==
  /\ TakesOp
  /\ \E hook \in {"fuzz", "fuzz_panic"} :
       handlers' = Insert(handlers, [id |-> next_id, priority |-> 0, hook |-> hook])
  /\ next_id' = next_id + 1
  /\ shared' = [shared EXCEPT !.live_ids = Append(@, next_id)]
  /\ UNCHANGED <<dispatch, failed>>

OpUnregisterIndex ==
  \E i \in DOMAIN shared.live_ids :
    LET id == shared.live_ids[i] IN
    /\ TakesOp
    /\ Removed(id)
    /\ Asserted(ContainsId(handlers, id))
    /\ shared' = [shared EXCEPT !.live_ids = SwapRemove(@, i), !.stale_id = id]
    /\ UNCHANGED <<next_id, dispatch>>

OpUnregisterStale ==
  /\ TakesOp
  /\ shared.stale_id # 0
  /\ Removed(shared.stale_id)
  /\ Asserted(~ContainsId(handlers, shared.stale_id))
  /\ UNCHANGED <<next_id, dispatch, shared>>

OpClear ==
  /\ TakesOp
  /\ handlers' = <<>>
  /\ shared' = [shared EXCEPT !.live_ids = <<>>]
  /\ UNCHANGED <<next_id, dispatch, failed>>

OpNotify ==
  /\ TakesOp
  /\ Dispatched("main", 0, FALSE)
  /\ UNCHANGED <<registryVars, shared, failed>>

OpHandlerCount ==
  /\ TakesOp
  /\ Asserted(Len(handlers) = Len(shared.live_ids))
  /\ UNCHANGED <<registryVars, dispatch, shared>>

OpContains ==
  \E i \in DOMAIN shared.live_ids :
    /\ TakesOp
    /\ Asserted(ContainsId(handlers, shared.live_ids[i]))
    /\ UNCHANGED <<registryVars, dispatch, shared>>

-----------------------------------------------------------------------------
Churn ==
  /\ program = "handler_churn"
  /\ \/ OpRegister \/ OpUnregisterIndex \/ OpUnregisterStale \/ OpClear
     \/ OpNotify \/ OpHandlerCount \/ OpContains

Next ==
  \/ \E t \in Thread :
       \/ RegisterStep(t) \/ UnregisterStep(t) \/ DropStep(t) \/ CountStep(t)
       \/ NotifyStep(t) \/ HandlerStep(t) \/ MutateStep(t) \/ SpawnStep(t)
       \/ JoinStep(t) \/ RequestStep(t)
  \/ Churn

\* Threads that can run do.
Spec == Init /\ [][Next]_vars /\ WF_vars(Next)

-----------------------------------------------------------------------------
(* Properties *)

\* The assertions of the programs hold; for handler_churn with any input:
\* the count of handlers is that of the program's own bookkeeping, a live id
\* can be removed and a stale one cannot (handler_churn.rs:6-12).
AssertionsHold == ~failed

Idle == \A t \in Thread : Between(t)

Latency(evt) == IF evt.kind = "RequestCompleted" THEN evt.latency_us ELSE 0

\* The latencies of a sequence of events added up.
LatencySum(events) ==
  LET sum[n \in 0..Len(events)] ==
        IF n = 0 THEN 0 ELSE sum[n - 1] + Latency(events[n])
  IN  sum[Len(events)]

\* The critical events in a sequence.
CriticalCount(captured) ==
  Cardinality({i \in DOMAIN captured : captured[i] = "Critical"})

\* Between two dispatches the subscribers of an event agree with each other
\* and with what the event was about: the configuration's subscribers with
\* the current snapshot, the aggregator with the batch, the alert with the
\* file; and nothing observes a commit before the journal is flushed
\* (pattern_transaction_hooks.rs:8-10, 40-41).
SubscribersAgree ==
  CASE program = "pattern_hot_reload" ->
         Idle /\ shared.snapshot.generation > 0 =>
           /\ shared.timeout_observed = shared.snapshot.request_timeout_ms
           /\ shared.last_v2 = shared.snapshot.feature_flag_search_v2
           /\ shared.last_v2 <=> shared.toggle_count % 2 = 1
    [] program = "pattern_metric_event" ->
         Idle =>
           /\ Len(shared.pending)
                = shared.started + shared.completed + shared.errors
           /\ shared.total_latency_us = LatencySum(shared.pending)
    [] program = "pattern_audit_fanout" ->
         Idle => shared.triggered = CriticalCount(shared.captured)
    [] program = "pattern_transaction_hooks" ->
         \A i \in DOMAIN shared.order :
           shared.order[i][3] = "Committed" =>
             \E j \in 1..i : shared.order[j][2] = "wal:flush"
                               /\ shared.order[j][1] = shared.order[i][1]
    [] OTHER -> TRUE

\* What a program has printed or counted when it is over.
Result ==
  CASE program = "basic" -> shared.total = 5 /\ Len(shared.order) = 3
    [] program = "priority" -> shared.order = <<"hi-prio", "default", "lo-prio">>
    [] program = "guards" -> shared.order = <<1, 2>>
    [] program = "panic_isolation" ->
         shared.panic_count = 2 /\ shared.order = <<1, 3>>
    [] program = "concurrent" ->
         shared.total = 4 * PerThread * Cardinality(Worker)
    [] program = "async_basic" -> shared.total = 3 * 7
    [] program = "async_concurrent_vs_sequential" ->
         /\ Len(shared.order) = 8
         /\ Range(SubSeq(shared.order, 1, 4)) = 1..4
         /\ SubSeq(shared.order, 5, 8) = <<1, 2, 3, 4>>
    [] program = "pattern_audit_fanout" ->
         shared.captured = <<"Info", "Warn", "Critical">> /\ shared.triggered = 1
    [] program = "pattern_hot_reload" ->
         shared.snapshot.generation = 4 /\ shared.timeout_observed = 5000
           /\ shared.toggle_count = 3
    [] program = "pattern_metric_event" ->
         shared.started = Requests /\ shared.completed = Requests
           /\ shared.errors = (Requests + 96) \div 97
    [] program = "pattern_transaction_hooks" -> Len(shared.order) = 9
    [] program = "event_payload" ->
         LET rest == input.size % 64
             headers == 4 * (input.size \div 64) + Min({rest, 4}) IN
         /\ shared.total_bytes = input.size - headers
         /\ shared.max_tag = Max(Range(input.tag))
    [] program = "handler_churn" -> Len(handlers) = Len(shared.live_ids)

\* Every program comes to its end, whatever its handlers do and however its
\* threads interleave, with the result that its text states: no handler is
\* left out or called twice, and a panic stops no other handler.
EndsWithResult ==
  <>(Idle /\ (\A t \in Thread : script[t] = <<>>) /\ Result)
=============================================================================
