---------------------------- MODULE SyncRegistry ----------------------------
(***************************************************************************)
(* SyncRegistry (src/sync/mod.rs) over a snapshot cell that keeps what     *)
(* SnapCell.tla establishes: a read is one load of the current list, which *)
(* stays as it is until the read ends; an update is atomic; and            *)
(* wait_for_retired_readers outlasts every other thread's dispatch over a  *)
(* list that was replaced before the call, except between fallback readers.*)
(*                                                                         *)
(* A thread is a stack of notify calls.  User code runs at the bottom of   *)
(* the stack and inside handlers and panic callbacks, and from each of     *)
(* these places may call any method of the registry again.                 *)
(***************************************************************************)
EXTENDS HandlerList, FiniteSets

CONSTANTS
  Thread,
  Priority,    \* priorities to register at; register uses 0
  SLOTS,       \* announcement slots of a thread
  MaxId,       \* bound: registrations
  MaxDepth,    \* bound: nested notify calls of a thread
  MaxPanics,   \* bound: handler panics
  MaxEpoch,    \* bound: on_panic and clear_panic_callback calls
  Registrar,   \* threads that register
  OnceUser,    \* ... that register_once
  Notifier,    \* ... that notify
  Remover,     \* ... that unregister and clear
  Waiter,      \* ... that unregister_and_wait and clear_and_wait
  InnerWaiter, \* ... that do so from inside a handler, too
  Dropper      \* ... on which the Drop of a panic payload may panic

ASSUME ConstantsAssumption ==
  /\ Priority \subseteq Int /\ 0 \in Priority
  /\ {SLOTS, MaxId, MaxDepth, MaxPanics, MaxEpoch} \subseteq Nat

VARIABLES
  handlers,        \* the current list of the cell
  version,         \* history: how many lists the cell has been given
  next_id,         \* HandlerIdGenerator::next
  full,            \* register_once: ids whose slot still holds the handler
  panics,          \* panic_count
  panic_callback,  \* whether a callback is installed, and by which call
  stack,           \* the notify calls of each thread, innermost last
  op,              \* the writer call a thread is in
  returned,        \* history: ids that register has returned
  before,          \* history: ids returned when the id was drawn
  gone             \* history: ids that were removed

listVars == <<handlers, version, gone>>
idVars == <<next_id, returned, before>>
panicVars == <<panics, panic_callback>>
vars == <<listVars, idVars, full, panicVars, stack, op>>

Id == 1..MaxId
NoOp == [name |-> "none"]

Init ==
  /\ handlers = <<>>
  /\ version = 0
  /\ next_id = 1
  /\ full = {}
  /\ panics = 0
  /\ panic_callback = [epoch |-> 0, set |-> FALSE]
  /\ stack = [t \in Thread |-> <<>>]
  /\ op = [t \in Thread |-> NoOp]
  /\ returned = {}
  /\ before = [id \in Id |-> {}]
  /\ gone = {}

Top(t) == stack[t][Len(stack[t])]

\* The innermost notify of t is over.
Pop(t) == stack' = [stack EXCEPT ![t] = SubSeq(@, 1, Len(@) - 1)]

\* Thread t is in user code, free to call the registry.
User(t) ==
  /\ op[t] = NoOp
  /\ stack[t] # <<>> => Top(t).phase \in {"handler", "callback"}

\* The innermost notify of t goes from one phase to another.
Phase(t, from, to) ==
  /\ op[t] = NoOp
  /\ stack[t] # <<>>
  /\ Top(t).phase = from
  /\ stack' = [stack EXCEPT ![t][Len(stack[t])].phase = to]

Call(t, o) == op' = [op EXCEPT ![t] = o]

-----------------------------------------------------------------------------
(* The writers *)

\* The cell is given a new list.
Store(list) == handlers' = list /\ version' = version + 1

\* Mutant: the id is loaded and not advanced.
MutDraw(t, priority, once) ==
  /\ User(t)
  /\ next_id \in Id
  /\ before' = [before EXCEPT ![next_id] = returned]
  /\ Call(t, [name |-> "insert",
              entry |-> [id |-> next_id, priority |-> priority, once |-> once]])
  /\ UNCHANGED <<listVars, panicVars, stack, returned, next_id>>

\* register, register_with_priority and register_once draw an id ...
Draw(t, priority, once) ==
  /\ User(t)
  /\ next_id \in Id
  /\ next_id' = next_id + 1
  /\ before' = [before EXCEPT ![next_id] = returned]
  /\ Call(t, [name |-> "insert",
              entry |-> [id |-> next_id, priority |-> priority, once |-> once]])
  /\ UNCHANGED <<listVars, panicVars, stack, returned>>

RegisterWithPriority(t) ==
  \E priority \in Priority :
    t \in Registrar /\ Draw(t, priority, FALSE) /\ UNCHANGED full

RegisterOnce(t) ==
  /\ t \in OnceUser
  /\ Draw(t, 0, TRUE)
  /\ full' = full \cup {next_id}

\* ... and insert the entry.
InsertEntry(t) ==
  /\ op[t].name = "insert"
  /\ Store(Insert(handlers, op[t].entry))
  /\ returned' = returned \cup {op[t].entry.id}
  /\ Call(t, NoOp)
  /\ UNCHANGED <<gone, next_id, before, full, panicVars, stack>>

\* remove_id and remove_all store nothing when there is nothing to remove.
RemoveEntry(id) ==
  IF ContainsId(handlers, id)
  THEN Store(RemoveId(handlers, id)) /\ gone' = gone \cup {id}
  ELSE UNCHANGED listVars

RemoveAll ==
  IF handlers # <<>> THEN Store(<<>>) /\ gone' = returned
  ELSE UNCHANGED listVars

Unregister(t) ==
  \E id \in returned :
    /\ t \in Remover
    /\ User(t)
    /\ RemoveEntry(id)
    /\ UNCHANGED <<idVars, full, panicVars, stack, op>>

Clear(t) ==
  /\ t \in Remover
  /\ User(t)
  /\ RemoveAll
  /\ UNCHANGED <<idVars, full, panicVars, stack, op>>

\* A thread may be about to call one of the waiting methods.
MayWait(t) ==
  t \in Waiter /\ User(t) /\ (stack[t] # <<>> => t \in InnerWaiter)

\* A call that has removed ids waits; since is the first list without them.
Waiting(ids) == [name |-> "wait", ids |-> ids, since |-> version + 1]
Returned(ids) == [name |-> "return", ids |-> ids]

\* unregister_and_wait; without the id it returns false at once.
UnregisterAndWait(t) ==
  \E id \in returned :
    /\ MayWait(t)
    /\ RemoveEntry(id)
    /\ IF ContainsId(handlers, id) THEN Call(t, Waiting({id})) ELSE UNCHANGED op
    /\ UNCHANGED <<idVars, full, panicVars, stack>>

\* clear_and_wait; with the list already empty it returns at once.
ClearAndWait(t) ==
  /\ MayWait(t)
  /\ RemoveAll
  /\ IF handlers # <<>> THEN Call(t, Waiting(returned)) ELSE UNCHANGED op
  /\ UNCHANGED <<idVars, full, panicVars, stack>>

\* Reads in progress on a thread that announced no list.
OnFallback(t) == \E k \in DOMAIN stack[t] : ~stack[t][k].announced

\* Mutant: the wait looks at the innermost dispatch of a thread only.
MutWaitOver(t) ==
  \A u \in Thread \ {t} : stack[u] # <<>> =>
    IF Top(u).announced THEN Top(u).version >= op[t].since ELSE OnFallback(t)

\* What wait_for_retired_readers waits for.
WaitOver(t) ==
  \A u \in Thread \ {t} : \A k \in DOMAIN stack[u] :
    IF stack[u][k].announced
    THEN stack[u][k].version >= op[t].since
    ELSE OnFallback(t)

WaitForRetiredReaders(t) ==
  /\ op[t].name = "wait"
  /\ WaitOver(t)
  /\ Call(t, Returned(op[t].ids))
  /\ UNCHANGED <<listVars, idVars, full, panicVars, stack>>

\* A waiting method returns.
Return(t) ==
  /\ op[t].name = "return"
  /\ Call(t, NoOp)
  /\ UNCHANGED <<listVars, idVars, full, panicVars, stack>>

-----------------------------------------------------------------------------
(* notify *)

\* The slots of t that are taken are those of its announced dispatches.
SlotFree(t) ==
  Cardinality({k \in DOMAIN stack[t] : stack[t][k].announced}) < SLOTS

\* read: the current list is loaded and announced, or cloned.  History: the
\* ids of the handlers that this notify has called.
Notify(t) ==
  /\ t \in Notifier
  /\ User(t)
  /\ Len(stack[t]) < MaxDepth
  /\ stack' = [stack EXCEPT ![t] =
       Append(@, [list |-> handlers, version |-> version,
                  announced |-> SlotFree(t), at |-> 0, called |-> <<>>,
                  phase |-> "next", panicked |-> FALSE, since |-> 0,
                  callback |-> 0])]
  /\ UNCHANGED <<listVars, idVars, full, panicVars, op>>

\* The frame of t's innermost notify with some fields changed.
Goes(t, f) == stack' = [stack EXCEPT ![t][Len(stack[t])] = f]

\* The next handler is called; a once handler is taken out of its slot.
Run(t) ==
  LET f == Top(t)  e == f.list[f.at + 1] IN
  /\ op[t] = NoOp /\ stack[t] # <<>>
  /\ f.phase = "next" /\ f.at < Len(f.list)
  /\ e.once => e.id \in full
  /\ full' = IF e.once THEN full \ {e.id} ELSE full
  /\ Goes(t, [f EXCEPT !.at = @ + 1, !.called = Append(@, e.id),
                       !.phase = "handler"])
  /\ UNCHANGED <<listVars, idVars, panicVars, op>>

\* Another call took it: this one skips it.
Skip(t) ==
  LET f == Top(t)  e == f.list[f.at + 1] IN
  /\ op[t] = NoOp /\ stack[t] # <<>>
  /\ f.phase = "next" /\ f.at < Len(f.list)
  /\ e.once /\ e.id \notin full
  /\ Goes(t, [f EXCEPT !.at = @ + 1])
  /\ UNCHANGED <<listVars, idVars, full, panicVars, op>>

\* The handler that runs.
Running(f) == f.list[f.at]

\* The handler returns; a once handler drops its RemoveOnDrop.
HandlerReturn(t) ==
  /\ stack[t] # <<>>
  /\ Phase(t, "handler", IF Running(Top(t)).once THEN "remove" ELSE "next")
  /\ UNCHANGED <<listVars, idVars, full, panicVars, op>>

\* Mutant: only a handler that returns is removed.
MutHandlerPanic(t) ==
  LET f == Top(t) IN
  /\ op[t] = NoOp /\ stack[t] # <<>>
  /\ f.phase = "handler"
  /\ panics < MaxPanics
  /\ Goes(t, [f EXCEPT !.panicked = TRUE, !.since = panic_callback.epoch,
                       !.phase = "count"])
  /\ UNCHANGED <<listVars, idVars, full, panicVars, op>>

\* The handler panics; catch_unwind stops the unwinding.
HandlerPanic(t) ==
  LET f == Top(t) IN
  /\ op[t] = NoOp /\ stack[t] # <<>>
  /\ f.phase = "handler"
  /\ panics < MaxPanics
  /\ Goes(t, [f EXCEPT !.panicked = TRUE, !.since = panic_callback.epoch,
                       !.phase = IF Running(f).once THEN "remove" ELSE "count"])
  /\ UNCHANGED <<listVars, idVars, full, panicVars, op>>

\* RemoveOnDrop::drop.
RemoveOnDrop(t) ==
  /\ stack[t] # <<>>
  /\ Phase(t, "remove", IF Top(t).panicked THEN "count" ELSE "next")
  /\ RemoveEntry(Running(Top(t)).id)
  /\ UNCHANGED <<idVars, full, panicVars, op>>

\* Every handler has been called.
NotifyReturn(t) ==
  LET f == Top(t) IN
  /\ op[t] = NoOp /\ stack[t] # <<>>
  /\ f.phase = "next" /\ f.at = Len(f.list)
  /\ Pop(t)
  /\ UNCHANGED <<listVars, idVars, full, panicVars, op>>

-----------------------------------------------------------------------------
(* handle_panic *)

\* panics.fetch_add.
CountPanic(t) ==
  /\ Phase(t, "count", "fetch")
  /\ panics' = panics + 1
  /\ UNCHANGED <<listVars, idVars, full, panic_callback, op>>

\* Mutant: the callback is read when the dispatch begins.
MutFetchCallback(t) ==
  LET f == Top(t) IN
  /\ op[t] = NoOp /\ stack[t] # <<>>
  /\ f.phase = "fetch"
  /\ Goes(t, [f EXCEPT !.phase = "callback"])
  /\ UNCHANGED <<listVars, idVars, full, panicVars, op>>

\* The callback is cloned under the read lock, and called if there is one.
FetchCallback(t) ==
  LET f == Top(t) IN
  /\ op[t] = NoOp /\ stack[t] # <<>>
  /\ f.phase = "fetch"
  /\ Goes(t, [f EXCEPT !.callback = panic_callback.epoch,
                       !.phase = IF panic_callback.set THEN "callback"
                                 ELSE "payload"])
  /\ UNCHANGED <<listVars, idVars, full, panicVars, op>>

\* The callback returns, or panics and is caught.
CallbackEnd(t) ==
  /\ Phase(t, "callback", "payload")
  /\ UNCHANGED <<listVars, idVars, full, panicVars, op>>

\* Mutant: the dispatch ends with the first panic.
MutDropPayload(t) ==
  /\ op[t] = NoOp /\ stack[t] # <<>>
  /\ Top(t).phase = "payload"
  /\ Pop(t)
  /\ UNCHANGED <<listVars, idVars, full, panicVars, op>>

\* drop(payload); the loop goes on with the next handler.
DropPayload(t) ==
  LET f == Top(t) IN
  /\ op[t] = NoOp /\ stack[t] # <<>>
  /\ f.phase = "payload"
  /\ Goes(t, [f EXCEPT !.phase = "next", !.panicked = FALSE, !.since = 0,
                       !.callback = 0])
  /\ UNCHANGED <<listVars, idVars, full, panicVars, op>>

\* The Drop of the handler's payload, or of what the callback threw, panics
\* outside any catch_unwind: the unwinding leaves notify.
PayloadUnwinds(t) ==
  /\ t \in Dropper
  /\ op[t] = NoOp /\ stack[t] # <<>>
  /\ Top(t).phase \in {"callback", "payload"}
  /\ Pop(t)
  /\ UNCHANGED <<listVars, idVars, full, panicVars, op>>

\* on_panic and clear_panic_callback.
SetCallback(t) ==
  \E set \in BOOLEAN :
    /\ User(t)
    /\ panic_callback.epoch < MaxEpoch
    /\ panic_callback' = [epoch |-> panic_callback.epoch + 1, set |-> set]
    /\ UNCHANGED <<listVars, idVars, full, panics, stack, op>>

-----------------------------------------------------------------------------
Write(t) ==
  \/ RegisterWithPriority(t) \/ RegisterOnce(t) \/ InsertEntry(t)
  \/ Unregister(t) \/ Clear(t) \/ UnregisterAndWait(t) \/ ClearAndWait(t)
  \/ WaitForRetiredReaders(t) \/ Return(t) \/ SetCallback(t)

Dispatch(t) ==
  \/ Notify(t) \/ Run(t) \/ Skip(t) \/ HandlerReturn(t) \/ HandlerPanic(t)
  \/ RemoveOnDrop(t) \/ NotifyReturn(t) \/ CountPanic(t) \/ FetchCallback(t)
  \/ CallbackEnd(t) \/ DropPayload(t) \/ PayloadUnwinds(t)

Next == \E t \in Thread : Write(t) \/ Dispatch(t)

Spec == Init /\ [][Next]_vars

-----------------------------------------------------------------------------
(* Properties *)

Entry == [id : Id, priority : Priority, once : BOOLEAN]

Phases == {"next", "handler", "remove", "count", "fetch", "callback", "payload"}

FrameOK(f) ==
  /\ f.list \in Seq(Entry) /\ f.at \in 0..Len(f.list)
  /\ f.called \in Seq(Id)
  /\ f.phase \in Phases
  /\ f.version \in 0..version
  /\ {f.since, f.callback} \subseteq 0..panic_callback.epoch
  /\ {f.announced, f.panicked} \subseteq BOOLEAN

OpOK(o) ==
  \/ o = NoOp
  \/ o.name = "insert" /\ o.entry \in Entry
  \/ o.name = "wait" /\ o.ids \subseteq returned /\ o.since \in 1..version
  \/ o.name = "return" /\ o.ids \subseteq returned

TypeOK ==
  /\ handlers \in Seq(Entry)
  /\ version \in 0..(2 * MaxId)
  /\ next_id \in 1..(MaxId + 1)
  /\ full \subseteq 1..(next_id - 1)
  /\ panics \in Nat
  /\ panic_callback \in [epoch : 0..MaxEpoch, set : BOOLEAN]
  /\ \A t \in Thread :
       /\ Len(stack[t]) <= MaxDepth
       /\ \A k \in DOMAIN stack[t] : FrameOK(stack[t][k])
       /\ OpOK(op[t])
  /\ gone \subseteq returned /\ returned \subseteq 1..(next_id - 1)
  /\ before \in [Id -> SUBSET returned]

\* sync/mod.rs:193-194: higher priorities first, and within a priority in
\* registration order.  With concurrent calls: an entry never precedes one of
\* its priority whose register had returned before its own began.  This
\* holds of the current list and so of every list a notify iterates over.
FiringOrder ==
  \A i, j \in DOMAIN handlers : i < j =>
    LET a == handlers[i]  b == handlers[j] IN
    /\ a.priority >= b.priority
    /\ a.priority = b.priority => b.id \notin before[a.id]

\* The list holds each handler that was registered and not removed, once:
\* concurrent writers lose no registration and no removal, and of several
\* removals of an id exactly one reports success.
LiveList ==
  /\ {handlers[k].id : k \in DOMAIN handlers} = returned \ gone
  /\ Len(handlers) = Cardinality(returned \ gone)

\* Frame f is in the handler with this id.
Inside(f, id) ==
  /\ f.phase \in {"handler", "remove"}
  /\ Running(f).id = id

Frames == {<<t, k>> : t \in Thread, k \in 1..MaxDepth}
FramesInside(id) ==
  {e \in Frames : e[2] <= Len(stack[e[1]]) /\ Inside(stack[e[1]][e[2]], id)}

\* sync/mod.rs:439-443: of concurrent dispatches one runs a register_once
\* handler, and once that run is over, by a return or a panic, the handler
\* is no longer registered.
OnceOnly ==
  \A k \in DOMAIN handlers : handlers[k].once =>
    LET id == handlers[k].id IN
    /\ id \in full => FramesInside(id) = {}
    /\ id \notin full => Cardinality(FramesInside(id)) = 1

\* Thread u runs the handler with this id, or still will, in a dispatch that
\* t has to wait for.
StillRuns(t, u, id) ==
  \E k \in DOMAIN stack[u] :
    LET f == stack[u][k] IN
    /\ f.announced \/ ~OnFallback(t)
    /\ \/ Inside(f, id)
       \/ \E j \in (f.at + 1)..Len(f.list) : f.list[j].id = id

\* sync/mod.rs:331-335: when unregister_and_wait has removed the handler and
\* returns, or clear_and_wait has removed all, no other thread runs what was
\* removed or will run it, nested dispatches and re-entrant calls included
\* (between two threads on the fallback path, see WaitComplete of SnapCell).
WaitStops ==
  \A t, u \in Thread : t # u /\ op[t].name = "return" =>
    \A id \in op[t].ids : ~StillRuns(t, u, id)

\* on_panic and clear_panic_callback take effect at once: a handler that
\* panics after one of them returned is never reported to an older callback.
CallbackCurrent ==
  \A t \in Thread : \A k \in DOMAIN stack[t] :
    stack[t][k].phase = "callback" => stack[t][k].callback >= stack[t][k].since

\* sync/mod.rs:661-663: however handlers and callbacks panic, the caller of
\* notify gets control back only when every handler of the loaded list has
\* been called, in the order of the list.  A once handler may be left out,
\* but only if some dispatch has taken it.
NotifyComplete ==
  [][\A t \in Thread : Len(stack'[t]) < Len(stack[t]) =>
       LET f == Top(t) IN
       /\ \A i, j \in DOMAIN f.called : i < j =>
            \E p, q \in DOMAIN f.list :
              /\ p < q
              /\ f.list[p].id = f.called[i] /\ f.list[q].id = f.called[j]
       /\ \A k \in DOMAIN f.list :
            \/ \E i \in DOMAIN f.called : f.called[i] = f.list[k].id
            \/ f.list[k].once /\ f.list[k].id \notin full]_vars
=============================================================================
