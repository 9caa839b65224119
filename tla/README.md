# A TLA+ verification of registry-io

registry-io keeps lists of event handlers.  `notify` calls every handler of a
list, lock-free and without allocation, while other threads register and
unregister handlers, and while the handlers themselves do so.  This directory
models the crate with its examples and fuzz targets, checks the models with TLC
on small instances, and proves the safety properties of the library with TLAPS
for every instance.  Paths below are relative to the crate root: `src/snapshot.rs` and so
on.  `PROJECT.json` holds the same facts in a form for tools; its source paths
begin with `src/`.

## 1. The system

| part | source | state | operations |
|---|---|---|---|
| snapshot cell | `src/snapshot.rs` | `current`, `retired_len`, `fallback_readers`, `writer` (mutex and retired list), thread-local `FALLBACK_DEPTH` | `read`, `load_arc_if`, `read_fallback`, `update`/`replace`, `wait_for_retired_readers`, `try_reclaim`, `drop` |
| hazard domain | `src/hazard.rs` | the list of records from `HEAD` (`slots`, `in_use`, `next`), thread-local `LOCAL` | `pin`, `Pin::protect`, `Pin::drop`, `announced`, `others_protect`, `acquire_record`, `Local::drop` |
| sync registry | `src/sync/mod.rs` | a cell of a handler list, id counter, panic callback, panic count; the slot of a once handler | `register*`, `register_once`, `unregister`, `clear`, `*_and_wait`, `notify`, `on_panic`, `clear_panic_callback` |
| guards | `src/sync/guard.rs`, `src/async_registry/guard.rs` | an id and a `Weak` of the registry | `drop`, `forget` |
| async registry | `src/async_registry/mod.rs` | as above, without the panic count | the same without waiting; `notify`, `notify_sequential` |
| polled slots | `src/future_ext.rs` | `Running`, `Done`, `Panicked` per handler | `start`, `poll_caught`, `Slot::poll`, `CatchUnwind::poll` |
| ids | `src/handler_id.rs` | a 64-bit counter | `next` |
| panic info | `src/panic.rs` | none (the callback's holder) | `invoke`; the payload as text |
| programs | `examples/`, `fuzz/fuzz_targets/` | what their handlers share | their `main`, or one input |

**How they interact.**  A registry is a snapshot cell of an immutable list.  A
dispatch is one `read`: it announces the list's address in a slot of its
thread's record, checks that the list is still current, and iterates over it.
A writer holds the cell's mutex, publishes a new list, puts the old one on the
retired list, walks all records of the process, and frees the retired lists
that nobody announces.  A reader that leaves tries to free what is left.  When
no slot is free (nesting deeper than 8, or the thread-local record is gone) the
dispatch clones the `Arc` under the mutex and is counted in `fallback_readers`.
`unregister_and_wait` polls both mechanisms.  Records and slots are shared by
all registries of the process, and so is `FALLBACK_DEPTH` by those a thread
dispatches on.  An asynchronous `notify` holds a clone of the list across its
awaits.  Guards find their registry through a `Weak` when they are dropped.

**What is hard.**  The announce/validate/scan handshake with addresses that are
reused; manual reference counts; a counter read outside the lock; re-entrance
(a handler, or the `Drop` of what it captured, may call anything); nesting and
the fallback path; thread exit; unwinding; waiting from inside a handler; a
hand-written join of futures; the last owner going while a guard does; and the
promises the documentation makes about all that.  `PROJECT.json` lists each
hazard at its line with the properties that address it.

## 2. Modules

| module | models | checked by |
|---|---|---|
| `SnapCell` | `src/snapshot.rs`, over the slots of `src/hazard.rs` | `MCSnapCell`, runs `Cell_*` |
| `AbstractCell` | what a cell promises | through `SnapCellRefinement` |
| `SnapCellRefinement` | the mapping from `SnapCell` to `AbstractCell` | `MCSnapCell`, property `Implements` |
| `SnapCellProofs`, `SnapCellPromises` | theorems about `SnapCell` | tlapm |
| `HazardDomain`, `HazardDomainProofs` | `src/hazard.rs`: the record list | `MCHazardDomain`, run `Domain_records`; tlapm |
| `HandlerList`, `HandlerListProofs` | insertion and removal in a list (both registries) | through the three modules that extend it; tlapm |
| `SyncRegistry`, `SyncRegistryProofs` | `src/sync/mod.rs` | `MCSyncRegistry`, runs `Registry_*`; tlapm |
| `AsyncRegistry`, `AsyncRegistryProofs` | `src/async_registry/mod.rs`, `src/future_ext.rs`, `src/panic.rs` | `MCAsyncRegistry`, run `Async_join`; tlapm |
| `RegistryLifetime`, `RegistryLifetimeProofs` | both guards, `RemoveOnDrop`, `register_guard`, the drop of a registry | `MCRegistryLifetime`, run `Lifetime_guards`; tlapm |
| `Programs`, `ProgramsProofs` | `examples/*.rs`, `fuzz/fuzz_targets/*.rs` | `MCPrograms`, run `Program_results`; tlapm |

The layers rest on each other, and each states what the next one uses.
`HazardDomain` shows that a thread has a record for itself, that the record is
on the list, and that a walk misses no standing announcement; `SnapCell`
therefore indexes slots by thread and leaves the order of records in a walk
open.  This step is an argument, not a mapping.  `SnapCell` implements
`AbstractCell`, a cell whose memory is collected: a dispatch or a clone gets the
value that was current at one instant of its call, updates exclude each other,
and nothing in use is freed.  That is what `SyncRegistry` and `AsyncRegistry`
take a read to be (one load of a list that stays as it is) and an update
(atomic); the condition on which a wait of `SyncRegistry` ends is what
`WaitOutlasts` of `SnapCell` gives it.

### SnapCell

One step is one operation on memory that another thread can observe.  `pc[t]`
is the place of thread `t`; `"user"` means that it runs code outside the crate:
idle, in a handler, or in a `Drop`.  `depth` and `frame` are its stack of
dispatches, `cell` and `ptr` the locals of the operation it is in.

| code | actions |
|---|---|
| `protect` | `ReadBegin`/`LoadBegin` (first load), `Pin` or `PinNone`, then `Validated`, or `Changed` and `Protect` |
| `read` ends, normally or unwinding | `ReadEnd`, `Check` (only without unwinding), `TryReclaim` |
| `load_arc_if` | `Keep`, `Unpin`, `Check`; `LoadLocked` and `LoadUnlock` without a slot; `DropOwned` when the caller drops the list |
| `read_fallback` | `FallbackCount`, `LoadLocked`, `LoadUnlock`, `FallbackEnd`, `FallbackLeave` |
| `update` | `UpdateBegin`, `UpdateNone` or `UpdateStore`, `Scan`..., `Collect`, `PublishLen`, `Unlock`, `DropFreed` |
| `try_reclaim` | `TryReclaim`, then as `update` from `Scan` on |
| `wait_for_retired_readers` | `WaitBegin`, `WaitFallback`, `WaitCopy`, `WaitUnlock`, `WaitInspect`..., `WaitDone`, `WaitReturn` |
| `Local::drop`, a new thread with the record | `Teardown`, `Respawn` |
| `Drop` and `new` of a cell | `DropCell`, `New` |

`strong` is the strong count of the allocation at each address.  An address is
free when it is 0, and `UpdateStore` and `New` take any free address, so every
ABA case occurs.  The history variable `owed[t]` is the set of dispatches that
were over a replaced value when `t` began to wait and have not ended.  The lock
is held from `LoadLocked` to `LoadUnlock` and from `WaitCopy` to `WaitUnlock`, as
in the code, so a reader's `try_lock` can fail on these, too.

Abstractions:

- The operations the handshake rests on are SeqCst, and steps interleave.  The
  first load of `protect` is Acquire and may be stale; it is only used after it
  is validated, and the model lets any number of steps pass before that.
  `retired_len` is relaxed; the model takes loads of it to be coherent and not
  delayed.  Weaker behaviours of it would only delay reclamation.
- `collect_unprotected` is a set operation; the list's order has no effect.
- `backoff` is a retry at any later time.  Mutex poisoning has no effect in the
  code and is left out.
- The last reference of a fallback reader is dropped in `FallbackEnd`; the
  user's `Drop` code runs, in the model, after `FallbackLeave` (a step later
  than in the code) and not between the two.
- `DropFreed` drops all collected values in one step, and user code runs after
  it; in the code the `Drop` of one value may run while later ones of the same
  batch are still allocated.  Nothing reads these any more.
- `FALLBACK_DEPTH` has a const initialiser and no destructor, so `try_with`
  always succeeds.

### HazardDomain

`AcquireBegin`, `Claim`/`Pass`, `Leak`, `Push`/`PushFailed` are
`acquire_record`; `Pin`, `Protect`, `Unpin` are `pin` and `Pin`; `Exit` is
`Local::drop`; `ScanBegin`, `Inspect`, `ScanEnd`, `ScanReturn` are
`for_each_record` with the closures of `announced` and `others_protect`.
After a successful claim the code walks on without an effect; the model stops.
`Exit` clears the slots and `in_use` in one step: the slots are null already,
which `SlotPerPin` shows.  `list`, `peak`, `busiest` and `owed` are history.

A record that is published after a walk loaded `HEAD` is not visited.  Its
slots were null at that load, so for `SnapCell` the walk has read them first:
this is one of the orders that `Scan` allows.

### SyncRegistry

A thread has a stack of `notify` frames, each with its list, its position and
its phase, and at most one other method call under way (`op`).  `User(t)` says
that user code runs on `t`: at the bottom of the stack, in a handler, or in the
panic callback; each action that is a method call needs it, so every method is
called from all these places.  `version` counts writes, `full` is the set of
once handlers whose slot still holds the handler, `panic_callback.epoch` counts
its replacements.  The history variables `returned`, `before` and `gone` say
which registrations have returned, which had returned before another one
began, and which handlers are removed; `called` of a frame is the sequence of
handlers it has called.

`registry.upgrade()` in `RemoveOnDrop` always succeeds here: a registry that is
being dispatched on is alive (`OwnersCounted` of `RegistryLifetime`).
`panic_callback`'s lock is one atomic step; its steps are in `AsyncRegistry`,
whose code is the same.  A panic that escapes a nested `notify`
(`PayloadUnwinds`) reaches the enclosing handler, which may catch it or panic
with it (`HandlerPanic`).

### AsyncRegistry

A call is a `notify` or `notify_sequential` future with its list and one slot
per handler: `unstarted`, `fresh` (its future has not been polled), `parked`,
`signalled` (what it awaits has come, and it has woken the task), `done` or
`panicked`.  The owner of the future takes the steps `Notify`, `FirstPoll`
(which loads the list), `Poll` and `Drop`; `Wake` is the event a handler awaits.
A poll goes through `Start` (`start` of one handler), `PollSlot`
(`Slot::poll`), `PollEnd` (the join's decision to suspend or to report), then
for each panic `Report`, `ReadLock`, `CloneCallback`, `CallbackEnd`,
`DropPayload`, or `Unwind` if the `Drop` of a payload panics.  `SetBegin` and
`SetEnd` are `on_panic` and `clear_panic_callback`: they take and release the
write lock of `panic_callback`, and a callback may call them.  A registration
draws its id before it updates the list; `RegisterWithPriority` is the update,
with any id that has not been inserted, so lists with their ids in every order
occur.

### RegistryLifetime

`strong` is the count of the registry's `Arc`, `own` the threads that have one,
`dispatching` those in a `notify`, `home` the closure that holds a guard, if
any.  `CloneArc`, `DropArc`, `NotifyBegin`, `NotifyEnd` and `Unregister` are the
owners' steps.  `RegisterGuard` and `RegisterOnce` create a `Weak`; `DropWeak` is
the upgrade in a guard's or `RemoveOnDrop`'s `Drop`, `UnregisterOwn` and
`ReleaseOwn` what follows when it succeeds; `Forget` is `forget`.
`FreeClosure` drops a closure that no list holds any more, with the guard in it.
`drops` is a thread's stack of such `Drop`s: the unregister of one guard may drop
a closure, and with it another guard, before it returns.  Of what the `Drop` of a
closure may do only this is modelled; other calls of user code from there are
calls of an owner, and `SyncRegistry` and `SnapCell` have them.
The three `Drop` implementations have the same code.

### Programs

Each `main` under `examples/` and each fuzz target is a script of calls; what a
handler does to the state it shares is `Effect`.  `RegisterStep`,
`UnregisterStep`, `DropStep`, `CountStep`, `NotifyStep`, `MutateStep`,
`SpawnStep` and `JoinStep` are the calls of a script, `RequestStep` one round of
the loop over the requests of `pattern_metric_event`, `HandlerStep` one handler
of a dispatch, `Churn` the operations that `handler_churn` takes from its input
(an `UnregisterIndex` without live ids does nothing in the code and is a
stutter).
Events keep what the handlers look at.  Numbers of threads and dispatches are
smaller than in the source, and printed text and times are left out.

### AbstractCell and SnapCellRefinement

`Enter` and `Leave` are a dispatch, `Load` and `Release` a clone, `Begin` with
`Keep` or `Replace` an update, `Drop` and `New` a cell's end and beginning;
`Reclaim`, and with it `Leave` and `Release`, may collect anything not in use.
`SnapCellRefinement` maps `live` to the addresses with a positive count, `value`
to `current`, `held` to the frames, `handle` to the clone a thread owns or is
deciding about, `base` to the value a writer's closure is computing from.  A
read takes effect at its validation, or at its clone under the lock.

## 3. Runs

| run | shows | states | bounds |
|---|---|---|---|
| `Cell_nested` | `TypeOK`, `NoUseAfterFree`, `RefcountExact`, `FallbackExact`, `SafeInv`, `Implements` | 428k | 2 threads, 2 cells (one dropped and recreated), 3 addresses, 2 levels over 1 slot |
| `Cell_wait` | `WaitOutlasts`, `WaitInv`, `RetiredLenTells`, `NoUserCodeUnderLock` | 379k | 3 threads, 4 addresses, 1 level; one thread loses its record |
| `Cell_live` | `WaitEnds`, `RetiredFreed` | 90k | 2 threads, 3 addresses, 2 levels over 1 slot; the waiter is nested itself |
| `Domain_records` | `TypeOK`, `OneOwner`, `ListWhole`, `SlotPerPin`, `RecordsBounded`, `ScanComplete` | 328k | 3 mortal threads, 4 records, 2 slots, 2 addresses |
| `Registry_order` | `FiringOrder`, `LiveList` | 1188k | 3 threads, 3 registrations, 2 priorities; dispatches of one thread, 2 levels, 1 panic, whose payload may panic |
| `Registry_wait` | `WaitStops` | 534k | 3 threads, 2 levels over 1 slot |
| `Registry_calls` | `TypeOK`, `OnceOnly`, `CallbackCurrent`, `NotifyComplete` | 1772k | 2 threads, 2 levels, 2 panics, 1 change of the callback; no payload panics in its `Drop` |
| `Async_join` | `TypeOK`, `ReportsInOrder`, `AllFinished`, `OneAfterTheOther`, `NoLostWake`, `CallbackUnlocked`, `NotifyEnds` | 439k | 1 call, 3 handlers, 1 setter, 2 kinds of payload |
| `Lifetime_guards` | `TypeOK`, `OwnersCounted`, `GuardRemoves`, `NothingLeaks` | 228k | 3 threads, 2 guards, 1 once handler |
| `Program_results` | `AssertionsHold`, `SubscribersAgree`, `EndsWithResult` | 14k | 13 programs, 3 workers, inputs of 7 operations |

**Bounds.**  `SLOTS` is 1 or 2 instead of 8: what matters is a level that has a
slot, one that shares a record with another, and one that finds none.  Three
addresses are the current values of two cells, or a current and a retired one,
and one to reuse; four add a second retired list.  Two readers and a writer are
the parties of each handshake; a third thread is there where a third party
matters (a claim race, a waiter beside a writer and a reader, an owner beside
two guards).  Three handlers are the fewest for which a panic has a neighbour on
each side.  Four records for three threads leave one that nobody needs, which
`RecordsBounded` says stays unused.  `MaxId`, `MaxPanics`, `MaxEpoch`,
`MaxDepth` and `MaxOps` bound counters and stacks.  Symmetry is over addresses
and records, and only in `Cell_nested`, `Cell_wait` and `Domain_records`.

**Deadlock** is checked except in `Lifetime_guards` (everything is dropped in the
end) and `Program_results` (programs end; `EndsWithResult` says how).

**Fairness.**

- `SnapCell`: a thread inside an operation of the crate is scheduled (weak
  fairness); one that waits for the mutex, to clone or to copy the retired list,
  gets it if it is free again and again (strong fairness; the mutex of the
  standard library is not starvation-free by contract, but the OS scheduler makes
  this the normal case); handlers return, which the documentation of
  `unregister_and_wait` requires.  No operation is assumed to be begun.  Polling
  is not assumed to be lucky: a waiter may meet a new fallback reader, or a newly
  retired list in use, at every poll, and a reader's `try_lock` may fail every
  time.  `WaitEnds` says that these two streams are the only ways a wait lasts
  for ever, and `RetiredFreed` that a value which stays retired while dispatches
  keep ending has `try_lock`s fail for ever on a clone, a copy or an update.
- `AsyncRegistry`: a poll runs to its end, the lock of the callback does not
  starve a reader, callbacks return, the executor polls a task that was woken,
  and what a handler awaits comes.  An owner may still drop the future.
- `RegistryLifetime`: a `Drop` runs to its end, and an unreachable closure is
  dropped with the guard in it.  Owners need never drop their `Arc`.
- `Programs`: some thread that can run does.

**Where the documentation says something else.**  Two runs check a sentence of
the documentation that the code does not keep; TLC's trace is the example.

| run | the documentation | the code |
|---|---|---|
| `Cell_wait_fallback` (`WaitComplete`) | `src/sync/mod.rs:331-333`: not running anywhere else | a caller on the fallback path misses other fallback readers, as `docs/ARCHITECTURE.md:303-304` says |
| `Registry_payload` (`NotifyComplete`) | `src/sync/mod.rs:661-663`: a panic does not propagate to sibling handlers nor to the caller | a payload is dropped outside `catch_unwind`: if its `Drop` panics, `notify` ends there |

Three more sentences are narrower or wider than the code, and the models follow
the code: `src/snapshot.rs:12-14` (freed by the writer or the last reader; a
reader that leaves between the writer's scan and its store of `retired_len`, or
while the lock is held, leaves the list to the next visitor, see
`RetiredFreed`); `src/snapshot.rs:229-230` (later readers are not waited for;
later fallback readers are); `src/hazard.rs:14-17` (records bounded by threads
dispatching at once; the bound is the threads alive at once that ever
dispatched, see `RecordsBounded`).

## 4. Proofs

Every theorem is for any values of the constants that satisfy the module's
`ConstantsAssumption`: finite sets where something is counted, naturals for
slots, levels and bounds.  TLC evaluates the assumptions in every run.

| module | theorems (the property each states) |
|---|---|
| `SnapCellProofs` | `Safety` (`SafeInv`), `TypeCorrect` (`TypeOK`), `CountsExact` (`RefcountExact`), `MemorySafety` (`NoUseAfterFree`), `NoReentrancyDeadlock` (`NoUserCodeUnderLock`) |
| `SnapCellPromises` | `FallbackCounts` (`FallbackExact`), `WaitsHold` (`WaitInv`), `WaitsOutlast` (`WaitOutlasts`), `LengthTells` (`RetiredLenTells`), `Refinement` (`Implements`) |
| `HazardDomainProofs` | `DomainSafe`, `DomainTypes` (`TypeOK`), `OwnersUnique` (`OneOwner`), `ListNeverBroken` (`ListWhole`), `SlotsExact` (`SlotPerPin`), `WalksComplete` (`ScanComplete`), `RecordsReused` (`RecordsBounded`) |
| `SyncRegistryProofs` | `RegistrySafe`, `RegistryTypes` (`TypeOK`), `OrderKept` (`FiringOrder`), `ListExact` (`LiveList`), `WaitsStop` (`WaitStops`), `OnceRuns` (`OnceOnly`), `CallbacksCurrent` (`CallbackCurrent`), `NotifiesComplete` (`NotifyComplete`) |
| `AsyncRegistryProofs` | `AsyncInvariant`, `AsyncTypes` (`TypeOK`), `AsyncReports` (`ReportsInOrder`), `AsyncFinishes` (`AllFinished`), `AsyncSequential` (`OneAfterTheOther`), `AsyncWakes` (`NoLostWake`), `AsyncCallback` (`CallbackUnlocked`), `AsyncLock`, `AsyncPriorities` |
| `RegistryLifetimeProofs` | `LifetimeTyped` (`TypeOK`), `OwnersExact` (`OwnersCounted`), `GuardsRemove` (`GuardRemoves`) |
| `ProgramsProofs` | `ProgramsKept` (`ProgramsInv`), `AssertionsKept` (`AssertionsHold`), `SubscribersKept` (`SubscribersAgree`) |

`HandlerListProofs` holds the lemmas about lists that the registries and the
programs rest on.  Every inductive invariant was also checked with TLC, on the
bounds of the runs.  For `ProgramsInv` and `AgreeInv` this takes a finite range
in place of `Nat` and, as `AddsUp` quantifies over all functions, equality with
`LatencySum` in place of it; the theorems are about the definitions themselves.

**The snapshot cell.**  `NoUseAfterFree` is not inductive: whether a value that
is read stays allocated depends on where its reference is and on what every
scan under way has yet to look at.  `SafeInv` adds

- `OpInv`: what the locals of a thread mean at each place of an operation;
- `LockInv`: who holds a lock is in a critical section of that cell, and a
  writer's `ptr` is the current value;
- `PlaceInv`: a value's reference is in one place: current in one cell, or in
  one retired list, or among the collected values of one thread;
- `HazardInv`: a validated announcement of `a` is `Guarded`: `a` is current, or
  retired, and every scan of that cell's lock holder has seen it or will come to
  its slot.  This is the handshake; a fallback dispatch instead has a reference
  of its own;
- `RefcountExact`: the count is the number of references.

`SnapCellProofs` proves types, `OpInv` and `LockInv` first, then `PlaceInv`,
`HazardInv` and the counts.  Each part has lemmas
that say which few actions can move the state in question (`PlaceMoves`,
`ScanMoves`, `LockMoves`, `StackMoves`, `RefMoves`), so that the case analysis
is over those and not over all actions.

**Waits.**  `SnapCellPromises` first counts fallback dispatches: a dispatch enters
the count before it clones and leaves it after it has dropped, so the counters
are exact whatever the nesting.  `WaitInv` then says that what a waiter still
owes is covered by what it has yet to check: a dispatch over a replaced value is
announced at an address of its copy of the retired list, or counted.  When the
waiter returns nothing is left to check, so nothing is owed.

**Refinement.**  Each step of `SnapCell` is mapped to a step of `AbstractCell` or
to a stutter.  `SafeInv` gives what the abstract steps ask for: an address that
is freed is in use nowhere (`InUse`), a validated address is the current one,
and a writer's base is current when it publishes.

**The hazard domain.**  `DomainInv` is inductive: owners and cursors stay on the
list; the list is what `next` spells from `HEAD`, without repetition; a
thread's slots are its Pins'; and an announcement that a walk owes has been met
or is ahead of the cursor.  Publication only adds in front of every cursor, so
what is ahead stays ahead.

`RecordsBounded` says something about the past: a thread that finds no free
record leaks a new one, although a record it passed may be free again by then.
The invariant `PeakInv` accounts for it position by position: for every `m`, `m`
and the number of threads that have a record, or look for one, and are past the
first `m` records of the list, are together at most `peak`.  A thread passes a
record only while another thread owns it, and the owner is not past it, so
`m + 1` and those past `m + 1` records are no more than `m` and those past `m`.
A new record comes in front, and its owner is at it.  At the end of the list,
where a record is leaked, this is the bound.

**The registry.**  `RegistryInv` adds to the properties that ids are given out
once (`IdInv`); that a list is sorted and without repetition (`ListInv`); where
each dispatch is in its list (`StackInv`); that a list stored since a removal
began to wait holds nothing of what was removed (`WaitsKept`), so that the
dispatches the wait does not outlast are harmless; and that at most one frame is
inside a once handler, exactly one while its slot is empty and it is still
registered (`OnceInv`).  `InsertKeeps` and `RemoveKeeps` are what the two list
computations preserve; they do not need induction, because
`partition_point` of a sorted list is a least element.  `TypeOK` bounds the
counters as well, which takes `BoundInv`: a list is stored once for an id that
is returned and at most once for an id that goes, so there are at most two per
registration.

`NotifyComplete` speaks of a dispatch that ends, and of the past: `CalledInv`
relates the calls made so far to the position in the list.  They are entries in
front of it, in list order, and an entry in front of it that was not called is a
once handler whose slot is empty.  `NotifiesComplete` assumes that `Dropper` is
empty, that is, that no payload panics in its `Drop`; `Registry_payload` shows
that it takes this.  `CalledInv` itself holds with any `Dropper`.

**The asynchronous registry.**  The properties speak of a call when it is
suspended, ready or in `handle_panic`; `AsyncInv` says what holds between.

- `CountInv`: the counter of the join is the number of slots that run, over
  any number of polls, each of which finishes any of them.
- `JoinInv`: handlers are started in order, then all are started, then, when
  panics are reported, all have finished.  `SequentialInv`: those before the
  position have finished, those after it are not started.
- `ReportInv`: what has been reported is exactly the panics up to the position,
  each at the place its rank among the panics gives it.  The rank is a
  cardinality, so that this needs no recursion.
- `WakeInv`: of the slots the poll under way has passed, none is unpolled, and
  one that has become ready since has woken the call.  When the poll suspends it
  has passed all, which is `NoLostWake`.
- `LockInv`: the readers are the calls that clone the callback; a writer is alone.
- `ListInv`: the current list and every call's list are sorted, without repetition.

The list, the lock and each call change in few ways, and a step changes one call
only, so the proof is one lemma per action on one call.

**Lifetimes.**  `OwnersCounted` needs that a guard is dropped once, so that its
`Drop` upgrades once, and that the list goes with the registry (`Supported`).
The innermost `Drop` of a thread is one that has upgraded, so releasing it takes
exactly one from the count, however `Drop`s nest.

**The programs.**  An assertion of an example is about the calls before it, so
`AssertionsHold` needs to know where each program is and what it has done.
`ProgramsInv` says it by kind of program.

- `TrackedInv`: a program with a fixed script is at some position of it, with
  the handler list and the next id that a table has for that position.  `Follows`
  is proved of each table: every call leads from one entry to the next.
- `PlainInv`: `priority`, `concurrent`, the two asynchronous examples and
  `event_payload` make no call that is asserted (`Harmless`); a position is enough.
- `MetricInv`: `pattern_metric_event` has both handlers before the traffic, for
  any number of requests.
- `ChurnInv`: `handler_churn` takes arbitrary calls from its input.  Its own
  bookkeeping is right (`BooksInv`): the live ids are the handlers' ids, each
  once, and the stale id is nobody's, so what it asserts of `unregister` and of
  the count holds whatever the input.
- `WorkersInv`: only `concurrent` has other threads, and they only dispatch.

`SubscribersAgree` holds between dispatches; `AgreeInv` says what holds in the
middle of one, handler by handler: those of the list that are still to run have
not seen the event, the others have.  The sum of latencies is a recursive
function.  That it grows by one latency with one more event does not take
induction: `AddsUp` carries along that the recursion has one solution, and
`AddsOneMore` extends it by one position.

**Only model-checked.**  Liveness (`WaitEnds`, `RetiredFreed`, `NotifyEnds`,
`NothingLeaks`, `EndsWithResult`) and ENABLED are beyond the prover, and so is
anything that needs induction over data or recursive operators.  Every
invariant and safety action property of the passing runs, and the refinement,
has a theorem.
That `HazardDomain` justifies the slots of `SnapCell`, and `AbstractCell` the
reads of the registries, is argued in section 2.

## 5. Mutants

Each property of a passing run is violated by a mutant of the code: an operator
`Mut...` in front of the action it replaces.  For instance: the validating load
is dropped (`MutValidated`), the scan's results stay on the retired list
(`MutCollect`), an update begins without the lock (`MutUpdateBegin`), the claim
is a load and a store (`MutClaim`), a once handler is removed only when it
returns (`MutHandlerPanic`), the callback is cached at the beginning of a
dispatch (`MutFetchCallback`), a guard holds an `Arc` (`MutRegisterGuard`).

## 6. Not modelled

- Memory orders weaker than sequential consistency, except as argued in
  section 2.
- `Debug` and `Display` text and capacities: formatting and performance.
- `src/lib.rs` (declarations), benches and tests.
- The wrap of the id counter after 2^64 registrations.
- Two handlers on two threads that wait for each other: they deadlock by what
  the methods promise.
- A callback whose `Drop` calls `on_panic`: it runs under the write lock when
  the callback is replaced.
- Two threads in `Config::mutate` of the hot-reload example, which has one
  producer.
- What the operating system and the executor do beyond the fairness above.
