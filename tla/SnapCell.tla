------------------------------ MODULE SnapCell ------------------------------
(***************************************************************************)
(* The hazard-protected snapshot cell behind both registries               *)
(* (src/snapshot.rs) on top of the process-wide announcement slots         *)
(* (src/hazard.rs).                                                        *)
(*                                                                         *)
(* Every atomic load, store or lock operation that another thread can      *)
(* observe is a step of its own.  An address is reused as soon as the      *)
(* strong count of its allocation reaches zero, so the ABA cases are part  *)
(* of the state space.  A scan of the announcements reads one slot per     *)
(* step; the order of the records in a scan is left open.                  *)
(***************************************************************************)
EXTENDS Integers, FiniteSets

CONSTANTS
  Thread,     \* OS threads; each owns one hazard record
  Cell,       \* snapshot cells: one per registry
  Addr,       \* heap addresses Arc::new may return
  NULL,       \* the null pointer; also: lock free, no handle, no cell
  SLOTS,      \* announcement slots per record (8 in the code)
  MaxDepth,   \* bound on nested dispatch
  Reader,     \* the threads that call read (every synchronous dispatch)
  Loader,     \* the threads that call load_arc_if (asynchronous dispatch)
  Updater,    \* the threads that call update
  Waiter,     \* the threads that call wait_for_retired_readers
  Mortal,     \* the threads whose thread-local storage is torn down
  Unwinder,   \* the threads whose dispatches may unwind
  Disposable  \* the cells that are dropped and created again

ASSUME ConstantsAssumption ==
  /\ IsFiniteSet(Thread)
  /\ IsFiniteSet(Cell)
  /\ IsFiniteSet(Addr)
  /\ NULL \notin Addr \cup Thread \cup Cell
  /\ SLOTS \in Nat \ {0}
  /\ MaxDepth \in Nat \ {0}
  /\ Reader \cup Loader \cup Updater \cup Waiter \subseteq Thread
  /\ Mortal \cup Unwinder \subseteq Thread
  /\ Disposable \subseteq Cell

VARIABLES
  \* the cell (struct SnapCell)
  current,           \* the published pointer; NULL: the cell is dropped
  retired,           \* the values in the writer mutex's Vec
  retired_len,       \* the relaxed counter readers look at
  fallback_readers,  \* readers on the locked path
  writer,            \* the thread that holds the writer mutex, or NULL
  \* the heap and the announcements
  strong,            \* strong count per address; 0 = not allocated
  slot,              \* slot[t][i]: announcement i of t's record
  \* the threads' stacks
  tls,               \* is the thread's LOCAL still accessible?
  FALLBACK_DEPTH,    \* the thread-local fallback nesting, over all cells
  depth,             \* number of dispatches the thread is inside
  frame,             \* frame[t][d]: what dispatch number d borrows
  \* the operation a thread is executing
  pc, cell, ptr, pin, owning,
  todo, seen, freed,       \* its scan, and what it took out of retired
  on_fallback, probe,      \* the locals of wait_for_retired_readers
  owned,                   \* the Arc a load_arc_if of this thread returned
  \* history
  owed                     \* the dispatches a waiter has to outlast

cellVars == <<current, retired, retired_len, fallback_readers, writer>>
stackVars == <<tls, FALLBACK_DEPTH, depth, frame>>
opVars == <<cell, ptr, pin, owning>>
scanVars == <<todo, seen, freed>>
waitVars == <<on_fallback, probe, owed>>
heapVars == <<strong, slot, owned>>
vars == <<cellVars, heapVars, stackVars, pc, opVars, scanVars, waitVars>>

Slot == 1..SLOTS
Level == 1..MaxDepth

\* One dispatch on a thread's stack.  Slot 0 marks the locked fallback path,
\* which owns an Arc instead of an announcement.
Frame == [cell : Cell, addr : Addr, slot : 0..SLOTS]
NoFrame == [cell |-> NULL, addr |-> NULL, slot |-> 0]

Init ==
  /\ current \in [Cell -> Addr]
  /\ \A c1, c2 \in Cell : current[c1] = current[c2] => c1 = c2
  /\ retired = [c \in Cell |-> {}]
  /\ retired_len = [c \in Cell |-> 0]
  /\ fallback_readers = [c \in Cell |-> 0]
  /\ writer = [c \in Cell |-> NULL]
  /\ strong = [a \in Addr |-> IF \E c \in Cell : current[c] = a THEN 1 ELSE 0]
  /\ slot = [t \in Thread |-> [i \in Slot |-> NULL]]
  /\ tls = [t \in Thread |-> TRUE]
  /\ FALLBACK_DEPTH = [t \in Thread |-> 0]
  /\ depth = [t \in Thread |-> 0]
  /\ frame = [t \in Thread |-> [d \in Level |-> NoFrame]]
  /\ pc = [t \in Thread |-> "user"]
  /\ cell = [t \in Thread |-> NULL]
  /\ ptr = [t \in Thread |-> NULL]
  /\ pin = [t \in Thread |-> 0]
  /\ owning = [t \in Thread |-> FALSE]
  /\ todo = [t \in Thread |-> {}]
  /\ seen = [t \in Thread |-> {}]
  /\ freed = [t \in Thread |-> {}]
  /\ on_fallback = [t \in Thread |-> FALSE]
  /\ probe = [t \in Thread |-> {}]
  /\ owned = [t \in Thread |-> NULL]
  /\ owed = [t \in Thread |-> {}]

-----------------------------------------------------------------------------
\* A thread at "user" runs code outside the crate: it is idle (depth 0),
\* inside a handler, or in the Drop of a value it has just freed.  From
\* there it may start any operation on any cell that exists.
Start(t, c, label) ==
  /\ pc[t] = "user"
  /\ current[c] # NULL
  /\ pc' = [pc EXCEPT ![t] = label]
  /\ cell' = [cell EXCEPT ![t] = c]

Step(t, from, to) ==
  /\ pc[t] = from
  /\ pc' = [pc EXCEPT ![t] = to]

\* Gives back one strong reference to each address of A; a value whose
\* count reaches zero is deallocated.
DropRefs(A) ==
  strong' = [a \in Addr |-> IF a \in A THEN strong[a] - 1 ELSE strong[a]]

Push(t, f) ==
  /\ depth' = [depth EXCEPT ![t] = @ + 1]
  /\ frame' = [frame EXCEPT ![t][depth[t] + 1] = f]

\* The dispatch on top of t's stack ends: no waiter waits for it any more.
Pop(t) ==
  /\ depth' = [depth EXCEPT ![t] = @ - 1]
  /\ frame' = [frame EXCEPT ![t][depth[t]] = NoFrame]
  /\ owed' = [w \in Thread |-> owed[w] \ {<<t, depth[t]>>}]

-----------------------------------------------------------------------------
(* read and load_arc_if: protect, use, release *)

\* protect: the first, unvalidated load of the pointer.
ProtectBegin(t, c, own) ==
  /\ Start(t, c, "pin")
  /\ ptr' = [ptr EXCEPT ![t] = current[c]]
  /\ owning' = [owning EXCEPT ![t] = own]
  /\ UNCHANGED <<cellVars, heapVars, stackVars, pin, scanVars, waitVars>>

ReadBegin(t, c) ==
  t \in Reader /\ depth[t] < MaxDepth /\ ProtectBegin(t, c, FALSE)

LoadBegin(t, c) ==
  t \in Loader /\ owned[t] = NULL /\ ProtectBegin(t, c, TRUE)

FreeSlots(t) == {i \in Slot : slot[t][i] = NULL}

\* Mutant: the slot index is off by one.
MutPin(t) ==
  \E i \in FreeSlots(t) :
    /\ tls[t]
    /\ Step(t, "pin", "validate")
    /\ slot' = [slot EXCEPT ![t][i] = ptr[t]]
    /\ pin' = [pin EXCEPT ![t] = i + 1]
    /\ UNCHANGED <<cellVars, strong, owned, stackVars, cell, ptr, owning,
                   scanVars, waitVars>>

\* hazard::pin takes the first null slot of the thread's own record and
\* publishes in it.
Pin(t) ==
  \E i \in FreeSlots(t) :
    /\ tls[t]
    /\ \A j \in FreeSlots(t) : i <= j
    /\ Step(t, "pin", "validate")
    /\ slot' = [slot EXCEPT ![t][i] = ptr[t]]
    /\ pin' = [pin EXCEPT ![t] = i]
    /\ UNCHANGED <<cellVars, strong, owned, stackVars, cell, ptr, owning,
                   scanVars, waitVars>>

\* ... and returns None without a usable record or a free slot.
PinNone(t) ==
  /\ ~tls[t] \/ FreeSlots(t) = {}
  /\ Step(t, "pin", IF owning[t] THEN "clone" ELSE "count")
  /\ ptr' = [ptr EXCEPT ![t] = NULL]
  /\ UNCHANGED <<cellVars, heapVars, stackVars, cell, pin, owning, scanVars,
                 waitVars>>

\* Mutant: the announced pointer is not validated.
MutValidated(t) ==
  /\ Step(t, "validate", IF owning[t] THEN "keep" ELSE "user")
  /\ \/ /\ ~owning[t]
        /\ Push(t, [cell |-> cell[t], addr |-> ptr[t], slot |-> pin[t]])
        /\ ptr' = [ptr EXCEPT ![t] = NULL]
        /\ pin' = [pin EXCEPT ![t] = 0]
     \/ /\ owning[t]
        /\ UNCHANGED <<depth, frame, ptr, pin>>
  /\ UNCHANGED <<cellVars, heapVars, tls, FALLBACK_DEPTH, cell, owning,
                 scanVars, waitVars>>

\* protect: the validating load finds the announced pointer.  A read starts
\* to run its closure; load_arc_if goes on to ask `keep`.
Validated(t) ==
  /\ Step(t, "validate", IF owning[t] THEN "keep" ELSE "user")
  /\ current[cell[t]] = ptr[t]
  /\ \/ /\ ~owning[t]
        /\ Push(t, [cell |-> cell[t], addr |-> ptr[t], slot |-> pin[t]])
        /\ ptr' = [ptr EXCEPT ![t] = NULL]
        /\ pin' = [pin EXCEPT ![t] = 0]
     \/ /\ owning[t]
        /\ UNCHANGED <<depth, frame, ptr, pin>>
  /\ UNCHANGED <<cellVars, heapVars, tls, FALLBACK_DEPTH, cell, owning,
                 scanVars, waitVars>>

\* protect: the validating load finds another pointer, which becomes the
\* next candidate.
Changed(t) ==
  /\ Step(t, "validate", "protect")
  /\ current[cell[t]] # ptr[t]
  /\ ptr' = [ptr EXCEPT ![t] = current[cell[t]]]
  /\ UNCHANGED <<cellVars, heapVars, stackVars, cell, pin, owning, scanVars,
                 waitVars>>

\* Mutant: the next candidate is not announced.
MutProtect(t) ==
  /\ Step(t, "protect", "validate")
  /\ UNCHANGED <<cellVars, heapVars, stackVars, opVars, scanVars, waitVars>>

\* Pin::protect on the slot already claimed.
Protect(t) ==
  /\ Step(t, "protect", "validate")
  /\ slot' = [slot EXCEPT ![t][pin[t]] = ptr[t]]
  /\ UNCHANGED <<cellVars, strong, owned, stackVars, opVars, scanVars,
                 waitVars>>

\* load_arc_if: `keep` borrows the value and accepts it (the strong count
\* is incremented) or rejects it.
Keep(t) ==
  /\ Step(t, "keep", "unpin")
  /\ \/ /\ strong' = [strong EXCEPT ![ptr[t]] = @ + 1]
        /\ owned' = [owned EXCEPT ![t] = ptr[t]]
     \/ UNCHANGED <<strong, owned>>
  /\ ptr' = [ptr EXCEPT ![t] = NULL]
  /\ UNCHANGED <<cellVars, slot, stackVars, cell, pin, owning, scanVars,
                 waitVars>>

\* release, first half, of a load_arc_if: the announcement is cleared.
Unpin(t) ==
  /\ Step(t, "unpin", "check")
  /\ slot' = [slot EXCEPT ![t][pin[t]] = NULL]
  /\ pin' = [pin EXCEPT ![t] = 0]
  /\ UNCHANGED <<cellVars, strong, owned, stackVars, cell, ptr, owning,
                 scanVars, waitVars>>

\* A read's closure ends: the announcement is cleared, and release goes on
\* to look at retired_len, unless the closure unwinds.
ReadEnd(t) ==
  LET f == frame[t][depth[t]] IN
  /\ depth[t] > 0
  /\ f.slot # 0
  /\ \/ Step(t, "user", "check")
     \/ t \in Unwinder /\ Step(t, "user", "user")
  /\ slot' = [slot EXCEPT ![t][f.slot] = NULL]
  /\ cell' = [cell EXCEPT ![t] = f.cell]
  /\ Pop(t)
  /\ UNCHANGED <<cellVars, strong, owned, tls, FALLBACK_DEPTH, ptr, pin,
                 owning, scanVars, on_fallback, probe>>

\* Mutant: readers leave the reclaiming to writers.
MutCheck(t) ==
  /\ Step(t, "check", "user")
  /\ UNCHANGED <<cellVars, heapVars, stackVars, opVars, scanVars, waitVars>>

\* release, second half: the relaxed load of retired_len.
Check(t) ==
  /\ Step(t, "check", IF retired_len[cell[t]] # 0 THEN "try" ELSE "user")
  /\ UNCHANGED <<cellVars, heapVars, stackVars, opVars, scanVars, waitVars>>

\* The owner of a handle drops it, wherever its future has moved to.
DropOwned(t) ==
  /\ pc[t] = "user"
  /\ owned[t] # NULL
  /\ DropRefs({owned[t]})
  /\ owned' = [owned EXCEPT ![t] = NULL]
  /\ UNCHANGED <<pc, cellVars, slot, stackVars, opVars, scanVars, waitVars>>

-----------------------------------------------------------------------------
(* read_fallback and load_arc_locked: no announcement slot *)

\* Mutant: the thread-local nesting is not counted.
MutFallbackCount(t) ==
  /\ Step(t, "count", "clone")
  /\ fallback_readers' = [fallback_readers EXCEPT ![cell[t]] = @ + 1]
  /\ UNCHANGED <<current, retired, retired_len, writer, heapVars, stackVars,
                 opVars, scanVars, waitVars>>

\* read_fallback: the reader counts itself, in the cell and on its thread.
FallbackCount(t) ==
  /\ Step(t, "count", "clone")
  /\ fallback_readers' = [fallback_readers EXCEPT ![cell[t]] = @ + 1]
  /\ FALLBACK_DEPTH' = [FALLBACK_DEPTH EXCEPT ![t] = @ + 1]
  /\ UNCHANGED <<current, retired, retired_len, writer, heapVars, tls, depth,
                 frame, opVars, scanVars, waitVars>>

\* load_arc_locked: the writer lock is taken and the value cloned ...
LoadLocked(t) ==
  LET c == cell[t] IN
  /\ Step(t, "clone", "cloned")
  /\ writer[c] = NULL
  /\ writer' = [writer EXCEPT ![c] = t]
  /\ strong' = [strong EXCEPT ![current[c]] = @ + 1]
  /\ \/ /\ owning[t]
        /\ owned' = [owned EXCEPT ![t] = current[c]]
        /\ UNCHANGED <<depth, frame>>
     \/ /\ ~owning[t]
        /\ Push(t, [cell |-> c, addr |-> current[c], slot |-> 0])
        /\ UNCHANGED owned
  /\ UNCHANGED <<current, retired, retired_len, fallback_readers, slot, tls,
                 FALLBACK_DEPTH, opVars, scanVars, waitVars>>

\* ... and released again, before the caller uses the clone.
LoadUnlock(t) ==
  /\ Step(t, "cloned", "user")
  /\ writer' = [writer EXCEPT ![cell[t]] = NULL]
  /\ UNCHANGED <<current, retired, retired_len, fallback_readers, heapVars,
                 stackVars, opVars, scanVars, waitVars>>

\* The closure of a fallback read ends or unwinds: its Arc goes first ...
FallbackEnd(t) ==
  LET f == frame[t][depth[t]] IN
  /\ depth[t] > 0
  /\ f.slot = 0
  /\ Step(t, "user", "leave")
  /\ DropRefs({f.addr})
  /\ cell' = [cell EXCEPT ![t] = f.cell]
  /\ Pop(t)
  /\ UNCHANGED <<cellVars, slot, owned, tls, FALLBACK_DEPTH, ptr, pin,
                 owning, scanVars, on_fallback, probe>>

\* ... and Active::drop second.
FallbackLeave(t) ==
  /\ Step(t, "leave", "user")
  /\ fallback_readers' = [fallback_readers EXCEPT ![cell[t]] = @ - 1]
  /\ FALLBACK_DEPTH' = [FALLBACK_DEPTH EXCEPT ![t] = @ - 1]
  /\ UNCHANGED <<current, retired, retired_len, writer, heapVars, tls, depth,
                 frame, opVars, scanVars, waitVars>>

-----------------------------------------------------------------------------
(* update and try_reclaim: replace, scan, collect *)

\* Mutant: the writer lock does not exclude other writers.
MutUpdateBegin(t, c) ==
  /\ t \in Updater
  /\ Start(t, c, "build")
  /\ writer' = [writer EXCEPT ![c] = t]
  /\ ptr' = [ptr EXCEPT ![t] = current[c]]
  /\ UNCHANGED <<current, retired, retired_len, fallback_readers, heapVars,
                 stackVars, pin, owning, scanVars, waitVars>>

\* update: the writer lock is taken and the current value borrowed.
UpdateBegin(t, c) ==
  /\ t \in Updater
  /\ writer[c] = NULL
  /\ Start(t, c, "build")
  /\ writer' = [writer EXCEPT ![c] = t]
  /\ ptr' = [ptr EXCEPT ![t] = current[c]]
  /\ UNCHANGED <<current, retired, retired_len, fallback_readers, heapVars,
                 stackVars, pin, owning, scanVars, waitVars>>

\* update: the closure returns None; nothing is swapped.
UpdateNone(t) ==
  /\ Step(t, "build", "user")
  /\ writer' = [writer EXCEPT ![cell[t]] = NULL]
  /\ ptr' = [ptr EXCEPT ![t] = NULL]
  /\ UNCHANGED <<current, retired, retired_len, fallback_readers, heapVars,
                 stackVars, cell, pin, owning, scanVars, waitVars>>

\* announced: a scan is about to read every slot of every record.
ScanFrom(t) ==
  /\ todo' = [todo EXCEPT ![t] = Thread \X Slot]
  /\ seen' = [seen EXCEPT ![t] = {}]

\* update: the new value is published at any unallocated address and the
\* old one is retired.
UpdateStore(t) ==
  LET c == cell[t] IN
  \E a \in Addr :
    /\ strong[a] = 0
    /\ Step(t, "build", "scan")
    /\ strong' = [strong EXCEPT ![a] = 1]
    /\ current' = [current EXCEPT ![c] = a]
    /\ retired' = [retired EXCEPT ![c] = @ \cup {ptr[t]}]
    /\ ptr' = [ptr EXCEPT ![t] = NULL]
    /\ ScanFrom(t)
    /\ UNCHANGED <<retired_len, fallback_readers, writer, slot, owned,
                   stackVars, cell, pin, owning, freed, waitVars>>

\* try_reclaim: with nothing retired collect_unprotected returns at once; a
\* busy lock, whoever holds it and for what, makes the reader give up.
TryReclaim(t) ==
  LET c == cell[t] IN
  /\ \/ /\ Step(t, "try", "user")
        /\ writer[c] # NULL
        /\ UNCHANGED <<writer, todo, seen>>
     \/ /\ Step(t, "try", "publish")
        /\ writer[c] = NULL /\ retired[c] = {}
        /\ writer' = [writer EXCEPT ![c] = t]
        /\ UNCHANGED <<todo, seen>>
     \/ /\ Step(t, "try", "scan")
        /\ writer[c] = NULL /\ retired[c] # {}
        /\ writer' = [writer EXCEPT ![c] = t]
        /\ ScanFrom(t)
  /\ UNCHANGED <<current, retired, retired_len, fallback_readers, heapVars,
                 stackVars, opVars, freed, waitVars>>

\* announced: one SeqCst load of one slot, the slots of a record in order.
Scan(t) ==
  \E r \in Thread, i \in Slot :
    /\ <<r, i>> \in todo[t]
    /\ \A j \in Slot : <<r, j>> \in todo[t] => i <= j
    /\ Step(t, "scan", "scan")
    /\ todo' = [todo EXCEPT ![t] = @ \ {<<r, i>>}]
    /\ seen' = [seen EXCEPT ![t] = @ \cup ({slot[r][i]} \ {NULL})]
    /\ UNCHANGED <<cellVars, heapVars, stackVars, opVars, freed, waitVars>>

\* Mutant: a collected value stays on the retired list as well.
MutCollect(t) ==
  /\ todo[t] = {}
  /\ Step(t, "scan", "publish")
  /\ freed' = [freed EXCEPT ![t] = retired[cell[t]] \ seen[t]]
  /\ seen' = [seen EXCEPT ![t] = {}]
  /\ UNCHANGED <<cellVars, heapVars, stackVars, opVars, todo, waitVars>>

\* collect_unprotected: what the scan did not see leaves the retired list.
Collect(t) ==
  LET c == cell[t] IN
  /\ todo[t] = {}
  /\ Step(t, "scan", "publish")
  /\ freed' = [freed EXCEPT ![t] = retired[c] \ seen[t]]
  /\ retired' = [retired EXCEPT ![c] = @ \cap seen[t]]
  /\ seen' = [seen EXCEPT ![t] = {}]
  /\ UNCHANGED <<current, retired_len, fallback_readers, writer, heapVars,
                 stackVars, opVars, todo, waitVars>>

\* Mutants: the length is not published; the collected values are dropped
\* before the lock is released.
MutPublishNothing(t) ==
  /\ Step(t, "publish", "unlock")
  /\ UNCHANGED <<cellVars, heapVars, stackVars, opVars, scanVars, waitVars>>
MutPublishThenDrop(t) ==
  /\ Step(t, "publish", "drop")
  /\ retired_len' = [retired_len EXCEPT ![cell[t]] =
                        Cardinality(retired[cell[t]])]
  /\ UNCHANGED <<current, retired, fallback_readers, writer, heapVars,
                 stackVars, opVars, scanVars, waitVars>>

\* The length of the retired list is published while the lock is held.
PublishLen(t) ==
  LET c == cell[t] IN
  /\ Step(t, "publish", "unlock")
  /\ retired_len' = [retired_len EXCEPT ![c] = Cardinality(retired[c])]
  /\ UNCHANGED <<current, retired, fallback_readers, writer, heapVars,
                 stackVars, opVars, scanVars, waitVars>>

Unlock(t) ==
  /\ Step(t, "unlock", "drop")
  /\ writer' = [writer EXCEPT ![cell[t]] = NULL]
  /\ UNCHANGED <<current, retired, retired_len, fallback_readers, heapVars,
                 stackVars, opVars, scanVars, waitVars>>

\* The collected values are dropped, after the lock is released; their Drop
\* code runs at "user".
DropFreed(t) ==
  /\ Step(t, "drop", "user")
  /\ DropRefs(freed[t])
  /\ freed' = [freed EXCEPT ![t] = {}]
  /\ UNCHANGED <<cellVars, slot, owned, stackVars, opVars, todo, seen,
                 waitVars>>

-----------------------------------------------------------------------------
(* wait_for_retired_readers *)

\* The dispatches on other threads that still read a value of c that has
\* been replaced.
StaleReaders(t, c) ==
  {e \in (Thread \ {t}) \X Level :
     /\ e[2] <= depth[e[1]]
     /\ frame[e[1]][e[2]].cell = c
     /\ frame[e[1]][e[2]].addr # current[c]}

\* Mutant: the caller's own fallback dispatches are not told apart.
MutWaitBegin(t, c) ==
  /\ t \in Waiter
  /\ Start(t, c, "wait")
  /\ owed' = [owed EXCEPT ![t] = StaleReaders(t, c)]
  /\ UNCHANGED <<cellVars, heapVars, stackVars, ptr, pin, owning, scanVars,
                 on_fallback, probe>>

\* wait_for_retired_readers: caller_on_fallback is computed once.
WaitBegin(t, c) ==
  /\ t \in Waiter
  /\ Start(t, c, "wait")
  /\ on_fallback' = [on_fallback EXCEPT ![t] = FALLBACK_DEPTH[t] > 0]
  /\ owed' = [owed EXCEPT ![t] = StaleReaders(t, c)]
  /\ UNCHANGED <<cellVars, heapVars, stackVars, ptr, pin, owning, scanVars,
                 probe>>

\* Mutant: fallback readers are ignored.
MutWaitFallback(t) ==
  /\ Step(t, "wait", "copy")
  /\ UNCHANGED <<cellVars, heapVars, stackVars, opVars, scanVars, waitVars>>

\* A round of the loop that finds fallback readers only backs off, so the
\* step is the round that does not.
WaitFallback(t) ==
  /\ Step(t, "wait", "copy")
  /\ on_fallback[t] \/ fallback_readers[cell[t]] = 0
  /\ UNCHANGED <<cellVars, heapVars, stackVars, opVars, scanVars, waitVars>>

\* Mutant: only one of the retired pointers is copied.
MutWaitCopy(t) ==
  LET c == cell[t] IN
  /\ Step(t, "copy", "copied")
  /\ writer[c] = NULL
  /\ writer' = [writer EXCEPT ![c] = t]
  /\ \E a \in Addr :
       /\ retired[c] # {} => a \in retired[c]
       /\ probe' = [probe EXCEPT ![t] =
                      ({a} \cap retired[c]) \X ((Thread \ {t}) \X Slot)]
  /\ UNCHANGED <<current, retired, retired_len, fallback_readers, heapVars,
                 stackVars, opVars, scanVars, on_fallback, owed>>

\* The retired pointers are copied under the lock; the values are not owned.
WaitCopy(t) ==
  LET c == cell[t] IN
  /\ Step(t, "copy", "copied")
  /\ writer[c] = NULL
  /\ writer' = [writer EXCEPT ![c] = t]
  /\ probe' = [probe EXCEPT ![t] = retired[c] \X ((Thread \ {t}) \X Slot)]
  /\ UNCHANGED <<current, retired, retired_len, fallback_readers, heapVars,
                 stackVars, opVars, scanVars, on_fallback, owed>>

\* The lock is released before the announcements are looked at.
WaitUnlock(t) ==
  /\ Step(t, "copied", "inspect")
  /\ writer' = [writer EXCEPT ![cell[t]] = NULL]
  /\ UNCHANGED <<current, retired, retired_len, fallback_readers, heapVars,
                 stackVars, opVars, scanVars, waitVars>>

\* others_protect: one load of one slot of another thread's record for one
\* of the copied pointers.  A match sends the waiter back to its loop.
WaitInspect(t) ==
  \E a \in Addr, r \in Thread, i \in Slot :
    /\ <<a, <<r, i>>>> \in probe[t]
    /\ \A j \in Slot : <<a, <<r, j>>>> \in probe[t] => i <= j
    /\ \/ /\ slot[r][i] # a
          /\ Step(t, "inspect", "inspect")
          /\ probe' = [probe EXCEPT ![t] = @ \ {<<a, <<r, i>>>>}]
       \/ /\ slot[r][i] = a
          /\ Step(t, "inspect", "wait")
          /\ probe' = [probe EXCEPT ![t] = {}]
    /\ UNCHANGED <<cellVars, heapVars, stackVars, opVars, scanVars,
                   on_fallback, owed>>

WaitDone(t) ==
  /\ probe[t] = {}
  /\ Step(t, "inspect", "return")
  /\ UNCHANGED <<cellVars, heapVars, stackVars, opVars, scanVars, waitVars>>

WaitReturn(t) ==
  /\ Step(t, "return", "user")
  /\ on_fallback' = [on_fallback EXCEPT ![t] = FALSE]
  /\ owed' = [owed EXCEPT ![t] = {}]
  /\ UNCHANGED <<cellVars, heapVars, stackVars, opVars, scanVars, probe>>

-----------------------------------------------------------------------------
(* Life cycle of threads and cells *)

\* Local::drop at thread exit: every slot is cleared and the record given
\* up.  Destructors that run later on this thread find no record.
Teardown(t) ==
  /\ t \in Mortal
  /\ pc[t] = "user"
  /\ depth[t] = 0
  /\ tls[t]
  /\ tls' = [tls EXCEPT ![t] = FALSE]
  /\ slot' = [slot EXCEPT ![t] = [i \in Slot |-> NULL]]
  /\ UNCHANGED <<pc, cellVars, strong, owned, FALLBACK_DEPTH, depth, frame,
                 opVars, scanVars, waitVars>>

\* The thread is gone and a new one has taken its place and its record.
Respawn(t) ==
  /\ pc[t] = "user"
  /\ depth[t] = 0
  /\ ~tls[t]
  /\ tls' = [tls EXCEPT ![t] = TRUE]
  /\ UNCHANGED <<pc, cellVars, heapVars, FALLBACK_DEPTH, depth, frame,
                 opVars, scanVars, waitVars>>

\* No thread is inside an operation or a dispatch on c.
Unused(c) ==
  \A t \in Thread :
    /\ pc[t] # "user" => cell[t] # c
    /\ \A d \in 1..depth[t] : frame[t][d].cell # c

\* Drop for SnapCell: exclusive access; the current and the retired values
\* lose the cell's references.
DropCell(c) ==
  /\ c \in Disposable
  /\ current[c] # NULL
  /\ Unused(c)
  /\ DropRefs({current[c]} \cup retired[c])
  /\ current' = [current EXCEPT ![c] = NULL]
  /\ retired' = [retired EXCEPT ![c] = {}]
  /\ retired_len' = [retired_len EXCEPT ![c] = 0]
  /\ UNCHANGED <<pc, fallback_readers, writer, slot, owned, stackVars,
                 opVars, scanVars, waitVars>>

\* SnapCell::new.
New(c) ==
  \E a \in Addr :
    /\ current[c] = NULL
    /\ strong[a] = 0
    /\ current' = [current EXCEPT ![c] = a]
    /\ strong' = [strong EXCEPT ![a] = 1]
    /\ UNCHANGED <<pc, retired, retired_len, fallback_readers, writer, slot,
                   owned, stackVars, opVars, scanVars, waitVars>>

-----------------------------------------------------------------------------
\* The step a thread takes inside the operation it has begun.
Proceed(t) ==
  \/ Pin(t) \/ PinNone(t) \/ Validated(t) \/ Changed(t) \/ Protect(t)
  \/ Keep(t) \/ Unpin(t) \/ Check(t)
  \/ FallbackCount(t) \/ LoadLocked(t) \/ LoadUnlock(t) \/ FallbackLeave(t)
  \/ UpdateNone(t) \/ UpdateStore(t) \/ TryReclaim(t)
  \/ Scan(t) \/ Collect(t) \/ PublishLen(t) \/ Unlock(t) \/ DropFreed(t)
  \/ WaitFallback(t) \/ WaitCopy(t) \/ WaitUnlock(t) \/ WaitInspect(t)
  \/ WaitDone(t) \/ WaitReturn(t)

\* A dispatch returns.
Finish(t) == ReadEnd(t) \/ FallbackEnd(t)

Begin(t, c) ==
  ReadBegin(t, c) \/ LoadBegin(t, c) \/ UpdateBegin(t, c) \/ WaitBegin(t, c)

Next ==
  \/ \E t \in Thread : Proceed(t) \/ Finish(t)
  \/ \E t \in Thread, c \in Cell : Begin(t, c)
  \/ \E t \in Thread : DropOwned(t) \/ Teardown(t) \/ Respawn(t)
  \/ \E c \in Cell : DropCell(c) \/ New(c)

Spec == Init /\ [][Next]_vars

\* A thread that has begun an operation is scheduled until it is over; a
\* blocking lock() is not starved for ever by other users of the mutex; and
\* every handler returns, however many operations it performs.  A loop that
\* polls is only scheduled: it may miss a condition that comes and goes.
FairSpec ==
  /\ Spec
  /\ \A t \in Thread :
       /\ WF_vars(Proceed(t))
       /\ SF_vars(LoadLocked(t) \/ WaitCopy(t))
       /\ \A d \in Level : SF_vars(depth[t] = d /\ Finish(t))

-----------------------------------------------------------------------------
Labels == {"user", "pin", "validate", "protect", "keep", "unpin", "check",
           "count", "clone", "cloned", "leave", "build", "try", "scan",
           "publish", "unlock", "drop", "wait", "copy", "copied", "inspect",
           "return"}

\* Counters are typed as integers here; FallbackExact and RefcountExact show
\* that they never go below zero.
CellTypes ==
  /\ current \in [Cell -> Addr \cup {NULL}]
  /\ retired \in [Cell -> SUBSET Addr]
  /\ retired_len \in [Cell -> Nat]
  /\ fallback_readers \in [Cell -> Int]
  /\ writer \in [Cell -> Thread \cup {NULL}]

HeapTypes ==
  /\ strong \in [Addr -> Int]
  /\ slot \in [Thread -> [Slot -> Addr \cup {NULL}]]
  /\ owned \in [Thread -> Addr \cup {NULL}]

StackTypes ==
  /\ tls \in [Thread -> BOOLEAN]
  /\ FALLBACK_DEPTH \in [Thread -> Int]
  /\ depth \in [Thread -> 0..MaxDepth]
  /\ frame \in [Thread -> [Level -> Frame \cup {NoFrame}]]
  /\ \A t \in Thread : \A d \in 1..depth[t] : frame[t][d] \in Frame

OpTypes ==
  /\ pc \in [Thread -> Labels]
  /\ cell \in [Thread -> Cell \cup {NULL}]
  /\ ptr \in [Thread -> Addr \cup {NULL}]
  /\ pin \in [Thread -> 0..SLOTS]
  /\ owning \in [Thread -> BOOLEAN]

ScanTypes ==
  /\ todo \in [Thread -> SUBSET (Thread \X Slot)]
  /\ seen \in [Thread -> SUBSET Addr]
  /\ freed \in [Thread -> SUBSET Addr]

WaitTypes ==
  /\ on_fallback \in [Thread -> BOOLEAN]
  /\ probe \in [Thread -> SUBSET (Addr \X (Thread \X Slot))]
  /\ owed \in [Thread -> SUBSET (Thread \X Level)]

\* Every variable keeps its type, and the frames up to a thread's depth are
\* dispatches.
TypeOK ==
  CellTypes /\ HeapTypes /\ StackTypes /\ OpTypes /\ ScanTypes /\ WaitTypes

\* No use after free.  Whatever a thread may dereference is allocated: the
\* value a dispatch borrows (read, read_fallback), the value load_arc_if
\* shows to `keep` and clones, the value update shows to its closure.
NoUseAfterFree ==
  \A t \in Thread :
    /\ \A d \in 1..depth[t] : strong[frame[t][d].addr] > 0
    /\ pc[t] \in {"keep", "build"} => strong[ptr[t]] > 0

\* The dispatches on the locked fallback path.
FallbackFrames ==
  {e \in Thread \X Level : /\ e[2] <= depth[e[1]]
                           /\ frame[e[1]][e[2]].slot = 0}

\* The references that exist to the value at address a: a cell's own, its
\* retired list's, those among collected values, owned handles, and the
\* dispatches on the fallback path.
CurrentOf(a) == {c \in Cell : current[c] = a}
RetiredOf(a) == {c \in Cell : a \in retired[c]}
FreedOf(a) == {t \in Thread : a \in freed[t]}
OwnedOf(a) == {t \in Thread : owned[t] = a}
FramesOf(a) == {e \in FallbackFrames : frame[e[1]][e[2]].addr = a}

References(a) ==
  Cardinality(CurrentOf(a)) + Cardinality(RetiredOf(a))
  + Cardinality(FreedOf(a)) + Cardinality(OwnedOf(a)) + Cardinality(FramesOf(a))

\* The unsafe into_raw / from_raw / increment_strong_count calls balance:
\* the strong count is the number of references, so nothing is freed twice
\* and nothing that nobody refers to stays allocated.
RefcountExact == \A a \in Addr : strong[a] = References(a)

\* Threads that are counted as fallback readers but hold no value yet, or
\* no value any more.
InFallback(t) == pc[t] = "leave" \/ (pc[t] = "clone" /\ ~owning[t])

\* A cell's fallback_readers counts exactly the threads' fallback reads of
\* that cell, nested ones included, and FALLBACK_DEPTH a thread's over all
\* cells: a waiter neither misses a fallback reader nor waits for none.
FallbackExact ==
  /\ \A c \in Cell :
       fallback_readers[c] =
         Cardinality({e \in FallbackFrames : frame[e[1]][e[2]].cell = c})
         + Cardinality({t \in Thread : InFallback(t) /\ cell[t] = c})
  /\ \A t \in Thread :
       FALLBACK_DEPTH[t] =
         Cardinality({d \in Level : d <= depth[t] /\ frame[t][d].slot = 0})
         + (IF InFallback(t) THEN 1 ELSE 0)

\* The places where a thread holds the writer lock of its cell.
Locked == {"build", "scan", "publish", "unlock", "cloned", "copied"}

\* User code (handlers, Drop of captured state) never runs on a thread that
\* holds a writer lock, so it may call back into any cell.
NoUserCodeUnderLock ==
  \A c \in Cell : writer[c] # NULL =>
    cell[writer[c]] = c /\ pc[writer[c]] \in Locked

\* With the lock free the relaxed counter tells whether something is
\* retired, so a value its last reader could not free is found by the next
\* reader.
RetiredLenTells ==
  \A c \in Cell :
    writer[c] = NULL => retired_len[c] = Cardinality(retired[c])

\* When wait_for_retired_readers returns, no other thread is still in a
\* dispatch over a value that was replaced before the call, except that a
\* caller who is itself on the fallback path does not wait for fallback
\* dispatches.
WaitOutlasts ==
  \A t \in Thread : pc[t] = "return" =>
    \A e \in owed[t] : on_fallback[t] /\ frame[e[1]][e[2]].slot = 0

\* Thread t waits on cell c.
Waits(t, c) ==
  pc[t] \in {"wait", "copy", "copied", "inspect"} /\ cell[t] = c

\* Thread u is in a fallback read of c.
ReadsLocked(u, c) ==
  \/ InFallback(u) /\ cell[u] = c
  \/ \E d \in 1..depth[u] : frame[u][d].cell = c /\ frame[u][d].slot = 0

\* A wait comes to an end, but for two streams that it may meet again and
\* again when it polls: fallback reads of other threads, on a caller who is
\* not on that path itself; or further updates, with a dispatch of another
\* thread over a value they replace.  In particular a waiter never waits for
\* a dispatch of its own, on either path.
WaitEnds ==
  \A t \in Waiter, c \in Cell :
    <>[]Waits(t, c)
      => \/ []<>(~on_fallback[t] /\ \E u \in Thread \ {t} : ReadsLocked(u, c))
         \/ /\ []<>(\E u \in Thread \ {t} : pc[u] = "build" /\ cell[u] = c)
            /\ []<>(\E u \in Thread \ {t}, i \in Slot : slot[u][i] \in retired[c])

\* A reader of c gives up because the lock is held by a thread that will not
\* collect: a fallback reader that clones, a waiter that copies, an update.
GivesUp(c) ==
  \E t \in Thread :
    /\ cell[t] = c /\ TryReclaim(t)
    /\ writer[c] # NULL /\ pc[writer[c]] \in {"cloned", "copied", "build"}

\* Readers alone empty the retired list.  A value that some reader could not
\* free, because a scan had seen its announcement or another one was under
\* way, does not stay if dispatches over the cell keep ending: unless their
\* try_lock fails again and again on a lock holder that does not collect, or
\* a handler never returns because it waits for ever (see WaitEnds).
RetiredFreed ==
  \A c \in Cell, a \in Addr :
    /\ <>[](a \in retired[c])
    /\ []<>(\E t \in Thread : pc[t] = "check" /\ cell[t] = c)
    => \/ []<><<GivesUp(c)>>_vars
       \/ <>[](\E t \in Waiter, w \in Cell : Waits(t, w))

\* sync/mod.rs:331-335: after the wait the handler "is not running anywhere
\* except, possibly, further up the calling thread's own stack".
WaitComplete == \A t \in Thread : pc[t] = "return" => owed[t] = {}

-----------------------------------------------------------------------------
(* The inductive invariant *)

\* What the locals of the operation in progress hold at each label.
OpOf(t) ==
  /\ pc[t] # "user" => cell[t] \in Cell /\ current[cell[t]] # NULL
  /\ pc[t] \in {"pin", "validate", "protect", "keep", "build"} => ptr[t] # NULL
  /\ pc[t] \in {"validate", "protect", "keep", "unpin"}
       => pin[t] # 0 /\ slot[t][pin[t]] # NULL
  /\ pc[t] \notin {"validate", "protect", "keep", "unpin"} => pin[t] = 0
  /\ pc[t] \in {"validate", "keep"} => slot[t][pin[t]] = ptr[t]
  /\ pc[t] \in {"pin", "validate", "protect", "count", "clone"}
       => IF owning[t] THEN owned[t] = NULL ELSE depth[t] < MaxDepth
  /\ pc[t] = "keep" => owned[t] = NULL
  /\ pc[t] = "count" => ~owning[t]
  /\ pc[t] \notin {"publish", "unlock", "drop"} => freed[t] = {}

OpInv == \A t \in Thread : OpOf(t)

\* The writer lock, and the value it keeps current.
LockInv ==
  /\ NoUserCodeUnderLock
  /\ \A t \in Thread :
       /\ pc[t] \in Locked => writer[cell[t]] = t
       /\ pc[t] = "build" => ptr[t] = current[cell[t]]

\* Every allocation the crate owns has one place: a cell's pointer, a
\* retired list, or one thread's list of collected values.
PlaceInv ==
  /\ \A c1, c2 \in Cell :
       /\ current[c1] # NULL =>
            /\ current[c1] = current[c2] => c1 = c2
            /\ current[c1] \notin retired[c2]
       /\ c1 # c2 => retired[c1] \cap retired[c2] = {}
  /\ \A c \in Cell, t \in Thread :
       current[c] \notin freed[t] /\ retired[c] \cap freed[t] = {}
  /\ \A t, u \in Thread : t # u => freed[t] \cap freed[u] = {}

\* A validated announcement of a in slot i of thread t keeps a in its cell
\* or on the retired list, and a scan in progress has it ahead or has seen
\* it.
Guarded(t, i, a, c) ==
  /\ slot[t][i] = a
  /\ a = current[c] \/ a \in retired[c]
  /\ \A w \in Thread :
       pc[w] = "scan" /\ cell[w] = c /\ a \in retired[c]
         => <<t, i>> \in todo[w] \/ a \in seen[w]

\* Dispatch d of thread t: its cell exists; with an announcement, the value
\* is guarded and the slot belongs to this dispatch alone.
FrameInv(t, d) ==
  LET f == frame[t][d] IN
  /\ current[f.cell] # NULL
  /\ f.slot # 0 =>
       /\ Guarded(t, f.slot, f.addr, f.cell)
       /\ f.slot # pin[t]
       /\ \A e \in 1..depth[t] : frame[t][e].slot = f.slot => e = d

HazardInv ==
  \A t \in Thread :
    /\ \A d \in 1..depth[t] : FrameInv(t, d)
    /\ pc[t] = "keep" => Guarded(t, pin[t], ptr[t], cell[t])

SafeInv == TypeOK /\ OpInv /\ LockInv /\ PlaceInv /\ HazardInv /\ RefcountExact

\* What a waiter still has to outlast: dispatches of other threads over
\* values that are no longer current; the announced ones stay in the part
\* of the inspection that is ahead.
WaitInv ==
  \A t \in Thread : pc[t] \in {"wait", "copy", "copied", "inspect", "return"} =>
    \A e \in owed[t] :
      LET f == frame[e[1]][e[2]] IN
      /\ e[1] # t
      /\ e[2] <= depth[e[1]]
      /\ f.cell = cell[t]
      /\ f.addr # current[cell[t]]
      /\ f.slot # 0 /\ pc[t] \in {"copied", "inspect"}
           => <<f.addr, <<e[1], f.slot>>>> \in probe[t]
      /\ f.slot # 0 => pc[t] # "return"
      /\ f.slot = 0 /\ pc[t] # "wait" => on_fallback[t]
=============================================================================
