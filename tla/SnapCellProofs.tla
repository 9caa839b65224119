--------------------------- MODULE SnapCellProofs ---------------------------
(***************************************************************************)
(* The safety of SnapCell for any number of threads, cells, addresses,     *)
(* slots and levels: SafeInv is an invariant.  First the types, the locals *)
(* of every operation and the writer lock, then where a value is and the   *)
(* announcements that guard it, then the counts.                           *)
(***************************************************************************)
EXTENDS SnapCell, FiniteSetTheorems, TLAPS

-----------------------------------------------------------------------------
(* Levels, slots, stacks and types *)

\* The slots of an arena are numbered from 1; 0 marks the locked path.
LEMMA SlotOf ==
  ASSUME NEW s \in 0..SLOTS, s # 0
  PROVE  s \in Slot
  BY ConstantsAssumption DEF Slot

\* No slot is number 0 ...
LEMMA SlotPositive ==
  ASSUME NEW s \in Slot
  PROVE  s # 0
  BY ConstantsAssumption DEF Slot

\* ... which is a value of a frame's slot field all the same.
LEMMA ZeroSlot == 0 \in 0..SLOTS
  BY ConstantsAssumption

\* A level below the top of a stack.
LEMMA LevelOf ==
  ASSUME NEW n \in 0..MaxDepth, NEW d \in 1..n
  PROVE  d \in Level /\ d # n + 1
  BY ConstantsAssumption DEF Level

\* The level a dispatch takes, ...
LEMMA LevelNext ==
  ASSUME NEW n \in 0..MaxDepth, n < MaxDepth
  PROVE  n + 1 \in Level
  BY ConstantsAssumption DEF Level

\* ... the levels in use once it has, ...
LEMMA LevelAfterPush ==
  ASSUME NEW n \in 0..MaxDepth, NEW e \in 1..(n + 1)
  PROVE  e \in 1..n \/ e = n + 1
  OBVIOUS

\* ... the level the top dispatch gives back, ...
LEMMA LevelTop ==
  ASSUME NEW n \in 0..MaxDepth, n > 0
  PROVE  n \in 1..n /\ n \in Level
  BY ConstantsAssumption DEF Level

\* ... and the levels in use once it has.
LEMMA LevelAfterPop ==
  ASSUME NEW n \in 0..MaxDepth, NEW e \in 1..(n - 1)
  PROVE  e \in 1..n /\ e # n
  OBVIOUS

\* The frame of a dispatch.
LEMMA FrameOf ==
  ASSUME NEW c \in Cell, NEW a \in Addr, NEW s \in 0..SLOTS
  PROVE  [cell |-> c, addr |-> a, slot |-> s] \in Frame
  BY DEF Frame

\* A frame up to a thread's depth is a dispatch: over a cell, at an address.
LEMMA TopFrame ==
  ASSUME TypeOK, NEW t \in Thread, NEW d \in 1..depth[t]
  PROVE  /\ d \in Level
         /\ frame[t][d].cell \in Cell
         /\ frame[t][d].addr \in Addr
         /\ frame[t][d].slot \in 0..SLOTS
  BY ConstantsAssumption DEF TypeOK, StackTypes, Level, Frame

\* A thread at depth 0 has no level.
LEMMA NoLevelBelow ==
  ASSUME NEW d \in Level, d <= 0
  PROVE  FALSE
  BY ConstantsAssumption DEF Level

\* The invariant holds when every cell has just been created.
LEMMA InitSafe == Init => SafeInv
<1> SUFFICES ASSUME Init PROVE SafeInv
  BY Zenon
<1> USE ConstantsAssumption DEF Init
<1>1. TypeOK
  <2>1. CellTypes
    BY DEF CellTypes
  <2>2. HeapTypes
    BY DEF HeapTypes
  <2>3. StackTypes
    BY DEF StackTypes, Frame, NoFrame, Level
  <2>4. OpTypes /\ ScanTypes /\ WaitTypes
    BY DEF OpTypes, ScanTypes, WaitTypes, Labels
  <2> QED
    BY <2>1, <2>2, <2>3, <2>4, Zenon DEF TypeOK
<1>2. OpInv
  BY Zenon DEF OpInv, OpOf
<1>3. LockInv
  BY Zenon DEF LockInv, Locked, NoUserCodeUnderLock
<1>4. PlaceInv
  BY Zenon DEF PlaceInv
<1>5. HazardInv
  BY DEF HazardInv
<1>6. ASSUME NEW a \in Addr PROVE strong[a] = References(a)
  <2>1. RetiredOf(a) = {} /\ FreedOf(a) = {} /\ OwnedOf(a) = {} /\ FramesOf(a) = {}
    <3>1. RetiredOf(a) = {} /\ FreedOf(a) = {}
      BY Zenon DEF RetiredOf, FreedOf
    <3>2. OwnedOf(a) = {}
      BY ZenonT(40) DEF OwnedOf
    <3>3. ASSUME NEW e \in Thread \X Level, e[2] <= depth[e[1]] PROVE FALSE
      <4>1. e[1] \in Thread /\ e[2] \in Level
        BY <3>3, Zenon
      <4>2. depth[e[1]] = 0
        BY <4>1, Zenon
      <4> QED
        BY <3>3, <4>1, <4>2, NoLevelBelow, Zenon
    <3> QED
      BY <3>1, <3>2, <3>3, Zenon DEF FramesOf, FallbackFrames
  <2>2. Cardinality({}) = 0
    BY FS_EmptySet, Zenon
  <2>3. strong[a] = Cardinality(CurrentOf(a))
    <3>1. CASE \E c \in Cell : current[c] = a
      <4>1. PICK c \in Cell : current[c] = a
        BY <3>1, Zenon
      <4>2. CurrentOf(a) = {c}
        BY <4>1, Zenon DEF CurrentOf
      <4>3. Cardinality({c}) = 1
        BY FS_Singleton, Zenon
      <4> QED
        BY <3>1, <4>2, <4>3, Zenon
    <3>2. CASE ~ \E c \in Cell : current[c] = a
      <4>1. CurrentOf(a) = {}
        BY <3>2, Zenon DEF CurrentOf
      <4> QED
        BY <2>2, <3>2, <4>1, Zenon
    <3> QED
      BY <3>1, <3>2, Zenon
  <2>4. strong[a] \in {0, 1}
    BY Zenon
  <2> HIDE DEF Init
  <2> QED
    BY <2>1, <2>2, <2>3, <2>4 DEF References
<1> QED
  BY <1>1, <1>2, <1>3, <1>4, <1>5, <1>6, Zenon DEF SafeInv, RefcountExact

\* Dropping references keeps the counts integers.
LEMMA DropRefsType ==
  ASSUME NEW A, strong \in [Addr -> Int], DropRefs(A)
  PROVE  strong' \in [Addr -> Int]
  BY DEF DropRefs

\* A dispatch that begins (read, read_fallback) takes the next level, ...
LEMMA PushTop ==
  ASSUME StackTypes, NEW t \in Thread, NEW f, Push(t, f), depth[t] + 1 \in Level
  PROVE  depth'[t] = depth[t] + 1 /\ frame'[t][depth[t] + 1] = f
  BY Zenon DEF StackTypes, Push

\* ... leaves the dispatches below it as they are, ...
LEMMA PushKeeps ==
  ASSUME StackTypes, NEW t \in Thread, NEW f, Push(t, f), depth[t] + 1 \in Level,
         NEW u \in Thread, NEW d \in 1..depth[u]
  PROVE  frame'[u][d] = frame[u][d]
<1>1. depth[u] \in 0..MaxDepth
  BY Zenon DEF StackTypes
<1>2. d \in Level /\ d # depth[u] + 1
  BY <1>1, LevelOf, Zenon
<1> QED
  BY <1>2, Zenon DEF StackTypes, Push

\* ... and is the only new one.
LEMMA PushLevels ==
  ASSUME StackTypes, NEW t \in Thread, NEW f, Push(t, f),
         NEW u \in Thread, NEW d \in 1..depth'[u]
  PROVE  d \in 1..depth[u] \/ (u = t /\ d = depth[t] + 1)
<1>1. CASE u # t
  BY <1>1, Zenon DEF StackTypes, Push
<1>2. CASE u = t
  <2>1. depth[t] \in 0..MaxDepth /\ d \in 1..(depth[t] + 1)
    BY <1>2, Zenon DEF StackTypes, Push
  <2> QED
    BY <1>2, <2>1, LevelAfterPush, Zenon
<1> QED
  BY <1>1, <1>2, Zenon

\* A dispatch that ends is the top one of its thread; the others stay.
LEMMA PopKeeps ==
  ASSUME StackTypes, NEW t \in Thread, depth[t] > 0, Pop(t),
         NEW u \in Thread, NEW d \in 1..depth'[u]
  PROVE  /\ d \in 1..depth[u] /\ frame'[u][d] = frame[u][d]
         /\ u = t => d # depth[t]
<1>1. depth[t] \in Level /\ depth[u] \in 0..MaxDepth
  BY LevelTop, Zenon DEF StackTypes
<1>2. d \in 1..depth[u] /\ (u = t => d # depth[t])
  <2>1. CASE u # t
    BY <2>1, Zenon DEF StackTypes, Pop
  <2>2. CASE u = t
    <3>1. d \in 1..(depth[u] - 1)
      BY <2>2, Zenon DEF StackTypes, Pop
    <3> QED
      BY <1>1, <2>2, <3>1, LevelAfterPop, Zenon
  <2> QED
    BY <2>1, <2>2, Zenon
<1>3. d \in Level
  BY <1>1, <1>2, LevelOf, Zenon
<1> QED
  BY <1>1, <1>2, <1>3, Zenon DEF StackTypes, Pop

\* A dispatch that begins keeps the stacks well formed.
LEMMA PushTypes ==
  ASSUME StackTypes, NEW t \in Thread, NEW f \in Frame, depth[t] < MaxDepth,
         Push(t, f), UNCHANGED <<tls, FALLBACK_DEPTH>>
  PROVE  StackTypes'
<1>1. depth[t] + 1 \in Level /\ depth[t] \in 0..MaxDepth
  BY LevelNext, Zenon DEF StackTypes
<1>2. depth' \in [Thread -> 0..MaxDepth]
  BY <1>1 DEF StackTypes, Push, Level
<1>3. frame' \in [Thread -> [Level -> Frame \cup {NoFrame}]]
  BY <1>1, Zenon DEF StackTypes, Push
<1>4. ASSUME NEW u \in Thread, NEW d \in 1..depth'[u] PROVE frame'[u][d] \in Frame
  <2>1. CASE u = t /\ d = depth[t] + 1
    BY <1>1, <2>1, PushTop, Zenon
  <2>2. CASE d \in 1..depth[u]
    BY <1>1, <2>2, PushKeeps, Zenon DEF StackTypes
  <2> QED
    BY <2>1, <2>2, PushLevels, Zenon
<1> QED
  BY <1>2, <1>3, <1>4, Zenon DEF StackTypes

\* ... and so does one that ends.
LEMMA PopTypes ==
  ASSUME StackTypes, NEW t \in Thread, depth[t] > 0, Pop(t),
         UNCHANGED <<tls, FALLBACK_DEPTH>>
  PROVE  StackTypes'
<1>1. depth[t] \in Level /\ depth[t] - 1 \in 0..MaxDepth
  BY ConstantsAssumption DEF StackTypes, Level
<1>2. depth' \in [Thread -> 0..MaxDepth]
  BY <1>1, Zenon DEF StackTypes, Pop
<1>3. frame' \in [Thread -> [Level -> Frame \cup {NoFrame}]]
  BY <1>1, Zenon DEF StackTypes, Pop
<1>4. ASSUME NEW u \in Thread, NEW d \in 1..depth'[u] PROVE frame'[u][d] \in Frame
  BY PopKeeps, Zenon DEF StackTypes
<1> QED
  BY <1>2, <1>3, <1>4, Zenon DEF StackTypes

\* What an operation that has announced its candidate knows of it.
LEMMA PinnedOp ==
  ASSUME TypeOK, OpInv, NEW t \in Thread,
         pc[t] \in {"validate", "protect", "keep"}
  PROVE  /\ pin[t] \in 0..SLOTS /\ pin[t] \in Slot /\ pin[t] # 0
         /\ ptr[t] \in Addr /\ cell[t] \in Cell
<1>1. OpOf(t) /\ OpTypes
  BY Zenon DEF TypeOK, OpInv
<1>2. pin[t] # 0 /\ ptr[t] # NULL /\ cell[t] \in Cell
  BY <1>1, Zenon DEF OpOf
<1>3. pin[t] \in 0..SLOTS /\ ptr[t] \in Addr
  BY <1>1, <1>2, Zenon DEF OpTypes
<1> QED
  BY <1>2, <1>3, SlotOf, Zenon

\* The cell of an operation in flight exists.
LEMMA CellOfOp ==
  ASSUME TypeOK, OpInv, NEW t \in Thread, pc[t] # "user"
  PROVE  cell[t] \in Cell /\ current[cell[t]] # NULL /\ current[cell[t]] \in Addr
<1>1. cell[t] \in Cell /\ current[cell[t]] # NULL
  BY Zenon DEF OpInv, OpOf
<1> QED
  BY <1>1, Zenon DEF TypeOK, CellTypes

\* A read that is about to begin its dispatch has a level left for it.
LEMMA RoomForDispatch ==
  ASSUME TypeOK, OpInv, NEW t \in Thread, ~owning[t],
         pc[t] \in {"validate", "clone"}
  PROVE  depth[t] < MaxDepth /\ depth[t] + 1 \in Level
<1>1. depth[t] \in 0..MaxDepth
  BY Zenon DEF TypeOK, StackTypes
<1>2. depth[t] < MaxDepth
  BY Zenon DEF OpInv, OpOf
<1> QED
  BY <1>1, <1>2, LevelNext, Zenon

\* Every step keeps every variable in its type.
LEMMA TypeStep ==
  ASSUME SafeInv, [Next]_vars
  PROVE  TypeOK'
<1> USE ConstantsAssumption
    DEF SafeInv, TypeOK, Step, cellVars, heapVars, stackVars, opVars, scanVars,
        waitVars
<1>1. ASSUME NEW t \in Thread, Pin(t) PROVE TypeOK'
  <2>1. HeapTypes'
    BY <1>1 DEF Pin, FreeSlots, HeapTypes, Slot, OpTypes, OpInv, OpOf
  <2>2. OpTypes'
    BY <1>1 DEF Pin, FreeSlots, OpTypes, Labels, HeapTypes, Slot
  <2>3. CellTypes' /\ StackTypes' /\ ScanTypes' /\ WaitTypes'
    BY <1>1 DEF Pin, FreeSlots, CellTypes, StackTypes, ScanTypes, WaitTypes
  <2> QED
    BY <2>1, <2>2, <2>3, Zenon
<1>2. ASSUME NEW t \in Thread, PinNone(t) PROVE TypeOK'
  <2>1. OpTypes'
    BY <1>2, Zenon DEF PinNone, OpTypes, Labels
  <2>2. CellTypes' /\ HeapTypes' /\ StackTypes' /\ ScanTypes' /\ WaitTypes'
    BY <1>2, Zenon
    DEF PinNone, CellTypes, HeapTypes, StackTypes, ScanTypes, WaitTypes
  <2> QED
    BY <2>1, <2>2, Zenon
<1>3. ASSUME NEW t \in Thread, Validated(t) PROVE TypeOK'
  <2>1. OpTypes'
    BY <1>3 DEF Validated, Push, OpTypes, Labels
  <2>2. StackTypes'
    <3>1. CASE owning[t]
      BY <1>3, <3>1, Zenon DEF Validated, StackTypes
    <3>2. CASE ~owning[t]
      <4>1. [cell |-> cell[t], addr |-> ptr[t], slot |-> pin[t]] \in Frame
        BY <1>3 DEF Validated, OpTypes, OpInv, OpOf, Frame
      <4>2. depth[t] < MaxDepth
        BY <1>3, <3>2, Zenon DEF Validated, OpInv, OpOf
      <4> QED
        BY <1>3, <3>2, <4>1, <4>2, PushTypes, Zenon DEF Validated
    <3> QED
      BY <3>1, <3>2, Zenon
  <2>3. CellTypes' /\ HeapTypes' /\ ScanTypes' /\ WaitTypes'
    BY <1>3, Zenon DEF Validated, CellTypes, HeapTypes, ScanTypes, WaitTypes
  <2> QED
    BY <2>1, <2>2, <2>3, Zenon
<1>4. ASSUME NEW t \in Thread, Changed(t) PROVE TypeOK'
  <2>1. OpTypes'
    BY <1>4, Zenon DEF Changed, OpTypes, Labels, CellTypes, OpInv, OpOf
  <2>2. CellTypes' /\ HeapTypes' /\ StackTypes' /\ ScanTypes' /\ WaitTypes'
    BY <1>4, Zenon
    DEF Changed, CellTypes, HeapTypes, StackTypes, ScanTypes, WaitTypes
  <2> QED
    BY <2>1, <2>2, Zenon
<1>5. ASSUME NEW t \in Thread, Protect(t) PROVE TypeOK'
  <2>1. HeapTypes'
    BY <1>5, Zenon DEF Protect, HeapTypes, Slot, OpTypes, OpInv, OpOf
  <2>2. OpTypes'
    BY <1>5, Zenon DEF Protect, OpTypes, Labels
  <2>3. CellTypes' /\ StackTypes' /\ ScanTypes' /\ WaitTypes'
    BY <1>5, Zenon DEF Protect, CellTypes, StackTypes, ScanTypes, WaitTypes
  <2> QED
    BY <2>1, <2>2, <2>3, Zenon
<1>6. ASSUME NEW t \in Thread, Keep(t) PROVE TypeOK'
  <2>1. ptr[t] \in Addr
    BY <1>6 DEF Keep, OpTypes, OpInv, OpOf
  <2>2. HeapTypes'
    BY <1>6, <2>1 DEF Keep, HeapTypes
  <2>3. OpTypes'
    BY <1>6, Zenon DEF Keep, OpTypes, Labels
  <2>4. CellTypes' /\ StackTypes' /\ ScanTypes' /\ WaitTypes'
    BY <1>6, Zenon DEF Keep, CellTypes, StackTypes, ScanTypes, WaitTypes
  <2> QED
    BY <2>2, <2>3, <2>4, Zenon
<1>7. ASSUME NEW t \in Thread, Unpin(t) PROVE TypeOK'
  <2>1. HeapTypes'
    BY <1>7, Zenon DEF Unpin, HeapTypes, Slot, OpTypes, OpInv, OpOf
  <2>2. OpTypes'
    BY <1>7 DEF Unpin, OpTypes, Labels
  <2>3. CellTypes' /\ StackTypes' /\ ScanTypes' /\ WaitTypes'
    BY <1>7, Zenon DEF Unpin, CellTypes, StackTypes, ScanTypes, WaitTypes
  <2> QED
    BY <2>1, <2>2, <2>3, Zenon
<1>8. ASSUME NEW t \in Thread, Check(t) PROVE TypeOK'
  <2>1. OpTypes'
    BY <1>8, Zenon DEF Check, OpTypes, Labels
  <2>2. CellTypes' /\ HeapTypes' /\ StackTypes' /\ ScanTypes' /\ WaitTypes'
    BY <1>8, Zenon
    DEF Check, CellTypes, HeapTypes, StackTypes, ScanTypes, WaitTypes
  <2> QED
    BY <2>1, <2>2, Zenon
<1>9. ASSUME NEW t \in Thread, FallbackCount(t) PROVE TypeOK'
  <2>1. CellTypes'
    BY <1>9 DEF FallbackCount, CellTypes, OpTypes, OpInv, OpOf
  <2>2. StackTypes'
    BY <1>9 DEF FallbackCount, StackTypes, Level, Frame, NoFrame
  <2>3. OpTypes'
    BY <1>9, Zenon DEF FallbackCount, OpTypes, Labels
  <2>4. HeapTypes' /\ ScanTypes' /\ WaitTypes'
    BY <1>9, Zenon DEF FallbackCount, HeapTypes, ScanTypes, WaitTypes
  <2> QED
    BY <2>1, <2>2, <2>3, <2>4, Zenon
<1>10. ASSUME NEW t \in Thread, LoadLocked(t) PROVE TypeOK'
  <2>1. cell[t] \in Cell /\ current[cell[t]] \in Addr
    BY <1>10 DEF LoadLocked, CellTypes, OpInv, OpOf
  <2>2. HeapTypes'
    <3>1. strong' \in [Addr -> Int]
      <4>1. strong' = [strong EXCEPT ![current[cell[t]]] = @ + 1]
        BY <1>10, Zenon DEF LoadLocked
      <4> QED
        BY <2>1, <4>1 DEF HeapTypes
    <3> QED
      BY <1>10, <2>1, <3>1, Zenon DEF LoadLocked, HeapTypes
  <2>3. StackTypes'
    <3>1. CASE owning[t]
      BY <1>10, <3>1, Zenon DEF LoadLocked, StackTypes
    <3>2. CASE ~owning[t]
      <4>1. [cell |-> cell[t], addr |-> current[cell[t]], slot |-> 0] \in Frame
        BY <2>1 DEF Frame
      <4>2. depth[t] < MaxDepth
        BY <1>10, <3>2, Zenon DEF LoadLocked, OpInv, OpOf
      <4> QED
        BY <1>10, <3>2, <4>1, <4>2, PushTypes, Zenon DEF LoadLocked
    <3> QED
      BY <3>1, <3>2, Zenon
  <2>4. OpTypes'
    BY <1>10, Zenon DEF LoadLocked, OpTypes, Labels
  <2>5. CellTypes'
    BY <1>10, <2>1, Zenon DEF LoadLocked, CellTypes
  <2>6. ScanTypes' /\ WaitTypes'
    BY <1>10, Zenon DEF LoadLocked, ScanTypes, WaitTypes
  <2> QED
    BY <2>2, <2>3, <2>4, <2>5, <2>6, Zenon
<1>10a. ASSUME NEW t \in Thread, LoadUnlock(t) PROVE TypeOK'
  <2>1. CellTypes'
    BY <1>10a, Zenon DEF LoadUnlock, CellTypes, OpTypes, OpInv, OpOf
  <2>2. OpTypes'
    BY <1>10a, Zenon DEF LoadUnlock, OpTypes, Labels
  <2>3. HeapTypes' /\ StackTypes' /\ ScanTypes' /\ WaitTypes'
    BY <1>10a, Zenon DEF LoadUnlock, HeapTypes, StackTypes, ScanTypes, WaitTypes
  <2> QED
    BY <2>1, <2>2, <2>3, Zenon
<1>11. ASSUME NEW t \in Thread, FallbackLeave(t) PROVE TypeOK'
  <2>1. CellTypes'
    BY <1>11 DEF FallbackLeave, CellTypes, OpTypes, OpInv, OpOf
  <2>2. StackTypes'
    BY <1>11 DEF FallbackLeave, StackTypes, Level, Frame, NoFrame
  <2>3. OpTypes'
    BY <1>11, Zenon DEF FallbackLeave, OpTypes, Labels
  <2>4. HeapTypes' /\ ScanTypes' /\ WaitTypes'
    BY <1>11, Zenon DEF FallbackLeave, HeapTypes, ScanTypes, WaitTypes
  <2> QED
    BY <2>1, <2>2, <2>3, <2>4, Zenon
<1>12. ASSUME NEW t \in Thread, UpdateNone(t) PROVE TypeOK'
  <2>1. CellTypes'
    BY <1>12, Zenon DEF UpdateNone, CellTypes, OpTypes, OpInv, OpOf
  <2>2. OpTypes'
    BY <1>12, Zenon DEF UpdateNone, OpTypes, Labels
  <2>3. HeapTypes' /\ StackTypes' /\ ScanTypes' /\ WaitTypes'
    BY <1>12, Zenon DEF UpdateNone, HeapTypes, StackTypes, ScanTypes, WaitTypes
  <2> QED
    BY <2>1, <2>2, <2>3, Zenon
<1>13. ASSUME NEW t \in Thread, UpdateStore(t) PROVE TypeOK'
  <2>1. CellTypes'
    BY <1>13 DEF UpdateStore, ScanFrom, CellTypes, OpTypes, OpInv, OpOf
  <2>2. HeapTypes'
    BY <1>13 DEF UpdateStore, ScanFrom, HeapTypes, Slot
  <2>3. OpTypes'
    BY <1>13 DEF UpdateStore, ScanFrom, OpTypes, Labels
  <2>4. ScanTypes'
    BY <1>13 DEF UpdateStore, ScanFrom, ScanTypes, Slot, OpTypes
  <2>5. StackTypes' /\ WaitTypes'
    BY <1>13, ZenonT(40) DEF UpdateStore, ScanFrom, StackTypes, WaitTypes
  <2> QED
    BY <2>1, <2>2, <2>3, <2>4, <2>5, Zenon
<1>14. ASSUME NEW t \in Thread, TryReclaim(t) PROVE TypeOK'
  <2>1. CellTypes'
    BY <1>14, SMTT(30) DEF TryReclaim, ScanFrom, CellTypes, OpTypes, OpInv, OpOf
  <2>2. OpTypes'
    BY <1>14 DEF TryReclaim, ScanFrom, OpTypes, Labels
  <2>3. ScanTypes'
    BY <1>14 DEF TryReclaim, ScanFrom, ScanTypes, Slot
  <2>4. HeapTypes' /\ StackTypes' /\ WaitTypes'
    BY <1>14, Zenon DEF TryReclaim, ScanFrom, HeapTypes, StackTypes, WaitTypes
  <2> QED
    BY <2>1, <2>2, <2>3, <2>4, Zenon
<1>15. ASSUME NEW t \in Thread, Scan(t) PROVE TypeOK'
  <2>1. OpTypes'
    BY <1>15 DEF Scan, OpTypes, Labels
  <2>2. ScanTypes'
    BY <1>15, SMTT(30) DEF Scan, ScanTypes, Slot, HeapTypes
  <2>3. CellTypes' /\ HeapTypes' /\ StackTypes' /\ WaitTypes'
    BY <1>15 DEF Scan, CellTypes, HeapTypes, StackTypes, WaitTypes
  <2> QED
    BY <2>1, <2>2, <2>3, Zenon
<1>16. ASSUME NEW t \in Thread, Collect(t) PROVE TypeOK'
  <2>1. CellTypes'
    BY <1>16, Zenon DEF Collect, CellTypes, OpTypes, OpInv, OpOf
  <2>2. OpTypes'
    BY <1>16, Zenon DEF Collect, OpTypes, Labels
  <2>3. ScanTypes'
    BY <1>16, Zenon
    DEF Collect, ScanTypes, Slot, CellTypes, OpTypes, OpInv, OpOf
  <2>4. HeapTypes' /\ StackTypes' /\ WaitTypes'
    BY <1>16, Zenon DEF Collect, HeapTypes, StackTypes, WaitTypes
  <2> QED
    BY <2>1, <2>2, <2>3, <2>4, Zenon
<1>17. ASSUME NEW t \in Thread, PublishLen(t) PROVE TypeOK'
  <2>1. cell[t] \in Cell
    BY <1>17, Zenon DEF PublishLen, OpInv, OpOf
  <2>2. Cardinality(retired[cell[t]]) \in Nat
    BY <2>1, FS_Subset, FS_CardinalityType, Zenon DEF CellTypes
  <2>3. CellTypes'
    BY <1>17, <2>1, <2>2, Zenon DEF PublishLen, CellTypes
  <2>4. OpTypes'
    BY <1>17, Zenon DEF PublishLen, OpTypes, Labels
  <2>5. HeapTypes' /\ StackTypes' /\ ScanTypes' /\ WaitTypes'
    BY <1>17, Zenon DEF PublishLen, HeapTypes, StackTypes, ScanTypes, WaitTypes
  <2> QED
    BY <2>3, <2>4, <2>5, Zenon
<1>18. ASSUME NEW t \in Thread, Unlock(t) PROVE TypeOK'
  <2>1. CellTypes'
    BY <1>18, Zenon DEF Unlock, CellTypes, OpTypes, OpInv, OpOf
  <2>2. OpTypes'
    BY <1>18, Zenon DEF Unlock, OpTypes, Labels
  <2>3. HeapTypes' /\ StackTypes' /\ ScanTypes' /\ WaitTypes'
    BY <1>18, Zenon DEF Unlock, HeapTypes, StackTypes, ScanTypes, WaitTypes
  <2> QED
    BY <2>1, <2>2, <2>3, Zenon
<1>19. ASSUME NEW t \in Thread, DropFreed(t) PROVE TypeOK'
  <2>1. HeapTypes'
    BY <1>19, DropRefsType, Zenon DEF DropFreed, HeapTypes
  <2>2. OpTypes'
    BY <1>19, Zenon DEF DropFreed, DropRefs, OpTypes, Labels
  <2>3. ScanTypes'
    BY <1>19, Zenon DEF DropFreed, DropRefs, ScanTypes, Slot
  <2>4. CellTypes' /\ StackTypes' /\ WaitTypes'
    BY <1>19, Zenon DEF DropFreed, DropRefs, CellTypes, StackTypes, WaitTypes
  <2> QED
    BY <2>1, <2>2, <2>3, <2>4, Zenon
<1>20. ASSUME NEW t \in Thread, WaitFallback(t) PROVE TypeOK'
  <2>1. OpTypes'
    BY <1>20, Zenon DEF WaitFallback, OpTypes, Labels
  <2>2. CellTypes' /\ HeapTypes' /\ StackTypes' /\ ScanTypes' /\ WaitTypes'
    BY <1>20, Zenon
    DEF WaitFallback, CellTypes, HeapTypes, StackTypes, ScanTypes, WaitTypes
  <2> QED
    BY <2>1, <2>2, Zenon
<1>21. ASSUME NEW t \in Thread, WaitCopy(t) PROVE TypeOK'
  <2>1. OpTypes'
    BY <1>21, Zenon DEF WaitCopy, OpTypes, Labels
  <2>2. WaitTypes'
    BY <1>21
    DEF WaitCopy, WaitTypes, Slot, Level, CellTypes, OpTypes, OpInv, OpOf
  <2>3. CellTypes'
    BY <1>21, Zenon DEF WaitCopy, CellTypes, OpTypes, OpInv, OpOf
  <2>4. HeapTypes' /\ StackTypes' /\ ScanTypes'
    BY <1>21, ZenonT(40) DEF WaitCopy, HeapTypes, StackTypes, ScanTypes
  <2> QED
    BY <2>1, <2>2, <2>3, <2>4, Zenon
<1>21a. ASSUME NEW t \in Thread, WaitUnlock(t) PROVE TypeOK'
  <2>1. CellTypes'
    BY <1>21a, Zenon DEF WaitUnlock, CellTypes, OpTypes, OpInv, OpOf
  <2>2. OpTypes'
    BY <1>21a, Zenon DEF WaitUnlock, OpTypes, Labels
  <2>3. HeapTypes' /\ StackTypes' /\ ScanTypes' /\ WaitTypes'
    BY <1>21a, Zenon DEF WaitUnlock, HeapTypes, StackTypes, ScanTypes, WaitTypes
  <2> QED
    BY <2>1, <2>2, <2>3, Zenon
<1>22. ASSUME NEW t \in Thread, WaitInspect(t) PROVE TypeOK'
  <2>1. OpTypes'
    BY <1>22 DEF WaitInspect, OpTypes, Labels
  <2>2. WaitTypes'
    BY <1>22, SMTT(30) DEF WaitInspect, WaitTypes, Slot, Level
  <2>3. CellTypes' /\ HeapTypes' /\ StackTypes' /\ ScanTypes'
    BY <1>22 DEF WaitInspect, CellTypes, HeapTypes, StackTypes, ScanTypes
  <2> QED
    BY <2>1, <2>2, <2>3, Zenon
<1>23. ASSUME NEW t \in Thread, WaitDone(t) PROVE TypeOK'
  <2>1. OpTypes'
    BY <1>23, Zenon DEF WaitDone, OpTypes, Labels
  <2>2. CellTypes' /\ HeapTypes' /\ StackTypes' /\ ScanTypes' /\ WaitTypes'
    BY <1>23, Zenon
    DEF WaitDone, CellTypes, HeapTypes, StackTypes, ScanTypes, WaitTypes
  <2> QED
    BY <2>1, <2>2, Zenon
<1>24. ASSUME NEW t \in Thread, WaitReturn(t) PROVE TypeOK'
  <2>1. OpTypes'
    BY <1>24, Zenon DEF WaitReturn, OpTypes, Labels
  <2>2. WaitTypes'
    BY <1>24, Zenon DEF WaitReturn, WaitTypes, Slot, Level
  <2>3. CellTypes' /\ HeapTypes' /\ StackTypes' /\ ScanTypes'
    BY <1>24, Zenon DEF WaitReturn, CellTypes, HeapTypes, StackTypes, ScanTypes
  <2> QED
    BY <2>1, <2>2, <2>3, Zenon
<1>25. ASSUME NEW t \in Thread, ReadEnd(t) PROVE TypeOK'
  <2>1. HeapTypes'
    BY <1>25, Zenon DEF ReadEnd, Pop, HeapTypes, Slot, StackTypes
  <2>2. StackTypes'
    BY <1>25, PopTypes, Zenon DEF ReadEnd
  <2>3. OpTypes'
    <3>1. depth[t] \in 1..depth[t]
      BY <1>25 DEF ReadEnd, StackTypes
    <3>2. frame[t][depth[t]].cell \in Cell
      BY <3>1, TopFrame, Zenon
    <3> QED
      BY <1>25, <3>2, Zenon DEF ReadEnd, OpTypes, Labels
  <2>4. WaitTypes'
    BY <1>25, Zenon DEF ReadEnd, Pop, WaitTypes, Slot, Level
  <2>5. CellTypes' /\ ScanTypes'
    BY <1>25, Zenon DEF ReadEnd, Pop, CellTypes, ScanTypes
  <2> QED
    BY <2>1, <2>2, <2>3, <2>4, <2>5, Zenon
<1>26. ASSUME NEW t \in Thread, FallbackEnd(t) PROVE TypeOK'
  <2>1. HeapTypes'
    BY <1>26 DEF FallbackEnd, Pop, DropRefs, HeapTypes, Slot
  <2>2. StackTypes'
    BY <1>26, PopTypes, Zenon DEF FallbackEnd
  <2>3. OpTypes'
    <3>1. depth[t] \in 1..depth[t]
      BY <1>26, SMTT(30) DEF FallbackEnd, StackTypes
    <3>2. frame[t][depth[t]].cell \in Cell
      BY <3>1, TopFrame, Zenon
    <3> QED
      BY <1>26, <3>2, Zenon DEF FallbackEnd, OpTypes, Labels
  <2>4. WaitTypes'
    BY <1>26, Zenon DEF FallbackEnd, Pop, DropRefs, WaitTypes, Slot, Level
  <2>5. CellTypes' /\ ScanTypes'
    BY <1>26, Zenon DEF FallbackEnd, Pop, DropRefs, CellTypes, ScanTypes
  <2> QED
    BY <2>1, <2>2, <2>3, <2>4, <2>5, Zenon
<1>27. ASSUME NEW t \in Thread, DropOwned(t) PROVE TypeOK'
  <2>1. HeapTypes'
    BY <1>27, DropRefsType, Zenon DEF DropOwned, HeapTypes
  <2>2. CellTypes' /\ StackTypes' /\ OpTypes' /\ ScanTypes' /\ WaitTypes'
    BY <1>27, Zenon
    DEF DropOwned, CellTypes, StackTypes, OpTypes, ScanTypes, WaitTypes
  <2> QED
    BY <2>1, <2>2, Zenon
<1>28. ASSUME NEW t \in Thread, Teardown(t) PROVE TypeOK'
  <2>1. HeapTypes'
    BY <1>28, Zenon DEF Teardown, HeapTypes, Slot
  <2>2. StackTypes'
    BY <1>28, Zenon DEF Teardown, StackTypes, Level, Frame, NoFrame
  <2>3. CellTypes' /\ OpTypes' /\ ScanTypes' /\ WaitTypes'
    BY <1>28, Zenon DEF Teardown, CellTypes, OpTypes, ScanTypes, WaitTypes
  <2> QED
    BY <2>1, <2>2, <2>3, Zenon
<1>29. ASSUME NEW t \in Thread, Respawn(t) PROVE TypeOK'
  <2>1. StackTypes'
    BY <1>29, Zenon DEF Respawn, StackTypes, Level, Frame, NoFrame
  <2>2. CellTypes' /\ HeapTypes' /\ OpTypes' /\ ScanTypes' /\ WaitTypes'
    BY <1>29, Zenon
    DEF Respawn, CellTypes, HeapTypes, OpTypes, ScanTypes, WaitTypes
  <2> QED
    BY <2>1, <2>2, Zenon
<1>30. ASSUME NEW t \in Thread, NEW c \in Cell, ReadBegin(t, c) PROVE TypeOK'
  <2>1. OpTypes'
    BY <1>30, Zenon
    DEF ReadBegin, ProtectBegin, Start, OpTypes, Labels, CellTypes
  <2>2. CellTypes' /\ HeapTypes' /\ StackTypes' /\ ScanTypes' /\ WaitTypes'
    BY <1>30, Zenon
    DEF ReadBegin, ProtectBegin, Start, CellTypes, HeapTypes, StackTypes,
        ScanTypes, WaitTypes
  <2> QED
    BY <2>1, <2>2, Zenon
<1>31. ASSUME NEW t \in Thread, NEW c \in Cell, LoadBegin(t, c) PROVE TypeOK'
  <2>1. OpTypes'
    BY <1>31, Zenon
    DEF LoadBegin, ProtectBegin, Start, OpTypes, Labels, CellTypes
  <2>2. CellTypes' /\ HeapTypes' /\ StackTypes' /\ ScanTypes' /\ WaitTypes'
    BY <1>31, Zenon
    DEF LoadBegin, ProtectBegin, Start, CellTypes, HeapTypes, StackTypes,
        ScanTypes, WaitTypes
  <2> QED
    BY <2>1, <2>2, Zenon
<1>32. ASSUME NEW t \in Thread, NEW c \in Cell, UpdateBegin(t, c) PROVE TypeOK'
  <2>1. CellTypes'
    BY <1>32, Zenon DEF UpdateBegin, Start, CellTypes
  <2>2. OpTypes'
    BY <1>32, Zenon DEF UpdateBegin, Start, OpTypes, Labels, CellTypes
  <2>3. HeapTypes' /\ StackTypes' /\ ScanTypes' /\ WaitTypes'
    BY <1>32, Zenon
    DEF UpdateBegin, Start, HeapTypes, StackTypes, ScanTypes, WaitTypes
  <2> QED
    BY <2>1, <2>2, <2>3, Zenon
<1>33. ASSUME NEW t \in Thread, NEW c \in Cell, WaitBegin(t, c) PROVE TypeOK'
  <2>1. OpTypes'
    BY <1>33, ZenonT(40) DEF WaitBegin, Start, StaleReaders, OpTypes, Labels
  <2>2. WaitTypes'
    BY <1>33
    DEF WaitBegin, Start, StaleReaders, WaitTypes, Slot, Level, StackTypes
  <2>3. CellTypes' /\ HeapTypes' /\ StackTypes' /\ ScanTypes'
    BY <1>33, Zenon
    DEF WaitBegin, Start, StaleReaders, CellTypes, HeapTypes, StackTypes,
        ScanTypes
  <2> QED
    BY <2>1, <2>2, <2>3, Zenon
<1>34. ASSUME NEW c \in Cell, DropCell(c) PROVE TypeOK'
  <2>1. HeapTypes'
    BY <1>34, DropRefsType, Zenon DEF DropCell, HeapTypes
  <2>2. CellTypes'
    BY <1>34, Zenon DEF DropCell, CellTypes
  <2>3. StackTypes' /\ OpTypes' /\ ScanTypes' /\ WaitTypes'
    BY <1>34, Zenon DEF DropCell, StackTypes, OpTypes, ScanTypes, WaitTypes
  <2> QED
    BY <2>1, <2>2, <2>3, Zenon
<1>35. ASSUME NEW c \in Cell, New(c) PROVE TypeOK'
  <2>1. CellTypes'
    BY <1>35 DEF New, CellTypes
  <2>2. HeapTypes'
    BY <1>35, SMTT(30) DEF New, HeapTypes, Slot
  <2>3. StackTypes' /\ OpTypes' /\ ScanTypes' /\ WaitTypes'
    BY <1>35 DEF New, StackTypes, OpTypes, ScanTypes, WaitTypes
  <2> QED
    BY <2>1, <2>2, <2>3, Zenon
<1>36. ASSUME UNCHANGED vars PROVE TypeOK'
  BY <1>36, Zenon
  DEF vars, CellTypes, HeapTypes, StackTypes, OpTypes, ScanTypes, WaitTypes
<1> QED
  BY <1>1, <1>2, <1>3, <1>4, <1>5, <1>6, <1>7, <1>8, <1>9, <1>10, <1>10a,
     <1>11, <1>12, <1>13, <1>14, <1>15, <1>16, <1>17, <1>18, <1>19, <1>20,
     <1>21, <1>21a, <1>22, <1>23, <1>24, <1>25, <1>26, <1>27, <1>28, <1>29, <1>30, <1>31,
     <1>32, <1>33, <1>34, <1>35, <1>36, Zenon
  DEF Next, Proceed, Finish, Begin

-----------------------------------------------------------------------------
(* The locals of an operation, and the writer lock *)

\* A step of thread t.
Acts(t) ==
  \/ Proceed(t) \/ Finish(t) \/ DropOwned(t) \/ Teardown(t) \/ Respawn(t)
  \/ \E c \in Cell : Begin(t, c)

\* The step leaves alone what belongs to thread u.
Idle(u) ==
  /\ pc'[u] = pc[u] /\ cell'[u] = cell[u] /\ ptr'[u] = ptr[u]
  /\ pin'[u] = pin[u] /\ owning'[u] = owning[u] /\ owned'[u] = owned[u]
  /\ slot'[u] = slot[u] /\ depth'[u] = depth[u] /\ frame'[u] = frame[u]
  /\ todo'[u] = todo[u] /\ seen'[u] = seen[u] /\ freed'[u] = freed[u]

\* At most the entry of t differs between f and g.
Moved(f, g, t) == \E x : g = [f EXCEPT ![t] = x]

\* A step of one thread leaves the others alone.
LEMMA OthersIdle ==
  ASSUME TypeOK, NEW t \in Thread, Acts(t), NEW u \in Thread, u # t
  PROVE  Idle(u)
<1>1. /\ pc' = pc \/ Moved(pc, pc', t)
      /\ cell' = cell \/ Moved(cell, cell', t)
      /\ ptr' = ptr \/ Moved(ptr, ptr', t)
      /\ pin' = pin \/ Moved(pin, pin', t)
      /\ owning' = owning \/ Moved(owning, owning', t)
      /\ owned' = owned \/ Moved(owned, owned', t)
      /\ slot' = slot \/ Moved(slot, slot', t)
      /\ depth' = depth \/ Moved(depth, depth', t)
      /\ frame' = frame \/ Moved(frame, frame', t)
      /\ todo' = todo \/ Moved(todo, todo', t)
      /\ seen' = seen \/ Moved(seen, seen', t)
      /\ freed' = freed \/ Moved(freed, freed', t)
  BY Zenon
  DEF Acts, Proceed, Finish, Begin, Pin, PinNone, Validated, Changed,
      Protect, Keep, Unpin, Check, FallbackCount, LoadLocked, LoadUnlock,
      FallbackLeave, UpdateNone, UpdateStore, TryReclaim, Scan, Collect,
      PublishLen, Unlock, DropFreed, WaitFallback, WaitCopy, WaitUnlock,
      WaitInspect, WaitDone, WaitReturn, ReadEnd, FallbackEnd, DropOwned, Teardown, Respawn, ReadBegin,
      LoadBegin, ProtectBegin, UpdateBegin, WaitBegin, ScanFrom, Start, Step,
      Push, Pop, cellVars, heapVars, stackVars, opVars, scanVars, waitVars, Moved
<1>2. pc'[u] = pc[u]
  BY <1>1, Zenon DEF Moved, TypeOK, OpTypes
<1>3. cell'[u] = cell[u]
  BY <1>1, Zenon DEF Moved, TypeOK, OpTypes
<1>4. ptr'[u] = ptr[u]
  BY <1>1, Zenon DEF Moved, TypeOK, OpTypes
<1>5. pin'[u] = pin[u]
  BY <1>1, Zenon DEF Moved, TypeOK, OpTypes
<1>6. owning'[u] = owning[u]
  BY <1>1, Zenon DEF Moved, TypeOK, OpTypes
<1>7. owned'[u] = owned[u]
  BY <1>1, Zenon DEF Moved, TypeOK, HeapTypes
<1>8. slot'[u] = slot[u]
  BY <1>1, Zenon DEF Moved, TypeOK, HeapTypes
<1>9. depth'[u] = depth[u]
  BY <1>1, Zenon DEF Moved, TypeOK, StackTypes
<1>10. frame'[u] = frame[u]
  BY <1>1, Zenon DEF Moved, TypeOK, StackTypes
<1>11. todo'[u] = todo[u]
  BY <1>1, Zenon DEF Moved, TypeOK, ScanTypes
<1>12. seen'[u] = seen[u]
  BY <1>1, Zenon DEF Moved, TypeOK, ScanTypes
<1>13. freed'[u] = freed[u]
  BY <1>1, Zenon DEF Moved, TypeOK, ScanTypes
<1> QED
  BY <1>2, <1>3, <1>4, <1>5, <1>6, <1>7, <1>8, <1>9, <1>10, <1>11, <1>12,
     <1>13, Zenon
  DEF Idle

\* The null pointer is none of the things that exist.
LEMMA NullIsNothing == NULL \notin Addr /\ NULL \notin Thread /\ NULL \notin Cell
  BY ConstantsAssumption, Zenon

\* The step of a thread keeps what its own locals hold.
LEMMA ActorStep ==
  ASSUME SafeInv, NEW t \in Thread, Acts(t)
  PROVE  OpOf(t)'
<1>0. OpOf(t) /\ TypeOK
  BY Zenon DEF SafeInv, OpInv
<1> USE <1>0, NullIsNothing DEF TypeOK
<1>1. ASSUME Pin(t) PROVE OpOf(t)'
  <2>1. PICK i \in Slot : /\ slot' = [slot EXCEPT ![t][i] = ptr[t]]
                          /\ pin' = [pin EXCEPT ![t] = i]
    BY <1>1, Zenon DEF Pin, FreeSlots
  <2>2. i # 0
    BY DEF Slot
  <2>3. pin'[t] = i /\ slot'[t][i] = ptr[t]
    BY <2>1, Zenon DEF HeapTypes, OpTypes
  <2> QED
    BY <1>1, <2>2, <2>3, Zenon
    DEF Pin, Step, OpOf, OpTypes, cellVars, stackVars, opVars, scanVars
<1>2. ASSUME PinNone(t) PROVE OpOf(t)'
  BY <1>2, Zenon
  DEF PinNone, Step, OpOf, OpTypes, stackVars, opVars, heapVars, scanVars,
      cellVars
<1>3. ASSUME Validated(t) PROVE OpOf(t)'
  BY <1>3, Zenon
  DEF Validated, Push, Step, OpOf, OpTypes, HeapTypes, stackVars, opVars,
      heapVars, scanVars, cellVars
<1>4. ASSUME Changed(t) PROVE OpOf(t)'
  BY <1>4, Zenon
  DEF Changed, Step, OpOf, CellTypes, OpTypes, stackVars, opVars, heapVars,
      scanVars, cellVars
<1>5. ASSUME Protect(t) PROVE OpOf(t)'
  <2>1. pin[t] \in Slot
    <3>1. pin[t] \in 0..SLOTS /\ pin[t] # 0
      BY <1>5, Zenon DEF Protect, Step, OpOf, OpTypes
    <3> QED
      BY <3>1, ConstantsAssumption DEF Slot
  <2>2. slot'[t][pin[t]] = ptr[t]
    BY <1>5, <2>1, Zenon DEF Protect, HeapTypes
  <2> QED
    BY <1>5, <2>2, Zenon
    DEF Protect, Step, OpOf, OpTypes, cellVars, stackVars, opVars, scanVars
<1>6. ASSUME Keep(t) PROVE OpOf(t)'
  BY <1>6, Zenon
  DEF Keep, Step, OpOf, HeapTypes, OpTypes, stackVars, opVars, heapVars,
      scanVars, cellVars
<1>7. ASSUME Unpin(t) PROVE OpOf(t)'
  BY <1>7, Zenon
  DEF Unpin, Step, OpOf, HeapTypes, OpTypes, Slot, stackVars, opVars,
      heapVars, scanVars, cellVars
<1>8. ASSUME Check(t) PROVE OpOf(t)'
  BY <1>8, Zenon
  DEF Check, Step, OpOf, OpTypes, stackVars, opVars, heapVars, scanVars,
      cellVars
<1>9. ASSUME FallbackCount(t) PROVE OpOf(t)'
  BY <1>9, Zenon
  DEF FallbackCount, Step, OpOf, OpTypes, stackVars, opVars, heapVars,
      scanVars, cellVars
<1>10. ASSUME LoadLocked(t) PROVE OpOf(t)'
  BY <1>10, Zenon
  DEF LoadLocked, Step, OpOf, OpTypes, stackVars, opVars, heapVars, scanVars,
      cellVars
<1>10a. ASSUME LoadUnlock(t) PROVE OpOf(t)'
  BY <1>10a, Zenon
  DEF LoadUnlock, Step, OpOf, OpTypes, stackVars, opVars, heapVars, scanVars,
      cellVars
<1>11. ASSUME FallbackLeave(t) PROVE OpOf(t)'
  BY <1>11, Zenon
  DEF FallbackLeave, Step, OpOf, OpTypes, stackVars, opVars, heapVars,
      scanVars, cellVars
<1>12. ASSUME UpdateNone(t) PROVE OpOf(t)'
  BY <1>12, Zenon
  DEF UpdateNone, Step, OpOf, OpTypes, stackVars, opVars, heapVars, scanVars,
      cellVars
<1>13. ASSUME UpdateStore(t) PROVE OpOf(t)'
  <2>1. PICK a \in Addr : current' = [current EXCEPT ![cell[t]] = a]
    BY <1>13, Zenon DEF UpdateStore
  <2>2. cell[t] \in Cell
    BY <1>13, Zenon DEF UpdateStore, Step, OpOf
  <2>3. current'[cell[t]] # NULL
    BY <2>1, <2>2, Zenon DEF CellTypes
  <2> QED
    BY <1>13, <2>2, <2>3, ZenonT(40)
    DEF UpdateStore, Step, OpOf, OpTypes, heapVars, stackVars
<1>14. ASSUME TryReclaim(t) PROVE OpOf(t)'
  BY <1>14, ZenonT(40)
  DEF TryReclaim, ScanFrom, Step, OpOf, OpTypes, stackVars, opVars, heapVars,
      scanVars, cellVars
<1>15. ASSUME Scan(t) PROVE OpOf(t)'
  BY <1>15, Zenon
  DEF Scan, Step, OpOf, OpTypes, stackVars, opVars, heapVars, scanVars, cellVars
<1>16. ASSUME Collect(t) PROVE OpOf(t)'
  BY <1>16, Zenon
  DEF Collect, Step, OpOf, OpTypes, ScanTypes, stackVars, opVars, heapVars,
      scanVars, cellVars
<1>17. ASSUME PublishLen(t) PROVE OpOf(t)'
  BY <1>17, Zenon
  DEF PublishLen, Step, OpOf, OpTypes, stackVars, opVars, heapVars, scanVars,
      cellVars
<1>18. ASSUME Unlock(t) PROVE OpOf(t)'
  BY <1>18, Zenon
  DEF Unlock, Step, OpOf, OpTypes, stackVars, opVars, heapVars, scanVars,
      cellVars
<1>19. ASSUME DropFreed(t) PROVE OpOf(t)'
  BY <1>19, Zenon
  DEF DropFreed, Step, OpOf, OpTypes, ScanTypes, stackVars, opVars, heapVars,
      scanVars, cellVars
<1>20. ASSUME WaitFallback(t) PROVE OpOf(t)'
  BY <1>20, Zenon
  DEF WaitFallback, Step, OpOf, OpTypes, stackVars, opVars, heapVars,
      scanVars, cellVars
<1>21. ASSUME WaitCopy(t) PROVE OpOf(t)'
  BY <1>21, ZenonT(40)
  DEF WaitCopy, Step, OpOf, OpTypes, stackVars, opVars, heapVars, scanVars,
      cellVars
<1>21a. ASSUME WaitUnlock(t) PROVE OpOf(t)'
  BY <1>21a, Zenon
  DEF WaitUnlock, Step, OpOf, OpTypes, stackVars, opVars, heapVars, scanVars,
      cellVars
<1>22. ASSUME WaitInspect(t) PROVE OpOf(t)'
  BY <1>22
  DEF WaitInspect, Step, OpOf, OpTypes, stackVars, opVars, heapVars, scanVars,
      cellVars
<1>23. ASSUME WaitDone(t) PROVE OpOf(t)'
  BY <1>23, Zenon
  DEF WaitDone, Step, OpOf, OpTypes, stackVars, opVars, heapVars, scanVars,
      cellVars
<1>24. ASSUME WaitReturn(t) PROVE OpOf(t)'
  BY <1>24, Zenon
  DEF WaitReturn, Step, OpOf, OpTypes, stackVars, opVars, heapVars, scanVars,
      cellVars
<1>25. ASSUME ReadEnd(t) PROVE OpOf(t)'
  <2>1. depth[t] \in 1..depth[t]
    BY <1>25 DEF ReadEnd, StackTypes
  <2>2. frame[t][depth[t]].cell \in Cell
    BY <2>1, TopFrame, Zenon DEF TypeOK
  <2>3. current[frame[t][depth[t]].cell] # NULL
    BY <2>1, Zenon DEF SafeInv, HazardInv, FrameInv
  <2> QED
    BY <1>25, <2>2, <2>3, ZenonT(40)
    DEF ReadEnd, Step, OpOf, HeapTypes, OpTypes, cellVars, scanVars
<1>26. ASSUME FallbackEnd(t) PROVE OpOf(t)'
  <2>1. depth[t] \in 1..depth[t]
    BY <1>26, SMTT(30) DEF FallbackEnd, StackTypes
  <2>2. frame[t][depth[t]].cell \in Cell
    BY <2>1, TopFrame, Zenon DEF TypeOK
  <2>3. current[frame[t][depth[t]].cell] # NULL
    BY <2>1, Zenon DEF SafeInv, HazardInv, FrameInv
  <2> QED
    BY <1>26, <2>2, <2>3, Zenon
    DEF FallbackEnd, Step, OpOf, HeapTypes, OpTypes, cellVars, scanVars
<1>27. ASSUME DropOwned(t) PROVE OpOf(t)'
  BY <1>27, Zenon
  DEF DropOwned, Step, OpOf, HeapTypes, stackVars, opVars, heapVars, scanVars,
      cellVars
<1>28. ASSUME Teardown(t) PROVE OpOf(t)'
  BY <1>28, Zenon
  DEF Teardown, Step, OpOf, HeapTypes, OpTypes, stackVars, opVars, heapVars,
      scanVars, cellVars
<1>29. ASSUME Respawn(t) PROVE OpOf(t)'
  BY <1>29, Zenon
  DEF Respawn, Step, OpOf, OpTypes, stackVars, opVars, heapVars, scanVars,
      cellVars
<1>30. ASSUME NEW c \in Cell, ReadBegin(t, c) PROVE OpOf(t)'
  BY <1>30, Zenon
  DEF ReadBegin, ProtectBegin, Start, Step, OpOf, CellTypes, OpTypes,
      stackVars, opVars, heapVars, scanVars, cellVars
<1>31. ASSUME NEW c \in Cell, LoadBegin(t, c) PROVE OpOf(t)'
  BY <1>31, Zenon
  DEF LoadBegin, ProtectBegin, Start, Step, OpOf, CellTypes, OpTypes,
      stackVars, opVars, heapVars, scanVars, cellVars
<1>32. ASSUME NEW c \in Cell, UpdateBegin(t, c) PROVE OpOf(t)'
  BY <1>32, Zenon
  DEF UpdateBegin, Start, Step, OpOf, CellTypes, OpTypes, stackVars, opVars,
      heapVars, scanVars, cellVars
<1>33. ASSUME NEW c \in Cell, WaitBegin(t, c) PROVE OpOf(t)'
  BY <1>33, Zenon
  DEF WaitBegin, Start, Step, OpOf, OpTypes, stackVars, opVars, heapVars,
      scanVars, cellVars
<1> QED
  BY <1>1, <1>2, <1>3, <1>4, <1>5, <1>6, <1>7, <1>8, <1>9, <1>10, <1>10a,
     <1>11, <1>12, <1>13, <1>14, <1>15, <1>16, <1>17, <1>18, <1>19, <1>20,
     <1>21, <1>21a, <1>22, <1>23, <1>24, <1>25, <1>26, <1>27, <1>28, <1>29, <1>30, <1>31,
     <1>32, <1>33, Zenon
  DEF Acts, Proceed, Finish, Begin


\* Only five operations move a value between its places.
LEMMA PlaceMoves ==
  ASSUME [Next]_vars
  PROVE  \/ UNCHANGED <<current, retired, freed>>
         \/ \E t \in Thread : UpdateStore(t) \/ Collect(t) \/ DropFreed(t)
         \/ \E c \in Cell : DropCell(c) \/ New(c)
<1> USE DEF cellVars, scanVars
<1>1. ASSUME NEW t \in Thread, Proceed(t)
      PROVE  \/ UNCHANGED <<current, retired, freed>>
             \/ UpdateStore(t) \/ Collect(t) \/ DropFreed(t)
  BY <1>1, Zenon
  DEF Proceed, Pin, PinNone, Validated, Changed, Protect, Keep, Unpin,
     Check, FallbackCount, LoadLocked, LoadUnlock, FallbackLeave, UpdateNone,
     TryReclaim, Scan, PublishLen, Unlock, WaitFallback, WaitCopy, WaitUnlock,
     WaitInspect, WaitDone, WaitReturn
<1>2. ASSUME NEW t \in Thread,
             Finish(t) \/ DropOwned(t) \/ Teardown(t) \/ Respawn(t)
      PROVE  UNCHANGED <<current, retired, freed>>
  BY <1>2, Zenon DEF Finish, ReadEnd, FallbackEnd, DropOwned, Teardown, Respawn
<1>3. ASSUME NEW t \in Thread, NEW c \in Cell, Begin(t, c)
      PROVE  UNCHANGED <<current, retired, freed>>
  BY <1>3, Zenon
  DEF Begin, ReadBegin, LoadBegin, ProtectBegin, UpdateBegin, WaitBegin
<1>4. ASSUME UNCHANGED vars PROVE UNCHANGED <<current, retired, freed>>
  BY <1>4, ZenonT(40) DEF vars
<1> QED
  BY <1>1, <1>2, <1>3, <1>4, Zenon DEF Next

\* A cell with a dispatch or an operation on it is not dropped.
LEMMA CellKept ==
  ASSUME SafeInv, [Next]_vars, NEW t \in Thread
  PROVE  /\ \A d \in 1..depth[t] : current'[frame[t][d].cell] # NULL
         /\ pc[t] # "user" => current'[cell[t]] # NULL
<1> USE ConstantsAssumption DEF SafeInv, TypeOK
<1>0. /\ \A d \in 1..depth[t] : /\ frame[t][d].cell \in Cell
                                /\ current[frame[t][d].cell] # NULL
      /\ pc[t] # "user" => cell[t] \in Cell /\ current[cell[t]] # NULL
  BY TopFrame, Zenon DEF HazardInv, FrameInv, OpInv, OpOf
<1>1. CASE UNCHANGED current
  BY <1>0, <1>1, ZenonT(40)
<1>2. ASSUME NEW w \in Thread, UpdateStore(w)
      PROVE  \A c \in Cell : current[c] # NULL => current'[c] # NULL
  BY <1>2, SMTT(30) DEF UpdateStore, CellTypes
<1>3. ASSUME NEW c \in Cell, New(c)
      PROVE  \A d \in Cell : current[d] # NULL => current'[d] # NULL
  BY <1>3, Zenon DEF New, CellTypes
<1>4. ASSUME NEW c \in Cell, DropCell(c)
      PROVE  /\ \A d \in 1..depth[t] : frame[t][d].cell # c
             /\ pc[t] # "user" => cell[t] # c
             /\ \A d \in Cell \ {c} : current'[d] = current[d]
  BY <1>4, Zenon DEF DropCell, Unused, CellTypes
<1>5. ASSUME NEW w \in Thread, Collect(w) \/ DropFreed(w)
      PROVE  UNCHANGED current
  BY <1>5, Zenon DEF Collect, DropFreed, cellVars
<1> HIDE DEF SafeInv, TypeOK
<1>6. CASE \A c \in Cell : current[c] # NULL => current'[c] # NULL
  BY <1>0, <1>6, Zenon
<1>7. ASSUME NEW c \in Cell, DropCell(c)
      PROVE  /\ \A d \in 1..depth[t] : current'[frame[t][d].cell] # NULL
             /\ pc[t] # "user" => current'[cell[t]] # NULL
  BY <1>0, <1>4, <1>7, Zenon
<1> QED
  BY <1>1, <1>2, <1>3, <1>5, <1>6, <1>7, PlaceMoves, Zenon

\* Every step keeps what the locals hold.
LEMMA OpStep ==
  ASSUME SafeInv, [Next]_vars
  PROVE  OpInv'
<1>1. ASSUME NEW u \in Thread, Idle(u) PROVE OpOf(u)'
  <2>1. pc[u] # "user" => current'[cell[u]] # NULL
    BY CellKept, Zenon
  <2>2. OpOf(u)
    BY Zenon DEF SafeInv, OpInv
  <2> QED
    BY <1>1, <2>1, <2>2, Zenon DEF OpOf, Idle
<1>2. ASSUME NEW t \in Thread, Acts(t) PROVE OpInv'
  BY <1>1, <1>2, ActorStep, OthersIdle, Zenon DEF OpInv, SafeInv
<1>3. ASSUME NEW c \in Cell, DropCell(c) \/ New(c) PROVE OpInv'
  <2>1. ASSUME NEW u \in Thread PROVE Idle(u)
    BY <1>3, Zenon DEF DropCell, New, Idle, opVars, stackVars, scanVars
  <2> QED
    BY <1>1, <2>1, Zenon DEF OpInv
<1>4. ASSUME UNCHANGED vars PROVE OpInv'
  <2>1. ASSUME NEW u \in Thread PROVE Idle(u)
    BY <1>4, Zenon DEF vars, Idle, opVars, stackVars, heapVars, scanVars
  <2> QED
    BY <1>1, <2>1, Zenon DEF OpInv
<1> QED
  BY <1>2, <1>3, <1>4, Zenon DEF Next, Acts

\* Most steps of a thread neither touch a lock nor the pointer it protects:
\* they stay outside a critical section, or inside one past its closure.
Lockless(t) ==
  /\ UNCHANGED <<writer, current>>
  /\ \/ pc[t] \notin Locked /\ pc'[t] \notin Locked
     \/ pc[t] \in Locked /\ pc'[t] \in Locked \ {"build"} /\ cell'[t] = cell[t]

\* Thread t takes the free lock of its cell, for something else than an
\* update, or releases it.
Takes(t) ==
  /\ current' = current /\ cell'[t] = cell[t]
  /\ pc[t] # "user" /\ pc[t] \notin Locked /\ pc'[t] \in Locked \ {"build"}
  /\ writer[cell[t]] = NULL
  /\ writer' = [writer EXCEPT ![cell[t]] = t]

Releases(t) ==
  /\ current' = current /\ cell'[t] = cell[t]
  /\ pc[t] \in Locked /\ pc'[t] \notin Locked
  /\ writer' = [writer EXCEPT ![cell[t]] = NULL]

\* The other steps that matter to a lock are a writer's closure (update), a
\* reclaimer's try_lock (try_reclaim), a lock taken to clone or to copy, and
\* the release of the guard.
LEMMA LockMoves ==
  ASSUME TypeOK, NEW t \in Thread, Acts(t)
  PROVE  \/ Lockless(t) \/ Takes(t) \/ Releases(t)
         \/ UpdateStore(t)
         \/ \E c \in Cell : UpdateBegin(t, c)
<1>0. pc \in [Thread -> Labels]
  BY Zenon DEF TypeOK, OpTypes
<1> USE <1>0 DEF Lockless, Takes, Releases, Locked, Step, Start, cellVars, opVars
<1>1. ASSUME Pin(t) \/ PinNone(t) \/ Validated(t) \/ Changed(t) \/ Protect(t)
             \/ Keep(t) \/ Unpin(t) \/ Check(t)
      PROVE  Lockless(t)
  BY <1>1, Zenon
  DEF Pin, PinNone, Validated, Changed, Protect, Keep, Unpin, Check
<1>2. ASSUME FallbackCount(t) \/ FallbackLeave(t) \/ Finish(t)
      PROVE  Lockless(t)
  BY <1>2, Zenon DEF FallbackCount, FallbackLeave, Finish, ReadEnd, FallbackEnd
<1>3. ASSUME Scan(t) \/ Collect(t) \/ PublishLen(t) PROVE Lockless(t)
  BY <1>3, Zenon DEF Scan, Collect, PublishLen
<1>4. ASSUME DropFreed(t) \/ WaitFallback(t) \/ WaitInspect(t) \/ WaitDone(t)
             \/ WaitReturn(t)
      PROVE  Lockless(t)
  BY <1>4, Zenon
  DEF DropFreed, WaitFallback, WaitInspect, WaitDone, WaitReturn
<1>5. ASSUME DropOwned(t) \/ Teardown(t) \/ Respawn(t) PROVE Lockless(t)
  BY <1>5, Zenon DEF DropOwned, Teardown, Respawn
<1>6. ASSUME NEW c \in Cell, ReadBegin(t, c) \/ LoadBegin(t, c) \/ WaitBegin(t, c)
      PROVE  Lockless(t)
  BY <1>6, Zenon DEF ReadBegin, LoadBegin, ProtectBegin, WaitBegin
<1>7. ASSUME LoadLocked(t) \/ WaitCopy(t) PROVE Takes(t)
  BY <1>7, Zenon DEF LoadLocked, WaitCopy
<1>8. ASSUME TryReclaim(t) PROVE Lockless(t) \/ Takes(t)
  BY <1>8, Zenon DEF TryReclaim
<1>9. ASSUME UpdateNone(t) \/ Unlock(t) \/ LoadUnlock(t) \/ WaitUnlock(t)
      PROVE  Releases(t)
  BY <1>9, Zenon DEF UpdateNone, Unlock, LoadUnlock, WaitUnlock
<1> QED
  BY <1>1, <1>2, <1>3, <1>4, <1>5, <1>6, <1>7, <1>8, <1>9, Zenon
  DEF Acts, Proceed, Begin

\* Every step keeps the lock discipline.
LEMMA LockStep ==
  ASSUME SafeInv, [Next]_vars
  PROVE  LockInv'
<1>0. /\ pc \in [Thread -> Labels]
      /\ cell \in [Thread -> Cell \cup {NULL}]
      /\ writer \in [Cell -> Thread \cup {NULL}]
      /\ current \in [Cell -> Addr \cup {NULL}]
  BY Zenon DEF SafeInv, TypeOK, CellTypes, OpTypes
<1>1. /\ \A c \in Cell : writer[c] # NULL =>
           cell[writer[c]] = c /\ pc[writer[c]] \in Locked
      /\ \A u \in Thread :
           /\ pc[u] \in Locked => cell[u] \in Cell /\ writer[cell[u]] = u
           /\ pc[u] = "build" => ptr[u] = current[cell[u]]
  BY Zenon
  DEF SafeInv, LockInv, NoUserCodeUnderLock, OpInv, OpOf, Locked
<1>2. ASSUME NEW t \in Thread, Acts(t) PROVE LockInv'
  <2>0. \A u \in Thread \ {t} : /\ pc'[u] = pc[u] /\ cell'[u] = cell[u]
                                /\ ptr'[u] = ptr[u]
    BY <1>2, OthersIdle, Zenon DEF SafeInv, Idle
  <2>1. CASE Lockless(t)
    BY <1>0, <1>1, <2>0, <2>1, NullIsNothing, SMTT(30)
    DEF LockInv, NoUserCodeUnderLock, Lockless, Locked
  <2>2. CASE Releases(t)
    BY <1>0, <1>1, <2>0, <2>2, NullIsNothing
    DEF Releases, LockInv, NoUserCodeUnderLock, Locked
  <2>3. CASE UpdateStore(t)
    <3>1. /\ pc[t] \in Locked /\ pc'[t] = "scan" /\ cell'[t] = cell[t]
          /\ writer' = writer
      BY <1>0, <2>3, Zenon DEF UpdateStore, Step, Locked
    <3>2. PICK a \in Addr : current' = [current EXCEPT ![cell[t]] = a]
      BY <2>3, Zenon DEF UpdateStore
    <3> QED
      BY <1>0, <1>1, <2>0, <3>1, <3>2 DEF LockInv, NoUserCodeUnderLock, Locked
  <2>4. CASE Takes(t)
    <3>1. cell[t] \in Cell
      BY <2>4, Zenon DEF Takes, SafeInv, OpInv, OpOf
    <3> QED
      BY <1>0, <1>1, <2>0, <2>4, <3>1, NullIsNothing
      DEF Takes, LockInv, NoUserCodeUnderLock, Locked
  <2>5. ASSUME NEW c \in Cell, UpdateBegin(t, c) PROVE LockInv'
    <3>1. /\ pc[t] = "user" /\ pc'[t] = "build" /\ cell'[t] = c
          /\ writer[c] = NULL /\ writer' = [writer EXCEPT ![c] = t]
          /\ current' = current
      BY <1>0, <2>5, Zenon DEF UpdateBegin, Start
    <3>2. ptr'[t] = current[c]
      BY <2>5, Zenon DEF UpdateBegin, SafeInv, TypeOK, OpTypes
    <3> QED
      BY <1>0, <1>1, <2>0, <3>1, <3>2, NullIsNothing
      DEF LockInv, NoUserCodeUnderLock, Locked
  <2> QED
    BY <1>2, <2>1, <2>2, <2>3, <2>4, <2>5, LockMoves, Zenon DEF SafeInv
<1>3. ASSUME NEW c \in Cell, DropCell(c) PROVE LockInv'
  <2>1. \A u \in Thread : pc[u] = "build" => current'[cell[u]] = current[cell[u]]
    BY <1>0, <1>1, <1>3, Zenon DEF DropCell, Unused, Locked
  <2> QED
    BY <1>1, <1>3, <2>1, Zenon
    DEF DropCell, LockInv, NoUserCodeUnderLock, Locked, opVars
<1>4. ASSUME NEW c \in Cell, New(c) PROVE LockInv'
  <2>1. PICK a \in Addr : /\ current[c] = NULL
                          /\ current' = [current EXCEPT ![c] = a]
                          /\ UNCHANGED <<writer, pc, cell, ptr>>
    BY <1>4, Zenon DEF New, opVars
  <2>2. \A u \in Thread : pc[u] = "build" => cell[u] # c
    BY <2>1, Zenon DEF SafeInv, OpInv, OpOf
  <2> QED
    BY <1>0, <1>1, <2>1, <2>2 DEF LockInv, NoUserCodeUnderLock, Locked
<1>5. ASSUME UNCHANGED vars PROVE LockInv'
  BY <1>1, <1>5, Zenon
  DEF vars, LockInv, NoUserCodeUnderLock, Locked, cellVars, opVars
<1> QED
  BY <1>2, <1>3, <1>4, <1>5, Zenon DEF Next, Acts

-----------------------------------------------------------------------------
(* References, and where a value is *)

\* The five sets of references to an address are finite.
LEMMA RefsFinite ==
  ASSUME NEW a
  PROVE  /\ IsFiniteSet(CurrentOf(a)) /\ IsFiniteSet(RetiredOf(a))
         /\ IsFiniteSet(FreedOf(a)) /\ IsFiniteSet(OwnedOf(a))
         /\ IsFiniteSet(FramesOf(a))
<1>1. IsFiniteSet(Thread \X Level)
  <2>1. IsFiniteSet(Level)
    BY ConstantsAssumption, FS_Interval DEF Level
  <2> QED
    BY <2>1, ConstantsAssumption, FS_Product, Zenon
<1>2. FramesOf(a) \subseteq Thread \X Level
  BY Zenon DEF FramesOf, FallbackFrames
<1>3. /\ CurrentOf(a) \subseteq Cell /\ RetiredOf(a) \subseteq Cell
      /\ FreedOf(a) \subseteq Thread /\ OwnedOf(a) \subseteq Thread
  BY Zenon DEF CurrentOf, RetiredOf, FreedOf, OwnedOf
<1> QED
  BY <1>1, <1>2, <1>3, FS_Subset, ConstantsAssumption, Zenon

\* ... and so the counts are naturals.
LEMMA RefsNat ==
  ASSUME NEW a
  PROVE  /\ Cardinality(CurrentOf(a)) \in Nat /\ Cardinality(RetiredOf(a)) \in Nat
         /\ Cardinality(FreedOf(a)) \in Nat /\ Cardinality(OwnedOf(a)) \in Nat
         /\ Cardinality(FramesOf(a)) \in Nat
  BY RefsFinite, FS_CardinalityType, Zenon

\* An address with strong count zero is referred to by nothing.
LEMMA Unallocated ==
  ASSUME RefcountExact, NEW a \in Addr, strong[a] = 0
  PROVE  /\ \A c \in Cell : current[c] # a /\ a \notin retired[c]
         /\ \A t \in Thread : a \notin freed[t] /\ owned[t] # a
         /\ FramesOf(a) = {}
<1>1. /\ Cardinality(CurrentOf(a)) = 0 /\ Cardinality(RetiredOf(a)) = 0
      /\ Cardinality(FreedOf(a)) = 0 /\ Cardinality(OwnedOf(a)) = 0
      /\ Cardinality(FramesOf(a)) = 0
  <2> DEFINE i == Cardinality(CurrentOf(a))
             j == Cardinality(RetiredOf(a))
             k == Cardinality(FreedOf(a))
             m == Cardinality(OwnedOf(a))
             n == Cardinality(FramesOf(a))
  <2>1. i + j + k + m + n = 0
    BY Zenon DEF RefcountExact, References
  <2>2. i \in Nat /\ j \in Nat /\ k \in Nat /\ m \in Nat /\ n \in Nat
    BY RefsNat, Zenon
  <2> HIDE DEF i, j, k, m, n
  <2>3. i = 0 /\ j = 0 /\ k = 0 /\ m = 0 /\ n = 0
    BY <2>1, <2>2
  <2> QED
    BY <2>3, Zenon DEF i, j, k, m, n
<1>2. /\ CurrentOf(a) = {} /\ RetiredOf(a) = {} /\ FreedOf(a) = {}
      /\ OwnedOf(a) = {} /\ FramesOf(a) = {}
  BY <1>1, RefsFinite, FS_EmptySet, Zenon
<1> QED
  BY <1>2, Zenon DEF CurrentOf, RetiredOf, FreedOf, OwnedOf

\* An address something refers to has a positive strong count.
LEMMA Referenced ==
  ASSUME RefcountExact, NEW a \in Addr,
         \/ \E c \in Cell : current[c] = a \/ a \in retired[c]
         \/ \E t \in Thread : a \in freed[t] \/ owned[t] = a
         \/ FramesOf(a) # {}
  PROVE  strong[a] > 0
<1>1. strong[a] \in Nat
  BY RefsNat DEF RefcountExact, References
<1> QED
  BY <1>1, Unallocated

\* Every step keeps a value in one place.
LEMMA PlaceStep ==
  ASSUME SafeInv, [Next]_vars
  PROVE  PlaceInv'
<1> USE ConstantsAssumption DEF SafeInv, TypeOK, Step, cellVars, scanVars
<1>1. ASSUME UNCHANGED <<current, retired, freed>> PROVE PlaceInv'
  BY <1>1, Zenon DEF PlaceInv
<1>2. ASSUME NEW t \in Thread, UpdateStore(t) PROVE PlaceInv'
  <2>1. PICK a \in Addr :
          /\ strong[a] = 0
          /\ current' = [current EXCEPT ![cell[t]] = a]
          /\ retired' = [retired EXCEPT ![cell[t]] = @ \cup {ptr[t]}]
    BY <1>2, Zenon DEF UpdateStore
  <2>2. cell[t] \in Cell /\ ptr[t] = current[cell[t]] /\ ptr[t] # NULL
    BY <1>2, Zenon DEF UpdateStore, OpInv, OpOf, LockInv
  <2>3. freed' = freed
    BY <1>2, Zenon DEF UpdateStore
  <2> QED
    BY <2>1, <2>2, <2>3, Unallocated DEF PlaceInv, CellTypes, ScanTypes
<1>3. ASSUME NEW t \in Thread, Collect(t) PROVE PlaceInv'
  <2>1. cell[t] \in Cell /\ freed[t] = {}
    BY <1>3, Zenon DEF Collect, OpInv, OpOf
  <2> QED
    BY <1>3, <2>1 DEF Collect, PlaceInv, CellTypes, ScanTypes
<1>4. ASSUME NEW t \in Thread, DropFreed(t) PROVE PlaceInv'
  BY <1>4, Zenon DEF DropFreed, PlaceInv, ScanTypes
<1>5. ASSUME NEW c \in Cell, DropCell(c) PROVE PlaceInv'
  BY <1>5 DEF DropCell, PlaceInv, CellTypes, ScanTypes
<1>6. ASSUME NEW c \in Cell, New(c) PROVE PlaceInv'
  BY <1>6, Unallocated DEF New, PlaceInv, CellTypes, ScanTypes
<1> QED
  BY <1>1, <1>2, <1>3, <1>4, <1>5, <1>6, PlaceMoves, Zenon

\* Only these operations change what a cell holds or how far a scan is.
LEMMA ScanMoves ==
  ASSUME TypeOK, [Next]_vars
  PROVE  \/ /\ UNCHANGED <<current, retired, todo, seen>>
            /\ \A w \in Thread :
                 pc'[w] = "scan" => pc[w] = "scan" /\ cell'[w] = cell[w]
         \/ \E w \in Thread :
              UpdateStore(w) \/ TryReclaim(w) \/ Scan(w) \/ Collect(w)
         \/ \E c \in Cell : DropCell(c) \/ New(c)
<1> USE DEF TypeOK, OpTypes, Step, Start, cellVars, opVars, scanVars
<1> DEFINE Quiet == /\ UNCHANGED <<current, retired, todo, seen>>
                    /\ \A w \in Thread :
                         pc'[w] = "scan" => pc[w] = "scan" /\ cell'[w] = cell[w]
<1>1. ASSUME NEW t \in Thread, Proceed(t)
      PROVE  \/ Quiet
             \/ UpdateStore(t) \/ TryReclaim(t) \/ Scan(t) \/ Collect(t)
  BY <1>1, ZenonT(40)
  DEF Proceed, Pin, PinNone, Validated, Changed, Protect, Keep, Unpin,
     Check, FallbackCount, LoadLocked, LoadUnlock, FallbackLeave, UpdateNone,
     PublishLen, Unlock, DropFreed, WaitFallback, WaitCopy, WaitUnlock,
     WaitInspect, WaitDone, WaitReturn
<1>2. ASSUME NEW t \in Thread,
             Finish(t) \/ DropOwned(t) \/ Teardown(t) \/ Respawn(t)
      PROVE  Quiet
  BY <1>2, Zenon DEF Finish, ReadEnd, FallbackEnd, DropOwned, Teardown, Respawn
<1>3. ASSUME NEW t \in Thread, NEW c \in Cell, Begin(t, c)
      PROVE  Quiet
  BY <1>3, Zenon
  DEF Begin, ReadBegin, LoadBegin, ProtectBegin, UpdateBegin, WaitBegin
<1>4. ASSUME UNCHANGED vars PROVE Quiet
  BY <1>4, Zenon DEF vars
<1> QED
  BY <1>1, <1>2, <1>3, <1>4, Zenon DEF Next

-----------------------------------------------------------------------------
(* Where a value is, and who announces it *)

\* The announcement handshake.  As long as the announcement stays in its
\* slot and the cell exists, no step of any writer takes the value out of
\* the cell and its retired list, and no scan passes the announcement by.
LEMMA GuardKept ==
  ASSUME SafeInv, [Next]_vars,
         NEW t \in Thread, NEW i \in Slot, NEW a \in Addr, NEW c \in Cell,
         Guarded(t, i, a, c), slot'[t][i] = a,
         current[c] # NULL, current'[c] # NULL
  PROVE  Guarded(t, i, a, c)'
<1> USE ConstantsAssumption DEF SafeInv, TypeOK
<1>1. CASE /\ UNCHANGED <<current, retired, todo, seen>>
           /\ \A w \in Thread :
                pc'[w] = "scan" => pc[w] = "scan" /\ cell'[w] = cell[w]
  BY <1>1, Zenon DEF Guarded
<1>2. ASSUME NEW w \in Thread, UpdateStore(w) PROVE Guarded(t, i, a, c)'
  <2>1. /\ pc[w] = "build" /\ cell[w] \in Cell /\ writer[cell[w]] = w
        /\ ptr[w] = current[cell[w]]
    BY <1>2, Zenon DEF UpdateStore, Step, OpInv, OpOf, LockInv, Locked
  <2>2. PICK b \in Addr :
          /\ current' = [current EXCEPT ![cell[w]] = b]
          /\ retired' = [retired EXCEPT ![cell[w]] = @ \cup {ptr[w]}]
    BY <1>2, Zenon DEF UpdateStore
  <2>3. a = current'[c] \/ a \in retired'[c]
    BY <2>1, <2>2, Zenon DEF Guarded, CellTypes
  <2>4. ASSUME NEW v \in Thread, pc'[v] = "scan", cell'[v] = c, a \in retired'[c]
        PROVE  <<t, i>> \in todo'[v] \/ a \in seen'[v]
    <3>1. CASE v = w
      BY <1>2, <3>1 DEF UpdateStore, ScanFrom, ScanTypes
    <3>2. CASE v # w
      <4>1. pc[v] = "scan" /\ cell[v] = c /\ todo'[v] = todo[v] /\ seen'[v] = seen[v]
        BY <1>2, <2>4, <3>2
        DEF UpdateStore, Step, ScanFrom, OpTypes, ScanTypes, opVars
      <4>2. cell[w] # c
        BY <2>1, <3>2, <4>1, Zenon DEF LockInv, Locked
      <4>3. a \in retired[c]
        BY <2>1, <2>2, <2>4, <4>2, Zenon DEF CellTypes
      <4> QED
        BY <4>1, <4>3, Zenon DEF Guarded
    <3> QED
      BY <3>1, <3>2, ZenonT(40)
  <2> QED
    BY <2>3, <2>4, Zenon DEF Guarded
<1>3. ASSUME NEW w \in Thread, TryReclaim(w) PROVE Guarded(t, i, a, c)'
  <2>1. UNCHANGED <<current, retired, cell>>
    BY <1>3, Zenon DEF TryReclaim, opVars
  <2>2. ASSUME NEW v \in Thread, pc'[v] = "scan", cell'[v] = c, a \in retired'[c]
        PROVE  <<t, i>> \in todo'[v] \/ a \in seen'[v]
    <3>1. \/ todo'[v] = todo[v] /\ seen'[v] = seen[v] /\ pc[v] = "scan"
          \/ todo'[v] = Thread \X Slot
      <4>1. "user" # "scan" /\ "publish" # "scan"
        OBVIOUS
      <4>2. /\ pc \in [Thread -> Labels] /\ todo \in [Thread -> SUBSET (Thread \X Slot)]
            /\ seen \in [Thread -> SUBSET Addr]
        BY Zenon DEF OpTypes, ScanTypes
      <4> HIDE DEF SafeInv, TypeOK
      <4>3. \/ /\ pc' = [pc EXCEPT ![w] = "user"] \/ pc' = [pc EXCEPT ![w] = "publish"]
               /\ todo' = todo /\ seen' = seen
            \/ /\ pc' = [pc EXCEPT ![w] = "scan"]
               /\ todo' = [todo EXCEPT ![w] = Thread \X Slot]
               /\ seen' = [seen EXCEPT ![w] = {}]
        BY <1>3, Zenon DEF TryReclaim, Step, ScanFrom
      <4>4. CASE v = w
        BY <2>2, <4>1, <4>2, <4>3, <4>4, ZenonT(40)
      <4>5. CASE v # w
        BY <2>2, <4>2, <4>3, <4>5, Zenon
      <4> QED
        BY <4>4, <4>5, Zenon
    <3> QED
      BY <2>1, <2>2, <3>1, Zenon DEF Guarded
  <2> QED
    BY <2>1, <2>2, Zenon DEF Guarded
<1>4. ASSUME NEW w \in Thread, Scan(w) PROVE Guarded(t, i, a, c)'
  <2>1. PICK r \in Thread, j \in Slot :
          /\ todo' = [todo EXCEPT ![w] = @ \ {<<r, j>>}]
          /\ seen' = [seen EXCEPT ![w] = @ \cup ({slot[r][j]} \ {NULL})]
    BY <1>4, Zenon DEF Scan
  <2>2. /\ UNCHANGED <<current, retired, cell>>
        /\ \A v \in Thread : pc'[v] = "scan" => pc[v] = "scan"
    BY <1>4, Zenon DEF Scan, Step, OpTypes, cellVars, opVars
  <2> QED
    BY <2>1, <2>2, Zenon DEF Guarded, ScanTypes
<1>5. ASSUME NEW w \in Thread, Collect(w) PROVE Guarded(t, i, a, c)'
  <2>1. /\ pc[w] = "scan" /\ cell[w] \in Cell /\ todo[w] = {}
        /\ writer[cell[w]] = w
    BY <1>5, Zenon DEF Collect, Step, OpInv, OpOf, LockInv, Locked
  <2>2. a = current'[c] \/ a \in retired'[c]
    BY <1>5, <2>1, Zenon DEF Collect, Guarded, CellTypes
  <2>3. ASSUME NEW v \in Thread, pc'[v] = "scan", cell'[v] = c, a \in retired'[c]
        PROVE  <<t, i>> \in todo'[v] \/ a \in seen'[v]
    BY <1>5, <2>1, <2>3, Zenon
    DEF Collect, Step, Guarded, CellTypes, OpTypes, ScanTypes, opVars
  <2> QED
    BY <2>2, <2>3, <1>5, Zenon DEF Guarded
<1>6. ASSUME NEW d \in Cell, DropCell(d) PROVE Guarded(t, i, a, c)'
  BY <1>6, Zenon DEF DropCell, Guarded, CellTypes, opVars, scanVars
<1>7. ASSUME NEW d \in Cell, New(d) PROVE Guarded(t, i, a, c)'
  <2>1. /\ current[d] = NULL /\ UNCHANGED <<pc, retired, cell, todo, seen>>
        /\ \E b : current' = [current EXCEPT ![d] = b]
    BY <1>7, Zenon DEF New, opVars, scanVars
  <2>2. current'[c] = current[c]
    BY <2>1, Zenon DEF CellTypes
  <2> HIDE DEF SafeInv, TypeOK
  <2> QED
    BY <2>1, <2>2, Zenon DEF Guarded
<1> QED
  BY <1>1, <1>2, <1>3, <1>4, <1>5, <1>6, <1>7, ScanMoves, Zenon

\* Only these operations change a thread's slots, its stack, or the value it
\* shows to `keep`.
LEMMA StackMoves ==
  ASSUME TypeOK, [Next]_vars
  PROVE  \/ /\ UNCHANGED <<slot, depth, frame, pin>>
            /\ \A t \in Thread : pc'[t] = "keep" =>
                 pc[t] = "keep" /\ ptr'[t] = ptr[t] /\ cell'[t] = cell[t]
         \/ \E t \in Thread :
              \/ Pin(t) \/ Validated(t) \/ Protect(t) \/ Unpin(t)
              \/ LoadLocked(t) \/ ReadEnd(t) \/ FallbackEnd(t) \/ Teardown(t)
<1> USE DEF TypeOK, OpTypes, Step, Start, heapVars, stackVars, opVars
<1> DEFINE Quiet == /\ UNCHANGED <<slot, depth, frame, pin>>
                    /\ \A t \in Thread : pc'[t] = "keep" =>
                         pc[t] = "keep" /\ ptr'[t] = ptr[t] /\ cell'[t] = cell[t]
<1>1. ASSUME NEW t \in Thread, Proceed(t)
      PROVE  \/ Quiet
             \/ Pin(t) \/ Validated(t) \/ Protect(t) \/ Unpin(t) \/ LoadLocked(t)
  BY <1>1, ZenonT(40) DEF Proceed, PinNone, Changed, Keep, Check, FallbackCount,
     LoadUnlock, FallbackLeave, UpdateNone, UpdateStore, TryReclaim, Scan,
     Collect, PublishLen, Unlock, DropFreed, WaitFallback, WaitCopy, WaitUnlock,
     WaitInspect, WaitDone, WaitReturn
<1>2. ASSUME NEW t \in Thread, DropOwned(t) \/ Respawn(t) PROVE Quiet
  BY <1>2, Zenon DEF DropOwned, Respawn
<1>3. ASSUME NEW t \in Thread, NEW c \in Cell, Begin(t, c) PROVE Quiet
  BY <1>3, Zenon
  DEF Begin, ReadBegin, LoadBegin, ProtectBegin, UpdateBegin, WaitBegin
<1>4. ASSUME NEW c \in Cell, DropCell(c) \/ New(c) PROVE Quiet
  BY <1>4, Zenon DEF DropCell, New
<1>5. ASSUME UNCHANGED vars PROVE Quiet
  BY <1>5, Zenon DEF vars
<1> QED
  BY <1>1, <1>2, <1>3, <1>4, <1>5, Zenon DEF Next, Finish

\* What the invariant says of a dispatch's slot.
LEMMA OwnSlot ==
  ASSUME SafeInv, NEW t \in Thread, NEW d \in 1..depth[t]
  PROVE  frame[t][d].slot # 0 =>
           /\ frame[t][d].slot \in Slot
           /\ slot[t][frame[t][d].slot] \in Addr
           /\ frame[t][d].slot # pin[t]
           /\ \A e \in 1..depth[t] :
                frame[t][e].slot = frame[t][d].slot => e = d
<1>1. TypeOK /\ FrameInv(t, d)
  BY Zenon DEF SafeInv, HazardInv
<1>2. frame[t][d].slot \in 0..SLOTS /\ frame[t][d].addr \in Addr
  BY <1>1, TopFrame, Zenon
<1>3. frame[t][d].slot # 0 => frame[t][d].slot \in Slot
  BY <1>2, SlotOf, Zenon
<1> QED
  BY <1>1, <1>2, <1>3, Zenon DEF FrameInv, Guarded

\* A dispatch that stays on the stack, with its slot, keeps its invariant.
LEMMA FrameKept ==
  ASSUME SafeInv, [Next]_vars, NEW t \in Thread, NEW d \in 1..depth[t],
         frame'[t][d] = frame[t][d],
         frame[t][d].slot # 0 =>
           /\ slot'[t][frame[t][d].slot] = slot[t][frame[t][d].slot]
           /\ frame[t][d].slot # pin'[t]
           /\ \A e \in 1..depth'[t] :
                frame'[t][e].slot = frame[t][d].slot => e = d
  PROVE  FrameInv(t, d)'
<1>1. TypeOK /\ FrameInv(t, d)
  BY Zenon DEF SafeInv, HazardInv
<1>2. current'[frame[t][d].cell] # NULL
  BY CellKept, Zenon
<1>3. ASSUME NEW s \in Slot, NEW a \in Addr, NEW c \in Cell,
             frame[t][d].slot = s, frame[t][d].addr = a, frame[t][d].cell = c
      PROVE  Guarded(t, s, a, c)'
  <2>0. s # 0
    BY SlotPositive, Zenon
  <2>1. Guarded(t, s, a, c) /\ current[c] # NULL
    BY <1>1, <1>3, <2>0, Zenon DEF FrameInv
  <2>2. slot'[t][s] = a
    BY <1>3, <2>0, <2>1, Zenon DEF Guarded
  <2> QED
    BY <1>2, <1>3, <2>1, <2>2, GuardKept, Zenon
<1>4. ASSUME frame[t][d].slot # 0
      PROVE  /\ frame[t][d].slot \in Slot
             /\ frame[t][d].addr \in Addr
             /\ frame[t][d].cell \in Cell
  BY <1>1, <1>4, TopFrame, OwnSlot, Zenon
<1>5. frame[t][d].slot # 0 =>
        Guarded(t, frame[t][d].slot, frame[t][d].addr, frame[t][d].cell)'
  BY <1>3, <1>4, ZenonT(40) DEF Guarded
<1> QED
  BY <1>2, <1>5, Zenon DEF FrameInv

\* A dispatch that begins leaves the ones below it guarded: it takes the slot
\* that its own protect has pinned, or none.
LEMMA BelowKept ==
  ASSUME SafeInv, [Next]_vars, NEW t \in Thread, NEW f, Push(t, f),
         depth[t] + 1 \in Level, f.slot = 0 \/ f.slot = pin[t], slot' = slot,
         NEW u \in Thread, NEW d \in 1..depth[u], pin'[u] = 0 \/ pin'[u] = pin[u]
  PROVE  FrameInv(u, d)'
<1>0. StackTypes
  BY Zenon DEF SafeInv, TypeOK
<1>1. frame'[u][d] = frame[u][d]
  BY <1>0, PushKeeps, Zenon
<1>2. ASSUME NEW e \in 1..depth'[u], frame[u][d].slot # 0,
             frame'[u][e].slot = frame[u][d].slot
      PROVE  e = d
  <2>1. CASE e \in 1..depth[u]
    <3>1. frame'[u][e] = frame[u][e]
      BY <1>0, <2>1, PushKeeps, Zenon
    <3> QED
      BY <1>2, <2>1, <3>1, OwnSlot, Zenon
  <2>2. CASE u = t /\ e = depth[t] + 1
    <3>1. frame'[u][e].slot = f.slot
      BY <1>0, <2>2, PushTop, Zenon
    <3>2. frame[u][d].slot # pin[u]
      BY <1>2, OwnSlot, Zenon
    <3> QED
      BY <1>2, <2>2, <3>1, <3>2, Zenon
  <2> QED
    BY <1>0, <2>1, <2>2, PushLevels, Zenon
<1>3. frame[u][d].slot # 0 => frame[u][d].slot # pin'[u]
  BY OwnSlot, Zenon
<1> QED
  BY <1>1, <1>2, <1>3, FrameKept, Zenon

\* The value shown to `keep` stays guarded.
LEMMA KeepKept ==
  ASSUME SafeInv, [Next]_vars, NEW t \in Thread, pc[t] = "keep",
         slot'[t][pin[t]] = slot[t][pin[t]], pin'[t] = pin[t],
         ptr'[t] = ptr[t], cell'[t] = cell[t]
  PROVE  Guarded(t, pin[t], ptr[t], cell[t])'
<1>0. TypeOK /\ OpInv
  BY Zenon DEF SafeInv
<1>1. pin[t] \in Slot /\ ptr[t] \in Addr /\ cell[t] \in Cell
  BY <1>0, PinnedOp, Zenon
<1>2. current[cell[t]] # NULL /\ current'[cell[t]] # NULL
  <2>1. pc[t] # "user"
    BY Zenon
  <2> QED
    BY <1>0, <2>1, CellOfOp, CellKept, Zenon
<1>3. ASSUME NEW s \in Slot, NEW a \in Addr, NEW c \in Cell,
             pin[t] = s, ptr[t] = a, cell[t] = c
      PROVE  Guarded(t, s, a, c)'
  <2>1. Guarded(t, s, a, c)
    BY <1>3, Zenon DEF SafeInv, HazardInv
  <2>2. slot'[t][s] = a
    BY <1>3, <2>1, Zenon DEF Guarded
  <2> QED
    BY <1>2, <1>3, <2>1, <2>2, GuardKept, Zenon
<1> QED
  BY <1>1, <1>3, Zenon DEF Guarded

\* A value that has just been validated is guarded.
LEMMA ValidatedGuarded ==
  ASSUME SafeInv, NEW t \in Thread, Validated(t),
         NEW s \in Slot, NEW a \in Addr, NEW c \in Cell,
         pin[t] = s, ptr[t] = a, cell[t] = c
  PROVE  Guarded(t, s, a, c)'
<1>1. slot[t][s] = a /\ current[c] = a /\ a \notin retired[c]
  BY ConstantsAssumption, Zenon
  DEF SafeInv, Validated, Step, OpInv, OpOf, PlaceInv, TypeOK, CellTypes
<1> QED
  BY <1>1, Zenon DEF Validated, Guarded, cellVars, heapVars

\* Every step keeps every announced value guarded.
LEMMA HazardStep ==
  ASSUME SafeInv, [Next]_vars
  PROVE  HazardInv'
<1>0. TypeOK /\ StackTypes /\ OpInv
  BY Zenon DEF SafeInv, TypeOK
<1>1. CASE /\ UNCHANGED <<slot, depth, frame, pin>>
           /\ \A t \in Thread : pc'[t] = "keep" =>
                pc[t] = "keep" /\ ptr'[t] = ptr[t] /\ cell'[t] = cell[t]
  <2>1. ASSUME NEW t \in Thread, NEW d \in 1..depth'[t] PROVE FrameInv(t, d)'
    BY <1>1, OwnSlot, FrameKept, Zenon
  <2>2. ASSUME NEW t \in Thread, pc'[t] = "keep"
        PROVE  Guarded(t, pin[t], ptr[t], cell[t])'
    BY <1>1, <2>2, KeepKept, Zenon
  <2> QED
    BY <2>1, <2>2, Zenon DEF HazardInv
<1>2. ASSUME NEW t \in Thread, Pin(t) PROVE HazardInv'
  <2>1. PICK i \in Slot : /\ slot[t][i] = NULL
                          /\ slot' = [slot EXCEPT ![t][i] = ptr[t]]
                          /\ pin' = [pin EXCEPT ![t] = i]
    BY <1>2, Zenon DEF Pin, FreeSlots
  <2>2. UNCHANGED <<depth, frame, ptr, cell>>
    BY <1>2, Zenon DEF Pin, stackVars
  <2>t. /\ slot \in [Thread -> [Slot -> Addr \cup {NULL}]]
        /\ pin \in [Thread -> 0..SLOTS]
        /\ NULL \notin Addr
    BY <1>0, ConstantsAssumption, Zenon DEF TypeOK, HeapTypes, OpTypes
  <2>3. ASSUME NEW u \in Thread, NEW d \in 1..depth'[u] PROVE FrameInv(u, d)'
    <3>1. d \in 1..depth[u]
      BY <2>2, Zenon
    <3>2. PICK x : x = frame[u][d].slot
      BY Zenon
    <3>3. x # 0 => x \in Slot /\ x # pin[u] /\ slot[u][x] \in Addr
      BY <3>1, <3>2, OwnSlot, Zenon
    <3>4. ASSUME x # 0 PROVE slot'[u][x] = slot[u][x] /\ x # pin'[u]
      <4>1. CASE u # t
        BY <2>1, <2>t, <3>3, <3>4, <4>1, Zenon
      <4>2. CASE u = t
        <5>1. x \in Slot /\ x # i
          BY <2>1, <2>t, <3>3, <3>4, <4>2, Zenon
        <5> QED
          BY <2>1, <2>t, <4>2, <5>1, Zenon
      <4> QED
        BY <4>1, <4>2, Zenon
    <3> QED
      BY <2>2, <3>1, <3>2, <3>4, OwnSlot, FrameKept, Zenon
  <2>4. ASSUME NEW u \in Thread, pc'[u] = "keep"
        PROVE  Guarded(u, pin[u], ptr[u], cell[u])'
    <3>1. u # t /\ pc[u] = "keep"
      BY <1>0, <1>2, <2>4, Zenon DEF Pin, Step, TypeOK, OpTypes
    <3>2. slot'[u] = slot[u] /\ pin'[u] = pin[u]
      BY <2>1, <2>t, <3>1, Zenon
    <3> QED
      BY <2>2, <3>1, <3>2, KeepKept, Zenon
  <2> QED
    BY <2>3, <2>4, Zenon DEF HazardInv
<1>3. ASSUME NEW t \in Thread, Validated(t) PROVE HazardInv'
  <2>0. /\ pc[t] = "validate"
        /\ pin[t] \in Slot /\ ptr[t] \in Addr /\ cell[t] \in Cell
    <3>1. pc[t] = "validate"
      BY <1>3, Zenon DEF Validated, Step
    <3> QED
      BY <1>0, <3>1, PinnedOp, Zenon
  <2>1. UNCHANGED <<slot, cell, current>> /\ current[cell[t]] # NULL
    <3>1. "validate" # "user"
      OBVIOUS
    <3>2. current[cell[t]] # NULL
      BY <1>0, <2>0, <3>1, CellOfOp, Zenon
    <3> QED
      BY <1>3, <3>2, Zenon DEF Validated, cellVars, heapVars
  <2>2. ASSUME NEW s \in Slot, NEW a \in Addr, NEW c \in Cell,
               pin[t] = s, ptr[t] = a, cell[t] = c
        PROVE  Guarded(t, s, a, c)'
    BY <1>3, <2>2, ValidatedGuarded, Zenon
  <2>3. CASE owning[t]
    <3>1. UNCHANGED <<depth, frame, pin, ptr>>
      BY <1>3, <2>3, Zenon DEF Validated
    <3>2. ASSUME NEW u \in Thread, NEW d \in 1..depth'[u] PROVE FrameInv(u, d)'
      BY <2>1, <3>1, OwnSlot, FrameKept, Zenon
    <3>3. ASSUME NEW u \in Thread, pc'[u] = "keep"
          PROVE  Guarded(u, pin[u], ptr[u], cell[u])'
      <4>1. CASE u = t
        BY <2>0, <2>1, <2>2, <3>1, <4>1, Zenon DEF Guarded
      <4>2. CASE u # t
        <5>1. pc[u] = "keep"
          BY <1>0, <1>3, <3>3, <4>2, Zenon DEF Validated, Step, TypeOK, OpTypes
        <5> QED
          BY <2>1, <3>1, <5>1, KeepKept, Zenon
      <4> QED
        BY <4>1, <4>2, Zenon
    <3> QED
      BY <3>2, <3>3, Zenon DEF HazardInv
  <2>4. CASE ~owning[t]
    <3>1. PICK f : f = [cell |-> cell[t], addr |-> ptr[t], slot |-> pin[t]]
      BY Zenon
    <3>2. f.cell = cell[t] /\ f.addr = ptr[t] /\ f.slot = pin[t]
      BY <3>1, Zenon
    <3>3. Push(t, f) /\ pin' = [pin EXCEPT ![t] = 0]
      BY <1>3, <2>4, <3>1, Zenon DEF Validated
    <3>4. depth[t] + 1 \in Level
      BY <1>0, <2>0, <2>4, RoomForDispatch, Zenon
    <3>5. \A u \in Thread : pin'[u] = 0 \/ pin'[u] = pin[u]
      BY <1>0, <3>3, Zenon DEF TypeOK, OpTypes
    <3>6. ASSUME NEW u \in Thread, NEW d \in 1..depth[u] PROVE FrameInv(u, d)'
      BY <2>1, <3>2, <3>3, <3>4, <3>5, BelowKept, Zenon
    <3>7. ASSUME NEW k, k = depth[t] + 1 PROVE FrameInv(t, k)'
      <4>1. frame'[t][k] = f
        BY <1>0, <3>3, <3>4, <3>7, PushTop, Zenon
      <4>2. current'[f.cell] # NULL /\ pin'[t] = 0
        BY <1>0, <2>0, <2>1, <2>2, <3>2, <3>3, Zenon
        DEF Guarded, TypeOK, OpTypes
      <4>3. ASSUME NEW e \in 1..depth'[t], frame'[t][e].slot = f.slot PROVE e = k
        <5>1. ASSUME e \in 1..depth[t] PROVE FALSE
          <6>1. frame'[t][e] = frame[t][e]
            BY <1>0, <3>3, <3>4, <5>1, PushKeeps, Zenon
          <6>2. pin[t] # 0
            BY <2>0, SlotPositive, Zenon
          <6> QED
            BY <3>2, <4>3, <5>1, <6>1, <6>2, OwnSlot, Zenon
        <5> QED
          BY <1>0, <3>3, <3>7, <5>1, PushLevels, Zenon
      <4>4. Guarded(t, frame[t][k].slot, frame[t][k].addr, frame[t][k].cell)'
        BY <2>0, <2>2, <3>2, <4>1, Zenon DEF Guarded
      <4>5. f.slot # 0
        BY <2>0, <3>2, SlotPositive, Zenon
      <4> QED
        BY <4>1, <4>2, <4>3, <4>4, <4>5, Zenon DEF FrameInv
    <3>8. ASSUME NEW u \in Thread, NEW d \in 1..depth'[u] PROVE FrameInv(u, d)'
      BY <1>0, <3>3, <3>6, <3>7, PushLevels, Zenon
    <3>9. ASSUME NEW u \in Thread, pc'[u] = "keep"
          PROVE  Guarded(u, pin[u], ptr[u], cell[u])'
      <4>1. u # t /\ pc[u] = "keep" /\ ptr'[u] = ptr[u] /\ pin'[u] = pin[u]
        BY <1>0, <1>3, <2>4, <3>9, Zenon DEF Validated, Step, TypeOK, OpTypes
      <4> QED
        BY <2>1, <4>1, KeepKept, Zenon
    <3> QED
      BY <3>8, <3>9, Zenon DEF HazardInv
  <2> QED
    BY <2>3, <2>4, Zenon
<1>4. ASSUME NEW t \in Thread, Protect(t) \/ Unpin(t) PROVE HazardInv'
  <2>1. /\ pin[t] \in Slot
        /\ \E p : slot' = [slot EXCEPT ![t][pin[t]] = p]
        /\ UNCHANGED <<depth, frame, ptr, cell>>
        /\ \A u \in Thread : pin'[u] = pin[u] \/ (u = t /\ pin'[u] = 0)
        /\ \A u \in Thread : pc'[u] = "keep" =>
             u # t /\ pc[u] = "keep" /\ pin'[u] = pin[u]
    <3>1. pin[t] \in 0..SLOTS /\ pin[t] # 0
      BY <1>0, <1>4, Zenon
      DEF Protect, Unpin, Step, TypeOK, OpTypes, OpInv, OpOf
    <3>2. pin[t] \in Slot
      BY <3>1 DEF Slot
    <3>3. /\ \E p : slot' = [slot EXCEPT ![t][pin[t]] = p]
          /\ UNCHANGED <<depth, frame, ptr, cell>>
          /\ \E l \in {"validate", "check", "user"} : pc' = [pc EXCEPT ![t] = l]
          /\ pin' = pin \/ pin' = [pin EXCEPT ![t] = 0]
      BY <1>4, Zenon DEF Protect, Unpin, Step, stackVars, opVars
    <3> QED
      BY <1>0, <3>2, <3>3, ZenonT(40) DEF TypeOK, OpTypes
  <2>2. ASSUME NEW u \in Thread, NEW d \in 1..depth'[u] PROVE FrameInv(u, d)'
    <3>1. d \in 1..depth[u]
      BY <2>1, Zenon
    <3>2. frame[u][d].slot # 0 =>
            /\ slot'[u][frame[u][d].slot] = slot[u][frame[u][d].slot]
            /\ frame[u][d].slot # pin'[u]
      <4>1. slot \in [Thread -> [Slot -> Addr \cup {NULL}]]
        BY <1>0, Zenon DEF TypeOK, HeapTypes
      <4>2. PICK p : slot' = [slot EXCEPT ![t][pin[t]] = p]
        BY <2>1, Zenon
      <4>3. PICK x : x = frame[u][d].slot
        BY Zenon
      <4>4. x # 0 => x \in Slot /\ x # pin[u]
        BY <3>1, <4>3, OwnSlot, Zenon
      <4>5. x # 0 => x # pin'[u]
        BY <2>1, <4>4, Zenon
      <4>6. ASSUME x # 0 PROVE slot'[u][x] = slot[u][x]
        <5>1. CASE u # t
          BY <4>1, <4>2, <5>1, Zenon
        <5>2. CASE u = t
          <6>1. x \in Slot /\ x # pin[t]
            BY <4>4, <4>6, <5>2, Zenon
          <6> QED
            BY <2>1, <4>1, <4>2, <5>2, <6>1, Zenon
        <5> QED
          BY <5>1, <5>2, Zenon
      <4> QED
        BY <4>3, <4>5, <4>6, Zenon
    <3> QED
      BY <2>1, <3>1, <3>2, OwnSlot, FrameKept, Zenon
  <2>3. ASSUME NEW u \in Thread, pc'[u] = "keep"
        PROVE  Guarded(u, pin[u], ptr[u], cell[u])'
    <3>1. slot'[u] = slot[u]
      BY <1>0, <2>1, <2>3, Zenon DEF TypeOK, HeapTypes
    <3> QED
      BY <2>1, <2>3, <3>1, KeepKept, Zenon
  <2> QED
    BY <2>2, <2>3, Zenon DEF HazardInv
<1>5. ASSUME NEW t \in Thread, LoadLocked(t) PROVE HazardInv'
  <2>0. /\ pc[t] = "clone" /\ cell[t] \in Cell /\ current[cell[t]] # NULL
        /\ current[cell[t]] \in Addr
    <3>1. pc[t] = "clone"
      BY <1>5, Zenon DEF LoadLocked, Step
    <3>2. "clone" # "user"
      OBVIOUS
    <3> QED
      BY <1>0, <3>1, <3>2, CellOfOp, Zenon
  <2>1. UNCHANGED <<slot, pin, ptr, cell, current>>
    BY <1>5, Zenon DEF LoadLocked, cellVars, opVars
  <2>2. ASSUME NEW u \in Thread, pc'[u] = "keep"
        PROVE  Guarded(u, pin[u], ptr[u], cell[u])'
    <3>1. pc[u] = "keep"
      BY <1>0, <1>5, <2>2, Zenon DEF LoadLocked, Step, TypeOK, OpTypes
    <3> QED
      BY <2>1, <3>1, KeepKept, Zenon
  <2>3. CASE owning[t]
    <3>1. UNCHANGED <<depth, frame>>
      BY <1>5, <2>3, Zenon DEF LoadLocked
    <3>2. ASSUME NEW u \in Thread, NEW d \in 1..depth'[u] PROVE FrameInv(u, d)'
      BY <2>1, <3>1, OwnSlot, FrameKept, Zenon
    <3> QED
      BY <2>2, <3>2, Zenon DEF HazardInv
  <2>4. CASE ~owning[t]
    <3>1. PICK f : f = [cell |-> cell[t], addr |-> current[cell[t]], slot |-> 0]
      BY Zenon
    <3>2. f.cell = cell[t] /\ f.slot = 0
      BY <3>1, Zenon
    <3>3. Push(t, f)
      BY <1>5, <2>4, <3>1, Zenon DEF LoadLocked
    <3>4. depth[t] + 1 \in Level
      BY <1>0, <2>0, <2>4, RoomForDispatch, Zenon
    <3>5. ASSUME NEW u \in Thread, NEW d \in 1..depth[u] PROVE FrameInv(u, d)'
      BY <2>1, <3>2, <3>3, <3>4, BelowKept, Zenon
    <3>6. ASSUME NEW k, k = depth[t] + 1 PROVE FrameInv(t, k)'
      <4>1. frame'[t][k] = f
        BY <1>0, <3>3, <3>4, <3>6, PushTop, Zenon
      <4> QED
        BY <2>0, <2>1, <3>2, <4>1, Zenon DEF FrameInv
    <3>7. ASSUME NEW u \in Thread, NEW d \in 1..depth'[u] PROVE FrameInv(u, d)'
      BY <1>0, <3>3, <3>5, <3>6, PushLevels, Zenon
    <3> QED
      BY <2>2, <3>7, Zenon DEF HazardInv
  <2> QED
    BY <2>3, <2>4, Zenon
<1>6. ASSUME NEW t \in Thread, ReadEnd(t) \/ FallbackEnd(t) PROVE HazardInv'
  <2>1. depth[t] > 0 /\ Pop(t) /\ UNCHANGED <<pin, ptr>>
    BY <1>6, Zenon DEF ReadEnd, FallbackEnd
  <2>2. /\ \A u \in Thread \ {t} : slot'[u] = slot[u]
        /\ \A i \in Slot : i # frame[t][depth[t]].slot => slot'[t][i] = slot[t][i]
    <3>1. CASE ReadEnd(t)
      BY <1>0, <3>1, Zenon DEF ReadEnd, TypeOK, HeapTypes
    <3>2. CASE FallbackEnd(t)
      BY <3>2, Zenon DEF FallbackEnd
    <3> QED
      BY <1>6, <3>1, <3>2, Zenon
  <2>3. ASSUME NEW u \in Thread, NEW d \in 1..depth'[u] PROVE FrameInv(u, d)'
    <3>1. /\ d \in 1..depth[u] /\ frame'[u][d] = frame[u][d]
          /\ u = t => d # depth[t]
      BY <1>0, <2>1, PopKeeps, Zenon
    <3>2. depth[t] \in 1..depth[t]
      BY <1>0, <2>1, LevelTop, Zenon DEF StackTypes
    <3>3. PICK x : x = frame[u][d].slot
      BY Zenon
    <3>4. ASSUME x # 0 PROVE x \in Slot /\ x # pin[u]
      BY <3>1, <3>3, <3>4, OwnSlot, Zenon
    <3>5. ASSUME x # 0 PROVE slot'[u][x] = slot[u][x]
      <4>1. CASE u # t
        BY <2>2, <4>1, Zenon
      <4>2. CASE u = t
        <5>1. x # frame[t][depth[t]].slot
          BY <3>1, <3>2, <3>3, <3>5, <4>2, OwnSlot, Zenon
        <5> QED
          BY <2>2, <3>4, <3>5, <4>2, <5>1, Zenon
      <4> QED
        BY <4>1, <4>2, Zenon
    <3>6. ASSUME NEW e \in 1..depth'[u], x # 0, frame'[u][e].slot = x PROVE e = d
      <4>1. e \in 1..depth[u] /\ frame'[u][e] = frame[u][e]
        BY <1>0, <2>1, PopKeeps, Zenon
      <4> QED
        BY <3>1, <3>3, <3>6, <4>1, OwnSlot, Zenon
    <3> QED
      BY <2>1, <3>1, <3>3, <3>4, <3>5, <3>6, FrameKept, Zenon
  <2>4. ASSUME NEW u \in Thread, pc'[u] = "keep"
        PROVE  Guarded(u, pin[u], ptr[u], cell[u])'
    <3>1. u # t /\ pc[u] = "keep" /\ cell'[u] = cell[u]
      BY <1>0, <1>6, <2>4, Zenon DEF ReadEnd, FallbackEnd, Step, TypeOK, OpTypes
    <3> QED
      BY <2>1, <2>2, <3>1, KeepKept, Zenon
  <2> QED
    BY <2>3, <2>4, Zenon DEF HazardInv
<1>7. ASSUME NEW t \in Thread, Teardown(t) PROVE HazardInv'
  <2>1. /\ pc[t] = "user" /\ depth[t] = 0
        /\ \A u \in Thread \ {t} : slot'[u] = slot[u]
        /\ UNCHANGED <<pc, depth, frame, pin, ptr, cell>>
    BY <1>0, <1>7, Zenon DEF Teardown, opVars, TypeOK, HeapTypes
  <2>2. ASSUME NEW u \in Thread, NEW d \in 1..depth'[u] PROVE FrameInv(u, d)'
    <3>1. d \in 1..depth[u] /\ u # t
      BY <2>1, SMT
    <3> QED
      BY <2>1, <3>1, OwnSlot, FrameKept, Zenon
  <2>3. ASSUME NEW u \in Thread, pc'[u] = "keep"
        PROVE  Guarded(u, pin[u], ptr[u], cell[u])'
    BY <2>1, <2>3, KeepKept, Zenon
  <2> QED
    BY <2>2, <2>3, Zenon DEF HazardInv
<1> QED
  BY <1>0, <1>1, <1>2, <1>3, <1>4, <1>5, <1>6, <1>7, StackMoves, Zenon

-----------------------------------------------------------------------------
(* The counts *)

\* Only these operations change a strong count or who refers to a value.
LEMMA RefMoves ==
  ASSUME [Next]_vars
  PROVE  \/ UNCHANGED <<strong, current, retired, freed, owned, depth, frame>>
         \/ \E t \in Thread :
              \/ Validated(t) \/ Keep(t) \/ LoadLocked(t) \/ ReadEnd(t)
              \/ FallbackEnd(t) \/ DropOwned(t) \/ UpdateStore(t) \/ Collect(t)
              \/ DropFreed(t)
         \/ \E c \in Cell : DropCell(c) \/ New(c)
<1> USE DEF cellVars, heapVars, stackVars, scanVars
<1> DEFINE Quiet == UNCHANGED <<strong, current, retired, freed, owned, depth,
                                frame>>
<1>1. ASSUME NEW t \in Thread, Proceed(t)
      PROVE  \/ Quiet
             \/ Validated(t) \/ Keep(t) \/ LoadLocked(t) \/ UpdateStore(t)
             \/ Collect(t) \/ DropFreed(t)
  BY <1>1, ZenonT(40) DEF Proceed, Pin, PinNone, Changed, Protect, Unpin, Check,
     FallbackCount, LoadUnlock, FallbackLeave, UpdateNone, TryReclaim, Scan,
     PublishLen, Unlock, WaitFallback, WaitCopy, WaitUnlock, WaitInspect,
     WaitDone, WaitReturn
<1>2. ASSUME NEW t \in Thread, Teardown(t) \/ Respawn(t) PROVE Quiet
  BY <1>2, Zenon DEF Teardown, Respawn
<1>3. ASSUME NEW t \in Thread, NEW c \in Cell, Begin(t, c) PROVE Quiet
  BY <1>3, Zenon
  DEF Begin, ReadBegin, LoadBegin, ProtectBegin, UpdateBegin, WaitBegin
<1>4. ASSUME UNCHANGED vars PROVE Quiet
  BY <1>4, Zenon DEF vars
<1> QED
  BY <1>1, <1>2, <1>3, <1>4, Zenon DEF Next, Finish

\* A fallback dispatch is a thread and a level of its stack.
LEMMA PairOf ==
  ASSUME NEW e \in Thread \X Level
  PROVE  \E u \in Thread, d \in Level : e = <<u, d>>
  OBVIOUS

\* A dispatch that begins adds its own frame to the references of fallback
\* dispatches if it is on the fallback path, and nothing otherwise.
LEMMA FramesPushed ==
  ASSUME StackTypes, NEW t \in Thread, NEW f \in Frame, Push(t, f),
         NEW k \in Level, k = depth[t] + 1, NEW a \in Addr
  PROVE  /\ <<t, k>> \notin FramesOf(a)
         /\ FramesOf(a)' = IF f.slot = 0 /\ f.addr = a
                           THEN FramesOf(a) \cup {<<t, k>>}
                           ELSE FramesOf(a)
<1> DEFINE F(u, d) == d <= depth[u] /\ frame[u][d].slot = 0 /\ frame[u][d].addr = a
           G(u, d) == d <= depth'[u] /\ frame'[u][d].slot = 0 /\ frame'[u][d].addr = a
<1>1. FramesOf(a) = {e \in Thread \X Level : F(e[1], e[2])}
  BY Zenon DEF FramesOf, FallbackFrames
<1>2. FramesOf(a)' = {e \in Thread \X Level : G(e[1], e[2])}
  BY Zenon DEF FramesOf, FallbackFrames
<1>3. /\ depth' = [depth EXCEPT ![t] = k]
      /\ frame' = [frame EXCEPT ![t][k] = f]
  BY Zenon DEF Push
<1>4. ~F(t, k) /\ (G(t, k) <=> f.slot = 0 /\ f.addr = a)
  <2>1. ~(k <= depth[t]) /\ depth'[t] = k /\ k \in Int
    BY <1>3 DEF StackTypes, Level
  <2>2. frame'[t][k] = f
    BY <1>3, Zenon DEF StackTypes
  <2> QED
    BY <2>1, <2>2
<1>5. ASSUME NEW u \in Thread, NEW d \in Level, u # t \/ d # k
      PROVE  G(u, d) <=> F(u, d)
  <2>1. frame'[u][d] = frame[u][d]
    BY <1>3, <1>5, Zenon DEF StackTypes
  <2>2. d <= depth'[u] <=> d <= depth[u]
    BY <1>3, <1>5 DEF StackTypes, Level
  <2> QED
    BY <2>1, <2>2, Zenon
<1> HIDE DEF F, G
<1>6. <<t, k>> \notin FramesOf(a)
  BY <1>1, <1>4, Zenon
<1>7. ASSUME NEW e \in Thread \X Level, e # <<t, k>>
      PROVE  e \in FramesOf(a)' <=> e \in FramesOf(a)
  <2>1. PICK u \in Thread, d \in Level : e = <<u, d>>
    BY PairOf, Zenon
  <2> QED
    BY <1>1, <1>2, <1>5, <1>7, <2>1, Zenon
<1>8. <<t, k>> \in FramesOf(a)' <=> f.slot = 0 /\ f.addr = a
  BY <1>2, <1>4, Zenon
<1>9. FramesOf(a) \subseteq Thread \X Level /\ FramesOf(a)' \subseteq Thread \X Level
  BY <1>1, <1>2, Zenon
<1> QED
  BY <1>6, <1>7, <1>8, <1>9

\* A dispatch that ends (release, read_fallback) takes away its own frame
\* and no other.
LEMMA FramesPopped ==
  ASSUME StackTypes, NEW t \in Thread, Pop(t),
         NEW k \in Level, k = depth[t], NEW a \in Addr
  PROVE  /\ <<t, k>> \in FramesOf(a)
              <=> frame[t][k].slot = 0 /\ frame[t][k].addr = a
         /\ FramesOf(a)' = FramesOf(a) \ {<<t, k>>}
<1> DEFINE F(u, d) == d <= depth[u] /\ frame[u][d].slot = 0 /\ frame[u][d].addr = a
           G(u, d) == d <= depth'[u] /\ frame'[u][d].slot = 0 /\ frame'[u][d].addr = a
<1>1. FramesOf(a) = {e \in Thread \X Level : F(e[1], e[2])}
  BY Zenon DEF FramesOf, FallbackFrames
<1>2. FramesOf(a)' = {e \in Thread \X Level : G(e[1], e[2])}
  BY Zenon DEF FramesOf, FallbackFrames
<1>3. /\ depth' = [depth EXCEPT ![t] = k - 1]
      /\ frame' = [frame EXCEPT ![t][k] = NoFrame]
  BY Zenon DEF Pop
<1>4. /\ F(t, k) <=> frame[t][k].slot = 0 /\ frame[t][k].addr = a
      /\ ~G(t, k)
  BY <1>3 DEF StackTypes, Level
<1>5. ASSUME NEW u \in Thread, NEW d \in Level, u # t \/ d # k
      PROVE  G(u, d) <=> F(u, d)
  <2>1. frame'[u][d] = frame[u][d]
    BY <1>3, <1>5, Zenon DEF StackTypes
  <2>2. d <= depth'[u] <=> d <= depth[u]
    BY <1>3, <1>5 DEF StackTypes, Level
  <2> QED
    BY <2>1, <2>2, Zenon
<1> HIDE DEF F, G
<1>6. <<t, k>> \in FramesOf(a) <=> F(t, k)
  BY <1>1, Zenon
<1>7. ASSUME NEW e \in Thread \X Level, e # <<t, k>>
      PROVE  e \in FramesOf(a)' <=> e \in FramesOf(a)
  <2>1. PICK u \in Thread, d \in Level : e = <<u, d>>
    BY PairOf, Zenon
  <2> QED
    BY <1>1, <1>2, <1>5, <1>7, <2>1, Zenon
<1>8. <<t, k>> \notin FramesOf(a)'
  BY <1>2, <1>4, Zenon
<1>9. FramesOf(a) \subseteq Thread \X Level /\ FramesOf(a)' \subseteq Thread \X Level
  BY <1>1, <1>2, Zenon
<1> QED
  BY <1>4, <1>6, <1>7, <1>8, <1>9, Zenon

\* One reference more.
LEMMA CardPlus ==
  ASSUME NEW S, IsFiniteSet(S), NEW x, x \notin S
  PROVE  Cardinality(S \cup {x}) = Cardinality(S) + 1
  BY FS_AddElement, Zenon

\* One reference less.
LEMMA CardMinus ==
  ASSUME NEW S, IsFiniteSet(S), NEW x, x \in S
  PROVE  Cardinality(S \ {x}) = Cardinality(S) - 1
  BY FS_RemoveElement, Zenon

\* A dispatch over an announcement is no reference, when it begins ...
LEMMA AnnouncedPushed ==
  ASSUME StackTypes, NEW t \in Thread, NEW f \in Frame, Push(t, f),
         depth[t] + 1 \in Level, f.slot # 0, NEW a \in Addr
  PROVE  FramesOf(a)' = FramesOf(a)
<1>1. PICK k \in Level : k = depth[t] + 1
  BY Zenon
<1> QED
  BY <1>1, FramesPushed, Zenon

\* ... and when it ends.
LEMMA AnnouncedPopped ==
  ASSUME StackTypes, NEW t \in Thread, Pop(t), depth[t] \in Level,
         frame[t][depth[t]].slot # 0, NEW a \in Addr
  PROVE  FramesOf(a)' = FramesOf(a)
<1>1. PICK k \in Level : k = depth[t]
  BY Zenon
<1>2. <<t, k>> \notin FramesOf(a) /\ FramesOf(a)' = FramesOf(a) \ {<<t, k>>}
  BY <1>1, FramesPopped, SMT
<1> QED
  BY <1>2, Zenon

\* A dispatch on the fallback path refers to its value, and to no other.
LEMMA LockedPushed ==
  ASSUME StackTypes, NEW t \in Thread, NEW f \in Frame, Push(t, f),
         depth[t] + 1 \in Level, f.slot = 0, NEW a \in Addr
  PROVE  Cardinality(FramesOf(a))' = IF a = f.addr
                                     THEN Cardinality(FramesOf(a)) + 1
                                     ELSE Cardinality(FramesOf(a))
<1>1. PICK k \in Level : k = depth[t] + 1
  BY Zenon
<1>2. /\ <<t, k>> \notin FramesOf(a)
      /\ FramesOf(a)' = IF a = f.addr
                        THEN FramesOf(a) \cup {<<t, k>>} ELSE FramesOf(a)
  BY <1>1, FramesPushed, SMT
<1>3. Cardinality(FramesOf(a) \cup {<<t, k>>}) = Cardinality(FramesOf(a)) + 1
  BY <1>2, RefsFinite, CardPlus, Zenon
<1> QED
  BY <1>2, <1>3, Zenon

\* When it ends, it gives that reference back.
LEMMA LockedPopped ==
  ASSUME StackTypes, NEW t \in Thread, Pop(t), depth[t] \in Level,
         frame[t][depth[t]].slot = 0, NEW a \in Addr
  PROVE  Cardinality(FramesOf(a))' = IF a = frame[t][depth[t]].addr
                                     THEN Cardinality(FramesOf(a)) - 1
                                     ELSE Cardinality(FramesOf(a))
<1>1. PICK k \in Level : k = depth[t]
  BY Zenon
<1>2. /\ <<t, k>> \in FramesOf(a) <=> a = frame[t][depth[t]].addr
      /\ FramesOf(a)' = FramesOf(a) \ {<<t, k>>}
  BY <1>1, FramesPopped, SMT
<1>3. Cardinality(FramesOf(a) \ {<<t, k>>}) =
        IF <<t, k>> \in FramesOf(a)
        THEN Cardinality(FramesOf(a)) - 1 ELSE Cardinality(FramesOf(a))
  BY RefsFinite, FS_RemoveElement, Zenon
<1> QED
  BY <1>2, <1>3, Zenon

\* Every step keeps the strong counts exact.
LEMMA RefStep ==
  ASSUME SafeInv, [Next]_vars
  PROVE  RefcountExact'
<1> SUFFICES ASSUME NEW a \in Addr PROVE (strong[a] = References(a))'
  BY Zenon DEF RefcountExact
<1>0. /\ TypeOK /\ StackTypes /\ OpInv
      /\ strong[a] = References(a) /\ strong[a] \in Int /\ a # NULL
  BY ConstantsAssumption, Zenon DEF SafeInv, RefcountExact, TypeOK, HeapTypes
<1>1. CASE UNCHANGED <<strong, current, retired, freed, owned, depth, frame>>
  BY <1>0, <1>1, Zenon DEF References, CurrentOf, RetiredOf, FreedOf, OwnedOf,
     FramesOf, FallbackFrames
<1>2. ASSUME NEW t \in Thread, Validated(t) \/ ReadEnd(t)
      PROVE  (strong[a] = References(a))'
  <2>1. FramesOf(a)' = FramesOf(a)
    <3>1. CASE Validated(t)
      <4>1. CASE owning[t]
        BY <3>1, <4>1, Zenon DEF Validated, FramesOf, FallbackFrames
      <4>2. CASE ~owning[t]
        <5>1. pc[t] = "validate"
          BY <3>1, Zenon DEF Validated, Step
        <5>2. /\ cell[t] \in Cell /\ ptr[t] \in Addr
              /\ pin[t] \in 0..SLOTS /\ pin[t] # 0
          BY <1>0, <5>1, PinnedOp, Zenon
        <5>3. PICK f \in Frame :
                f = [cell |-> cell[t], addr |-> ptr[t], slot |-> pin[t]]
          BY <5>2, FrameOf, Zenon
        <5>4. Push(t, f) /\ f.slot # 0
          BY <3>1, <4>2, <5>2, <5>3, Zenon DEF Validated
        <5>5. depth[t] + 1 \in Level
          BY <1>0, <4>2, <5>1, RoomForDispatch, Zenon
        <5> QED
          BY <1>0, <5>4, <5>5, AnnouncedPushed, Zenon
      <4> QED
        BY <4>1, <4>2, Zenon
    <3>2. CASE ReadEnd(t)
      <4>1. depth[t] > 0 /\ Pop(t) /\ frame[t][depth[t]].slot # 0
        BY <3>2, Zenon DEF ReadEnd
      <4>2. depth[t] \in Level
        BY <1>0, <4>1, LevelTop, Zenon DEF StackTypes
      <4> QED
        BY <1>0, <4>1, <4>2, AnnouncedPopped, Zenon
    <3> QED
      BY <1>2, <3>1, <3>2, Zenon
  <2> QED
    BY <1>0, <1>2, <2>1, Zenon
    DEF Validated, ReadEnd, References, CurrentOf, RetiredOf,
       FreedOf, OwnedOf, cellVars, heapVars, scanVars
<1>3. ASSUME NEW t \in Thread, Keep(t) PROVE (strong[a] = References(a))'
  <2>1. /\ ptr[t] \in Addr /\ owned[t] = NULL
        /\ UNCHANGED <<current, retired, freed, depth, frame>>
    BY <1>0, <1>3, Zenon
    DEF Keep, Step, TypeOK, OpTypes, OpInv, OpOf, cellVars, stackVars, scanVars
  <2>2. /\ CurrentOf(a)' = CurrentOf(a) /\ RetiredOf(a)' = RetiredOf(a)
        /\ FreedOf(a)' = FreedOf(a) /\ FramesOf(a)' = FramesOf(a)
    BY <2>1, Zenon DEF CurrentOf, RetiredOf, FreedOf, FramesOf, FallbackFrames
  <2>3. CASE UNCHANGED <<strong, owned>>
    BY <1>0, <2>2, <2>3, Zenon DEF References, OwnedOf
  <2>4. CASE /\ strong' = [strong EXCEPT ![ptr[t]] = @ + 1]
             /\ owned' = [owned EXCEPT ![t] = ptr[t]]
    <3>1. CASE a = ptr[t]
      <4>1. t \notin OwnedOf(a) /\ OwnedOf(a)' = OwnedOf(a) \cup {t}
        BY <1>0, <2>1, <2>4, <3>1, Zenon DEF OwnedOf, TypeOK, HeapTypes
      <4>2. Cardinality(OwnedOf(a)') = Cardinality(OwnedOf(a)) + 1
        BY <4>1, RefsFinite, CardPlus, Zenon
      <4>3. strong'[a] = strong[a] + 1
        BY <1>0, <2>4, <3>1, Zenon DEF TypeOK, HeapTypes
      <4> QED
        BY <1>0, <2>2, <4>2, <4>3, RefsNat DEF References
    <3>2. CASE a # ptr[t]
      <4>1. OwnedOf(a)' = OwnedOf(a) /\ strong'[a] = strong[a]
        BY <1>0, <2>1, <2>4, <3>2, Zenon DEF OwnedOf, TypeOK, HeapTypes
      <4> QED
        BY <1>0, <2>2, <4>1, Zenon DEF References
    <3> QED
      BY <3>1, <3>2, Zenon
  <2> QED
    BY <1>3, <2>3, <2>4, Zenon DEF Keep
<1>4. ASSUME NEW t \in Thread, LoadLocked(t) PROVE (strong[a] = References(a))'
  <2>1. /\ cell[t] \in Cell /\ current[cell[t]] \in Addr
        /\ strong' = [strong EXCEPT ![current[cell[t]]] = @ + 1]
        /\ UNCHANGED <<current, retired, freed>>
    <3>1. /\ pc[t] = "clone"
          /\ strong' = [strong EXCEPT ![current[cell[t]]] = @ + 1]
          /\ UNCHANGED <<current, retired, freed>>
      BY <1>4, Zenon DEF LoadLocked, Step, cellVars, scanVars
    <3>2. "clone" # "user"
      OBVIOUS
    <3> QED
      BY <1>0, <3>1, <3>2, CellOfOp, Zenon
  <2>2. /\ CurrentOf(a)' = CurrentOf(a) /\ RetiredOf(a)' = RetiredOf(a)
        /\ FreedOf(a)' = FreedOf(a)
    BY <2>1, Zenon DEF CurrentOf, RetiredOf, FreedOf
  <2>3. strong'[a] = IF a = current[cell[t]] THEN strong[a] + 1 ELSE strong[a]
    BY <1>0, <2>1, Zenon DEF TypeOK, HeapTypes
  <2>4. CASE owning[t]
    <3>1. /\ owned[t] = NULL /\ owned' = [owned EXCEPT ![t] = current[cell[t]]]
          /\ FramesOf(a)' = FramesOf(a)
      <4>1. /\ pc[t] = "clone" /\ owned' = [owned EXCEPT ![t] = current[cell[t]]]
            /\ UNCHANGED <<depth, frame>>
        BY <1>4, <2>4, Zenon DEF LoadLocked, Step
      <4>2. owned[t] = NULL
        BY <1>0, <2>4, <4>1, Zenon DEF OpInv, OpOf
      <4>3. FramesOf(a)' = FramesOf(a)
        BY <4>1, Zenon DEF FramesOf, FallbackFrames
      <4> QED
        BY <4>1, <4>2, <4>3, Zenon
    <3>2. CASE a = current[cell[t]]
      <4>1. t \notin OwnedOf(a) /\ OwnedOf(a)' = OwnedOf(a) \cup {t}
        BY <1>0, <2>1, <3>1, <3>2, Zenon DEF OwnedOf, TypeOK, HeapTypes
      <4>2. Cardinality(OwnedOf(a)') = Cardinality(OwnedOf(a)) + 1
        BY <4>1, RefsFinite, CardPlus, Zenon
      <4> QED
        BY <1>0, <2>2, <2>3, <3>1, <3>2, <4>2, RefsNat DEF References
    <3>3. CASE a # current[cell[t]]
      <4>1. OwnedOf(a)' = OwnedOf(a)
        BY <1>0, <3>1, <3>3, Zenon DEF OwnedOf, TypeOK, HeapTypes
      <4> QED
        BY <1>0, <2>2, <2>3, <3>1, <3>3, <4>1, Zenon DEF References
    <3> QED
      BY <3>2, <3>3, ZenonT(40)
  <2>5. CASE ~owning[t]
    <3>1. PICK f \in Frame :
            f = [cell |-> cell[t], addr |-> current[cell[t]], slot |-> 0]
      BY <2>1, ZeroSlot, FrameOf, Zenon
    <3>2. /\ UNCHANGED owned /\ pc[t] = "clone"
          /\ Push(t, f) /\ f.slot = 0 /\ f.addr = current[cell[t]]
      BY <1>4, <2>5, <3>1, Zenon DEF LoadLocked, Step
    <3>3. OwnedOf(a)' = OwnedOf(a)
      BY <3>2, Zenon DEF OwnedOf
    <3>4. depth[t] + 1 \in Level
      BY <1>0, <2>5, <3>2, RoomForDispatch, Zenon
    <3>5. Cardinality(FramesOf(a))' = IF a = current[cell[t]]
                                      THEN Cardinality(FramesOf(a)) + 1
                                      ELSE Cardinality(FramesOf(a))
      BY <1>0, <3>2, <3>4, LockedPushed, Zenon
    <3> QED
      BY <1>0, <2>2, <2>3, <3>3, <3>5, RefsNat DEF References
  <2> QED
    BY <2>4, <2>5, Zenon
<1>5. ASSUME NEW t \in Thread, FallbackEnd(t) PROVE (strong[a] = References(a))'
  <2>1. /\ depth[t] \in Level /\ Pop(t)
        /\ frame[t][depth[t]].slot = 0
        /\ DropRefs({frame[t][depth[t]].addr})
        /\ UNCHANGED <<current, retired, freed, owned>>
    <3>1. depth[t] > 0 /\ depth[t] \in 0..MaxDepth
      BY <1>0, <1>5, Zenon DEF FallbackEnd, TypeOK, StackTypes
    <3>2. depth[t] \in Level
      BY <3>1, LevelTop, Zenon
    <3> QED
      BY <1>5, <3>2, Zenon DEF FallbackEnd, cellVars, scanVars
  <2>2. /\ CurrentOf(a)' = CurrentOf(a) /\ RetiredOf(a)' = RetiredOf(a)
        /\ FreedOf(a)' = FreedOf(a) /\ OwnedOf(a)' = OwnedOf(a)
    BY <2>1, Zenon DEF CurrentOf, RetiredOf, FreedOf, OwnedOf
  <2>3. Cardinality(FramesOf(a))' = IF a = frame[t][depth[t]].addr
                                    THEN Cardinality(FramesOf(a)) - 1
                                    ELSE Cardinality(FramesOf(a))
    BY <1>0, <2>1, LockedPopped, Zenon
  <2>4. strong'[a] = IF a = frame[t][depth[t]].addr
                     THEN strong[a] - 1 ELSE strong[a]
    BY <2>1, Zenon DEF DropRefs
  <2>5. PICK n, m \in Nat :
          /\ m = Cardinality(FramesOf(a)) /\ References(a) = n + m
          /\ References(a)' = n + Cardinality(FramesOf(a)')
    <3>1. PICK n \in Nat : n = Cardinality(CurrentOf(a)) + Cardinality(RetiredOf(a))
                                 + Cardinality(FreedOf(a)) + Cardinality(OwnedOf(a))
      BY RefsNat, SMTT(30)
    <3> QED
      BY <2>2, <3>1, RefsNat, Zenon DEF References
  <2> QED
    BY <1>0, <2>3, <2>4, <2>5
<1>6. ASSUME NEW t \in Thread, DropOwned(t) PROVE (strong[a] = References(a))'
  <2>1. /\ owned[t] # NULL /\ DropRefs({owned[t]})
        /\ owned' = [owned EXCEPT ![t] = NULL]
        /\ UNCHANGED <<current, retired, freed, depth, frame>>
    BY <1>6, Zenon DEF DropOwned, cellVars, stackVars, scanVars
  <2>2. /\ CurrentOf(a)' = CurrentOf(a) /\ RetiredOf(a)' = RetiredOf(a)
        /\ FreedOf(a)' = FreedOf(a) /\ FramesOf(a)' = FramesOf(a)
    BY <2>1, Zenon DEF CurrentOf, RetiredOf, FreedOf, FramesOf, FallbackFrames
  <2>3. OwnedOf(a)' = OwnedOf(a) \ {t} /\ (t \in OwnedOf(a) <=> a = owned[t])
    BY <1>0, <2>1, Zenon DEF OwnedOf, TypeOK, HeapTypes
  <2>4. Cardinality(OwnedOf(a)') = IF a = owned[t]
                                   THEN Cardinality(OwnedOf(a)) - 1
                                   ELSE Cardinality(OwnedOf(a))
    BY <2>3, RefsFinite, FS_RemoveElement, Zenon
  <2>5. strong'[a] = IF a = owned[t] THEN strong[a] - 1 ELSE strong[a]
    BY <2>1, Zenon DEF DropRefs
  <2> QED
    BY <1>0, <2>2, <2>4, <2>5, RefsNat, SMTT(30) DEF References
<1>7. ASSUME NEW t \in Thread, UpdateStore(t) PROVE (strong[a] = References(a))'
  <2>1. PICK b \in Addr :
          /\ strong[b] = 0
          /\ strong' = [strong EXCEPT ![b] = 1]
          /\ current' = [current EXCEPT ![cell[t]] = b]
          /\ retired' = [retired EXCEPT ![cell[t]] = @ \cup {ptr[t]}]
    BY <1>7, Zenon DEF UpdateStore
  <2>2. /\ cell[t] \in Cell /\ ptr[t] = current[cell[t]] /\ ptr[t] \in Addr
        /\ ptr[t] \notin retired[cell[t]]
    <3>1. pc[t] = "build"
      BY <1>7, Zenon DEF UpdateStore, Step
    <3>2. cell[t] \in Cell /\ ptr[t] = current[cell[t]] /\ ptr[t] # NULL
      BY <1>0, <3>1, Zenon DEF SafeInv, OpInv, OpOf, LockInv
    <3> QED
      BY <1>0, <3>2, Zenon DEF SafeInv, PlaceInv, TypeOK, OpTypes
  <2>3. UNCHANGED <<freed, owned, depth, frame>>
    BY <1>7, Zenon DEF UpdateStore, stackVars
  <2>4. /\ FreedOf(a)' = FreedOf(a) /\ OwnedOf(a)' = OwnedOf(a)
        /\ FramesOf(a)' = FramesOf(a)
    BY <2>3, Zenon DEF FreedOf, OwnedOf, FramesOf, FallbackFrames
  <2>5. ptr[t] # b /\ \A c \in Cell : current[c] # b
    BY <2>1, <2>2, Unallocated, Zenon DEF SafeInv
  <2>6. CASE a = b
    <3>1. /\ cell[t] \notin CurrentOf(a)
          /\ CurrentOf(a)' = CurrentOf(a) \cup {cell[t]}
          /\ RetiredOf(a)' = RetiredOf(a)
      BY <1>0, <2>1, <2>2, <2>5, <2>6, Zenon
      DEF CurrentOf, RetiredOf, TypeOK, CellTypes
    <3>2. Cardinality(CurrentOf(a)') = Cardinality(CurrentOf(a)) + 1
      BY <3>1, RefsFinite, CardPlus, Zenon
    <3>3. strong'[a] = strong[a] + 1
      BY <1>0, <2>1, <2>6, SMTT(30) DEF TypeOK, HeapTypes
    <3> QED
      BY <1>0, <2>4, <3>1, <3>2, <3>3, RefsNat, SMTT(30) DEF References
  <2>7. CASE a = ptr[t]
    <3>1. /\ cell[t] \in CurrentOf(a) /\ cell[t] \notin RetiredOf(a)
          /\ CurrentOf(a)' = CurrentOf(a) \ {cell[t]}
          /\ RetiredOf(a)' = RetiredOf(a) \cup {cell[t]}
      BY <1>0, <2>1, <2>2, <2>5, <2>7, Zenon
      DEF CurrentOf, RetiredOf, TypeOK, CellTypes
    <3>2. /\ Cardinality(CurrentOf(a)') = Cardinality(CurrentOf(a)) - 1
          /\ Cardinality(RetiredOf(a)') = Cardinality(RetiredOf(a)) + 1
      BY <3>1, RefsFinite, CardPlus, CardMinus, Zenon
    <3>3. strong'[a] = strong[a]
      BY <1>0, <2>1, <2>5, <2>7, Zenon DEF TypeOK, HeapTypes
    <3> QED
      BY <1>0, <2>4, <3>2, <3>3, RefsNat, SMTT(30) DEF References
  <2>8. CASE a # b /\ a # ptr[t]
    <3>1. CurrentOf(a)' = CurrentOf(a) /\ RetiredOf(a)' = RetiredOf(a)
      BY <1>0, <2>1, <2>2, <2>8, Zenon
      DEF CurrentOf, RetiredOf, TypeOK, CellTypes
    <3>2. strong'[a] = strong[a]
      BY <1>0, <2>1, <2>8, Zenon DEF TypeOK, HeapTypes
    <3> QED
      BY <1>0, <2>4, <3>1, <3>2, Zenon DEF References
  <2> QED
    BY <2>6, <2>7, <2>8, Zenon
<1>8. ASSUME NEW t \in Thread, Collect(t) PROVE (strong[a] = References(a))'
  <2>1. /\ cell[t] \in Cell /\ freed[t] = {}
        /\ freed' = [freed EXCEPT ![t] = retired[cell[t]] \ seen[t]]
        /\ retired' = [retired EXCEPT ![cell[t]] = @ \cap seen[t]]
        /\ UNCHANGED <<strong, current, owned, depth, frame>>
    BY <1>0, <1>8, Zenon DEF Collect, Step, OpInv, OpOf, heapVars, stackVars
  <2>2. /\ CurrentOf(a)' = CurrentOf(a) /\ OwnedOf(a)' = OwnedOf(a)
        /\ FramesOf(a)' = FramesOf(a)
    BY <2>1, Zenon DEF CurrentOf, OwnedOf, FramesOf, FallbackFrames
  <2>3. CASE a \in retired[cell[t]] \ seen[t]
    <3>1. /\ cell[t] \in RetiredOf(a) /\ t \notin FreedOf(a)
          /\ RetiredOf(a)' = RetiredOf(a) \ {cell[t]}
          /\ FreedOf(a)' = FreedOf(a) \cup {t}
      BY <1>0, <2>1, <2>3, Zenon
      DEF RetiredOf, FreedOf, TypeOK, CellTypes, ScanTypes
    <3>2. /\ Cardinality(RetiredOf(a)') = Cardinality(RetiredOf(a)) - 1
          /\ Cardinality(FreedOf(a)') = Cardinality(FreedOf(a)) + 1
      BY <3>1, RefsFinite, CardPlus, CardMinus, Zenon
    <3>3. strong'[a] = strong[a]
      BY <2>1, Zenon
    <3> QED
      BY <1>0, <2>2, <3>2, <3>3, RefsNat, SMTT(30) DEF References
  <2>4. CASE a \notin retired[cell[t]] \ seen[t]
    <3>1. RetiredOf(a)' = RetiredOf(a) /\ FreedOf(a)' = FreedOf(a)
      BY <1>0, <2>1, <2>4, Zenon
      DEF RetiredOf, FreedOf, TypeOK, CellTypes, ScanTypes
    <3> QED
      BY <1>0, <2>1, <2>2, <3>1, Zenon DEF References
  <2> QED
    BY <2>3, <2>4, Zenon
<1>9. ASSUME NEW t \in Thread, DropFreed(t) PROVE (strong[a] = References(a))'
  <2>1. /\ DropRefs(freed[t]) /\ freed' = [freed EXCEPT ![t] = {}]
        /\ UNCHANGED <<current, retired, owned, depth, frame>>
    BY <1>9, Zenon DEF DropFreed, cellVars, stackVars
  <2>2. /\ CurrentOf(a)' = CurrentOf(a) /\ RetiredOf(a)' = RetiredOf(a)
        /\ OwnedOf(a)' = OwnedOf(a) /\ FramesOf(a)' = FramesOf(a)
    BY <2>1, Zenon DEF CurrentOf, RetiredOf, OwnedOf, FramesOf, FallbackFrames
  <2>3. FreedOf(a)' = FreedOf(a) \ {t} /\ (t \in FreedOf(a) <=> a \in freed[t])
    BY <1>0, <2>1, Zenon DEF FreedOf, TypeOK, ScanTypes
  <2>4. Cardinality(FreedOf(a)') = IF a \in freed[t]
                                   THEN Cardinality(FreedOf(a)) - 1
                                   ELSE Cardinality(FreedOf(a))
    BY <2>3, RefsFinite, FS_RemoveElement, Zenon
  <2>5. strong'[a] = IF a \in freed[t] THEN strong[a] - 1 ELSE strong[a]
    BY <2>1, Zenon DEF DropRefs
  <2> QED
    BY <1>0, <2>2, <2>4, <2>5, RefsNat, SMTT(30) DEF References
<1>10. ASSUME NEW c \in Cell, DropCell(c) PROVE (strong[a] = References(a))'
  <2>1. /\ current[c] # NULL /\ DropRefs({current[c]} \cup retired[c])
        /\ current' = [current EXCEPT ![c] = NULL]
        /\ retired' = [retired EXCEPT ![c] = {}]
        /\ UNCHANGED <<freed, owned, depth, frame>>
    BY <1>10, Zenon DEF DropCell, stackVars, scanVars
  <2>2. /\ FreedOf(a)' = FreedOf(a) /\ OwnedOf(a)' = OwnedOf(a)
        /\ FramesOf(a)' = FramesOf(a)
    BY <2>1, Zenon DEF FreedOf, OwnedOf, FramesOf, FallbackFrames
  <2>3. /\ CurrentOf(a)' = CurrentOf(a) \ {c} /\ (c \in CurrentOf(a) <=> a = current[c])
        /\ RetiredOf(a)' = RetiredOf(a) \ {c} /\ (c \in RetiredOf(a) <=> a \in retired[c])
    BY <1>0, <2>1, Zenon DEF CurrentOf, RetiredOf, TypeOK, CellTypes
  <2>4. ~(a = current[c] /\ a \in retired[c])
    BY <2>1, ZenonT(40) DEF SafeInv, PlaceInv
  <2>5. /\ Cardinality(CurrentOf(a)') = IF a = current[c]
                                        THEN Cardinality(CurrentOf(a)) - 1
                                        ELSE Cardinality(CurrentOf(a))
        /\ Cardinality(RetiredOf(a)') = IF a \in retired[c]
                                        THEN Cardinality(RetiredOf(a)) - 1
                                        ELSE Cardinality(RetiredOf(a))
    BY <2>3, RefsFinite, FS_RemoveElement, ZenonT(40)
  <2>6. strong'[a] = IF a = current[c] \/ a \in retired[c]
                     THEN strong[a] - 1 ELSE strong[a]
    BY <2>1, Zenon DEF DropRefs
  <2> QED
    BY <1>0, <2>2, <2>4, <2>5, <2>6, RefsNat DEF References
<1>11. ASSUME NEW c \in Cell, New(c) PROVE (strong[a] = References(a))'
  <2>1. PICK b \in Addr :
          /\ current[c] = NULL /\ strong[b] = 0
          /\ strong' = [strong EXCEPT ![b] = 1]
          /\ current' = [current EXCEPT ![c] = b]
    BY <1>11, Zenon DEF New
  <2>2. UNCHANGED <<retired, freed, owned, depth, frame>>
    BY <1>11, Zenon DEF New, stackVars, scanVars
  <2>3. /\ RetiredOf(a)' = RetiredOf(a) /\ FreedOf(a)' = FreedOf(a)
        /\ OwnedOf(a)' = OwnedOf(a) /\ FramesOf(a)' = FramesOf(a)
    BY <2>2, Zenon DEF RetiredOf, FreedOf, OwnedOf, FramesOf, FallbackFrames
  <2>4. CASE a = b
    <3>1. c \notin CurrentOf(a) /\ CurrentOf(a)' = CurrentOf(a) \cup {c}
      BY <1>0, <2>1, <2>4, Zenon DEF CurrentOf, TypeOK, CellTypes
    <3>2. Cardinality(CurrentOf(a)') = Cardinality(CurrentOf(a)) + 1
      BY <3>1, RefsFinite, CardPlus, Zenon
    <3>3. strong'[a] = strong[a] + 1
      BY <1>0, <2>1, <2>4 DEF TypeOK, HeapTypes
    <3> QED
      BY <1>0, <2>3, <3>2, <3>3, RefsNat DEF References
  <2>5. CASE a # b
    <3>1. CurrentOf(a)' = CurrentOf(a) /\ strong'[a] = strong[a]
      BY <1>0, <2>1, <2>5, Zenon DEF CurrentOf, TypeOK, CellTypes, HeapTypes
    <3> QED
      BY <1>0, <2>3, <3>1, Zenon DEF References
  <2> QED
    BY <2>4, <2>5, Zenon
<1> QED
  BY <1>1, <1>2, <1>3, <1>4, <1>5, <1>6, <1>7, <1>8, <1>9, <1>10, <1>11,
     RefMoves, Zenon

-----------------------------------------------------------------------------
(* The invariant, and what follows from it *)

\* The inductive invariant: types, the locals of every operation, the lock
\* discipline, one place per value, guarded announcements, exact counts.
THEOREM Safety == Spec => []SafeInv
<1>1. SafeInv /\ [Next]_vars => SafeInv'
  BY TypeStep, OpStep, LockStep, PlaceStep, HazardStep, RefStep, Zenon
  DEF SafeInv
<1> QED
  BY InitSafe, <1>1, PTL DEF Spec

\* SnapCell keeps every variable in its type.
THEOREM TypeCorrect == Spec => []TypeOK
<1>1. SafeInv => TypeOK
  BY Zenon DEF SafeInv
<1> QED
  BY Safety, <1>1, PTL

\* The unsafe reference counting of SnapCell balances at every step.
THEOREM CountsExact == Spec => []RefcountExact
<1>1. SafeInv => RefcountExact
  BY Zenon DEF SafeInv
<1> QED
  BY Safety, <1>1, PTL

\* Whatever a thread may dereference is referred to by a cell, a retired list
\* or a fallback dispatch, so its strong count is not zero.
LEMMA Allocated == SafeInv => NoUseAfterFree
<1> SUFFICES ASSUME SafeInv, NEW t \in Thread
             PROVE  /\ \A d \in 1..depth[t] : strong[frame[t][d].addr] > 0
                    /\ pc[t] \in {"keep", "build"} => strong[ptr[t]] > 0
  BY Zenon DEF NoUseAfterFree
<1> USE ConstantsAssumption DEF SafeInv
<1>1. ASSUME NEW d \in 1..depth[t] PROVE strong[frame[t][d].addr] > 0
  <2>0. /\ d \in Level /\ frame[t][d].cell \in Cell /\ frame[t][d].addr \in Addr
        /\ d <= depth[t]
    BY TopFrame DEF TypeOK, StackTypes
  <2>1. CASE frame[t][d].slot # 0
    <3>1. \/ frame[t][d].addr = current[frame[t][d].cell]
          \/ frame[t][d].addr \in retired[frame[t][d].cell]
      BY <2>1, Zenon DEF HazardInv, FrameInv, Guarded
    <3> QED
      BY <2>0, <3>1, Referenced, Zenon
  <2>2. CASE frame[t][d].slot = 0
    <3>1. <<t, d>> \in FramesOf(frame[t][d].addr)
      BY <2>0, <2>2, Zenon DEF FramesOf, FallbackFrames
    <3> QED
      BY <2>0, <3>1, Referenced, Zenon
  <2> QED
    BY <2>1, <2>2, Zenon
<1>2. CASE pc[t] = "keep"
  <2>1. ptr[t] \in Addr /\ cell[t] \in Cell
    BY <1>2 DEF TypeOK, OpTypes, OpInv, OpOf
  <2>2. ptr[t] = current[cell[t]] \/ ptr[t] \in retired[cell[t]]
    BY <1>2, Zenon DEF HazardInv, Guarded
  <2> QED
    BY <1>1, <2>1, <2>2, Referenced, ZenonT(40)
<1>3. CASE pc[t] = "build"
  <2>1. ptr[t] \in Addr /\ cell[t] \in Cell /\ ptr[t] = current[cell[t]]
    BY <1>3, Zenon DEF TypeOK, OpTypes, OpInv, OpOf, LockInv, Locked
  <2> QED
    BY <1>1, <2>1, Referenced, Zenon
<1> QED
  BY <1>1, <1>2, <1>3, Zenon

\* No dispatch, no `keep` and no update closure ever looks at a value that
\* has been deallocated, whatever the number of threads, cells, slots and
\* nested dispatches.
THEOREM MemorySafety == Spec => []NoUseAfterFree
  BY Safety, Allocated, PTL

\* Handlers and destructors never run on a thread that holds a writer lock.
THEOREM NoReentrancyDeadlock == Spec => []NoUserCodeUnderLock
<1>1. SafeInv => NoUserCodeUnderLock
  BY Zenon DEF SafeInv, LockInv
<1> QED
  BY Safety, <1>1, PTL
=============================================================================
