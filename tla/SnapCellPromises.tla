-------------------------- MODULE SnapCellPromises --------------------------
(***************************************************************************)
(* What SnapCell promises to its users, for any number of threads, cells,  *)
(* addresses, slots and levels.  The fallback counts, on which a waiter    *)
(* relies for the dispatches that no slot shows; the wait itself, for      *)
(* which WaitInv is inductive once SafeInv and the fallback counts hold;   *)
(* retired_len, which a reader trusts when it decides not to reclaim; and  *)
(* that the cell implements AbstractCell.                                  *)
(***************************************************************************)
EXTENDS SnapCellProofs, SnapCellRefinement

-----------------------------------------------------------------------------
(* Fallback counts, waits, the length of the retired list *)

\* The fallback dispatches over c, the threads that are counted for c and
\* hold no value, and the levels of t that are fallback dispatches.
ReadsOf(c) == {e \in FallbackFrames : frame[e[1]][e[2]].cell = c}
EntersOf(c) == {t \in Thread : InFallback(t) /\ cell[t] = c}
LevelsOf(t) == {d \in Level : d <= depth[t] /\ frame[t][d].slot = 0}
Extra(t) == IF InFallback(t) THEN 1 ELSE 0

\* The two parts of FallbackExact.
CellExact(c) ==
  fallback_readers[c] = Cardinality(ReadsOf(c)) + Cardinality(EntersOf(c))
ThreadExact(t) == FALLBACK_DEPTH[t] = Cardinality(LevelsOf(t)) + Extra(t)

\* FallbackExact is about each cell and about each thread.
LEMMA FallbackParts ==
  FallbackExact <=> /\ \A c \in Cell : CellExact(c)
                    /\ \A t \in Thread : ThreadExact(t)
  BY Zenon DEF FallbackExact, CellExact, ThreadExact, ReadsOf, EntersOf,
     LevelsOf, Extra

\* The sets that are counted are finite.
LEMMA CountsFinite ==
  /\ \A c : IsFiniteSet(ReadsOf(c)) /\ IsFiniteSet(EntersOf(c))
  /\ \A t : IsFiniteSet(LevelsOf(t))
<1>1. IsFiniteSet(Level)
  BY FS_Interval, ConstantsAssumption DEF Level
<1>2. IsFiniteSet(Thread \X Level)
  BY <1>1, FS_Product, ConstantsAssumption, Zenon
<1>3. ASSUME NEW c PROVE IsFiniteSet(ReadsOf(c)) /\ IsFiniteSet(EntersOf(c))
  <2>1. ReadsOf(c) \subseteq Thread \X Level /\ EntersOf(c) \subseteq Thread
    BY Zenon DEF ReadsOf, EntersOf, FallbackFrames
  <2> QED
    BY <1>2, <2>1, FS_Subset, ConstantsAssumption, Zenon
<1>4. ASSUME NEW t PROVE IsFiniteSet(LevelsOf(t))
  <2>1. LevelsOf(t) \subseteq Level
    BY Zenon DEF LevelsOf
  <2> QED
    BY <1>1, <2>1, FS_Subset, Zenon
<1> QED
  BY <1>3, <1>4, Zenon

\* ... and their sizes are naturals.
LEMMA CountsNat ==
  /\ \A c : Cardinality(ReadsOf(c)) \in Nat /\ Cardinality(EntersOf(c)) \in Nat
  /\ \A t : Cardinality(LevelsOf(t)) \in Nat
  BY CountsFinite, FS_CardinalityType, Zenon

-----------------------------------------------------------------------------
\* What the beginning of a dispatch does to the stacks.
LEMMA StackPushed ==
  ASSUME StackTypes, NEW t \in Thread, NEW f, Push(t, f),
         NEW k \in Level, k = depth[t] + 1
  PROVE  /\ ~(k <= depth[t]) /\ k <= depth'[t] /\ frame'[t][k] = f
         /\ \A u \in Thread, d \in Level : u # t \/ d # k =>
              /\ frame'[u][d] = frame[u][d]
              /\ d <= depth'[u] <=> d <= depth[u]
<1>1. depth' = [depth EXCEPT ![t] = k] /\ frame' = [frame EXCEPT ![t][k] = f]
  BY Zenon DEF Push
<1>2. ~(k <= depth[t]) /\ k <= depth'[t]
  BY <1>1 DEF StackTypes, Level
<1>3. frame'[t][k] = f
  BY <1>1, Zenon DEF StackTypes
<1>4. ASSUME NEW u \in Thread, NEW d \in Level, u # t \/ d # k
      PROVE  frame'[u][d] = frame[u][d] /\ (d <= depth'[u] <=> d <= depth[u])
  <2>1. frame'[u][d] = frame[u][d]
    BY <1>1, <1>4, Zenon DEF StackTypes
  <2>2. d <= depth'[u] <=> d <= depth[u]
    BY <1>1, <1>4 DEF StackTypes, Level
  <2> QED
    BY <2>1, <2>2, Zenon
<1> QED
  BY <1>2, <1>3, <1>4, Zenon

\* ... and the end of one.
LEMMA StackPopped ==
  ASSUME StackTypes, NEW t \in Thread, Pop(t), NEW k \in Level, k = depth[t]
  PROVE  /\ k <= depth[t] /\ ~(k <= depth'[t])
         /\ \A u \in Thread, d \in Level : u # t \/ d # k =>
              /\ frame'[u][d] = frame[u][d]
              /\ d <= depth'[u] <=> d <= depth[u]
<1>1. depth' = [depth EXCEPT ![t] = k - 1] /\ frame' = [frame EXCEPT ![t][k] = NoFrame]
  BY Zenon DEF Pop
<1>2. k <= depth[t] /\ ~(k <= depth'[t])
  BY <1>1 DEF StackTypes, Level
<1>3. ASSUME NEW u \in Thread, NEW d \in Level, u # t \/ d # k
      PROVE  frame'[u][d] = frame[u][d] /\ (d <= depth'[u] <=> d <= depth[u])
  <2>1. frame'[u][d] = frame[u][d]
    BY <1>1, <1>3, Zenon DEF StackTypes
  <2>2. d <= depth'[u] <=> d <= depth[u]
    BY <1>1, <1>3 DEF StackTypes, Level
  <2> QED
    BY <2>1, <2>2, Zenon
<1> QED
  BY <1>2, <1>3, Zenon

\* A dispatch that begins counts in its cell if it is on the fallback path.
LEMMA ReadsPushed ==
  ASSUME StackTypes, NEW t \in Thread, NEW f \in Frame, Push(t, f),
         NEW k \in Level, k = depth[t] + 1, NEW c \in Cell
  PROVE  /\ <<t, k>> \notin ReadsOf(c)
         /\ ReadsOf(c)' = IF f.slot = 0 /\ f.cell = c
                          THEN ReadsOf(c) \cup {<<t, k>>} ELSE ReadsOf(c)
<1> DEFINE F(u, d) == d <= depth[u] /\ frame[u][d].slot = 0 /\ frame[u][d].cell = c
           G(u, d) == d <= depth'[u] /\ frame'[u][d].slot = 0 /\ frame'[u][d].cell = c
<1>1. ReadsOf(c) = {e \in Thread \X Level : F(e[1], e[2])}
  BY Zenon DEF ReadsOf, FallbackFrames
<1>2. ReadsOf(c)' = {e \in Thread \X Level : G(e[1], e[2])}
  BY Zenon DEF ReadsOf, FallbackFrames
<1>3. ~F(t, k) /\ (G(t, k) <=> f.slot = 0 /\ f.cell = c)
  <2>1. ~(k <= depth[t]) /\ k <= depth'[t] /\ frame'[t][k] = f
    BY StackPushed
  <2> QED
    BY <2>1, Zenon
<1>4. ASSUME NEW u \in Thread, NEW d \in Level, u # t \/ d # k
      PROVE  G(u, d) <=> F(u, d)
  <2>1. frame'[u][d] = frame[u][d] /\ (d <= depth'[u] <=> d <= depth[u])
    BY <1>4, StackPushed
  <2> QED
    BY <2>1, Zenon
<1> HIDE DEF F, G
<1>5. <<t, k>> \notin ReadsOf(c)
  BY <1>1, <1>3, Zenon
<1>6. ASSUME NEW e \in Thread \X Level, e # <<t, k>>
      PROVE  e \in ReadsOf(c)' <=> e \in ReadsOf(c)
  <2>1. PICK u \in Thread, d \in Level : e = <<u, d>>
    BY PairOf, Zenon
  <2> QED
    BY <1>1, <1>2, <1>4, <1>6, <2>1, Zenon
<1>7. <<t, k>> \in ReadsOf(c)' <=> f.slot = 0 /\ f.cell = c
  BY <1>2, <1>3, Zenon
<1>8. ReadsOf(c) \subseteq Thread \X Level /\ ReadsOf(c)' \subseteq Thread \X Level
  BY <1>1, <1>2, Zenon
<1> QED
  BY <1>5, <1>6, <1>7, <1>8

\* A dispatch that ends takes away its own count and no other.
LEMMA ReadsPopped ==
  ASSUME StackTypes, NEW t \in Thread, Pop(t), NEW k \in Level, k = depth[t],
         NEW c \in Cell
  PROVE  /\ <<t, k>> \in ReadsOf(c)
              <=> frame[t][k].slot = 0 /\ frame[t][k].cell = c
         /\ ReadsOf(c)' = ReadsOf(c) \ {<<t, k>>}
<1> DEFINE F(u, d) == d <= depth[u] /\ frame[u][d].slot = 0 /\ frame[u][d].cell = c
           G(u, d) == d <= depth'[u] /\ frame'[u][d].slot = 0 /\ frame'[u][d].cell = c
<1>1. ReadsOf(c) = {e \in Thread \X Level : F(e[1], e[2])}
  BY Zenon DEF ReadsOf, FallbackFrames
<1>2. ReadsOf(c)' = {e \in Thread \X Level : G(e[1], e[2])}
  BY Zenon DEF ReadsOf, FallbackFrames
<1>3. ~G(t, k) /\ (F(t, k) <=> frame[t][k].slot = 0 /\ frame[t][k].cell = c)
  <2>1. k <= depth[t] /\ ~(k <= depth'[t])
    BY StackPopped
  <2> QED
    BY <2>1, Zenon
<1>4. ASSUME NEW u \in Thread, NEW d \in Level, u # t \/ d # k
      PROVE  G(u, d) <=> F(u, d)
  <2>1. frame'[u][d] = frame[u][d] /\ (d <= depth'[u] <=> d <= depth[u])
    BY <1>4, StackPopped
  <2> QED
    BY <2>1, Zenon
<1> HIDE DEF F, G
<1>5. <<t, k>> \in ReadsOf(c) <=> F(t, k)
  BY <1>1, Zenon
<1>6. ASSUME NEW e \in Thread \X Level, e # <<t, k>>
      PROVE  e \in ReadsOf(c)' <=> e \in ReadsOf(c)
  <2>1. PICK u \in Thread, d \in Level : e = <<u, d>>
    BY PairOf, Zenon
  <2> QED
    BY <1>1, <1>2, <1>4, <1>6, <2>1, Zenon
<1>7. <<t, k>> \notin ReadsOf(c)'
  BY <1>2, <1>3, Zenon
<1>8. ReadsOf(c) \subseteq Thread \X Level /\ ReadsOf(c)' \subseteq Thread \X Level
  BY <1>1, <1>2, Zenon
<1> QED
  BY <1>3, <1>5, <1>6, <1>7, <1>8, Zenon

\* The same for the levels of a thread.
LEMMA LevelsPushed ==
  ASSUME StackTypes, NEW t \in Thread, NEW f \in Frame, Push(t, f),
         NEW k \in Level, k = depth[t] + 1
  PROVE  /\ k \notin LevelsOf(t)
         /\ LevelsOf(t)' = IF f.slot = 0 THEN LevelsOf(t) \cup {k} ELSE LevelsOf(t)
         /\ \A u \in Thread \ {t} : LevelsOf(u)' = LevelsOf(u)
<1>1. ~(k <= depth[t]) /\ k <= depth'[t] /\ frame'[t][k] = f
  BY StackPushed
<1>2. \A u \in Thread, d \in Level : u # t \/ d # k =>
        frame'[u][d] = frame[u][d] /\ (d <= depth'[u] <=> d <= depth[u])
  BY StackPushed
<1> QED
  BY <1>1, <1>2, Zenon DEF LevelsOf

\* The end of a dispatch takes its level out of the fallback levels.
LEMMA LevelsPopped ==
  ASSUME StackTypes, NEW t \in Thread, Pop(t), NEW k \in Level, k = depth[t]
  PROVE  /\ k \in LevelsOf(t) <=> frame[t][k].slot = 0
         /\ LevelsOf(t)' = LevelsOf(t) \ {k}
         /\ \A u \in Thread \ {t} : LevelsOf(u)' = LevelsOf(u)
  BY StackPopped DEF LevelsOf

-----------------------------------------------------------------------------
\* A step of t decides about t alone whether it is between its count and its
\* value.
LEMMA EntersMove ==
  ASSUME TypeOK, NEW t \in Thread, Acts(t)
  PROVE  /\ \A c \in Cell : EntersOf(c)' =
              (EntersOf(c) \ {t})
              \cup (IF InFallback(t)' /\ cell'[t] = c THEN {t} ELSE {})
         /\ \A u \in Thread \ {t} : Extra(u)' = Extra(u)
<1>1. ASSUME NEW u \in Thread, u # t
      PROVE  (InFallback(u)' <=> InFallback(u)) /\ cell'[u] = cell[u]
  BY <1>1, OthersIdle, Zenon DEF Idle, InFallback
<1>2. \A c \in Cell : /\ EntersOf(c) = {u \in Thread : InFallback(u) /\ cell[u] = c}
                      /\ EntersOf(c)' = {u \in Thread : InFallback(u)' /\ cell'[u] = c}
  BY Zenon DEF EntersOf
<1>3. \A u \in Thread \ {t} : Extra(u)' = Extra(u)
  BY <1>1, Zenon DEF Extra
<1>4. ASSUME NEW c \in Cell
      PROVE  EntersOf(c)' =
               (EntersOf(c) \ {t})
               \cup (IF InFallback(t)' /\ cell'[t] = c THEN {t} ELSE {})
  <2>1. ASSUME NEW u \in Thread, u # t
        PROVE  u \in EntersOf(c)' <=> u \in EntersOf(c)
    BY <1>1, <1>2, <2>1, Zenon
  <2>2. t \in EntersOf(c)' <=> InFallback(t)' /\ cell'[t] = c
    BY <1>2, Zenon
  <2>3. EntersOf(c) \subseteq Thread /\ EntersOf(c)' \subseteq Thread
    BY <1>2, Zenon
  <2> QED
    BY <2>1, <2>2, <2>3, Zenon
<1> QED
  BY <1>3, <1>4, Zenon

\* Only these steps move a fallback count or a stack.
LEMMA FallbackMoves ==
  ASSUME TypeOK, NEW t \in Thread, Acts(t)
  PROVE  \/ /\ UNCHANGED <<depth, frame, fallback_readers, FALLBACK_DEPTH>>
            /\ ~InFallback(t) /\ ~InFallback(t)'
         \/ (Validated(t) /\ ~owning[t])
         \/ ReadEnd(t) \/ FallbackCount(t) \/ (LoadLocked(t) /\ ~owning[t])
         \/ FallbackEnd(t) \/ FallbackLeave(t)
<1>0. pc \in [Thread -> Labels] /\ owning \in [Thread -> BOOLEAN]
  BY Zenon DEF TypeOK, OpTypes
<1> USE <1>0 DEF cellVars, stackVars, opVars, Step, Start, InFallback
<1> DEFINE Hidden ==
      /\ UNCHANGED <<depth, frame, fallback_readers, FALLBACK_DEPTH>>
      /\ ~InFallback(t) /\ ~InFallback(t)'
<1>1. ASSUME Pin(t) \/ PinNone(t) \/ Changed(t) \/ Protect(t) \/ Unpin(t)
      PROVE  Hidden
  BY <1>1 DEF Pin, PinNone, Changed, Protect, Unpin
<1>2. ASSUME Check(t) \/ Keep(t) \/ TryReclaim(t) \/ Scan(t) \/ UpdateNone(t)
      PROVE  Hidden
  BY <1>2, Zenon DEF Check, Keep, TryReclaim, Scan, UpdateNone
<1>3. ASSUME UpdateStore(t) \/ Collect(t) \/ PublishLen(t) \/ Unlock(t)
             \/ DropFreed(t) \/ LoadUnlock(t)
      PROVE  Hidden
  BY <1>3 DEF UpdateStore, Collect, PublishLen, Unlock, DropFreed, LoadUnlock
<1>4. ASSUME \/ WaitFallback(t) \/ WaitCopy(t) \/ WaitUnlock(t)
             \/ WaitInspect(t) \/ WaitDone(t) \/ WaitReturn(t)
      PROVE  Hidden
  BY <1>4, Zenon
  DEF WaitFallback, WaitCopy, WaitUnlock, WaitInspect, WaitDone, WaitReturn
<1>5. ASSUME Teardown(t) \/ Respawn(t) \/ DropOwned(t) PROVE Hidden
  BY <1>5 DEF Teardown, Respawn, DropOwned
<1>6. ASSUME NEW c \in Cell, Begin(t, c) PROVE Hidden
  <2>1. /\ UNCHANGED <<depth, frame, fallback_readers, FALLBACK_DEPTH>>
        /\ pc[t] = "user" /\ pc'[t] \in {"pin", "build", "wait"}
    BY <1>6 DEF Begin, ReadBegin, LoadBegin, UpdateBegin, ProtectBegin, WaitBegin
  <2> QED
    BY <2>1
<1>7. ASSUME Validated(t) /\ owning[t] PROVE Hidden
  BY <1>7 DEF Validated
<1>8. ASSUME LoadLocked(t) /\ owning[t] PROVE Hidden
  BY <1>8 DEF LoadLocked
<1> HIDE DEF Hidden
<1>9. \/ Hidden \/ Validated(t) \/ ReadEnd(t) \/ FallbackCount(t) \/ LoadLocked(t)
      \/ FallbackEnd(t) \/ FallbackLeave(t)
  BY <1>1, <1>2, <1>3, <1>4, <1>5, <1>6, Zenon DEF Acts, Proceed, Finish
<1>10. \/ Hidden \/ (Validated(t) /\ ~owning[t])
       \/ ReadEnd(t) \/ FallbackCount(t) \/ (LoadLocked(t) /\ ~owning[t])
       \/ FallbackEnd(t) \/ FallbackLeave(t)
  BY <1>7, <1>8, <1>9, Zenon
<1> QED
  BY <1>10, Zenon DEF Hidden

\* A step that leaves alone the fallback dispatches and their counts.
LEMMA CountsSame ==
  ASSUME TypeOK, FallbackExact, NEW t \in Thread, Acts(t),
         \A c \in Cell : ReadsOf(c)' = ReadsOf(c),
         \A u \in Thread : LevelsOf(u)' = LevelsOf(u),
         UNCHANGED <<fallback_readers, FALLBACK_DEPTH>>,
         ~InFallback(t), ~InFallback(t)'
  PROVE  /\ \A c \in Cell : CellExact(c)'
         /\ \A u \in Thread : ThreadExact(u)'
<1>1. ASSUME NEW c \in Cell PROVE EntersOf(c)' = EntersOf(c)
  <2>1. t \notin EntersOf(c)
    BY Zenon DEF EntersOf
  <2>2. EntersOf(c)' = (EntersOf(c) \ {t}) \cup {}
    BY EntersMove, Zenon
  <2> QED
    BY <2>1, <2>2
<1>2. ASSUME NEW u \in Thread PROVE Extra(u)' = Extra(u)
  <2>1. CASE u = t
    BY <2>1, Zenon DEF Extra
  <2>2. CASE u # t
    BY <2>2, EntersMove, Zenon
  <2> QED
    BY <2>1, <2>2, Zenon
<1> QED
  BY <1>1, <1>2, FallbackParts, Zenon DEF CellExact, ThreadExact

\* A step of a thread keeps the fallback counts exact.
LEMMA FallbackActs ==
  ASSUME SafeInv, FallbackExact, NEW t \in Thread, Acts(t)
  PROVE  /\ \A c \in Cell : CellExact(c)'
         /\ \A u \in Thread : ThreadExact(u)'
<1>0. TypeOK /\ OpOf(t) /\ StackTypes
  BY Zenon DEF SafeInv, OpInv, TypeOK
<1>a. /\ pc \in [Thread -> Labels] /\ cell \in [Thread -> Cell \cup {NULL}]
      /\ owning \in [Thread -> BOOLEAN] /\ pin \in [Thread -> 0..SLOTS]
      /\ depth \in [Thread -> 0..MaxDepth]
      /\ fallback_readers \in [Cell -> Int] /\ FALLBACK_DEPTH \in [Thread -> Int]
  BY <1>0, Zenon DEF TypeOK, OpTypes, CellTypes, StackTypes
<1>b. /\ \A c \in Cell : CellExact(c)
      /\ \A u \in Thread : ThreadExact(u)
  BY FallbackParts, Zenon
<1> DEFINE c0 == cell[t]
<1>1. CASE /\ UNCHANGED <<depth, frame, fallback_readers, FALLBACK_DEPTH>>
           /\ ~InFallback(t) /\ ~InFallback(t)'
  <2>1. /\ \A c \in Cell : ReadsOf(c)' = ReadsOf(c)
        /\ \A u \in Thread : LevelsOf(u)' = LevelsOf(u)
    BY <1>1, Zenon DEF ReadsOf, FallbackFrames, LevelsOf
  <2> QED
    BY <1>0, <1>1, <2>1, CountsSame, Zenon
<1>2. CASE Validated(t) /\ ~owning[t]
  <2> DEFINE f == [cell |-> cell[t], addr |-> ptr[t], slot |-> pin[t]]
  <2>1. /\ f \in Frame /\ f.slot # 0
    BY <1>0, <1>2 DEF Validated, Step, TypeOK, OpTypes, OpOf, Frame
  <2>2. PICK k \in Level : k = depth[t] + 1
    <3>0. depth[t] < MaxDepth
      BY <1>0, <1>2 DEF Validated, Step, OpOf
    <3>1. depth[t] + 1 \in Level
      BY <1>a, <3>0, ConstantsAssumption DEF Level
    <3> QED
      BY <3>1, Zenon
  <2>3. /\ Push(t, f) /\ pc[t] = "validate" /\ pc'[t] = "user"
        /\ UNCHANGED <<fallback_readers, FALLBACK_DEPTH>>
    BY <1>2, <1>a, Zenon DEF Validated, Step, cellVars
  <2> HIDE DEF f
  <2>4. /\ \A c \in Cell : ReadsOf(c)' = ReadsOf(c)
        /\ \A u \in Thread : LevelsOf(u)' = LevelsOf(u)
    BY <1>0, <2>1, <2>2, <2>3, ReadsPushed, LevelsPushed, Zenon
  <2>5. ~InFallback(t) /\ ~InFallback(t)'
    BY <2>3 DEF InFallback
  <2> QED
    BY <1>0, <2>3, <2>4, <2>5, CountsSame, Zenon
<1>3. CASE ReadEnd(t)
  <2>1. /\ Pop(t) /\ frame[t][depth[t]].slot # 0 /\ depth[t] \in Level
        /\ pc[t] = "user" /\ pc'[t] \in {"user", "check"}
        /\ UNCHANGED <<fallback_readers, FALLBACK_DEPTH>>
    BY <1>3, <1>a DEF ReadEnd, Step, Level, cellVars
  <2>2. PICK k \in Level : k = depth[t]
    BY <2>1, Zenon
  <2>3. ASSUME NEW c \in Cell PROVE ReadsOf(c)' = ReadsOf(c)
    <3>1. <<t, k>> \notin ReadsOf(c) /\ ReadsOf(c)' = ReadsOf(c) \ {<<t, k>>}
      BY <1>0, <2>1, <2>2, ReadsPopped
    <3> QED
      BY <3>1, Zenon
  <2>4. ASSUME NEW u \in Thread PROVE LevelsOf(u)' = LevelsOf(u)
    <3>1. /\ k \notin LevelsOf(t) /\ LevelsOf(t)' = LevelsOf(t) \ {k}
          /\ u # t => LevelsOf(u)' = LevelsOf(u)
      BY <1>0, <2>1, <2>2, LevelsPopped, Zenon
    <3> QED
      BY <3>1
  <2>5. ~InFallback(t) /\ ~InFallback(t)'
    BY <2>1 DEF InFallback
  <2> QED
    BY <1>0, <2>1, <2>3, <2>4, <2>5, CountsSame, Zenon
<1>4. CASE FallbackCount(t)
  <2>1. /\ c0 \in Cell /\ ~InFallback(t) /\ InFallback(t)' /\ cell'[t] = c0
        /\ fallback_readers' = [fallback_readers EXCEPT ![c0] = @ + 1]
        /\ FALLBACK_DEPTH' = [FALLBACK_DEPTH EXCEPT ![t] = @ + 1]
        /\ UNCHANGED <<depth, frame>>
    BY <1>0, <1>4, <1>a DEF FallbackCount, Step, OpOf, InFallback, opVars
  <2>2. /\ \A c \in Cell : ReadsOf(c)' = ReadsOf(c)
        /\ \A u \in Thread : LevelsOf(u)' = LevelsOf(u)
    BY <2>1, Zenon DEF ReadsOf, FallbackFrames, LevelsOf
  <2>3. ASSUME NEW c \in Cell PROVE CellExact(c)'
    <3>1. t \notin EntersOf(c)
      BY <2>1, Zenon DEF EntersOf
    <3>2. CASE c = c0
      <4>1. EntersOf(c)' = EntersOf(c) \cup {t}
        <5>1. EntersOf(c)' = (EntersOf(c) \ {t}) \cup {t}
          BY <1>0, <2>1, <3>2, EntersMove, Zenon
        <5> QED
          BY <5>1, Zenon
      <4>2. Cardinality(EntersOf(c)') = Cardinality(EntersOf(c)) + 1
        BY <3>1, <4>1, CountsFinite, CardPlus, Zenon
      <4>3. ReadsOf(c)' = ReadsOf(c) /\ CellExact(c)
        BY <1>b, <2>2, Zenon
      <4> QED
        BY <1>a, <2>1, <3>2, <4>2, <4>3, CountsNat DEF CellExact
    <3>3. CASE c # c0
      <4>1. EntersOf(c)' = (EntersOf(c) \ {t}) \cup {}
        BY <1>0, <2>1, <3>3, EntersMove, Zenon
      <4>2. EntersOf(c)' = EntersOf(c)
        BY <3>1, <4>1
      <4>3. fallback_readers'[c] = fallback_readers[c]
        BY <1>a, <2>1, <3>3, Zenon
      <4> QED
        BY <1>b, <2>2, <4>2, <4>3, Zenon DEF CellExact
    <3> QED
      BY <3>2, <3>3, Zenon
  <2>4. ASSUME NEW u \in Thread PROVE ThreadExact(u)'
    <3>1. CASE u = t
      <4>1. Extra(t)' = 1 /\ Extra(t) = 0
        BY <2>1, Zenon DEF Extra
      <4>2. ThreadExact(t) /\ LevelsOf(t)' = LevelsOf(t)
        BY <1>b, <2>2, Zenon
      <4> QED
        BY <1>a, <2>1, <3>1, <4>1, <4>2, CountsNat DEF ThreadExact
    <3>2. CASE u # t
      <4>1. Extra(u)' = Extra(u) /\ FALLBACK_DEPTH'[u] = FALLBACK_DEPTH[u]
        BY <1>0, <1>a, <2>1, <3>2, EntersMove, Zenon
      <4> QED
        BY <1>b, <2>2, <4>1, Zenon DEF ThreadExact
    <3> QED
      BY <3>1, <3>2, Zenon
  <2> QED
    BY <2>3, <2>4, Zenon
<1>5. CASE FallbackLeave(t)
  <2>1. /\ c0 \in Cell /\ InFallback(t) /\ ~InFallback(t)'
        /\ fallback_readers' = [fallback_readers EXCEPT ![c0] = @ - 1]
        /\ FALLBACK_DEPTH' = [FALLBACK_DEPTH EXCEPT ![t] = @ - 1]
        /\ UNCHANGED <<depth, frame>>
    BY <1>0, <1>5, <1>a DEF FallbackLeave, Step, OpOf, InFallback
  <2>2. /\ \A c \in Cell : ReadsOf(c)' = ReadsOf(c)
        /\ \A u \in Thread : LevelsOf(u)' = LevelsOf(u)
    BY <2>1, Zenon DEF ReadsOf, FallbackFrames, LevelsOf
  <2>3. ASSUME NEW c \in Cell PROVE CellExact(c)'
    <3>1. (t \in EntersOf(c) <=> c = c0) /\ EntersOf(c)' = (EntersOf(c) \ {t}) \cup {}
      BY <1>0, <2>1, EntersMove, Zenon DEF EntersOf
    <3>a. EntersOf(c)' = EntersOf(c) \ {t}
      BY <3>1, Zenon
    <3>2. CASE c = c0
      <4>1. Cardinality(EntersOf(c)') = Cardinality(EntersOf(c)) - 1
        BY <3>1, <3>2, <3>a, CountsFinite, CardMinus, Zenon
      <4>2. ReadsOf(c)' = ReadsOf(c) /\ CellExact(c)
        BY <1>b, <2>2, Zenon
      <4> QED
        BY <1>a, <2>1, <3>2, <4>1, <4>2, CountsNat DEF CellExact
    <3>3. CASE c # c0
      <4>1. EntersOf(c)' = EntersOf(c)
        BY <3>1, <3>3, <3>a, Zenon
      <4>2. fallback_readers'[c] = fallback_readers[c]
        BY <1>a, <2>1, <3>3, Zenon
      <4> QED
        BY <1>b, <2>2, <4>1, <4>2, Zenon DEF CellExact
    <3> QED
      BY <3>2, <3>3, Zenon
  <2>4. ASSUME NEW u \in Thread PROVE ThreadExact(u)'
    <3>1. CASE u = t
      <4>1. Extra(t)' = 0 /\ Extra(t) = 1
        BY <2>1, Zenon DEF Extra
      <4>2. ThreadExact(t) /\ LevelsOf(t)' = LevelsOf(t)
        BY <1>b, <2>2, Zenon
      <4> QED
        BY <1>a, <2>1, <3>1, <4>1, <4>2, CountsNat DEF ThreadExact
    <3>2. CASE u # t
      <4>1. Extra(u)' = Extra(u) /\ FALLBACK_DEPTH'[u] = FALLBACK_DEPTH[u]
        BY <1>0, <1>a, <2>1, <3>2, EntersMove, Zenon
      <4> QED
        BY <1>b, <2>2, <4>1, Zenon DEF ThreadExact
    <3> QED
      BY <3>1, <3>2, Zenon
  <2> QED
    BY <2>3, <2>4, Zenon
<1>6. CASE LoadLocked(t) /\ ~owning[t]
  <2> DEFINE f == [cell |-> cell[t], addr |-> current[c0], slot |-> 0]
  <2>1. /\ c0 \in Cell /\ InFallback(t) /\ ~InFallback(t)' /\ f \in Frame
        /\ depth[t] + 1 \in Level
        /\ UNCHANGED <<fallback_readers, FALLBACK_DEPTH>>
    BY <1>0, <1>6, <1>a, ConstantsAssumption
    DEF LoadLocked, Step, OpOf, InFallback, Frame, TypeOK, CellTypes, Level,
        cellVars
  <2>2. Push(t, f)
    BY <1>6, Zenon DEF LoadLocked
  <2>3. PICK k \in Level : k = depth[t] + 1
    BY <2>1, Zenon
  <2>4. f.slot = 0 /\ f.cell = c0
    BY Zenon
  <2> HIDE DEF f
  <2>5. ASSUME NEW c \in Cell PROVE CellExact(c)'
    <3>1. (t \in EntersOf(c) <=> c = c0) /\ EntersOf(c)' = (EntersOf(c) \ {t}) \cup {}
      BY <1>0, <2>1, EntersMove, Zenon DEF EntersOf
    <3>a. EntersOf(c)' = EntersOf(c) \ {t}
      BY <3>1, Zenon
    <3>2. /\ <<t, k>> \notin ReadsOf(c)
          /\ ReadsOf(c)' = IF c0 = c THEN ReadsOf(c) \cup {<<t, k>>} ELSE ReadsOf(c)
      BY <1>0, <2>1, <2>2, <2>3, <2>4, ReadsPushed, Zenon
    <3>3. CASE c = c0
      <4>1. Cardinality(EntersOf(c)') = Cardinality(EntersOf(c)) - 1
        BY <3>1, <3>3, <3>a, CountsFinite, CardMinus, Zenon
      <4>2. Cardinality(ReadsOf(c)') = Cardinality(ReadsOf(c)) + 1
        BY <3>2, <3>3, CountsFinite, CardPlus, Zenon
      <4>3. CellExact(c) /\ fallback_readers'[c] = fallback_readers[c]
        BY <1>b, <2>1, Zenon
      <4> QED
        BY <4>1, <4>2, <4>3, CountsNat DEF CellExact
    <3>4. CASE c # c0
      <4>1. EntersOf(c)' = EntersOf(c) /\ ReadsOf(c)' = ReadsOf(c)
        BY <3>1, <3>2, <3>4, <3>a, Zenon
      <4> QED
        BY <1>b, <2>1, <4>1, Zenon DEF CellExact
    <3> QED
      BY <3>3, <3>4, Zenon
  <2>6. ASSUME NEW u \in Thread PROVE ThreadExact(u)'
    <3>0. /\ k \notin LevelsOf(t) /\ LevelsOf(t)' = LevelsOf(t) \cup {k}
          /\ u # t => LevelsOf(u)' = LevelsOf(u)
      BY <1>0, <2>1, <2>2, <2>3, <2>4, LevelsPushed, Zenon
    <3>1. CASE u = t
      <4>1. Extra(t)' = 0 /\ Extra(t) = 1
        BY <2>1, Zenon DEF Extra
      <4>2. Cardinality(LevelsOf(t)') = Cardinality(LevelsOf(t)) + 1
        BY <3>0, CountsFinite, CardPlus, Zenon
      <4>3. ThreadExact(t) /\ FALLBACK_DEPTH'[t] = FALLBACK_DEPTH[t]
        BY <1>b, <2>1, Zenon
      <4> QED
        BY <3>1, <4>1, <4>2, <4>3, CountsNat DEF ThreadExact
    <3>2. CASE u # t
      <4>1. Extra(u)' = Extra(u) /\ LevelsOf(u)' = LevelsOf(u)
        BY <1>0, <3>0, <3>2, EntersMove, Zenon
      <4> QED
        BY <1>b, <2>1, <4>1, Zenon DEF ThreadExact
    <3> QED
      BY <3>1, <3>2, Zenon
  <2> QED
    BY <2>5, <2>6, Zenon
<1>7. CASE FallbackEnd(t)
  <2> DEFINE c1 == frame[t][depth[t]].cell
  <2>1. /\ Pop(t) /\ frame[t][depth[t]].slot = 0 /\ depth[t] \in Level
        /\ ~InFallback(t) /\ InFallback(t)' /\ cell'[t] = c1
        /\ UNCHANGED <<fallback_readers, FALLBACK_DEPTH>>
    BY <1>7, <1>a DEF FallbackEnd, Step, Level, InFallback, cellVars
  <2>2. PICK k \in Level : k = depth[t]
    BY <2>1, Zenon
  <2>3. frame[t][k].slot = 0 /\ frame[t][k].cell = c1
    BY <2>1, <2>2, Zenon
  <2> HIDE DEF c1
  <2>4. ASSUME NEW c \in Cell PROVE CellExact(c)'
    <3>1. /\ t \notin EntersOf(c)
          /\ EntersOf(c)' = (EntersOf(c) \ {t}) \cup (IF c1 = c THEN {t} ELSE {})
      BY <1>0, <2>1, EntersMove, Zenon DEF EntersOf
    <3>2. /\ <<t, k>> \in ReadsOf(c) <=> c1 = c
          /\ ReadsOf(c)' = ReadsOf(c) \ {<<t, k>>}
      BY <1>0, <2>1, <2>2, <2>3, ReadsPopped, SMTT(30)
    <3>3. CASE c = c1
      <4>0. EntersOf(c)' = EntersOf(c) \cup {t}
        BY <3>1, <3>3
      <4>1. Cardinality(EntersOf(c)') = Cardinality(EntersOf(c)) + 1
        BY <3>1, <4>0, CountsFinite, CardPlus, Zenon
      <4>2. Cardinality(ReadsOf(c)') = Cardinality(ReadsOf(c)) - 1
        BY <3>2, <3>3, CountsFinite, CardMinus, Zenon
      <4>3. CellExact(c) /\ fallback_readers'[c] = fallback_readers[c]
        BY <1>b, <2>1, Zenon
      <4> QED
        BY <4>1, <4>2, <4>3, CountsNat DEF CellExact
    <3>4. CASE c # c1
      <4>1. EntersOf(c)' = EntersOf(c)
        BY <3>1, <3>4
      <4>2. ReadsOf(c)' = ReadsOf(c)
        BY <3>2, <3>4
      <4> QED
        BY <1>b, <2>1, <4>1, <4>2, Zenon DEF CellExact
    <3> QED
      BY <3>3, <3>4, Zenon
  <2>5. ASSUME NEW u \in Thread PROVE ThreadExact(u)'
    <3>0. /\ k \in LevelsOf(t) /\ LevelsOf(t)' = LevelsOf(t) \ {k}
          /\ u # t => LevelsOf(u)' = LevelsOf(u)
      BY <1>0, <2>1, <2>2, <2>3, LevelsPopped, Zenon
    <3>1. CASE u = t
      <4>1. Extra(t)' = 1 /\ Extra(t) = 0
        BY <2>1, Zenon DEF Extra
      <4>2. Cardinality(LevelsOf(t)') = Cardinality(LevelsOf(t)) - 1
        BY <3>0, CountsFinite, CardMinus, Zenon
      <4>3. ThreadExact(t) /\ FALLBACK_DEPTH'[t] = FALLBACK_DEPTH[t]
        BY <1>b, <2>1, Zenon
      <4> QED
        BY <3>1, <4>1, <4>2, <4>3, CountsNat DEF ThreadExact
    <3>2. CASE u # t
      <4>1. Extra(u)' = Extra(u) /\ LevelsOf(u)' = LevelsOf(u)
        BY <1>0, <3>0, <3>2, EntersMove, Zenon
      <4> QED
        BY <1>b, <2>1, <4>1, Zenon DEF ThreadExact
    <3> QED
      BY <3>1, <3>2, Zenon
  <2> QED
    BY <2>4, <2>5, Zenon
<1> QED
  BY <1>0, <1>1, <1>2, <1>3, <1>4, <1>5, <1>6, <1>7, FallbackMoves, Zenon

\* Every step keeps the fallback counts exact.
LEMMA FallbackStep ==
  ASSUME SafeInv, FallbackExact, [Next]_vars
  PROVE  FallbackExact'
<1>1. ASSUME NEW t \in Thread, Acts(t) PROVE FallbackExact'
  BY <1>1, FallbackActs, Zenon DEF FallbackExact, CellExact, ThreadExact, ReadsOf,
     EntersOf, LevelsOf, Extra
<1>2. ASSUME UNCHANGED <<fallback_readers, FALLBACK_DEPTH, depth, frame, pc, cell,
                         owning>>
      PROVE  FallbackExact'
  BY <1>2, Zenon DEF FallbackExact, FallbackFrames, InFallback
<1>3. ASSUME NEW c \in Cell, DropCell(c) \/ New(c) PROVE FallbackExact'
  BY <1>2, <1>3, Zenon DEF DropCell, New, stackVars, opVars
<1>4. CASE UNCHANGED vars
  BY <1>2, <1>4, Zenon DEF vars, cellVars, stackVars, opVars
<1> QED
  BY <1>1, <1>3, <1>4, Zenon DEF Next, Acts

\* At the start nothing is counted.
LEMMA InitFallback == Init => FallbackExact
<1> SUFFICES ASSUME Init PROVE FallbackExact
  BY Zenon
<1>1. ASSUME NEW c \in Cell PROVE CellExact(c)
  <2>1. ReadsOf(c) = {} /\ EntersOf(c) = {} /\ fallback_readers[c] = 0
    BY ConstantsAssumption DEF Init, ReadsOf, EntersOf, FallbackFrames, InFallback, Level
  <2> QED
    BY <2>1, FS_EmptySet DEF CellExact
<1>2. ASSUME NEW t \in Thread PROVE ThreadExact(t)
  <2>1. LevelsOf(t) = {} /\ Extra(t) = 0 /\ FALLBACK_DEPTH[t] = 0
    BY ConstantsAssumption DEF Init, LevelsOf, Extra, InFallback, Level
  <2> QED
    BY <2>1, FS_EmptySet DEF ThreadExact
<1> QED
  BY <1>1, <1>2, FallbackParts, Zenon

\* fallback_readers and FALLBACK_DEPTH count the fallback dispatches of a
\* cell and of a thread exactly, whatever the number of threads, cells and
\* levels, nesting and unwinding included.
THEOREM FallbackCounts == Spec => []FallbackExact
<1>1. SafeInv /\ FallbackExact /\ [Next]_vars => FallbackExact'
  BY FallbackStep, Zenon
<1> QED
  BY InitFallback, <1>1, Safety, PTL DEF Spec

-----------------------------------------------------------------------------
\* A step keeps the frames of a stack, except the one it pops.
LEMMA FrameStays ==
  ASSUME SafeInv, NEW u \in Thread, Acts(u), NEW t \in Thread,
         NEW d \in Level, d <= depth[t]
  PROVE  \/ d <= depth'[t] /\ frame'[t][d] = frame[t][d]
         \/ t = u /\ d = depth[u] /\ Pop(u)
<1>0. TypeOK /\ StackTypes /\ OpOf(u)
  BY Zenon DEF SafeInv, TypeOK, OpInv
<1>1. CASE UNCHANGED <<depth, frame>>
  BY <1>1, Zenon
<1>2. ASSUME NEW f, Push(u, f), depth[u] < MaxDepth
      PROVE  d <= depth'[t] /\ frame'[t][d] = frame[t][d]
  <2>1. depth[u] + 1 \in Level
    BY <1>0, <1>2, ConstantsAssumption DEF StackTypes, Level
  <2>2. PICK k \in Level : k = depth[u] + 1
    BY <2>1, Zenon
  <2>3. t # u \/ d # k
    BY <1>0, <1>2, <2>2, StackPushed
  <2> QED
    BY <1>0, <1>2, <2>2, <2>3, StackPushed
<1>3. ASSUME Pop(u), depth[u] > 0, ~(t = u /\ d = depth[u])
      PROVE  d <= depth'[t] /\ frame'[t][d] = frame[t][d]
  <2>1. depth[u] \in Level
    BY <1>0, <1>3, ConstantsAssumption DEF StackTypes, Level
  <2>2. PICK k \in Level : k = depth[u]
    BY <2>1, Zenon
  <2> QED
    BY <1>0, <1>3, <2>2, StackPopped
<1>4. CASE Validated(u) \/ LoadLocked(u)
  <2>1. \/ UNCHANGED <<depth, frame>>
        \/ ~owning[u] /\ \E f : Push(u, f)
    BY <1>4, Zenon DEF Validated, LoadLocked
  <2>2. pc[u] \in {"validate", "clone"}
    BY <1>4, Zenon DEF Validated, LoadLocked, Step
  <2>3. ~owning[u] => depth[u] < MaxDepth
    BY <1>0, <2>2 DEF OpOf
  <2> QED
    BY <1>1, <1>2, <2>1, <2>3, Zenon
<1>5. CASE ReadEnd(u) \/ FallbackEnd(u)
  BY <1>3, <1>5, Zenon DEF ReadEnd, FallbackEnd
<1>6. CASE FallbackCount(u) \/ FallbackLeave(u)
  BY <1>1, <1>6, Zenon DEF FallbackCount, FallbackLeave, stackVars
<1>7. \/ UNCHANGED <<depth, frame, fallback_readers, FALLBACK_DEPTH>>
      \/ Validated(u) \/ ReadEnd(u) \/ FallbackCount(u) \/ LoadLocked(u)
      \/ FallbackEnd(u) \/ FallbackLeave(u)
  BY <1>0, FallbackMoves, Zenon
<1> QED
  BY <1>1, <1>4, <1>5, <1>6, <1>7, Zenon

\* What a waiter knows is its own, except that a dispatch that ends is no
\* longer owed.
LEMMA WaitLocals ==
  ASSUME TypeOK, NEW u \in Thread, Acts(u), NEW t \in Thread, t # u
  PROVE  /\ probe'[t] = probe[t] /\ on_fallback'[t] = on_fallback[t]
         /\ owed'[t] \subseteq owed[t]
         /\ Pop(u) => <<u, depth[u]>> \notin owed'[t]
<1>0. /\ probe \in [Thread -> SUBSET (Addr \X (Thread \X Slot))]
      /\ on_fallback \in [Thread -> BOOLEAN]
      /\ owed \in [Thread -> SUBSET (Thread \X Level)]
  BY Zenon DEF TypeOK, WaitTypes
<1>1. /\ probe' = probe \/ Moved(probe, probe', u)
      /\ on_fallback' = on_fallback \/ Moved(on_fallback, on_fallback', u)
      /\ owed' = owed \/ Moved(owed, owed', u) \/ Pop(u)
  BY Zenon
  DEF Acts, Proceed, Finish, Begin, Pin, PinNone, Validated, Changed,
      Protect, Keep, Unpin, Check, FallbackCount, LoadLocked, LoadUnlock,
      FallbackLeave, UpdateNone, UpdateStore, TryReclaim, Scan, Collect,
      PublishLen, Unlock, DropFreed, WaitFallback, WaitCopy, WaitUnlock,
      WaitInspect, WaitDone, WaitReturn, ReadEnd, FallbackEnd, DropOwned, Teardown, Respawn, ReadBegin,
      LoadBegin, ProtectBegin, UpdateBegin, WaitBegin, waitVars, Moved
<1>2. probe'[t] = probe[t] /\ on_fallback'[t] = on_fallback[t]
  BY <1>0, <1>1, Zenon DEF Moved
<1>3. owed' = owed \/ Moved(owed, owed', u) => owed'[t] = owed[t]
  BY <1>0, Zenon DEF Moved
<1>4. Pop(u) => owed'[t] = owed[t] \ {<<u, depth[u]>>}
  BY Zenon DEF Pop
<1> QED
  BY <1>1, <1>2, <1>3, <1>4, Zenon

\* While a thread is in an operation, no value that is allocated becomes
\* the current one of its cell.
LEMMA StaysStale ==
  ASSUME SafeInv, [Next]_vars, NEW t \in Thread, pc[t] # "user",
         NEW a \in Addr, strong[a] > 0, a # current[cell[t]]
  PROVE  a # current'[cell[t]]
<1>0. /\ current \in [Cell -> Addr \cup {NULL}] /\ cell[t] \in Cell
      /\ current[cell[t]] # NULL /\ a # NULL
  BY NullIsNothing, Zenon DEF SafeInv, TypeOK, CellTypes, OpInv, OpOf
<1>1. CASE UNCHANGED <<current, retired, freed>>
  BY <1>1, Zenon
<1>2. ASSUME NEW u \in Thread, UpdateStore(u) \/ Collect(u) \/ DropFreed(u)
      PROVE  a # current'[cell[t]]
  <2>1. CASE UpdateStore(u)
    <3>1. PICK b \in Addr : strong[b] = 0 /\ current' = [current EXCEPT ![cell[u]] = b]
      BY <2>1, Zenon DEF UpdateStore
    <3>2. a # b
      BY <3>1
    <3> QED
      BY <1>0, <3>1, <3>2, Zenon
  <2>2. CASE Collect(u) \/ DropFreed(u)
    BY <2>2, Zenon DEF Collect, DropFreed, cellVars
  <2> QED
    BY <1>2, <2>1, <2>2, Zenon
<1>3. ASSUME NEW c \in Cell, DropCell(c) \/ New(c)
      PROVE  a # current'[cell[t]]
  <2>1. c # cell[t]
    BY <1>0, <1>3, Zenon DEF DropCell, New, Unused
  <2>2. PICK x : current' = [current EXCEPT ![c] = x]
    BY <1>3, Zenon DEF DropCell, New
  <2> QED
    BY <1>0, <2>1, <2>2, Zenon
<1> QED
  BY <1>1, <1>2, <1>3, PlaceMoves, Zenon

\* What WaitInv says of one dispatch that a waiter has to outlast.
Owes(t, u, d) ==
  /\ u # t /\ d <= depth[u]
  /\ frame[u][d].cell = cell[t] /\ frame[u][d].addr # current[cell[t]]
  /\ frame[u][d].slot # 0 /\ pc[t] \in {"copied", "inspect"}
       => <<frame[u][d].addr, <<u, frame[u][d].slot>>>> \in probe[t]
  /\ frame[u][d].slot # 0 => pc[t] # "return"
  /\ frame[u][d].slot = 0 /\ pc[t] # "wait" => on_fallback[t]

Waiting(t) == pc[t] \in {"wait", "copy", "copied", "inspect", "return"}

\* WaitInv, one owed dispatch at a time.
LEMMA WaitParts ==
  TypeOK => (WaitInv <=> \A t \in Thread : Waiting(t) =>
               \A u \in Thread, d \in Level : <<u, d>> \in owed[t] => Owes(t, u, d))
<1> SUFFICES ASSUME TypeOK
             PROVE  WaitInv <=> \A t \in Thread : Waiting(t) =>
                      \A u \in Thread, d \in Level :
                        <<u, d>> \in owed[t] => Owes(t, u, d)
  BY Zenon
<1>1. \A t \in Thread : owed[t] \subseteq Thread \X Level
  BY DEF TypeOK, WaitTypes
<1>2. WaitInv <=> \A t \in Thread : Waiting(t) =>
                    \A e \in owed[t] : Owes(t, e[1], e[2])
  BY Zenon DEF WaitInv, Waiting, Owes
<1>3. ASSUME NEW t \in Thread
      PROVE  (\A e \in owed[t] : Owes(t, e[1], e[2]))
             <=> \A u \in Thread, d \in Level : <<u, d>> \in owed[t] => Owes(t, u, d)
  <2>1. \A u \in Thread, d \in Level : <<u, d>>[1] = u /\ <<u, d>>[2] = d
    OBVIOUS
  <2>2. ASSUME \A e \in owed[t] : Owes(t, e[1], e[2]),
               NEW u \in Thread, NEW d \in Level, <<u, d>> \in owed[t]
        PROVE  Owes(t, u, d)
    <3>1. Owes(t, <<u, d>>[1], <<u, d>>[2])
      BY <2>2, Zenon
    <3> QED
      BY <2>1, <3>1, Zenon
  <2>3. ASSUME \A u \in Thread, d \in Level : <<u, d>> \in owed[t] => Owes(t, u, d),
               NEW e \in owed[t]
        PROVE  Owes(t, e[1], e[2])
    <3>1. PICK u \in Thread, d \in Level : e = <<u, d>>
      BY <1>1, <2>3, PairOf, Zenon
    <3>2. Owes(t, u, d) /\ e[1] = u /\ e[2] = d
      BY <2>1, <2>3, <3>1, Zenon
    <3> QED
      BY <3>2, Zenon
  <2> QED
    BY <2>2, <2>3, Zenon
<1> QED
  BY <1>2, <1>3, Zenon

\* The value of a dispatch is allocated, and a slot of its thread names it
\* unless the dispatch is on the fallback path.
LEMMA FrameHolds ==
  ASSUME SafeInv, NEW u \in Thread, NEW d \in Level, d <= depth[u]
  PROVE  /\ frame[u][d].addr \in Addr /\ strong[frame[u][d].addr] > 0
         /\ frame[u][d].slot \in 0..SLOTS
         /\ frame[u][d].slot # 0 =>
              Guarded(u, frame[u][d].slot, frame[u][d].addr, frame[u][d].cell)
<1>1. TypeOK /\ HazardInv /\ NoUseAfterFree
  BY Allocated, Zenon DEF SafeInv
<1>2. d \in 1..depth[u]
  BY <1>1 DEF TypeOK, StackTypes, Level
<1>3. frame[u][d].addr \in Addr /\ frame[u][d].slot \in 0..SLOTS
  BY <1>1, <1>2, TopFrame
<1>4. strong[frame[u][d].addr] > 0
  BY <1>1, <1>2, Zenon DEF NoUseAfterFree
<1>5. FrameInv(u, d)
  BY <1>1, <1>2, Zenon DEF HazardInv
<1> QED
  BY <1>3, <1>4, <1>5, Zenon DEF FrameInv

\* A waiter that is not at work keeps what it knows of a dispatch that goes on.
LEMMA OwesKept ==
  ASSUME SafeInv, [Next]_vars, NEW t \in Thread, Waiting(t),
         NEW u \in Thread, NEW d \in Level, Owes(t, u, d),
         pc'[t] = pc[t], cell'[t] = cell[t], probe'[t] = probe[t],
         on_fallback'[t] = on_fallback[t],
         d <= depth'[u], frame'[u][d] = frame[u][d]
  PROVE  Owes(t, u, d)'
<1>1. frame[u][d].addr \in Addr /\ strong[frame[u][d].addr] > 0
  BY FrameHolds, Zenon DEF Owes
<1>2. pc[t] # "user"
  BY DEF Waiting
<1>3. frame[u][d].addr # current'[cell[t]]
  BY <1>1, <1>2, StaysStale, Zenon DEF Owes
<1> QED
  BY <1>3, Zenon DEF Owes

\* The steps of a waiter itself.
LEMMA WaitMoves ==
  ASSUME TypeOK, NEW t \in Thread, Acts(t), Waiting(t)'
  PROVE  \/ \E c \in Cell : WaitBegin(t, c)
         \/ WaitFallback(t) \/ WaitCopy(t) \/ WaitUnlock(t) \/ WaitInspect(t)
         \/ WaitDone(t)
<1>0. pc \in [Thread -> Labels]
  BY Zenon DEF TypeOK, OpTypes
<1>1. \A x : pc' = [pc EXCEPT ![t] = x] => pc'[t] = x
  BY <1>0, Zenon
<1>2. pc'[t] \in {"wait", "copy", "copied", "inspect", "return"}
  BY Zenon DEF Waiting
<1> USE <1>1, <1>2 DEF Step, Start
<1>3. CASE Proceed(t)
  BY <1>3, Zenon
  DEF Proceed, Pin, PinNone, Validated, Changed,
      Protect, Keep, Unpin, Check, FallbackCount, LoadLocked, LoadUnlock,
      FallbackLeave, UpdateNone, UpdateStore, TryReclaim, Scan, Collect,
      PublishLen, Unlock, DropFreed, WaitReturn
<1>4. CASE Finish(t) \/ DropOwned(t) \/ Teardown(t) \/ Respawn(t)
  BY <1>4 DEF Finish, ReadEnd, FallbackEnd, DropOwned, Teardown, Respawn
<1>5. ASSUME NEW c \in Cell, Begin(t, c) PROVE WaitBegin(t, c)
  BY <1>5 DEF Begin, ReadBegin, LoadBegin, ProtectBegin, UpdateBegin
<1> QED
  BY <1>3, <1>4, <1>5, Zenon DEF Acts

\* A step of the waiter itself: the fallback count is zero only when no
\* fallback dispatch is left, the copy holds every value a slot guards, and
\* the scan strikes only slots that do not hold it.
LEMMA WaiterStep ==
  ASSUME SafeInv, FallbackExact, WaitInv, NEW t \in Thread, Acts(t), Waiting(t)',
         NEW u \in Thread, NEW d \in Level, <<u, d>> \in owed'[t]
  PROVE  Owes(t, u, d)'
<1>0. /\ TypeOK /\ pc \in [Thread -> Labels] /\ cell \in [Thread -> Cell \cup {NULL}]
      /\ probe \in [Thread -> SUBSET (Addr \X (Thread \X Slot))]
      /\ owed \in [Thread -> SUBSET (Thread \X Level)]
      /\ on_fallback \in [Thread -> BOOLEAN]
  BY Zenon DEF SafeInv, TypeOK, OpTypes, WaitTypes
<1>1. ASSUME NEW c \in Cell, WaitBegin(t, c) PROVE Owes(t, u, d)'
  <2>1. /\ owed'[t] = StaleReaders(t, c) /\ cell'[t] = c /\ pc'[t] = "wait"
        /\ UNCHANGED <<depth, frame, current>>
    BY <1>0, <1>1, Zenon DEF WaitBegin, Start, cellVars, stackVars
  <2>2. /\ u # t /\ d <= depth[u]
        /\ frame[u][d].cell = c /\ frame[u][d].addr # current[c]
    BY <2>1 DEF StaleReaders
  <2> QED
    BY <2>1, <2>2 DEF Owes
<1>2. ASSUME WaitFallback(t) \/ WaitCopy(t) \/ WaitUnlock(t) \/ WaitInspect(t)
             \/ WaitDone(t)
      PROVE  Owes(t, u, d)'
  <2>1. UNCHANGED <<owed, on_fallback, cell, current, depth, frame>> /\ Waiting(t)
    BY <1>2, Zenon DEF WaitFallback, WaitCopy, WaitUnlock, WaitInspect, WaitDone,
       waitVars, opVars, cellVars, stackVars, Step, Waiting
  <2>2. Owes(t, u, d)
    BY <1>0, <2>1, WaitParts, Zenon
  <2> DEFINE f == frame[u][d]
  <2>3. /\ f.addr \in Addr /\ f.slot \in 0..SLOTS
        /\ f.slot # 0 => f.slot \in Slot /\ Guarded(u, f.slot, f.addr, f.cell)
    <3>1. d <= depth[u]
      BY <2>2, Zenon DEF Owes
    <3>2. /\ frame[u][d].addr \in Addr /\ frame[u][d].slot \in 0..SLOTS
          /\ frame[u][d].slot # 0 =>
               Guarded(u, frame[u][d].slot, frame[u][d].addr, frame[u][d].cell)
      BY <3>1, FrameHolds, Zenon
    <3>3. \A i \in 0..SLOTS : i # 0 => i \in Slot
      BY ConstantsAssumption DEF Slot
    <3> QED
      BY <3>2, <3>3, Zenon
  <2> HIDE DEF f
  <2>4. SUFFICES /\ f.slot # 0 /\ pc'[t] \in {"copied", "inspect"}
                      => <<f.addr, <<u, f.slot>>>> \in probe'[t]
                 /\ f.slot # 0 => pc'[t] # "return"
                 /\ f.slot = 0 /\ pc'[t] # "wait" => on_fallback[t]
    BY <2>1, <2>2, Zenon DEF Owes, f
  <2>5. /\ u # t /\ d <= depth[u] /\ f.cell = cell[t] /\ f.addr # current[cell[t]]
        /\ f.slot # 0 /\ pc[t] \in {"copied", "inspect"}
             => <<f.addr, <<u, f.slot>>>> \in probe[t]
        /\ f.slot # 0 => pc[t] # "return"
        /\ f.slot = 0 /\ pc[t] # "wait" => on_fallback[t]
    BY <2>2, Zenon DEF Owes, f
  <2>6. CASE WaitFallback(t)
    <3>1. /\ pc[t] = "wait" /\ pc'[t] = "copy"
          /\ on_fallback[t] \/ fallback_readers[cell[t]] = 0
      BY <1>0, <2>6, Zenon DEF WaitFallback, Step
    <3>2. cell[t] \in Cell
      BY <3>1 DEF SafeInv, OpInv, OpOf
    <3>3. ASSUME f.slot = 0 PROVE fallback_readers[cell[t]] # 0
      <4>1. <<u, d>> \in ReadsOf(cell[t])
        BY <2>5, <3>3 DEF ReadsOf, FallbackFrames, f
      <4>2. CellExact(cell[t]) /\ IsFiniteSet(ReadsOf(cell[t]))
        BY <3>2, FallbackParts, CountsFinite, Zenon
      <4>3. Cardinality(ReadsOf(cell[t])) # 0
        BY <4>1, <4>2, FS_EmptySet, Zenon
      <4> QED
        BY <4>2, <4>3, CountsNat, SMTT(30) DEF CellExact
    <3> QED
      BY <3>1, <3>3
  <2>7. CASE WaitCopy(t)
    <3>1. /\ pc[t] = "copy" /\ pc'[t] = "copied"
          /\ probe'[t] = retired[cell[t]] \X ((Thread \ {t}) \X Slot)
      BY <1>0, <2>7, Zenon DEF WaitCopy, Step
    <3>2. f.slot # 0 => f.addr \in retired[cell[t]] /\ f.slot \in Slot
      BY <2>3, <2>5, Zenon DEF Guarded
    <3> QED
      BY <2>5, <3>1, <3>2
  <2>a. CASE WaitUnlock(t)
    <3>1. pc[t] = "copied" /\ pc'[t] = "inspect" /\ probe' = probe
      BY <1>0, <2>a, Zenon DEF WaitUnlock, Step, waitVars
    <3> QED
      BY <2>5, <3>1
  <2>8. CASE WaitInspect(t)
    <3>1. PICK a \in Addr, r \in Thread, i \in Slot :
            \/ /\ slot[r][i] # a /\ Step(t, "inspect", "inspect")
               /\ probe' = [probe EXCEPT ![t] = @ \ {<<a, <<r, i>>>>}]
            \/ Step(t, "inspect", "wait")
      BY <2>8, Zenon DEF WaitInspect
    <3>2. CASE Step(t, "inspect", "wait")
      <4>1. pc[t] = "inspect" /\ pc'[t] = "wait"
        BY <1>0, <3>2, Zenon DEF Step
      <4> QED
        BY <4>1
    <3>3. CASE /\ slot[r][i] # a /\ Step(t, "inspect", "inspect")
               /\ probe' = [probe EXCEPT ![t] = @ \ {<<a, <<r, i>>>>}]
      <4>1. /\ pc[t] = "inspect" /\ pc'[t] = "inspect"
            /\ probe'[t] = probe[t] \ {<<a, <<r, i>>>>}
        BY <1>0, <3>3, Zenon DEF Step
      <4>2. f.slot # 0 => slot[u][f.slot] = f.addr
        BY <2>3, Zenon DEF Guarded
      <4>3. f.slot # 0 => <<f.addr, <<u, f.slot>>>> # <<a, <<r, i>>>>
        BY <3>3, <4>2
      <4> QED
        BY <2>5, <4>1, <4>3
    <3> QED
      BY <3>1, <3>2, <3>3, Zenon
  <2>9. CASE WaitDone(t)
    <3>1. pc[t] = "inspect" /\ pc'[t] = "return" /\ probe[t] = {}
      BY <1>0, <2>9, Zenon DEF WaitDone, Step
    <3> QED
      BY <2>5, <3>1
  <2> QED
    BY <1>2, <2>6, <2>7, <2>a, <2>8, <2>9, Zenon
<1> QED
  BY <1>0, <1>1, <1>2, WaitMoves, Zenon

\* Every step keeps WaitInv.
LEMMA WaitStep ==
  ASSUME SafeInv, TypeOK', FallbackExact, WaitInv, [Next]_vars
  PROVE  WaitInv'
<1>0. /\ TypeOK
      /\ owed \in [Thread -> SUBSET (Thread \X Level)]
  BY Zenon DEF SafeInv, TypeOK, WaitTypes
<1>1. ASSUME NEW t \in Thread, Waiting(t)', NEW u \in Thread, NEW d \in Level,
             <<u, d>> \in owed'[t]
      PROVE  Owes(t, u, d)'
  <2>1. ASSUME NEW w \in Thread, Acts(w), w # t PROVE Owes(t, u, d)'
    <3>1. /\ probe'[t] = probe[t] /\ on_fallback'[t] = on_fallback[t]
          /\ owed'[t] \subseteq owed[t]
          /\ Pop(w) => <<w, depth[w]>> \notin owed'[t]
      BY <1>0, <2>1, WaitLocals, Zenon
    <3>2. pc'[t] = pc[t] /\ cell'[t] = cell[t]
      BY <1>0, <2>1, OthersIdle, Zenon DEF Idle
    <3>3. Waiting(t) /\ <<u, d>> \in owed[t]
      BY <1>1, <3>1, <3>2, Zenon DEF Waiting
    <3>4. Owes(t, u, d)
      BY <1>0, <3>3, WaitParts, Zenon
    <3>5. d <= depth'[u] /\ frame'[u][d] = frame[u][d]
      <4>1. d <= depth[u]
        BY <3>4, Zenon DEF Owes
      <4>2. ~(u = w /\ d = depth[w] /\ Pop(w))
        BY <1>1, <3>1, Zenon
      <4> QED
        BY <2>1, <4>1, <4>2, FrameStays, Zenon
    <3> QED
      BY <3>1, <3>2, <3>3, <3>4, <3>5, OwesKept, Zenon
  <2>2. ASSUME UNCHANGED <<pc, cell, probe, on_fallback, owed, depth, frame>>
        PROVE  Owes(t, u, d)'
    <3>1. Waiting(t) /\ <<u, d>> \in owed[t]
      BY <1>1, <2>2, Zenon DEF Waiting
    <3>2. Owes(t, u, d)
      BY <1>0, <3>1, WaitParts, Zenon
    <3>3. d <= depth'[u]
      BY <2>2, <3>2, Zenon DEF Owes
    <3> QED
      BY <2>2, <3>1, <3>2, <3>3, OwesKept, Zenon
  <2>3. ASSUME NEW c \in Cell, DropCell(c) \/ New(c) PROVE Owes(t, u, d)'
    BY <2>2, <2>3, Zenon DEF DropCell, New, stackVars, opVars, waitVars
  <2>4. CASE UNCHANGED vars
    BY <2>2, <2>4, Zenon DEF vars, stackVars, opVars, waitVars
  <2>5. CASE Acts(t)
    BY <1>1, <2>5, WaiterStep, Zenon
  <2> QED
    BY <2>1, <2>3, <2>4, <2>5, Zenon DEF Next, Acts
<1>2. WaitInv' <=> \A t \in Thread : Waiting(t)' =>
        \A u \in Thread, d \in Level : <<u, d>> \in owed'[t] => Owes(t, u, d)'
  <2>1. (TypeOK => (WaitInv <=> \A t \in Thread : Waiting(t) =>
          \A u \in Thread, d \in Level : <<u, d>> \in owed[t] => Owes(t, u, d)))'
    BY WaitParts, PTL
  <2> QED
    BY <2>1, Zenon
<1> QED
  BY <1>1, <1>2, Zenon

\* A wait in progress has not overlooked a dispatch it has to outlast.
THEOREM WaitsHold == Spec => []WaitInv
<1>1. Init => WaitInv
  BY DEF Init, WaitInv
<1>2. SafeInv /\ SafeInv' /\ FallbackExact /\ WaitInv /\ [Next]_vars => WaitInv'
  <2>1. SafeInv => TypeOK
    BY Zenon DEF SafeInv
  <2>2. SafeInv' => TypeOK'
    BY Zenon DEF SafeInv
  <2> QED
    BY <2>2, WaitStep, Zenon
<1> QED
  BY <1>1, <1>2, Safety, FallbackCounts, PTL DEF Spec

\* wait_for_retired_readers returns only when every dispatch that held an
\* outdated list of the cell when it began has ended, save the ones on the
\* fallback path when the caller is itself on it.
THEOREM WaitsOutlast == Spec => []WaitOutlasts
<1>1. WaitInv => WaitOutlasts
  BY Zenon DEF WaitInv, WaitOutlasts
<1> QED
  BY <1>1, WaitsHold, PTL

-----------------------------------------------------------------------------
\* retired_len may lag behind the list only while the lock is held by a
\* thread that has still to publish it.
LenExact(c) == retired_len[c] = Cardinality(retired[c])
Publishing(c) == writer[c] # NULL /\ pc[writer[c]] \in {"scan", "publish"}
LenInv == \A c \in Cell : LenExact(c) \/ Publishing(c)

\* The steps that change the list or its length, or leave the labels from
\* which the length is still to be published.
LEMMA LenMoves ==
  ASSUME TypeOK, NEW t \in Thread, Acts(t)
  PROVE  \/ UNCHANGED <<retired, retired_len>> /\ pc[t] \notin {"scan", "publish"}
         \/ UpdateStore(t) \/ Scan(t) \/ Collect(t) \/ PublishLen(t)
<1> USE DEF Step, Start, cellVars
<1>1. CASE Proceed(t)
  BY <1>1, Zenon
  DEF Proceed, Pin, PinNone, Validated, Changed,
      Protect, Keep, Unpin, Check, FallbackCount, LoadLocked, LoadUnlock,
      FallbackLeave, UpdateNone, TryReclaim, Unlock, DropFreed, WaitFallback,
      WaitCopy, WaitUnlock, WaitInspect, WaitDone, WaitReturn
<1>2. CASE Finish(t) \/ DropOwned(t) \/ Teardown(t) \/ Respawn(t)
  BY <1>2, Zenon DEF Finish, ReadEnd, FallbackEnd, DropOwned, Teardown, Respawn
<1>3. ASSUME NEW c \in Cell, Begin(t, c)
      PROVE  UNCHANGED <<retired, retired_len>> /\ pc[t] \notin {"scan", "publish"}
  BY <1>3, Zenon
  DEF Begin, ReadBegin, LoadBegin, ProtectBegin, UpdateBegin, WaitBegin
<1> QED
  BY <1>1, <1>2, <1>3, Zenon DEF Acts

\* A cell that the step leaves alone stays as it is.
LEMMA LenElsewhere ==
  ASSUME SafeInv, LockInv', NEW c \in Cell, LenExact(c) \/ Publishing(c),
         retired'[c] = retired[c], retired_len'[c] = retired_len[c],
         \A w \in Thread : pc[w] \in {"scan", "publish"} /\ cell[w] = c =>
           pc'[w] = pc[w] /\ cell'[w] = cell[w]
  PROVE  LenExact(c)' \/ Publishing(c)'
<1>1. CASE LenExact(c)
  BY <1>1, Zenon DEF LenExact
<1>2. CASE Publishing(c)
  <2>1. PICK w \in Thread : writer[c] = w
    BY <1>2, Zenon DEF Publishing, SafeInv, TypeOK, CellTypes
  <2>2. pc[w] \in {"scan", "publish"} /\ cell[w] = c
    BY <1>2, <2>1, Zenon DEF Publishing, SafeInv, LockInv, NoUserCodeUnderLock
  <2>3. pc'[w] = pc[w] /\ cell'[w] = c
    BY <2>2, Zenon
  <2>4. writer'[c] = w
    BY <2>2, <2>3, Zenon DEF LockInv, Locked
  <2> QED
    BY <2>1, <2>2, <2>3, <2>4, NullIsNothing, Zenon DEF Publishing
<1> QED
  BY <1>1, <1>2, Zenon

\* Every step keeps retired_len exact outside the critical section.
LEMMA LenStep ==
  ASSUME SafeInv, LockInv', LenInv, [Next]_vars
  PROVE  LenInv'
<1>0. /\ TypeOK /\ pc \in [Thread -> Labels]
      /\ cell \in [Thread -> Cell \cup {NULL}]
      /\ retired \in [Cell -> SUBSET Addr] /\ retired_len \in [Cell -> Nat]
  BY Zenon DEF SafeInv, TypeOK, CellTypes, OpTypes
<1> SUFFICES ASSUME NEW c \in Cell PROVE LenExact(c)' \/ Publishing(c)'
  BY Zenon DEF LenInv
<1>1. LenExact(c) \/ Publishing(c)
  BY Zenon DEF LenInv
<1>2. ASSUME NEW t \in Thread, Acts(t) PROVE LenExact(c)' \/ Publishing(c)'
  <2>1. \A w \in Thread \ {t} : pc'[w] = pc[w] /\ cell'[w] = cell[w]
    BY <1>0, <1>2, OthersIdle, Zenon DEF Idle
  <2>2. CASE UNCHANGED <<retired, retired_len>> /\ pc[t] \notin {"scan", "publish"}
    BY <1>1, <2>1, <2>2, LenElsewhere, Zenon
  <2>3. CASE UpdateStore(t) \/ Scan(t) \/ Collect(t) \/ PublishLen(t)
    <3>1. pc[t] # "user" /\ cell'[t] = cell[t] /\ cell[t] \in Cell
      <4>1. pc[t] # "user" /\ cell'[t] = cell[t]
        BY <2>3, Zenon DEF UpdateStore, Scan, Collect, PublishLen, Step, opVars
      <4> QED
        BY <4>1, Zenon DEF SafeInv, OpInv, OpOf
    <3>2. CASE c # cell[t]
      <4>1. retired'[c] = retired[c] /\ retired_len'[c] = retired_len[c]
        BY <1>0, <2>3, <3>2, Zenon
        DEF UpdateStore, Scan, Collect, PublishLen, cellVars
      <4> QED
        BY <1>1, <2>1, <3>2, <4>1, LenElsewhere, Zenon
    <3>3. CASE c = cell[t] /\ (UpdateStore(t) \/ Scan(t) \/ Collect(t))
      <4>1. pc'[t] \in {"scan", "publish"}
        BY <1>0, <3>3, Zenon DEF UpdateStore, Scan, Collect, Step
      <4>2. writer'[c] = t
        BY <3>1, <3>3, <4>1, Zenon DEF LockInv, Locked
      <4> QED
        BY <4>1, <4>2, NullIsNothing, Zenon DEF Publishing
    <3>4. CASE c = cell[t] /\ PublishLen(t)
      BY <1>0, <3>4, Zenon DEF PublishLen, LenExact
    <3> QED
      BY <2>3, <3>2, <3>3, <3>4, Zenon
  <2> QED
    BY <1>0, <1>2, <2>2, <2>3, LenMoves, Zenon
<1>3. ASSUME UNCHANGED <<pc, cell>>, retired'[c] = retired[c],
             retired_len'[c] = retired_len[c]
      PROVE  LenExact(c)' \/ Publishing(c)'
  BY <1>1, <1>3, LenElsewhere, Zenon
<1>4. ASSUME NEW b \in Cell, DropCell(b) PROVE LenExact(c)' \/ Publishing(c)'
  <2>1. CASE b = c
    <3>1. retired'[c] = {} /\ retired_len'[c] = 0
      BY <1>0, <1>4, <2>1, Zenon DEF DropCell
    <3> QED
      BY <3>1, FS_EmptySet, Zenon DEF LenExact
  <2>2. CASE b # c
    BY <1>0, <1>3, <1>4, <2>2, Zenon DEF DropCell, opVars
  <2> QED
    BY <2>1, <2>2, Zenon
<1>5. ASSUME NEW b \in Cell, New(b) PROVE LenExact(c)' \/ Publishing(c)'
  BY <1>3, <1>5, Zenon DEF New, opVars
<1>6. CASE UNCHANGED vars
  BY <1>3, <1>6, Zenon DEF vars, cellVars, opVars
<1> QED
  BY <1>2, <1>4, <1>5, <1>6, Zenon DEF Next, Acts

\* Whenever no one holds the writer lock, retired_len is the length of the
\* retired list: a reader that finds the lock free and the counter zero has
\* nothing to reclaim.
THEOREM LengthTells == Spec => []RetiredLenTells
<1>1. Init => LenInv
  BY FS_EmptySet DEF Init, LenInv, LenExact
<1>2. SafeInv /\ SafeInv' /\ LenInv /\ [Next]_vars => LenInv'
  <2>1. SafeInv' => LockInv'
    BY Zenon DEF SafeInv
  <2> QED
    BY <2>1, LenStep, Zenon
<1>3. LenInv => RetiredLenTells
  BY Zenon DEF LenInv, LenExact, Publishing, RetiredLenTells
<1> QED
  BY <1>1, <1>2, <1>3, Safety, PTL DEF Spec

-----------------------------------------------------------------------------
(* The refinement *)

\* What is in use has a value: AbstractCell's condition on its collector.
LEMMA InUse == SafeInv => Abstract!InUseLives
<1> SUFFICES ASSUME SafeInv PROVE Abstract!InUseLives
  BY Zenon
<1>0. TypeOK /\ OpInv /\ RefcountExact /\ NoUseAfterFree
  BY Allocated, Zenon DEF SafeInv
<1>1. ASSUME NEW c \in Cell PROVE current[c] \in Live \cup {NULL}
  <2>1. current[c] \in Addr \cup {NULL}
    BY <1>0, Zenon DEF TypeOK, CellTypes
  <2> QED
    BY <1>0, <2>1, Referenced, Zenon DEF Live
<1>2. ASSUME NEW t \in Thread, NEW d \in 1..depth[t]
      PROVE  Held[t][d].addr \in Live
  <2>1. d \in Level /\ frame[t][d].addr \in Addr
    BY <1>0, TopFrame, Zenon
  <2>2. strong[frame[t][d].addr] > 0
    BY <1>0, Zenon DEF NoUseAfterFree
  <2> QED
    BY <2>1, <2>2, Zenon DEF Live, Held
<1>3. ASSUME NEW t \in Thread PROVE Handle[t] \in Live \cup {NULL}
  <2>1. owned[t] \in Addr \cup {NULL} /\ ptr[t] \in Addr \cup {NULL}
    BY <1>0, Zenon DEF TypeOK, HeapTypes, OpTypes
  <2>2. CASE pc[t] = "keep"
    BY <1>0, <2>1, <2>2, Zenon DEF Handle, HandleOf, Live, NoUseAfterFree
  <2>3. CASE pc[t] # "keep"
    BY <1>0, <2>1, <2>3, Referenced, Zenon DEF Handle, HandleOf, Live
  <2> QED
    BY <2>2, <2>3, Zenon
<1>4. ASSUME NEW t \in Thread PROVE Base[t].addr \in Live \cup {NULL}
  <2>1. ptr[t] \in Addr \cup {NULL}
    BY <1>0, Zenon DEF TypeOK, OpTypes
  <2>2. CASE pc[t] = "build"
    BY <1>0, <2>1, <2>2, Zenon DEF Base, BaseOf, Live, NoUseAfterFree
  <2>3. CASE pc[t] # "build"
    BY <2>3 DEF Base, BaseOf
  <2> QED
    BY <2>2, <2>3, Zenon
<1> QED
  BY <1>1, <1>2, <1>3, <1>4, Zenon DEF Abstract!InUseLives

\* The step of a thread shows nothing of the others.
LEMMA OthersSame ==
  ASSUME TypeOK, NEW t \in Thread, Acts(t)
  PROVE  /\ Handle' = [Handle EXCEPT ![t] = HandleOf(t)']
         /\ Base' = [Base EXCEPT ![t] = BaseOf(t)']
<1>1. ASSUME NEW u \in Thread, u # t
      PROVE  HandleOf(u)' = HandleOf(u) /\ BaseOf(u)' = BaseOf(u)
  BY <1>1, OthersIdle, Zenon DEF Idle, HandleOf, BaseOf
<1>2. Handle' = [Handle EXCEPT ![t] = HandleOf(t)']
  <2>1. Handle = [u \in Thread |-> HandleOf(u)]
        /\ Handle' = [u \in Thread |-> HandleOf(u)']
    BY Zenon DEF Handle
  <2> QED
    BY <1>1, <2>1
<1>3. Base' = [Base EXCEPT ![t] = BaseOf(t)']
  <2>1. Base = [u \in Thread |-> BaseOf(u)]
        /\ Base' = [u \in Thread |-> BaseOf(u)']
    BY Zenon DEF Base
  <2> QED
    BY <1>1, <2>1
<1> QED
  BY <1>2, <1>3, Zenon

\* The steps in which an abstract one takes place.
Shows(t) ==
  \/ Validated(t) \/ Keep(t) \/ LoadLocked(t) \/ ReadEnd(t) \/ FallbackEnd(t)
  \/ DropOwned(t) \/ UpdateNone(t) \/ UpdateStore(t) \/ DropFreed(t)
  \/ \E c \in Cell : UpdateBegin(t, c)

\* All other steps of a thread are invisible.
LEMMA Silent ==
  ASSUME TypeOK, NEW t \in Thread, Acts(t), ~Shows(t)
  PROVE  UNCHANGED Abstract!vars
<1>1. /\ UNCHANGED <<strong, current, owned, depth, frame>>
      /\ pc[t] \notin {"keep", "build"} /\ pc'[t] \notin {"keep", "build"}
  <2>0. pc \in [Thread -> Labels]
    BY Zenon DEF TypeOK, OpTypes
  <2> USE <2>0 DEF cellVars, heapVars, stackVars, Step, Start
  <2> DEFINE Hidden ==
        /\ UNCHANGED <<strong, current, owned, depth, frame>>
        /\ pc[t] \notin {"keep", "build"} /\ pc'[t] \notin {"keep", "build"}
  <2>1. ASSUME Pin(t) \/ PinNone(t) \/ Changed(t) \/ Protect(t) \/ Unpin(t)
               \/ Check(t)
        PROVE  Hidden
    BY <2>1, Zenon DEF Pin, PinNone, Changed, Protect, Unpin, Check
  <2>2. ASSUME FallbackCount(t) \/ FallbackLeave(t) \/ TryReclaim(t) \/ Scan(t)
        PROVE  Hidden
    BY <2>2, Zenon DEF FallbackCount, FallbackLeave, TryReclaim, Scan
  <2>3. ASSUME Collect(t) \/ PublishLen(t) \/ Unlock(t) \/ LoadUnlock(t)
        PROVE  Hidden
    BY <2>3, Zenon DEF Collect, PublishLen, Unlock, LoadUnlock
  <2>4. ASSUME \/ WaitFallback(t) \/ WaitCopy(t) \/ WaitUnlock(t)
               \/ WaitInspect(t) \/ WaitDone(t) \/ WaitReturn(t)
        PROVE  Hidden
    BY <2>4, Zenon
    DEF WaitFallback, WaitCopy, WaitUnlock, WaitInspect, WaitDone, WaitReturn
  <2>5. ASSUME Teardown(t) \/ Respawn(t) PROVE Hidden
    BY <2>5, Zenon DEF Teardown, Respawn
  <2>6. ASSUME NEW c \in Cell,
               ReadBegin(t, c) \/ LoadBegin(t, c) \/ WaitBegin(t, c)
        PROVE  Hidden
    BY <2>6, Zenon DEF ReadBegin, LoadBegin, ProtectBegin, WaitBegin
  <2> HIDE DEF Hidden
  <2>7. Hidden
    BY <2>1, <2>2, <2>3, <2>4, <2>5, <2>6, Zenon
    DEF Acts, Proceed, Finish, Begin, Shows
  <2> QED
    BY <2>7, Zenon DEF Hidden
<1>2. HandleOf(t)' = HandleOf(t) /\ BaseOf(t)' = BaseOf(t)
  BY <1>1, Zenon DEF HandleOf, BaseOf
<1>3. Handle' = Handle /\ Base' = Base
  <2>1. Handle = [u \in Thread |-> HandleOf(u)] /\ Base = [u \in Thread |-> BaseOf(u)]
    BY Zenon DEF Handle, Base
  <2> QED
    BY <1>2, <2>1, OthersSame
<1>4. Live' = Live /\ Held' = Held
  BY <1>1, Zenon DEF Live, Held
<1> QED
  BY <1>1, <1>3, <1>4, Zenon DEF Abstract!vars

\* A dispatch that begins or ends is one in AbstractCell.
LEMMA HeldPushed ==
  ASSUME TypeOK, NEW t \in Thread, NEW f, Push(t, f), depth[t] + 1 \in Level
  PROVE  Held' = [Held EXCEPT ![t][depth[t] + 1] = [cell |-> f.cell, addr |-> f.addr]]
<1>1. frame \in [Thread -> [Level -> Frame \cup {NoFrame}]]
  BY Zenon DEF TypeOK, StackTypes
<1>2. PICK k \in Level : k = depth[t] + 1
  BY Zenon
<1>3. frame' = [frame EXCEPT ![t][k] = f]
  BY <1>2, Zenon DEF Push
<1> DEFINE V(g) == [cell |-> g.cell, addr |-> g.addr]
<1>4. /\ Held = [u \in Thread |-> [d \in Level |-> V(frame[u][d])]]
      /\ Held' = [u \in Thread |-> [d \in Level |-> V(frame'[u][d])]]
  BY Zenon DEF Held
<1> HIDE DEF V
<1>5. Held' = [Held EXCEPT ![t][k] = V(f)]
  BY <1>1, <1>3, <1>4, Zenon
<1> QED
  BY <1>2, <1>5, Zenon DEF V

\* The end of a dispatch removes the innermost borrowed value.
LEMMA HeldPopped ==
  ASSUME TypeOK, NEW t \in Thread, Pop(t), depth[t] \in Level
  PROVE  Held' = [Held EXCEPT ![t][depth[t]] = Abstract!Nothing]
<1>1. frame \in [Thread -> [Level -> Frame \cup {NoFrame}]]
  BY Zenon DEF TypeOK, StackTypes
<1>2. PICK k \in Level : k = depth[t]
  BY Zenon
<1>3. frame' = [frame EXCEPT ![t][k] = NoFrame]
  BY <1>2, Zenon DEF Pop
<1> DEFINE V(g) == [cell |-> g.cell, addr |-> g.addr]
<1>4. /\ Held = [u \in Thread |-> [d \in Level |-> V(frame[u][d])]]
      /\ Held' = [u \in Thread |-> [d \in Level |-> V(frame'[u][d])]]
  BY Zenon DEF Held
<1>6. V(NoFrame) = Abstract!Nothing
  BY DEF NoFrame, Abstract!Nothing
<1> HIDE DEF V
<1>5. Held' = [Held EXCEPT ![t][k] = V(NoFrame)]
  BY <1>1, <1>3, <1>4, Zenon
<1> QED
  BY <1>2, <1>5, <1>6, Zenon

\* Dropping references only deallocates.
LEMMA Shrinks ==
  ASSUME TypeOK, NEW A, DropRefs(A)
  PROVE  Live' \subseteq Live
  BY DEF TypeOK, HeapTypes, DropRefs, Live

\* A reference more to a value that is allocated changes nothing here.
LEMMA CountedUp ==
  ASSUME TypeOK, NEW a \in Addr, strong[a] > 0,
         strong' = [strong EXCEPT ![a] = @ + 1]
  PROVE  Live' = Live
  BY DEF TypeOK, HeapTypes, Live

\* A new allocation.
LEMMA AllocatedNew ==
  ASSUME TypeOK, NEW a \in Addr, strong[a] = 0,
         strong' = [strong EXCEPT ![a] = 1]
  PROVE  a \notin Live /\ Live' = Live \cup {a}
  BY DEF TypeOK, HeapTypes, Live

\* The visible steps of a thread, each as the abstract step it implements.
LEMMA Visible ==
  ASSUME SafeInv, Abstract!InUseLives', NEW t \in Thread, Acts(t), Shows(t)
  PROVE  Abstract!Next \/ UNCHANGED Abstract!vars
<1>0. /\ TypeOK /\ OpInv /\ OpOf(t) /\ LockInv /\ RefcountExact
      /\ NoUseAfterFree
  BY Allocated, Zenon DEF SafeInv, OpInv
<1>a. /\ pc \in [Thread -> Labels] /\ cell \in [Thread -> Cell \cup {NULL}]
      /\ ptr \in [Thread -> Addr \cup {NULL}]
      /\ owned \in [Thread -> Addr \cup {NULL}]
      /\ current \in [Cell -> Addr \cup {NULL}]
      /\ depth \in [Thread -> 0..MaxDepth]
  BY <1>0, Zenon DEF TypeOK, OpTypes, HeapTypes, CellTypes, StackTypes
<1>b. /\ Handle = [u \in Thread |-> HandleOf(u)]
      /\ Base = [u \in Thread |-> BaseOf(u)]
      /\ Handle' = [Handle EXCEPT ![t] = HandleOf(t)']
      /\ Base' = [Base EXCEPT ![t] = BaseOf(t)']
  BY <1>0, OthersSame, Zenon DEF Handle, Base
<1>c. HandleOf(t)' = HandleOf(t) => Handle' = Handle
  BY <1>b
<1>d. BaseOf(t)' = BaseOf(t) => Base' = Base
  BY <1>b
<1>e. ~(pc[t] = "build") => BaseOf(t) = Abstract!Nothing
  BY Zenon DEF BaseOf, Abstract!Nothing
<1>f. pc'[t] # "build" => BaseOf(t)' = Abstract!Nothing
  BY Zenon DEF BaseOf, Abstract!Nothing
<1> USE DEF Step, Start, cellVars, heapVars, stackVars
<1>1. CASE Validated(t)
  <2>1. /\ cell[t] \in Cell /\ current[cell[t]] # NULL
        /\ pc[t] = "validate" /\ current[cell[t]] = ptr[t]
        /\ UNCHANGED <<strong, current, owned>>
        /\ pc'[t] = IF owning[t] THEN "keep" ELSE "user"
    BY <1>0, <1>1, <1>a, Zenon DEF Validated, OpOf
  <2>2. Live' = Live /\ Base' = Base
    <3>1. pc'[t] # "build"
      BY <2>1
    <3> QED
      BY <1>d, <1>e, <1>f, <2>1, <3>1, Zenon DEF Live
  <2>3. CASE owning[t]
    <3>1. /\ HandleOf(t) = NULL /\ HandleOf(t)' = current[cell[t]]
          /\ UNCHANGED <<depth, frame>>
      BY <1>0, <1>1, <2>1, <2>3, Zenon DEF Validated, OpOf, HandleOf
    <3>2. Held' = Held
      BY <3>1, Zenon DEF Held
    <3>3. Abstract!Load(t, cell[t])
      BY <1>b, <2>1, <2>2, <3>1, <3>2, Zenon DEF Abstract!Load
    <3> QED
      BY <2>1, <3>3, Zenon DEF Abstract!Next
  <2>4. CASE ~owning[t]
    <3>0. depth[t] < MaxDepth
      BY <1>0, <2>1, <2>4, Zenon DEF OpOf
    <3>a. depth[t] + 1 \in Level
      BY <1>a, <3>0, ConstantsAssumption DEF Level
    <3>1. /\ depth[t] < MaxDepth /\ depth[t] + 1 \in Level
          /\ Push(t, [cell |-> cell[t], addr |-> ptr[t], slot |-> pin[t]])
      BY <1>1, <2>4, <3>0, <3>a, Zenon DEF Validated
    <3>2. HandleOf(t)' = HandleOf(t)
      BY <2>1, <2>4, Zenon DEF HandleOf
    <3>3. Held' = [Held EXCEPT ![t][depth[t] + 1] = Abstract!Of(cell[t])]
      BY <1>0, <2>1, <3>1, HeldPushed DEF Abstract!Of
    <3>4. Abstract!Enter(t, cell[t])
      BY <1>c, <2>1, <2>2, <3>1, <3>2, <3>3, Zenon DEF Abstract!Enter, Push
    <3> QED
      BY <2>1, <3>4, Zenon DEF Abstract!Next
  <2> QED
    BY <2>3, <2>4, Zenon
<1>2. CASE Keep(t)
  <2>1. /\ pc[t] = "keep" /\ pc'[t] = "unpin" /\ ptr[t] \in Addr
        /\ owned[t] = NULL /\ strong[ptr[t]] > 0
        /\ UNCHANGED <<current, depth, frame>>
    BY <1>0, <1>2, <1>a, Zenon DEF Keep, OpOf, NoUseAfterFree
  <2>2. Base' = Base /\ Held' = Held
    BY <1>d, <1>e, <1>f, <2>1, Zenon DEF Held
  <2>3. HandleOf(t) = ptr[t] /\ HandleOf(t)' = owned'[t]
    BY <2>1, Zenon DEF HandleOf
  <2>4. CASE /\ strong' = [strong EXCEPT ![ptr[t]] = @ + 1]
             /\ owned' = [owned EXCEPT ![t] = ptr[t]]
    <3>1. HandleOf(t)' = HandleOf(t)
      BY <1>a, <2>3, <2>4, Zenon
    <3>2. Live' = Live
      BY <1>0, <2>1, <2>4, CountedUp, Zenon
    <3> QED
      BY <1>c, <2>1, <2>2, <3>1, <3>2, Zenon DEF Abstract!vars
  <2>5. CASE UNCHANGED <<strong, owned>>
    <3>1. Live' = Live
      BY <2>5, Zenon DEF Live
    <3>2. Handle[t] # NULL /\ HandleOf(t)' = NULL
      BY <1>b, <2>1, <2>3, <2>5, NullIsNothing, Zenon
    <3>3. Abstract!Release(t)
      BY <1>b, <2>1, <2>2, <3>1, <3>2, Zenon
      DEF Abstract!Release, Abstract!Collected
    <3> QED
      BY <3>3, Zenon DEF Abstract!Next
  <2> QED
    BY <1>2, <2>4, <2>5, Zenon DEF Keep
<1>3. CASE LoadLocked(t)
  <2>1. /\ cell[t] \in Cell /\ current[cell[t]] \in Addr
        /\ current[cell[t]] # NULL
        /\ pc[t] = "clone" /\ pc'[t] = "cloned"
        /\ UNCHANGED current
        /\ strong' = [strong EXCEPT ![current[cell[t]]] = @ + 1]
    BY <1>0, <1>3, <1>a, Zenon DEF LoadLocked, OpOf
  <2>2. Live' = Live
    <3>1. strong[current[cell[t]]] > 0
      BY <1>0, <2>1, Referenced, Zenon
    <3> QED
      BY <1>0, <2>1, <3>1, CountedUp, Zenon
  <2>3. Base' = Base
    BY <1>d, <1>e, <1>f, <2>1, Zenon
  <2>4. CASE owning[t]
    <3>1. /\ HandleOf(t) = NULL /\ HandleOf(t)' = current[cell[t]]
          /\ UNCHANGED <<depth, frame>>
      BY <1>0, <1>3, <1>a, <2>1, <2>4, Zenon DEF LoadLocked, OpOf, HandleOf
    <3>2. Held' = Held
      BY <3>1, Zenon DEF Held
    <3>3. Abstract!Load(t, cell[t])
      BY <1>b, <2>1, <2>2, <2>3, <3>1, <3>2, Zenon DEF Abstract!Load
    <3> QED
      BY <2>1, <3>3, Zenon DEF Abstract!Next
  <2>5. CASE ~owning[t]
    <3>0. depth[t] < MaxDepth
      BY <1>0, <2>1, <2>5, Zenon DEF OpOf
    <3>a. depth[t] + 1 \in Level
      BY <1>a, <3>0, ConstantsAssumption DEF Level
    <3>1. /\ depth[t] < MaxDepth /\ depth[t] + 1 \in Level
          /\ Push(t, [cell |-> cell[t], addr |-> current[cell[t]], slot |-> 0])
          /\ UNCHANGED owned
      BY <1>3, <2>5, <3>0, <3>a, Zenon DEF LoadLocked
    <3>2. HandleOf(t)' = HandleOf(t)
      BY <2>1, <3>1, Zenon DEF HandleOf
    <3>3. Held' = [Held EXCEPT ![t][depth[t] + 1] = Abstract!Of(cell[t])]
      BY <1>0, <3>1, HeldPushed DEF Abstract!Of
    <3>4. Abstract!Enter(t, cell[t])
      BY <1>c, <2>1, <2>2, <2>3, <3>1, <3>2, <3>3, Zenon
      DEF Abstract!Enter, Push
    <3> QED
      BY <2>1, <3>4, Zenon DEF Abstract!Next
  <2> QED
    BY <2>4, <2>5, Zenon
<1>4. CASE ReadEnd(t) \/ FallbackEnd(t)
  <2>1. /\ depth[t] > 0 /\ depth[t] \in Level /\ Pop(t)
        /\ pc[t] = "user" /\ pc'[t] \in {"user", "check", "leave"}
        /\ UNCHANGED <<current, owned>>
    BY <1>4, <1>a DEF ReadEnd, FallbackEnd, Level
  <2>2. Live' \subseteq Live
    <3>1. CASE ReadEnd(t)
      BY <3>1, Zenon DEF ReadEnd, Live
    <3>2. CASE FallbackEnd(t)
      BY <1>0, <3>2, Shrinks, Zenon DEF FallbackEnd
    <3> QED
      BY <1>4, <3>1, <3>2, Zenon
  <2>3. Base' = Base /\ Handle' = Handle
    <3>1. pc'[t] # "build" /\ HandleOf(t)' = HandleOf(t)
      BY <2>1, Zenon DEF HandleOf
    <3> QED
      BY <1>c, <1>d, <1>e, <1>f, <2>1, <3>1, Zenon
  <2>4. Held' = [Held EXCEPT ![t][depth[t]] = Abstract!Nothing]
    BY <1>0, <2>1, HeldPopped, Zenon
  <2>5. Abstract!Leave(t)
    BY <2>1, <2>2, <2>3, <2>4, Zenon DEF Abstract!Leave, Abstract!Collected, Pop
  <2> QED
    BY <2>5, Zenon DEF Abstract!Next
<1>5. CASE DropOwned(t)
  <2>1. /\ pc[t] = "user" /\ pc' = pc /\ owned[t] # NULL /\ owned'[t] = NULL
        /\ UNCHANGED <<current, depth, frame>>
    BY <1>5, <1>a DEF DropOwned
  <2>2. Live' \subseteq Live
    BY <1>0, <1>5, Shrinks, Zenon DEF DropOwned
  <2>3. Base' = Base /\ Held' = Held
    BY <1>d, <1>e, <1>f, <2>1, ZenonT(40) DEF Held
  <2>4. Handle[t] # NULL /\ HandleOf(t)' = NULL
    BY <1>b, <2>1 DEF HandleOf
  <2>5. Abstract!Release(t)
    BY <1>b, <2>1, <2>2, <2>3, <2>4, Zenon
    DEF Abstract!Release, Abstract!Collected
  <2> QED
    BY <2>5, Zenon DEF Abstract!Next
<1>6. CASE UpdateNone(t)
  <2>1. /\ pc[t] = "build" /\ pc'[t] = "user" /\ ptr[t] # NULL
        /\ UNCHANGED <<strong, current, owned, depth, frame>>
    BY <1>0, <1>6, <1>a, Zenon DEF UpdateNone, OpOf
  <2>2. Live' = Live /\ Held' = Held
    BY <2>1, Zenon DEF Live, Held
  <2>3. Handle' = Handle
    <3>1. HandleOf(t)' = HandleOf(t)
      BY <2>1, Zenon DEF HandleOf
    <3> QED
      BY <1>c, <3>1, Zenon
  <2>4. Base[t] # Abstract!Nothing /\ BaseOf(t)' = Abstract!Nothing
    BY <1>b, <1>f, <2>1, Zenon DEF BaseOf, Abstract!Nothing
  <2>5. Abstract!Keep(t)
    BY <1>b, <2>1, <2>2, <2>3, <2>4, Zenon DEF Abstract!Keep
  <2> QED
    BY <2>5, Zenon DEF Abstract!Next
<1>7. CASE UpdateStore(t)
  <2>1. PICK a \in Addr : /\ strong[a] = 0 /\ strong' = [strong EXCEPT ![a] = 1]
                          /\ current' = [current EXCEPT ![cell[t]] = a]
    BY <1>7, Zenon DEF UpdateStore
  <2>2. /\ pc[t] = "build" /\ pc'[t] = "scan" /\ cell[t] \in Cell
        /\ ptr[t] = current[cell[t]]
        /\ UNCHANGED <<owned, depth, frame>>
    BY <1>0, <1>7, <1>a, Zenon DEF UpdateStore, OpOf, LockInv
  <2>3. a \notin Live /\ Live' = Live \cup {a}
    BY <1>0, <2>1, AllocatedNew, Zenon
  <2>4. Held' = Held /\ Handle' = Handle
    <3>1. HandleOf(t)' = HandleOf(t)
      BY <2>2, Zenon DEF HandleOf
    <3> QED
      BY <1>c, <2>2, <3>1, Zenon DEF Held
  <2>5. Base[t] = Abstract!Of(cell[t]) /\ BaseOf(t)' = Abstract!Nothing
    BY <1>b, <1>f, <2>2, Zenon DEF BaseOf, Abstract!Of
  <2>6. Abstract!Replace(t, cell[t])
    BY <1>b, <2>1, <2>2, <2>3, <2>4, <2>5, Zenon DEF Abstract!Replace
  <2> QED
    BY <2>2, <2>6, Zenon DEF Abstract!Next
<1>8. CASE DropFreed(t)
  <2>1. /\ pc[t] = "drop" /\ pc'[t] = "user"
        /\ UNCHANGED <<current, owned, depth, frame>>
    BY <1>8, <1>a DEF DropFreed
  <2>2. Live' \subseteq Live
    BY <1>0, <1>8, Shrinks, Zenon DEF DropFreed
  <2>3. Held' = Held /\ Handle' = Handle /\ Base' = Base
    <3>1. HandleOf(t)' = HandleOf(t) /\ BaseOf(t)' = BaseOf(t)
      BY <2>1, <1>e, <1>f, Zenon DEF HandleOf
    <3> QED
      BY <1>c, <1>d, <2>1, <3>1, Zenon DEF Held
  <2>4. Abstract!Reclaim
    BY <2>1, <2>2, <2>3, Zenon DEF Abstract!Reclaim, Abstract!Collected
  <2> QED
    BY <2>4, Zenon DEF Abstract!Next
<1>9. ASSUME NEW c \in Cell, UpdateBegin(t, c) PROVE Abstract!Next
  <2>1. /\ pc[t] = "user" /\ pc'[t] = "build" /\ cell'[t] = c
        /\ ptr'[t] = current[c] /\ current[c] # NULL /\ writer[c] = NULL
        /\ UNCHANGED <<strong, current, owned, depth, frame>>
    BY <1>9, <1>a, Zenon DEF UpdateBegin
  <2>2. Live' = Live /\ Held' = Held
    BY <2>1, Zenon DEF Live, Held
  <2>3. Handle' = Handle
    <3>1. HandleOf(t)' = HandleOf(t)
      BY <2>1, Zenon DEF HandleOf
    <3> QED
      BY <1>c, <3>1, Zenon
  <2>4. ASSUME NEW u \in Thread PROVE Base[u].cell # c
    <3>1. Base[u].cell = IF pc[u] = "build" THEN cell[u] ELSE NULL
      BY <1>b, ZenonT(40) DEF BaseOf
    <3>2. pc[u] = "build" => writer[cell[u]] = u
      BY <1>0, Zenon DEF LockInv, Locked
    <3> QED
      BY <2>1, <3>1, <3>2, NullIsNothing, ZenonT(40)
  <2>5. BaseOf(t)' = Abstract!Of(c)
    BY <2>1, Zenon DEF BaseOf, Abstract!Of
  <2>6. Abstract!Begin(t, c)
    BY <1>b, <2>1, <2>2, <2>3, <2>4, <2>5, Zenon DEF Abstract!Begin
  <2> QED
    BY <2>6, Zenon DEF Abstract!Next
<1> QED
  BY <1>1, <1>2, <1>3, <1>4, <1>5, <1>6, <1>7, <1>8, <1>9, Zenon DEF Shows

\* The end and the creation of a cell.
LEMMA CellsImplement ==
  ASSUME SafeInv, Abstract!InUseLives', NEW c \in Cell, DropCell(c) \/ New(c)
  PROVE  Abstract!Next
<1>0. TypeOK /\ OpInv
  BY Zenon DEF SafeInv
<1>1. UNCHANGED <<pc, ptr, cell, owned, depth, frame>>
  BY Zenon DEF DropCell, New, opVars, stackVars
<1>2. UNCHANGED <<depth, Held, Handle, Base>>
  BY <1>1, Zenon DEF Held, Handle, HandleOf, Base, BaseOf
<1>3. CASE DropCell(c)
  <2>1. ASSUME NEW t \in Thread PROVE Base[t].cell # c
    <3>1. Base[t].cell = IF pc[t] = "build" THEN cell[t] ELSE NULL
      BY Zenon DEF Base, BaseOf
    <3>2. pc[t] = "build" => cell[t] # c
      BY <1>3, Zenon DEF DropCell, Unused
    <3> QED
      BY <3>1, <3>2, NullIsNothing, Zenon
  <2>2. ASSUME NEW t \in Thread, NEW d \in 1..depth[t] PROVE Held[t][d].cell # c
    <3>1. d \in Level
      BY <1>0, TopFrame, Zenon
    <3>2. frame[t][d].cell # c
      BY <1>3, Zenon DEF DropCell, Unused
    <3> QED
      BY <3>1, <3>2, Zenon DEF Held
  <2>3. Live' \subseteq Live
    BY <1>0, <1>3, Shrinks, Zenon DEF DropCell
  <2>4. Abstract!Drop(c)
    BY <1>2, <1>3, <2>1, <2>2, <2>3, Zenon
    DEF DropCell, Abstract!Drop, Abstract!Collected
  <2> QED
    BY <2>4, Zenon DEF Abstract!Next
<1>4. CASE New(c)
  <2>1. PICK a \in Addr : /\ strong[a] = 0 /\ strong' = [strong EXCEPT ![a] = 1]
                          /\ current[c] = NULL
                          /\ current' = [current EXCEPT ![c] = a]
    BY <1>4, Zenon DEF New
  <2>2. a \notin Live /\ Live' = Live \cup {a}
    BY <1>0, <2>1, AllocatedNew, Zenon
  <2>3. Abstract!New(c)
    BY <1>2, <2>1, <2>2, Zenon DEF Abstract!New
  <2> QED
    BY <2>3, Zenon DEF Abstract!Next
<1> QED
  BY <1>3, <1>4, Zenon

\* The cell starts as the abstract one.
LEMMA InitImplements == Init => Abstract!Init
<1> SUFFICES ASSUME Init PROVE Abstract!Init
  BY Zenon
<1>1. Live = {current[c] : c \in Cell}
  BY DEF Init, Live
<1>2. Held = [t \in Thread |-> [d \in Abstract!Level |-> Abstract!Nothing]]
  BY DEF Init, Held, NoFrame, Level, Abstract!Level, Abstract!Nothing
<1>3. /\ Handle = [t \in Thread |-> NULL]
      /\ Base = [t \in Thread |-> Abstract!Nothing]
  BY DEF Init, Handle, HandleOf, Base, BaseOf, Abstract!Nothing
<1> QED
  BY <1>1, <1>2, <1>3, Zenon DEF Init, Abstract!Init

\* The snapshot cell implements the abstract one, for any number of threads,
\* cells, addresses, slots and nested dispatches: a dispatch and a clone see
\* a value that was current during their call, no update is lost, and memory
\* goes only when nobody uses it.
THEOREM Refinement == Spec => Implements
<1>1. SafeInv' => Abstract!InUseLives'
  BY InUse, PTL
<1>2. SafeInv /\ SafeInv' /\ [Next]_vars => [Abstract!Next]_(Abstract!vars)
  <2> SUFFICES ASSUME SafeInv, SafeInv', [Next]_vars
               PROVE  Abstract!Next \/ UNCHANGED Abstract!vars
    BY Zenon
  <2>0. TypeOK /\ Abstract!InUseLives'
    BY <1>1, Zenon DEF SafeInv
  <2>1. ASSUME NEW t \in Thread, Acts(t)
        PROVE  Abstract!Next \/ UNCHANGED Abstract!vars
    BY <2>0, <2>1, Silent, Visible, Zenon
  <2>2. ASSUME NEW c \in Cell, DropCell(c) \/ New(c) PROVE Abstract!Next
    BY <2>0, <2>2, CellsImplement, Zenon
  <2>3. CASE UNCHANGED vars
    BY <2>3, Zenon
    DEF vars, cellVars, heapVars, stackVars, opVars, Abstract!vars, Live, Held,
        Handle, HandleOf, Base, BaseOf
  <2> QED
    BY <2>1, <2>2, <2>3, Zenon DEF Next, Acts
<1> QED
  BY InitImplements, Safety, <1>2, PTL DEF Spec, Implements, Abstract!Spec
=============================================================================
