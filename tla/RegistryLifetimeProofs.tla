----------------------- MODULE RegistryLifetimeProofs -----------------------
(***************************************************************************)
(* Proofs about RegistryLifetime for any number of threads and handlers.   *)
(***************************************************************************)
EXTENDS RegistryLifetime, FiniteSetTheorems, TLAPS

\* What makes the properties inductive: a guard is dropped once, so that its
\* Drop upgrades once, and with the registry its list is gone.
Supported ==
  /\ \A g \in Id : step[g] # "none" => guard[g] = "gone"
  /\ strong = 0 => list = {}

LifetimeInv == TypeOK /\ OwnersCounted /\ Supported /\ GuardRemoves

\* A finite set that gains or loses an element changes its size by one.
LEMMA OneMore ==
  ASSUME NEW T, IsFiniteSet(T), NEW S \in SUBSET T, NEW t \in T
  PROVE  /\ Cardinality(S) \in Nat
         /\ t \notin S => Cardinality(S \cup {t}) = Cardinality(S) + 1
         /\ t \in S => Cardinality(S \ {t}) = Cardinality(S) - 1
         /\ t \in S => Cardinality(S) > 0
<1>1. IsFiniteSet(S)
  BY FS_Subset
<1>2. Cardinality(S) \in Nat
  BY <1>1, FS_CardinalityType
<1>3. t \notin S => Cardinality(S \cup {t}) = Cardinality(S) + 1
  BY <1>1, FS_AddElement
<1>4. t \in S => Cardinality(S \ {t}) = Cardinality(S) - 1
  BY <1>1, FS_RemoveElement
<1>5. t \in S => Cardinality(S) # 0
  BY <1>1, FS_EmptySet
<1> QED
  BY <1>2, <1>3, <1>4, <1>5

\* The sizes that the strong count adds up.
LEMMA Sizes ==
  ASSUME NEW O \in SUBSET Thread, NEW U \in SUBSET Id
  PROVE  /\ Cardinality(O) \in Nat /\ Cardinality(U) \in Nat
         /\ \A t \in O : Cardinality(O) > 0
         /\ \A g \in U : Cardinality(U) > 0
<1>1. IsFiniteSet(O) /\ IsFiniteSet(U)
  BY ConstantsAssumption, FS_Subset
<1>2. Cardinality(O) \in Nat /\ Cardinality(U) \in Nat
  BY <1>1, FS_CardinalityType
<1>3. (O # {} => Cardinality(O) # 0) /\ (U # {} => Cardinality(U) # 0)
  BY <1>1, FS_EmptySet
<1> QED
  BY <1>2, <1>3

\* The Drop a thread is in is that of a guard.
LEMMA LastIsGuard ==
  ASSUME TypeOK, NEW t \in Thread, drops[t] # <<>>
  PROVE  Last(t) \in Id
<1>1. drops[t] \in Seq(Id)
  BY DEF TypeOK
<1> QED
  BY <1>1 DEF Last

\* The initial states satisfy the invariant.
LEMMA LifetimeInit == Init => LifetimeInv
<1> SUFFICES ASSUME Init PROVE LifetimeInv
  OBVIOUS
<1>1. PICK t \in Thread : own = {t}
  BY DEF Init
<1>2. Cardinality(own) = 1
  BY <1>1, FS_Singleton
<1>3. Upgraded = {}
  BY DEF Init, Upgraded
<1>4. Cardinality(Upgraded) = 0
  BY <1>3, FS_EmptySet
<1>5. TypeOK
  BY <1>1 DEF Init, TypeOK
<1>6. OwnersCounted
  BY <1>2, <1>4 DEF Init, OwnersCounted
<1>7. Supported /\ GuardRemoves
  BY <1>1 DEF Init, Supported, GuardRemoves
<1> QED
  BY <1>5, <1>6, <1>7 DEF LifetimeInv

\* Every step keeps the types.
LEMMA LifetimeTypes == LifetimeInv /\ [Next]_vars => TypeOK'
<1> SUFFICES ASSUME LifetimeInv, [Next]_vars PROVE TypeOK'
  OBVIOUS
<1> USE DEF LifetimeInv, TypeOK, dropVars
<1>a. \A t \in own \cup Upgraded : strong > 0
  <2> TAKE t \in own \cup Upgraded
  <2>1. own \in SUBSET Thread /\ Upgraded \in SUBSET Id
    BY DEF Upgraded
  <2>2. /\ Cardinality(own) \in Nat /\ Cardinality(Upgraded) \in Nat
        /\ t \in own => Cardinality(own) > 0
        /\ t \in Upgraded => Cardinality(Upgraded) > 0
    BY <2>1, Sizes, Zenon
  <2>3. strong = Cardinality(own) + Cardinality(Upgraded)
    BY DEF OwnersCounted
  <2> QED
    BY <2>2, <2>3
<1>r. ASSUME strong > 0, Release
      PROVE  /\ strong' \in Nat /\ alive' \in BOOLEAN
             /\ list' \subseteq Id /\ freed' \subseteq Id
  BY <1>r DEF Release, Registered
<1>1. ASSUME NEW t \in Thread, NEW u \in Thread, CloneArc(t, u) PROVE TypeOK'
  BY <1>1 DEF CloneArc
<1>2. ASSUME NEW t \in Thread, DropArc(t) PROVE TypeOK'
  BY <1>2, <1>a, <1>r DEF DropArc
<1>3. ASSUME NEW t \in Thread, NotifyBegin(t) PROVE TypeOK'
  BY <1>3 DEF NotifyBegin
<1>4. ASSUME NEW t \in Thread, NotifyEnd(t) PROVE TypeOK'
  BY <1>4 DEF NotifyEnd
<1>5. ASSUME NEW t \in Thread, Unregister(t) PROVE TypeOK'
  BY <1>5 DEF Unregister
<1>6. ASSUME NEW t \in Thread, UnregisterOwn(t) PROVE TypeOK'
  BY <1>6 DEF UnregisterOwn
<1>7. ASSUME NEW t \in Thread, ReleaseOwn(t) PROVE TypeOK'
  <2>1. Last(t) \in Upgraded
    BY <1>7, LastIsGuard DEF ReleaseOwn, Upgraded
  <2>2. strong > 0
    BY <1>a, <2>1
  <2>3. drops' \in [Thread -> Seq(Id)]
    <3>1. \A s \in Seq(Id) : s # <<>> => SubSeq(s, 1, Len(s) - 1) \in Seq(Id)
      OBVIOUS
    <3> QED
      BY <1>7, <3>1, Zenon DEF ReleaseOwn
  <2> QED
    BY <1>7, <2>2, <2>3, <1>r DEF ReleaseOwn
<1>8. ASSUME NEW t \in Thread, NEW g \in Id, RegisterGuard(t, g) PROVE TypeOK'
  BY <1>8 DEF RegisterGuard
<1>9. ASSUME NEW t \in Thread, NEW g \in Id, RegisterOnce(t, g) PROVE TypeOK'
  BY <1>9 DEF RegisterOnce
<1>10. ASSUME NEW t \in Thread, NEW g \in Id, DropWeak(t, g) PROVE TypeOK'
  <2>1. drops' \in [Thread -> Seq(Id)]
    <3>1. \A s \in Seq(Id) : Append(s, g) \in Seq(Id)
      OBVIOUS
    <3>2. CASE drops' = [drops EXCEPT ![t] = Append(@, g)]
      BY <3>1, <3>2, Zenon
    <3>3. CASE drops' = drops
      BY <3>3
    <3> QED
      BY <1>10, <3>2, <3>3 DEF DropWeak
  <2> QED
    BY <1>10, <2>1 DEF DropWeak, dropVars
<1>11. ASSUME NEW g \in Id, Forget(g) PROVE TypeOK'
  BY <1>11 DEF Forget
<1>12. ASSUME NEW g \in Id, FreeClosure(g) PROVE TypeOK'
  BY <1>12 DEF FreeClosure, Registered
<1>13. CASE UNCHANGED vars
  BY <1>13 DEF vars
<1> QED
  BY <1>1, <1>2, <1>3, <1>4, <1>5, <1>6, <1>7, <1>8, <1>9, <1>10, <1>11,
     <1>12, <1>13 DEF Next

\* The steps that touch neither the count nor the Arcs it counts.
LEMMA OwnersKept ==
  ASSUME OwnersCounted, UNCHANGED <<strong, alive, own, step>>
  PROVE  OwnersCounted'
BY DEF OwnersCounted, Upgraded

\* Every step keeps the count exact.
LEMMA LifetimeOwners == LifetimeInv /\ [Next]_vars => OwnersCounted'
<1> SUFFICES ASSUME LifetimeInv, [Next]_vars PROVE OwnersCounted'
  OBVIOUS
<1> DEFINE up == Upgraded
<1>t. /\ own \in SUBSET Thread /\ up \in SUBSET Id
      /\ step \in [Id -> {"none", "unregister", "release"}]
      /\ alive \in BOOLEAN /\ strong \in Nat
  BY DEF LifetimeInv, TypeOK, Upgraded
<1>c. /\ strong = Cardinality(own) + Cardinality(up)
      /\ alive <=> strong > 0
  BY DEF LifetimeInv, OwnersCounted
<1>n. /\ Cardinality(own) \in Nat /\ Cardinality(up) \in Nat
      /\ \A t \in own : Cardinality(own) > 0
      /\ \A g \in up : Cardinality(up) > 0
  BY <1>t, Sizes, Zenon
<1>f. IsFiniteSet(Thread) /\ IsFiniteSet(Id)
  BY ConstantsAssumption
<1>g. \A t \in Thread : drops[t] # <<>> => Last(t) \in Id
  BY LastIsGuard DEF LifetimeInv
<1>s. \A g \in Id : step[g] # "none" => guard[g] = "gone"
  BY DEF LifetimeInv, Supported
<1>k. ASSUME UNCHANGED <<strong, alive, own, step>> PROVE OwnersCounted'
  BY <1>k, OwnersKept DEF LifetimeInv
<1> HIDE DEF up
<1>1. ASSUME NEW t \in Thread, NEW u \in Thread, CloneArc(t, u)
      PROVE  OwnersCounted'
  <2>1. Cardinality(own') = Cardinality(own) + 1
    BY <1>1, <1>t, <1>f, OneMore DEF CloneArc
  <2>2. Upgraded' = up /\ strong' = strong + 1 /\ alive' = alive
    BY <1>1 DEF CloneArc, Upgraded, up, dropVars
  <2>3. Cardinality(own) > 0
    BY <1>1, <1>n, Zenon DEF CloneArc
  <2> QED
    BY <2>1, <2>2, <2>3, <1>c, <1>n DEF OwnersCounted
<1>2. ASSUME NEW t \in Thread, DropArc(t) PROVE OwnersCounted'
  <2>1. Cardinality(own') = Cardinality(own) - 1 /\ Cardinality(own) > 0
    BY <1>2, <1>t, <1>f, <1>n, OneMore, Zenon DEF DropArc
  <2>2. Upgraded' = up /\ strong' = strong - 1 /\ alive' = (alive /\ strong # 1)
    BY <1>2 DEF DropArc, Release, Upgraded, up, dropVars
  <2>3. /\ strong' = Cardinality(own') + Cardinality(Upgraded')
        /\ strong' > 0 <=> strong > 0 /\ strong # 1
    BY <2>1, <2>2, <1>c, <1>n, <1>t
  <2> QED
    BY <2>2, <2>3, <1>c, Zenon DEF OwnersCounted
<1>3. ASSUME NEW t \in Thread, NEW g \in Id, DropWeak(t, g)
      PROVE  OwnersCounted'
  <2>1. CASE strong = 0
    BY <1>3, <2>1, <1>k, <1>t DEF DropWeak, dropVars
  <2>2. CASE strong > 0
    <3>1. Upgraded' = up \cup {g} /\ g \notin up
      <4>1. step' = [step EXCEPT ![g] = "unregister"] /\ guard[g] = "live"
        BY <1>3, <2>2, <1>t DEF DropWeak
      <4>2. step[g] = "none"
        BY <4>1, <1>s
      <4> QED
        BY <4>1, <4>2, <1>t DEF Upgraded, up
    <3>2. Cardinality(Upgraded') = Cardinality(up) + 1
      BY <3>1, <1>t, <1>f, OneMore
    <3>3. own' = own /\ strong' = strong + 1 /\ alive' = alive
      BY <1>3, <2>2, <1>t DEF DropWeak
    <3> QED
      BY <3>2, <3>3, <2>2, <1>c, <1>n, <1>t DEF OwnersCounted
  <2> QED
    BY <2>1, <2>2, <1>t
<1>4. ASSUME NEW t \in Thread, UnregisterOwn(t) PROVE OwnersCounted'
  <2>1. Upgraded' = up
    BY <1>4, <1>g, <1>t DEF UnregisterOwn, Upgraded, up
  <2> QED
    BY <1>4, <2>1, <1>c DEF OwnersCounted, UnregisterOwn
<1>5. ASSUME NEW t \in Thread, ReleaseOwn(t) PROVE OwnersCounted'
  <2>1. PICK g \in Id : g = Last(t) /\ step[g] = "release" /\ step' = [step EXCEPT ![g] = "none"]
    BY <1>5, <1>g, Zenon DEF ReleaseOwn
  <2>2. Cardinality(Upgraded') = Cardinality(up) - 1 /\ Cardinality(up) > 0
    <3>1. Upgraded' = up \ {g} /\ g \in up
      BY <2>1, <1>t DEF Upgraded, up
    <3> QED
      BY <3>1, <1>t, <1>f, OneMore
  <2>3. own' = own /\ strong' = strong - 1 /\ alive' = (alive /\ strong # 1)
    BY <1>5 DEF ReleaseOwn, Release
  <2>4. /\ strong' = Cardinality(own') + Cardinality(Upgraded')
        /\ strong' > 0 <=> strong > 0 /\ strong # 1
    BY <2>2, <2>3, <1>c, <1>n, <1>t
  <2> QED
    BY <2>3, <2>4, <1>c, Zenon DEF OwnersCounted
<1>6. ASSUME NEW t \in Thread,
             NotifyBegin(t) \/ NotifyEnd(t) \/ Unregister(t)
      PROVE  OwnersCounted'
  BY <1>6, <1>k DEF NotifyBegin, NotifyEnd, Unregister, dropVars
<1>7. ASSUME NEW t \in Thread, NEW g \in Id,
             RegisterGuard(t, g) \/ RegisterOnce(t, g)
      PROVE  OwnersCounted'
  BY <1>7, <1>k DEF RegisterGuard, RegisterOnce, dropVars
<1>8. ASSUME NEW g \in Id, Forget(g) \/ FreeClosure(g) PROVE OwnersCounted'
  BY <1>8, <1>k DEF Forget, FreeClosure, dropVars
<1>9. CASE UNCHANGED vars
  BY <1>9, <1>k DEF vars, dropVars
<1> QED
  BY <1>1, <1>2, <1>3, <1>4, <1>5, <1>6, <1>7, <1>8, <1>9 DEF Next

\* Every step keeps what the properties rest on.
LEMMA LifetimeSupported == LifetimeInv /\ [Next]_vars => Supported'
<1> SUFFICES ASSUME LifetimeInv, [Next]_vars PROVE Supported'
  OBVIOUS
<1>s. /\ \A g \in Id : step[g] # "none" => guard[g] = "gone"
      /\ strong = 0 => list = {}
  BY DEF LifetimeInv, Supported
<1>t. /\ step \in [Id -> {"none", "unregister", "release"}]
      /\ guard \in [Id -> {"unused", "live", "forgotten", "gone"}]
      /\ strong \in Nat
  BY DEF LifetimeInv, TypeOK
<1>g. \A t \in Thread : drops[t] # <<>> => Last(t) \in Id
  BY LastIsGuard DEF LifetimeInv
<1>a. \A t \in own : strong > 0
  <2> TAKE t \in own
  <2>1. own \in SUBSET Thread /\ Upgraded \in SUBSET Id
    BY DEF LifetimeInv, TypeOK, Upgraded
  <2>2. Cardinality(own) \in Nat /\ Cardinality(Upgraded) \in Nat /\ Cardinality(own) > 0
    BY <2>1, Sizes, Zenon
  <2>3. strong = Cardinality(own) + Cardinality(Upgraded)
    BY DEF LifetimeInv, OwnersCounted
  <2> QED
    BY <2>2, <2>3
<1> USE DEF Supported, dropVars
<1>1. ASSUME NEW t \in Thread, NEW u \in Thread, CloneArc(t, u) PROVE Supported'
  BY <1>1, <1>s, <1>t DEF CloneArc
<1>2. ASSUME NEW t \in Thread, DropArc(t) PROVE Supported'
  BY <1>2, <1>s, <1>t DEF DropArc, Release
<1>3. ASSUME NEW t \in Thread, NotifyBegin(t) \/ NotifyEnd(t) PROVE Supported'
  BY <1>3, <1>s DEF NotifyBegin, NotifyEnd
<1>4. ASSUME NEW t \in Thread, Unregister(t) PROVE Supported'
  BY <1>4, <1>s DEF Unregister
<1>5. ASSUME NEW t \in Thread, UnregisterOwn(t) PROVE Supported'
  BY <1>5, <1>g, <1>s, <1>t DEF UnregisterOwn
<1>6. ASSUME NEW t \in Thread, ReleaseOwn(t) PROVE Supported'
  BY <1>6, <1>g, <1>s, <1>t DEF ReleaseOwn, Release
<1>7. ASSUME NEW t \in Thread, NEW g \in Id, RegisterGuard(t, g) \/ RegisterOnce(t, g)
      PROVE Supported'
  BY <1>7, <1>s, <1>t, <1>a DEF RegisterGuard, RegisterOnce
<1>8. ASSUME NEW t \in Thread, NEW g \in Id, DropWeak(t, g) PROVE Supported'
  BY <1>8, <1>s, <1>t DEF DropWeak
<1>9. ASSUME NEW g \in Id, Forget(g) \/ FreeClosure(g) PROVE Supported'
  BY <1>9, <1>s, <1>t DEF Forget, FreeClosure, Free
<1>10. CASE UNCHANGED vars
  BY <1>10, <1>s DEF vars
<1> QED
  BY <1>1, <1>2, <1>3, <1>4, <1>5, <1>6, <1>7, <1>8, <1>9, <1>10 DEF Next

\* Every step keeps the promise of the guards.
LEMMA LifetimeGuards == LifetimeInv /\ [Next]_vars => GuardRemoves'
<1> SUFFICES ASSUME LifetimeInv, [Next]_vars PROVE GuardRemoves'
  OBVIOUS
<1>s. /\ \A g \in list : guard[g] \in {"live", "forgotten"} \/ step[g] = "unregister"
      /\ strong = 0 => list = {}
  BY DEF LifetimeInv, GuardRemoves, Supported
<1>t. /\ step \in [Id -> {"none", "unregister", "release"}]
      /\ guard \in [Id -> {"unused", "live", "forgotten", "gone"}]
      /\ list \subseteq Id /\ strong \in Nat
  BY DEF LifetimeInv, TypeOK
<1>g. \A t \in Thread : drops[t] # <<>> => Last(t) \in Id
  BY LastIsGuard DEF LifetimeInv
<1> USE DEF GuardRemoves, dropVars
<1>k. ASSUME list' \subseteq list, UNCHANGED <<guard, step>> PROVE GuardRemoves'
  BY <1>k, <1>s
<1>1. ASSUME NEW t \in Thread, NEW u \in Thread, CloneArc(t, u)
      PROVE  GuardRemoves'
  BY <1>1, <1>k DEF CloneArc
<1>2. ASSUME NEW t \in Thread, DropArc(t) PROVE GuardRemoves'
  BY <1>2, <1>k DEF DropArc, Release
<1>3. ASSUME NEW t \in Thread,
             NotifyBegin(t) \/ NotifyEnd(t) \/ Unregister(t)
      PROVE  GuardRemoves'
  BY <1>3, <1>k DEF NotifyBegin, NotifyEnd, Unregister
<1>4. ASSUME NEW t \in Thread, UnregisterOwn(t) PROVE GuardRemoves'
  BY <1>4, <1>g, <1>s, <1>t DEF UnregisterOwn
<1>5. ASSUME NEW t \in Thread, ReleaseOwn(t) PROVE GuardRemoves'
  BY <1>5, <1>g, <1>s, <1>t DEF ReleaseOwn, Release
<1>6. ASSUME NEW t \in Thread, NEW h \in Id,
             RegisterGuard(t, h) \/ RegisterOnce(t, h)
      PROVE  GuardRemoves'
  BY <1>6, <1>s, <1>t DEF RegisterGuard, RegisterOnce
<1>7. ASSUME NEW t \in Thread, NEW h \in Id, DropWeak(t, h)
      PROVE  GuardRemoves'
  BY <1>7, <1>s, <1>t DEF DropWeak
<1>8. ASSUME NEW h \in Id, Forget(h) PROVE GuardRemoves'
  BY <1>8, <1>s, <1>t DEF Forget
<1>9. ASSUME NEW h \in Id, FreeClosure(h) PROVE GuardRemoves'
  BY <1>9, <1>k DEF FreeClosure
<1>10. CASE UNCHANGED vars
  BY <1>10, <1>k DEF vars
<1> QED
  BY <1>1, <1>2, <1>3, <1>4, <1>5, <1>6, <1>7, <1>8, <1>9, <1>10 DEF Next

\* The invariant, for any number of threads and handlers.
LEMMA LifetimeInvariant == Spec => []LifetimeInv
<1>1. LifetimeInv /\ [Next]_vars => LifetimeInv'
  BY LifetimeTypes, LifetimeOwners, LifetimeSupported, LifetimeGuards
  DEF LifetimeInv
<1> QED
  BY LifetimeInit, <1>1, PTL DEF Spec

\* Every variable keeps its type; what a thread holds of a registry and what
\* its Drop works on stay within the threads and handlers there are.
THEOREM LifetimeTyped == Spec => []TypeOK
<1>1. LifetimeInv => TypeOK
  BY DEF LifetimeInv
<1> QED
  BY LifetimeInvariant, <1>1, PTL

\* The strong count of a registry is exact: guards own no part of it.
THEOREM OwnersExact == Spec => []OwnersCounted
<1>1. LifetimeInv => OwnersCounted
  BY DEF LifetimeInv
<1> QED
  BY LifetimeInvariant, <1>1, PTL

\* Once a guard or the run of a once handler is gone, and its Drop has done
\* its unregister, the handler is not in the list.
THEOREM GuardsRemove == Spec => []GuardRemoves
<1>1. LifetimeInv => GuardRemoves
  BY DEF LifetimeInv
<1> QED
  BY LifetimeInvariant, <1>1, PTL
=============================================================================
