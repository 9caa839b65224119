-------------------------- MODULE RegistryLifetime --------------------------
(***************************************************************************)
(* Who keeps a registry alive, and what its guards do when they go         *)
(* (src/sync/guard.rs, src/async_registry/guard.rs, RemoveOnDrop and the   *)
(* register_guard methods of both registries).                             *)
(*                                                                         *)
(* A registry is owned by the Arcs of the user's threads.  Guards and the  *)
(* RemoveOnDrop of a once handler hold a Weak, which their Drop upgrades   *)
(* for the time of one unregister, so any of them may become the last      *)
(* owner and run the registry's own Drop.  A guard may be moved into the   *)
(* closure of another handler of the same registry and goes with it, also  *)
(* inside the unregister of that handler's own guard.                      *)
(***************************************************************************)
EXTENDS Integers, Sequences, FiniteSets

CONSTANTS
  Thread,
  Id,    \* the handlers that are ever registered
  Once,  \* those registered with register_once; the others have a guard
  NULL

ASSUME ConstantsAssumption ==
  /\ IsFiniteSet(Thread) /\ IsFiniteSet(Id)
  /\ Once \subseteq Id /\ NULL \notin Id

VARIABLES
  strong,       \* strong count of the registry
  alive,        \* the registry has not been dropped
  own,          \* threads that own an Arc of it
  dispatching,  \* ... and borrow that for a dispatch
  list,         \* the registered handlers
  freed,        \* handlers whose closure has been dropped
  guard,        \* the guard, or RemoveOnDrop, of each handler
  home,         \* the closure a guard was moved into
  drops,        \* the Drops of Weak holders a thread is in, innermost last
  step          \* what each of these, having upgraded its Weak, does next

dropVars == <<drops, step>>
vars == <<strong, alive, own, dispatching, list, freed, guard, home, dropVars>>

Init ==
  /\ \E t \in Thread : own = {t}
  /\ strong = 1 /\ alive = TRUE
  /\ dispatching = {} /\ list = {} /\ freed = {}
  /\ guard = [g \in Id |-> "unused"]
  /\ home = [g \in Id |-> NULL]
  /\ drops = [t \in Thread |-> <<>>]
  /\ step = [g \in Id |-> "none"]

Last(t) == drops[t][Len(drops[t])]

Registered == {h \in Id : guard[h] # "unused"}

\* Arc::drop; the last one drops the registry with all its closures.
Release ==
  /\ strong' = strong - 1
  /\ alive' = (alive /\ strong # 1)
  /\ list' = IF strong = 1 THEN {} ELSE list
  /\ freed' = IF strong = 1 THEN Registered ELSE freed

-----------------------------------------------------------------------------
(* The user's Arcs *)

CloneArc(t, u) ==
  /\ t \in own /\ u \notin own
  /\ own' = own \cup {u}
  /\ strong' = strong + 1
  /\ UNCHANGED <<alive, dispatching, list, freed, guard, home, dropVars>>

DropArc(t) ==
  /\ t \in own \ dispatching /\ drops[t] = <<>>
  /\ own' = own \ {t}
  /\ Release
  /\ UNCHANGED <<dispatching, guard, home, dropVars>>

\* notify borrows the registry.
NotifyBegin(t) ==
  /\ t \in own \ dispatching /\ drops[t] = <<>>
  /\ dispatching' = dispatching \cup {t}
  /\ UNCHANGED <<strong, alive, own, list, freed, guard, home, dropVars>>

NotifyEnd(t) ==
  /\ t \in dispatching /\ drops[t] = <<>>
  /\ dispatching' = dispatching \ {t}
  /\ UNCHANGED <<strong, alive, own, list, freed, guard, home, dropVars>>

-----------------------------------------------------------------------------
(* Registrations *)

\* The guards a new closure can capture.
Free == {g \in Id \ Once : guard[g] = "live" /\ home[g] = NULL}

\* Mutant: the guard owns a strong reference.
MutRegisterGuard(t, g) ==
  /\ t \in own /\ drops[t] = <<>>
  /\ g \notin Once /\ guard[g] = "unused"
  /\ guard' = [guard EXCEPT ![g] = "live"]
  /\ list' = list \cup {g}
  /\ \E captured \in SUBSET Free :
       home' = [h \in Id |-> IF h \in captured THEN g ELSE home[h]]
  /\ strong' = strong + 1
  /\ UNCHANGED <<alive, own, dispatching, freed, dropVars>>

\* register_guard, register_guard_with_priority.
RegisterGuard(t, g) ==
  /\ t \in own /\ drops[t] = <<>>
  /\ g \notin Once /\ guard[g] = "unused"
  /\ guard' = [guard EXCEPT ![g] = "live"]
  /\ list' = list \cup {g}
  /\ \E captured \in SUBSET Free :
       home' = [h \in Id |-> IF h \in captured THEN g ELSE home[h]]
  /\ UNCHANGED <<strong, alive, own, dispatching, freed, dropVars>>

RegisterOnce(t, h) ==
  /\ t \in own /\ drops[t] = <<>>
  /\ h \in Once /\ guard[h] = "unused"
  /\ guard' = [guard EXCEPT ![h] = "live"]
  /\ list' = list \cup {h}
  /\ UNCHANGED <<strong, alive, own, dispatching, freed, home, dropVars>>

\* forget.
Forget(g) ==
  /\ g \in Free
  /\ guard' = [guard EXCEPT ![g] = "forgotten"]
  /\ UNCHANGED <<strong, alive, own, dispatching, list, freed, home, dropVars>>

\* unregister, and clear.
Unregister(t) ==
  \E h \in SUBSET list :
    /\ t \in own /\ drops[t] = <<>>
    /\ h = list \/ Cardinality(h) = 1
    /\ list' = list \ h
    /\ UNCHANGED <<strong, alive, own, dispatching, freed, guard, home, dropVars>>

\* The closure of a removed handler is dropped.
FreeClosure(h) ==
  /\ h \in Registered \ (list \cup freed)
  /\ freed' = freed \cup {h}
  /\ UNCHANGED <<strong, alive, own, dispatching, list, guard, home, dropVars>>

-----------------------------------------------------------------------------
(* Drop of HandlerGuard, AsyncHandlerGuard and RemoveOnDrop *)

\* A guard is dropped by whoever has it; a RemoveOnDrop by the dispatch that
\* runs its handler.  An unregister that drops the old list drops closures,
\* and so the guards in them, before it returns.
MayDrop(t, g) ==
  /\ IF g \in Once THEN t \in dispatching
     ELSE home[g] = NULL \/ home[g] \in freed
  /\ drops[t] # <<>> => home[g] # NULL /\ step[Last(t)] = "release"

\* Mutant: the guard does not look for the registry.
MutDropWeak(t, g) ==
  /\ guard[g] = "live" /\ MayDrop(t, g)
  /\ guard' = [guard EXCEPT ![g] = "gone"]
  /\ UNCHANGED <<strong, alive, own, dispatching, list, freed, home, dropVars>>

\* Mutant: the registry is used through the Weak without a strong reference.
MutDropUncounted(t, g) ==
  /\ guard[g] = "live" /\ MayDrop(t, g) /\ strong > 0
  /\ guard' = [guard EXCEPT ![g] = "gone"]
  /\ drops' = [drops EXCEPT ![t] = Append(@, g)]
  /\ step' = [step EXCEPT ![g] = "unregister"]
  /\ UNCHANGED <<strong, alive, own, dispatching, list, freed, home>>

\* Weak::upgrade; without the registry nothing is left to do.
DropWeak(t, g) ==
  /\ guard[g] = "live" /\ MayDrop(t, g)
  /\ guard' = [guard EXCEPT ![g] = "gone"]
  /\ \/ /\ strong > 0
        /\ strong' = strong + 1
        /\ drops' = [drops EXCEPT ![t] = Append(@, g)]
        /\ step' = [step EXCEPT ![g] = "unregister"]
     \/ strong = 0 /\ UNCHANGED <<strong, dropVars>>
  /\ UNCHANGED <<alive, own, dispatching, list, freed, home>>

UnregisterOwn(t) ==
  /\ drops[t] # <<>> /\ step[Last(t)] = "unregister"
  /\ list' = list \ {Last(t)}
  /\ step' = [step EXCEPT ![Last(t)] = "release"]
  /\ UNCHANGED <<strong, alive, own, dispatching, freed, guard, home, drops>>

\* The upgraded Arc is dropped; it may be the last.
ReleaseOwn(t) ==
  /\ drops[t] # <<>> /\ step[Last(t)] = "release"
  /\ step' = [step EXCEPT ![Last(t)] = "none"]
  /\ drops' = [drops EXCEPT ![t] = SubSeq(@, 1, Len(@) - 1)]
  /\ Release
  /\ UNCHANGED <<own, dispatching, guard, home>>

-----------------------------------------------------------------------------
Next ==
  \/ \E t, u \in Thread : CloneArc(t, u)
  \/ \E t \in Thread :
       \/ DropArc(t) \/ NotifyBegin(t) \/ NotifyEnd(t) \/ Unregister(t)
       \/ UnregisterOwn(t) \/ ReleaseOwn(t)
       \/ \E g \in Id : RegisterGuard(t, g) \/ RegisterOnce(t, g) \/ DropWeak(t, g)
  \/ \E g \in Id : Forget(g) \/ FreeClosure(g)

Spec == Init /\ [][Next]_vars

\* A Drop that has begun runs to its end, closures that nobody can reach are
\* dropped, and so are the guards inside them.
FairSpec ==
  /\ Spec
  /\ \A t \in Thread : WF_vars(UnregisterOwn(t) \/ ReleaseOwn(t))
  /\ \A g \in Id :
       /\ WF_vars(FreeClosure(g))
       /\ WF_vars(home[g] # NULL /\ \E t \in Thread : DropWeak(t, g))

-----------------------------------------------------------------------------
(* Properties *)

TypeOK ==
  /\ strong \in Nat
  /\ alive \in BOOLEAN
  /\ own \subseteq Thread /\ dispatching \subseteq Thread
  /\ list \subseteq Id /\ freed \subseteq Id
  /\ guard \in [Id -> {"unused", "live", "forgotten", "gone"}]
  /\ home \in [Id -> (Id \ Once) \cup {NULL}]
  /\ drops \in [Thread -> Seq(Id)]
  /\ step \in [Id -> {"none", "unregister", "release"}]

\* The guards inside a Drop that found the registry.
Upgraded == {g \in Id : step[g] # "none"}

\* The strong count is the number of Arcs: no guard keeps a registry alive,
\* and the registry is dropped when the last Arc goes, be it the user's or
\* the one a guard's Drop has upgraded to.
OwnersCounted ==
  /\ strong = Cardinality(own) + Cardinality(Upgraded)
  /\ alive <=> strong > 0

\* sync/guard.rs:21: once a guard or the single run of a once handler is gone
\* the handler is not registered, however threads, the last owner and other
\* removals interleave; and it comes back in no case.
GuardRemoves ==
  \A g \in list : guard[g] \in {"live", "forgotten"} \/ step[g] = "unregister"

\* Guards in closures do not keep each other: when the user's Arcs are gone
\* for good, the registry and every guard inside it go, too.
NothingLeaks ==
  <>[](own = {}) => <>[](~alive /\ \A g \in Id : home[g] # NULL => guard[g] # "live")
=============================================================================
