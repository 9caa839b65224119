---------------------------- MODULE AbstractCell ----------------------------
(***************************************************************************)
(* What a snapshot cell (src/snapshot.rs) promises to the registries.      *)
(*                                                                         *)
(* A cell holds a value that is replaced as a whole.  A dispatch works on  *)
(* the value that was current at one instant of its call, and a clone is   *)
(* taken of such a value; updates of a cell exclude each other, so each    *)
(* one replaces the value that it was computed from.  Memory is collected: *)
(* a value may go whenever nobody uses it, and an address serves again     *)
(* after that.  There are no announcements, counts, locks or retired lists *)
(* here.                                                                   *)
(***************************************************************************)
EXTENDS Integers

CONSTANTS Thread, Cell, Addr, NULL, MaxDepth

VARIABLES
  live,    \* addresses that hold a value
  value,   \* the value of each cell; NULL: there is no such cell
  depth,   \* number of dispatches each thread is in
  held,    \* held[t][d]: what dispatch number d borrows
  handle,  \* the clone a thread owns
  base     \* what an update of the thread is computed from

vars == <<live, value, depth, held, handle, base>>

Level == 1..MaxDepth
Nothing == [cell |-> NULL, addr |-> NULL]
Of(c) == [cell |-> c, addr |-> value[c]]

Init ==
  /\ value \in [Cell -> Addr]
  /\ \A c1, c2 \in Cell : value[c1] = value[c2] => c1 = c2
  /\ live = {value[c] : c \in Cell}
  /\ depth = [t \in Thread |-> 0]
  /\ held = [t \in Thread |-> [d \in Level |-> Nothing]]
  /\ handle = [t \in Thread |-> NULL]
  /\ base = [t \in Thread |-> Nothing]

\* Whatever is in use has a value.
InUseLives ==
  /\ \A c \in Cell : value[c] \in live \cup {NULL}
  /\ \A t \in Thread :
       /\ \A d \in 1..depth[t] : held[t][d].addr \in live
       /\ handle[t] \in live \cup {NULL}
       /\ base[t].addr \in live \cup {NULL}

\* Some values that are not in use afterwards go.
Collected == live' \subseteq live /\ InUseLives'

\* A dispatch begins and borrows the value of c.
Enter(t, c) ==
  /\ value[c] # NULL
  /\ depth[t] < MaxDepth
  /\ depth' = [depth EXCEPT ![t] = @ + 1]
  /\ held' = [held EXCEPT ![t][depth[t] + 1] = Of(c)]
  /\ UNCHANGED <<live, value, handle, base>>

Leave(t) ==
  /\ depth[t] > 0
  /\ depth' = [depth EXCEPT ![t] = @ - 1]
  /\ held' = [held EXCEPT ![t][depth[t]] = Nothing]
  /\ Collected
  /\ UNCHANGED <<value, handle, base>>

\* A clone of the value of c is taken ...
Load(t, c) ==
  /\ value[c] # NULL
  /\ handle[t] = NULL
  /\ handle' = [handle EXCEPT ![t] = value[c]]
  /\ UNCHANGED <<live, value, depth, held, base>>

\* ... and dropped, or not wanted.
Release(t) ==
  /\ handle[t] # NULL
  /\ handle' = [handle EXCEPT ![t] = NULL]
  /\ Collected
  /\ UNCHANGED <<value, depth, held, base>>

\* An update of c begins when no other is under way ...
Begin(t, c) ==
  /\ value[c] # NULL
  /\ \A u \in Thread : base[u].cell # c
  /\ base' = [base EXCEPT ![t] = Of(c)]
  /\ UNCHANGED <<live, value, depth, held, handle>>

\* ... and changes nothing, or publishes a new value in place of the one it
\* was computed from.
Keep(t) ==
  /\ base[t] # Nothing
  /\ base' = [base EXCEPT ![t] = Nothing]
  /\ UNCHANGED <<live, value, depth, held, handle>>

Replace(t, c) ==
  \E a \in Addr \ live :
    /\ base[t] = Of(c)
    /\ value' = [value EXCEPT ![c] = a]
    /\ live' = live \cup {a}
    /\ base' = [base EXCEPT ![t] = Nothing]
    /\ UNCHANGED <<depth, held, handle>>

\* The collector.
Reclaim ==
  /\ UNCHANGED <<value, depth, held, handle, base>>
  /\ Collected

\* A cell goes when no dispatch and no update is on it.
Drop(c) ==
  /\ value[c] # NULL
  /\ \A t \in Thread :
       /\ base[t].cell # c
       /\ \A d \in 1..depth[t] : held[t][d].cell # c
  /\ value' = [value EXCEPT ![c] = NULL]
  /\ Collected
  /\ UNCHANGED <<depth, held, handle, base>>

New(c) ==
  \E a \in Addr \ live :
    /\ value[c] = NULL
    /\ value' = [value EXCEPT ![c] = a]
    /\ live' = live \cup {a}
    /\ UNCHANGED <<depth, held, handle, base>>

Next ==
  \/ Reclaim
  \/ \E t \in Thread, c \in Cell :
       Enter(t, c) \/ Load(t, c) \/ Begin(t, c) \/ Replace(t, c)
  \/ \E t \in Thread : Leave(t) \/ Release(t) \/ Keep(t)
  \/ \E c \in Cell : Drop(c) \/ New(c)

Spec == Init /\ [][Next]_vars
=============================================================================
