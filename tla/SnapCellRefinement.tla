------------------------- MODULE SnapCellRefinement -------------------------
(***************************************************************************)
(* The snapshot cell implements AbstractCell.  A read takes effect when    *)
(* its announcement is validated, or when it clones under the lock; a      *)
(* load_arc_if at the same points, before it asks `keep`.                  *)
(***************************************************************************)
EXTENDS SnapCell

Live == {a \in Addr : strong[a] > 0}

Held == [t \in Thread |-> [d \in Level |->
           [cell |-> frame[t][d].cell, addr |-> frame[t][d].addr]]]

HandleOf(t) == IF pc[t] = "keep" THEN ptr[t] ELSE owned[t]
Handle == [t \in Thread |-> HandleOf(t)]

BaseOf(t) ==
  [cell |-> IF pc[t] = "build" THEN cell[t] ELSE NULL,
   addr |-> IF pc[t] = "build" THEN ptr[t] ELSE NULL]
Base == [t \in Thread |-> BaseOf(t)]

Abstract == INSTANCE AbstractCell
  WITH live <- Live, value <- current, depth <- depth, held <- Held,
       handle <- Handle, base <- Base

\* The cell behaves as one whose memory is collected: every dispatch and
\* clone gets the value that was current at one instant of its call, no
\* update is lost, and nothing in use is freed, through the announcements,
\* manual counts, nested and locked reads and unwinding of snapshot.rs.
Implements == Abstract!Spec
=============================================================================
