----------------------------- MODULE HandlerList -----------------------------
(***************************************************************************)
(* What the writers of both registries compute from the current handler    *)
(* list: the list with an entry inserted by priority, and the list without *)
(* an entry (src/sync/mod.rs, src/async_registry/mod.rs).                  *)
(***************************************************************************)
EXTENDS Integers, Sequences, FiniteSetsExt

\* slice::partition_point(|e| e.priority >= priority) of a sorted list.
PartitionPoint(list, priority) ==
  Cardinality({k \in DOMAIN list : list[k].priority >= priority})

\* Mutant: a new entry goes before the entries of its own priority.
MutInsert(current, entry) ==
  LET pos == PartitionPoint(current, entry.priority + 1) IN
  SubSeq(current, 1, pos) \o <<entry>> \o SubSeq(current, pos + 1, Len(current))

\* insert: after every entry of equal or higher priority.
Insert(current, entry) ==
  LET pos == PartitionPoint(current, entry.priority) IN
  SubSeq(current, 1, pos) \o <<entry>> \o SubSeq(current, pos + 1, Len(current))

\* contains.
ContainsId(list, id) == \E k \in DOMAIN list : list[k].id = id

\* The first position with the id.
Position(list, id) == Min({k \in DOMAIN list : list[k].id = id})

\* Mutant: the slice after the entry starts one too late.
MutRemoveId(current, id) ==
  LET pos == Position(current, id) IN
  SubSeq(current, 1, pos - 1) \o SubSeq(current, pos + 2, Len(current))

\* remove_id: the two slices around the entry.
RemoveId(current, id) ==
  LET pos == Position(current, id) IN
  SubSeq(current, 1, pos - 1) \o SubSeq(current, pos + 1, Len(current))
=============================================================================
