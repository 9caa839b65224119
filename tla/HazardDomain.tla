---------------------------- MODULE HazardDomain ----------------------------
(***************************************************************************)
(* The process-wide hazard-pointer domain (src/hazard.rs): the append-only *)
(* list of announcement records, which threads claim on their first        *)
(* dispatch and release when they exit, and the walks over that list.      *)
(* SnapCell.tla indexes announcements by thread; this module shows why it  *)
(* may: a thread owns one record alone, every owned record is on the list, *)
(* and a walk meets every announcement that is there throughout.           *)
(*                                                                         *)
(* A step is one atomic operation on shared memory.  Thread t may stand    *)
(* for any number of threads, one after the other: after Exit it starts    *)
(* again without a record.                                                 *)
(***************************************************************************)
EXTENDS Integers, Sequences, FiniteSets, FiniteSetsExt

CONSTANTS
  Thread,    \* threads that can be alive at once
  Record,    \* addresses of records; one more than are ever needed
  Addr,      \* addresses of snapshots
  NULL,      \* the null pointer
  SLOTS,     \* announcement slots of a record
  Scanner,   \* threads that walk the list (announced, others_protect)
  Mortal     \* threads that may exit

ASSUME ConstantsAssumption ==
  /\ IsFiniteSet(Thread) /\ IsFiniteSet(Record)
  /\ SLOTS \in Nat \ {0}
  /\ NULL \notin Record \cup Addr
  /\ Scanner \subseteq Thread /\ Mortal \subseteq Thread

VARIABLES
  HEAD,      \* first record of the list
  next,      \* Record::next
  in_use,    \* Record::in_use
  slots,     \* Record::slots
  leaked,    \* the records Box::leak has created
  pc,        \* what each thread is doing
  record,    \* LOCAL: the record a thread owns
  pins,      \* slots of the live Pins of a thread, innermost last
  cursor,    \* for_each_record: where the walk is
  head,      \* acquire_record: the head the CAS expects
  fresh,     \* acquire_record: the record to publish
  index,     \* the slot of cursor that the walk loads next
  target,    \* others_protect: the address asked for; NULL in announced
  found,     \* the addresses a walk has met
  owed,      \* history: announcements there since a walk began
  list,      \* history: the records published, newest first
  peak       \* history: most threads ever attached at once

shared == <<HEAD, next, in_use, slots, leaked>>
walk == <<cursor, index, target, found>>
vars == <<shared, pc, record, pins, walk, head, fresh, owed, list, peak>>

Slot == 1..SLOTS

\* A thread counts as attached from its first pin until its record is free.
Attached == {t \in Thread : pc[t] \in {"claim", "push"} \/ record[t] # NULL}

Init ==
  /\ HEAD = NULL
  /\ next = [r \in Record |-> NULL]
  /\ in_use = [r \in Record |-> FALSE]
  /\ slots = [r \in Record |-> [i \in Slot |-> NULL]]
  /\ leaked = {}
  /\ pc = [t \in Thread |-> "user"]
  /\ record = [t \in Thread |-> NULL]
  /\ pins = [t \in Thread |-> <<>>]
  /\ cursor = [t \in Thread |-> NULL]
  /\ head = [t \in Thread |-> NULL]
  /\ fresh = [t \in Thread |-> NULL]
  /\ index = [t \in Thread |-> 1]
  /\ target = [t \in Thread |-> NULL]
  /\ found = [t \in Thread |-> {}]
  /\ owed = [t \in Thread |-> {}]
  /\ list = <<>>
  /\ peak = 0

Step(t, from, to) == pc[t] = from /\ pc' = [pc EXCEPT ![t] = to]

-----------------------------------------------------------------------------
(* pin and acquire_record *)

\* pin on a thread without a record: acquire_record starts its walk.
AcquireBegin(t) ==
  /\ record[t] = NULL
  /\ Step(t, "user", "claim")
  /\ cursor' = [cursor EXCEPT ![t] = HEAD]
  /\ UNCHANGED <<shared, record, pins, head, fresh, index, target, found,
                 owed, list>>

\* Mutant: in_use is read but not set in the same step.
MutClaim(t) ==
  /\ Step(t, "claim", "pin")
  /\ cursor[t] # NULL
  /\ ~in_use[cursor[t]]
  /\ record' = [record EXCEPT ![t] = cursor[t]]
  /\ cursor' = [cursor EXCEPT ![t] = NULL]
  /\ UNCHANGED <<shared, pins, index, target, found, head, fresh, owed, list>>

\* The compare_exchange on in_use succeeds.  (The code walks on to the end
\* of the list without touching anything.)
Claim(t) ==
  /\ Step(t, "claim", "pin")
  /\ cursor[t] # NULL
  /\ ~in_use[cursor[t]]
  /\ in_use' = [in_use EXCEPT ![cursor[t]] = TRUE]
  /\ record' = [record EXCEPT ![t] = cursor[t]]
  /\ cursor' = [cursor EXCEPT ![t] = NULL]
  /\ UNCHANGED <<HEAD, next, slots, leaked, pins, index, target, found, head,
                 fresh, owed, list>>

\* Mutant: the walk of acquire_record looks at the first record only.
MutPass(t) ==
  /\ Step(t, "claim", "claim")
  /\ cursor[t] # NULL
  /\ in_use[cursor[t]]
  /\ cursor' = [cursor EXCEPT ![t] = NULL]
  /\ UNCHANGED <<shared, record, pins, index, target, found, head, fresh,
                 owed, list>>

\* ... or it fails, and the walk goes on.
Pass(t) ==
  /\ Step(t, "claim", "claim")
  /\ cursor[t] # NULL
  /\ in_use[cursor[t]]
  /\ cursor' = [cursor EXCEPT ![t] = next[cursor[t]]]
  /\ UNCHANGED <<shared, record, pins, index, target, found, head, fresh,
                 owed, list>>

\* No record was free: a new one is leaked, and HEAD loaded.
Leak(t) ==
  \E r \in Record \ leaked :
    /\ Step(t, "claim", "push")
    /\ cursor[t] = NULL
    /\ leaked' = leaked \cup {r}
    /\ in_use' = [in_use EXCEPT ![r] = TRUE]
    /\ fresh' = [fresh EXCEPT ![t] = r]
    /\ head' = [head EXCEPT ![t] = HEAD]
    /\ UNCHANGED <<HEAD, next, slots, record, pins, walk, owed, list>>

\* Mutant: the head is stored without comparing.
MutPush(t) ==
  /\ Step(t, "push", "pin")
  /\ next' = [next EXCEPT ![fresh[t]] = head[t]]
  /\ HEAD' = fresh[t]
  /\ list' = <<fresh[t]>> \o list
  /\ record' = [record EXCEPT ![t] = fresh[t]]
  /\ fresh' = [fresh EXCEPT ![t] = NULL]
  /\ head' = [head EXCEPT ![t] = NULL]
  /\ UNCHANGED <<in_use, slots, leaked, pins, walk, owed>>

\* record.next is set to the head expected, and the compare_exchange_weak
\* publishes the record ...
Push(t) ==
  /\ Step(t, "push", "pin")
  /\ HEAD = head[t]
  /\ next' = [next EXCEPT ![fresh[t]] = head[t]]
  /\ HEAD' = fresh[t]
  /\ list' = <<fresh[t]>> \o list
  /\ record' = [record EXCEPT ![t] = fresh[t]]
  /\ fresh' = [fresh EXCEPT ![t] = NULL]
  /\ head' = [head EXCEPT ![t] = NULL]
  /\ UNCHANGED <<in_use, slots, leaked, pins, walk, owed>>

\* ... or it fails, perhaps spuriously, and yields the head to expect next.
PushFailed(t) ==
  /\ Step(t, "push", "push")
  /\ next' = [next EXCEPT ![fresh[t]] = head[t]]
  /\ head' = [head EXCEPT ![t] = HEAD]
  /\ UNCHANGED <<HEAD, in_use, slots, leaked, record, pins, walk, fresh,
                 owed, list>>

\* The slots in which a thread announces nothing.
FreeSlots(t) == {i \in Slot : slots[record[t]][i] = NULL}

\* Mutant: the slot after the innermost Pin's is taken, if there is one or
\* not.
MutPin(t) ==
  \E p \in Addr :
    /\ Step(t, "user", "user") \/ Step(t, "pin", "user")
    /\ record[t] # NULL
    /\ Len(pins[t]) <= SLOTS
    /\ slots' = [slots EXCEPT ![record[t]][Len(pins[t]) + 1] = p]
    /\ pins' = [pins EXCEPT ![t] = Append(@, Len(@) + 1)]
    /\ UNCHANGED <<HEAD, next, in_use, leaked, record, walk, head, fresh, owed,
                   list>>

\* pin goes on, or starts on a thread with a record: the first null slot
\* takes p.  (With none free the result is None and nothing changes.)
Pin(t) ==
  \E p \in Addr :
    /\ Step(t, "user", "user") \/ Step(t, "pin", "user")
    /\ record[t] # NULL
    /\ FreeSlots(t) # {}
    /\ LET i == Min(FreeSlots(t)) IN
       /\ slots' = [slots EXCEPT ![record[t]][i] = p]
       /\ pins' = [pins EXCEPT ![t] = Append(@, i)]
    /\ UNCHANGED <<HEAD, next, in_use, leaked, record, walk, head, fresh,
                   owed, list>>

\* The slot of the innermost Pin.
Innermost(t) == pins[t][Len(pins[t])]

\* What walks in progress no longer have to meet when slot i of r changes.
Forget(r, i) == owed' = [u \in Thread |-> owed[u] \ {<<r, i>>}]

\* Pin::protect with another address, of the innermost Pin.
Protect(t) ==
  \E p \in Addr :
    /\ Step(t, "user", "user")
    /\ pins[t] # <<>>
    /\ slots[record[t]][Innermost(t)] # p
    /\ slots' = [slots EXCEPT ![record[t]][Innermost(t)] = p]
    /\ Forget(record[t], Innermost(t))
    /\ UNCHANGED <<HEAD, next, in_use, leaked, record, pins, walk, head,
                   fresh, list>>

\* Pin::drop.
Unpin(t) ==
  /\ Step(t, "user", "user")
  /\ pins[t] # <<>>
  /\ slots' = [slots EXCEPT ![record[t]][Innermost(t)] = NULL]
  /\ pins' = [pins EXCEPT ![t] = SubSeq(@, 1, Len(@) - 1)]
  /\ Forget(record[t], Innermost(t))
  /\ UNCHANGED <<HEAD, next, in_use, leaked, record, walk, head, fresh, list>>

-----------------------------------------------------------------------------
(* Thread exit *)

\* Mutant: the record is freed while a dispatch still announces in it.
MutExit(t) ==
  /\ Step(t, "user", "user")
  /\ t \in Mortal /\ record[t] # NULL
  /\ in_use' = [in_use EXCEPT ![record[t]] = FALSE]
  /\ record' = [record EXCEPT ![t] = NULL]
  /\ pins' = [pins EXCEPT ![t] = <<>>]
  /\ UNCHANGED <<HEAD, next, slots, leaked, walk, head, fresh, owed, list>>

\* Local::drop: dispatches cannot outlive the thread, so no Pin is left and
\* the slots, which are cleared once more, are null already; then the record
\* is marked free.  The next thread begins without a record.
Exit(t) ==
  /\ Step(t, "user", "user")
  /\ t \in Mortal /\ record[t] # NULL
  /\ pins[t] = <<>>
  /\ slots' = [slots EXCEPT ![record[t]] = [i \in Slot |-> NULL]]
  /\ in_use' = [in_use EXCEPT ![record[t]] = FALSE]
  /\ record' = [record EXCEPT ![t] = NULL]
  /\ UNCHANGED <<HEAD, next, leaked, pins, walk, head, fresh, owed, list>>

-----------------------------------------------------------------------------
(* announced and others_protect *)

\* The announcements that are there now, of threads other than t if own.
Announced(t, own) ==
  {e \in Record \X Slot : /\ slots[e[1]][e[2]] # NULL
                          /\ own => e[1] # record[t]}

\* HEAD is loaded.  target = NULL is announced, otherwise others_protect.
ScanBegin(t) ==
  \E p \in Addr \cup {NULL} :
    /\ t \in Scanner
    /\ Step(t, "user", "scan")
    /\ cursor' = [cursor EXCEPT ![t] = HEAD]
    /\ index' = [index EXCEPT ![t] = 1]
    /\ target' = [target EXCEPT ![t] = p]
    /\ found' = [found EXCEPT ![t] = {}]
    /\ owed' = [owed EXCEPT ![t] = Announced(t, p # NULL)]
    /\ UNCHANGED <<shared, record, pins, head, fresh, list>>

\* Where a walk goes after slot i of r: the next slot or the next record.
Advance(t, r, i) ==
  /\ index' = [index EXCEPT ![t] = IF i < SLOTS THEN i + 1 ELSE 1]
  /\ cursor' = [cursor EXCEPT ![t] = IF i < SLOTS THEN r ELSE next[r]]

\* Mutant: the walk stops at the first record that announces nothing.
MutInspect(t) ==
  LET r == cursor[t]  i == index[t] IN
  /\ Step(t, "scan", "scan")
  /\ r # NULL
  /\ found' = [found EXCEPT ![t] = @ \cup {slots[r][i]}]
  /\ IF slots[r][i] = NULL
     THEN cursor' = [cursor EXCEPT ![t] = NULL] /\ UNCHANGED index
     ELSE Advance(t, r, i)
  /\ UNCHANGED <<shared, record, pins, target, head, fresh, owed, list>>

\* One slot is loaded; others_protect passes over the caller's own record.
Inspect(t) ==
  LET r == cursor[t]  i == index[t] IN
  /\ Step(t, "scan", "scan")
  /\ r # NULL
  /\ IF target[t] # NULL /\ r = record[t]
     THEN UNCHANGED found
     ELSE found' = [found EXCEPT ![t] = @ \cup ({slots[r][i]} \ {NULL})]
  /\ Advance(t, r, i)
  /\ UNCHANGED <<shared, record, pins, target, head, fresh, owed, list>>

\* The end of the list.
ScanEnd(t) ==
  /\ Step(t, "scan", "scanned")
  /\ cursor[t] = NULL
  /\ UNCHANGED <<shared, record, pins, walk, head, fresh, owed, list>>

\* The result is used.
ScanReturn(t) ==
  /\ Step(t, "scanned", "user")
  /\ found' = [found EXCEPT ![t] = {}]
  /\ target' = [target EXCEPT ![t] = NULL]
  /\ owed' = [owed EXCEPT ![t] = {}]
  /\ UNCHANGED <<shared, record, pins, cursor, index, head, fresh, list>>

-----------------------------------------------------------------------------
Move(t) ==
  \/ AcquireBegin(t) \/ Claim(t) \/ Pass(t) \/ Leak(t) \/ Push(t)
  \/ PushFailed(t) \/ Pin(t) \/ Protect(t) \/ Unpin(t) \/ Exit(t)
  \/ ScanBegin(t) \/ Inspect(t) \/ ScanEnd(t) \/ ScanReturn(t)

Next ==
  /\ \E t \in Thread : Move(t)
  /\ peak' = Max({peak, Cardinality(Attached')})

Spec == Init /\ [][Next]_vars

-----------------------------------------------------------------------------
(* Properties *)

StateTypes ==
  /\ HEAD \in Record \cup {NULL}
  /\ next \in [Record -> Record \cup {NULL}]
  /\ in_use \in [Record -> BOOLEAN]
  /\ slots \in [Record -> [Slot -> Addr \cup {NULL}]]
  /\ leaked \subseteq Record
  /\ pc \in [Thread -> {"user", "claim", "push", "pin", "scan", "scanned"}]
  /\ record \in [Thread -> Record \cup {NULL}]
  /\ pins \in [Thread -> Seq(Slot)]
  /\ cursor \in [Thread -> Record \cup {NULL}]
  /\ head \in [Thread -> Record \cup {NULL}]
  /\ fresh \in [Thread -> Record \cup {NULL}]
  /\ index \in [Thread -> Slot]
  /\ target \in [Thread -> Addr \cup {NULL}]
  /\ found \in [Thread -> SUBSET Addr]
  /\ owed \in [Thread -> SUBSET (Record \X Slot)]
  /\ list \in Seq(Record)

TypeOK == StateTypes /\ peak \in 0..Cardinality(Thread)

\* The record a thread owns, or is about to publish.
Holds(t) == IF pc[t] = "push" THEN fresh[t] ELSE record[t]

\* A record has one owner at a time, and is in use exactly while it has one:
\* the CAS of acquire_record never gives a record to two threads, and an
\* exit never frees one that another thread has taken.
OneOwner ==
  /\ \A t, u \in Thread : Holds(t) = Holds(u) /\ Holds(t) # NULL => t = u
  /\ \A r \in Record : in_use[r] <=> \E t \in Thread : Holds(t) = r

\* The list holds every record published, in order, and nothing else, so
\* concurrent publications lose no record.
ListWhole ==
  /\ HEAD = IF list = <<>> THEN NULL ELSE list[1]
  /\ \A k \in DOMAIN list :
       next[list[k]] = IF k = Len(list) THEN NULL ELSE list[k + 1]
  /\ \A r \in leaked :
       r \in Range(list) <=> \A t \in Thread : pc[t] = "push" => fresh[t] # r

\* hazard.rs:109-110: "a slot can never be handed out twice".  A slot is not
\* null exactly while one Pin of the record's owner holds it, so an exit
\* leaves no announcement behind and a new owner finds every slot free.
SlotPerPin ==
  /\ \A t \in Thread : IsInjective(pins[t])
  /\ \A r \in Record, i \in Slot :
       slots[r][i] # NULL
         <=> \E t \in Thread : record[t] = r /\ i \in Range(pins[t])

\* A walk meets every announcement that was there when it loaded HEAD and
\* stays until it ends, whatever records are published, claimed or released
\* meanwhile; others_protect misses none of the other threads.
ScanComplete ==
  \A t \in Thread : pc[t] = "scanned" =>
    \A e \in owed[t] : slots[e[1]][e[2]] \in found[t]

\* hazard.rs:16-17, for threads that hold or are acquiring a record: the
\* list is no longer than the most of them there ever were at once.
RecordsBounded == Cardinality(leaked) <= peak
=============================================================================
