------------------------ MODULE AsyncRegistryProofs ------------------------
(***************************************************************************)
(* AsyncRegistry for any number of calls, handlers, priorities and         *)
(* threads that set the callback: the join's counter, the order of the     *)
(* reports, the sequential dispatch, the wake-ups and the callback's lock. *)
(***************************************************************************)
EXTENDS AsyncRegistry, HandlerListProofs

\* What a call may hold.
SlotSet == {Is(s) : s \in Running \cup {"unstarted", "done"}} \cup AnyPanic
Info == [handler_id : 1..MaxId, payload : Payload, message : Payload \cup {NULL}]
CallSet == [phase : Phases, join : BOOLEAN, list : Seq(Entry), slots : Seq(SlotSet),
            at : Nat, running : Nat, handled : Seq(Info)]

\* Sorted by priority, no id twice.
ListInv(list) == list \in Seq(Entry) /\ Sorted(list) /\ Distinct(list)

Types ==
  /\ ListInv(handlers) /\ Ids(handlers) \subseteq drawn
  /\ drawn \subseteq 1..MaxId
  /\ panic_callback \in BOOLEAN
  /\ writer \in Call \cup Setter \cup {NULL}
  /\ reading \subseteq Call
  /\ call \in [Call -> CallSet]
  /\ woken \subseteq Call

\* Phases of a call: outside a dispatch, in its loop over the handlers, and
\* in handle_panic.
Outside == {"none", "created", "unwound"}
Looping == {"start", "poll", "suspended"}
Handling == {"fetch", "clone", "callback", "payload"}

Finished(k, i) == k.slots[i].state \in {"done", "panicked"}
Waiting(k) == {i \in DOMAIN k.slots : k.slots[i].state \in Running}

\* What has been reported, whatever the kind of dispatch.
ReportInv(k) ==
  /\ k.phase \in Outside => k.list = <<>> /\ k.handled = <<>>
  /\ k.phase \in Looping => IF k.join THEN k.handled = <<>> ELSE Reported(k, k.at - 1)
  /\ k.phase \in Handling => k.slots[k.at].state = "panicked" /\ Reported(k, k.at)
  /\ k.phase = "report" => Reported(k, k.at - 1)
  /\ k.phase = "ready" => Reported(k, Len(k.list))

\* One handler after the other: those before `at` have finished, those after
\* it have not been started.
SequentialInv(k) ==
  k.phase \in Looping \cup Handling =>
    /\ k.at \in 1..Len(k.list)
    /\ \A i \in 1..(k.at - 1) : Finished(k, i)
    /\ \A i \in (k.at + 1)..Len(k.list) : k.slots[i].state = "unstarted"
    /\ k.phase = "start" => k.slots[k.at].state = "unstarted"
    /\ k.phase \in {"poll", "suspended"} => k.slots[k.at].state \in Running

\* All handlers at once: started in order, then counted and polled, then
\* reported.
JoinInv(k) ==
  /\ k.phase = "start" =>
       /\ k.at \in 1..Len(k.list)
       /\ \A i \in 1..(k.at - 1) : k.slots[i].state \in {"fresh", "panicked"}
       /\ \A i \in k.at..Len(k.list) : k.slots[i].state = "unstarted"
  /\ k.phase = "poll" =>
       /\ k.at \in 1..(Len(k.list) + 1)
       /\ k.at <= Len(k.list) => k.slots[k.at].state \in Running
  /\ k.phase \in {"poll", "suspended"} =>
       /\ k.at \in 1..(Len(k.list) + 1)
       /\ \A i \in DOMAIN k.slots : k.slots[i].state # "unstarted"
  /\ k.phase \in Handling => k.at \in 1..Len(k.list)
  /\ k.phase = "report" => k.at \in 1..(Len(k.list) + 1)
  /\ k.phase \in Handling \cup {"report"} =>
       \A i \in DOMAIN k.slots : Finished(k, i)

\* The slots that the poll under way has passed, or all when it is over,
\* have been polled since they last became ready, or the call is woken.
WakeInv(k, w) ==
  /\ k.phase = "poll" /\ k.join =>
       \A i \in 1..(k.at - 1) :
         k.slots[i].state # "fresh" /\ (k.slots[i].state = "signalled" => w)
  /\ k.phase = "suspended" =>
       \A i \in DOMAIN k.slots :
         k.slots[i].state # "fresh" /\ (k.slots[i].state = "signalled" => w)

\* The counter of the join, and the positions.
CountInv(k) ==
  /\ Len(k.slots) = Len(k.list)
  /\ k.at \in 0..(Len(k.list) + 1)
  /\ IF k.join /\ k.phase \in {"poll", "suspended"}
     THEN k.running = Cardinality(Waiting(k)) ELSE k.running = 0

EndInv(k) ==
  /\ k.phase = "ready" => \A i \in DOMAIN k.slots : Finished(k, i)
  /\ k.phase = "report" => k.join

CallInv(k, w) ==
  /\ ListInv(k.list) /\ CountInv(k) /\ EndInv(k) /\ ReportInv(k)
  /\ ~k.join => SequentialInv(k)
  /\ k.join => JoinInv(k)
  /\ WakeInv(k, w)

\* The lock: readers are the calls that clone the holder, a writer is alone,
\* and a call that writes does so from its callback.
LockInv ==
  /\ reading = {c \in Call : call[c].phase = "clone"}
  /\ writer # NULL => reading = {}
  /\ writer \in Call => call[writer].phase = "callback"

AsyncInv == Types /\ LockInv /\ \A c \in Call : CallInv(call[c], c \in woken)
-----------------------------------------------------------------------------
(* What has been reported *)

\* The panics among the first handlers are finitely many.
LEMMA PanicsFinite ==
  ASSUME NEW k, NEW n \in Nat
  PROVE  /\ IsFiniteSet(PanicsTo(k, n)) /\ Cardinality(PanicsTo(k, n)) \in Nat
         /\ \A i \in PanicsTo(k, n) : i \in 1..n
         /\ \A i \in PanicsTo(k, n) :
              /\ Cardinality(PanicsTo(k, i)) \in Nat
              /\ Cardinality(PanicsTo(k, i)) >= 1
              /\ Cardinality(PanicsTo(k, i)) <= Cardinality(PanicsTo(k, n))
<1>1. \A i \in Nat : IsFiniteSet(PanicsTo(k, i)) /\ Cardinality(PanicsTo(k, i)) \in Nat
  <2> TAKE i \in Nat
  <2>1. IsFiniteSet(1..i)
    BY FS_Interval, SMT
  <2>2. PanicsTo(k, i) \subseteq 1..i
    BY Zenon DEF PanicsTo
  <2> QED
    BY <2>1, <2>2, FS_Subset, FS_CardinalityType, Zenon
<1>2. \A i \in PanicsTo(k, n) : i \in 1..n
  BY Zenon DEF PanicsTo
<1>3. ASSUME NEW i \in PanicsTo(k, n)
      PROVE  /\ Cardinality(PanicsTo(k, i)) \in Nat
             /\ Cardinality(PanicsTo(k, i)) >= 1
             /\ Cardinality(PanicsTo(k, i)) <= Cardinality(PanicsTo(k, n))
  <2>1. i \in Nat /\ i <= n /\ i \in 1..i
    BY <1>2
  <2>2. PanicsTo(k, i) \subseteq PanicsTo(k, n)
    BY <2>1 DEF PanicsTo
  <2>3. i \in PanicsTo(k, i)
    BY <2>1, Zenon DEF PanicsTo
  <2>4. Cardinality(PanicsTo(k, i)) # 0
    BY <1>1, <2>1, <2>3, FS_EmptySet, Zenon
  <2>5. Cardinality(PanicsTo(k, i)) <= Cardinality(PanicsTo(k, n))
    BY <1>1, <2>2, FS_Subset, Zenon
  <2> QED
    BY <1>1, <2>1, <2>4, <2>5
<1> QED
  BY <1>1, <1>2, <1>3, Zenon

\* The same handlers among the first m have panicked, in the same way.
SamePanics(k, n, m) ==
  /\ n.list = k.list
  /\ \A i \in 1..m : (n.slots[i].state = "panicked" \/ k.slots[i].state = "panicked")
                        => n.slots[i] = k.slots[i]

\* With the same panics and the same reports nothing is left to report.
LEMMA ReportedKept ==
  ASSUME NEW k, NEW n, NEW m \in Nat, SamePanics(k, n, m),
         n.handled = k.handled, Reported(k, m)
  PROVE  Reported(n, m)
<1>1. \A j \in Nat : j <= m => PanicsTo(n, j) = PanicsTo(k, j)
  <2> SUFFICES ASSUME NEW j \in Nat, j <= m, NEW h \in 1..j
               PROVE  n.slots[h].state = "panicked" <=> k.slots[h].state = "panicked"
    BY Zenon DEF PanicsTo
  <2>1. h \in 1..m
    OBVIOUS
  <2> QED
    BY <2>1, Zenon DEF SamePanics
<1>2. PanicsTo(n, m) = PanicsTo(k, m)
  BY <1>1
<1>3. ASSUME NEW i \in PanicsTo(n, m)
      PROVE  n.handled[Cardinality(PanicsTo(n, i))] =
               PanicInfo(n.list[i].id, n.slots[i].payload)
  <2>1. i \in 1..m /\ n.slots[i] = k.slots[i]
    BY Zenon DEF PanicsTo, SamePanics
  <2>2. i \in Nat /\ i <= m
    BY <2>1
  <2>3. PanicsTo(n, i) = PanicsTo(k, i)
    BY <1>1, <2>2, Zenon
  <2>4. k.handled[Cardinality(PanicsTo(k, i))] =
          PanicInfo(k.list[i].id, k.slots[i].payload)
    BY <1>2, Zenon DEF Reported
  <2> QED
    BY <2>1, <2>3, <2>4, Zenon DEF SamePanics
<1> QED
  BY <1>2, <1>3, Zenon DEF Reported

\* Handlers that have not panicked have nothing to report.
LEMMA ReportedSkip ==
  ASSUME NEW k, NEW m \in Nat, NEW n \in Nat, m <= n, Reported(k, m),
         \A i \in (m + 1)..n : k.slots[i].state # "panicked"
  PROVE  Reported(k, n)
<1>1. PanicsTo(k, n) = PanicsTo(k, m)
  <2>1. \A i : i \in 1..n <=> i \in 1..m \/ i \in (m + 1)..n
    OBVIOUS
  <2> QED
    BY <2>1, Zenon DEF PanicsTo
<1> QED
  BY <1>1, Zenon DEF Reported

\* Before the first handler there is nothing to report.
LEMMA ReportedNone ==
  ASSUME NEW k, k.handled = <<>>
  PROVE  Reported(k, 0)
<1>1. PanicsTo(k, 0) = {}
  BY SMT DEF PanicsTo
<1>2. Cardinality({}) = 0
  BY FS_EmptySet, Zenon
<1> QED
  BY <1>1, <1>2, Zenon DEF Reported

\* The next report is that of the next handler that panicked.
LEMMA ReportedNext ==
  ASSUME NEW k, NEW n, NEW a \in Nat, a >= 1, NEW S, k.handled \in Seq(S),
         SamePanics(k, n, a), Reported(k, a - 1), k.slots[a].state = "panicked",
         n.handled = Append(k.handled, PanicInfo(k.list[a].id, k.slots[a].payload)),
         PanicInfo(k.list[a].id, k.slots[a].payload) \in S
  PROVE  Reported(n, a)
<1> DEFINE r == PanicInfo(k.list[a].id, k.slots[a].payload)
<1> HIDE DEF r
<1>0. n.list = k.list /\ n.handled = Append(k.handled, r) /\ r \in S
  BY Zenon DEF SamePanics, r
<1>1. \A j \in Nat : j <= a => PanicsTo(n, j) = PanicsTo(k, j)
  <2> SUFFICES ASSUME NEW j \in Nat, j <= a, NEW h \in 1..j
               PROVE  n.slots[h].state = "panicked" <=> k.slots[h].state = "panicked"
    BY Zenon DEF PanicsTo
  <2>1. h \in 1..a
    OBVIOUS
  <2> QED
    BY <2>1, Zenon DEF SamePanics
<1>2. PanicsTo(k, a) = PanicsTo(k, a - 1) \cup {a} /\ a \notin PanicsTo(k, a - 1)
  <2>1. \A i : i \in 1..a <=> i \in 1..(a - 1) \/ i = a
    OBVIOUS
  <2>2. a \notin 1..(a - 1)
    OBVIOUS
  <2> QED
    BY <2>1, <2>2, Zenon DEF PanicsTo
<1>3. a - 1 \in Nat
  OBVIOUS
<1> DEFINE c == Cardinality(PanicsTo(k, a - 1))
<1>4. /\ c \in Nat /\ Len(k.handled) = c
      /\ \A i \in PanicsTo(k, a - 1) : Cardinality(PanicsTo(k, i)) \in 1..c
  <2>1. Len(k.handled) = c
    BY Zenon DEF Reported
  <2> QED
    BY <2>1, <1>3, PanicsFinite
<1>5. Cardinality(PanicsTo(k, a)) = c + 1
  <2>1. IsFiniteSet(PanicsTo(k, a - 1))
    BY <1>3, PanicsFinite, Zenon
  <2> QED
    BY <2>1, <1>2, FS_AddElement, Zenon
<1>6. /\ Len(n.handled) = c + 1 /\ n.handled[c + 1] = r
      /\ \A i \in 1..c : n.handled[i] = k.handled[i]
  BY <1>0, <1>4
<1>7. ASSUME NEW i \in PanicsTo(k, a)
      PROVE  n.handled[Cardinality(PanicsTo(k, i))] =
               PanicInfo(k.list[i].id, k.slots[i].payload)
  <2>1. CASE i = a
    BY <2>1, <1>5, <1>6, Zenon DEF r
  <2>2. CASE i \in PanicsTo(k, a - 1)
    BY <2>2, <1>4, <1>6, Zenon DEF Reported
  <2> QED
    BY <2>1, <2>2, <1>2, Zenon
<1>8. ASSUME NEW i \in PanicsTo(k, a)
      PROVE  PanicsTo(n, i) = PanicsTo(k, i) /\ n.slots[i] = k.slots[i]
  <2>1. i \in 1..a /\ k.slots[i].state = "panicked"
    BY Zenon DEF PanicsTo
  <2>2. i \in Nat /\ i <= a
    BY <2>1
  <2> QED
    BY <2>1, <2>2, <1>1, Zenon DEF SamePanics
<1>9. PanicsTo(n, a) = PanicsTo(k, a)
  BY <1>1
<1> QED
  BY <1>0, <1>5, <1>6, <1>7, <1>8, <1>9, Zenon DEF Reported
-----------------------------------------------------------------------------
(* The parts of a call *)

\* What the fields of a call are.
LEMMA CallFields ==
  ASSUME NEW k \in CallSet
  PROVE  /\ k.phase \in Phases /\ k.join \in BOOLEAN /\ k.list \in Seq(Entry)
         /\ k.slots \in Seq(SlotSet) /\ k.at \in Nat /\ k.running \in Nat
         /\ k.handled \in Seq(Info)
BY DEF CallSet

\* A slot that panicked holds the payload.
LEMMA PanickedSlot ==
  ASSUME NEW s \in SlotSet, s.state = "panicked"
  PROVE  s.payload \in Payload
BY DEF SlotSet, AnyPanic, Panicked, Is, Running

\* The search for the next slot that still runs finds the first one, or the
\* end of the slots.
LEMMA RunningFound ==
  ASSUME NEW slots \in Seq(SlotSet), NEW k \in Nat, k >= 1, k <= Len(slots) + 1
  PROVE  LET r == RunningFrom(slots, k) IN
         /\ r \in Nat /\ r \in k..(Len(slots) + 1)
         /\ r <= Len(slots) => slots[r].state \in Running
         /\ \A i \in k..(r - 1) : slots[i].state \notin Running
<1> DEFINE N == Len(slots)
           S == {i \in k..N : slots[i].state \in Running} \cup {N + 1}
<1>1. N \in Nat /\ S \subseteq Nat /\ N + 1 \in S
  OBVIOUS
<1>2. PICK r \in S : \A y \in S : r <= y
  BY <1>1, Least, Zenon
<1>3. \A x \in S : (\A y \in S : x <= y) => x = r
  BY <1>1, <1>2
<1>4. RunningFrom(slots, k) = r
  BY <1>2, <1>3, Zenon DEF RunningFrom, Min
<1>5. r \in Nat /\ r \in k..(N + 1) /\ (r <= N => slots[r].state \in Running)
  BY <1>1, <1>2
<1>6. ASSUME NEW i \in k..(r - 1), slots[i].state \in Running
      PROVE  FALSE
  <2>1. i \in k..N /\ ~(r <= i)
    BY <1>1, <1>5
  <2>2. i \in S
    BY <2>1, <1>6, Zenon
  <2> QED
    BY <2>1, <2>2, <1>2, Zenon
<1> HIDE DEF N, S
<1> QED
  BY <1>4, <1>5, <1>6, Zenon DEF N

\* The slots that run are finitely many, at most all.
LEMMA WaitingFinite ==
  ASSUME NEW k \in CallSet
  PROVE  /\ IsFiniteSet(Waiting(k)) /\ Cardinality(Waiting(k)) \in 0..Len(k.slots)
         /\ Cardinality(Waiting(k)) = 0 => Waiting(k) = {}
<1>1. k.slots \in Seq(SlotSet) /\ Len(k.slots) \in Nat /\ DOMAIN k.slots = 1..Len(k.slots)
  BY CallFields
<1>2. IsFiniteSet(1..Len(k.slots)) /\ Cardinality(1..Len(k.slots)) = Len(k.slots)
  BY <1>1, FS_Interval, SMT
<1>3. Waiting(k) \subseteq 1..Len(k.slots)
  BY <1>1, Zenon DEF Waiting
<1>4. /\ IsFiniteSet(Waiting(k)) /\ Cardinality(Waiting(k)) \in Nat
      /\ Cardinality(Waiting(k)) <= Len(k.slots)
  BY <1>2, <1>3, FS_Subset, FS_CardinalityType, Zenon
<1>5. Cardinality(Waiting(k)) = 0 => Waiting(k) = {}
  BY <1>4, FS_EmptySet, Zenon
<1> QED
  BY <1>1, <1>4, <1>5

Same(k, n) == n.join = k.join /\ n.list = k.list /\ n.slots = k.slots

\* The ways in which the record of a call changes.
ToPhase(k, n, ph) == n = [k EXCEPT !.phase = ph]
ToAt(k, n, ph, a) == n = [k EXCEPT !.phase = ph, !.at = a]
ToReport(k, n, ph, r) == n = [k EXCEPT !.phase = ph, !.handled = Append(@, r)]
ToCount(k, n, ph, a, m) == n = [k EXCEPT !.phase = ph, !.at = a, !.running = m]
ToList(k, n, j, L, S) ==
  n = [k EXCEPT !.phase = "start", !.at = 1, !.join = j, !.list = L, !.slots = S]
ToNextAt(k, n, a) == n = [k EXCEPT !.at = a]
ToNextCount(k, n, a, m) == n = [k EXCEPT !.at = a, !.running = m]
ToJoin(k, n) ==
  n = IF k.at < Len(k.list) THEN [k EXCEPT !.at = @ + 1] ELSE Joined(k)
ToAwait(k, n) ==
  n = IF k.slots[k.at].state = "panicked" THEN HandlePanic(k)
      ELSE [k EXCEPT !.phase = "poll"]
ToNext(k, n) ==
  n = IF k.join THEN [k EXCEPT !.phase = "report", !.at = @ + 1] ELSE NextEntry(k)
ToJoinPoll(k, m, n) ==
  n = [m EXCEPT !.at = RunningFrom(m.slots, k.at + 1),
                !.running = IF m.slots[k.at].state \in Running THEN @ ELSE @ - 1]
ToAlonePoll(m, n) ==
  n = IF m.slots[m.at].state = "parked" THEN [m EXCEPT !.phase = "suspended"]
      ELSE IF m.slots[m.at].state = "panicked" THEN HandlePanic(m)
      ELSE NextEntry(m)
ToEnd(k, n) ==
  n = IF k.running = 0 THEN [k EXCEPT !.phase = "report", !.at = 1]
      ELSE [k EXCEPT !.phase = "suspended"]
Unreported(k) == {i \in k.at..Len(k.slots) : k.slots[i].state = "panicked"}
ToReports(k, n) ==
  n = IF Unreported(k) = {} THEN [k EXCEPT !.phase = "ready"]
      ELSE HandlePanic([k EXCEPT !.at = Min(Unreported(k))])
ToPoll(k, n) ==
  n = [k EXCEPT !.phase = "poll", !.at = IF k.join THEN RunningFrom(k.slots, 1) ELSE @]
ToSlot(k, n, i, s) == n = [k EXCEPT !.slots[i] = s]

\* What the record is then.
MovedTo(k, n, ph, a, m, h) ==
  /\ n \in CallSet /\ Same(k, n) /\ n.phase = ph /\ n.at = a
  /\ n.running = m /\ n.handled = h
Slotted(k, n, i, s) ==
  /\ n \in CallSet /\ n.phase = k.phase /\ n.join = k.join
  /\ n.list = k.list /\ n.at = k.at /\ n.running = k.running
  /\ n.handled = k.handled /\ n.slots = [k.slots EXCEPT ![i] = s]
  /\ Len(n.slots) = Len(k.slots) /\ n.slots[i] = s
  /\ \A j \in DOMAIN k.slots : j # i => n.slots[j] = k.slots[j]

\* A call that moves on.
LEMMA Moved ==
  ASSUME NEW k \in CallSet, NEW ph \in Phases, NEW a \in Nat,
         NEW n, ToAt(k, n, ph, a)
  PROVE  MovedTo(k, n, ph, a, k.running, k.handled)
<1>1. n \in CallSet
  BY Zenon DEF CallSet, ToAt
<1> QED
  BY <1>1 DEF CallSet, ToAt, Same, MovedTo

\* A call whose phase alone changes.
LEMMA PhaseMoved ==
  ASSUME NEW k \in CallSet, NEW ph \in Phases, NEW n, ToPhase(k, n, ph)
  PROVE  MovedTo(k, n, ph, k.at, k.running, k.handled)
<1>1. n \in CallSet
  BY DEF CallSet, ToPhase
<1> QED
  BY <1>1 DEF CallSet, ToPhase, Same, MovedTo

\* A call that makes a report.
LEMMA ReportMoved ==
  ASSUME NEW k \in CallSet, NEW ph \in Phases, NEW r \in Info,
         NEW n, ToReport(k, n, ph, r)
  PROVE  MovedTo(k, n, ph, k.at, k.running, Append(k.handled, r))
<1>1. n \in CallSet
  <2>1. Append(k.handled, r) \in Seq(Info)
    BY CallFields
  <2>2. PICK h \in Seq(Info) : h = Append(k.handled, r)
    BY <2>1, Zenon
  <2>3. n = [k EXCEPT !.phase = ph, !.handled = h]
    BY <2>2 DEF ToReport
  <2> QED
    BY <2>3, Zenon DEF CallSet
<1> QED
  BY <1>1 DEF CallSet, ToReport, Same, MovedTo

\* A call whose position and counter change.
LEMMA CountMoved ==
  ASSUME NEW k \in CallSet, NEW ph \in Phases, NEW a \in Nat, NEW m \in Nat,
         NEW n, ToCount(k, n, ph, a, m)
  PROVE  MovedTo(k, n, ph, a, m, k.handled)
<1>1. n \in CallSet
  BY Zenon DEF CallSet, ToCount
<1> QED
  BY <1>1 DEF CallSet, ToCount, Same, MovedTo

\* A call whose position alone changes.
LEMMA AtMoved ==
  ASSUME NEW k \in CallSet, NEW a \in Nat, NEW n, ToNextAt(k, n, a)
  PROVE  MovedTo(k, n, k.phase, a, k.running, k.handled)
<1>1. n \in CallSet
  BY Zenon DEF CallSet, ToNextAt
<1> QED
  BY <1>1 DEF CallSet, ToNextAt, Same, MovedTo

\* A call whose position and counter change in the same phase.
LEMMA NextCountMoved ==
  ASSUME NEW k \in CallSet, NEW a \in Nat, NEW m \in Nat, NEW n,
         ToNextCount(k, n, a, m)
  PROVE  MovedTo(k, n, k.phase, a, m, k.handled)
<1>1. n \in CallSet
  BY Zenon DEF CallSet, ToNextCount
<1> QED
  BY <1>1 DEF CallSet, ToNextCount, Same, MovedTo

\* A call one of whose slots changes.
LEMMA SlotMoved ==
  ASSUME NEW k \in CallSet, NEW i \in DOMAIN k.slots, NEW s \in SlotSet,
         NEW n, ToSlot(k, n, i, s)
  PROVE  Slotted(k, n, i, s)
<1>1. /\ n.phase = k.phase /\ n.join = k.join
      /\ n.list = k.list /\ n.at = k.at /\ n.running = k.running
      /\ n.handled = k.handled /\ n.slots = [k.slots EXCEPT ![i] = s]
  BY DEF CallSet, ToSlot
<1>2. /\ n.slots \in Seq(SlotSet) /\ Len(n.slots) = Len(k.slots) /\ n.slots[i] = s
      /\ \A j \in DOMAIN k.slots : j # i => n.slots[j] = k.slots[j]
  BY <1>1, CallFields
<1>3. n \in CallSet
  BY <1>2, Zenon DEF CallSet, ToSlot
<1> QED
  BY <1>1, <1>2, <1>3, Zenon DEF Slotted

\* A slot that leaves the running ones makes the count one less; one that
\* goes on running leaves it as it is.
LEMMA WaitingMoves ==
  ASSUME NEW k \in CallSet, NEW n, NEW a \in DOMAIN k.slots, NEW s \in SlotSet,
         Slotted(k, n, a, s), k.slots[a].state \in Running
  PROVE  Cardinality(Waiting(n)) =
           IF s.state \in Running THEN Cardinality(Waiting(k))
           ELSE Cardinality(Waiting(k)) - 1
<1>1. /\ DOMAIN n.slots = DOMAIN k.slots /\ n.slots[a] = s
      /\ \A i \in DOMAIN k.slots : i # a => n.slots[i] = k.slots[i]
  BY CallFields DEF Slotted
<1>2. CASE s.state \in Running
  <2>1. Waiting(n) = Waiting(k)
    BY <1>1, <1>2, Zenon DEF Waiting
  <2> QED
    BY <2>1, <1>2, Zenon
<1>3. CASE s.state \notin Running
  <2>1. Waiting(n) = Waiting(k) \ {a} /\ a \in Waiting(k)
    BY <1>1, <1>3, Zenon DEF Waiting
  <2>2. IsFiniteSet(Waiting(k))
    BY WaitingFinite, Zenon
  <2> QED
    BY <2>1, <2>2, <1>3, FS_RemoveElement, Zenon
<1> QED
  BY <1>2, <1>3, Zenon
\* What a report is made of.
LEMMA InfoTyped ==
  ASSUME NEW id \in 1..MaxId, NEW p \in Payload
  PROVE  PanicInfo(id, p) \in Info
BY DEF Info, PanicInfo, Message

-----------------------------------------------------------------------------
(* The steps of a call *)

\* With the same slots the same handlers have panicked.
LEMMA SameSlots ==
  ASSUME NEW k, NEW n, NEW m, Same(k, n)
  PROVE  SamePanics(k, n, m)
BY Zenon DEF Same, SamePanics

\* The handler k.at of a dispatch one at a time has finished and, if it
\* panicked, been reported.
Passed(k) ==
  /\ ListInv(k.list) /\ Len(k.slots) = Len(k.list) /\ k.at \in 1..Len(k.list)
  /\ ~k.join /\ k.running = 0 /\ Reported(k, k.at)
  /\ \A i \in 1..k.at : Finished(k, i)
  /\ \A i \in (k.at + 1)..Len(k.list) : k.slots[i].state = "unstarted"

\* A dispatch one at a time goes on after a handler.
LEMMA NextEntryKeeps ==
  ASSUME NEW k \in CallSet, NEW w, Passed(k)
  PROVE  NextEntry(k) \in CallSet /\ CallInv(NextEntry(k), w)
<1>0. PICK n : n = NextEntry(k)
  OBVIOUS
<1>1. /\ k.list \in Seq(Entry) /\ k.slots \in Seq(SlotSet) /\ k.at \in Nat
      /\ Len(k.list) \in Nat /\ DOMAIN k.slots = 1..Len(k.list)
  BY CallFields DEF Passed
<1>2. CASE k.at < Len(k.list)
  <2>1. /\ n \in CallSet /\ Same(k, n) /\ n.phase = "start" /\ n.at = k.at + 1
        /\ n.running = k.running /\ n.handled = k.handled
    <3>1. ToAt(k, n, "start", k.at + 1)
      BY <1>0, <1>2, Zenon DEF NextEntry, ToAt
    <3>2. "start" \in Phases /\ k.at + 1 \in Nat
      BY <1>1 DEF Phases
    <3>9. MovedTo(k, n, "start", k.at + 1, k.running, k.handled)
      BY <3>1, <3>2, Moved, Zenon
    <3> QED
      BY <3>9, Zenon DEF MovedTo
  <2>2. Reported(n, k.at)
    BY <2>1, <1>1, SameSlots, ReportedKept, Zenon DEF Passed
  <2>3. n.at - 1 = k.at
    BY <2>1, <1>1
  <2>4. ReportInv(n)
    BY <2>1, <2>2, <2>3 DEF ReportInv, Passed, Same, Outside, Looping, Handling
  <2>5. SequentialInv(n)
    BY <2>1, <1>1, <1>2 DEF SequentialInv, Passed, Same, Finished
  <2>6. CountInv(n)
    BY <2>1, <1>1, <1>2 DEF CountInv, Passed, Same
  <2>7. EndInv(n) /\ WakeInv(n, w) /\ ~n.join /\ ListInv(n.list)
    BY <2>1 DEF EndInv, Passed, WakeInv, Same
  <2> QED
    BY <1>0, <2>1, <2>4, <2>5, <2>6, <2>7, Zenon DEF CallInv
<1>3. CASE ~(k.at < Len(k.list))
  <2>0. k.at = Len(k.list)
    BY <1>1, <1>3 DEF Passed
  <2>1. /\ n \in CallSet /\ Same(k, n) /\ n.phase = "ready" /\ n.at = k.at
        /\ n.running = k.running /\ n.handled = k.handled
    <3>1. ToPhase(k, n, "ready")
      BY <1>0, <1>3, Zenon DEF NextEntry, ToPhase
    <3>2. "ready" \in Phases
      BY Zenon DEF Phases
    <3>9. MovedTo(k, n, "ready", k.at, k.running, k.handled)
      BY <3>1, <3>2, PhaseMoved, Zenon
    <3> QED
      BY <3>9, Zenon DEF MovedTo
  <2>2. Reported(n, k.at)
    BY <2>1, <1>1, SameSlots, ReportedKept, Zenon DEF Passed
  <2>3. n.at = Len(n.list)
    BY <2>0, <2>1, Zenon DEF Same
  <2>4. ReportInv(n)
    BY <2>1, <2>2, <2>3 DEF ReportInv, Passed, Same, Outside, Looping, Handling
  <2>5. SequentialInv(n)
    BY <2>1 DEF SequentialInv, Passed, Looping, Handling
  <2>6. CountInv(n)
    BY <2>1, <1>1, <2>0 DEF CountInv, Passed, Same
  <2>7. EndInv(n) /\ WakeInv(n, w) /\ ~n.join /\ ListInv(n.list)
    BY <2>0, <2>1, <1>1 DEF EndInv, Passed, WakeInv, Same, Finished
  <2> QED
    BY <1>0, <2>1, <2>4, <2>5, <2>6, <2>7, Zenon DEF CallInv
<1> QED
  BY <1>2, <1>3, Zenon

\* The handler k.at has panicked and is the next to report.
Panicking(k) ==
  /\ ListInv(k.list) /\ Len(k.slots) = Len(k.list) /\ k.at \in 1..Len(k.list)
  /\ k.running = 0 /\ Reported(k, k.at - 1) /\ k.slots[k.at].state = "panicked"
  /\ \A i \in 1..(k.at - 1) : Finished(k, i)
  /\ k.join => \A i \in DOMAIN k.slots : Finished(k, i)
  /\ ~k.join => \A i \in (k.at + 1)..Len(k.list) : k.slots[i].state = "unstarted"

\* handle_panic is called for the next handler that panicked.
LEMMA HandlePanicKeeps ==
  ASSUME NEW k \in CallSet, NEW w, Panicking(k)
  PROVE  HandlePanic(k) \in CallSet /\ CallInv(HandlePanic(k), w)
<1>0. PICK n : n = HandlePanic(k)
  OBVIOUS
<1>1. /\ k.list \in Seq(Entry) /\ k.slots \in Seq(SlotSet) /\ k.at \in Nat
      /\ k.at >= 1 /\ Len(k.list) \in Nat /\ DOMAIN k.slots = 1..Len(k.list)
      /\ k.list[k.at] \in Entry /\ k.slots[k.at] \in SlotSet
      /\ k.handled \in Seq(Info)
  BY CallFields DEF Panicking
<1> DEFINE r == PanicInfo(k.list[k.at].id, k.slots[k.at].payload)
<1>2. r \in Info
  <2>1. k.slots[k.at].payload \in Payload
    BY <1>1, PanickedSlot, Zenon DEF Panicking
  <2>2. k.list[k.at].id \in 1..MaxId
    BY <1>1 DEF Entry
  <2> QED
    BY <2>1, <2>2, InfoTyped, Zenon
<1> HIDE DEF r
<1>3. /\ n \in CallSet /\ Same(k, n) /\ n.phase = "fetch" /\ n.at = k.at
      /\ n.running = k.running /\ n.handled = Append(k.handled, r)
  <2>1. ToReport(k, n, "fetch", r)
    BY <1>0, Zenon DEF HandlePanic, ToReport, r
  <2>2. "fetch" \in Phases
    BY Zenon DEF Phases
  <2>9. MovedTo(k, n, "fetch", k.at, k.running, Append(k.handled, r))
    BY <2>1, <2>2, <1>2, ReportMoved, Zenon
  <2> QED
    BY <2>9, Zenon DEF MovedTo
<1>4. Reported(n, k.at)
  <2>1. SamePanics(k, n, k.at)
    BY <1>3, SameSlots, Zenon
  <2> QED
    BY <2>1, <1>1, <1>2, <1>3, ReportedNext, Zenon DEF Panicking, r
<1>5. ReportInv(n)
  BY <1>3, <1>4 DEF ReportInv, Panicking, Same, Outside, Looping, Handling
<1>6. ~n.join => SequentialInv(n)
  BY <1>1, <1>3 DEF SequentialInv, Panicking, Same, Finished
<1>7. n.join => JoinInv(n)
  <2>1. n.at \in 1..Len(n.list)
    BY <1>3, Zenon DEF Panicking, Same
  <2>2. n.join => \A i \in DOMAIN n.slots : Finished(n, i)
    BY <1>3, Zenon DEF Panicking, Same, Finished
  <2> QED
    BY <1>3, <2>1, <2>2 DEF JoinInv, Handling
<1>8. CountInv(n)
  BY <1>1, <1>3 DEF CountInv, Panicking, Same
<1>9. EndInv(n) /\ WakeInv(n, w) /\ ListInv(n.list)
  BY <1>3 DEF EndInv, Panicking, WakeInv, Same
<1> QED
  BY <1>0, <1>3, <1>5, <1>6, <1>7, <1>8, <1>9, Zenon DEF CallInv
\* No handler has been loaded.
Blank(n) ==
  /\ n.phase \in Outside /\ n.list = <<>> /\ n.slots = <<>> /\ n.at = 0
  /\ n.running = 0 /\ n.handled = <<>>

\* A future that has not been polled, or is over, has no handlers.
LEMMA BlankKeeps ==
  ASSUME NEW n, NEW w, Blank(n)
  PROVE  CallInv(n, w)
<1>1. ListInv(n.list)
  BY DEF ListInv, Sorted, Distinct, Blank
<1>2. CountInv(n) /\ EndInv(n)
  BY DEF CountInv, EndInv, Blank, Outside
<1>3. ReportInv(n)
  BY DEF ReportInv, Blank, Outside, Looping, Handling
<1>4. SequentialInv(n)
  BY DEF SequentialInv, Blank, Outside, Looping, Handling
<1>5. JoinInv(n) /\ WakeInv(n, w)
  BY DEF JoinInv, WakeInv, Blank, Outside, Handling
<1> QED
  BY <1>1, <1>2, <1>3, <1>4, <1>5, Zenon DEF CallInv

\* The first poll of a call finds no handlers.
LEMMA EmptyKeeps ==
  ASSUME NEW k \in CallSet, NEW v, NEW w, CallInv(k, v), k.phase = "created",
         NEW n, ToPhase(k, n, "ready")
  PROVE  n \in CallSet /\ CallInv(n, w)
<1>1. /\ n \in CallSet /\ Same(k, n) /\ n.phase = "ready" /\ n.at = k.at
      /\ n.running = k.running /\ n.handled = k.handled
  <2>1. "ready" \in Phases
    BY Zenon DEF Phases
  <2>9. MovedTo(k, n, "ready", k.at, k.running, k.handled)
    BY <2>1, PhaseMoved, Zenon
  <2> QED
    BY <2>9, Zenon DEF MovedTo
<1>2. /\ k.list = <<>> /\ k.handled = <<>> /\ k.running = 0 /\ Len(k.slots) = Len(k.list)
      /\ k.at \in 0..(Len(k.list) + 1)
  BY DEF CallInv, CountInv, ReportInv, Outside
<1>3. Reported(n, 0) /\ Len(n.list) = 0
  BY <1>1, <1>2, ReportedNone DEF Same
<1>4. ReportInv(n)
  BY <1>1, <1>3 DEF ReportInv, Outside, Looping, Handling
<1>5. SequentialInv(n) /\ JoinInv(n)
  BY <1>1 DEF SequentialInv, JoinInv, Looping, Handling
<1>6. CountInv(n)
  BY <1>1, <1>2 DEF CountInv, Same
<1>7. EndInv(n) /\ WakeInv(n, w)
  <2>1. DOMAIN n.slots = {}
    BY <1>1, <1>2, CallFields DEF Same
  <2> QED
    BY <1>1, <2>1 DEF EndInv, WakeInv
<1>8. ListInv(n.list)
  BY <1>1, Zenon DEF CallInv, Same
<1> QED
  BY <1>1, <1>4, <1>5, <1>6, <1>7, <1>8, Zenon DEF CallInv

\* The first poll loads a list: no handler has been started.
LEMMA LoadKeeps ==
  ASSUME NEW k \in CallSet, NEW v, NEW w, CallInv(k, v), k.phase = "created",
         NEW L, ListInv(L), L # <<>>, NEW j \in BOOLEAN,
         NEW n, ToList(k, n, j, L, [i \in DOMAIN L |-> Is("unstarted")])
  PROVE  n \in CallSet /\ CallInv(n, w)
<1>1. L \in Seq(Entry) /\ Len(L) \in Nat /\ DOMAIN L = 1..Len(L) /\ Len(L) >= 1
  BY DEF ListInv
<1>2. PICK S \in Seq(SlotSet) : S = [i \in DOMAIN L |-> Is("unstarted")]
  <2>1. Is("unstarted") \in SlotSet
    BY Zenon DEF SlotSet
  <2>2. PICK u \in SlotSet : u = Is("unstarted")
    BY <2>1, Zenon
  <2>3. [i \in 1..Len(L) |-> u] \in Seq(SlotSet)
    BY <1>1
  <2> QED
    BY <1>1, <2>2, <2>3, Zenon
<1>3. /\ Len(S) = Len(L) /\ DOMAIN S = 1..Len(L)
      /\ \A i \in 1..Len(L) : S[i].state = "unstarted"
  BY <1>1, <1>2 DEF Is
<1>4. k.running = 0 /\ k.handled = <<>>
  BY DEF CallInv, CountInv, ReportInv, Outside
<1>5. n = [k EXCEPT !.phase = "start", !.at = 1, !.join = j, !.list = L, !.slots = S]
  BY <1>2, Zenon DEF ToList
<1>6. /\ n.phase = "start" /\ n.at = 1 /\ n.join = j /\ n.list = L /\ n.slots = S
      /\ n.running = 0 /\ n.handled = <<>>
  BY <1>4, <1>5 DEF CallSet
<1>7. n \in CallSet
  <2>1. "start" \in Phases
    BY Zenon DEF Phases
  <2> QED
    BY <2>1, <1>1, <1>5, Zenon DEF CallSet
<1>8. ReportInv(n)
  <2>1. Reported(n, 0)
    BY <1>6, ReportedNone, Zenon
  <2>2. n.at - 1 = 0
    BY <1>6
  <2> QED
    BY <2>1, <2>2, <1>6 DEF ReportInv, Outside, Looping, Handling
<1>9. SequentialInv(n)
  BY <1>1, <1>3, <1>6 DEF SequentialInv
<1>10. JoinInv(n)
  BY <1>1, <1>3, <1>6 DEF JoinInv, Handling
<1>11. CountInv(n) /\ EndInv(n) /\ WakeInv(n, w)
  BY <1>1, <1>3, <1>6 DEF CountInv, EndInv, WakeInv
<1> QED
  BY <1>6, <1>7, <1>8, <1>9, <1>10, <1>11, Zenon DEF CallInv
\* The steps inside handle_panic change the phase only.
LEMMA HandlingKeeps ==
  ASSUME NEW k \in CallSet, NEW v, NEW w, CallInv(k, v), k.phase \in Handling,
         NEW ph \in Handling, NEW n, ToPhase(k, n, ph)
  PROVE  n \in CallSet /\ CallInv(n, w)
<1>1. /\ n \in CallSet /\ Same(k, n) /\ n.phase = ph /\ n.at = k.at
      /\ n.running = k.running /\ n.handled = k.handled
  <2>1. ph \in Phases
    BY Zenon DEF Phases, Handling
  <2>9. MovedTo(k, n, ph, k.at, k.running, k.handled)
    BY <2>1, PhaseMoved, Zenon
  <2> QED
    BY <2>9, Zenon DEF MovedTo
<1>2. k.at \in 1..Len(k.list)
  BY CallFields, Zenon DEF CallInv, SequentialInv, JoinInv
<1>3. ReportInv(n)
  <2>1. k.slots[k.at].state = "panicked" /\ Reported(k, k.at)
    BY Zenon DEF CallInv, ReportInv
  <2>2. SamePanics(k, n, k.at)
    BY <1>1, SameSlots, Zenon
  <2>3. Reported(n, k.at)
    BY <1>1, <2>1, <2>2, CallFields, ReportedKept, Zenon
  <2> QED
    BY <1>1, <2>1, <2>3 DEF ReportInv, Same, Outside, Looping, Handling
<1>4. ~n.join => SequentialInv(n)
  BY <1>1 DEF CallInv, SequentialInv, Same, Finished, Handling
<1>5. n.join => JoinInv(n)
  BY <1>1 DEF CallInv, JoinInv, Same, Finished, Handling
<1>6. CountInv(n)
  BY <1>1 DEF CallInv, CountInv, Same, Handling
<1>7. EndInv(n) /\ WakeInv(n, w)
  BY <1>1 DEF EndInv, WakeInv, Handling
<1>8. ListInv(n.list)
  BY <1>1, Zenon DEF CallInv, Same
<1> QED
  BY <1>1, <1>3, <1>4, <1>5, <1>6, <1>7, <1>8, Zenon DEF CallInv

\* A report is over: the loop that made it goes on.
LEMMA PayloadKeeps ==
  ASSUME NEW k \in CallSet, NEW v, NEW w, CallInv(k, v), k.phase = "payload",
         NEW n, ToNext(k, n)
  PROVE  n \in CallSet /\ CallInv(n, w)
<1>1. k.phase \in Handling
  BY DEF Handling
<1>2. k.at \in 1..Len(k.list) /\ Reported(k, k.at) /\ k.running = 0
      /\ k.slots[k.at].state = "panicked" /\ Len(k.slots) = Len(k.list)
  <2>1. k.at \in 1..Len(k.list)
    BY <1>1, CallFields, Zenon DEF CallInv, SequentialInv, JoinInv
  <2>2. Reported(k, k.at) /\ k.slots[k.at].state = "panicked"
    BY <1>1, Zenon DEF CallInv, ReportInv
  <2>3. k.running = 0 /\ Len(k.slots) = Len(k.list)
    BY DEF CallInv, CountInv
  <2> QED
    BY <2>1, <2>2, <2>3, Zenon
<1>3. k.at \in Nat /\ Len(k.list) \in Nat
  BY CallFields
<1>4. CASE ~k.join
  <2>1. \A i \in 1..k.at : Finished(k, i)
    <3>1. \A i \in 1..(k.at - 1) : Finished(k, i)
      BY <1>1, <1>4, Zenon DEF CallInv, SequentialInv
    <3>2. Finished(k, k.at)
      BY <1>2, Zenon DEF Finished
    <3>3. \A i \in 1..k.at : i \in 1..(k.at - 1) \/ i = k.at
      BY <1>3
    <3> QED
      BY <3>1, <3>2, <3>3, Zenon
  <2>2. Passed(k)
    BY <1>1, <1>2, <1>4, <2>1, Zenon DEF Passed, CallInv, SequentialInv
  <2>3. n = NextEntry(k)
    BY <1>4, Zenon DEF ToNext
  <2> QED
    BY <2>2, <2>3, NextEntryKeeps, Zenon
<1>5. CASE k.join
  <2>1. /\ n \in CallSet /\ Same(k, n) /\ n.phase = "report" /\ n.at = k.at + 1
        /\ n.running = k.running /\ n.handled = k.handled
    <3>1. ToAt(k, n, "report", k.at + 1)
      BY <1>5, Zenon DEF ToAt, ToNext
    <3>2. "report" \in Phases /\ k.at + 1 \in Nat
      BY <1>3 DEF Phases
    <3>9. MovedTo(k, n, "report", k.at + 1, k.running, k.handled)
      BY <3>1, <3>2, Moved, Zenon
    <3> QED
      BY <3>9, Zenon DEF MovedTo
  <2>2. ReportInv(n)
    <3>1. SamePanics(k, n, k.at)
      BY <2>1, SameSlots, Zenon
    <3>2. Reported(n, k.at)
      BY <2>1, <1>2, <1>3, <3>1, ReportedKept, Zenon
    <3>3. n.at - 1 = k.at
      BY <1>3, <2>1
    <3> QED
      BY <2>1, <3>2, <3>3 DEF ReportInv, Outside, Looping, Handling
  <2>3. JoinInv(n)
    <3>1. \A i \in DOMAIN n.slots : Finished(n, i)
      BY <1>1, <1>5, <2>1, Zenon DEF CallInv, JoinInv, Same, Finished
    <3>2. n.at \in 1..(Len(n.list) + 1)
      BY <2>1, <1>2, <1>3 DEF Same
    <3> QED
      BY <2>1, <3>1, <3>2 DEF JoinInv, Handling
  <2>4. CountInv(n)
    BY <2>1, <1>2, <1>3 DEF CountInv, Same
  <2>5. EndInv(n) /\ WakeInv(n, w) /\ n.join
    BY <2>1, <1>5 DEF EndInv, WakeInv, Same
  <2>6. ListInv(n.list)
    BY <2>1, Zenon DEF CallInv, Same
  <2> QED
    BY <2>1, <2>2, <2>3, <2>4, <2>5, <2>6, Zenon DEF CallInv
<1> QED
  BY <1>4, <1>5, Zenon
\* The event that a handler awaits comes; the call is woken.
LEMMA WakeKeeps ==
  ASSUME NEW k \in CallSet, NEW v, CallInv(k, v), NEW i \in DOMAIN k.slots,
         k.slots[i].state = "parked", NEW n, ToSlot(k, n, i, Is("signalled"))
  PROVE  n \in CallSet /\ CallInv(n, TRUE)
<1>1. PICK s \in SlotSet : s = Is("signalled") /\ s.state = "signalled"
  <2>1. "signalled" \in Running \cup {"unstarted", "done"}
    BY Zenon DEF Running
  <2>2. Is("signalled") \in SlotSet
    BY <2>1, Zenon DEF SlotSet
  <2>3. Is("signalled").state = "signalled"
    BY DEF Is
  <2> QED
    BY <2>2, <2>3, Zenon
<1>14. Slotted(k, n, i, s)
  <2>1. ToSlot(k, n, i, s)
    BY <1>1, Zenon
  <2> QED
    BY <2>1, SlotMoved, Zenon
<1>2. /\ n \in CallSet /\ n.phase = k.phase /\ n.join = k.join
      /\ n.list = k.list /\ n.at = k.at /\ n.running = k.running
      /\ n.handled = k.handled /\ n.slots = [k.slots EXCEPT ![i] = s]
      /\ Len(n.slots) = Len(k.slots) /\ n.slots[i] = s
      /\ \A j \in DOMAIN k.slots : j # i => n.slots[j] = k.slots[j]
  BY <1>14, Zenon DEF Slotted
<1>3. /\ k.at \in Nat /\ Len(k.list) \in Nat /\ DOMAIN k.slots = 1..Len(k.list)
      /\ DOMAIN n.slots = 1..Len(k.list) /\ k.at \in 0..(Len(k.list) + 1)
      /\ Len(k.slots) = Len(k.list)
  BY <1>2, CallFields DEF CallInv, CountInv
<1>4. \A j \in 1..Len(k.list) :
        \/ n.slots[j] = k.slots[j]
        \/ j = i /\ n.slots[j].state = "signalled"
  BY <1>1, <1>2, <1>3, Zenon
<1>5. ASSUME NEW m \in Nat, m <= Len(k.list), Reported(k, m)
      PROVE  Reported(n, m)
  <2>1. \A j \in 1..m : j \in 1..Len(k.list)
    BY <1>3, <1>5
  <2>2. SamePanics(k, n, m)
    BY <1>2, <1>4, <2>1 DEF SamePanics
  <2> QED
    BY <1>2, <1>5, <2>2, ReportedKept, Zenon
<1>6. k.phase \in Handling => k.at \in 1..Len(k.list)
  BY CallFields, Zenon DEF CallInv, SequentialInv, JoinInv
<1>7. ReportInv(n)
  <2>1. n.phase \in Outside => n.list = <<>> /\ n.handled = <<>>
    BY <1>2, Zenon DEF CallInv, ReportInv
  <2>2. ASSUME n.phase \in Looping
        PROVE  IF n.join THEN n.handled = <<>> ELSE Reported(n, n.at - 1)
    <3>1. CASE n.join
      BY <3>1, <1>2, <2>2, Zenon DEF CallInv, ReportInv
    <3>2. CASE ~n.join
      <4>1. k.at - 1 \in Nat /\ k.at - 1 <= Len(k.list)
        <5>1. k.at \in 1..Len(k.list)
          BY <1>2, <2>2, <3>2, Zenon DEF CallInv, SequentialInv
        <5> QED
          BY <5>1, <1>3
      <4>2. Reported(k, k.at - 1)
        BY <1>2, <2>2, <3>2, Zenon DEF CallInv, ReportInv
      <4> QED
        BY <1>2, <3>2, <4>1, <4>2, <1>5, Zenon
    <3> QED
      BY <3>1, <3>2, Zenon
  <2>3. ASSUME n.phase \in Handling
        PROVE  n.slots[n.at].state = "panicked" /\ Reported(n, n.at)
    <3>1. k.at \in 1..Len(k.list) /\ k.slots[k.at].state = "panicked" /\ Reported(k, k.at)
      BY <2>3, <1>2, <1>6, Zenon DEF CallInv, ReportInv
    <3>2. k.at # i /\ k.at <= Len(k.list)
      BY <3>1, <1>3
    <3>3. Reported(n, k.at)
      BY <3>1, <3>2, <1>3, <1>5, Zenon
    <3> QED
      BY <3>1, <3>2, <3>3, <1>2, <1>3, Zenon
  <2>4. n.phase = "report" => Reported(n, n.at - 1)
    <3>1. ASSUME n.phase = "report" PROVE k.at - 1 \in Nat /\ k.at - 1 <= Len(k.list)
      BY <1>2, <1>3, <3>1 DEF CallInv, EndInv, JoinInv
    <3> QED
      BY <3>1, <1>2, <1>5, Zenon DEF CallInv, ReportInv
  <2>5. n.phase = "ready" => Reported(n, Len(n.list))
    <3>1. Len(k.list) <= Len(k.list)
      BY <1>3
    <3> QED
      BY <3>1, <1>2, <1>3, <1>5, Zenon DEF CallInv, ReportInv
  <2> QED
    BY <2>1, <2>2, <2>3, <2>4, <2>5, Zenon DEF ReportInv
<1>8. ~n.join => SequentialInv(n)
  <2>1. ASSUME ~n.join, n.phase \in Looping \cup Handling PROVE SequentialInv(n)
    <3>1. /\ k.at \in 1..Len(k.list)
          /\ \A j \in 1..(k.at - 1) : Finished(k, j)
          /\ \A j \in (k.at + 1)..Len(k.list) : k.slots[j].state = "unstarted"
          /\ k.phase = "start" => k.slots[k.at].state = "unstarted"
          /\ k.phase \in {"poll", "suspended"} => k.slots[k.at].state \in Running
      BY <1>2, <2>1, Zenon DEF CallInv, SequentialInv
    <3>0. /\ \A j \in 1..(k.at - 1) : j \in 1..Len(k.list)
          /\ \A j \in (k.at + 1)..Len(k.list) : j \in 1..Len(k.list)
      BY <1>3, <3>1
    <3>2. \A j \in 1..(k.at - 1) : Finished(n, j)
      BY <3>0, <3>1, <1>4, Zenon DEF Finished
    <3>3. \A j \in (k.at + 1)..Len(k.list) : n.slots[j].state = "unstarted"
      BY <3>0, <3>1, <1>4, Zenon
    <3>4. k.phase = "start" => n.slots[k.at].state = "unstarted"
      BY <3>1, <1>4
    <3>5. k.phase \in {"poll", "suspended"} => n.slots[k.at].state \in Running
      BY <3>1, <1>4 DEF Running
    <3> QED
      BY <1>2, <3>1, <3>2, <3>3, <3>4, <3>5, Zenon DEF SequentialInv
  <2> QED
    BY <2>1, Zenon DEF SequentialInv
<1>9. n.join => JoinInv(n)
  <2> SUFFICES ASSUME n.join PROVE JoinInv(n)
    OBVIOUS
  <2>1. JoinInv(k)
    BY <1>2, Zenon DEF CallInv
  <2>2. n.phase # "start"
    <3> SUFFICES ASSUME n.phase = "start" PROVE FALSE
      OBVIOUS
    <3>1. i \in 1..(k.at - 1) \/ i \in k.at..Len(k.list)
      BY <1>3
    <3> QED
      BY <1>2, <2>1, <3>1 DEF JoinInv
  <2>3. n.phase = "poll" =>
          /\ n.at \in 1..(Len(n.list) + 1)
          /\ n.at <= Len(n.list) => n.slots[n.at].state \in Running
    <3> SUFFICES ASSUME n.phase = "poll", n.at <= Len(n.list)
                 PROVE  n.slots[n.at].state \in Running
      BY <1>2, <2>1, Zenon DEF JoinInv
    <3>1. k.slots[k.at].state \in Running /\ k.at \in 1..Len(k.list)
      BY <1>2, <1>3, <2>1 DEF JoinInv
    <3> QED
      BY <1>2, <1>4, <3>1 DEF Running
  <2>4. n.phase \in {"poll", "suspended"} =>
          /\ n.at \in 1..(Len(n.list) + 1)
          /\ \A j \in DOMAIN n.slots : n.slots[j].state # "unstarted"
    BY <1>2, <1>3, <1>4, <2>1 DEF JoinInv
  <2>5. n.phase \in Handling \cup {"report"} => \A j \in DOMAIN n.slots : Finished(n, j)
    <3> SUFFICES ASSUME n.phase \in Handling \cup {"report"} PROVE FALSE
      BY Zenon
    <3>1. Finished(k, i)
      BY <1>2, <2>1, Zenon DEF JoinInv
    <3> QED
      BY <3>1 DEF Finished
  <2>6. /\ n.phase \in Handling => n.at \in 1..Len(n.list)
        /\ n.phase = "report" => n.at \in 1..(Len(n.list) + 1)
    BY <1>2, <2>1, Zenon DEF JoinInv
  <2> QED
    BY <2>2, <2>3, <2>4, <2>5, <2>6, Zenon DEF JoinInv
<1>10. CountInv(n)
  <2>1. Cardinality(Waiting(n)) = Cardinality(Waiting(k))
    <3>1. s.state \in Running /\ k.slots[i].state \in Running
      BY <1>1, Zenon DEF Running
    <3> QED
      BY <3>1, <1>14, WaitingMoves, Zenon
  <2> QED
    BY <2>1, <1>2, Zenon DEF CallInv, CountInv
<1>11. EndInv(n)
  <2>1. n.phase # "ready"
    <3> SUFFICES ASSUME n.phase = "ready" PROVE FALSE
      OBVIOUS
    <3>1. Finished(k, i)
      BY <1>2, Zenon DEF CallInv, EndInv
    <3> QED
      BY <3>1 DEF Finished
  <2> QED
    BY <1>2, <2>1, Zenon DEF CallInv, EndInv
<1>12. WakeInv(n, TRUE)
  <2>1. n.phase = "poll" /\ n.join => \A j \in 1..(n.at - 1) : n.slots[j].state # "fresh"
    <3> SUFFICES ASSUME n.phase = "poll", n.join, NEW j \in 1..(n.at - 1)
                 PROVE  n.slots[j].state # "fresh"
      OBVIOUS
    <3>1. k.slots[j].state # "fresh"
      BY <1>2, Zenon DEF CallInv, WakeInv
    <3>2. j \in 1..Len(k.list)
      BY <1>2, <1>3
    <3> QED
      BY <3>1, <3>2, <1>4
  <2>2. n.phase = "suspended" => \A j \in DOMAIN n.slots : n.slots[j].state # "fresh"
    <3> SUFFICES ASSUME n.phase = "suspended", NEW j \in DOMAIN n.slots
                 PROVE  n.slots[j].state # "fresh"
      OBVIOUS
    <3>1. k.slots[j].state # "fresh" /\ j \in 1..Len(k.list)
      BY <1>2, <1>3, Zenon DEF CallInv, WakeInv
    <3> QED
      BY <3>1, <1>4
  <2> QED
    BY <2>1, <2>2, Zenon DEF WakeInv
<1>13. ListInv(n.list)
  BY <1>2, Zenon DEF CallInv
<1> QED
  BY <1>2, <1>7, <1>8, <1>9, <1>10, <1>11, <1>12, <1>13, Zenon DEF CallInv
\* The loop of the join looks for a running slot from position b on.
Polling(n, b, w) ==
  /\ ListInv(n.list) /\ Len(n.slots) = Len(n.list) /\ n.join /\ n.phase = "poll"
  /\ n.running = Cardinality(Waiting(n)) /\ n.handled = <<>>
  /\ \A i \in DOMAIN n.slots : n.slots[i].state # "unstarted"
  /\ b \in 1..(Len(n.list) + 1) /\ n.at = RunningFrom(n.slots, b)
  /\ \A i \in 1..(b - 1) :
       n.slots[i].state # "fresh" /\ (n.slots[i].state = "signalled" => w)

\* What the join's loop relies on holds at the slot that it finds.
LEMMA PollingKeeps ==
  ASSUME NEW n \in CallSet, NEW b, NEW w, Polling(n, b, w)
  PROVE  CallInv(n, w)
<1>1. /\ n.slots \in Seq(SlotSet) /\ Len(n.list) \in Nat /\ DOMAIN n.slots = 1..Len(n.list)
      /\ n.join /\ n.phase = "poll" /\ b \in Nat /\ b >= 1 /\ b <= Len(n.slots) + 1
      /\ Len(n.slots) = Len(n.list) /\ n.handled = <<>>
  BY CallFields DEF Polling
<1>2. /\ n.at \in b..(Len(n.list) + 1)
      /\ n.at <= Len(n.list) => n.slots[n.at].state \in Running
      /\ \A i \in b..(n.at - 1) : n.slots[i].state \notin Running
  <2>1. n.at = RunningFrom(n.slots, b) /\ Len(n.slots) = Len(n.list)
    BY <1>1, Zenon DEF Polling
  <2> QED
    <3>1. /\ RunningFrom(n.slots, b) \in b..(Len(n.slots) + 1)
          /\ RunningFrom(n.slots, b) <= Len(n.slots)
               => n.slots[RunningFrom(n.slots, b)].state \in Running
          /\ \A i \in b..(RunningFrom(n.slots, b) - 1) : n.slots[i].state \notin Running
      BY <1>1, RunningFound, Zenon
    <3> QED
      BY <2>1, <3>1, Zenon
<1>3. n.at \in 1..(Len(n.list) + 1)
  BY <1>1, <1>2
<1>4. JoinInv(n)
  <2>1. \A i \in DOMAIN n.slots : n.slots[i].state # "unstarted"
    BY Zenon DEF Polling
  <2> QED
    BY <1>1, <1>2, <1>3, <2>1 DEF JoinInv, Handling
<1>5. WakeInv(n, w)
  <2>1. ASSUME NEW i \in 1..(n.at - 1)
        PROVE  n.slots[i].state # "fresh" /\ (n.slots[i].state = "signalled" => w)
    <3>1. CASE i \in 1..(b - 1)
      BY <3>1, Zenon DEF Polling
    <3>2. CASE i \in b..(n.at - 1)
      BY <3>2, <1>2, Zenon DEF Running
    <3>3. i \in 1..(b - 1) \/ i \in b..(n.at - 1)
      BY <1>1, <1>2
    <3> QED
      BY <3>1, <3>2, <3>3, Zenon
  <2> QED
    BY <1>1, <2>1 DEF WakeInv
<1>6. ReportInv(n)
  BY <1>1 DEF ReportInv, Outside, Looping, Handling
<1>7. CountInv(n)
  <2>1. n.running = Cardinality(Waiting(n))
    BY Zenon DEF Polling
  <2> QED
    BY <1>1, <1>3, <2>1 DEF CountInv
<1>8. EndInv(n) /\ ListInv(n.list)
  BY <1>1 DEF EndInv, Polling
<1> QED
  BY <1>1, <1>4, <1>5, <1>6, <1>7, <1>8, Zenon DEF CallInv

\* A later poll takes up the handler it awaits, or starts over in the join.
LEMMA PollKeeps ==
  ASSUME NEW k \in CallSet, NEW v, NEW w, CallInv(k, v), k.phase = "suspended",
         NEW n, ToPoll(k, n)
  PROVE  n \in CallSet /\ CallInv(n, w)
<1>1. k.slots \in Seq(SlotSet) /\ k.at \in Nat /\ Len(k.slots) \in Nat
      /\ Len(k.slots) = Len(k.list) /\ ListInv(k.list)
  BY CallFields DEF CallInv, CountInv
<1>2. "poll" \in Phases
  BY Zenon DEF Phases
<1>3. CASE k.join
  <2>1. PICK a \in Nat : a = RunningFrom(k.slots, 1)
    <3>1. 1 \in Nat /\ 1 >= 1 /\ 1 <= Len(k.slots) + 1
      BY <1>1
    <3> QED
      BY <1>1, <3>1, RunningFound, Zenon
  <2>2. ToAt(k, n, "poll", a)
    BY <1>3, <2>1 DEF ToAt, ToPoll
  <2>3. /\ n \in CallSet /\ Same(k, n) /\ n.phase = "poll" /\ n.at = a
        /\ n.running = k.running /\ n.handled = k.handled
    <3>1. MovedTo(k, n, "poll", a, k.running, k.handled)
      BY <1>2, <2>2, Moved, Zenon
    <3> QED
      BY <3>1, Zenon DEF MovedTo
  <2>4. n.running = Cardinality(Waiting(n))
    <3>1. Waiting(n) = Waiting(k)
      BY <2>3, Zenon DEF Same, Waiting
    <3> QED
      BY <1>3, <2>3, <3>1 DEF CallInv, CountInv
  <2>5. \A i \in DOMAIN n.slots : n.slots[i].state # "unstarted"
    BY <1>3, <2>3 DEF CallInv, JoinInv, Same
  <2>6. n.handled = <<>>
    BY <1>3, <2>3 DEF CallInv, ReportInv, Looping
  <2>7. 1 \in 1..(Len(n.list) + 1) /\ \A i \in 1..(1 - 1) : FALSE
    BY <1>1, <2>3 DEF Same
  <2>8. /\ ListInv(n.list) /\ Len(n.slots) = Len(n.list) /\ n.join
        /\ n.at = RunningFrom(n.slots, 1)
    BY <1>1, <1>3, <2>1, <2>3, Zenon DEF Same
  <2>9. Polling(n, 1, w)
    BY <2>3, <2>4, <2>5, <2>6, <2>7, <2>8, Zenon DEF Polling
  <2> QED
    BY <2>3, <2>9, PollingKeeps, Zenon
<1>4. CASE ~k.join
  <2>2. ToAt(k, n, "poll", k.at)
    BY <1>4 DEF ToAt, ToPoll
  <2>3. /\ n \in CallSet /\ Same(k, n) /\ n.phase = "poll" /\ n.at = k.at
        /\ n.running = k.running /\ n.handled = k.handled
    <3>1. MovedTo(k, n, "poll", k.at, k.running, k.handled)
      BY <1>1, <1>2, <2>2, Moved, Zenon
    <3> QED
      BY <3>1, Zenon DEF MovedTo
  <2>4. /\ k.at \in 1..Len(k.list)
        /\ \A j \in 1..(k.at - 1) : Finished(k, j)
        /\ \A j \in (k.at + 1)..Len(k.list) : k.slots[j].state = "unstarted"
        /\ k.slots[k.at].state \in Running
    BY <1>4 DEF CallInv, SequentialInv, Looping
  <2>5. SequentialInv(n)
    BY <2>3, <2>4 DEF SequentialInv, Same, Finished
  <2>6. ReportInv(n)
    <3>1. Reported(k, k.at - 1)
      BY <1>4 DEF CallInv, ReportInv, Looping
    <3>2. k.at - 1 \in Nat
      BY <2>4
    <3>3. SamePanics(k, n, k.at - 1)
      BY <2>3, SameSlots, Zenon
    <3>4. Reported(n, k.at - 1)
      BY <2>3, <3>1, <3>2, <3>3, ReportedKept, Zenon
    <3> QED
      BY <1>4, <2>3, <3>4 DEF ReportInv, Same, Outside, Looping, Handling
  <2>7. CountInv(n)
    BY <1>4, <2>3 DEF CallInv, CountInv, Same
  <2>8. EndInv(n) /\ WakeInv(n, w) /\ ~n.join /\ ListInv(n.list)
    BY <1>1, <1>4, <2>3 DEF EndInv, WakeInv, Same
  <2> QED
    BY <2>3, <2>5, <2>6, <2>7, <2>8, Zenon DEF CallInv
<1> QED
  BY <1>3, <1>4, Zenon
\* What becomes of a slot whose handler is called.
Startable == {Is("fresh")} \cup AnyPanic

\* The handler m.at has just been started, or panicked before its future.
Started(m) ==
  /\ m \in CallSet /\ m.phase = "start"
  /\ ListInv(m.list) /\ Len(m.slots) = Len(m.list) /\ m.at \in 1..Len(m.list)
  /\ m.running = 0 /\ m.slots[m.at].state \in {"fresh", "panicked"}
  /\ \A i \in (m.at + 1)..Len(m.list) : m.slots[i].state = "unstarted"
  /\ m.join => /\ m.handled = <<>>
               /\ \A i \in 1..(m.at - 1) : m.slots[i].state \in {"fresh", "panicked"}
  /\ ~m.join => /\ Reported(m, m.at - 1)
                /\ \A i \in 1..(m.at - 1) : Finished(m, i)

\* What holds when the next handler has been called.
LEMMA StartSlot ==
  ASSUME NEW k \in CallSet, NEW v, CallInv(k, v), k.phase = "start",
         NEW s \in Startable, NEW m, ToSlot(k, m, k.at, s)
  PROVE  Started(m) /\ m.slots[m.at].state = s.state
<1>1. s \in SlotSet /\ s.state \in {"fresh", "panicked"}
  <2>1. CASE s = Is("fresh")
    <3>1. "fresh" \in Running \cup {"unstarted", "done"}
      BY Zenon DEF Running
    <3>2. s \in SlotSet
      BY <2>1, <3>1, Zenon DEF SlotSet
    <3> QED
      BY <2>1, <3>2 DEF Is
  <2>2. CASE s \in AnyPanic
    <3>1. s \in SlotSet
      BY <2>2, Zenon DEF SlotSet
    <3> QED
      BY <2>2, <3>1 DEF AnyPanic, Panicked
  <2> QED
    BY <2>1, <2>2, Zenon DEF Startable
<1>2. /\ k.slots \in Seq(SlotSet) /\ Len(k.list) \in Nat /\ DOMAIN k.slots = 1..Len(k.list)
      /\ Len(k.slots) = Len(k.list) /\ k.running = 0 /\ ListInv(k.list) /\ k.join \in BOOLEAN
  BY CallFields DEF CallInv, CountInv
<1>3. /\ k.at \in 1..Len(k.list)
      /\ \A i \in (k.at + 1)..Len(k.list) : k.slots[i].state = "unstarted"
  <2>1. CASE k.join
    BY <2>1, <1>2 DEF CallInv, JoinInv
  <2>2. CASE ~k.join
    BY <2>2 DEF CallInv, SequentialInv, Looping
  <2> QED
    BY <2>1, <2>2, Zenon
<1>4. /\ m \in CallSet /\ m.phase = k.phase /\ m.join = k.join
      /\ m.list = k.list /\ m.at = k.at /\ m.running = k.running
      /\ m.handled = k.handled /\ Len(m.slots) = Len(k.slots) /\ m.slots[k.at] = s
      /\ \A j \in DOMAIN k.slots : j # k.at => m.slots[j] = k.slots[j]
  <2>1. k.at \in DOMAIN k.slots
    BY <1>2, <1>3, Zenon
  <2>9. Slotted(k, m, k.at, s)
    BY <1>1, <2>1, SlotMoved, Zenon
  <2> QED
    BY <2>9, Zenon DEF Slotted
<1>5. \A j \in 1..(k.at - 1) : m.slots[j] = k.slots[j]
  <2>1. \A j \in 1..(k.at - 1) : j \in DOMAIN k.slots /\ j # k.at
    BY <1>2, <1>3
  <2> QED
    BY <2>1, <1>4, Zenon
<1>6. \A i \in (m.at + 1)..Len(m.list) : m.slots[i].state = "unstarted"
  BY <1>2, <1>3, <1>4
<1>7. m.join => /\ m.handled = <<>>
                /\ \A i \in 1..(m.at - 1) : m.slots[i].state \in {"fresh", "panicked"}
  <2> SUFFICES ASSUME k.join
               PROVE  /\ k.handled = <<>>
                      /\ \A i \in 1..(k.at - 1) : m.slots[i].state \in {"fresh", "panicked"}
    BY <1>4, Zenon
  <2>1. k.handled = <<>>
    BY DEF CallInv, ReportInv, Looping
  <2>2. \A i \in 1..(k.at - 1) : k.slots[i].state \in {"fresh", "panicked"}
    BY Zenon DEF CallInv, JoinInv
  <2> QED
    BY <2>1, <2>2, <1>5, Zenon
<1>8. ~m.join => /\ Reported(m, m.at - 1)
                 /\ \A i \in 1..(m.at - 1) : Finished(m, i)
  <2> SUFFICES ASSUME ~k.join
               PROVE  /\ Reported(m, k.at - 1)
                      /\ \A i \in 1..(k.at - 1) : Finished(m, i)
    BY <1>4, Zenon
  <2>1. Reported(k, k.at - 1)
    BY DEF CallInv, ReportInv, Looping
  <2>2. \A i \in 1..(k.at - 1) : Finished(k, i)
    BY DEF CallInv, SequentialInv, Looping
  <2>3. SamePanics(k, m, k.at - 1) /\ \A i \in 1..(k.at - 1) : Finished(m, i)
    BY <2>2, <1>4, <1>5, Zenon DEF SamePanics, Finished
  <2>4. k.at - 1 \in Nat
    BY <1>2, <1>3
  <2> QED
    BY <1>4, <2>1, <2>3, <2>4, ReportedKept, Zenon
<1> QED
  BY <1>1, <1>2, <1>3, <1>4, <1>6, <1>7, <1>8, Zenon DEF Started
\* The join calls the next handler, or has called all and counts them.
LEMMA StartJoinKeeps ==
  ASSUME NEW m, NEW w, Started(m), m.join,
         NEW n, ToJoin(m, n)
  PROVE  n \in CallSet /\ CallInv(n, w)
<1>1. /\ m \in CallSet /\ m.slots \in Seq(SlotSet) /\ Len(m.list) \in Nat
      /\ DOMAIN m.slots = 1..Len(m.list) /\ m.at \in Nat /\ m.phase = "start"
      /\ m.at \in 1..Len(m.list) /\ Len(m.slots) = Len(m.list) /\ ListInv(m.list)
  BY CallFields DEF Started
<1>2. \A i \in 1..m.at : m.slots[i].state \in {"fresh", "panicked"}
  <2>1. \A i \in 1..m.at : i \in 1..(m.at - 1) \/ i = m.at
    BY <1>1
  <2> QED
    BY <2>1, Zenon DEF Started
<1>3. CASE m.at < Len(m.list)
  <2>1. /\ n \in CallSet /\ Same(m, n) /\ n.phase = "start" /\ n.at = m.at + 1
        /\ n.running = 0 /\ n.handled = <<>>
    <3>1. PICK a \in Nat : a = m.at + 1
      BY <1>1
    <3>2. ToNextAt(m, n, a)
      BY <1>3, <3>1 DEF ToNextAt, ToJoin
    <3>3. /\ n \in CallSet /\ Same(m, n) /\ n.phase = m.phase /\ n.at = a
          /\ n.running = m.running /\ n.handled = m.handled
      <4>1. MovedTo(m, n, m.phase, a, m.running, m.handled)
        BY <1>1, <3>2, AtMoved, Zenon
      <4> QED
        BY <4>1, Zenon DEF MovedTo
    <3> QED
      BY <1>1, <3>1, <3>3, Zenon DEF Started
  <2>2. JoinInv(n)
    <3>1. /\ \A i \in 1..(n.at - 1) : i \in 1..m.at
          /\ \A i \in n.at..Len(n.list) : i \in (m.at + 1)..Len(m.list)
          /\ n.at \in 1..Len(n.list)
      BY <1>1, <1>3, <2>1 DEF Same
    <3>2. \A i \in 1..(n.at - 1) : n.slots[i].state \in {"fresh", "panicked"}
      BY <1>2, <2>1, <3>1, Zenon DEF Same
    <3>3. \A i \in n.at..Len(n.list) : n.slots[i].state = "unstarted"
      <4>1. n.slots = m.slots
        BY <2>1, Zenon DEF Same
      <4>2. \A i \in (m.at + 1)..Len(m.list) : m.slots[i].state = "unstarted"
        BY Zenon DEF Started
      <4> QED
        BY <3>1, <4>1, <4>2, Zenon
    <3> QED
      BY <2>1, <3>1, <3>2, <3>3 DEF JoinInv, Handling
  <2>3. CountInv(n)
    BY <1>1, <2>1, <1>3 DEF CountInv, Same
  <2>4. ReportInv(n)
    BY <2>1 DEF ReportInv, Same, Outside, Looping, Handling
  <2>5. EndInv(n) /\ WakeInv(n, w) /\ n.join /\ ListInv(n.list)
    BY <1>1, <2>1 DEF EndInv, WakeInv, Same
  <2> QED
    BY <2>1, <2>2, <2>3, <2>4, <2>5, Zenon DEF CallInv
<1>4. CASE ~(m.at < Len(m.list))
  <2>1. PICK a \in Nat : a = RunningFrom(m.slots, 1)
    <3>1. 1 \in Nat /\ 1 >= 1 /\ 1 <= Len(m.slots) + 1
      BY <1>1
    <3> QED
      BY <1>1, <3>1, RunningFound, Zenon
  <2>2. PICK c \in Nat : c = Cardinality(Waiting(m))
    <3>1. Cardinality(Waiting(m)) \in Nat
      BY <1>1, WaitingFinite
    <3> QED
      BY <3>1, Zenon
  <2>3. ToCount(m, n, "poll", a, c)
    BY <1>4, <2>1, <2>2, Zenon DEF Joined, ToCount, ToJoin, Waiting
  <2>4. "poll" \in Phases
    BY Zenon DEF Phases
  <2>5. /\ n \in CallSet /\ Same(m, n) /\ n.phase = "poll" /\ n.at = a
        /\ n.running = c /\ n.handled = m.handled
    <3>1. MovedTo(m, n, "poll", a, c, m.handled)
      BY <1>1, <2>3, <2>4, CountMoved, Zenon
    <3> QED
      BY <3>1, Zenon DEF MovedTo
  <2>6. n.running = Cardinality(Waiting(n)) /\ n.at = RunningFrom(n.slots, 1)
    BY <2>1, <2>2, <2>5, Zenon DEF Same, Waiting
  <2>7. \A i \in DOMAIN n.slots : n.slots[i].state # "unstarted"
    <3>1. m.at = Len(m.list)
      BY <1>1, <1>4
    <3> QED
      BY <1>1, <1>2, <2>5, <3>1, Zenon DEF Same
  <2>8. 1 \in 1..(Len(n.list) + 1) /\ \A i \in 1..(1 - 1) : FALSE
    BY <1>1, <2>5 DEF Same
  <2>9. /\ ListInv(n.list) /\ Len(n.slots) = Len(n.list) /\ n.join /\ n.handled = <<>>
    BY <1>1, <2>5, Zenon DEF Same, Started
  <2>10. Polling(n, 1, w)
    BY <2>5, <2>6, <2>7, <2>8, <2>9, Zenon DEF Polling
  <2> QED
    BY <2>5, <2>10, PollingKeeps, Zenon
<1> QED
  BY <1>3, <1>4, Zenon

\* A handler that is awaited alone has panicked, or will be polled.
LEMMA StartAloneKeeps ==
  ASSUME NEW m, NEW w, Started(m), ~m.join,
         NEW n, ToAwait(m, n)
  PROVE  n \in CallSet /\ CallInv(n, w)
<1>1. /\ m \in CallSet /\ Len(m.list) \in Nat /\ DOMAIN m.slots = 1..Len(m.list)
      /\ m.at \in Nat /\ m.at \in 1..Len(m.list)
      /\ Len(m.slots) = Len(m.list) /\ ListInv(m.list)
  BY CallFields DEF Started
<1>2. CASE m.slots[m.at].state = "panicked"
  <2>1. Panicking(m)
    BY <1>2, Zenon DEF Started, Panicking
  <2>2. n = HandlePanic(m)
    BY <1>2, Zenon DEF ToAwait
  <2> QED
    BY <1>1, <2>1, <2>2, HandlePanicKeeps, Zenon
<1>3. CASE m.slots[m.at].state # "panicked"
  <2>1. /\ n \in CallSet /\ Same(m, n) /\ n.phase = "poll" /\ n.at = m.at
        /\ n.running = m.running /\ n.handled = m.handled
    <3>1. "poll" \in Phases
      BY Zenon DEF Phases
    <3>2. ToPhase(m, n, "poll")
      BY <1>3, Zenon DEF ToPhase, ToAwait
    <3>9. MovedTo(m, n, "poll", m.at, m.running, m.handled)
      BY <1>1, <3>1, <3>2, PhaseMoved, Zenon
    <3> QED
      BY <3>9, Zenon DEF MovedTo
  <2>2. m.slots[m.at].state \in Running
    BY <1>3, Zenon DEF Started, Running
  <2>3. SequentialInv(n)
    BY <1>1, <2>1, <2>2 DEF SequentialInv, Started, Same, Finished
  <2>4. ReportInv(n)
    <3>1. Reported(m, m.at - 1)
      BY Zenon DEF Started
    <3>2. m.at - 1 \in Nat
      BY <1>1
    <3>3. SamePanics(m, n, m.at - 1)
      BY <2>1, SameSlots, Zenon
    <3>4. Reported(n, m.at - 1)
      BY <2>1, <3>1, <3>2, <3>3, ReportedKept, Zenon
    <3> QED
      BY <2>1, <3>4 DEF ReportInv, Same, Outside, Looping, Handling
  <2>5. CountInv(n)
    BY <1>1, <2>1 DEF CountInv, Started, Same
  <2>6. EndInv(n) /\ WakeInv(n, w) /\ ~n.join /\ ListInv(n.list)
    BY <1>1, <2>1 DEF EndInv, WakeInv, Same
  <2> QED
    BY <2>1, <2>3, <2>4, <2>5, <2>6, Zenon DEF CallInv
<1> QED
  BY <1>2, <1>3, Zenon
\* A future that is polled is left parked, finished or panicked.
LEMMA PolledSlot ==
  ASSUME NEW q \in SlotSet, q.state \in Running, NEW s \in Polled(q)
  PROVE  s \in SlotSet /\ s.state \in {"parked", "done", "panicked"}
<1>1. \A z \in AnyPanic : z \in SlotSet /\ z.state = "panicked"
  BY DEF SlotSet, AnyPanic, Panicked
<1>2. /\ Is("parked") \in SlotSet /\ Is("parked").state = "parked"
      /\ Is("done") \in SlotSet /\ Is("done").state = "done"
  <2>1. {"parked", "done"} \subseteq Running \cup {"unstarted", "done"}
    BY Zenon DEF Running
  <2>2. Is("parked") \in SlotSet /\ Is("done") \in SlotSet
    BY <2>1, Zenon DEF SlotSet
  <2> QED
    BY <2>2 DEF Is
<1>3. CASE q.state = "parked"
  <2>1. s = q
    BY <1>3 DEF Polled
  <2> QED
    BY <1>3, <2>1, Zenon
<1>4. CASE q.state # "parked"
  <2>1. s \in {Is("parked"), Is("done")} \cup AnyPanic
    BY <1>4 DEF Polled, Running
  <2> QED
    BY <1>1, <1>2, <2>1, Zenon
<1> QED
  BY <1>3, <1>4, Zenon

\* The states of a slot.
LEMMA SlotStates ==
  ASSUME NEW s \in SlotSet
  PROVE  s.state \in Running \cup {"unstarted", "done", "panicked"}
BY DEF SlotSet, AnyPanic, Panicked, Is, Running

\* The future k.at has been polled.
Advanced(k, m) ==
  /\ m \in CallSet /\ m.phase = "poll" /\ k.phase = "poll"
  /\ m.join = k.join /\ m.list = k.list
  /\ m.at = k.at /\ m.running = k.running /\ m.handled = k.handled
  /\ ListInv(m.list) /\ Len(m.list) \in Nat /\ Len(m.slots) = Len(m.list)
  /\ m.at \in 1..Len(m.list)
  /\ DOMAIN m.slots = 1..Len(m.list) /\ DOMAIN k.slots = 1..Len(m.list)
  /\ m.slots[m.at].state \in {"parked", "done", "panicked"}
  /\ k.slots[m.at].state \in Running
  /\ \A j \in 1..Len(m.list) : j # m.at => m.slots[j] = k.slots[j]
  /\ Cardinality(Waiting(m)) = IF m.slots[m.at].state \in Running
                               THEN Cardinality(Waiting(k))
                               ELSE Cardinality(Waiting(k)) - 1

\* What holds when a future has been polled.
LEMMA AdvanceSlot ==
  ASSUME NEW k \in CallSet, NEW v, CallInv(k, v), k.phase = "poll",
         k.at <= Len(k.slots), NEW s \in Polled(k.slots[k.at]),
         NEW m, ToSlot(k, m, k.at, s)
  PROVE  Advanced(k, m) /\ m.slots[m.at] = s
<1>1. /\ k.slots \in Seq(SlotSet) /\ Len(k.list) \in Nat /\ DOMAIN k.slots = 1..Len(k.list)
      /\ Len(k.slots) = Len(k.list) /\ ListInv(k.list) /\ k.join \in BOOLEAN
  BY CallFields DEF CallInv, CountInv
<1>2. k.at \in 1..Len(k.list) /\ k.slots[k.at].state \in Running
  <2>1. CASE k.join
    BY <1>1, <2>1 DEF CallInv, JoinInv
  <2>2. CASE ~k.join
    BY <2>2 DEF CallInv, SequentialInv, Looping
  <2> QED
    BY <2>1, <2>2, Zenon
<1>3. k.at \in DOMAIN k.slots /\ k.slots[k.at] \in SlotSet
  BY <1>1, <1>2
<1>4. s \in SlotSet /\ s.state \in {"parked", "done", "panicked"}
  BY <1>2, <1>3, PolledSlot, Zenon
<1>5. Slotted(k, m, k.at, s)
  BY <1>3, <1>4, SlotMoved, Zenon
<1>6. /\ m \in CallSet /\ m.phase = k.phase /\ m.join = k.join
      /\ m.list = k.list /\ m.at = k.at /\ m.running = k.running
      /\ m.handled = k.handled /\ m.slots = [k.slots EXCEPT ![k.at] = s]
      /\ Len(m.slots) = Len(k.slots) /\ m.slots[k.at] = s
      /\ \A j \in DOMAIN k.slots : j # k.at => m.slots[j] = k.slots[j]
  BY <1>5, Zenon DEF Slotted
<1>7. DOMAIN m.slots = 1..Len(k.list)
  BY <1>1, <1>6, CallFields
<1>8. Cardinality(Waiting(m)) = IF s.state \in Running THEN Cardinality(Waiting(k))
                                ELSE Cardinality(Waiting(k)) - 1
  BY <1>2, <1>3, <1>4, <1>5, WaitingMoves, Zenon
<1> QED
  BY <1>1, <1>2, <1>4, <1>6, <1>7, <1>8, Zenon DEF Advanced

\* The join goes on to the next running slot.
LEMMA JoinPollKeeps ==
  ASSUME NEW k \in CallSet, NEW w, CallInv(k, w), NEW m, Advanced(k, m), m.join,
         NEW n, ToJoinPoll(k, m, n)
  PROVE  n \in CallSet /\ CallInv(n, w)
<1>1. /\ m \in CallSet /\ m.slots \in Seq(SlotSet) /\ m.at \in Nat /\ m.at = k.at
      /\ m.phase = "poll" /\ Len(m.list) \in Nat /\ Len(m.slots) = Len(m.list)
      /\ m.at \in 1..Len(m.list) /\ DOMAIN m.slots = 1..Len(m.list)
  BY CallFields, Zenon DEF Advanced
<1>2. m.at + 1 \in Nat /\ m.at + 1 >= 1 /\ m.at + 1 <= Len(m.slots) + 1
  BY <1>1
<1>3. PICK a \in Nat : a = RunningFrom(m.slots, m.at + 1)
  BY <1>1, <1>2, RunningFound, Zenon
<1>4. PICK c \in Nat : c = Cardinality(Waiting(m))
  <2>1. Cardinality(Waiting(m)) \in Nat
    BY <1>1, WaitingFinite
  <2> QED
    BY <2>1, Zenon
<1>5. k.phase = "poll" /\ k.join /\ k.running = Cardinality(Waiting(k))
  <2>1. k.phase = "poll" /\ k.join
    BY Zenon DEF Advanced
  <2> QED
    BY <2>1 DEF CallInv, CountInv
<1>6. c = IF m.slots[k.at].state \in Running THEN m.running ELSE m.running - 1
  BY <1>1, <1>4, <1>5, Zenon DEF Advanced
<1>7. ToNextCount(m, n, a, c)
  BY <1>1, <1>3, <1>6, Zenon DEF ToNextCount, ToJoinPoll
<1>8. MovedTo(m, n, m.phase, a, c, m.handled)
  BY <1>1, <1>7, NextCountMoved, Zenon
<1>9. /\ n \in CallSet /\ Same(m, n) /\ n.phase = "poll" /\ n.at = a
      /\ n.running = c /\ n.handled = m.handled
  BY <1>1, <1>8, Zenon DEF MovedTo
<1>10. ASSUME NEW i \in 1..m.at
       PROVE  n.slots[i].state # "fresh" /\ (n.slots[i].state = "signalled" => w)
  <2>1. CASE i = m.at
    <3>1. n.slots[i].state \in {"parked", "done", "panicked"}
      BY <1>9, <2>1, Zenon DEF Advanced, Same
    <3> QED
      BY <3>1
  <2>2. CASE i # m.at
    <3>1. i \in 1..(k.at - 1) /\ i \in 1..Len(m.list)
      BY <1>1, <2>2
    <3>2. n.slots[i] = k.slots[i]
      BY <1>9, <2>2, <3>1, Zenon DEF Advanced, Same
    <3> QED
      BY <1>5, <3>1, <3>2, Zenon DEF CallInv, WakeInv
  <2> QED
    BY <2>1, <2>2, Zenon
<1>11. \A i \in DOMAIN n.slots : n.slots[i].state # "unstarted"
  <2> SUFFICES ASSUME NEW i \in DOMAIN m.slots PROVE m.slots[i].state # "unstarted"
    BY <1>9, Zenon DEF Same
  <2>1. CASE i = m.at
    <3>1. m.slots[i].state \in {"parked", "done", "panicked"}
      BY <2>1, Zenon DEF Advanced
    <3> QED
      BY <3>1
  <2>2. CASE i # m.at
    <3>1. m.slots[i] = k.slots[i] /\ i \in DOMAIN k.slots
      BY <2>2, Zenon DEF Advanced
    <3> QED
      BY <1>5, <3>1, Zenon DEF CallInv, JoinInv
  <2> QED
    BY <2>1, <2>2, Zenon
<1>12. n.handled = <<>>
  <2>1. k.handled = <<>>
    BY <1>5 DEF CallInv, ReportInv, Looping
  <2> QED
    BY <1>9, <2>1, Zenon DEF Advanced
<1>13. \A i \in 1..((m.at + 1) - 1) : i \in 1..m.at
  BY <1>1
<1>14. m.at + 1 \in 1..(Len(n.list) + 1)
  BY <1>1, <1>9 DEF Same
<1>15. /\ ListInv(n.list) /\ Len(n.slots) = Len(n.list) /\ n.join
       /\ n.at = RunningFrom(n.slots, m.at + 1) /\ n.running = Cardinality(Waiting(n))
  BY <1>3, <1>4, <1>9, Zenon DEF Same, Advanced, Waiting
<1>16. Polling(n, m.at + 1, w)
  BY <1>9, <1>10, <1>11, <1>12, <1>13, <1>14, <1>15, Zenon DEF Polling
<1> QED
  BY <1>9, <1>16, PollingKeeps, Zenon
\* The handler that is awaited alone stays pending, panics or is done.
LEMMA AlonePollKeeps ==
  ASSUME NEW k \in CallSet, NEW w, CallInv(k, w), NEW m, Advanced(k, m), ~m.join,
         NEW n, ToAlonePoll(m, n)
  PROVE  n \in CallSet /\ CallInv(n, w)
<1>1. /\ m \in CallSet /\ m.at \in Nat /\ m.at = k.at /\ m.list = k.list
      /\ Len(m.list) \in Nat /\ Len(m.slots) = Len(m.list) /\ ListInv(m.list)
      /\ m.at \in 1..Len(m.list) /\ DOMAIN m.slots = 1..Len(m.list)
      /\ m.handled = k.handled
  BY CallFields, Zenon DEF Advanced
<1>2. k.phase = "poll" /\ ~k.join /\ k.phase \in Looping
  <2>1. k.phase = "poll" /\ ~k.join
    BY Zenon DEF Advanced
  <2> QED
    BY <2>1, Zenon DEF Looping
<1>3. m.running = 0
  <2>1. k.running = 0
    BY <1>2 DEF CallInv, CountInv
  <2> QED
    BY <2>1, Zenon DEF Advanced
<1>4. /\ \A i \in 1..(m.at - 1) : m.slots[i] = k.slots[i]
      /\ \A i \in (m.at + 1)..Len(m.list) : m.slots[i] = k.slots[i]
  <2>1. /\ \A i \in 1..(m.at - 1) : i \in 1..Len(m.list) /\ i # m.at
        /\ \A i \in (m.at + 1)..Len(m.list) : i \in 1..Len(m.list) /\ i # m.at
    BY <1>1
  <2> QED
    BY <2>1, Zenon DEF Advanced
<1>5. /\ \A i \in 1..(m.at - 1) : Finished(m, i)
      /\ \A i \in (m.at + 1)..Len(m.list) : m.slots[i].state = "unstarted"
  <2>1. /\ \A i \in 1..(k.at - 1) : Finished(k, i)
        /\ \A i \in (k.at + 1)..Len(k.list) : k.slots[i].state = "unstarted"
    BY <1>2, Zenon DEF CallInv, SequentialInv
  <2> QED
    BY <1>1, <1>4, <2>1, Zenon DEF Finished
<1>6. m.at - 1 \in Nat
  BY <1>1
<1>7. Reported(m, m.at - 1)
  <2>1. Reported(k, k.at - 1)
    BY <1>2, Zenon DEF CallInv, ReportInv
  <2>2. SamePanics(k, m, m.at - 1)
    BY <1>1, <1>4, Zenon DEF SamePanics
  <2> QED
    BY <1>1, <1>6, <2>1, <2>2, ReportedKept, Zenon
<1>8. m.slots[m.at].state \in {"parked", "done", "panicked"}
  BY Zenon DEF Advanced
<1>9. CASE m.slots[m.at].state = "panicked"
  <2>1. n = HandlePanic(m)
    BY <1>9 DEF ToAlonePoll
  <2>2. Panicking(m)
    BY <1>1, <1>3, <1>5, <1>7, <1>9, Zenon DEF Panicking
  <2> QED
    BY <1>1, <2>1, <2>2, HandlePanicKeeps, Zenon
<1>10. CASE m.slots[m.at].state = "done"
  <2>1. n = NextEntry(m)
    BY <1>10 DEF ToAlonePoll
  <2>2. Reported(m, m.at)
    <3>1. \A i \in ((m.at - 1) + 1)..m.at : i = m.at
      BY <1>1
    <3>2. \A i \in ((m.at - 1) + 1)..m.at : m.slots[i].state # "panicked"
      BY <1>10, <3>1
    <3>3. m.at - 1 <= m.at
      BY <1>1
    <3> QED
      BY <1>1, <1>6, <1>7, <3>2, <3>3, ReportedSkip, Zenon
  <2>3. \A i \in 1..m.at : Finished(m, i)
    <3>1. \A i \in 1..m.at : i \in 1..(m.at - 1) \/ i = m.at
      BY <1>1
    <3> QED
      BY <1>5, <1>10, <3>1, Zenon DEF Finished
  <2>4. Passed(m)
    BY <1>1, <1>3, <1>5, <2>2, <2>3, Zenon DEF Passed
  <2> QED
    BY <1>1, <2>1, <2>4, NextEntryKeeps, Zenon
<1>11. CASE m.slots[m.at].state = "parked"
  <2>1. ToPhase(m, n, "suspended")
    BY <1>11, Zenon DEF ToAlonePoll, ToPhase
  <2>2. "suspended" \in Phases
    BY Zenon DEF Phases
  <2>3. MovedTo(m, n, "suspended", m.at, m.running, m.handled)
    BY <1>1, <2>1, <2>2, PhaseMoved, Zenon
  <2>4. /\ n \in CallSet /\ Same(m, n) /\ n.phase = "suspended" /\ n.at = m.at
        /\ n.running = m.running /\ n.handled = m.handled
    BY <2>3, Zenon DEF MovedTo
  <2>5. SequentialInv(n)
    <3>1. n.slots[n.at].state \in Running
      BY <1>11, <2>4, Zenon DEF Same, Running
    <3> QED
      BY <1>1, <1>5, <2>4, <3>1 DEF SequentialInv, Same, Finished
  <2>6. ReportInv(n)
    <3>1. SamePanics(m, n, m.at - 1)
      BY <2>4, SameSlots, Zenon
    <3>2. Reported(n, m.at - 1)
      BY <1>6, <1>7, <2>4, <3>1, ReportedKept, Zenon
    <3> QED
      BY <2>4, <3>2 DEF ReportInv, Same, Outside, Looping, Handling
  <2>7. WakeInv(n, w)
    <3>1. ASSUME NEW i \in DOMAIN m.slots
          PROVE  m.slots[i].state \notin {"fresh", "signalled"}
      <4>1. \/ i \in 1..(m.at - 1) \/ i = m.at \/ i \in (m.at + 1)..Len(m.list)
        BY <1>1
      <4> QED
        BY <1>5, <1>11, <4>1 DEF Finished
    <3>2. \A i \in DOMAIN n.slots : n.slots[i].state \notin {"fresh", "signalled"}
      BY <2>4, <3>1, Zenon DEF Same
    <3> QED
      BY <2>4, <3>2 DEF WakeInv
  <2>8. CountInv(n)
    BY <1>1, <1>3, <2>4 DEF CountInv, Same
  <2>9. EndInv(n) /\ ~n.join /\ ListInv(n.list)
    BY <1>1, <2>4 DEF EndInv, Same
  <2> QED
    BY <2>4, <2>5, <2>6, <2>7, <2>8, <2>9, Zenon DEF CallInv
<1> QED
  BY <1>8, <1>9, <1>10, <1>11, Zenon

\* A pass of the join over its slots ends: all have finished, or the call
\* is suspended with every future that runs parked, or woken.
LEMMA PollEndKeeps ==
  ASSUME NEW k \in CallSet, NEW w, CallInv(k, w), k.phase = "poll",
         k.at > Len(k.slots), NEW n, ToEnd(k, n)
  PROVE  n \in CallSet /\ CallInv(n, w)
<1>1. /\ k.slots \in Seq(SlotSet) /\ Len(k.list) \in Nat /\ DOMAIN k.slots = 1..Len(k.list)
      /\ Len(k.slots) = Len(k.list) /\ ListInv(k.list) /\ k.join \in BOOLEAN
      /\ k.at \in 0..(Len(k.list) + 1)
  BY CallFields DEF CallInv, CountInv
<1>2. k.join /\ k.at = Len(k.list) + 1
  <2>1. ASSUME ~k.join PROVE FALSE
    <3>1. k.at \in 1..Len(k.list)
      BY <2>1 DEF CallInv, SequentialInv, Looping
    <3> QED
      BY <1>1, <3>1
  <2> QED
    BY <1>1, <2>1
<1>3. /\ k.running = Cardinality(Waiting(k)) /\ k.handled = <<>>
      /\ \A i \in DOMAIN k.slots : k.slots[i].state # "unstarted"
  BY <1>2 DEF CallInv, CountInv, ReportInv, JoinInv, Looping
<1>4. CASE k.running = 0
  <2>1. ToAt(k, n, "report", 1)
    BY <1>4, Zenon DEF ToEnd, ToAt
  <2>2. "report" \in Phases /\ 1 \in Nat
    BY DEF Phases
  <2>3. MovedTo(k, n, "report", 1, k.running, k.handled)
    BY <2>1, <2>2, Moved, Zenon
  <2>4. /\ n \in CallSet /\ Same(k, n) /\ n.phase = "report" /\ n.at = 1
        /\ n.running = k.running /\ n.handled = k.handled
    BY <2>3, Zenon DEF MovedTo
  <2>5. \A i \in DOMAIN n.slots : Finished(n, i)
    <3>1. Waiting(k) = {}
      BY <1>3, <1>4, WaitingFinite, Zenon
    <3>2. ASSUME NEW i \in DOMAIN k.slots
          PROVE  k.slots[i].state \in {"done", "panicked"}
      <4>1. k.slots[i] \in SlotSet
        BY <1>1
      <4>2. k.slots[i].state \in Running \cup {"unstarted", "done", "panicked"}
        BY <4>1, SlotStates, Zenon
      <4>3. k.slots[i].state \notin Running
        BY <3>1, Zenon DEF Waiting
      <4> QED
        BY <1>3, <4>2, <4>3, Zenon
    <3> QED
      BY <2>4, <3>2, Zenon DEF Same, Finished
  <2>6. JoinInv(n)
    <3>1. n.at \in 1..(Len(n.list) + 1)
      BY <1>1, <2>4 DEF Same
    <3> QED
      BY <2>4, <2>5, <3>1 DEF JoinInv, Handling
  <2>7. ReportInv(n)
    <3>1. Reported(n, 0)
      BY <1>3, <2>4, ReportedNone, Zenon
    <3>2. n.at - 1 = 0
      BY <2>4
    <3> QED
      BY <2>4, <3>1, <3>2 DEF ReportInv, Outside, Looping, Handling
  <2>8. CountInv(n)
    BY <1>1, <1>4, <2>4 DEF CountInv, Same
  <2>9. EndInv(n) /\ WakeInv(n, w) /\ n.join /\ ListInv(n.list)
    BY <1>1, <1>2, <2>4 DEF EndInv, WakeInv, Same
  <2> QED
    BY <2>4, <2>6, <2>7, <2>8, <2>9, Zenon DEF CallInv
<1>5. CASE k.running # 0
  <2>1. ToPhase(k, n, "suspended")
    BY <1>5, Zenon DEF ToEnd, ToPhase
  <2>2. "suspended" \in Phases
    BY Zenon DEF Phases
  <2>3. MovedTo(k, n, "suspended", k.at, k.running, k.handled)
    BY <2>1, <2>2, PhaseMoved, Zenon
  <2>4. /\ n \in CallSet /\ Same(k, n) /\ n.phase = "suspended" /\ n.at = k.at
        /\ n.running = k.running /\ n.handled = k.handled
    BY <2>3, Zenon DEF MovedTo
  <2>5. JoinInv(n)
    <3>1. n.at \in 1..(Len(n.list) + 1)
      BY <1>1, <1>2, <2>4 DEF Same
    <3>2. \A i \in DOMAIN n.slots : n.slots[i].state # "unstarted"
      BY <1>3, <2>4, Zenon DEF Same
    <3> QED
      BY <2>4, <3>1, <3>2 DEF JoinInv, Handling
  <2>6. WakeInv(n, w)
    <3>1. \A i \in DOMAIN k.slots : i \in 1..(k.at - 1)
      BY <1>1, <1>2
    <3>2. \A i \in DOMAIN n.slots :
            n.slots[i].state # "fresh" /\ (n.slots[i].state = "signalled" => w)
      BY <1>2, <2>4, <3>1, Zenon DEF CallInv, WakeInv, Same
    <3> QED
      BY <2>4, <3>2 DEF WakeInv
  <2>7. ReportInv(n)
    BY <1>2, <1>3, <2>4 DEF ReportInv, Same, Outside, Looping, Handling
  <2>8. CountInv(n)
    <3>1. Waiting(n) = Waiting(k)
      BY <2>4, Zenon DEF Same, Waiting
    <3> QED
      BY <1>1, <1>2, <1>3, <2>4, <3>1 DEF CountInv, Same
  <2>9. EndInv(n) /\ n.join /\ ListInv(n.list)
    BY <1>1, <1>2, <2>4 DEF EndInv, Same
  <2> QED
    BY <2>4, <2>5, <2>6, <2>7, <2>8, <2>9, Zenon DEF CallInv
<1> QED
  BY <1>4, <1>5, Zenon
\* The join reports the next panic in list order, or is over.
LEMMA ReportKeeps ==
  ASSUME NEW k \in CallSet, NEW w, CallInv(k, w), k.phase = "report",
         NEW n, ToReports(k, n)
  PROVE  n \in CallSet /\ CallInv(n, w)
<1>1. /\ k.slots \in Seq(SlotSet) /\ Len(k.list) \in Nat /\ DOMAIN k.slots = 1..Len(k.list)
      /\ Len(k.slots) = Len(k.list) /\ ListInv(k.list) /\ k.running = 0
      /\ k.join /\ k.at \in Nat
  BY CallFields DEF CallInv, CountInv, EndInv
<1>2. /\ k.at \in 1..(Len(k.list) + 1) /\ Reported(k, k.at - 1)
      /\ \A i \in DOMAIN k.slots : Finished(k, i)
  BY <1>1, Zenon DEF CallInv, JoinInv, ReportInv
<1>3. k.at - 1 \in Nat /\ k.at - 1 <= Len(k.list) /\ (k.at - 1) + 1 = k.at
  BY <1>1, <1>2
<1>4. CASE Unreported(k) = {}
  <2>1. ToPhase(k, n, "ready")
    BY <1>4, Zenon DEF ToReports, ToPhase
  <2>2. "ready" \in Phases
    BY Zenon DEF Phases
  <2>3. MovedTo(k, n, "ready", k.at, k.running, k.handled)
    BY <2>1, <2>2, PhaseMoved, Zenon
  <2>4. /\ n \in CallSet /\ Same(k, n) /\ n.phase = "ready" /\ n.at = k.at
        /\ n.running = k.running /\ n.handled = k.handled
    BY <2>3, Zenon DEF MovedTo
  <2>5. Reported(k, Len(k.list))
    <3>1. \A i \in ((k.at - 1) + 1)..Len(k.list) : k.slots[i].state # "panicked"
      BY <1>1, <1>3, <1>4, Zenon DEF Unreported
    <3> QED
      BY <1>1, <1>2, <1>3, <3>1, ReportedSkip, Zenon
  <2>6. ReportInv(n)
    <3>1. SamePanics(k, n, Len(k.list))
      BY <2>4, SameSlots, Zenon
    <3>2. Reported(n, Len(k.list))
      BY <1>1, <2>4, <2>5, <3>1, ReportedKept, Zenon
    <3> QED
      BY <2>4, <3>2 DEF ReportInv, Same, Outside, Looping, Handling
  <2>7. JoinInv(n)
    BY <2>4 DEF JoinInv, Handling
  <2>8. CountInv(n)
    BY <1>1, <1>2, <2>4 DEF CountInv, Same
  <2>9. EndInv(n) /\ WakeInv(n, w) /\ n.join /\ ListInv(n.list)
    <3>1. \A i \in DOMAIN n.slots : Finished(n, i)
      BY <1>2, <2>4, Zenon DEF Same, Finished
    <3> QED
      BY <1>1, <2>4, <3>1 DEF EndInv, WakeInv, Same
  <2> QED
    BY <2>4, <2>6, <2>7, <2>8, <2>9, Zenon DEF CallInv
<1>5. CASE Unreported(k) # {}
  <2>1. Unreported(k) \subseteq Nat
    BY <1>1 DEF Unreported
  <2>2. PICK a \in Unreported(k) : \A y \in Unreported(k) : a <= y
    BY <1>5, <2>1, Least, Zenon
  <2>3. \A x \in Unreported(k) : (\A y \in Unreported(k) : x <= y) => x = a
    BY <2>1, <2>2
  <2>4. Min(Unreported(k)) = a
    BY <2>2, <2>3, Zenon DEF Min
  <2>5. a \in Nat /\ a \in k.at..Len(k.list) /\ k.slots[a].state = "panicked"
    BY <1>1, <2>1, <2>2, Zenon DEF Unreported
  <2>6. PICK m : ToNextAt(k, m, a)
    BY Zenon DEF ToNextAt
  <2>7. n = HandlePanic(m)
    BY <1>5, <2>4, <2>6, Zenon DEF ToReports, ToNextAt
  <2>8. MovedTo(k, m, k.phase, a, k.running, k.handled)
    BY <2>5, <2>6, AtMoved, Zenon
  <2>9. /\ m \in CallSet /\ Same(k, m) /\ m.at = a
        /\ m.running = k.running /\ m.handled = k.handled
    BY <2>8, Zenon DEF MovedTo
  <2>10. a - 1 \in Nat /\ k.at - 1 <= a - 1 /\ a \in 1..Len(k.list)
    BY <1>1, <1>2, <2>5
  <2>11. ASSUME NEW i \in ((k.at - 1) + 1)..(a - 1) PROVE k.slots[i].state # "panicked"
    <3>1. i \in k.at..Len(k.slots) /\ ~(a <= i)
      BY <1>1, <1>2, <2>5
    <3> QED
      BY <2>2, <3>1, Zenon DEF Unreported
  <2>12. Reported(k, a - 1)
    BY <1>2, <1>3, <2>10, <2>11, ReportedSkip, Zenon
  <2>13. Reported(m, a - 1)
    <3>1. SamePanics(k, m, a - 1)
      BY <2>9, SameSlots, Zenon
    <3> QED
      BY <2>9, <2>10, <2>12, <3>1, ReportedKept, Zenon
  <2>14. \A i \in DOMAIN m.slots : Finished(m, i)
    BY <1>2, <2>9, Zenon DEF Same, Finished
  <2>15. \A i \in 1..(a - 1) : i \in DOMAIN m.slots
    BY <1>1, <2>9, <2>10 DEF Same
  <2>16. Panicking(m)
    BY <1>1, <2>5, <2>9, <2>10, <2>13, <2>14, <2>15, Zenon DEF Panicking, Same
  <2> QED
    BY <2>7, <2>9, <2>16, HandlePanicKeeps, Zenon
<1> QED
  BY <1>4, <1>5, Zenon

-----------------------------------------------------------------------------
(* The steps of the registry *)

AllCalls == \A c \in Call : CallInv(call[c], c \in woken)

\* A step that changes one call keeps what holds of each.
LEMMA OneCall ==
  ASSUME Types, AllCalls, NEW c \in Call, NEW n, Goes(c, n),
         n \in CallSet, CallInv(n, c \in woken'),
         woken' \in {woken, woken \cup {c}, woken \ {c}}
  PROVE  /\ call' \in [Call -> CallSet] /\ woken' \subseteq Call /\ AllCalls'
         /\ call'[c] = n /\ \A d \in Call : d # c => call'[d] = call[d]
<1>1. /\ call \in [Call -> CallSet] /\ woken \subseteq Call
      /\ call' = [call EXCEPT ![c] = n]
  BY Zenon DEF Types, Goes
<1>2. call'[c] = n /\ \A d \in Call : d # c => call'[d] = call[d]
  BY <1>1
<1>3. call' \in [Call -> CallSet]
  BY <1>1
<1>4. woken' \subseteq Call /\ \A d \in Call : d # c => (d \in woken' <=> d \in woken)
  BY <1>1, Zenon
<1>5. ASSUME NEW d \in Call PROVE CallInv(call'[d], d \in woken')
  <2>1. CASE d = c
    BY <1>2, <2>1, Zenon
  <2>2. CASE d # c
    <3>1. CallInv(call[d], d \in woken)
      BY Zenon DEF AllCalls
    <3>2. WakeInv(call[d], d \in woken')
      BY <1>4, <2>2, <3>1, Zenon DEF CallInv, WakeInv
    <3>3. CallInv(call[d], d \in woken')
      BY <3>1, <3>2, Zenon DEF CallInv
    <3> QED
      BY <1>2, <2>2, <3>3, Zenon
  <2> QED
    BY <2>1, <2>2, Zenon
<1> QED
  BY <1>2, <1>3, <1>4, <1>5, Zenon DEF AllCalls
\* Call c goes on, and the others do not move.
CallKept(c) ==
  \E n \in CallSet :
    /\ Goes(c, n) /\ CallInv(n, c \in woken')
    /\ woken' \in {woken, woken \cup {c}, woken \ {c}}

\* Neither call c nor anyone else touches the lock.
Quiet(c) ==
  /\ UNCHANGED lockVars
  /\ call[c].phase # "clone" /\ call'[c].phase # "clone"
  /\ call[c].phase = "callback" => writer # c

\* The record that a call goes on with is the one that it has.
LEMMA GoesTo ==
  ASSUME Types, NEW c \in Call, NEW n, Goes(c, n)
  PROVE  call[c] \in CallSet /\ call'[c] = n
BY DEF Types, Goes

\* The phases in which the steps leave a call.
LEMMA PhasesAfter ==
  ASSUME NEW k \in CallSet
  PROVE  /\ NextEntry(k).phase \in {"start", "ready"} /\ HandlePanic(k).phase = "fetch"
         /\ Joined(k).phase = "poll"
<1>1. NextEntry(k).phase \in {"start", "ready"}
  BY DEF NextEntry, CallSet
<1>2. HandlePanic(k).phase = "fetch"
  BY DEF HandlePanic, CallSet
<1>3. Joined(k).phase = "poll"
  BY DEF Joined, CallSet
<1> QED
  BY <1>1, <1>2, <1>3, Zenon

\* A future is created, dropped, or left by an unwinding.
LEMMA BlankStep ==
  ASSUME Types, AllCalls, NEW c \in Call, Notify(c) \/ Drop(c) \/ Unwind(c)
  PROVE  CallKept(c) /\ Quiet(c)
<1>1. PICK n : /\ Goes(c, n) /\ n \in CallSet /\ Blank(n) /\ n.phase # "clone"
               /\ woken' \in {woken, woken \cup {c}, woken \ {c}}
  <2>1. NoCall \in CallSet /\ Blank(NoCall) /\ NoCall.phase = "none"
    <3>1. NoCall \in CallSet
      BY DEF NoCall, CallSet, Phases
    <3>2. NoCall.phase = "none" /\ "none" \in Outside
      BY DEF NoCall, Outside
    <3> QED
      BY <3>1, <3>2 DEF NoCall, Blank
  <2>2. CASE Notify(c)
    <3>1. PICK j \in BOOLEAN : Goes(c, [NoCall EXCEPT !.phase = "created", !.join = j])
      BY <2>2, Zenon DEF Notify
    <3>2. PICK n : n = [NoCall EXCEPT !.phase = "created", !.join = j]
      BY Zenon
    <3>3. n \in CallSet /\ Blank(n) /\ n.phase = "created"
      <4>1. "created" \in Phases
        BY Zenon DEF Phases
      <4>2. n \in CallSet
        BY <2>1, <3>2, <4>1, Zenon DEF CallSet
      <4>3. /\ n.phase = "created" /\ n.list = NoCall.list /\ n.slots = NoCall.slots
            /\ n.at = NoCall.at /\ n.running = NoCall.running /\ n.handled = NoCall.handled
        BY <2>1, <3>2 DEF CallSet
      <4> QED
        BY <2>1, <4>2, <4>3, Zenon DEF Blank, Outside
    <3> QED
      BY <2>2, <3>1, <3>2, <3>3, Zenon DEF Notify
  <2>3. CASE Drop(c)
    BY <2>1, <2>3 DEF Drop
  <2>4. CASE Unwind(c)
    <3>1. PICK n : n = [NoCall EXCEPT !.phase = "unwound"]
      BY Zenon
    <3>2. n \in CallSet /\ Blank(n) /\ n.phase = "unwound"
      <4>1. "unwound" \in Phases /\ ToPhase(NoCall, n, "unwound")
        BY <3>1, Zenon DEF Phases, ToPhase
      <4>2. MovedTo(NoCall, n, "unwound", NoCall.at, NoCall.running, NoCall.handled)
        BY <2>1, <4>1, PhaseMoved, Zenon
      <4> QED
        BY <2>1, <4>2, Zenon DEF Blank, Outside, MovedTo, Same
    <3> QED
      BY <2>4, <3>1, <3>2, Zenon DEF Unwind
  <2> QED
    BY <2>2, <2>3, <2>4, Zenon
<1>2. CallKept(c)
  BY <1>1, BlankKeeps, Zenon DEF CallKept
<1>3. call'[c].phase # "clone"
  BY <1>1, GoesTo, Zenon
<1>4. /\ UNCHANGED lockVars /\ call[c].phase # "clone"
      /\ call[c].phase = "callback" => writer # c
  BY Zenon DEF Notify, Drop, Unwind
<1> QED
  BY <1>2, <1>3, <1>4, Zenon DEF Quiet

\* The polls of the owner.
LEMMA PollStep ==
  ASSUME Types, AllCalls, NEW c \in Call, FirstPoll(c) \/ Poll(c)
  PROVE  CallKept(c) /\ Quiet(c)
<1>1. PICK k \in CallSet : k = call[c]
  BY Zenon DEF Types
<1>2. CallInv(k, c \in woken)
  BY <1>1, Zenon DEF AllCalls
<1>3. PICK n \in CallSet : /\ Goes(c, n) /\ n.phase \in {"ready", "start", "poll"}
                         /\ CallInv(n, c \in woken')
  <2>1. CASE FirstPoll(c) /\ handlers = <<>>
    <3>1. PICK n : ToPhase(k, n, "ready")
      BY Zenon DEF ToPhase
    <3>2. Goes(c, n) /\ k.phase = "created"
      BY <1>1, <2>1, <3>1, Zenon DEF FirstPoll, ToPhase
    <3>3. n \in CallSet /\ CallInv(n, c \in woken')
      BY <1>2, <3>1, <3>2, EmptyKeeps, Zenon
    <3>4. n.phase = "ready"
      BY <3>1 DEF ToPhase, CallSet
    <3> QED
      BY <3>2, <3>3, <3>4, Zenon
  <2>2. CASE FirstPoll(c) /\ handlers # <<>>
    <3>0. PICK j \in BOOLEAN : j = (k.join /\ Len(handlers) > 1)
      BY Zenon
    <3>1. PICK n : ToList(k, n, j, handlers, [i \in DOMAIN handlers |-> Is("unstarted")])
      BY Zenon DEF ToList
    <3>2. Goes(c, n)
      BY <1>1, <2>2, <3>0, <3>1 DEF FirstPoll, ToList
    <3>3. k.phase = "created" /\ ListInv(handlers)
      BY <1>1, <2>2, Zenon DEF FirstPoll, Types
    <3>4. n \in CallSet /\ CallInv(n, c \in woken')
      BY <1>2, <2>2, <3>1, <3>3, LoadKeeps, Zenon
    <3>5. n.phase = "start"
      BY <3>1 DEF ToList, CallSet
    <3> QED
      BY <3>2, <3>4, <3>5, Zenon
  <2>3. CASE Poll(c)
    <3>1. PICK n : ToPoll(k, n)
      BY Zenon DEF ToPoll
    <3>2. Goes(c, n) /\ k.phase = "suspended"
      BY <1>1, <2>3, <3>1, Zenon DEF Poll, ToPoll
    <3>3. n \in CallSet /\ CallInv(n, c \in woken')
      BY <1>2, <3>1, <3>2, PollKeeps, Zenon
    <3>4. n.phase = "poll"
      BY <3>1 DEF ToPoll, CallSet
    <3> QED
      BY <3>2, <3>3, <3>4, Zenon
  <2> QED
    BY <2>1, <2>2, <2>3, Zenon
<1>4. woken' = woken \ {c} /\ UNCHANGED lockVars /\ k.phase \in {"created", "suspended"}
  BY <1>1, Zenon DEF FirstPoll, Poll
<1>5. CallKept(c)
  BY <1>3, <1>4, Zenon DEF CallKept
<1>6. call'[c].phase \in {"ready", "start", "poll"}
  BY <1>3, GoesTo, Zenon
<1>7. Quiet(c)
  BY <1>1, <1>4, <1>6 DEF Quiet
<1> QED
  BY <1>5, <1>7, Zenon
\* An event comes.
LEMMA WakeStep ==
  ASSUME Types, AllCalls, NEW c \in Call, Wake(c)
  PROVE  CallKept(c) /\ UNCHANGED lockVars /\ call'[c].phase = call[c].phase
<1>1. PICK k \in CallSet : k = call[c]
  BY Zenon DEF Types
<1>2. CallInv(k, c \in woken)
  BY <1>1, Zenon DEF AllCalls
<1>3. PICK i \in DOMAIN k.slots :
        /\ k.slots[i].state = "parked" /\ woken' = woken \cup {c} /\ UNCHANGED lockVars
        /\ Goes(c, [k EXCEPT !.slots[i] = Is("signalled")])
  BY <1>1, Zenon DEF Wake
<1>4. PICK n : ToSlot(k, n, i, Is("signalled"))
  BY Zenon DEF ToSlot
<1>5. Goes(c, n)
  BY <1>3, <1>4, Zenon DEF ToSlot
<1>6. n \in CallSet /\ CallInv(n, TRUE)
  BY <1>2, <1>3, <1>4, WakeKeeps, Zenon
<1>7. n.phase = k.phase
  BY <1>4 DEF ToSlot, CallSet
<1>8. CallInv(n, c \in woken')
  <2>1. WakeInv(n, c \in woken')
    BY <1>3, <1>6, Zenon DEF CallInv, WakeInv
  <2> QED
    BY <1>6, <2>1, Zenon DEF CallInv
<1>9. CallKept(c)
  BY <1>3, <1>5, <1>6, <1>8, Zenon DEF CallKept
<1> QED
  BY <1>1, <1>3, <1>5, <1>7, <1>9, GoesTo, Zenon

\* A handler is called.
LEMMA StartStep ==
  ASSUME Types, AllCalls, NEW c \in Call, Start(c)
  PROVE  CallKept(c) /\ Quiet(c)
<1>1. PICK k \in CallSet : k = call[c]
  BY Zenon DEF Types
<1>2. CallInv(k, c \in woken)
  BY <1>1, Zenon DEF AllCalls
<1>3. PICK s \in Startable :
        LET m == [k EXCEPT !.slots[k.at] = s] IN
        /\ k.phase = "start" /\ UNCHANGED <<lockVars, woken>>
        /\ Goes(c, IF m.join
                   THEN IF m.at < Len(m.list) THEN [m EXCEPT !.at = @ + 1] ELSE Joined(m)
                   ELSE IF s.state = "panicked" THEN HandlePanic(m)
                        ELSE [m EXCEPT !.phase = "poll"])
  BY <1>1, Zenon DEF Start, Startable
<1>4. PICK m : ToSlot(k, m, k.at, s)
  BY Zenon DEF ToSlot
<1>5. m = [k EXCEPT !.slots[k.at] = s]
  BY <1>4, Zenon DEF ToSlot
<1>6. /\ k.phase = "start" /\ woken' = woken /\ UNCHANGED lockVars
      /\ Goes(c, IF m.join
                 THEN IF m.at < Len(m.list) THEN [m EXCEPT !.at = @ + 1] ELSE Joined(m)
                 ELSE IF s.state = "panicked" THEN HandlePanic(m)
                      ELSE [m EXCEPT !.phase = "poll"])
  BY <1>3, <1>5, Zenon
<1>7. Started(m) /\ m.slots[m.at].state = s.state
  BY <1>2, <1>4, <1>6, StartSlot, Zenon
<1>8. m \in CallSet /\ m.join \in BOOLEAN /\ m.phase = "start"
  BY <1>7, CallFields, Zenon DEF Started
<1>9. PICK n \in CallSet : /\ Goes(c, n) /\ CallInv(n, c \in woken')
                         /\ n.phase \in {"start", "poll", "fetch"}
  <2>1. CASE m.join
    <3>1. PICK n : ToJoin(m, n)
      BY Zenon DEF ToJoin
    <3>2. Goes(c, n)
      BY <1>6, <2>1, <3>1, Zenon DEF ToJoin
    <3>3. n \in CallSet /\ CallInv(n, c \in woken')
      BY <1>7, <2>1, <3>1, StartJoinKeeps, Zenon
    <3>4. n.phase \in {"start", "poll"}
      <4>1. [m EXCEPT !.at = @ + 1].phase = "start"
        BY <1>8 DEF CallSet
      <4>2. Joined(m).phase = "poll"
        BY <1>8, PhasesAfter, Zenon
      <4> QED
        BY <3>1, <4>1, <4>2, Zenon DEF ToJoin
    <3> QED
      BY <3>2, <3>3, <3>4, Zenon
  <2>2. CASE ~m.join
    <3>1. PICK n : ToAwait(m, n)
      BY Zenon DEF ToAwait
    <3>2. Goes(c, n)
      BY <1>6, <1>7, <2>2, <3>1, Zenon DEF ToAwait
    <3>3. n \in CallSet /\ CallInv(n, c \in woken')
      BY <1>7, <2>2, <3>1, StartAloneKeeps, Zenon
    <3>4. n.phase \in {"fetch", "poll"}
      <4>1. [m EXCEPT !.phase = "poll"].phase = "poll"
        BY <1>8 DEF CallSet
      <4>2. HandlePanic(m).phase = "fetch"
        BY <1>8, PhasesAfter, Zenon
      <4> QED
        BY <3>1, <4>1, <4>2, Zenon DEF ToAwait
    <3> QED
      BY <3>2, <3>3, <3>4, Zenon
  <2> QED
    BY <2>1, <2>2, Zenon
<1>10. CallKept(c)
  BY <1>6, <1>9, Zenon DEF CallKept
<1>11. call'[c].phase \in {"start", "poll", "fetch"}
  BY <1>9, GoesTo, Zenon
<1>12. Quiet(c)
  BY <1>1, <1>6, <1>11 DEF Quiet
<1> QED
  BY <1>10, <1>12, Zenon
\* What the record is after slot k.at has become s.
AfterPoll(k, m, s) ==
  IF k.join
  THEN [m EXCEPT !.at = RunningFrom(m.slots, k.at + 1),
                 !.running = IF s.state \in Running THEN @ ELSE @ - 1]
  ELSE IF s.state = "parked" THEN [m EXCEPT !.phase = "suspended"]
  ELSE IF s.state = "panicked" THEN HandlePanic(m)
  ELSE NextEntry(m)

\* A future is polled.
LEMMA PollSlotStep ==
  ASSUME Types, AllCalls, NEW c \in Call, PollSlot(c)
  PROVE  CallKept(c) /\ Quiet(c)
<1>1. PICK k \in CallSet : k = call[c]
  BY Zenon DEF Types
<1>2. CallInv(k, c \in woken)
  BY <1>1, Zenon DEF AllCalls
<1>3. /\ k.phase = "poll" /\ k.at <= Len(k.slots) /\ woken' = woken
      /\ UNCHANGED lockVars
  BY <1>1, Zenon DEF PollSlot
<1>4. PICK s \in Polled(call[c].slots[call[c].at]) :
        Goes(c, AfterPoll(call[c], [call[c] EXCEPT !.slots[call[c].at] = s], s))
  BY Zenon DEF PollSlot, AfterPoll
<1>5. PICK m : ToSlot(k, m, k.at, s)
  BY Zenon DEF ToSlot
<1>6. s \in Polled(k.slots[k.at]) /\ m = [call[c] EXCEPT !.slots[call[c].at] = s]
  BY <1>1, <1>5, Zenon DEF ToSlot
<1>7. Goes(c, AfterPoll(k, m, s))
  BY <1>1, <1>4, <1>6, Zenon
<1>8. Advanced(k, m) /\ m.slots[m.at] = s
  BY <1>2, <1>3, <1>5, <1>6, AdvanceSlot, Zenon
<1>9. /\ m \in CallSet /\ m.join = k.join /\ m.at = k.at /\ m.phase = "poll"
      /\ m.join \in BOOLEAN
  BY <1>8, CallFields, Zenon DEF Advanced
<1>10. PICK n \in CallSet : /\ Goes(c, n) /\ CallInv(n, c \in woken')
                          /\ n.phase # "clone"
  <2>1. CASE m.join
    <3>1. PICK n : ToJoinPoll(k, m, n)
      BY Zenon DEF ToJoinPoll
    <3>2. Goes(c, n)
      BY <1>7, <1>8, <1>9, <2>1, <3>1, Zenon DEF ToJoinPoll, AfterPoll
    <3>3. n \in CallSet /\ CallInv(n, c \in woken')
      BY <1>2, <1>3, <1>8, <2>1, <3>1, JoinPollKeeps, Zenon
    <3>4. n.phase = "poll"
      BY <1>9, <3>1 DEF ToJoinPoll, CallSet
    <3> QED
      BY <3>2, <3>3, <3>4
  <2>2. CASE ~m.join
    <3>1. PICK n : ToAlonePoll(m, n)
      BY Zenon DEF ToAlonePoll
    <3>2. Goes(c, n)
      BY <1>7, <1>8, <1>9, <2>2, <3>1, Zenon DEF ToAlonePoll, AfterPoll
    <3>3. n \in CallSet /\ CallInv(n, c \in woken')
      BY <1>2, <1>3, <1>8, <2>2, <3>1, AlonePollKeeps, Zenon
    <3>4. n.phase \in {"suspended", "fetch", "start", "ready"}
      <4>1. [m EXCEPT !.phase = "suspended"].phase = "suspended"
        BY <1>9 DEF CallSet
      <4>2. HandlePanic(m).phase = "fetch" /\ NextEntry(m).phase \in {"start", "ready"}
        BY <1>9, PhasesAfter, Zenon
      <4> QED
        BY <3>1, <4>1, <4>2, Zenon DEF ToAlonePoll
    <3> QED
      BY <3>2, <3>3, <3>4
  <2> QED
    BY <1>9, <2>1, <2>2, Zenon
<1>11. CallKept(c)
  BY <1>3, <1>10, Zenon DEF CallKept
<1>12. call'[c].phase # "clone"
  BY <1>10, GoesTo, Zenon
<1>13. Quiet(c)
  BY <1>1, <1>3, <1>12 DEF Quiet
<1> QED
  BY <1>11, <1>13, Zenon

\* The join ends a pass, or reports; a report ends.
LEMMA EndStep ==
  ASSUME Types, AllCalls, NEW c \in Call, PollEnd(c) \/ Report(c) \/ DropPayload(c)
  PROVE  CallKept(c) /\ Quiet(c)
<1>1. PICK k \in CallSet : k = call[c]
  BY Zenon DEF Types
<1>2. CallInv(k, c \in woken)
  BY <1>1, Zenon DEF AllCalls
<1>3. /\ k.phase \in {"poll", "report", "payload"} /\ woken' = woken
      /\ UNCHANGED lockVars
  BY <1>1, Zenon DEF PollEnd, Report, DropPayload
<1>4. PICK n \in CallSet : /\ Goes(c, n) /\ CallInv(n, c \in woken')
                         /\ n.phase # "clone"
  <2>1. CASE PollEnd(c)
    <3>1. PICK n : ToEnd(k, n)
      BY Zenon DEF ToEnd
    <3>2. Goes(c, n) /\ k.phase = "poll" /\ k.at > Len(k.slots)
      BY <1>1, <2>1, <3>1, Zenon DEF PollEnd, ToEnd
    <3>3. n \in CallSet /\ CallInv(n, c \in woken')
      BY <1>2, <1>3, <3>1, <3>2, PollEndKeeps, Zenon
    <3>4. n.phase # "clone"
      BY <3>1 DEF ToEnd, CallSet
    <3> QED
      BY <3>2, <3>3, <3>4, Zenon
  <2>2. CASE Report(c)
    <3>1. PICK n : ToReports(k, n)
      BY Zenon DEF ToReports
    <3>2. Goes(c, n) /\ k.phase = "report"
      BY <1>1, <2>2, <3>1, Zenon DEF Report, ToReports, Unreported
    <3>3. n \in CallSet /\ CallInv(n, c \in woken')
      BY <1>2, <1>3, <3>1, <3>2, ReportKeeps, Zenon
    <3>4. n.phase # "clone"
      <4>1. ASSUME NEW a PROVE HandlePanic([k EXCEPT !.at = a]).phase = "fetch"
        BY DEF HandlePanic, CallSet
      <4>2. [k EXCEPT !.phase = "ready"].phase = "ready"
        BY DEF CallSet
      <4>3. n.phase \in {"fetch", "ready"}
        BY <3>1, <4>1, <4>2, Zenon DEF ToReports
      <4> QED
        BY <4>3
    <3> QED
      BY <3>2, <3>3, <3>4, Zenon
  <2>3. CASE DropPayload(c)
    <3>1. PICK n : ToNext(k, n)
      BY Zenon DEF ToNext
    <3>2. Goes(c, n) /\ k.phase = "payload"
      BY <1>1, <2>3, <3>1, Zenon DEF DropPayload, ToNext
    <3>3. n \in CallSet /\ CallInv(n, c \in woken')
      BY <1>2, <3>1, <3>2, PayloadKeeps, Zenon
    <3>4. n.phase # "clone"
      <4>1. [k EXCEPT !.phase = "report", !.at = @ + 1].phase = "report"
        BY DEF CallSet
      <4>2. n.phase \in {"report", "start", "ready"}
        BY <3>1, <4>1, PhasesAfter, Zenon DEF ToNext
      <4> QED
        BY <4>2
    <3> QED
      BY <3>2, <3>3, <3>4, Zenon
  <2> QED
    BY <2>1, <2>2, <2>3, Zenon
<1>5. CallKept(c)
  BY <1>3, <1>4, Zenon DEF CallKept
<1>6. call'[c].phase # "clone"
  BY <1>4, GoesTo, Zenon
<1>7. Quiet(c)
  BY <1>1, <1>3, <1>6 DEF Quiet
<1> QED
  BY <1>5, <1>7, Zenon

\* The steps inside handle_panic.
LEMMA HandlingStep ==
  ASSUME Types, AllCalls, NEW c \in Call,
         ReadLock(c) \/ CloneCallback(c) \/ CallbackEnd(c)
  PROVE  CallKept(c) /\ call'[c].phase = IF ReadLock(c) THEN "clone"
                                         ELSE IF CloneCallback(c) /\ panic_callback
                                         THEN "callback" ELSE "payload"
<1>1. PICK k \in CallSet : k = call[c]
  BY Zenon DEF Types
<1>2. CallInv(k, c \in woken)
  BY <1>1, Zenon DEF AllCalls
<1>3. PICK ph \in Handling : ph = IF ReadLock(c) THEN "clone"
                                  ELSE IF CloneCallback(c) /\ panic_callback
                                  THEN "callback" ELSE "payload"
  BY Zenon DEF Handling
<1>4. k.phase \in Handling /\ woken' = woken /\ Goes(c, [k EXCEPT !.phase = ph])
  <2>1. CASE ReadLock(c)
    BY <1>1, <1>3, <2>1, Zenon DEF ReadLock, Handling
  <2>2. CASE CloneCallback(c)
    <3>1. ~ReadLock(c)
      BY <2>2 DEF ReadLock, CloneCallback
    <3> QED
      BY <1>1, <1>3, <2>2, <3>1, Zenon DEF CloneCallback, Handling
  <2>3. CASE CallbackEnd(c)
    <3>1. ~ReadLock(c) /\ ~CloneCallback(c)
      BY <2>3 DEF ReadLock, CloneCallback, CallbackEnd
    <3> QED
      BY <1>1, <1>3, <2>3, <3>1, Zenon DEF CallbackEnd, Handling
  <2> QED
    BY <2>1, <2>2, <2>3, Zenon
<1>5. PICK n : ToPhase(k, n, ph)
  BY Zenon DEF ToPhase
<1>6. Goes(c, n)
  BY <1>4, <1>5, Zenon DEF ToPhase
<1>7. n \in CallSet /\ CallInv(n, c \in woken')
  BY <1>2, <1>4, <1>5, HandlingKeeps, Zenon
<1>8. n.phase = ph
  BY <1>5 DEF ToPhase, CallSet
<1>9. CallKept(c)
  BY <1>4, <1>6, <1>7, Zenon DEF CallKept
<1> QED
  BY <1>3, <1>6, <1>8, <1>9, GoesTo, Zenon
-----------------------------------------------------------------------------
(* The invariant *)

\* The ids of a list.
LEMMA EntryIds ==
  ASSUME NEW list \in Seq(Entry)
  PROVE  \A i \in DOMAIN list : list[i] \in Entry /\ list[i].id \in 1..MaxId
<1>1. \A i \in DOMAIN list : list[i] \in Entry
  BY SMT
<1>2. \A e \in Entry : e.id \in 1..MaxId
  BY SMT DEF Entry
<1> QED
  BY <1>1, <1>2, Zenon

\* Sorted by priority, with no order asked of equals.
LEMMA OrderedSorted ==
  ASSUME NEW list \in Seq(Entry)
  PROVE  Sorted(list) <=> Ordered(list, [id \in 1..MaxId |-> {}])
<1>1. \A i \in DOMAIN list : list[i].id \in 1..MaxId
  BY EntryIds, Zenon
<1> QED
  BY <1>1, Zenon DEF Sorted, Ordered

\* The writers keep the list sorted by priority, with no id twice, and use
\* an id once.
LEMMA ListStep ==
  ASSUME Types, RegisterWithPriority \/ Unregister \/ Clear
  PROVE  /\ ListInv(handlers') /\ Ids(handlers') \subseteq drawn'
         /\ drawn' \subseteq 1..MaxId
<1> DEFINE none == [id \in 1..MaxId |-> {}]
<1>1. /\ handlers \in Seq(Entry) /\ Sorted(handlers) /\ Distinct(handlers)
      /\ Ids(handlers) \subseteq drawn /\ drawn \subseteq 1..MaxId
  BY Zenon DEF Types, ListInv
<1>2. Ordered(handlers, none)
  BY <1>1, OrderedSorted, Zenon
<1>3. CASE RegisterWithPriority
  <2>1. PICK id \in (1..MaxId) \ drawn, p \in Priority :
          /\ drawn' = drawn \cup {id}
          /\ handlers' = Insert(handlers, [id |-> id, priority |-> p])
    BY <1>3, Zenon DEF RegisterWithPriority
  <2>2. PICK e \in Entry : e = [id |-> id, priority |-> p] /\ e.id = id
    BY <2>1, ConstantsAssumption DEF Entry
  <2>3. Prioritised(Entry)
    BY ConstantsAssumption, Zenon DEF Prioritised, Entry
  <2>4. e.id \notin Ids(handlers)
    BY <1>1, <2>1, <2>2, Zenon
  <2>5. Unseen(e, handlers, none)
    <3>1. \A i \in DOMAIN handlers : handlers[i].id \in 1..MaxId
      BY <1>1, EntryIds, Zenon
    <3> QED
      BY <3>1, Zenon DEF Unseen
  <2>6. Insertable(Entry, handlers, none, e)
    BY <1>1, <1>2, <2>3, <2>4, <2>5, Zenon DEF Insertable
  <2>7. Entered(Entry, handlers, none, e, handlers')
    BY <2>1, <2>2, <2>6, InsertKeeps, Zenon
  <2>8. /\ handlers' \in Seq(Entry) /\ Distinct(handlers')
        /\ Ordered(handlers', none) /\ Ids(handlers') = Ids(handlers) \cup {e.id}
    BY <2>7, Zenon DEF Entered
  <2>9. Sorted(handlers')
    BY <2>8, OrderedSorted, Zenon
  <2>10. Ids(handlers') \subseteq drawn' /\ drawn' \subseteq 1..MaxId
    BY <1>1, <2>1, <2>2, <2>8, Zenon
  <2> QED
    BY <2>8, <2>9, <2>10, Zenon DEF ListInv
<1>4. CASE Unregister
  <2>1. PICK id \in 1..MaxId : /\ ContainsId(handlers, id)
                              /\ handlers' = RemoveId(handlers, id)
    BY <1>4, Zenon DEF Unregister
  <2>2. drawn' = drawn
    BY <1>4, Zenon DEF Unregister
  <2>3. PICK L : L = RemoveId(handlers, id)
    BY Zenon
  <2>4. /\ L \in Seq(Entry) /\ Ordered(L, none) /\ Distinct(L)
        /\ Ids(L) = Ids(handlers) \ {id}
    <3> HIDE DEF none
    <3> QED
      BY <1>1, <1>2, <2>1, <2>3, RemoveKeeps, Zenon
  <2>5. Sorted(L)
    BY <2>4, OrderedSorted, Zenon
  <2> QED
    BY <1>1, <2>1, <2>2, <2>3, <2>4, <2>5, Zenon DEF ListInv
<1>5. CASE Clear
  <2>1. handlers' = <<>> /\ drawn' = drawn
    BY <1>5, Zenon DEF Clear
  <2> QED
    BY <1>1, <2>1 DEF ListInv, Sorted, Distinct, Ids
<1> QED
  BY <1>3, <1>4, <1>5, Zenon

\* The lock when one call goes on: what matters is whether it was or is a
\* reader, and whether it left its callback.
LEMMA LockKept ==
  ASSUME Types, LockInv, NEW c \in Call,
         \A d \in Call : d # c => call'[d] = call[d],
         UNCHANGED <<writer, panic_callback>>,
         writer = c => call'[c].phase = "callback",
         reading' = IF call'[c].phase = "clone" THEN reading \cup {c} ELSE reading \ {c},
         call'[c].phase = "clone" => call[c].phase = "clone" \/ writer = NULL
  PROVE  LockInv'
<1>1. reading = {d \in Call : call[d].phase = "clone"}
  BY Zenon DEF LockInv
<1>2. reading' = {d \in Call : call'[d].phase = "clone"}
  BY <1>1
<1>3. writer # NULL => reading' = {}
  BY <1>1, <1>2, Zenon DEF LockInv
<1>4. writer \in Call => call'[writer].phase = "callback"
  BY Zenon DEF LockInv
<1> QED
  BY <1>2, <1>3, <1>4, Zenon DEF LockInv

\* A quiet step.
LEMMA QuietKept ==
  ASSUME Types, LockInv, NEW c \in Call, Quiet(c),
         \A d \in Call : d # c => call'[d] = call[d]
  PROVE  LockInv'
<1>1. /\ UNCHANGED <<writer, panic_callback, reading>>
      /\ call[c].phase # "clone" /\ call'[c].phase # "clone"
      /\ call[c].phase = "callback" => writer # c
  BY DEF Quiet, lockVars
<1>2. writer # c
  BY <1>1, Zenon DEF LockInv
<1>3. reading' = reading \ {c}
  BY <1>1, Zenon DEF LockInv
<1> QED
  BY <1>1, <1>2, <1>3, LockKept, Zenon

\* A step of one call keeps the lock.
LEMMA LockStep ==
  ASSUME Types, AllCalls, LockInv, NEW c \in Call,
         \A d \in Call : d # c => call'[d] = call[d],
         \/ Quiet(c)
         \/ UNCHANGED lockVars /\ call'[c].phase = call[c].phase
         \/ ReadLock(c) \/ CloneCallback(c) \/ CallbackEnd(c)
  PROVE  LockInv'
<1>1. CASE Quiet(c)
  BY <1>1, QuietKept, Zenon
<1>2. CASE UNCHANGED lockVars /\ call'[c].phase = call[c].phase
  <2>1. UNCHANGED <<writer, panic_callback, reading>>
    BY <1>2 DEF lockVars
  <2>2. c \in reading <=> call[c].phase = "clone"
    BY Zenon DEF LockInv
  <2>3. reading' = IF call'[c].phase = "clone" THEN reading \cup {c} ELSE reading \ {c}
    BY <1>2, <2>1, <2>2, Zenon
  <2>4. writer = c => call'[c].phase = "callback"
    BY <1>2, Zenon DEF LockInv
  <2> QED
    BY <1>2, <2>1, <2>3, <2>4, LockKept, Zenon
<1>3. CASE ReadLock(c)
  <2>1. call'[c].phase = "clone"
    BY <1>3, HandlingStep, Zenon
  <2>2. /\ UNCHANGED <<writer, panic_callback>> /\ writer = NULL
        /\ reading' = reading \cup {c}
    BY <1>3, Zenon DEF ReadLock
  <2>3. c # NULL
    BY ConstantsAssumption, Zenon
  <2> QED
    BY <2>1, <2>2, <2>3, LockKept, Zenon
<1>4. CASE CloneCallback(c)
  <2>1. call[c].phase = "clone" /\ ~ReadLock(c)
    BY <1>4 DEF CloneCallback, ReadLock
  <2>2. call'[c].phase # "clone"
    BY <1>4, <2>1, HandlingStep, SMT
  <2>3. UNCHANGED <<writer, panic_callback>> /\ reading' = reading \ {c}
    BY <1>4, Zenon DEF CloneCallback
  <2>4. writer # c
    BY <2>1, Zenon DEF LockInv
  <2> QED
    BY <2>2, <2>3, <2>4, LockKept, Zenon
<1>5. CASE CallbackEnd(c)
  <2>1. call[c].phase = "callback" /\ ~ReadLock(c) /\ ~CloneCallback(c) /\ writer # c
    BY <1>5 DEF CallbackEnd, CloneCallback, ReadLock
  <2>2. call'[c].phase = "payload"
    BY <1>5, <2>1, HandlingStep, SMT
  <2>3. UNCHANGED <<writer, panic_callback, reading>>
    BY <1>5 DEF CallbackEnd, lockVars
  <2>4. reading = reading \ {c}
    BY <2>1, Zenon DEF LockInv
  <2> QED
    BY <2>1, <2>2, <2>3, <2>4, LockKept, Zenon
<1> QED
  BY <1>1, <1>2, <1>3, <1>4, <1>5, Zenon

\* A step of a call is one of those above.
CallStep(c) ==
  \/ Notify(c) \/ FirstPoll(c) \/ Poll(c) \/ Drop(c) \/ Wake(c)
  \/ Proceed(c) \/ ReadLock(c) \/ CallbackEnd(c) \/ Unwind(c)

LEMMA CallStepKeeps ==
  ASSUME AsyncInv, NEW c \in Call, CallStep(c)
  PROVE  AsyncInv'
<1>1. Types /\ LockInv /\ AllCalls
  BY Zenon DEF AsyncInv, AllCalls
<1>2. /\ CallKept(c)
      /\ \/ Quiet(c)
         \/ UNCHANGED lockVars /\ call'[c].phase = call[c].phase
         \/ ReadLock(c) \/ CloneCallback(c) \/ CallbackEnd(c)
  <2>1. CASE Notify(c) \/ Drop(c) \/ Unwind(c)
    BY <1>1, <2>1, BlankStep, Zenon
  <2>2. CASE FirstPoll(c) \/ Poll(c)
    BY <1>1, <2>2, PollStep, Zenon
  <2>3. CASE Wake(c)
    BY <1>1, <2>3, WakeStep, Zenon
  <2>4. CASE Start(c)
    BY <1>1, <2>4, StartStep, Zenon
  <2>5. CASE PollSlot(c)
    BY <1>1, <2>5, PollSlotStep, Zenon
  <2>6. CASE PollEnd(c) \/ Report(c) \/ DropPayload(c)
    BY <1>1, <2>6, EndStep, Zenon
  <2>7. CASE ReadLock(c) \/ CloneCallback(c) \/ CallbackEnd(c)
    BY <1>1, <2>7, HandlingStep, Zenon
  <2> QED
    BY <2>1, <2>2, <2>3, <2>4, <2>5, <2>6, <2>7, Zenon DEF CallStep, Proceed
<1>3. PICK n \in CallSet : /\ Goes(c, n) /\ CallInv(n, c \in woken')
                          /\ woken' \in {woken, woken \cup {c}, woken \ {c}}
  BY <1>2, Zenon DEF CallKept
<1>4. /\ call' \in [Call -> CallSet] /\ woken' \subseteq Call /\ AllCalls'
      /\ \A d \in Call : d # c => call'[d] = call[d]
  BY <1>1, <1>3, OneCall, Zenon
<1>5. LockInv'
  BY <1>1, <1>2, <1>4, LockStep, Zenon
<1>6. UNCHANGED <<handlers, drawn>>
  BY <1>3 DEF Goes, listVars
<1>7. UNCHANGED <<panic_callback, writer>> /\ reading' \subseteq Call
  <2>1. UNCHANGED <<panic_callback, writer>>
    BY <1>2 DEF Quiet, lockVars, ReadLock, CloneCallback, CallbackEnd
  <2>2. reading' \subseteq Call
    BY <1>5, Zenon DEF LockInv
  <2> QED
    BY <2>1, <2>2, Zenon
<1>8. Types'
  BY <1>1, <1>4, <1>6, <1>7, Zenon DEF Types
<1> QED
  BY <1>4, <1>5, <1>8, Zenon DEF AsyncInv, AllCalls

\* on_panic and clear_panic_callback.
LEMMA SetStep ==
  ASSUME AsyncInv, NEW a \in Call \cup Setter, SetBegin(a) \/ SetEnd(a)
  PROVE  AsyncInv'
<1>1. Types /\ LockInv
  BY Zenon DEF AsyncInv
<1>2. UNCHANGED <<handlers, drawn, reading, call, woken>>
  BY DEF SetBegin, SetEnd, listVars
<1>3. panic_callback' \in BOOLEAN
  BY <1>1, Zenon DEF SetBegin, SetEnd, Types
<1>4. writer' \in {a, NULL} /\ (writer' # NULL => SetBegin(a))
  BY Zenon DEF SetBegin, SetEnd
<1>5. Types'
  BY <1>1, <1>2, <1>3, <1>4, Zenon DEF Types
<1>6. reading' = {c \in Call : call'[c].phase = "clone"}
  BY <1>1, <1>2, Zenon DEF LockInv
<1>7. writer' # NULL => reading' = {} /\ writer' = a
                        /\ (a \in Call => call'[a].phase = "callback")
  BY <1>2, <1>4, Zenon DEF SetBegin
<1>8. NULL \notin Call
  BY ConstantsAssumption, Zenon
<1>9. LockInv'
  BY <1>6, <1>7, <1>8, Zenon DEF LockInv
<1> QED
  BY <1>2, <1>5, <1>9, Zenon DEF AsyncInv

\* The invariant holds at first.
LEMMA AsyncInit == Init => AsyncInv
<1> SUFFICES ASSUME Init PROVE AsyncInv
  OBVIOUS
<1>1. NoCall \in CallSet /\ Blank(NoCall) /\ NoCall.phase = "none"
  BY DEF NoCall, CallSet, Blank, Phases, Outside
<1>2. \A c : CallInv(NoCall, c \in woken)
  BY <1>1, BlankKeeps, Zenon
<1>3. call = [c \in Call |-> NoCall] /\ woken = {} /\ reading = {} /\ writer = NULL
  BY Zenon DEF Init
<1>4. \A c \in Call : call[c] = NoCall
  BY <1>3, Zenon
<1>5. call \in [Call -> CallSet]
  BY <1>1, <1>3, Zenon
<1>6. handlers \in Seq(Entry) /\ Ids(handlers) = {} /\ DOMAIN handlers = {}
  BY DEF Init, Ids
<1>7. ListInv(handlers)
  BY <1>6, Zenon DEF ListInv, Sorted, Distinct
<1>8. drawn = {} /\ panic_callback \in BOOLEAN
  BY Zenon DEF Init
<1>9. Types
  BY <1>3, <1>5, <1>6, <1>7, <1>8, Zenon DEF Types
<1>10. LockInv
  <2>1. \A c \in Call : call[c].phase # "clone"
    BY <1>1, <1>4
  <2>2. NULL \notin Call
    BY ConstantsAssumption, Zenon
  <2> QED
    BY <1>3, <2>1, <2>2, Zenon DEF LockInv
<1>11. \A c \in Call : CallInv(call[c], c \in woken)
  BY <1>2, <1>4, Zenon
<1> QED
  BY <1>9, <1>10, <1>11, Zenon DEF AsyncInv

\* Every step keeps it.
LEMMA AsyncStep == AsyncInv /\ [Next]_vars => AsyncInv'
<1> SUFFICES ASSUME AsyncInv, [Next]_vars PROVE AsyncInv'
  OBVIOUS
<1>1. CASE RegisterWithPriority \/ Unregister \/ Clear
  <2>1. UNCHANGED <<lockVars, call, woken>>
    BY <1>1, Zenon DEF RegisterWithPriority, Unregister, Clear
  <2>2. UNCHANGED <<panic_callback, writer, reading, call, woken>>
    BY <2>1 DEF lockVars
  <2>3. Types
    BY Zenon DEF AsyncInv
  <2>4. /\ ListInv(handlers') /\ Ids(handlers') \subseteq drawn'
        /\ drawn' \subseteq 1..MaxId
    BY <1>1, <2>3, ListStep, Zenon
  <2>5. Types'
    BY <2>2, <2>3, <2>4, Zenon DEF Types
  <2>6. LockInv'
    BY <2>2, Zenon DEF AsyncInv, LockInv
  <2> QED
    BY <2>2, <2>5, <2>6, Zenon DEF AsyncInv
<1>2. CASE \E c \in Call : CallStep(c)
  BY <1>2, CallStepKeeps, Zenon
<1>3. CASE \E a \in Call \cup Setter : SetBegin(a) \/ SetEnd(a)
  BY <1>3, SetStep, Zenon
<1>4. CASE UNCHANGED vars
  <2>1. UNCHANGED <<handlers, drawn, panic_callback, writer, reading, call, woken>>
    BY <1>4 DEF vars, listVars, lockVars
  <2> QED
    BY <2>1, Zenon DEF AsyncInv, Types, LockInv
<1> QED
  BY <1>1, <1>2, <1>3, <1>4, Zenon DEF Next, CallStep

\* The invariant holds in every state.
THEOREM AsyncInvariant == Spec => []AsyncInv
BY AsyncInit, AsyncStep, PTL DEF Spec

-----------------------------------------------------------------------------
(* What follows *)

\* The dispatch follows the priorities: the list a call goes through is
\* sorted, and no handler is in it twice, whatever the writers do meanwhile.
PriorityOrder ==
  \A c \in Call : Sorted(call[c].list) /\ Distinct(call[c].list)

\* The readers of the callback and a writer exclude each other, and a call
\* that writes does so from its callback.
LockExclusion ==
  /\ writer # NULL => reading = {}
  /\ writer \in Call => call[writer].phase = "callback"

\* Every variable keeps its type, and the slots go with the list.
THEOREM AsyncTypes == Spec => []TypeOK
<1>1. AsyncInv => TypeOK
  <2> SUFFICES ASSUME AsyncInv PROVE TypeOK
    OBVIOUS
  <2>1. Types
    BY Zenon DEF AsyncInv
  <2>2. ASSUME NEW c \in Call PROVE CallOK(call[c])
    <3>1. PICK k \in CallSet : k = call[c]
      BY <2>1, Zenon DEF Types
    <3>2. CallInv(k, c \in woken)
      BY <3>1, Zenon DEF AsyncInv
    <3>3. /\ Len(k.slots) = Len(k.list) /\ k.at \in 0..(Len(k.list) + 1)
          /\ IF k.join /\ k.phase \in {"poll", "suspended"}
             THEN k.running = Cardinality(Waiting(k)) ELSE k.running = 0
      BY <3>2, Zenon DEF CallInv, CountInv
    <3>4. k.list \in Seq(Entry) /\ k.slots \in Seq(SlotSet) /\ k.phase \in Phases
          /\ k.join \in BOOLEAN
      BY CallFields, Zenon
    <3>5. DOMAIN k.slots = 1..Len(k.list) /\ DOMAIN k.list = 1..Len(k.list)
          /\ Len(k.list) \in Nat
      BY <3>3, <3>4
    <3>6. \A i \in DOMAIN k.slots : k.slots[i] \in SlotSet
      BY <3>4
    <3>7. /\ Cardinality(Waiting(k)) \in Nat
          /\ Cardinality(Waiting(k)) <= Len(k.list)
      <4>1. IsFiniteSet(1..Len(k.list)) /\ Cardinality(1..Len(k.list)) = Len(k.list)
        BY <3>5, FS_Interval
      <4>2. Waiting(k) \subseteq 1..Len(k.list)
        BY <3>5, Zenon DEF Waiting
      <4>3. IsFiniteSet(Waiting(k)) /\ Cardinality(Waiting(k)) <= Cardinality(1..Len(k.list))
        BY <4>1, <4>2, FS_Subset, Zenon
      <4> QED
        BY <4>1, <4>3, FS_CardinalityType, Zenon
    <3>8. k.running \in 0..Len(k.list)
      BY <3>3, <3>5, <3>7
    <3> QED
      BY <3>1, <3>3, <3>4, <3>5, <3>6, <3>8, Zenon DEF CallOK, SlotSet
  <2> QED
    BY <2>1, <2>2, Zenon DEF TypeOK, Types, ListInv
<1> QED
  BY <1>1, AsyncInvariant, PTL

\* async_registry/mod.rs:461-467: the panics of a dispatch are handled in
\* list order, each once, with its own id and payload, for any number of
\* handlers, any interleaving of wake-ups and any result of each poll.
THEOREM AsyncReports == Spec => []ReportsInOrder
<1>1. AsyncInv => ReportsInOrder
  <2> SUFFICES ASSUME AsyncInv, NEW c \in Call
               PROVE  LET k == call[c] IN
                 /\ k.phase \in {"fetch", "clone", "callback", "payload"}
                      => Reported(k, k.at)
                 /\ k.phase \in {"start", "poll", "suspended"} =>
                      IF k.join THEN k.handled = <<>> ELSE Reported(k, k.at - 1)
                 /\ k.phase = "ready" => Reported(k, Len(k.list))
    BY Zenon DEF ReportsInOrder
  <2>1. ReportInv(call[c])
    BY Zenon DEF AsyncInv, CallInv
  <2> QED
    BY <2>1, Zenon DEF ReportInv, Handling, Looping
<1> QED
  BY <1>1, AsyncInvariant, PTL

\* notify ends, and a concurrent dispatch begins to report, only after every
\* handler of the list it loaded has finished; `running` is exact.
THEOREM AsyncFinishes == Spec => []AllFinished
<1>1. AsyncInv => AllFinished
  <2> SUFFICES ASSUME AsyncInv, NEW c \in Call, NEW k, k = call[c]
               PROVE  /\ k.phase = "ready" \/ (k.join /\ k.handled # <<>>) =>
                           \A i \in DOMAIN k.slots : Finished(k, i)
                      /\ k.join /\ k.phase \in {"poll", "suspended"} =>
                           k.running = Cardinality(Waiting(k))
    BY Zenon DEF AllFinished, Finished, Waiting
  <2>1. k \in CallSet /\ CallInv(k, c \in woken)
    BY Zenon DEF AsyncInv, Types
  <2>2. k.join /\ k.phase \in {"poll", "suspended"} => k.running = Cardinality(Waiting(k))
    BY <2>1, Zenon DEF CallInv, CountInv
  <2>3. k.phase = "ready" => \A i \in DOMAIN k.slots : Finished(k, i)
    BY <2>1, Zenon DEF CallInv, EndInv
  <2>4. ASSUME k.join, k.handled # <<>>, k.phase # "ready"
        PROVE  \A i \in DOMAIN k.slots : Finished(k, i)
    <3>1. k.phase \in Phases
      BY <2>1, CallFields, Zenon
    <3>2. k.phase \notin Outside /\ k.phase \notin Looping
      BY <2>1, <2>4, Zenon DEF CallInv, ReportInv
    <3>3. k.phase \in Handling \cup {"report"}
      BY <2>4, <3>1, <3>2, Zenon DEF Phases, Outside, Looping, Handling
    <3> QED
      BY <2>1, <2>4, <3>3, Zenon DEF CallInv, JoinInv
  <2> QED
    BY <2>2, <2>3, <2>4, Zenon
<1> QED
  BY <1>1, AsyncInvariant, PTL

\* async_registry/mod.rs:547-549: notify_sequential, and notify with one
\* handler, start a handler only after all before it have finished.
THEOREM AsyncSequential == Spec => []OneAfterTheOther
<1>1. AsyncInv => OneAfterTheOther
  <2> SUFFICES ASSUME AsyncInv, NEW c \in Call, NEW k, k = call[c], ~k.join,
                      NEW i \in DOMAIN k.slots, NEW j \in DOMAIN k.slots,
                      i < j, k.slots[j].state # "unstarted"
               PROVE  Finished(k, i)
    BY Zenon DEF OneAfterTheOther, Finished
  <2>1. k \in CallSet /\ CallInv(k, c \in woken)
    BY Zenon DEF AsyncInv, Types
  <2>2. k.list \in Seq(Entry) /\ k.slots \in Seq(SlotSet) /\ k.phase \in Phases
        /\ k.at \in Nat
    BY <2>1, CallFields, Zenon
  <2>3. Len(k.slots) = Len(k.list)
    BY <2>1, Zenon DEF CallInv, CountInv
  <2>4. i \in 1..Len(k.list) /\ j \in 1..Len(k.list)
    BY <2>2, <2>3
  <2>5. k.phase \notin Outside
    <3>1. k.list # <<>>
      BY <2>2, <2>4
    <3> QED
      BY <2>1, <3>1, Zenon DEF CallInv, ReportInv
  <2>6. k.phase # "report"
    BY <2>1, Zenon DEF CallInv, EndInv
  <2>7. CASE k.phase = "ready"
    BY <2>1, <2>7, Zenon DEF CallInv, EndInv
  <2>8. CASE k.phase # "ready"
    <3>1. k.phase \in Looping \cup Handling
      BY <2>2, <2>5, <2>6, <2>8, Zenon DEF Phases, Outside, Looping, Handling
    <3>2. /\ \A h \in 1..(k.at - 1) : Finished(k, h)
          /\ \A h \in (k.at + 1)..Len(k.list) : k.slots[h].state = "unstarted"
      BY <2>1, <3>1, Zenon DEF CallInv, SequentialInv
    <3>3. j \notin (k.at + 1)..Len(k.list)
      BY <3>2, Zenon
    <3>4. i \in 1..(k.at - 1)
      BY <2>2, <2>4, <3>3
    <3> QED
      BY <3>2, <3>4, Zenon
  <2> QED
    BY <2>7, <2>8, Zenon
<1> QED
  BY <1>1, AsyncInvariant, PTL

\* The join's poll_fn (async_registry/mod.rs:522-533) has given its waker to every
\* future it still waits for when it is Pending, or the call has been woken since.
THEOREM AsyncWakes == Spec => []NoLostWake
<1>1. AsyncInv => NoLostWake
  <2> SUFFICES ASSUME AsyncInv, NEW c \in Call, call[c].phase = "suspended", c \notin woken,
                      NEW i \in DOMAIN call[c].slots
               PROVE  call[c].slots[i].state \notin {"fresh", "signalled"}
    BY Zenon DEF NoLostWake
  <2>1. WakeInv(call[c], c \in woken)
    BY Zenon DEF AsyncInv, CallInv
  <2> QED
    BY <2>1, Zenon DEF WakeInv
<1> QED
  BY <1>1, AsyncInvariant, PTL

\* handle_panic has dropped its read guard when the callback runs.
THEOREM AsyncCallback == Spec => []CallbackUnlocked
<1>1. AsyncInv => CallbackUnlocked
  <2> SUFFICES ASSUME AsyncInv, NEW c \in Call, call[c].phase = "callback"
               PROVE  c \notin reading
    BY Zenon DEF CallbackUnlocked
  <2>1. reading = {d \in Call : call[d].phase = "clone"}
    BY Zenon DEF AsyncInv, LockInv
  <2> QED
    BY <2>1
<1> QED
  BY <1>1, AsyncInvariant, PTL

\* handle_panic and on_panic, also on_panic from a callback, keep to the
\* RwLock of panic_callback.
THEOREM AsyncLock == Spec => []LockExclusion
<1>1. AsyncInv => LockExclusion
  BY Zenon DEF AsyncInv, LockInv, LockExclusion
<1> QED
  BY <1>1, AsyncInvariant, PTL

\* async_registry/mod.rs:466-467, 543-544: handlers are started, and their panics are
\* reported, in priority order, because the list a call loaded is sorted.
THEOREM AsyncPriorities == Spec => []PriorityOrder
<1>1. AsyncInv => PriorityOrder
  BY Zenon DEF AsyncInv, CallInv, ListInv, PriorityOrder
<1> QED
  BY <1>1, AsyncInvariant, PTL
=============================================================================
