---------------------------- MODULE AsyncRegistry ----------------------------
(***************************************************************************)
(* AsyncRegistry (src/async_registry/mod.rs) with the futures it polls     *)
(* (src/future_ext.rs) and the lock around its panic callback.             *)
(*                                                                         *)
(* A call is one notify or notify_sequential future.  Its owner polls it,  *)
(* from any thread, when it has been woken and also without a reason, and  *)
(* may drop it whenever it is not being polled.  A handler future awaits   *)
(* at most one event; the wake-up for it may come at any time, also while  *)
(* a poll of the same call is under way.  Calls of different owners, the   *)
(* writers of the handler list and on_panic interleave inside a poll at    *)
(* every handler.                                                          *)
(***************************************************************************)
EXTENDS HandlerList

CONSTANTS
  Call,      \* notify futures that exist at once
  Setter,    \* threads that call on_panic and clear_panic_callback
  Dropper,   \* the calls in which the Drop of user data may panic
  Priority,  \* priorities to register at
  Payload,   \* kinds of panic payload: "str", "String", "opaque"
  MaxId,     \* bound: registrations
  NULL

ASSUME ConstantsAssumption ==
  /\ Priority \subseteq Int
  /\ Payload \subseteq {"str", "String", "opaque"}
  /\ MaxId \in Nat
  /\ Dropper \subseteq Call
  /\ NULL \notin Call \cup Setter

VARIABLES
  handlers,        \* the current list of the cell
  drawn,           \* the ids of the registrations made so far
  panic_callback,  \* whether a callback is installed
  writer, reading, \* the RwLock of panic_callback: who holds it how
  call,            \* the state of each notify future
  woken            \* calls whose waker was invoked since they were last polled

listVars == <<handlers, drawn>>
lockVars == <<panic_callback, writer, reading>>
vars == <<listVars, lockVars, call, woken>>

\* Slot, and the future in it: not started, Running (never polled, parked
\* with the waker of the call, or its event has come), Done, Panicked.
Running == {"fresh", "parked", "signalled"}
Is(state) == [state |-> state, payload |-> NULL]
Panicked(p) == [state |-> "panicked", payload |-> p]
AnyPanic == {Panicked(p) : p \in Payload}

NoCall == [phase |-> "none", join |-> FALSE, list |-> <<>>, slots |-> <<>>,
           at |-> 0, running |-> 0, handled |-> <<>>]

Init ==
  /\ handlers = <<>>
  /\ drawn = {}
  /\ panic_callback = FALSE
  /\ writer = NULL /\ reading = {}
  /\ call = [c \in Call |-> NoCall]
  /\ woken = {}

-----------------------------------------------------------------------------
(* The writers *)

\* The id is drawn before the list is updated: registrations of several
\* threads may reach the list in any order of their ids.
RegisterWithPriority ==
  \E id \in (1..MaxId) \ drawn, p \in Priority :
    /\ drawn' = drawn \cup {id}
    /\ handlers' = Insert(handlers, [id |-> id, priority |-> p])
    /\ UNCHANGED <<lockVars, call, woken>>

Unregister ==
  \E id \in 1..MaxId :
    /\ ContainsId(handlers, id)
    /\ handlers' = RemoveId(handlers, id)
    /\ UNCHANGED <<drawn, lockVars, call, woken>>

Clear ==
  /\ handlers # <<>>
  /\ handlers' = <<>>
  /\ UNCHANGED <<drawn, lockVars, call, woken>>

-----------------------------------------------------------------------------
(* The owner of a call *)

\* Call c goes on with some fields changed.
Goes(c, k) ==
  /\ call' = [call EXCEPT ![c] = k]
  /\ UNCHANGED listVars

\* notify and notify_sequential only build a future.
Notify(c) ==
  \E join \in BOOLEAN :
    /\ call[c].phase = "none"
    /\ Goes(c, [NoCall EXCEPT !.phase = "created", !.join = join])
    /\ woken' = woken \cup {c}
    /\ UNCHANGED lockVars

\* Mutant: slots that have finished are polled again.
MutRunningFrom(slots, k) == k

\* The first running slot from position k on, or the length plus one.
RunningFrom(slots, k) ==
  Min({i \in k..Len(slots) : slots[i].state \in Running} \cup {Len(slots) + 1})

\* The first poll loads the list.  With one handler notify awaits it alone,
\* as notify_sequential does with each.
FirstPoll(c) ==
  LET k == call[c] IN
  /\ k.phase = "created"
  /\ Goes(c, IF handlers = <<>> THEN [k EXCEPT !.phase = "ready"]
             ELSE [k EXCEPT !.phase = "start", !.at = 1,
                            !.join = k.join /\ Len(handlers) > 1,
                            !.list = handlers,
                            !.slots = [i \in DOMAIN handlers |-> Is("unstarted")]])
  /\ woken' = woken \ {c}
  /\ UNCHANGED lockVars

\* Mutant: the join goes on where the last poll found a pending slot.
MutPoll(c) ==
  /\ call[c].phase = "suspended"
  /\ Goes(c, [call[c] EXCEPT !.phase = "poll"])
  /\ woken' = woken \ {c}
  /\ UNCHANGED lockVars

\* A later poll; the join starts over at the first running slot.
Poll(c) ==
  LET k == call[c] IN
  /\ k.phase = "suspended"
  /\ Goes(c, [k EXCEPT !.phase = "poll",
                       !.at = IF k.join THEN RunningFrom(k.slots, 1) ELSE @])
  /\ woken' = woken \ {c}
  /\ UNCHANGED lockVars

\* The owner drops the future, or has received its output.
Drop(c) ==
  /\ call[c].phase \in {"created", "suspended", "ready", "unwound"}
  /\ Goes(c, NoCall)
  /\ woken' = woken \ {c}
  /\ UNCHANGED lockVars

\* The event a handler future awaits: it wakes the call.
Wake(c) ==
  \E i \in DOMAIN call[c].slots :
    /\ call[c].slots[i].state = "parked"
    /\ Goes(c, [call[c] EXCEPT !.slots[i] = Is("signalled")])
    /\ woken' = woken \cup {c}
    /\ UNCHANGED lockVars

-----------------------------------------------------------------------------
(* Inside a poll *)

\* The dispatch one at a time goes on after handler k.at.
NextEntry(k) ==
  IF k.at < Len(k.list) THEN [k EXCEPT !.phase = "start", !.at = @ + 1]
  ELSE [k EXCEPT !.phase = "ready"]

\* PanicInfo::message: the two types of payload that hold text.
Message(payload) == IF payload \in {"str", "String"} THEN payload ELSE NULL

\* PanicInfo::new.
PanicInfo(id, payload) ==
  [handler_id |-> id, payload |-> payload, message |-> Message(payload)]

\* handle_panic(entry.id, payload) is called for handler k.at.
HandlePanic(k) ==
  [k EXCEPT !.phase = "fetch",
            !.handled = Append(@, PanicInfo(k.list[k.at].id, k.slots[k.at].payload))]

\* Mutant: a handler that panics before it returns a future is counted, too.
MutJoined(k) ==
  [k EXCEPT !.phase = "poll", !.at = RunningFrom(k.slots, 1),
            !.running = Len(k.slots)]

\* The slots are built; those that hold a future are counted.
Joined(k) ==
  [k EXCEPT !.phase = "poll", !.at = RunningFrom(k.slots, 1),
            !.running = Cardinality({i \in DOMAIN k.slots :
                                       k.slots[i].state \in Running})]

\* Mutant: every handler is started before the first one is awaited.
MutStart(c) ==
  \E s \in {Is("fresh")} \cup AnyPanic :
    LET k == [call[c] EXCEPT !.slots[call[c].at] = s] IN
    /\ call[c].phase = "start"
    /\ Goes(c, IF k.at < Len(k.list) THEN [k EXCEPT !.at = @ + 1]
               ELSE IF k.join THEN Joined(k)
               ELSE [k EXCEPT !.phase = "poll", !.at = 1])
    /\ UNCHANGED <<lockVars, woken>>

\* start: the synchronous part of handler k.at returns a future or panics.
Start(c) ==
  \E s \in {Is("fresh")} \cup AnyPanic :
    LET k == [call[c] EXCEPT !.slots[call[c].at] = s] IN
    /\ call[c].phase = "start"
    /\ Goes(c, IF k.join
               THEN IF k.at < Len(k.list) THEN [k EXCEPT !.at = @ + 1]
                    ELSE Joined(k)
               ELSE IF s.state = "panicked" THEN HandlePanic(k)
                    ELSE [k EXCEPT !.phase = "poll"])
    /\ UNCHANGED <<lockVars, woken>>

\* Slot::poll, poll_caught: a future that has not been polled may park, one
\* whose event has not come stays parked, one whose event has come finishes;
\* without a future nothing changes.
Polled(s) ==
  CASE s.state = "fresh" -> {Is("parked"), Is("done")} \cup AnyPanic
    [] s.state = "signalled" -> {Is("done")} \cup AnyPanic
    [] OTHER -> {s}

\* Mutant: the loop of the join ends at the first pending slot.
MutPollSlot(c) ==
  LET k == call[c] IN
  /\ k.phase = "poll" /\ k.at <= Len(k.slots)
  /\ \E s \in Polled(k.slots[k.at]) :
       LET n == [k EXCEPT !.slots[k.at] = s] IN
       Goes(c, IF s.state = "parked" THEN [n EXCEPT !.phase = "suspended"]
               ELSE IF k.join
                    THEN [n EXCEPT !.at = RunningFrom(n.slots, k.at + 1),
                                   !.running = @ - 1]
               ELSE IF s.state = "panicked" THEN HandlePanic(n)
               ELSE NextEntry(n))
  /\ UNCHANGED <<lockVars, woken>>

\* Slot::poll in the join, CatchUnwind::poll otherwise.  A finished future is
\* dropped at once.
PollSlot(c) ==
  LET k == call[c] IN
  /\ k.phase = "poll" /\ k.at <= Len(k.slots)
  /\ \E s \in Polled(k.slots[k.at]) :
       LET n == [k EXCEPT !.slots[k.at] = s] IN
       Goes(c, IF k.join
               THEN [n EXCEPT !.at = RunningFrom(n.slots, k.at + 1),
                              !.running = IF s.state \in Running THEN @ ELSE @ - 1]
               ELSE IF s.state = "parked" THEN [n EXCEPT !.phase = "suspended"]
               ELSE IF s.state = "panicked" THEN HandlePanic(n)
               ELSE NextEntry(n))
  /\ UNCHANGED <<lockVars, woken>>

\* The end of the join's loop over the slots.
PollEnd(c) ==
  LET k == call[c] IN
  /\ k.phase = "poll" /\ k.at > Len(k.slots)
  /\ Goes(c, IF k.running = 0 THEN [k EXCEPT !.phase = "report", !.at = 1]
             ELSE [k EXCEPT !.phase = "suspended"])
  /\ UNCHANGED <<lockVars, woken>>

\* The join's loop over entries and slots once all have finished.
Report(c) ==
  LET k == call[c]
      panicked == {i \in k.at..Len(k.slots) : k.slots[i].state = "panicked"} IN
  /\ k.phase = "report"
  /\ Goes(c, IF panicked = {} THEN [k EXCEPT !.phase = "ready"]
             ELSE HandlePanic([k EXCEPT !.at = Min(panicked)]))
  /\ UNCHANGED <<lockVars, woken>>

-----------------------------------------------------------------------------
(* handle_panic, on_panic and clear_panic_callback *)

\* The read lock is taken ...
ReadLock(c) ==
  /\ call[c].phase = "fetch"
  /\ writer = NULL
  /\ reading' = reading \cup {c}
  /\ Goes(c, [call[c] EXCEPT !.phase = "clone"])
  /\ UNCHANGED <<panic_callback, writer, woken>>

\* Mutant: the guard lives until the callback has returned.
MutCloneCallback(c) ==
  /\ call[c].phase = "clone"
  /\ reading' = IF panic_callback THEN reading ELSE reading \ {c}
  /\ Goes(c, [call[c] EXCEPT !.phase = IF panic_callback THEN "callback"
                                       ELSE "payload"])
  /\ UNCHANGED <<panic_callback, writer, woken>>

\* ... and released when the holder is cloned; the callback runs after that.
CloneCallback(c) ==
  /\ call[c].phase = "clone"
  /\ reading' = reading \ {c}
  /\ Goes(c, [call[c] EXCEPT !.phase = IF panic_callback THEN "callback"
                                       ELSE "payload"])
  /\ UNCHANGED <<panic_callback, writer, woken>>

\* The callback returns, or panics and is caught.
CallbackEnd(c) ==
  /\ call[c].phase = "callback" /\ writer # c
  /\ Goes(c, [call[c] EXCEPT !.phase = "payload"])
  /\ UNCHANGED <<lockVars, woken>>

\* Mutant: the join reports the first panic only.
MutDropPayload(c) ==
  LET k == call[c] IN
  /\ k.phase = "payload"
  /\ Goes(c, IF k.join THEN [k EXCEPT !.phase = "ready"] ELSE NextEntry(k))
  /\ UNCHANGED <<lockVars, woken>>

\* drop(payload); the loop that called handle_panic goes on.
DropPayload(c) ==
  LET k == call[c] IN
  /\ k.phase = "payload"
  /\ Goes(c, IF k.join THEN [k EXCEPT !.phase = "report", !.at = @ + 1]
             ELSE NextEntry(k))
  /\ UNCHANGED <<lockVars, woken>>

\* The Drop of a finished future, of a payload or of what the callback threw
\* panics outside any catch_unwind: the unwinding leaves the poll.
Unwind(c) ==
  LET k == call[c] IN
  /\ c \in Dropper
  /\ writer # c
  /\ \/ /\ k.phase = "poll" /\ k.at <= Len(k.slots)
        /\ k.slots[k.at].state \in {"fresh", "signalled"}
     \/ k.phase \in {"callback", "payload"}
  /\ Goes(c, [NoCall EXCEPT !.phase = "unwound"])
  /\ woken' = woken \ {c}
  /\ UNCHANGED lockVars

\* on_panic and clear_panic_callback take the write lock, also from inside
\* the callback ...
SetBegin(a) ==
  /\ a \in Call => call[a].phase = "callback"
  /\ writer = NULL /\ reading = {}
  /\ writer' = a
  /\ UNCHANGED <<listVars, panic_callback, reading, call, woken>>

\* ... and the old callback is dropped before it is released.
SetEnd(a) ==
  /\ writer = a
  /\ panic_callback' \in BOOLEAN
  /\ writer' = NULL
  /\ UNCHANGED <<listVars, reading, call, woken>>

-----------------------------------------------------------------------------
\* The steps inside a poll.
Proceed(c) ==
  \/ Start(c) \/ PollSlot(c) \/ PollEnd(c) \/ Report(c) \/ CloneCallback(c)
  \/ DropPayload(c)

Next ==
  \/ RegisterWithPriority \/ Unregister \/ Clear
  \/ \E c \in Call :
       \/ Notify(c) \/ FirstPoll(c) \/ Poll(c) \/ Drop(c) \/ Wake(c)
       \/ Proceed(c) \/ ReadLock(c) \/ CallbackEnd(c) \/ Unwind(c)
  \/ \E a \in Call \cup Setter : SetBegin(a) \/ SetEnd(a)

Spec == Init /\ [][Next]_vars

\* A poll runs to its end; the callback's lock is not starved and callbacks
\* return; the executor polls a call that has been woken; and what a handler
\* awaits comes.
FairSpec ==
  /\ Spec
  /\ \A c \in Call :
       /\ WF_vars(Proceed(c))
       /\ SF_vars(ReadLock(c)) /\ SF_vars(CallbackEnd(c))
       /\ WF_vars(FirstPoll(c)) /\ WF_vars(c \in woken /\ Poll(c))
       /\ WF_vars(Wake(c))
  /\ \A a \in Call \cup Setter : WF_vars(SetEnd(a))

-----------------------------------------------------------------------------
(* Properties *)

Phases == {"none", "created", "start", "poll", "suspended", "report", "fetch",
           "clone", "callback", "payload", "ready", "unwound"}

Entry == [id : 1..MaxId, priority : Priority]

CallOK(k) ==
  /\ k.phase \in Phases
  /\ k.join \in BOOLEAN
  /\ k.list \in Seq(Entry) /\ DOMAIN k.slots = DOMAIN k.list
  /\ \A i \in DOMAIN k.slots :
       k.slots[i] \in {Is(s) : s \in Running \cup {"unstarted", "done"}}
                        \cup AnyPanic
  /\ k.at \in 0..(Len(k.list) + 1)
  /\ k.running \in 0..Len(k.list)

TypeOK ==
  /\ handlers \in Seq(Entry)
  /\ drawn \subseteq 1..MaxId
  /\ panic_callback \in BOOLEAN
  /\ writer \in Call \cup Setter \cup {NULL}
  /\ reading \subseteq Call
  /\ \A c \in Call : CallOK(call[c])
  /\ woken \subseteq Call

\* The handlers up to i that have panicked.
PanicsTo(k, i) == {h \in 1..i : k.slots[h].state = "panicked"}

\* The panics of the first n handlers, and no other, have been handled: in
\* list order, each once and with the id and the payload of its handler.
Reported(k, n) ==
  /\ Len(k.handled) = Cardinality(PanicsTo(k, n))
  /\ \A i \in PanicsTo(k, n) :
       k.handled[Cardinality(PanicsTo(k, i))] =
         PanicInfo(k.list[i].id, k.slots[i].payload)

\* async_registry/mod.rs:461-467: every panic of a concurrent dispatch is
\* handled once, with the id and the payload of its own handler, in priority
\* order and after all handlers have finished; a sequential dispatch handles
\* it before the next handler starts.
ReportsInOrder ==
  \A c \in Call : LET k == call[c] IN
    /\ k.phase \in {"fetch", "clone", "callback", "payload"} => Reported(k, k.at)
    /\ k.phase \in {"start", "poll", "suspended"} =>
         IF k.join THEN k.handled = <<>> ELSE Reported(k, k.at - 1)
    /\ k.phase = "ready" => Reported(k, Len(k.list))

\* A notify is ready only after every handler of the list it loaded has
\* finished, whatever became of the registrations since; and the counter of
\* the join is exact whenever it is read.
AllFinished ==
  \A c \in Call : LET k == call[c] IN
    /\ k.phase = "ready" \/ (k.join /\ k.handled # <<>>) =>
         \A i \in DOMAIN k.slots : k.slots[i].state \in {"done", "panicked"}
    /\ k.join /\ k.phase \in {"poll", "suspended"} =>
         k.running = Cardinality({i \in DOMAIN k.slots :
                                    k.slots[i].state \in Running})

\* async_registry/mod.rs:547-549: in a sequential dispatch a handler is
\* started after every handler before it has finished.
OneAfterTheOther ==
  \A c \in Call : LET k == call[c] IN
    ~k.join => \A i, j \in DOMAIN k.slots :
      i < j /\ k.slots[j].state # "unstarted"
        => k.slots[i].state \in {"done", "panicked"}

\* A suspended call that nothing will wake waits for every future it still
\* runs: each has been polled with the waker of the call, so the handlers of
\* a concurrent dispatch make progress independently of each other.
NoLostWake ==
  \A c \in Call : LET k == call[c] IN
    k.phase = "suspended" /\ c \notin woken =>
      \A i \in DOMAIN k.slots : k.slots[i].state \notin {"fresh", "signalled"}

\* A callback runs without the lock of panic_callback, so it may call
\* on_panic and clear_panic_callback itself.
CallbackUnlocked ==
  \A c \in Call : call[c].phase = "callback" => c \notin reading

\* If its owner keeps it and what its handlers await comes, a notify ends.
NotifyEnds ==
  \A c \in Call :
    call[c].phase = "created"
      ~> call[c].phase \in {"none", "ready", "unwound"}
=============================================================================
