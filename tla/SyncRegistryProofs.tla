------------------------- MODULE SyncRegistryProofs -------------------------
(***************************************************************************)
(* SyncRegistry for any number of threads, handlers, priorities, slots and *)
(* nested dispatches: the order of the list, what a waiting removal        *)
(* outlasts, the single run of a once handler, and what a dispatch with    *)
(* panics owes its handlers and the panic callback.                        *)
(***************************************************************************)
EXTENDS SyncRegistry, HandlerListProofs

\* The notify calls and the other calls a thread can be in.
Frame == [list : Seq(Entry), version : Nat, announced : BOOLEAN, at : Nat,
          called : Seq(Id), phase : Phases, panicked : BOOLEAN, since : Nat,
          callback : Nat]
Ops == {NoOp} \cup [name : {"insert"}, entry : Entry]
         \cup [name : {"wait"}, ids : SUBSET Id, since : Nat]
         \cup [name : {"return"}, ids : SUBSET Id]

Types ==
  /\ handlers \in Seq(Entry) /\ version \in Nat /\ next_id \in Nat
  /\ full \subseteq Id
  /\ panic_callback \in [epoch : Nat, set : BOOLEAN]
  /\ stack \in [Thread -> Seq(Frame)]
  /\ op \in [Thread -> Ops]
  /\ returned \subseteq Id /\ gone \subseteq returned
  /\ before \in [Id -> SUBSET Id]

\* An id is given out once; those given out are below next_id.
Inserting(t) == op[t].name = "insert"
IdInv ==
  /\ \A id \in returned : id < next_id
  /\ \A id \in Id : before[id] \subseteq returned
  /\ \A t \in Thread : Inserting(t) =>
       op[t].entry.id \notin returned /\ op[t].entry.id < next_id
  /\ \A t, u \in Thread : Inserting(t) /\ Inserting(u) /\ t # u =>
       op[t].entry.id # op[u].entry.id

ListInv == FiringOrder /\ LiveList /\ Distinct(handlers)

\* A dispatch: where it is in its list, and what it knows of a panic.
FrameOf(f, v, epoch, ids) ==
  /\ f.at \in 0..Len(f.list) /\ f.version <= v
  /\ f.phase # "next" => f.at > 0
  /\ f.since <= epoch /\ f.callback <= epoch
  /\ f.phase = "callback" => f.callback >= f.since
  /\ f.phase \in {"count", "fetch", "callback", "payload"} => f.panicked
  /\ Ids(f.list) \subseteq ids
FrameInv(f) == FrameOf(f, version, panic_callback.epoch, returned)

StackInv == \A t \in Thread : \A k \in DOMAIN stack[t] : FrameInv(stack[t][k])

\* What a wait will have outlasted: the lists stored since its removal hold
\* nothing of what it removed.
Without(f, ids) == \A j \in DOMAIN f.list : f.list[j].id \notin ids
WaitKept(t) ==
  /\ op[t].name = "wait" =>
       /\ op[t].ids \subseteq gone
       /\ \A u \in Thread : \A k \in DOMAIN stack[u] :
            stack[u][k].version >= op[t].since => Without(stack[u][k], op[t].ids)
  /\ op[t].name = "return" =>
       /\ op[t].ids \subseteq gone
       /\ \A u \in Thread \ {t} : \A k \in DOMAIN stack[u] :
            stack[u][k].announced \/ ~OnFallback(t) =>
              Without(stack[u][k], op[t].ids)
WaitsKept == \A t \in Thread : WaitKept(t)

\* One id, one kind of handler: whether it is a once handler is the same in
\* every list.
Kinds ==
  \A t \in Thread : \A k \in DOMAIN stack[t] :
    \A i \in DOMAIN stack[t][k].list, j \in DOMAIN handlers :
      stack[t][k].list[i].id = handlers[j].id =>
        stack[t][k].list[i].once = handlers[j].once

\* A once handler that is being registered has not run.
OnceInv ==
  /\ Kinds
  /\ \A t \in Thread : Inserting(t) /\ op[t].entry.once => op[t].entry.id \in full
  /\ \A t \in Thread : Len(stack[t]) <= MaxDepth
  /\ \A id \in Id : (\E j \in DOMAIN handlers : handlers[j].once /\ handlers[j].id = id) =>
       /\ id \in full => FramesInside(id) = {}
       /\ id \notin full => \E e : FramesInside(id) = {e}

RegistryInv == Types /\ IdInv /\ ListInv /\ StackInv /\ WaitsKept /\ OnceInv

\* The counters: a list is stored for an id that comes or for ids that go.
BoundInv ==
  /\ version <= Cardinality(returned) + Cardinality(gone)
  /\ next_id \in 1..(MaxId + 1)
  /\ \A id \in full : id < next_id
  /\ panics \in Nat
  /\ panic_callback.epoch <= MaxEpoch
  /\ \A t \in Thread :
       /\ op[t].name = "wait" => op[t].since \in 1..version
       /\ op[t].name \in {"wait", "return"} => op[t].ids \subseteq returned

\* Priorities are integers, as the lemmas on lists ask.
LEMMA EntriesPrioritised == Prioritised(Entry)
  BY ConstantsAssumption, Zenon DEF Prioritised, Entry

-----------------------------------------------------------------------------
(* How the stack of a thread moves *)

Move(t) == Write(t) \/ Dispatch(t)

\* A call is begun, the innermost call is over, or it goes on as f.
Pushed(t) ==
  /\ Len(stack'[t]) = Len(stack[t]) + 1
  /\ \A k \in 1..Len(stack[t]) : stack'[t][k] = stack[t][k]
  /\ stack'[t][Len(stack[t]) + 1] =
       [list |-> handlers, version |-> version, announced |-> SlotFree(t),
        at |-> 0, called |-> << >>, phase |-> "next", panicked |-> FALSE, since |-> 0,
        callback |-> 0]
Popped(t) ==
  /\ stack[t] # <<>>
  /\ Len(stack'[t]) = Len(stack[t]) - 1
  /\ \A k \in 1..(Len(stack[t]) - 1) : stack'[t][k] = stack[t][k]
Topped(t, f) ==
  /\ stack[t] # <<>> /\ f \in Frame
  /\ Len(stack'[t]) = Len(stack[t])
  /\ \A k \in 1..(Len(stack[t]) - 1) : stack'[t][k] = stack[t][k]
  /\ stack'[t][Len(stack[t])] = f

\* The stack of t is a sequence of frames and the others stay.
OnlyHere(t) ==
  /\ stack' \in [Thread -> Seq(Frame)]
  /\ \A u \in Thread \ {t} : stack'[u] = stack[u]

\* The innermost call is a frame.
LEMMA TopIsFrame ==
  ASSUME stack \in [Thread -> Seq(Frame)], NEW t \in Thread, stack[t] # <<>>
  PROVE  Top(t) \in Frame /\ Len(stack[t]) \in 1..Len(stack[t])
<1>1. PICK s \in Seq(Frame) : s = stack[t] /\ s # <<>>
  BY Zenon
<1>2. s[Len(s)] \in Frame /\ Len(s) \in 1..Len(s)
  BY <1>1
<1> QED
  BY <1>1, <1>2, Zenon DEF Top

\* The innermost call goes on.
LEMMA TopMoves ==
  ASSUME stack \in [Thread -> Seq(Frame)], NEW t \in Thread, stack[t] # <<>>,
         NEW f \in Frame, Goes(t, f)
  PROVE  OnlyHere(t) /\ Topped(t, f)
<1>1. PICK s \in Seq(Frame) : s = stack[t] /\ s # <<>>
  BY Zenon
<1>2. PICK z : z = [s EXCEPT ![Len(s)] = f]
  BY Zenon
<1>3. /\ z \in Seq(Frame) /\ Len(z) = Len(s) /\ z[Len(s)] = f
      /\ \A k \in 1..(Len(s) - 1) : z[k] = s[k]
  BY <1>1, <1>2
<1>4. stack' = [stack EXCEPT ![t] = z]
  BY <1>1, <1>2, Zenon DEF Goes
<1>5. stack' \in [Thread -> Seq(Frame)] /\ stack'[t] = z
      /\ \A u \in Thread \ {t} : stack'[u] = stack[u]
  BY <1>3, <1>4, Zenon
<1> QED
  BY <1>1, <1>3, <1>5, Zenon DEF OnlyHere, Topped

\* The innermost call changes its phase.
LEMMA PhaseMoves ==
  ASSUME stack \in [Thread -> Seq(Frame)], NEW t \in Thread, NEW from,
         NEW to \in Phases, Phase(t, from, to)
  PROVE  /\ Top(t).phase = from /\ op[t] = NoOp /\ stack[t] # <<>>
         /\ OnlyHere(t) /\ Topped(t, [Top(t) EXCEPT !.phase = to])
<1>1. Top(t).phase = from /\ op[t] = NoOp /\ stack[t] # <<>>
  BY Zenon DEF Phase
<1>2. Top(t) \in Frame
  BY <1>1, TopIsFrame, Zenon
<1>3. [Top(t) EXCEPT !.phase = to] \in Frame
  BY <1>2, Zenon DEF Frame
<1>4. Goes(t, [Top(t) EXCEPT !.phase = to])
  BY Zenon DEF Phase, Goes, Top
<1> QED
  BY <1>1, <1>3, <1>4, TopMoves, Zenon

\* A stack without its innermost call.
LEMMA Shorter ==
  ASSUME NEW s \in Seq(Frame), s # <<>>, NEW z, z = SubSeq(s, 1, Len(s) - 1)
  PROVE  z \in Seq(Frame) /\ Len(z) = Len(s) - 1 /\ \A k \in 1..(Len(s) - 1) : z[k] = s[k]
<1>1. Len(s) \in Nat /\ Len(s) > 0 /\ DOMAIN s = 1..Len(s)
      /\ \A k \in 1..Len(s) : s[k] \in Frame
  OBVIOUS
<1> QED
  BY <1>1

\* The innermost call is over.
LEMMA PopMoves ==
  ASSUME stack \in [Thread -> Seq(Frame)], NEW t \in Thread, stack[t] # <<>>, Pop(t)
  PROVE  OnlyHere(t) /\ Popped(t)
<1>1. PICK s \in Seq(Frame) : s = stack[t] /\ s # <<>>
  BY Zenon
<1>2. PICK z : z = SubSeq(s, 1, Len(s) - 1)
  BY Zenon
<1>3. z \in Seq(Frame) /\ Len(z) = Len(s) - 1 /\ \A k \in 1..(Len(s) - 1) : z[k] = s[k]
  BY <1>1, <1>2, Shorter, Zenon
<1>4. stack' = [stack EXCEPT ![t] = z]
  BY <1>1, <1>2, Zenon DEF Pop
<1>5. stack' \in [Thread -> Seq(Frame)] /\ stack'[t] = z
      /\ \A u \in Thread \ {t} : stack'[u] = stack[u]
  BY <1>3, <1>4, Zenon
<1> QED
  BY <1>1, <1>3, <1>5, Zenon DEF OnlyHere, Popped

\* A call is begun.
LEMMA PushMoves ==
  ASSUME Types, NEW t \in Thread, Notify(t)
  PROVE  OnlyHere(t) /\ Pushed(t) /\ Len(stack[t]) < MaxDepth
<1>1. PICK s \in Seq(Frame) : s = stack[t]
  BY Zenon DEF Types
<1>2. PICK f : f = [list |-> handlers, version |-> version, announced |-> SlotFree(t),
                    at |-> 0, called |-> << >>, phase |-> "next", panicked |-> FALSE,
                    since |-> 0, callback |-> 0]
  BY Zenon
<1>3. f \in Frame
  <2>1. SlotFree(t) \in BOOLEAN
    BY SMT DEF SlotFree
  <2>2. handlers \in Seq(Entry) /\ version \in Nat
    BY Zenon DEF Types
  <2> QED
    BY <1>2, <2>1, <2>2 DEF Frame, Phases
<1>4. PICK z : z = Append(s, f)
  BY Zenon
<1>5. /\ z \in Seq(Frame) /\ Len(z) = Len(s) + 1 /\ z[Len(s) + 1] = f
      /\ \A k \in 1..Len(s) : z[k] = s[k]
  BY <1>3, <1>4
<1>6. stack' = [stack EXCEPT ![t] = z] /\ Len(stack[t]) < MaxDepth
  BY <1>1, <1>2, <1>4, Zenon DEF Notify
<1>7. stack' \in [Thread -> Seq(Frame)] /\ stack'[t] = z
      /\ \A u \in Thread \ {t} : stack'[u] = stack[u]
  BY <1>5, <1>6, Zenon DEF Types
<1> QED
  BY <1>1, <1>2, <1>5, <1>6, <1>7, Zenon DEF OnlyHere, Pushed

\* What the steps of a dispatch make of its frame.
AfterRun(f) ==
  [f EXCEPT !.at = @ + 1, !.called = Append(@, f.list[f.at + 1].id), !.phase = "handler"]
AfterSkip(f) == [f EXCEPT !.at = @ + 1]
AfterReturn(f) == [f EXCEPT !.phase = IF Running(f).once THEN "remove" ELSE "next"]
AfterPanic(f) ==
  [f EXCEPT !.panicked = TRUE, !.since = panic_callback.epoch,
            !.phase = IF Running(f).once THEN "remove" ELSE "count"]
AfterRemove(f) == [f EXCEPT !.phase = IF f.panicked THEN "count" ELSE "next"]
AfterCount(f) == [f EXCEPT !.phase = "fetch"]
AfterFetch(f) ==
  [f EXCEPT !.callback = panic_callback.epoch,
            !.phase = IF panic_callback.set THEN "callback" ELSE "payload"]
AfterCallback(f) == [f EXCEPT !.phase = "payload"]
AfterPayload(f) ==
  [f EXCEPT !.phase = "next", !.panicked = FALSE, !.since = 0, !.callback = 0]

\* In phase from the innermost call of t goes on as f.
Continues(t, from, f) ==
  /\ op[t] = NoOp /\ stack[t] # <<>> /\ Top(t).phase = from
  /\ OnlyHere(t) /\ Topped(t, f)

\* The steps that change the frame of the innermost call.
LEMMA TopSteps ==
  ASSUME Types, NEW t \in Thread
  PROVE  /\ Run(t) => Continues(t, "next", AfterRun(Top(t)))
         /\ Skip(t) => Continues(t, "next", AfterSkip(Top(t)))
         /\ HandlerReturn(t) => Continues(t, "handler", AfterReturn(Top(t)))
         /\ HandlerPanic(t) => Continues(t, "handler", AfterPanic(Top(t)))
         /\ RemoveOnDrop(t) => Continues(t, "remove", AfterRemove(Top(t)))
         /\ CountPanic(t) => Continues(t, "count", AfterCount(Top(t)))
         /\ FetchCallback(t) => Continues(t, "fetch", AfterFetch(Top(t)))
         /\ CallbackEnd(t) => Continues(t, "callback", AfterCallback(Top(t)))
         /\ DropPayload(t) => Continues(t, "payload", AfterPayload(Top(t)))
<1>1. stack \in [Thread -> Seq(Frame)]
  BY Zenon DEF Types
<1>2. panic_callback.epoch \in Nat
  BY Zenon DEF Types
<1>3. stack[t] # <<>> => Top(t) \in Frame
  BY <1>1, TopIsFrame, Zenon
<1>4. ASSUME NEW from, NEW f \in Frame, op[t] = NoOp, stack[t] # <<>>,
             Top(t).phase = from, Goes(t, f)
      PROVE  Continues(t, from, f)
  BY <1>1, <1>4, TopMoves, Zenon DEF Continues
<1>5. ASSUME NEW from, NEW to \in Phases, Phase(t, from, to)
      PROVE  Continues(t, from, [Top(t) EXCEPT !.phase = to])
  BY <1>1, <1>5, PhaseMoves, Zenon DEF Continues
<1>6. ASSUME Run(t) PROVE Continues(t, "next", AfterRun(Top(t)))
  <2>1. op[t] = NoOp /\ stack[t] # <<>> /\ Top(t).phase = "next" /\ Goes(t, AfterRun(Top(t)))
    BY <1>6, Zenon DEF Run, AfterRun
  <2>2. AfterRun(Top(t)) \in Frame
    <3>1. PICK f \in Frame : f = Top(t)
      BY <1>3, <2>1, Zenon
    <3>2. f.list \in Seq(Entry) /\ f.at \in Nat /\ f.called \in Seq(Id) /\ f.at < Len(f.list)
      BY <1>6, <3>1 DEF Run, Frame
    <3>3. PICK c \in Seq(Id) : c = Append(f.called, f.list[f.at + 1].id)
      <4>1. f.list[f.at + 1] \in Entry
        BY <3>2
      <4>2. f.list[f.at + 1].id \in Id
        BY <4>1 DEF Entry
      <4>3. \A c \in Seq(Id), x \in Id : Append(c, x) \in Seq(Id)
        OBVIOUS
      <4> QED
        BY <3>2, <4>2, <4>3, Zenon
    <3>4. PICK m \in Nat : m = f.at + 1
      BY <3>2
    <3>5. [f EXCEPT !.at = m, !.called = c, !.phase = "handler"] \in Frame
      BY Zenon DEF Frame, Phases
    <3> QED
      BY <3>1, <3>3, <3>4, <3>5, Zenon DEF AfterRun
  <2> QED
    BY <1>4, <2>1, <2>2, Zenon
<1>7. ASSUME Skip(t) PROVE Continues(t, "next", AfterSkip(Top(t)))
  <2>1. op[t] = NoOp /\ stack[t] # <<>> /\ Top(t).phase = "next" /\ Goes(t, AfterSkip(Top(t)))
    BY <1>7, Zenon DEF Skip, AfterSkip
  <2>2. AfterSkip(Top(t)) \in Frame
    BY <1>3, <2>1 DEF AfterSkip, Frame, Phases
  <2> QED
    BY <1>4, <2>1, <2>2, Zenon
<1>8. ASSUME HandlerReturn(t) PROVE Continues(t, "handler", AfterReturn(Top(t)))
  BY <1>5, <1>8, Zenon DEF HandlerReturn, AfterReturn, Phases
<1>9. ASSUME HandlerPanic(t) PROVE Continues(t, "handler", AfterPanic(Top(t)))
  <2>1. /\ op[t] = NoOp /\ stack[t] # <<>> /\ Top(t).phase = "handler"
        /\ Goes(t, AfterPanic(Top(t)))
    BY <1>9, Zenon DEF HandlerPanic, AfterPanic
  <2>2. AfterPanic(Top(t)) \in Frame
    BY <1>2, <1>3, <2>1, Zenon DEF AfterPanic, Frame, Phases
  <2> QED
    BY <1>4, <2>1, <2>2, Zenon
<1>10. ASSUME RemoveOnDrop(t) PROVE Continues(t, "remove", AfterRemove(Top(t)))
  BY <1>5, <1>10, Zenon DEF RemoveOnDrop, AfterRemove, Phases
<1>11. ASSUME CountPanic(t) PROVE Continues(t, "count", AfterCount(Top(t)))
  BY <1>5, <1>11, Zenon DEF CountPanic, AfterCount, Phases
<1>12. ASSUME FetchCallback(t) PROVE Continues(t, "fetch", AfterFetch(Top(t)))
  <2>1. /\ op[t] = NoOp /\ stack[t] # <<>> /\ Top(t).phase = "fetch"
        /\ Goes(t, AfterFetch(Top(t)))
    BY <1>12, Zenon DEF FetchCallback, AfterFetch
  <2>2. AfterFetch(Top(t)) \in Frame
    BY <1>2, <1>3, <2>1, Zenon DEF AfterFetch, Frame, Phases
  <2> QED
    BY <1>4, <2>1, <2>2, Zenon
<1>13. ASSUME CallbackEnd(t) PROVE Continues(t, "callback", AfterCallback(Top(t)))
  BY <1>5, <1>13, Zenon DEF CallbackEnd, AfterCallback, Phases
<1>14. ASSUME DropPayload(t) PROVE Continues(t, "payload", AfterPayload(Top(t)))
  <2>1. /\ op[t] = NoOp /\ stack[t] # <<>> /\ Top(t).phase = "payload"
        /\ Goes(t, AfterPayload(Top(t)))
    BY <1>14, Zenon DEF DropPayload, AfterPayload
  <2>2. AfterPayload(Top(t)) \in Frame
    BY <1>3, <2>1, Zenon DEF AfterPayload, Frame, Phases
  <2> QED
    BY <1>4, <2>1, <2>2, Zenon
<1> QED
  BY <1>6, <1>7, <1>8, <1>9, <1>10, <1>11, <1>12, <1>13, <1>14, Zenon

\* The step that goes on with the frame f keeps the list of the dispatch.
Keeps(t, f) ==
  f.list = Top(t).list /\ f.version = Top(t).version /\ f.announced = Top(t).announced

\* Every move of a thread, as far as its stack goes.
LEMMA StackMoves ==
  ASSUME Types, NEW t \in Thread, Move(t)
  PROVE  /\ OnlyHere(t)
         /\ \/ stack'[t] = stack[t]
            \/ /\ op[t] = NoOp
               /\ \/ Pushed(t) /\ Len(stack[t]) < MaxDepth
                  \/ Popped(t)
                  \/ \E f : Topped(t, f) /\ Keeps(t, f)
<1>1. stack \in [Thread -> Seq(Frame)]
  BY Zenon DEF Types
<1>2. CASE stack' = stack
  BY <1>1, <1>2, Zenon DEF OnlyHere
<1>3. CASE Notify(t)
  BY <1>3, PushMoves, Zenon DEF Notify, User
<1>4. CASE NotifyReturn(t) \/ PayloadUnwinds(t)
  <2>1. stack[t] # <<>> /\ Pop(t) /\ op[t] = NoOp
    BY <1>4, Zenon DEF NotifyReturn, PayloadUnwinds
  <2> QED
    BY <1>1, <2>1, PopMoves, Zenon
<1>5. ASSUME NEW from, NEW f, Continues(t, from, f), Keeps(t, f)
      PROVE  OnlyHere(t) /\ op[t] = NoOp /\ \E g : Topped(t, g) /\ Keeps(t, g)
  BY <1>5, Zenon DEF Continues
<1>6. ASSUME stack[t] # <<>>
      PROVE  /\ Keeps(t, AfterRun(Top(t))) /\ Keeps(t, AfterSkip(Top(t)))
             /\ Keeps(t, AfterReturn(Top(t))) /\ Keeps(t, AfterPanic(Top(t)))
             /\ Keeps(t, AfterRemove(Top(t))) /\ Keeps(t, AfterCount(Top(t)))
             /\ Keeps(t, AfterFetch(Top(t))) /\ Keeps(t, AfterCallback(Top(t)))
             /\ Keeps(t, AfterPayload(Top(t)))
  <2>1. PICK f \in Frame : f = Top(t)
    BY <1>1, <1>6, TopIsFrame, Zenon
  <2> QED
    BY <2>1 DEF Keeps, AfterRun, AfterSkip, AfterReturn, AfterPanic, AfterRemove,
       AfterCount, AfterFetch, AfterCallback, AfterPayload, Frame
<1>7. \A from, f : Continues(t, from, f) => stack[t] # <<>>
  BY Zenon DEF Continues
<1>8. CASE Run(t) \/ Skip(t) \/ HandlerReturn(t)
  BY <1>5, <1>6, <1>7, <1>8, TopSteps, Zenon
<1>9. CASE HandlerPanic(t) \/ RemoveOnDrop(t) \/ CountPanic(t)
  BY <1>5, <1>6, <1>7, <1>9, TopSteps, Zenon
<1>10. CASE FetchCallback(t) \/ CallbackEnd(t) \/ DropPayload(t)
  BY <1>5, <1>6, <1>7, <1>10, TopSteps, Zenon
<1>11. CASE Write(t)
  <2>1. stack' = stack
    BY <1>11, Zenon DEF Write, RegisterWithPriority, RegisterOnce, Draw, InsertEntry,
       Unregister, Clear, UnregisterAndWait, ClearAndWait, WaitForRetiredReaders,
       Return, SetCallback
  <2> QED
    BY <1>2, <2>1, Zenon
<1> QED
  BY <1>3, <1>4, <1>8, <1>9, <1>10, <1>11, Zenon DEF Move, Dispatch

-----------------------------------------------------------------------------
(* How the list moves *)

\* An id is removed, all are, or the list stays.
Removes(id) ==
  /\ ContainsId(handlers, id) /\ handlers' = RemoveId(handlers, id)
  /\ version' = version + 1 /\ gone' = gone \cup {id} /\ returned' = returned
RemovesAll ==
  /\ handlers # <<>> /\ handlers' = <<>>
  /\ version' = version + 1 /\ gone' = returned /\ returned' = returned
Stays == handlers' = handlers /\ version' = version /\ gone' = gone /\ returned' = returned

Draws(t) ==
  \E priority \in Priority, once \in BOOLEAN :
    /\ Draw(t, priority, once)
    /\ full' = IF once THEN full \cup {next_id} ELSE full

\* Every move of a thread, as far as the list and the ids go.
LEMMA ListMoves ==
  ASSUME Types, StackInv, NEW t \in Thread, Move(t)
  PROVE  /\ \/ Stays
            \/ InsertEntry(t)
            \/ \E id \in returned : Removes(id)
            \/ RemovesAll
         /\ Draws(t) \/ UNCHANGED <<next_id, before>>
<1> USE DEF listVars, idVars, panicVars
<1>1. ASSUME NEW id \in returned, RemoveEntry(id), returned' = returned
      PROVE  Stays \/ Removes(id)
  BY <1>1, Zenon DEF RemoveEntry, Store, Stays, Removes
<1>2. ASSUME RemoveAll, returned' = returned
      PROVE  Stays \/ RemovesAll
  BY <1>2, Zenon DEF RemoveAll, Store, Stays, RemovesAll
<1>3. CASE RegisterWithPriority(t)
  <2>1. PICK priority \in Priority : Draw(t, priority, FALSE) /\ full' = full
    BY <1>3, Zenon DEF RegisterWithPriority
  <2>2. Draws(t)
    BY <2>1, Zenon DEF Draws
  <2>3. Stays
    BY <2>1, Zenon DEF Draw, Stays
  <2> QED
    BY <2>2, <2>3, Zenon
<1>4. CASE RegisterOnce(t)
  <2>1. Draw(t, 0, TRUE) /\ full' = full \cup {next_id}
    BY <1>4, Zenon DEF RegisterOnce
  <2>2. Draws(t)
    BY <2>1, ConstantsAssumption, Zenon DEF Draws
  <2>3. Stays
    BY <2>1, Zenon DEF Draw, Stays
  <2> QED
    BY <2>2, <2>3, Zenon
<1>5. CASE InsertEntry(t)
  BY <1>5, Zenon DEF InsertEntry
<1>6. CASE Unregister(t)
  <2>1. PICK id \in returned : RemoveEntry(id) /\ UNCHANGED idVars
    BY <1>6, Zenon DEF Unregister
  <2> QED
    BY <1>1, <2>1, Zenon
<1>7. CASE Clear(t)
  BY <1>2, <1>7, Zenon DEF Clear
<1>8. CASE UnregisterAndWait(t)
  <2>1. PICK id \in returned : RemoveEntry(id) /\ UNCHANGED idVars
    BY <1>8, Zenon DEF UnregisterAndWait
  <2> QED
    BY <1>1, <2>1, Zenon
<1>9. CASE ClearAndWait(t)
  BY <1>2, <1>9, Zenon DEF ClearAndWait
<1>10. CASE WaitForRetiredReaders(t) \/ Return(t) \/ SetCallback(t)
  BY <1>10, Zenon DEF WaitForRetiredReaders, Return, SetCallback, Stays
<1>11. CASE RemoveOnDrop(t)
  <2>1. /\ RemoveEntry(Running(Top(t)).id) /\ UNCHANGED idVars
        /\ stack[t] # <<>> /\ Top(t).phase = "remove"
    BY <1>11, Zenon DEF RemoveOnDrop, Phase
  <2>2. Running(Top(t)).id \in returned
    <3>1. stack \in [Thread -> Seq(Frame)]
      BY Zenon DEF Types
    <3>2. Top(t) \in Frame /\ Len(stack[t]) \in 1..Len(stack[t]) /\ stack[t] \in Seq(Frame)
      BY <2>1, <3>1, TopIsFrame, Zenon
    <3>3. DOMAIN stack[t] = 1..Len(stack[t])
      BY <3>2
    <3>4. FrameInv(Top(t))
      BY <3>2, <3>3, Zenon DEF StackInv, Top
    <3>5. PICK f \in Frame : f = Top(t) /\ f.phase = "remove" /\ FrameInv(f)
      BY <2>1, <3>2, <3>4, Zenon
    <3>6. f.at \in DOMAIN f.list
      <4>1. f.at \in 0..Len(f.list) /\ f.at > 0
        BY <3>5 DEF FrameInv, FrameOf
      <4>2. f.list \in Seq(Entry)
        BY DEF Frame
      <4> QED
        BY <4>1, <4>2
    <3>7. Running(f).id \in Ids(f.list)
      BY <3>6, Zenon DEF Running, Ids
    <3> QED
      BY <3>5, <3>7, Zenon DEF FrameInv, FrameOf
  <2> QED
    BY <1>1, <2>1, <2>2, Zenon
<1>12. CASE Notify(t) \/ Run(t) \/ Skip(t) \/ HandlerReturn(t) \/ HandlerPanic(t) \/ NotifyReturn(t)
  BY <1>12, Zenon DEF Notify, Run, Skip, HandlerReturn, HandlerPanic, NotifyReturn, Stays
<1>13. CASE CountPanic(t) \/ FetchCallback(t) \/ CallbackEnd(t) \/ DropPayload(t) \/ PayloadUnwinds(t)
  BY <1>13, Zenon DEF CountPanic, FetchCallback, CallbackEnd, DropPayload, PayloadUnwinds, Stays
<1> QED
  BY <1>3, <1>4, <1>5, <1>6, <1>7, <1>8, <1>9, <1>10, <1>11, <1>12, <1>13, Zenon
     DEF Move, Write, Dispatch

\* The call that inserts has an entry.
LEMMA HasEntry ==
  ASSUME Types, NEW t \in Thread, Inserting(t)
  PROVE  op[t].entry \in Entry /\ op[t].entry.id \in Id
<1>1. PICK o \in Ops : o = op[t] /\ o.name = "insert"
  BY Zenon DEF Types, Inserting
<1>2. o.entry \in Entry
  BY <1>1 DEF Ops, NoOp
<1>3. o.entry.id \in Id
  BY <1>2, Zenon DEF Entry
<1> QED
  BY <1>1, <1>2, <1>3, Zenon

\* The sizes behind LiveList.
LEMMA Sizes ==
  ASSUME NEW R, R \subseteq Id, NEW G, G \subseteq R
  PROVE  /\ \A x \in Id \ R : Cardinality((R \cup {x}) \ G) = Cardinality(R \ G) + 1
         /\ \A x \in R \ G : Cardinality(R \ (G \cup {x})) = Cardinality(R \ G) - 1
         /\ Cardinality(R \ R) = 0
         /\ Cardinality(R \ G) \in Nat
<1>1. IsFiniteSet(Id)
  BY FS_Interval, ConstantsAssumption DEF Id
<1>2. IsFiniteSet(R \ G)
  BY <1>1, FS_Subset, Zenon
<1>3. Cardinality(R \ G) \in Nat
  BY <1>2, FS_CardinalityType, Zenon
<1>4. ASSUME NEW x \in Id \ R PROVE Cardinality((R \cup {x}) \ G) = Cardinality(R \ G) + 1
  <2>1. (R \cup {x}) \ G = (R \ G) \cup {x} /\ x \notin R \ G
    BY Zenon
  <2>2. Cardinality((R \ G) \cup {x}) = Cardinality(R \ G) + 1
    BY <1>2, <2>1, FS_AddElement
  <2> QED
    BY <2>1, <2>2, Zenon
<1>5. ASSUME NEW x \in R \ G PROVE Cardinality(R \ (G \cup {x})) = Cardinality(R \ G) - 1
  <2>1. R \ (G \cup {x}) = (R \ G) \ {x}
    BY Zenon
  <2>2. Cardinality((R \ G) \ {x}) = Cardinality(R \ G) - 1
    BY <1>2, FS_RemoveElement, Zenon
  <2> QED
    BY <2>1, <2>2, Zenon
<1>6. Cardinality(R \ R) = 0
  <2>1. R \ R = {}
    BY Zenon
  <2> QED
    BY <2>1, FS_EmptySet, Zenon
<1> QED
  BY <1>3, <1>4, <1>5, <1>6, Zenon

\* ListInv of any list.
Good(L, seen, live) ==
  Ordered(L, seen) /\ Distinct(L) /\ Ids(L) = live /\ Len(L) = Cardinality(live)

\* The list after a move holds what it held, or the entry inserted.
NothingNew(t) ==
  \A j \in DOMAIN handlers' :
    \/ InsertEntry(t) /\ handlers'[j] = op[t].entry
    \/ \E i \in DOMAIN handlers : handlers'[j] = handlers[i]

\* Every move keeps the order and the contents of the list.
LEMMA ListStep ==
  ASSUME Types, IdInv, ListInv, StackInv, NEW t \in Thread, Move(t)
  PROVE  /\ handlers' \in Seq(Entry) /\ version' \in Nat /\ version <= version'
         /\ returned' \subseteq Id /\ gone' \subseteq returned'
         /\ returned \subseteq returned' /\ gone \subseteq gone'
         /\ ListInv' /\ NothingNew(t)
<1>1. /\ handlers \in Seq(Entry) /\ version \in Nat /\ returned \subseteq Id
      /\ gone \subseteq returned /\ before \in [Id -> SUBSET Id]
  BY Zenon DEF Types
<1>2. Good(handlers, before, returned \ gone)
  BY Zenon DEF ListInv, FiringOrder, LiveList, Good, Ordered, Ids
<1>3. /\ handlers' \in Seq(Entry) /\ version' \in Nat /\ version <= version'
      /\ returned' \subseteq Id /\ gone' \subseteq returned'
      /\ returned \subseteq returned' /\ gone \subseteq gone'
      /\ Good(handlers', before, returned' \ gone') /\ NothingNew(t)
  <2>1. CASE Stays
    BY <1>1, <1>2, <2>1 DEF Stays, NothingNew
  <2>2. CASE InsertEntry(t)
    <3>1. PICK e \in Entry : e = op[t].entry /\ e.id \in Id /\ e.id \notin returned
      <4>1. Inserting(t)
        BY <2>2, Zenon DEF InsertEntry, Inserting
      <4> QED
        BY <4>1, HasEntry, Zenon DEF IdInv
    <3>2. /\ handlers' = Insert(handlers, e) /\ version' = version + 1
          /\ returned' = returned \cup {e.id} /\ gone' = gone
      BY <2>2, <3>1, Zenon DEF InsertEntry, Store
    <3>3. Unseen(e, handlers, before)
      <4>1. ASSUME NEW k \in DOMAIN handlers PROVE e.id \notin before[handlers[k].id]
        <5>1. handlers[k].id \in Ids(handlers)
          BY Zenon DEF Ids
        <5>2. handlers[k].id \in Id
          BY <1>1, <1>2, <5>1, Zenon DEF Good
        <5>3. before[handlers[k].id] \subseteq returned
          BY <5>2, Zenon DEF IdInv
        <5> QED
          BY <3>1, <5>3, Zenon
      <4> QED
        BY <4>1, Zenon DEF Unseen
    <3>4. e.id \notin Ids(handlers)
      BY <1>2, <3>1, Zenon DEF Good
    <3>5. PICK L : L = Insert(handlers, e)
      OBVIOUS
    <3>6. /\ L \in Seq(Entry) /\ Len(L) = Len(handlers) + 1
          /\ Ordered(L, before) /\ Distinct(L) /\ Ids(L) = Ids(handlers) \cup {e.id}
          /\ FromWith(L, handlers, e)
      <4>1. handlers \in Seq(Entry) /\ Ordered(handlers, before) /\ Distinct(handlers)
        BY <1>1, <1>2, Zenon DEF Good
      <4>2. Insertable(Entry, handlers, before, e)
        BY <4>1, <3>3, <3>4, EntriesPrioritised, Zenon DEF Insertable
      <4>3. Entered(Entry, handlers, before, e, L)
        BY <4>2, <3>5, InsertKeeps, Zenon
      <4> QED
        BY <4>3, Zenon DEF Entered
    <3>7. Ids(L) = (returned \cup {e.id}) \ gone
      <4>1. Ids(handlers) = returned \ gone /\ e.id \notin gone
        BY <1>1, <1>2, <3>1, Zenon DEF Good
      <4>2. (returned \ gone) \cup {e.id} = (returned \cup {e.id}) \ gone
        BY <4>1, Zenon
      <4> QED
        BY <3>6, <4>1, <4>2, Zenon
    <3>8. Cardinality((returned \cup {e.id}) \ gone) = Cardinality(returned \ gone) + 1
      <4>1. e.id \in Id \ returned
        BY <3>1, Zenon
      <4> QED
        BY <1>1, <4>1, Sizes, Zenon
    <3>9. Len(handlers) = Cardinality(returned \ gone)
      BY <1>2, Zenon DEF Good
    <3>10. Len(L) = Cardinality((returned \cup {e.id}) \ gone)
      BY <3>6, <3>8, <3>9, Zenon
    <3>11. Good(L, before, (returned \cup {e.id}) \ gone)
      BY <3>6, <3>7, <3>10, Zenon DEF Good
    <3>12. NothingNew(t)
      BY <2>2, <3>1, <3>2, <3>5, <3>6, Zenon DEF NothingNew, FromWith
    <3>13. version' \in Nat /\ version <= version'
      BY <1>1, <3>2
    <3> QED
      BY <1>1, <3>1, <3>2, <3>5, <3>6, <3>11, <3>12, <3>13, Zenon
  <2>3. CASE \E id \in returned : Removes(id)
    <3>1. PICK id \in returned : Removes(id)
      BY <2>3, Zenon
    <3>2. /\ handlers' = RemoveId(handlers, id) /\ version' = version + 1
          /\ returned' = returned /\ gone' = gone \cup {id} /\ ContainsId(handlers, id)
      BY <3>1, Zenon DEF Removes
    <3>3. id \in Ids(handlers)
      BY <3>2, Zenon DEF ContainsId, Ids
    <3>4. id \in returned \ gone
      BY <1>2, <3>3, Zenon DEF Good
    <3>5. PICK L : L = RemoveId(handlers, id)
      OBVIOUS
    <3>6. /\ L \in Seq(Entry) /\ Len(L) = Len(handlers) - 1
          /\ Ordered(L, before) /\ Distinct(L) /\ Ids(L) = Ids(handlers) \ {id}
          /\ FromIn(L, handlers)
      <4>1. handlers \in Seq(Entry) /\ Ordered(handlers, before) /\ Distinct(handlers)
        BY <1>1, <1>2, Zenon DEF Good
      <4>2. ContainsId(handlers, id)
        BY <3>2, Zenon
      <4> QED
        BY <4>1, <4>2, <3>5, RemoveKeeps, Zenon
    <3>7. Ids(L) = returned \ (gone \cup {id})
      BY <1>2, <3>6, Zenon DEF Good
    <3>8. Cardinality(returned \ (gone \cup {id})) = Cardinality(returned \ gone) - 1
      BY <1>1, <3>4, Sizes, Zenon
    <3>9. Len(handlers) = Cardinality(returned \ gone)
      BY <1>2, Zenon DEF Good
    <3>10. Len(L) = Cardinality(returned \ (gone \cup {id}))
      BY <3>6, <3>8, <3>9, Zenon
    <3>11. Good(L, before, returned \ (gone \cup {id}))
      BY <3>6, <3>7, <3>10, Zenon DEF Good
    <3>12. NothingNew(t)
      BY <3>2, <3>5, <3>6, Zenon DEF NothingNew, FromIn
    <3>13. version' \in Nat /\ version <= version'
      BY <1>1, <3>2
    <3> QED
      BY <1>1, <3>2, <3>5, <3>6, <3>11, <3>12, <3>13, Zenon
  <2>4. CASE RemovesAll
    <3>1. /\ handlers' = <<>> /\ version' = version + 1
          /\ returned' = returned /\ gone' = returned
      BY <2>4, Zenon DEF RemovesAll
    <3>2. PICK L : L = << >> /\ L \in Seq(Entry) /\ DOMAIN L = {} /\ Len(L) = 0
      <4>1. << >> \in Seq(Entry) /\ Len(<< >>) = 0
        OBVIOUS
      <4>2. DOMAIN << >> = {}
        BY <4>1
      <4> QED
        BY <4>1, <4>2, Zenon
    <3>3. Cardinality(returned \ returned) = 0 /\ returned \ returned = {}
      BY <1>1, Sizes, Zenon
    <3>4. Ids(L) = {} /\ Ordered(L, before) /\ Distinct(L)
      BY <3>2, Zenon DEF Ids, Ordered, Distinct
    <3>5. Good(L, before, returned \ returned)
      BY <3>2, <3>3, <3>4, Zenon DEF Good
    <3>6. NothingNew(t)
      BY <3>1, <3>2, Zenon DEF NothingNew
    <3>7. version' \in Nat /\ version <= version'
      BY <1>1, <3>1
    <3> QED
      BY <1>1, <3>1, <3>2, <3>5, <3>6, <3>7, Zenon
  <2> QED
    BY <2>1, <2>2, <2>3, <2>4, ListMoves, Zenon
<1>4. ASSUME NEW x \in Ids(handlers') PROVE before'[x] = before[x]
  <2>1. CASE before' = before
    BY <2>1, Zenon
  <2>2. CASE Draws(t)
    <3>1. /\ next_id \in Id /\ handlers' = handlers
          /\ before' = [before EXCEPT ![next_id] = returned]
      BY <2>2, Zenon DEF Draws, Draw, listVars
    <3>2. x \in returned
      BY <1>2, <1>4, <3>1, Zenon DEF Good
    <3>3. x < next_id /\ next_id \in Nat /\ x \in Id
      BY <1>1, <3>2, Zenon DEF IdInv, Types
    <3>4. x # next_id
      BY <3>3 DEF Id
    <3> QED
      BY <1>1, <3>1, <3>3, <3>4, Zenon
  <2> QED
    BY <2>1, <2>2, ListMoves, Zenon
<1>5. Ordered(handlers', before')
  <2>1. \A i \in DOMAIN handlers' : before'[handlers'[i].id] = before[handlers'[i].id]
    BY <1>4, Zenon DEF Ids
  <2>2. Ordered(handlers', before)
    BY <1>3, Zenon DEF Good
  <2> QED
    BY <2>1, <2>2, Zenon DEF Ordered
<1>6. ListInv'
  <2>1. FiringOrder'
    BY <1>5, Zenon DEF FiringOrder, Ordered
  <2>2. LiveList' /\ Distinct(handlers')
    BY <1>3, Zenon DEF LiveList, Good, Ids
  <2> QED
    BY <2>1, <2>2, Zenon DEF ListInv, Distinct
<1> QED
  BY <1>3, <1>6, Zenon

-----------------------------------------------------------------------------
(* How the calls of the writers move *)

WaitBegins(t, ids) ==
  /\ op[t] = NoOp /\ op' = [op EXCEPT ![t] = Waiting(ids)] /\ stack' = stack
  /\ ids \subseteq gone' /\ handlers # <<>> /\ version' = version + 1

\* Every move of a thread, as far as the writers' calls go.
LEMMA OpMoves ==
  ASSUME Types, NEW t \in Thread, Move(t)
  PROVE  \/ op' = op
         \/ Draws(t)
         \/ op' = [op EXCEPT ![t] = NoOp]
         \/ \E ids \in SUBSET Id : WaitBegins(t, ids)
         \/ WaitForRetiredReaders(t)
<1> USE DEF Call
<1>1. CASE RegisterWithPriority(t) \/ RegisterOnce(t)
  BY <1>1, ConstantsAssumption, Zenon DEF RegisterWithPriority, RegisterOnce, Draws
<1>2. CASE InsertEntry(t) \/ Return(t)
  BY <1>2, Zenon DEF InsertEntry, Return
<1>3. CASE Unregister(t) \/ Clear(t) \/ SetCallback(t)
  BY <1>3, Zenon DEF Unregister, Clear, SetCallback
<1>4. CASE UnregisterAndWait(t)
  <2>1. PICK id \in returned :
          /\ RemoveEntry(id) /\ op[t] = NoOp /\ stack' = stack
          /\ IF ContainsId(handlers, id) THEN Call(t, Waiting({id})) ELSE UNCHANGED op
    BY <1>4, Zenon DEF UnregisterAndWait, MayWait, User
  <2>2. CASE ContainsId(handlers, id)
    <3>1. /\ op' = [op EXCEPT ![t] = Waiting({id})] /\ gone' = gone \cup {id}
          /\ version' = version + 1
      BY <2>1, <2>2, Zenon DEF RemoveEntry, Store
    <3>2. handlers # <<>>
      <4>1. PICK k \in DOMAIN handlers : handlers[k].id = id
        BY <2>2, Zenon DEF ContainsId
      <4>2. DOMAIN << >> = {}
        OBVIOUS
      <4> QED
        BY <4>1, <4>2, Zenon
    <3>3. {id} \in SUBSET Id
      BY Zenon DEF Types
    <3> QED
      BY <2>1, <3>1, <3>2, <3>3, Zenon DEF WaitBegins
  <2> QED
    BY <2>1, <2>2, Zenon
<1>5. CASE ClearAndWait(t)
  <2>1. /\ RemoveAll /\ op[t] = NoOp /\ stack' = stack /\ returned \in SUBSET Id
        /\ IF handlers # <<>> THEN Call(t, Waiting(returned)) ELSE UNCHANGED op
    BY <1>5, Zenon DEF ClearAndWait, MayWait, User, Types
  <2>2. CASE handlers # <<>>
    BY <2>1, <2>2, Zenon DEF RemoveAll, Store, WaitBegins
  <2> QED
    BY <2>1, <2>2, Zenon
<1>6. CASE Dispatch(t)
  BY <1>6, Zenon DEF Dispatch, Notify, Run, Skip, HandlerReturn, HandlerPanic, RemoveOnDrop,
     NotifyReturn, CountPanic, FetchCallback, CallbackEnd, DropPayload, PayloadUnwinds
<1> QED
  BY <1>1, <1>2, <1>3, <1>4, <1>5, <1>6, Zenon DEF Move, Write

\* The calls stay calls; only a draw begins an insertion.
LEMMA OpStep ==
  ASSUME Types, NEW t \in Thread, Move(t)
  PROVE  /\ op' \in [Thread -> Ops]
         /\ \A u \in Thread \ {t} : op'[u] = op[u]
         /\ Draws(t) \/ (op'[t].name = "insert" => op'[t] = op[t])
<1>1. op \in [Thread -> Ops] /\ version \in Nat /\ op[t] \in Ops
  BY Zenon DEF Types
<1>2. ASSUME NEW o \in Ops, op' = [op EXCEPT ![t] = o]
      PROVE  /\ op' \in [Thread -> Ops] /\ op'[t] = o
             /\ \A u \in Thread \ {t} : op'[u] = op[u]
  BY <1>1, <1>2, Zenon
<1>3. CASE op' = op
  BY <1>1, <1>3, Zenon
<1>4. CASE Draws(t)
  <2>1. PICK priority \in Priority, once \in BOOLEAN : Draw(t, priority, once)
    BY <1>4, Zenon DEF Draws
  <2>2. PICK e : e = [id |-> next_id, priority |-> priority, once |-> once]
    BY Zenon
  <2>3. op' = [op EXCEPT ![t] = [name |-> "insert", entry |-> e]] /\ next_id \in Id
    BY <2>1, <2>2, Zenon DEF Draw, Call
  <2>4. e \in Entry
    BY <2>2, <2>3 DEF Entry
  <2>5. [name |-> "insert", entry |-> e] \in Ops
    BY <2>4 DEF Ops
  <2> QED
    BY <1>2, <1>4, <2>3, <2>5, Zenon
<1>5. CASE op' = [op EXCEPT ![t] = NoOp]
  <2>1. NoOp \in Ops /\ NoOp.name # "insert"
    BY DEF Ops, NoOp
  <2> QED
    BY <1>2, <1>5, <2>1, Zenon
<1>6. ASSUME NEW ids \in SUBSET Id
      PROVE  /\ Waiting(ids) \in Ops /\ Waiting(ids).name # "insert"
             /\ Returned(ids) \in Ops /\ Returned(ids).name # "insert"
  BY <1>1 DEF Ops, Waiting, Returned
<1>7. CASE \E ids \in SUBSET Id : WaitBegins(t, ids)
  BY <1>2, <1>6, <1>7, Zenon DEF WaitBegins
<1>8. CASE WaitForRetiredReaders(t)
  <2>1. op[t].name = "wait" /\ op' = [op EXCEPT ![t] = Returned(op[t].ids)]
    BY <1>8, Zenon DEF WaitForRetiredReaders, Call
  <2>2. op[t].ids \in SUBSET Id
    BY <1>1, <2>1 DEF Ops, NoOp
  <2> QED
    BY <1>2, <1>6, <2>1, <2>2, Zenon
<1> QED
  BY <1>3, <1>4, <1>5, <1>7, <1>8, OpMoves, Zenon

\* What a draw does.
LEMMA DrawStep ==
  ASSUME Types, NEW t \in Thread, Draws(t)
  PROVE  /\ op[t] = NoOp /\ op'[t].name = "insert" /\ op'[t].entry.id = next_id
         /\ next_id \in Id /\ next_id' = next_id + 1 /\ stack' = stack /\ Stays
         /\ before' = [before EXCEPT ![next_id] = returned]
         /\ full \subseteq full' /\ full' \subseteq full \cup {next_id}
         /\ op'[t].entry.once => next_id \in full'
<1>1. PICK priority \in Priority, once \in BOOLEAN :
        /\ Draw(t, priority, once)
        /\ full' = IF once THEN full \cup {next_id} ELSE full
  BY Zenon DEF Draws
<1>2. PICK e : e = [id |-> next_id, priority |-> priority, once |-> once]
  OBVIOUS
<1>3. /\ op' = [op EXCEPT ![t] = [name |-> "insert", entry |-> e]] /\ next_id \in Id
      /\ next_id' = next_id + 1 /\ stack' = stack
      /\ before' = [before EXCEPT ![next_id] = returned]
  BY <1>1, <1>2, Zenon DEF Draw, Call
<1>4. op[t] = NoOp /\ Stays
  BY <1>1, Zenon DEF Draw, User, Stays, listVars
<1>5. op'[t].name = "insert" /\ op'[t].entry = e
  <2>1. op'[t] = [name |-> "insert", entry |-> e]
    BY <1>3, Zenon DEF Types
  <2> QED
    BY <2>1
<1>6. e.id = next_id /\ e.once = once
  BY <1>2
<1> QED
  BY <1>1, <1>3, <1>4, <1>5, <1>6, Zenon

\* Every move gives an id out at most once.
LEMMA IdStep ==
  ASSUME Types, IdInv, StackInv, ListInv, NEW t \in Thread, Move(t)
  PROVE  IdInv' /\ next_id' \in Nat /\ before' \in [Id -> SUBSET Id]
<1>1. /\ next_id \in Nat /\ returned \subseteq Id /\ before \in [Id -> SUBSET Id]
      /\ Id \subseteq Nat
  BY DEF Types, Id
<1>2. \A u \in Thread \ {t} : op'[u] = op[u]
  BY OpStep, Zenon
<1>3. CASE Draws(t)
  <2>1. /\ op'[t].name = "insert" /\ op'[t].entry.id = next_id /\ next_id \in Id
        /\ next_id' = next_id + 1 /\ returned' = returned
        /\ before' = [before EXCEPT ![next_id] = returned]
    BY <1>3, DrawStep, Zenon DEF Stays
  <2>2. next_id' \in Nat /\ \A x \in Nat : x < next_id => x < next_id' /\ x # next_id
    BY <1>1, <2>1
  <2>3. \A x \in returned : x < next_id /\ x < next_id' /\ x # next_id
    BY <1>1, <2>2, Zenon DEF IdInv
  <2>4. before' \in [Id -> SUBSET Id] /\ \A x \in Id : before'[x] \subseteq returned
    <3>1. \A x \in Id : before[x] \subseteq returned
      BY Zenon DEF IdInv
    <3> QED
      BY <1>1, <2>1, <3>1, Zenon
  <2>5. ASSUME NEW u \in Thread \ {t}, op'[u].name = "insert"
        PROVE  /\ op'[u].entry.id \notin returned /\ op'[u].entry.id < next_id'
               /\ op'[u].entry.id # next_id
    <3>1. Inserting(u) /\ op'[u] = op[u]
      BY <1>2, <2>5, Zenon DEF Inserting
    <3>2. op[u].entry.id \in Nat
      BY <1>1, <3>1, HasEntry, Zenon
    <3> QED
      BY <2>2, <3>1, <3>2, Zenon DEF IdInv
  <2>6. next_id < next_id'
    BY <1>1, <2>1
  <2>7. \A u \in Thread : op'[u].name = "insert" =>
          op'[u].entry.id \notin returned /\ op'[u].entry.id < next_id'
    BY <2>1, <2>3, <2>5, <2>6, Zenon
  <2>8. ASSUME NEW u \in Thread, NEW v \in Thread, u # v, op'[u].name = "insert",
               op'[v].name = "insert"
        PROVE  op'[u].entry.id # op'[v].entry.id
    <3>1. CASE u = t \/ v = t
      BY <2>1, <2>5, <2>8, <3>1, Zenon
    <3>2. CASE u # t /\ v # t
      BY <1>2, <2>8, <3>2, Zenon DEF IdInv, Inserting
    <3> QED
      BY <3>1, <3>2, Zenon
  <2> QED
    BY <2>1, <2>2, <2>3, <2>4, <2>7, <2>8, Zenon DEF IdInv, Inserting
<1>4. CASE ~Draws(t)
  <2>1. next_id' = next_id /\ before' = before
    BY <1>4, ListMoves, Zenon
  <2>2. \A u \in Thread : op'[u].name = "insert" => op'[u] = op[u] /\ Inserting(u)
    BY <1>2, <1>4, OpStep, Zenon DEF Inserting
  <2>3. CASE InsertEntry(t)
    <3>1. /\ Inserting(t) /\ returned' = returned \cup {op[t].entry.id}
          /\ op' = [op EXCEPT ![t] = NoOp]
      BY <2>3, Zenon DEF InsertEntry, Inserting, Call
    <3>2. op'[t].name # "insert"
      <4>1. op'[t] = NoOp
        BY <3>1, Zenon DEF Types
      <4> QED
        BY <4>1 DEF NoOp
    <3>3. \A x \in returned' : x < next_id'
      BY <2>1, <3>1, Zenon DEF IdInv
    <3>4. \A x \in Id : before'[x] \subseteq returned'
      BY <2>1, <3>1, Zenon DEF IdInv
    <3>5. ASSUME NEW u \in Thread, op'[u].name = "insert"
          PROVE  op'[u].entry.id \notin returned' /\ op'[u].entry.id < next_id'
      <4>1. u # t /\ op'[u] = op[u] /\ Inserting(u)
        BY <2>2, <3>2, <3>5, Zenon
      <4>2. /\ op[u].entry.id \notin returned /\ op[u].entry.id < next_id
            /\ op[u].entry.id # op[t].entry.id
        BY <3>1, <4>1, Zenon DEF IdInv
      <4>3. op[u].entry.id \notin returned'
        BY <3>1, <4>2, Zenon
      <4>4. op'[u] = op[u] /\ next_id' = next_id
        BY <2>1, <4>1, Zenon
      <4> QED
        BY <4>2, <4>3, <4>4, Zenon
    <3> QED
      BY <1>1, <2>1, <2>2, <3>3, <3>4, <3>5, Zenon DEF IdInv, Inserting
  <2>4. CASE returned' = returned
    BY <1>1, <2>1, <2>2, <2>4, Zenon DEF IdInv, Inserting
  <2>5. InsertEntry(t) \/ returned' = returned
    BY ListMoves, Zenon DEF Stays, Removes, RemovesAll
  <2> QED
    BY <2>3, <2>4, <2>5, Zenon
<1> QED
  BY <1>3, <1>4, Zenon

-----------------------------------------------------------------------------
(* The invariant, step by step *)

\* Only a draw and a dispatch change the slots of the once handlers, and
\* callbacks are replaced by later ones.
LEMMA PanicStep ==
  ASSUME Types, NEW t \in Thread, Move(t)
  PROVE  /\ Draws(t) \/ Run(t) \/ full' = full
         /\ panic_callback' \in [epoch : Nat, set : BOOLEAN]
         /\ panic_callback.epoch <= panic_callback'.epoch
<1> USE DEF panicVars
<1>1. panic_callback \in [epoch : Nat, set : BOOLEAN]
  BY Zenon DEF Types
<1>2. panic_callback.epoch <= panic_callback.epoch
  BY <1>1
<1>3. CASE RegisterWithPriority(t) \/ RegisterOnce(t)
  BY <1>1, <1>2, <1>3, ConstantsAssumption, Zenon DEF RegisterWithPriority, RegisterOnce, Draws, Draw
<1>4. CASE SetCallback(t)
  <2>1. PICK set \in BOOLEAN :
          panic_callback' = [epoch |-> panic_callback.epoch + 1, set |-> set]
    BY <1>4, Zenon DEF SetCallback
  <2>2. full' = full
    BY <1>4, Zenon DEF SetCallback
  <2> QED
    BY <1>1, <2>1, <2>2
<1>5. CASE InsertEntry(t) \/ Unregister(t) \/ Clear(t) \/ UnregisterAndWait(t)
           \/ ClearAndWait(t) \/ WaitForRetiredReaders(t) \/ Return(t)
  BY <1>1, <1>2, <1>5, Zenon DEF InsertEntry, Unregister, Clear, UnregisterAndWait, ClearAndWait,
     WaitForRetiredReaders, Return
<1>6. CASE Dispatch(t)
  BY <1>1, <1>2, <1>6, Zenon DEF Dispatch, Notify, Run, Skip, HandlerReturn, HandlerPanic, RemoveOnDrop,
     NotifyReturn, CountPanic, FetchCallback, CallbackEnd, DropPayload, PayloadUnwinds
<1> QED
  BY <1>3, <1>4, <1>5, <1>6, Zenon DEF Move, Write

\* Every move keeps the types.
LEMMA TypesStep ==
  ASSUME Types, IdInv, ListInv, StackInv, NEW t \in Thread, Move(t)
  PROVE  Types'
<1>1. full' \subseteq Id
  <2>1. full \subseteq Id
    BY Zenon DEF Types
  <2>2. CASE Draws(t)
    BY <2>1, <2>2, DrawStep, Zenon
  <2>3. CASE Run(t)
    BY <2>1, <2>3, Zenon DEF Run
  <2> QED
    BY <2>1, <2>2, <2>3, PanicStep, Zenon
<1>2. handlers' \in Seq(Entry) /\ version' \in Nat /\ returned' \subseteq Id /\ gone' \subseteq returned'
  BY ListStep, Zenon
<1>3. next_id' \in Nat /\ before' \in [Id -> SUBSET Id]
  BY IdStep, Zenon
<1>4. op' \in [Thread -> Ops]
  BY OpStep, Zenon
<1>5. panic_callback' \in [epoch : Nat, set : BOOLEAN]
  BY PanicStep, Zenon
<1>6. stack' \in [Thread -> Seq(Frame)]
  BY StackMoves, Zenon DEF OnlyHere
<1> QED
  BY <1>1, <1>2, <1>3, <1>4, <1>5, <1>6, Zenon DEF Types

\* The frame with which a dispatch goes on is as FrameInv says.
LEMMA FramesGoOn ==
  ASSUME NEW f \in Frame, NEW v \in Nat, NEW ids, FrameOf(f, v, panic_callback.epoch, ids),
         panic_callback.epoch \in Nat
  PROVE  LET Fine(g) == FrameOf(g, v, panic_callback.epoch, ids) IN
         /\ f.at < Len(f.list) => Fine(AfterRun(f)) 
         /\ f.at < Len(f.list) /\ f.phase = "next" => Fine(AfterSkip(f))
         /\ f.phase = "handler" => Fine(AfterReturn(f)) /\ Fine(AfterPanic(f))
         /\ f.phase = "remove" => Fine(AfterRemove(f))
         /\ f.phase = "count" => Fine(AfterCount(f))
         /\ f.phase = "fetch" => Fine(AfterFetch(f))
         /\ f.phase = "callback" => Fine(AfterCallback(f))
         /\ f.phase = "payload" => Fine(AfterPayload(f))
<1> DEFINE Fine(g) == FrameOf(g, v, panic_callback.epoch, ids)
<1>1. f.list \in Seq(Entry) /\ f.at \in Nat /\ f.since \in Nat /\ f.panicked \in BOOLEAN
  BY DEF Frame
<1>2. ASSUME f.at < Len(f.list) PROVE Fine(AfterRun(f))
  BY <1>1, <1>2 DEF AfterRun, Frame, FrameOf, Ids
<1>3. ASSUME f.at < Len(f.list), f.phase = "next" PROVE Fine(AfterSkip(f))
  BY <1>1, <1>3 DEF AfterSkip, Frame, FrameOf, Ids
<1>4. ASSUME f.phase = "handler" PROVE Fine(AfterReturn(f))
  BY <1>1, <1>4 DEF AfterReturn, Frame, FrameOf, Ids
<1>5. ASSUME f.phase = "handler" PROVE Fine(AfterPanic(f))
  BY <1>1, <1>5 DEF AfterPanic, Frame, FrameOf, Ids
<1>6. ASSUME f.phase = "remove" PROVE Fine(AfterRemove(f))
  BY <1>1, <1>6 DEF AfterRemove, Frame, FrameOf, Ids
<1>7. ASSUME f.phase = "count" PROVE Fine(AfterCount(f))
  BY <1>1, <1>7 DEF AfterCount, Frame, FrameOf, Ids
<1>8. ASSUME f.phase = "fetch" PROVE Fine(AfterFetch(f))
  BY <1>1, <1>8 DEF AfterFetch, Frame, FrameOf, Ids
<1>9. ASSUME f.phase = "callback" PROVE Fine(AfterCallback(f))
  BY <1>1, <1>9 DEF AfterCallback, Frame, FrameOf, Ids
<1>10. ASSUME f.phase = "payload" PROVE Fine(AfterPayload(f))
  BY <1>1, <1>10 DEF AfterPayload, Frame, FrameOf, Ids
<1> QED
  BY <1>2, <1>3, <1>4, <1>5, <1>6, <1>7, <1>8, <1>9, <1>10, Zenon

\* A call that goes on with its frame is where FrameInv says.
LEMMA TopFine ==
  ASSUME Types, StackInv, NEW t \in Thread, Dispatch(t), stack'[t] # stack[t]
  PROVE  \/ Pushed(t) \/ Popped(t)
         \/ \E f : Topped(t, f) /\ FrameInv(f)
<1>1. /\ stack \in [Thread -> Seq(Frame)] /\ version \in Nat
      /\ panic_callback.epoch \in Nat
  BY Zenon DEF Types
<1>2. CASE Notify(t)
  BY <1>2, PushMoves, Zenon DEF Notify, User
<1>3. CASE NotifyReturn(t) \/ PayloadUnwinds(t)
  <2>1. stack[t] # <<>> /\ Pop(t) /\ op[t] = NoOp
    BY <1>3, Zenon DEF NotifyReturn, PayloadUnwinds
  <2> QED
    BY <1>1, <2>1, PopMoves, Zenon
<1>4. ASSUME stack[t] # <<>> PROVE Top(t) \in Frame /\ FrameInv(Top(t))
  <2>1. Top(t) \in Frame /\ Len(stack[t]) \in 1..Len(stack[t]) /\ stack[t] \in Seq(Frame)
    BY <1>1, <1>4, TopIsFrame, Zenon
  <2>2. DOMAIN stack[t] = 1..Len(stack[t])
    BY <2>1
  <2> QED
    BY <2>1, <2>2, Zenon DEF StackInv, Top
<1>5. ASSUME NEW from, NEW f, Continues(t, from, f)
      PROVE  Topped(t, f) /\ stack[t] # <<>> /\ Top(t).phase = from
  BY <1>5, Zenon DEF Continues
<1>6. ASSUME stack[t] # <<>>
      PROVE  /\ Top(t).at < Len(Top(t).list) => FrameInv(AfterRun(Top(t)))
             /\ Top(t).at < Len(Top(t).list) /\ Top(t).phase = "next" => FrameInv(AfterSkip(Top(t)))
             /\ Top(t).phase = "handler" =>
                  FrameInv(AfterReturn(Top(t))) /\ FrameInv(AfterPanic(Top(t)))
             /\ Top(t).phase = "remove" => FrameInv(AfterRemove(Top(t)))
             /\ Top(t).phase = "count" => FrameInv(AfterCount(Top(t)))
             /\ Top(t).phase = "fetch" => FrameInv(AfterFetch(Top(t)))
             /\ Top(t).phase = "callback" => FrameInv(AfterCallback(Top(t)))
             /\ Top(t).phase = "payload" => FrameInv(AfterPayload(Top(t)))
  <2>1. PICK f \in Frame : f = Top(t) /\ FrameOf(f, version, panic_callback.epoch, returned)
    BY <1>4, <1>6, Zenon DEF FrameInv
  <2>2. /\ f.at < Len(f.list) => FrameInv(AfterRun(f))
        /\ f.at < Len(f.list) /\ f.phase = "next" => FrameInv(AfterSkip(f))
        /\ f.phase = "handler" => FrameInv(AfterReturn(f)) /\ FrameInv(AfterPanic(f))
        /\ f.phase = "remove" => FrameInv(AfterRemove(f))
        /\ f.phase = "count" => FrameInv(AfterCount(f))
        /\ f.phase = "fetch" => FrameInv(AfterFetch(f))
        /\ f.phase = "callback" => FrameInv(AfterCallback(f))
        /\ f.phase = "payload" => FrameInv(AfterPayload(f))
    BY <1>1, <2>1, FramesGoOn, Zenon DEF FrameInv
  <2> QED
    BY <2>1, <2>2, Zenon
<1>7. CASE Run(t)
  <2>1. Top(t).at < Len(Top(t).list)
    BY <1>7, Zenon DEF Run
  <2> QED
    BY <1>5, <1>6, <1>7, <2>1, TopSteps, Zenon
<1>8. CASE Skip(t)
  <2>1. Top(t).at < Len(Top(t).list)
    BY <1>8, Zenon DEF Skip
  <2> QED
    BY <1>5, <1>6, <1>8, <2>1, TopSteps, Zenon
<1>9. CASE HandlerReturn(t) \/ HandlerPanic(t)
  BY <1>5, <1>6, <1>9, TopSteps, Zenon
<1>10. CASE RemoveOnDrop(t) \/ CountPanic(t)
  BY <1>5, <1>6, <1>10, TopSteps, Zenon
<1>11. CASE FetchCallback(t) \/ CallbackEnd(t) \/ DropPayload(t)
  BY <1>5, <1>6, <1>11, TopSteps, Zenon
<1> QED
  BY <1>2, <1>3, <1>7, <1>8, <1>9, <1>10, <1>11, Zenon DEF Dispatch

\* Every move keeps the dispatches within their lists.
LEMMA StackStep ==
  ASSUME Types, IdInv, ListInv, StackInv, NEW t \in Thread, Move(t)
  PROVE  StackInv'
<1>1. stack \in [Thread -> Seq(Frame)] /\ stack' \in [Thread -> Seq(Frame)]
  BY StackMoves, Zenon DEF Types, OnlyHere
<1>2. /\ version \in Nat /\ version' \in Nat /\ version <= version'
      /\ returned \subseteq returned'
  BY ListStep, Zenon DEF Types
<1>3. /\ panic_callback.epoch \in Nat /\ panic_callback'.epoch \in Nat
      /\ panic_callback.epoch <= panic_callback'.epoch
  BY PanicStep, Zenon DEF Types
<1>4. ASSUME NEW f \in Frame, FrameInv(f)
      PROVE  FrameOf(f, version', panic_callback'.epoch, returned')
  <2>1. f.version \in Nat /\ f.since \in Nat /\ f.callback \in Nat
    BY DEF Frame
  <2>2. /\ f.version <= version' /\ f.since <= panic_callback'.epoch
        /\ f.callback <= panic_callback'.epoch
    BY <1>2, <1>3, <1>4, <2>1 DEF FrameInv, FrameOf
  <2> QED
    BY <1>2, <1>4, <2>2, Zenon DEF FrameInv, FrameOf
<1>5. ASSUME NEW u \in Thread
      PROVE  /\ stack[u] \in Seq(Frame) /\ stack'[u] \in Seq(Frame)
             /\ Len(stack[u]) \in Nat /\ Len(stack'[u]) \in Nat
             /\ DOMAIN stack[u] = 1..Len(stack[u]) /\ DOMAIN stack'[u] = 1..Len(stack'[u])
             /\ \A k \in 1..Len(stack[u]) : stack[u][k] \in Frame
  <2>1. stack[u] \in Seq(Frame) /\ stack'[u] \in Seq(Frame)
    BY <1>1, Zenon
  <2>2. \A s \in Seq(Frame) : Len(s) \in Nat /\ DOMAIN s = 1..Len(s) /\ \A k \in 1..Len(s) : s[k] \in Frame
    OBVIOUS
  <2> QED
    BY <2>1, <2>2, Zenon
<1>6. ASSUME NEW u \in Thread, NEW k \in 1..Len(stack[u])
      PROVE  FrameOf(stack[u][k], version', panic_callback'.epoch, returned')
  BY <1>4, <1>5, <1>6, Zenon DEF StackInv
<1> SUFFICES ASSUME NEW u \in Thread, NEW k \in 1..Len(stack'[u])
             PROVE  FrameOf(stack'[u][k], version', panic_callback'.epoch, returned')
  BY <1>5, Zenon DEF StackInv, FrameInv
<1>7. CASE stack'[u] = stack[u]
  BY <1>6, <1>7, Zenon
<1>8. CASE u = t /\ Pushed(t)
  <2>1. PICK f : f = [list |-> handlers, version |-> version, announced |-> SlotFree(t),
                      at |-> 0, called |-> << >>, phase |-> "next", panicked |-> FALSE,
                      since |-> 0, callback |-> 0]
    BY Zenon
  <2>2. Ids(handlers) \subseteq returned'
    <3>1. Ids(handlers) = returned \ gone
      BY Zenon DEF ListInv, LiveList, Ids
    <3> QED
      BY <1>2, <3>1, Zenon
  <2>3. FrameOf(f, version', panic_callback'.epoch, returned')
    <3>1. Len(handlers) \in Nat
      BY DEF Types
    <3>2. /\ f.list = handlers /\ f.version = version /\ f.at = 0 /\ f.phase = "next"
          /\ f.since = 0 /\ f.callback = 0
      BY <2>1
    <3>3. /\ f.at \in 0..Len(f.list) /\ f.version <= version'
          /\ f.since <= panic_callback'.epoch /\ f.callback <= panic_callback'.epoch
      BY <1>2, <1>3, <3>1, <3>2
    <3>4. /\ ~(f.phase # "next") /\ ~(f.phase = "callback")
          /\ f.phase \notin {"count", "fetch", "callback", "payload"}
      BY <3>2
    <3> QED
      BY <2>2, <3>2, <3>3, <3>4, Zenon DEF FrameOf
  <2>4. k \in 1..Len(stack[t]) \/ k = Len(stack[t]) + 1
    BY <1>5, <1>8 DEF Pushed
  <2> QED
    BY <1>6, <1>8, <2>1, <2>3, <2>4, Zenon DEF Pushed
<1>9. CASE u = t /\ Popped(t)
  <2>1. k \in 1..(Len(stack[t]) - 1) /\ k \in 1..Len(stack[t])
    BY <1>5, <1>9 DEF Popped
  <2> QED
    BY <1>6, <1>9, <2>1, Zenon DEF Popped
<1>10. CASE u = t /\ \E f : Topped(t, f) /\ FrameInv(f)
  <2>1. PICK f : Topped(t, f) /\ FrameInv(f)
    BY <1>10, Zenon
  <2>2. (k \in 1..(Len(stack[t]) - 1) /\ k \in 1..Len(stack[t])) \/ k = Len(stack[t])
    BY <1>5, <1>10, <2>1 DEF Topped
  <2>3. FrameOf(f, version', panic_callback'.epoch, returned')
    BY <1>4, <2>1, Zenon DEF Topped
  <2> QED
    BY <1>6, <1>10, <2>1, <2>2, <2>3, Zenon DEF Topped
<1>11. CASE u = t /\ stack'[t] # stack[t]
  <2>1. Dispatch(t)
    <3>1. Write(t) => stack' = stack
      BY Zenon DEF Write, RegisterWithPriority, RegisterOnce, Draw, InsertEntry,
         Unregister, Clear, UnregisterAndWait, ClearAndWait, WaitForRetiredReaders,
         Return, SetCallback
    <3> QED
      BY <1>11, <3>1, Zenon DEF Move
  <2> QED
    BY <1>8, <1>9, <1>10, <1>11, <2>1, TopFine, Zenon
<1>12. u = t \/ stack'[u] = stack[u]
  BY StackMoves, Zenon DEF OnlyHere
<1> QED
  BY <1>7, <1>11, <1>12, Zenon

\* Two states of one dispatch.
Kin(g, f) == g.list = f.list /\ g.version = f.version /\ g.announced = f.announced

\* A call in progress after a move was in progress before it, over the same
\* list, or begins with the current list.
LEMMA FramesStay ==
  ASSUME Types, NEW t \in Thread, Move(t), NEW u \in Thread, NEW k \in DOMAIN stack'[u]
  PROVE  \/ k \in DOMAIN stack[u] /\ Kin(stack'[u][k], stack[u][k])
         \/ /\ u = t /\ op[t] = NoOp /\ Pushed(t) /\ k = Len(stack[t]) + 1
            /\ stack'[u][k].list = handlers /\ stack'[u][k].version = version
<1>1. stack[u] \in Seq(Frame) /\ stack'[u] \in Seq(Frame)
  BY StackMoves, Zenon DEF Types, OnlyHere
<1>2. /\ Len(stack[u]) \in Nat /\ Len(stack'[u]) \in Nat
      /\ DOMAIN stack[u] = 1..Len(stack[u]) /\ DOMAIN stack'[u] = 1..Len(stack'[u])
  <2>1. \A s \in Seq(Frame) : Len(s) \in Nat /\ DOMAIN s = 1..Len(s)
    OBVIOUS
  <2> QED
    BY <1>1, <2>1, Zenon
<1>3. CASE stack'[u] = stack[u]
  BY <1>3, Zenon DEF Kin
<1>4. CASE u = t /\ op[t] = NoOp /\ Pushed(t)
  <2>1. k \in 1..Len(stack[t]) \/ k = Len(stack[t]) + 1
    BY <1>2, <1>4 DEF Pushed
  <2>2. CASE k \in 1..Len(stack[t])
    BY <1>2, <1>4, <2>2, Zenon DEF Pushed, Kin
  <2>3. CASE k = Len(stack[t]) + 1
    <3>1. stack'[t][k].list = handlers /\ stack'[t][k].version = version
      BY <1>4, <2>3 DEF Pushed
    <3> QED
      BY <1>4, <2>3, <3>1, Zenon
  <2> QED
    BY <2>1, <2>2, <2>3, Zenon
<1>5. CASE u = t /\ Popped(t)
  <2>1. k \in 1..(Len(stack[t]) - 1) /\ k \in 1..Len(stack[t])
    BY <1>2, <1>5 DEF Popped
  <2> QED
    BY <1>2, <1>5, <2>1, Zenon DEF Popped, Kin
<1>6. CASE u = t /\ \E f : Topped(t, f) /\ Keeps(t, f)
  <2>1. PICK f : Topped(t, f) /\ Keeps(t, f)
    BY <1>6, Zenon
  <2>2. k \in 1..Len(stack[t]) /\ (k \in 1..(Len(stack[t]) - 1) \/ k = Len(stack[t]))
    BY <1>2, <1>6, <2>1 DEF Topped
  <2>3. CASE k \in 1..(Len(stack[t]) - 1)
    BY <1>2, <1>6, <2>1, <2>2, <2>3, Zenon DEF Topped, Kin
  <2>4. CASE k = Len(stack[t])
    BY <1>2, <1>6, <2>1, <2>2, <2>4, Zenon DEF Topped, Keeps, Top, Kin
  <2> QED
    BY <2>2, <2>3, <2>4, Zenon
<1> QED
  BY <1>3, <1>4, <1>5, <1>6, StackMoves, Zenon DEF OnlyHere

\* A thread in a call of a writer does not move its dispatches.
LEMMA WritersStay ==
  ASSUME Types, NEW t \in Thread, Move(t), NEW s \in Thread, op[s].name # "none"
  PROVE  stack'[s] = stack[s]
<1>1. op[s] # NoOp
  BY DEF NoOp
<1> QED
  BY <1>1, StackMoves, Zenon DEF OnlyHere

\* What the ids of a wait that goes on stay absent from.
LEMMA StillWithout ==
  ASSUME Types, ListInv, NEW t \in Thread, Move(t), NEW ids, ids \subseteq gone,
         NEW u \in Thread, NEW k \in DOMAIN stack'[u],
         k \in DOMAIN stack[u] /\ Kin(stack'[u][k], stack[u][k]) =>
           Without(stack[u][k], ids)
  PROVE  Without(stack'[u][k], ids)
<1>1. CASE k \in DOMAIN stack[u] /\ Kin(stack'[u][k], stack[u][k])
  BY <1>1, Zenon DEF Kin, Without
<1>2. CASE stack'[u][k].list = handlers
  <2>1. Ids(handlers) = returned \ gone
    BY Zenon DEF ListInv, LiveList, Ids
  <2> QED
    BY <1>2, <2>1, Zenon DEF Without, Ids
<1> QED
  BY <1>1, <1>2, FramesStay, Zenon

\* Every move keeps what the waits will have outlasted.
LEMMA WaitStep ==
  ASSUME Types, IdInv, ListInv, StackInv, WaitsKept, NEW t \in Thread, Move(t)
  PROVE  WaitsKept'
<1> SUFFICES ASSUME NEW s \in Thread PROVE WaitKept(s)'
  BY Zenon DEF WaitsKept
<1>1. WaitKept(s) /\ gone \subseteq gone'
  BY ListStep, Zenon DEF WaitsKept
<1>2. CASE op'[s] = op[s]
  <2>1. ASSUME op'[s].name = "wait"
        PROVE  /\ op'[s].ids \subseteq gone'
               /\ \A u \in Thread : \A k \in DOMAIN stack'[u] :
                    stack'[u][k].version >= op'[s].since => Without(stack'[u][k], op'[s].ids)
    <3>1. op[s].name = "wait" /\ op[s].ids \subseteq gone
      BY <1>1, <1>2, <2>1, Zenon DEF WaitKept
    <3>2. ASSUME NEW u \in Thread, NEW k \in DOMAIN stack'[u], stack'[u][k].version >= op[s].since
          PROVE  Without(stack'[u][k], op[s].ids)
      <4>1. k \in DOMAIN stack[u] /\ Kin(stack'[u][k], stack[u][k]) =>
              Without(stack[u][k], op[s].ids)
        BY <1>1, <3>1, <3>2, Zenon DEF WaitKept, Kin
      <4> QED
        BY <3>1, <4>1, StillWithout, Zenon
    <3> QED
      BY <1>1, <1>2, <3>1, <3>2, Zenon
  <2>2. ASSUME op'[s].name = "return"
        PROVE  /\ op'[s].ids \subseteq gone'
               /\ \A u \in Thread \ {s} : \A k \in DOMAIN stack'[u] :
                    stack'[u][k].announced \/ ~OnFallback(s)' =>
                      Without(stack'[u][k], op'[s].ids)
    <3>1. op[s].name = "return" /\ op[s].ids \subseteq gone
      BY <1>1, <1>2, <2>2, Zenon DEF WaitKept
    <3>2. op[s].name # "none"
      BY <3>1
    <3>3. stack'[s] = stack[s]
      BY <3>2, WritersStay, Zenon
    <3>4. OnFallback(s)' <=> OnFallback(s)
      BY <3>3, Zenon DEF OnFallback
    <3>5. ASSUME NEW u \in Thread \ {s}, NEW k \in DOMAIN stack'[u],
                 stack'[u][k].announced \/ ~OnFallback(s)
          PROVE  Without(stack'[u][k], op[s].ids)
      <4>1. k \in DOMAIN stack[u] /\ Kin(stack'[u][k], stack[u][k]) =>
              Without(stack[u][k], op[s].ids)
        BY <1>1, <3>1, <3>5, Zenon DEF WaitKept, Kin
      <4> QED
        BY <3>1, <4>1, StillWithout, Zenon
    <3> QED
      BY <1>1, <1>2, <3>1, <3>4, <3>5, Zenon
  <2> QED
    BY <2>1, <2>2, Zenon DEF WaitKept
<1>3. CASE s = t /\ op'[t] # op[t]
  <2>1. op \in [Thread -> Ops]
    BY Zenon DEF Types
  <2>2. ASSUME op'[t].name \notin {"wait", "return"}
        PROVE  WaitKept(t)'
    BY <2>2 DEF WaitKept
  <2>3. CASE Draws(t)
    <3>1. op'[t].name = "insert"
      BY <2>3, DrawStep, Zenon
    <3>2. op'[t].name \notin {"wait", "return"}
      BY <3>1
    <3> QED
      BY <1>3, <2>2, <3>2, Zenon
  <2>4. CASE op' = [op EXCEPT ![t] = NoOp]
    <3>1. op'[t] = NoOp
      BY <2>1, <2>4, Zenon
    <3>2. op'[t].name \notin {"wait", "return"}
      BY <3>1 DEF NoOp
    <3> QED
      BY <1>3, <2>2, <3>2, Zenon
  <2>5. CASE \E ids \in SUBSET Id : WaitBegins(t, ids)
    <3>1. PICK ids \in SUBSET Id : WaitBegins(t, ids)
      BY <2>5, Zenon
    <3>2. op'[t] = Waiting(ids) /\ stack' = stack /\ ids \subseteq gone'
      BY <2>1, <3>1, Zenon DEF WaitBegins
    <3>3. op'[t].name = "wait" /\ op'[t].ids = ids /\ op'[t].since = version + 1
      BY <3>2 DEF Waiting
    <3>4. ASSUME NEW u \in Thread, NEW k \in DOMAIN stack[u]
          PROVE  ~(stack[u][k].version >= version + 1)
      <4>1. stack[u][k].version <= version
        BY Zenon DEF StackInv, FrameInv, FrameOf
      <4>2. stack[u][k] \in Frame /\ version \in Nat
        <5>1. stack[u] \in Seq(Frame) /\ version \in Nat
          BY Zenon DEF Types
        <5> QED
          BY <5>1
      <4>3. stack[u][k].version \in Nat
        BY <4>2 DEF Frame
      <4> QED
        BY <4>1, <4>2, <4>3
    <3>5. op'[t].name # "return"
      BY <3>3
    <3> QED
      BY <1>3, <3>2, <3>3, <3>4, <3>5, Zenon DEF WaitKept
  <2>6. CASE WaitForRetiredReaders(t)
    <3>1. /\ op[t].name = "wait" /\ WaitOver(t) /\ stack' = stack
          /\ op' = [op EXCEPT ![t] = Returned(op[t].ids)]
      BY <2>6, Zenon DEF WaitForRetiredReaders, Call
    <3>2. op'[t] = Returned(op[t].ids)
      BY <2>1, <3>1, Zenon
    <3>3. op'[t].name = "return" /\ op'[t].ids = op[t].ids
      BY <3>2 DEF Returned
    <3>4. op'[t].name # "wait"
      BY <3>3
    <3>5. ASSUME NEW u \in Thread \ {t}, NEW k \in DOMAIN stack[u],
                 stack[u][k].announced \/ ~OnFallback(t)
          PROVE  Without(stack[u][k], op[t].ids)
      <4>1. stack[u][k].announced /\ stack[u][k].version >= op[t].since
        BY <3>1, <3>5, Zenon DEF WaitOver
      <4> QED
        BY <1>1, <1>3, <3>1, <4>1, Zenon DEF WaitKept
    <3>6. OnFallback(t)' <=> OnFallback(t)
      BY <3>1, Zenon DEF OnFallback
    <3>7. op[t].ids \subseteq gone'
      BY <1>1, <1>3, <3>1, Zenon DEF WaitKept
    <3> QED
      BY <1>3, <3>1, <3>3, <3>4, <3>5, <3>6, <3>7, Zenon DEF WaitKept
  <2> QED
    BY <1>3, <2>3, <2>4, <2>5, <2>6, OpMoves, Zenon
<1> QED
  BY <1>2, <1>3, OpStep, Zenon

\* Which frames are inside a handler only the frame that moves can change.
LEMMA InsideStays ==
  ASSUME Types, NEW t \in Thread, OnlyHere(t), NEW id,
         \/ stack'[t] = stack[t]
         \/ Pushed(t)
         \/ Popped(t) /\ ~Inside(Top(t), id)
         \/ \E f : Topped(t, f) /\ (Inside(f, id) <=> Inside(Top(t), id))
  PROVE  FramesInside(id)' = FramesInside(id)
<1> DEFINE Old(u, k) == k <= Len(stack[u]) /\ Inside(stack[u][k], id)
           New(u, k) == k <= Len(stack'[u]) /\ Inside(stack'[u][k], id)
<1>1. \A u \in Thread : Len(stack[u]) \in Nat /\ Len(stack'[u]) \in Nat
  <2>1. \A s \in Seq(Frame) : Len(s) \in Nat
    OBVIOUS
  <2> QED
    BY <2>1, Zenon DEF Types, OnlyHere
<1>2. MaxDepth \in Nat
  BY ConstantsAssumption, Zenon
<1>3. ASSUME NEW u \in Thread, NEW k \in 1..MaxDepth PROVE New(u, k) <=> Old(u, k)
  <2>1. CASE stack'[u] = stack[u]
    BY <2>1, Zenon
  <2>2. CASE u = t /\ Pushed(t)
    <3>1. CASE k <= Len(stack[t])
      <4>1. k \in 1..Len(stack[t]) /\ k <= Len(stack'[t])
        BY <1>1, <1>2, <2>2, <3>1 DEF Pushed
      <4> QED
        BY <2>2, <3>1, <4>1, Zenon DEF Pushed
    <3>2. CASE k = Len(stack[t]) + 1
      <4>1. ~Inside(stack'[t][k], id)
        BY <2>2, <3>2 DEF Pushed, Inside
      <4>2. ~(k <= Len(stack[t]))
        BY <1>1, <3>2
      <4> QED
        BY <2>2, <4>1, <4>2, Zenon
    <3>3. CASE k > Len(stack[t]) + 1
      BY <1>1, <1>2, <2>2, <3>3 DEF Pushed
    <3> QED
      BY <1>1, <1>2, <3>1, <3>2, <3>3
  <2>3. CASE u = t /\ Popped(t) /\ ~Inside(Top(t), id)
    <3>1. CASE k <= Len(stack[t]) - 1
      <4>1. k \in 1..(Len(stack[t]) - 1) /\ k <= Len(stack'[t]) /\ k <= Len(stack[t])
        BY <1>1, <1>2, <2>3, <3>1 DEF Popped
      <4> QED
        BY <2>3, <4>1, Zenon DEF Popped
    <3>2. CASE k = Len(stack[t])
      <4>1. ~(k <= Len(stack'[t]))
        BY <1>1, <2>3, <3>2 DEF Popped
      <4> QED
        BY <2>3, <3>2, <4>1, Zenon DEF Top
    <3>3. CASE k > Len(stack[t])
      BY <1>1, <1>2, <2>3, <3>3 DEF Popped
    <3> QED
      BY <1>1, <1>2, <3>1, <3>2, <3>3
  <2>4. CASE u = t /\ \E f : Topped(t, f) /\ (Inside(f, id) <=> Inside(Top(t), id))
    <3>1. PICK f : Topped(t, f) /\ (Inside(f, id) <=> Inside(Top(t), id))
      BY <2>4, Zenon
    <3>2. Len(stack'[t]) = Len(stack[t])
      BY <3>1, Zenon DEF Topped
    <3>3. CASE k \in 1..(Len(stack[t]) - 1)
      BY <2>4, <3>1, <3>2, <3>3, Zenon DEF Topped
    <3>4. CASE k = Len(stack[t])
      BY <2>4, <3>1, <3>2, <3>4, Zenon DEF Topped, Top
    <3>5. CASE ~(k <= Len(stack[t]))
      BY <2>4, <3>2, <3>5, Zenon
    <3>6. k \in 1..(Len(stack[t]) - 1) \/ k = Len(stack[t]) \/ ~(k <= Len(stack[t]))
      BY <1>1, <1>2
    <3> QED
      BY <3>3, <3>4, <3>5, <3>6, Zenon
  <2> QED
    BY <2>1, <2>2, <2>3, <2>4, Zenon DEF OnlyHere
<1>4. ASSUME NEW e \in Frames PROVE New(e[1], e[2]) <=> Old(e[1], e[2])
  <2>1. e[1] \in Thread /\ e[2] \in 1..MaxDepth
    BY DEF Frames
  <2> QED
    BY <1>3, <2>1, Zenon
<1>5. FramesInside(id) = {e \in Frames : Old(e[1], e[2])}
  BY Zenon DEF FramesInside
<1>6. FramesInside(id)' = {e \in Frames : New(e[1], e[2])}
  BY Zenon DEF FramesInside, Inside, Running
<1> QED
  BY <1>4, <1>5, <1>6, Zenon

\* The innermost call: where it is in its list, and the kind of its handler.
LEMMA TopKind ==
  ASSUME Types, StackInv, Kinds, NEW t \in Thread, stack[t] # <<>>,
         NEW i \in DOMAIN handlers
  PROVE  /\ Top(t) \in Frame /\ FrameInv(Top(t))
         /\ \A k \in DOMAIN Top(t).list :
              Top(t).list[k].id = handlers[i].id => Top(t).list[k].once = handlers[i].once
         /\ Top(t).phase # "next" => Top(t).at \in DOMAIN Top(t).list
         /\ Top(t).at < Len(Top(t).list) => Top(t).at + 1 \in DOMAIN Top(t).list
<1>1. stack \in [Thread -> Seq(Frame)] /\ stack[t] \in Seq(Frame)
  BY Zenon DEF Types
<1>2. Top(t) \in Frame /\ Len(stack[t]) \in 1..Len(stack[t])
  BY <1>1, TopIsFrame, Zenon
<1>3. Len(stack[t]) \in DOMAIN stack[t]
  BY <1>1, <1>2
<1>4. FrameInv(Top(t))
  BY <1>3, Zenon DEF StackInv, Top
<1>5. PICK f \in Frame : f = Top(t) /\ FrameInv(f)
  BY <1>2, <1>4, Zenon
<1>6. /\ f.phase # "next" => f.at \in DOMAIN f.list
      /\ f.at < Len(f.list) => f.at + 1 \in DOMAIN f.list
  <2>1. f.list \in Seq(Entry) /\ f.at \in Nat
    BY DEF Frame
  <2>2. f.at \in 0..Len(f.list) /\ (f.phase # "next" => f.at > 0)
    BY <1>5, Zenon DEF FrameInv, FrameOf
  <2> QED
    BY <2>1, <2>2
<1>7. \A k \in DOMAIN f.list : f.list[k].id = handlers[i].id => f.list[k].once = handlers[i].once
  BY <1>3, <1>5, Zenon DEF Kinds, Top
<1> QED
  BY <1>4, <1>5, <1>6, <1>7, Zenon

\* A dispatch takes a once handler that nobody is inside.
LEMMA RunsAlone ==
  ASSUME Types, NEW t \in Thread, OnlyHere(t), NEW f, Topped(t, f), NEW id,
         Inside(f, id), FramesInside(id) = {}, Len(stack[t]) <= MaxDepth
  PROVE  FramesInside(id)' = {<<t, Len(stack[t])>>}
<1>1. \A u \in Thread : Len(stack[u]) \in Nat /\ Len(stack'[u]) \in Nat
  <2>1. \A s \in Seq(Frame) : Len(s) \in Nat
    OBVIOUS
  <2> QED
    BY <2>1, Zenon DEF Types, OnlyHere
<1>2. Len(stack[t]) \in 1..Len(stack[t]) /\ stack[t] \in Seq(Frame)
  BY TopIsFrame, Zenon DEF Topped, Types
<1>3. MaxDepth \in Nat
  BY ConstantsAssumption, Zenon
<1>4. Len(stack'[t]) = Len(stack[t])
  BY Zenon DEF Topped
<1>5. ASSUME NEW u \in Thread, NEW k \in 1..MaxDepth, k <= Len(stack'[u]),
             Inside(stack'[u][k], id)
      PROVE  <<u, k>> = <<t, Len(stack[t])>>
  <2>1. <<u, k>> \in Frames /\ <<u, k>>[1] = u /\ <<u, k>>[2] = k
    BY DEF Frames
  <2>2. ~(k <= Len(stack[u]) /\ Inside(stack[u][k], id))
    BY <2>1, Zenon DEF FramesInside
  <2>3. u = t
    BY <1>5, <2>2, Zenon DEF OnlyHere
  <2>4. k <= Len(stack[t]) /\ ~Inside(stack[t][k], id)
    BY <1>4, <1>5, <2>2, <2>3, Zenon
  <2>5. k \notin 1..(Len(stack[t]) - 1)
    BY <1>5, <2>3, <2>4, Zenon DEF Topped
  <2>6. k = Len(stack[t])
    BY <1>1, <1>3, <2>4, <2>5
  <2> QED
    BY <2>3, <2>6, Zenon
<1>6. FramesInside(id)' =
        {e \in Frames : e[2] <= Len(stack'[e[1]]) /\ Inside(stack'[e[1]][e[2]], id)}
  BY Zenon DEF FramesInside, Inside, Running
<1>7. \A e \in Frames : e = <<e[1], e[2]>> /\ e[1] \in Thread /\ e[2] \in 1..MaxDepth
  BY DEF Frames
<1>8. \A e \in FramesInside(id)' : e = <<t, Len(stack[t])>>
  BY <1>5, <1>6, <1>7, Zenon
<1>9. <<t, Len(stack[t])>> \in FramesInside(id)'
  <2>1. PICK e : e = <<t, Len(stack[t])>>
    BY Zenon
  <2>2. Len(stack[t]) \in 1..MaxDepth
    BY <1>1, <1>2, <1>3
  <2>3. e \in Frames /\ e[1] = t /\ e[2] = Len(stack[t])
    BY <2>1, <2>2 DEF Frames
  <2>4. stack'[t][Len(stack[t])] = f /\ Len(stack[t]) <= Len(stack'[t])
    BY <1>1, <1>4 DEF Topped
  <2> QED
    BY <1>6, <2>1, <2>3, <2>4, Zenon
<1> QED
  BY <1>8, <1>9, Zenon

\* The innermost dispatch of t takes the once handler from its slot.
Taken(t, id) ==
  /\ id \in full /\ id \notin full' /\ FramesInside(id)' = {<<t, Len(stack[t])>>}

\* A once handler that stays registered: who is inside it stays the same, and
\* whether its slot is full, or a dispatch takes it.
LEMMA OnceMoves ==
  ASSUME Types, IdInv, ListInv, StackInv, OnceInv, NEW t \in Thread, Move(t),
         NEW id, NEW i \in DOMAIN handlers, handlers[i].once, handlers[i].id = id,
         id \in Ids(handlers')
  PROVE  \/ /\ FramesInside(id)' = FramesInside(id)
            /\ id \in full' <=> id \in full
         \/ Taken(t, id)
<1>1. id = handlers[i].id
  OBVIOUS
<1>2. id \in returned /\ Ids(handlers) = returned \ gone
  BY <1>1, Zenon DEF ListInv, LiveList, Ids
<1>3. OnlyHere(t) /\ Kinds
  BY StackMoves, Zenon DEF OnceInv
<1>4. CASE ~Run(t)
  <2>1. id \in full' <=> id \in full
    <3>1. CASE Draws(t)
      <4>1. next_id \in Id /\ full \subseteq full' /\ full' \subseteq full \cup {next_id}
        BY <3>1, DrawStep, Zenon
      <4>2. id < next_id /\ next_id \in Nat
        BY <1>2, Zenon DEF IdInv, Types
      <4>3. id # next_id
        BY <4>2
      <4> QED
        BY <4>1, <4>3, Zenon
    <3> QED
      BY <1>4, <3>1, PanicStep, Zenon
  <2>2. \/ stack'[t] = stack[t]
        \/ Pushed(t)
        \/ Popped(t) /\ ~Inside(Top(t), id)
        \/ \E f : Topped(t, f) /\ (Inside(f, id) <=> Inside(Top(t), id))
    <3>1. ASSUME stack[t] # <<>>
          PROVE  /\ Top(t) \in Frame
                 /\ Top(t).phase # "next" /\ Running(Top(t)).id = id => Running(Top(t)).once
      BY <1>1, <1>3, <3>1, TopKind, Zenon DEF Running
    <3>2. ASSUME NEW from, NEW f, Continues(t, from, f), Inside(f, id) <=> Inside(Top(t), id)
          PROVE  \E g : Topped(t, g) /\ (Inside(g, id) <=> Inside(Top(t), id))
      BY <3>2, Zenon DEF Continues
    <3>3. ASSUME NEW from, NEW f, Continues(t, from, f)
          PROVE  stack[t] # <<>> /\ Top(t).phase = from /\ Top(t) \in Frame
      BY <3>1, <3>3, Zenon DEF Continues
    <3>4. CASE Write(t)
      BY <3>4, Zenon DEF Write, RegisterWithPriority, RegisterOnce, Draw, InsertEntry,
         Unregister, Clear, UnregisterAndWait, ClearAndWait, WaitForRetiredReaders,
         Return, SetCallback
    <3>5. CASE Notify(t)
      BY <3>5, PushMoves, Zenon DEF Notify, User, Types
    <3>6. CASE NotifyReturn(t) \/ PayloadUnwinds(t)
      <4>1. /\ stack[t] # <<>> /\ Pop(t)
            /\ Top(t).phase = "next" \/ Top(t).phase \in {"callback", "payload"}
        BY <3>6, Zenon DEF NotifyReturn, PayloadUnwinds
      <4>2. ~Inside(Top(t), id)
        BY <4>1 DEF Inside
      <4> QED
        BY <4>1, <4>2, PopMoves, Zenon DEF Types
    <3>7. CASE Skip(t)
      <4>1. Continues(t, "next", AfterSkip(Top(t)))
        BY <3>7, TopSteps, Zenon
      <4>2. PICK f \in Frame : f = Top(t) /\ f.phase = "next"
        BY <3>3, <4>1
      <4>3. ~Inside(AfterSkip(f), id) /\ ~Inside(f, id)
        BY <4>2 DEF Inside, AfterSkip, Frame
      <4> QED
        BY <3>2, <4>1, <4>2, <4>3, Zenon
    <3>8. CASE HandlerReturn(t) \/ HandlerPanic(t)
      <4>1. \/ Continues(t, "handler", AfterReturn(Top(t)))
            \/ Continues(t, "handler", AfterPanic(Top(t)))
        BY <3>8, TopSteps, Zenon
      <4>2. PICK f \in Frame : f = Top(t) /\ f.phase = "handler"
        BY <3>3, <4>1
      <4>3. stack[t] # <<>> /\ f.phase # "next"
        BY <3>3, <4>1, <4>2
      <4>4. Running(f).id = id => Running(f).once
        BY <3>1, <4>2, <4>3, Zenon
      <4>5. /\ Running(AfterReturn(f)) = Running(f) /\ Running(AfterPanic(f)) = Running(f)
            /\ Running(f).once => AfterReturn(f).phase = "remove" /\ AfterPanic(f).phase = "remove"
        BY DEF Running, AfterReturn, AfterPanic, Frame
      <4>6. CASE Running(f).id = id
        <5>1. AfterReturn(f).phase = "remove" /\ AfterPanic(f).phase = "remove"
          BY <4>4, <4>5, <4>6, Zenon
        <5>2. Inside(AfterReturn(f), id) /\ Inside(AfterPanic(f), id) /\ Inside(f, id)
          BY <4>2, <4>5, <4>6, <5>1 DEF Inside
        <5> QED
          BY <3>2, <4>1, <4>2, <5>2, Zenon
      <4>7. CASE Running(f).id # id
        <5>1. ~Inside(AfterReturn(f), id) /\ ~Inside(AfterPanic(f), id) /\ ~Inside(f, id)
          BY <4>5, <4>7, Zenon DEF Inside
        <5> QED
          BY <3>2, <4>1, <4>2, <5>1, Zenon
      <4> QED
        BY <4>6, <4>7, Zenon
    <3>9. CASE RemoveOnDrop(t)
      <4>1. Continues(t, "remove", AfterRemove(Top(t)))
        BY <3>9, TopSteps, Zenon
      <4>2. PICK f \in Frame : f = Top(t) /\ f.phase = "remove"
        BY <3>3, <4>1
      <4>3. RemoveEntry(Running(f).id)
        BY <3>9, <4>2, Zenon DEF RemoveOnDrop
      <4>4. Running(f).id # id
        <5> SUFFICES ASSUME Running(f).id = id PROVE FALSE
          BY Zenon
        <5>1. ContainsId(handlers, id)
          BY <1>1, Zenon DEF ContainsId
        <5>2. handlers' = RemoveId(handlers, id) /\ gone' = gone \cup {id}
          BY <4>3, <5>1, Zenon DEF RemoveEntry, Store
        <5>3. Ids(handlers') = returned' \ gone'
          BY ListStep, Zenon DEF ListInv, LiveList, Ids
        <5> QED
          BY <1>1, <5>2, <5>3, Zenon
      <4>5. ~Inside(AfterRemove(f), id) /\ ~Inside(f, id)
        <5>1. Running(AfterRemove(f)) = Running(f)
          BY DEF Running, AfterRemove, Frame
        <5> QED
          BY <4>4, <5>1, Zenon DEF Inside
      <4> QED
        BY <3>2, <4>1, <4>2, <4>5, Zenon
    <3>10. CASE CountPanic(t) \/ FetchCallback(t)
      <4>1. \/ Continues(t, "count", AfterCount(Top(t)))
            \/ Continues(t, "fetch", AfterFetch(Top(t)))
        BY <3>10, TopSteps, Zenon
      <4>2. PICK f \in Frame : f = Top(t) /\ f.phase \in {"count", "fetch"}
        BY <3>3, <4>1
      <4>3. ~Inside(AfterCount(f), id) /\ ~Inside(AfterFetch(f), id) /\ ~Inside(f, id)
        BY <4>2 DEF Inside, AfterCount, AfterFetch, Frame
      <4> QED
        BY <3>2, <4>1, <4>2, <4>3, Zenon
    <3>11. CASE CallbackEnd(t) \/ DropPayload(t)
      <4>1. \/ Continues(t, "callback", AfterCallback(Top(t)))
            \/ Continues(t, "payload", AfterPayload(Top(t)))
        BY <3>11, TopSteps, Zenon
      <4>2. PICK f \in Frame : f = Top(t) /\ f.phase \in {"callback", "payload"}
        BY <3>3, <4>1
      <4>3. ~Inside(AfterCallback(f), id) /\ ~Inside(AfterPayload(f), id) /\ ~Inside(f, id)
        BY <4>2 DEF Inside, AfterCallback, AfterPayload, Frame
      <4> QED
        BY <3>2, <4>1, <4>2, <4>3, Zenon
    <3> QED
      BY <1>4, <3>4, <3>5, <3>6, <3>7, <3>8, <3>9, <3>10, <3>11, Zenon DEF Move, Dispatch
  <2>3. FramesInside(id)' = FramesInside(id)
    BY <1>3, <2>2, InsideStays, Zenon
  <2> QED
    BY <1>1, <2>1, <2>3, Zenon
<1>5. CASE Run(t)
  <2>1. Continues(t, "next", AfterRun(Top(t)))
    BY <1>5, TopSteps, Zenon
  <2>2. stack[t] # <<>> /\ Topped(t, AfterRun(Top(t))) /\ Top(t).phase = "next"
    BY <2>1, Zenon DEF Continues
  <2>3. PICK f \in Frame : f = Top(t)
    BY <2>2, TopIsFrame, Zenon DEF Types
  <2>4. PICK e : e = f.list[f.at + 1]
    OBVIOUS
  <2>5. /\ f.at < Len(f.list) /\ (e.once => e.id \in full)
        /\ full' = IF e.once THEN full \ {e.id} ELSE full
    BY <1>5, <2>3, <2>4, Zenon DEF Run
  <2>6. AfterRun(f).phase = "handler" /\ Running(AfterRun(f)) = e
    BY <2>4 DEF AfterRun, Running, Frame
  <2>7. f.at + 1 \in DOMAIN f.list
    BY <1>3, <2>2, <2>3, <2>5, TopKind, Zenon
  <2>8. CASE e.id = id
    <3>1. e.once
      BY <1>1, <1>3, <2>2, <2>3, <2>4, <2>7, <2>8, TopKind, Zenon
    <3>2. id \in full /\ id \notin full'
      BY <2>5, <2>8, <3>1, Zenon
    <3>3. FramesInside(id) = {} /\ Len(stack[t]) <= MaxDepth
      BY <1>1, <1>2, <3>2, Zenon DEF OnceInv, Types
    <3>4. Inside(AfterRun(f), id)
      BY <2>6, <2>8 DEF Inside
    <3>5. FramesInside(id)' = {<<t, Len(stack[t])>>}
      BY <1>3, <2>2, <2>3, <3>3, <3>4, RunsAlone, Zenon
    <3> QED
      BY <1>1, <3>2, <3>5, Zenon DEF Taken
  <2>9. CASE e.id # id
    <3>1. id \in full' <=> id \in full
      BY <2>5, <2>9, Zenon
    <3>2. ~Inside(AfterRun(f), id)
      BY <2>6, <2>9, Zenon DEF Inside
    <3>3. ~Inside(f, id)
      BY <2>2, <2>3 DEF Inside
    <3>4. FramesInside(id)' = FramesInside(id)
      BY <1>3, <2>2, <2>3, <3>2, <3>3, InsideStays, Zenon
    <3> QED
      BY <1>1, <3>1, <3>4, Zenon
  <2> QED
    BY <2>8, <2>9, Zenon
<1> QED
  BY <1>4, <1>5, Zenon

\* Every move keeps the once handlers to one run.
LEMMA OnceStep ==
  ASSUME Types, IdInv, ListInv, StackInv, OnceInv, NEW t \in Thread, Move(t)
  PROVE  OnceInv'
<1>1. ASSUME NEW u \in Thread PROVE Len(stack'[u]) <= MaxDepth
  <2>1. Len(stack[u]) <= MaxDepth
    BY Zenon DEF OnceInv
  <2>2. Len(stack[u]) \in Nat /\ MaxDepth \in Nat
    BY ConstantsAssumption DEF Types
  <2>3. CASE stack'[u] = stack[u]
    BY <2>1, <2>3, Zenon
  <2>4. CASE u = t /\ Pushed(t) /\ Len(stack[t]) < MaxDepth
    BY <2>2, <2>4 DEF Pushed
  <2>5. CASE u = t /\ Popped(t)
    BY <2>1, <2>2, <2>5 DEF Popped
  <2>6. CASE u = t /\ \E f : Topped(t, f) /\ Keeps(t, f)
    BY <2>1, <2>6, Zenon DEF Topped
  <2> QED
    BY <2>3, <2>4, <2>5, <2>6, StackMoves, Zenon DEF OnlyHere
<1>2. Ids(handlers) \subseteq returned
  BY Zenon DEF ListInv, LiveList, Ids
<1>3. NothingNew(t)
  BY ListStep, Zenon
<1>4. ASSUME InsertEntry(t)
      PROVE  Inserting(t) /\ op[t].entry.id \notin returned
  BY <1>4, Zenon DEF InsertEntry, IdInv, Inserting
<1>5. Kinds'
  <2> SUFFICES ASSUME NEW u \in Thread, NEW k \in DOMAIN stack'[u],
                      NEW i \in DOMAIN stack'[u][k].list, NEW j \in DOMAIN handlers',
                      stack'[u][k].list[i].id = handlers'[j].id
               PROVE  stack'[u][k].list[i].once = handlers'[j].once
    BY Zenon DEF Kinds
  <2>1. CASE k \in DOMAIN stack[u] /\ Kin(stack'[u][k], stack[u][k])
    <3>1. stack'[u][k].list = stack[u][k].list /\ Ids(stack[u][k].list) \subseteq returned
      BY <2>1, Zenon DEF Kin, StackInv, FrameInv, FrameOf
    <3>2. handlers'[j].id \in returned
      BY <3>1, Zenon DEF Ids
    <3>3. PICK m \in DOMAIN handlers : handlers'[j] = handlers[m]
      BY <1>3, <1>4, <3>2, Zenon DEF NothingNew
    <3>4. i \in DOMAIN stack[u][k].list /\ stack[u][k].list[i].id = handlers[m].id
      BY <3>1, <3>3, Zenon
    <3>5. stack[u][k].list[i].once = handlers[m].once
      BY <2>1, <3>4, Zenon DEF OnceInv, Kinds
    <3> QED
      BY <3>1, <3>3, <3>5, Zenon
  <2>2. CASE stack'[u][k].list = handlers
    <3>1. handlers'[j].id \in returned
      BY <1>2, <2>2, Zenon DEF Ids
    <3>2. PICK m \in DOMAIN handlers : handlers'[j] = handlers[m]
      BY <1>3, <1>4, <3>1, Zenon DEF NothingNew
    <3>3. i = m
      BY <2>2, <3>2, Zenon DEF ListInv, Distinct
    <3> QED
      BY <2>2, <3>2, <3>3, Zenon
  <2> QED
    BY <2>1, <2>2, FramesStay, Zenon
<1>6. ASSUME NEW u \in Thread, op'[u].name = "insert", op'[u].entry.once
      PROVE  op'[u].entry.id \in full'
  <2>1. CASE u = t /\ Draws(t)
    BY <1>6, <2>1, DrawStep, Zenon
  <2>2. CASE ~(u = t /\ Draws(t))
    <3>1. op'[u] = op[u] /\ Inserting(u)
      BY <1>6, <2>2, OpStep, Zenon DEF Inserting
    <3>2. op[u].entry.id \in full /\ op[u].entry.id \notin returned
      BY <1>6, <3>1, Zenon DEF OnceInv, IdInv
    <3>3. CASE Draws(t)
      BY <3>1, <3>2, <3>3, DrawStep, Zenon
    <3>4. CASE Run(t)
      <4>1. stack[t] # <<>> /\ Top(t).at < Len(Top(t).list)
        BY <3>4, Zenon DEF Run
      <4>2. PICK f \in Frame : f = Top(t) /\ FrameInv(f)
        <5>1. Top(t) \in Frame /\ Len(stack[t]) \in 1..Len(stack[t]) /\ stack[t] \in Seq(Frame)
          BY <4>1, TopIsFrame, Zenon DEF Types
        <5>2. Len(stack[t]) \in DOMAIN stack[t]
          BY <5>1
        <5> QED
          BY <5>1, <5>2, Zenon DEF StackInv, Top
      <4>3. f.at + 1 \in DOMAIN f.list
        <5>1. f.list \in Seq(Entry) /\ f.at \in Nat
          BY DEF Frame
        <5> QED
          BY <4>1, <4>2, <5>1
      <4>4. f.list[f.at + 1].id \in returned
        BY <4>2, <4>3, Zenon DEF FrameInv, FrameOf, Ids
      <4>5. full \ {f.list[f.at + 1].id} \subseteq full'
        BY <3>4, <4>2, Zenon DEF Run
      <4> QED
        BY <3>1, <3>2, <4>4, <4>5, Zenon
    <3>5. CASE full' = full
      BY <3>1, <3>2, <3>5, Zenon
    <3> QED
      BY <3>3, <3>4, <3>5, PanicStep, Zenon
  <2> QED
    BY <2>1, <2>2, Zenon
<1>7. ASSUME NEW id \in Id, \E j \in DOMAIN handlers' : handlers'[j].once /\ handlers'[j].id = id
      PROVE  /\ id \in full' => FramesInside(id)' = {}
             /\ id \notin full' => \E e : FramesInside(id)' = {e}
  <2>1. PICK j \in DOMAIN handlers' : handlers'[j].once /\ handlers'[j].id = id
    BY <1>7, Zenon
  <2>2. id \in Ids(handlers')
    BY <2>1, Zenon DEF Ids
  <2>3. CASE \E i \in DOMAIN handlers : handlers'[j] = handlers[i]
    <3>1. PICK i \in DOMAIN handlers : handlers[i].once /\ handlers[i].id = id
      BY <2>1, <2>3, Zenon
    <3>2. /\ id \in full => FramesInside(id) = {}
          /\ id \notin full => \E e : FramesInside(id) = {e}
      BY <3>1, Zenon DEF OnceInv
    <3>3. \/ FramesInside(id)' = FramesInside(id) /\ (id \in full' <=> id \in full)
          \/ Taken(t, id)
      BY <2>2, <3>1, OnceMoves, Zenon
    <3> QED
      BY <3>2, <3>3, Zenon DEF Taken
  <2>4. CASE InsertEntry(t) /\ handlers'[j] = op[t].entry
    <3>1. Inserting(t) /\ id \notin returned /\ op[t].entry.id = id /\ op[t].entry.once
      BY <1>4, <2>1, <2>4, Zenon
    <3>2. id \in full /\ full' = full /\ stack' = stack
      BY <2>4, <3>1, Zenon DEF OnceInv, InsertEntry
    <3>3. ASSUME NEW e \in Frames, e[2] <= Len(stack[e[1]]), Inside(stack[e[1]][e[2]], id)
          PROVE  FALSE
      <4>1. e[1] \in Thread /\ e[2] \in 1..MaxDepth
        BY DEF Frames
      <4>2. PICK u \in Thread, k \in 1..MaxDepth : u = e[1] /\ k = e[2]
        BY <4>1, Zenon
      <4>3. stack[u] \in Seq(Frame) /\ k <= Len(stack[u]) /\ Inside(stack[u][k], id)
        BY <3>3, <4>2, Zenon DEF Types
      <4>4. k \in DOMAIN stack[u] /\ stack[u][k] \in Frame
        BY <4>3, ConstantsAssumption
      <4>5. PICK f \in Frame : f = stack[u][k] /\ FrameInv(f) /\ Inside(f, id)
        BY <4>3, <4>4, Zenon DEF StackInv
      <4>6. f.at \in DOMAIN f.list
        <5>1. f.list \in Seq(Entry) /\ f.at \in 0..Len(f.list) /\ (f.phase # "next" => f.at > 0)
          BY <4>5 DEF Frame, FrameInv, FrameOf
        <5>2. f.phase # "next"
          BY <4>5 DEF Inside
        <5> QED
          BY <5>1, <5>2
      <4>7. id \in Ids(f.list)
        BY <4>5, <4>6, Zenon DEF Inside, Running, Ids
      <4> QED
        BY <3>1, <4>5, <4>7, Zenon DEF FrameInv, FrameOf
    <3>4. FramesInside(id)' = FramesInside(id)
      BY <3>2, Zenon DEF FramesInside
    <3>5. FramesInside(id) = {}
      BY <3>3, Zenon DEF FramesInside
    <3> QED
      BY <3>2, <3>4, <3>5, Zenon
  <2> QED
    BY <1>3, <2>3, <2>4, Zenon DEF NothingNew
<1> QED
  BY <1>1, <1>5, <1>6, <1>7, Zenon DEF OnceInv, Inserting

-----------------------------------------------------------------------------
(* The theorems *)

\* A new registry: no handlers, no calls.
LEMMA InitSafe ==
  ASSUME Init
  PROVE  RegistryInv
<1>1. << >> \in Seq(Entry) /\ << >> \in Seq(Frame) /\ Len(<< >>) = 0 /\ DOMAIN << >> = {}
  OBVIOUS
<1>2. Types
  <2>1. NoOp \in Ops
    BY DEF Ops
  <2>2. stack \in [Thread -> Seq(Frame)] /\ op \in [Thread -> Ops] /\ before \in [Id -> SUBSET Id]
    BY <1>1, <2>1, Zenon DEF Init
  <2>3. version \in Nat /\ next_id \in Nat /\ panic_callback \in [epoch : Nat, set : BOOLEAN]
    BY DEF Init
  <2> QED
    BY <1>1, <2>2, <2>3, Zenon DEF Types, Init
<1>3. \A t \in Thread : op[t].name = "none" /\ stack[t] = << >>
  BY DEF Init, NoOp
<1>4. \A t \in Thread : op[t].name # "insert" /\ op[t].name # "wait" /\ op[t].name # "return"
  BY <1>3
<1>5. IdInv
  BY <1>4, Zenon DEF Init, IdInv, Inserting
<1>6. ListInv
  <2>1. {handlers[k].id : k \in DOMAIN handlers} = {} /\ returned \ gone = {}
    BY <1>1, Zenon DEF Init
  <2>2. Len(handlers) = Cardinality({})
    BY <1>1, FS_EmptySet, Zenon DEF Init
  <2>3. FiringOrder /\ Distinct(handlers)
    BY <1>1, Zenon DEF Init, FiringOrder, Distinct
  <2> QED
    BY <2>1, <2>2, <2>3, Zenon DEF ListInv, LiveList
<1>7. StackInv
  BY <1>1, <1>3, Zenon DEF StackInv
<1>8. WaitsKept
  BY <1>4, Zenon DEF WaitsKept, WaitKept
<1>9. OnceInv
  <2>1. Kinds
    BY <1>1, <1>3, Zenon DEF Kinds
  <2>2. \A t \in Thread : Len(stack[t]) <= MaxDepth
    BY <1>1, <1>3, ConstantsAssumption
  <2>3. DOMAIN handlers = {}
    BY <1>1, Zenon DEF Init
  <2> QED
    BY <1>4, <2>1, <2>2, <2>3, Zenon DEF OnceInv, Inserting
<1> QED
  BY <1>2, <1>5, <1>6, <1>7, <1>8, <1>9, Zenon DEF RegistryInv

\* Every step of the registry keeps the invariant.
LEMMA NextSafe ==
  ASSUME RegistryInv, [Next]_vars
  PROVE  RegistryInv'
<1>1. CASE Next
  <2>1. PICK t \in Thread : Move(t)
    BY <1>1, Zenon DEF Next, Move
  <2> QED
    BY <2>1, TypesStep, IdStep, ListStep, StackStep, WaitStep, OnceStep, Zenon DEF RegistryInv
<1>2. CASE UNCHANGED vars
  <2>1. /\ handlers' = handlers /\ version' = version /\ gone' = gone /\ next_id' = next_id
        /\ returned' = returned /\ before' = before /\ full' = full
        /\ panic_callback' = panic_callback /\ stack' = stack /\ op' = op
    BY <1>2, Zenon DEF vars, listVars, idVars, panicVars
  <2>2. Types' /\ IdInv'
    BY <2>1, Zenon DEF RegistryInv, Types, IdInv, Inserting
  <2>3. ListInv'
    BY <2>1, Zenon DEF RegistryInv, ListInv, FiringOrder, LiveList, Distinct
  <2>4. StackInv'
    BY <2>1, Zenon DEF RegistryInv, StackInv, FrameInv
  <2>5. WaitsKept'
    BY <2>1, Zenon DEF RegistryInv, WaitsKept, WaitKept, OnFallback
  <2>6. OnceInv'
    <3>1. Kinds'
      <4>1. Kinds
        BY Zenon DEF RegistryInv, OnceInv
      <4> QED
        BY <2>1, <4>1 DEF Kinds
    <3>2. \A id \in Id : FramesInside(id)' = FramesInside(id)
      BY <2>1, Zenon DEF FramesInside
    <3> QED
      BY <2>1, <3>1, <3>2, Zenon DEF RegistryInv, OnceInv, Inserting
  <2> QED
    BY <2>2, <2>3, <2>4, <2>5, <2>6, Zenon DEF RegistryInv
<1> QED
  BY <1>1, <1>2, Zenon

\* The registry keeps RegistryInv, whatever its users call from wherever.
THEOREM RegistrySafe == Spec => []RegistryInv
<1>1. Init => RegistryInv
  BY InitSafe
<1>2. RegistryInv /\ [Next]_vars => RegistryInv'
  BY NextSafe
<1> QED
  BY <1>1, <1>2, PTL DEF Spec

-----------------------------------------------------------------------------
(* The counters *)

\* The sizes behind BoundInv.
LEMMA Counts ==
  ASSUME NEW R, R \subseteq Id, NEW G, G \subseteq R
  PROVE  /\ Cardinality(R) \in Nat /\ Cardinality(G) \in Nat
         /\ Cardinality(G) <= Cardinality(R) /\ Cardinality(R) <= MaxId
         /\ \A x \in Id \ R : Cardinality(R \cup {x}) = Cardinality(R) + 1
         /\ \A x \in R \ G : /\ Cardinality(G \cup {x}) = Cardinality(G) + 1
                             /\ Cardinality(G) + 1 <= Cardinality(R)
<1>1. IsFiniteSet(Id) /\ Cardinality(Id) = MaxId
  <2>1. 1 \in Int /\ MaxId \in Int /\ MaxId \in Nat
    BY ConstantsAssumption
  <2>2. /\ IsFiniteSet(1..MaxId)
        /\ Cardinality(1..MaxId) = IF 1 > MaxId THEN 0 ELSE MaxId - 1 + 1
    BY <2>1, FS_Interval, Zenon
  <2> QED
    BY <2>1, <2>2 DEF Id
<1>2. IsFiniteSet(R) /\ IsFiniteSet(G)
  BY <1>1, FS_Subset, Zenon
<1>3. Cardinality(R) \in Nat /\ Cardinality(G) \in Nat
  BY <1>2, FS_CardinalityType, Zenon
<1>4. Cardinality(G) <= Cardinality(R) /\ Cardinality(R) <= MaxId
  BY <1>1, <1>2, FS_Subset, Zenon
<1>5. ASSUME NEW x \in Id \ R PROVE Cardinality(R \cup {x}) = Cardinality(R) + 1
  BY <1>2, FS_AddElement, Zenon
<1>6. ASSUME NEW x \in R \ G
      PROVE  /\ Cardinality(G \cup {x}) = Cardinality(G) + 1
             /\ Cardinality(G) + 1 <= Cardinality(R)
  <2>1. Cardinality(G \cup {x}) = Cardinality(G) + 1
    BY <1>2, FS_AddElement
  <2>2. G \cup {x} \subseteq R
    BY Zenon
  <2>3. Cardinality(G \cup {x}) <= Cardinality(R)
    BY <1>2, <2>2, FS_Subset, Zenon
  <2> QED
    BY <2>1, <2>3
<1> QED
  BY <1>3, <1>4, <1>5, <1>6, Zenon

\* A list is stored for an id that was not registered before, or for ids
\* that were not removed before.
LEMMA VersionStep ==
  ASSUME Types, IdInv, ListInv, StackInv, NEW t \in Thread, Move(t),
         version <= Cardinality(returned) + Cardinality(gone)
  PROVE  version' <= Cardinality(returned') + Cardinality(gone')
<1>1. version \in Nat /\ returned \subseteq Id /\ gone \subseteq returned /\ handlers \in Seq(Entry)
  BY Zenon DEF Types
<1>2. /\ Cardinality(returned) \in Nat /\ Cardinality(gone) \in Nat
      /\ \A x \in Id \ returned : Cardinality(returned \cup {x}) = Cardinality(returned) + 1
      /\ \A x \in returned \ gone : /\ Cardinality(gone \cup {x}) = Cardinality(gone) + 1
                                    /\ Cardinality(gone) + 1 <= Cardinality(returned)
  BY <1>1, Counts, Zenon
<1>3. \A j \in DOMAIN handlers : handlers[j].id \in returned \ gone
  BY Zenon DEF ListInv, LiveList
<1>4. CASE Stays
  BY <1>4, Zenon DEF Stays
<1>5. CASE InsertEntry(t)
  <2>1. /\ Inserting(t) /\ returned' = returned \cup {op[t].entry.id}
        /\ gone' = gone /\ version' = version + 1
    BY <1>5, Zenon DEF InsertEntry, Inserting, Store
  <2>2. op[t].entry.id \in Id \ returned
    BY <2>1, HasEntry, Zenon DEF IdInv
  <2>3. Cardinality(returned') = Cardinality(returned) + 1 /\ Cardinality(gone') = Cardinality(gone)
    BY <1>2, <2>1, <2>2, Zenon
  <2> QED
    BY <1>1, <1>2, <2>1, <2>3
<1>6. ASSUME NEW id \in returned, Removes(id)
      PROVE  version' <= Cardinality(returned') + Cardinality(gone')
  <2>1. id \in returned \ gone
    BY <1>3, <1>6, Zenon DEF Removes, ContainsId
  <2>2. /\ Cardinality(gone') = Cardinality(gone) + 1 /\ Cardinality(returned') = Cardinality(returned)
        /\ version' = version + 1
    BY <1>2, <1>6, <2>1, Zenon DEF Removes
  <2> QED
    BY <1>1, <1>2, <2>2
<1>7. CASE RemovesAll
  <2>1. 1 \in DOMAIN handlers
    BY <1>1, <1>7 DEF RemovesAll
  <2>2. Cardinality(gone) + 1 <= Cardinality(returned)
    BY <1>2, <1>3, <2>1, Zenon
  <2>3. /\ Cardinality(gone') = Cardinality(returned) /\ Cardinality(returned') = Cardinality(returned)
        /\ version' = version + 1
    BY <1>7, Zenon DEF RemovesAll
  <2> QED
    BY <1>1, <1>2, <2>2, <2>3
<1> QED
  BY <1>4, <1>5, <1>6, <1>7, ListMoves, Zenon

\* What a wait knows of the lists, and which ids a call took, stays true.
LEMMA CallStep ==
  ASSUME Types, IdInv, ListInv, StackInv, BoundInv, NEW t \in Thread, Move(t),
         NEW u \in Thread
  PROVE  /\ op'[u].name = "wait" => op'[u].since \in 1..version'
         /\ op'[u].name \in {"wait", "return"} => op'[u].ids \subseteq returned'
<1>1. /\ version \in Nat /\ version' \in Nat /\ version <= version'
      /\ returned \subseteq returned' /\ gone' \subseteq returned'
  BY ListStep, Zenon DEF Types
<1>2. 1..version \subseteq 1..version'
  BY <1>1
<1>3. CASE op'[u] = op[u]
  BY <1>1, <1>2, <1>3, Zenon DEF BoundInv
<1>4. CASE u = t
  <2>0. op \in [Thread -> Ops]
    BY Zenon DEF Types
  <2>1. CASE Draws(t)
    <3>1. op'[t].name = "insert"
      BY <2>1, DrawStep, Zenon
    <3> QED
      BY <1>4, <3>1
  <2>2. CASE op' = [op EXCEPT ![t] = NoOp]
    <3>1. op'[t] = NoOp
      BY <2>0, <2>2, Zenon
    <3> QED
      BY <1>4, <3>1 DEF NoOp
  <2>3. ASSUME NEW ids \in SUBSET Id, WaitBegins(t, ids)
        PROVE  op'[t].since \in 1..version' /\ op'[t].ids \subseteq returned'
    <3>1. op'[t] = Waiting(ids) /\ ids \subseteq gone' /\ version' = version + 1
      BY <2>0, <2>3, Zenon DEF WaitBegins
    <3>2. op'[t].since = version + 1 /\ op'[t].ids = ids
      BY <3>1 DEF Waiting
    <3>3. version + 1 \in 1..(version + 1)
      BY <1>1
    <3> QED
      BY <1>1, <3>1, <3>2, <3>3, Zenon
  <2>4. ASSUME NEW ids \in SUBSET Id, ids \subseteq returned,
               op' = [op EXCEPT ![t] = Returned(ids)]
        PROVE  op'[t].name = "return" /\ op'[t].ids \subseteq returned'
    <3>1. op'[t] = Returned(ids)
      BY <2>0, <2>4, Zenon
    <3>2. op'[t].name = "return" /\ op'[t].ids = ids
      BY <3>1 DEF Returned
    <3> QED
      BY <1>1, <2>4, <3>2, Zenon
  <2>5. CASE WaitForRetiredReaders(t)
    <3>1. /\ op[t].name = "wait" /\ op' = [op EXCEPT ![t] = Returned(op[t].ids)]
          /\ op[t].ids \subseteq returned /\ op[t].ids \in SUBSET Id
      BY <2>5, Zenon DEF WaitForRetiredReaders, Call, BoundInv, Types
    <3> QED
      BY <1>4, <2>4, <3>1, Zenon
  <2>6. CASE op' = op
    BY <1>3, <2>6, Zenon
  <2> QED
    BY <1>4, <2>1, <2>2, <2>3, <2>5, <2>6, OpMoves, Zenon
<1> QED
  BY <1>3, <1>4, OpStep, Zenon

\* Every move keeps the bounds.
LEMMA BoundStep ==
  ASSUME Types, IdInv, ListInv, StackInv, BoundInv, NEW t \in Thread, Move(t)
  PROVE  BoundInv'
<1>1. version' <= Cardinality(returned') + Cardinality(gone')
  BY VersionStep, Zenon DEF BoundInv
<1>2. /\ next_id \in 1..(MaxId + 1) /\ full \subseteq Id
      /\ \A id \in full : id < next_id
  BY Zenon DEF BoundInv, Types
<1>3. next_id' \in 1..(MaxId + 1) /\ \A id \in full' : id < next_id'
  <2>1. CASE Draws(t)
    <3>1. /\ next_id \in Id /\ next_id' = next_id + 1 /\ full' \subseteq full \cup {next_id}
      BY <2>1, DrawStep, Zenon
    <3> QED
      BY <1>2, <3>1, ConstantsAssumption DEF Id
  <2>2. CASE ~Draws(t)
    <3>1. next_id' = next_id
      BY <2>2, ListMoves, Zenon
    <3>2. full' \subseteq full
      BY <2>2, PanicStep, Zenon DEF Run
    <3> QED
      BY <1>2, <3>1, <3>2, Zenon
  <2> QED
    BY <2>1, <2>2, Zenon
<1>4. panics' \in Nat /\ panic_callback'.epoch <= MaxEpoch
  <2>0. panics \in Nat /\ panic_callback.epoch <= MaxEpoch
    BY Zenon DEF BoundInv
  <2>1. CASE SetCallback(t)
    <3>1. PICK set \in BOOLEAN :
            /\ panic_callback.epoch < MaxEpoch /\ panics' = panics
            /\ panic_callback' = [epoch |-> panic_callback.epoch + 1, set |-> set]
      BY <2>1, Zenon DEF SetCallback
    <3>2. panic_callback.epoch \in Nat
      BY Zenon DEF Types
    <3> QED
      BY <2>0, <3>1, <3>2, ConstantsAssumption
  <2>2. CASE CountPanic(t)
    <3>1. panics' = panics + 1 /\ panic_callback' = panic_callback
      BY <2>2, Zenon DEF CountPanic
    <3> QED
      BY <2>0, <3>1
  <2>3. CASE UNCHANGED panicVars
    BY <2>0, <2>3, Zenon DEF panicVars
  <2>4. CASE Write(t) /\ ~SetCallback(t)
    BY <2>3, <2>4, Zenon DEF Write, RegisterWithPriority, RegisterOnce, Draw, InsertEntry,
       Unregister, Clear, UnregisterAndWait, ClearAndWait, WaitForRetiredReaders, Return, panicVars
  <2>5. CASE Dispatch(t) /\ ~CountPanic(t)
    BY <2>3, <2>5, Zenon DEF Dispatch, Notify, Run, Skip, HandlerReturn, HandlerPanic,
       RemoveOnDrop, NotifyReturn, FetchCallback, CallbackEnd, DropPayload, PayloadUnwinds, panicVars
  <2> QED
    BY <2>1, <2>2, <2>4, <2>5, Zenon DEF Move
<1> QED
  BY <1>1, <1>3, <1>4, CallStep, Zenon DEF BoundInv

\* The counters keep their bounds.
LEMMA BoundsKept == Spec => []BoundInv
<1>1. Init => BoundInv
  <2> SUFFICES ASSUME Init PROVE BoundInv
    OBVIOUS
  <2>1. version = 0 /\ next_id = 1 /\ full = {} /\ panics = 0 /\ panic_callback.epoch = 0
        /\ Cardinality(returned) = 0 /\ Cardinality(gone) = 0
    BY FS_EmptySet DEF Init
  <2>2. \A t \in Thread : op[t].name = "none"
    BY DEF Init, NoOp
  <2> QED
    BY <2>1, <2>2, ConstantsAssumption DEF BoundInv
<1>2. RegistryInv /\ BoundInv /\ [Next]_vars => BoundInv'
  <2> SUFFICES ASSUME RegistryInv, BoundInv, [Next]_vars PROVE BoundInv'
    OBVIOUS
  <2>1. CASE Next
    BY <2>1, BoundStep, Zenon DEF Next, Move, RegistryInv
  <2>2. CASE UNCHANGED vars
    BY <2>2, Zenon DEF vars, listVars, idVars, panicVars, BoundInv
  <2> QED
    BY <2>1, <2>2, Zenon
<1> QED
  BY <1>1, <1>2, RegistrySafe, PTL DEF Spec

\* The types of the registry: at most two lists are stored per registration,
\* ids stay below HandlerIdGenerator::next, a dispatch stays within its list,
\* and a panic is reported to a callback that was installed.
THEOREM RegistryTypes == Spec => []TypeOK
<1>1. ASSUME RegistryInv, BoundInv PROVE TypeOK
  <2>1. Types /\ IdInv /\ StackInv /\ OnceInv
    BY <1>1, Zenon DEF RegistryInv
  <2>2. version \in 0..(2 * MaxId)
    <3>1. /\ Cardinality(returned) \in Nat /\ Cardinality(gone) \in Nat
          /\ Cardinality(gone) <= Cardinality(returned) /\ Cardinality(returned) <= MaxId
      BY <2>1, Counts, Zenon DEF Types
    <3>2. version \in Nat /\ version <= Cardinality(returned) + Cardinality(gone)
      BY <1>1, <2>1, Zenon DEF BoundInv, Types
    <3> QED
      BY <3>1, <3>2, ConstantsAssumption
  <2>3. next_id \in 1..(MaxId + 1) /\ panics \in Nat
    BY <1>1, Zenon DEF BoundInv
  <2>4. full \subseteq 1..(next_id - 1) /\ returned \subseteq 1..(next_id - 1)
    <3>1. ASSUME NEW x \in Id, x < next_id PROVE x \in 1..(next_id - 1)
      BY <2>3, <3>1 DEF Id
    <3> QED
      BY <1>1, <2>1, <3>1, Zenon DEF BoundInv, IdInv, Types
  <2>5. panic_callback \in [epoch : 0..MaxEpoch, set : BOOLEAN]
    BY <1>1, <2>1, ConstantsAssumption DEF BoundInv, Types
  <2>6. before \in [Id -> SUBSET returned]
    BY <2>1, Zenon DEF Types, IdInv
  <2>7. ASSUME NEW t \in Thread, NEW k \in DOMAIN stack[t] PROVE FrameOK(stack[t][k])
    <3>1. PICK f \in Frame : f = stack[t][k] /\ FrameInv(f)
      <4>1. stack[t] \in Seq(Frame)
        BY <2>1, Zenon DEF Types
      <4>2. stack[t][k] \in Frame
        BY <2>7, <4>1
      <4> QED
        BY <2>1, <2>7, <4>2, Zenon DEF StackInv
    <3>2. /\ f.list \in Seq(Entry) /\ f.called \in Seq(Id) /\ f.phase \in Phases /\ f.version \in Nat /\ f.since \in Nat
          /\ f.callback \in Nat /\ f.announced \in BOOLEAN /\ f.panicked \in BOOLEAN
      BY DEF Frame
    <3>3. /\ f.at \in 0..Len(f.list) /\ f.version <= version
          /\ f.since <= panic_callback.epoch /\ f.callback <= panic_callback.epoch
      BY <3>1, Zenon DEF FrameInv, FrameOf
    <3>4. version \in Nat /\ panic_callback.epoch \in Nat
      BY <2>1, Zenon DEF Types
    <3>5. /\ f.version \in 0..version /\ f.since \in 0..panic_callback.epoch
          /\ f.callback \in 0..panic_callback.epoch
      BY <3>2, <3>3, <3>4
    <3>6. FrameOK(f)
      BY <3>2, <3>3, <3>5, Zenon DEF FrameOK
    <3> QED
      BY <3>1, <3>6, Zenon
  <2>8. ASSUME NEW t \in Thread PROVE OpOK(op[t])
    <3>1. PICK o \in Ops : o = op[t]
      BY <2>1, Zenon DEF Types
    <3>2. /\ o.name = "wait" => o.since \in 1..version
          /\ o.name \in {"wait", "return"} => o.ids \subseteq returned
      BY <1>1, <3>1, Zenon DEF BoundInv
    <3>3. OpOK(o)
      BY <3>2 DEF Ops, OpOK
    <3> QED
      BY <3>1, <3>3, Zenon
  <2> QED
    BY <2>1, <2>2, <2>3, <2>4, <2>5, <2>6, <2>7, <2>8, Zenon DEF TypeOK, Types, OnceInv
<1> QED
  BY <1>1, RegistrySafe, BoundsKept, PTL

-----------------------------------------------------------------------------
(* What the registry promises *)

\* Handlers stand in the order of their priorities and, within one, of their
\* registrations (sync/mod.rs:193-194).
THEOREM OrderKept == Spec => []FiringOrder
<1>1. RegistryInv => FiringOrder
  BY Zenon DEF RegistryInv, ListInv
<1> QED
  BY <1>1, RegistrySafe, PTL

\* Concurrent writers lose no registration and no removal.
THEOREM ListExact == Spec => []LiveList
<1>1. RegistryInv => LiveList
  BY Zenon DEF RegistryInv, ListInv
<1> QED
  BY <1>1, RegistrySafe, PTL

\* A wait that has returned has outlasted the runs of what was removed on
\* every other thread (sync/mod.rs:331-335).
THEOREM WaitsStop == Spec => []WaitStops
<1>1. ASSUME RegistryInv PROVE WaitStops
  <2> SUFFICES ASSUME NEW t \in Thread, NEW u \in Thread, t # u, op[t].name = "return",
                      NEW id \in op[t].ids, StillRuns(t, u, id)
               PROVE  FALSE
    BY Zenon DEF WaitStops
  <2>1. PICK k \in DOMAIN stack[u] :
          /\ stack[u][k].announced \/ ~OnFallback(t)
          /\ \/ Inside(stack[u][k], id)
             \/ \E j \in (stack[u][k].at + 1)..Len(stack[u][k].list) : stack[u][k].list[j].id = id
    BY Zenon DEF StillRuns
  <2>2. Without(stack[u][k], op[t].ids)
    BY <1>1, <2>1, Zenon DEF RegistryInv, WaitsKept, WaitKept
  <2>3. stack[u][k] \in Frame
    <3>1. stack[u] \in Seq(Frame)
      BY <1>1, Zenon DEF RegistryInv, Types
    <3> QED
      BY <3>1
  <2>4. PICK f \in Frame : f = stack[u][k] /\ FrameInv(f)
    BY <1>1, <2>3, Zenon DEF RegistryInv, StackInv
  <2>5. /\ f.list \in Seq(Entry) /\ f.at \in 0..Len(f.list)
        /\ f.phase # "next" => f.at > 0
    BY <2>4 DEF Frame, FrameInv, FrameOf
  <2>6. \A j \in DOMAIN f.list : f.list[j].id # id
    BY <2>2, <2>4, Zenon DEF Without
  <2>7. CASE Inside(f, id)
    <3>1. f.phase # "next"
      BY <2>7 DEF Inside
    <3>2. f.at \in DOMAIN f.list
      BY <2>5, <3>1
    <3> QED
      BY <2>6, <2>7, <3>2, Zenon DEF Inside, Running
  <2>8. CASE \E j \in (f.at + 1)..Len(f.list) : f.list[j].id = id
    <3>1. PICK j \in (f.at + 1)..Len(f.list) : f.list[j].id = id
      BY <2>8, Zenon
    <3>2. j \in DOMAIN f.list
      BY <2>5
    <3> QED
      BY <2>6, <3>1, <3>2, Zenon
  <2> QED
    BY <2>1, <2>4, <2>7, <2>8, Zenon
<1> QED
  BY <1>1, RegistrySafe, PTL

\* One dispatch runs a once handler, and when that run is over the handler
\* is not registered any more (sync/mod.rs:439-443).
THEOREM OnceRuns == Spec => []OnceOnly
<1>1. ASSUME RegistryInv PROVE OnceOnly
  <2> SUFFICES ASSUME NEW k \in DOMAIN handlers, handlers[k].once, NEW id, id = handlers[k].id
               PROVE  /\ id \in full => FramesInside(id) = {}
                      /\ id \notin full => Cardinality(FramesInside(id)) = 1
    BY Zenon DEF OnceOnly
  <2>1. id \in Id
    <3>1. id \in returned /\ returned \subseteq Id
      BY <1>1, Zenon DEF RegistryInv, ListInv, LiveList, Types
    <3> QED
      BY <3>1, Zenon
  <2>2. /\ id \in full => FramesInside(id) = {}
        /\ id \notin full => \E e : FramesInside(id) = {e}
    BY <1>1, <2>1, Zenon DEF RegistryInv, OnceInv
  <2>3. \A e : Cardinality({e}) = 1
    BY FS_Singleton, Zenon
  <2> QED
    BY <2>2, <2>3, Zenon
<1> QED
  BY <1>1, RegistrySafe, PTL

\* A panic is reported to the callback that was installed when the handler
\* panicked, or to a later one.
THEOREM CallbacksCurrent == Spec => []CallbackCurrent
<1>1. RegistryInv => CallbackCurrent
  BY Zenon DEF RegistryInv, StackInv, FrameInv, FrameOf, CallbackCurrent
<1> QED
  BY <1>1, RegistrySafe, PTL

\* The step of a call that returns, or that a payload's Drop unwinds.
LEMMA Ends ==
  ASSUME RegistryInv, Next, NEW t \in Thread, Len(stack'[t]) < Len(stack[t])
  PROVE  \/ Top(t).phase = "next" /\ Top(t).at = Len(Top(t).list)
         \/ t \in Dropper /\ Top(t).panicked
<1>1. Types /\ StackInv /\ stack \in [Thread -> Seq(Frame)]
  BY Zenon DEF RegistryInv, Types
<1>2. PICK s \in Thread : Move(s)
  BY Zenon DEF Next, Move
<1>3. Len(stack[t]) \in Nat
  BY <1>1
<1>4. stack'[t] # stack[t] /\ ~(Len(stack'[t]) = Len(stack[t]))
      /\ ~(Len(stack'[t]) = Len(stack[t]) + 1)
  BY <1>3
<1>5. s = t
  BY <1>1, <1>2, <1>4, StackMoves, Zenon DEF OnlyHere
<1>6. CASE NotifyReturn(t)
  BY <1>6, Zenon DEF NotifyReturn
<1>7. CASE PayloadUnwinds(t)
  <2>1. t \in Dropper /\ stack[t] # <<>> /\ Top(t).phase \in {"callback", "payload"}
    BY <1>7, Zenon DEF PayloadUnwinds
  <2>2. FrameInv(Top(t))
    <3>1. Len(stack[t]) \in 1..Len(stack[t]) /\ stack[t] \in Seq(Frame)
      BY <1>1, <2>1, TopIsFrame, Zenon
    <3>2. Len(stack[t]) \in DOMAIN stack[t]
      BY <3>1
    <3> QED
      BY <1>1, <3>2, Zenon DEF StackInv, Top
  <2>3. Top(t).panicked
    BY <2>1, <2>2, Zenon DEF FrameInv, FrameOf
  <2> QED
    BY <2>1, <2>3, Zenon
<1>8. \A from, f : Continues(t, from, f) => Len(stack'[t]) = Len(stack[t])
  BY Zenon DEF Continues, Topped
<1>9. CASE Run(t) \/ Skip(t) \/ HandlerReturn(t) \/ HandlerPanic(t) \/ RemoveOnDrop(t)
  BY <1>1, <1>4, <1>8, <1>9, TopSteps, Zenon
<1>10. CASE CountPanic(t) \/ FetchCallback(t) \/ CallbackEnd(t) \/ DropPayload(t)
  BY <1>1, <1>4, <1>8, <1>10, TopSteps, Zenon
<1>11. CASE Notify(t)
  BY <1>1, <1>4, <1>11, PushMoves, Zenon DEF Pushed
<1>12. CASE Write(t)
  BY <1>4, <1>12, Zenon DEF Write, RegisterWithPriority, RegisterOnce, Draw, InsertEntry,
     Unregister, Clear, UnregisterAndWait, ClearAndWait, WaitForRetiredReaders,
     Return, SetCallback
<1> QED
  BY <1>2, <1>5, <1>6, <1>7, <1>9, <1>10, <1>11, <1>12, Zenon DEF Move, Dispatch

\* The handlers a dispatch has called, in the order of its list, and those it
\* has passed over because their slot was empty.
Calls(f, i) == \E p \in 1..f.at : f.list[p].id = f.called[i]
InOrder(f, i, j) ==
  \E p, q \in 1..f.at :
    p < q /\ f.list[p].id = f.called[i] /\ f.list[q].id = f.called[j]
Passed(f, k, slots) ==
  \/ \E i \in DOMAIN f.called : f.called[i] = f.list[k].id
  \/ f.list[k].once /\ f.list[k].id \notin slots
CalledOf(f, slots) ==
  /\ \A i \in DOMAIN f.called : Calls(f, i)
  /\ \A i, j \in DOMAIN f.called : i < j => InOrder(f, i, j)
  /\ \A k \in 1..f.at : Passed(f, k, slots)
CalledInv == \A t \in Thread : \A k \in DOMAIN stack[t] : CalledOf(stack[t][k], full)

\* A call of the next handler is recorded.
LEMMA CalledRun ==
  ASSUME NEW f \in Frame, NEW slots, f.at < Len(f.list), CalledOf(f, slots)
  PROVE  CalledOf(AfterRun(f), slots)
<1>1. /\ f.list \in Seq(Entry) /\ f.at \in Nat /\ f.called \in Seq(Id)
      /\ f.at + 1 \in DOMAIN f.list
  BY DEF Frame
<1>2. PICK g : g = AfterRun(f)
  OBVIOUS
<1>3. /\ g.list = f.list /\ g.at = f.at + 1
      /\ g.called = Append(f.called, f.list[f.at + 1].id)
  BY <1>2 DEF AfterRun, Frame
<1>4. PICK n \in Nat : n = Len(f.called)
  BY <1>1
<1>5. /\ DOMAIN f.called = 1..n /\ DOMAIN g.called = 1..(n + 1)
      /\ \A i \in 1..n : g.called[i] = f.called[i]
      /\ g.called[n + 1] = f.list[f.at + 1].id
  <2>1. f.list[f.at + 1] \in Entry
    BY <1>1
  <2>2. f.list[f.at + 1].id \in Id
    BY <2>1 DEF Entry
  <2> QED
    BY <1>1, <1>3, <1>4, <2>2
<1>6. /\ 1..f.at \subseteq 1..g.at /\ g.at \in 1..g.at
      /\ \A p \in 1..f.at : p < g.at
      /\ \A p \in 1..g.at : p \in 1..f.at \/ p = f.at + 1
      /\ 1..n \subseteq 1..(n + 1) /\ n + 1 \in 1..(n + 1)
      /\ \A i \in 1..(n + 1) : i \in 1..n \/ i = n + 1
      /\ \A i, j \in 1..(n + 1) : i < j => i \in 1..n
  BY <1>1, <1>3
<1>7. ASSUME NEW i \in DOMAIN g.called PROVE Calls(g, i)
  <2>1. CASE i \in 1..n
    <3>1. PICK p \in 1..f.at : f.list[p].id = f.called[i]
      BY <1>5, <2>1, Zenon DEF CalledOf, Calls
    <3> QED
      BY <1>3, <1>5, <1>6, <2>1, <3>1, Zenon DEF Calls
  <2>2. CASE i = n + 1
    BY <1>3, <1>5, <1>6, <2>2, Zenon DEF Calls
  <2> QED
    BY <1>5, <1>6, <2>1, <2>2, Zenon
<1>8. ASSUME NEW i \in DOMAIN g.called, NEW j \in DOMAIN g.called, i < j
      PROVE  InOrder(g, i, j)
  <2>1. i \in 1..n /\ (j \in 1..n \/ j = n + 1)
    BY <1>5, <1>6, <1>8, Zenon
  <2>2. CASE j \in 1..n
    <3>0. InOrder(f, i, j)
      BY <1>5, <1>8, <2>1, <2>2, Zenon DEF CalledOf
    <3>1. PICK p, q \in 1..f.at :
            p < q /\ f.list[p].id = f.called[i] /\ f.list[q].id = f.called[j]
      BY <3>0, Zenon DEF InOrder
    <3>2. p \in 1..g.at /\ q \in 1..g.at
      BY <1>6, Zenon
    <3>3. g.list[p].id = g.called[i] /\ g.list[q].id = g.called[j]
      BY <1>3, <1>5, <2>1, <2>2, <3>1, Zenon
    <3> QED
      BY <3>1, <3>2, <3>3, Zenon DEF InOrder
  <2>3. CASE j = n + 1
    <3>1. PICK p \in 1..f.at : f.list[p].id = f.called[i]
      BY <1>5, <2>1, Zenon DEF CalledOf, Calls
    <3>2. p \in 1..g.at /\ g.at \in 1..g.at /\ p < g.at
      BY <1>6, Zenon
    <3>3. g.list[p].id = g.called[i] /\ g.list[g.at].id = g.called[j]
      BY <1>3, <1>5, <2>1, <2>3, <3>1, Zenon
    <3> QED
      BY <3>2, <3>3, Zenon DEF InOrder
  <2> QED
    BY <2>1, <2>2, <2>3, Zenon
<1>9. ASSUME NEW k \in 1..g.at PROVE Passed(g, k, slots)
  <2>1. CASE k \in 1..f.at
    <3>1. Passed(f, k, slots)
      BY <2>1, Zenon DEF CalledOf
    <3> QED
      BY <1>3, <1>5, <1>6, <3>1, Zenon DEF Passed
  <2>2. CASE k = f.at + 1
    BY <1>3, <1>5, <1>6, <2>2, Zenon DEF Passed
  <2> QED
    BY <1>6, <2>1, <2>2, Zenon
<1> QED
  BY <1>2, <1>7, <1>8, <1>9, Zenon DEF CalledOf

\* A once handler whose slot is empty is passed over.
LEMMA CalledSkip ==
  ASSUME NEW f \in Frame, NEW slots, CalledOf(f, slots),
         f.list[f.at + 1].once, f.list[f.at + 1].id \notin slots
  PROVE  CalledOf(AfterSkip(f), slots)
<1>1. f.at \in Nat
  BY DEF Frame
<1>2. PICK g : g = AfterSkip(f)
  OBVIOUS
<1>3. g.list = f.list /\ g.at = f.at + 1 /\ g.called = f.called
  BY <1>2 DEF AfterSkip, Frame
<1>4. 1..f.at \subseteq 1..g.at /\ \A p \in 1..g.at : p \in 1..f.at \/ p = f.at + 1
  BY <1>1, <1>3
<1>5. \A i \in DOMAIN g.called : Calls(g, i)
  BY <1>3, <1>4, Zenon DEF CalledOf, Calls
<1>6. ASSUME NEW i \in DOMAIN g.called, NEW j \in DOMAIN g.called, i < j
      PROVE  InOrder(g, i, j)
  <2>0. InOrder(f, i, j)
    BY <1>3, <1>6, Zenon DEF CalledOf
  <2>1. PICK p, q \in 1..f.at :
          p < q /\ f.list[p].id = f.called[i] /\ f.list[q].id = f.called[j]
    BY <2>0, Zenon DEF InOrder
  <2> QED
    BY <1>3, <1>4, <2>1, Zenon DEF InOrder
<1>7. ASSUME NEW k \in 1..g.at PROVE Passed(g, k, slots)
  <2>1. CASE k \in 1..f.at
    BY <1>3, <2>1, Zenon DEF CalledOf, Passed
  <2>2. CASE k = f.at + 1
    BY <1>3, <2>2, Zenon DEF Passed
  <2> QED
    BY <1>4, <2>1, <2>2, Zenon
<1> QED
  BY <1>2, <1>5, <1>6, <1>7, Zenon DEF CalledOf

\* The other steps of a dispatch call nothing.
Quiet(g, f) == g.list = f.list /\ g.at = f.at /\ g.called = f.called
LEMMA QuietSteps ==
  ASSUME NEW f \in Frame
  PROVE  /\ Quiet(AfterReturn(f), f) /\ Quiet(AfterPanic(f), f) /\ Quiet(AfterRemove(f), f)
         /\ Quiet(AfterCount(f), f) /\ Quiet(AfterFetch(f), f)
         /\ Quiet(AfterCallback(f), f) /\ Quiet(AfterPayload(f), f)
  BY DEF Quiet, AfterReturn, AfterPanic, AfterRemove, AfterCount, AfterFetch,
     AfterCallback, AfterPayload, Frame

\* What a dispatch has passed over stays passed over: a slot that is filled
\* belongs to a handler that no list holds yet.
LEMMA SlotsStep ==
  ASSUME RegistryInv, NEW t \in Thread, Move(t), NEW f \in Frame, FrameInv(f),
         CalledOf(f, full)
  PROVE  CalledOf(f, full')
<1>1. Types /\ IdInv
  BY Zenon DEF RegistryInv
<1>2. ASSUME NEW k \in 1..f.at, f.list[k].id \in full' PROVE f.list[k].id \in full
  <2>1. f.list[k].id \in returned
    <3>1. f.list \in Seq(Entry) /\ f.at \in 0..Len(f.list)
      BY DEF Frame, FrameInv, FrameOf
    <3>2. k \in DOMAIN f.list
      BY <3>1
    <3> QED
      BY <3>2, Zenon DEF FrameInv, FrameOf, Ids
  <2>2. CASE Draws(t)
    <3>1. full' \subseteq full \cup {next_id}
      BY <1>1, <2>2, DrawStep, Zenon
    <3>2. f.list[k].id < next_id /\ next_id \in Nat
      BY <1>1, <2>1, Zenon DEF IdInv, Types
    <3>3. f.list[k].id # next_id
      BY <3>2
    <3> QED
      BY <1>2, <3>1, <3>3, Zenon
  <2>3. CASE Run(t)
    BY <1>2, <2>3, Zenon DEF Run
  <2> QED
    BY <1>1, <1>2, <2>2, <2>3, PanicStep, Zenon
<1> QED
  BY <1>2, Zenon DEF CalledOf, Passed

\* The innermost dispatch goes on with its calls recorded.
LEMMA TopCalled ==
  ASSUME RegistryInv, CalledInv, NEW t \in Thread, Dispatch(t), stack'[t] # stack[t]
  PROVE  \/ Pushed(t) \/ Popped(t)
         \/ \E f : Topped(t, f) /\ CalledOf(f, full')
<1>1. Types /\ StackInv /\ stack \in [Thread -> Seq(Frame)]
  BY Zenon DEF RegistryInv, Types
<1>2. CASE Notify(t)
  BY <1>1, <1>2, PushMoves, Zenon DEF Notify, User
<1>3. CASE NotifyReturn(t) \/ PayloadUnwinds(t)
  <2>1. stack[t] # <<>> /\ Pop(t) /\ op[t] = NoOp
    BY <1>3, Zenon DEF NotifyReturn, PayloadUnwinds
  <2> QED
    BY <1>1, <2>1, PopMoves, Zenon
<1>4. ASSUME stack[t] # <<>> PROVE Top(t) \in Frame /\ CalledOf(Top(t), full')
  <2>1. Top(t) \in Frame /\ Len(stack[t]) \in 1..Len(stack[t]) /\ stack[t] \in Seq(Frame)
    BY <1>1, <1>4, TopIsFrame, Zenon
  <2>2. DOMAIN stack[t] = 1..Len(stack[t])
    BY <2>1
  <2>3. FrameInv(Top(t)) /\ CalledOf(Top(t), full)
    BY <1>1, <2>1, <2>2, Zenon DEF StackInv, CalledInv, Top
  <2> QED
    BY <2>1, <2>3, SlotsStep, Zenon DEF Move
<1>5. ASSUME NEW from, NEW f, Continues(t, from, f)
      PROVE  Topped(t, f) /\ stack[t] # <<>>
  BY <1>5, Zenon DEF Continues
<1>6. ASSUME NEW from, NEW f, Continues(t, from, f), Quiet(f, Top(t))
      PROVE  \E g : Topped(t, g) /\ CalledOf(g, full')
  <2>1. Topped(t, f) /\ CalledOf(Top(t), full')
    BY <1>4, <1>5, <1>6, Zenon
  <2>2. f.list = Top(t).list /\ f.at = Top(t).at /\ f.called = Top(t).called
    BY <1>6, Zenon DEF Quiet
  <2>3. \A i \in DOMAIN f.called : Calls(f, i)
    BY <2>1, <2>2, Zenon DEF CalledOf, Calls
  <2>4. \A i, j : InOrder(Top(t), i, j) => InOrder(f, i, j)
    BY <2>2 DEF InOrder
  <2>5. \A i, j \in DOMAIN f.called : i < j => InOrder(f, i, j)
    BY <2>1, <2>2, <2>4, Zenon DEF CalledOf
  <2>6. \A k \in 1..f.at : Passed(f, k, full')
    BY <2>1, <2>2, Zenon DEF CalledOf, Passed
  <2> QED
    BY <2>1, <2>3, <2>5, <2>6, Zenon DEF CalledOf
<1>7. CASE Run(t)
  <2>1. Topped(t, AfterRun(Top(t))) /\ stack[t] # <<>>
    BY <1>1, <1>5, <1>7, TopSteps, Zenon
  <2>2. Top(t).at < Len(Top(t).list)
    BY <1>7, Zenon DEF Run
  <2> QED
    BY <1>4, <2>1, <2>2, CalledRun, Zenon
<1>8. CASE Skip(t)
  <2>1. Topped(t, AfterSkip(Top(t))) /\ stack[t] # <<>>
    BY <1>1, <1>5, <1>8, TopSteps, Zenon
  <2>2. Top(t).list[Top(t).at + 1].once /\ Top(t).list[Top(t).at + 1].id \notin full'
    BY <1>8, Zenon DEF Skip
  <2> QED
    BY <1>4, <2>1, <2>2, CalledSkip, Zenon
<1>9. stack[t] # <<>> =>
        LET f == Top(t) IN
        /\ Quiet(AfterReturn(f), f) /\ Quiet(AfterPanic(f), f) /\ Quiet(AfterRemove(f), f)
        /\ Quiet(AfterCount(f), f) /\ Quiet(AfterFetch(f), f)
        /\ Quiet(AfterCallback(f), f) /\ Quiet(AfterPayload(f), f)
  BY <1>4, QuietSteps, Zenon
<1>10. CASE HandlerReturn(t) \/ HandlerPanic(t) \/ RemoveOnDrop(t)
  BY <1>1, <1>5, <1>6, <1>9, <1>10, TopSteps, Zenon
<1>11. CASE CountPanic(t) \/ FetchCallback(t) \/ CallbackEnd(t) \/ DropPayload(t)
  BY <1>1, <1>5, <1>6, <1>9, <1>11, TopSteps, Zenon
<1> QED
  BY <1>2, <1>3, <1>7, <1>8, <1>10, <1>11, Zenon DEF Dispatch

\* Every move keeps the record of the calls.
LEMMA CalledStep ==
  ASSUME RegistryInv, CalledInv, NEW t \in Thread, Move(t)
  PROVE  CalledInv'
<1>1. Types /\ StackInv /\ stack \in [Thread -> Seq(Frame)] /\ stack' \in [Thread -> Seq(Frame)]
  BY StackMoves, Zenon DEF RegistryInv, Types, OnlyHere
<1>2. ASSUME NEW u \in Thread
      PROVE  /\ Len(stack[u]) \in Nat /\ Len(stack'[u]) \in Nat
             /\ DOMAIN stack[u] = 1..Len(stack[u]) /\ DOMAIN stack'[u] = 1..Len(stack'[u])
             /\ \A k \in 1..Len(stack[u]) : stack[u][k] \in Frame
  <2>1. stack[u] \in Seq(Frame) /\ stack'[u] \in Seq(Frame)
    BY <1>1, Zenon
  <2>2. \A s \in Seq(Frame) : /\ Len(s) \in Nat /\ DOMAIN s = 1..Len(s)
                              /\ \A k \in 1..Len(s) : s[k] \in Frame
    OBVIOUS
  <2> QED
    BY <2>1, <2>2, Zenon
<1>3. ASSUME NEW u \in Thread, NEW k \in 1..Len(stack[u]) PROVE CalledOf(stack[u][k], full')
  BY <1>1, <1>2, <1>3, SlotsStep, Zenon DEF StackInv, CalledInv
<1> SUFFICES ASSUME NEW u \in Thread, NEW k \in 1..Len(stack'[u])
             PROVE  CalledOf(stack'[u][k], full')
  BY <1>2, Zenon DEF CalledInv
<1>4. CASE stack'[u] = stack[u]
  BY <1>3, <1>4, Zenon
<1>5. CASE u = t /\ Pushed(t)
  <2>1. PICK f : f = stack'[t][Len(stack[t]) + 1]
    OBVIOUS
  <2>2. f.at = 0 /\ f.called = << >>
    BY <1>5, <2>1 DEF Pushed
  <2>3. 1..f.at = {} /\ DOMAIN f.called = {}
    BY <2>2
  <2>4. CalledOf(f, full')
    BY <2>3, Zenon DEF CalledOf
  <2>5. k \in 1..Len(stack[t]) \/ k = Len(stack[t]) + 1
    BY <1>2, <1>5 DEF Pushed
  <2> QED
    BY <1>3, <1>5, <2>1, <2>4, <2>5, Zenon DEF Pushed
<1>6. CASE u = t /\ Popped(t)
  <2>1. k \in 1..(Len(stack[t]) - 1) /\ k \in 1..Len(stack[t])
    BY <1>2, <1>6 DEF Popped
  <2> QED
    BY <1>3, <1>6, <2>1, Zenon DEF Popped
<1>7. CASE u = t /\ \E f : Topped(t, f) /\ CalledOf(f, full')
  <2>1. PICK f : Topped(t, f) /\ CalledOf(f, full')
    BY <1>7, Zenon
  <2>2. (k \in 1..(Len(stack[t]) - 1) /\ k \in 1..Len(stack[t])) \/ k = Len(stack[t])
    BY <1>2, <1>7, <2>1 DEF Topped
  <2> QED
    BY <1>3, <1>7, <2>1, <2>2, Zenon DEF Topped
<1>8. CASE u = t /\ stack'[t] # stack[t]
  <2>1. Dispatch(t)
    <3>1. Write(t) => stack' = stack
      BY Zenon DEF Write, RegisterWithPriority, RegisterOnce, Draw, InsertEntry,
         Unregister, Clear, UnregisterAndWait, ClearAndWait, WaitForRetiredReaders,
         Return, SetCallback
    <3> QED
      BY <1>8, <3>1, Zenon DEF Move
  <2> QED
    BY <1>5, <1>6, <1>7, <1>8, <2>1, TopCalled, Zenon
<1>9. u = t \/ stack'[u] = stack[u]
  BY <1>1, StackMoves, Zenon DEF OnlyHere
<1> QED
  BY <1>4, <1>8, <1>9, Zenon

\* The calls of every dispatch are recorded.
LEMMA CalledKept == Spec => []CalledInv
<1>1. Init => CalledInv
  <2> SUFFICES ASSUME Init PROVE CalledInv
    OBVIOUS
  <2>1. \A t \in Thread : stack[t] = << >>
    BY Zenon DEF Init
  <2>2. DOMAIN << >> = {}
    OBVIOUS
  <2> QED
    BY <2>1, <2>2, Zenon DEF CalledInv
<1>2. RegistryInv /\ CalledInv /\ [Next]_vars => CalledInv'
  <2> SUFFICES ASSUME RegistryInv, CalledInv, [Next]_vars PROVE CalledInv'
    OBVIOUS
  <2>1. CASE Next
    BY <2>1, CalledStep, Zenon DEF Next, Move
  <2>2. CASE UNCHANGED vars
    BY <2>2, Zenon DEF vars, CalledInv
  <2> QED
    BY <2>1, <2>2, Zenon
<1> QED
  BY <1>1, <1>2, RegistrySafe, PTL DEF Spec

\* sync/mod.rs:661-663.  Where no payload's Drop panics, a notify ends with
\* the handlers of its list called in order, however handlers and callbacks
\* panic; a once handler is left out only after some dispatch has taken it.
THEOREM NotifiesComplete ==
  ASSUME Dropper = {}
  PROVE  Spec => NotifyComplete
<1> DEFINE Complete(f) ==
      /\ \A i, j \in DOMAIN f.called : i < j =>
           \E p, q \in DOMAIN f.list :
             /\ p < q
             /\ f.list[p].id = f.called[i] /\ f.list[q].id = f.called[j]
      /\ \A k \in DOMAIN f.list :
           \/ \E i \in DOMAIN f.called : f.called[i] = f.list[k].id
           \/ f.list[k].once /\ f.list[k].id \notin full
<1>1. ASSUME RegistryInv, CalledInv, Next, NEW t \in Thread, Len(stack'[t]) < Len(stack[t])
      PROVE  Complete(Top(t))
  <2>1. Top(t).at = Len(Top(t).list)
    BY <1>1, Ends, Zenon
  <2>2. stack \in [Thread -> Seq(Frame)] /\ stack[t] # <<>>
    <3>1. stack \in [Thread -> Seq(Frame)] /\ stack' \in [Thread -> Seq(Frame)]
      BY <1>1, StackMoves, Zenon DEF RegistryInv, Types, OnlyHere, Next, Move
    <3> QED
      BY <1>1, <3>1
  <2>3. PICK f \in Frame : f = Top(t) /\ CalledOf(f, full)
    <3>1. Top(t) \in Frame /\ Len(stack[t]) \in 1..Len(stack[t]) /\ stack[t] \in Seq(Frame)
      BY <2>2, TopIsFrame, Zenon
    <3>2. Len(stack[t]) \in DOMAIN stack[t]
      BY <3>1
    <3> QED
      BY <1>1, <3>1, <3>2, Zenon DEF CalledInv, Top
  <2>4. DOMAIN f.list = 1..f.at
    BY <2>1, <2>3 DEF Frame
  <2>5. ASSUME NEW i \in DOMAIN f.called, NEW j \in DOMAIN f.called, i < j
        PROVE  \E p, q \in DOMAIN f.list :
                 p < q /\ f.list[p].id = f.called[i] /\ f.list[q].id = f.called[j]
    <3>1. InOrder(f, i, j)
      BY <2>3, <2>5, Zenon DEF CalledOf
    <3> QED
      BY <2>4, <3>1, Zenon DEF InOrder
  <2>6. ASSUME NEW k \in DOMAIN f.list
        PROVE  \/ \E i \in DOMAIN f.called : f.called[i] = f.list[k].id
               \/ f.list[k].once /\ f.list[k].id \notin full
    BY <2>3, <2>4, <2>6, Zenon DEF CalledOf, Passed
  <2>7. Complete(f)
    BY <2>5, <2>6, Zenon
  <2> HIDE DEF Complete
  <2> QED
    BY <2>3, <2>7, Zenon
<1>2. ASSUME RegistryInv, CalledInv, [Next]_vars
      PROVE  [\A t \in Thread : Len(stack'[t]) < Len(stack[t]) => Complete(Top(t))]_vars
  BY <1>1, <1>2, Zenon
<1> QED
  BY <1>2, RegistrySafe, CalledKept, PTL DEF Spec, NotifyComplete
=============================================================================
