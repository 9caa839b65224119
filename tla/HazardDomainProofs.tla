------------------------- MODULE HazardDomainProofs -------------------------
(***************************************************************************)
(* The announcement list for any number of threads, records, addresses and *)
(* slots: a record has one owner, publication loses none, a slot belongs   *)
(* to one Pin, and a walk misses no announcement that is there throughout. *)
(***************************************************************************)
EXTENDS HazardDomain, FiniteSetTheorems, WellFoundedInduction, TLAPS

\* The records on the list, and the slots a thread's Pins hold.
Listed == Range(list)
Pinned(t) == Range(pins[t])
Outer(t) == SubSeq(pins[t], 1, Len(pins[t]) - 1)

\* Who owns a record, and that walks and owners stay on the list.
OwnInv ==
  /\ OneOwner
  /\ \A t \in Thread :
       /\ pc[t] = "push" => record[t] = NULL /\ fresh[t] \in leaked
       /\ pc[t] = "claim" => record[t] = NULL
       /\ pc[t] = "pin" => record[t] # NULL
       /\ record[t] # NULL => record[t] \in Listed
       /\ cursor[t] # NULL => cursor[t] \in Listed

ListInv == ListWhole /\ IsInjective(list) /\ Listed \subseteq leaked

SlotInv ==
  /\ SlotPerPin
  /\ \A t \in Thread : pins[t] # <<>> => record[t] # NULL

\* The walk of t has slot e[2] of record e[1] still before it.
Ahead(t, e) ==
  \E j, k \in DOMAIN list :
    /\ list[j] = cursor[t] /\ list[k] = e[1]
    /\ j < k \/ (j = k /\ index[t] <= e[2])

\* What a walk has to meet is there, and it has been met or comes later.
ScanInv ==
  \A t \in Thread : pc[t] \in {"scan", "scanned"} =>
    /\ pc[t] = "scanned" => cursor[t] = NULL
    /\ \A e \in owed[t] :
         /\ slots[e[1]][e[2]] # NULL
         /\ target[t] # NULL => e[1] # record[t]
         /\ slots[e[1]][e[2]] \in found[t] \/ Ahead(t, e)

DomainInv == StateTypes /\ OwnInv /\ ListInv /\ SlotInv /\ ScanInv

-----------------------------------------------------------------------------
(* Sequences and minima *)

\* A new element at the end of a sequence.
LEMMA Appended ==
  ASSUME NEW S, NEW s \in Seq(S), NEW x \in S, NEW L, L = Append(s, x)
  PROVE  /\ Range(L) = Range(s) \cup {x}
         /\ IsInjective(s) /\ x \notin Range(s) => IsInjective(L)
<1>1. /\ L \in Seq(S) /\ DOMAIN L = 1..(Len(s) + 1) /\ DOMAIN s = 1..Len(s)
      /\ L[Len(s) + 1] = x /\ \A k \in 1..Len(s) : L[k] = s[k]
      /\ Len(s) \in Nat
  OBVIOUS
<1>2. Range(L) = Range(s) \cup {x}
  BY <1>1 DEF Range
<1>3. IsInjective(s) /\ x \notin Range(s) => IsInjective(L)
  BY <1>1 DEF IsInjective, Range
<1> QED
  BY <1>2, <1>3, Zenon

\* A sequence without its last element: the slots a thread holds after the
\* Drop of its innermost Pin.
LEMMA Shortened ==
  ASSUME NEW S, NEW s \in Seq(S), s # <<>>
  PROVE  /\ s[Len(s)] \in S /\ s[Len(s)] \in Range(s)
         /\ SubSeq(s, 1, Len(s) - 1) \in Seq(S)
         /\ IsInjective(s) =>
              /\ Range(SubSeq(s, 1, Len(s) - 1)) = Range(s) \ {s[Len(s)]}
              /\ IsInjective(SubSeq(s, 1, Len(s) - 1))
<1> DEFINE n == Len(s)  L == SubSeq(s, 1, Len(s) - 1)
<1>1. n \in Nat /\ n > 0 /\ DOMAIN s = 1..n /\ \A k \in 1..n : s[k] \in S
  OBVIOUS
<1>2. L \in Seq(S) /\ DOMAIN L = 1..(n - 1) /\ \A k \in 1..(n - 1) : L[k] = s[k]
  BY <1>1
<1> HIDE DEF L, n
<1>3. s[n] \in S /\ s[n] \in Range(s)
  BY <1>1 DEF Range
<1>4. ASSUME IsInjective(s)
      PROVE  Range(L) = Range(s) \ {s[n]} /\ IsInjective(L)
  <2>1. IsInjective(L)
    BY <1>1, <1>2, <1>4 DEF IsInjective
  <2>2. ASSUME NEW x \in Range(L) PROVE x \in Range(s) \ {s[n]}
    <3>1. PICK k \in 1..(n - 1) : x = s[k]
      BY <1>2, <2>2 DEF Range
    <3>2. k \in DOMAIN s /\ n \in DOMAIN s /\ k # n
      BY <1>1
    <3> QED
      BY <1>4, <3>1, <3>2, Zenon DEF IsInjective, Range
  <2>3. ASSUME NEW x \in Range(s), x # s[n] PROVE x \in Range(L)
    <3>1. PICK k \in DOMAIN s : x = s[k]
      BY <2>3, Zenon DEF Range
    <3>2. k \in 1..(n - 1)
      BY <1>1, <2>3, <3>1
    <3> QED
      BY <1>2, <3>1, <3>2, Zenon DEF Range
  <2> QED
    BY <2>1, <2>2, <2>3, Zenon
<1> QED
  BY <1>2, <1>3, <1>4 DEF L, n

\* Pin's slot is one of those that are free.
LEMMA MinIn ==
  ASSUME NEW S, S \subseteq Nat, S # {}
  PROVE  Min(S) \in S
<1>1. \E x \in S : \A y \in S : ~(<<y, x>> \in OpToRel(<, Nat))
  BY NatLessThanWellFounded, WFMin, Zenon
<1>2. PICK x \in S : \A y \in S : ~(<<y, x>> \in OpToRel(<, Nat))
  BY <1>1, Zenon
<1>3. \A y \in S : x =< y
  <2>1. OpToRel(<, Nat) = {e \in Nat \X Nat : e[1] < e[2]}
    BY Zenon DEF OpToRel
  <2>2. ASSUME NEW y \in S PROVE x =< y
    <3>1. ~(<<y, x>> \in {e \in Nat \X Nat : e[1] < e[2]})
      BY <1>2, <2>1, Zenon
    <3>2. x \in Nat /\ y \in Nat
      BY Zenon
    <3>3. <<y, x>> \in Nat \X Nat /\ <<y, x>>[1] = y /\ <<y, x>>[2] = x
      BY <3>2
    <3>4. ~(y < x)
      BY <3>1, <3>3, Zenon
    <3> QED
      BY <3>2, <3>4
  <2> QED
    BY <2>2, Zenon
<1> QED
  BY <1>3, Zenon DEF Min

-----------------------------------------------------------------------------
(* Types *)

\* A null pointer is neither a record nor an announced address.
LEMMA NullIsNothing == NULL \notin Record /\ NULL \notin Addr
  BY ConstantsAssumption, Zenon

\* The innermost Pin of a thread has a record and a slot.
LEMMA PinHeld ==
  ASSUME DomainInv, NEW t \in Thread, pins[t] # <<>>
  PROVE  /\ record[t] \in Record /\ Innermost(t) \in Slot
         /\ Innermost(t) \in Pinned(t)
         /\ Outer(t) \in Seq(Slot)
         /\ Range(Outer(t)) = Pinned(t) \ {Innermost(t)}
         /\ IsInjective(Outer(t))
<1>1. pins[t] \in Seq(Slot) /\ record[t] \in Record \cup {NULL}
  BY Zenon DEF DomainInv, StateTypes
<1>2. record[t] # NULL /\ IsInjective(pins[t])
  BY Zenon DEF DomainInv, SlotInv, SlotPerPin
<1> QED
  BY <1>1, <1>2, Shortened, Zenon DEF Pinned, Innermost, Outer

\* The slot that Pin takes is free.
LEMMA PinFree ==
  ASSUME DomainInv, NEW t \in Thread, FreeSlots(t) # {}
  PROVE  Min(FreeSlots(t)) \in Slot /\ slots[record[t]][Min(FreeSlots(t))] = NULL
<1>1. FreeSlots(t) \subseteq Nat
  BY ConstantsAssumption DEF FreeSlots, Slot
<1>2. Min(FreeSlots(t)) \in FreeSlots(t)
  BY <1>1, MinIn, Zenon
<1> QED
  BY <1>2, Zenon DEF FreeSlots

\* Every step keeps the types.
LEMMA TypesStep ==
  ASSUME DomainInv, NEW t \in Thread, Move(t)
  PROVE  StateTypes'
<1>0. StateTypes /\ OwnInv
  BY Zenon DEF DomainInv
<1> USE <1>0 DEF StateTypes, Step, shared, walk
<1>1. CASE AcquireBegin(t)
  BY <1>1 DEF AcquireBegin
<1>2. CASE Claim(t)
  BY <1>2 DEF Claim
<1>3. CASE Pass(t)
  BY <1>3 DEF Pass
<1>4. CASE Leak(t)
  BY <1>4 DEF Leak
<1>5. CASE Push(t)
  <2>1. fresh[t] \in Record
    BY <1>5 DEF Push, OwnInv
  <2>2. list' \in Seq(Record)
    BY <1>5, <2>1 DEF Push
  <2> QED
    BY <1>5, <2>1, <2>2 DEF Push
<1>6. CASE PushFailed(t)
  BY <1>6, Zenon DEF PushFailed
<1>7. CASE Pin(t)
  <2>1. PICK p \in Addr :
          /\ slots' = [slots EXCEPT ![record[t]][Min(FreeSlots(t))] = p]
          /\ pins' = [pins EXCEPT ![t] = Append(@, Min(FreeSlots(t)))]
    BY <1>7, Zenon DEF Pin
  <2>2. Min(FreeSlots(t)) \in Slot /\ record[t] \in Record
    BY <1>7, PinFree DEF Pin
  <2>3. slots' \in [Record -> [Slot -> Addr \cup {NULL}]]
    BY <2>1, <2>2
  <2>4. pins' \in [Thread -> Seq(Slot)]
    BY <2>1, <2>2
  <2> QED
    BY <1>7, <2>3, <2>4, Zenon DEF Pin
<1>8. CASE Protect(t)
  <2>1. record[t] \in Record /\ Innermost(t) \in Slot
    BY <1>8, PinHeld, Zenon DEF Protect
  <2>2. slots' \in [Record -> [Slot -> Addr \cup {NULL}]]
    BY <1>8, <2>1 DEF Protect
  <2> QED
    BY <1>8, <2>2 DEF Protect, Forget
<1>9. CASE Unpin(t)
  <2>1. record[t] \in Record /\ Innermost(t) \in Slot /\ Outer(t) \in Seq(Slot)
    BY <1>9, PinHeld, Zenon DEF Unpin
  <2>2. /\ slots' \in [Record -> [Slot -> Addr \cup {NULL}]]
        /\ pins' \in [Thread -> Seq(Slot)]
    BY <1>9, <2>1 DEF Unpin, Outer
  <2> QED
    BY <1>9, <2>2 DEF Unpin, Forget
<1>10. CASE Exit(t)
  BY <1>10 DEF Exit
<1>11. CASE ScanBegin(t)
  BY <1>11, ConstantsAssumption DEF ScanBegin, Announced, Slot
<1>12. CASE Inspect(t)
  <2>1. index' \in [Thread -> Slot]
    <3>1. (IF index[t] < SLOTS THEN index[t] + 1 ELSE 1) \in Slot
      BY ConstantsAssumption DEF Slot
    <3> QED
      BY <1>12, <3>1, Zenon DEF Inspect, Advance
  <2>2. cursor' \in [Thread -> Record \cup {NULL}]
    BY <1>12 DEF Inspect, Advance
  <2>3. found' \in [Thread -> SUBSET Addr]
    <3>1. cursor[t] \in Record /\ index[t] \in Slot
      BY <1>12, Zenon DEF Inspect
    <3>2. (found[t] \cup ({slots[cursor[t]][index[t]]} \ {NULL})) \in SUBSET Addr
      BY <3>1
    <3>3. \/ found' = found
          \/ found' = [found EXCEPT ![t] =
                         found[t] \cup ({slots[cursor[t]][index[t]]} \ {NULL})]
      BY <1>12, Zenon DEF Inspect
    <3> QED
      BY <3>2, <3>3, Zenon
  <2> QED
    BY <1>12, <2>1, <2>2, <2>3 DEF Inspect, Advance
<1>13. CASE ScanEnd(t) \/ ScanReturn(t)
  BY <1>13, Zenon DEF ScanEnd, ScanReturn
<1> QED
  BY <1>1, <1>2, <1>3, <1>4, <1>5, <1>6, <1>7, <1>8, <1>9, <1>10, <1>11, <1>12,
     <1>13, Zenon DEF Move

-----------------------------------------------------------------------------
(* Publication and ownership *)

\* A record to be published is leaked, off the list, and its thread's alone.
LEMMA FreshAlone ==
  ASSUME DomainInv, NEW t \in Thread, pc[t] = "push"
  PROVE  /\ fresh[t] \in Record /\ fresh[t] \in leaked /\ fresh[t] \notin Listed
         /\ fresh[t] # NULL
         /\ \A u \in Thread : pc[u] = "push" /\ fresh[u] = fresh[t] => u = t
<1>1. fresh[t] \in leaked /\ leaked \subseteq Record
  BY Zenon DEF DomainInv, OwnInv, StateTypes
<1>2. fresh[t] # NULL /\ fresh[t] \in Record
  BY <1>1, NullIsNothing, Zenon
<1>3. fresh[t] \notin Listed
  BY <1>1, Zenon DEF DomainInv, ListInv, ListWhole, Listed
<1>4. \A u \in Thread : Holds(t) = Holds(u) /\ Holds(t) # NULL => t = u
  BY Zenon DEF DomainInv, OwnInv, OneOwner
<1> QED
  BY <1>1, <1>2, <1>3, <1>4, Zenon DEF Holds

\* The steps that change the list, or who is about to change it.
LEMMA ListMoves ==
  ASSUME StateTypes, NEW t \in Thread, Move(t)
  PROVE  \/ /\ UNCHANGED <<HEAD, next, leaked, list, fresh>>
            /\ \A u \in Thread : pc'[u] = "push" <=> pc[u] = "push"
         \/ Leak(t) \/ Push(t) \/ PushFailed(t)
<1>0. pc \in [Thread -> {"user", "claim", "push", "pin", "scan", "scanned"}]
  BY Zenon DEF StateTypes
<1> USE <1>0 DEF Step, shared
<1>1. CASE AcquireBegin(t) \/ Claim(t) \/ Pass(t)
  BY <1>1 DEF AcquireBegin, Claim, Pass
<1>2. CASE Pin(t) \/ Protect(t) \/ Unpin(t) \/ Exit(t)
  BY <1>2, Zenon DEF Pin, Protect, Unpin, Exit
<1>3. CASE ScanBegin(t) \/ Inspect(t) \/ ScanEnd(t) \/ ScanReturn(t)
  BY <1>3 DEF ScanBegin, Inspect, ScanEnd, ScanReturn
<1> QED
  BY <1>1, <1>2, <1>3, Zenon DEF Move

\* Publication puts a record in front of an unbroken list.
LEMMA ListStep ==
  ASSUME DomainInv, NEW t \in Thread, Move(t)
  PROVE  ListInv'
<1>0. /\ StateTypes /\ ListWhole /\ IsInjective(list) /\ Listed \subseteq leaked
      /\ list \in Seq(Record) /\ next \in [Record -> Record \cup {NULL}]
      /\ leaked \subseteq Record /\ fresh \in [Thread -> Record \cup {NULL}]
      /\ pc \in [Thread -> {"user", "claim", "push", "pin", "scan", "scanned"}]
  BY Zenon DEF DomainInv, ListInv, StateTypes
<1>a. /\ \A k \in DOMAIN list :
           /\ list[k] \in Listed
           /\ next[list[k]] = IF k = Len(list) THEN NULL ELSE list[k + 1]
      /\ HEAD = IF list = <<>> THEN NULL ELSE list[1]
      /\ \A r \in leaked :
           r \in Listed <=> \A u \in Thread : pc[u] = "push" => fresh[u] # r
  BY <1>0, Zenon DEF ListWhole, Listed, Range
<1>1. CASE /\ UNCHANGED <<HEAD, next, leaked, list, fresh>>
           /\ \A u \in Thread : pc'[u] = "push" <=> pc[u] = "push"
  BY <1>0, <1>1, Zenon DEF ListInv, ListWhole, Listed
<1>2. CASE Leak(t)
  <2>1. PICK r \in Record \ leaked :
          /\ pc' = [pc EXCEPT ![t] = "push"] /\ leaked' = leaked \cup {r}
          /\ fresh' = [fresh EXCEPT ![t] = r] /\ UNCHANGED <<HEAD, next, list>>
          /\ pc[t] = "claim"
    BY <1>2, Zenon DEF Leak, Step
  <2>2. r \notin Listed /\ pc'[t] = "push" /\ fresh'[t] = r
    BY <1>0, <2>1, Zenon
  <2>3. \A u \in Thread \ {t} : pc'[u] = pc[u] /\ fresh'[u] = fresh[u]
    BY <1>0, <2>1, Zenon
  <2>4. ASSUME NEW x \in leaked'
        PROVE  x \in Listed <=> \A u \in Thread : pc'[u] = "push" => fresh'[u] # x
    <3>1. CASE x = r
      BY <2>2, <3>1, Zenon
    <3>2. CASE x # r /\ x \in leaked
      <4>1. \A u \in Thread : (pc'[u] = "push" => fresh'[u] # x)
                              <=> (pc[u] = "push" => fresh[u] # x)
        BY <2>1, <2>2, <2>3, <3>2
      <4> QED
        BY <1>a, <3>2, <4>1, Zenon
    <3> QED
      BY <2>1, <2>4, <3>1, <3>2, Zenon
  <2> QED
    BY <1>0, <2>1, <2>4, Zenon DEF ListInv, ListWhole, Listed
<1>3. CASE PushFailed(t)
  <2>1. /\ pc' = [pc EXCEPT ![t] = "push"] /\ pc[t] = "push"
        /\ next' = [next EXCEPT ![fresh[t]] = head[t]]
        /\ UNCHANGED <<HEAD, leaked, list, fresh>>
    BY <1>3, Zenon DEF PushFailed, Step
  <2>2. \A u \in Thread : pc'[u] = pc[u]
    BY <1>0, <2>1, Zenon
  <2>3. \A k \in DOMAIN list : next'[list[k]] = next[list[k]]
    BY <1>0, <1>a, <2>1, FreshAlone
  <2> QED
    BY <1>0, <2>1, <2>2, <2>3, Zenon DEF ListInv, ListWhole, Listed
<1>4. CASE Push(t)
  <2> DEFINE f == fresh[t]
  <2>1. /\ pc' = [pc EXCEPT ![t] = "pin"] /\ pc[t] = "push" /\ HEAD' = f
        /\ next' = [next EXCEPT ![f] = HEAD] /\ list' = <<f>> \o list
        /\ fresh' = [fresh EXCEPT ![t] = NULL] /\ leaked' = leaked
    BY <1>4, Zenon DEF Push, Step
  <2>2. /\ f \in Record /\ f \in leaked /\ f \notin Listed
        /\ \A u \in Thread : pc[u] = "push" /\ fresh[u] = f => u = t
    BY <2>1, FreshAlone, Zenon
  <2> HIDE DEF f
  <2>3. /\ Len(list') = Len(list) + 1 /\ DOMAIN list' = 1..(Len(list) + 1)
        /\ list'[1] = f /\ \A k \in 1..Len(list) : list'[k + 1] = list[k]
        /\ Listed' = Listed \cup {f}
    <3>1. PICK L : L = list'
      OBVIOUS
    <3>2. L = <<f>> \o list
      BY <2>1, <3>1, Zenon
    <3>a. list \in Seq(Record) /\ f \in Record
      BY <1>0, <2>2, Zenon
    <3>3. /\ Len(L) = Len(list) + 1 /\ DOMAIN L = 1..(Len(list) + 1)
          /\ L[1] = f /\ \A k \in 1..Len(list) : L[k + 1] = list[k]
      BY <3>a, <3>2
    <3>4. Len(list) \in Nat /\ DOMAIN list = 1..Len(list)
      BY <3>a
    <3>5. ASSUME NEW x \in Range(L) PROVE x \in Range(list) \cup {f}
      <4>1. PICK k \in DOMAIN L : x = L[k]
        BY <3>5, Zenon DEF Range
      <4>2. k = 1 \/ (k - 1 \in DOMAIN list /\ L[k] = list[k - 1])
        BY <3>3, <3>4, <4>1
      <4> QED
        BY <3>3, <4>1, <4>2, Zenon DEF Range
    <3>6. ASSUME NEW x \in Range(list) PROVE x \in Range(L)
      <4>1. PICK k \in DOMAIN list : x = list[k]
        BY <3>6, Zenon DEF Range
      <4>2. k + 1 \in DOMAIN L /\ L[k + 1] = x
        BY <3>3, <3>4, <4>1
      <4> QED
        BY <4>2, Zenon DEF Range
    <3>7. 1 \in DOMAIN L
      BY <3>3, <3>4
    <3>8. Range(L) = Range(list) \cup {f}
      BY <3>3, <3>5, <3>6, <3>7, Zenon DEF Range
    <3> QED
      BY <3>1, <3>3, <3>8, Zenon DEF Listed
  <2>4. /\ Len(list) \in Nat /\ DOMAIN list = 1..Len(list)
        /\ list = <<>> <=> Len(list) = 0
    BY <1>0
  <2>5. \A k \in DOMAIN list' :
          k = 1 \/ (k - 1 \in DOMAIN list /\ list'[k] = list[k - 1])
    BY <2>3, <2>4
  <2>6. IsInjective(list')
    <3> SUFFICES ASSUME NEW k \in DOMAIN list', NEW m \in DOMAIN list',
                        list'[k] = list'[m]
                 PROVE  k = m
      BY Zenon DEF IsInjective
    <3>1. CASE k # 1 /\ m # 1
      <4>1. k - 1 = m - 1
        BY <1>0, <2>5, <3>1 DEF IsInjective
      <4> QED
        BY <2>3, <4>1
    <3>2. CASE k = 1 \/ m = 1
      BY <1>a, <2>2, <2>3, <2>5, <3>2
    <3> QED
      BY <3>1, <3>2, Zenon
  <2>7. ASSUME NEW k \in DOMAIN list'
        PROVE  next'[list'[k]] = IF k = Len(list') THEN NULL ELSE list'[k + 1]
    <3>1. CASE k = 1
      <4>1. next'[list'[k]] = HEAD
        BY <1>0, <2>1, <2>2, <2>3, <3>1, Zenon
      <4> QED
        BY <1>a, <2>3, <2>4, <3>1, <4>1
    <3>2. CASE k # 1
      <4>1. k - 1 \in DOMAIN list /\ list'[k] = list[k - 1]
        BY <2>5, <3>2
      <4>2. list[k - 1] \in Record /\ list[k - 1] # f
        BY <1>0, <1>a, <2>2, <4>1
      <4>3. next'[list'[k]] = next[list[k - 1]]
        BY <1>0, <2>1, <4>1, <4>2, Zenon
      <4>4. next[list[k - 1]] = IF k - 1 = Len(list) THEN NULL ELSE list[k]
        BY <1>a, <2>3, <2>4, <4>1
      <4>5. k # Len(list') => list'[k + 1] = list[k]
        BY <2>3, <2>4
      <4> QED
        BY <2>3, <2>4, <4>3, <4>4, <4>5
    <3> QED
      BY <3>1, <3>2, Zenon
  <2>8. ASSUME NEW x \in leaked'
        PROVE  x \in Listed' <=> \A u \in Thread : pc'[u] = "push" => fresh'[u] # x
    <3>1. \A u \in Thread \ {t} : pc'[u] = pc[u] /\ fresh'[u] = fresh[u]
      BY <1>0, <2>1, Zenon
    <3>2. pc'[t] # "push"
      BY <1>0, <2>1
    <3>3. CASE x = f
      BY <2>2, <2>3, <3>1, <3>2, <3>3, Zenon
    <3>4. CASE x # f
      <4>1. \A u \in Thread : (pc'[u] = "push" => fresh'[u] # x)
                              <=> (pc[u] = "push" => fresh[u] # x)
        BY <3>1, <3>2, <3>4, Zenon DEF f
      <4> QED
        BY <1>a, <2>1, <2>3, <2>8, <3>4, <4>1, Zenon
    <3> QED
      BY <3>3, <3>4, Zenon
  <2>9. HEAD' = IF list' = <<>> THEN NULL ELSE list'[1]
    BY <2>1, <2>3, <2>4
  <2>10. Listed' \subseteq leaked'
    BY <1>0, <2>1, <2>2, <2>3, Zenon
  <2> QED
    BY <2>6, <2>7, <2>8, <2>9, <2>10, Zenon DEF ListInv, ListWhole, Listed
<1> QED
  BY <1>0, <1>1, <1>2, <1>3, <1>4, ListMoves, Zenon

\* What the other threads hold stays.
LEMMA OthersStay ==
  ASSUME StateTypes, NEW t \in Thread, Move(t), NEW u \in Thread, u # t
  PROVE  /\ pc'[u] = pc[u] /\ record'[u] = record[u] /\ fresh'[u] = fresh[u]
         /\ cursor'[u] = cursor[u] /\ pins'[u] = pins[u] /\ index'[u] = index[u]
         /\ target'[u] = target[u] /\ found'[u] = found[u]
<1> USE DEF StateTypes, Step, walk
<1>1. CASE AcquireBegin(t) \/ Claim(t) \/ Pass(t) \/ Leak(t)
  BY <1>1, Zenon DEF AcquireBegin, Claim, Pass, Leak
<1>2. CASE Push(t) \/ PushFailed(t) \/ Pin(t) \/ Protect(t)
  BY <1>2, Zenon DEF Push, PushFailed, Pin, Protect
<1>3. CASE Unpin(t) \/ Exit(t) \/ ScanBegin(t)
  BY <1>3, Zenon DEF Unpin, Exit, ScanBegin
<1>4. CASE Inspect(t)
  <2>1. /\ pc' = [pc EXCEPT ![t] = "scan"]
        /\ UNCHANGED <<record, pins, target, fresh>>
    BY <1>4, Zenon DEF Inspect
  <2>2. Advance(t, cursor[t], index[t])
    BY <1>4, Zenon DEF Inspect
  <2>3. found'[u] = found[u]
    BY <1>4, Zenon DEF Inspect
  <2>4. cursor'[u] = cursor[u] /\ index'[u] = index[u]
    BY <2>2, Zenon DEF Advance
  <2> QED
    BY <2>1, <2>3, <2>4, Zenon
<1>5. CASE ScanEnd(t) \/ ScanReturn(t)
  BY <1>5, Zenon DEF ScanEnd, ScanReturn
<1> QED
  BY <1>1, <1>2, <1>3, <1>4, <1>5, Zenon DEF Move

\* A record with no owner is not in use, and one that was never leaked has
\* no owner.
LEMMA Unleaked ==
  ASSUME DomainInv, NEW r \in Record \ leaked
  PROVE  ~in_use[r]
<1>1. \A t \in Thread : Holds(t) # r
  BY Zenon, NullIsNothing DEF DomainInv, OwnInv, ListInv, Holds
<1> QED
  BY <1>1, Zenon DEF DomainInv, OwnInv, OneOwner

\* A step leaves the ownership of t as it is, takes a free record or gives
\* its own up.
LEMMA OwnerMoves ==
  ASSUME DomainInv, NEW t \in Thread, Move(t)
  PROVE  \/ Holds(t)' = Holds(t) /\ in_use' = in_use
         \/ \E r \in Record :
              /\ Holds(t) = NULL /\ Holds(t)' = r
              /\ ~in_use[r] /\ in_use' = [in_use EXCEPT ![r] = TRUE]
         \/ \E r \in Record :
              /\ Holds(t) = r /\ Holds(t)' = NULL
              /\ in_use' = [in_use EXCEPT ![r] = FALSE]
<1>0. /\ StateTypes /\ record \in [Thread -> Record \cup {NULL}]
      /\ fresh \in [Thread -> Record \cup {NULL}]
      /\ cursor \in [Thread -> Record \cup {NULL}]
      /\ pc \in [Thread -> {"user", "claim", "push", "pin", "scan", "scanned"}]
      /\ pc[t] = "push" => record[t] = NULL
      /\ pc[t] = "claim" => record[t] = NULL
  BY Zenon DEF DomainInv, StateTypes, OwnInv
<1>1. CASE Claim(t)
  <2>1. /\ pc[t] = "claim" /\ pc'[t] = "pin" /\ cursor[t] \in Record
        /\ ~in_use[cursor[t]] /\ in_use' = [in_use EXCEPT ![cursor[t]] = TRUE]
        /\ record'[t] = cursor[t]
    BY <1>0, <1>1, Zenon DEF Claim, Step
  <2>2. Holds(t) = NULL /\ Holds(t)' = cursor[t]
    BY <1>0, <2>1 DEF Holds
  <2> QED
    BY <2>1, <2>2, Zenon
<1>2. CASE Leak(t)
  <2>1. PICK r \in Record \ leaked :
          /\ pc[t] = "claim" /\ pc'[t] = "push" /\ fresh'[t] = r
          /\ in_use' = [in_use EXCEPT ![r] = TRUE]
    BY <1>0, <1>2, Zenon DEF Leak, Step
  <2>2. Holds(t) = NULL /\ Holds(t)' = r /\ ~in_use[r]
    BY <1>0, <2>1, Unleaked DEF Holds
  <2> QED
    BY <2>1, <2>2, Zenon
<1>3. CASE Exit(t)
  <2>1. /\ pc[t] = "user" /\ pc'[t] = "user" /\ record[t] \in Record
        /\ in_use' = [in_use EXCEPT ![record[t]] = FALSE] /\ record'[t] = NULL
    BY <1>0, <1>3, Zenon DEF Exit, Step
  <2>2. Holds(t) = record[t] /\ Holds(t)' = NULL
    BY <2>1 DEF Holds
  <2> QED
    BY <2>1, <2>2, Zenon
<1>4. CASE Push(t) \/ PushFailed(t)
  BY <1>0, <1>4 DEF Push, PushFailed, Step, Holds
<1>5. CASE AcquireBegin(t) \/ Pass(t) \/ Pin(t) \/ Protect(t) \/ Unpin(t)
  BY <1>0, <1>5 DEF AcquireBegin, Pass, Pin, Protect, Unpin, Step, Holds, shared
<1>6. CASE ScanBegin(t) \/ Inspect(t) \/ ScanEnd(t) \/ ScanReturn(t)
  BY <1>0, <1>6 DEF ScanBegin, Inspect, ScanEnd, ScanReturn, Step, Holds, shared
<1> QED
  BY <1>1, <1>2, <1>3, <1>4, <1>5, <1>6, Zenon DEF Move

\* A claim, a publication or an exit leaves each record with one owner.
LEMMA OneOwnerStep ==
  ASSUME DomainInv, NEW t \in Thread, Move(t)
  PROVE  OneOwner'
<1>0. /\ StateTypes /\ OneOwner /\ in_use \in [Record -> BOOLEAN]
  BY Zenon DEF DomainInv, OwnInv, StateTypes
<1>1. \A u \in Thread \ {t} : Holds(u)' = Holds(u)
  BY <1>0, OthersStay, Zenon DEF Holds
<1>2. CASE Holds(t)' = Holds(t) /\ in_use' = in_use
  <2>1. \A u \in Thread : Holds(u)' = Holds(u)
    BY <1>1, <1>2, Zenon
  <2>2. ASSUME NEW u \in Thread, NEW v \in Thread,
               Holds(u)' = Holds(v)', Holds(u)' # NULL
        PROVE  u = v
    <3>1. Holds(u) = Holds(v) /\ Holds(u) # NULL
      BY <2>1, <2>2, Zenon
    <3> QED
      BY <1>0, <3>1, Zenon DEF OneOwner
  <2>3. ASSUME NEW x \in Record
        PROVE  in_use'[x] <=> \E u \in Thread : Holds(u)' = x
    <3>1. \A u \in Thread : Holds(u)' = x <=> Holds(u) = x
      BY <2>1, Zenon
    <3> QED
      BY <1>0, <1>2, <3>1, Zenon DEF OneOwner
  <2> QED
    BY <2>2, <2>3, Zenon DEF OneOwner
<1>3. ASSUME NEW r \in Record, Holds(t) = NULL, Holds(t)' = r, ~in_use[r],
             in_use' = [in_use EXCEPT ![r] = TRUE]
      PROVE  OneOwner'
  <2>1. \A u \in Thread : Holds(u) # r
    BY <1>0, <1>3, Zenon DEF OneOwner
  <2>2. in_use'[r] /\ \A x \in Record \ {r} : in_use'[x] = in_use[x]
    BY <1>0, <1>3, Zenon
  <2>3. \A u, v \in Thread : Holds(u)' = Holds(v)' /\ Holds(u)' # NULL => u = v
    <3> SUFFICES ASSUME NEW u \in Thread, NEW v \in Thread,
                        Holds(u)' = Holds(v)', Holds(u)' # NULL
                 PROVE  u = v
      BY Zenon
    <3>1. CASE u = t \/ v = t
      BY <1>1, <1>3, <2>1, <3>1, Zenon
    <3>2. CASE u # t /\ v # t
      <4>1. Holds(u) = Holds(v) /\ Holds(u) # NULL
        BY <1>1, <3>2, Zenon
      <4> QED
        BY <1>0, <4>1, Zenon DEF OneOwner
    <3> QED
      BY <3>1, <3>2, Zenon
  <2>4. ASSUME NEW x \in Record
        PROVE  in_use'[x] <=> \E u \in Thread : Holds(u)' = x
    <3>1. CASE x = r
      BY <1>3, <2>2, <3>1, Zenon
    <3>2. CASE x # r
      <4>1. \A u \in Thread : Holds(u)' = x <=> Holds(u) = x
        BY <1>1, <1>3, <3>2, NullIsNothing, Zenon
      <4> QED
        BY <1>0, <2>2, <3>2, <4>1, Zenon DEF OneOwner
    <3> QED
      BY <3>1, <3>2, Zenon
  <2> QED
    BY <2>3, <2>4, Zenon DEF OneOwner
<1>4. ASSUME NEW r \in Record, Holds(t) = r, Holds(t)' = NULL,
             in_use' = [in_use EXCEPT ![r] = FALSE]
      PROVE  OneOwner'
  <2>1. \A u \in Thread : Holds(u)' = Holds(u) \/ (u = t /\ Holds(u)' = NULL)
    BY <1>1, <1>4, Zenon
  <2>2. ~in_use'[r] /\ \A x \in Record \ {r} : in_use'[x] = in_use[x]
    BY <1>0, <1>4, Zenon
  <2>3. ASSUME NEW u \in Thread, NEW v \in Thread,
               Holds(u)' = Holds(v)', Holds(u)' # NULL
        PROVE  u = v
    <3>1. Holds(u)' = Holds(u) /\ Holds(v)' = Holds(v)
      BY <2>1, <2>3, Zenon
    <3>2. Holds(u) = Holds(v) /\ Holds(u) # NULL
      BY <2>3, <3>1, Zenon
    <3> QED
      BY <1>0, <3>2, Zenon DEF OneOwner
  <2>4. ASSUME NEW x \in Record
        PROVE  in_use'[x] <=> \E u \in Thread : Holds(u)' = x
    <3>1. CASE x = r
      <4>1. ASSUME NEW u \in Thread PROVE Holds(u)' # r
        <5>1. CASE u = t
          BY <1>4, <5>1, NullIsNothing, Zenon
        <5>2. CASE u # t
          <6>1. Holds(u)' = Holds(u)
            BY <1>1, <5>2, Zenon
          <6>2. Holds(u) # r
            BY <1>0, <1>4, <5>2, NullIsNothing, Zenon DEF OneOwner
          <6> QED
            BY <6>1, <6>2, Zenon
        <5> QED
          BY <5>1, <5>2, Zenon
      <4> QED
        BY <2>2, <3>1, <4>1, Zenon
    <3>2. CASE x # r
      <4>1. \A u \in Thread : Holds(u)' = x <=> Holds(u) = x
        BY <1>1, <1>4, <3>2, NullIsNothing, Zenon
      <4> QED
        BY <1>0, <2>2, <3>2, <4>1, Zenon DEF OneOwner
    <3> QED
      BY <3>1, <3>2, Zenon
  <2> QED
    BY <2>3, <2>4, Zenon DEF OneOwner
<1> QED
  BY <1>2, <1>3, <1>4, OwnerMoves, Zenon

\* HEAD and the next pointers of the list lead to the list.
LEMMA LeadsOn ==
  ASSUME DomainInv
  PROVE  /\ HEAD # NULL => HEAD \in Listed
         /\ \A r \in Listed : next[r] # NULL => next[r] \in Listed
<1>0. list \in Seq(Record) /\ ListWhole
  BY Zenon DEF DomainInv, StateTypes, ListInv
<1>1. HEAD # NULL => HEAD \in Listed
  <2>1. list # <<>> => 1 \in DOMAIN list
    BY <1>0
  <2> QED
    BY <1>0, <2>1, Zenon DEF ListWhole, Listed, Range
<1>2. ASSUME NEW r \in Listed, next[r] # NULL PROVE next[r] \in Listed
  <2>1. PICK k \in DOMAIN list : r = list[k]
    BY <1>2, Zenon DEF Listed, Range
  <2>2. k # Len(list) /\ next[r] = list[k + 1]
    BY <1>0, <1>2, <2>1, Zenon DEF ListWhole
  <2>3. k + 1 \in DOMAIN list
    BY <1>0, <2>2
  <2> QED
    BY <2>2, <2>3, Zenon DEF Listed, Range
<1> QED
  BY <1>1, <1>2, Zenon

\* Nothing leaves the list.
LEMMA ListedGrows ==
  ASSUME DomainInv, NEW t \in Thread, Move(t)
  PROVE  /\ Listed \subseteq Listed'
         /\ Push(t) => fresh[t] \in Listed'
<1>0. /\ StateTypes /\ list \in Seq(Record)
      /\ fresh \in [Thread -> Record \cup {NULL}]
  BY Zenon DEF DomainInv, StateTypes
<1>1. CASE Push(t)
  <2>1. list' = <<fresh[t]>> \o list /\ fresh[t] \in Record
    BY <1>1, FreshAlone, Zenon DEF Push, Step
  <2>2. /\ DOMAIN list = 1..Len(list) /\ DOMAIN list' = 1..(Len(list) + 1)
        /\ Len(list) \in Nat
        /\ list'[1] = fresh[t] /\ \A k \in 1..Len(list) : list'[k + 1] = list[k]
    BY <1>0, <2>1
  <2>3. \A k \in DOMAIN list : k + 1 \in DOMAIN list' /\ list'[k + 1] = list[k]
    BY <2>2
  <2>4. 1 \in DOMAIN list'
    BY <2>2
  <2>5. ASSUME NEW x \in Listed PROVE x \in Listed'
    <3>1. PICK k \in DOMAIN list : x = list[k]
      BY <2>5, Zenon DEF Listed, Range
    <3> QED
      BY <2>3, <3>1, Zenon DEF Listed, Range
  <2>6. fresh[t] \in Listed'
    BY <2>2, <2>4, Zenon DEF Listed, Range
  <2> QED
    BY <2>5, <2>6, Zenon
<1>2. CASE ~Push(t)
  <2>1. list' = list
    BY <1>0, <1>2, ListMoves, Zenon DEF Leak, PushFailed
  <2> QED
    BY <1>2, <2>1, Zenon DEF Listed
<1> QED
  BY <1>1, <1>2, Zenon

\* Every step keeps what is known of owners and of walks.
LEMMA OwnStep ==
  ASSUME DomainInv, NEW t \in Thread, Move(t)
  PROVE  OwnInv'
<1> DEFINE Good(u) ==
      /\ pc[u] = "push" => record[u] = NULL /\ fresh[u] \in leaked
      /\ pc[u] = "claim" => record[u] = NULL
      /\ pc[u] = "pin" => record[u] # NULL
      /\ record[u] # NULL => record[u] \in Listed
      /\ cursor[u] # NULL => cursor[u] \in Listed
<1>0. /\ StateTypes /\ Listed \subseteq Listed' /\ (Push(t) => fresh[t] \in Listed')
      /\ \A u \in Thread : Good(u)
  BY ListedGrows, Zenon DEF DomainInv, OwnInv
<1>1. leaked \subseteq leaked'
  BY <1>0, ListMoves, Zenon DEF Leak, Push, PushFailed
<1>2. ASSUME NEW u \in Thread, u # t PROVE Good(u)'
  BY <1>0, <1>1, <1>2, OthersStay
<1>3. Good(t)'
  <2>0. /\ record \in [Thread -> Record \cup {NULL}]
        /\ fresh \in [Thread -> Record \cup {NULL}]
        /\ cursor \in [Thread -> Record \cup {NULL}]
        /\ pc \in [Thread -> {"user", "claim", "push", "pin", "scan", "scanned"}]
        /\ Good(t)
    BY <1>0, Zenon DEF StateTypes
  <2>1. CASE AcquireBegin(t)
    <3>1. /\ pc'[t] = "claim" /\ record'[t] = record[t] /\ record[t] = NULL
          /\ cursor'[t] = HEAD
      BY <2>0, <2>1, Zenon DEF AcquireBegin, Step
    <3> QED
      BY <1>0, <3>1, LeadsOn
  <2>2. CASE Claim(t)
    <3>1. /\ pc'[t] = "pin" /\ record'[t] = cursor[t] /\ cursor[t] # NULL
          /\ cursor'[t] = NULL
      BY <2>0, <2>2, Zenon DEF Claim, Step
    <3> QED
      BY <1>0, <2>0, <3>1
  <2>3. CASE Pass(t)
    <3>1. /\ pc[t] = "claim" /\ pc'[t] = "claim" /\ record'[t] = record[t]
          /\ cursor[t] # NULL /\ cursor'[t] = next[cursor[t]]
      BY <2>0, <2>3, Zenon DEF Pass, Step
    <3> QED
      BY <1>0, <2>0, <3>1, LeadsOn
  <2>4. CASE Leak(t)
    <3>1. /\ pc[t] = "claim" /\ pc'[t] = "push" /\ record'[t] = record[t]
          /\ cursor'[t] = cursor[t] /\ fresh'[t] \in leaked'
      BY <2>0, <2>4 DEF Leak, Step, walk
    <3> QED
      BY <1>0, <2>0, <3>1
  <2>5. CASE Push(t)
    <3>1. /\ pc[t] = "push" /\ pc'[t] = "pin" /\ record'[t] = fresh[t]
          /\ cursor'[t] = cursor[t]
      BY <2>0, <2>5, Zenon DEF Push, Step, walk
    <3> QED
      BY <1>0, <2>0, <2>5, <3>1, FreshAlone
  <2>6. CASE PushFailed(t)
    <3>1. /\ pc[t] = "push" /\ pc'[t] = "push" /\ record'[t] = record[t]
          /\ cursor'[t] = cursor[t] /\ fresh'[t] = fresh[t] /\ leaked' = leaked
      BY <2>0, <2>6, Zenon DEF PushFailed, Step, walk
    <3> QED
      BY <1>0, <2>0, <3>1
  <2>7. CASE Pin(t) \/ Protect(t) \/ Unpin(t) \/ ScanEnd(t) \/ ScanReturn(t)
    <3>1. /\ pc'[t] \in {"user", "scanned"} /\ record'[t] = record[t]
          /\ cursor'[t] = cursor[t]
      BY <2>0, <2>7 DEF Pin, Protect, Unpin, ScanEnd, ScanReturn, Step, walk
    <3> QED
      BY <1>0, <2>0, <3>1
  <2>8. CASE Exit(t)
    <3>1. pc'[t] = "user" /\ record'[t] = NULL /\ cursor'[t] = cursor[t]
      BY <2>0, <2>8, Zenon DEF Exit, Step, walk
    <3> QED
      BY <1>0, <2>0, <3>1
  <2>9. CASE ScanBegin(t)
    <3>1. pc'[t] = "scan" /\ record'[t] = record[t] /\ cursor'[t] = HEAD
      BY <2>0, <2>9, Zenon DEF ScanBegin, Step
    <3> QED
      BY <1>0, <2>0, <3>1, LeadsOn
  <2>10. CASE Inspect(t)
    <3>1. /\ pc'[t] = "scan" /\ record'[t] = record[t] /\ cursor[t] # NULL
          /\ cursor'[t] = cursor[t] \/ cursor'[t] = next[cursor[t]]
      BY <2>0, <2>10, Zenon DEF Inspect, Advance, Step
    <3> QED
      BY <1>0, <2>0, <3>1, LeadsOn
  <2> QED
    BY <2>1, <2>2, <2>3, <2>4, <2>5, <2>6, <2>7, <2>8, <2>9, <2>10, Zenon DEF Move
<1> QED
  BY <1>2, <1>3, OneOwnerStep, Zenon DEF OwnInv

-----------------------------------------------------------------------------
(* Slots *)

\* The steps that touch a slot, a Pin or who owns a record.
LEMMA SlotMoves ==
  ASSUME NEW t \in Thread, Move(t)
  PROVE  \/ UNCHANGED <<slots, pins, record>>
         \/ Claim(t) \/ Push(t) \/ Pin(t) \/ Protect(t) \/ Unpin(t) \/ Exit(t)
  BY Zenon DEF Move, AcquireBegin, Pass, Leak, PushFailed, ScanBegin, Inspect,
     ScanEnd, ScanReturn, shared

\* Somebody's Pin holds slot i of r.
Taken(r, i) == \E u \in Thread : record[u] = r /\ i \in Pinned(u)

\* The owner of a record is the one whose Pins count.
LEMMA TakenByOwner ==
  ASSUME DomainInv, NEW t \in Thread, record[t] \in Record, pc[t] # "push",
         NEW i
  PROVE  Taken(record[t], i) <=> i \in Pinned(t)
<1>1. ASSUME NEW u \in Thread, record[u] = record[t] PROVE u = t
  <2>1. pc[u] # "push"
    BY <1>1, NullIsNothing, Zenon DEF DomainInv, OwnInv
  <2>2. Holds(u) = Holds(t) /\ Holds(t) # NULL
    BY <1>1, <2>1, NullIsNothing, Zenon DEF Holds
  <2> QED
    BY <2>2, Zenon DEF DomainInv, OwnInv, OneOwner
<1> QED
  BY <1>1, Zenon DEF Taken

\* Pin and Drop change one slot, of the caller's own record.
LEMMA SlotStep ==
  ASSUME DomainInv, NEW t \in Thread, Move(t)
  PROVE  SlotInv'
<1>0. /\ StateTypes /\ SlotPerPin /\ OneOwner
      /\ slots \in [Record -> [Slot -> Addr \cup {NULL}]]
      /\ pins \in [Thread -> Seq(Slot)] /\ record \in [Thread -> Record \cup {NULL}]
      /\ pc \in [Thread -> {"user", "claim", "push", "pin", "scan", "scanned"}]
      /\ \A u \in Thread : /\ pins[u] # <<>> => record[u] # NULL
                           /\ IsInjective(pins[u])
      /\ \A r \in Record, i \in Slot : slots[r][i] # NULL <=> Taken(r, i)
  BY Zenon DEF DomainInv, SlotInv, SlotPerPin, OwnInv, StateTypes, Taken, Pinned
<1>a. SUFFICES /\ pins'[t] # <<>> => record'[t] # NULL
               /\ IsInjective(pins'[t])
               /\ \A r \in Record, i \in Slot : slots'[r][i] # NULL <=> Taken(r, i)'
  <2>1. \A u \in Thread \ {t} : pins'[u] = pins[u] /\ record'[u] = record[u]
    BY <1>0, OthersStay, Zenon
  <2>2. \A u \in Thread : /\ pins'[u] # <<>> => record'[u] # NULL
                          /\ IsInjective(pins'[u])
    BY <1>0, <1>a, <2>1, Zenon
  <2> QED
    BY <1>a, <2>2, Zenon DEF SlotInv, SlotPerPin, Taken, Pinned
<1>b. \A u \in Thread \ {t} : Pinned(u)' = Pinned(u) /\ record'[u] = record[u]
  BY <1>0, OthersStay, Zenon DEF Pinned
<1>1. CASE UNCHANGED <<slots, pins, record>>
  BY <1>0, <1>1, Zenon DEF Taken, Pinned
<1>2. CASE Claim(t) \/ Push(t)
  <2>1. /\ slots' = slots /\ pins' = pins /\ record[t] = NULL
        /\ record'[t] # NULL
    <3>1. pc[t] \in {"claim", "push"} /\ slots' = slots /\ pins' = pins
      BY <1>2, Zenon DEF Claim, Push, Step
    <3>2. record[t] = NULL
      BY <3>1, Zenon DEF DomainInv, OwnInv
    <3>3. record'[t] # NULL
      BY <1>0, <1>2, FreshAlone, Zenon DEF Claim, Push, Step
    <3> QED
      BY <3>1, <3>2, <3>3, Zenon
  <2>2. pins[t] = <<>>
    BY <1>0, <2>1, Zenon
  <2>3. Pinned(t) = {} /\ Pinned(t)' = {}
    BY <2>1, <2>2 DEF Pinned, Range
  <2>4. \A r \in Record, i \in Slot : Taken(r, i)' <=> Taken(r, i)
    BY <1>b, <2>3, Zenon DEF Taken
  <2> QED
    BY <1>0, <2>1, <2>2, <2>4, Zenon
<1>3. ASSUME record[t] \in Record, pc[t] # "push", record' = record,
             NEW j \in Slot, NEW p \in Addr \cup {NULL},
             slots' = [slots EXCEPT ![record[t]][j] = p],
             IsInjective(pins'[t]),
             p # NULL => Pinned(t)' = Pinned(t) \cup {j},
             p = NULL => Pinned(t)' = Pinned(t) \ {j}
      PROVE  /\ pins'[t] # <<>> => record'[t] # NULL
             /\ IsInjective(pins'[t])
             /\ \A r \in Record, i \in Slot : slots'[r][i] # NULL <=> Taken(r, i)'
  <2>1. record'[t] # NULL
    BY <1>3, NullIsNothing, Zenon
  <2>2. ASSUME NEW r \in Record, NEW i \in Slot
        PROVE  slots'[r][i] # NULL <=> Taken(r, i)'
    <3>1. CASE r # record[t]
      <4>1. slots'[r][i] = slots[r][i]
        BY <1>0, <1>3, <3>1, Zenon
      <4>2. Taken(r, i)' <=> Taken(r, i)
        BY <1>3, <1>b, <3>1, Zenon DEF Taken
      <4> QED
        BY <1>0, <4>1, <4>2, Zenon
    <3>2. CASE r = record[t]
      <4>1. slots'[r][i] = IF i = j THEN p ELSE slots[r][i]
        BY <1>0, <1>3, <3>2
      <4>2. Taken(r, i) <=> i \in Pinned(t)
        BY <1>3, <3>2, TakenByOwner, Zenon
      <4>3. \A u \in Thread : record[u] = r => u = t
        <5>1. ASSUME NEW u \in Thread, record[u] = r PROVE u = t
          <6>1. pc[u] # "push"
            BY <1>3, <3>2, <5>1, NullIsNothing, Zenon DEF DomainInv, OwnInv
          <6>2. Holds(u) = Holds(t) /\ Holds(t) # NULL
            BY <1>3, <3>2, <5>1, <6>1, NullIsNothing, Zenon DEF Holds
          <6> QED
            BY <1>0, <6>2, Zenon DEF OneOwner
        <5> QED
          BY <5>1, Zenon
      <4>4. Taken(r, i)' <=> i \in Pinned(t)'
        BY <1>3, <3>2, <4>3, Zenon DEF Taken
      <4>5. slots[r][i] # NULL <=> i \in Pinned(t)
        BY <1>0, <4>2, Zenon
      <4>6. i \in Pinned(t)' <=> IF i = j THEN p # NULL ELSE i \in Pinned(t)
        BY <1>3, Zenon
      <4> QED
        BY <4>1, <4>4, <4>5, <4>6, Zenon
    <3> QED
      BY <3>1, <3>2, Zenon
  <2> QED
    BY <1>3, <2>1, <2>2, Zenon
<1>4. CASE Pin(t)
  <2> DEFINE j == Min(FreeSlots(t))
  <2>1. /\ record[t] \in Record /\ pc[t] # "push" /\ record' = record
        /\ FreeSlots(t) # {} /\ pins' = [pins EXCEPT ![t] = Append(@, j)]
        /\ \E p \in Addr : slots' = [slots EXCEPT ![record[t]][j] = p]
    BY <1>0, <1>4, Zenon DEF Pin, Step
  <2>2. j \in Slot /\ slots[record[t]][j] = NULL
    BY <2>1, PinFree, Zenon
  <2> HIDE DEF j
  <2>3. j \notin Pinned(t)
    BY <1>0, <2>1, <2>2, TakenByOwner, Zenon
  <2>4. pins'[t] = Append(pins[t], j) /\ pins[t] \in Seq(Slot)
    BY <1>0, <2>1, Zenon
  <2>5. IsInjective(pins'[t]) /\ Pinned(t)' = Pinned(t) \cup {j}
    <3>1. IsInjective(pins[t]) /\ j \notin Range(pins[t])
      BY <1>0, <2>3, Zenon DEF Pinned
    <3>2. PICK s, L : s = pins[t] /\ L = pins'[t]
      OBVIOUS
    <3>3. s \in Seq(Slot) /\ L = Append(s, j)
      BY <2>4, <3>2, Zenon
    <3>4. IsInjective(s) /\ j \notin Range(s) /\ j \in Slot
      BY <2>2, <3>1, <3>2, Zenon
    <3>5. /\ Range(L) = Range(s) \cup {j}
          /\ IsInjective(s) /\ j \notin Range(s) => IsInjective(L)
      BY <3>3, <3>4, Appended, Zenon
    <3> QED
      BY <3>2, <3>4, <3>5, Zenon DEF Pinned
  <2>6. PICK p \in Addr : slots' = [slots EXCEPT ![record[t]][j] = p]
    BY <2>1, Zenon
  <2> QED
    BY <1>3, <2>1, <2>2, <2>5, <2>6, NullIsNothing, Zenon
<1>5. CASE Protect(t)
  <2> DEFINE j == Innermost(t)
  <2>1. /\ pins[t] # <<>> /\ pc[t] = "user" /\ record' = record /\ pins' = pins
        /\ \E p \in Addr : slots' = [slots EXCEPT ![record[t]][j] = p]
    BY <1>5, Zenon DEF Protect, Step
  <2>2. record[t] \in Record /\ j \in Slot /\ j \in Pinned(t)
    BY <2>1, PinHeld, Zenon
  <2> HIDE DEF j
  <2>3. Pinned(t)' = Pinned(t) \cup {j} /\ IsInjective(pins'[t])
    BY <1>0, <2>1, <2>2, Zenon DEF Pinned
  <2>4. PICK p \in Addr : slots' = [slots EXCEPT ![record[t]][j] = p]
    BY <2>1, Zenon
  <2>5. pc[t] # "push"
    BY <2>1
  <2> QED
    BY <1>3, <2>1, <2>2, <2>3, <2>4, <2>5, NullIsNothing, Zenon
<1>6. CASE Unpin(t)
  <2> DEFINE j == Innermost(t)
  <2>1. /\ pins[t] # <<>> /\ pc[t] = "user" /\ record' = record
        /\ pins' = [pins EXCEPT ![t] = SubSeq(@, 1, Len(@) - 1)]
        /\ slots' = [slots EXCEPT ![record[t]][j] = NULL]
    BY <1>6, Zenon DEF Unpin, Step
  <2>2. /\ record[t] \in Record /\ j \in Slot
        /\ Range(Outer(t)) = Pinned(t) \ {j} /\ IsInjective(Outer(t))
    BY <2>1, PinHeld, Zenon
  <2>3. pins'[t] = Outer(t)
    BY <1>0, <2>1, Zenon DEF Outer
  <2> HIDE DEF j
  <2>4. Pinned(t)' = Pinned(t) \ {j} /\ IsInjective(pins'[t])
    BY <2>2, <2>3, Zenon DEF Pinned
  <2>5. pc[t] # "push"
    BY <2>1
  <2> QED
    BY <1>3, <2>1, <2>2, <2>4, <2>5, Zenon
<1>7. CASE Exit(t)
  <2>1. /\ record[t] \in Record /\ pc[t] # "push" /\ pins[t] = <<>> /\ pins' = pins
        /\ slots' = [slots EXCEPT ![record[t]] = [i \in Slot |-> NULL]]
        /\ record' = [record EXCEPT ![t] = NULL]
    BY <1>0, <1>7 DEF Exit, Step
  <2>2. Pinned(t) = {} /\ Pinned(t)' = {}
    BY <2>1 DEF Pinned, Range
  <2>3. ASSUME NEW i \in Slot PROVE slots[record[t]][i] = NULL
    BY <1>0, <2>1, <2>2, TakenByOwner, Zenon
  <2>4. \A r \in Record, i \in Slot : slots'[r][i] = slots[r][i]
    BY <1>0, <2>1, <2>3
  <2>5. \A r \in Record, i \in Slot : Taken(r, i)' <=> Taken(r, i)
    BY <1>b, <2>2, Zenon DEF Taken
  <2> QED
    BY <1>0, <2>1, <2>4, <2>5, Zenon
<1> QED
  BY <1>1, <1>2, <1>4, <1>5, <1>6, <1>7, SlotMoves, Zenon

-----------------------------------------------------------------------------
(* Walks *)

\* A publication moves every record of the list by one place.
LEMMA ListShift ==
  ASSUME DomainInv, NEW t \in Thread, Move(t)
  PROVE  \E n \in {0, 1} : \A k \in DOMAIN list :
           k + n \in DOMAIN list' /\ list'[k + n] = list[k]
<1>0. StateTypes /\ list \in Seq(Record)
  BY Zenon DEF DomainInv, StateTypes
<1>1. CASE Push(t)
  <2>1. list' = <<fresh[t]>> \o list /\ fresh[t] \in Record
    BY <1>1, FreshAlone, Zenon DEF Push, Step
  <2>2. \A k \in DOMAIN list : k + 1 \in DOMAIN list' /\ list'[k + 1] = list[k]
    BY <1>0, <2>1
  <2> QED
    BY <2>2, Zenon
<1>2. CASE ~Push(t)
  <2>1. list' = list
    BY <1>0, <1>2, ListMoves, Zenon DEF Leak, PushFailed
  <2>2. \A k \in DOMAIN list : k + 0 = k
    BY <1>0
  <2>3. \A k \in DOMAIN list : k + 0 \in DOMAIN list' /\ list'[k + 0] = list[k]
    BY <2>1, <2>2
  <2> QED
    BY <2>3, Zenon
<1> QED
  BY <1>1, <1>2, Zenon

\* What a walk has still before it stays before it while others move.
LEMMA AheadStays ==
  ASSUME DomainInv, NEW t \in Thread, Move(t), NEW u \in Thread,
         cursor'[u] = cursor[u], index'[u] = index[u], NEW e, Ahead(u, e)
  PROVE  Ahead(u, e)'
<1>0. list \in Seq(Record)
  BY Zenon DEF DomainInv, StateTypes
<1>1. PICK n \in {0, 1} : \A k \in DOMAIN list :
        k + n \in DOMAIN list' /\ list'[k + n] = list[k]
  BY ListShift, Zenon
<1>2. PICK j \in DOMAIN list, k \in DOMAIN list :
        /\ list[j] = cursor[u] /\ list[k] = e[1]
        /\ j < k \/ (j = k /\ index[u] <= e[2])
  BY Zenon DEF Ahead
<1>3. j + n \in DOMAIN list' /\ list'[j + n] = cursor'[u]
  BY <1>1, <1>2, Zenon
<1>4. k + n \in DOMAIN list' /\ list'[k + n] = e[1]
  BY <1>1, <1>2, Zenon
<1>5. j \in Int /\ k \in Int /\ n \in Int
  BY <1>0
<1>6. (j < k => j + n < k + n) /\ (j = k => j + n = k + n)
  BY <1>5
<1>7. j + n < k + n \/ (j + n = k + n /\ index'[u] <= e[2])
  BY <1>2, <1>6, Zenon
<1> QED
  BY <1>3, <1>4, <1>7, Zenon DEF Ahead

\* An announcement that changes is no longer owed by any walk.
LEMMA AnnouncementKept ==
  ASSUME DomainInv, NEW t \in Thread, Move(t), NEW r \in Record, NEW i \in Slot,
         slots[r][i] # NULL, NEW u \in Thread, <<r, i>> \in owed'[u]
  PROVE  slots'[r][i] = slots[r][i]
<1>0. /\ slots \in [Record -> [Slot -> Addr \cup {NULL}]]
      /\ record \in [Thread -> Record \cup {NULL}]
  BY Zenon DEF DomainInv, StateTypes
<1>1. CASE UNCHANGED <<slots, pins, record>> \/ Claim(t) \/ Push(t)
  BY <1>1, Zenon DEF Claim, Push
<1>2. CASE Pin(t)
  <2> DEFINE j == Min(FreeSlots(t))
  <2>1. PICK p \in Addr : slots' = [slots EXCEPT ![record[t]][j] = p]
    BY <1>2, Zenon DEF Pin
  <2>2. j \in Slot /\ slots[record[t]][j] = NULL /\ record[t] \in Record
    BY <1>0, <1>2, PinFree, Zenon DEF Pin
  <2> HIDE DEF j
  <2>3. r # record[t] \/ i # j
    BY <2>2, Zenon
  <2> QED
    BY <1>0, <2>1, <2>2, <2>3
<1>3. CASE Protect(t) \/ Unpin(t)
  <2> DEFINE j == Innermost(t)
  <2>1. /\ \E p : slots' = [slots EXCEPT ![record[t]][j] = p]
        /\ owed' = [w \in Thread |-> owed[w] \ {<<record[t], j>>}]
    BY <1>3, Zenon DEF Protect, Unpin, Forget
  <2>2. record[t] \in Record /\ j \in Slot
    BY <1>3, PinHeld, Zenon DEF Protect, Unpin
  <2> HIDE DEF j
  <2>3. r # record[t] \/ i # j
    BY <2>1
  <2>4. PICK p : slots' = [slots EXCEPT ![record[t]][j] = p]
    BY <2>1, Zenon
  <2> QED
    BY <1>0, <2>2, <2>3, <2>4
<1>4. CASE Exit(t)
  <2>1. /\ record[t] \in Record /\ pc[t] # "push" /\ pins[t] = <<>>
        /\ slots' = [slots EXCEPT ![record[t]] = [x \in Slot |-> NULL]]
    BY <1>0, <1>4 DEF Exit, Step
  <2>2. Pinned(t) = {}
    BY <2>1 DEF Pinned, Range
  <2>3. ~Taken(record[t], i)
    BY <2>1, <2>2, TakenByOwner, Zenon
  <2>4. Taken(r, i)
    BY Zenon DEF DomainInv, SlotInv, SlotPerPin, Taken, Pinned
  <2>5. r # record[t]
    BY <2>3, <2>4, Zenon
  <2> QED
    BY <1>0, <2>1, <2>5, Zenon
<1> QED
  BY <1>1, <1>2, <1>3, <1>4, SlotMoves, Zenon

\* What ScanInv says of one announcement.
Met(t, e) ==
  /\ slots[e[1]][e[2]] # NULL
  /\ target[t] # NULL => e[1] # record[t]
  /\ slots[e[1]][e[2]] \in found[t] \/ Ahead(t, e)

Walks(t) == pc[t] \in {"scan", "scanned"}

\* The walks of the other threads are not disturbed.
LEMMA OthersWalk ==
  ASSUME DomainInv, NEW t \in Thread, Move(t), NEW u \in Thread, u # t,
         Walks(u)', NEW e \in owed'[u]
  PROVE  Met(u, e)'
<1>0. /\ StateTypes /\ owed \in [Thread -> SUBSET (Record \X Slot)]
  BY Zenon DEF DomainInv, StateTypes
<1>1. /\ pc'[u] = pc[u] /\ record'[u] = record[u] /\ cursor'[u] = cursor[u]
      /\ index'[u] = index[u] /\ target'[u] = target[u] /\ found'[u] = found[u]
  BY <1>0, OthersStay, Zenon
<1>2. owed'[u] \subseteq owed[u]
  <2>1. \/ owed' = owed
        \/ \E x : owed' = [owed EXCEPT ![t] = x]
        \/ \E x : owed' = [w \in Thread |-> owed[w] \ x]
    BY Zenon DEF Move, AcquireBegin, Claim, Pass, Leak, Push, PushFailed, Pin,
       Protect, Unpin, Exit, ScanBegin, Inspect, ScanEnd, ScanReturn, Forget
  <2>2. CASE owed' = owed
    BY <2>2, Zenon
  <2>3. ASSUME NEW x, owed' = [owed EXCEPT ![t] = x] PROVE owed'[u] \subseteq owed[u]
    BY <1>0, <2>3, Zenon
  <2>4. ASSUME NEW x, owed' = [w \in Thread |-> owed[w] \ x]
        PROVE  owed'[u] \subseteq owed[u]
    BY <2>4, Zenon
  <2> QED
    BY <2>1, <2>2, <2>3, <2>4, Zenon
<1>3. Met(u, e)
  BY <1>1, <1>2, Zenon DEF DomainInv, ScanInv, Met, Walks
<1>4. e[1] \in Record /\ e[2] \in Slot /\ e = <<e[1], e[2]>>
  BY <1>0, <1>2
<1>5. slots'[e[1]][e[2]] = slots[e[1]][e[2]]
  <2>1. slots[e[1]][e[2]] # NULL /\ <<e[1], e[2]>> \in owed'[u]
    BY <1>3, <1>4, Zenon DEF Met
  <2> QED
    BY <1>4, <2>1, AnnouncementKept, Zenon
<1>6. Ahead(u, e) => Ahead(u, e)'
  BY <1>1, AheadStays, Zenon
<1> QED
  BY <1>1, <1>3, <1>5, <1>6, Zenon DEF Met

\* A walk begins before everything that is announced.
LEMMA WalkBegins ==
  ASSUME DomainInv, NEW t \in Thread, ScanBegin(t), NEW e \in owed'[t]
  PROVE  Met(t, e)'
<1>0. /\ owed \in [Thread -> SUBSET (Record \X Slot)] /\ list \in Seq(Record)
      /\ cursor \in [Thread -> Record \cup {NULL}] /\ index \in [Thread -> Slot]
      /\ target \in [Thread -> Addr \cup {NULL}]
  BY Zenon DEF DomainInv, StateTypes
<1>1. PICK p \in Addr \cup {NULL} :
        /\ cursor' = [cursor EXCEPT ![t] = HEAD]
        /\ index' = [index EXCEPT ![t] = 1]
        /\ target' = [target EXCEPT ![t] = p]
        /\ owed' = [owed EXCEPT ![t] = Announced(t, p # NULL)]
        /\ UNCHANGED <<slots, record, list>>
  BY Zenon DEF ScanBegin, shared
<1>2. /\ cursor'[t] = HEAD /\ index'[t] = 1 /\ target'[t] = p
      /\ e \in Announced(t, p # NULL)
  BY <1>0, <1>1, Zenon
<1>3. /\ e \in Record \X Slot /\ slots[e[1]][e[2]] # NULL
      /\ p # NULL => e[1] # record[t]
  BY <1>2, Zenon DEF Announced
<1>4. e[1] \in Record /\ e[2] \in Slot
  BY <1>3
<1>5. e[1] \in Listed
  <2>0. \A x \in Record, i \in Slot :
          slots[x][i] # NULL => \E u \in Thread : record[u] = x
    BY Zenon DEF DomainInv, SlotInv, SlotPerPin
  <2>1. PICK u \in Thread : record[u] = e[1]
    BY <1>3, <1>4, <2>0
  <2> QED
    BY <1>4, <2>1, NullIsNothing, Zenon DEF DomainInv, OwnInv
<1>6. PICK k \in DOMAIN list : list[k] = e[1]
  BY <1>5, Zenon DEF Listed, Range
<1>7. 1 \in DOMAIN list /\ list # <<>> /\ (1 < k \/ (1 = k /\ 1 <= e[2]))
  BY <1>0, <1>4, <1>6 DEF Slot
<1>8. list[1] = HEAD
  BY <1>7, Zenon DEF DomainInv, ListInv, ListWhole
<1>9. Ahead(t, e)'
  BY <1>1, <1>2, <1>6, <1>7, <1>8, Zenon DEF Ahead
<1> QED
  BY <1>1, <1>2, <1>3, <1>9, Zenon DEF Met

\* One load: what it passes over has been met.
LEMMA WalkGoesOn ==
  ASSUME DomainInv, NEW t \in Thread, Inspect(t), NEW e \in owed'[t]
  PROVE  Met(t, e)'
<1> DEFINE r == cursor[t]  i == index[t]
<1>0. /\ owed \in [Thread -> SUBSET (Record \X Slot)] /\ list \in Seq(Record)
      /\ cursor \in [Thread -> Record \cup {NULL}] /\ index \in [Thread -> Slot]
      /\ found \in [Thread -> SUBSET Addr] /\ i \in Slot
  BY Zenon DEF DomainInv, StateTypes
<1>1. /\ pc[t] = "scan" /\ r # NULL
      /\ index' = [index EXCEPT ![t] = IF i < SLOTS THEN i + 1 ELSE 1]
      /\ cursor' = [cursor EXCEPT ![t] = IF i < SLOTS THEN r ELSE next[r]]
      /\ UNCHANGED <<slots, record, list, owed, target>>
      /\ IF target[t] # NULL /\ r = record[t] THEN found' = found
         ELSE found' = [found EXCEPT ![t] = @ \cup ({slots[r][i]} \ {NULL})]
  BY Zenon DEF Inspect, Advance, Step, shared
<1>2. /\ index'[t] = (IF i < SLOTS THEN i + 1 ELSE 1)
      /\ cursor'[t] = (IF i < SLOTS THEN r ELSE next[r])
      /\ found[t] \subseteq found'[t]
      /\ ~(target[t] # NULL /\ r = record[t]) /\ slots[r][i] # NULL
           => slots[r][i] \in found'[t]
  BY <1>0, <1>1
<1>3. Met(t, e)
  BY <1>1, Zenon DEF DomainInv, ScanInv, Met
<1>4. e[1] \in Record /\ e[2] \in Slot
  BY <1>0, <1>1
<1>5. CASE slots[e[1]][e[2]] \in found[t]
  BY <1>1, <1>2, <1>3, <1>5, Zenon DEF Met
<1>6. CASE Ahead(t, e)
  <2>1. PICK j \in DOMAIN list, k \in DOMAIN list :
          /\ list[j] = r /\ list[k] = e[1]
          /\ j < k \/ (j = k /\ i <= e[2])
    BY <1>6, Zenon DEF Ahead
  <2>2. SUFFICES slots[e[1]][e[2]] \in found'[t] \/ Ahead(t, e)'
    BY <1>1, <1>3, <2>2, Zenon DEF Met
  <2>3. CASE j = k /\ i = e[2]
    <3>1. r = e[1]
      BY <2>1, <2>3, Zenon
    <3> QED
      BY <1>2, <1>3, <2>3, <3>1, Zenon DEF Met
  <2>4. CASE j = k /\ i # e[2]
    <3>1. i < SLOTS /\ i + 1 <= e[2]
      BY <1>0, <1>4, <2>1, <2>4, ConstantsAssumption DEF Slot
    <3>2. index'[t] <= e[2] /\ cursor'[t] = r
      BY <1>2, <3>1
    <3> QED
      BY <1>1, <2>1, <2>4, <3>2, Zenon DEF Ahead
  <2>5. CASE j < k /\ i < SLOTS
    <3>1. cursor'[t] = r
      BY <1>2, <2>5
    <3> QED
      BY <1>1, <2>1, <2>5, <3>1, Zenon DEF Ahead
  <2>6. CASE j < k /\ ~(i < SLOTS)
    <3>1. /\ j + 1 \in DOMAIN list /\ j # Len(list)
          /\ j + 1 < k \/ (j + 1 = k /\ 1 <= e[2])
      BY <1>0, <1>4, <2>1, <2>6 DEF Slot
    <3>2. next[r] = list[j + 1]
      BY <2>1, <3>1, Zenon DEF DomainInv, ListInv, ListWhole
    <3>3. cursor'[t] = list[j + 1] /\ index'[t] = 1
      BY <1>2, <2>6, <3>2
    <3> QED
      BY <1>1, <2>1, <3>1, <3>3, Zenon DEF Ahead
  <2>7. j = k \/ j < k
    BY <2>1, Zenon
  <2> QED
    BY <2>3, <2>4, <2>5, <2>6, <2>7, Zenon
<1> QED
  BY <1>3, <1>5, <1>6, Zenon DEF Met

\* Every step keeps what a walk still owes either found or ahead of it.
LEMMA ScanStep ==
  ASSUME DomainInv, NEW t \in Thread, Move(t)
  PROVE  ScanInv'
<1>0. /\ StateTypes
      /\ pc \in [Thread -> {"user", "claim", "push", "pin", "scan", "scanned"}]
  BY Zenon DEF DomainInv, StateTypes
<1>1. ASSUME NEW u \in Thread, u # t, Walks(u)'
      PROVE  /\ pc'[u] = "scanned" => cursor'[u] = NULL
             /\ \A e \in owed'[u] : Met(u, e)'
  <2>1. pc'[u] = pc[u] /\ cursor'[u] = cursor[u]
    BY <1>0, <1>1, OthersStay, Zenon
  <2>2. pc'[u] = "scanned" => cursor'[u] = NULL
    BY <1>1, <2>1, Zenon DEF DomainInv, ScanInv, Walks
  <2> QED
    BY <1>1, <2>2, OthersWalk, Zenon
<1>2. ASSUME Walks(t)'
      PROVE  /\ pc'[t] = "scanned" => cursor'[t] = NULL
             /\ \A e \in owed'[t] : Met(t, e)'
  <2>1. ScanBegin(t) \/ Inspect(t) \/ ScanEnd(t)
    <3>1. \A x : pc' = [pc EXCEPT ![t] = x] => pc'[t] = x
      BY <1>0, Zenon
    <3>2. pc'[t] \in {"scan", "scanned"}
      BY <1>2, Zenon DEF Walks
    <3> QED
      BY <3>1, <3>2, Zenon
      DEF Move, AcquireBegin, Claim, Pass, Leak, Push, PushFailed, Pin,
          Protect, Unpin, Exit, ScanReturn, Step
  <2>2. CASE ScanBegin(t) \/ Inspect(t)
    <3>1. pc'[t] = "scan"
      BY <1>0, <2>2, Zenon DEF ScanBegin, Inspect, Step
    <3> QED
      BY <2>2, <3>1, WalkBegins, WalkGoesOn
  <2>3. CASE ScanEnd(t)
    <3>1. /\ pc[t] = "scan" /\ cursor[t] = NULL
          /\ UNCHANGED <<slots, record, cursor, index, target, found, owed, list>>
      BY <2>3, Zenon DEF ScanEnd, Step, shared, walk
    <3>2. \A e \in owed[t] : Met(t, e)
      BY <3>1, Zenon DEF DomainInv, ScanInv, Met
    <3> QED
      BY <3>1, <3>2, Zenon DEF Met, Ahead
  <2> QED
    BY <2>1, <2>2, <2>3, Zenon
<1> QED
  BY <1>1, <1>2, Zenon DEF ScanInv, Walks, Met

\* The process starts with no record at all.
LEMMA InitDomain == Init => DomainInv
<1> SUFFICES ASSUME Init PROVE DomainInv
  BY Zenon
<1>1. StateTypes
  BY ConstantsAssumption DEF Init, StateTypes, Slot
<1>2. Listed = {} /\ \A t \in Thread : Pinned(t) = {} /\ Range(pins[t]) = {}
  BY DEF Init, Listed, Pinned, Range
<1>3. OwnInv
  BY NullIsNothing DEF Init, OwnInv, OneOwner, Holds
<1>4. ListInv
  BY <1>2 DEF Init, ListInv, ListWhole, IsInjective
<1>5. SlotInv
  BY <1>2 DEF Init, SlotInv, SlotPerPin, IsInjective
<1>6. ScanInv
  BY DEF Init, ScanInv
<1> QED
  BY <1>1, <1>3, <1>4, <1>5, <1>6, Zenon DEF DomainInv

\* The inductive invariant of the announcement list.
THEOREM DomainSafe == Spec => []DomainInv
<1>1. ASSUME DomainInv, [Next]_vars PROVE DomainInv'
  <2>1. ASSUME NEW t \in Thread, Move(t) PROVE DomainInv'
    BY <1>1, <2>1, TypesStep, OwnStep, ListStep, SlotStep, ScanStep, Zenon
    DEF DomainInv
  <2>2. CASE UNCHANGED vars
    <3> USE <1>1, <2>2 DEF vars, shared, walk, DomainInv
    <3>1. StateTypes'
      BY Zenon DEF StateTypes
    <3>2. OwnInv'
      BY Zenon DEF OwnInv, OneOwner, Holds, Listed
    <3>3. ListInv'
      BY Zenon DEF ListInv, ListWhole, Listed
    <3>4. SlotInv'
      BY Zenon DEF SlotInv, SlotPerPin
    <3>5. ScanInv'
      <4>1. \A t \in Thread : \A e : Ahead(t, e)' <=> Ahead(t, e)
        BY Zenon DEF Ahead
      <4> QED
        BY <4>1, Zenon DEF ScanInv
    <3> QED
      BY <3>1, <3>2, <3>3, <3>4, <3>5, Zenon
  <2> QED
    BY <1>1, <2>1, <2>2, Zenon DEF Next
<1> QED
  BY InitDomain, <1>1, PTL DEF Spec

\* The compare_exchange of acquire_record gives a record to one thread at a
\* time, and Local::drop frees only a record its thread owns.
THEOREM OwnersUnique == Spec => []OneOwner
<1>1. DomainInv => OneOwner
  BY Zenon DEF DomainInv, OwnInv
<1> QED
  BY DomainSafe, <1>1, PTL

\* Concurrent publications lose no record of the list.
THEOREM ListNeverBroken == Spec => []ListWhole
<1>1. DomainInv => ListWhole
  BY Zenon DEF DomainInv, ListInv
<1> QED
  BY DomainSafe, <1>1, PTL

\* pin never hands a slot out twice, and no announcement outlives its Pin.
THEOREM SlotsExact == Spec => []SlotPerPin
<1>1. DomainInv => SlotPerPin
  BY Zenon DEF DomainInv, SlotInv
<1> QED
  BY DomainSafe, <1>1, PTL

\* announced and others_protect miss no announcement that was there when the
\* walk began and stays until it ends.
THEOREM WalksComplete == Spec => []ScanComplete
<1>1. DomainInv => ScanComplete
  <2> SUFFICES ASSUME DomainInv, NEW t \in Thread, pc[t] = "scanned",
                      NEW e \in owed[t]
               PROVE  slots[e[1]][e[2]] \in found[t]
    BY Zenon DEF ScanComplete
  <2>1. /\ cursor[t] = NULL
        /\ slots[e[1]][e[2]] \in found[t] \/ Ahead(t, e)
    BY Zenon DEF DomainInv, ScanInv
  <2>2. list \in Seq(Record)
    BY Zenon DEF DomainInv, StateTypes
  <2>3. \A j \in DOMAIN list : list[j] # NULL
    BY <2>2, NullIsNothing
  <2> QED
    BY <2>1, <2>3, Zenon DEF Ahead
<1> QED
  BY DomainSafe, <1>1, PTL

-----------------------------------------------------------------------------
(* How many records there are *)

\* Where an attached thread is: at the record it looks at in acquire_record,
\* or at its own; nowhere on the list when it has looked at all, or is about
\* to publish one.
Place(t) == IF pc[t] = "claim" THEN cursor[t] ELSE record[t]

\* The attached threads that are past the first m records of the list.
Past(m) == {t \in Attached : \A j \in 1..m : Place(t) # list[j]}

\* Who is past a record has seen it in use, by one who was past those before
\* it, too: for m records there were m threads, besides those past them now.
PeakInv ==
  /\ peak \in 0..Cardinality(Thread)
  /\ \A m \in 0..Len(list) : m + Cardinality(Past(m)) <= peak

\* Sets of threads are finite.
LEMMA ThreadsFinite ==
  ASSUME NEW S, S \subseteq Thread
  PROVE  /\ IsFiniteSet(S) /\ Cardinality(S) \in Nat
         /\ Cardinality(S) <= Cardinality(Thread)
         /\ \A T : T \subseteq S => Cardinality(T) <= Cardinality(S)
  BY ConstantsAssumption, FS_Subset, FS_CardinalityType, Zenon

\* The history of the number of threads.
LEMMA PeakGrows ==
  ASSUME peak \in 0..Cardinality(Thread), peak' = Max({peak, Cardinality(Attached')})
  PROVE  /\ peak' \in 0..Cardinality(Thread) /\ peak <= peak'
         /\ Cardinality(Attached') <= peak'
<1>1. Attached' \subseteq Thread
  BY Zenon DEF Attached
<1>2. PICK n \in Nat : n = Cardinality(Attached') /\ n <= Cardinality(Thread)
  BY <1>1, ThreadsFinite, Zenon
<1>3. Cardinality(Thread) \in Nat
  BY ConstantsAssumption, FS_CardinalityType, Zenon
<1>4. PICK x \in {peak, n} : \A y \in {peak, n} : x >= y
  BY <1>2, <1>3
<1>5. peak' \in {peak, n} /\ \A y \in {peak, n} : peak' >= y
  BY <1>2, <1>4, Zenon DEF Max
<1> QED
  BY <1>2, <1>3, <1>5

\* A step of t moves t only.
LEMMA OthersPlaced ==
  ASSUME StateTypes, NEW t \in Thread, Move(t), NEW u \in Thread, u # t
  PROVE  /\ Place(u)' = Place(u) /\ (u \in Attached' <=> u \in Attached)
<1>1. pc'[u] = pc[u] /\ record'[u] = record[u] /\ cursor'[u] = cursor[u]
  BY OthersStay, Zenon
<1> QED
  BY <1>1, Zenon DEF Place, Attached

\* Where the step takes t: it stays where it is or leaves, starts at the
\* head, goes on, or publishes its record.
LEMMA Places ==
  ASSUME DomainInv, NEW t \in Thread, Move(t)
  PROVE  \/ /\ list' = list
            /\ t \in Attached' => t \in Attached /\ Place(t)' = Place(t)
         \/ list' = list /\ t \notin Attached /\ Place(t)' = HEAD
         \/ Pass(t)
         \/ Push(t)
<1>0. /\ pc \in [Thread -> {"user", "claim", "push", "pin", "scan", "scanned"}]
      /\ record \in [Thread -> Record \cup {NULL}]
      /\ cursor \in [Thread -> Record \cup {NULL}]
      /\ pc[t] = "push" => record[t] = NULL
      /\ pc[t] = "claim" => record[t] = NULL
      /\ pc[t] = "pin" => record[t] # NULL
  BY Zenon DEF DomainInv, StateTypes, OwnInv
<1> USE <1>0 DEF Step, Place, Attached
<1>1. CASE AcquireBegin(t)
  BY <1>1 DEF AcquireBegin
<1>2. CASE Claim(t)
  BY <1>2 DEF Claim, walk
<1>3. CASE Leak(t) \/ PushFailed(t)
  BY <1>3 DEF Leak, PushFailed, walk
<1>4. CASE Pin(t) \/ Protect(t)
  BY <1>4 DEF Pin, Protect, walk
<1>5. CASE Unpin(t) \/ Exit(t)
  BY <1>5 DEF Unpin, Exit, walk
<1>6. CASE ScanBegin(t) \/ Inspect(t)
  BY <1>6 DEF ScanBegin, Inspect, walk
<1>7. CASE ScanEnd(t) \/ ScanReturn(t)
  BY <1>7 DEF ScanEnd, ScanReturn, walk
<1> QED
  BY <1>1, <1>2, <1>3, <1>4, <1>5, <1>6, <1>7, Zenon DEF Move

\* The list of one more record.
LEMMA PastPush ==
  ASSUME DomainInv, NEW t \in Thread, Push(t), NEW m \in 1..Len(list')
  PROVE  m - 1 \in 0..Len(list) /\ Past(m)' = Past(m - 1) \ {t} /\ t \in Past(m - 1)
<1>0. /\ StateTypes /\ list \in Seq(Record) /\ Move(t)
      /\ pc \in [Thread -> {"user", "claim", "push", "pin", "scan", "scanned"}]
      /\ record \in [Thread -> Record \cup {NULL}]
  BY Zenon DEF DomainInv, StateTypes, Move
<1>1. /\ pc[t] = "push" /\ pc'[t] = "pin" /\ record'[t] = fresh[t]
      /\ list' = <<fresh[t]>> \o list
  BY <1>0, Zenon DEF Push, Step
<1>2. fresh[t] \in Record /\ record[t] = NULL
  BY <1>1, FreshAlone, Zenon DEF DomainInv, OwnInv
<1>3. /\ Len(list') = Len(list) + 1 /\ Len(list) \in Nat /\ list'[1] = fresh[t]
      /\ \A k \in 1..Len(list) : list'[k + 1] = list[k] /\ list[k] \in Record
  BY <1>0, <1>1, <1>2
<1>4. m \in Nat /\ m - 1 \in 0..Len(list)
  BY <1>3
<1>5. \A j \in 1..(m - 1) : list'[j + 1] = list[j] /\ list[j] \in Record /\ j + 1 \in 1..m
  BY <1>3, <1>4
<1>6. \A j \in 1..m : j = 1 \/ (j - 1 \in 1..(m - 1) /\ list'[j] = list[j - 1])
  BY <1>3, <1>4
<1>7. t \in Past(m - 1)
  <2>1. t \in Attached /\ Place(t) = NULL
    BY <1>1, <1>2 DEF Attached, Place
  <2> QED
    BY <1>5, <2>1, NullIsNothing, Zenon DEF Past
<1>8. t \notin Past(m)'
  <2>1. Place(t)' = list'[1]
    BY <1>1, <1>3 DEF Place
  <2>2. 1 \in 1..m
    BY <1>4
  <2> QED
    BY <2>1, <2>2, Zenon DEF Past
<1>9. ASSUME NEW u \in Thread, u # t PROVE u \in Past(m)' <=> u \in Past(m - 1)
  <2>1. Place(u)' = Place(u) /\ (u \in Attached' <=> u \in Attached)
    BY <1>0, <1>9, OthersPlaced, Zenon
  <2>2. u \in Attached => Place(u) # fresh[t]
    <3> SUFFICES ASSUME u \in Attached, Place(u) = fresh[t] PROVE FALSE
      OBVIOUS
    <3>1. fresh[t] \notin Listed /\ fresh[t] # NULL
      BY <1>1, FreshAlone, Zenon
    <3>2. Place(u) # NULL => Place(u) \in Listed
      BY Zenon DEF Place, DomainInv, OwnInv
    <3> QED
      BY <3>1, <3>2, Zenon
  <2>3. ASSUME u \in Past(m)' PROVE u \in Past(m - 1)
    BY <1>5, <2>1, <2>3, Zenon DEF Past
  <2>4. ASSUME u \in Past(m - 1) PROVE u \in Past(m)'
    <3>1. \A j \in 1..m : Place(u) # list'[j]
      BY <1>3, <1>6, <2>2, <2>4, Zenon DEF Past
    <3> QED
      BY <2>1, <2>4, <3>1, Zenon DEF Past
  <2> QED
    BY <2>3, <2>4, Zenon
<1>10. Past(m)' \subseteq Thread /\ Past(m - 1) \subseteq Thread
  BY Zenon DEF Past, Attached
<1> QED
  BY <1>4, <1>7, <1>8, <1>9, <1>10, Zenon

\* A thread that passes a record leaves its owner behind.
LEMMA PastPass ==
  ASSUME DomainInv, NEW t \in Thread, Pass(t)
  PROVE  /\ list' = list
         /\ \E i \in DOMAIN list, u \in Thread :
              /\ u # t /\ {t, u} \subseteq Past(i - 1) /\ {t, u} \cap Past(i) = {}
              /\ Past(i)' = Past(i) \cup {t}
              /\ \A m \in 0..Len(list) : m # i => Past(m)' = Past(m)
<1>0. /\ StateTypes /\ list \in Seq(Record) /\ Move(t)
      /\ pc \in [Thread -> {"user", "claim", "push", "pin", "scan", "scanned"}]
      /\ cursor \in [Thread -> Record \cup {NULL}] /\ IsInjective(list)
  BY Zenon DEF DomainInv, StateTypes, Move, ListInv
<1>1. /\ pc[t] = "claim" /\ pc'[t] = "claim" /\ cursor[t] # NULL
      /\ in_use[cursor[t]] /\ cursor'[t] = next[cursor[t]] /\ list' = list
  BY <1>0, Zenon DEF Pass, Step
<1>2. PICK i \in DOMAIN list : cursor[t] = list[i]
  BY <1>1, Zenon DEF DomainInv, OwnInv, Listed, Range
<1>3. /\ i \in 1..Len(list) /\ Len(list) \in Nat /\ DOMAIN list = 1..Len(list)
      /\ \A j \in 1..Len(list) : list[j] \in Record
      /\ \A j, k \in 1..Len(list) : list[j] = list[k] => j = k
  BY <1>0 DEF IsInjective
<1>4. PICK u \in Thread : u # t /\ pc[u] # "claim" /\ record[u] = list[i]
  <2>1. PICK u \in Thread : Holds(u) = cursor[t]
    BY <1>0, <1>1, Zenon DEF DomainInv, OwnInv, OneOwner, StateTypes
  <2>2. list[i] \in Listed /\ list[i] # NULL
    BY <1>3, NullIsNothing, Zenon DEF Listed, Range
  <2>3. pc[u] # "push"
    BY <1>2, <2>1, <2>2, FreshAlone, Zenon DEF Holds
  <2>4. record[u] = list[i]
    BY <1>2, <2>1, <2>3, Zenon DEF Holds
  <2> QED
    BY <1>1, <2>2, <2>4, Zenon DEF DomainInv, OwnInv
<1>5. /\ t \in Attached /\ u \in Attached /\ t \in Attached'
      /\ Place(t) = list[i] /\ Place(u) = list[i]
  BY <1>1, <1>2, <1>3, <1>4, NullIsNothing, Zenon DEF Attached, Place
<1>6. Place(t)' = IF i = Len(list) THEN NULL ELSE list[i + 1]
  BY <1>1, <1>2, Zenon DEF Place, DomainInv, ListInv, ListWhole
<1>7. \A m \in 0..Len(list) : t \in Past(m)' <=> m <= i
  <2> SUFFICES ASSUME NEW m \in 0..Len(list) PROVE t \in Past(m)' <=> m <= i
    BY Zenon
  <2>1. CASE m <= i
    <3>1. \A j \in 1..m : Place(t)' # list[j]
      BY <1>3, <1>6, <2>1, NullIsNothing
    <3> QED
      BY <1>1, <1>5, <2>1, <3>1, Zenon DEF Past
  <2>2. CASE ~(m <= i)
    <3>1. i + 1 \in 1..m /\ Place(t)' = list[i + 1]
      BY <1>3, <1>6, <2>2
    <3> QED
      BY <1>1, <2>2, <3>1, Zenon DEF Past
  <2> QED
    BY <2>1, <2>2, Zenon
<1>8. \A m \in 0..Len(list) : (t \in Past(m) <=> m < i) /\ (u \in Past(m) <=> m < i)
  <2> SUFFICES ASSUME NEW m \in 0..Len(list)
               PROVE  (t \in Past(m) <=> m < i) /\ (u \in Past(m) <=> m < i)
    BY Zenon
  <2>1. (\A j \in 1..m : list[i] # list[j]) <=> m < i
    BY <1>3
  <2> QED
    BY <1>5, <2>1, Zenon DEF Past
<1>9. \A m : \A v \in Thread : v # t => (v \in Past(m)' <=> v \in Past(m))
  BY <1>0, <1>1, OthersPlaced, Zenon DEF Past
<1>10. \A m : Past(m)' \subseteq Thread /\ Past(m) \subseteq Thread
  BY Zenon DEF Past, Attached
<1>11. i - 1 \in 0..Len(list) /\ i - 1 < i /\ i \in 0..Len(list) /\ ~(i < i) /\ i <= i
  BY <1>3
<1>12. \A m \in 0..Len(list) : m # i => (m < i <=> m <= i)
  BY <1>3
<1>13. ASSUME NEW m \in 0..Len(list), m # i PROVE Past(m)' = Past(m)
  <2>1. t \in Past(m)' <=> t \in Past(m)
    BY <1>7, <1>8, <1>12, <1>13, Zenon
  <2>2. \A v \in Thread : v \in Past(m)' <=> v \in Past(m)
    BY <1>9, <2>1, Zenon
  <2> QED
    BY <1>10, <2>2, Zenon
<1>14. Past(i)' = Past(i) \cup {t}
  BY <1>7, <1>9, <1>10, <1>11, Zenon
<1>15. {t, u} \subseteq Past(i - 1) /\ {t, u} \cap Past(i) = {}
  BY <1>8, <1>11, Zenon
<1> QED
  BY <1>1, <1>4, <1>13, <1>14, <1>15, Zenon

\* No step leaves more threads past m records than the history allows.
LEMMA PeakStep ==
  ASSUME DomainInv, PeakInv, NEW t \in Thread, Move(t),
         peak' = Max({peak, Cardinality(Attached')})
  PROVE  PeakInv'
<1>0. /\ StateTypes /\ list \in Seq(Record) /\ peak \in 0..Cardinality(Thread)
      /\ \A m \in 0..Len(list) : m + Cardinality(Past(m)) <= peak
  BY Zenon DEF DomainInv, StateTypes, PeakInv
<1>1. /\ peak' \in 0..Cardinality(Thread) /\ peak <= peak'
      /\ Cardinality(Attached') <= peak'
  BY <1>0, PeakGrows, Zenon
<1>2. /\ peak \in Nat /\ peak' \in Nat /\ Len(list) \in Nat
  <2>1. Cardinality(Thread) \in Nat
    BY ConstantsAssumption, FS_CardinalityType, Zenon
  <2> QED
    BY <1>0, <1>1, <2>1
<1>3. \A m : /\ Past(m) \subseteq Thread /\ Past(m)' \subseteq Thread
             /\ IsFiniteSet(Past(m)) /\ Cardinality(Past(m)) \in Nat
             /\ Cardinality(Past(m)') \in Nat
  <2>1. \A m : Past(m) \subseteq Thread /\ Past(m)' \subseteq Thread
    BY Zenon DEF Past, Attached
  <2> QED
    BY <2>1, ThreadsFinite, Zenon
<1>4. Cardinality(Past(0)') <= peak'
  <2>1. Past(0)' \subseteq Attached' /\ Attached' \subseteq Thread
    BY Zenon DEF Past, Attached
  <2>2. Cardinality(Past(0)') <= Cardinality(Attached')
    BY <2>1, ThreadsFinite, Zenon
  <2>3. Cardinality(Attached') \in Nat
    BY <2>1, ThreadsFinite, Zenon
  <2> QED
    BY <1>1, <1>2, <1>3, <2>2, <2>3
<1> SUFFICES ASSUME NEW m \in 0..Len(list'), m # 0
             PROVE  m + Cardinality(Past(m)') <= peak'
  <2>1. 0 + Cardinality(Past(0)') = Cardinality(Past(0)')
    BY <1>3
  <2> QED
    BY <1>1, <1>4, <2>1, Zenon DEF PeakInv
<1>5. CASE m \in 0..Len(list) /\ Past(m)' \subseteq Past(m)
  <2>1. Cardinality(Past(m)') <= Cardinality(Past(m))
    BY <1>3, <1>5, ThreadsFinite, Zenon
  <2>2. m + Cardinality(Past(m)) <= peak
    BY <1>0, <1>5, Zenon
  <2> QED
    BY <1>1, <1>2, <1>3, <1>5, <2>1, <2>2
<1>6. CASE list' = list /\ (t \in Attached' => t \in Attached /\ Place(t)' = Place(t))
  <2>1. \A u \in Attached' : u \in Attached /\ Place(u)' = Place(u)
    BY <1>0, <1>6, OthersPlaced, Zenon DEF Attached
  <2>2. Past(m)' \subseteq Past(m)
    BY <1>6, <2>1, Zenon DEF Past
  <2> QED
    BY <1>5, <1>6, <2>2, Zenon
<1>7. CASE list' = list /\ t \notin Attached /\ Place(t)' = HEAD
  <2>1. 1 \in 1..m /\ list # <<>>
    BY <1>0, <1>7
  <2>2. Place(t)' = list[1]
    BY <1>7, <2>1, Zenon DEF DomainInv, ListInv, ListWhole
  <2>3. t \notin Past(m)'
    BY <1>7, <2>1, <2>2, Zenon DEF Past
  <2>4. \A u \in Thread : u # t /\ u \in Past(m)' => u \in Past(m)
    BY <1>0, <1>7, OthersPlaced, Zenon DEF Past
  <2> QED
    BY <1>3, <1>5, <1>7, <2>3, <2>4, Zenon
<1>8. CASE Pass(t)
  <2>1. list' = list
    BY <1>8, PastPass, Zenon
  <2>2. PICK i \in DOMAIN list, u \in Thread :
          /\ u # t /\ {t, u} \subseteq Past(i - 1) /\ {t, u} \cap Past(i) = {}
          /\ Past(i)' = Past(i) \cup {t}
          /\ \A k \in 0..Len(list) : k # i => Past(k)' = Past(k)
    BY <1>8, PastPass, Zenon
  <2>3. CASE m # i
    BY <1>5, <2>1, <2>2, <2>3, Zenon
  <2>4. CASE m = i
    <3>1. i \in 1..Len(list) /\ i - 1 \in 0..Len(list)
      BY <1>0
    <3>2. Cardinality(Past(i) \cup {t}) = Cardinality(Past(i)) + 1
      BY <1>3, <2>2, FS_AddElement, Zenon
    <3>3. /\ IsFiniteSet(Past(i) \cup {t})
          /\ Cardinality((Past(i) \cup {t}) \cup {u}) = Cardinality(Past(i) \cup {t}) + 1
      <4>1. IsFiniteSet(Past(i) \cup {t}) /\ u \notin Past(i) \cup {t}
        BY <1>3, <2>2, FS_AddElement, Zenon
      <4> QED
        BY <4>1, FS_AddElement, Zenon
    <3>4. (Past(i) \cup {t}) \cup {u} \subseteq Past(i - 1)
      <4>1. 1..(i - 1) \subseteq 1..i
        BY <3>1
      <4>2. Past(i) \subseteq Past(i - 1)
        BY <4>1, Zenon DEF Past
      <4> QED
        BY <2>2, <4>2, Zenon
    <3>5. Cardinality((Past(i) \cup {t}) \cup {u}) <= Cardinality(Past(i - 1))
      BY <1>3, <3>4, ThreadsFinite, Zenon
    <3>6. (i - 1) + Cardinality(Past(i - 1)) <= peak
      BY <1>0, <3>1, Zenon
    <3>7. Cardinality(Past(i)') = Cardinality(Past(i)) + 1
      BY <2>2, <3>2, Zenon
    <3>8. Cardinality(Past(i)) + 2 <= Cardinality(Past(i - 1))
      BY <1>3, <3>2, <3>3, <3>5
    <3>9. PICK a \in Nat, b \in Nat : a = Cardinality(Past(i)) /\ b = Cardinality(Past(i - 1))
      BY <1>3, Zenon
    <3>10. i + (a + 1) <= peak'
      <4>1. (i - 1) + b <= peak /\ a + 2 <= b
        BY <3>6, <3>8, <3>9, Zenon
      <4>2. peak <= peak' /\ i \in Nat
        BY <1>1, <3>1
      <4> QED
        BY <1>2, <4>1, <4>2
    <3> QED
      BY <2>4, <3>7, <3>9, <3>10, Zenon
  <2> QED
    BY <2>3, <2>4, Zenon
<1>9. CASE Push(t)
  <2>1. m \in 1..Len(list')
    BY SMT
  <2>2. m - 1 \in 0..Len(list) /\ Past(m)' = Past(m - 1) \ {t} /\ t \in Past(m - 1)
    BY <1>9, <2>1, PastPush, Zenon
  <2>3. Cardinality(Past(m)') = Cardinality(Past(m - 1)) - 1
    <3>1. PICK S : S = Past(m - 1)
      BY Zenon
    <3>2. IsFiniteSet(S) /\ t \in S
      BY <1>3, <2>2, <3>1, Zenon
    <3>3. Cardinality(S \ {t}) = Cardinality(S) - 1
      BY <3>2, FS_RemoveElement, Zenon
    <3> QED
      BY <2>2, <3>1, <3>3, Zenon
  <2>4. (m - 1) + Cardinality(Past(m - 1)) <= peak
    BY <1>0, <2>2, Zenon
  <2> QED
    BY <1>1, <1>2, <1>3, <2>2, <2>3, <2>4
<1> QED
  BY <1>6, <1>7, <1>8, <1>9, Places, Zenon

\* The history holds for the whole run.
LEMMA PeakSafe == Spec => []PeakInv
<1>1. Init => PeakInv
  <2> SUFFICES ASSUME Init PROVE PeakInv
    OBVIOUS
  <2>1. list = <<>> /\ peak = 0 /\ Attached = {}
    BY DEF Init, Attached
  <2>2. Past(0) = {} /\ Cardinality({}) = 0
    BY <2>1, FS_EmptySet, Zenon DEF Past
  <2>3. Cardinality(Thread) \in Nat
    BY ConstantsAssumption, FS_CardinalityType, Zenon
  <2>4. Len(list) = 0
    BY <2>1
  <2>5. \A m \in 0..Len(list) : m = 0
    BY <2>4
  <2>6. \A m \in 0..Len(list) : m + Cardinality(Past(m)) <= peak
    <3>1. 0 + 0 <= 0
      BY SMT
    <3> QED
      BY <2>1, <2>2, <2>5, <3>1, Zenon
  <2>7. peak \in 0..Cardinality(Thread)
    BY <2>1, <2>3
  <2> QED
    BY <2>6, <2>7, Zenon DEF PeakInv
<1>2. DomainInv /\ PeakInv /\ [Next]_vars => PeakInv'
  <2>1. DomainInv /\ PeakInv /\ Next => PeakInv'
    BY PeakStep, Zenon DEF Next
  <2>2. PeakInv /\ UNCHANGED vars => PeakInv'
    <3> SUFFICES ASSUME PeakInv, UNCHANGED vars PROVE PeakInv'
      OBVIOUS
    <3>1. UNCHANGED <<pc, record, cursor, list, peak>>
      BY DEF vars, walk
    <3>2. \A m : Past(m)' = Past(m)
      BY <3>1, Zenon DEF Past, Attached, Place
    <3> QED
      BY <3>1, <3>2, Zenon DEF PeakInv
  <2> QED
    BY <2>1, <2>2, Zenon
<1> QED
  BY <1>1, <1>2, DomainSafe, PTL DEF Spec

\* Every variable keeps its type; the history of attached threads stays
\* within the number of threads.
THEOREM DomainTypes == Spec => []TypeOK
<1>1. DomainInv /\ PeakInv => TypeOK
  BY Zenon DEF DomainInv, PeakInv, TypeOK
<1> QED
  BY <1>1, DomainSafe, PeakSafe, PTL

\* A record that has been leaked is on the list or about to be.
LEMMA LeakedCount ==
  ASSUME DomainInv
  PROVE  Cardinality(leaked) <= Len(list) + Cardinality(Past(Len(list)))
<1> DEFINE pushers == {t \in Thread : pc[t] = "push"}
           unlisted == leaked \ Listed
<1>0. /\ list \in Seq(Record) /\ leaked \subseteq Record
      /\ fresh \in [Thread -> Record \cup {NULL}]
  BY Zenon DEF DomainInv, StateTypes
<1>1. PICK n \in Nat : n = Len(list) /\ DOMAIN list = 1..n
  BY <1>0
<1>2. IsFiniteSet(Listed) /\ Cardinality(Listed) <= n
  <2>1. IsFiniteSet(1..n) /\ Cardinality(1..n) = n
    <3>1. 1 \in Int /\ n \in Int
      BY SMT
    <3>2. /\ IsFiniteSet(1..n)
          /\ Cardinality(1..n) = IF 1 > n THEN 0 ELSE n - 1 + 1
      BY <3>1, FS_Interval, Zenon
    <3> QED
      BY <3>2, SMT
  <2>2. list \in Surjection(1..n, Listed)
    <3>1. list \in [1..n -> Listed]
      BY <1>0, <1>1 DEF Listed, Range
    <3> QED
      BY <1>1, <3>1, Zenon DEF Surjection, Listed, Range
  <2>3. IsFiniteSet(Listed) /\ Cardinality(Listed) <= Cardinality(1..n)
    BY <2>1, <2>2, FS_Surjection, Zenon
  <2> QED
    BY <2>1, <2>3, Zenon
<1>3. IsFiniteSet(pushers) /\ pushers \subseteq Past(n) /\ Past(n) \subseteq Thread
  <2>1. Past(n) \subseteq Thread
    BY Zenon DEF Past, Attached
  <2>2. pushers \subseteq Thread
    BY Zenon
  <2>3. ASSUME NEW t \in pushers PROVE t \in Past(n)
    <3>1. Place(t) = NULL /\ t \in Attached
      BY <2>3, Zenon DEF Place, Attached, DomainInv, OwnInv
    <3>2. \A j \in 1..n : list[j] # NULL
      BY <1>0, <1>1, NullIsNothing
    <3> QED
      BY <3>1, <3>2, Zenon DEF Past
  <2> QED
    BY <2>1, <2>2, <2>3, ThreadsFinite, Zenon
<1>4. Cardinality(pushers) <= Cardinality(Past(n)) /\ Cardinality(Past(n)) \in Nat
      /\ Cardinality(pushers) \in Nat
  BY <1>3, ThreadsFinite, FS_CardinalityType, Zenon
<1>5. IsFiniteSet(unlisted) /\ Cardinality(unlisted) <= Cardinality(pushers)
  <2>1. PICK f : f = [t \in pushers |-> fresh[t]]
    BY Zenon
  <2>2. \A t \in pushers : fresh[t] \in unlisted
    BY FreshAlone, Zenon
  <2>3. \A r \in unlisted : \E t \in pushers : fresh[t] = r
    BY Zenon DEF DomainInv, ListInv, ListWhole, Listed
  <2> HIDE DEF pushers, unlisted
  <2>4. f \in [pushers -> unlisted] /\ \A r \in unlisted : \E t \in pushers : f[t] = r
    BY <2>1, <2>2, <2>3, Zenon
  <2>5. f \in Surjection(pushers, unlisted)
    BY <2>4, Zenon DEF Surjection
  <2> QED
    BY <1>3, <2>5, FS_Surjection, Zenon
<1>6. leaked = Listed \cup unlisted /\ Listed \cap unlisted = {}
  BY Zenon DEF DomainInv, ListInv
<1> HIDE DEF unlisted, pushers
<1>7. Cardinality(leaked) = Cardinality(Listed) + Cardinality(unlisted) - Cardinality({})
  <2>1. Cardinality(Listed \cup unlisted) =
          Cardinality(Listed) + Cardinality(unlisted) - Cardinality(Listed \cap unlisted)
    BY <1>2, <1>5, FS_Union, Zenon
  <2> QED
    BY <1>6, <2>1, Zenon
<1>8. Cardinality({}) = 0 /\ Cardinality(Listed) \in Nat /\ Cardinality(unlisted) \in Nat
  BY <1>2, <1>5, FS_EmptySet, FS_CardinalityType, Zenon
<1>9. Cardinality(leaked) <= n + Cardinality(Past(n))
  BY <1>1, <1>2, <1>4, <1>5, <1>7, <1>8
<1> QED
  BY <1>1, <1>9, Zenon

\* hazard.rs:16-17: acquire_record leaks a record only when every record was
\* taken, so there are never more than threads were attached at once, for
\* any number of threads that come and go while others walk the list.
THEOREM RecordsReused == Spec => []RecordsBounded
<1>1. DomainInv /\ PeakInv => RecordsBounded
  <2> SUFFICES ASSUME DomainInv, PeakInv PROVE RecordsBounded
    OBVIOUS
  <2>1. PICK n : n = Len(list)
    BY Zenon
  <2>2. n \in Nat /\ n \in 0..n
    BY <2>1 DEF DomainInv, StateTypes
  <2>3. n + Cardinality(Past(n)) <= peak
    BY <2>1, <2>2, Zenon DEF PeakInv
  <2>4. Cardinality(leaked) <= n + Cardinality(Past(n))
    BY <2>1, LeakedCount, Zenon
  <2>5. Past(n) \subseteq Thread
    BY Zenon DEF Past, Attached
  <2>6. Cardinality(leaked) \in Nat /\ Cardinality(Past(n)) \in Nat /\ peak \in Int
    <3>1. IsFiniteSet(leaked)
      BY ConstantsAssumption, FS_Subset, Zenon DEF DomainInv, StateTypes
    <3>2. peak \in Int
      BY DEF PeakInv
    <3> QED
      BY <2>5, <3>1, <3>2, ThreadsFinite, FS_CardinalityType, Zenon
  <2> QED
    BY <2>2, <2>3, <2>4, <2>6 DEF RecordsBounded
<1> QED
  BY <1>1, DomainSafe, PeakSafe, PTL
=============================================================================
