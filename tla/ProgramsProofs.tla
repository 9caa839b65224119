--------------------------- MODULE ProgramsProofs ---------------------------
(***************************************************************************)
(* The assertions of the programs hold and their subscribers agree, for    *)
(* any number of threads, dispatches, requests and fuzzed operations.      *)
(*                                                                         *)
(* A program with a fixed script is followed by the position it is at: a   *)
(* table gives the handler list it has there.  handler_churn, whose calls  *)
(* are arbitrary, is followed by its own bookkeeping.  What the            *)
(* subscribers of an event have gathered is followed from handler to       *)
(* handler.                                                                *)
(***************************************************************************)
EXTENDS Programs, HandlerListProofs

-----------------------------------------------------------------------------
(* Sequences and lists of few handlers *)

\* A sequence is a sequence of its own elements.
LEMMA SeqInRange ==
  ASSUME NEW S, NEW s \in Seq(S)
  PROVE  s \in Seq(Range(s))
  BY DEF Range

\* Two scripts in a row.
LEMMA Concatenated ==
  ASSUME NEW S, NEW s \in Seq(S), NEW t \in Seq(S)
  PROVE  s \o t \in Seq(S)
  OBVIOUS

\* The first call of a script and the others.
LEMMA HeadAndTail ==
  ASSUME NEW S, NEW s \in Seq(S), s # <<>>
  PROVE  Head(s) \in S /\ Tail(s) \in Seq(S)
  OBVIOUS

\* A short sequence is the tuple of its elements.
LEMMA SeqOfOne ==
  ASSUME NEW S, NEW s \in Seq(S), Len(s) = 1
  PROVE  s = <<s[1]>>
  OBVIOUS

\* Two elements.
LEMMA SeqOfTwo ==
  ASSUME NEW S, NEW s \in Seq(S), Len(s) = 2
  PROVE  s = <<s[1], s[2]>>
  OBVIOUS

\* Three elements.
LEMMA SeqOfThree ==
  ASSUME NEW S, NEW s \in Seq(S), Len(s) = 3
  PROVE  s = <<s[1], s[2], s[3]>>
  OBVIOUS

\* Four elements.
LEMMA SeqOfFour ==
  ASSUME NEW S, NEW s \in Seq(S), Len(s) = 4
  PROVE  s = <<s[1], s[2], s[3], s[4]>>
  OBVIOUS

\* Min of a set of positions.
LEMMA MinIn ==
  ASSUME NEW S, S \subseteq Nat, S # {}
  PROVE  Min(S) \in S /\ \A y \in S : Min(S) =< y
<1>1. \E x \in S : \A y \in S : x =< y
  BY Least, Zenon
<1> QED
  BY <1>1, Zenon DEF Min

\* An entry of no higher priority than any other is inserted at the end.
LEMMA InsertLast ==
  ASSUME NEW Entries, Prioritised(Entries), NEW list \in Seq(Entries), Sorted(list),
         NEW e \in Entries, \A k \in DOMAIN list : list[k].priority >= e.priority
  PROVE  Insert(list, e) = Append(list, e)
<1>1. PICK n \in 0..Len(list) :
        /\ IsWith(Entries, Insert(list, e), list, n, e)
        /\ \A k \in (n + 1)..Len(list) : list[k].priority < e.priority
  BY Inserted, Zenon
<1>2. PICK L : L = Insert(list, e)
  BY Zenon
<1>3. e.priority \in Int /\ \A k \in DOMAIN list : list[k].priority \in Int
  BY DEF Prioritised
<1>4. n = Len(list)
  BY <1>1, <1>3
<1>5. /\ L \in Seq(Entries) /\ Len(L) = Len(list) + 1 /\ L[Len(list) + 1] = e
      /\ \A k \in 1..Len(list) : L[k] = list[k]
  BY <1>1, <1>2, <1>4, Zenon DEF IsWith
<1> QED
  BY <1>2, <1>5

\* The entries of the programs.
Hooks == {"add", "print", "panic", "stdout", "file", "alert", "timeout", "toggle",
          "wal:flush", "cache:invalidate", "replication:send", "metrics",
          "aggregate", "batch"}
AnyEntry == [id : Nat, priority : Int, hook : Hooks]

\* Registration and removal on the short lists of the tables.
LEMMA FirstInserted ==
  ASSUME NEW e \in AnyEntry
  PROVE  Insert(<<>>, e) = <<e>>
<1>1. Prioritised(AnyEntry)
  BY DEF Prioritised, AnyEntry
<1>2. <<>> \in Seq(AnyEntry) /\ Sorted(<<>>) /\ Append(<<>>, e) = <<e>>
  BY DEF Sorted
<1>3. \A k \in DOMAIN <<>> : <<>>[k].priority >= e.priority
  OBVIOUS
<1> QED
  BY <1>1, <1>2, <1>3, InsertLast, Zenon

\* register puts a second handler of no higher priority behind the first.
LEMMA SecondInserted ==
  ASSUME NEW a \in AnyEntry, NEW e \in AnyEntry, a.priority >= e.priority
  PROVE  Insert(<<a>>, e) = <<a, e>>
<1>1. Prioritised(AnyEntry)
  BY DEF Prioritised, AnyEntry
<1>2. <<a>> \in Seq(AnyEntry) /\ Sorted(<<a>>)
  BY DEF Sorted, AnyEntry
<1>4. /\ Append(<<a>>, e) \in Seq(AnyEntry) /\ Len(Append(<<a>>, e)) = 2
      /\ Append(<<a>>, e)[1] = a /\ Append(<<a>>, e)[2] = e
  OBVIOUS
<1>5. Append(<<a>>, e) = <<a, e>>
  BY <1>4, SeqOfTwo, Zenon
<1>3. \A k \in DOMAIN <<a>> : <<a>>[k].priority >= e.priority
  OBVIOUS
<1> QED
  BY <1>1, <1>2, <1>3, <1>5, InsertLast, Zenon

\* And a third behind the two.
LEMMA ThirdInserted ==
  ASSUME NEW a \in AnyEntry, NEW b \in AnyEntry, NEW e \in AnyEntry,
         a.priority >= b.priority, b.priority >= e.priority
  PROVE  Insert(<<a, b>>, e) = <<a, b, e>>
<1>1. Prioritised(AnyEntry)
  BY DEF Prioritised, AnyEntry
<1>2. <<a, b>> \in Seq(AnyEntry)
  OBVIOUS
<1>5. /\ Append(<<a, b>>, e) \in Seq(AnyEntry) /\ Len(Append(<<a, b>>, e)) = 3
      /\ Append(<<a, b>>, e)[1] = a /\ Append(<<a, b>>, e)[2] = b
      /\ Append(<<a, b>>, e)[3] = e
  OBVIOUS
<1>6. Append(<<a, b>>, e) = <<a, b, e>>
  BY <1>5, SeqOfThree, Zenon
<1>3. \A k \in DOMAIN <<a, b>> : <<a, b>>[k].priority >= e.priority
  BY DEF AnyEntry
<1>4. Sorted(<<a, b>>)
  BY DEF Sorted
<1> QED
  BY <1>1, <1>2, <1>3, <1>4, <1>6, InsertLast, Zenon

\* And a fourth.
LEMMA FourthInserted ==
  ASSUME NEW a \in AnyEntry, NEW b \in AnyEntry, NEW c \in AnyEntry, NEW e \in AnyEntry,
         a.priority >= b.priority, b.priority >= c.priority, c.priority >= e.priority
  PROVE  Insert(<<a, b, c>>, e) = <<a, b, c, e>>
<1>1. Prioritised(AnyEntry)
  BY DEF Prioritised, AnyEntry
<1>2. <<a, b, c>> \in Seq(AnyEntry)
  OBVIOUS
<1>5. /\ Append(<<a, b, c>>, e) \in Seq(AnyEntry) /\ Len(Append(<<a, b, c>>, e)) = 4
      /\ Append(<<a, b, c>>, e)[1] = a /\ Append(<<a, b, c>>, e)[2] = b
      /\ Append(<<a, b, c>>, e)[3] = c /\ Append(<<a, b, c>>, e)[4] = e
  OBVIOUS
<1>6. Append(<<a, b, c>>, e) = <<a, b, c, e>>
  BY <1>5, SeqOfFour, Zenon
<1>3. \A k \in DOMAIN <<a, b, c>> : <<a, b, c>>[k].priority >= e.priority
  BY DEF AnyEntry
<1>4. Sorted(<<a, b, c>>)
  BY DEF Sorted, AnyEntry
<1> QED
  BY <1>1, <1>2, <1>3, <1>4, <1>6, InsertLast, Zenon

\* unregister of the only handler leaves the empty list.
LEMMA OnlyRemoved ==
  ASSUME NEW a \in AnyEntry
  PROVE  ContainsId(<<a>>, a.id) /\ RemoveId(<<a>>, a.id) = <<>>
<1>1. <<a>> \in Seq(AnyEntry) /\ ContainsId(<<a>>, a.id)
  BY DEF ContainsId
<1>2. PICK L : L = RemoveId(<<a>>, a.id)
  BY Zenon
<1>3. PICK n \in 1..Len(<<a>>) : IsLess(AnyEntry, L, <<a>>, n)
  BY <1>1, <1>2, RemovedAt, Zenon
<1>4. L \in Seq(AnyEntry) /\ Len(L) = Len(<<a>>) - 1
  BY <1>3, Zenon DEF IsLess
<1>5. L = <<>>
  BY <1>4
<1> QED
  BY <1>1, <1>2, <1>5, Zenon

\* Of two handlers, unregister leaves the other.
LEMMA OneOfTwoRemoved ==
  ASSUME NEW a \in AnyEntry, NEW b \in AnyEntry, a.id # b.id
  PROVE  /\ ContainsId(<<a, b>>, a.id) /\ RemoveId(<<a, b>>, a.id) = <<b>>
         /\ ContainsId(<<a, b>>, b.id) /\ RemoveId(<<a, b>>, b.id) = <<a>>
<1> USE Zenon
<1>1. /\ <<a, b>> \in Seq(AnyEntry) /\ Len(<<a, b>>) = 2
      /\ <<a, b>>[1] = a /\ <<a, b>>[2] = b /\ DOMAIN <<a, b>> = 1..2
  BY SMT
<1>2. ContainsId(<<a, b>>, a.id) /\ ContainsId(<<a, b>>, b.id)
  BY SMT DEF ContainsId
<1>3. RemoveId(<<a, b>>, a.id) = <<b>>
  <2>1. PICK L : L = RemoveId(<<a, b>>, a.id)
    OBVIOUS
  <2>2. PICK n \in 1..Len(<<a, b>>) :
          <<a, b>>[n].id = a.id /\ IsLess(AnyEntry, L, <<a, b>>, n)
    BY <1>1, <1>2, <2>1, RemovedAt
  <2>3. n = 1
    BY <1>1, <2>2, SMT
  <2>4. /\ L \in Seq(AnyEntry) /\ Len(L) = Len(<<a, b>>) - 1
        /\ \A k \in n..(Len(<<a, b>>) - 1) : L[k] = <<a, b>>[k + 1]
    BY <2>2 DEF IsLess
  <2>5. Len(L) = 1 /\ L[1] = b
    BY <1>1, <2>3, <2>4, SMT
  <2>6. L = <<b>>
    BY <2>4, <2>5, SeqOfOne
  <2> QED
    BY <2>1, <2>6
<1>4. RemoveId(<<a, b>>, b.id) = <<a>>
  <2>1. PICK L : L = RemoveId(<<a, b>>, b.id)
    OBVIOUS
  <2>2. PICK n \in 1..Len(<<a, b>>) :
          <<a, b>>[n].id = b.id /\ IsLess(AnyEntry, L, <<a, b>>, n)
    BY <1>1, <1>2, <2>1, RemovedAt
  <2>3. n = 2
    BY <1>1, <2>2, SMT
  <2>4. /\ L \in Seq(AnyEntry) /\ Len(L) = Len(<<a, b>>) - 1
        /\ \A k \in 1..(n - 1) : L[k] = <<a, b>>[k]
    BY <2>2 DEF IsLess
  <2>5. Len(L) = 1 /\ L[1] = a
    BY <1>1, <2>3, <2>4, SMT
  <2>6. L = <<a>>
    BY <2>4, <2>5, SeqOfOne
  <2> QED
    BY <2>1, <2>6
<1> QED
  BY <1>2, <1>3, <1>4

\* Of three, the outer two when the middle one goes.
LEMMA MiddleRemoved ==
  ASSUME NEW a \in AnyEntry, NEW b \in AnyEntry, NEW c \in AnyEntry,
         a.id # b.id, b.id # c.id
  PROVE  ContainsId(<<a, b, c>>, b.id) /\ RemoveId(<<a, b, c>>, b.id) = <<a, c>>
<1>1. <<a, b, c>> \in Seq(AnyEntry) /\ Len(<<a, b, c>>) = 3
  OBVIOUS
<1>2. ContainsId(<<a, b, c>>, b.id)
  BY DEF ContainsId
<1>3. PICK L : L = RemoveId(<<a, b, c>>, b.id)
  BY Zenon
<1>4. PICK n \in 1..Len(<<a, b, c>>) :
        <<a, b, c>>[n].id = b.id /\ IsLess(AnyEntry, L, <<a, b, c>>, n)
  BY <1>1, <1>2, <1>3, RemovedAt, Zenon
<1>5. n = 2
  BY <1>1, <1>4
<1>6. /\ L \in Seq(AnyEntry) /\ Len(L) = Len(<<a, b, c>>) - 1
      /\ \A k \in 1..(n - 1) : L[k] = <<a, b, c>>[k]
      /\ \A k \in n..(Len(<<a, b, c>>) - 1) : L[k] = <<a, b, c>>[k + 1]
  BY <1>4, Zenon DEF IsLess
<1>7. Len(L) = 2 /\ L[1] = a /\ L[2] = c
  BY <1>1, <1>5, <1>6
<1>8. L = <<a, c>>
  BY <1>6, <1>7, SeqOfTwo, Zenon
<1> QED
  BY <1>2, <1>3, <1>8, Zenon

-----------------------------------------------------------------------------
(* What the handlers gather *)

NoRepeats(s) == \A i, j \in DOMAIN s : s[i] = s[j] => i = j

\* swap_remove of a sequence without repetition takes one value away.
LEMMA SwapRemoved ==
  ASSUME NEW s \in Seq(Nat), NoRepeats(s), NEW i \in DOMAIN s,
         NEW L, L = SwapRemove(s, i)
  PROVE  /\ L \in Seq(Nat) /\ Len(L) = Len(s) - 1 /\ NoRepeats(L)
         /\ Range(L) = Range(s) \ {s[i]}
<1> USE Zenon
<1>1. PICK N \in Nat : N = Len(s) /\ DOMAIN s = 1..N /\ i \in 1..N
  BY SMT
<1>2. L = [j \in 1..(N - 1) |-> IF j = i THEN s[N] ELSE s[j]]
  BY <1>1 DEF SwapRemove
<1>3. N - 1 \in Nat /\ \A j \in 1..N : s[j] \in Nat
  BY <1>1, SMT
<1>4. L \in Seq(Nat) /\ Len(L) = N - 1 /\ DOMAIN L = 1..(N - 1)
  BY <1>1, <1>2, <1>3, SMT
<1>5. \A j \in 1..(N - 1) : L[j] = IF j = i THEN s[N] ELSE s[j]
  BY <1>2
<1>6. \A a, b \in 1..N : s[a] = s[b] => a = b
  BY <1>1 DEF NoRepeats
<1>7. NoRepeats(L)
  <2> SUFFICES ASSUME NEW a \in 1..(N - 1), NEW b \in 1..(N - 1), L[a] = L[b]
               PROVE  a = b
    BY <1>4 DEF NoRepeats
  <2>1. a \in 1..N /\ b \in 1..N /\ N \in 1..N /\ a # N /\ b # N
    BY <1>1, SMT
  <2>2. /\ L[a] = IF a = i THEN s[N] ELSE s[a]
        /\ L[b] = IF b = i THEN s[N] ELSE s[b]
    BY <1>5
  <2> QED
    BY <1>6, <2>1, <2>2
<1>8. ASSUME NEW x \in Range(L) PROVE x \in Range(s) \ {s[i]}
  <2>1. PICK j \in 1..(N - 1) : x = L[j]
    BY <1>4, <1>8 DEF Range
  <2>2. j \in 1..N /\ N \in 1..N /\ j # N
    BY <1>1, SMT
  <2>3. L[j] = IF j = i THEN s[N] ELSE s[j]
    BY <1>5
  <2>4. PICK k \in 1..N : x = s[k] /\ k # i
    BY <2>1, <2>2, <2>3
  <2>5. x # s[i]
    BY <1>1, <1>6, <2>4
  <2> QED
    BY <1>1, <2>4, <2>5 DEF Range
<1>9. ASSUME NEW x \in Range(s), x # s[i] PROVE x \in Range(L)
  <2>1. PICK j \in 1..N : x = s[j]
    BY <1>1, <1>9 DEF Range
  <2>2. j # i
    BY <1>9, <2>1
  <2>3. CASE j = N
    <3>1. i \in 1..(N - 1)
      BY <1>1, <2>2, <2>3, SMT
    <3>2. L[i] = x
      BY <1>5, <2>1, <2>3, <3>1
    <3> QED
      BY <1>4, <3>1, <3>2 DEF Range
  <2>4. CASE j # N
    <3>1. j \in 1..(N - 1)
      BY <1>1, <2>4, SMT
    <3>2. L[j] = x
      BY <1>5, <2>1, <2>2, <3>1
    <3> QED
      BY <1>4, <3>1, <3>2 DEF Range
  <2> QED
    BY <2>3, <2>4
<1> QED
  BY <1>1, <1>4, <1>7, <1>8, <1>9

\* total is what the latencies add up to, by the one solution of the recursion.
IsSum(f, events) ==
  f = [n \in 0..Len(events) |-> IF n = 0 THEN 0 ELSE f[n - 1] + Latency(events[n])]
AddsUp(events, total) ==
  \E f : IsSum(f, events) /\ f[Len(events)] = total /\ \A g : IsSum(g, events) => g = f

\* A batch of one more event adds up to its latency more.
LEMMA AddsOneMore ==
  ASSUME NEW S, NEW p \in Seq(S), NEW evt \in S, NEW total, AddsUp(p, total)
  PROVE  AddsUp(Append(p, evt), total + Latency(evt))
<1> USE Zenon
<1>1. PICK n \in Nat : n = Len(p)
  BY SMT
<1>2. PICK q : q = Append(p, evt)
  OBVIOUS
<1>3. Len(q) = n + 1 /\ q[n + 1] = evt /\ \A k \in 1..n : q[k] = p[k]
  BY <1>1, <1>2, SMT
<1>4. PICK f : IsSum(f, p) /\ f[n] = total /\ \A g : IsSum(g, p) => g = f
  BY <1>1 DEF AddsUp
<1>5. \A k \in 0..n : f[k] = IF k = 0 THEN 0 ELSE f[k - 1] + Latency(p[k])
  <2>1. f = [k \in 0..n |-> IF k = 0 THEN 0 ELSE f[k - 1] + Latency(p[k])]
    BY <1>1, <1>4 DEF IsSum
  <2>2. PICK F : F = f
    OBVIOUS
  <2>3. F = [k \in 0..n |-> IF k = 0 THEN 0 ELSE f[k - 1] + Latency(p[k])]
    BY <2>1, <2>2
  <2>4. \A k \in 0..n : F[k] = IF k = 0 THEN 0 ELSE f[k - 1] + Latency(p[k])
    BY <2>3
  <2> QED
    BY <2>2, <2>4
<1> DEFINE g == [k \in 0..(n + 1) |-> IF k = n + 1 THEN total + Latency(evt) ELSE f[k]]
<1>6. /\ n + 1 \in 0..(n + 1) /\ n \in 0..n
      /\ \A k \in 0..n : k \in 0..(n + 1) /\ k # n + 1
      /\ \A k \in 0..(n + 1) : k \in 0..n \/ k = n + 1
      /\ n + 1 # 0 /\ (n + 1) - 1 = n
      /\ \A k \in 0..n : k # 0 => k \in 1..n /\ k - 1 \in 0..n
  BY SMT
<1>7. /\ g[n + 1] = total + Latency(evt) /\ \A k \in 0..n : g[k] = f[k]
      /\ DOMAIN g = 0..(n + 1)
  BY <1>6
<1>8. g = [k \in 0..(n + 1) |-> g[k]]
  OBVIOUS
<1> HIDE DEF g
<1>9. \A k \in 0..(n + 1) : g[k] = IF k = 0 THEN 0 ELSE g[k - 1] + Latency(q[k])
  <2>1. ASSUME NEW k \in 0..n
        PROVE  g[k] = IF k = 0 THEN 0 ELSE g[k - 1] + Latency(q[k])
    <3>1. CASE k = 0
      BY <1>5, <1>7, <3>1
    <3>2. CASE k # 0
      <4>1. g[k - 1] = f[k - 1] /\ q[k] = p[k]
        BY <1>3, <1>6, <1>7, <3>2
      <4> QED
        BY <1>5, <1>7, <3>2, <4>1
    <3> QED
      BY <3>1, <3>2
  <2>2. g[n + 1] = g[(n + 1) - 1] + Latency(q[n + 1])
    BY <1>3, <1>4, <1>6, <1>7
  <2> QED
    BY <1>6, <2>1, <2>2
<1>10. IsSum(g, q)
  <2>1. g = [k \in 0..(n + 1) |-> IF k = 0 THEN 0 ELSE g[k - 1] + Latency(q[k])]
    BY <1>8, <1>9
  <2> QED
    BY <1>3, <2>1 DEF IsSum
<1>11. ASSUME NEW h, IsSum(h, q) PROVE h = g
  <2>1. h = [k \in 0..(n + 1) |-> IF k = 0 THEN 0 ELSE h[k - 1] + Latency(q[k])]
    BY <1>3, <1>11 DEF IsSum
  <2>2. PICK H : H = h
    OBVIOUS
  <2>3. H = [k \in 0..(n + 1) |-> IF k = 0 THEN 0 ELSE h[k - 1] + Latency(q[k])]
    BY <2>1, <2>2
  <2>4. \A k \in 0..(n + 1) : H[k] = IF k = 0 THEN 0 ELSE h[k - 1] + Latency(q[k])
    BY <2>3
  <2>5. H = [k \in 0..(n + 1) |-> H[k]]
    BY <2>3
  <2>6. /\ \A k \in 0..(n + 1) : h[k] = IF k = 0 THEN 0 ELSE h[k - 1] + Latency(q[k])
        /\ h = [k \in 0..(n + 1) |-> h[k]]
    BY <2>2, <2>4, <2>5
  <2> DEFINE r == [k \in 0..n |-> h[k]]
  <2>7. /\ r = [k \in 0..n |-> r[k]] /\ \A k \in 0..n : r[k] = h[k]
    OBVIOUS
  <2> HIDE DEF r
  <2>8. \A k \in 0..n : r[k] = IF k = 0 THEN 0 ELSE r[k - 1] + Latency(p[k])
    <3> SUFFICES ASSUME NEW k \in 0..n
                 PROVE  r[k] = IF k = 0 THEN 0 ELSE r[k - 1] + Latency(p[k])
      OBVIOUS
    <3>1. h[k] = IF k = 0 THEN 0 ELSE h[k - 1] + Latency(q[k])
      BY <1>6, <2>6
    <3>2. k # 0 => r[k - 1] = h[k - 1] /\ q[k] = p[k]
      BY <1>3, <1>6, <2>7
    <3> QED
      BY <2>7, <3>1, <3>2
  <2>9. r = [k \in 0..n |-> IF k = 0 THEN 0 ELSE r[k - 1] + Latency(p[k])]
    BY <2>7, <2>8
  <2>10. r = f
    BY <1>1, <1>4, <2>9 DEF IsSum
  <2>11. \A k \in 0..n : h[k] = g[k]
    BY <1>7, <2>7, <2>10
  <2>12. h[n + 1] = g[n + 1]
    <3>1. h[n + 1] = h[(n + 1) - 1] + Latency(q[n + 1])
      BY <1>6, <2>6
    <3> QED
      BY <1>3, <1>4, <1>6, <1>7, <2>7, <2>10, <3>1
  <2> QED
    BY <1>6, <1>8, <2>6, <2>11, <2>12
<1> QED
  BY <1>2, <1>3, <1>7, <1>10, <1>11 DEF AddsUp

\* An empty batch adds up to nothing.
LEMMA AddsNothing == AddsUp(<<>>, 0)
<1> USE Zenon
<1>1. 0..Len(<<>>) = {0} /\ Len(<<>>) = 0
  BY SMT
<1>2. PICK f : f = [n \in {0} |-> 0]
  OBVIOUS
<1>3. \A g : IsSum(g, <<>>) <=>
        g = [n \in {0} |-> IF n = 0 THEN 0 ELSE g[n - 1] + Latency(<<>>[n])]
  BY <1>1 DEF IsSum
<1>4. \A g : [n \in {0} |-> IF n = 0 THEN 0 ELSE g[n - 1] + Latency(<<>>[n])] = f
  BY <1>2
<1>5. IsSum(f, <<>>) /\ \A g : IsSum(g, <<>>) => g = f
  BY <1>3, <1>4
<1>6. f[0] = 0
  BY <1>2
<1> QED
  BY <1>1, <1>5, <1>6 DEF AddsUp

\* It is the sum that the property speaks of.
LEMMA AddsToSum ==
  ASSUME NEW p, NEW total, AddsUp(p, total)
  PROVE  LatencySum(p) = total
<1> USE Zenon
<1>1. PICK f : IsSum(f, p) /\ f[Len(p)] = total /\ \A g : IsSum(g, p) => g = f
  BY DEF AddsUp
<1> DEFINE c == CHOOSE g : IsSum(g, p)
<1>2. LatencySum(p) = c[Len(p)]
  BY DEF LatencySum, IsSum
<1>3. c = f
  BY <1>1
<1> QED
  BY <1>1, <1>2, <1>3

\* The alert comes last.
Severities == {"Info", "Warn", "Critical"}
Alerts(severity) == IF severity = "Critical" THEN 1 ELSE 0

\* One more event is one more critical event when it is critical.
LEMMA CriticalOneMore ==
  ASSUME NEW c \in Seq(Severities), NEW sev \in Severities
  PROVE  /\ CriticalCount(Append(c, sev)) = CriticalCount(c) + Alerts(sev)
         /\ CriticalCount(c) \in Nat
<1> USE Zenon
<1>1. PICK n \in Nat : n = Len(c) /\ DOMAIN c = 1..n
  BY SMT
<1>2. PICK q : q = Append(c, sev)
  OBVIOUS
<1>3. DOMAIN q = 1..(n + 1) /\ q[n + 1] = sev /\ \A k \in 1..n : q[k] = c[k]
  BY <1>1, <1>2, SMT
<1> DEFINE C == {i \in 1..n : c[i] = "Critical"}
           Q == {i \in 1..(n + 1) : q[i] = "Critical"}
<1>4. CriticalCount(c) = Cardinality(C) /\ CriticalCount(q) = Cardinality(Q)
  BY <1>1, <1>3 DEF CriticalCount
<1>5. IsFiniteSet(C) /\ Cardinality(C) \in Nat
  <2>1. IsFiniteSet(1..n)
    <3>1. 1 \in Int /\ n \in Int
      BY SMT
    <3> QED
      BY <3>1, FS_Interval
  <2>2. C \subseteq 1..n
    OBVIOUS
  <2> QED
    BY <2>1, <2>2, FS_Subset, FS_CardinalityType
<1>6. n + 1 \notin C
  BY SMT
<1>7. \A i \in 1..(n + 1) : i \in 1..n \/ i = n + 1
  BY SMT
<1>8. n + 1 \in 1..(n + 1) /\ \A i \in 1..n : i \in 1..(n + 1)
  BY SMT
<1>9. CASE sev = "Critical"
  <2>1. Q = C \cup {n + 1}
    BY <1>3, <1>7, <1>8, <1>9
  <2>2. Cardinality(Q) = Cardinality(C) + 1
    BY <1>5, <1>6, <2>1, FS_AddElement
  <2> QED
    BY <1>2, <1>4, <1>5, <1>9, <2>2 DEF Alerts
<1>10. CASE sev # "Critical"
  <2>1. Q = C
    BY <1>3, <1>7, <1>8, <1>10
  <2>2. Alerts(sev) = 0 /\ Cardinality(C) = Cardinality(C) + 0
    BY <1>5, <1>10, SMT DEF Alerts
  <2> QED
    BY <1>2, <1>4, <1>5, <2>1, <2>2
<1> QED
  BY <1>9, <1>10

Flushed(order, txid, n) ==
  \E j \in 1..n : order[j][2] = "wal:flush" /\ order[j][1] = txid
FlushedFirst(order) ==
  \A i \in DOMAIN order :
    order[i][3] = "Committed" => Flushed(order, order[i][1], i)

\* A commit that is pushed after the flush, or is the flush, leaves commits
\* behind their flushes.
LEMMA FlushGrows ==
  ASSUME NEW T, NEW order \in Seq(T), NEW x \in T, NEW q, q = Append(order, x),
         FlushedFirst(order),
         x[3] = "Committed" => \/ Flushed(order, x[1], Len(order))
                               \/ x[2] = "wal:flush"
  PROVE  /\ FlushedFirst(q)
         /\ x[3] = "Committed" => Flushed(q, x[1], Len(q))
         /\ \A txid : Flushed(order, txid, Len(order)) => Flushed(q, txid, Len(q))
<1> USE Zenon
<1>1. PICK n \in Nat : n = Len(order) /\ DOMAIN order = 1..n
  BY SMT
<1>2. /\ Len(q) = n + 1 /\ DOMAIN q = 1..(n + 1) /\ q[n + 1] = x
      /\ \A k \in 1..n : q[k] = order[k]
  BY <1>1, SMT
<1>3. /\ n + 1 \in 1..(n + 1) /\ \A i \in 1..n : i \in 1..(n + 1)
      /\ \A i \in 1..(n + 1) : i \in 1..n \/ i = n + 1
      /\ \A i \in 1..n : \A j \in 1..i : j \in 1..n
  BY SMT
<1>4. ASSUME NEW txid, Flushed(order, txid, n) PROVE Flushed(q, txid, n + 1)
  <2>1. PICK j \in 1..n : order[j][2] = "wal:flush" /\ order[j][1] = txid
    BY <1>4 DEF Flushed
  <2>2. q[j] = order[j] /\ j \in 1..(n + 1)
    BY <1>2, <1>3
  <2> QED
    BY <2>1, <2>2 DEF Flushed
<1>5. x[3] = "Committed" => Flushed(q, x[1], n + 1)
  <2>1. x[2] = "wal:flush" => Flushed(q, x[1], n + 1)
    BY <1>2, <1>3 DEF Flushed
  <2> QED
    BY <1>1, <1>4, <2>1
<1>6. FlushedFirst(q)
  <2> SUFFICES ASSUME NEW i \in 1..(n + 1), q[i][3] = "Committed"
               PROVE  Flushed(q, q[i][1], i)
    BY <1>2 DEF FlushedFirst
  <2>1. CASE i \in 1..n
    <3>1. q[i] = order[i]
      BY <1>2, <2>1
    <3>2. PICK j \in 1..i : order[j][2] = "wal:flush" /\ order[j][1] = order[i][1]
      BY <1>1, <2>1, <3>1 DEF FlushedFirst, Flushed
    <3>3. q[j] = order[j]
      BY <1>2, <1>3, <2>1, <3>2
    <3> QED
      BY <3>1, <3>2, <3>3 DEF Flushed
  <2>2. CASE i = n + 1
    BY <1>2, <1>5, <2>2
  <2> QED
    BY <1>3, <2>1, <2>2
<1> QED
  BY <1>1, <1>2, <1>4, <1>5, <1>6

-----------------------------------------------------------------------------
(* Dispatches of the main thread, of what handlers and program share, s, and of d *)

\* The handlers of list from position j on are still to be called with event.
Calling(list, event, j) ==
  [list |-> list, todo |-> j..Len(list), event |-> <<event>>, join |-> FALSE]

\* The main thread calls a handler of its dispatch.
Handles(s, d, s2, d2) ==
  \E i \in IF d.join THEN d.todo ELSE {Min(d.todo)} :
    /\ s2 = Effect(d.list[i], Head(d.event), s)
    /\ d2 = IF d.todo = {i} THEN NoDispatch ELSE [d EXCEPT !.todo = @ \ {i}]

\* notify calls the handlers one after the other.
LEMMA CallsInOrder ==
  ASSUME NEW list, Len(list) \in Nat, NEW event, NEW j \in 1..Len(list),
         NEW s, NEW s2, NEW d2, Handles(s, Calling(list, event, j), s2, d2)
  PROVE  /\ s2 = Effect(list[j], event, s)
         /\ j >= Len(list) => d2.todo = {}
         /\ j < Len(list) => d2 = Calling(list, event, j + 1)
<1> DEFINE d == Calling(list, event, j)
<1>0. PICK N \in Nat : N = Len(list) /\ j \in 1..N
  BY Zenon
<1>1. /\ d.list = list /\ d.todo = j..N /\ d.event = <<event>> /\ d.join = FALSE
      /\ d = [list |-> list, todo |-> j..N, event |-> <<event>>, join |-> FALSE]
  BY <1>0 DEF Calling
<1>2. Head(<<event>>) = event
  OBVIOUS
<1>3. j..N \subseteq Nat /\ j \in j..N /\ \A k \in j..N : j =< k
  BY <1>0
<1>4. Min(j..N) = j
  <2>1. Min(j..N) \in j..N /\ Min(j..N) =< j
    BY <1>3, MinIn, Zenon
  <2> QED
    BY <1>0, <2>1
<1> HIDE DEF d
<1>5. /\ s2 = Effect(list[j], event, s)
      /\ d2 = IF d.todo = {j} THEN NoDispatch ELSE [d EXCEPT !.todo = @ \ {j}]
  <2>1. PICK i \in IF d.join THEN d.todo ELSE {Min(d.todo)} :
          /\ s2 = Effect(d.list[i], Head(d.event), s)
          /\ d2 = IF d.todo = {i} THEN NoDispatch ELSE [d EXCEPT !.todo = @ \ {i}]
    BY Zenon DEF Handles, d
  <2>2. i = j
    BY <1>1, <1>4, <2>1, Zenon
  <2> QED
    BY <1>1, <1>2, <2>1, <2>2, Zenon
<1>6. ASSUME j >= Len(list) PROVE d2.todo = {}
  <2>1. j..N = {j}
    BY <1>0, <1>6
  <2>2. d2 = NoDispatch
    BY <1>1, <1>5, <2>1, Zenon
  <2> QED
    BY <2>2 DEF NoDispatch
<1>7. ASSUME j < Len(list) PROVE d2 = Calling(list, event, j + 1)
  <2>1. j..N # {j} /\ (j..N) \ {j} = (j + 1)..N
    <3>1. N \in j..N /\ N # j
      BY <1>0, <1>7
    <3> QED
      BY <1>0, <3>1
  <2>2. d2 = [d EXCEPT !.todo = (j + 1)..N]
    BY <1>1, <1>5, <2>1, Zenon
  <2> QED
    BY <1>0, <1>1, <2>2, Zenon DEF Calling
<1> QED
  BY <1>5, <1>6, <1>7, Zenon

Handlers(list, n) == Len(list) = n

\* The two handlers of a list.
LEMMA CallsOfTwo ==
  ASSUME NEW list, Handlers(list, 2), NEW event, NEW s, NEW s2, NEW d2
  PROVE  /\ Handles(s, Calling(list, event, 1), s2, d2) =>
              s2 = Effect(list[1], event, s) /\ d2 = Calling(list, event, 2)
         /\ Handles(s, Calling(list, event, 2), s2, d2) =>
              s2 = Effect(list[2], event, s) /\ d2.todo = {}
<1>0. Len(list) \in Nat
  BY DEF Handlers
<1>1. /\ 1 \in 1..Len(list) /\ 2 \in 1..Len(list)
      /\ 1 < Len(list) /\ 2 >= Len(list) /\ 1 + 1 = 2
  BY DEF Handlers
<1>2. ASSUME NEW j \in 1..Len(list), Handles(s, Calling(list, event, j), s2, d2)
      PROVE  /\ s2 = Effect(list[j], event, s)
             /\ j >= Len(list) => d2.todo = {}
             /\ j < Len(list) => d2 = Calling(list, event, j + 1)
  BY <1>0, <1>2, CallsInOrder, Zenon
<1> QED
  BY <1>1, <1>2

\* The three handlers of a list.
LEMMA CallsOfThree ==
  ASSUME NEW list, Handlers(list, 3), NEW event, NEW s, NEW s2, NEW d2
  PROVE  /\ Handles(s, Calling(list, event, 1), s2, d2) =>
              s2 = Effect(list[1], event, s) /\ d2 = Calling(list, event, 2)
         /\ Handles(s, Calling(list, event, 2), s2, d2) =>
              s2 = Effect(list[2], event, s) /\ d2 = Calling(list, event, 3)
         /\ Handles(s, Calling(list, event, 3), s2, d2) =>
              s2 = Effect(list[3], event, s) /\ d2.todo = {}
<1>0. Len(list) \in Nat
  BY DEF Handlers
<1>1. /\ 1 \in 1..Len(list) /\ 2 \in 1..Len(list)
      /\ 3 \in 1..Len(list) /\ 1 < Len(list) /\ 2 < Len(list) /\ 3 >= Len(list)
      /\ 1 + 1 = 2 /\ 2 + 1 = 3
  BY DEF Handlers
<1>2. ASSUME NEW j \in 1..Len(list), Handles(s, Calling(list, event, j), s2, d2)
      PROVE  /\ s2 = Effect(list[j], event, s)
             /\ j >= Len(list) => d2.todo = {}
             /\ j < Len(list) => d2 = Calling(list, event, j + 1)
  BY <1>0, <1>2, CallsInOrder, Zenon
<1> QED
  BY <1>1, <1>2

\* notify loads the list and starts with its first handler.
LEMMA CallsFirst ==
  ASSUME NEW list, NEW S, list \in Seq(S), Len(list) > 0, NEW event,
         NEW d, d = IF list = <<>> THEN NoDispatch
                    ELSE [list |-> list, todo |-> DOMAIN list,
                          event |-> <<event>>, join |-> FALSE]
  PROVE  d = Calling(list, event, 1)
<1>1. list # <<>> /\ DOMAIN list = 1..Len(list)
  OBVIOUS
<1> QED
  BY <1>1, Zenon DEF Calling

\* A dispatch with a handler to call is not over.
LEMMA CallingBusy ==
  ASSUME NEW list, NEW event, NEW j \in 1..Len(list), Len(list) \in Nat
  PROVE  Calling(list, event, j).todo # {}
<1>1. Calling(list, event, j).todo = j..Len(list) /\ j \in j..Len(list)
  BY DEF Calling
<1> QED
  BY <1>1, Zenon

Entry(id, priority, hook) == [id |-> id, priority |-> priority, hook |-> hook]

-----------------------------------------------------------------------------
(* pattern_hot_reload *)

ReloadList == <<Entry(1, 0, "timeout"), Entry(2, 0, "toggle")>>
Snapshots == [generation : Nat, request_timeout_ms : Nat, feature_flag_search_v2 : BOOLEAN]
TimeoutSeen(s) == s.timeout_observed = s.snapshot.request_timeout_ms
ToggleSeen(s) == s.last_v2 = s.snapshot.feature_flag_search_v2

\* The subscriber of the timeout is called first; the toggles are counted.
Reloaded(s, d) ==
  /\ s \in [snapshot : Snapshots, timeout_observed : Nat, last_v2 : BOOLEAN,
            toggle_count : Nat]
  /\ s.last_v2 <=> s.toggle_count % 2 = 1
  /\ \/ d.todo = {} /\ (s.snapshot.generation > 0 => TimeoutSeen(s) /\ ToggleSeen(s))
     \/ d = Calling(ReloadList, s.snapshot, 1)
     \/ d = Calling(ReloadList, s.snapshot, 2) /\ TimeoutSeen(s)

\* There are two subscribers.
LEMMA ReloadLength == Len(ReloadList) = 2 /\ ReloadList \in Seq(AnyEntry)
  BY DEF ReloadList, Entry, AnyEntry, Hooks

\* What the subscribers of pattern_hot_reload do when they are called.
LEMMA SubscriberCalled ==
  ASSUME NEW event, NEW s
  PROVE  /\ Effect(ReloadList[1], event, s) = Subscriber("timeout", event, s)
         /\ Effect(ReloadList[2], event, s) = Subscriber("toggle", event, s)
<1>1. ReloadList[1].hook = "timeout" /\ ReloadList[2].hook = "toggle"
  BY DEF ReloadList, Entry
<1>2. ASSUME NEW e, e.hook = "timeout"
      PROVE  Effect(e, event, s) = Subscriber("timeout", event, s)
  BY <1>2 DEF Effect
<1>3. ASSUME NEW e, e.hook = "toggle"
      PROVE  Effect(e, event, s) = Subscriber("toggle", event, s)
  BY <1>3 DEF Effect
<1> QED
  BY <1>1, <1>2, <1>3, Zenon

\* A subscriber runs.
LEMMA ReloadHandled ==
  ASSUME NEW s, NEW d, Reloaded(s, d), d.todo # {}, NEW s2, NEW d2, Handles(s, d, s2, d2)
  PROVE  Reloaded(s2, d2)
<1> USE Zenon
<1> DEFINE S == [snapshot : Snapshots, timeout_observed : Nat, last_v2 : BOOLEAN,
                 toggle_count : Nat]
           snap == s.snapshot
<1>1. s \in S /\ (s.last_v2 <=> s.toggle_count % 2 = 1)
  BY DEF Reloaded
<1>2. /\ snap \in Snapshots /\ snap.request_timeout_ms \in Nat
      /\ snap.feature_flag_search_v2 \in BOOLEAN
      /\ s.last_v2 \in BOOLEAN /\ s.toggle_count \in Nat
  BY <1>1, SMT DEF Snapshots
\* What the two subscribers do.
<1>5. /\ Effect(ReloadList[1], snap, s)
           = [s EXCEPT !.timeout_observed = snap.request_timeout_ms]
      /\ Effect(ReloadList[2], snap, s)
           = [s EXCEPT !.last_v2 = snap.feature_flag_search_v2,
                       !.toggle_count = IF s.last_v2 # snap.feature_flag_search_v2
                                        THEN @ + 1 ELSE @]
  <2>2. /\ Effect(ReloadList[1], snap, s) = Subscriber("timeout", snap, s)
        /\ Effect(ReloadList[2], snap, s) = Subscriber("toggle", snap, s)
    BY SubscriberCalled
  <2> QED
    BY <2>2 DEF Subscriber
<1>3. CASE d = Calling(ReloadList, snap, 1)
  <2>1. /\ s2 = [s EXCEPT !.timeout_observed = snap.request_timeout_ms]
        /\ d2 = Calling(ReloadList, snap, 2)
    <3>1. s2 = Effect(ReloadList[1], snap, s) /\ d2 = Calling(ReloadList, snap, 2)
      BY <1>3, ReloadLength, CallsOfTwo DEF Handlers
    <3> QED
      BY <1>5, <3>1
  <2>2. /\ s2 \in S /\ s2.snapshot = snap /\ s2.last_v2 = s.last_v2
        /\ s2.toggle_count = s.toggle_count
        /\ s2.timeout_observed = snap.request_timeout_ms
    BY <1>1, <1>2, <2>1, SMT
  <2> QED
    BY <1>1, <2>1, <2>2 DEF Reloaded, TimeoutSeen
<1>4. CASE d = Calling(ReloadList, snap, 2) /\ TimeoutSeen(s)
  <2>1. PICK w, n : /\ w = snap.feature_flag_search_v2
                    /\ n = IF s.last_v2 # w THEN s.toggle_count + 1 ELSE s.toggle_count
    OBVIOUS
  <2>2. w \in BOOLEAN /\ n \in Nat
    BY <1>2, <2>1, SMT
  <2>3. s2 = [s EXCEPT !.last_v2 = w, !.toggle_count = n] /\ d2.todo = {}
    <3>1. s2 = Effect(ReloadList[2], snap, s) /\ d2.todo = {}
      BY <1>4, ReloadLength, CallsOfTwo DEF Handlers
    <3> QED
      BY <1>5, <2>1, <3>1
  <2>4. /\ s2 \in S /\ s2.snapshot = snap /\ s2.last_v2 = w /\ s2.toggle_count = n
        /\ s2.timeout_observed = s.timeout_observed
    BY <1>1, <1>2, <2>2, <2>3
  <2>5. w <=> n % 2 = 1
    <3>1. \A m \in Nat, u, v \in BOOLEAN :
            (u <=> m % 2 = 1) /\ u # v => (v <=> (m + 1) % 2 = 1)
      BY SMT
    <3> QED
      BY <1>1, <1>2, <2>1, <2>2, <3>1
  <2> QED
    BY <1>4, <2>1, <2>3, <2>4, <2>5 DEF Reloaded, TimeoutSeen, ToggleSeen
<1> QED
  BY <1>3, <1>4 DEF Reloaded

\* The snapshot with a field changed and the generation one higher.
LEMMA NextSnapshot ==
  ASSUME NEW snap \in Snapshots
  PROVE  /\ \A value \in Nat :
              [snap EXCEPT !.request_timeout_ms = value, !.generation = @ + 1]
                \in Snapshots
         /\ \A value \in BOOLEAN :
              [snap EXCEPT !.feature_flag_search_v2 = value, !.generation = @ + 1]
                \in Snapshots
<1>1. ASSUME NEW mid \in Snapshots PROVE [mid EXCEPT !.generation = @ + 1] \in Snapshots
  BY <1>1 DEF Snapshots
<1>2. \A value \in Nat : [snap EXCEPT !.request_timeout_ms = value] \in Snapshots
  BY DEF Snapshots
<1>3. \A value \in BOOLEAN : [snap EXCEPT !.feature_flag_search_v2 = value] \in Snapshots
  BY DEF Snapshots
<1> QED
  BY <1>1, <1>2, <1>3, Zenon

\* The configuration is changed between two dispatches, and its subscribers
\* are to be called with the snapshot it now has.
LEMMA ReloadMutated ==
  ASSUME NEW s, NEW d, Reloaded(s, d), NEW field, NEW value, NEW next, NEW s2,
         \/ field = "request_timeout_ms" /\ value \in Nat
         \/ field = "feature_flag_search_v2" /\ value \in BOOLEAN,
         next = [s.snapshot EXCEPT ![field] = value, !.generation = @ + 1],
         s2 = [s EXCEPT !.snapshot = next]
  PROVE  Reloaded(s2, Calling(ReloadList, next, 1))
<1> USE Zenon
<1> DEFINE S == [snapshot : Snapshots, timeout_observed : Nat, last_v2 : BOOLEAN,
                 toggle_count : Nat]
<1>1. s \in S /\ (s.last_v2 <=> s.toggle_count % 2 = 1)
  BY DEF Reloaded
<1>2. PICK snap : snap = s.snapshot
  OBVIOUS
<1>3. snap \in Snapshots
  BY <1>1, <1>2
<1>4. next = [snap EXCEPT ![field] = value, !.generation = @ + 1]
  BY <1>2
<1>5. next \in Snapshots
  <2>1. CASE field = "request_timeout_ms" /\ value \in Nat
    <3>1. next = [snap EXCEPT !.request_timeout_ms = value, !.generation = @ + 1]
      BY <1>4, <2>1
    <3>2. [snap EXCEPT !.request_timeout_ms = value, !.generation = @ + 1] \in Snapshots
      BY <1>3, <2>1, NextSnapshot
    <3> QED
      BY <3>1, <3>2
  <2>2. CASE field = "feature_flag_search_v2" /\ value \in BOOLEAN
    <3>1. next = [snap EXCEPT !.feature_flag_search_v2 = value, !.generation = @ + 1]
      BY <1>4, <2>2
    <3>2. [snap EXCEPT !.feature_flag_search_v2 = value, !.generation = @ + 1] \in Snapshots
      BY <1>3, <2>2, NextSnapshot
    <3> QED
      BY <3>1, <3>2
  <2> QED
    BY <2>1, <2>2
<1>6. /\ s2 \in S /\ s2.snapshot = next /\ s2.last_v2 = s.last_v2
      /\ s2.toggle_count = s.toggle_count
  BY <1>1, <1>5
<1> QED
  BY <1>1, <1>6 DEF Reloaded

\* Between two dispatches the subscribers have seen the snapshot.
LEMMA BetweenReloaded ==
  ASSUME NEW s, NEW d, Reloaded(s, d), d.todo = {}
  PROVE  s.snapshot.generation > 0 => TimeoutSeen(s) /\ ToggleSeen(s)
<1>1. /\ Len(ReloadList) \in Nat /\ 1 \in 1..Len(ReloadList)
      /\ 2 \in 1..Len(ReloadList)
  BY ReloadLength
<1>2. /\ \A snap : Calling(ReloadList, snap, 1).todo # {}
      /\ \A snap : Calling(ReloadList, snap, 2).todo # {}
  BY <1>1, CallingBusy
<1> QED
  BY <1>2, Zenon DEF Reloaded

-----------------------------------------------------------------------------
(* pattern_metric_event *)

MetricEvents == [kind : {"RequestStarted", "Error"}]
                  \cup [kind : {"RequestCompleted"}, latency_us : Nat]
MetricList == <<Entry(1, 0, "aggregate"), Entry(2, 0, "batch")>>

\* What the aggregator has seen is what the batch has, and the event it has
\* seen last when the batch is to see it next.
Events(s) == s.started + s.completed + s.errors
Counted(s, d) ==
  /\ s \in [started : Nat, completed : Nat, total_latency_us : Nat, errors : Nat,
            pending : Seq(MetricEvents)]
  /\ \/ /\ d.todo = {} \/ \E evt \in MetricEvents : d = Calling(MetricList, evt, 1)
        /\ Len(s.pending) = Events(s) /\ AddsUp(s.pending, s.total_latency_us)
     \/ \E evt \in MetricEvents, total \in Nat :
          /\ d = Calling(MetricList, evt, 2)
          /\ Len(s.pending) + 1 = Events(s)
          /\ AddsUp(s.pending, total) /\ s.total_latency_us = total + Latency(evt)
MetricState == [started : Nat, completed : Nat, total_latency_us : Nat, errors : Nat,
                pending : Seq(MetricEvents)]

\* There are two handlers.
LEMMA MetricLength == Len(MetricList) = 2 /\ MetricList \in Seq(AnyEntry)
  BY DEF MetricList, Entry, AnyEntry, Hooks

\* What the handlers of pattern_metric_event do.
LEMMA MetricCalled ==
  ASSUME NEW event, NEW s
  PROVE  /\ Effect(MetricList[1], event, s) = Aggregate(event, s)
         /\ Effect(MetricList[2], event, s) = [s EXCEPT !.pending = Append(@, event)]
<1>1. MetricList[1].hook = "aggregate" /\ MetricList[2].hook = "batch"
  BY DEF MetricList, Entry
<1>2. ASSUME NEW e, e.hook = "aggregate" PROVE Effect(e, event, s) = Aggregate(event, s)
  BY <1>2 DEF Effect
<1>3. ASSUME NEW e, e.hook = "batch"
      PROVE  Effect(e, event, s) = [s EXCEPT !.pending = Append(@, event)]
  BY <1>3 DEF Effect
<1> QED
  BY <1>1, <1>2, <1>3, Zenon

\* A handler runs.
LEMMA MetricHandled ==
  ASSUME NEW s, NEW d, Counted(s, d), d.todo # {}, NEW s2, NEW d2, Handles(s, d, s2, d2)
  PROVE  Counted(s2, d2)
<1> USE Zenon
<1>1. s \in MetricState
  BY DEF Counted, MetricState
\* The aggregator counts the event and adds its latency.
<1>AggregatorDoes.
      ASSUME NEW evt \in MetricEvents,
             s2 = Effect(MetricList[1], evt, s)
      PROVE  /\ s2 \in MetricState /\ s2.pending = s.pending
             /\ Events(s2) = Events(s) + 1
             /\ s2.total_latency_us = s.total_latency_us + Latency(evt)
  <2> USE <1>1, <1>AggregatorDoes
  <2>2. s2 = Aggregate(evt, s)
    BY MetricCalled
  <2>3. /\ s.started \in Nat /\ s.completed \in Nat /\ s.errors \in Nat
        /\ s.total_latency_us \in Nat
    BY SMT DEF MetricState
  <2>4. PICK a, b, c, t \in Nat : a = s.started /\ b = s.completed /\ c = s.errors
                                  /\ t = s.total_latency_us
    BY <2>3
  <2>5. CASE evt.kind = "RequestStarted"
    <3>1. s2 = [s EXCEPT !.started = a + 1] /\ Latency(evt) = 0
      BY <2>2, <2>4, <2>5, SMT DEF Aggregate, Latency
    <3>2. a + 1 \in Nat /\ (a + 1) + b + c = (a + b + c) + 1 /\ t = t + 0
      BY SMT
    <3>3. /\ s2 \in MetricState /\ s2.pending = s.pending /\ s2.started = a + 1
          /\ s2.completed = b /\ s2.errors = c /\ s2.total_latency_us = t
      BY <2>4, <3>1, <3>2 DEF MetricState
    <3> QED
      BY <2>4, <3>1, <3>2, <3>3 DEF Events
  <2>6. CASE evt.kind = "Error"
    <3>1. s2 = [s EXCEPT !.errors = c + 1] /\ Latency(evt) = 0
      BY <2>2, <2>4, <2>6, SMT DEF Aggregate, Latency
    <3>2. c + 1 \in Nat /\ a + b + (c + 1) = (a + b + c) + 1 /\ t = t + 0
      BY SMT
    <3>3. /\ s2 \in MetricState /\ s2.pending = s.pending /\ s2.started = a
          /\ s2.completed = b /\ s2.errors = c + 1 /\ s2.total_latency_us = t
      BY <2>4, <3>1, <3>2 DEF MetricState
    <3> QED
      BY <2>4, <3>1, <3>2, <3>3 DEF Events
  <2>7. CASE evt.kind = "RequestCompleted"
    <3>1. evt.latency_us \in Nat /\ Latency(evt) = evt.latency_us
      BY <2>7, SMT DEF MetricEvents, Latency
    <3>2. PICK l \in Nat : l = Latency(evt) /\ l = evt.latency_us
      BY <3>1
    <3>3. s2 = [s EXCEPT !.completed = b + 1, !.total_latency_us = t + l]
      BY <2>2, <2>4, <2>7, <3>2, SMT DEF Aggregate
    <3>4. b + 1 \in Nat /\ t + l \in Nat /\ a + (b + 1) + c = (a + b + c) + 1
      BY SMT
    <3>5. /\ s2 \in MetricState /\ s2.pending = s.pending /\ s2.started = a
          /\ s2.completed = b + 1 /\ s2.errors = c /\ s2.total_latency_us = t + l
      BY <2>4, <3>3, <3>4 DEF MetricState
    <3> QED
      BY <2>4, <3>2, <3>4, <3>5 DEF Events
  <2> QED
    BY <2>5, <2>6, <2>7, SMT DEF MetricEvents
\* The batch takes the event.
<1>BatchDoes.
      ASSUME NEW evt \in MetricEvents,
             s2 = Effect(MetricList[2], evt, s)
      PROVE  /\ s2 \in MetricState /\ s2.pending = Append(s.pending, evt)
             /\ Events(s2) = Events(s) /\ s2.total_latency_us = s.total_latency_us
             /\ Len(s2.pending) = Len(s.pending) + 1 /\ s.pending \in Seq(MetricEvents)
  <2> USE <1>1, <1>BatchDoes
  <2>2. s2 = [s EXCEPT !.pending = Append(@, evt)]
    BY MetricCalled
  <2>3. PICK p : p = s.pending
    OBVIOUS
  <2>4. p \in Seq(MetricEvents)
    BY <2>3, SMT DEF MetricState
  <2>5. Append(p, evt) \in Seq(MetricEvents) /\ Len(Append(p, evt)) = Len(p) + 1
    BY <2>4, SMT
  <2>6. PICK q : q = Append(p, evt)
    OBVIOUS
  <2>7. s2 = [s EXCEPT !.pending = q] /\ q \in Seq(MetricEvents)
    BY <2>2, <2>3, <2>5, <2>6
  <2> HIDE DEF MetricEvents
  <2>8. /\ s2 \in MetricState /\ s2.pending = q /\ s2.started = s.started
        /\ s2.completed = s.completed /\ s2.errors = s.errors
        /\ s2.total_latency_us = s.total_latency_us
    BY <2>7, SMT DEF MetricState
  <2> QED
    BY <2>3, <2>4, <2>5, <2>6, <2>8 DEF Events
<1>2. ASSUME NEW evt \in MetricEvents, d = Calling(MetricList, evt, 1),
             Len(s.pending) = Events(s), AddsUp(s.pending, s.total_latency_us)
      PROVE  Counted(s2, d2)
  <2>1. s2 = Effect(MetricList[1], evt, s) /\ d2 = Calling(MetricList, evt, 2)
    BY <1>2, MetricLength, CallsOfTwo DEF Handlers
  <2>2. /\ s2 \in MetricState /\ s2.pending = s.pending
        /\ Events(s2) = Events(s) + 1
        /\ s2.total_latency_us = s.total_latency_us + Latency(evt)
    BY <1>1, <2>1, <1>AggregatorDoes
  <2>3. s.total_latency_us \in Nat
    BY <1>1, SMT DEF MetricState
  <2>4. Len(s2.pending) + 1 = Events(s2)
    BY <1>2, <2>2
  <2> QED
    BY <1>2, <2>1, <2>2, <2>3, <2>4 DEF Counted, MetricState
<1>3. ASSUME NEW evt \in MetricEvents, NEW total \in Nat, d = Calling(MetricList, evt, 2),
             Len(s.pending) + 1 = Events(s), AddsUp(s.pending, total),
             s.total_latency_us = total + Latency(evt)
      PROVE  Counted(s2, d2)
  <2>1. s2 = Effect(MetricList[2], evt, s) /\ d2.todo = {}
    BY <1>3, MetricLength, CallsOfTwo DEF Handlers
  <2>2. /\ s2 \in MetricState /\ s2.pending = Append(s.pending, evt)
        /\ Events(s2) = Events(s) /\ s2.total_latency_us = s.total_latency_us
        /\ Len(s2.pending) = Len(s.pending) + 1 /\ s.pending \in Seq(MetricEvents)
    BY <1>1, <2>1, <1>BatchDoes
  <2>3. AddsUp(s2.pending, s2.total_latency_us)
    BY <1>3, <2>2, AddsOneMore
  <2>4. Len(s2.pending) = Events(s2)
    BY <1>3, <2>2
  <2> QED
    BY <2>1, <2>2, <2>3, <2>4 DEF Counted, MetricState
<1> QED
  BY <1>2, <1>3 DEF Counted

\* Between two dispatches the aggregator and the batch have seen the same,
\* and the alert and the file.
LEMMA BetweenCounted ==
  ASSUME NEW s, NEW d, Counted(s, d), d.todo = {}
  PROVE  Len(s.pending) = Events(s) /\ AddsUp(s.pending, s.total_latency_us)
<1>1. Len(MetricList) \in Nat /\ 2 \in 1..Len(MetricList)
  BY MetricLength
<1>2. \A evt : Calling(MetricList, evt, 2).todo # {}
  BY <1>1, CallingBusy
<1> QED
  BY <1>2, Zenon DEF Counted

-----------------------------------------------------------------------------
(* pattern_audit_fanout *)

AuditList == <<Entry(1, 0, "stdout"), Entry(2, 0, "file"), Entry(3, 0, "alert")>>
Audited(s, d) ==
  /\ s \in [captured : Seq(Severities), triggered : Nat]
  /\ \/ /\ \/ d.todo = {}
           \/ \E sev \in Severities, j \in 1..2 : d = Calling(AuditList, sev, j)
        /\ CriticalCount(s.captured) = s.triggered
     \/ \E sev \in Severities :
          /\ d = Calling(AuditList, sev, 3)
          /\ CriticalCount(s.captured) = s.triggered + Alerts(sev)
AuditState == [captured : Seq(Severities), triggered : Nat]

\* There are three sinks.
LEMMA AuditLength == Len(AuditList) = 3 /\ AuditList \in Seq(AnyEntry)
  BY DEF AuditList, Entry, AnyEntry, Hooks

\* What the sinks of pattern_audit_fanout do.
LEMMA SinkCalled ==
  ASSUME NEW event, NEW s
  PROVE  /\ Effect(AuditList[1], event, s) = Sink("stdout", event, s)
         /\ Effect(AuditList[2], event, s) = Sink("file", event, s)
         /\ Effect(AuditList[3], event, s) = Sink("alert", event, s)
<1>1. /\ AuditList[1].hook = "stdout" /\ AuditList[2].hook = "file"
      /\ AuditList[3].hook = "alert"
  BY DEF AuditList, Entry
<1>2. ASSUME NEW e, e.hook = "stdout" PROVE Effect(e, event, s) = Sink("stdout", event, s)
  BY <1>2 DEF Effect
<1>3. ASSUME NEW e, e.hook = "file" PROVE Effect(e, event, s) = Sink("file", event, s)
  BY <1>3 DEF Effect
<1>4. ASSUME NEW e, e.hook = "alert" PROVE Effect(e, event, s) = Sink("alert", event, s)
  BY <1>4 DEF Effect
<1> QED
  BY <1>1, <1>2, <1>3, <1>4, Zenon

\* A sink runs.
LEMMA AuditHandled ==
  ASSUME NEW s, NEW d, Audited(s, d), d.todo # {}, NEW s2, NEW d2, Handles(s, d, s2, d2)
  PROVE  Audited(s2, d2)
<1> USE Zenon
<1>1. s \in AuditState /\ s.captured \in Seq(Severities) /\ s.triggered \in Nat
  BY SMT DEF Audited, AuditState
\* What the sinks do.
<1>SinksDo. ASSUME NEW sev
            PROVE  /\ Effect(AuditList[1], sev, s) = s
                   /\ Effect(AuditList[2], sev, s) = [s EXCEPT !.captured = Append(@, sev)]
                   /\ Effect(AuditList[3], sev, s)
                        = IF sev = "Critical" THEN [s EXCEPT !.triggered = @ + 1] ELSE s
  <2>3. /\ Effect(AuditList[1], sev, s) = Sink("stdout", sev, s)
        /\ Effect(AuditList[2], sev, s) = Sink("file", sev, s)
        /\ Effect(AuditList[3], sev, s) = Sink("alert", sev, s)
    BY SinkCalled
  <2>4. /\ Sink("stdout", sev, s) = s
        /\ Sink("file", sev, s) = [s EXCEPT !.captured = Append(@, sev)]
        /\ Sink("alert", sev, s)
             = IF sev = "Critical" THEN [s EXCEPT !.triggered = @ + 1] ELSE s
    BY SMT DEF Sink
  <2> QED
    BY <2>3, <2>4
<1>2. ASSUME NEW sev \in Severities, d = Calling(AuditList, sev, 1),
             CriticalCount(s.captured) = s.triggered
      PROVE  Audited(s2, d2)
  <2>1. s2 = Effect(AuditList[1], sev, s) /\ d2 = Calling(AuditList, sev, 2)
    BY <1>2, AuditLength, CallsOfThree DEF Handlers
  <2>2. s2 = s
    BY <2>1, <1>SinksDo
  <2>3. 2 \in 1..2
    BY SMT
  <2> QED
    BY <1>1, <1>2, <2>1, <2>2, <2>3 DEF Audited, AuditState
<1>3. ASSUME NEW sev \in Severities, d = Calling(AuditList, sev, 2),
             CriticalCount(s.captured) = s.triggered
      PROVE  Audited(s2, d2)
  <2>1. s2 = Effect(AuditList[2], sev, s) /\ d2 = Calling(AuditList, sev, 3)
    BY <1>3, AuditLength, CallsOfThree DEF Handlers
  <2>2. s2 = [s EXCEPT !.captured = Append(s.captured, sev)]
    BY <2>1, <1>SinksDo
  <2>3. PICK q : q = Append(s.captured, sev)
    OBVIOUS
  <2>4. q \in Seq(Severities)
    BY <1>1, <2>3, SMT
  <2>5. s2 \in AuditState /\ s2.captured = q /\ s2.triggered = s.triggered
    BY <1>1, <2>2, <2>3, <2>4 DEF AuditState
  <2>6. CriticalCount(q) = CriticalCount(s.captured) + Alerts(sev)
    BY <1>1, <2>3, CriticalOneMore
  <2> QED
    BY <1>3, <2>1, <2>5, <2>6 DEF Audited, AuditState
<1>4. ASSUME NEW sev \in Severities, d = Calling(AuditList, sev, 3),
             CriticalCount(s.captured) = s.triggered + Alerts(sev)
      PROVE  Audited(s2, d2)
  <2>1. s2 = Effect(AuditList[3], sev, s) /\ d2.todo = {}
    BY <1>4, AuditLength, CallsOfThree DEF Handlers
  <2>2. /\ s2 \in AuditState /\ s2.captured = s.captured
        /\ s2.triggered = s.triggered + Alerts(sev)
    <3>1. CASE sev = "Critical"
      <4>1. s2 = [s EXCEPT !.triggered = s.triggered + 1] /\ Alerts(sev) = 1
        BY <2>1, <3>1, <1>SinksDo DEF Alerts
      <4>2. s.triggered + 1 \in Nat
        BY <1>1, SMT
      <4> QED
        BY <1>1, <4>1, <4>2 DEF AuditState
    <3>2. CASE sev # "Critical"
      <4>1. s2 = s /\ Alerts(sev) = 0
        BY <2>1, <3>2, <1>SinksDo DEF Alerts
      <4>2. s.triggered + 0 = s.triggered
        BY <1>1, SMT
      <4> QED
        BY <1>1, <4>1, <4>2
    <3> QED
      BY <3>1, <3>2
  <2> QED
    BY <1>4, <2>1, <2>2 DEF Audited, AuditState
<1>5. \A j \in 1..2 : j = 1 \/ j = 2
  BY SMT
<1> QED
  BY <1>2, <1>3, <1>4, <1>5 DEF Audited

\* Between two dispatches the alerts are the critical lines of the file.
LEMMA BetweenAudited ==
  ASSUME NEW s, NEW d, Audited(s, d), d.todo = {}
  PROVE  CriticalCount(s.captured) = s.triggered
<1>1. Len(AuditList) \in Nat /\ 3 \in 1..Len(AuditList)
  BY AuditLength
<1>2. \A sev : Calling(AuditList, sev, 3).todo # {}
  BY <1>1, CallingBusy
<1> QED
  BY <1>2, Zenon DEF Audited

-----------------------------------------------------------------------------
(* pattern_transaction_hooks *)

HooksList == <<Entry(1, 1000, "wal:flush"), Entry(2, 500, "cache:invalidate"),
               Entry(3, 0, "replication:send"), Entry(4, -100, "metrics")>>

\* The journal is flushed first.
Transitions == {"Begun", "Prepared", "Committed", "Aborted"}
TxEvents == [txid : Nat, transition : Transitions]
Hooked(s, d) ==
  /\ s \in [total : Nat, order : Seq(Nat \X Hooks \X Transitions), panic_count : Nat]
  /\ FlushedFirst(s.order)
  /\ \/ d.todo = {}
     \/ \E evt \in [txid : Nat, transition : Transitions], j \in 1..4 :
          /\ d = Calling(HooksList, evt, j)
          /\ j > 1 /\ evt.transition = "Committed" =>
               Flushed(s.order, evt.txid, Len(s.order))
HooksState == [total : Nat, order : Seq(Nat \X Hooks \X Transitions), panic_count : Nat]

\* There are four hooks.
LEMMA HooksLength == Len(HooksList) = 4 /\ HooksList \in Seq(AnyEntry)
  BY DEF HooksList, Entry, AnyEntry, Hooks

TransactionHook == {"wal:flush", "cache:invalidate", "replication:send", "metrics"}

\* What a hook of pattern_transaction_hooks does.
LEMMA HookCalled ==
  ASSUME NEW e, NEW event, NEW s, e.hook \in TransactionHook
  PROVE  Effect(e, event, s) = Hook(e.hook, event, s)
  BY DEF Effect, TransactionHook

\* A hook runs.
LEMMA HooksHandled ==
  ASSUME NEW s, NEW d, Hooked(s, d), d.todo # {}, NEW s2, NEW d2, Handles(s, d, s2, d2)
  PROVE  Hooked(s2, d2)
<1> USE Zenon
<1> DEFINE T == Nat \X Hooks \X Transitions
<1>1. s \in HooksState /\ FlushedFirst(s.order)
  BY DEF Hooked, HooksState
<1>2. PICK evt \in TxEvents, j \in 1..4 :
        /\ d = Calling(HooksList, evt, j)
        /\ j > 1 /\ evt.transition = "Committed" =>
             Flushed(s.order, evt.txid, Len(s.order))
  BY DEF Hooked, TxEvents
<1>3. /\ s2 = Effect(HooksList[j], evt, s)
      /\ d2.todo = {} \/ (j + 1 \in 1..4 /\ d2 = Calling(HooksList, evt, j + 1))
  <2>1. Len(HooksList) = 4 /\ Len(HooksList) \in Nat
    BY HooksLength, SMT
  <2>2. j \in 1..Len(HooksList)
    BY <2>1
  <2>3. Handles(s, Calling(HooksList, evt, j), s2, d2)
    BY <1>2
  <2>4. /\ s2 = Effect(HooksList[j], evt, s)
        /\ j >= Len(HooksList) => d2.todo = {}
        /\ j < Len(HooksList) => d2 = Calling(HooksList, evt, j + 1)
    BY <2>1, <2>2, <2>3, CallsInOrder
  <2>5. j >= Len(HooksList) \/ (j < Len(HooksList) /\ j + 1 \in 1..4)
    BY <2>1, <2>2, SMT
  <2> QED
    BY <2>4, <2>5
\* A hook pushes what it does or does nothing; the flush pushes every commit.
<1>4. PICK h, x : /\ h = HooksList[j].hook /\ x = <<evt.txid, h, evt.transition>>
  OBVIOUS
<1>10. /\ HooksList[1].hook = "wal:flush" /\ HooksList[2].hook = "cache:invalidate"
       /\ HooksList[3].hook = "replication:send" /\ HooksList[4].hook = "metrics"
  BY SMT DEF HooksList, Entry
<1>11. j \in {1, 2, 3, 4}
  BY SMT
<1>12. HooksList[j].hook \in TransactionHook /\ TransactionHook \subseteq Hooks
  BY <1>10, <1>11, SMT DEF TransactionHook, Hooks
<1>5. evt.txid \in Nat /\ evt.transition \in Transitions /\ h \in Hooks
  BY <1>2, <1>4, <1>12 DEF TxEvents
<1>6. x \in T /\ x[1] = evt.txid /\ x[2] = h /\ x[3] = evt.transition
  BY <1>4, <1>5, SMT
<1>7. /\ s2 = s \/ s2 = [s EXCEPT !.order = Append(@, x)]
      /\ j = 1 /\ evt.transition = "Committed" =>
           s2 = [s EXCEPT !.order = Append(@, x)] /\ x[2] = "wal:flush"
  <2>1. s2 = Hook(h, evt, s)
    <3>1. s2 = Hook(HooksList[j].hook, evt, s)
      BY <1>3, <1>12, HookCalled
    <3> QED
      BY <1>4, <3>1
  <2>2. j = 1 => h = "wal:flush" /\ x[2] = "wal:flush"
    BY <1>4, <1>6, <1>10
  <2>3. \/ Hook(h, evt, s) = s
        \/ Hook(h, evt, s)
             = [s EXCEPT !.order = Append(@, <<evt.txid, h, evt.transition>>)]
    BY DEF Hook
  <2>4. h = "wal:flush" /\ evt.transition = "Committed" =>
          Hook(h, evt, s)
            = [s EXCEPT !.order = Append(@, <<evt.txid, h, evt.transition>>)]
    BY SMT DEF Hook
  <2> QED
    BY <1>4, <2>1, <2>2, <2>3, <2>4
<1>8. j = 1 \/ j > 1
  BY SMT
<1>9. /\ s2 \in HooksState /\ FlushedFirst(s2.order)
      /\ evt.transition = "Committed" => Flushed(s2.order, evt.txid, Len(s2.order))
  <2>1. CASE s2 = [s EXCEPT !.order = Append(@, x)]
    <3>1. s.order \in Seq(T)
      BY <1>1 DEF HooksState
    <3>2. PICK q : q = Append(s.order, x)
      OBVIOUS
    <3> HIDE DEF T
    <3>3. q \in Seq(T)
      BY <1>6, <3>1, <3>2, SMT
    <3>4. x[3] = "Committed" => \/ Flushed(s.order, x[1], Len(s.order))
                                \/ x[2] = "wal:flush"
      BY <1>2, <1>6, <1>7, <1>8
    <3>5. FlushedFirst(q) /\ (x[3] = "Committed" => Flushed(q, x[1], Len(q)))
      BY <1>1, <1>6, <3>1, <3>2, <3>4, FlushGrows
    <3>6. s2 \in HooksState /\ s2.order = q
      BY <1>1, <2>1, <3>2, <3>3 DEF HooksState, T
    <3> QED
      BY <1>6, <3>5, <3>6
  <2>2. CASE s2 = s /\ ~(j = 1 /\ evt.transition = "Committed")
    BY <1>1, <1>2, <1>8, <2>2
  <2> QED
    BY <1>7, <2>1, <2>2
<1> QED
  BY <1>2, <1>3, <1>9 DEF Hooked, HooksState, TxEvents

-----------------------------------------------------------------------------
(* The handler list at each position of a script *)

BasicList == <<Entry(1, 0, "add"), Entry(2, 0, "print")>>
BasicLists ==
  <<<<>>, <<BasicList[1]>>, BasicList, BasicList, BasicList,
    <<BasicList[2]>>, <<BasicList[2]>>>>
BasicNexts == <<1, 2, 3, 3, 3, 3, 3>>
First == Entry(1, 0, "print")
Second == Entry(2, 0, "print")
GuardsLists ==
  <<<<>>, <<>>, <<First>>, <<First>>, <<First>>, <<>>, <<>>,
    <<Second>>, <<Second>>, <<Second>>, <<>>, <<>>>>
GuardsNexts == <<1, 1, 2, 2, 2, 2, 2, 3, 3, 3, 3, 3>>
PanicList == <<Entry(1, 0, "print"), Entry(2, 0, "panic"),
               Entry(3, 0, "print"), Entry(4, 0, "panic")>>
PanicLists ==
  <<<<>>, <<PanicList[1]>>, <<PanicList[1], PanicList[2]>>,
    <<PanicList[1], PanicList[2], PanicList[3]>>, PanicList, PanicList, PanicList>>
PanicNexts == <<1, 2, 3, 4, 5, 5, 5>>
AuditLists ==
  <<<<>>, <<AuditList[1]>>, <<AuditList[1], AuditList[2]>>,
    AuditList, AuditList, AuditList, AuditList,
    <<AuditList[1], AuditList[3]>>, <<AuditList[1]>>, <<>>, <<>>>>
AuditNexts == <<1, 2, 3, 4, 4, 4, 4, 4, 4, 4, 4>>
ReloadLists ==
  <<<<>>, <<ReloadList[1]>>, ReloadList, ReloadList, ReloadList, ReloadList, ReloadList>>
ReloadNexts == <<1, 2, 3, 3, 3, 3, 3>>
HooksLists ==
  <<<<>>, <<HooksList[1]>>, <<HooksList[1], HooksList[2]>>,
    <<HooksList[1], HooksList[2], HooksList[3]>>, HooksList,
    HooksList, HooksList, HooksList, HooksList, HooksList>>
HooksNexts == <<1, 2, 3, 4, 5, 5, 5, 5, 5, 5>>

\* What a call makes of the handler list l, with next id n.
Leads(c, l, n, l2, n2) ==
  \/ /\ c.call = "register"
     /\ l2 = Insert(l, Entry(n, c.priority, c.hook)) /\ n2 = n + 1
  \/ /\ c.call \in {"unregister", "drop"}
     /\ ContainsId(l, c.id) /\ l2 = RemoveId(l, c.id) /\ n2 = n
  \/ c.call = "count" /\ Len(l) = c.n /\ l2 = l /\ n2 = n
  \/ c.call \in {"notify", "mutate"} /\ l2 = l /\ n2 = n

\* The table goes with the script m.
Follows(m, lists, nexts) ==
  /\ m \in Seq(Range(m))
  /\ lists[1] = <<>> /\ nexts[1] = 1
  /\ \A k \in 1..Len(m) : Leads(m[k], lists[k], nexts[k], lists[k + 1], nexts[k + 1])

\* basic.rs: the asserted unregister finds the first handler.
LEMMA BasicFollows == Follows(Basic, BasicLists, BasicNexts)
<1> DEFINE a == Entry(1, 0, "add")
           b == Entry(2, 0, "print")
<1>1. /\ a \in AnyEntry /\ b \in AnyEntry /\ a.id = 1 /\ b.id = 2
      /\ a.priority = 0 /\ b.priority = 0
  BY DEF Entry, AnyEntry, Hooks
<1> HIDE DEF a, b
<1>2. /\ Insert(<<>>, a) = <<a>> /\ Insert(<<a>>, b) = <<a, b>>
      /\ ContainsId(<<a, b>>, 1) /\ RemoveId(<<a, b>>, 1) = <<b>>
  BY <1>1, FirstInserted, OneOfTwoRemoved, SecondInserted
<1>3. /\ Basic[1] = Register(0, "add") /\ Basic[2] = Register(0, "print")
      /\ Basic[3] = Notify(2) /\ Basic[4] = Notify(3)
      /\ Basic[5] = Unregister(1) /\ Basic[6] = Notify(100)
  BY DEF Basic
<1> DEFINE C == {Register(0, "add"), Register(0, "print"), Notify(2), Notify(3),
                 Unregister(1), Notify(100)}
<1>4. Len(Basic) = 6 /\ Basic \in Seq(C)
  BY DEF Basic
<1> HIDE DEF C
<1>5. Basic \in Seq(Range(Basic))
  BY <1>4, SeqInRange, Zenon
<1>6. /\ BasicList = <<a, b>> /\ BasicList[1] = a /\ BasicList[2] = b
  BY DEF BasicList, a, b
<1>7. /\ BasicLists[1] = <<>> /\ BasicLists[2] = <<a>>
      /\ BasicLists[3] = <<a, b>> /\ BasicLists[4] = <<a, b>>
      /\ BasicLists[5] = <<a, b>> /\ BasicLists[6] = <<b>>
      /\ BasicLists[7] = <<b>>
  BY <1>6 DEF BasicLists
<1>8. /\ BasicNexts[1] = 1 /\ BasicNexts[2] = 2 /\ BasicNexts[3] = 3
      /\ BasicNexts[4] = 3 /\ BasicNexts[5] = 3 /\ BasicNexts[6] = 3
      /\ BasicNexts[7] = 3
  BY DEF BasicNexts
<1>11. Leads(Register(0, "add"), <<>>, 1, <<a>>, 2)
  BY <1>2 DEF Leads, Register, Entry, a
<1>12. Leads(Register(0, "print"), <<a>>, 2, <<a, b>>, 3)
  BY <1>2 DEF Leads, Register, Entry, b
<1>13. Leads(Notify(2), <<a, b>>, 3, <<a, b>>, 3)
  BY DEF Leads, Notify
<1>14. Leads(Notify(3), <<a, b>>, 3, <<a, b>>, 3)
  BY DEF Leads, Notify
<1>15. Leads(Unregister(1), <<a, b>>, 3, <<b>>, 3)
  BY <1>2 DEF Leads, Unregister
<1>16. Leads(Notify(100), <<b>>, 3, <<b>>, 3)
  BY DEF Leads, Notify
<1>9. ASSUME NEW k \in 1..6
      PROVE  Leads(Basic[k], BasicLists[k], BasicNexts[k],
                   BasicLists[k + 1], BasicNexts[k + 1])
  <2> USE <1>3, <1>7, <1>8
  <2>1. Leads(Basic[1], BasicLists[1], BasicNexts[1], BasicLists[2], BasicNexts[2])
    BY <1>11, Zenon
  <2>2. Leads(Basic[2], BasicLists[2], BasicNexts[2], BasicLists[3], BasicNexts[3])
    BY <1>12, Zenon
  <2>3. Leads(Basic[3], BasicLists[3], BasicNexts[3], BasicLists[4], BasicNexts[4])
    BY <1>13, Zenon
  <2>4. Leads(Basic[4], BasicLists[4], BasicNexts[4], BasicLists[5], BasicNexts[5])
    BY <1>14, Zenon
  <2>5. Leads(Basic[5], BasicLists[5], BasicNexts[5], BasicLists[6], BasicNexts[6])
    BY <1>15, Zenon
  <2>6. Leads(Basic[6], BasicLists[6], BasicNexts[6], BasicLists[7], BasicNexts[7])
    BY <1>16, Zenon
  <2> HIDE <1>3, <1>7, <1>8
  <2> QED
    BY <2>1, <2>2, <2>3, <2>4, <2>5, <2>6
<1> QED
  BY <1>4, <1>5, <1>7, <1>8, <1>9, Zenon DEF Follows

\* guards.rs: the four counts, and the asserted unregister.
LEMMA GuardsFollows == Follows(Guards, GuardsLists, GuardsNexts)
<1> DEFINE a == Entry(1, 0, "print")
           b == Entry(2, 0, "print")
<1>1. /\ a \in AnyEntry /\ b \in AnyEntry /\ a.id = 1 /\ b.id = 2
      /\ a.priority = 0 /\ b.priority = 0
  BY DEF Entry, AnyEntry, Hooks
<1> HIDE DEF a, b
<1>2. /\ Insert(<<>>, a) = <<a>> /\ ContainsId(<<a>>, 1)
      /\ RemoveId(<<a>>, 1) = <<>> /\ Insert(<<>>, b) = <<b>>
      /\ ContainsId(<<b>>, 2) /\ RemoveId(<<b>>, 2) = <<>>
  BY <1>1, FirstInserted, OnlyRemoved
<1>3. /\ Guards[1] = Count(0) /\ Guards[2] = Register(0, "print")
      /\ Guards[3] = Count(1) /\ Guards[4] = Notify(7)
      /\ Guards[5] = DropGuard(1) /\ Guards[6] = Count(0)
      /\ Guards[7] = Register(0, "print") /\ Guards[8] = Count(1)
      /\ Guards[9] = Notify(42) /\ Guards[10] = Unregister(2)
      /\ Guards[11] = Count(0)
  BY DEF Guards
<1> DEFINE C == {Count(0), Register(0, "print"), Count(1), Notify(7),
                 DropGuard(1), Notify(42), Unregister(2)}
<1>4. Len(Guards) = 11 /\ Guards \in Seq(C)
  BY DEF Guards
<1> HIDE DEF C
<1>5. Guards \in Seq(Range(Guards))
  BY <1>4, SeqInRange, Zenon
<1>6. First = a /\ Second = b
  BY DEF First, Second, a, b
<1>7. /\ GuardsLists[1] = <<>> /\ GuardsLists[2] = <<>>
      /\ GuardsLists[3] = <<a>> /\ GuardsLists[4] = <<a>>
      /\ GuardsLists[5] = <<a>> /\ GuardsLists[6] = <<>>
      /\ GuardsLists[7] = <<>> /\ GuardsLists[8] = <<b>>
      /\ GuardsLists[9] = <<b>> /\ GuardsLists[10] = <<b>>
      /\ GuardsLists[11] = <<>> /\ GuardsLists[12] = <<>>
  BY <1>6 DEF GuardsLists
<1>8. /\ GuardsNexts[1] = 1 /\ GuardsNexts[2] = 1 /\ GuardsNexts[3] = 2
      /\ GuardsNexts[4] = 2 /\ GuardsNexts[5] = 2 /\ GuardsNexts[6] = 2
      /\ GuardsNexts[7] = 2 /\ GuardsNexts[8] = 3 /\ GuardsNexts[9] = 3
      /\ GuardsNexts[10] = 3 /\ GuardsNexts[11] = 3 /\ GuardsNexts[12] = 3
  BY DEF GuardsNexts
<1>11. Leads(Count(0), <<>>, 1, <<>>, 1)
  BY DEF Leads, Count
<1>12. Leads(Register(0, "print"), <<>>, 1, <<a>>, 2)
  BY <1>2 DEF Leads, Register, Entry, a
<1>13. Leads(Count(1), <<a>>, 2, <<a>>, 2)
  BY DEF Leads, Count
<1>14. Leads(Notify(7), <<a>>, 2, <<a>>, 2)
  BY DEF Leads, Notify
<1>15. Leads(DropGuard(1), <<a>>, 2, <<>>, 2)
  BY <1>2 DEF Leads, DropGuard
<1>16. Leads(Count(0), <<>>, 2, <<>>, 2)
  BY DEF Leads, Count
<1>17. Leads(Register(0, "print"), <<>>, 2, <<b>>, 3)
  BY <1>2 DEF Leads, Register, Entry, b
<1>18. Leads(Count(1), <<b>>, 3, <<b>>, 3)
  BY DEF Leads, Count
<1>19. Leads(Notify(42), <<b>>, 3, <<b>>, 3)
  BY DEF Leads, Notify
<1>20. Leads(Unregister(2), <<b>>, 3, <<>>, 3)
  BY <1>2 DEF Leads, Unregister
<1>21. Leads(Count(0), <<>>, 3, <<>>, 3)
  BY DEF Leads, Count
<1>9. ASSUME NEW k \in 1..11
      PROVE  Leads(Guards[k], GuardsLists[k], GuardsNexts[k],
                   GuardsLists[k + 1], GuardsNexts[k + 1])
  <2> USE <1>3, <1>7, <1>8
  <2>1. Leads(Guards[1], GuardsLists[1], GuardsNexts[1], GuardsLists[2], GuardsNexts[2])
    BY <1>11, Zenon
  <2>2. Leads(Guards[2], GuardsLists[2], GuardsNexts[2], GuardsLists[3], GuardsNexts[3])
    BY <1>12, Zenon
  <2>3. Leads(Guards[3], GuardsLists[3], GuardsNexts[3], GuardsLists[4], GuardsNexts[4])
    BY <1>13, Zenon
  <2>4. Leads(Guards[4], GuardsLists[4], GuardsNexts[4], GuardsLists[5], GuardsNexts[5])
    BY <1>14, Zenon
  <2>5. Leads(Guards[5], GuardsLists[5], GuardsNexts[5], GuardsLists[6], GuardsNexts[6])
    BY <1>15, Zenon
  <2>6. Leads(Guards[6], GuardsLists[6], GuardsNexts[6], GuardsLists[7], GuardsNexts[7])
    BY <1>16, Zenon
  <2>7. Leads(Guards[7], GuardsLists[7], GuardsNexts[7], GuardsLists[8], GuardsNexts[8])
    BY <1>17, Zenon
  <2>8. Leads(Guards[8], GuardsLists[8], GuardsNexts[8], GuardsLists[9], GuardsNexts[9])
    BY <1>18, Zenon
  <2>9. Leads(Guards[9], GuardsLists[9], GuardsNexts[9], GuardsLists[10], GuardsNexts[10])
    BY <1>19, Zenon
  <2>10. Leads(Guards[10], GuardsLists[10], GuardsNexts[10],
               GuardsLists[11], GuardsNexts[11])
    BY <1>20, Zenon
  <2>11. Leads(Guards[11], GuardsLists[11], GuardsNexts[11],
               GuardsLists[12], GuardsNexts[12])
    BY <1>21, Zenon
  <2> HIDE <1>3, <1>7, <1>8
  <2> QED
    BY <2>1, <2>2, <2>3, <2>4, <2>5, <2>6, <2>7, <2>8, <2>9, <2>10, <2>11, SMTT(30)
<1> QED
  BY <1>4, <1>5, <1>7, <1>8, <1>9, Zenon DEF Follows

\* panic_isolation.rs: four handlers are registered at the count.
LEMMA PanicIsolationFollows == Follows(PanicIsolation, PanicLists, PanicNexts)
<1> DEFINE a == Entry(1, 0, "print")
           b == Entry(2, 0, "panic")
           c == Entry(3, 0, "print")
           d == Entry(4, 0, "panic")
<1>1. /\ a \in AnyEntry /\ b \in AnyEntry /\ c \in AnyEntry /\ d \in AnyEntry
      /\ a.id = 1 /\ b.id = 2 /\ c.id = 3 /\ d.id = 4 /\ a.priority = 0
      /\ b.priority = 0 /\ c.priority = 0 /\ d.priority = 0
  BY DEF Entry, AnyEntry, Hooks
<1> HIDE DEF a, b, c, d
<1>2. /\ Insert(<<>>, a) = <<a>> /\ Insert(<<a>>, b) = <<a, b>>
      /\ Insert(<<a, b>>, c) = <<a, b, c>>
      /\ Insert(<<a, b, c>>, d) = <<a, b, c, d>>
  BY <1>1, FirstInserted, FourthInserted, SecondInserted, ThirdInserted
<1>3. /\ PanicIsolation[1] = Register(0, "print")
      /\ PanicIsolation[2] = Register(0, "panic")
      /\ PanicIsolation[3] = Register(0, "print")
      /\ PanicIsolation[4] = Register(0, "panic")
      /\ PanicIsolation[5] = Count(4) /\ PanicIsolation[6] = Notify("()")
  BY DEF PanicIsolation
<1> DEFINE C == {Register(0, "print"), Register(0, "panic"), Count(4),
                 Notify("()")}
<1>4. Len(PanicIsolation) = 6 /\ PanicIsolation \in Seq(C)
  BY DEF PanicIsolation
<1> HIDE DEF C
<1>5. PanicIsolation \in Seq(Range(PanicIsolation))
  BY <1>4, SeqInRange, Zenon
<1>6. /\ PanicList = <<a, b, c, d>> /\ PanicList[1] = a /\ PanicList[2] = b
      /\ PanicList[3] = c /\ PanicList[4] = d
  BY DEF PanicList, a, b, c, d
<1>7. /\ PanicLists[1] = <<>> /\ PanicLists[2] = <<a>>
      /\ PanicLists[3] = <<a, b>> /\ PanicLists[4] = <<a, b, c>>
      /\ PanicLists[5] = <<a, b, c, d>> /\ PanicLists[6] = <<a, b, c, d>>
      /\ PanicLists[7] = <<a, b, c, d>>
  BY <1>6 DEF PanicLists
<1>8. /\ PanicNexts[1] = 1 /\ PanicNexts[2] = 2 /\ PanicNexts[3] = 3
      /\ PanicNexts[4] = 4 /\ PanicNexts[5] = 5 /\ PanicNexts[6] = 5
      /\ PanicNexts[7] = 5
  BY DEF PanicNexts
<1>11. Leads(Register(0, "print"), <<>>, 1, <<a>>, 2)
  BY <1>2 DEF Leads, Register, Entry, a
<1>12. Leads(Register(0, "panic"), <<a>>, 2, <<a, b>>, 3)
  BY <1>2 DEF Leads, Register, Entry, b
<1>13. Leads(Register(0, "print"), <<a, b>>, 3, <<a, b, c>>, 4)
  BY <1>2 DEF Leads, Register, Entry, c
<1>14. Leads(Register(0, "panic"), <<a, b, c>>, 4, <<a, b, c, d>>, 5)
  BY <1>2 DEF Leads, Register, Entry, d
<1>15. Leads(Count(4), <<a, b, c, d>>, 5, <<a, b, c, d>>, 5)
  BY DEF Leads, Count
<1>16. Leads(Notify("()"), <<a, b, c, d>>, 5, <<a, b, c, d>>, 5)
  BY DEF Leads, Notify
<1>9. ASSUME NEW k \in 1..6
      PROVE  Leads(PanicIsolation[k], PanicLists[k], PanicNexts[k],
                   PanicLists[k + 1], PanicNexts[k + 1])
  <2> USE <1>3, <1>7, <1>8
  <2>1. Leads(PanicIsolation[1], PanicLists[1], PanicNexts[1], PanicLists[2], PanicNexts[2])
    BY <1>11, Zenon
  <2>2. Leads(PanicIsolation[2], PanicLists[2], PanicNexts[2], PanicLists[3], PanicNexts[3])
    BY <1>12, Zenon
  <2>3. Leads(PanicIsolation[3], PanicLists[3], PanicNexts[3], PanicLists[4], PanicNexts[4])
    BY <1>13, Zenon
  <2>4. Leads(PanicIsolation[4], PanicLists[4], PanicNexts[4], PanicLists[5], PanicNexts[5])
    BY <1>14, Zenon
  <2>5. Leads(PanicIsolation[5], PanicLists[5], PanicNexts[5], PanicLists[6], PanicNexts[6])
    BY <1>15, Zenon
  <2>6. Leads(PanicIsolation[6], PanicLists[6], PanicNexts[6], PanicLists[7], PanicNexts[7])
    BY <1>16, Zenon
  <2> HIDE <1>3, <1>7, <1>8
  <2> QED
    BY <2>1, <2>2, <2>3, <2>4, <2>5, <2>6
<1> QED
  BY <1>4, <1>5, <1>7, <1>8, <1>9, Zenon DEF Follows

\* pattern_audit_fanout.rs: the guards drop all three sinks.
LEMMA AuditFanoutFollows == Follows(AuditFanout, AuditLists, AuditNexts)
<1> DEFINE a == Entry(1, 0, "stdout")
           b == Entry(2, 0, "file")
           c == Entry(3, 0, "alert")
<1>1. /\ a \in AnyEntry /\ b \in AnyEntry /\ c \in AnyEntry /\ a.id = 1
      /\ b.id = 2 /\ c.id = 3 /\ a.priority = 0 /\ b.priority = 0
      /\ c.priority = 0
  BY DEF Entry, AnyEntry, Hooks
<1> HIDE DEF a, b, c
<1>2. /\ Insert(<<>>, a) = <<a>> /\ Insert(<<a>>, b) = <<a, b>>
      /\ Insert(<<a, b>>, c) = <<a, b, c>> /\ ContainsId(<<a, b, c>>, 2)
      /\ RemoveId(<<a, b, c>>, 2) = <<a, c>> /\ ContainsId(<<a, c>>, 3)
      /\ RemoveId(<<a, c>>, 3) = <<a>> /\ ContainsId(<<a>>, 1)
      /\ RemoveId(<<a>>, 1) = <<>>
  BY <1>1, FirstInserted, MiddleRemoved, OneOfTwoRemoved, OnlyRemoved, SecondInserted,
     ThirdInserted, SMTT(30)
<1>3. /\ AuditFanout[1] = Register(0, "stdout")
      /\ AuditFanout[2] = Register(0, "file")
      /\ AuditFanout[3] = Register(0, "alert")
      /\ AuditFanout[4] = Notify("Info") /\ AuditFanout[5] = Notify("Warn")
      /\ AuditFanout[6] = Notify("Critical") /\ AuditFanout[7] = DropGuard(2)
      /\ AuditFanout[8] = DropGuard(3) /\ AuditFanout[9] = DropGuard(1)
      /\ AuditFanout[10] = Count(0)
  BY DEF AuditFanout
<1> DEFINE C == {Register(0, "stdout"), Register(0, "file"),
                 Register(0, "alert"), Notify("Info"), Notify("Warn"),
                 Notify("Critical"), DropGuard(2), DropGuard(3), DropGuard(1),
                 Count(0)}
<1>4. Len(AuditFanout) = 10 /\ AuditFanout \in Seq(C)
  BY DEF AuditFanout
<1> HIDE DEF C
<1>5. AuditFanout \in Seq(Range(AuditFanout))
  BY <1>4, SeqInRange, Zenon
<1>6. /\ AuditList = <<a, b, c>> /\ AuditList[1] = a /\ AuditList[2] = b
      /\ AuditList[3] = c
  BY DEF AuditList, a, b, c
<1>7. /\ AuditLists[1] = <<>> /\ AuditLists[2] = <<a>>
      /\ AuditLists[3] = <<a, b>> /\ AuditLists[4] = <<a, b, c>>
      /\ AuditLists[5] = <<a, b, c>> /\ AuditLists[6] = <<a, b, c>>
      /\ AuditLists[7] = <<a, b, c>> /\ AuditLists[8] = <<a, c>>
      /\ AuditLists[9] = <<a>> /\ AuditLists[10] = <<>>
      /\ AuditLists[11] = <<>>
  BY <1>6 DEF AuditLists
<1>8. /\ AuditNexts[1] = 1 /\ AuditNexts[2] = 2 /\ AuditNexts[3] = 3
      /\ AuditNexts[4] = 4 /\ AuditNexts[5] = 4 /\ AuditNexts[6] = 4
      /\ AuditNexts[7] = 4 /\ AuditNexts[8] = 4 /\ AuditNexts[9] = 4
      /\ AuditNexts[10] = 4 /\ AuditNexts[11] = 4
  BY DEF AuditNexts
<1>11. Leads(Register(0, "stdout"), <<>>, 1, <<a>>, 2)
  BY <1>2 DEF Leads, Register, Entry, a
<1>12. Leads(Register(0, "file"), <<a>>, 2, <<a, b>>, 3)
  BY <1>2 DEF Leads, Register, Entry, b
<1>13. Leads(Register(0, "alert"), <<a, b>>, 3, <<a, b, c>>, 4)
  BY <1>2 DEF Leads, Register, Entry, c
<1>14. Leads(Notify("Info"), <<a, b, c>>, 4, <<a, b, c>>, 4)
  BY DEF Leads, Notify
<1>15. Leads(Notify("Warn"), <<a, b, c>>, 4, <<a, b, c>>, 4)
  BY DEF Leads, Notify
<1>16. Leads(Notify("Critical"), <<a, b, c>>, 4, <<a, b, c>>, 4)
  BY DEF Leads, Notify
<1>17. Leads(DropGuard(2), <<a, b, c>>, 4, <<a, c>>, 4)
  BY <1>2 DEF Leads, DropGuard
<1>18. Leads(DropGuard(3), <<a, c>>, 4, <<a>>, 4)
  BY <1>2 DEF Leads, DropGuard
<1>19. Leads(DropGuard(1), <<a>>, 4, <<>>, 4)
  BY <1>2 DEF Leads, DropGuard
<1>20. Leads(Count(0), <<>>, 4, <<>>, 4)
  BY DEF Leads, Count
<1>9. ASSUME NEW k \in 1..10
      PROVE  Leads(AuditFanout[k], AuditLists[k], AuditNexts[k],
                   AuditLists[k + 1], AuditNexts[k + 1])
  <2> USE <1>3, <1>7, <1>8
  <2>1. Leads(AuditFanout[1], AuditLists[1], AuditNexts[1], AuditLists[2], AuditNexts[2])
    BY <1>11, Zenon
  <2>2. Leads(AuditFanout[2], AuditLists[2], AuditNexts[2], AuditLists[3], AuditNexts[3])
    BY <1>12, Zenon
  <2>3. Leads(AuditFanout[3], AuditLists[3], AuditNexts[3], AuditLists[4], AuditNexts[4])
    BY <1>13, Zenon
  <2>4. Leads(AuditFanout[4], AuditLists[4], AuditNexts[4], AuditLists[5], AuditNexts[5])
    BY <1>14, Zenon
  <2>5. Leads(AuditFanout[5], AuditLists[5], AuditNexts[5], AuditLists[6], AuditNexts[6])
    BY <1>15, Zenon
  <2>6. Leads(AuditFanout[6], AuditLists[6], AuditNexts[6], AuditLists[7], AuditNexts[7])
    BY <1>16, Zenon
  <2>7. Leads(AuditFanout[7], AuditLists[7], AuditNexts[7], AuditLists[8], AuditNexts[8])
    BY <1>17, Zenon
  <2>8. Leads(AuditFanout[8], AuditLists[8], AuditNexts[8], AuditLists[9], AuditNexts[9])
    BY <1>18, Zenon
  <2>9. Leads(AuditFanout[9], AuditLists[9], AuditNexts[9], AuditLists[10], AuditNexts[10])
    BY <1>19, Zenon
  <2>10. Leads(AuditFanout[10], AuditLists[10], AuditNexts[10],
               AuditLists[11], AuditNexts[11])
    BY <1>20, Zenon
  <2> HIDE <1>3, <1>7, <1>8
  <2> QED
    BY <2>1, <2>2, <2>3, <2>4, <2>5, <2>6, <2>7, <2>8, <2>9, <2>10, SMTT(30)
<1> QED
  BY <1>4, <1>5, <1>7, <1>8, <1>9, Zenon DEF Follows

\* pattern_hot_reload.rs: both subscribers are there at every mutation.
LEMMA HotReloadFollows == Follows(HotReload, ReloadLists, ReloadNexts)
<1> DEFINE a == Entry(1, 0, "timeout")
           b == Entry(2, 0, "toggle")
           on == Mutate("feature_flag_search_v2", TRUE)
           off == Mutate("feature_flag_search_v2", FALSE)
<1>1. /\ a \in AnyEntry /\ b \in AnyEntry /\ a.id = 1 /\ b.id = 2
      /\ a.priority = 0 /\ b.priority = 0
  BY DEF Entry, AnyEntry, Hooks
<1> HIDE DEF a, b
<1>2. /\ Insert(<<>>, a) = <<a>> /\ Insert(<<a>>, b) = <<a, b>>
  BY <1>1, FirstInserted, SecondInserted
<1>3. /\ HotReload[1] = Register(0, "timeout")
      /\ HotReload[2] = Register(0, "toggle")
      /\ HotReload[3] = Mutate("request_timeout_ms", 5000)
      /\ HotReload[4] = on
      /\ HotReload[5] = off
      /\ HotReload[6] = on
  BY DEF HotReload
<1> DEFINE C == {Register(0, "timeout"), Register(0, "toggle"),
                 Mutate("request_timeout_ms", 5000),
                 on,
                 off}
<1>4. Len(HotReload) = 6 /\ HotReload \in Seq(C)
  BY DEF HotReload
<1> HIDE DEF C, on, off
<1>5. HotReload \in Seq(Range(HotReload))
  BY <1>4, SeqInRange, Zenon
<1>6. /\ ReloadList = <<a, b>> /\ ReloadList[1] = a /\ ReloadList[2] = b
  BY DEF ReloadList, a, b
<1>7. /\ ReloadLists[1] = <<>> /\ ReloadLists[2] = <<a>>
      /\ ReloadLists[3] = <<a, b>> /\ ReloadLists[4] = <<a, b>>
      /\ ReloadLists[5] = <<a, b>> /\ ReloadLists[6] = <<a, b>>
      /\ ReloadLists[7] = <<a, b>>
  BY <1>6 DEF ReloadLists
<1>8. /\ ReloadNexts[1] = 1 /\ ReloadNexts[2] = 2 /\ ReloadNexts[3] = 3
      /\ ReloadNexts[4] = 3 /\ ReloadNexts[5] = 3 /\ ReloadNexts[6] = 3
      /\ ReloadNexts[7] = 3
  BY DEF ReloadNexts
<1>11. Leads(Register(0, "timeout"), <<>>, 1, <<a>>, 2)
  BY <1>2 DEF Leads, Register, Entry, a
<1>12. Leads(Register(0, "toggle"), <<a>>, 2, <<a, b>>, 3)
  BY <1>2 DEF Leads, Register, Entry, b
<1>13. Leads(Mutate("request_timeout_ms", 5000), <<a, b>>, 3, <<a, b>>, 3)
  BY DEF Leads, Mutate
<1>14. Leads(on, <<a, b>>, 3, <<a, b>>, 3)
  BY DEF Leads, Mutate, on, off
<1>15. Leads(off, <<a, b>>, 3, <<a, b>>, 3)
  BY SMTT(30) DEF Leads, Mutate, on, off
<1>9. ASSUME NEW k \in 1..6
      PROVE  Leads(HotReload[k], ReloadLists[k], ReloadNexts[k],
                   ReloadLists[k + 1], ReloadNexts[k + 1])
  <2> USE <1>3, <1>7, <1>8
  <2>1. Leads(HotReload[1], ReloadLists[1], ReloadNexts[1], ReloadLists[2], ReloadNexts[2])
    BY <1>11
  <2>2. Leads(HotReload[2], ReloadLists[2], ReloadNexts[2], ReloadLists[3], ReloadNexts[3])
    BY <1>12
  <2>3. Leads(HotReload[3], ReloadLists[3], ReloadNexts[3], ReloadLists[4], ReloadNexts[4])
    BY <1>13
  <2>4. Leads(HotReload[4], ReloadLists[4], ReloadNexts[4], ReloadLists[5], ReloadNexts[5])
    BY <1>14
  <2>5. Leads(HotReload[5], ReloadLists[5], ReloadNexts[5], ReloadLists[6], ReloadNexts[6])
    BY <1>15
  <2>6. Leads(HotReload[6], ReloadLists[6], ReloadNexts[6], ReloadLists[7], ReloadNexts[7])
    BY <1>14
  <2> HIDE <1>3, <1>7, <1>8
  <2> QED
    BY <2>1, <2>2, <2>3, <2>4, <2>5, <2>6
<1> QED
  BY <1>4, <1>5, <1>7, <1>8, <1>9, Zenon DEF Follows

\* pattern_transaction_hooks.rs: the hooks stand in order of priority.
LEMMA TransactionHooksFollows == Follows(TransactionHooks, HooksLists, HooksNexts)
<1> DEFINE a == Entry(1, 1000, "wal:flush")
           b == Entry(2, 500, "cache:invalidate")
           c == Entry(3, 0, "replication:send")
           d == Entry(4, -100, "metrics")
           flush == Register(1000, "wal:flush")
           invalidate == Register(500, "cache:invalidate")
           send == Register(0, "replication:send")
           meter == Register(-100, "metrics")
           begun == Transition(42, "Begun")
           prepared == Transition(42, "Prepared")
           committed == Transition(42, "Committed")
           begun2 == Transition(43, "Begun")
           aborted == Transition(43, "Aborted")
<1>1. /\ a \in AnyEntry /\ b \in AnyEntry /\ c \in AnyEntry /\ d \in AnyEntry
      /\ a.id = 1 /\ b.id = 2 /\ c.id = 3 /\ d.id = 4 /\ a.priority = 1000
      /\ b.priority = 500 /\ c.priority = 0 /\ d.priority = -100
  BY DEF Entry, AnyEntry, Hooks
<1> HIDE DEF a, b, c, d
<1>2. /\ Insert(<<>>, a) = <<a>> /\ Insert(<<a>>, b) = <<a, b>>
      /\ Insert(<<a, b>>, c) = <<a, b, c>>
      /\ Insert(<<a, b, c>>, d) = <<a, b, c, d>>
  BY <1>1, FirstInserted, FourthInserted, SecondInserted, ThirdInserted
<1>3. /\ TransactionHooks[1] = flush
      /\ TransactionHooks[2] = invalidate
      /\ TransactionHooks[3] = send
      /\ TransactionHooks[4] = meter
      /\ TransactionHooks[5] = begun
      /\ TransactionHooks[6] = prepared
      /\ TransactionHooks[7] = committed
      /\ TransactionHooks[8] = begun2
      /\ TransactionHooks[9] = aborted
  BY DEF TransactionHooks
<1> DEFINE C == {flush, invalidate, send, meter,
                 begun, prepared, committed, begun2, aborted}
<1>4. Len(TransactionHooks) = 9 /\ TransactionHooks \in Seq(C)
  BY DEF TransactionHooks
<1> HIDE DEF C, flush, invalidate, send, meter,
             begun, prepared, committed, begun2, aborted
<1>5. TransactionHooks \in Seq(Range(TransactionHooks))
  BY <1>4, SeqInRange, Zenon
<1>6. /\ HooksList = <<a, b, c, d>> /\ HooksList[1] = a /\ HooksList[2] = b
      /\ HooksList[3] = c /\ HooksList[4] = d
  BY DEF HooksList, a, b, c, d
<1>7. /\ HooksLists[1] = <<>> /\ HooksLists[2] = <<a>>
      /\ HooksLists[3] = <<a, b>> /\ HooksLists[4] = <<a, b, c>>
      /\ HooksLists[5] = <<a, b, c, d>> /\ HooksLists[6] = <<a, b, c, d>>
      /\ HooksLists[7] = <<a, b, c, d>> /\ HooksLists[8] = <<a, b, c, d>>
      /\ HooksLists[9] = <<a, b, c, d>> /\ HooksLists[10] = <<a, b, c, d>>
  BY <1>6 DEF HooksLists
<1>8. /\ HooksNexts[1] = 1 /\ HooksNexts[2] = 2 /\ HooksNexts[3] = 3
      /\ HooksNexts[4] = 4 /\ HooksNexts[5] = 5 /\ HooksNexts[6] = 5
      /\ HooksNexts[7] = 5 /\ HooksNexts[8] = 5 /\ HooksNexts[9] = 5
      /\ HooksNexts[10] = 5
  BY DEF HooksNexts
<1>11. Leads(flush, <<>>, 1, <<a>>, 2)
  BY <1>2 DEF Leads, Register, Entry, a, flush
<1>12. Leads(invalidate, <<a>>, 2, <<a, b>>, 3)
  BY <1>2 DEF Leads, Register, Entry, b, invalidate
<1>13. Leads(send, <<a, b>>, 3, <<a, b, c>>, 4)
  BY <1>2 DEF Leads, Register, Entry, c, send
<1>14. Leads(meter, <<a, b, c>>, 4, <<a, b, c, d>>, 5)
  BY <1>2 DEF Leads, Register, Entry, d, meter
<1>15. Leads(begun, <<a, b, c, d>>, 5, <<a, b, c, d>>, 5)
  BY DEF Leads, Transition, Notify, begun
<1>16. Leads(prepared, <<a, b, c, d>>, 5, <<a, b, c, d>>, 5)
  BY DEF Leads, Transition, Notify, prepared
<1>17. Leads(committed, <<a, b, c, d>>, 5, <<a, b, c, d>>, 5)
  BY DEF Leads, Transition, Notify, committed
<1>18. Leads(begun2, <<a, b, c, d>>, 5, <<a, b, c, d>>, 5)
  BY DEF Leads, Transition, Notify, begun2
<1>19. Leads(aborted, <<a, b, c, d>>, 5, <<a, b, c, d>>, 5)
  BY DEF Leads, Transition, Notify, aborted
<1>9. ASSUME NEW k \in 1..9
      PROVE  Leads(TransactionHooks[k], HooksLists[k], HooksNexts[k],
                   HooksLists[k + 1], HooksNexts[k + 1])
  <2> USE <1>3, <1>7, <1>8
  <2>1. Leads(TransactionHooks[1], HooksLists[1], HooksNexts[1],
              HooksLists[2], HooksNexts[2])
    BY <1>11, Zenon
  <2>2. Leads(TransactionHooks[2], HooksLists[2], HooksNexts[2],
              HooksLists[3], HooksNexts[3])
    BY <1>12, Zenon
  <2>3. Leads(TransactionHooks[3], HooksLists[3], HooksNexts[3],
              HooksLists[4], HooksNexts[4])
    BY <1>13, Zenon
  <2>4. Leads(TransactionHooks[4], HooksLists[4], HooksNexts[4],
              HooksLists[5], HooksNexts[5])
    BY <1>14, Zenon
  <2>5. Leads(TransactionHooks[5], HooksLists[5], HooksNexts[5],
              HooksLists[6], HooksNexts[6])
    BY <1>15, Zenon
  <2>6. Leads(TransactionHooks[6], HooksLists[6], HooksNexts[6],
              HooksLists[7], HooksNexts[7])
    BY <1>16, Zenon
  <2>7. Leads(TransactionHooks[7], HooksLists[7], HooksNexts[7],
              HooksLists[8], HooksNexts[8])
    BY <1>17, Zenon
  <2>8. Leads(TransactionHooks[8], HooksLists[8], HooksNexts[8],
              HooksLists[9], HooksNexts[9])
    BY <1>18, Zenon
  <2>9. Leads(TransactionHooks[9], HooksLists[9], HooksNexts[9],
              HooksLists[10], HooksNexts[10])
    BY <1>19, Zenon
  <2> HIDE <1>3, <1>7, <1>8
  <2> QED
    BY <2>1, <2>2, <2>3, <2>4, <2>5, <2>6, <2>7, <2>8, <2>9, SMTT(30)
<1> QED
  BY <1>4, <1>5, <1>7, <1>8, <1>9, Zenon DEF Follows

\* The calls of the program.
LEMMA ReloadCalls ==
  ASSUME NEW k \in 1..Len(HotReload)
  PROVE  /\ HotReload[k].call # "notify"
         /\ HotReload[k].call = "mutate" =>
              /\ ReloadLists[k] = ReloadList
              /\ \/ HotReload[k].field = "request_timeout_ms" /\ HotReload[k].value \in Nat
                 \/ /\ HotReload[k].field = "feature_flag_search_v2"
                    /\ HotReload[k].value \in BOOLEAN
<1>1. k \in {1, 2, 3, 4, 5, 6}
  BY DEF HotReload
<1>2. CASE k \in {1, 2}
  BY <1>2 DEF HotReload, Register
<1>3. CASE k \in {3, 4, 5, 6}
  <2>1. ReloadLists[k] = ReloadList
    BY <1>3 DEF ReloadLists
  <2>2. CASE k = 3
    <3>1. HotReload[k] = Mutate("request_timeout_ms", 5000)
      BY <2>2 DEF HotReload
    <3> QED
      BY <2>1, <3>1 DEF Mutate
  <2>3. CASE k \in {4, 5, 6}
    <3>1. HotReload[k].call = "mutate" /\ HotReload[k].field = "feature_flag_search_v2"
      BY <2>3 DEF HotReload, Mutate
    <3>2. HotReload[k].value \in BOOLEAN
      <4>1. HotReload[4].value \in BOOLEAN
        BY Zenon DEF HotReload, Mutate
      <4>2. HotReload[5].value \in BOOLEAN
        BY ZenonT(40) DEF HotReload, Mutate
      <4>3. HotReload[6].value \in BOOLEAN
        BY Zenon DEF HotReload, Mutate
      <4> QED
        BY <2>3, <4>1, <4>2, <4>3, ZenonT(40)
    <3>3. "mutate" # "notify"
      OBVIOUS
    <3> QED
      BY <2>1, <3>1, <3>2, <3>3, Zenon
  <2> QED
    BY <1>3, <2>2, <2>3
<1> QED
  BY <1>1, <1>2, <1>3

\* The calls of the program.
LEMMA AuditCalls ==
  ASSUME NEW k \in 1..Len(AuditFanout), AuditFanout[k].call = "notify"
  PROVE  /\ AuditLists[k] = AuditList
         /\ AuditFanout[k].event \in Severities /\ AuditFanout[k].join = FALSE
<1>1. k \in 1..10
  BY DEF AuditFanout
<1>2. k \in {4, 5, 6}
  BY <1>1 DEF AuditFanout, Register, DropGuard, Count
<1>3. AuditLists[k] = AuditList
  BY <1>2 DEF AuditLists
<1>4. \E sev \in Severities : AuditFanout[k] = Notify(sev)
  BY <1>2 DEF AuditFanout, Severities
<1> QED
  BY <1>3, <1>4 DEF Notify

\* The other calls of pattern_audit_fanout.
LEMMA AuditOtherCalls ==
  ASSUME NEW k \in 1..Len(AuditFanout)
  PROVE  AuditFanout[k].call \in {"register", "notify", "drop", "count"}
<1>1. k \in 1..10
  BY DEF AuditFanout
<1> QED
  BY <1>1 DEF AuditFanout, Register, Notify, DropGuard, Count

\* The calls of the program.
LEMMA HooksCalls ==
  ASSUME NEW k \in 1..Len(TransactionHooks)
  PROVE  /\ TransactionHooks[k].call \in {"register", "notify"}
         /\ TransactionHooks[k].call = "notify" =>
              /\ HooksLists[k] = HooksList
              /\ TransactionHooks[k].event \in TxEvents
              /\ TransactionHooks[k].join = FALSE
<1>1. k \in 1..9
  BY DEF TransactionHooks
<1>2. CASE k \in {1, 2, 3, 4}
  <2>1. \E pr, hook : TransactionHooks[k] = Register(pr, hook)
    BY <1>2 DEF TransactionHooks
  <2> QED
    BY <2>1 DEF Register
<1>3. CASE k \in {5, 6, 7, 8, 9}
  <2>1. HooksLists[k] = HooksList
    BY <1>3 DEF HooksLists
  <2>2. \E txid \in Nat, tr \in Transitions : TransactionHooks[k] = Transition(txid, tr)
    BY <1>3 DEF TransactionHooks, Transitions
  <2>3. PICK txid \in Nat, tr \in Transitions : TransactionHooks[k] = Transition(txid, tr)
    BY <2>2, Zenon
  <2>4. [txid |-> txid, transition |-> tr] \in TxEvents
    BY <2>3, Zenon DEF TxEvents
  <2>5. TransactionHooks[k] = Notify([txid |-> txid, transition |-> tr])
    BY <2>3, Zenon DEF Transition
  <2>6. \A e : Notify(e).call = "notify" /\ Notify(e).event = e /\ Notify(e).join = FALSE
    BY DEF Notify
  <2> QED
    BY <2>1, <2>4, <2>5, <2>6, Zenon
<1>4. k \in {1, 2, 3, 4} \/ k \in {5, 6, 7, 8, 9}
  BY <1>1
<1> QED
  BY <1>2, <1>3, <1>4, Zenon

\* The programs with a table, and those that assert nothing.
Tracked == {"basic", "guards", "panic_isolation", "pattern_audit_fanout",
            "pattern_hot_reload", "pattern_transaction_hooks"}
Lists(p) == CASE p = "basic" -> BasicLists
              [] p = "guards" -> GuardsLists
              [] p = "panic_isolation" -> PanicLists
              [] p = "pattern_audit_fanout" -> AuditLists
              [] p = "pattern_hot_reload" -> ReloadLists
              [] p = "pattern_transaction_hooks" -> HooksLists
Nexts(p) == CASE p = "basic" -> BasicNexts
              [] p = "guards" -> GuardsNexts
              [] p = "panic_isolation" -> PanicNexts
              [] p = "pattern_audit_fanout" -> AuditNexts
              [] p = "pattern_hot_reload" -> ReloadNexts
              [] p = "pattern_transaction_hooks" -> HooksNexts

\* Every program with a table has the right one.
LEMMA TrackedFollows ==
  ASSUME NEW p \in Tracked, NEW in
  PROVE  Follows(Main(p, in), Lists(p), Nexts(p))
<1> USE Zenon
<1>1. CASE p = "basic"
  <2>1. Main(p, in) = Basic /\ Lists(p) = BasicLists /\ Nexts(p) = BasicNexts
    BY <1>1 DEF Main, Lists, Nexts
  <2> QED
    BY <2>1, BasicFollows
<1>2. CASE p = "guards"
  <2>1. Main(p, in) = Guards /\ Lists(p) = GuardsLists /\ Nexts(p) = GuardsNexts
    BY <1>2 DEF Main, Lists, Nexts
  <2> QED
    BY <2>1, GuardsFollows
<1>3. CASE p = "panic_isolation"
  <2>1. Main(p, in) = PanicIsolation /\ Lists(p) = PanicLists /\ Nexts(p) = PanicNexts
    BY <1>3 DEF Main, Lists, Nexts
  <2> QED
    BY <2>1, PanicIsolationFollows
<1>4. CASE p = "pattern_audit_fanout"
  <2>1. Main(p, in) = AuditFanout /\ Lists(p) = AuditLists /\ Nexts(p) = AuditNexts
    BY <1>4 DEF Main, Lists, Nexts
  <2> QED
    BY <2>1, AuditFanoutFollows
<1>5. CASE p = "pattern_hot_reload"
  <2>1. Main(p, in) = HotReload /\ Lists(p) = ReloadLists /\ Nexts(p) = ReloadNexts
    BY <1>5 DEF Main, Lists, Nexts
  <2> QED
    BY <2>1, HotReloadFollows
<1>6. CASE p = "pattern_transaction_hooks"
  <2>1. Main(p, in) = TransactionHooks /\ Lists(p) = HooksLists /\ Nexts(p) = HooksNexts
    BY <1>6 DEF Main, Lists, Nexts
  <2> QED
    BY <2>1, TransactionHooksFollows
<1> QED
  BY <1>1, <1>2, <1>3, <1>4, <1>5, <1>6 DEF Tracked

Plain == {"priority", "concurrent", "async_basic", "async_concurrent_vs_sequential",
          "event_payload"}

\* The calls a program that asserts nothing may make.
Harmless(p, m) ==
  /\ m \in Seq(Range(m))
  /\ \A k \in 1..Len(m) :
       \/ m[k].call \in {"register", "notify"}
       \/ p = "concurrent" /\ m[k].call \in {"spawn", "join"}

\* The programs without a table assert nothing, and only concurrent spawns.
LEMMA PlainHarmless ==
  ASSUME NEW p \in Plain, NEW in \in Inputs(p)
  PROVE  Harmless(p, Main(p, in))
<1> USE Zenon
\* A script of calls none of which is asserted.
<1>0. ASSUME NEW C, NEW m \in Seq(C),
             \A c \in C : \/ c.call \in {"register", "notify"}
                          \/ p = "concurrent" /\ c.call \in {"spawn", "join"}
      PROVE  Harmless(p, m)
  <2>1. m \in Seq(Range(m))
    BY SeqInRange
  <2>2. \A k \in 1..Len(m) : m[k] \in C
    BY SMT
  <2> QED
    BY <1>0, <2>1, <2>2 DEF Harmless
<1>1. CASE p = "priority"
  <2> DEFINE C == {Register(50, "hi-prio"), Register(0, "default"),
                   Register(-100, "lo-prio"), Notify("ping")}
  <2>1. Main(p, in) = Priority
    BY <1>1 DEF Main
  <2>2. Priority \in Seq(C)
    BY SMT DEF Priority
  <2>3. \A c \in C : c.call \in {"register", "notify"}
    BY SMT DEF Register, Notify
  <2> HIDE DEF C
  <2> QED
    BY <2>1, <2>2, <2>3, <1>0
<1>2. CASE p = "concurrent"
  <2> DEFINE C == {Register(0, "add"), Spawn, Join}
  <2>1. Main(p, in) = Concurrent
    BY <1>2 DEF Main
  <2>2. [i \in 1..4 |-> Register(0, "add")] \in Seq(C) /\ <<Spawn, Join>> \in Seq(C)
    BY SMT
  <2>3. Concurrent \in Seq(C)
    BY <2>2, Concatenated DEF Concurrent
  <2>4. \A c \in C : c.call = "register" \/ c.call \in {"spawn", "join"}
    BY SMT DEF Register, Spawn, Join
  <2> HIDE DEF C
  <2>5. \A c \in C : \/ c.call \in {"register", "notify"}
                     \/ p = "concurrent" /\ c.call \in {"spawn", "join"}
    BY <1>2, <2>4
  <2> QED
    BY <2>1, <2>3, <2>5, <1>0
<1>3. CASE p = "async_basic"
  <2> DEFINE C == {Register(0, "add"), NotifyJoin(7)}
  <2>1. Main(p, in) = AsyncBasic
    BY <1>3 DEF Main
  <2>2. [i \in 1..3 |-> Register(0, "add")] \in Seq(C) /\ <<NotifyJoin(7)>> \in Seq(C)
    BY SMT
  <2>3. AsyncBasic \in Seq(C)
    BY <2>2, Concatenated DEF AsyncBasic
  <2>4. \A c \in C : c.call \in {"register", "notify"}
    BY SMT DEF Register, NotifyJoin
  <2> HIDE DEF C
  <2> QED
    BY <2>1, <2>3, <2>4, <1>0
<1>4. CASE p = "async_concurrent_vs_sequential"
  <2> DEFINE C == {Register(0, "print"), NotifyJoin("()"), Notify("()")}
  <2>1. Main(p, in) = AsyncConcurrentVsSequential
    BY <1>4 DEF Main
  <2>2. /\ [i \in 1..4 |-> Register(0, "print")] \in Seq(C)
        /\ <<NotifyJoin("()"), Notify("()")>> \in Seq(C)
    BY SMT
  <2>3. AsyncConcurrentVsSequential \in Seq(C)
    BY <2>2, Concatenated DEF AsyncConcurrentVsSequential
  <2>4. \A c \in C : c.call \in {"register", "notify"}
    BY SMT DEF Register, NotifyJoin, Notify
  <2> HIDE DEF C
  <2> QED
    BY <2>1, <2>3, <2>4, <1>0
<1>5. CASE p = "event_payload"
  <2> DEFINE N == ChunkCount(in.size)
             chunk(i) == Notify([tag |-> in.tag[i], len |-> PayloadLen(in.size, i)])
             R == <<Register(0, "bytes"), Register(0, "max_tag"), Register(0, "even")>>
             E == [i \in 1..N |-> chunk(i)]
             C == {R[1], R[2], R[3]} \cup {chunk(i) : i \in 1..N}
  <2>1. Main(p, in) = R \o E
    BY <1>5 DEF Main, EventPayload
  <2>2. N \in Nat
    <3>1. PICK n \in Sizes : in \in [size : {n}, tag : [1..ChunkCount(n) -> Tags]]
      BY <1>5 DEF Inputs
    <3>2. n \in Nat /\ in.size = n
      BY <3>1, ConstantsAssumption, SMT
    <3> QED
      BY <3>2, SMT DEF ChunkCount
  <2>3. R \in Seq(C)
    BY SMT
  <2>4. E \in Seq(C)
    <3> HIDE DEF N, chunk, R
    <3> QED
      BY <2>2, SMT
  <2>5. \A c \in C : c.call \in {"register", "notify"}
    BY SMT DEF Register, Notify
  <2> HIDE DEF C, R, E
  <2>6. Main(p, in) \in Seq(C)
    BY <2>1, <2>3, <2>4, Concatenated
  <2> QED
    BY <2>5, <2>6, <1>0
<1> QED
  BY <1>1, <1>2, <1>3, <1>4, <1>5 DEF Plain

-----------------------------------------------------------------------------
(* The invariant behind the assertions *)

\* What is left of m from position k on.
Rest(m, k) == SubSeq(m, k, Len(m))

\* The main thread of a program with a table is at some position of its
\* script and has the handlers that the table says.
TrackedInv ==
  \E k \in 1..(Len(Main(program, input)) + 1) :
    /\ script["main"] = Rest(Main(program, input), k)
    /\ handlers = Lists(program)[k] /\ next_id = Nexts(program)[k]

\* A program that only prints and counts is at some position of its script.
PlainInv ==
  \E k \in 1..(Len(Main(program, input)) + 1) :
    script["main"] = Rest(Main(program, input), k)

\* What the traffic of pattern_metric_event consists of.
MetricCalls == [call : {"notify"}, event : MetricEvents, join : {FALSE}]
                 \cup [call : {"request"}, i : Nat]

\* pattern_metric_event registers its two handlers before the traffic.
MetricInv ==
  \/ script["main"] = MetricEvent /\ handlers = <<>> /\ next_id = 1
  \/ /\ script["main"] = Tail(MetricEvent)
     /\ handlers = <<MetricList[1]>> /\ next_id = 2
  \/ script["main"] \in Seq(MetricCalls) /\ handlers = MetricList

\* Nothing is known of the order of registrations of equal priority.
Unordered == [id \in Nat |-> {}]

\* The handlers that handler_churn registers.
FuzzEntries == [id : Nat, priority : {0}, hook : {"fuzz", "fuzz_panic"}]

\* The bookkeeping of handler_churn is right: the live ids are those of the
\* handlers, each once, and the stale id is that of no handler.
BooksInv ==
  /\ handlers \in Seq(FuzzEntries) /\ next_id \in Nat \ {0}
  /\ Ordered(handlers, Unordered) /\ Distinct(handlers)
  /\ shared \in [invocations : Nat, live_ids : Seq(Nat), stale_id : Nat]
  /\ Len(shared.live_ids) = Len(handlers)
  /\ NoRepeats(shared.live_ids)
  /\ Range(shared.live_ids) = Ids(handlers)
  /\ shared.stale_id \notin Ids(handlers)
  /\ shared.stale_id < next_id /\ \A id \in Ids(handlers) : id < next_id

\* handler_churn: what is left of the input, and the dispatch under way.
ChurnInv ==
  /\ BooksInv
  /\ script["main"] = <<>> \/ \E n \in Nat : script["main"] = <<Arbitrary(n)>>
  /\ LET d == dispatch["main"] IN
     /\ d.list \in Seq(FuzzEntries) /\ d.todo \subseteq DOMAIN d.list

\* Only concurrent has threads beside the main one; they dispatch.
WorkersInv ==
  \A u \in Worker :
    IF program = "concurrent" THEN script[u] \in Seq({Notify(1)})
    ELSE script[u] = <<>> /\ dispatch[u] = NoDispatch

\* The inductive invariant: each kind of program by its own means, and no
\* assertion has failed.
ProgramsInv ==
  /\ program \in ProgramNames /\ input \in Inputs(program)
  /\ DOMAIN script = Thread /\ DOMAIN dispatch = Thread
  /\ WorkersInv
  /\ program \in Tracked => TrackedInv
  /\ program \in Plain => PlainInv
  /\ program = "pattern_metric_event" => MetricInv
  /\ program = "handler_churn" => ChurnInv
  /\ failed = FALSE

-----------------------------------------------------------------------------
(* One call of a program *)

\* The next call of a script that is at position k.
LEMMA RestStep ==
  ASSUME NEW m, m \in Seq(Range(m)), NEW k \in 1..(Len(m) + 1), Rest(m, k) # <<>>
  PROVE  /\ k \in 1..Len(m) /\ k + 1 \in 1..(Len(m) + 1)
         /\ Head(Rest(m, k)) = m[k] /\ Tail(Rest(m, k)) = Rest(m, k + 1)
<1>1. k \in 1..Len(m)
  BY DEF Rest
<1> QED
  BY <1>1 DEF Rest

\* A script is the rest of itself from its first position.
LEMMA RestFirst ==
  ASSUME NEW m, m \in Seq(Range(m))
  PROVE  1 \in 1..(Len(m) + 1) /\ m = Rest(m, 1)
  BY DEF Rest

\* Where a program with a table is when it makes a call.
TrackedAt(k, c) ==
  LET m == Main(program, input)
      lists == Lists(program)
      nexts == Nexts(program) IN
  /\ m[k].call = c /\ Head(script["main"]) = m[k]
  /\ k + 1 \in 1..(Len(m) + 1) /\ Tail(script["main"]) = Rest(m, k + 1)
  /\ handlers = lists[k] /\ next_id = nexts[k]
  /\ Leads(m[k], handlers, next_id, lists[k + 1], nexts[k + 1])

\* A call of a tracked program is the one at the position it has reached.
LEMMA TrackedCall ==
  ASSUME program \in Tracked, TrackedInv, NEW c, Calls("main", c)
  PROVE  \E k \in 1..Len(Main(program, input)) : TrackedAt(k, c)
<1> USE Zenon
<1> DEFINE m == Main(program, input)
<1>1. Follows(m, Lists(program), Nexts(program))
  BY TrackedFollows
<1>2. PICK k \in 1..(Len(m) + 1) :
        /\ script["main"] = Rest(m, k)
        /\ handlers = Lists(program)[k] /\ next_id = Nexts(program)[k]
  BY DEF TrackedInv
<1>3. script["main"] # <<>> /\ Head(script["main"]).call = c
  BY DEF Calls
<1>4. m \in Seq(Range(m))
  BY <1>1 DEF Follows
<1> HIDE DEF m
<1>5. /\ k \in 1..Len(m) /\ k + 1 \in 1..(Len(m) + 1)
      /\ Head(script["main"]) = m[k] /\ Tail(script["main"]) = Rest(m, k + 1)
  BY <1>2, <1>3, <1>4, RestStep
<1>6. Leads(m[k], Lists(program)[k], Nexts(program)[k],
            Lists(program)[k + 1], Nexts(program)[k + 1])
  BY <1>1, <1>5 DEF Follows
<1> QED
  BY <1>2, <1>3, <1>5, <1>6 DEF m, TrackedAt

\* Where a program without one is.
PlainAt(k, c) ==
  LET m == Main(program, input) IN
  /\ m[k].call = c /\ Head(script["main"]) = m[k]
  /\ k + 1 \in 1..(Len(m) + 1) /\ Tail(script["main"]) = Rest(m, k + 1)
  /\ \/ c \in {"register", "notify"}
     \/ program = "concurrent" /\ c \in {"spawn", "join"}

\* So is a call of a plain program, and it removes and asserts nothing.
LEMMA PlainCall ==
  ASSUME program \in Plain, input \in Inputs(program), PlainInv,
         NEW c, Calls("main", c)
  PROVE  \E k \in 1..Len(Main(program, input)) : PlainAt(k, c)
<1> USE Zenon
<1> DEFINE m == Main(program, input)
<1>1. Harmless(program, m)
  BY PlainHarmless
<1>2. PICK k \in 1..(Len(m) + 1) : script["main"] = Rest(m, k)
  BY DEF PlainInv
<1>3. script["main"] # <<>> /\ Head(script["main"]).call = c
  BY DEF Calls
<1>4. m \in Seq(Range(m))
  BY <1>1 DEF Harmless
<1> HIDE DEF m
<1>5. /\ k \in 1..Len(m) /\ k + 1 \in 1..(Len(m) + 1)
      /\ Head(script["main"]) = m[k] /\ Tail(script["main"]) = Rest(m, k + 1)
  BY <1>2, <1>3, <1>4, RestStep
<1>6. \/ m[k].call \in {"register", "notify"}
      \/ program = "concurrent" /\ m[k].call \in {"spawn", "join"}
  BY <1>1, <1>5 DEF Harmless
<1> QED
  BY <1>3, <1>5, <1>6 DEF m, PlainAt

\* pattern_metric_event: the two registrations, and then the traffic.
LEMMA MetricCall ==
  ASSUME MetricInv, NEW c, Calls("main", c)
  PROVE  \/ /\ c = "register" /\ Head(script["main"]) = Register(0, "aggregate")
            /\ Tail(script["main"]) = Tail(MetricEvent)
            /\ handlers = <<>> /\ next_id = 1
         \/ /\ c = "register" /\ Head(script["main"]) = Register(0, "batch")
            /\ Tail(script["main"]) \in Seq(MetricCalls)
            /\ handlers = <<MetricList[1]>> /\ next_id = 2
         \/ /\ c \in {"notify", "request"} /\ Head(script["main"]) \in MetricCalls
            /\ Tail(script["main"]) \in Seq(MetricCalls) /\ handlers = MetricList
<1> USE Zenon
<1> DEFINE a == Register(0, "aggregate")
           b == Register(0, "batch")
           T == Traffic(0)
           m == script["main"]
<1>1. m # <<>> /\ Head(m).call = c
  BY DEF Calls
<1>2. T \in Seq(MetricCalls)
  <2>1. Request(0) \in MetricCalls
    BY SMT DEF Request, MetricCalls
  <2>2. <<Request(0)>> \in Seq(MetricCalls) /\ <<>> \in Seq(MetricCalls)
    BY <2>1, SMT
  <2> QED
    BY <2>2 DEF Traffic
<1>3. PICK S : a \in S /\ b \in S /\ MetricCalls \subseteq S
  <2>1. a \in MetricCalls \cup {a, b} /\ b \in MetricCalls \cup {a, b}
    OBVIOUS
  <2> QED
    BY <2>1
<1>4. MetricEvent = <<a, b>> \o T
  BY DEF MetricEvent
<1>5. a.call = "register" /\ b.call = "register"
  BY SMT DEF Register
<1> HIDE DEF a, b, T, m
<1>6. T \in Seq(S) /\ <<a, b>> \in Seq(S)
  BY <1>2, <1>3, SMT
<1>7. /\ Head(MetricEvent) = a
      /\ Head(Tail(MetricEvent)) = b /\ Tail(Tail(MetricEvent)) = T
  BY <1>4, <1>6, SMT
<1>8. CASE m = MetricEvent /\ handlers = <<>> /\ next_id = 1
  BY <1>1, <1>5, <1>7, <1>8 DEF m, a
<1>9. CASE m = Tail(MetricEvent) /\ handlers = <<MetricList[1]>> /\ next_id = 2
  BY <1>1, <1>2, <1>5, <1>7, <1>9 DEF m, b
<1>10. CASE m \in Seq(MetricCalls) /\ handlers = MetricList
  <2>1. Head(m) \in MetricCalls /\ Tail(m) \in Seq(MetricCalls)
    BY <1>1, <1>10, HeadAndTail
  <2>2. \A x \in MetricCalls : x.call \in {"notify", "request"}
    BY Zenon DEF MetricCalls
  <2> QED
    BY <1>1, <1>10, <2>1, <2>2 DEF m
<1> QED
  BY <1>8, <1>9, <1>10 DEF MetricInv, m

\* handler_churn takes its operations from its input.
LEMMA ChurnCall ==
  ASSUME ChurnInv, NEW c, Calls("main", c)
  PROVE  /\ c = "arbitrary" /\ Between("main")
         /\ \E n \in Nat : script["main"] = <<Arbitrary(n)>>
<1>1. script["main"] # <<>> /\ Head(script["main"]).call = c /\ Between("main")
  BY Zenon DEF Calls
<1>2. PICK n \in Nat : script["main"] = <<Arbitrary(n)>>
  BY <1>1, Zenon DEF ChurnInv
<1>3. Head(<<Arbitrary(n)>>).call = "arbitrary"
  BY DEF Arbitrary
<1> QED
  BY <1>1, <1>2, <1>3, Zenon

-----------------------------------------------------------------------------
(* Every step keeps the invariant *)

\* The threads of concurrent only dispatch.
LEMMA MainOnly ==
  ASSUME ProgramsInv, NEW t \in Thread, NEW c, Calls(t, c)
  PROVE  t = "main" \/ (t \in Worker /\ program = "concurrent" /\ c = "notify")
<1>1. CASE t \in Worker
  <2>1. script[t] # <<>> /\ Head(script[t]).call = c
    BY Zenon DEF Calls
  <2>2. program = "concurrent" /\ script[t] \in Seq({Notify(1)})
    BY <1>1, <2>1, Zenon DEF ProgramsInv, WorkersInv
  <2>3. Head(script[t]) = Notify(1)
    BY <2>1, <2>2
  <2>4. Notify(1).call = "notify"
    BY DEF Notify
  <2> QED
    BY <1>1, <2>1, <2>2, <2>3, <2>4, Zenon
<1> QED
  BY <1>1, Zenon DEF Thread

\* Which programs make which calls.
LEMMA WhoCalls ==
  ASSUME ProgramsInv, NEW c, Calls("main", c)
  PROVE  \/ /\ program \in Tracked
            /\ c \in {"register", "unregister", "drop", "count", "notify", "mutate"}
         \/ program \in Plain /\ c \in {"register", "notify"}
         \/ program \in Plain /\ program = "concurrent" /\ c \in {"spawn", "join"}
         \/ program = "pattern_metric_event" /\ c \in {"register", "notify", "request"}
         \/ program = "handler_churn" /\ c = "arbitrary"
<1> USE Zenon
<1>1. CASE program \in Tracked
  <2>1. PICK k \in 1..Len(Main(program, input)) : TrackedAt(k, c)
    BY <1>1, TrackedCall DEF ProgramsInv
  <2> QED
    BY <1>1, <2>1 DEF TrackedAt, Leads
<1>2. CASE program \in Plain
  <2>1. PICK k \in 1..Len(Main(program, input)) : PlainAt(k, c)
    BY <1>2, PlainCall DEF ProgramsInv
  <2> QED
    BY <1>2, <2>1 DEF PlainAt
<1>3. CASE program = "pattern_metric_event"
  BY <1>3, MetricCall DEF ProgramsInv
<1>4. CASE program = "handler_churn"
  BY <1>4, ChurnCall DEF ProgramsInv
<1> QED
  BY <1>1, <1>2, <1>3, <1>4 DEF ProgramsInv, ProgramNames, Tracked, Plain

\* The classes of programs are disjoint.
LEMMA Classes ==
  /\ \A p \in Tracked : p \notin Plain
  /\ \A p \in Tracked \cup Plain : p # "pattern_metric_event" /\ p # "handler_churn"
  /\ "concurrent" \notin Tracked
  BY Zenon DEF Tracked, Plain

\* A step of the main thread, with what its program requires of it.
MainStep ==
  /\ UNCHANGED programVars
  /\ script' = script \/ \E x : script' = [script EXCEPT !["main"] = x]
  /\ dispatch' = dispatch \/ \E d : dispatch' = [dispatch EXCEPT !["main"] = d]
  /\ program \in Tracked => TrackedInv'
  /\ program \in Plain => PlainInv'
  /\ program = "pattern_metric_event" => MetricInv'
  /\ program = "handler_churn" => ChurnInv'
  /\ failed' = FALSE

\* A step of the main thread in place keeps the invariant.
LEMMA MainKeeps ==
  ASSUME ProgramsInv, MainStep
  PROVE  ProgramsInv'
<1> USE Zenon
<1>1. program' = program /\ input' = input
  BY DEF MainStep, programVars
<1>2. DOMAIN script = Thread /\ DOMAIN dispatch = Thread
  BY DEF ProgramsInv
<1>3. DOMAIN script' = Thread /\ \A u \in Worker : script'[u] = script[u]
  <2>1. CASE script' = script
    BY <1>2, <2>1
  <2>2. CASE \E x : script' = [script EXCEPT !["main"] = x]
    <3>1. PICK x : script' = [script EXCEPT !["main"] = x]
      BY <2>2
    <3> QED
      BY <1>2, <3>1, ConstantsAssumption, SMT DEF Thread
  <2> QED
    BY <2>1, <2>2 DEF MainStep
<1>4. DOMAIN dispatch' = Thread /\ \A u \in Worker : dispatch'[u] = dispatch[u]
  <2>1. CASE dispatch' = dispatch
    BY <1>2, <2>1
  <2>2. CASE \E d : dispatch' = [dispatch EXCEPT !["main"] = d]
    <3>1. PICK d : dispatch' = [dispatch EXCEPT !["main"] = d]
      BY <2>2
    <3> QED
      BY <1>2, <3>1, ConstantsAssumption, SMT DEF Thread
  <2> QED
    BY <2>1, <2>2 DEF MainStep
<1>5. WorkersInv'
  BY <1>1, <1>3, <1>4 DEF ProgramsInv, WorkersInv
<1> QED
  BY <1>1, <1>3, <1>4, <1>5 DEF ProgramsInv, MainStep

\* The main thread has made its call.
LEMMA MainContinues ==
  ASSUME ProgramsInv, Continue("main")
  PROVE  /\ script'["main"] = Tail(script["main"])
         /\ \E x : script' = [script EXCEPT !["main"] = x]
<1>1. "main" \in DOMAIN script
  BY Zenon DEF ProgramsInv, Thread
<1> QED
  BY <1>1, Zenon DEF Continue

\* register, in a program with a fixed script.
LEMMA RegisterKeeps ==
  ASSUME ProgramsInv, NEW t \in Thread, RegisterStep(t)
  PROVE  ProgramsInv'
<1> USE Zenon
<1>0. "register" \notin {"notify", "request", "arbitrary"}
  BY SMT
<1>1. Calls(t, "register")
  BY DEF RegisterStep
<1>2. t = "main"
  BY <1>0, <1>1, MainOnly
<1> DEFINE call == Head(script["main"])
           e == [id |-> next_id, priority |-> call.priority, hook |-> call.hook]
<1>3. /\ Calls("main", "register") /\ Continue("main")
      /\ handlers' = Insert(handlers, e) /\ next_id' = next_id + 1
      /\ UNCHANGED programVars /\ dispatch' = dispatch /\ failed' = failed
  BY <1>2 DEF RegisterStep
<1>4. /\ script'["main"] = Tail(script["main"])
      /\ \E x : script' = [script EXCEPT !["main"] = x]
  BY <1>3, MainContinues
<1>5. program \in Tracked => TrackedInv'
  <2> SUFFICES ASSUME program \in Tracked PROVE TrackedInv'
    BY SMT
  <2>1. PICK k \in 1..Len(Main(program, input)) : TrackedAt(k, "register")
    BY <1>3, TrackedCall DEF ProgramsInv
  <2>2. handlers' = Lists(program)[k + 1] /\ next_id' = Nexts(program)[k + 1]
    BY <1>3, <2>1 DEF TrackedAt, Leads, Entry
  <2> QED
    BY <1>3, <1>4, <2>1, <2>2 DEF TrackedAt, TrackedInv, programVars
<1>6. program \in Plain => PlainInv'
  <2> SUFFICES ASSUME program \in Plain PROVE PlainInv'
    BY SMT
  <2>1. PICK k \in 1..Len(Main(program, input)) : PlainAt(k, "register")
    BY <1>3, PlainCall DEF ProgramsInv
  <2> QED
    BY <1>3, <1>4, <2>1 DEF PlainAt, PlainInv, programVars
<1>7. program = "pattern_metric_event" => MetricInv'
  <2> SUFFICES ASSUME MetricInv PROVE MetricInv'
    BY DEF ProgramsInv
  <2>1. /\ MetricList[1] = Entry(1, 0, "aggregate")
        /\ MetricList = <<MetricList[1], Entry(2, 0, "batch")>>
        /\ MetricList[1] \in AnyEntry /\ Entry(2, 0, "batch") \in AnyEntry
        /\ MetricList[1].priority >= Entry(2, 0, "batch").priority
    BY SMT DEF MetricList, Entry, AnyEntry, Hooks
  <2>2. CASE /\ call = Register(0, "aggregate") /\ handlers = <<>> /\ next_id = 1
             /\ Tail(script["main"]) = Tail(MetricEvent)
    <3>1. e = MetricList[1]
      BY <2>1, <2>2, SMT DEF Register, Entry
    <3>2. handlers' = <<MetricList[1]>>
      BY <1>3, <2>1, <2>2, <3>1, FirstInserted
    <3>3. next_id' = 2
      BY <1>3, <2>2, SMT
    <3> QED
      BY <1>4, <2>2, <3>2, <3>3 DEF MetricInv
  <2>3. CASE /\ call = Register(0, "batch") /\ next_id = 2
             /\ handlers = <<MetricList[1]>>
             /\ Tail(script["main"]) \in Seq(MetricCalls)
    <3>1. e = Entry(2, 0, "batch")
      BY <2>3, SMT DEF Register, Entry
    <3>2. handlers' = MetricList
      BY <1>3, <2>1, <2>3, <3>1, SecondInserted
    <3> QED
      BY <1>4, <2>3, <3>2 DEF MetricInv
  <2> QED
    BY <1>0, <1>3, <2>2, <2>3, MetricCall
<1>8. program # "handler_churn"
  BY <1>0, <1>3, ChurnCall DEF ProgramsInv
<1>9. MainStep
  BY <1>3, <1>4, <1>5, <1>6, <1>7, <1>8 DEF MainStep, ProgramsInv
<1> QED
  BY <1>9, MainKeeps

\* The calls that only programs with a table make: the assertions hold.
LEMMA TableKeeps ==
  ASSUME ProgramsInv, NEW t \in Thread,
         UnregisterStep(t) \/ DropStep(t) \/ CountStep(t) \/ MutateStep(t)
  PROVE  ProgramsInv'
<1> USE Zenon
<1>1. PICK c \in {"unregister", "drop", "count", "mutate"} : Calls(t, c)
  BY DEF UnregisterStep, DropStep, CountStep, MutateStep
<1>2. t = "main" /\ Calls("main", c)
  BY <1>1, MainOnly
<1>3. program \in Tracked
  BY <1>2, WhoCalls
<1>4. PICK k \in 1..Len(Main(program, input)) : TrackedAt(k, c)
  BY <1>2, <1>3, TrackedCall DEF ProgramsInv
<1> DEFINE call == Head(script["main"])
<1>5. Continue("main") /\ UNCHANGED programVars
  BY <1>2 DEF UnregisterStep, DropStep, CountStep, MutateStep
<1>6. /\ script'["main"] = Tail(script["main"])
      /\ \E x : script' = [script EXCEPT !["main"] = x]
  BY <1>5, MainContinues
<1>7. call.call = c
  BY <1>4 DEF TrackedAt
<1>8. /\ handlers' = Lists(program)[k + 1] /\ next_id' = Nexts(program)[k + 1]
      /\ failed' = failed
      /\ dispatch' = dispatch \/ \E d : dispatch' = [dispatch EXCEPT !["main"] = d]
  <2>1. CASE UnregisterStep(t)
    <3>1. /\ c = "unregister" /\ Removed(call.id) /\ next_id' = next_id
          /\ Asserted(ContainsId(handlers, call.id)) /\ dispatch' = dispatch
      BY <1>2, <1>7, <2>1 DEF UnregisterStep, Calls
    <3>2. /\ ContainsId(handlers, call.id)
          /\ Lists(program)[k + 1] = RemoveId(handlers, call.id)
          /\ Nexts(program)[k + 1] = next_id
      BY <1>4, <3>1 DEF TrackedAt, Leads, Entry
    <3>3. handlers' = RemoveId(handlers, call.id)
      BY <3>1, <3>2 DEF Removed
    <3>4. failed' = failed
      BY <3>1, <3>2 DEF Asserted, ProgramsInv
    <3> QED
      BY <3>1, <3>2, <3>3, <3>4
  <2>2. CASE DropStep(t)
    <3>1. /\ c = "drop" /\ Removed(call.id) /\ next_id' = next_id
          /\ failed' = failed /\ dispatch' = dispatch
      BY <1>2, <1>7, <2>2 DEF DropStep, Calls
    <3>2. /\ ContainsId(handlers, call.id)
          /\ Lists(program)[k + 1] = RemoveId(handlers, call.id)
          /\ Nexts(program)[k + 1] = next_id
      BY <1>4, <3>1 DEF TrackedAt, Leads, Entry
    <3>3. handlers' = RemoveId(handlers, call.id)
      BY <3>1, <3>2 DEF Removed
    <3> QED
      BY <3>1, <3>2, <3>3
  <2>3. CASE CountStep(t)
    <3>1. /\ c = "count" /\ handlers' = handlers /\ next_id' = next_id
          /\ Asserted(Len(handlers) = call.n) /\ dispatch' = dispatch
      BY <1>2, <1>7, <2>3 DEF CountStep, Calls, registryVars
    <3>2. /\ Len(handlers) = call.n /\ Lists(program)[k + 1] = handlers
          /\ Nexts(program)[k + 1] = next_id
      BY <1>4, <3>1 DEF TrackedAt, Leads, Entry
    <3>3. failed' = failed
      BY <3>1, <3>2 DEF Asserted, ProgramsInv
    <3> QED
      BY <3>1, <3>2, <3>3
  <2>4. CASE MutateStep(t)
    <3>1. /\ c = "mutate" /\ handlers' = handlers /\ next_id' = next_id
          /\ failed' = failed
          /\ \E evt : Dispatched("main", evt, FALSE)
      BY <1>2, <1>7, <2>4 DEF MutateStep, Calls, registryVars
    <3>2. Lists(program)[k + 1] = handlers /\ Nexts(program)[k + 1] = next_id
      BY <1>4, <3>1 DEF TrackedAt, Leads, Entry
    <3>3. \E d : dispatch' = [dispatch EXCEPT !["main"] = d]
      BY <3>1 DEF Dispatched
    <3> QED
      BY <3>1, <3>2, <3>3
  <2> QED
    BY <2>1, <2>2, <2>3, <2>4
<1>9. TrackedInv'
  BY <1>3, <1>4, <1>5, <1>6, <1>8 DEF TrackedAt, TrackedInv, programVars
<1>10. MainStep
  BY <1>3, <1>5, <1>6, <1>8, <1>9, Classes DEF MainStep, ProgramsInv
<1> QED
  BY <1>10, MainKeeps

\* A step of a thread of concurrent.
WorkerStep(t) ==
  /\ UNCHANGED programVars
  /\ script' = script \/ \E x \in Seq({Notify(1)}) : script' = [script EXCEPT ![t] = x]
  /\ \E d : dispatch' = [dispatch EXCEPT ![t] = d]
  /\ failed' = failed

\* A worker of concurrent keeps the invariant.
LEMMA WorkerKeeps ==
  ASSUME ProgramsInv, program = "concurrent", NEW t \in Worker, WorkerStep(t)
  PROVE  ProgramsInv'
<1> USE Zenon
<1>1. program' = program /\ input' = input /\ failed' = failed
  BY DEF WorkerStep, programVars
<1>2. DOMAIN script = Thread /\ DOMAIN dispatch = Thread /\ t # "main"
  BY ConstantsAssumption DEF ProgramsInv
<1>3. DOMAIN dispatch' = Thread
  BY <1>2 DEF WorkerStep
<1>4. /\ DOMAIN script' = Thread /\ script'["main"] = script["main"]
      /\ \A u \in Worker : script'[u] \in Seq({Notify(1)})
  <2>1. \A u \in Worker : script[u] \in Seq({Notify(1)})
    BY DEF ProgramsInv, WorkersInv
  <2>2. CASE script' = script
    BY <1>2, <2>1, <2>2
  <2>3. CASE \E x \in Seq({Notify(1)}) : script' = [script EXCEPT ![t] = x]
    <3>1. PICK x \in Seq({Notify(1)}) : script' = [script EXCEPT ![t] = x]
      BY <2>3
    <3>2. DOMAIN script' = Thread
      BY <1>2, <3>1
    <3>3. \A u \in Thread : script'[u] = IF u = t THEN x ELSE script[u]
      BY <1>2, <3>1
    <3> QED
      BY <1>2, <2>1, <3>2, <3>3 DEF Thread
  <2> QED
    BY <2>2, <2>3 DEF WorkerStep
<1>5. WorkersInv'
  BY <1>1, <1>4 DEF WorkersInv
<1>6. PlainInv'
  BY <1>1, <1>4 DEF ProgramsInv, PlainInv, Plain
<1>7. /\ program \notin Tracked /\ program # "pattern_metric_event"
      /\ program # "handler_churn"
  BY DEF Tracked
<1> QED
  BY <1>1, <1>3, <1>4, <1>5, <1>6, <1>7 DEF ProgramsInv

\* notify, by the main thread or by a thread of concurrent.
LEMMA NotifyKeeps ==
  ASSUME ProgramsInv, NEW t \in Thread, NotifyStep(t)
  PROVE  ProgramsInv'
<1> USE Zenon
<1>0. "notify" \notin {"register", "arbitrary"}
  BY SMT
<1>1. /\ Calls(t, "notify") /\ Continue(t)
      /\ \E d : dispatch' = [dispatch EXCEPT ![t] = d]
      /\ UNCHANGED programVars /\ handlers' = handlers /\ next_id' = next_id
      /\ failed' = failed
  BY DEF NotifyStep, Dispatched, registryVars
<1>2. CASE t = "main"
  <2>1. Calls("main", "notify")
    BY <1>1, <1>2
  <2>2. /\ script'["main"] = Tail(script["main"])
        /\ \E x : script' = [script EXCEPT !["main"] = x]
    BY <1>1, <1>2, MainContinues
  <2>3. program \in Tracked => TrackedInv'
    <3> SUFFICES ASSUME program \in Tracked PROVE TrackedInv'
      BY SMT
    <3>1. PICK k \in 1..Len(Main(program, input)) : TrackedAt(k, "notify")
      BY <2>1, TrackedCall DEF ProgramsInv
    <3>2. Lists(program)[k + 1] = handlers /\ Nexts(program)[k + 1] = next_id
      BY <1>0, <3>1 DEF TrackedAt, Leads, Entry
    <3> QED
      BY <1>1, <2>2, <3>1, <3>2 DEF TrackedAt, TrackedInv, programVars
  <2>4. program \in Plain => PlainInv'
    <3> SUFFICES ASSUME program \in Plain PROVE PlainInv'
      BY SMT
    <3>1. PICK k \in 1..Len(Main(program, input)) : PlainAt(k, "notify")
      BY <2>1, PlainCall DEF ProgramsInv
    <3> QED
      BY <1>1, <2>2, <3>1 DEF PlainAt, PlainInv, programVars
  <2>5. program = "pattern_metric_event" => MetricInv'
    <3> SUFFICES ASSUME MetricInv PROVE MetricInv'
      BY DEF ProgramsInv
    <3>1. Tail(script["main"]) \in Seq(MetricCalls) /\ handlers = MetricList
      BY <1>0, <2>1, MetricCall
    <3> QED
      BY <1>1, <2>2, <3>1 DEF MetricInv
  <2>6. program # "handler_churn"
    BY <1>0, <2>1, ChurnCall DEF ProgramsInv
  <2>7. MainStep
    BY <1>1, <1>2, <2>2, <2>3, <2>4, <2>5, <2>6 DEF MainStep, ProgramsInv
  <2> QED
    BY <2>7, MainKeeps
<1>3. CASE t # "main"
  <2>1. t \in Worker /\ program = "concurrent"
    BY <1>1, <1>3, MainOnly
  <2>2. script[t] \in Seq({Notify(1)}) /\ script[t] # <<>>
    BY <1>1, <2>1 DEF ProgramsInv, WorkersInv, Calls
  <2>3. Tail(script[t]) \in Seq({Notify(1)})
    BY <2>2, HeadAndTail
  <2>4. WorkerStep(t)
    BY <1>1, <2>3 DEF WorkerStep, Continue
  <2> QED
    BY <2>1, <2>4, WorkerKeeps
<1> QED
  BY <1>2, <1>3

\* What the handlers of handler_churn do.
LEMMA FuzzEffect ==
  ASSUME BooksInv, NEW e \in FuzzEntries, NEW event, shared' = Effect(e, event, shared),
         UNCHANGED registryVars
  PROVE  BooksInv'
<1>1. e.hook \in {"fuzz", "fuzz_panic"}
  BY DEF FuzzEntries
<1>2. shared' = [shared EXCEPT !.invocations = @ + 1]
  BY <1>1 DEF Effect
<1>3. shared \in [invocations : Nat, live_ids : Seq(Nat), stale_id : Nat]
  BY Zenon DEF BooksInv
<1>4. /\ shared' \in [invocations : Nat, live_ids : Seq(Nat), stale_id : Nat]
      /\ shared'.live_ids = shared.live_ids /\ shared'.stale_id = shared.stale_id
  BY <1>2, <1>3
<1> QED
  BY <1>4, Zenon DEF BooksInv, registryVars

\* A handler runs.
LEMMA HandlerKeeps ==
  ASSUME ProgramsInv, NEW t \in Thread, HandlerStep(t)
  PROVE  ProgramsInv'
<1> USE Zenon
<1>1. PICK d, i :
        /\ d = dispatch[t] /\ d.todo # {}
        /\ i \in IF d.join THEN d.todo ELSE {Min(d.todo)}
        /\ shared' = Effect(d.list[i], Head(d.event), shared)
        /\ dispatch' = [dispatch EXCEPT ![t] =
             IF d.todo = {i} THEN NoDispatch ELSE [d EXCEPT !.todo = @ \ {i}]]
        /\ UNCHANGED <<programVars, script, registryVars, failed>>
  BY DEF HandlerStep
<1>2. CASE t = "main"
  <2>1. /\ program' = program /\ input' = input /\ script' = script
        /\ handlers' = handlers /\ next_id' = next_id /\ failed' = failed
    BY <1>1 DEF programVars, registryVars
  <2>2. program \in Tracked => TrackedInv'
    BY <2>1 DEF ProgramsInv, TrackedInv
  <2>3. program \in Plain => PlainInv'
    BY <2>1 DEF ProgramsInv, PlainInv
  <2>4. program = "pattern_metric_event" => MetricInv'
    BY <2>1 DEF ProgramsInv, MetricInv
  <2>5. program = "handler_churn" => ChurnInv'
    <3> SUFFICES ASSUME ChurnInv PROVE ChurnInv'
      BY DEF ProgramsInv
    <3>1. d.list \in Seq(FuzzEntries) /\ d.todo \subseteq DOMAIN d.list
      BY <1>1, <1>2 DEF ChurnInv
    <3>2. d.list[i] \in FuzzEntries
      <4>1. d.todo \subseteq Nat
        BY <3>1, SMT
      <4>2. i \in d.todo
        BY <1>1, <4>1, MinIn
      <4> QED
        BY <3>1, <4>2, SMT
    <3>3. BooksInv'
      BY <1>1, <3>2, FuzzEffect DEF ChurnInv
    <3>4. dispatch'["main"] = IF d.todo = {i} THEN NoDispatch
                              ELSE [d EXCEPT !.todo = @ \ {i}]
      BY <1>1, <1>2 DEF ProgramsInv
    <3>5. /\ NoDispatch.list \in Seq(FuzzEntries)
          /\ NoDispatch.todo \subseteq DOMAIN NoDispatch.list
      BY SMT DEF NoDispatch
    <3> QED
      BY <2>1, <3>1, <3>3, <3>4, <3>5, SMT DEF ChurnInv
  <2>6. MainStep
    BY <1>1, <1>2, <2>1, <2>2, <2>3, <2>4, <2>5 DEF MainStep, ProgramsInv
  <2> QED
    BY <2>6, MainKeeps
<1>3. CASE t # "main"
  <2>1. t \in Worker
    BY <1>3 DEF Thread
  <2>2. program = "concurrent"
    <3>1. NoDispatch.todo = {}
      BY SMT DEF NoDispatch
    <3> QED
      BY <1>1, <2>1, <3>1 DEF ProgramsInv, WorkersInv
  <2>3. WorkerStep(t)
    BY <1>1 DEF WorkerStep, programVars, registryVars
  <2> QED
    BY <2>1, <2>2, <2>3, WorkerKeeps
<1> QED
  BY <1>2, <1>3

\* The threads of concurrent start and are joined.
LEMMA SpawnKeeps ==
  ASSUME ProgramsInv, NEW t \in Thread, SpawnStep(t)
  PROVE  ProgramsInv'
<1> USE Zenon
<1>0. "spawn" \notin {"notify", "register", "request", "arbitrary"}
  BY SMT
<1>1. /\ Calls(t, "spawn") /\ UNCHANGED programVars /\ dispatch' = dispatch
      /\ failed' = failed
      /\ script' = [u \in Thread |-> IF u = t THEN Tail(script[t]) ELSE ConcurrentWorker]
  BY DEF SpawnStep
<1>2. t = "main" /\ Calls("main", "spawn")
  BY <1>0, <1>1, MainOnly
<1>3. program = "concurrent" /\ program \in Plain
  <2>1. "spawn" \notin {"register", "unregister", "drop", "count", "notify", "mutate"}
    BY SMT
  <2> QED
    BY <1>0, <1>2, <2>1, WhoCalls
<1>4. /\ DOMAIN script' = Thread /\ script'["main"] = Tail(script["main"])
      /\ \A u \in Worker : script'[u] = ConcurrentWorker
  BY <1>1, <1>2, ConstantsAssumption DEF Thread
<1>5. ConcurrentWorker \in Seq({Notify(1)})
  BY ConstantsAssumption, SMT DEF ConcurrentWorker
<1>6. program' = program /\ input' = input
  BY <1>1 DEF programVars
<1>7. WorkersInv'
  BY <1>3, <1>4, <1>5, <1>6 DEF WorkersInv
<1>8. PlainInv'
  <2>1. PICK k \in 1..Len(Main(program, input)) : PlainAt(k, "spawn")
    BY <1>2, <1>3, PlainCall DEF ProgramsInv
  <2> QED
    BY <1>1, <1>4, <2>1 DEF PlainAt, PlainInv, programVars
<1> QED
  BY <1>1, <1>3, <1>4, <1>6, <1>7, <1>8, Classes DEF ProgramsInv

\* Joining the workers keeps it.
LEMMA JoinKeeps ==
  ASSUME ProgramsInv, NEW t \in Thread, JoinStep(t)
  PROVE  ProgramsInv'
<1> USE Zenon
<1>0. "join" \notin {"notify", "register", "request", "arbitrary",
                     "unregister", "drop", "count", "mutate"}
  BY SMT
<1>1. /\ Calls(t, "join") /\ Continue(t) /\ UNCHANGED programVars
      /\ dispatch' = dispatch /\ failed' = failed
  BY DEF JoinStep
<1>2. Calls("main", "join") /\ Continue("main")
  BY <1>0, <1>1, MainOnly
<1>3. program \in Plain
  BY <1>0, <1>2, WhoCalls
<1>4. /\ script'["main"] = Tail(script["main"])
      /\ \E x : script' = [script EXCEPT !["main"] = x]
  BY <1>2, MainContinues
<1>5. PICK k \in 1..Len(Main(program, input)) : PlainAt(k, "join")
  BY <1>2, <1>3, PlainCall DEF ProgramsInv
<1>6. PlainInv'
  BY <1>1, <1>4, <1>5 DEF PlainAt, PlainInv, programVars
<1>7. MainStep
  BY <1>1, <1>3, <1>4, <1>6, Classes DEF MainStep, ProgramsInv
<1> QED
  BY <1>7, MainKeeps

\* The events of a request are calls of pattern_metric_event.
LEMMA RequestCalls ==
  ASSUME NEW i \in Nat
  PROVE  RequestEvents(i) \o Traffic(i + 1) \in Seq(MetricCalls)
<1> DEFINE started == Notify([kind |-> "RequestStarted"])
           error == Notify([kind |-> "Error"])
           completed == Notify([kind |-> "RequestCompleted", latency_us |-> 150 + (i % 50)])
           maybe == IF i % 97 = 0 THEN <<error>> ELSE <<>>
<1>1. started \in MetricCalls /\ error \in MetricCalls
  BY DEF Notify, MetricCalls, MetricEvents
<1>2. completed \in MetricCalls
  <2>1. 150 + (i % 50) \in Nat
    OBVIOUS
  <2> QED
    BY <2>1 DEF Notify, MetricCalls, MetricEvents
<1>3. Request(i + 1) \in MetricCalls
  <2>1. i + 1 \in Nat
    OBVIOUS
  <2> QED
    BY <2>1, Zenon DEF Request, MetricCalls
<1> HIDE DEF started, error, completed
<1>4. /\ <<started>> \in Seq(MetricCalls) /\ <<completed>> \in Seq(MetricCalls)
      /\ <<error>> \in Seq(MetricCalls) /\ <<>> \in Seq(MetricCalls)
      /\ <<Request(i + 1)>> \in Seq(MetricCalls)
  BY <1>1, <1>2, <1>3
<1>5. maybe \in Seq(MetricCalls) /\ Traffic(i + 1) \in Seq(MetricCalls)
  BY <1>4, Zenon DEF Traffic
<1> HIDE DEF maybe
<1>6. <<started>> \o maybe \o <<completed>> \in Seq(MetricCalls)
  BY <1>4, <1>5, Concatenated, Zenon
<1>7. RequestEvents(i) = <<started>> \o maybe \o <<completed>>
  BY Zenon DEF RequestEvents, started, maybe, error, completed
<1> QED
  BY <1>5, <1>6, <1>7, Concatenated, Zenon

\* A round of the loop over the requests keeps it.
LEMMA RequestKeeps ==
  ASSUME ProgramsInv, NEW t \in Thread, RequestStep(t)
  PROVE  ProgramsInv'
<1> USE Zenon
<1>0. "request" \notin {"register", "unregister", "drop", "count", "notify", "mutate",
                        "spawn", "join", "arbitrary"}
  BY SMT
<1> DEFINE i == Head(script["main"]).i
<1>1. /\ Calls(t, "request") /\ UNCHANGED programVars /\ handlers' = handlers
      /\ dispatch' = dispatch /\ failed' = failed
  BY DEF RequestStep, registryVars
<1>2. t = "main" /\ Calls("main", "request")
  BY <1>0, <1>1, MainOnly
<1>3. program = "pattern_metric_event" /\ MetricInv
  BY <1>0, <1>2, WhoCalls DEF ProgramsInv
<1>4. Head(script["main"]) \in MetricCalls /\ handlers = MetricList
  BY <1>0, <1>2, <1>3, MetricCall
<1>5. Head(script["main"]).call = "request"
  BY <1>2 DEF Calls
<1>6. i \in Nat
  <2>1. \A x \in MetricCalls : x.call = "request" => x.i \in Nat
    <3>1. "notify" # "request"
      BY SMT
    <3> QED
      BY <3>1 DEF MetricCalls
  <2> QED
    BY <1>4, <1>5, <2>1
<1>7. /\ \E x : script' = [script EXCEPT !["main"] = x]
      /\ script'["main"] = RequestEvents(i) \o Traffic(i + 1)
  BY <1>2 DEF RequestStep, ProgramsInv, Thread
<1>8. MetricInv'
  BY <1>1, <1>4, <1>6, <1>7, RequestCalls DEF MetricInv
<1>9. MainStep
  BY <1>1, <1>3, <1>7, <1>8, Classes DEF MainStep, ProgramsInv
<1> QED
  BY <1>9, MainKeeps

-----------------------------------------------------------------------------
(* handler_churn *)

\* The id of a handler is in the list.
LEMMA ContainsIds ==
  ASSUME NEW list, NEW id
  PROVE  ContainsId(list, id) <=> id \in Ids(list)
  BY Zenon DEF ContainsId, Ids

\* Every id of the fuzz target's list is a number.
LEMMA FuzzIds ==
  ASSUME NEW list \in Seq(FuzzEntries)
  PROVE  Ids(list) \subseteq Nat
<1>1. \A k \in DOMAIN list : list[k] \in FuzzEntries
  OBVIOUS
<1>2. \A e \in FuzzEntries : e.id \in Nat
  BY DEF FuzzEntries
<1> QED
  BY <1>1, <1>2, Zenon DEF Ids

\* Only the live ids change when the target pushes one or swaps one out.
LEMMA NewLiveIds ==
  ASSUME NEW s \in [invocations : Nat, live_ids : Seq(Nat), stale_id : Nat],
         NEW L \in Seq(Nat), NEW u, u = [s EXCEPT !.live_ids = L]
  PROVE  /\ u \in [invocations : Nat, live_ids : Seq(Nat), stale_id : Nat]
         /\ u.live_ids = L /\ u.stale_id = s.stale_id
  BY SMTT(30)

\* An id is drawn, and the handler is registered under it.
LEMMA RegisterBooks ==
  ASSUME BooksInv, OpRegister
  PROVE  BooksInv'
<1> USE Zenon
<1> DEFINE live == shared.live_ids
<1>1. /\ handlers \in Seq(FuzzEntries) /\ next_id \in Nat \ {0}
      /\ Ordered(handlers, Unordered) /\ Distinct(handlers)
      /\ shared \in [invocations : Nat, live_ids : Seq(Nat), stale_id : Nat]
      /\ Len(live) = Len(handlers) /\ NoRepeats(live) /\ Range(live) = Ids(handlers)
      /\ shared.stale_id \notin Ids(handlers) /\ shared.stale_id < next_id
      /\ \A id \in Ids(handlers) : id < next_id
  BY DEF BooksInv
<1>2. PICK hook \in {"fuzz", "fuzz_panic"} :
        handlers' = Insert(handlers, [id |-> next_id, priority |-> 0, hook |-> hook])
  BY DEF OpRegister
<1>3. /\ next_id' = next_id + 1
      /\ shared' = [shared EXCEPT !.live_ids = Append(@, next_id)]
  BY DEF OpRegister
<1> DEFINE e == [id |-> next_id, priority |-> 0, hook |-> hook]
<1>4. e \in FuzzEntries /\ e.id = next_id
  BY <1>1, <1>2, SMT DEF FuzzEntries
<1>5. live \in Seq(Nat) /\ shared.stale_id \in Nat
  BY <1>1, SMT
<1>6. Ids(handlers) \subseteq Nat
  BY <1>1, FuzzIds
<1>7. next_id \notin Ids(handlers)
  BY <1>1, <1>6, SMT
<1>8. Insertable(FuzzEntries, handlers, Unordered, e)
  <2>1. Prioritised(FuzzEntries)
    BY SMT DEF Prioritised, FuzzEntries
  <2>2. Unseen(e, handlers, Unordered)
    <3>1. \A k \in DOMAIN handlers : Unordered[handlers[k].id] = {}
      <4>1. \A k \in DOMAIN handlers : handlers[k].id \in Nat
        BY <1>6 DEF Ids
      <4> QED
        BY <4>1 DEF Unordered
    <3> QED
      BY <3>1 DEF Unseen
  <2> QED
    BY <1>1, <1>4, <1>7, <2>1, <2>2 DEF Insertable
<1> HIDE DEF e
<1>9. Entered(FuzzEntries, handlers, Unordered, e, handlers')
  BY <1>2, <1>8, InsertKeeps DEF e
<1>10. /\ handlers' \in Seq(FuzzEntries) /\ Len(handlers') = Len(handlers) + 1
       /\ Ordered(handlers', Unordered) /\ Distinct(handlers')
       /\ Ids(handlers') = Ids(handlers) \cup {next_id}
  BY <1>4, <1>9 DEF Entered
<1>11. /\ shared' \in [invocations : Nat, live_ids : Seq(Nat), stale_id : Nat]
       /\ shared'.live_ids = Append(live, next_id)
       /\ shared'.stale_id = shared.stale_id
  <2>1. shared' = [shared EXCEPT !.live_ids = Append(live, next_id)]
    BY <1>3
  <2>2. Append(live, next_id) \in Seq(Nat)
    BY <1>1, <1>5, SMT
  <2> HIDE DEF live
  <2> QED
    BY <1>1, <2>1, <2>2, NewLiveIds
<1> HIDE DEF live
<1>12. PICK L : L = Append(live, next_id)
  OBVIOUS
<1>13. PICK n \in Nat : n = Len(live) /\ DOMAIN live = 1..n
  BY <1>5, SMT
<1>14. /\ Len(L) = n + 1 /\ DOMAIN L = 1..(n + 1) /\ L[n + 1] = next_id
       /\ \A k \in 1..n : L[k] = live[k]
  BY <1>1, <1>5, <1>12, <1>13, SMT
<1>15. \A k \in 1..n : live[k] \in Range(live)
  BY <1>13 DEF Range
<1>16. Range(L) = Range(live) \cup {next_id}
  <2>1. ASSUME NEW x \in Range(L) PROVE x \in Range(live) \cup {next_id}
    <3>1. PICK k \in 1..(n + 1) : x = L[k]
      BY <1>14, <2>1 DEF Range
    <3>2. k \in 1..n \/ k = n + 1
      BY SMT
    <3> QED
      BY <1>14, <1>15, <3>1, <3>2
  <2>2. ASSUME NEW x \in Range(live) PROVE x \in Range(L)
    <3>1. PICK k \in 1..n : x = live[k]
      BY <1>13, <2>2 DEF Range
    <3>2. k \in 1..(n + 1)
      BY SMT
    <3> QED
      BY <1>14, <3>1, <3>2 DEF Range
  <2>3. next_id \in Range(L)
    <3>1. n + 1 \in 1..(n + 1)
      BY SMT
    <3> QED
      BY <1>14, <3>1 DEF Range
  <2> QED
    BY <2>1, <2>2, <2>3
<1>17. NoRepeats(L)
  <2> SUFFICES ASSUME NEW a \in 1..(n + 1), NEW b \in 1..(n + 1), L[a] = L[b]
               PROVE  a = b
    BY <1>14 DEF NoRepeats
  <2>1. (a \in 1..n \/ a = n + 1) /\ (b \in 1..n \/ b = n + 1)
    BY SMT
  <2>2. \A c, d \in 1..n : live[c] = live[d] => c = d
    BY <1>1, <1>13 DEF NoRepeats, live
  <2>3. \A c \in 1..n : live[c] # next_id
    BY <1>1, <1>7, <1>15 DEF live
  <2> QED
    BY <1>14, <2>1, <2>2, <2>3
<1>18. /\ next_id' \in Nat \ {0} /\ shared.stale_id < next_id'
       /\ shared.stale_id # next_id
       /\ \A id \in Ids(handlers) \cup {next_id} : id < next_id'
  BY <1>1, <1>3, <1>5, <1>6, SMTT(30)
<1>19. Len(L) = Len(handlers')
  BY <1>1, <1>10, <1>13, <1>14 DEF live
<1> QED
  BY <1>1, <1>10, <1>11, <1>12, <1>16, <1>17, <1>18, <1>19 DEF BooksInv, live

\* An id in the books is unregistered and becomes the stale one; the assertion holds.
LEMMA UnregisterBooks ==
  ASSUME BooksInv, OpUnregisterIndex, failed = FALSE
  PROVE  BooksInv' /\ failed' = FALSE
<1> USE Zenon
<1>1. /\ handlers \in Seq(FuzzEntries) /\ next_id \in Nat \ {0}
      /\ Ordered(handlers, Unordered) /\ Distinct(handlers)
      /\ shared \in [invocations : Nat, live_ids : Seq(Nat), stale_id : Nat]
      /\ Len(shared.live_ids) = Len(handlers) /\ NoRepeats(shared.live_ids)
      /\ Range(shared.live_ids) = Ids(handlers)
      /\ shared.stale_id \notin Ids(handlers) /\ shared.stale_id < next_id
      /\ \A id \in Ids(handlers) : id < next_id
  BY DEF BooksInv
<1>2. PICK i \in DOMAIN shared.live_ids :
        /\ Removed(shared.live_ids[i])
        /\ Asserted(ContainsId(handlers, shared.live_ids[i]))
        /\ shared' = [shared EXCEPT !.live_ids = SwapRemove(@, i),
                                    !.stale_id = shared.live_ids[i]]
        /\ next_id' = next_id
  BY DEF OpUnregisterIndex
<1>3. PICK s : s = shared.live_ids
  OBVIOUS
<1>4. s \in Seq(Nat)
  BY <1>1, <1>3, SMT
<1>5. PICK id : id = s[i]
  OBVIOUS
<1>6. id \in Nat /\ id \in Range(s)
  BY <1>2, <1>3, <1>4, <1>5, SMTT(30) DEF Range
<1>7. id \in Ids(handlers) /\ ContainsId(handlers, id)
  BY <1>1, <1>3, <1>6, ContainsIds
<1>8. PICK L : L = SwapRemove(s, i)
  OBVIOUS
<1>9. /\ L \in Seq(Nat) /\ Len(L) = Len(s) - 1 /\ NoRepeats(L)
      /\ Range(L) = Range(s) \ {id}
  BY <1>1, <1>2, <1>3, <1>4, <1>5, <1>8, SwapRemoved
<1>10. handlers' = RemoveId(handlers, id)
  BY <1>2, <1>3, <1>5, <1>7 DEF Removed
<1>11. /\ handlers' \in Seq(FuzzEntries) /\ Len(handlers') = Len(handlers) - 1
       /\ Ordered(handlers', Unordered) /\ Distinct(handlers')
       /\ Ids(handlers') = Ids(handlers) \ {id}
  <2> DEFINE Kept(list) ==
        /\ list \in Seq(FuzzEntries) /\ Len(list) = Len(handlers) - 1
        /\ Ordered(list, Unordered) /\ Distinct(list)
        /\ Ids(list) = Ids(handlers) \ {id}
  <2>1. PICK H : H = RemoveId(handlers, id)
    OBVIOUS
  <2>2. Kept(H)
    <3>1. /\ handlers \in Seq(FuzzEntries) /\ Ordered(handlers, Unordered)
          /\ Distinct(handlers)
      BY <1>1
    <3> QED
      BY <1>7, <2>1, <3>1, RemoveKeeps, ZenonT(40)
  <2>3. handlers' = H
    BY <1>10, <2>1
  <2> QED
    BY <2>2, <2>3
<1>12. shared' = [shared EXCEPT !.live_ids = L, !.stale_id = id]
  BY <1>2, <1>3, <1>5, <1>8
<1>13. /\ shared' \in [invocations : Nat, live_ids : Seq(Nat), stale_id : Nat]
       /\ shared'.live_ids = L /\ shared'.stale_id = id
  BY <1>1, <1>6, <1>9, <1>12
<1>14. failed' = FALSE
  BY <1>2, <1>3, <1>5, <1>7 DEF Asserted
<1>15. id < next_id
  BY <1>1, <1>7
<1>16. Len(L) = Len(handlers') /\ Range(L) = Ids(handlers')
  BY <1>1, <1>3, <1>9, <1>11
<1> QED
  BY <1>1, <1>2, <1>9, <1>11, <1>13, <1>14, <1>15, <1>16 DEF BooksInv

\* No other operation of the target changes the books but clear, and the
\* assertions of each hold.
LEMMA OtherBooks ==
  ASSUME BooksInv, failed = FALSE,
         \/ OpUnregisterStale \/ OpClear \/ OpNotify \/ OpHandlerCount \/ OpContains
  PROVE  BooksInv' /\ failed' = FALSE
<1> USE Zenon
<1>1. CASE OpUnregisterStale
  <2>1. ~ContainsId(handlers, shared.stale_id)
    BY ContainsIds DEF BooksInv
  <2>2. /\ handlers' = handlers /\ next_id' = next_id /\ shared' = shared
        /\ failed' = FALSE
    BY <1>1, <2>1 DEF OpUnregisterStale, Removed, Asserted
  <2> QED
    BY <2>2 DEF BooksInv
<1>2. CASE OpClear
  <2>1. /\ handlers' = <<>> /\ next_id' = next_id /\ failed' = failed
        /\ shared' = [shared EXCEPT !.live_ids = <<>>]
    BY <1>2 DEF OpClear
  <2>2. shared \in [invocations : Nat, live_ids : Seq(Nat), stale_id : Nat]
    BY DEF BooksInv
  <2>3. PICK L : L = <<>>
    OBVIOUS
  <2>4. L \in Seq(Nat) /\ L \in Seq(FuzzEntries) /\ DOMAIN L = {}
    BY <2>3, SMT
  <2>5. /\ shared' \in [invocations : Nat, live_ids : Seq(Nat), stale_id : Nat]
        /\ shared'.live_ids = L /\ shared'.stale_id = shared.stale_id
    BY <2>1, <2>2, <2>3, <2>4, NewLiveIds
  <2>6. /\ Range(L) = {} /\ Ids(L) = {} /\ NoRepeats(L) /\ Distinct(L)
        /\ Ordered(L, Unordered)
    BY <2>4 DEF Range, Ids, NoRepeats, Distinct, Ordered
  <2>7. handlers' = L
    BY <2>1, <2>3
  <2> QED
    BY <2>1, <2>4, <2>5, <2>6, <2>7 DEF BooksInv
<1>3. CASE OpNotify
  BY <1>3 DEF OpNotify, BooksInv, registryVars
<1>4. CASE OpHandlerCount
  <2>1. Len(handlers) = Len(shared.live_ids)
    BY DEF BooksInv
  <2>2. /\ handlers' = handlers /\ next_id' = next_id /\ shared' = shared
        /\ failed' = FALSE
    BY <1>4, <2>1 DEF OpHandlerCount, Asserted, registryVars
  <2> QED
    BY <2>2 DEF BooksInv
<1>5. CASE OpContains
  <2>1. PICK i \in DOMAIN shared.live_ids :
          /\ Asserted(ContainsId(handlers, shared.live_ids[i]))
          /\ handlers' = handlers /\ next_id' = next_id /\ shared' = shared
    BY <1>5 DEF OpContains, registryVars
  <2>2. shared.live_ids[i] \in Ids(handlers)
    BY <2>1 DEF BooksInv, Range
  <2>3. failed' = FALSE
    BY <2>1, <2>2, ContainsIds DEF Asserted
  <2> QED
    BY <2>1, <2>3 DEF BooksInv
<1> QED
  BY <1>1, <1>2, <1>3, <1>4, <1>5

\* An operation of the fuzz target.
LEMMA ChurnKeeps ==
  ASSUME ProgramsInv, Churn
  PROVE  ProgramsInv'
<1> USE Zenon
<1>1. /\ program = "handler_churn" /\ ChurnInv /\ BooksInv /\ failed = FALSE
      /\ DOMAIN script = Thread /\ DOMAIN dispatch = Thread
  BY DEF ProgramsInv, Churn, ChurnInv
<1>2. TakesOp
  BY DEF Churn, OpRegister, OpUnregisterIndex, OpUnregisterStale, OpClear,
               OpNotify, OpHandlerCount, OpContains
<1>3. PICK x : script' = [script EXCEPT !["main"] = x]
               /\ (x = <<>> \/ \E n \in Nat : x = <<Arbitrary(n)>>)
  <2>1. PICK n \in Nat : script["main"] = <<Arbitrary(n)>>
    BY <1>1, <1>2, ChurnCall DEF TakesOp
  <2>2. Head(script["main"]).left = n
    BY <2>1, SMT DEF Arbitrary
  <2>3. script' = [script EXCEPT !["main"] =
                     IF n > 1 THEN <<Arbitrary(n - 1)>> ELSE <<>>]
    BY <1>2, <2>2 DEF TakesOp
  <2>4. n > 1 => n - 1 \in Nat
    BY SMT
  <2> QED
    BY <2>3, <2>4
<1>4. script'["main"] = x
  BY <1>1, <1>3, SMT DEF Thread
<1>5. BooksInv' /\ failed' = FALSE
  <2>1. CASE OpRegister
    BY <1>1, <2>1, RegisterBooks DEF OpRegister
  <2>2. CASE OpUnregisterIndex
    BY <1>1, <2>2, UnregisterBooks
  <2> QED
    BY <1>1, <2>1, <2>2, OtherBooks DEF Churn
<1>6. \/ dispatch' = dispatch
      \/ \E d : /\ dispatch' = [dispatch EXCEPT !["main"] = d]
                /\ d = NoDispatch \/ (d.list = handlers /\ d.todo = DOMAIN handlers)
  <2>1. CASE OpNotify
    <3>1. PICK d : /\ dispatch' = [dispatch EXCEPT !["main"] = d]
                   /\ d = IF handlers = <<>> THEN NoDispatch
                          ELSE [list |-> handlers, todo |-> DOMAIN handlers,
                                event |-> <<0>>, join |-> FALSE]
      BY <2>1 DEF OpNotify, Dispatched
    <3>2. d = NoDispatch \/ (d.list = handlers /\ d.todo = DOMAIN handlers)
      BY <3>1, SMT
    <3> QED
      BY <3>1, <3>2
  <2> QED
    BY <2>1 DEF Churn, OpRegister, OpUnregisterIndex, OpUnregisterStale,
                       OpClear, OpHandlerCount, OpContains
<1>7. /\ dispatch'["main"].list \in Seq(FuzzEntries)
      /\ dispatch'["main"].todo \subseteq DOMAIN dispatch'["main"].list
  <2>1. CASE dispatch' = dispatch
    BY <1>1, <2>1 DEF ChurnInv
  <2>2. ASSUME NEW d, dispatch' = [dispatch EXCEPT !["main"] = d],
               d = NoDispatch \/ (d.list = handlers /\ d.todo = DOMAIN handlers)
        PROVE  /\ dispatch'["main"].list \in Seq(FuzzEntries)
               /\ dispatch'["main"].todo \subseteq DOMAIN dispatch'["main"].list
    <3>1. dispatch'["main"] = d
      BY <1>1, <2>2, SMT DEF Thread
    <3>2. handlers \in Seq(FuzzEntries)
      BY <1>1 DEF BooksInv
    <3>3. NoDispatch.list \in Seq(FuzzEntries) /\ NoDispatch.todo = {}
      BY SMT DEF NoDispatch
    <3> QED
      BY <2>2, <3>1, <3>2, <3>3
  <2> QED
    BY <1>6, <2>1, <2>2
<1>8. ChurnInv'
  BY <1>3, <1>4, <1>5, <1>7 DEF ChurnInv
<1>9. /\ "handler_churn" \notin Tracked \cup Plain
      /\ "handler_churn" # "pattern_metric_event"
  BY SMT DEF Tracked, Plain
<1>10. MainStep
  BY <1>1, <1>2, <1>3, <1>5, <1>6, <1>8, <1>9 DEF MainStep, TakesOp
<1> QED
  BY <1>10, MainKeeps

-----------------------------------------------------------------------------
(* The assertions *)

\* Every program starts in the invariant.
LEMMA InitInv ==
  ASSUME Init
  PROVE  ProgramsInv
<1> USE Zenon
<1>1. /\ program \in ProgramNames /\ input \in Inputs(program) /\ failed = FALSE
      /\ handlers = <<>> /\ next_id = 1 /\ shared = Initially(program)
      /\ script = [t \in Thread |->
                     IF t = "main" THEN Main(program, input) ELSE <<>>]
      /\ dispatch = [t \in Thread |-> NoDispatch]
  BY ConstantsAssumption DEF Init
<1>2. "main" \in Thread /\ \A u \in Worker : u \in Thread /\ u # "main"
  BY ConstantsAssumption DEF Thread
<1>3. /\ DOMAIN script = Thread /\ DOMAIN dispatch = Thread
      /\ script["main"] = Main(program, input) /\ dispatch["main"] = NoDispatch
      /\ \A u \in Worker : script[u] = <<>> /\ dispatch[u] = NoDispatch
  BY <1>1, <1>2
<1>4. WorkersInv
  <2>1. <<>> \in Seq({Notify(1)})
    BY SMT
  <2> QED
    BY <1>3, <2>1 DEF WorkersInv
<1>5. program \in Tracked => TrackedInv
  <2> SUFFICES ASSUME program \in Tracked PROVE TrackedInv
    BY SMT
  <2>1. Follows(Main(program, input), Lists(program), Nexts(program))
    BY TrackedFollows
  <2>2. /\ 1 \in 1..(Len(Main(program, input)) + 1)
        /\ Main(program, input) = Rest(Main(program, input), 1)
    BY <2>1, RestFirst DEF Follows
  <2>3. Lists(program)[1] = <<>> /\ Nexts(program)[1] = 1
    BY <2>1 DEF Follows
  <2> QED
    BY <1>1, <1>3, <2>2, <2>3 DEF TrackedInv
<1>6. program \in Plain => PlainInv
  <2> SUFFICES ASSUME program \in Plain PROVE PlainInv
    BY SMT
  <2>1. Harmless(program, Main(program, input))
    BY <1>1, PlainHarmless
  <2>2. /\ 1 \in 1..(Len(Main(program, input)) + 1)
        /\ Main(program, input) = Rest(Main(program, input), 1)
    BY <2>1, RestFirst DEF Harmless
  <2> QED
    BY <1>3, <2>2 DEF PlainInv
<1>7. program = "pattern_metric_event" => MetricInv
  <2> SUFFICES ASSUME program = "pattern_metric_event" PROVE MetricInv
    BY SMT
  <2>1. Main(program, input) = MetricEvent
    BY DEF Main
  <2> QED
    BY <1>1, <1>3, <2>1 DEF MetricInv
<1>8. program = "handler_churn" => ChurnInv
  <2> SUFFICES ASSUME program = "handler_churn" PROVE ChurnInv
    BY SMT
  <2>1. Main(program, input) = <<Arbitrary(MaxOps)>> /\ MaxOps \in Nat
    BY ConstantsAssumption DEF Main, HandlerChurn
  <2>2. shared = [invocations |-> 0, live_ids |-> <<>>, stale_id |-> 0]
    BY <1>1, SMT DEF Initially
  <2>3. PICK L : L = <<>>
    OBVIOUS
  <2>4. L \in Seq(Nat) /\ L \in Seq(FuzzEntries) /\ DOMAIN L = {}
    BY <2>3, SMT
  <2>5. /\ shared \in [invocations : Nat, live_ids : Seq(Nat), stale_id : Nat]
        /\ shared.live_ids = L /\ shared.stale_id = 0
    BY <2>2, <2>3, SMT
  <2>6. /\ Range(L) = {} /\ Ids(L) = {} /\ NoRepeats(L) /\ Distinct(L)
        /\ Ordered(L, Unordered)
    BY <2>4 DEF Range, Ids, NoRepeats, Distinct, Ordered
  <2>7. next_id \in Nat \ {0} /\ 0 < next_id
    BY <1>1, SMT
  <2>8. BooksInv
    BY <1>1, <2>3, <2>4, <2>5, <2>6, <2>7 DEF BooksInv
  <2>9. NoDispatch.list = L /\ NoDispatch.todo = {}
    BY <2>3, SMT DEF NoDispatch
  <2> QED
    BY <1>3, <2>1, <2>4, <2>8, <2>9 DEF ChurnInv
<1> QED
  BY <1>1, <1>3, <1>4, <1>5, <1>6, <1>7, <1>8 DEF ProgramsInv

\* Every step of every thread keeps it.
LEMMA StepInv ==
  ASSUME ProgramsInv, [Next]_vars
  PROVE  ProgramsInv'
<1> USE Zenon
<1>1. CASE UNCHANGED vars
  <2>1. UNCHANGED <<program, input, script, handlers, next_id, dispatch, shared, failed>>
    BY <1>1 DEF vars, programVars, registryVars
  <2> QED
    BY <2>1 DEF ProgramsInv, WorkersInv, TrackedInv, PlainInv, MetricInv,
                       ChurnInv, BooksInv
<1>2. ASSUME NEW t \in Thread,
             \/ RegisterStep(t) \/ UnregisterStep(t) \/ DropStep(t) \/ CountStep(t)
             \/ NotifyStep(t) \/ HandlerStep(t) \/ MutateStep(t) \/ SpawnStep(t)
             \/ JoinStep(t) \/ RequestStep(t)
      PROVE  ProgramsInv'
  BY <1>2, RegisterKeeps, TableKeeps, NotifyKeeps, HandlerKeeps, SpawnKeeps, JoinKeeps,
     RequestKeeps
<1>3. CASE Churn
  BY <1>3, ChurnKeeps
<1> QED
  BY <1>1, <1>2, <1>3 DEF Next

\* Every program is at a known point of its text with the handlers that its
\* text asks for; handler_churn with the books that go with the list.
THEOREM ProgramsKept == Spec => []ProgramsInv
<1>1. Init => ProgramsInv
  BY InitInv
<1>2. ProgramsInv /\ [Next]_vars => ProgramsInv'
  BY StepInv
<1> QED
  BY <1>1, <1>2, PTL DEF Spec

\* No assertion of an example or of a fuzz target ever fails, whatever the
\* inputs, however many workers there are and however they interleave.
THEOREM AssertionsKept == Spec => []AssertionsHold
<1>1. ProgramsInv => AssertionsHold
  BY Zenon DEF ProgramsInv, AssertionsHold
<1> QED
  BY <1>1, ProgramsKept, PTL

-----------------------------------------------------------------------------
(* The agreement of the subscribers *)

\* What the subscribers of each pattern have gathered, in the middle of a
\* dispatch too.
AgreeInv ==
  LET d == dispatch["main"] IN
  /\ program = "pattern_hot_reload" => Reloaded(shared, d)
  /\ program = "pattern_metric_event" => Counted(shared, d)
  /\ program = "pattern_audit_fanout" => Audited(shared, d)
  /\ program = "pattern_transaction_hooks" => Hooked(shared, d)

\* What the main thread is about to do in a program with a table.
LEMMA TrackedNext ==
  ASSUME ProgramsInv, program \in Tracked, NEW c, Calls("main", c)
  PROVE  \E k \in 1..Len(Main(program, input)) :
           /\ Main(program, input)[k].call = c
           /\ Head(script["main"]) = Main(program, input)[k]
           /\ handlers = Lists(program)[k]
<1>1. PICK k \in 1..Len(Main(program, input)) : TrackedAt(k, c)
  BY TrackedCall, Zenon DEF ProgramsInv
<1> QED
  BY <1>1, Zenon DEF TrackedAt

\* A thread of a program that is about agreement calls a notify or a handler:
\* it is the main thread.
Agreeing == {"pattern_hot_reload", "pattern_metric_event", "pattern_audit_fanout",
             "pattern_transaction_hooks"}

\* The programs with subscribers that agree have no thread but main.
LEMMA MainAlone ==
  ASSUME ProgramsInv, program \in Agreeing, NEW t \in Thread,
         dispatch[t].todo # {} \/ \E c : Calls(t, c)
  PROVE  t = "main"
<1>1. program # "concurrent"
  BY DEF Agreeing
<1>2. CASE \E c : Calls(t, c)
  BY <1>1, <1>2, MainOnly, Zenon
<1>3. CASE dispatch[t].todo # {}
  <2>1. NoDispatch.todo = {}
    BY DEF NoDispatch
  <2> QED
    BY <1>1, <1>3, <2>1, Zenon DEF ProgramsInv, WorkersInv, Thread
<1> QED
  BY <1>2, <1>3, Zenon

\* It is enough to look at the programs that are about agreement, and at what
\* changes what handlers and program share or the dispatch.
LEMMA AgreeOtherwise ==
  ASSUME AgreeInv, UNCHANGED programVars,
         program \notin Agreeing \/ (shared' = shared /\ dispatch' = dispatch)
  PROVE  AgreeInv'
<1> USE Zenon
<1>1. program' = program
  BY DEF programVars
<1>2. CASE program \notin Agreeing
  BY <1>1, <1>2 DEF AgreeInv, Agreeing
<1>3. CASE shared' = shared /\ dispatch' = dispatch
  BY <1>1, <1>3 DEF AgreeInv
<1> QED
  BY <1>2, <1>3

\* The event of a notify is passed on to the list of the program.
LEMMA NotifyAgrees ==
  ASSUME ProgramsInv, AgreeInv, program \in Agreeing, NEW t \in Thread, NotifyStep(t)
  PROVE  AgreeInv'
<1> USE Zenon
<1> DEFINE d == dispatch["main"]
           call == Head(script["main"])
<1>1. t = "main" /\ Calls("main", "notify")
  BY MainAlone DEF NotifyStep
<1>2. /\ program' = program /\ shared' = shared /\ d.todo = {}
      /\ dispatch' = [dispatch EXCEPT !["main"] =
                        IF handlers = <<>> THEN NoDispatch
                        ELSE [list |-> handlers, todo |-> DOMAIN handlers,
                              event |-> <<call.event>>, join |-> call.join]]
  BY <1>1 DEF NotifyStep, Dispatched, programVars, Calls, Between
<1>3. dispatch'["main"] = IF handlers = <<>> THEN NoDispatch
                          ELSE [list |-> handlers, todo |-> DOMAIN handlers,
                                event |-> <<call.event>>, join |-> call.join]
  <2>1. "main" \in DOMAIN dispatch
    BY DEF ProgramsInv, Thread
  <2> QED
    BY <1>2, <2>1
<1>4. ASSUME NEW list \in Seq(AnyEntry), handlers = list, Len(list) > 0,
             call.join = FALSE
      PROVE  dispatch'["main"] = Calling(list, call.event, 1)
  BY <1>3, <1>4, CallsFirst
<1>5. {"pattern_hot_reload", "pattern_audit_fanout", "pattern_transaction_hooks"}
        \subseteq Tracked
  BY DEF Tracked
<1>6. program # "pattern_hot_reload"
  <2> SUFFICES ASSUME program = "pattern_hot_reload" PROVE FALSE
    OBVIOUS
  <2>1. Main(program, input) = HotReload
    BY DEF Main
  <2> QED
    BY <1>1, <1>5, <2>1, TrackedNext, ReloadCalls
<1>7. program = "pattern_metric_event" => Counted(shared', dispatch'["main"])
  <2> SUFFICES ASSUME program = "pattern_metric_event"
               PROVE  Counted(shared', dispatch'["main"])
    BY SMT
  <2>1. handlers = MetricList /\ call \in MetricCalls /\ call.call = "notify"
    <3>1. "notify" # "register"
      BY SMT
    <3> QED
      BY <1>1, <3>1, MetricCall DEF ProgramsInv, Calls
  <2>2. call.event \in MetricEvents /\ call.join = FALSE
    BY <2>1 DEF MetricCalls
  <2>3. Len(MetricList) > 0 /\ MetricList \in Seq(AnyEntry)
    BY MetricLength, SMT
  <2>4. dispatch'["main"] = Calling(MetricList, call.event, 1)
    BY <1>4, <2>1, <2>2, <2>3
  <2>5. Counted(shared, d)
    BY DEF AgreeInv
  <2> QED
    BY <1>2, <2>2, <2>4, <2>5, BetweenCounted DEF Counted
<1>8. program = "pattern_audit_fanout" => Audited(shared', dispatch'["main"])
  <2> SUFFICES ASSUME program = "pattern_audit_fanout"
               PROVE  Audited(shared', dispatch'["main"])
    BY SMT
  <2>1. Main(program, input) = AuditFanout /\ Lists(program) = AuditLists
    BY DEF Main, Lists
  <2>2. handlers = AuditList /\ call.event \in Severities /\ call.join = FALSE
    <3>1. PICK k \in 1..Len(AuditFanout) :
            /\ AuditFanout[k].call = "notify" /\ call = AuditFanout[k]
            /\ handlers = AuditLists[k]
      BY <1>1, <1>5, <2>1, TrackedNext
    <3> QED
      BY <3>1, AuditCalls
  <2>3. Len(AuditList) > 0 /\ AuditList \in Seq(AnyEntry)
    BY AuditLength, SMT
  <2>4. dispatch'["main"] = Calling(AuditList, call.event, 1)
    BY <1>4, <2>2, <2>3
  <2>5. Audited(shared, d)
    BY DEF AgreeInv
  <2>6. 1 \in 1..2
    BY SMT
  <2> QED
    BY <1>2, <2>2, <2>4, <2>5, <2>6, BetweenAudited DEF Audited
<1>9. program = "pattern_transaction_hooks" => Hooked(shared', dispatch'["main"])
  <2> SUFFICES ASSUME program = "pattern_transaction_hooks"
               PROVE  Hooked(shared', dispatch'["main"])
    BY SMT
  <2>1. Main(program, input) = TransactionHooks /\ Lists(program) = HooksLists
    BY DEF Main, Lists
  <2>2. handlers = HooksList /\ call.event \in TxEvents /\ call.join = FALSE
    <3>1. PICK k \in 1..Len(TransactionHooks) :
            /\ TransactionHooks[k].call = "notify" /\ call = TransactionHooks[k]
            /\ handlers = HooksLists[k]
      BY <1>1, <1>5, <2>1, TrackedNext, ZenonT(40)
    <3> QED
      BY <3>1, HooksCalls
  <2>3. Len(HooksList) > 0 /\ HooksList \in Seq(AnyEntry)
    BY HooksLength, SMT
  <2>4. dispatch'["main"] = Calling(HooksList, call.event, 1)
    BY <1>4, <2>2, <2>3
  <2>5. Hooked(shared, d)
    BY DEF AgreeInv
  <2>6. 1 \in 1..4 /\ ~(1 > 1)
    BY SMT
  <2> QED
    BY <1>2, <2>2, <2>4, <2>5, <2>6 DEF Hooked, TxEvents
<1> QED
  BY <1>2, <1>6, <1>7, <1>8, <1>9 DEF AgreeInv

\* Only pattern_hot_reload changes a configuration.
LEMMA MutateAgrees ==
  ASSUME ProgramsInv, AgreeInv, program \in Agreeing, NEW t \in Thread, MutateStep(t)
  PROVE  AgreeInv'
<1> USE Zenon
<1> DEFINE d == dispatch["main"]
           call == Head(script["main"])
           next == [shared.snapshot EXCEPT ![call.field] = call.value,
                                           !.generation = @ + 1]
<1>1. t = "main" /\ Calls("main", "mutate")
  BY MainAlone DEF MutateStep
<1>2. /\ program' = program /\ shared' = [shared EXCEPT !.snapshot = next]
      /\ dispatch' = [dispatch EXCEPT !["main"] =
                        IF handlers = <<>> THEN NoDispatch
                        ELSE [list |-> handlers, todo |-> DOMAIN handlers,
                              event |-> <<next>>, join |-> FALSE]]
  BY <1>1 DEF MutateStep, Dispatched, programVars
<1>3. dispatch'["main"] = IF handlers = <<>> THEN NoDispatch
                          ELSE [list |-> handlers, todo |-> DOMAIN handlers,
                                event |-> <<next>>, join |-> FALSE]
  <2>1. "main" \in DOMAIN dispatch
    BY DEF ProgramsInv, Thread
  <2> HIDE DEF next
  <2> QED
    BY <1>2, <2>1
<1> HIDE DEF next
<1>4. {"pattern_hot_reload", "pattern_audit_fanout", "pattern_transaction_hooks"}
        \subseteq Tracked
  BY DEF Tracked
<1>5. program # "pattern_metric_event"
  <2>1. "mutate" \notin {"register", "notify", "request"}
    BY SMT
  <2> QED
    BY <1>1, <2>1, MetricCall DEF ProgramsInv
<1>6. program # "pattern_audit_fanout"
  <2> SUFFICES ASSUME program = "pattern_audit_fanout" PROVE FALSE
    OBVIOUS
  <2>1. Main(program, input) = AuditFanout
    BY DEF Main
  <2>2. "mutate" \notin {"register", "notify", "drop", "count"}
    BY SMT
  <2> QED
    BY <1>1, <1>4, <2>1, <2>2, TrackedNext, AuditOtherCalls
<1>7. program # "pattern_transaction_hooks"
  <2> SUFFICES ASSUME program = "pattern_transaction_hooks" PROVE FALSE
    OBVIOUS
  <2>1. Main(program, input) = TransactionHooks
    BY DEF Main
  <2>2. "mutate" \notin {"register", "notify"}
    BY SMT
  <2> QED
    BY <1>1, <1>4, <2>1, <2>2, TrackedNext, HooksCalls
<1>8. program = "pattern_hot_reload"
  BY <1>5, <1>6, <1>7 DEF Agreeing
<1>9. /\ handlers = ReloadList
      /\ \/ call.field = "request_timeout_ms" /\ call.value \in Nat
         \/ call.field = "feature_flag_search_v2" /\ call.value \in BOOLEAN
  <2>1. Main(program, input) = HotReload /\ Lists(program) = ReloadLists
    BY <1>8 DEF Main, Lists
  <2>2. PICK k \in 1..Len(HotReload) :
          /\ HotReload[k].call = "mutate" /\ call = HotReload[k]
          /\ handlers = ReloadLists[k]
    BY <1>1, <1>4, <1>8, <2>1, TrackedNext, ZenonT(40)
  <2> QED
    BY <2>2, ReloadCalls
<1>10. dispatch'["main"] = Calling(ReloadList, next, 1)
  <2>1. Len(ReloadList) > 0 /\ ReloadList \in Seq(AnyEntry)
    BY ReloadLength, SMT
  <2> QED
    BY <1>3, <1>9, <2>1, CallsFirst
<1>11. Reloaded(shared, d)
  BY <1>8 DEF AgreeInv
<1>12. Reloaded(shared', Calling(ReloadList, next, 1))
  BY <1>2, <1>9, <1>11, ReloadMutated DEF next
<1> QED
  BY <1>2, <1>5, <1>6, <1>7, <1>10, <1>12 DEF AgreeInv

\* A subscriber runs.
LEMMA HandlerAgrees ==
  ASSUME ProgramsInv, AgreeInv, program \in Agreeing, NEW t \in Thread, HandlerStep(t)
  PROVE  AgreeInv'
<1> USE Zenon
<1> DEFINE d == dispatch["main"]
<1>1. t = "main" /\ d.todo # {}
  BY MainAlone DEF HandlerStep
<1>2. "main" \in DOMAIN dispatch
  BY DEF ProgramsInv, Thread
<1>3. program' = program
  BY DEF HandlerStep, programVars
<1>4. Handles(shared, d, shared', dispatch'["main"])
  <2>1. PICK i \in IF d.join THEN d.todo ELSE {Min(d.todo)} :
          /\ shared' = Effect(d.list[i], Head(d.event), shared)
          /\ dispatch' = [dispatch EXCEPT !["main"] =
               IF d.todo = {i} THEN NoDispatch ELSE [d EXCEPT !.todo = @ \ {i}]]
    BY <1>1 DEF HandlerStep
  <2>2. dispatch'["main"] = IF d.todo = {i} THEN NoDispatch
                            ELSE [d EXCEPT !.todo = @ \ {i}]
    BY <1>2, <2>1
  <2> QED
    BY <2>1, <2>2 DEF Handles
<1> QED
  BY <1>1, <1>3, <1>4, ReloadHandled, MetricHandled, AuditHandled, HooksHandled
     DEF AgreeInv

\* At the start no event has been seen.
LEMMA InitAgree ==
  ASSUME Init
  PROVE  AgreeInv
<1> USE Zenon
<1> DEFINE d == dispatch["main"]
<1>1. d.todo = {} /\ shared = Initially(program)
  <2>1. "main" \in Thread /\ dispatch = [t \in Thread |-> NoDispatch]
    BY DEF Init, Thread
  <2>2. NoDispatch.todo = {}
    BY SMT DEF NoDispatch
  <2> QED
    BY <2>1, <2>2 DEF Init
<1>2. ASSUME program = "pattern_hot_reload" PROVE Reloaded(shared, d)
  <2>1. PICK ms \in Nat :
          shared = [snapshot |-> [generation |-> 0, request_timeout_ms |-> ms,
                                  feature_flag_search_v2 |-> FALSE],
                    timeout_observed |-> 0, last_v2 |-> FALSE, toggle_count |-> 0]
    <3>1. PICK ms : ms = 30000
      BY SMT
    <3>2. ms \in Nat
      BY <3>1, SMT
    <3>3. Initially("pattern_hot_reload")
            = [snapshot |-> [generation |-> 0, request_timeout_ms |-> ms,
                             feature_flag_search_v2 |-> FALSE],
               timeout_observed |-> 0, last_v2 |-> FALSE, toggle_count |-> 0]
      BY <3>1, SMT DEF Initially
    <3> QED
      BY <1>1, <1>2, <3>2, <3>3, SMT
  <2> DEFINE snap == [generation |-> 0, request_timeout_ms |-> ms,
                      feature_flag_search_v2 |-> FALSE]
  <2>2. 0 \in Nat /\ ~(0 > 0) /\ 0 % 2 # 1
    BY SMT
  <2>3. snap \in Snapshots /\ snap.generation = 0
    BY <2>2 DEF Snapshots
  <2>4. shared = [snapshot |-> snap, timeout_observed |-> 0, last_v2 |-> FALSE,
                  toggle_count |-> 0]
    BY <2>1
  <2> HIDE DEF snap
  <2>5. /\ shared \in [snapshot : Snapshots, timeout_observed : Nat, last_v2 : BOOLEAN,
                       toggle_count : Nat]
        /\ shared.snapshot = snap /\ shared.last_v2 = FALSE /\ shared.toggle_count = 0
    BY <2>2, <2>3, <2>4
  <2> QED
    BY <1>1, <2>2, <2>3, <2>5 DEF Reloaded
<1>3. ASSUME program = "pattern_metric_event" PROVE Counted(shared, d)
  <2>1. shared = [started |-> 0, completed |-> 0, total_latency_us |-> 0, errors |-> 0,
                  pending |-> <<>>]
    BY <1>1, <1>3, SMT DEF Initially
  <2>2. <<>> \in Seq(MetricEvents) /\ 0 \in Nat /\ Len(<<>>) = 0 /\ 0 + 0 + 0 = 0
    BY SMT
  <2>3. /\ shared \in [started : Nat, completed : Nat, total_latency_us : Nat,
                       errors : Nat, pending : Seq(MetricEvents)]
        /\ shared.started = 0 /\ shared.completed = 0 /\ shared.errors = 0
        /\ shared.total_latency_us = 0 /\ shared.pending = <<>>
    BY <2>1, <2>2
  <2> QED
    BY <1>1, <2>2, <2>3, AddsNothing DEF Counted, Events
<1>4. ASSUME program = "pattern_audit_fanout" PROVE Audited(shared, d)
  <2>1. shared = [captured |-> <<>>, triggered |-> 0]
    BY <1>1, <1>4, SMT DEF Initially
  <2>2. <<>> \in Seq(Severities) /\ 0 \in Nat /\ DOMAIN <<>> = {}
    BY SMT
  <2>3. /\ shared \in [captured : Seq(Severities), triggered : Nat]
        /\ shared.captured = <<>> /\ shared.triggered = 0
    BY <2>1, <2>2
  <2>4. CriticalCount(<<>>) = 0
    <3>1. {i \in DOMAIN <<>> : <<>>[i] = "Critical"} = {}
      BY <2>2
    <3> QED
      BY <3>1, FS_EmptySet DEF CriticalCount
  <2> QED
    BY <1>1, <2>3, <2>4 DEF Audited
<1>5. ASSUME program = "pattern_transaction_hooks" PROVE Hooked(shared, d)
  <2>1. shared = [total |-> 0, order |-> <<>>, panic_count |-> 0]
    BY <1>1, <1>5, SMT DEF Initially
  <2> DEFINE T == Nat \X Hooks \X Transitions
  <2>2. <<>> \in Seq(T) /\ 0 \in Nat /\ DOMAIN <<>> = {}
    BY SMT
  <2>3. shared \in [total : Nat, order : Seq(T), panic_count : Nat] /\ shared.order = <<>>
    BY <2>1, <2>2
  <2>4. FlushedFirst(<<>>)
    BY <2>2 DEF FlushedFirst
  <2> QED
    BY <1>1, <2>3, <2>4 DEF Hooked
<1> QED
  BY <1>2, <1>3, <1>4, <1>5 DEF AgreeInv

\* Every step keeps the agreement.
LEMMA StepAgree ==
  ASSUME ProgramsInv, AgreeInv, [Next]_vars
  PROVE  AgreeInv'
<1> USE Zenon
<1>1. CASE UNCHANGED vars
  BY <1>1, AgreeOtherwise DEF vars
<1>2. ASSUME NEW t \in Thread, NotifyStep(t) PROVE AgreeInv'
  BY <1>2, NotifyAgrees, AgreeOtherwise DEF NotifyStep
<1>3. ASSUME NEW t \in Thread, MutateStep(t) PROVE AgreeInv'
  BY <1>3, MutateAgrees, AgreeOtherwise DEF MutateStep
<1>4. ASSUME NEW t \in Thread, HandlerStep(t) PROVE AgreeInv'
  BY <1>4, HandlerAgrees, AgreeOtherwise DEF HandlerStep
<1>5. ASSUME NEW t \in Thread,
             \/ RegisterStep(t) \/ UnregisterStep(t) \/ DropStep(t) \/ CountStep(t)
             \/ SpawnStep(t) \/ JoinStep(t) \/ RequestStep(t)
      PROVE  AgreeInv'
  <2>1. UNCHANGED programVars /\ shared' = shared /\ dispatch' = dispatch
    BY <1>5 DEF RegisterStep, UnregisterStep, DropStep, CountStep, SpawnStep,
                       JoinStep, RequestStep
  <2> QED
    BY <2>1, AgreeOtherwise
<1>6. CASE Churn
  <2>1. "handler_churn" \notin Agreeing
    BY SMT DEF Agreeing
  <2>2. UNCHANGED programVars
    BY <1>6 DEF Churn, OpRegister, OpUnregisterIndex, OpUnregisterStale, OpClear,
                       OpNotify, OpHandlerCount, OpContains, TakesOp
  <2> QED
    BY <1>6, <2>1, <2>2, AgreeOtherwise DEF Churn
<1> QED
  BY <1>1, <1>2, <1>3, <1>4, <1>5, <1>6 DEF Next

\* The invariant of each program says what the property does.
LEMMA AgreeImplies ==
  ASSUME AgreeInv
  PROVE  SubscribersAgree
<1> USE Zenon
<1> DEFINE d == dispatch["main"]
<1>1. Idle => d.todo = {}
  BY DEF Idle, Between, Thread
<1>2. CASE program = "pattern_hot_reload"
  <2>1. Reloaded(shared, d)
    BY <1>2 DEF AgreeInv
  <2>2. shared.last_v2 <=> shared.toggle_count % 2 = 1
    BY <2>1 DEF Reloaded
  <2>3. Idle /\ shared.snapshot.generation > 0 =>
          /\ shared.timeout_observed = shared.snapshot.request_timeout_ms
          /\ shared.last_v2 = shared.snapshot.feature_flag_search_v2
    BY <1>1, <2>1, BetweenReloaded DEF TimeoutSeen, ToggleSeen
  <2> QED
    BY <1>2, <2>2, <2>3 DEF SubscribersAgree
<1>3. CASE program = "pattern_metric_event"
  <2>1. Counted(shared, d)
    BY <1>3 DEF AgreeInv
  <2>2. Idle => /\ Len(shared.pending) = shared.started + shared.completed + shared.errors
                /\ shared.total_latency_us = LatencySum(shared.pending)
    BY <1>1, <2>1, BetweenCounted, AddsToSum DEF Events
  <2> QED
    BY <1>3, <2>2 DEF SubscribersAgree
<1>4. CASE program = "pattern_audit_fanout"
  <2>1. Audited(shared, d)
    BY <1>4 DEF AgreeInv
  <2>2. Idle => shared.triggered = CriticalCount(shared.captured)
    BY <1>1, <2>1, BetweenAudited
  <2> QED
    BY <1>4, <2>2 DEF SubscribersAgree
<1>5. CASE program = "pattern_transaction_hooks"
  <2>1. FlushedFirst(shared.order)
    BY <1>5 DEF AgreeInv, Hooked
  <2> QED
    BY <1>5, <2>1 DEF SubscribersAgree, FlushedFirst, Flushed
<1>6. CASE program \notin Agreeing
  BY <1>6 DEF SubscribersAgree, Agreeing
<1> QED
  BY <1>2, <1>3, <1>4, <1>5, <1>6 DEF Agreeing

\* The subscribers of an event agree between two dispatches, however many
\* requests, dispatches and steps there are, and nothing observes a commit
\* before the journal is flushed.
THEOREM SubscribersKept == Spec => []SubscribersAgree
<1>1. Init => AgreeInv
  BY InitAgree
<1>2. ProgramsInv /\ AgreeInv /\ [Next]_vars => AgreeInv'
  BY StepAgree
<1>3. AgreeInv => SubscribersAgree
  BY AgreeImplies
<1> QED
  BY <1>1, <1>2, <1>3, ProgramsKept, PTL DEF Spec
=============================================================================
