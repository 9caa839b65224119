-------------------------- MODULE HandlerListProofs --------------------------
(***************************************************************************)
(* What insertion and removal do to a list of handlers, for entries of any *)
(* kind that have an integer priority: both registries and the programs    *)
(* build on these lemmas.                                                  *)
(***************************************************************************)
EXTENDS HandlerList, FiniteSetTheorems, WellFoundedInduction, TLAPS

Prioritised(Entries) == \A e \in Entries : e.priority \in Int

Ids(list) == {list[k].id : k \in DOMAIN list}

Distinct(list) == \A i, j \in DOMAIN list : list[i].id = list[j].id => i = j


\* A set of natural numbers has a least element.
LEMMA Least ==
  ASSUME NEW S, S \subseteq Nat, S # {}
  PROVE  \E x \in S : \A y \in S : x =< y
<1>1. \E x \in S : \A y \in S : ~(<<y, x>> \in OpToRel(<, Nat))
  BY NatLessThanWellFounded, WFMin, Zenon
<1>2. PICK x \in S : \A y \in S : ~(<<y, x>> \in OpToRel(<, Nat))
  BY <1>1, Zenon
<1>3. OpToRel(<, Nat) = {e \in Nat \X Nat : e[1] < e[2]}
  BY Zenon DEF OpToRel
<1>4. ASSUME NEW y \in S PROVE x =< y
  <2>1. ~(<<y, x>> \in {e \in Nat \X Nat : e[1] < e[2]})
    BY <1>2, <1>3, Zenon
  <2>2. x \in Nat /\ y \in Nat
    BY Zenon
  <2>3. <<y, x>> \in Nat \X Nat /\ <<y, x>>[1] = y /\ <<y, x>>[2] = x
    BY <2>2
  <2>4. ~(y < x)
    BY <2>1, <2>3, Zenon
  <2> QED
    BY <2>2, <2>4
<1> QED
  BY <1>4, Zenon

Sorted(list) == \A i, j \in DOMAIN list : i < j => list[i].priority >= list[j].priority

\* In a list sorted by priority partition_point separates the entries of
\* equal or higher priority from the others.
LEMMA Partition ==
  ASSUME NEW Entries, Prioritised(Entries), NEW list \in Seq(Entries),
         Sorted(list), NEW p \in Int
  PROVE  LET n == PartitionPoint(list, p) IN
         /\ n \in 0..Len(list)
         /\ \A k \in 1..n : list[k].priority >= p
         /\ \A k \in (n + 1)..Len(list) : list[k].priority < p
<1> DEFINE S == {k \in DOMAIN list : list[k].priority >= p}
           T == {k \in DOMAIN list : ~(list[k].priority >= p)}
           N == Len(list)
<1>1. /\ N \in Nat /\ DOMAIN list = 1..N
      /\ \A k \in 1..N : list[k].priority \in Int
  <2>1. N \in Nat /\ DOMAIN list = 1..N /\ \A k \in 1..N : list[k] \in Entries
    OBVIOUS
  <2>2. \A e \in Entries : e.priority \in Int
    BY Zenon DEF Prioritised
  <2> QED
    BY <2>1, <2>2, Zenon
<1>2. PICK m \in 0..N : S = 1..m /\ \A k \in (m + 1)..N : ~(list[k].priority >= p)
  <2>1. CASE T = {}
    <3>1. S = 1..N
      BY <1>1, <2>1
    <3> QED
      BY <1>1, <3>1
  <2>2. CASE T # {}
    <3>1. T \subseteq Nat
      BY <1>1
    <3>2. PICK x \in T : \A y \in T : x =< y
      BY <2>2, <3>1, Least, Zenon
    <3>3. x \in 1..N /\ ~(list[x].priority >= p)
      BY <1>1, <3>2
    <3>4. ASSUME NEW k \in 1..N PROVE k \in S <=> k < x
      <4>1. CASE k < x
        BY <1>1, <3>2, <3>3, <4>1
      <4>2. CASE k = x
        BY <3>3, <4>2
      <4>3. CASE x < k
        <5>1. list[x].priority >= list[k].priority
          BY <1>1, <3>3, <4>3, Zenon DEF Sorted
        <5> QED
          BY <1>1, <3>3, <4>3, <5>1
      <4>4. k < x \/ k = x \/ x < k
        BY <1>1, <3>3
      <4> QED
        BY <4>1, <4>2, <4>3, <4>4, Zenon
    <3>5. S \subseteq 1..N
      BY <1>1, Zenon
    <3> HIDE DEF S, T
    <3>6. x - 1 \in 0..N /\ S = 1..(x - 1)
      <4>1. x - 1 \in 0..N /\ \A k : k \in 1..(x - 1) <=> k \in 1..N /\ k < x
        BY <1>1, <3>3
      <4> QED
        BY <3>4, <3>5, <4>1, Zenon
    <3>7. ASSUME NEW k \in (x - 1 + 1)..N PROVE ~(list[k].priority >= p)
      <4>1. k \in 1..N /\ ~(k < x)
        BY <1>1, <3>3
      <4>2. k \notin S
        BY <3>4, <4>1, Zenon
      <4> QED
        BY <1>1, <4>1, <4>2, Zenon DEF S
    <3> QED
      BY <3>6, <3>7
  <2> QED
    BY <2>1, <2>2, Zenon
<1>3. Cardinality(S) = m
  <2>1. Cardinality(1..m) = IF 1 > m THEN 0 ELSE m - 1 + 1
    BY <1>1, FS_Interval
  <2>2. Cardinality(1..m) = m
    BY <1>1, <2>1
  <2> QED
    BY <1>2, <2>2, Zenon
<1>4. PartitionPoint(list, p) = m
  BY <1>3, Zenon DEF PartitionPoint
<1>5. \A k \in 1..m : list[k].priority >= p
  BY <1>2, Zenon
<1>6. \A k \in (m + 1)..N : list[k].priority < p
  BY <1>1, <1>2
<1> QED
  BY <1>1, <1>4, <1>5, <1>6, Zenon

\* An entry between two slices, and two slices without the entry between.
With(s, n, x) == SubSeq(s, 1, n) \o <<x>> \o SubSeq(s, n + 1, Len(s))
Less(s, n) == SubSeq(s, 1, n - 1) \o SubSeq(s, n + 1, Len(s))

IsWith(Entries, L, s, n, x) ==
  /\ L \in Seq(Entries) /\ Len(L) = Len(s) + 1 /\ L[n + 1] = x
  /\ \A k \in 1..n : L[k] = s[k]
  /\ \A k \in (n + 1)..Len(s) : L[k + 1] = s[k]
IsLess(Entries, L, s, n) ==
  /\ L \in Seq(Entries) /\ Len(L) = Len(s) - 1
  /\ \A k \in 1..(n - 1) : L[k] = s[k]
  /\ \A k \in n..(Len(s) - 1) : L[k] = s[k + 1]

\* What the slices around an inserted entry come to.
LEMMA Spliced ==
  ASSUME NEW Entries, NEW s \in Seq(Entries), NEW n \in 0..Len(s),
         NEW x \in Entries, NEW L, L = With(s, n, x)
  PROVE  IsWith(Entries, L, s, n, x)
<1>1. PICK N \in Nat : N = Len(s) /\ n \in Nat /\ n <= N
  OBVIOUS
<1>2. PICK A : A = SubSeq(s, 1, n)
  BY Zenon
<1>3. PICK B : B = SubSeq(s, n + 1, Len(s))
  BY Zenon
<1>4. PICK X : X = <<x>>
  BY Zenon
<1>5. PICK C : C = A \o X
  BY Zenon
<1>6. L = C \o B
  <2>1. L = (SubSeq(s, 1, n) \o <<x>>) \o SubSeq(s, n + 1, Len(s))
    BY Zenon DEF With
  <2> QED
    BY <1>2, <1>3, <1>4, <1>5, <2>1, Zenon
<1>7. A \in Seq(Entries) /\ Len(A) = n /\ \A k \in 1..n : A[k] = s[k]
  BY <1>1, <1>2
<1>8. B \in Seq(Entries) /\ Len(B) = N - n /\ \A k \in 1..(N - n) : B[k] = s[n + k]
  BY <1>1, <1>3
<1>9. X \in Seq(Entries) /\ Len(X) = 1 /\ X[1] = x
  BY <1>4
<1>10. C \in Seq(Entries) /\ Len(C) = n + 1 /\ C[n + 1] = x /\ \A k \in 1..n : C[k] = s[k]
  <2>1. A \in Seq(Entries) /\ X \in Seq(Entries)
    BY <1>7, <1>9, Zenon
  <2>2. /\ C \in Seq(Entries) /\ Len(C) = Len(A) + Len(X)
        /\ \A k \in 1..Len(A) : C[k] = A[k]
        /\ \A k \in 1..Len(X) : C[Len(A) + k] = X[k]
    BY <1>5, <2>1
  <2> QED
    BY <1>1, <1>7, <1>9, <2>2
<1>11. /\ L \in Seq(Entries) /\ Len(L) = Len(C) + Len(B)
       /\ \A k \in 1..Len(C) : L[k] = C[k]
       /\ \A k \in 1..Len(B) : L[Len(C) + k] = B[k]
  <2>1. B \in Seq(Entries) /\ C \in Seq(Entries)
    BY <1>8, <1>10, Zenon
  <2> QED
    BY <1>6, <2>1
<1>12. ASSUME NEW k \in (n + 1)..N PROVE L[k + 1] = s[k]
  <2>1. k - n \in 1..(N - n) /\ n + 1 + (k - n) = k + 1 /\ n + (k - n) = k
    BY <1>1
  <2>2. L[n + 1 + (k - n)] = B[k - n]
    BY <1>8, <1>10, <1>11, <2>1, Zenon
  <2>3. B[k - n] = s[n + (k - n)]
    BY <1>8, <2>1, Zenon
  <2> QED
    BY <2>1, <2>2, <2>3, Zenon
<1>13. ASSUME NEW k \in 1..(n + 1) PROVE L[k] = C[k]
  BY <1>10, <1>11
<1>14. L \in Seq(Entries) /\ Len(L) = N + 1
  BY <1>1, <1>8, <1>10, <1>11
<1>15. L[n + 1] = x /\ \A k \in 1..n : L[k] = s[k]
  BY <1>1, <1>10, <1>13
<1> QED
  BY <1>1, <1>12, <1>14, <1>15, Zenon DEF IsWith

\* What the slices around a removed entry come to.
LEMMA Cut ==
  ASSUME NEW Entries, NEW s \in Seq(Entries), NEW n \in 1..Len(s),
         NEW L, L = Less(s, n)
  PROVE  IsLess(Entries, L, s, n)
<1>1. PICK N \in Nat : N = Len(s) /\ n \in Nat /\ n > 0 /\ n <= N
  OBVIOUS
<1>2. PICK A : A = SubSeq(s, 1, n - 1)
  BY Zenon
<1>3. PICK B : B = SubSeq(s, n + 1, N)
  BY Zenon
<1>4. A \in Seq(Entries) /\ Len(A) = n - 1 /\ \A k \in 1..(n - 1) : A[k] = s[k]
  BY <1>1, <1>2
<1>5. B \in Seq(Entries) /\ Len(B) = N - n /\ \A k \in 1..(N - n) : B[k] = s[n + k]
  BY <1>1, <1>3
<1>6. L = A \o B
  BY <1>1, <1>2, <1>3 DEF Less
<1>7. /\ L \in Seq(Entries) /\ Len(L) = Len(A) + Len(B)
      /\ \A k \in 1..Len(A) : L[k] = A[k]
      /\ \A k \in 1..Len(B) : L[Len(A) + k] = B[k]
  <2>1. A \in Seq(Entries) /\ B \in Seq(Entries)
    BY <1>4, <1>5
  <2> QED
    BY <1>6, <2>1
<1>8. ASSUME NEW k \in n..(N - 1) PROVE L[k] = s[k + 1]
  <2>1. /\ k - (n - 1) \in 1..(N - n) /\ n - 1 + (k - (n - 1)) = k
        /\ n + (k - (n - 1)) = k + 1
    BY <1>1
  <2> QED
    <3>1. k - (n - 1) \in 1..Len(B) /\ Len(A) + (k - (n - 1)) = k
      BY <1>4, <1>5, <2>1
    <3>2. L[Len(A) + (k - (n - 1))] = B[k - (n - 1)]
      BY <1>7, <3>1, Zenon
    <3>3. B[k - (n - 1)] = s[n + (k - (n - 1))]
      BY <1>5, <2>1, Zenon
    <3> QED
      BY <2>1, <3>1, <3>2, <3>3, Zenon
<1> QED
  BY <1>1, <1>4, <1>5, <1>7, <1>8 DEF IsLess

\* insert: the entries keep their places up to the partition point and move
\* by one after it.
LEMMA Inserted ==
  ASSUME NEW Entries, Prioritised(Entries), NEW list \in Seq(Entries),
         Sorted(list), NEW e \in Entries
  PROVE  \E n \in 0..Len(list) :
           /\ IsWith(Entries, Insert(list, e), list, n, e)
           /\ \A k \in 1..n : list[k].priority >= e.priority
           /\ \A k \in (n + 1)..Len(list) : list[k].priority < e.priority
<1>1. e.priority \in Int
  BY Zenon DEF Prioritised
<1>2. PICK n : n = PartitionPoint(list, e.priority)
  OBVIOUS
<1>3. /\ n \in 0..Len(list)
      /\ \A k \in 1..n : list[k].priority >= e.priority
      /\ \A k \in (n + 1)..Len(list) : list[k].priority < e.priority
  BY <1>1, <1>2, Partition, Zenon
<1>4. PICK L : L = With(list, n, e)
  OBVIOUS
<1>5. L = Insert(list, e)
  BY <1>2, <1>4, Zenon DEF Insert, With
<1>6. IsWith(Entries, L, list, n, e)
  <2>1. n \in 0..Len(list)
    BY <1>3, Zenon
  <2> QED
    BY <1>4, <2>1, Spliced, Zenon
<1> QED
  BY <1>3, <1>5, <1>6, Zenon

\* remove_id: the entries after the one with the id move up.
LEMMA RemovedAt ==
  ASSUME NEW Entries, NEW list \in Seq(Entries), NEW id, ContainsId(list, id)
  PROVE  \E n \in 1..Len(list) :
           list[n].id = id /\ IsLess(Entries, RemoveId(list, id), list, n)
<1> DEFINE I == {k \in DOMAIN list : list[k].id = id}
<1>1. I # {} /\ I \subseteq Nat
  BY DEF ContainsId
<1>2. PICK n : n = Min(I)
  BY Zenon
<1>3. n \in I
  <2>1. \E x \in I : \A y \in I : x =< y
    BY <1>1, Least, Zenon
  <2> QED
    BY <1>2, <2>1, Zenon DEF Min
<1>4. Position(list, id) = n
  BY <1>1, <1>2, Zenon DEF Position
<1>5. n \in 1..Len(list) /\ list[n].id = id
  BY <1>3
<1>6. PICK L : L = Less(list, n)
  OBVIOUS
<1>7. L = RemoveId(list, id)
  BY <1>4, <1>6, Zenon DEF RemoveId, Less
<1>8. IsLess(Entries, L, list, n)
  <2>1. n \in 1..Len(list)
    BY <1>5, Zenon
  <2> QED
    BY <1>6, <2>1, Cut, Zenon
<1> QED
  BY <1>5, <1>7, <1>8, Zenon

\* FiringOrder of any list: seen[id] are the ids returned before id is drawn.
Ordered(list, seen) ==
  \A i, j \in DOMAIN list : i < j =>
    /\ list[i].priority >= list[j].priority
    /\ list[i].priority = list[j].priority => list[j].id \notin seen[list[i].id]

\* Every entry of L is one of list.
FromIn(L, list) == \A k \in DOMAIN L : \E i \in DOMAIN list : L[k] = list[i]
FromWith(L, list, e) ==
  \A k \in DOMAIN L : L[k] = e \/ \E i \in DOMAIN list : L[k] = list[i]
Unseen(e, list, seen) == \A k \in DOMAIN list : e.id \notin seen[list[k].id]

\* An entry that is new to a list in order, and what the list becomes.
Insertable(Entries, list, seen, e) ==
  /\ Prioritised(Entries) /\ list \in Seq(Entries)
  /\ Ordered(list, seen) /\ Distinct(list)
  /\ e \in Entries /\ e.id \notin Ids(list) /\ Unseen(e, list, seen)
Entered(Entries, list, seen, e, L) ==
  /\ L \in Seq(Entries) /\ Len(L) = Len(list) + 1
  /\ Ordered(L, seen) /\ Distinct(L) /\ Ids(L) = Ids(list) \cup {e.id}
  /\ FromWith(L, list, e)

\* A registration keeps the order and adds its id.
LEMMA InsertKeeps ==
  ASSUME NEW Entries, NEW list, NEW seen, NEW e, Insertable(Entries, list, seen, e),
         NEW L, L = Insert(list, e)
  PROVE  Entered(Entries, list, seen, e, L)
<1> SUFFICES ASSUME Prioritised(Entries), list \in Seq(Entries),
                    Ordered(list, seen), Distinct(list), e \in Entries,
                    e.id \notin Ids(list), Unseen(e, list, seen)
             PROVE  /\ L \in Seq(Entries) /\ Len(L) = Len(list) + 1
                    /\ Ordered(L, seen) /\ Distinct(L)
                    /\ Ids(L) = Ids(list) \cup {e.id} /\ FromWith(L, list, e)
  BY Zenon DEF Insertable, Entered
<1>1. Sorted(list)
  BY Zenon DEF Ordered, Sorted
<1>2. PICK n \in 0..Len(list) :
        /\ IsWith(Entries, L, list, n, e)
        /\ \A k \in 1..n : list[k].priority >= e.priority
        /\ \A k \in (n + 1)..Len(list) : list[k].priority < e.priority
  BY <1>1, Inserted, Zenon
<1>3. PICK N \in Nat : N = Len(list) /\ DOMAIN list = 1..N /\ n \in Nat /\ n <= N
  OBVIOUS
<1>4. /\ L \in Seq(Entries) /\ Len(L) = N + 1 /\ L[n + 1] = e
      /\ \A k \in 1..n : L[k] = list[k]
      /\ \A k \in (n + 1)..N : L[k + 1] = list[k]
  BY <1>2, <1>3, Zenon DEF IsWith
<1>5. DOMAIN L = 1..(N + 1)
  BY <1>3, <1>4
<1>6. ASSUME NEW k \in 1..(N + 1)
      PROVE  \/ k <= n /\ k \in 1..N /\ L[k] = list[k]
             \/ k = n + 1 /\ L[k] = e
             \/ k > n + 1 /\ k - 1 \in (n + 1)..N /\ k - 1 \in 1..N /\ L[k] = list[k - 1]
  <2>1. CASE k <= n
    BY <1>3, <1>4, <2>1
  <2>2. CASE k = n + 1
    BY <1>4, <2>2
  <2>3. CASE k > n + 1
    <3>1. k - 1 \in (n + 1)..N /\ k - 1 \in 1..N /\ k - 1 + 1 = k
      BY <1>3, <2>3
    <3>2. L[k - 1 + 1] = list[k - 1]
      BY <1>4, <3>1, Zenon
    <3> QED
      BY <2>3, <3>1, <3>2, Zenon
  <2> QED
    BY <1>3, <2>1, <2>2, <2>3
<1>7. /\ e.priority \in Int
      /\ \A k \in 1..N : list[k] \in Entries /\ list[k].priority \in Int
  <2>1. \A f \in Entries : f.priority \in Int
    BY Zenon DEF Prioritised
  <2>2. \A k \in 1..N : list[k] \in Entries
    BY <1>3
  <2> QED
    BY <2>1, <2>2, Zenon
<1>8. \A k \in DOMAIN L : L[k] = e \/ \E i \in DOMAIN list : L[k] = list[i]
  BY <1>3, <1>5, <1>6, Zenon
<1>9. Ids(L) = Ids(list) \cup {e.id}
  <2>1. ASSUME NEW i \in DOMAIN list PROVE \E k \in DOMAIN L : L[k] = list[i]
    <3>1. CASE i <= n
      BY <1>3, <1>4, <1>5, <3>1
    <3>2. CASE i > n
      <4>1. i \in (n + 1)..N /\ i + 1 \in 1..(N + 1)
        BY <1>3, <3>2
      <4> QED
        BY <1>4, <1>5, <4>1, Zenon
    <3> QED
      BY <1>3, <3>1, <3>2
  <2>2. n + 1 \in DOMAIN L
    BY <1>3, <1>5
  <2> QED
    <3>1. e.id \in Ids(L)
      BY <1>4, <2>2, Zenon DEF Ids
    <3>2. ASSUME NEW x \in Ids(list) PROVE x \in Ids(L)
      <4>1. PICK i \in DOMAIN list : x = list[i].id
        BY <3>2, Zenon DEF Ids
      <4>2. PICK k \in DOMAIN L : L[k] = list[i]
        BY <2>1, Zenon
      <4> QED
        BY <4>1, <4>2, Zenon DEF Ids
    <3>3. ASSUME NEW x \in Ids(L) PROVE x \in Ids(list) \cup {e.id}
      <4>1. PICK k \in DOMAIN L : x = L[k].id
        BY <3>3, Zenon DEF Ids
      <4>2. L[k] = e \/ \E i \in DOMAIN list : L[k] = list[i]
        BY <1>8, Zenon
      <4> QED
        BY <4>1, <4>2, Zenon DEF Ids
    <3> QED
      BY <3>1, <3>2, <3>3, Zenon
<1>10. Distinct(L)
  <2> SUFFICES ASSUME NEW i \in 1..(N + 1), NEW j \in 1..(N + 1), L[i].id = L[j].id
               PROVE  i = j
    BY <1>5, Zenon DEF Distinct
  <2>1. \A k \in 1..N : list[k].id # e.id
    BY <1>3, Zenon DEF Ids
  <2>2. \A k, l \in 1..N : list[k].id = list[l].id => k = l
    BY <1>3, Zenon DEF Distinct
  <2>3. CASE i = n + 1 \/ j = n + 1
    <3>1. ASSUME NEW k \in 1..(N + 1), L[k].id = e.id PROVE k = n + 1
      BY <1>6, <2>1, <3>1, Zenon
    <3> QED
      BY <1>4, <2>3, <3>1, Zenon
  <2>4. CASE i # n + 1 /\ j # n + 1
    <3>1. PICK a \in 1..N : L[i] = list[a]
                            /\ ((i <= n /\ a = i) \/ (i > n + 1 /\ a = i - 1 /\ a > n))
      BY <1>3, <1>6, <2>4
    <3>2. PICK b \in 1..N : L[j] = list[b]
                            /\ ((j <= n /\ b = j) \/ (j > n + 1 /\ b = j - 1 /\ b > n))
      BY <1>3, <1>6, <2>4
    <3>3. a = b
      BY <2>2, <3>1, <3>2, Zenon
    <3> QED
      BY <1>3, <3>1, <3>2, <3>3
  <2> QED
    BY <2>3, <2>4, Zenon
<1>11. Ordered(L, seen)
  <2> SUFFICES ASSUME NEW i \in 1..(N + 1), NEW j \in 1..(N + 1), i < j
               PROVE  /\ L[i].priority >= L[j].priority
                      /\ L[i].priority = L[j].priority => L[j].id \notin seen[L[i].id]
    BY <1>5, Zenon DEF Ordered
  <2>1. \A k, l \in 1..N : k < l =>
          /\ list[k].priority >= list[l].priority
          /\ list[k].priority = list[l].priority => list[l].id \notin seen[list[k].id]
    BY <1>3, Zenon DEF Ordered
  <2>2. CASE i = n + 1
    <3>1. L[i] = e /\ j - 1 \in (n + 1)..N /\ j - 1 \in 1..N /\ L[j] = list[j - 1]
      BY <1>3, <1>6, <2>2
    <3>2. list[j - 1].priority < e.priority
      BY <1>2, <1>3, <3>1
    <3>3. L[i].priority > L[j].priority /\ L[i].priority # L[j].priority
      BY <1>7, <3>1, <3>2
    <3> QED
      BY <1>7, <3>1, <3>2
  <2>3. CASE j = n + 1
    <3>1. L[j] = e /\ i \in 1..n /\ i \in 1..N /\ L[i] = list[i]
      BY <1>3, <1>6, <2>3
    <3>2. list[i].priority >= e.priority
      BY <1>2, <3>1, Zenon
    <3>3. e.id \notin seen[list[i].id]
      BY <1>3, <3>1, Zenon DEF Unseen
    <3> QED
      BY <3>1, <3>2, <3>3, Zenon
  <2>4. CASE i # n + 1 /\ j # n + 1
    <3>1. PICK a \in 1..N : L[i] = list[a]
                            /\ ((i <= n /\ a = i) \/ (i > n + 1 /\ a = i - 1 /\ a > n))
      BY <1>3, <1>6, <2>4
    <3>2. PICK b \in 1..N : L[j] = list[b]
                            /\ ((j <= n /\ b = j) \/ (j > n + 1 /\ b = j - 1 /\ b > n))
      BY <1>3, <1>6, <2>4
    <3>3. a < b
      BY <1>3, <3>1, <3>2
    <3> QED
      BY <2>1, <3>1, <3>2, <3>3, Zenon
  <2> QED
    BY <2>2, <2>3, <2>4, Zenon
<1> QED
  BY <1>3, <1>4, <1>8, <1>9, <1>10, <1>11, Zenon DEF FromWith

\* A removal keeps the order and takes one id away.
LEMMA RemoveKeeps ==
  ASSUME NEW Entries, NEW list \in Seq(Entries), NEW seen, Ordered(list, seen),
         Distinct(list), NEW id, ContainsId(list, id), NEW L, L = RemoveId(list, id)
  PROVE  /\ L \in Seq(Entries) /\ Len(L) = Len(list) - 1
         /\ Ordered(L, seen) /\ Distinct(L) /\ Ids(L) = Ids(list) \ {id}
         /\ FromIn(L, list)
<1>1. PICK n \in 1..Len(list) : list[n].id = id /\ IsLess(Entries, L, list, n)
  BY RemovedAt, Zenon
<1>2. PICK N \in Nat : N = Len(list) /\ DOMAIN list = 1..N /\ n \in 1..N
  OBVIOUS
<1>3. /\ L \in Seq(Entries) /\ Len(L) = N - 1
      /\ \A k \in 1..(n - 1) : L[k] = list[k]
      /\ \A k \in n..(N - 1) : L[k] = list[k + 1]
  BY <1>1, <1>2, Zenon DEF IsLess
<1>4. DOMAIN L = 1..(N - 1)
  BY <1>2, <1>3
<1>5. ASSUME NEW k \in 1..(N - 1)
      PROVE  \E a \in 1..N : /\ L[k] = list[a] /\ a # n
                             /\ ((k < n /\ a = k) \/ (k >= n /\ a = k + 1))
  <2>1. CASE k < n
    <3>1. k \in 1..(n - 1) /\ k \in 1..N /\ k # n
      BY <1>2, <2>1
    <3>2. L[k] = list[k]
      BY <1>3, <3>1, Zenon
    <3> QED
      BY <2>1, <3>1, <3>2, Zenon
  <2>2. CASE k >= n
    <3>1. k \in n..(N - 1) /\ k + 1 \in 1..N /\ k + 1 # n
      BY <1>2, <2>2
    <3>2. L[k] = list[k + 1]
      BY <1>3, <3>1, Zenon
    <3> QED
      BY <2>2, <3>1, <3>2, Zenon
  <2> QED
    BY <1>2, <2>1, <2>2
<1>6. FromIn(L, list)
  BY <1>2, <1>4, <1>5, Zenon DEF FromIn
<1>7. \A k, l \in 1..N : list[k].id = list[l].id => k = l
  BY <1>2, Zenon DEF Distinct
<1>8. Ids(L) = Ids(list) \ {id}
  <2>1. ASSUME NEW i \in 1..N, i # n PROVE \E k \in 1..(N - 1) : L[k] = list[i]
    <3>1. CASE i < n
      BY <1>2, <1>3, <3>1
    <3>2. CASE i > n
      <4>1. i - 1 \in n..(N - 1) /\ i - 1 \in 1..(N - 1) /\ i - 1 + 1 = i
        BY <1>2, <3>2
      <4>2. L[i - 1] = list[i - 1 + 1]
        BY <1>3, <4>1, Zenon
      <4> QED
        BY <4>1, <4>2, Zenon
    <3> QED
      BY <1>2, <2>1, <3>1, <3>2
  <2>2. ASSUME NEW x \in Ids(L) PROVE x \in Ids(list) \ {id}
    <3>1. PICK k \in 1..(N - 1) : x = L[k].id
      BY <1>4, <2>2, Zenon DEF Ids
    <3>2. PICK a \in 1..N : L[k] = list[a] /\ a # n
      BY <1>5, Zenon
    <3> QED
      BY <1>1, <1>2, <1>7, <3>1, <3>2, Zenon DEF Ids
  <2>3. ASSUME NEW x \in Ids(list), x # id PROVE x \in Ids(L)
    <3>1. PICK i \in 1..N : x = list[i].id
      BY <1>2, <2>3, Zenon DEF Ids
    <3>2. i # n
      BY <1>1, <2>3, <3>1, Zenon
    <3>3. PICK k \in 1..(N - 1) : L[k] = list[i]
      BY <2>1, <3>2, Zenon
    <3> QED
      BY <1>4, <3>1, <3>3, Zenon DEF Ids
  <2> QED
    BY <2>2, <2>3, Zenon
<1>9. Distinct(L)
  <2> SUFFICES ASSUME NEW i \in 1..(N - 1), NEW j \in 1..(N - 1), L[i].id = L[j].id
               PROVE  i = j
    BY <1>4, Zenon DEF Distinct
  <2>1. PICK a \in 1..N : L[i] = list[a] /\ ((i < n /\ a = i) \/ (i >= n /\ a = i + 1))
    BY <1>5, Zenon
  <2>2. PICK b \in 1..N : L[j] = list[b] /\ ((j < n /\ b = j) \/ (j >= n /\ b = j + 1))
    BY <1>5, Zenon
  <2>3. a = b
    BY <1>7, <2>1, <2>2, Zenon
  <2> QED
    BY <1>2, <2>1, <2>2, <2>3
<1>10. Ordered(L, seen)
  <2> SUFFICES ASSUME NEW i \in 1..(N - 1), NEW j \in 1..(N - 1), i < j
               PROVE  /\ L[i].priority >= L[j].priority
                      /\ L[i].priority = L[j].priority => L[j].id \notin seen[L[i].id]
    BY <1>4, Zenon DEF Ordered
  <2>1. PICK a \in 1..N : L[i] = list[a] /\ ((i < n /\ a = i) \/ (i >= n /\ a = i + 1))
    BY <1>5, Zenon
  <2>2. PICK b \in 1..N : L[j] = list[b] /\ ((j < n /\ b = j) \/ (j >= n /\ b = j + 1))
    BY <1>5, Zenon
  <2>3. a < b
    BY <1>2, <2>1, <2>2
  <2> QED
    BY <1>2, <2>1, <2>2, <2>3, Zenon DEF Ordered
<1> QED
  BY <1>2, <1>3, <1>6, <1>8, <1>9, <1>10, Zenon

=============================================================================
