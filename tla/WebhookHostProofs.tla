-------------------------- MODULE WebhookHostProofs --------------------------
(* Theorems about TriggerExecutor and WebhookHost, for any scripts, policies, *)
(* requests and limits.                                                       *)
EXTENDS WebhookHost, FiniteSetTheorems, SequenceTheorems, WellFoundedInduction, TLAPS

-----------------------------------------------------------------------------
(* Sets of numbers.                                                          *)

LEMMA LeastNumber ==
  ASSUME NEW T \in SUBSET Nat, T # {}
  PROVE  \E n \in T : \A m \in T : n <= m
<1> DEFINE smaller == {p \in Nat \X Nat : p[1] < p[2]}
<1>1. IsWellFoundedOn(smaller, Nat)
  BY NatLessThanWellFounded DEF OpToRel
<1>2. \A m, n \in T : m < n => <<m, n>> \in smaller
  OBVIOUS
<1> HIDE DEF smaller
<1>3. \E n \in T : \A m \in T : ~(<<m, n>> \in smaller)
  BY <1>1, WFMin
<1>4. PICK n \in T : \A m \in T : ~(m < n)
  BY <1>2, <1>3
<1>5. n \in Nat /\ \A m \in T : m \in Nat
  OBVIOUS
<1>6. \A m \in T : n <= m
  BY <1>4, <1>5
<1> QED BY <1>6

LEMMA PartOfAnInterval ==
  ASSUME NEW n \in Nat, NEW S \in SUBSET (1 .. n)
  PROVE  IsFiniteSet(S) /\ Cardinality(S) \in Nat /\ Cardinality(S) <= n
<1>1. IsFiniteSet(1 .. n) /\ Cardinality(1 .. n) = n
  BY FS_Interval
<1> QED BY <1>1, FS_Subset, FS_CardinalityType

LEMMA SmallerPart ==
  ASSUME NEW n \in Nat, NEW S \in SUBSET (1 .. n), NEW T \in SUBSET S
  PROVE  /\ Cardinality(T) <= Cardinality(S)
         /\ T # S => Cardinality(T) < Cardinality(S)
<1>1. IsFiniteSet(S) /\ Cardinality(S) \in Nat /\ Cardinality(T) \in Nat
  BY PartOfAnInterval
<1>2. Cardinality(T) <= Cardinality(S) /\ (Cardinality(S) = Cardinality(T) => S = T)
  BY <1>1, FS_Subset
<1> QED BY <1>1, <1>2

-----------------------------------------------------------------------------
(* The jobs that are started.                                                *)

Before(S, i) == {j \in S : j < i}

RoomAt(S, i) ==
  HasActiveCapacity(DrainedTotal + Cardinality(Before(S, i)),
                    Drained(queuedJobs[i].script) + CountAt(Before(S, i), queuedJobs[i].script))

Greedy(S, n) == S \in SUBSET (1 .. n) /\ \A i \in 1 .. n : i \in S <=> RoomAt(S, i)

\* Going from the head there is always such a choice.
LEMMA GreedyExists ==
  ASSUME NEW n \in Nat
  PROVE  \E S \in SUBSET (1 .. n) : Greedy(S, n)
<1> DEFINE Without_(k) == ~ \E S \in SUBSET (1 .. k) : Greedy(S, k)
           T == {k \in Nat : Without_(k)}
<1> SUFFICES ASSUME T # {} PROVE FALSE
  OBVIOUS
<1>1. PICK k \in T : \A m \in T : k <= m
  BY LeastNumber
<1>2. k # 0
  <2>1. Greedy({}, 0)
    BY DEF Greedy
  <2> QED BY <2>1
<1>3. k - 1 \in Nat /\ k - 1 \notin T
  BY <1>1, <1>2
<1>4. PICK S \in SUBSET (1 .. k - 1) : Greedy(S, k - 1)
  BY <1>3
<1> DEFINE R == IF RoomAt(S, k) THEN S \cup {k} ELSE S
<1>5. R \in SUBSET (1 .. k)
  BY <1>3
<1>6. \A i \in 1 .. k : Before(R, i) = Before(S, i)
  BY <1>3 DEF Before
<1>7. \A i \in 1 .. k : RoomAt(R, i) <=> RoomAt(S, i)
  BY <1>6 DEF RoomAt
<1>8. \A i \in 1 .. k : i \in R <=> RoomAt(S, i)
  BY <1>3, <1>4 DEF Greedy
<1>9. Greedy(R, k)
  <2> HIDE DEF R
  <2> QED BY <1>5, <1>7, <1>8 DEF Greedy
<1> QED BY <1>1, <1>5, <1>9

LEMMA StartingIsGreedy ==
  ASSUME NEW n \in Nat
  PROVE  Greedy(Starting(n), n)
<1> DEFINE Chosen(S) == \A i \in 1 .. n :
             LET before == {j \in S : j < i}
                 s == queuedJobs[i].script
             IN i \in S <=> HasActiveCapacity(DrainedTotal + Cardinality(before), Drained(s) + CountAt(before, s))
<1>1. \A S \in SUBSET (1 .. n) : Chosen(S) <=> Greedy(S, n)
  BY DEF Greedy, RoomAt, Before
<1>2. Starting(n) = CHOOSE S \in SUBSET (1 .. n) : Chosen(S)
  BY DEF Starting
<1>3. \E S \in SUBSET (1 .. n) : Chosen(S)
  BY <1>1, GreedyExists
<1> HIDE DEF Chosen
<1>4. Starting(n) \in SUBSET (1 .. n) /\ Chosen(Starting(n))
  BY <1>2, <1>3
<1> QED BY <1>1, <1>4

-----------------------------------------------------------------------------
(* What is left of a queue.                                                  *)

Jobs == [id : Nat \ {0}, script : Scripts]
Completions == [id : Nat \ {0}, script : Scripts, outcome : {"ran", "superseded", "not started"}]

UpTo(K, i) == {j \in K : j <= i}
Rank(K, i) == Cardinality(UpTo(K, i))

LEMMA RankOrder ==
  ASSUME NEW n \in Nat, NEW K \in SUBSET (1 .. n)
  PROVE  /\ \A i \in K : Rank(K, i) \in 1 .. Cardinality(K)
         /\ \A i, j \in K : i < j => Rank(K, i) < Rank(K, j)
<1>1. ASSUME NEW i \in K PROVE Rank(K, i) \in 1 .. Cardinality(K)
  <2>1. UpTo(K, i) \in SUBSET K /\ UpTo(K, i) \in SUBSET (1 .. n)
    BY DEF UpTo
  <2>2. i \in UpTo(K, i)
    <3>1. i \in Int
      OBVIOUS
    <3> QED BY <3>1 DEF UpTo
  <2>3. IsFiniteSet(UpTo(K, i)) /\ Rank(K, i) \in Nat /\ Cardinality(K) \in Nat
    BY <2>1, PartOfAnInterval DEF Rank
  <2>4. Rank(K, i) <= Cardinality(K)
    BY <2>1, SmallerPart DEF Rank
  <2>5. Rank(K, i) # 0
    BY <2>2, <2>3, FS_EmptySet DEF Rank
  <2> QED BY <2>3, <2>4, <2>5
<1>2. ASSUME NEW i \in K, NEW j \in K, i < j PROVE Rank(K, i) < Rank(K, j)
  <2>1. \A x \in K : x \in Int
    OBVIOUS
  <2>2. UpTo(K, j) \in SUBSET (1 .. n)
    BY DEF UpTo
  <2>3. \A x \in UpTo(K, i) : x \in UpTo(K, j)
    BY <1>2, <2>1 DEF UpTo
  <2>4. j \in UpTo(K, j) /\ j \notin UpTo(K, i)
    BY <1>2, <2>1 DEF UpTo
  <2> QED BY <2>2, <2>3, <2>4, SmallerPart DEF Rank
<1> QED BY <1>1, <1>2

\* Every rank is somebody's.
LEMMA RanksAreTaken ==
  ASSUME NEW n \in Nat, NEW K \in SUBSET (1 .. n), NEW k \in 1 .. Cardinality(K)
  PROVE  \E i \in K : Rank(K, i) = k
<1> DEFINE R == {Rank(K, i) : i \in K}
           f == [i \in K |-> Rank(K, i)]
<1>1. IsFiniteSet(K) /\ Cardinality(K) \in Nat
  BY PartOfAnInterval
<1>2. R \in SUBSET (1 .. Cardinality(K))
  BY RankOrder
<1>3. f \in Bijection(K, R)
  <2>1. \A i, j \in K : Rank(K, i) = Rank(K, j) => i = j
    <3> SUFFICES ASSUME NEW i \in K, NEW j \in K, Rank(K, i) = Rank(K, j), i # j PROVE FALSE
      OBVIOUS
    <3>1. i < j \/ j < i
      OBVIOUS
    <3>2. Rank(K, i) \in 1 .. Cardinality(K) /\ Rank(K, j) \in 1 .. Cardinality(K)
      BY RankOrder
    <3>3. Rank(K, i) < Rank(K, j) \/ Rank(K, j) < Rank(K, i)
      BY <3>1, RankOrder
    <3> QED BY <1>1, <3>2, <3>3
  <2>2. f \in [K -> R] /\ (\A i \in K : f[i] = Rank(K, i)) /\ (\A r \in R : \E i \in K : f[i] = r)
    OBVIOUS
  <2> HIDE DEF f, R
  <2>3. f \in Injection(K, R)
    BY <2>1, <2>2 DEF Injection, IsInjective
  <2>4. f \in Surjection(K, R)
    BY <2>2 DEF Surjection
  <2> QED BY <2>3, <2>4 DEF Bijection
<1> HIDE DEF f
<1>4. Cardinality(R) = Cardinality(K)
  BY <1>1, <1>3, FS_Bijection DEF ExistsBijection
<1>5. IsFiniteSet(1 .. Cardinality(K)) /\ Cardinality(1 .. Cardinality(K)) = Cardinality(K)
  BY <1>1, FS_Interval
<1>6. R = 1 .. Cardinality(K)
  BY <1>2, <1>4, <1>5, FS_Subset
<1>7. k \in R
  BY <1>6
<1> QED BY <1>7

\* The places a job of the rest had in the queue.
PlaceOf(jobs, ids, k) == CHOOSE i \in Kept(jobs, ids) : Rank(Kept(jobs, ids), i) = k

LEMMA PlacesKept ==
  ASSUME NEW jobs \in Seq(Jobs), NEW ids
  PROVE  /\ Cardinality(Kept(jobs, ids)) \in Nat
         /\ Kept(jobs, ids) \in SUBSET (1 .. Len(jobs))
         /\ Without(jobs, ids) = [k \in 1 .. Cardinality(Kept(jobs, ids)) |-> jobs[PlaceOf(jobs, ids, k)]]
         /\ \A k \in 1 .. Cardinality(Kept(jobs, ids)) : PlaceOf(jobs, ids, k) \in Kept(jobs, ids)
         /\ \A k, l \in 1 .. Cardinality(Kept(jobs, ids)) :
              k < l => PlaceOf(jobs, ids, k) < PlaceOf(jobs, ids, l)
         /\ \A i \in Kept(jobs, ids) : \E k \in 1 .. Cardinality(Kept(jobs, ids)) : PlaceOf(jobs, ids, k) = i
<1> DEFINE K == Kept(jobs, ids)
           at(k) == PlaceOf(jobs, ids, k)
<1>1. Len(jobs) \in Nat /\ K \in SUBSET (1 .. Len(jobs))
  BY DEF Kept
<1>2. Cardinality(K) \in Nat
  BY <1>1, PartOfAnInterval
<1>3. \A k \in 1 .. Cardinality(K) : at(k) \in K /\ Rank(K, at(k)) = k
  BY <1>1, RanksAreTaken DEF PlaceOf
<1>4. ASSUME NEW k \in 1 .. Cardinality(K), NEW l \in 1 .. Cardinality(K), k < l PROVE at(k) < at(l)
  <2>1. at(k) \in 1 .. Len(jobs) /\ at(l) \in 1 .. Len(jobs) /\ Rank(K, at(k)) = k /\ Rank(K, at(l)) = l
    BY <1>1, <1>3
  <2>2. at(l) < at(k) => Rank(K, at(l)) < Rank(K, at(k))
    BY <1>1, <1>3, RankOrder
  <2> HIDE DEF K, at
  <2> QED BY <1>1, <1>2, <1>4, <2>1, <2>2
<1>5. ASSUME NEW i \in K PROVE \E k \in 1 .. Cardinality(K) : at(k) = i
  <2>1. Rank(K, i) \in 1 .. Cardinality(K)
    BY <1>1, RankOrder
  <2>2. at(Rank(K, i)) \in K /\ Rank(K, at(Rank(K, i))) = Rank(K, i)
    BY <1>3, <2>1
  <2>3. \A j \in K : (j < i => Rank(K, j) < Rank(K, i)) /\ (i < j => Rank(K, i) < Rank(K, j))
    BY <1>1, RankOrder
  <2>4. at(Rank(K, i)) = i
    <3> DEFINE j == at(Rank(K, i))
    <3>1. j \in K /\ Rank(K, j) = Rank(K, i) /\ Rank(K, i) \in Nat
      BY <1>2, <2>1, <2>2
    <3> HIDE DEF j
    <3>2. ~(j < i) /\ ~(i < j) /\ i \in Nat /\ j \in Nat
      BY <1>1, <2>3, <3>1
    <3>3. j = i
      BY <3>2
    <3> QED BY <3>3 DEF j
  <2> QED BY <2>1, <2>4
<1>6. Without(jobs, ids) = [k \in 1 .. Cardinality(K) |-> jobs[at(k)]]
  BY DEF Without, PlaceOf, Rank, UpTo
<1> QED BY <1>1, <1>2, <1>3, <1>4, <1>5, <1>6

\* The older a job, the smaller its number.
OldestFirst(jobs) == \A i, j \in DOMAIN jobs : i < j => jobs[i].id < jobs[j].id

LEMMA WhatIsLeft ==
  ASSUME NEW jobs \in Seq(Jobs), NEW ids
  PROVE  /\ Without(jobs, ids) \in Seq(Jobs)
         /\ Ids(Without(jobs, ids)) = Ids(jobs) \ ids
         /\ \A k \in DOMAIN Without(jobs, ids) : \E i \in Kept(jobs, ids) : Without(jobs, ids)[k] = jobs[i]
         /\ OldestFirst(jobs) => OldestFirst(Without(jobs, ids))
<1> DEFINE K == Kept(jobs, ids)
           at(k) == PlaceOf(jobs, ids, k)
           rest == Without(jobs, ids)
<1>1. /\ Cardinality(K) \in Nat /\ K \in SUBSET (1 .. Len(jobs))
      /\ rest = [k \in 1 .. Cardinality(K) |-> jobs[at(k)]]
      /\ \A k \in 1 .. Cardinality(K) : at(k) \in K
      /\ \A k, l \in 1 .. Cardinality(K) : k < l => at(k) < at(l)
      /\ \A i \in K : \E k \in 1 .. Cardinality(K) : at(k) = i
  BY PlacesKept
<1>2. \A i \in 1 .. Len(jobs) : jobs[i] \in Jobs
  OBVIOUS
<1>3. K = {i \in DOMAIN jobs : jobs[i].id \notin ids} /\ DOMAIN jobs = 1 .. Len(jobs)
  BY DEF Kept
<1> HIDE DEF K, at, rest
<1>4. DOMAIN rest = 1 .. Cardinality(K) /\ \A k \in 1 .. Cardinality(K) : rest[k] = jobs[at(k)] /\ at(k) \in K
  BY <1>1
<1>5. rest \in Seq(Jobs)
  <2>1. \A k \in 1 .. Cardinality(K) : rest[k] \in Jobs
    BY <1>1, <1>2, <1>4
  <2>2. \E n \in Nat : rest \in [1 .. n -> Jobs]
    <3> DEFINE n == Cardinality(K)
    <3>1. n \in Nat /\ rest = [k \in 1 .. n |-> rest[k]] /\ \A k \in 1 .. n : rest[k] \in Jobs
      BY <1>1, <1>4, <2>1
    <3> HIDE DEF n
    <3>2. rest \in [1 .. n -> Jobs]
      BY <3>1
    <3> QED BY <3>1, <3>2
  <2> QED BY <2>2, SeqDef
<1>6. \A k \in DOMAIN rest : \E i \in K : rest[k] = jobs[i]
  BY <1>4
<1>7. Ids(rest) = Ids(jobs) \ ids
  <2>1. \A x \in Ids(rest) : x \in Ids(jobs) /\ x \notin ids
    BY <1>3, <1>4 DEF Ids
  <2>2. ASSUME NEW x \in Ids(jobs), x \notin ids PROVE x \in Ids(rest)
    <3>1. PICK i \in DOMAIN jobs : jobs[i].id = x
      BY DEF Ids
    <3>2. i \in K
      BY <1>3, <2>2, <3>1
    <3>3. PICK k \in 1 .. Cardinality(K) : at(k) = i
      BY <1>1, <3>2
    <3> QED BY <1>4, <3>1, <3>3 DEF Ids
  <2> QED BY <2>1, <2>2
<1>8. OldestFirst(jobs) => OldestFirst(rest)
  BY <1>1, <1>3, <1>4 DEF OldestFirst
<1> QED BY <1>5, <1>6, <1>7, <1>8 DEF K, rest

-----------------------------------------------------------------------------
(* Completions, and the sequences they are collected in.                     *)

Distinct(seq) == \A i, j \in DOMAIN seq : seq[i].id = seq[j].id => i = j

LEMMA OldestFirstIsDistinct ==
  ASSUME NEW jobs \in Seq(Jobs), OldestFirst(jobs)
  PROVE  Distinct(jobs)
<1>1. \A i \in 1 .. Len(jobs) : jobs[i].id \in Nat
  <2>1. \A i \in 1 .. Len(jobs) : jobs[i] \in Jobs
    OBVIOUS
  <2> QED BY <2>1 DEF Jobs
<1>2. DOMAIN jobs = 1 .. Len(jobs) /\ Len(jobs) \in Nat
  OBVIOUS
<1> QED BY <1>1, <1>2 DEF OldestFirst, Distinct

LEMMA FunctionIsSeq ==
  ASSUME NEW S, NEW n \in Nat, NEW f \in [1 .. n -> S]
  PROVE  f \in Seq(S)
BY SeqDef

LEMMA IdsOfConcatenation ==
  ASSUME NEW S, NEW a \in Seq(S), NEW b \in Seq(S)
  PROVE  /\ a \o b \in Seq(S)
         /\ Ids(a \o b) = Ids(a) \cup Ids(b)
         /\ Distinct(a) /\ Distinct(b) /\ Ids(a) \cap Ids(b) = {} => Distinct(a \o b)
<1> DEFINE both == a \o b
<1>1. /\ Len(a) \in Nat /\ Len(b) \in Nat /\ DOMAIN a = 1 .. Len(a) /\ DOMAIN b = 1 .. Len(b)
      /\ both \in Seq(S) /\ DOMAIN both = 1 .. Len(a) + Len(b)
      /\ \A i \in 1 .. Len(a) : both[i] = a[i]
      /\ \A i \in Len(a) + 1 .. Len(a) + Len(b) : both[i] = b[i - Len(a)]
      /\ \A i \in 1 .. Len(b) : both[i + Len(a)] = b[i]
  BY ConcatProperties
<1> HIDE DEF both
<1>2. \A i \in DOMAIN both : both[i].id \in Ids(a) \/ both[i].id \in Ids(b)
  <2> SUFFICES ASSUME NEW i \in 1 .. Len(a) + Len(b) PROVE both[i].id \in Ids(a) \/ both[i].id \in Ids(b)
    BY <1>1
  <2>1. CASE i <= Len(a)
    <3>1. i \in DOMAIN a /\ both[i] = a[i]
      BY <1>1, <2>1
    <3> QED BY <3>1 DEF Ids
  <2>2. CASE i > Len(a)
    <3>1. i - Len(a) \in DOMAIN b /\ both[i] = b[i - Len(a)]
      BY <1>1, <2>2
    <3> QED BY <3>1 DEF Ids
  <2> QED BY <1>1, <2>1, <2>2
<1>3. Ids(a) \subseteq Ids(both)
  BY <1>1 DEF Ids
<1>4. Ids(b) \subseteq Ids(both)
  <2> SUFFICES ASSUME NEW i \in DOMAIN b PROVE b[i].id \in Ids(both)
    BY DEF Ids
  <2>1. i + Len(a) \in DOMAIN both /\ both[i + Len(a)] = b[i]
    BY <1>1
  <2> QED BY <2>1 DEF Ids
<1>5. Ids(both) = Ids(a) \cup Ids(b)
  <2>1. \A x \in Ids(both) : x \in Ids(a) \cup Ids(b)
    BY <1>2 DEF Ids
  <2> QED BY <1>3, <1>4, <2>1
<1>6. ASSUME Distinct(a), Distinct(b), Ids(a) \cap Ids(b) = {} PROVE Distinct(both)
  <2> SUFFICES ASSUME NEW i \in 1 .. Len(a) + Len(b), NEW j \in 1 .. Len(a) + Len(b),
                      both[i].id = both[j].id
               PROVE  i = j
    BY <1>1 DEF Distinct
  <2>1. \A k \in 1 .. Len(a) : both[k].id = a[k].id /\ both[k].id \in Ids(a)
    BY <1>1 DEF Ids
  <2>2. \A k \in Len(a) + 1 .. Len(a) + Len(b) :
          k - Len(a) \in DOMAIN b /\ both[k].id = b[k - Len(a)].id /\ both[k].id \in Ids(b)
    <3> SUFFICES ASSUME NEW k \in Len(a) + 1 .. Len(a) + Len(b)
                 PROVE  k - Len(a) \in DOMAIN b /\ both[k].id = b[k - Len(a)].id /\ both[k].id \in Ids(b)
      OBVIOUS
    <3>1. k - Len(a) \in 1 .. Len(b)
      OBVIOUS
    <3>2. k - Len(a) \in DOMAIN b /\ both[k] = b[k - Len(a)]
      BY <1>1, <3>1
    <3> QED BY <3>2 DEF Ids
  <2>3. CASE i <= Len(a) /\ j <= Len(a)
    <3>1. i \in 1 .. Len(a) /\ j \in 1 .. Len(a)
      BY <2>3
    <3>2. a[i].id = a[j].id
      BY <2>1, <3>1
    <3> QED BY <1>1, <1>6, <3>1, <3>2 DEF Distinct
  <2>4. CASE i > Len(a) /\ j > Len(a)
    <3>1. /\ i - Len(a) \in DOMAIN b /\ j - Len(a) \in DOMAIN b
          /\ b[i - Len(a)].id = b[j - Len(a)].id
      BY <1>1, <2>2, <2>4
    <3>2. i - Len(a) = j - Len(a)
      BY <1>6, <3>1 DEF Distinct
    <3> QED BY <1>1, <3>2
  <2>5. CASE i <= Len(a) /\ j > Len(a)
    <3>1. both[i].id \in Ids(a) /\ both[j].id \in Ids(b)
      BY <1>1, <2>1, <2>2, <2>5
    <3> QED BY <1>6, <3>1
  <2>6. CASE j <= Len(a) /\ i > Len(a)
    <3>1. both[j].id \in Ids(a) /\ both[i].id \in Ids(b)
      BY <1>1, <2>1, <2>2, <2>6
    <3> QED BY <1>6, <3>1
  <2> QED BY <1>1, <2>3, <2>4, <2>5, <2>6
<1> QED BY <1>1, <1>5, <1>6 DEF both

LEMMA OneMore ==
  ASSUME NEW S, NEW a \in Seq(S), NEW x \in S
  PROVE  /\ Append(a, x) \in Seq(S)
         /\ Ids(Append(a, x)) = Ids(a) \cup {x.id}
         /\ Distinct(a) /\ x.id \notin Ids(a) => Distinct(Append(a, x))
<1> DEFINE longer == Append(a, x)
<1>1. /\ Len(a) \in Nat /\ DOMAIN a = 1 .. Len(a) /\ longer \in Seq(S)
      /\ DOMAIN longer = 1 .. Len(a) + 1
      /\ \A i \in 1 .. Len(a) : longer[i] = a[i]
      /\ longer[Len(a) + 1] = x
  BY AppendProperties
<1> HIDE DEF longer
<1>2. Ids(longer) = Ids(a) \cup {x.id}
  <2>1. \A i \in DOMAIN longer : longer[i].id \in Ids(a) \cup {x.id}
    BY <1>1 DEF Ids
  <2>2. \A i \in DOMAIN a : a[i].id \in Ids(longer)
    BY <1>1 DEF Ids
  <2>3. x.id \in Ids(longer)
    <3>1. Len(a) + 1 \in DOMAIN longer
      BY <1>1
    <3> QED BY <1>1, <3>1 DEF Ids
  <2>4. \A y \in Ids(longer) : y \in Ids(a) \cup {x.id}
    BY <2>1 DEF Ids
  <2>5. \A y \in Ids(a) : y \in Ids(longer)
    BY <2>2 DEF Ids
  <2> QED BY <2>3, <2>4, <2>5
<1>3. Distinct(a) /\ x.id \notin Ids(a) => Distinct(longer)
  BY <1>1 DEF Distinct, Ids
<1> QED BY <1>1, <1>2, <1>3 DEF longer

LEMMA OneLess ==
  ASSUME NEW S, NEW a \in Seq(S), a # <<>>, Distinct(a)
  PROVE  /\ Head(a) \in S /\ Tail(a) \in Seq(S)
         /\ Head(a).id \in Ids(a)
         /\ Ids(Tail(a)) = Ids(a) \ {Head(a).id}
         /\ Distinct(Tail(a))
<1> DEFINE rest == Tail(a)
<1>1. /\ DOMAIN a = 1 .. Len(a) /\ Len(a) \in Nat /\ Len(a) > 0
      /\ rest \in Seq(S) /\ Head(a) \in S
      /\ DOMAIN rest = 1 .. Len(a) - 1
      /\ \A i \in 1 .. Len(a) - 1 : rest[i] = a[i + 1]
      /\ Head(a) = a[1]
  OBVIOUS
<1> HIDE DEF rest
<1>2. Head(a).id \in Ids(a)
  BY <1>1 DEF Ids
<1>3. Distinct(rest)
  <2> SUFFICES ASSUME NEW i \in DOMAIN rest, NEW j \in DOMAIN rest, rest[i].id = rest[j].id PROVE i = j
    BY DEF Distinct
  <2>1. i + 1 \in DOMAIN a /\ j + 1 \in DOMAIN a /\ a[i + 1].id = a[j + 1].id
    BY <1>1
  <2>2. i + 1 = j + 1
    BY <2>1 DEF Distinct
  <2> QED BY <1>1, <2>2
<1>4. ASSUME NEW i \in DOMAIN rest PROVE rest[i].id \in Ids(a) /\ rest[i].id # Head(a).id
  BY <1>1 DEF Ids, Distinct
<1>5. ASSUME NEW j \in DOMAIN a, a[j].id # Head(a).id PROVE a[j].id \in Ids(rest)
  <2>1. j - 1 \in DOMAIN rest /\ rest[j - 1] = a[j]
    BY <1>1, <1>5
  <2> QED BY <2>1 DEF Ids
<1>6. Ids(rest) = Ids(a) \ {Head(a).id}
  <2>1. \A x \in Ids(rest) : x \in Ids(a) \ {Head(a).id}
    BY <1>4 DEF Ids
  <2>2. \A x \in Ids(a) : x # Head(a).id => x \in Ids(rest)
    BY <1>5 DEF Ids
  <2> QED BY <2>1, <2>2
<1> QED BY <1>1, <1>2, <1>3, <1>6 DEF rest

LEMMA IdsOfRefused ==
  ASSUME NEW jobs \in Seq(Jobs), NEW outcome \in {"superseded", "not started"}
  PROVE  /\ Refused(jobs, outcome) \in Seq(Completions)
         /\ Ids(Refused(jobs, outcome)) = Ids(jobs)
         /\ Distinct(jobs) => Distinct(Refused(jobs, outcome))
<1> DEFINE done == Refused(jobs, outcome)
<1>1. DOMAIN jobs = 1 .. Len(jobs) /\ Len(jobs) \in Nat /\ \A i \in DOMAIN jobs : jobs[i] \in Jobs
  BY LenProperties, ElementOfSeq
<1>2. \A i \in DOMAIN jobs : Completion(jobs[i], outcome) \in Completions /\ Completion(jobs[i], outcome).id = jobs[i].id
  BY <1>1 DEF Completion, Completions, Jobs
<1>3. /\ done \in [1 .. Len(jobs) -> Completions] /\ DOMAIN done = DOMAIN jobs
      /\ \A i \in DOMAIN jobs : done[i].id = jobs[i].id
  BY <1>1, <1>2 DEF Refused
<1> HIDE DEF done
<1>4. done \in Seq(Completions)
  <2> QED BY <1>1, <1>3, FunctionIsSeq
<1>5. Ids(done) = Ids(jobs)
  BY <1>3 DEF Ids
<1>6. Distinct(jobs) => Distinct(done)
  BY <1>3 DEF Distinct
<1> QED BY <1>4, <1>5, <1>6 DEF done

LEMMA CountLeft ==
  ASSUME NEW jobs \in Seq(Jobs), Distinct(jobs), NEW P \in SUBSET (1 .. Len(jobs)), NEW s
  PROVE  /\ Count(jobs, s) \in Nat /\ Cardinality({i \in P : jobs[i].script = s}) \in Nat
         /\ Cardinality({i \in P : jobs[i].script = s}) <= Count(jobs, s)
         /\ Count(Without(jobs, {jobs[i].id : i \in P}), s)
              = Count(jobs, s) - Cardinality({i \in P : jobs[i].script = s})
<1> DEFINE ids == {jobs[i].id : i \in P}
           K == Kept(jobs, ids)
           at(k) == PlaceOf(jobs, ids, k)
           rest == Without(jobs, ids)
           All == {i \in 1 .. Len(jobs) : jobs[i].script = s}
           Out == {i \in P : jobs[i].script = s}
           In == {i \in K : jobs[i].script = s}
           Now == {k \in 1 .. Cardinality(K) : rest[k].script = s}
<1>1. /\ Cardinality(K) \in Nat /\ K \in SUBSET (1 .. Len(jobs))
      /\ rest = [k \in 1 .. Cardinality(K) |-> jobs[at(k)]]
      /\ \A k \in 1 .. Cardinality(K) : at(k) \in K
      /\ \A k, l \in 1 .. Cardinality(K) : k < l => at(k) < at(l)
      /\ \A i \in K : \E k \in 1 .. Cardinality(K) : at(k) = i
  BY PlacesKept
<1>2. DOMAIN jobs = 1 .. Len(jobs) /\ Len(jobs) \in Nat
  BY LenProperties
<1>3. K = (1 .. Len(jobs)) \ P
  BY <1>2 DEF Kept, Distinct
<1>4. Count(jobs, s) = Cardinality(All) /\ Count(rest, s) = Cardinality(Now)
  <2>1. DOMAIN rest = 1 .. Cardinality(K)
    BY <1>1
  <2> QED BY <1>2, <2>1 DEF Count
<1>5. IsFiniteSet(All) /\ Cardinality(All) \in Nat /\ IsFiniteSet(Out) /\ Cardinality(Out) \in Nat
  BY <1>2, PartOfAnInterval
<1>6. Out \in SUBSET All /\ In = All \ Out
  BY <1>3
<1>7. Cardinality(Out) <= Cardinality(All)
  BY <1>5, <1>6, FS_Subset
<1>8. Cardinality(In) = Cardinality(All) - Cardinality(Out)
  <2>1. All \cap Out = Out
    BY <1>6
  <2>2. Cardinality(All \ Out) = Cardinality(All) - Cardinality(All \cap Out)
    BY <1>5, FS_Difference
  <2> QED BY <1>6, <2>1, <2>2
<1>9. Cardinality(Now) = Cardinality(In)
  <2> DEFINE f == [k \in Now |-> at(k)]
  <2> HIDE DEF at, K, rest
  <2>1. \A k \in 1 .. Cardinality(K) : rest[k] = jobs[at(k)] /\ at(k) \in K
    BY <1>1
  <2>2. f \in [Now -> In] /\ \A k \in Now : f[k] = at(k)
    BY <2>1
  <2>3. \A i \in In : \E k \in Now : f[k] = i
    BY <1>1, <2>1
  <2>4. ASSUME NEW k \in Now, NEW l \in Now, f[k] = f[l] PROVE k = l
    <3>1. at(k) = at(l) /\ k \in 1 .. Cardinality(K) /\ l \in 1 .. Cardinality(K)
      BY <2>2, <2>4
    <3>2. at(k) \in Int /\ at(l) \in Int /\ k \in Int /\ l \in Int
      <4>1. at(k) \in 1 .. Len(jobs) /\ at(l) \in 1 .. Len(jobs)
        BY <1>1, <3>1
      <4> QED BY <1>1, <1>2, <3>1, <4>1
    <3>3. ~(at(k) < at(l)) /\ ~(at(l) < at(k))
      BY <3>1, <3>2
    <3>4. ~(k < l) /\ ~(l < k)
      BY <1>1, <3>1, <3>3
    <3> QED BY <3>2, <3>4
  <2> HIDE DEF f, Now, In
  <2>5. f \in Injection(Now, In) /\ f \in Surjection(Now, In)
    BY <2>2, <2>3, <2>4 DEF Injection, IsInjective, Surjection
  <2>6. IsFiniteSet(Now)
    BY <1>1, PartOfAnInterval DEF Now
  <2> QED BY <2>5, <2>6, FS_Bijection DEF Bijection, ExistsBijection
<1> QED BY <1>4, <1>5, <1>7, <1>8, <1>9

-----------------------------------------------------------------------------
(* The executor's books.                                                     *)

ExecutorTyped ==
  /\ policy \in TriggerExecutionPolicy
  /\ accepting \in BOOLEAN
  /\ activeTotal \in Nat /\ activeByScript \in [Scripts -> Nat]
  /\ nextJobId \in Nat \ {0} /\ pendingJobs \in Nat
  /\ queuedJobs \in Seq(Jobs) /\ queuedByScript \in [Scripts -> Nat]
  /\ localCompletions \in Seq(Completions) /\ results \in Seq(Completions)
  /\ threads \in SUBSET Jobs /\ delivered \in SUBSET Nat

IdsOf(jobs) == {job.id : job \in jobs}

\* Each number given out is in one of five places, and nowhere twice.
Ledger(queue, running, sent, kept, taken, next) ==
  /\ Ids(queue) \cup IdsOf(running) \cup Ids(sent) \cup Ids(kept) \cup taken = 1 .. next - 1
  /\ Ids(queue) \cap (IdsOf(running) \cup Ids(sent) \cup Ids(kept) \cup taken) = {}
  /\ IdsOf(running) \cap (Ids(sent) \cup Ids(kept) \cup taken) = {}
  /\ Ids(sent) \cap (Ids(kept) \cup taken) = {}
  /\ Ids(kept) \cap taken = {}
  /\ OldestFirst(queue) /\ Distinct(sent) /\ Distinct(kept)
  /\ \A job, other \in running : job.id = other.id => job = other

Counted(queue, queued) == \A s \in Scripts : queued[s] = Count(queue, s)

Books ==
  /\ Ledger(queuedJobs, threads, results, localCompletions, delivered, nextJobId)
  /\ Counted(queuedJobs, queuedByScript)

\* What a handler works on after it has collected.
Records ==
  [accepting : BOOLEAN, total : Nat, byScript : [Scripts -> Nat], queue : Seq(Jobs),
   queued : [Scripts -> Nat], completions : Seq(Completions), started : SUBSET Jobs]

InOrder(c) ==
  \A job \in c.started, i \in DOMAIN c.queue : c.queue[i].script = job.script => job.id < c.queue[i].id

NothingFits(c) ==
  \A i \in DOMAIN c.queue : ~HasActiveCapacity(c.total, c.byScript[c.queue[i].script])

RecordInBooks(c, next, taken) ==
  /\ c \in Records
  /\ Ledger(c.queue, threads \cup c.started, <<>>, c.completions, taken, next)
  /\ Counted(c.queue, c.queued)
  /\ NothingFits(c) /\ InOrder(c)

StartsWith(broken) == {i \in Starting(Len(queuedJobs)) : broken = 0 \/ i < broken}
StartedBy(broken) == {queuedJobs[i] : i \in StartsWith(broken)}
LeftBy(broken) == Without(queuedJobs, IdsOf(StartedBy(broken)))
NotStartedBy(broken) == IF broken = 0 THEN <<>> ELSE Refused(Failed(broken, LeftBy(broken)), "not started")

LEMMA CollectedIs ==
  ASSUME NEW broken
  PROVE  Collected(broken) =
           [accepting |-> accepting /\ broken = 0,
            total |-> DrainedTotal + Cardinality(StartsWith(broken)),
            byScript |-> [s \in Scripts |-> Drained(s) + CountAt(StartsWith(broken), s)],
            queue |-> IF broken = 0 THEN LeftBy(broken) ELSE <<>>,
            queued |-> [s \in Scripts |-> IF broken = 0
                         THEN Saturating(queuedByScript[s], CountAt(StartsWith(broken), s)) ELSE 0],
            completions |-> localCompletions \o results \o NotStartedBy(broken),
            started |-> StartedBy(broken)]
BY DEF Collected, StartsWith, StartedBy, LeftBy, NotStartedBy, IdsOf

LEMMA SaturatingType ==
  ASSUME NEW n \in Nat, NEW m \in Nat
  PROVE  Saturating(n, m) \in Nat
BY DEF Saturating

LEMMA DrainedType ==
  ASSUME ExecutorTyped
  PROVE  DrainedTotal \in Nat /\ \A s \in Scripts : Drained(s) \in Nat
<1>1. Len(results) \in Nat /\ DOMAIN results = 1 .. Len(results)
  BY LenProperties DEF ExecutorTyped
<1>2. DrainedTotal \in Nat
  BY <1>1, SaturatingType DEF DrainedTotal, ExecutorTyped
<1>3. ASSUME NEW s \in Scripts PROVE Drained(s) \in Nat
  <2>1. Count(results, s) \in Nat
    BY <1>1, PartOfAnInterval DEF Count
  <2>2. activeByScript[s] \in Nat
    BY DEF ExecutorTyped
  <2> QED BY <2>1, <2>2, SaturatingType DEF Drained
<1> QED BY <1>2, <1>3

LEMMA WhoStarts ==
  ASSUME ExecutorTyped, Books, NEW broken \in Failures
  PROVE  /\ StartsWith(broken) \in SUBSET (1 .. Len(queuedJobs))
         /\ broken # 0 => broken \in 1 .. Len(queuedJobs) /\ broken \notin StartsWith(broken)
         /\ StartedBy(broken) \in SUBSET Jobs
         /\ IdsOf(StartedBy(broken)) = {queuedJobs[i].id : i \in StartsWith(broken)}
         /\ IdsOf(StartedBy(broken)) \subseteq Ids(queuedJobs)
         /\ \A job, other \in StartedBy(broken) : job.id = other.id => job = other
<1>1. /\ queuedJobs \in Seq(Jobs) /\ Len(queuedJobs) \in Nat /\ DOMAIN queuedJobs = 1 .. Len(queuedJobs)
      /\ \A i \in 1 .. Len(queuedJobs) : queuedJobs[i] \in Jobs
  BY LenProperties, ElementOfSeq DEF ExecutorTyped
<1>2. Starting(Len(queuedJobs)) \in SUBSET (1 .. Len(queuedJobs))
  BY <1>1, StartingIsGreedy DEF Greedy
<1>3. StartsWith(broken) \in SUBSET (1 .. Len(queuedJobs))
  BY <1>2 DEF StartsWith
<1>4. broken # 0 => broken \in 1 .. Len(queuedJobs)
  BY <1>2 DEF Failures
<1>5. broken # 0 => broken \notin StartsWith(broken)
  <2> SUFFICES ASSUME broken # 0, broken \in StartsWith(broken) PROVE FALSE
    OBVIOUS
  <2>1. broken < broken /\ broken \in Int
    BY <1>1, <1>4 DEF StartsWith
  <2> QED BY <2>1
<1>6. StartedBy(broken) \in SUBSET Jobs
  BY <1>1, <1>3 DEF StartedBy
<1>7. IdsOf(StartedBy(broken)) = {queuedJobs[i].id : i \in StartsWith(broken)}
  BY DEF IdsOf, StartedBy
<1>8. IdsOf(StartedBy(broken)) \subseteq Ids(queuedJobs)
  BY <1>1, <1>3, <1>7 DEF Ids
<1>9. Distinct(queuedJobs)
  BY <1>1, OldestFirstIsDistinct DEF Books, Ledger
<1>10. \A job, other \in StartedBy(broken) : job.id = other.id => job = other
  BY <1>1, <1>3, <1>9 DEF StartedBy, Distinct
<1> QED BY <1>3, <1>4, <1>5, <1>6, <1>7, <1>8, <1>10

LEMMA WhoIsLeft ==
  ASSUME ExecutorTyped, Books, NEW broken \in Failures
  PROVE  /\ LeftBy(broken) \in Seq(Jobs) /\ OldestFirst(LeftBy(broken))
         /\ Ids(LeftBy(broken)) = Ids(queuedJobs) \ IdsOf(StartedBy(broken))
         /\ NotStartedBy(broken) \in Seq(Completions) /\ Distinct(NotStartedBy(broken))
         /\ Ids(NotStartedBy(broken)) = IF broken = 0 THEN {} ELSE Ids(LeftBy(broken))
<1>1. queuedJobs \in Seq(Jobs) /\ OldestFirst(queuedJobs)
  BY DEF ExecutorTyped, Books, Ledger
<1>2. /\ LeftBy(broken) \in Seq(Jobs) /\ OldestFirst(LeftBy(broken))
      /\ Ids(LeftBy(broken)) = Ids(queuedJobs) \ IdsOf(StartedBy(broken))
  BY <1>1, WhatIsLeft DEF LeftBy
<1>3. CASE broken = 0
  <2>1. NotStartedBy(broken) = <<>>
    BY <1>3 DEF NotStartedBy
  <2>2. <<>> \in Seq(Completions) /\ Ids(<<>>) = {} /\ Distinct(<<>>)
    BY EmptySeq DEF Ids, Distinct
  <2> QED BY <1>2, <1>3, <2>1, <2>2
<1>4. CASE broken # 0
  <2> DEFINE job == queuedJobs[broken]
             others == Without(LeftBy(broken), {job.id})
  <2>1. broken \in 1 .. Len(queuedJobs) /\ broken \notin StartsWith(broken) /\ job \in Jobs
    BY <1>1, <1>4, WhoStarts, ElementOfSeq
  <2>2. Distinct(queuedJobs) /\ DOMAIN queuedJobs = 1 .. Len(queuedJobs)
    BY <1>1, OldestFirstIsDistinct, LenProperties
  <2>3. job.id \in Ids(queuedJobs)
    BY <2>1, <2>2 DEF Ids
  <2>4. job.id \notin IdsOf(StartedBy(broken))
    BY <2>1, <2>2, WhoStarts DEF Distinct
  <2>5. /\ others \in Seq(Jobs) /\ OldestFirst(others)
        /\ Ids(others) = Ids(LeftBy(broken)) \ {job.id}
    BY <1>2, WhatIsLeft
  <2>6. Distinct(others)
    BY <2>5, OldestFirstIsDistinct
  <2>7. <<job>> \in Seq(Jobs) /\ Ids(<<job>>) = {job.id} /\ Distinct(<<job>>)
    <3>1. Len(<<job>>) = 1 /\ DOMAIN <<job>> = 1 .. 1 /\ <<job>>[1] = job
      OBVIOUS
    <3> QED BY <2>1, <3>1 DEF Ids, Distinct
  <2>8. Failed(broken, LeftBy(broken)) = <<job>> \o others
    BY DEF Failed
  <2> HIDE DEF job, others
  <2>9. /\ Failed(broken, LeftBy(broken)) \in Seq(Jobs)
        /\ Ids(Failed(broken, LeftBy(broken))) = Ids(LeftBy(broken))
        /\ Distinct(Failed(broken, LeftBy(broken)))
    <3> DEFINE first == <<job>>
    <3>1. Ids(first) \cap Ids(others) = {} /\ Ids(first) \cup Ids(others) = Ids(LeftBy(broken))
      BY <1>2, <2>3, <2>4, <2>5, <2>7
    <3>2. /\ first \in Seq(Jobs) /\ others \in Seq(Jobs) /\ Distinct(first) /\ Distinct(others)
      BY <2>5, <2>6, <2>7
    <3>3. Failed(broken, LeftBy(broken)) = first \o others
      BY <2>8
    <3> HIDE DEF first
    <3>4. /\ first \o others \in Seq(Jobs) /\ Distinct(first \o others)
          /\ Ids(first \o others) = Ids(first) \cup Ids(others)
      BY <3>1, <3>2, IdsOfConcatenation
    <3> QED BY <3>1, <3>3, <3>4
  <2> QED BY <1>2, <1>4, <2>9, IdsOfRefused DEF NotStartedBy
<1> QED BY <1>3, <1>4

LEMMA CollectedTyped ==
  ASSUME ExecutorTyped, Books, NEW broken \in Failures
  PROVE  /\ Collected(broken) \in Records
         /\ Ids(Collected(broken).completions) =
              Ids(localCompletions) \cup Ids(results) \cup Ids(NotStartedBy(broken))
         /\ Distinct(Collected(broken).completions)
<1>1. localCompletions \in Seq(Completions) /\ results \in Seq(Completions)
  BY DEF ExecutorTyped
<1>2. /\ Distinct(localCompletions) /\ Distinct(results) /\ Ids(localCompletions) \cap Ids(results) = {}
      /\ Ids(queuedJobs) \cap (Ids(localCompletions) \cup Ids(results)) = {}
  BY DEF Books, Ledger
<1>3. /\ localCompletions \o results \in Seq(Completions) /\ Distinct(localCompletions \o results)
      /\ Ids(localCompletions \o results) = Ids(localCompletions) \cup Ids(results)
  BY <1>1, <1>2, IdsOfConcatenation
<1>4. /\ NotStartedBy(broken) \in Seq(Completions) /\ Distinct(NotStartedBy(broken))
      /\ Ids(NotStartedBy(broken)) \subseteq Ids(queuedJobs)
  BY WhoIsLeft
<1> DEFINE done == localCompletions \o results \o NotStartedBy(broken)
<1>5. /\ done \in Seq(Completions) /\ Distinct(done)
      /\ Ids(done) = Ids(localCompletions) \cup Ids(results) \cup Ids(NotStartedBy(broken))
  <2> DEFINE taken == localCompletions \o results
  <2> HIDE DEF taken
  <2>1. /\ taken \in Seq(Completions) /\ Distinct(taken)
        /\ Ids(taken) = Ids(localCompletions) \cup Ids(results)
        /\ Ids(taken) \cap Ids(NotStartedBy(broken)) = {}
    BY <1>2, <1>3, <1>4 DEF taken
  <2>2. /\ taken \o NotStartedBy(broken) \in Seq(Completions) /\ Distinct(taken \o NotStartedBy(broken))
        /\ Ids(taken \o NotStartedBy(broken)) = Ids(taken) \cup Ids(NotStartedBy(broken))
    BY <1>4, <2>1, IdsOfConcatenation
  <2> QED BY <2>1, <2>2 DEF taken
<1> HIDE DEF done
<1>6. Cardinality(StartsWith(broken)) \in Nat /\ \A s : CountAt(StartsWith(broken), s) \in Nat
  <2>1. Len(queuedJobs) \in Nat /\ StartsWith(broken) \in SUBSET (1 .. Len(queuedJobs))
    BY WhoStarts, LenProperties DEF ExecutorTyped
  <2> QED BY <2>1, PartOfAnInterval DEF CountAt
<1>7. DrainedTotal + Cardinality(StartsWith(broken)) \in Nat
  BY <1>6, DrainedType
<1>8. [s \in Scripts |-> Drained(s) + CountAt(StartsWith(broken), s)] \in [Scripts -> Nat]
  BY <1>6, DrainedType
<1>9. [s \in Scripts |-> IF broken = 0 THEN Saturating(queuedByScript[s], CountAt(StartsWith(broken), s)) ELSE 0]
        \in [Scripts -> Nat]
  BY <1>6, SaturatingType DEF ExecutorTyped
<1>10. (IF broken = 0 THEN LeftBy(broken) ELSE <<>>) \in Seq(Jobs)
  BY WhoIsLeft, EmptySeq
<1>11. (accepting /\ broken = 0) \in BOOLEAN /\ StartedBy(broken) \in SUBSET Jobs
  BY WhoStarts
<1>12. Collected(broken) \in Records
  BY <1>5, <1>7, <1>8, <1>9, <1>10, <1>11, CollectedIs DEF Records, done
<1>13. Collected(broken).completions = done
  BY CollectedIs DEF done
<1> QED BY <1>5, <1>12, <1>13

LEMMA IdsOfUnion ==
  ASSUME NEW S, NEW T
  PROVE  IdsOf(S \cup T) = IdsOf(S) \cup IdsOf(T)
BY DEF IdsOf

LEMMA CollectedLedger ==
  ASSUME ExecutorTyped, Books, NEW broken \in Failures
  PROVE  Ledger(Collected(broken).queue, threads \cup Collected(broken).started, <<>>,
                Collected(broken).completions, delivered, nextJobId)
<1> DEFINE c == Collected(broken)
           Q == Ids(queuedJobs)
           T == IdsOf(threads)
           R == Ids(results)
           L == Ids(localCompletions)
           S == IdsOf(StartedBy(broken))
           N == Ids(NotStartedBy(broken))
<1>1. /\ Q \cup T \cup R \cup L \cup delivered = 1 .. nextJobId - 1
      /\ Q \cap (T \cup R \cup L \cup delivered) = {}
      /\ T \cap (R \cup L \cup delivered) = {}
      /\ R \cap (L \cup delivered) = {} /\ L \cap delivered = {}
  BY DEF Books, Ledger
<1>2. /\ c.queue = IF broken = 0 THEN LeftBy(broken) ELSE <<>>
      /\ c.started = StartedBy(broken)
      /\ Ids(c.completions) = L \cup R \cup N /\ Distinct(c.completions)
  BY CollectedIs, CollectedTyped
<1>3. S \subseteq Q /\ N = IF broken = 0 THEN {} ELSE Q \ S
  BY WhoStarts, WhoIsLeft
<1>4. Ids(<<>>) = {} /\ OldestFirst(<<>>) /\ Distinct(<<>>)
  BY DEF Ids, OldestFirst, Distinct
<1>5. Ids(c.queue) = (IF broken = 0 THEN Q \ S ELSE {}) /\ OldestFirst(c.queue)
  BY <1>2, <1>4, WhoIsLeft
<1>6. IdsOf(threads \cup c.started) = T \cup S
  BY <1>2, IdsOfUnion
<1>7. \A job, other \in threads \cup c.started : job.id = other.id => job = other
  <2>1. \A job \in threads : job.id \in T
    BY DEF IdsOf
  <2>2. \A job \in c.started : job.id \in S
    BY <1>2 DEF IdsOf
  <2>3. T \cap S = {}
    BY <1>1, <1>3
  <2>4. \A job, other \in threads : job.id = other.id => job = other
    BY DEF Books, Ledger
  <2>5. \A job, other \in c.started : job.id = other.id => job = other
    BY <1>2, WhoStarts
  <2> HIDE DEF c, T, S
  <2> QED BY <2>1, <2>2, <2>3, <2>4, <2>5
<1> HIDE DEF c, Q, T, R, L, S, N
<1>8. /\ Ids(c.queue) \cup (T \cup S) \cup {} \cup (L \cup R \cup N) \cup delivered = 1 .. nextJobId - 1
      /\ Ids(c.queue) \cap ((T \cup S) \cup {} \cup (L \cup R \cup N) \cup delivered) = {}
      /\ (T \cup S) \cap ({} \cup (L \cup R \cup N) \cup delivered) = {}
      /\ (L \cup R \cup N) \cap delivered = {}
  <2>1. CASE broken = 0
    <3>1. Ids(c.queue) = Q \ S /\ N = {}
      BY <1>3, <1>5, <2>1
    <3> QED BY <1>1, <1>3, <3>1
  <2>2. CASE broken # 0
    <3>1. Ids(c.queue) = {} /\ N = Q \ S
      BY <1>3, <1>5, <2>2
    <3> QED BY <1>1, <1>3, <3>1
  <2> QED BY <2>1, <2>2
<1>9. Ledger(c.queue, threads \cup c.started, <<>>, c.completions, delivered, nextJobId)
  BY <1>2, <1>4, <1>5, <1>6, <1>7, <1>8 DEF Ledger
<1> QED BY <1>9 DEF c

LEMMA CollectedCounted ==
  ASSUME ExecutorTyped, Books, NEW broken \in Failures
  PROVE  Counted(Collected(broken).queue, Collected(broken).queued)
<1> SUFFICES ASSUME NEW s \in Scripts
             PROVE  Collected(broken).queued[s] = Count(Collected(broken).queue, s)
  BY DEF Counted
<1>1. /\ Collected(broken).queue = IF broken = 0 THEN LeftBy(broken) ELSE <<>>
      /\ Collected(broken).queued[s] =
           IF broken = 0 THEN Saturating(queuedByScript[s], CountAt(StartsWith(broken), s)) ELSE 0
  BY CollectedIs
<1>2. CASE broken = 0
  <2>1. queuedJobs \in Seq(Jobs) /\ Distinct(queuedJobs) /\ StartsWith(broken) \in SUBSET (1 .. Len(queuedJobs))
    BY OldestFirstIsDistinct, WhoStarts DEF ExecutorTyped, Books, Ledger
  <2>2. /\ Count(queuedJobs, s) \in Nat /\ CountAt(StartsWith(broken), s) \in Nat
        /\ CountAt(StartsWith(broken), s) <= Count(queuedJobs, s)
        /\ Count(Without(queuedJobs, {queuedJobs[i].id : i \in StartsWith(broken)}), s)
             = Count(queuedJobs, s) - CountAt(StartsWith(broken), s)
    BY <2>1, CountLeft DEF CountAt
  <2>3. LeftBy(broken) = Without(queuedJobs, {queuedJobs[i].id : i \in StartsWith(broken)})
    BY WhoStarts DEF LeftBy
  <2>4. queuedByScript[s] = Count(queuedJobs, s)
    BY DEF Books, Counted
  <2> QED BY <1>1, <1>2, <2>2, <2>3, <2>4 DEF Saturating
<1>3. CASE broken # 0
  <2>1. {i \in DOMAIN <<>> : <<>>[i].script = s} = {}
    OBVIOUS
  <2> QED BY <1>1, <1>3, <2>1, FS_EmptySet DEF Count
<1> QED BY <1>2, <1>3

\* A job without room next to those started before it has none next to more.
LEMMA RoomShrinks ==
  ASSUME ExecutorTyped, NEW m \in Nat, NEW k \in Nat, NEW n \in Nat, NEW l \in Nat, m <= n, k <= l,
         HasActiveCapacity(n, l)
  PROVE  HasActiveCapacity(m, k)
<1>1. policy.max_active_global \in Limits /\ policy.max_active_per_script \in Limits
  BY DEF ExecutorTyped, TriggerExecutionPolicy
<1> QED BY <1>1, TriggerExecutorAssumption DEF HasActiveCapacity, PermitsNext, Limits

LEMMA LeftWithoutRoom ==
  ASSUME ExecutorTyped, NEW i \in 1 .. Len(queuedJobs), i \notin Starting(Len(queuedJobs)),
         NEW S \in SUBSET (1 .. Len(queuedJobs)), Before(Starting(Len(queuedJobs)), i) \subseteq S
  PROVE  ~HasActiveCapacity(DrainedTotal + Cardinality(S),
                            Drained(queuedJobs[i].script) + CountAt(S, queuedJobs[i].script))
<1> DEFINE n == Len(queuedJobs)
           B == Before(Starting(n), i)
           s == queuedJobs[i].script
<1>1. n \in Nat /\ s \in Scripts
  BY LenProperties, ElementOfSeq DEF ExecutorTyped, Jobs
<1>2. Greedy(Starting(n), n)
  BY <1>1, StartingIsGreedy
<1>3. ~HasActiveCapacity(DrainedTotal + Cardinality(B), Drained(s) + CountAt(B, s))
  BY <1>2 DEF Greedy, RoomAt
<1>4. Cardinality(B) \in Nat /\ Cardinality(S) \in Nat /\ Cardinality(B) <= Cardinality(S)
  BY <1>1, PartOfAnInterval, SmallerPart
<1>5. CountAt(B, s) \in Nat /\ CountAt(S, s) \in Nat /\ CountAt(B, s) <= CountAt(S, s)
  <2> DEFINE Of(P) == {j \in P : queuedJobs[j].script = s}
  <2>1. Of(S) \in SUBSET (1 .. n) /\ Of(B) \in SUBSET Of(S) /\ Of(B) \in SUBSET (1 .. n)
    OBVIOUS
  <2>2. CountAt(B, s) = Cardinality(Of(B)) /\ CountAt(S, s) = Cardinality(Of(S))
    BY DEF CountAt
  <2> HIDE DEF Of, n, B, s
  <2> QED BY <1>1, <2>1, <2>2, PartOfAnInterval, SmallerPart
<1>6. DrainedTotal \in Nat /\ Drained(s) \in Nat
  BY <1>1, DrainedType
<1> HIDE DEF n, B, s
<1>7. /\ DrainedTotal + Cardinality(B) \in Nat /\ DrainedTotal + Cardinality(S) \in Nat
      /\ DrainedTotal + Cardinality(B) <= DrainedTotal + Cardinality(S)
      /\ Drained(s) + CountAt(B, s) \in Nat /\ Drained(s) + CountAt(S, s) \in Nat
      /\ Drained(s) + CountAt(B, s) <= Drained(s) + CountAt(S, s)
  BY <1>4, <1>5, <1>6
<1>8. ~HasActiveCapacity(DrainedTotal + Cardinality(S), Drained(s) + CountAt(S, s))
  BY <1>3, <1>7, RoomShrinks
<1> QED BY <1>8 DEF s, n

\* A job left in the queue has its place among those that do not start.
LEMMA LeftPlace ==
  ASSUME ExecutorTyped, Books, 0 \in Failures, NEW k \in DOMAIN LeftBy(0)
  PROVE  \E i \in 1 .. Len(queuedJobs) : i \notin Starting(Len(queuedJobs)) /\ LeftBy(0)[k] = queuedJobs[i]
<1>1. queuedJobs \in Seq(Jobs) /\ DOMAIN queuedJobs = 1 .. Len(queuedJobs)
  BY LenProperties DEF ExecutorTyped
<1>2. PICK i \in Kept(queuedJobs, IdsOf(StartedBy(0))) : LeftBy(0)[k] = queuedJobs[i]
  BY <1>1, WhatIsLeft DEF LeftBy
<1>3. i \in 1 .. Len(queuedJobs) /\ queuedJobs[i].id \notin IdsOf(StartedBy(0))
  BY <1>1 DEF Kept
<1>4. StartsWith(0) = Starting(Len(queuedJobs))
  BY DEF StartsWith
<1>5. i \notin Starting(Len(queuedJobs))
  BY <1>3, <1>4 DEF IdsOf, StartedBy
<1> QED BY <1>2, <1>3, <1>5

LEMMA CollectedFits ==
  ASSUME ExecutorTyped, Books, NEW broken \in Failures
  PROVE  NothingFits(Collected(broken)) /\ InOrder(Collected(broken))
<1> DEFINE c == Collected(broken)
           n == Len(queuedJobs)
<1>1. /\ c.queue = IF broken = 0 THEN LeftBy(broken) ELSE <<>>
      /\ c.started = StartedBy(broken)
      /\ c.total = DrainedTotal + Cardinality(StartsWith(broken))
      /\ c.byScript = [s \in Scripts |-> Drained(s) + CountAt(StartsWith(broken), s)]
  BY CollectedIs
<1>2. CASE broken # 0
  <2>1. DOMAIN c.queue = {}
    BY <1>1, <1>2
  <2> QED BY <2>1 DEF NothingFits, InOrder
<1>3. CASE broken = 0
  <2>1. StartsWith(broken) = Starting(n) /\ Starting(n) \in SUBSET (1 .. n) /\ Greedy(Starting(n), n)
    <3>1. n \in Nat
      BY LenProperties DEF ExecutorTyped
    <3> QED BY <1>3, <3>1, StartingIsGreedy DEF StartsWith, Greedy
  <2>2. \A i \in 1 .. n : queuedJobs[i].script \in Scripts
    <3>1. \A i \in 1 .. n : queuedJobs[i] \in Jobs
      BY ElementOfSeq DEF ExecutorTyped
    <3> QED BY <3>1 DEF Jobs
  <2>3. ASSUME NEW k \in DOMAIN c.queue PROVE ~HasActiveCapacity(c.total, c.byScript[c.queue[k].script])
    <3>1. PICK i \in 1 .. n : i \notin Starting(n) /\ c.queue[k] = queuedJobs[i]
      BY <1>1, <1>3, <2>3, LeftPlace
    <3>2. Before(Starting(n), i) \subseteq Starting(n)
      BY DEF Before
    <3>3. ~HasActiveCapacity(DrainedTotal + Cardinality(Starting(n)),
                             Drained(queuedJobs[i].script) + CountAt(Starting(n), queuedJobs[i].script))
      BY <2>1, <3>1, <3>2, LeftWithoutRoom
    <3> QED BY <1>1, <2>1, <2>2, <3>1, <3>3
  <2>4. ASSUME NEW job \in c.started, NEW k \in DOMAIN c.queue, c.queue[k].script = job.script
        PROVE  job.id < c.queue[k].id
    <3>1. PICK j \in 1 .. n : j \notin Starting(n) /\ c.queue[k] = queuedJobs[j]
      BY <1>1, <1>3, <2>4, LeftPlace
    <3>2. PICK i \in Starting(n) : job = queuedJobs[i]
      BY <1>1, <2>1 DEF StartedBy
    <3>3. i \in 1 .. n /\ RoomAt(Starting(n), i)
      BY <2>1, <3>2 DEF Greedy
    <3>4. ~(j < i)
      <4> SUFFICES ASSUME j < i PROVE FALSE
        OBVIOUS
      <4>1. Before(Starting(n), j) \subseteq Before(Starting(n), i) /\ Before(Starting(n), i) \in SUBSET (1 .. n)
        <5>1. \A x \in Starting(n) : x \in Int
          BY <2>1
        <5> HIDE DEF n
        <5> QED BY <2>1, <3>1, <3>3, <5>1 DEF Before
      <4>2. ~HasActiveCapacity(DrainedTotal + Cardinality(Before(Starting(n), i)),
                               Drained(queuedJobs[j].script) + CountAt(Before(Starting(n), i), queuedJobs[j].script))
        BY <3>1, <4>1, LeftWithoutRoom
      <4> QED BY <2>4, <3>1, <3>2, <3>3, <4>2 DEF RoomAt
    <3>5. i # j
      BY <3>1, <3>2
    <3>6. i < j
      BY <3>3, <3>4, <3>5
    <3>7. DOMAIN queuedJobs = 1 .. n /\ OldestFirst(queuedJobs)
      BY LenProperties DEF ExecutorTyped, Books, Ledger
    <3> QED BY <3>1, <3>2, <3>3, <3>6, <3>7 DEF OldestFirst
  <2> QED BY <2>3, <2>4 DEF NothingFits, InOrder
<1> QED BY <1>2, <1>3

LEMMA CollectedInBooks ==
  ASSUME ExecutorTyped, Books, NEW broken \in Failures
  PROVE  RecordInBooks(Collected(broken), nextJobId, delivered)
BY CollectedTyped, CollectedLedger, CollectedCounted, CollectedFits DEF RecordInBooks

-----------------------------------------------------------------------------
(* What a submission does to the record it works on.                         *)

LEMMA CountOneMore ==
  ASSUME NEW S, NEW jobs \in Seq(S), NEW job \in S, NEW s
  PROVE  Count(Append(jobs, job), s) = IF job.script = s THEN Count(jobs, s) + 1 ELSE Count(jobs, s)
<1> DEFINE n == Len(jobs)
           longer == Append(jobs, job)
           Of == {i \in DOMAIN jobs : jobs[i].script = s}
           Now == {i \in DOMAIN longer : longer[i].script = s}
<1>1. /\ n \in Nat /\ DOMAIN jobs = 1 .. n /\ DOMAIN longer = 1 .. n + 1
      /\ \A i \in 1 .. n : longer[i] = jobs[i]
      /\ longer[n + 1] = job
  BY AppendProperties
<1>2. Of \in SUBSET (1 .. n) /\ n + 1 \notin Of
  BY <1>1
<1> HIDE DEF n, longer
<1>3. Now = IF job.script = s THEN Of \cup {n + 1} ELSE Of
  <2>1. \A i \in 1 .. n + 1 : i \in 1 .. n \/ i = n + 1
    BY <1>1
  <2>2. \A i \in Now : i \in Of \/ (i = n + 1 /\ job.script = s)
    BY <1>1, <2>1
  <2>3. Of \subseteq Now
    BY <1>1
  <2>4. job.script = s => n + 1 \in Now
    BY <1>1
  <2>5. job.script # s => n + 1 \notin Now
    BY <1>1
  <2> HIDE DEF Now, Of
  <2> QED BY <2>2, <2>3, <2>4, <2>5
<1>4. IsFiniteSet(Of) /\ Cardinality(Of) \in Nat
  BY <1>1, <1>2, PartOfAnInterval
<1>5. Cardinality(Now) = IF job.script = s THEN Cardinality(Of) + 1 ELSE Cardinality(Of)
  BY <1>2, <1>3, <1>4, FS_AddElement
<1> QED BY <1>5 DEF Count, longer

LEMMA QueuedFields ==
  ASSUME NEW c \in Records, NEW job \in Jobs
  PROVE  Queued(c, job) =
           [accepting |-> c.accepting, total |-> c.total, byScript |-> c.byScript,
            queue |-> Append(c.queue, job),
            queued |-> [c.queued EXCEPT ![job.script] = @ + 1],
            completions |-> c.completions, started |-> c.started]
<1> DEFINE whole == [accepting |-> c.accepting, total |-> c.total, byScript |-> c.byScript,
                     queue |-> c.queue, queued |-> c.queued,
                     completions |-> c.completions, started |-> c.started]
<1>1. c = whole
  BY DEF Records
<1>2. Queued(c, job) = [c EXCEPT !.queue = Append(@, job), !.queued[job.script] = @ + 1]
  BY DEF Queued
<1> QED BY <1>1, <1>2

LEMMA StartsFields ==
  ASSUME NEW c \in Records, NEW job \in Jobs
  PROVE  Starts(c, job) =
           [accepting |-> c.accepting, total |-> c.total + 1,
            byScript |-> [c.byScript EXCEPT ![job.script] = @ + 1],
            queue |-> c.queue, queued |-> c.queued,
            completions |-> c.completions, started |-> c.started \cup {job}]
<1> DEFINE whole == [accepting |-> c.accepting, total |-> c.total, byScript |-> c.byScript,
                     queue |-> c.queue, queued |-> c.queued,
                     completions |-> c.completions, started |-> c.started]
<1>1. c = whole
  BY DEF Records
<1>2. Starts(c, job) = [c EXCEPT !.total = @ + 1, !.byScript[job.script] = @ + 1, !.started = @ \cup {job}]
  BY DEF Starts
<1> QED BY <1>1, <1>2

LEMMA RecordTypes ==
  ASSUME NEW c \in Records
  PROVE  /\ c.accepting \in BOOLEAN /\ c.total \in Nat /\ c.byScript \in [Scripts -> Nat]
         /\ c.queue \in Seq(Jobs) /\ c.queued \in [Scripts -> Nat]
         /\ c.completions \in Seq(Completions) /\ c.started \in SUBSET Jobs
<1>1. c.accepting \in BOOLEAN /\ c.total \in Nat
  BY DEF Records
<1>2. c.byScript \in [Scripts -> Nat]
  BY DEF Records
<1>3. c.queue \in Seq(Jobs)
  BY DEF Records
<1>4. c.queued \in [Scripts -> Nat]
  BY DEF Records
<1>5. c.completions \in Seq(Completions)
  BY DEF Records
<1>6. c.started \in SUBSET Jobs
  BY DEF Records
<1> QED BY <1>1, <1>2, <1>3, <1>4, <1>5, <1>6

\* Numbers given out so far, and the next.
LEMMA NextNumber ==
  ASSUME NEW n \in Nat \ {0}
  PROVE  1 .. (n + 1) - 1 = (1 .. n - 1) \cup {n} /\ n \notin 1 .. n - 1
OBVIOUS

LEMMA QueuedInBooks ==
  ASSUME ExecutorTyped, NEW c, RecordInBooks(c, nextJobId, delivered),
         NEW s \in Scripts, ~HasActiveCapacity(c.total, c.byScript[s])
  PROVE  RecordInBooks(Queued(c, [id |-> nextJobId, script |-> s]), nextJobId + 1, delivered)
<1> DEFINE job == [id |-> nextJobId, script |-> s]
           d == Queued(c, job)
<1>1. c \in Records /\ job \in Jobs /\ nextJobId \in Nat \ {0}
  BY DEF RecordInBooks, ExecutorTyped, Jobs
<1>2. /\ job.id = nextJobId /\ job.script = s
  OBVIOUS
<1> HIDE DEF job
<1>3. /\ d.accepting = c.accepting /\ d.total = c.total /\ d.byScript = c.byScript
      /\ d.queue = Append(c.queue, job) /\ d.queued = [c.queued EXCEPT ![s] = @ + 1]
      /\ d.completions = c.completions /\ d.started = c.started
  BY <1>1, <1>2, QueuedFields
<1>4. /\ c.queue \in Seq(Jobs) /\ c.queued \in [Scripts -> Nat] /\ c.started \in SUBSET Jobs
      /\ c.byScript \in [Scripts -> Nat] /\ c.total \in Nat /\ c.accepting \in BOOLEAN
      /\ c.completions \in Seq(Completions)
  BY <1>1, RecordTypes
<1>5. d \in Records
  <2>1. Append(c.queue, job) \in Seq(Jobs) /\ [c.queued EXCEPT ![s] = @ + 1] \in [Scripts -> Nat]
    BY <1>1, <1>4, AppendProperties
  <2>2. d = [accepting |-> c.accepting, total |-> c.total, byScript |-> c.byScript,
             queue |-> Append(c.queue, job), queued |-> [c.queued EXCEPT ![s] = @ + 1],
             completions |-> c.completions, started |-> c.started]
    BY <1>1, <1>2, QueuedFields
  <2> QED BY <1>4, <2>1, <2>2 DEF Records
<1>6. /\ Len(c.queue) \in Nat /\ DOMAIN c.queue = 1 .. Len(c.queue)
      /\ DOMAIN d.queue = 1 .. Len(c.queue) + 1
      /\ \A i \in 1 .. Len(c.queue) : d.queue[i] = c.queue[i]
      /\ d.queue[Len(c.queue) + 1] = job
  BY <1>1, <1>3, <1>4, AppendProperties
<1>7. \A i \in 1 .. Len(c.queue) : c.queue[i].id \in 1 .. nextJobId - 1
  BY <1>6 DEF RecordInBooks, Ledger, Ids
<1>8. Ids(d.queue) = Ids(c.queue) \cup {nextJobId}
  BY <1>1, <1>2, <1>3, <1>4, OneMore
<1>9. OldestFirst(d.queue)
  <2> SUFFICES ASSUME NEW i \in 1 .. Len(c.queue) + 1, NEW j \in 1 .. Len(c.queue) + 1, i < j
               PROVE  d.queue[i].id < d.queue[j].id
    BY <1>6 DEF OldestFirst
  <2>1. i \in 1 .. Len(c.queue)
    BY <1>6
  <2>2. d.queue[i] = c.queue[i] /\ c.queue[i].id \in 1 .. nextJobId - 1
    BY <1>6, <1>7, <2>1
  <2>3. CASE j = Len(c.queue) + 1
    <3>1. d.queue[j].id = nextJobId
      BY <1>2, <1>6, <2>3
    <3> HIDE DEF d
    <3> QED BY <1>1, <2>2, <3>1
  <2>4. CASE j # Len(c.queue) + 1
    <3>1. j \in 1 .. Len(c.queue)
      BY <1>6, <2>4
    <3>2. OldestFirst(c.queue)
      BY DEF RecordInBooks, Ledger
    <3> QED BY <1>6, <2>1, <3>1, <3>2 DEF OldestFirst
  <2> QED BY <2>3, <2>4
<1>10. Ledger(d.queue, threads \cup d.started, <<>>, d.completions, delivered, nextJobId + 1)
  <2> DEFINE Q == Ids(c.queue)
             T == IdsOf(threads \cup c.started)
             R == Ids(<<>>)
             L == Ids(c.completions)
  <2>1. /\ Q \cup T \cup R \cup L \cup delivered = 1 .. nextJobId - 1
        /\ Q \cap (T \cup R \cup L \cup delivered) = {}
        /\ T \cap (R \cup L \cup delivered) = {}
        /\ R \cap (L \cup delivered) = {} /\ L \cap delivered = {}
        /\ Distinct(<<>>) /\ Distinct(c.completions)
        /\ \A x, y \in threads \cup c.started : x.id = y.id => x = y
    BY DEF RecordInBooks, Ledger
  <2>2. 1 .. (nextJobId + 1) - 1 = (1 .. nextJobId - 1) \cup {nextJobId} /\ nextJobId \notin 1 .. nextJobId - 1
    BY <1>1, NextNumber
  <2> HIDE DEF Q, T, R, L
  <2>3. /\ (Q \cup {nextJobId}) \cup T \cup R \cup L \cup delivered = 1 .. (nextJobId + 1) - 1
        /\ (Q \cup {nextJobId}) \cap (T \cup R \cup L \cup delivered) = {}
    BY <2>1, <2>2
  <2> QED BY <1>3, <1>8, <1>9, <2>1, <2>3 DEF Ledger, Q, T, R, L
<1>11. Counted(d.queue, d.queued)
  <2> SUFFICES ASSUME NEW x \in Scripts PROVE d.queued[x] = Count(d.queue, x)
    BY DEF Counted
  <2>1. c.queued[x] = Count(c.queue, x)
    BY DEF RecordInBooks, Counted
  <2> QED BY <1>1, <1>2, <1>3, <1>4, <2>1, CountOneMore
<1>12. NothingFits(d)
  <2> SUFFICES ASSUME NEW i \in 1 .. Len(c.queue) + 1
               PROVE  ~HasActiveCapacity(c.total, c.byScript[d.queue[i].script])
    BY <1>3, <1>6 DEF NothingFits
  <2>1. CASE i = Len(c.queue) + 1
    BY <1>2, <1>6, <2>1
  <2>2. CASE i # Len(c.queue) + 1
    <3>1. i \in 1 .. Len(c.queue)
      BY <1>6, <2>2
    <3> QED BY <1>6, <3>1 DEF RecordInBooks, NothingFits
  <2> QED BY <2>1, <2>2
<1>13. InOrder(d)
  <2> SUFFICES ASSUME NEW x \in c.started, NEW i \in 1 .. Len(c.queue) + 1, d.queue[i].script = x.script
               PROVE  x.id < d.queue[i].id
    BY <1>3, <1>6 DEF InOrder
  <2>1. CASE i = Len(c.queue) + 1
    <3>1. x.id \in 1 .. nextJobId - 1
      BY DEF RecordInBooks, Ledger, IdsOf
    <3> QED BY <1>1, <1>2, <1>6, <2>1, <3>1
  <2>2. CASE i # Len(c.queue) + 1
    <3>1. i \in 1 .. Len(c.queue)
      BY <1>6, <2>2
    <3> QED BY <1>6, <3>1 DEF RecordInBooks, InOrder
  <2> QED BY <2>1, <2>2
<1> HIDE DEF d
<1>14. RecordInBooks(d, nextJobId + 1, delivered)
  BY <1>5, <1>10, <1>11, <1>12, <1>13 DEF RecordInBooks
<1> QED BY <1>14 DEF d, job

LEMMA StartedInBooks ==
  ASSUME ExecutorTyped, NEW c, RecordInBooks(c, nextJobId, delivered),
         NEW s \in Scripts, HasActiveCapacity(c.total, c.byScript[s])
  PROVE  RecordInBooks(Starts(c, [id |-> nextJobId, script |-> s]), nextJobId + 1, delivered)
<1> DEFINE job == [id |-> nextJobId, script |-> s]
           d == Starts(c, job)
<1>1. c \in Records /\ job \in Jobs /\ nextJobId \in Nat \ {0}
  BY DEF RecordInBooks, ExecutorTyped, Jobs
<1>2. /\ job.id = nextJobId /\ job.script = s
  OBVIOUS
<1> HIDE DEF job
<1>3. /\ d.total = c.total + 1 /\ d.byScript = [c.byScript EXCEPT ![s] = @ + 1]
      /\ d.queue = c.queue /\ d.queued = c.queued
      /\ d.completions = c.completions /\ d.started = c.started \cup {job}
  BY <1>1, <1>2, StartsFields
<1>4. /\ c.queue \in Seq(Jobs) /\ c.queued \in [Scripts -> Nat] /\ c.started \in SUBSET Jobs
      /\ c.byScript \in [Scripts -> Nat] /\ c.total \in Nat /\ c.accepting \in BOOLEAN
      /\ c.completions \in Seq(Completions)
  BY <1>1, RecordTypes
<1>5. d \in Records
  <2>1. [c.byScript EXCEPT ![s] = @ + 1] \in [Scripts -> Nat] /\ c.started \cup {job} \in SUBSET Jobs
        /\ c.total + 1 \in Nat
    BY <1>1, <1>4
  <2>2. d = [accepting |-> c.accepting, total |-> c.total + 1,
             byScript |-> [c.byScript EXCEPT ![s] = @ + 1],
             queue |-> c.queue, queued |-> c.queued,
             completions |-> c.completions, started |-> c.started \cup {job}]
    BY <1>1, <1>2, StartsFields
  <2> QED BY <1>4, <2>1, <2>2 DEF Records
<1>6. /\ Len(c.queue) \in Nat /\ DOMAIN c.queue = 1 .. Len(c.queue)
      /\ \A i \in DOMAIN c.queue : c.queue[i].id \in 1 .. nextJobId - 1 /\ c.queue[i].script \in Scripts
  <2>1. Len(c.queue) \in Nat /\ DOMAIN c.queue = 1 .. Len(c.queue)
    BY <1>4, LenProperties
  <2>2. \A i \in DOMAIN c.queue : c.queue[i] \in Jobs
    BY <1>4, <2>1, ElementOfSeq
  <2>3. \A i \in DOMAIN c.queue : c.queue[i].id \in Ids(c.queue)
    BY DEF Ids
  <2>4. Ids(c.queue) \subseteq 1 .. nextJobId - 1
    BY DEF RecordInBooks, Ledger
  <2> QED BY <2>1, <2>2, <2>3, <2>4 DEF Jobs
<1>7. Ledger(d.queue, threads \cup d.started, <<>>, d.completions, delivered, nextJobId + 1)
  <2> DEFINE Q == Ids(c.queue)
             T == IdsOf(threads \cup c.started)
             R == Ids(<<>>)
             L == Ids(c.completions)
  <2>1. /\ Q \cup T \cup R \cup L \cup delivered = 1 .. nextJobId - 1
        /\ Q \cap (T \cup R \cup L \cup delivered) = {}
        /\ T \cap (R \cup L \cup delivered) = {}
        /\ R \cap (L \cup delivered) = {} /\ L \cap delivered = {}
        /\ OldestFirst(c.queue) /\ Distinct(<<>>) /\ Distinct(c.completions)
        /\ \A x, y \in threads \cup c.started : x.id = y.id => x = y
    BY DEF RecordInBooks, Ledger
  <2>2. 1 .. (nextJobId + 1) - 1 = (1 .. nextJobId - 1) \cup {nextJobId} /\ nextJobId \notin 1 .. nextJobId - 1
    BY <1>1, NextNumber
  <2>3. IdsOf(threads \cup d.started) = T \cup {nextJobId}
    BY <1>2, <1>3 DEF IdsOf
  <2>4. \A x \in threads \cup c.started : x.id # nextJobId
    BY <2>1, <2>2 DEF IdsOf
  <2>5. \A x, y \in threads \cup d.started : x.id = y.id => x = y
    BY <1>2, <1>3, <2>1, <2>4
  <2> HIDE DEF Q, T, R, L
  <2>6. /\ Q \cup (T \cup {nextJobId}) \cup R \cup L \cup delivered = 1 .. (nextJobId + 1) - 1
        /\ Q \cap ((T \cup {nextJobId}) \cup R \cup L \cup delivered) = {}
        /\ (T \cup {nextJobId}) \cap (R \cup L \cup delivered) = {}
    BY <2>1, <2>2
  <2> QED BY <1>3, <2>1, <2>3, <2>5, <2>6 DEF Ledger, Q, R, L
<1>8. Counted(d.queue, d.queued)
  BY <1>3 DEF RecordInBooks
<1>9. NothingFits(d)
  <2> SUFFICES ASSUME NEW i \in DOMAIN c.queue, HasActiveCapacity(d.total, d.byScript[c.queue[i].script])
               PROVE  FALSE
    BY <1>3 DEF NothingFits
  <2> DEFINE q == c.queue[i].script
  <2>1. q \in Scripts
    BY <1>6
  <2> HIDE DEF q
  <2>2. c.total \in Nat /\ d.total \in Nat /\ c.total <= d.total
    BY <1>3, <1>4
  <2>3. c.byScript[q] \in Nat /\ d.byScript[q] \in Nat /\ c.byScript[q] <= d.byScript[q]
    BY <1>3, <1>4, <2>1
  <2>4. HasActiveCapacity(c.total, c.byScript[q])
    BY <2>2, <2>3, RoomShrinks DEF q
  <2> QED BY <2>4 DEF RecordInBooks, NothingFits, q
<1>10. InOrder(d)
  <2> SUFFICES ASSUME NEW x \in d.started, NEW i \in DOMAIN c.queue, c.queue[i].script = x.script
               PROVE  x.id < c.queue[i].id
    BY <1>3 DEF InOrder
  <2>1. CASE x \in c.started
    BY <2>1 DEF RecordInBooks, InOrder
  <2>2. CASE x = job
    <3>1. ~HasActiveCapacity(c.total, c.byScript[c.queue[i].script])
      BY DEF RecordInBooks, NothingFits
    <3> QED BY <1>2, <2>2, <3>1
  <2> QED BY <1>3, <2>1, <2>2
<1> HIDE DEF d
<1>11. RecordInBooks(d, nextJobId + 1, delivered)
  BY <1>5, <1>7, <1>8, <1>9, <1>10 DEF RecordInBooks
<1> QED BY <1>11 DEF d, job

LEMMA WithoutOldestFields ==
  ASSUME NEW c \in Records, NEW s \in Scripts
  PROVE  WithoutOldest(c, s) =
           [accepting |-> c.accepting, total |-> c.total, byScript |-> c.byScript,
            queue |-> Without(c.queue, {Oldest(c, s).id}),
            queued |-> [c.queued EXCEPT ![s] = Saturating(@, 1)],
            completions |-> Append(c.completions, Completion(Oldest(c, s), "superseded")),
            started |-> c.started]
<1> DEFINE whole == [accepting |-> c.accepting, total |-> c.total, byScript |-> c.byScript,
                     queue |-> c.queue, queued |-> c.queued,
                     completions |-> c.completions, started |-> c.started]
           old == Oldest(c, s)
<1>1. c = whole
  BY DEF Records
<1>2. WithoutOldest(c, s) =
        [c EXCEPT !.queue = Without(@, {old.id}), !.queued[s] = Saturating(@, 1),
                  !.completions = Append(@, Completion(old, "superseded"))]
  BY DEF WithoutOldest
<1> HIDE DEF old
<1>3. WithoutOldest(c, s) =
        [accepting |-> c.accepting, total |-> c.total, byScript |-> c.byScript,
         queue |-> Without(c.queue, {old.id}),
         queued |-> [c.queued EXCEPT ![s] = Saturating(@, 1)],
         completions |-> Append(c.completions, Completion(old, "superseded")),
         started |-> c.started]
  BY <1>1, <1>2
<1> QED BY <1>3 DEF old

\* A script at its limit of queued jobs has one: limits are positive.
LEMMA OldestIsQueued ==
  ASSUME ExecutorTyped, NEW c \in Records, Counted(c.queue, c.queued),
         NEW s \in Scripts, ~PermitsNext(policy.max_queued_per_script, c.queued[s])
  PROVE  /\ c.queued[s] \in Nat \ {0}
         /\ \E i \in DOMAIN c.queue : c.queue[i].script = s /\ Oldest(c, s) = c.queue[i]
<1> DEFINE Of == {i \in DOMAIN c.queue : c.queue[i].script = s}
<1>1. c.queue \in Seq(Jobs) /\ c.queued[s] \in Nat
  BY RecordTypes
<1>2. Len(c.queue) \in Nat /\ DOMAIN c.queue = 1 .. Len(c.queue)
  BY <1>1, LenProperties
<1>3. c.queued[s] # 0
  <2>1. policy.max_queued_per_script \in Limits
    BY DEF ExecutorTyped, TriggerExecutionPolicy
  <2> QED BY <1>1, <2>1, TriggerExecutorAssumption DEF PermitsNext, Limits
<1>4. Cardinality(Of) # 0
  BY <1>3 DEF Counted, Count
<1>5. Of # {}
  BY <1>4, FS_EmptySet
<1>6. Of \in SUBSET Nat
  BY <1>2
<1> HIDE DEF Of
<1>7. PICK i \in Of : \A j \in Of : i <= j
  BY <1>5, <1>6, LeastNumber
<1> USE DEF Of
<1>8. \E k \in DOMAIN c.queue :
        c.queue[k].script = s /\ \A j \in DOMAIN c.queue : c.queue[j].script = s => k <= j
  BY <1>7
<1> DEFINE at == CHOOSE k \in DOMAIN c.queue :
             c.queue[k].script = s /\ \A j \in DOMAIN c.queue : c.queue[j].script = s => k <= j
<1>9. at \in DOMAIN c.queue /\ c.queue[at].script = s
  BY <1>8
<1>10. Oldest(c, s) = c.queue[at]
  BY DEF Oldest
<1> QED BY <1>1, <1>3, <1>9, <1>10

LEMMA WithoutOldestInBooks ==
  ASSUME ExecutorTyped, NEW c, RecordInBooks(c, nextJobId, delivered),
         NEW s \in Scripts, ~PermitsNext(policy.max_queued_per_script, c.queued[s])
  PROVE  /\ RecordInBooks(WithoutOldest(c, s), nextJobId, delivered)
         /\ WithoutOldest(c, s).total = c.total /\ WithoutOldest(c, s).byScript = c.byScript
<1> DEFINE d == WithoutOldest(c, s)
           old == Oldest(c, s)
<1>1. c \in Records
  BY DEF RecordInBooks
<1>2. PICK at \in DOMAIN c.queue : c.queue[at].script = s /\ old = c.queue[at]
  BY <1>1, OldestIsQueued DEF RecordInBooks
<1>3. c.queued[s] \in Nat \ {0}
  BY <1>1, OldestIsQueued DEF RecordInBooks
<1>20. d = [accepting |-> c.accepting, total |-> c.total, byScript |-> c.byScript,
            queue |-> Without(c.queue, {old.id}),
            queued |-> [c.queued EXCEPT ![s] = Saturating(@, 1)],
            completions |-> Append(c.completions, Completion(old, "superseded")),
            started |-> c.started]
  BY <1>1, WithoutOldestFields
<1> HIDE DEF old, d
<1>4. /\ d.accepting = c.accepting /\ d.total = c.total /\ d.byScript = c.byScript
      /\ d.queue = Without(c.queue, {old.id})
      /\ d.queued = [c.queued EXCEPT ![s] = Saturating(@, 1)]
      /\ d.completions = Append(c.completions, Completion(old, "superseded"))
      /\ d.started = c.started
  BY <1>20
<1>5. /\ c.queue \in Seq(Jobs) /\ c.queued \in [Scripts -> Nat] /\ c.started \in SUBSET Jobs
      /\ c.byScript \in [Scripts -> Nat] /\ c.total \in Nat /\ c.accepting \in BOOLEAN
      /\ c.completions \in Seq(Completions)
  BY <1>1, RecordTypes
<1>6. Len(c.queue) \in Nat /\ DOMAIN c.queue = 1 .. Len(c.queue) /\ old \in Jobs
  BY <1>2, <1>5, LenProperties, ElementOfSeq
<1>7. OldestFirst(c.queue) /\ Distinct(c.queue)
  BY <1>5, OldestFirstIsDistinct DEF RecordInBooks, Ledger
<1>8. /\ d.queue \in Seq(Jobs) /\ OldestFirst(d.queue)
      /\ Ids(d.queue) = Ids(c.queue) \ {old.id}
      /\ \A k \in DOMAIN d.queue : \E i \in Kept(c.queue, {old.id}) : d.queue[k] = c.queue[i]
  <2> DEFINE ids == {old.id}
             q == c.queue
  <2>1. d.queue = Without(q, ids) /\ q \in Seq(Jobs) /\ OldestFirst(q)
    BY <1>4, <1>5, <1>7
  <2> HIDE DEF ids, q
  <2>2. /\ Without(q, ids) \in Seq(Jobs) /\ Ids(Without(q, ids)) = Ids(q) \ ids
        /\ \A k \in DOMAIN Without(q, ids) : \E i \in Kept(q, ids) : Without(q, ids)[k] = q[i]
        /\ OldestFirst(Without(q, ids))
    BY <2>1, WhatIsLeft
  <2> QED BY <2>1, <2>2 DEF ids, q
<1>9. \A k \in DOMAIN d.queue : \E i \in DOMAIN c.queue : d.queue[k] = c.queue[i]
  BY <1>8 DEF Kept
<1>10. old.id \in Ids(c.queue)
  BY <1>2 DEF Ids
<1>11. Completion(old, "superseded") \in Completions /\ Completion(old, "superseded").id = old.id
  BY <1>6 DEF Completion, Completions, Jobs
<1>12. old.id \notin Ids(c.completions) /\ Distinct(c.completions)
  BY <1>10 DEF RecordInBooks, Ledger
<1>13. /\ d.completions \in Seq(Completions) /\ Distinct(d.completions)
       /\ Ids(d.completions) = Ids(c.completions) \cup {old.id}
  <2> DEFINE x == Completion(old, "superseded")
  <2>1. x \in Completions /\ x.id = old.id /\ d.completions = Append(c.completions, x)
    BY <1>4, <1>11
  <2> HIDE DEF x
  <2> QED BY <1>5, <1>12, <2>1, OneMore
<1>14. Saturating(c.queued[s], 1) = c.queued[s] - 1 /\ c.queued[s] - 1 \in Nat
  BY <1>3 DEF Saturating
<1>15. d \in Records
  <2>1. d.queued \in [Scripts -> Nat]
    BY <1>4, <1>5, <1>14
  <2>2. d = [accepting |-> c.accepting, total |-> c.total, byScript |-> c.byScript,
             queue |-> d.queue, queued |-> d.queued, completions |-> d.completions, started |-> c.started]
    BY <1>4, <1>20
  <2> QED BY <1>5, <1>8, <1>13, <2>1, <2>2 DEF Records
<1>16. Counted(d.queue, d.queued)
  <2> SUFFICES ASSUME NEW x \in Scripts PROVE d.queued[x] = Count(d.queue, x)
    BY DEF Counted
  <2>1. c.queued[x] = Count(c.queue, x)
    BY DEF RecordInBooks, Counted
  <2>2. {c.queue[i].id : i \in {at}} = {old.id} /\ {at} \in SUBSET (1 .. Len(c.queue))
    BY <1>2, <1>6
  <2>3. Count(d.queue, x) = Count(c.queue, x) - Cardinality({i \in {at} : c.queue[i].script = x})
    <3>1. /\ Count(c.queue, x) \in Nat
          /\ Count(Without(c.queue, {c.queue[i].id : i \in {at}}), x)
               = Count(c.queue, x) - Cardinality({i \in {at} : c.queue[i].script = x})
      <4> DEFINE P == {at}
                 q == c.queue
      <4>1. P \in SUBSET (1 .. Len(q)) /\ q \in Seq(Jobs) /\ Distinct(q)
        BY <1>5, <1>7, <2>2
      <4> HIDE DEF P, q
      <4>2. /\ Count(q, x) \in Nat
            /\ Count(Without(q, {q[i].id : i \in P}), x)
                 = Count(q, x) - Cardinality({i \in P : q[i].script = x})
        BY <4>1, CountLeft
      <4> QED BY <4>2 DEF P, q
    <3> QED BY <1>4, <2>2, <3>1
  <2>4. CASE x = s
    <3>1. {i \in {at} : c.queue[i].script = x} = {at}
      BY <1>2, <2>4
    <3>2. Cardinality({at}) = 1
      BY FS_Singleton
    <3> QED BY <1>4, <1>5, <1>14, <2>1, <2>3, <2>4, <3>1, <3>2
  <2>5. CASE x # s
    <3>1. {i \in {at} : c.queue[i].script = x} = {}
      BY <1>2, <2>5
    <3>2. Count(c.queue, x) \in Nat
      BY <1>5, <2>1
    <3>3. d.queued[x] = c.queued[x]
      BY <1>4, <1>5, <2>5
    <3>4. Cardinality({i \in {at} : c.queue[i].script = x}) = 0
      BY <3>1, FS_EmptySet
    <3> QED BY <2>1, <2>3, <3>2, <3>3, <3>4
  <2> QED BY <2>4, <2>5
<1>17. Ledger(d.queue, threads \cup d.started, <<>>, d.completions, delivered, nextJobId)
  <2> DEFINE Q == Ids(c.queue)
             T == IdsOf(threads \cup c.started)
             R == Ids(<<>>)
             L == Ids(c.completions)
  <2>1. /\ Q \cup T \cup R \cup L \cup delivered = 1 .. nextJobId - 1
        /\ Q \cap (T \cup R \cup L \cup delivered) = {}
        /\ T \cap (R \cup L \cup delivered) = {}
        /\ R \cap (L \cup delivered) = {} /\ L \cap delivered = {}
        /\ Distinct(<<>>)
        /\ \A x, y \in threads \cup c.started : x.id = y.id => x = y
    BY DEF RecordInBooks, Ledger
  <2>2. old.id \in Q
    BY <1>10
  <2> HIDE DEF Q, T, R, L
  <2> DEFINE given == 1 .. nextJobId - 1
             x == old.id
  <2> HIDE DEF given, x
  <2>4. /\ Q \cup T \cup R \cup L \cup delivered = given /\ x \in Q
        /\ Q \cap (T \cup R \cup L \cup delivered) = {}
        /\ T \cap (R \cup L \cup delivered) = {}
        /\ R \cap (L \cup delivered) = {} /\ L \cap delivered = {}
    BY <2>1, <2>2 DEF given, x
  <2>5. (Q \ {x}) \cup T \cup R \cup (L \cup {x}) \cup delivered = given
    BY <2>4
  <2>6. /\ (Q \ {x}) \cap (T \cup R \cup (L \cup {x}) \cup delivered) = {}
        /\ T \cap (R \cup (L \cup {x}) \cup delivered) = {}
    BY <2>4
  <2>7. R \cap ((L \cup {x}) \cup delivered) = {} /\ (L \cup {x}) \cap delivered = {}
    BY <2>4
  <2>3. /\ (Q \ {old.id}) \cup T \cup R \cup (L \cup {old.id}) \cup delivered = 1 .. nextJobId - 1
        /\ (Q \ {old.id}) \cap (T \cup R \cup (L \cup {old.id}) \cup delivered) = {}
        /\ T \cap (R \cup (L \cup {old.id}) \cup delivered) = {}
        /\ R \cap ((L \cup {old.id}) \cup delivered) = {} /\ (L \cup {old.id}) \cap delivered = {}
    BY <2>5, <2>6, <2>7 DEF given, x
  <2> QED BY <1>4, <1>8, <1>13, <2>1, <2>3 DEF Ledger, Q, T, R, L
<1>18. NothingFits(d)
  <2>1. NothingFits(c)
    BY DEF RecordInBooks
  <2> QED BY <1>4, <1>9, <2>1 DEF NothingFits
<1>19. InOrder(d)
  <2> SUFFICES ASSUME NEW job \in d.started, NEW k \in DOMAIN d.queue, d.queue[k].script = job.script
               PROVE  job.id < d.queue[k].id
    BY DEF InOrder
  <2>1. job \in c.started /\ \A i \in DOMAIN c.queue : c.queue[i].script = job.script => job.id < c.queue[i].id
    BY <1>4 DEF RecordInBooks, InOrder
  <2>2. PICK i \in DOMAIN c.queue : d.queue[k] = c.queue[i]
    BY <1>9
  <2> QED BY <2>1, <2>2
<1>21. RecordInBooks(d, nextJobId, delivered)
  BY <1>15, <1>16, <1>17, <1>18, <1>19 DEF RecordInBooks
<1> QED BY <1>4, <1>21 DEF d

LEMMA TakenInBooks ==
  ASSUME ExecutorTyped, NEW c, RecordInBooks(c, nextJobId, delivered), c.completions # <<>>
  PROVE  /\ RecordInBooks([c EXCEPT !.completions = Tail(@)], nextJobId, delivered \cup {Head(c.completions).id})
         /\ Head(c.completions).id \in (1 .. nextJobId - 1) \ delivered
<1> DEFINE d == [c EXCEPT !.completions = Tail(@)]
           x == Head(c.completions).id
<1>1. c \in Records /\ Distinct(c.completions)
  BY DEF RecordInBooks, Ledger
<1>2. /\ d.total = c.total /\ d.byScript = c.byScript /\ d.queue = c.queue /\ d.queued = c.queued
      /\ d.completions = Tail(c.completions) /\ d.started = c.started
  BY <1>1 DEF Records
<1>3. c.completions \in Seq(Completions)
  BY <1>1, RecordTypes
<1>4. /\ Tail(c.completions) \in Seq(Completions) /\ Distinct(Tail(c.completions))
      /\ x \in Ids(c.completions) /\ Ids(Tail(c.completions)) = Ids(c.completions) \ {x}
  <2> DEFINE a == c.completions
  <2>1. a \in Seq(Completions) /\ a # <<>> /\ Distinct(a)
    BY <1>1, <1>3
  <2> HIDE DEF a
  <2>2. /\ Tail(a) \in Seq(Completions) /\ Distinct(Tail(a))
        /\ Head(a).id \in Ids(a) /\ Ids(Tail(a)) = Ids(a) \ {Head(a).id}
    BY <2>1, OneLess
  <2> QED BY <2>2 DEF a
<1>5. d \in Records
  BY <1>1, <1>4 DEF Records
<1> HIDE DEF d, x
<1>6. Ledger(d.queue, threads \cup d.started, <<>>, d.completions, delivered \cup {x}, nextJobId)
      /\ x \in (1 .. nextJobId - 1) \ delivered
  <2> DEFINE Q == Ids(c.queue)
             T == IdsOf(threads \cup c.started)
             R == Ids(<<>>)
             L == Ids(c.completions)
  <2>1. /\ Q \cup T \cup R \cup L \cup delivered = 1 .. nextJobId - 1
        /\ Q \cap (T \cup R \cup L \cup delivered) = {}
        /\ T \cap (R \cup L \cup delivered) = {}
        /\ R \cap (L \cup delivered) = {} /\ L \cap delivered = {}
        /\ OldestFirst(c.queue) /\ Distinct(<<>>)
        /\ \A y, z \in threads \cup c.started : y.id = z.id => y = z
    BY DEF RecordInBooks, Ledger
  <2>2. x \in L
    BY <1>4
  <2> HIDE DEF Q, T, R, L
  <2>3. /\ Q \cup T \cup R \cup (L \ {x}) \cup (delivered \cup {x}) = 1 .. nextJobId - 1
        /\ Q \cap (T \cup R \cup (L \ {x}) \cup (delivered \cup {x})) = {}
        /\ T \cap (R \cup (L \ {x}) \cup (delivered \cup {x})) = {}
        /\ R \cap ((L \ {x}) \cup (delivered \cup {x})) = {} /\ (L \ {x}) \cap (delivered \cup {x}) = {}
        /\ x \in (1 .. nextJobId - 1) \ delivered
    BY <2>1, <2>2
  <2> QED BY <1>2, <1>4, <2>1, <2>3 DEF Ledger, Q, T, R, L
<1>7. Counted(d.queue, d.queued) /\ NothingFits(d) /\ InOrder(d)
  BY <1>2 DEF RecordInBooks, NothingFits, InOrder
<1>8. RecordInBooks(d, nextJobId, delivered \cup {x})
  BY <1>5, <1>6, <1>7 DEF RecordInBooks
<1> QED BY <1>6, <1>8 DEF d, x

-----------------------------------------------------------------------------
(* The steps of the executor.                                                *)

ExecutorSafe ==
  /\ ExecutorTyped
  /\ stage \in {"open", "joining", "closed"}
  /\ stage = "open" => Books /\ pendingJobs = nextJobId - 1 - Cardinality(delivered)
  /\ stage # "open" => queuedJobs = <<>>
  /\ NothingStartableIsQueued

\* What StartsInOrder says of one step.
StartsInOrderNow ==
  \A job \in threads' \ threads : \A i \in DOMAIN queuedJobs' :
    queuedJobs'[i].script = job.script => job.id < queuedJobs'[i].id

\* A handler of the service thread leaves one record or another, with the
\* numbers that go with it.
Handles(d) ==
  /\ RecordInBooks(d, nextJobId', delivered')
  /\ Becomes(d)
  /\ \/ UNCHANGED <<nextJobId, pendingJobs, delivered>>
     \/ nextJobId' = nextJobId + 1 /\ pendingJobs' = pendingJobs + 1 /\ UNCHANGED delivered
     \/ /\ UNCHANGED nextJobId /\ pendingJobs' = Saturating(pendingJobs, 1)
        /\ \E x \in (1 .. nextJobId - 1) \ delivered : delivered' = delivered \cup {x}

LEMMA HandlesIsSafe ==
  ASSUME ExecutorSafe, stage = "open", NEW d, Handles(d), UNCHANGED <<policy, stage>>
  PROVE  ExecutorSafe' /\ StartsInOrderNow
<1>1. ExecutorTyped /\ Books /\ pendingJobs = nextJobId - 1 - Cardinality(delivered)
  BY DEF ExecutorSafe
<1>2. /\ RecordInBooks(d, nextJobId', delivered') /\ d \in Records
      /\ Becomes(d)
  BY DEF Handles, RecordInBooks
<1>3. /\ d.accepting \in BOOLEAN /\ d.total \in Nat /\ d.byScript \in [Scripts -> Nat]
      /\ d.queue \in Seq(Jobs) /\ d.queued \in [Scripts -> Nat]
      /\ d.completions \in Seq(Completions) /\ d.started \in SUBSET Jobs
  BY <1>2, RecordTypes
<1>4. /\ accepting' = d.accepting /\ activeTotal' = d.total /\ activeByScript' = d.byScript
      /\ queuedJobs' = d.queue /\ queuedByScript' = d.queued /\ localCompletions' = d.completions
      /\ threads' = threads \cup d.started /\ results' = <<>>
  BY <1>2 DEF Becomes
<1>5. nextJobId \in Nat \ {0} /\ pendingJobs \in Nat /\ delivered \subseteq 1 .. nextJobId - 1
  BY <1>1 DEF ExecutorTyped, Books, Ledger
<1>6. IsFiniteSet(delivered) /\ Cardinality(delivered) \in Nat
  BY <1>5, PartOfAnInterval
<1>7. /\ nextJobId' \in Nat \ {0} /\ pendingJobs' \in Nat /\ delivered' \in SUBSET Nat
      /\ pendingJobs' = nextJobId' - 1 - Cardinality(delivered')
  <2>1. CASE UNCHANGED <<nextJobId, pendingJobs, delivered>>
    BY <1>1, <1>5, <2>1
  <2>2. CASE nextJobId' = nextJobId + 1 /\ pendingJobs' = pendingJobs + 1 /\ UNCHANGED delivered
    BY <1>1, <1>5, <1>6, <2>2
  <2>3. ASSUME UNCHANGED nextJobId, pendingJobs' = Saturating(pendingJobs, 1),
               NEW x \in (1 .. nextJobId - 1) \ delivered, delivered' = delivered \cup {x}
        PROVE  /\ nextJobId' \in Nat \ {0} /\ pendingJobs' \in Nat /\ delivered' \in SUBSET Nat
               /\ pendingJobs' = nextJobId' - 1 - Cardinality(delivered')
    <3>1. delivered' \in SUBSET (1 .. nextJobId - 1)
      BY <1>5, <2>3
    <3>2. Cardinality(delivered') <= nextJobId - 1 /\ Cardinality(delivered') \in Nat
      BY <1>5, <3>1, PartOfAnInterval
    <3>3. Cardinality(delivered') = Cardinality(delivered) + 1
      BY <1>6, <2>3, FS_AddElement
    <3>4. pendingJobs # 0
      BY <1>1, <1>5, <1>6, <3>2, <3>3
    <3>5. pendingJobs' = pendingJobs - 1
      BY <1>5, <2>3, <3>4 DEF Saturating
    <3> QED BY <1>1, <1>5, <1>6, <2>3, <3>1, <3>3, <3>4, <3>5
  <2> QED BY <2>1, <2>2, <2>3 DEF Handles
<1>8. ExecutorTyped'
  <2>1. <<>> \in Seq(Completions)
    OBVIOUS
  <2>2. threads' \in SUBSET Jobs
    BY <1>1, <1>3, <1>4 DEF ExecutorTyped
  <2>3. policy' \in TriggerExecutionPolicy
    BY <1>1 DEF ExecutorTyped
  <2> QED BY <1>3, <1>4, <1>7, <2>1, <2>2, <2>3 DEF ExecutorTyped
<1>9. Books'
  <2>1. Ledger(queuedJobs', threads', results', localCompletions', delivered', nextJobId')
    BY <1>2, <1>4 DEF RecordInBooks
  <2>2. Counted(queuedJobs', queuedByScript')
    BY <1>2, <1>4 DEF RecordInBooks
  <2>3. Ledger(queuedJobs, threads, results, localCompletions, delivered, nextJobId)'
    BY <2>1 DEF Ledger, Ids, IdsOf, OldestFirst, Distinct
  <2>4. Counted(queuedJobs, queuedByScript)'
    BY <2>2 DEF Counted, Count
  <2> QED BY <2>3, <2>4 DEF Books
<1>10. NothingStartableIsQueued'
  <2> SUFFICES ASSUME NEW i \in DOMAIN queuedJobs'
               PROVE  ~HasActiveCapacity(activeTotal, activeByScript[queuedJobs[i].script])'
    BY DEF NothingStartableIsQueued
  <2>1. ~HasActiveCapacity(d.total, d.byScript[d.queue[i].script])
    BY <1>2, <1>4 DEF RecordInBooks, NothingFits
  <2> QED BY <1>4, <2>1 DEF HasActiveCapacity
<1>11. StartsInOrderNow
  BY <1>2, <1>4 DEF StartsInOrderNow, RecordInBooks, InOrder
<1>12. stage' = "open"
  OBVIOUS
<1> QED BY <1>7, <1>8, <1>9, <1>10, <1>11, <1>12 DEF ExecutorSafe

LEMMA SubmitHandles ==
  ASSUME ExecutorSafe, stage = "open", NEW s \in Scripts, NEW broken \in Failures,
         SubmitTo(Collected(broken), s), UNCHANGED delivered
  PROVE  \E d : Handles(d)
<1> DEFINE c == Collected(broken)
           job == [id |-> nextJobId, script |-> s]
<1>1. ExecutorTyped /\ Books
  BY DEF ExecutorSafe
<1>2. RecordInBooks(c, nextJobId, delivered)
  BY <1>1, CollectedInBooks
<1> HIDE DEF c
<1>3. CASE Reject(c)
  <2>1. Handles(c)
    BY <1>2, <1>3 DEF Handles, Reject
  <2> QED BY <2>1
<1>4. ASSUME NEW d, Accept(d), RecordInBooks(d, nextJobId + 1, delivered) PROVE Handles(d)
  BY <1>4 DEF Handles, Accept
<1>5. CASE HasActiveCapacity(c.total, c.byScript[s]) /\ Accept(Starts(c, job))
  <2>1. RecordInBooks(Starts(c, job), nextJobId + 1, delivered)
    BY <1>1, <1>2, <1>5, StartedInBooks
  <2> QED BY <1>4, <1>5, <2>1
<1>6. CASE ~HasActiveCapacity(c.total, c.byScript[s]) /\ Accept(Queued(c, job))
  <2>1. RecordInBooks(Queued(c, job), nextJobId + 1, delivered)
    BY <1>1, <1>2, <1>6, QueuedInBooks
  <2> QED BY <1>4, <1>6, <2>1
<1>7. CASE /\ ~HasActiveCapacity(c.total, c.byScript[s])
           /\ ~PermitsNext(policy.max_queued_per_script, c.queued[s])
           /\ Accept(Queued(WithoutOldest(c, s), job))
  <2> DEFINE e == WithoutOldest(c, s)
  <2>1. RecordInBooks(e, nextJobId, delivered) /\ e.total = c.total /\ e.byScript = c.byScript
    BY <1>1, <1>2, <1>7, WithoutOldestInBooks
  <2> HIDE DEF e
  <2>2. ~HasActiveCapacity(e.total, e.byScript[s])
    BY <1>7, <2>1
  <2>3. RecordInBooks(Queued(e, job), nextJobId + 1, delivered)
    BY <1>1, <2>1, <2>2, QueuedInBooks
  <2>4. Accept(Queued(e, job))
    BY <1>7 DEF e
  <2> QED BY <1>4, <2>3, <2>4
<1>8. SubmitTo(c, s)
  BY DEF c
<1> QED BY <1>3, <1>5, <1>6, <1>7, <1>8 DEF SubmitTo

LEMMA TakeFirstHandles ==
  ASSUME ExecutorSafe, stage = "open", NEW broken \in Failures,
         TakeFirst(Collected(broken)), UNCHANGED nextJobId
  PROVE  /\ \E d : Handles(d)
         /\ Head(Collected(broken).completions).id \notin delivered
<1> DEFINE c == Collected(broken)
           x == Head(c.completions).id
           d == [c EXCEPT !.completions = Tail(@)]
<1>1. RecordInBooks(c, nextJobId, delivered)
  BY CollectedInBooks DEF ExecutorSafe
<1> HIDE DEF c
<1>2. /\ c.completions # <<>> /\ Becomes(d)
      /\ delivered' = delivered \cup {x} /\ pendingJobs' = Saturating(pendingJobs, 1)
  BY DEF TakeFirst, c
<1>3. RecordInBooks(d, nextJobId, delivered \cup {x}) /\ x \in (1 .. nextJobId - 1) \ delivered
  BY <1>1, <1>2, TakenInBooks DEF ExecutorSafe
<1> HIDE DEF x, d
<1>4. Handles(d)
  BY <1>2, <1>3 DEF Handles
<1> QED BY <1>3, <1>4 DEF c, x

LEMMA TakeNoneHandles ==
  ASSUME ExecutorSafe, stage = "open", NEW broken \in Failures,
         TakeNone(Collected(broken)), UNCHANGED nextJobId
  PROVE  \E d : Handles(d)
<1>1. RecordInBooks(Collected(broken), nextJobId, delivered)
  BY CollectedInBooks DEF ExecutorSafe
<1>2. Handles(Collected(broken))
  BY <1>1 DEF Handles, TakeNone
<1> QED BY <1>2

LEMMA SubmitIsSafe ==
  ASSUME ExecutorSafe, stage = "open", NEW s \in Scripts,
         \E broken \in Failures : SubmitTo(Collected(broken), s), UNCHANGED <<policy, stage, delivered>>
  PROVE  ExecutorSafe' /\ StartsInOrderNow
<1>1. PICK d : Handles(d)
  BY SubmitHandles
<1> QED BY <1>1, HandlesIsSafe

LEMMA TakeIsSafe ==
  ASSUME ExecutorSafe, stage = "open", NEW broken \in Failures,
         Take(Collected(broken)), UNCHANGED <<policy, stage, nextJobId>>
  PROVE  ExecutorSafe' /\ StartsInOrderNow
<1>1. PICK d : Handles(d)
  BY TakeFirstHandles, TakeNoneHandles DEF Take
<1> QED BY <1>1, HandlesIsSafe

LEMMA WorkerFinishesIsSafe ==
  ASSUME ExecutorSafe, NEW job \in threads, WorkerFinishes(job)
  PROVE  ExecutorSafe' /\ StartsInOrderNow
<1> DEFINE done == Completion(job, "ran")
<1>1. /\ threads' = threads \ {job} /\ results' = Append(results, done)
      /\ UNCHANGED <<policy, stage, activeTotal, activeByScript, queuedByScript, workers, accepting,
                     nextJobId, pendingJobs, queuedJobs, localCompletions, delivered>>
  BY DEF WorkerFinishes, counters
<1>2. ExecutorTyped /\ job \in Jobs /\ results \in Seq(Completions)
  BY DEF ExecutorSafe, ExecutorTyped
<1>3. done \in Completions /\ done.id = job.id
  BY <1>2 DEF Completion, Completions, Jobs
<1> HIDE DEF done
<1>4. /\ results' \in Seq(Completions) /\ Ids(results') = Ids(results) \cup {job.id}
      /\ Distinct(results) /\ job.id \notin Ids(results) => Distinct(results')
  BY <1>1, <1>2, <1>3, OneMore
<1>5. ExecutorTyped'
  BY <1>1, <1>2, <1>4 DEF ExecutorTyped
<1>6. ASSUME Books PROVE Books'
  <2> DEFINE Q == Ids(queuedJobs)
             T == IdsOf(threads)
             R == Ids(results)
             L == Ids(localCompletions)
             x == job.id
  <2>1. /\ Q \cup T \cup R \cup L \cup delivered = 1 .. nextJobId - 1
        /\ Q \cap (T \cup R \cup L \cup delivered) = {}
        /\ T \cap (R \cup L \cup delivered) = {}
        /\ R \cap (L \cup delivered) = {} /\ L \cap delivered = {}
        /\ OldestFirst(queuedJobs) /\ Distinct(results) /\ Distinct(localCompletions)
        /\ \A y, z \in threads : y.id = z.id => y = z
    BY <1>6 DEF Books, Ledger
  <2>2. x \in T
    BY DEF IdsOf
  <2>3. IdsOf(threads') = T \ {x}
    <3>1. \A y \in threads' : y.id \in T /\ y.id # x
      BY <1>1, <2>1 DEF IdsOf
    <3>2. \A y \in threads : y.id # x => y \in threads'
      BY <1>1
    <3> QED BY <3>1, <3>2 DEF IdsOf
  <2> HIDE DEF Q, T, R, L, x
  <2>4. /\ Q \cup (T \ {x}) \cup (R \cup {x}) \cup L \cup delivered = 1 .. nextJobId - 1
        /\ Q \cap ((T \ {x}) \cup (R \cup {x}) \cup L \cup delivered) = {}
        /\ (T \ {x}) \cap ((R \cup {x}) \cup L \cup delivered) = {}
        /\ (R \cup {x}) \cap (L \cup delivered) = {} /\ L \cap delivered = {}
        /\ x \notin R
    BY <2>1, <2>2
  <2>5. \A y, z \in threads' : y.id = z.id => y = z
    BY <1>1, <2>1
  <2>6. Ids(results') = R \cup {x} /\ Distinct(results')
    BY <1>4, <2>1, <2>4 DEF R, x
  <2>7. Ledger(queuedJobs, threads', results', localCompletions, delivered, nextJobId)
    BY <2>1, <2>3, <2>4, <2>5, <2>6 DEF Ledger, Q, L
  <2>8. Ledger(queuedJobs', threads', results', localCompletions', delivered', nextJobId')
    BY <1>1, <2>7
  <2>9. Ledger(queuedJobs, threads, results, localCompletions, delivered, nextJobId)'
    BY <2>8 DEF Ledger, Ids, IdsOf, OldestFirst, Distinct
  <2>10. Counted(queuedJobs, queuedByScript)'
    BY <1>1, <1>6 DEF Books, Counted, Count
  <2> QED BY <2>9, <2>10 DEF Books
<1>7. NothingStartableIsQueued'
  BY <1>1 DEF ExecutorSafe, NothingStartableIsQueued, HasActiveCapacity
<1>8. StartsInOrderNow
  BY <1>1 DEF StartsInOrderNow
<1> QED BY <1>1, <1>5, <1>6, <1>7, <1>8 DEF ExecutorSafe

LEMMA ShutdownIsSafe ==
  ASSUME ExecutorSafe, Shutdown
  PROVE  ExecutorSafe' /\ StartsInOrderNow
<1>1. /\ stage' = "joining" /\ accepting' = FALSE /\ queuedJobs' = <<>>
      /\ queuedByScript' = [s \in Scripts |-> 0]
      /\ UNCHANGED <<policy, activeTotal, activeByScript, nextJobId, pendingJobs, localCompletions,
                     workers, threads, results, delivered>>
  BY DEF Shutdown
<1>2. <<>> \in Seq(Jobs) /\ DOMAIN <<>> = {}
  OBVIOUS
<1>3. ExecutorTyped'
  BY <1>1, <1>2 DEF ExecutorSafe, ExecutorTyped
<1>4. NothingStartableIsQueued' /\ StartsInOrderNow
  BY <1>1, <1>2 DEF NothingStartableIsQueued, StartsInOrderNow
<1> QED BY <1>1, <1>3, <1>4 DEF ExecutorSafe

LEMMA ShutdownReturnsIsSafe ==
  ASSUME ExecutorSafe, ShutdownReturns
  PROVE  ExecutorSafe' /\ StartsInOrderNow
<1>1. /\ stage = "joining" /\ stage' = "closed" /\ activeTotal' = 0
      /\ activeByScript' = [s \in Scripts |-> 0] /\ pendingJobs' = 0
      /\ UNCHANGED <<policy, accepting, nextJobId, queuedJobs, queuedByScript, localCompletions,
                     threads, results, delivered>>
  BY DEF ShutdownReturns
<1>2. queuedJobs' = <<>> /\ DOMAIN <<>> = {}
  BY <1>1 DEF ExecutorSafe
<1>3. ExecutorTyped'
  BY <1>1 DEF ExecutorSafe, ExecutorTyped
<1>4. NothingStartableIsQueued' /\ StartsInOrderNow
  BY <1>1, <1>2 DEF NothingStartableIsQueued, StartsInOrderNow
<1> QED BY <1>1, <1>2, <1>3, <1>4 DEF ExecutorSafe

LEMMA InitIsSafe ==
  ASSUME Init
  PROVE  ExecutorSafe
<1>1. /\ policy \in Policies /\ stage = "open" /\ accepting = TRUE /\ activeTotal = 0
      /\ activeByScript = [s \in Scripts |-> 0] /\ nextJobId = 1 /\ pendingJobs = 0
      /\ queuedJobs = <<>> /\ queuedByScript = [s \in Scripts |-> 0] /\ localCompletions = <<>>
      /\ threads = {} /\ results = <<>> /\ delivered = {}
  BY DEF Init
<1>2. /\ DOMAIN <<>> = {} /\ Ids(<<>>) = {} /\ <<>> \in Seq(Jobs) /\ <<>> \in Seq(Completions)
      /\ IdsOf({}) = {}
  BY DEF Ids, IdsOf
<1>3. Distinct(<<>>) /\ OldestFirst(<<>>)
  BY <1>2 DEF Distinct, OldestFirst
<1>4. \A s : Count(<<>>, s) = 0
  <2>1. \A s : {i \in DOMAIN <<>> : <<>>[i].script = s} = {}
    BY <1>2
  <2> QED BY <2>1, FS_EmptySet DEF Count
<1>5. ExecutorTyped
  BY <1>1, <1>2, TriggerExecutorAssumption DEF ExecutorTyped
<1>6. 1 .. nextJobId - 1 = {}
  BY <1>1
<1>7. Books
  <2>1. Ledger(queuedJobs, threads, results, localCompletions, delivered, nextJobId)
    BY <1>1, <1>2, <1>3, <1>6 DEF Ledger
  <2>2. Counted(queuedJobs, queuedByScript)
    BY <1>1, <1>4 DEF Counted
  <2> QED BY <2>1, <2>2 DEF Books
<1>8. pendingJobs = nextJobId - 1 - Cardinality(delivered)
  BY <1>1, FS_EmptySet
<1>9. NothingStartableIsQueued
  BY <1>1, <1>2 DEF NothingStartableIsQueued
<1> QED BY <1>1, <1>5, <1>7, <1>8, <1>9 DEF ExecutorSafe

LEMMA StutterIsSafe ==
  ASSUME ExecutorSafe, UNCHANGED vars
  PROVE  ExecutorSafe' /\ StartsInOrderNow
<1>1. UNCHANGED <<policy, stage, activeTotal, activeByScript, queuedByScript, workers, accepting, nextJobId,
                  pendingJobs, queuedJobs, localCompletions, threads, results, delivered>>
  BY DEF vars, counters
<1>2. ExecutorTyped'
  BY <1>1 DEF ExecutorSafe, ExecutorTyped
<1>3. Books => Books'
  <2>1. Ledger(queuedJobs, threads, results, localCompletions, delivered, nextJobId)
          => Ledger(queuedJobs, threads, results, localCompletions, delivered, nextJobId)'
    <3>1. Ledger(queuedJobs, threads, results, localCompletions, delivered, nextJobId)
            => Ledger(queuedJobs', threads', results', localCompletions', delivered', nextJobId')
      BY <1>1
    <3> QED BY <3>1 DEF Ledger, Ids, IdsOf, OldestFirst, Distinct
  <2>2. Counted(queuedJobs, queuedByScript) => Counted(queuedJobs, queuedByScript)'
    BY <1>1 DEF Counted, Count
  <2> QED BY <2>1, <2>2 DEF Books
<1>4. NothingStartableIsQueued' /\ StartsInOrderNow
  BY <1>1 DEF ExecutorSafe, NothingStartableIsQueued, HasActiveCapacity, StartsInOrderNow
<1> QED BY <1>1, <1>2, <1>3, <1>4 DEF ExecutorSafe

LEMMA NextIsSafe ==
  ASSUME ExecutorSafe, [Next]_vars
  PROVE  ExecutorSafe' /\ StartsInOrderNow
<1>1. ASSUME NEW s \in Scripts, Submit(s) PROVE ExecutorSafe' /\ StartsInOrderNow
  BY <1>1, SubmitIsSafe DEF Submit
<1>2. ASSUME TryCompletion PROVE ExecutorSafe' /\ StartsInOrderNow
  BY <1>2, TakeIsSafe DEF TryCompletion
<1>3. ASSUME NEW job \in threads, WorkerFinishes(job) PROVE ExecutorSafe' /\ StartsInOrderNow
  BY <1>3, WorkerFinishesIsSafe
<1>4. ASSUME Shutdown PROVE ExecutorSafe' /\ StartsInOrderNow
  BY <1>4, ShutdownIsSafe
<1>5. ASSUME ShutdownReturns PROVE ExecutorSafe' /\ StartsInOrderNow
  BY <1>5, ShutdownReturnsIsSafe
<1>6. CASE UNCHANGED vars
  BY <1>6, StutterIsSafe
<1> QED BY <1>1, <1>2, <1>3, <1>4, <1>5, <1>6 DEF Next

-----------------------------------------------------------------------------
(* What the invariant says of the executor.                                  *)

LEMMA AsManyIds ==
  ASSUME NEW S, NEW a \in Seq(S), Distinct(a)
  PROVE  Cardinality(Ids(a)) = Len(a)
<1> DEFINE n == Len(a)
           f == [i \in 1 .. n |-> a[i].id]
<1>1. n \in Nat /\ DOMAIN a = 1 .. n
  BY LenProperties
<1>2. f \in Bijection(1 .. n, Ids(a))
  <2>1. f \in [1 .. n -> Ids(a)] /\ \A x \in Ids(a) : \E i \in 1 .. n : f[i] = x
    BY <1>1 DEF Ids
  <2>2. \A i, j \in 1 .. n : f[i] = f[j] => i = j
    BY <1>1 DEF Distinct
  <2> HIDE DEF f, n
  <2> QED BY <2>1, <2>2 DEF Bijection, Injection, IsInjective, Surjection
<1> HIDE DEF f, n
<1>3. IsFiniteSet(1 .. n) /\ Cardinality(1 .. n) = n
  BY <1>1, FS_Interval
<1>4. ExistsBijection(1 .. n, Ids(a))
  BY <1>2 DEF ExistsBijection
<1>5. Cardinality(Ids(a)) = n
  BY <1>3, <1>4, FS_Bijection
<1> QED BY <1>5 DEF n

LEMMA SafeIsAccounted ==
  ASSUME ExecutorSafe
  PROVE  EveryJobAccountedFor
<1> SUFFICES ASSUME stage = "open"
             PROVE  LET places == <<Ids(queuedJobs), {job.id : job \in threads}, Ids(results),
                                    Ids(localCompletions), delivered>>
                    IN /\ UNION {places[i] : i \in 1 .. 5} = 1 .. nextJobId - 1
                       /\ \A i, j \in 1 .. 5 : i # j => places[i] \cap places[j] = {}
                       /\ Cardinality(Ids(queuedJobs)) = Len(queuedJobs)
                       /\ Cardinality(Ids(results)) = Len(results)
                       /\ Cardinality(Ids(localCompletions)) = Len(localCompletions)
                       /\ pendingJobs = nextJobId - 1 - Cardinality(delivered)
  BY DEF EveryJobAccountedFor
<1> DEFINE Q == Ids(queuedJobs)
           T == {job.id : job \in threads}
           R == Ids(results)
           L == Ids(localCompletions)
           places == <<Q, T, R, L, delivered>>
<1>1. ExecutorTyped /\ Books /\ pendingJobs = nextJobId - 1 - Cardinality(delivered)
  BY DEF ExecutorSafe
<1>2. /\ Q \cup T \cup R \cup L \cup delivered = 1 .. nextJobId - 1
      /\ Q \cap (T \cup R \cup L \cup delivered) = {}
      /\ T \cap (R \cup L \cup delivered) = {}
      /\ R \cap (L \cup delivered) = {} /\ L \cap delivered = {}
      /\ OldestFirst(queuedJobs) /\ Distinct(results) /\ Distinct(localCompletions)
  BY <1>1 DEF Books, Ledger, IdsOf
<1>3. Cardinality(Q) = Len(queuedJobs)
  BY <1>1, <1>2, OldestFirstIsDistinct, AsManyIds DEF ExecutorTyped
<1>4. Cardinality(R) = Len(results) /\ Cardinality(L) = Len(localCompletions)
  BY <1>1, <1>2, AsManyIds DEF ExecutorTyped
<1> HIDE DEF Q, T, R, L
<1>5. /\ places[1] = Q /\ places[2] = T /\ places[3] = R /\ places[4] = L /\ places[5] = delivered
  OBVIOUS
<1>6. 1 .. 5 = {1, 2, 3, 4, 5}
  OBVIOUS
<1> HIDE DEF places
<1>7. UNION {places[i] : i \in 1 .. 5} = Q \cup T \cup R \cup L \cup delivered
  BY <1>5, <1>6
<1>8. \A i, j \in 1 .. 5 : i # j => places[i] \cap places[j] = {}
  <2>1. /\ \A i \in 2 .. 5 : places[1] \cap places[i] = {}
        /\ \A i \in 3 .. 5 : places[2] \cap places[i] = {}
        /\ \A i \in 4 .. 5 : places[3] \cap places[i] = {}
        /\ places[4] \cap places[5] = {}
    BY <1>2, <1>5
  <2>2. \A i, j \in 1 .. 5 : i < j => places[i] \cap places[j] = {}
    BY <1>6, <2>1
  <2>3. \A i, j \in 1 .. 5 : i # j => i < j \/ j < i
    OBVIOUS
  <2> QED BY <2>2, <2>3
<1> QED BY <1>1, <1>2, <1>3, <1>4, <1>7, <1>8 DEF places, Q, T, R, L

LEMMA SpecIsSafe == Spec => []ExecutorSafe
<1>1. Init => ExecutorSafe
  BY InitIsSafe
<1>2. ExecutorSafe /\ [Next]_vars => ExecutorSafe'
  BY NextIsSafe
<1> QED BY <1>1, <1>2, PTL DEF Spec

(* An accepted event is in one place at a time and is never lost, for any     *)
(* limits, scripts and failures to spawn a thread (try_submit_from,           *)
(* schedule_queued_jobs, fail_all_queued_jobs).                               *)
THEOREM JobsAreAccountedFor == Spec => []EveryJobAccountedFor
<1>1. ExecutorSafe => EveryJobAccountedFor
  BY SafeIsAccounted
<1> QED BY <1>1, SpecIsSafe, PTL

(* A handler never leaves a job in the queue that it could have started       *)
(* (schedule_queued_jobs).                                                    *)
THEOREM WhatCanStartIsStarted == Spec => []NothingStartableIsQueued
<1>1. ExecutorSafe => NothingStartableIsQueued
  BY DEF ExecutorSafe
<1> QED BY <1>1, SpecIsSafe, PTL

(* The events of a script start in the order they were submitted.             *)
THEOREM EventsStartInOrder == Spec => StartsInOrder
<1>1. ExecutorSafe /\ [Next]_vars =>
        [\A job \in threads' \ threads : \A i \in DOMAIN queuedJobs' :
           queuedJobs'[i].script = job.script => job.id < queuedJobs'[i].id]_vars
  BY NextIsSafe DEF StartsInOrderNow
<1> QED BY <1>1, SpecIsSafe, PTL DEF Spec, StartsInOrder

-----------------------------------------------------------------------------
(* The host.                                                                 *)

Answers == {NoResponse, "refused", "fallback", "result", "failed", "unavailable"}

HostTyped ==
  /\ target \in [Requests -> Scripts]
  /\ caller \in [Requests -> {"idle", "reading", "waiting", "answered", "gone"}]
  /\ incoming \in Seq(Requests)
  /\ response \in [Requests -> Answers]
  /\ pending \in [Requests -> Nat]

\* What is in the channel is there once, was sent by a caller that waits or has
\* gone, and is owed nothing yet; neither is who has not sent anything.
ChannelIsInOrder ==
  /\ \A i, j \in DOMAIN incoming : incoming[i] = incoming[j] => i = j
  /\ \A i \in DOMAIN incoming :
       /\ caller[incoming[i]] \in {"waiting", "gone"}
       /\ response[incoming[i]] = NoResponse /\ pending[incoming[i]] = 0
  /\ \A r \in Requests :
       caller[r] \in {"idle", "reading"} => response[r] = NoResponse /\ pending[r] = 0
  /\ overdue \subseteq Owed

PermitsAreKept == IsFiniteSet(Authenticated) /\ Cardinality(Authenticated) <= MaxConnections

HostsOwn == HostTyped /\ ChannelIsInOrder /\ PermitsAreKept
HostSafe == ExecutorSafe /\ HostsOwn

LEMMA FewerPermits ==
  ASSUME PermitsAreKept, Authenticated' \subseteq Authenticated
  PROVE  PermitsAreKept'
<1>1. /\ IsFiniteSet(Authenticated') /\ Cardinality(Authenticated') \in Nat
      /\ Cardinality(Authenticated') <= Cardinality(Authenticated) /\ Cardinality(Authenticated) \in Nat
  BY FS_Subset, FS_CardinalityType DEF PermitsAreKept
<1>2. Cardinality(Authenticated') <= MaxConnections
  BY <1>1, WebhookHostAssumption DEF PermitsAreKept
<1>3. IsFiniteSet(Authenticated)' /\ Cardinality(Authenticated)' <= MaxConnections
  BY <1>1, <1>2
<1> QED BY <1>3 DEF PermitsAreKept

LEMMA EnterKeeps ==
  ASSUME HostsOwn, NEW r \in Requests, Enter(r)
  PROVE  HostsOwn'
<1>1. /\ caller[r] = "idle" /\ Cardinality(Authenticated) < MaxConnections
      /\ caller' = [caller EXCEPT ![r] = "reading"]
      /\ UNCHANGED <<target, incoming, response, pending, overdue>>
  BY DEF Enter, Moves, owed
<1>2. HostTyped'
  BY <1>1 DEF HostsOwn, HostTyped
<1>3. incoming \in Seq(Requests) /\ \A i \in DOMAIN incoming : incoming[i] \in Requests /\ incoming[i] # r
  <2>1. \A i \in DOMAIN incoming : incoming[i] \in Requests
    BY ElementOfSeq, LenProperties DEF HostsOwn, HostTyped
  <2>2. \A i \in DOMAIN incoming : caller[incoming[i]] # caller[r]
    BY <1>1 DEF HostsOwn, ChannelIsInOrder
  <2> QED BY <2>1, <2>2 DEF HostsOwn, HostTyped
<1>4. ChannelIsInOrder'
  <2>1. \A q \in Requests : q # r => caller'[q] = caller[q]
    BY <1>1 DEF HostsOwn, HostTyped
  <2>2. \A i \in DOMAIN incoming : caller'[incoming[i]] \in {"waiting", "gone"}
    BY <1>3, <2>1 DEF HostsOwn, ChannelIsInOrder
  <2>3. \A q \in Requests :
          caller'[q] \in {"idle", "reading"} => response[q] = NoResponse /\ pending[q] = 0
    BY <1>1, <2>1 DEF HostsOwn, ChannelIsInOrder
  <2>4. overdue' \subseteq Owed'
    BY <1>1 DEF HostsOwn, ChannelIsInOrder, Owed
  <2> QED BY <1>1, <2>2, <2>3, <2>4 DEF HostsOwn, ChannelIsInOrder
<1>5. PermitsAreKept'
  <2>1. Authenticated' = Authenticated \cup {r} /\ r \notin Authenticated
    BY <1>1 DEF Authenticated, HostsOwn, HostTyped
  <2>2. IsFiniteSet(Authenticated) /\ Cardinality(Authenticated) \in Nat
    BY FS_CardinalityType DEF HostsOwn, PermitsAreKept
  <2>3. /\ IsFiniteSet(Authenticated \cup {r})
        /\ Cardinality(Authenticated \cup {r}) = Cardinality(Authenticated) + 1
    BY <2>1, <2>2, FS_AddElement
  <2>4. Cardinality(Authenticated') <= MaxConnections
    BY <1>1, <2>1, <2>2, <2>3, WebhookHostAssumption
  <2> QED BY <2>1, <2>3, <2>4 DEF PermitsAreKept
<1> QED BY <1>2, <1>4, <1>5 DEF HostsOwn

\* A connection that moves on without sending anything.
LEMMA MoveKeeps ==
  ASSUME HostsOwn, NEW r \in Requests, NEW place \in {"answered", "gone"},
         caller[r] \in {"reading", "waiting"}, caller' = [caller EXCEPT ![r] = place],
         place = "gone" \/ response[r] # NoResponse \/ caller[r] = "reading",
         UNCHANGED <<target, incoming, response, pending, overdue>>
  PROVE  HostsOwn'
<1>1. HostTyped'
  BY DEF HostsOwn, HostTyped
<1>2. \A q \in Requests : caller'[q] = IF q = r THEN place ELSE caller[q]
  BY DEF HostsOwn, HostTyped
<1>3. \A i \in DOMAIN incoming : incoming[i] \in Requests
  BY ElementOfSeq, LenProperties DEF HostsOwn, HostTyped
<1>4. \A i \in DOMAIN incoming : caller'[incoming[i]] \in {"waiting", "gone"}
  <2> SUFFICES ASSUME NEW i \in DOMAIN incoming PROVE caller'[incoming[i]] \in {"waiting", "gone"}
    OBVIOUS
  <2>1. caller[incoming[i]] \in {"waiting", "gone"} /\ response[incoming[i]] = NoResponse
    BY DEF HostsOwn, ChannelIsInOrder
  <2>2. incoming[i] = r => place = "gone"
    BY <2>1
  <2> QED BY <1>2, <1>3, <2>1, <2>2
<1>5. \A q \in Requests :
        caller'[q] \in {"idle", "reading"} => response[q] = NoResponse /\ pending[q] = 0
  BY <1>2 DEF HostsOwn, ChannelIsInOrder
<1>6. ChannelIsInOrder'
  BY <1>4, <1>5 DEF HostsOwn, ChannelIsInOrder, Owed
<1>7. Authenticated' \subseteq Authenticated
  BY <1>2 DEF Authenticated
<1> QED BY <1>1, <1>6, <1>7, FewerPermits DEF HostsOwn

LEMMA SendKeeps ==
  ASSUME HostsOwn, NEW r \in Requests, Send(r)
  PROVE  HostsOwn'
<1>1. caller[r] = "reading" /\ UNCHANGED <<response, pending, overdue>>
  BY DEF Send, owed
<1>2. CASE Moves(r, "answered") /\ UNCHANGED incoming
  BY <1>1, <1>2, MoveKeeps DEF Moves
<1>3. CASE Moves(r, "waiting") /\ incoming' = Append(incoming, r)
  <2> DEFINE n == Len(incoming)
  <2>1. caller' = [caller EXCEPT ![r] = "waiting"] /\ UNCHANGED target
    BY <1>3 DEF Moves
  <2>2. \A q \in Requests : caller'[q] = IF q = r THEN "waiting" ELSE caller[q]
    BY <2>1 DEF HostsOwn, HostTyped
  <2>3. /\ n \in Nat /\ DOMAIN incoming = 1 .. n /\ DOMAIN incoming' = 1 .. n + 1
        /\ incoming' \in Seq(Requests)
        /\ \A i \in 1 .. n : incoming'[i] = incoming[i]
        /\ incoming'[n + 1] = r
    BY <1>3, AppendProperties DEF HostsOwn, HostTyped
  <2>4. HostTyped'
    BY <1>1, <2>1, <2>3 DEF HostsOwn, HostTyped
  <2> HIDE DEF n
  <2>5. \A i \in 1 .. n : incoming[i] \in Requests /\ incoming[i] # r
    <3>1. \A i \in 1 .. n : incoming[i] \in Requests
      BY <2>3, ElementOfSeq DEF HostsOwn, HostTyped, n
    <3>2. \A i \in 1 .. n : caller[incoming[i]] # caller[r]
      BY <1>1, <2>3 DEF HostsOwn, ChannelIsInOrder
    <3> QED BY <3>1, <3>2
  <2>6. \A i \in 1 .. n + 1 : i \in 1 .. n \/ i = n + 1
    BY <2>3
  <2>7. \A i, j \in 1 .. n + 1 : incoming'[i] = incoming'[j] => i = j
    <3> SUFFICES ASSUME NEW i \in 1 .. n + 1, NEW j \in 1 .. n + 1, incoming'[i] = incoming'[j] PROVE i = j
      OBVIOUS
    <3>1. CASE i \in 1 .. n /\ j \in 1 .. n
      BY <2>3, <3>1 DEF HostsOwn, ChannelIsInOrder
    <3>2. CASE i = n + 1 \/ j = n + 1
      BY <2>3, <2>5, <2>6, <3>2
    <3> QED BY <2>6, <3>1, <3>2
  <2>8. \A i \in 1 .. n + 1 :
          /\ caller'[incoming'[i]] \in {"waiting", "gone"}
          /\ response[incoming'[i]] = NoResponse /\ pending[incoming'[i]] = 0
    <3>1. \A i \in 1 .. n :
            /\ caller[incoming[i]] \in {"waiting", "gone"}
            /\ response[incoming[i]] = NoResponse /\ pending[incoming[i]] = 0
      BY <2>3 DEF HostsOwn, ChannelIsInOrder
    <3>2. response[r] = NoResponse /\ pending[r] = 0
      BY <1>1 DEF HostsOwn, ChannelIsInOrder
    <3> QED BY <2>2, <2>3, <2>5, <2>6, <3>1, <3>2
  <2>9. \A q \in Requests :
          caller'[q] \in {"idle", "reading"} => response[q] = NoResponse /\ pending[q] = 0
    BY <2>2 DEF HostsOwn, ChannelIsInOrder
  <2>10. overdue' \subseteq Owed'
    BY <1>1 DEF HostsOwn, ChannelIsInOrder, Owed
  <2>11. ChannelIsInOrder'
    BY <1>1, <2>3, <2>7, <2>8, <2>9, <2>10 DEF ChannelIsInOrder
  <2>12. Authenticated' \subseteq Authenticated
    BY <1>1, <2>2 DEF Authenticated
  <2> QED BY <2>4, <2>11, <2>12, FewerPermits DEF HostsOwn
<1> QED BY <1>2, <1>3 DEF Send

LEMMA TaskKeeps ==
  ASSUME HostsOwn, NEW r \in Requests, Task(r)
  PROVE  HostsOwn'
<1>1. CASE Respond(r)
  BY <1>1, MoveKeeps DEF Respond, Moves, owed
<1>2. CASE HangUp(r)
  BY <1>2, MoveKeeps DEF HangUp, Moves, owed
<1> QED BY <1>1, <1>2, EnterKeeps, SendKeeps DEF Task

LEMMA AnsweredKeeps ==
  ASSUME HostsOwn, NEW rs \in SUBSET Owed, NEW answer \in Answers, Answered(rs, answer),
         UNCHANGED <<connections, incoming>>
  PROVE  HostsOwn'
<1>1. /\ response' = [r \in Requests |-> IF r \in rs THEN answer ELSE response[r]]
      /\ pending' = [r \in Requests |-> IF r \in rs THEN 0 ELSE pending[r]]
      /\ overdue' = overdue \ rs
      /\ UNCHANGED <<target, caller, incoming>>
  BY DEF Answered, connections
<1>2. HostTyped'
  <2>1. response' \in [Requests -> Answers]
    BY <1>1 DEF HostsOwn, HostTyped
  <2>2. pending' \in [Requests -> Nat]
    BY <1>1 DEF HostsOwn, HostTyped
  <2> QED BY <1>1, <2>1, <2>2 DEF HostsOwn, HostTyped
<1>3. \A r \in Requests : pending[r] = 0 => response'[r] = response[r] /\ pending'[r] = 0
  BY <1>1 DEF Owed
<1>4. \A i \in DOMAIN incoming : incoming[i] \in Requests
  BY ElementOfSeq, LenProperties DEF HostsOwn, HostTyped
<1>5. \A i \in DOMAIN incoming : response'[incoming[i]] = NoResponse /\ pending'[incoming[i]] = 0
  BY <1>3, <1>4 DEF HostsOwn, ChannelIsInOrder
<1>6. \A r \in Requests :
        caller[r] \in {"idle", "reading"} => response'[r] = NoResponse /\ pending'[r] = 0
  BY <1>3 DEF HostsOwn, ChannelIsInOrder
<1>7. overdue' \subseteq Owed'
  BY <1>1 DEF HostsOwn, ChannelIsInOrder, Owed
<1>8. ChannelIsInOrder'
  BY <1>1, <1>5, <1>6, <1>7 DEF HostsOwn, ChannelIsInOrder
<1>9. Authenticated' \subseteq Authenticated
  BY <1>1 DEF Authenticated
<1> QED BY <1>2, <1>8, <1>9, FewerPermits DEF HostsOwn

LEMMA CutKeeps ==
  ASSUME HostsOwn, CutConnections, UNCHANGED <<response, owed>>
  PROVE  HostsOwn'
<1>1. /\ caller' = [r \in Requests |-> IF r \in Authenticated THEN "gone" ELSE caller[r]]
      /\ incoming' = <<>> /\ UNCHANGED <<target, response, pending, overdue>>
  BY DEF CutConnections, owed
<1>2. <<>> \in Seq(Requests) /\ DOMAIN <<>> = {}
  OBVIOUS
<1>3. HostTyped'
  <2>1. caller' \in [Requests -> {"idle", "reading", "waiting", "answered", "gone"}]
    BY <1>1 DEF HostsOwn, HostTyped
  <2> QED BY <1>1, <1>2, <2>1 DEF HostsOwn, HostTyped
<1>4. ChannelIsInOrder'
  BY <1>1, <1>2 DEF HostsOwn, ChannelIsInOrder, Owed
<1>5. Authenticated' \subseteq Authenticated
  BY <1>1 DEF Authenticated
<1> QED BY <1>3, <1>4, <1>5, FewerPermits DEF HostsOwn

LEMMA HeadIsAlone ==
  ASSUME HostsOwn, incoming # <<>>
  PROVE  /\ Head(incoming) \in Requests /\ Tail(incoming) \in Seq(Requests)
         /\ caller[Head(incoming)] \in {"waiting", "gone"}
         /\ \A i \in DOMAIN Tail(incoming) :
              i + 1 \in DOMAIN incoming /\ Tail(incoming)[i] = incoming[i + 1]
         /\ \A i \in DOMAIN Tail(incoming) : Tail(incoming)[i] \in Requests \ {Head(incoming)}
<1> DEFINE n == Len(incoming)
           rest == Tail(incoming)
<1>1. incoming \in Seq(Requests)
  BY DEF HostsOwn, HostTyped
<1>2. /\ n \in Nat /\ n > 0 /\ DOMAIN incoming = 1 .. n /\ Head(incoming) = incoming[1]
      /\ rest \in Seq(Requests) /\ DOMAIN rest = 1 .. n - 1 /\ \A i \in 1 .. n - 1 : rest[i] = incoming[i + 1]
  BY <1>1, HeadTailProperties, EmptySeq, LenProperties
<1>3. \A i \in 1 .. n : incoming[i] \in Requests
  BY <1>1, <1>2, ElementOfSeq
<1> HIDE DEF n, rest
<1>4. \A i \in DOMAIN rest : i + 1 \in DOMAIN incoming /\ rest[i] = incoming[i + 1]
  BY <1>2
<1>5. caller[incoming[1]] \in {"waiting", "gone"}
  BY <1>2 DEF HostsOwn, ChannelIsInOrder
<1>6. \A i \in DOMAIN rest : rest[i] # incoming[1]
  <2> SUFFICES ASSUME NEW i \in DOMAIN rest, rest[i] = incoming[1] PROVE FALSE
    OBVIOUS
  <2>1. i + 1 \in DOMAIN incoming /\ 1 \in DOMAIN incoming /\ incoming[i + 1] = incoming[1]
    BY <1>2, <1>4
  <2>2. i + 1 = 1
    BY <2>1 DEF HostsOwn, ChannelIsInOrder
  <2> QED BY <1>2, <2>2
<1>7. \A i \in DOMAIN rest : rest[i] \in Requests
  BY <1>2, <1>3, <1>4
<1> QED BY <1>2, <1>3, <1>4, <1>5, <1>6, <1>7 DEF rest

LEMMA AcceptRequestKeeps ==
  ASSUME HostsOwn, ExecutorSafe, AcceptRequest
  PROVE  HostsOwn'
<1> DEFINE r == Head(incoming)
<1>1. incoming # <<>> /\ incoming' = Tail(incoming) /\ UNCHANGED <<target, caller, overdue>>
  BY DEF AcceptRequest, connections
<1>2. /\ r \in Requests /\ incoming' \in Seq(Requests) /\ caller[r] \in {"waiting", "gone"}
      /\ \A i \in DOMAIN incoming' : i + 1 \in DOMAIN incoming /\ incoming'[i] = incoming[i + 1]
      /\ \A i \in DOMAIN incoming' : incoming'[i] \in Requests \ {r}
  BY <1>1, HeadIsAlone
<1>3. \/ (\E answer \in Answers : Sends(r, answer)) /\ UNCHANGED pending
      \/ pending' = [pending EXCEPT ![r] = nextJobId] /\ UNCHANGED response
  BY DEF AcceptRequest, Answers
<1> HIDE DEF r
<1>4. /\ response' \in [Requests -> Answers] /\ pending' \in [Requests -> Nat]
      /\ \A q \in Requests \ {r} : response'[q] = response[q] /\ pending'[q] = pending[q]
      /\ \A q \in Requests : pending[q] # 0 => pending'[q] # 0
  <2>1. response \in [Requests -> Answers] /\ pending \in [Requests -> Nat] /\ nextJobId \in Nat \ {0}
    BY DEF HostsOwn, HostTyped, ExecutorSafe, ExecutorTyped
  <2>2. ASSUME NEW answer \in Answers, Sends(r, answer), UNCHANGED pending
        PROVE  /\ response' \in [Requests -> Answers]
               /\ \A q \in Requests \ {r} : response'[q] = response[q]
    BY <1>2, <2>1, <2>2 DEF Sends
  <2>3. CASE (\E answer \in Answers : Sends(r, answer)) /\ UNCHANGED pending
    BY <1>2, <2>1, <2>2, <2>3
  <2>4. CASE pending' = [pending EXCEPT ![r] = nextJobId] /\ UNCHANGED response
    <3>1. pending' \in [Requests -> Nat]
      BY <1>2, <2>1, <2>4
    <3>2. \A q \in Requests : pending'[q] = IF q = r THEN nextJobId ELSE pending[q]
      BY <1>2, <2>1, <2>4
    <3>3. nextJobId # 0
      BY <2>1
    <3> QED BY <2>1, <2>4, <3>1, <3>2, <3>3
  <2> QED BY <1>3, <2>3, <2>4
<1>5. HostTyped'
  BY <1>1, <1>2, <1>4 DEF HostsOwn, HostTyped
<1>6. ChannelIsInOrder'
  <2>1. \A i \in DOMAIN incoming' :
          /\ caller[incoming'[i]] \in {"waiting", "gone"}
          /\ response'[incoming'[i]] = NoResponse /\ pending'[incoming'[i]] = 0
    BY <1>2, <1>4 DEF HostsOwn, ChannelIsInOrder
  <2>2. ASSUME NEW i \in DOMAIN incoming', NEW j \in DOMAIN incoming', incoming'[i] = incoming'[j] PROVE i = j
    <3>1. i \in Int /\ j \in Int
      BY <1>2, LenProperties
    <3>2. i + 1 = j + 1
      BY <1>2, <2>2 DEF HostsOwn, ChannelIsInOrder
    <3> QED BY <3>1, <3>2
  <2>3. \A q \in Requests :
          caller[q] \in {"idle", "reading"} => response'[q] = NoResponse /\ pending'[q] = 0
    BY <1>2, <1>4 DEF HostsOwn, ChannelIsInOrder
  <2>4. overdue \subseteq Owed'
    BY <1>4 DEF HostsOwn, ChannelIsInOrder, Owed
  <2> QED BY <1>1, <2>1, <2>2, <2>3, <2>4 DEF ChannelIsInOrder
<1>7. Authenticated' \subseteq Authenticated
  BY <1>1 DEF Authenticated
<1> QED BY <1>5, <1>6, <1>7, FewerPermits DEF HostsOwn

LEMMA NothingOfTheHosts ==
  ASSUME HostsOwn, UNCHANGED <<connections, incoming, response, owed>>
  PROVE  HostsOwn'
<1>1. UNCHANGED <<target, caller, incoming, response, pending, overdue>>
  BY DEF connections, owed
<1> QED BY <1>1 DEF HostsOwn, HostTyped, ChannelIsInOrder, PermitsAreKept, Owed, Authenticated

LEMMA DeadlineKeeps ==
  ASSUME HostsOwn, NEW r \in Requests, DeadlinePasses(r)
  PROVE  HostsOwn'
<1>1. /\ pending[r] # 0 /\ overdue' = overdue \cup {r}
      /\ UNCHANGED <<target, caller, incoming, response, pending>>
  BY DEF DeadlinePasses, connections
<1>2. ChannelIsInOrder'
  BY <1>1 DEF HostsOwn, ChannelIsInOrder, Owed
<1> QED BY <1>1, <1>2 DEF HostsOwn, HostTyped, PermitsAreKept, Authenticated

LEMMA InitHostIsSafe ==
  ASSUME InitHost
  PROVE  HostSafe
<1>1. ExecutorSafe
  BY InitIsSafe DEF InitHost
<1>2. /\ target \in Targets /\ caller = [r \in Requests |-> "idle"] /\ incoming = <<>>
      /\ response = [r \in Requests |-> NoResponse] /\ pending = [r \in Requests |-> 0] /\ overdue = {}
  BY DEF InitHost
<1>3. <<>> \in Seq(Requests) /\ DOMAIN <<>> = {}
  OBVIOUS
<1>4. HostTyped
  BY <1>2, <1>3, WebhookHostAssumption DEF HostTyped, Answers
<1>5. ChannelIsInOrder
  BY <1>2, <1>3 DEF ChannelIsInOrder
<1>6. PermitsAreKept
  <2>1. Authenticated = {}
    BY <1>2 DEF Authenticated
  <2> QED BY <2>1, FS_EmptySet, WebhookHostAssumption DEF PermitsAreKept
<1> QED BY <1>1, <1>4, <1>5, <1>6 DEF HostSafe, HostsOwn

LEMMA ExecutorIsIdle ==
  ASSUME ExecutorSafe, UNCHANGED executorVars
  PROVE  ExecutorSafe' /\ StartsInOrderNow
<1>1. UNCHANGED vars
  BY DEF executorVars, vars
<1> QED BY <1>1, StutterIsSafe

LEMMA NextHostIsSafe ==
  ASSUME HostSafe, [NextHost]_hostVars
  PROVE  HostSafe' /\ StartsInOrderNow
<1>1. ExecutorSafe /\ HostsOwn
  BY DEF HostSafe
<1>2. ASSUME NEW r \in Requests, Task(r) PROVE HostSafe' /\ StartsInOrderNow
  <2>1. UNCHANGED executorVars
    BY <1>2 DEF Task, Enter, Send, Respond, HangUp
  <2> QED BY <1>1, <1>2, <2>1, ExecutorIsIdle, TaskKeeps DEF HostSafe
<1>3. ASSUME NEW r \in Requests, DeadlinePasses(r) PROVE HostSafe' /\ StartsInOrderNow
  <2>1. UNCHANGED executorVars
    BY <1>3 DEF DeadlinePasses
  <2> QED BY <1>1, <1>3, <2>1, ExecutorIsIdle, DeadlineKeeps DEF HostSafe
<1>4. CASE KeepGoing \/ NothingToAccept
  <2>1. UNCHANGED <<executorVars, connections, incoming, response, owed>>
    BY <1>4 DEF KeepGoing, NothingToAccept
  <2> QED BY <1>1, <2>1, ExecutorIsIdle, NothingOfTheHosts DEF HostSafe
<1>5. CASE RecordCompletion
  <2>1. PICK broken \in Failures :
          /\ TakeFirst(Collected(broken))
          /\ Answered(OwedFor(Head(Collected(broken).completions).id),
                      IF Head(Collected(broken).completions).outcome = "ran" THEN "result" ELSE "failed")
    BY <1>5 DEF RecordCompletion
  <2>2. stage = "open" /\ UNCHANGED <<policy, stage, nextJobId, connections, incoming>>
    BY <1>5 DEF RecordCompletion
  <2>3. ExecutorSafe' /\ StartsInOrderNow
    BY <1>1, <2>1, <2>2, TakeIsSafe DEF Take
  <2> DEFINE head == Head(Collected(broken).completions)
  <2>4. Answered(OwedFor(head.id), IF head.outcome = "ran" THEN "result" ELSE "failed")
    BY <2>1
  <2> HIDE DEF head
  <2>5. OwedFor(head.id) \in SUBSET Owed /\ (IF head.outcome = "ran" THEN "result" ELSE "failed") \in Answers
    BY DEF OwedFor, Answers
  <2>6. HostsOwn'
    BY <1>1, <2>2, <2>4, <2>5, AnsweredKeeps
  <2> QED BY <2>3, <2>6 DEF HostSafe
<1>6. CASE ExpirePending
  <2>1. PICK broken \in Failures : TakeNone(Collected(broken))
    BY <1>6 DEF ExpirePending
  <2>2. stage = "open" /\ UNCHANGED <<policy, stage, nextJobId, connections, incoming>>
        /\ Answered(overdue, "fallback")
    BY <1>6 DEF ExpirePending, Expired
  <2>3. ExecutorSafe' /\ StartsInOrderNow
    BY <1>1, <2>1, <2>2, TakeIsSafe DEF Take
  <2>4. HostsOwn'
    BY <1>1, <2>2, AnsweredKeeps DEF HostsOwn, ChannelIsInOrder, Answers
  <2> QED BY <2>3, <2>4 DEF HostSafe
<1>7. CASE AcceptRequest
  <2>1. /\ stage = "open" /\ incoming # <<>> /\ UNCHANGED <<policy, stage, delivered>>
        /\ \E broken \in Failures : SubmitTo(Collected(broken), target[Head(incoming)])
    BY <1>7 DEF AcceptRequest
  <2>2. target[Head(incoming)] \in Scripts
    BY <1>1, <2>1, HeadIsAlone DEF HostsOwn, HostTyped
  <2>3. ExecutorSafe' /\ StartsInOrderNow
    BY <1>1, <2>1, <2>2, SubmitIsSafe
  <2> QED BY <1>1, <1>7, <2>3, AcceptRequestKeeps DEF HostSafe
<1>8. CASE RestartListener
  <2>1. UNCHANGED executorVars /\ CutConnections /\ UNCHANGED <<response, owed>>
    BY <1>8 DEF RestartListener
  <2> QED BY <1>1, <2>1, ExecutorIsIdle, CutKeeps DEF HostSafe
<1>9. CASE DropHost
  <2>1. Shutdown /\ Answered(Owed, "unavailable") /\ UNCHANGED <<connections, incoming>>
    BY <1>9 DEF DropHost
  <2>2. HostsOwn'
    BY <1>1, <2>1, AnsweredKeeps DEF Answers
  <2> QED BY <1>1, <2>1, <2>2, ShutdownIsSafe DEF HostSafe
<1>10. CASE ExecutorStopped
  <2>1. ShutdownReturns /\ CutConnections /\ UNCHANGED <<response, owed>>
    BY <1>10 DEF ExecutorStopped
  <2> QED BY <1>1, <2>1, ShutdownReturnsIsSafe, CutKeeps DEF HostSafe
<1>11. ASSUME NEW job \in threads, Finish(job) PROVE HostSafe' /\ StartsInOrderNow
  <2>1. WorkerFinishes(job) /\ UNCHANGED <<connections, incoming, response, owed>>
    BY <1>11 DEF Finish
  <2> QED BY <1>1, <2>1, WorkerFinishesIsSafe, NothingOfTheHosts DEF HostSafe
<1>12. CASE UNCHANGED hostVars
  <2>1. UNCHANGED <<executorVars, connections, incoming, response, owed>>
    BY <1>12 DEF hostVars
  <2> QED BY <1>1, <2>1, ExecutorIsIdle, NothingOfTheHosts DEF HostSafe
<1> QED BY <1>2, <1>3, <1>4, <1>5, <1>6, <1>7, <1>8, <1>9, <1>10, <1>11, <1>12 DEF NextHost, Round

LEMMA FairSpecHostIsSafe == FairSpecHost => []HostSafe
<1>1. InitHost => HostSafe
  BY InitHostIsSafe
<1>2. HostSafe /\ [NextHost]_hostVars => HostSafe'
  BY NextHostIsSafe
<1> QED BY <1>1, <1>2, PTL DEF FairSpecHost

(* The executor keeps its promises inside the host, where the events are the  *)
(* requests that callers sent: no accepted request is lost                    *)
(* (src/service/webhooks.rs, accept_request and poll).                        *)
THEOREM RequestsAreAccountedFor == FairSpecHost => []EveryJobAccountedFor
<1>1. HostSafe => EveryJobAccountedFor
  BY SafeIsAccounted DEF HostSafe
<1> QED BY <1>1, FairSpecHostIsSafe, PTL

(* And the host never sleeps on a queued request that there is room for.      *)
THEOREM RequestsThatCanStartAreStarted == FairSpecHost => []NothingStartableIsQueued
<1>1. HostSafe => NothingStartableIsQueued
  BY DEF HostSafe, ExecutorSafe
<1> QED BY <1>1, FairSpecHostIsSafe, PTL

(* And the requests for a script start its runs in the order they came out of *)
(* the channel.                                                               *)
THEOREM RequestsStartInOrder == FairSpecHost => StartsInOrder
<1>1. HostSafe /\ [NextHost]_hostVars =>
        [\A job \in threads' \ threads : \A i \in DOMAIN queuedJobs' :
           queuedJobs'[i].script = job.script => job.id < queuedJobs'[i].id]_vars
  BY NextHostIsSafe DEF StartsInOrderNow
<1> QED BY <1>1, FairSpecHostIsSafe, PTL DEF FairSpecHost, StartsInOrder

\* What ResultsAreTheirOwn says of one step.
ResultIsOwn ==
  \A r \in Requests : response[r] = NoResponse /\ response'[r] \in {"result", "failed"} =>
    delivered' = delivered \cup {pending[r]} /\ pending[r] \notin delivered

LEMMA OnlyRecordingGivesResults ==
  ASSUME HostSafe, [NextHost]_hostVars
  PROVE  ResultIsOwn
<1>1. ExecutorSafe /\ HostsOwn /\ response \in [Requests -> Answers]
  BY DEF HostSafe, HostsOwn, HostTyped
<1>2. ASSUME UNCHANGED response PROVE ResultIsOwn
  BY <1>2 DEF ResultIsOwn, NoResponse
<1>3. ASSUME NEW rs, NEW answer \in {"fallback", "unavailable"}, Answered(rs, answer) PROVE ResultIsOwn
  BY <1>3 DEF ResultIsOwn, Answered, NoResponse
<1>4. CASE RecordCompletion
  <2>1. PICK broken \in Failures :
          /\ TakeFirst(Collected(broken))
          /\ Answered(OwedFor(Head(Collected(broken).completions).id),
                      IF Head(Collected(broken).completions).outcome = "ran" THEN "result" ELSE "failed")
    BY <1>4 DEF RecordCompletion
  <2>2. stage = "open" /\ UNCHANGED nextJobId
    BY <1>4 DEF RecordCompletion
  <2> DEFINE id == Head(Collected(broken).completions).id
  <2>3. id \notin delivered
    BY <1>1, <2>1, <2>2, TakeFirstHandles
  <2>4. delivered' = delivered \cup {id}
    BY <2>1 DEF TakeFirst
  <2>5. \A r \in Requests : response'[r] # response[r] => r \in OwedFor(id)
    BY <2>1 DEF Answered
  <2> HIDE DEF id
  <2>6. \A r \in Requests : response'[r] # response[r] => pending[r] = id
    BY <2>5 DEF OwedFor
  <2> QED BY <2>3, <2>4, <2>6 DEF ResultIsOwn, NoResponse
<1>5. CASE AcceptRequest
  <2>1. \/ UNCHANGED response
        \/ \E answer \in {"refused", "fallback"} : Sends(Head(incoming), answer)
    BY <1>5 DEF AcceptRequest
  <2>2. ASSUME NEW answer \in {"refused", "fallback"}, Sends(Head(incoming), answer) PROVE ResultIsOwn
    BY <1>1, <2>2 DEF ResultIsOwn, Sends, NoResponse
  <2> QED BY <1>2, <2>1, <2>2
<1>6. CASE ExpirePending \/ DropHost
  BY <1>3, <1>6 DEF ExpirePending, DropHost
<1>7. CASE \E r \in Requests : Task(r) \/ DeadlinePasses(r)
  BY <1>2, <1>7 DEF Task, Enter, Send, Respond, HangUp, DeadlinePasses
<1>8. CASE KeepGoing \/ NothingToAccept \/ RestartListener \/ ExecutorStopped \/ \E job \in threads : Finish(job)
  BY <1>2, <1>8 DEF KeepGoing, NothingToAccept, RestartListener, ExecutorStopped, Finish
<1>9. CASE UNCHANGED hostVars
  BY <1>2, <1>9 DEF hostVars
<1> QED BY <1>4, <1>5, <1>6, <1>7, <1>8, <1>9 DEF NextHost, Round

(* A caller gets the result of its own run, once, when that run's completion  *)
(* is taken (record_completion).                                              *)
THEOREM ResultsReachTheirCallers == FairSpecHost => ResultsAreTheirOwn
<1>1. HostSafe /\ [NextHost]_hostVars =>
        [\A r \in Requests : response[r] = NoResponse /\ response'[r] \in {"result", "failed"} =>
           delivered' = delivered \cup {pending[r]} /\ pending[r] \notin delivered]_hostVars
  BY OnlyRecordingGivesResults DEF ResultIsOwn
<1> QED BY <1>1, FairSpecHostIsSafe, PTL DEF FairSpecHost, ResultsAreTheirOwn

\* Distinct requests in the channel, all with a permit, and one more permit.
LEMMA SafeChannel ==
  ASSUME HostSafe
  PROVE  OnlyTheGoneFillTheChannel
<1> SUFFICES ASSUME NEW r \in Requests, caller[r] = "reading", ~ChannelHasRoom,
                    \A i \in DOMAIN incoming : caller[incoming[i]] # "gone"
             PROVE  FALSE
  BY DEF OnlyTheGoneFillTheChannel
<1> DEFINE n == Len(incoming)
           f == [i \in 1 .. n |-> incoming[i]]
           W == {incoming[i] : i \in 1 .. n}
<1>1. n \in Nat /\ DOMAIN incoming = 1 .. n /\ \A i \in 1 .. n : incoming[i] \in Requests
  BY LenProperties, ElementOfSeq DEF HostSafe, HostsOwn, HostTyped
<1>2. MaxConnections \in Nat /\ MaxConnections <= n
  BY <1>1, WebhookHostAssumption DEF ChannelHasRoom
<1>3. /\ \A i \in 1 .. n : caller[incoming[i]] = "waiting"
      /\ \A i, j \in 1 .. n : incoming[i] = incoming[j] => i = j
  BY <1>1 DEF HostSafe, HostsOwn, ChannelIsInOrder
<1>4. W \cup {r} \subseteq Authenticated /\ r \notin W
  BY <1>1, <1>3 DEF Authenticated
<1>5. f \in Bijection(1 .. n, W)
  <2>1. f \in [1 .. n -> W] /\ \A x \in W : \E i \in 1 .. n : f[i] = x
    OBVIOUS
  <2>2. \A i, j \in 1 .. n : f[i] = f[j] => i = j
    BY <1>3
  <2> HIDE DEF f, W, n
  <2> QED BY <2>1, <2>2 DEF Bijection, Injection, IsInjective, Surjection
<1> HIDE DEF f, W, n
<1>6. IsFiniteSet(W) /\ Cardinality(W) = n
  <2>1. IsFiniteSet(Authenticated) /\ W \subseteq Authenticated
    BY <1>4 DEF HostSafe, HostsOwn, PermitsAreKept
  <2>2. IsFiniteSet(W)
    BY <2>1, FS_Subset
  <2>3. IsFiniteSet(1 .. n) /\ Cardinality(1 .. n) = n
    BY <1>1, FS_Interval
  <2>4. ExistsBijection(1 .. n, W)
    BY <1>5 DEF ExistsBijection
  <2> QED BY <2>2, <2>3, <2>4, FS_Bijection
<1>7. Cardinality(W \cup {r}) = n + 1
  BY <1>4, <1>6, FS_AddElement
<1>8. /\ IsFiniteSet(Authenticated) /\ Cardinality(Authenticated) \in Nat
      /\ Cardinality(Authenticated) <= MaxConnections
  BY FS_CardinalityType DEF HostSafe, HostsOwn, PermitsAreKept
<1>9. Cardinality(W \cup {r}) <= Cardinality(Authenticated)
  BY <1>4, <1>8, FS_Subset
<1> QED BY <1>1, <1>2, <1>7, <1>8, <1>9

(* A caller with a permit finds room in the channel for its request, unless   *)
(* requests of callers that hung up lie in it: gate and channel have the same *)
(* size and the permit is kept until the answer (listener.rs).                *)
THEOREM TheChannelHasRoom == FairSpecHost => []OnlyTheGoneFillTheChannel
<1>1. HostSafe => OnlyTheGoneFillTheChannel
  BY SafeChannel
<1> QED BY <1>1, FairSpecHostIsSafe, PTL

-----------------------------------------------------------------------------
(* The executor's limits.                                                    *)

Within(limit, n) == limit # Unlimited => n <= limit
Of(jobs, s) == {job \in jobs : job.script = s}

(* No more runs are going than the policy allows, of all scripts and of each, *)
(* and no more events wait for a script.                                      *)
ExecutorKeepsItsLimits ==
  /\ IsFiniteSet(threads)
  /\ Within(policy.max_active_global, Cardinality(threads))
  /\ \A s \in Scripts :
       /\ Within(policy.max_active_per_script, Cardinality(Of(threads, s)))
       /\ Within(policy.max_queued_per_script, Count(queuedJobs, s))

\* A run counts until the completion of its thread is taken out of the channel.
ActiveExact ==
  /\ activeTotal = Cardinality(threads) + Len(results)
  /\ \A s \in Scripts : activeByScript[s] = Cardinality(Of(threads, s)) + Count(results, s)

ExecutorLimited == ExecutorSafe /\ ExecutorKeepsItsLimits /\ (stage = "open" => ActiveExact)

\* The same of the counters a handler works on, once it has collected.
Accurate(total, byScript, running) ==
  /\ IsFiniteSet(running)
  /\ total = Cardinality(running)
  /\ \A s \in Scripts : byScript[s] = Cardinality(Of(running, s))

Limited(total, byScript, queued) ==
  /\ Within(policy.max_active_global, total)
  /\ \A s \in Scripts : /\ Within(policy.max_active_per_script, byScript[s])
                        /\ Within(policy.max_queued_per_script, queued[s])

RecordLimited(c) ==
  Accurate(c.total, c.byScript, threads \cup c.started) /\ Limited(c.total, c.byScript, c.queued)

LEMMA GreatestNumber ==
  ASSUME NEW n \in Nat, NEW T \in SUBSET (1 .. n), T # {}
  PROVE  \E m \in T : \A k \in T : k <= m
<1> DEFINE below == {n - k : k \in T}
<1>1. \A k \in T : k \in Nat /\ k <= n /\ n - k \in below /\ n - k \in Nat
  OBVIOUS
<1>2. below \in SUBSET Nat /\ below # {}
  BY <1>1
<1>3. PICK b \in below : \A x \in below : b <= x
  BY <1>2, LeastNumber
<1>4. PICK m \in T : b = n - m
  BY <1>3
<1>5. \A k \in T : n - m <= n - k
  BY <1>1, <1>3, <1>4
<1> HIDE DEF below
<1>6. \A k \in T : k <= m
  BY <1>1, <1>5
<1> QED BY <1>6

\* Jobs at different places of the queue are different.
LEMMA AsManyJobs ==
  ASSUME ExecutorTyped, Books, NEW S \in SUBSET (1 .. Len(queuedJobs))
  PROVE  LET jobs == {queuedJobs[i] : i \in S}
         IN IsFiniteSet(jobs) /\ Cardinality(jobs) = Cardinality(S) /\ jobs \cap threads = {}
<1> DEFINE jobs == {queuedJobs[i] : i \in S}
           f == [i \in S |-> queuedJobs[i]]
<1>1. /\ queuedJobs \in Seq(Jobs) /\ Distinct(queuedJobs)
      /\ Ids(queuedJobs) \cap IdsOf(threads) = {}
  BY OldestFirstIsDistinct DEF ExecutorTyped, Books, Ledger
<1>2. Len(queuedJobs) \in Nat /\ DOMAIN queuedJobs = 1 .. Len(queuedJobs)
  BY <1>1, LenProperties
<1>3. IsFiniteSet(S)
  BY <1>2, PartOfAnInterval
<1>4. f \in Bijection(S, jobs)
  <2>1. f \in Surjection(S, jobs)
    BY DEF Surjection
  <2>2. \A i, j \in S : f[i] = f[j] => i = j
    BY <1>1, <1>2 DEF Distinct
  <2> HIDE DEF f, jobs
  <2>3. f \in Injection(S, jobs)
    BY <2>1, <2>2 DEF Injection, IsInjective, Surjection
  <2> QED BY <2>1, <2>3 DEF Bijection
<1>5. IsFiniteSet(jobs) /\ Cardinality(jobs) = Cardinality(S)
  BY <1>3, <1>4, FS_Bijection DEF ExistsBijection
<1>6. \A job \in jobs : job.id \in Ids(queuedJobs)
  BY <1>2 DEF Ids
<1>7. \A job \in threads : job.id \in IdsOf(threads)
  BY DEF IdsOf
<1>8. jobs \cap threads = {}
  BY <1>1, <1>6, <1>7
<1> QED BY <1>5, <1>8

\* Collecting takes what has finished off the counters.
LEMMA DrainedIsAccurate ==
  ASSUME ExecutorLimited, stage = "open"
  PROVE  Accurate(DrainedTotal, [s \in Scripts |-> Drained(s)], threads)
<1>1. /\ ExecutorTyped /\ IsFiniteSet(threads)
      /\ activeTotal = Cardinality(threads) + Len(results)
      /\ \A s \in Scripts : activeByScript[s] = Cardinality(Of(threads, s)) + Count(results, s)
  BY DEF ExecutorLimited, ExecutorSafe, ActiveExact, ExecutorKeepsItsLimits
<1>2. Len(results) \in Nat /\ DOMAIN results = 1 .. Len(results)
  BY <1>1, LenProperties DEF ExecutorTyped
<1>3. Cardinality(threads) \in Nat
  BY <1>1, FS_CardinalityType
<1>4. DrainedTotal = Cardinality(threads)
  BY <1>1, <1>2, <1>3 DEF DrainedTotal, Saturating
<1>5. ASSUME NEW s \in Scripts PROVE Drained(s) = Cardinality(Of(threads, s))
  <2>1. Count(results, s) \in Nat
    BY <1>2, PartOfAnInterval DEF Count
  <2>2. Of(threads, s) \in SUBSET threads
    BY DEF Of
  <2>3. Cardinality(Of(threads, s)) \in Nat
    BY <1>1, <2>2, FS_Subset, FS_CardinalityType
  <2>4. activeByScript[s] = Cardinality(Of(threads, s)) + Count(results, s)
    BY <1>1
  <2> HIDE DEF Of, Count
  <2> QED BY <2>1, <2>3, <2>4 DEF Drained, Saturating
<1> QED BY <1>1, <1>4, <1>5 DEF Accurate

LEMMA CollectedIsAccurate ==
  ASSUME ExecutorLimited, stage = "open", NEW broken \in Failures
  PROVE  Accurate(Collected(broken).total, Collected(broken).byScript, threads \cup Collected(broken).started)
<1> DEFINE S == StartsWith(broken)
           running == threads \cup StartedBy(broken)
<1>1. ExecutorTyped /\ Books
  BY DEF ExecutorLimited, ExecutorSafe
<1>2. S \in SUBSET (1 .. Len(queuedJobs))
  BY <1>1, WhoStarts
<1>3. /\ IsFiniteSet(threads) /\ DrainedTotal = Cardinality(threads)
      /\ \A s \in Scripts : Drained(s) = Cardinality(Of(threads, s))
  BY DrainedIsAccurate DEF Accurate
<1>4. StartedBy(broken) = {queuedJobs[i] : i \in S}
  BY DEF StartedBy
<1> HIDE DEF S
<1>5. /\ IsFiniteSet(StartedBy(broken)) /\ Cardinality(StartedBy(broken)) = Cardinality(S)
      /\ StartedBy(broken) \cap threads = {}
  BY <1>1, <1>2, <1>4, AsManyJobs
<1>6. IsFiniteSet(running) /\ Cardinality(running) = DrainedTotal + Cardinality(S)
  <2>1. threads \cap StartedBy(broken) = {}
    BY <1>5
  <2> HIDE DEF StartedBy
  <2>2. /\ IsFiniteSet(threads \cup StartedBy(broken))
        /\ Cardinality(threads \cup StartedBy(broken))
             = Cardinality(threads) + Cardinality(StartedBy(broken)) - Cardinality(threads \cap StartedBy(broken))
    BY <1>3, <1>5, FS_Union
  <2>3. Cardinality(threads) \in Nat /\ Cardinality(S) \in Nat
    BY <1>3, <1>5, FS_CardinalityType
  <2>4. Cardinality(threads \cap StartedBy(broken)) = 0
    BY <2>1, FS_EmptySet
  <2> QED BY <1>3, <1>5, <2>2, <2>3, <2>4
<1>7. ASSUME NEW s \in Scripts PROVE Drained(s) + CountAt(S, s) = Cardinality(Of(running, s))
  <2> DEFINE places == {i \in S : queuedJobs[i].script = s}
             jobs == {queuedJobs[i] : i \in places}
             had == Of(threads, s)
  <2>1. places \in SUBSET (1 .. Len(queuedJobs))
    BY <1>2
  <2>2. Of(running, s) = had \cup jobs
    BY <1>4 DEF Of
  <2>3. had \in SUBSET threads /\ IsFiniteSet(had)
    BY <1>3, FS_Subset DEF Of
  <2>4. CountAt(S, s) = Cardinality(places)
    BY DEF CountAt
  <2> HIDE DEF places
  <2>5. IsFiniteSet(jobs) /\ Cardinality(jobs) = Cardinality(places) /\ jobs \cap threads = {}
    BY <1>1, <2>1, AsManyJobs
  <2>6. Drained(s) = Cardinality(had)
    BY <1>3
  <2> HIDE DEF jobs, had
  <2>7. had \cap jobs = {}
    BY <2>3, <2>5
  <2>8. Cardinality(had \cup jobs) = Cardinality(had) + Cardinality(jobs) - Cardinality(had \cap jobs)
    BY <2>3, <2>5, FS_Union
  <2>9. Cardinality(had) \in Nat /\ Cardinality(jobs) \in Nat /\ Cardinality(had \cap jobs) = 0
    BY <2>3, <2>5, <2>7, FS_CardinalityType, FS_EmptySet
  <2> DEFINE both == had \cup jobs
  <2>10. Of(running, s) = both
    BY <2>2
  <2>11. Cardinality(both) = Cardinality(had) + Cardinality(jobs)
    BY <2>8, <2>9
  <2> HIDE DEF both, running
  <2> QED BY <2>4, <2>5, <2>6, <2>10, <2>11
<1>8. /\ Collected(broken).total = DrainedTotal + Cardinality(S)
      /\ Collected(broken).byScript = [s \in Scripts |-> Drained(s) + CountAt(S, s)]
      /\ Collected(broken).started = StartedBy(broken)
  BY CollectedIs DEF S
<1> QED BY <1>6, <1>7, <1>8 DEF Accurate

\* The last of the jobs that start had room next to all the others.
LEMMA CollectedIsLimited ==
  ASSUME ExecutorLimited, stage = "open", NEW broken \in Failures
  PROVE  Limited(Collected(broken).total, Collected(broken).byScript, Collected(broken).queued)
<1> DEFINE n == Len(queuedJobs)
           all == Starting(n)
           S == StartsWith(broken)
<1>1. ExecutorTyped /\ Books /\ ExecutorKeepsItsLimits
  BY DEF ExecutorLimited, ExecutorSafe
<1>2. n \in Nat /\ S \in SUBSET (1 .. n)
  BY <1>1, WhoStarts, LenProperties DEF ExecutorTyped
<1>3. Greedy(all, n)
  BY <1>2, StartingIsGreedy
<1>4. /\ S \subseteq all
      /\ \A m \in S, j \in all : j < m => j \in S
  <2>1. S = {i \in all : broken = 0 \/ i < broken}
    BY DEF StartsWith
  <2>2. broken \in Nat
    <3>1. all \subseteq Nat
      BY <1>2, <1>3 DEF Greedy
    <3> QED BY <3>1 DEF Failures
  <2>3. all \subseteq Nat
    BY <1>2, <1>3 DEF Greedy
  <2> HIDE DEF all, S
  <2> QED BY <2>1, <2>2, <2>3
<1>5. \A s \in Scripts : DrainedTotal = Cardinality(threads) /\ Drained(s) = Cardinality(Of(threads, s))
  BY DrainedIsAccurate DEF Accurate
<1>6. /\ DrainedTotal \in Nat /\ \A s \in Scripts : Drained(s) \in Nat
      /\ DrainedTotal = Cardinality(threads)
  BY <1>1, DrainedType, DrainedIsAccurate DEF Accurate
<1>7. /\ policy.max_active_global \in Limits /\ policy.max_active_per_script \in Limits
      /\ policy.max_queued_per_script \in Limits
  BY <1>1 DEF ExecutorTyped, TriggerExecutionPolicy
<1>8. \A i \in S : RoomAt(all, i)
  BY <1>2, <1>3, <1>4 DEF Greedy
<1> HIDE DEF all, S, n
<1>9. Within(policy.max_active_global, DrainedTotal + Cardinality(S))
  <2>1. CASE S = {}
    <3>1. Cardinality(S) = 0
      BY <2>1, FS_EmptySet
    <3>2. DrainedTotal + Cardinality(S) = DrainedTotal
      BY <1>6, <3>1
    <3> QED BY <1>1, <1>6, <3>2 DEF ExecutorKeepsItsLimits
  <2>2. CASE S # {}
    <3>1. PICK m \in S : \A k \in S : k <= m
      BY <1>2, <2>2, GreatestNumber
    <3>2. Before(all, m) = S \ {m}
      <4>1. \A j \in S : j \in Nat
        BY <1>2
      <4>2. \A j \in Before(all, m) : j \in S /\ j # m
        BY <1>2, <1>4, <3>1, <4>1 DEF Before
      <4>3. \A j \in S \ {m} : j \in all /\ j < m
        BY <1>4, <3>1, <4>1
      <4> QED BY <4>2, <4>3 DEF Before
    <3>3. /\ IsFiniteSet(S) /\ Cardinality(S) \in Nat
          /\ Cardinality(S \ {m}) = Cardinality(S) - 1
      BY <1>2, <3>1, PartOfAnInterval, FS_RemoveElement
    <3>4. PermitsNext(policy.max_active_global, DrainedTotal + (Cardinality(S) - 1))
      BY <1>8, <3>1, <3>2, <3>3 DEF RoomAt, HasActiveCapacity
    <3> QED BY <1>6, <3>3, <3>4 DEF PermitsNext, Within
  <2> QED BY <2>1, <2>2
<1>10. ASSUME NEW s \in Scripts PROVE Within(policy.max_active_per_script, Drained(s) + CountAt(S, s))
  <2> DEFINE Ss == {i \in S : queuedJobs[i].script = s}
  <2>1. Ss \in SUBSET (1 .. n) /\ Ss \subseteq S /\ CountAt(S, s) = Cardinality(Ss)
    BY <1>2 DEF CountAt
  <2>2. CASE Ss = {}
    <3>1. CountAt(S, s) = 0 /\ Drained(s) \in Nat
      BY <1>6, <2>1, <2>2, FS_EmptySet
    <3>2. Drained(s) + CountAt(S, s) = Drained(s)
      BY <3>1
    <3> QED BY <1>1, <1>5, <3>2 DEF ExecutorKeepsItsLimits
  <2>3. CASE Ss # {}
    <3> HIDE DEF Ss
    <3>1. PICK m \in Ss : \A k \in Ss : k <= m
      BY <1>2, <2>1, <2>3, GreatestNumber
    <3> USE DEF Ss
    <3>2. m \in S /\ queuedJobs[m].script = s
      BY <3>1
    <3>3. {i \in Before(all, m) : queuedJobs[i].script = s} = Ss \ {m}
      <4>1. \A j \in S : j \in Nat
        BY <1>2
      <4>2. \A j \in Before(all, m) : j \in S /\ j # m
        BY <1>2, <1>4, <3>2, <4>1 DEF Before
      <4>3. \A j \in Ss \ {m} : j \in all /\ j < m
        BY <1>4, <2>1, <3>1, <4>1
      <4> QED BY <4>2, <4>3 DEF Before
    <3>4. CountAt(Before(all, m), s) = Cardinality(Ss \ {m})
      BY <3>3 DEF CountAt
    <3> HIDE DEF Ss
    <3>5. /\ IsFiniteSet(Ss) /\ Cardinality(Ss) \in Nat
          /\ Cardinality(Ss \ {m}) = Cardinality(Ss) - 1
      BY <1>2, <2>1, <3>1, PartOfAnInterval, FS_RemoveElement
    <3>6. PermitsNext(policy.max_active_per_script, Drained(s) + (Cardinality(Ss) - 1))
      BY <1>8, <3>2, <3>4, <3>5 DEF RoomAt, HasActiveCapacity
    <3>7. Drained(s) \in Nat
      BY <1>6
    <3> QED BY <2>1, <3>5, <3>6, <3>7 DEF PermitsNext, Within
  <2> QED BY <2>2, <2>3
<1>11. ASSUME NEW s \in Scripts
       PROVE  Within(policy.max_queued_per_script,
                     IF broken = 0 THEN Saturating(queuedByScript[s], CountAt(S, s)) ELSE 0)
  <2>1. queuedByScript[s] = Count(queuedJobs, s) /\ queuedByScript[s] \in Nat
    BY <1>1 DEF Books, Counted, ExecutorTyped
  <2>2. CountAt(S, s) \in Nat
    BY <1>2, PartOfAnInterval DEF CountAt
  <2>3. Within(policy.max_queued_per_script, queuedByScript[s])
    BY <1>1, <2>1 DEF ExecutorKeepsItsLimits
  <2> QED BY <1>7, <2>1, <2>2, <2>3, TriggerExecutorAssumption DEF Within, Saturating, Limits
<1>12. /\ Collected(broken).total = DrainedTotal + Cardinality(S)
       /\ Collected(broken).byScript = [s \in Scripts |-> Drained(s) + CountAt(S, s)]
       /\ Collected(broken).queued =
            [s \in Scripts |-> IF broken = 0 THEN Saturating(queuedByScript[s], CountAt(S, s)) ELSE 0]
  BY CollectedIs DEF S
<1> QED BY <1>9, <1>10, <1>11, <1>12 DEF Limited

LEMMA StartsStaysLimited ==
  ASSUME ExecutorTyped, NEW c, RecordInBooks(c, nextJobId, delivered), RecordLimited(c),
         NEW s \in Scripts, HasActiveCapacity(c.total, c.byScript[s])
  PROVE  RecordLimited(Starts(c, [id |-> nextJobId, script |-> s]))
<1> DEFINE job == [id |-> nextJobId, script |-> s]
           running == threads \cup c.started
           more == running \cup {job}
           d == Starts(c, job)
<1>1. nextJobId \in Nat \ {0} /\ c \in Records
  BY DEF ExecutorTyped, RecordInBooks
<1>2. job \in Jobs /\ job.id = nextJobId /\ job.script = s
  BY <1>1 DEF Jobs
<1>3. job \notin running
  <2>1. IdsOf(running) \subseteq 1 .. nextJobId - 1
    BY DEF RecordInBooks, Ledger
  <2>2. nextJobId \notin 1 .. nextJobId - 1
    BY <1>1
  <2> QED BY <1>2, <2>1, <2>2 DEF IdsOf
<1> HIDE DEF job
<1>4. /\ d.total = c.total + 1 /\ d.byScript = [c.byScript EXCEPT ![s] = @ + 1]
      /\ d.queued = c.queued /\ d.started = c.started \cup {job}
  BY <1>1, <1>2, StartsFields
<1>5. c.byScript \in [Scripts -> Nat] /\ c.total \in Nat
  BY <1>1, RecordTypes
<1>6. /\ IsFiniteSet(running) /\ c.total = Cardinality(running)
      /\ \A t \in Scripts : c.byScript[t] = Cardinality(Of(running, t))
  BY DEF RecordLimited, Accurate
<1>7. threads \cup d.started = more
  BY <1>4
<1> HIDE DEF running, d
<1>8. IsFiniteSet(more) /\ Cardinality(more) = c.total + 1
  BY <1>3, <1>6, FS_AddElement
<1>9. ASSUME NEW t \in Scripts PROVE d.byScript[t] = Cardinality(Of(more, t))
  <2>1. Of(running, t) \in SUBSET running
    BY DEF Of
  <2>2. IsFiniteSet(Of(running, t)) /\ job \notin Of(running, t)
    BY <1>3, <1>6, <2>1, FS_Subset
  <2>3. CASE t = s
    <3>1. Of(more, t) = Of(running, t) \cup {job}
      BY <1>2, <2>3 DEF Of
    <3>2. Cardinality(Of(more, t)) = Cardinality(Of(running, t)) + 1
      BY <2>2, <3>1, FS_AddElement
    <3> QED BY <1>4, <1>5, <1>6, <2>3, <3>2
  <2>4. CASE t # s
    <3>1. Of(more, t) = Of(running, t)
      BY <1>2, <2>4 DEF Of
    <3> QED BY <1>4, <1>5, <1>6, <2>4, <3>1
  <2> QED BY <2>3, <2>4
<1>10. Limited(d.total, d.byScript, d.queued)
  <2>1. Limited(c.total, c.byScript, c.queued)
    BY DEF RecordLimited
  <2>2. Within(policy.max_active_global, c.total + 1) /\ Within(policy.max_active_per_script, c.byScript[s] + 1)
    BY DEF HasActiveCapacity, PermitsNext, Within
  <2> QED BY <1>4, <1>5, <2>1, <2>2 DEF Limited
<1>11. RecordLimited(d)
  BY <1>4, <1>7, <1>8, <1>9, <1>10 DEF RecordLimited, Accurate
<1> QED BY <1>11 DEF d, job

LEMMA QueuedStaysLimited ==
  ASSUME NEW c \in Records, RecordLimited(c), NEW job \in Jobs,
         PermitsNext(policy.max_queued_per_script, c.queued[job.script])
  PROVE  RecordLimited(Queued(c, job))
<1> DEFINE d == Queued(c, job)
<1>1. /\ d.total = c.total /\ d.byScript = c.byScript /\ d.started = c.started
      /\ d.queued = [c.queued EXCEPT ![job.script] = @ + 1]
  BY QueuedFields
<1>2. c.queued \in [Scripts -> Nat]
  BY RecordTypes
<1>3. Limited(c.total, c.byScript, c.queued)
  BY DEF RecordLimited
<1>4. Within(policy.max_queued_per_script, c.queued[job.script] + 1)
  BY DEF PermitsNext, Within
<1> HIDE DEF d
<1>5. Limited(d.total, d.byScript, d.queued)
  BY <1>1, <1>2, <1>3, <1>4 DEF Limited
<1> QED BY <1>1, <1>5 DEF RecordLimited, d

\* Dropping the oldest makes room for one, where there was none.
LEMMA WithoutOldestStaysLimited ==
  ASSUME ExecutorTyped, NEW c \in Records, Counted(c.queue, c.queued), RecordLimited(c),
         NEW s \in Scripts, ~PermitsNext(policy.max_queued_per_script, c.queued[s])
  PROVE  /\ RecordLimited(WithoutOldest(c, s))
         /\ PermitsNext(policy.max_queued_per_script, WithoutOldest(c, s).queued[s])
<1> DEFINE d == WithoutOldest(c, s)
           old == Oldest(c, s)
           fewer == [c.queued EXCEPT ![s] = Saturating(@, 1)]
<1>1. d = [accepting |-> c.accepting, total |-> c.total, byScript |-> c.byScript,
           queue |-> Without(c.queue, {old.id}), queued |-> fewer,
           completions |-> Append(c.completions, Completion(old, "superseded")),
           started |-> c.started]
  BY WithoutOldestFields
<1>2. c.queued \in [Scripts -> Nat]
  BY RecordTypes
<1>3. c.queued[s] \in Nat \ {0}
  BY OldestIsQueued
<1>4. fewer = [c.queued EXCEPT ![s] = c.queued[s] - 1]
  BY <1>2, <1>3 DEF Saturating
<1> HIDE DEF old, fewer, d
<1>5. d.total = c.total /\ d.byScript = c.byScript /\ d.started = c.started /\ d.queued = fewer
  BY <1>1
<1>6. Limited(c.total, c.byScript, c.queued)
  BY DEF RecordLimited
<1>7. policy.max_queued_per_script \in Limits
  BY DEF ExecutorTyped, TriggerExecutionPolicy
<1>8. \A t \in Scripts : Within(policy.max_queued_per_script, c.queued[t])
  BY <1>6 DEF Limited
<1>9. \A t \in Scripts : fewer[t] \in Nat /\ fewer[t] <= c.queued[t]
  BY <1>2, <1>3, <1>4
<1>10. \A t \in Scripts : Within(policy.max_queued_per_script, fewer[t])
  BY <1>2, <1>7, <1>8, <1>9, TriggerExecutorAssumption DEF Within, Limits
<1>11. PermitsNext(policy.max_queued_per_script, fewer[s])
  BY <1>2, <1>3, <1>4, <1>8 DEF Within, PermitsNext
<1>12. Limited(d.total, d.byScript, d.queued)
  BY <1>5, <1>6, <1>10 DEF Limited
<1>13. RecordLimited(d) /\ PermitsNext(policy.max_queued_per_script, d.queued[s])
  BY <1>5, <1>11, <1>12 DEF RecordLimited
<1> QED BY <1>13 DEF d

LEMMA RecordedStaysLimited ==
  ASSUME ExecutorSafe', stage' = "open", UNCHANGED policy, NEW d, Becomes(d), RecordLimited(d)
  PROVE  ExecutorLimited'
<1>1. /\ activeTotal' = d.total /\ activeByScript' = d.byScript /\ queuedByScript' = d.queued
      /\ threads' = threads \cup d.started /\ results' = <<>>
  BY DEF Becomes
<1>2. /\ IsFiniteSet(threads') /\ activeTotal' = Cardinality(threads')
      /\ \A s \in Scripts : activeByScript'[s] = Cardinality(Of(threads', s))
  BY <1>1 DEF RecordLimited, Accurate
<1>3. Limited(activeTotal', activeByScript', queuedByScript')
  BY <1>1 DEF RecordLimited
<1>4. \A s \in Scripts : queuedByScript'[s] = Count(queuedJobs', s)
  <2>1. Counted(queuedJobs, queuedByScript)'
    BY DEF ExecutorSafe, Books
  <2> QED BY <2>1 DEF Counted, Count
<1>5. ExecutorKeepsItsLimits'
  <2>1. Within(policy.max_active_global, activeTotal')
    BY <1>3 DEF Limited
  <2>2. \A s \in Scripts : /\ Within(policy.max_active_per_script, activeByScript'[s])
                           /\ Within(policy.max_queued_per_script, queuedByScript'[s])
    BY <1>3 DEF Limited
  <2>3. \A s \in Scripts : /\ Within(policy.max_active_per_script, Cardinality(Of(threads', s)))
                           /\ Within(policy.max_queued_per_script, Count(queuedJobs', s))
    BY <1>2, <1>4, <2>2
  <2>4. Within(policy.max_active_global, Cardinality(threads'))
    BY <1>2, <2>1
  <2> QED BY <1>2, <2>3, <2>4 DEF ExecutorKeepsItsLimits, Within, Of, Count
<1>6. ActiveExact'
  <2>1. \A s : Count(<<>>, s) = 0
    <3>1. \A s : {i \in DOMAIN <<>> : <<>>[i].script = s} = {}
      OBVIOUS
    <3> QED BY <3>1, FS_EmptySet DEF Count
  <2>2. Cardinality(threads') \in Nat /\ Len(<<>>) = 0
    BY <1>2, FS_CardinalityType
  <2>3. activeTotal' = Cardinality(threads') + Len(results')
    BY <1>1, <1>2, <2>2
  <2>4. ASSUME NEW s \in Scripts
        PROVE  activeByScript'[s] = Cardinality(Of(threads', s)) + Count(results', s)
    <3>1. Of(threads', s) \in SUBSET threads'
      BY DEF Of
    <3>2. Cardinality(Of(threads', s)) \in Nat
      BY <1>2, <3>1, FS_Subset, FS_CardinalityType
    <3>3. Count(results', s) = 0 /\ activeByScript'[s] = Cardinality(Of(threads', s))
      BY <1>1, <1>2, <2>1
    <3> QED BY <3>2, <3>3
  <2> QED BY <2>3, <2>4 DEF ActiveExact, Of, Count
<1> QED BY <1>5, <1>6 DEF ExecutorLimited

LEMMA CollectedStaysLimited ==
  ASSUME ExecutorLimited, stage = "open", NEW broken \in Failures
  PROVE  RecordLimited(Collected(broken))
BY CollectedIsAccurate, CollectedIsLimited DEF RecordLimited

LEMMA SubmitStaysLimited ==
  ASSUME ExecutorLimited, stage = "open", NEW s \in Scripts, NEW broken \in Failures,
         SubmitTo(Collected(broken), s)
  PROVE  \E d : Becomes(d) /\ RecordLimited(d)
<1> DEFINE c == Collected(broken)
           job == [id |-> nextJobId, script |-> s]
<1>1. ExecutorTyped /\ Books
  BY DEF ExecutorLimited, ExecutorSafe
<1>2. RecordInBooks(c, nextJobId, delivered) /\ RecordLimited(c)
  BY <1>1, CollectedInBooks, CollectedStaysLimited
<1>3. job \in Jobs /\ job.script = s
  BY <1>1 DEF ExecutorTyped, Jobs
<1>4. SubmitTo(c, s)
  OBVIOUS
<1> HIDE DEF c
<1>5. c \in Records /\ Counted(c.queue, c.queued)
  BY <1>2 DEF RecordInBooks
<1>6. CASE Reject(c)
  BY <1>2, <1>6 DEF Reject
<1>7. CASE HasActiveCapacity(c.total, c.byScript[s]) /\ Accept(Starts(c, job))
  <2>1. RecordLimited(Starts(c, job))
    BY <1>1, <1>2, <1>7, StartsStaysLimited
  <2> QED BY <1>7, <2>1 DEF Accept
<1> HIDE DEF job
<1>8. CASE PermitsNext(policy.max_queued_per_script, c.queued[s]) /\ Accept(Queued(c, job))
  <2>1. RecordLimited(Queued(c, job))
    BY <1>2, <1>3, <1>5, <1>8, QueuedStaysLimited
  <2> QED BY <1>8, <2>1 DEF Accept
<1>9. CASE /\ ~PermitsNext(policy.max_queued_per_script, c.queued[s])
           /\ ~HasActiveCapacity(c.total, c.byScript[s])
           /\ Accept(Queued(WithoutOldest(c, s), job))
  <2> DEFINE e == WithoutOldest(c, s)
  <2>1. Becomes(Queued(e, job))
    BY <1>9 DEF Accept
  <2>2. RecordLimited(e) /\ PermitsNext(policy.max_queued_per_script, e.queued[s])
    BY <1>1, <1>2, <1>5, <1>9, WithoutOldestStaysLimited
  <2>3. e \in Records
    BY <1>1, <1>2, <1>9, WithoutOldestInBooks DEF RecordInBooks
  <2> HIDE DEF e
  <2>4. RecordLimited(Queued(e, job))
    BY <1>3, <2>2, <2>3, QueuedStaysLimited
  <2> QED BY <2>1, <2>4
<1> USE DEF job
<1> QED BY <1>4, <1>6, <1>7, <1>8, <1>9 DEF SubmitTo

LEMMA TakeStaysLimited ==
  ASSUME ExecutorLimited, stage = "open", NEW broken \in Failures, Take(Collected(broken))
  PROVE  \E d : Becomes(d) /\ RecordLimited(d)
<1> DEFINE c == Collected(broken)
           e == [c EXCEPT !.completions = Tail(@)]
<1>1. RecordLimited(c)
  BY CollectedStaysLimited
<1>2. c \in Records
  BY CollectedInBooks DEF ExecutorLimited, ExecutorSafe, RecordInBooks
<1>3. Becomes(c) \/ Becomes(e)
  BY DEF Take, TakeNone, TakeFirst
<1> HIDE DEF c
<1>4. e.total = c.total /\ e.byScript = c.byScript /\ e.queued = c.queued /\ e.started = c.started
  BY <1>2 DEF Records
<1> HIDE DEF e
<1>5. RecordLimited(e)
  BY <1>1, <1>4 DEF RecordLimited
<1> QED BY <1>1, <1>3, <1>5

\* A run that ends moves from the threads to the channel.
LEMMA FinishStaysLimited ==
  ASSUME ExecutorLimited, ExecutorSafe', NEW job \in threads, WorkerFinishes(job)
  PROVE  ExecutorLimited'
<1> DEFINE done == Completion(job, "ran")
<1>1. /\ threads' = threads \ {job} /\ results' = Append(results, done)
      /\ UNCHANGED <<policy, stage, activeTotal, activeByScript, queuedJobs>>
  BY DEF WorkerFinishes, counters
<1>2. job \in Jobs /\ results \in Seq(Completions) /\ policy \in TriggerExecutionPolicy
  BY DEF ExecutorLimited, ExecutorSafe, ExecutorTyped
<1>3. /\ policy.max_active_global \in Limits /\ policy.max_active_per_script \in Limits
  BY <1>2 DEF TriggerExecutionPolicy
<1>4. done \in Completions /\ done.script = job.script
  BY <1>2 DEF Completion, Completions, Jobs
<1> HIDE DEF done
<1>5. /\ IsFiniteSet(threads)
      /\ Within(policy.max_active_global, Cardinality(threads))
      /\ \A s \in Scripts : /\ Within(policy.max_active_per_script, Cardinality(Of(threads, s)))
                            /\ Within(policy.max_queued_per_script, Count(queuedJobs, s))
  BY DEF ExecutorLimited, ExecutorKeepsItsLimits
<1>6. /\ IsFiniteSet(threads') /\ Cardinality(threads) \in Nat /\ Cardinality(threads') \in Nat
      /\ Cardinality(threads') = Cardinality(threads) - 1
  BY <1>1, <1>5, FS_RemoveElement, FS_CardinalityType
<1>7. ASSUME NEW s \in Scripts
      PROVE  /\ Cardinality(Of(threads', s)) \in Nat /\ Cardinality(Of(threads, s)) \in Nat
             /\ Cardinality(Of(threads', s)) =
                  IF job.script = s THEN Cardinality(Of(threads, s)) - 1 ELSE Cardinality(Of(threads, s))
  <2>1. Of(threads', s) = Of(threads, s) \ {job} /\ Of(threads, s) \in SUBSET threads
    BY <1>1 DEF Of
  <2>2. IsFiniteSet(Of(threads, s))
    BY <1>5, <2>1, FS_Subset
  <2>3. job \in Of(threads, s) <=> job.script = s
    BY DEF Of
  <2> QED BY <2>1, <2>2, <2>3, FS_RemoveElement, FS_CardinalityType
<1>8. ExecutorKeepsItsLimits'
  <2>1. Within(policy.max_active_global, Cardinality(threads'))
    BY <1>3, <1>5, <1>6, TriggerExecutorAssumption DEF Within, Limits
  <2>2. ASSUME NEW s \in Scripts
        PROVE  /\ Within(policy.max_active_per_script, Cardinality(Of(threads', s)))
               /\ Within(policy.max_queued_per_script, Count(queuedJobs', s))
    <3>1. /\ Within(policy.max_active_per_script, Cardinality(Of(threads, s)))
          /\ Within(policy.max_queued_per_script, Count(queuedJobs, s))
      BY <1>5
    <3>2. Cardinality(Of(threads', s)) <= Cardinality(Of(threads, s))
      BY <1>7
    <3> HIDE DEF Of, Count
    <3>3. Within(policy.max_active_per_script, Cardinality(Of(threads', s)))
      BY <1>3, <1>7, <3>1, <3>2, TriggerExecutorAssumption DEF Within, Limits
    <3> QED BY <1>1, <3>1, <3>3
  <2> QED BY <1>1, <1>6, <2>1, <2>2 DEF ExecutorKeepsItsLimits, Within, Of, Count
<1>9. ASSUME ActiveExact PROVE ActiveExact'
  <2>1. Len(results) \in Nat /\ Len(results') = Len(results) + 1
    BY <1>1, <1>2, LenProperties, AppendProperties
  <2>2. activeTotal' = Cardinality(threads') + Len(results')
    BY <1>1, <1>6, <1>9, <2>1 DEF ActiveExact
  <2>3. ASSUME NEW s \in Scripts
        PROVE  activeByScript'[s] = Cardinality(Of(threads', s)) + Count(results', s)
    <3>1. Count(results, s) \in Nat
      <4>1. Len(results) \in Nat /\ DOMAIN results = 1 .. Len(results)
        BY <1>2, LenProperties
      <4> QED BY <4>1, PartOfAnInterval DEF Count
    <3>2. Count(results', s) = IF job.script = s THEN Count(results, s) + 1 ELSE Count(results, s)
      <4>1. Count(Append(results, done), s) =
              IF done.script = s THEN Count(results, s) + 1 ELSE Count(results, s)
        BY <1>2, <1>4, CountOneMore
      <4> QED BY <1>1, <1>4, <4>1
    <3>3. activeByScript[s] = Cardinality(Of(threads, s)) + Count(results, s)
      BY <1>9 DEF ActiveExact
    <3>4. /\ Cardinality(Of(threads', s)) \in Nat /\ Cardinality(Of(threads, s)) \in Nat
          /\ Cardinality(Of(threads', s)) =
               IF job.script = s THEN Cardinality(Of(threads, s)) - 1 ELSE Cardinality(Of(threads, s))
      BY <1>7
    <3>5. activeByScript'[s] = activeByScript[s]
      BY <1>1
    <3> QED BY <3>1, <3>2, <3>3, <3>4, <3>5
  <2> QED BY <2>2, <2>3 DEF ActiveExact, Of, Count
<1> QED BY <1>1, <1>8, <1>9 DEF ExecutorLimited

LEMMA ShutdownStaysLimited ==
  ASSUME ExecutorLimited, ExecutorSafe', Shutdown
  PROVE  ExecutorLimited'
<1>1. /\ stage' = "joining" /\ queuedJobs' = <<>> /\ UNCHANGED <<policy, threads>>
  BY DEF Shutdown
<1>2. \A s : Count(<<>>, s) = 0
  <2>1. \A s : {i \in DOMAIN <<>> : <<>>[i].script = s} = {}
    OBVIOUS
  <2> QED BY <2>1, FS_EmptySet DEF Count
<1>3. policy.max_queued_per_script \in Limits
  BY DEF ExecutorLimited, ExecutorSafe, ExecutorTyped, TriggerExecutionPolicy
<1>4. \A s \in Scripts : Within(policy.max_queued_per_script, Count(queuedJobs', s))
  BY <1>1, <1>2, <1>3, TriggerExecutorAssumption DEF Within, Limits
<1>5. ExecutorKeepsItsLimits'
  BY <1>1, <1>4 DEF ExecutorLimited, ExecutorKeepsItsLimits, Within, Of, Count
<1> QED BY <1>1, <1>5 DEF ExecutorLimited

LEMMA NothingRunsAnew ==
  ASSUME ExecutorLimited, ExecutorSafe', UNCHANGED <<policy, threads, queuedJobs>>,
         stage' = "closed" \/ UNCHANGED <<stage, activeTotal, activeByScript, results>>
  PROVE  ExecutorLimited'
<1>1. ExecutorKeepsItsLimits'
  BY DEF ExecutorLimited, ExecutorKeepsItsLimits, Within, Of, Count
<1>2. CASE stage' = "closed"
  BY <1>1, <1>2 DEF ExecutorLimited
<1>3. CASE UNCHANGED <<stage, activeTotal, activeByScript, results>>
  <2>1. ActiveExact => ActiveExact'
    BY <1>3 DEF ActiveExact, Of, Count
  <2> QED BY <1>1, <1>3, <2>1 DEF ExecutorLimited
<1> QED BY <1>2, <1>3

\* What becomes of the executor, whether it is driven by itself or by the host.
ExecutorStep ==
  \/ /\ stage = "open"
     /\ \E s \in Scripts, broken \in Failures : SubmitTo(Collected(broken), s)
     /\ UNCHANGED <<policy, stage>>
  \/ /\ stage = "open"
     /\ \E broken \in Failures : Take(Collected(broken))
     /\ UNCHANGED <<policy, stage>>
  \/ \E job \in threads : WorkerFinishes(job)
  \/ Shutdown
  \/ ShutdownReturns

LEMMA StepStaysLimited ==
  ASSUME ExecutorLimited, ExecutorSafe', ExecutorStep \/ UNCHANGED vars
  PROVE  ExecutorLimited'
<1>1. ASSUME stage = "open", NEW s \in Scripts, NEW broken \in Failures,
             SubmitTo(Collected(broken), s), UNCHANGED <<policy, stage>>
      PROVE  ExecutorLimited'
  BY <1>1, SubmitStaysLimited, RecordedStaysLimited
<1>2. ASSUME stage = "open", NEW broken \in Failures, Take(Collected(broken)), UNCHANGED <<policy, stage>>
      PROVE  ExecutorLimited'
  BY <1>2, TakeStaysLimited, RecordedStaysLimited
<1>3. ASSUME NEW job \in threads, WorkerFinishes(job) PROVE ExecutorLimited'
  BY <1>3, FinishStaysLimited
<1>4. CASE Shutdown
  BY <1>4, ShutdownStaysLimited
<1>5. CASE ShutdownReturns
  <2>1. stage' = "closed" /\ UNCHANGED <<policy, threads, queuedJobs>>
    BY <1>5 DEF ShutdownReturns
  <2> QED BY <2>1, NothingRunsAnew
<1>6. CASE UNCHANGED vars
  <2>1. UNCHANGED <<policy, threads, queuedJobs, stage, activeTotal, activeByScript, results>>
    BY <1>6 DEF vars, counters
  <2> QED BY <2>1, NothingRunsAnew
<1> QED BY <1>1, <1>2, <1>3, <1>4, <1>5, <1>6 DEF ExecutorStep

LEMMA InitIsLimited ==
  ASSUME Init
  PROVE  ExecutorLimited
<1>1. /\ activeTotal = 0 /\ activeByScript = [s \in Scripts |-> 0]
      /\ queuedJobs = <<>> /\ threads = {} /\ results = <<>>
  BY DEF Init
<1>2. ExecutorSafe
  BY InitIsSafe
<1>3. \A s : Count(<<>>, s) = 0
  <2>1. \A s : {i \in DOMAIN <<>> : <<>>[i].script = s} = {}
    OBVIOUS
  <2> QED BY <2>1, FS_EmptySet DEF Count
<1>4. IsFiniteSet(threads) /\ Cardinality(threads) = 0 /\ \A s : Cardinality(Of(threads, s)) = 0
  <2>1. \A s : Of(threads, s) = {}
    BY <1>1 DEF Of
  <2> QED BY <1>1, <2>1, FS_EmptySet
<1>5. /\ policy.max_active_global \in Limits /\ policy.max_active_per_script \in Limits
      /\ policy.max_queued_per_script \in Limits
  BY <1>2 DEF ExecutorSafe, ExecutorTyped, TriggerExecutionPolicy
<1>6. \A limit \in Limits : Within(limit, 0)
  BY TriggerExecutorAssumption DEF Within, Limits
<1>7. ExecutorKeepsItsLimits
  BY <1>1, <1>3, <1>4, <1>5, <1>6 DEF ExecutorKeepsItsLimits
<1>8. ActiveExact
  <2>1. Len(<<>>) = 0
    OBVIOUS
  <2> QED BY <1>1, <1>3, <1>4, <2>1 DEF ActiveExact
<1> QED BY <1>2, <1>7, <1>8 DEF ExecutorLimited

(* Whatever is submitted and in whatever order runs end: no more runs are     *)
(* going than the policy allows, of all scripts and of each, and no more      *)
(* events wait for a script (src/service/executor.rs, has_active_capacity,    *)
(* schedule_queued_jobs, try_submit_from).                                    *)
THEOREM ExecutorLimitsAreKept == Spec => []ExecutorKeepsItsLimits
<1>1. Init => ExecutorLimited
  BY InitIsLimited
<1>2. ExecutorLimited /\ [Next]_vars => ExecutorLimited'
  <2> SUFFICES ASSUME ExecutorLimited, [Next]_vars PROVE ExecutorLimited'
    OBVIOUS
  <2>1. ExecutorSafe'
    BY NextIsSafe DEF ExecutorLimited
  <2>2. ExecutorStep \/ UNCHANGED vars
    BY DEF Next, Submit, TryCompletion, ExecutorStep
  <2> QED BY <2>1, <2>2, StepStaysLimited
<1>3. ExecutorLimited => ExecutorKeepsItsLimits
  BY DEF ExecutorLimited
<1> QED BY <1>1, <1>2, <1>3, PTL DEF Spec

\* The host steps its executor as the executor may step, or leaves it alone.
LEMMA HostStepsTheExecutor ==
  ASSUME HostSafe, [NextHost]_hostVars
  PROVE  ExecutorStep \/ UNCHANGED vars
<1>1. ASSUME UNCHANGED executorVars PROVE UNCHANGED vars
  BY <1>1 DEF executorVars, vars
<1>2. ASSUME NEW r \in Requests, Task(r) \/ DeadlinePasses(r) PROVE UNCHANGED vars
  BY <1>1, <1>2 DEF Task, Enter, Send, Respond, HangUp, DeadlinePasses
<1>3. CASE KeepGoing \/ NothingToAccept \/ RestartListener \/ UNCHANGED hostVars
  BY <1>1, <1>3 DEF KeepGoing, NothingToAccept, RestartListener, hostVars
<1>4. CASE RecordCompletion
  BY <1>4 DEF RecordCompletion, ExecutorStep, Take
<1>5. CASE ExpirePending
  BY <1>5 DEF ExpirePending, ExecutorStep, Take
<1>6. CASE AcceptRequest
  <2>1. /\ stage = "open" /\ incoming # <<>> /\ UNCHANGED <<policy, stage>>
        /\ \E broken \in Failures : SubmitTo(Collected(broken), target[Head(incoming)])
    BY <1>6 DEF AcceptRequest
  <2>2. target[Head(incoming)] \in Scripts
    BY <2>1, HeadIsAlone DEF HostSafe, HostsOwn, HostTyped
  <2> QED BY <2>1, <2>2 DEF ExecutorStep
<1>7. CASE DropHost
  BY <1>7 DEF DropHost, ExecutorStep
<1>8. CASE ExecutorStopped
  BY <1>8 DEF ExecutorStopped, ExecutorStep
<1>9. ASSUME NEW job \in threads, Finish(job) PROVE ExecutorStep
  BY <1>9 DEF Finish, ExecutorStep
<1> QED BY <1>2, <1>3, <1>4, <1>5, <1>6, <1>7, <1>8, <1>9 DEF NextHost, Round

(* And whatever the callers do, the host runs no more of their requests at a  *)
(* time (src/service/webhooks.rs, accept_request and poll).                   *)
THEOREM RequestLimitsAreKept == FairSpecHost => []ExecutorKeepsItsLimits
<1>1. InitHost => HostSafe /\ ExecutorLimited
  BY InitHostIsSafe, InitIsLimited DEF InitHost
<1>2. HostSafe /\ ExecutorLimited /\ [NextHost]_hostVars => HostSafe' /\ ExecutorLimited'
  <2> SUFFICES ASSUME HostSafe, ExecutorLimited, [NextHost]_hostVars PROVE HostSafe' /\ ExecutorLimited'
    OBVIOUS
  <2>1. HostSafe' /\ ExecutorSafe'
    BY NextHostIsSafe DEF HostSafe
  <2>2. ExecutorStep \/ UNCHANGED vars
    BY HostStepsTheExecutor
  <2> QED BY <2>1, <2>2, StepStaysLimited
<1>3. ExecutorLimited => ExecutorKeepsItsLimits
  BY DEF ExecutorLimited
<1> QED BY <1>1, <1>2, <1>3, PTL DEF FairSpecHost

-----------------------------------------------------------------------------
(* The host is a use of the executor.                                        *)

\* Whose request has not been sent may still ask for a number, as may what is in
\* the channel: the numbers given out are the others' at most.
Unsent == {r \in Requests : caller[r] \in {"idle", "reading"}}
NumbersSuffice ==
  nextJobId - 1 + Len(incoming) + Cardinality(Unsent) <= Cardinality(Requests)

LEMMA UnsentShrink ==
  ASSUME IsFiniteSet(Requests), NEW S \in SUBSET Unsent
  PROVE  /\ IsFiniteSet(Unsent) /\ Cardinality(Unsent) \in Nat
         /\ Cardinality(S) \in Nat /\ Cardinality(S) <= Cardinality(Unsent)
<1>1. Unsent \subseteq Requests
  BY DEF Unsent
<1> QED BY <1>1, FS_Subset, FS_CardinalityType

\* A round or a callers' step that sends nothing and submits nothing.
LEMMA NumbersStay ==
  ASSUME IsFiniteSet(Requests), HostSafe, NumbersSuffice, nextJobId' = nextJobId,
         Unsent' \subseteq Unsent, Len(incoming') \in Nat, Len(incoming') <= Len(incoming)
  PROVE  NumbersSuffice'
<1> DEFINE a == Cardinality(Unsent)
           b == Cardinality(Unsent')
           m == Len(incoming)
           n == Len(incoming')
           k == Cardinality(Requests)
<1>1. a \in Nat /\ b \in Nat /\ b <= a
  BY UnsentShrink
<1>2. nextJobId \in Nat /\ m \in Nat /\ n \in Nat /\ n <= m /\ k \in Nat
  BY FS_CardinalityType, LenProperties DEF HostSafe, ExecutorSafe, ExecutorTyped, HostsOwn, HostTyped
<1>3. nextJobId - 1 + m + a <= k
  BY DEF NumbersSuffice
<1> HIDE DEF a, b, m, n, k
<1>4. nextJobId' - 1 + n + b <= k
  BY <1>1, <1>2, <1>3
<1> QED BY <1>4 DEF NumbersSuffice, b, n, k

\* A request that goes into the channel is one that has been sent.
LEMMA SentOnce ==
  ASSUME IsFiniteSet(Requests), HostSafe, NumbersSuffice, NEW r \in Requests,
         caller[r] = "reading", ChannelHasRoom, Moves(r, "waiting"),
         incoming' = Append(incoming, r), UNCHANGED executorVars
  PROVE  NumbersSuffice'
<1>1. r \in Unsent
  BY DEF Unsent
<1>2. Unsent' = Unsent \ {r}
  BY DEF Unsent, Moves, HostSafe, HostsOwn, HostTyped
<1> DEFINE a == Cardinality(Unsent)
           b == Cardinality(Unsent')
           m == Len(incoming)
           n == Len(incoming')
           k == Cardinality(Requests)
<1>3. a \in Nat /\ b \in Nat /\ b = a - 1
  <2>1. IsFiniteSet(Unsent) /\ a \in Nat
    BY UnsentShrink
  <2>2. IsFiniteSet(Unsent \ {r}) /\ Cardinality(Unsent \ {r}) = a - 1
    BY <1>1, <2>1, FS_RemoveElement
  <2> QED BY <1>2, <2>1, <2>2, FS_CardinalityType
<1>4. nextJobId \in Nat /\ m \in Nat /\ n = m + 1 /\ k \in Nat /\ nextJobId' = nextJobId
  <2>1. incoming \in Seq(Requests) /\ nextJobId \in Nat
    BY DEF HostSafe, ExecutorSafe, ExecutorTyped, HostsOwn, HostTyped
  <2>2. m \in Nat /\ n = m + 1
    BY <2>1, AppendProperties, LenProperties
  <2> QED BY <2>1, <2>2, FS_CardinalityType DEF executorVars
<1>5. nextJobId - 1 + m + a <= k
  BY DEF NumbersSuffice
<1> HIDE DEF a, b, m, n, k
<1>6. nextJobId' - 1 + n + b <= k
  BY <1>3, <1>4, <1>5
<1> QED BY <1>6 DEF NumbersSuffice, b, n, k

\* A submission gives out one number at most.
LEMMA SubmitNumbers ==
  ASSUME NEW c, NEW s \in Scripts, SubmitTo(c, s)
  PROVE  nextJobId' \in {nextJobId, nextJobId + 1}
BY DEF SubmitTo, Reject, Accept

\* What the host takes from the channel it can number, and it does so once.
LEMMA AcceptedOnce ==
  ASSUME IsFiniteSet(Requests), HostSafe, NumbersSuffice, AcceptRequest
  PROVE  NumbersSuffice' /\ nextJobId <= MaxJobs
<1>1. incoming \in Seq(Requests) /\ incoming # <<>> /\ incoming' = Tail(incoming) /\ caller' = caller
  BY DEF HostSafe, HostsOwn, HostTyped, AcceptRequest, connections
<1>2. nextJobId' \in {nextJobId, nextJobId + 1}
  <2>1. PICK broken \in Failures : SubmitTo(Collected(broken), target[Head(incoming)])
    BY DEF AcceptRequest
  <2>2. target[Head(incoming)] \in Scripts
    BY <1>1, HeadIsAlone DEF HostSafe, HostsOwn, HostTyped
  <2> QED BY <2>1, <2>2, SubmitNumbers
<1> DEFINE a == Cardinality(Unsent)
           m == Len(incoming)
           n == Len(incoming')
           k == Cardinality(Requests)
<1>3. a \in Nat /\ Unsent' = Unsent
  BY <1>1, UnsentShrink DEF Unsent
<1>4. m \in Nat /\ m > 0 /\ n = m - 1
  BY <1>1, HeadTailProperties, EmptySeq, LenProperties
<1>5. nextJobId \in Nat /\ k \in Nat /\ MaxJobs \in Nat /\ k <= MaxJobs
  BY FS_CardinalityType, TriggerExecutorAssumption, WebhookHostAssumption
     DEF HostSafe, ExecutorSafe, ExecutorTyped
<1>6. nextJobId - 1 + m + a <= k
  BY DEF NumbersSuffice
<1> HIDE DEF a, m, n, k
<1>7. nextJobId + n + a <= k /\ nextJobId <= MaxJobs
  BY <1>3, <1>4, <1>5, <1>6
<1>8. nextJobId' - 1 + n + a <= k
  <2>1. CASE nextJobId' = nextJobId
    BY <1>3, <1>4, <1>5, <1>7, <2>1
  <2>2. CASE nextJobId' = nextJobId + 1
    BY <1>3, <1>4, <1>5, <1>7, <2>2
  <2> QED BY <1>2, <2>1, <2>2
<1> QED BY <1>3, <1>7, <1>8 DEF NumbersSuffice, a, n, k

LEMMA HostStepIsTheExecutors ==
  ASSUME IsFiniteSet(Requests), HostSafe, NumbersSuffice, [NextHost]_hostVars
  PROVE  [Next]_vars /\ NumbersSuffice'
<1>1. ASSUME UNCHANGED executorVars PROVE UNCHANGED vars /\ nextJobId' = nextJobId
  BY <1>1 DEF executorVars, vars
<1>2. Len(incoming) \in Nat /\ incoming \in Seq(Requests)
  BY LenProperties DEF HostSafe, HostsOwn, HostTyped
<1>3. ASSUME UNCHANGED <<caller, incoming, nextJobId>> PROVE NumbersSuffice'
  <2>1. Unsent' = Unsent /\ Len(incoming') = Len(incoming)
    BY <1>3 DEF Unsent
  <2> QED BY <1>2, <1>3, <2>1, NumbersStay
<1>4. ASSUME CutConnections, nextJobId' = nextJobId PROVE NumbersSuffice'
  <2>1. Unsent' \subseteq Unsent
    BY <1>4 DEF CutConnections, Unsent, Authenticated
  <2>2. Len(incoming') = 0
    BY <1>4 DEF CutConnections
  <2> QED BY <1>2, <1>4, <2>1, <2>2, NumbersStay
<1>5. ASSUME NEW r \in Requests, Enter(r) PROVE [Next]_vars /\ NumbersSuffice'
  <2>1. UNCHANGED executorVars /\ incoming' = incoming
    BY <1>5 DEF Enter
  <2>2. Unsent' \subseteq Unsent
    BY <1>5 DEF Enter, Moves, Unsent, HostSafe, HostsOwn, HostTyped
  <2>3. NumbersSuffice'
    BY <1>1, <1>2, <2>1, <2>2, NumbersStay
  <2> QED BY <1>1, <2>1, <2>3
<1>6. ASSUME NEW r \in Requests, Send(r) PROVE [Next]_vars /\ NumbersSuffice'
  <2>1. UNCHANGED executorVars /\ caller[r] = "reading"
    BY <1>6 DEF Send
  <2>2. CASE Moves(r, "answered") /\ UNCHANGED incoming
    <3>1. Unsent' \subseteq Unsent
      BY <2>2 DEF Moves, Unsent, HostSafe, HostsOwn, HostTyped
    <3>2. Len(incoming') = Len(incoming)
      BY <2>2
    <3> QED BY <1>1, <1>2, <2>1, <3>1, <3>2, NumbersStay
  <2>3. CASE ChannelHasRoom /\ Moves(r, "waiting") /\ incoming' = Append(incoming, r)
    BY <1>1, <2>1, <2>3, SentOnce
  <2> QED BY <1>6, <2>2, <2>3 DEF Send
<1>7. ASSUME NEW r \in Requests, Respond(r) \/ HangUp(r) PROVE [Next]_vars /\ NumbersSuffice'
  <2>1. UNCHANGED executorVars /\ incoming' = incoming
    BY <1>7 DEF Respond, HangUp
  <2>2. Unsent' \subseteq Unsent
    BY <1>7 DEF Respond, HangUp, Moves, Unsent, HostSafe, HostsOwn, HostTyped
  <2>3. NumbersSuffice'
    BY <1>1, <1>2, <2>1, <2>2, NumbersStay
  <2> QED BY <1>1, <2>1, <2>3
<1>8. ASSUME NEW r \in Requests, DeadlinePasses(r) PROVE [Next]_vars /\ NumbersSuffice'
  <2>1. UNCHANGED <<executorVars, caller, incoming>>
    BY <1>8 DEF DeadlinePasses, connections
  <2> QED BY <1>1, <1>3, <2>1
<1>9. CASE KeepGoing \/ NothingToAccept \/ UNCHANGED hostVars
  <2>1. UNCHANGED <<executorVars, caller, incoming>>
    BY <1>9 DEF KeepGoing, NothingToAccept, hostVars, connections
  <2> QED BY <1>1, <1>3, <2>1
<1>10. CASE RestartListener
  <2>1. UNCHANGED executorVars /\ CutConnections
    BY <1>10 DEF RestartListener
  <2> QED BY <1>1, <1>4, <2>1
<1>11. CASE RecordCompletion
  <2>1. TryCompletion
    BY <1>11 DEF RecordCompletion, TryCompletion, Take
  <2>2. NumbersSuffice'
    BY <1>3, <1>11 DEF RecordCompletion, connections
  <2> QED BY <2>1, <2>2 DEF Next
<1>12. CASE ExpirePending
  <2>1. TryCompletion
    BY <1>12 DEF ExpirePending, TryCompletion, Take
  <2>2. NumbersSuffice'
    BY <1>3, <1>12 DEF ExpirePending, connections
  <2> QED BY <2>1, <2>2 DEF Next
<1>13. CASE AcceptRequest
  <2>1. NumbersSuffice' /\ nextJobId <= MaxJobs
    BY <1>13, AcceptedOnce
  <2>2. /\ stage = "open" /\ incoming # <<>> /\ UNCHANGED <<policy, stage, delivered>>
        /\ \E broken \in Failures : SubmitTo(Collected(broken), target[Head(incoming)])
    BY <1>13 DEF AcceptRequest
  <2>3. target[Head(incoming)] \in Scripts
    BY <2>2, HeadIsAlone DEF HostSafe, HostsOwn, HostTyped
  <2>4. Submit(target[Head(incoming)])
    BY <2>1, <2>2 DEF Submit
  <2> QED BY <2>1, <2>3, <2>4 DEF Next
<1>14. CASE DropHost
  <2>1. Shutdown /\ UNCHANGED <<caller, incoming>>
    BY <1>14 DEF DropHost, connections
  <2>2. nextJobId' = nextJobId
    BY <2>1 DEF Shutdown
  <2> QED BY <1>3, <2>1, <2>2 DEF Next
<1>15. CASE ExecutorStopped
  <2>1. ShutdownReturns /\ CutConnections
    BY <1>15 DEF ExecutorStopped
  <2>2. nextJobId' = nextJobId
    BY <2>1 DEF ShutdownReturns
  <2> QED BY <1>4, <2>1, <2>2 DEF Next
<1>16. ASSUME NEW job \in threads, Finish(job) PROVE [Next]_vars /\ NumbersSuffice'
  <2>1. WorkerFinishes(job) /\ UNCHANGED <<caller, incoming>>
    BY <1>16 DEF Finish, connections
  <2>2. nextJobId' = nextJobId
    BY <2>1 DEF WorkerFinishes
  <2> QED BY <1>3, <2>1, <2>2 DEF Next
<1> QED BY <1>5, <1>6, <1>7, <1>8, <1>9, <1>10, <1>11, <1>12, <1>13, <1>14, <1>15, <1>16
        DEF NextHost, Task, Round

LEMMA NumbersSufficeAtFirst ==
  ASSUME IsFiniteSet(Requests), InitHost
  PROVE  NumbersSuffice
<1>1. Unsent = Requests /\ incoming = <<>> /\ nextJobId = 1
  BY DEF Unsent, InitHost, Init
<1>2. Cardinality(Requests) \in Nat
  BY FS_CardinalityType
<1> QED BY <1>1, <1>2 DEF NumbersSuffice

(* The host implements the executor: whatever callers, deadlines, restarts    *)
(* and a stop do, each of its steps is a whole handler of the executor with   *)
(* the guard that handler has, or leaves the executor as it is.  What is      *)
(* shown of the executor alone is so shown of it inside the host              *)
(* (src/service/webhooks.rs, accept_request, poll and drop).                  *)
THEOREM HostImplementsExecutor ==
  ASSUME IsFiniteSet(Requests)
  PROVE  FairSpecHost => Spec
<1>1. InitHost => Init /\ HostSafe /\ NumbersSuffice
  BY InitHostIsSafe, NumbersSufficeAtFirst DEF InitHost
<1>2. HostSafe /\ NumbersSuffice /\ [NextHost]_hostVars =>
        [Next]_vars /\ HostSafe' /\ NumbersSuffice'
  BY NextHostIsSafe, HostStepIsTheExecutors
<1> QED BY <1>1, <1>2, PTL DEF FairSpecHost, Spec

=============================================================================
