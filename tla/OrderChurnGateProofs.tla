------------------------ MODULE OrderChurnGateProofs ------------------------
(***************************************************************************)
(* Proofs about OrderChurnGate, for every set of ideal orders, window and   *)
(* allowance.                                                              *)
(*                                                                         *)
(* Two arguments are independent of each other.  FarRoom: at the admission  *)
(* a far create has room behind the attempts and all that was admitted      *)
(* before it, and every step until it enters keeps that room, because what  *)
(* enters before it either stood in front of it or is counted in overtaken. *)
(* EvidenceSinceStable: it is established by the plan that decides, from    *)
(* the appearances Reappears counts, and needs that the plans kept are no   *)
(* older than the last stable run (HistoryKept) and that decisions never    *)
(* outlive their plan (DecidedTypes).  The ages of the attempts stay sorted *)
(* (NewestFirst), so that dropping from the old end drops what is expired.  *)
(***************************************************************************)
EXTENDS OrderChurnGate, FiniteSetTheorems, SequenceTheorems, WellFoundedInduction, TLAPS

-----------------------------------------------------------------------------
(* Sequences and finite sets.                                               *)

\* A function on 1..n is a sequence.
LEMMA FunctionIsSeq ==
    ASSUME NEW S, NEW n \in Nat, NEW s \in [1..n -> S]
    PROVE  s \in Seq(S) /\ Len(s) = n
  OBVIOUS

\* The members of a sequence.
LEMMA MembersOf ==
    ASSUME NEW S, NEW s \in Seq(S)
    PROVE  /\ Len(s) \in Nat /\ DOMAIN s = 1..Len(s)
           /\ \A i \in 1..Len(s) : s[i] \in S
  OBVIOUS

\* The first n members of a sequence.
LEMMA FirstPart ==
    ASSUME NEW S, NEW s, NEW n \in Nat, \A i \in 1..n : s[i] \in S
    PROVE  /\ SubSeq(s, 1, n) \in Seq(S)
           /\ Len(SubSeq(s, 1, n)) = n
           /\ \A i \in 1..n : SubSeq(s, 1, n)[i] = s[i]
<1> DEFINE part == SubSeq(s, 1, n)
<1>1. /\ part \in Seq(S)
      /\ Len(part) = IF 1 <= n THEN n - 1 + 1 ELSE 0
      /\ \A i \in 1..(n - 1 + 1) : part[i] = s[1 + i - 1]
    BY SubSeqProperties
<1>2. n - 1 + 1 = n
    OBVIOUS
<1> HIDE DEF part
<1>3. Len(part) = n
    BY <1>1, <1>2
<1>4. ASSUME NEW i \in 1..n
      PROVE  part[i] = s[i]
    <2>1. 1 + i - 1 = i
        OBVIOUS
    <2> QED
        BY <1>1, <1>2, <2>1
<1> QED
    BY <1>1, <1>3, <1>4 DEF part

\* As many numbers as one counts to.
LEMMA CountTo ==
    ASSUME NEW n \in Nat
    PROVE  IsFiniteSet(1..n) /\ Cardinality(1..n) = n
<1>1. n \in Int /\ 1 \in Int /\ (1 > n => n = 0) /\ n - 1 + 1 = n
    OBVIOUS
<1> QED
    BY <1>1, FS_Interval

\* A part that leaves something out is smaller.
LEMMA SmallerPart ==
    ASSUME NEW T, IsFiniteSet(T), NEW S \in SUBSET T, S # T
    PROVE  Cardinality(S) < Cardinality(T)
<1>1. Cardinality(S) <= Cardinality(T) /\ Cardinality(S) # Cardinality(T)
    BY FS_Subset
<1>2. Cardinality(S) \in Nat /\ Cardinality(T) \in Nat
    BY FS_Subset, FS_CardinalityType
<1> QED
    BY <1>1, <1>2

\* The order of the naturals, as the relation of the well-founded-order theorems.
Below == {p \in Nat \X Nat : p[1] < p[2]}

\* The naturals have no endless descent.
LEMMA BelowWellFounded == IsWellFoundedOn(Below, Nat)
    BY NatLessThanWellFounded DEF OpToRel, Below

\* A non-empty set of naturals has the minimum Min names.
LEMMA MinOfNaturals ==
    ASSUME NEW S, S \subseteq Nat, S # {}
    PROVE  Min(S) \in S /\ \A y \in S : Min(S) <= y
<1>1. PICK x \in S : \A y \in S : ~ (<<y, x>> \in Below)
    BY WFMin, BelowWellFounded
<1>2. \A y \in S : x <= y
    <2> TAKE y \in S
    <2>1. x \in Nat /\ y \in Nat
        OBVIOUS
    <2>2. y < x => <<y, x>> \in Below
        BY <2>1 DEF Below
    <2> QED
        BY <1>1, <2>1, <2>2
<1> QED
    BY <1>2 DEF Min

\* Places that reach down to the first one are the first ones, as many as they are.
LEMMA FirstPlaces ==
    ASSUME NEW n \in Nat, NEW A \in SUBSET (1..n),
           \A i \in A : \A j \in 1..n : j < i => j \in A
    PROVE  /\ Cardinality(A) \in 0..n
           /\ A = 1..Cardinality(A)
<1> DEFINE Out == {k \in 1..(n + 1) : k \notin A}
<1>1. Out \subseteq Nat /\ n + 1 \in Out
    OBVIOUS
<1>2. PICK k \in Out : \A y \in Out : k <= y
    BY <1>1, MinOfNaturals
<1>3. k \in 1..(n + 1) /\ k \notin A
    BY <1>2
<1>4. A = 1..(k - 1)
    <2>1. ASSUME NEW j \in A
          PROVE  j \in 1..(k - 1)
        <3>1. j \in 1..n /\ ~ (k < j) /\ k # j
            BY <1>3
        <3> QED
            BY <1>3, <3>1
    <2>2. ASSUME NEW j \in 1..(k - 1)
          PROVE  j \in A
        <3>1. j \in 1..(n + 1) /\ ~ (k <= j)
            BY <1>3
        <3> QED
            BY <1>2, <3>1
    <2> QED
        BY <2>1, <2>2
<1>5. Cardinality(1..(k - 1)) = k - 1
    <2>1. k - 1 \in Nat
        BY <1>3
    <2> QED
        BY <2>1, CountTo
<1> HIDE DEF Out
<1> QED
    BY <1>3, <1>4, <1>5

\* The k-th place of an increasing sequence has k - 1 places before it.
LEMMA PlacesBefore ==
    ASSUME NEW A, IsFiniteSet(A), A \subseteq Nat, NEW n \in Nat, NEW place \in [1..n -> A],
           \A i, j \in 1..n : i < j => place[i] < place[j],
           NEW k \in 1..n
    PROVE  /\ Cardinality({j \in A : j < place[k]}) \in Nat
           /\ k - 1 <= Cardinality({j \in A : j < place[k]})
<1> DEFINE T == {j \in A : j < place[k]}
           f == [i \in 1..(k - 1) |-> place[i]]
<1>1. IsFiniteSet(T) /\ Cardinality(T) \in Nat
    BY FS_Subset, FS_CardinalityType
<1>2. f \in Injection(1..(k - 1), T)
    <2>1. \A i \in 1..(k - 1) : place[i] \in T
        OBVIOUS
    <2>2. \A i, j \in 1..(k - 1) : place[i] = place[j] => i = j
        <3>1. \A i \in 1..n : place[i] \in Nat
            OBVIOUS
        <3>2. \A i, j \in 1..n : place[i] = place[j] => ~ (i < j)
            BY <3>1
        <3>3. \A i \in 1..(k - 1) : i \in 1..n
            OBVIOUS
        <3> QED
            BY <3>2, <3>3
    <2> HIDE DEF T
    <2>3. f \in [1..(k - 1) -> T]
        BY <2>1
    <2>4. \A i, j \in 1..(k - 1) : f[i] = f[j] => i = j
        BY <2>2
    <2> HIDE DEF f
    <2> QED
        BY <2>3, <2>4 DEF Injection, IsInjective
<1>3. Cardinality(1..(k - 1)) = k - 1
    <2>1. k - 1 \in Nat
        OBVIOUS
    <2> QED
        BY <2>1, CountTo
<1>4. Cardinality(1..(k - 1)) <= Cardinality(T)
    BY <1>1, <1>2, FS_Injection
<1> QED
    BY <1>1, <1>3, <1>4

\* The last place of a set of places that follow a place of it without a gap.
LEMMA LastInARow ==
    ASSUME NEW n \in Nat, NEW there \in SUBSET (1..n), NEW i \in there
    PROVE  \E j \in there : i <= j /\ j + 1 \notin there
<1> DEFINE out == {k \in (i + 1)..(n + 1) : k \notin there}
<1>1. i \in 1..n /\ i \in Nat
    OBVIOUS
<1>2. out \subseteq Nat /\ n + 1 \in out
    BY <1>1
<1>3. Min(out) \in out /\ \A y \in out : Min(out) <= y
    BY <1>2, MinOfNaturals
<1>4. PICK k \in (i + 1)..(n + 1) : k \notin there /\ \A y \in out : k <= y
    BY <1>3
<1>5. k - 1 \in there
    <2>1. CASE k = i + 1
        BY <1>1, <2>1
    <2>2. CASE k # i + 1
        <3>1. k - 1 \in (i + 1)..(n + 1) /\ ~ (k <= k - 1)
            BY <1>1, <1>4, <2>2
        <3> QED
            BY <1>4, <3>1
    <2> QED
        BY <2>1, <2>2
<1>6. i <= k - 1 /\ k - 1 + 1 = k
    BY <1>1, <1>4
<1> QED
    BY <1>4, <1>5, <1>6

-----------------------------------------------------------------------------
(* What the history proves.                                                 *)

\* How far a sequence goes before its first broken member.
LEMMA PrefixIs ==
    ASSUME NEW n \in Nat \ {0}, NEW broken \in SUBSET (2..n),
           NEW k, k = IF broken = {} THEN n ELSE Min(broken) - 1
    PROVE  k \in 1..n /\ \A i \in 2..k : i \notin broken
<1>1. CASE broken = {}
    BY <1>1
<1>2. CASE broken # {}
    <2>1. broken \subseteq Nat
        OBVIOUS
    <2>2. Min(broken) \in broken /\ \A y \in broken : Min(broken) <= y
        BY <1>2, <2>1, MinOfNaturals
    <2>3. PICK m \in 2..n : m = Min(broken) /\ \A y \in broken : m <= y
        BY <2>2
    <2>4. k = m - 1
        BY <1>2, <2>3
    <2> QED
        BY <2>1, <2>3, <2>4
<1> QED
    BY <1>1, <1>2

\* Plans, newest first, no two of the same age.
Aged(samples) ==
    /\ samples \in Seq([age : Nat, orders : Ideals])
    /\ \A i, j \in 1..Len(samples) : i < j => samples[i].age < samples[j].age

\* The plans of an aged history are plans.
LEMMA AgedType ==
    ASSUME NEW samples, Aged(samples)
    PROVE  /\ Len(samples) \in Nat /\ DOMAIN samples = 1..Len(samples)
           /\ \A i \in 1..Len(samples) : samples[i] \in [age : Nat, orders : Ideals]
<1>1. samples \in Seq([age : Nat, orders : Ideals])
    BY DEF Aged
<1> DEFINE S == [age : Nat, orders : Ideals]
<1>2. samples \in Seq(S)
    BY <1>1
<1> HIDE DEF S
<1>3. /\ Len(samples) \in Nat /\ DOMAIN samples = 1..Len(samples)
      /\ \A i \in 1..Len(samples) : samples[i] \in S
    BY <1>2
<1> QED
    BY <1>3 DEF S

\* Pruning keeps the newest plans, those young enough.
LEMMA PrunedIs ==
    ASSUME NEW samples, Aged(samples), NEW oldest \in Nat
    PROVE  /\ Aged(Pruned(samples, oldest))
           /\ \A i \in 1..Len(Pruned(samples, oldest)) :
                 /\ Pruned(samples, oldest)[i].age <= oldest
                 /\ i \in 1..Len(samples) /\ Pruned(samples, oldest)[i] = samples[i]
           /\ (\A i \in 1..Len(samples) : samples[i].age <= oldest)
                 => Pruned(samples, oldest) = samples
<1> DEFINE young == {i \in DOMAIN samples : samples[i].age <= oldest}
           n == Cardinality(young)
           kept == SubSeq(samples, 1, n)
<1>1. /\ Len(samples) \in Nat /\ DOMAIN samples = 1..Len(samples)
      /\ \A i \in 1..Len(samples) : samples[i] \in [age : Nat, orders : Ideals]
    BY AgedType
<1>2. \A i \in young : \A j \in 1..Len(samples) : j < i => j \in young
    <2> TAKE i \in young
    <2> TAKE j \in 1..Len(samples)
    <2>1. samples[i].age <= oldest /\ samples[i].age \in Nat /\ samples[j].age \in Nat
        BY <1>1
    <2>2. j < i => samples[j].age < samples[i].age
        BY <1>1 DEF Aged
    <2> QED
        BY <1>1, <2>1, <2>2
<1>3. n \in 0..Len(samples) /\ young = 1..n
    <2>1. young \in SUBSET (1..Len(samples))
        BY <1>1
    <2> HIDE DEF young
    <2> QED
        BY <1>1, <1>2, <2>1, FirstPlaces
<1> HIDE DEF n
<1>4. /\ kept \in Seq([age : Nat, orders : Ideals]) /\ Len(kept) = n
      /\ \A i \in 1..n : kept[i] = samples[i]
    <2>1. n \in Nat /\ \A i \in 1..n : samples[i] \in [age : Nat, orders : Ideals]
        BY <1>1, <1>3
    <2> QED
        BY <2>1, FirstPart
<1>5. Pruned(samples, oldest) = kept
    BY DEF Pruned, n
<1>6. (\A i \in 1..Len(samples) : samples[i].age <= oldest) => kept = samples
    <2> SUFFICES ASSUME \A i \in 1..Len(samples) : samples[i].age <= oldest
                 PROVE  kept = samples
        OBVIOUS
    <2>1. young = 1..Len(samples)
        BY <1>1
    <2>2. n = Len(samples)
        <3>1. Cardinality(1..Len(samples)) = Len(samples)
            BY <1>1, CountTo
        <3> QED
            BY <2>1, <3>1 DEF n
    <2> HIDE DEF kept, young
    <2>3. samples \in Seq([age : Nat, orders : Ideals])
        BY DEF Aged
    <2> QED
        BY <1>4, <2>2, <2>3
<1>7. \A i \in 1..n : i \in 1..Len(samples) /\ samples[i].age <= oldest
    BY <1>1, <1>3
<1>8. \A i, j \in 1..n : i < j => kept[i].age < kept[j].age
    BY <1>1, <1>3, <1>4 DEF Aged
<1> HIDE DEF kept
<1> QED
    BY <1>4, <1>5, <1>6, <1>7, <1>8 DEF Aged

\* A new plan in front of older ones.
LEMMA PlanInFront ==
    ASSUME NEW older, Aged(older), \A i \in 1..Len(older) : older[i].age > 0,
           NEW wanted \in Ideals
    PROVE  LET samples == <<[age |-> 0, orders |-> wanted]>> \o older
           IN  /\ Aged(samples) /\ Len(samples) = Len(older) + 1
               /\ samples[1] = [age |-> 0, orders |-> wanted]
               /\ \A i \in 1..Len(older) : samples[i + 1] = older[i]
<1> DEFINE new == [age |-> 0, orders |-> wanted]
           samples == <<new>> \o older
<1>1. /\ Len(older) \in Nat /\ older \in Seq([age : Nat, orders : Ideals])
      /\ \A i \in 1..Len(older) : older[i] \in [age : Nat, orders : Ideals]
    BY AgedType DEF Aged
<1>2. new \in [age : Nat, orders : Ideals] /\ new.age = 0
    OBVIOUS
<1> HIDE DEF new
<1>3. /\ samples \in Seq([age : Nat, orders : Ideals])
      /\ Len(samples) = Len(older) + 1
      /\ samples[1] = new
      /\ \A i \in 1..Len(older) : samples[i + 1] = older[i]
    BY <1>1, <1>2
<1> HIDE DEF samples
<1>4. ASSUME NEW i \in 1..Len(samples), NEW j \in 1..Len(samples), i < j
      PROVE  samples[i].age < samples[j].age
    <2>1. j - 1 \in 1..Len(older) /\ samples[j] = older[j - 1]
        <3>1. j - 1 \in 1..Len(older) /\ j - 1 + 1 = j
            BY <1>1, <1>3, <1>4
        <3> QED
            BY <1>3, <3>1
    <2>2. CASE i = 1
        <3>1. older[j - 1].age \in Nat /\ older[j - 1].age > 0
            BY <1>1, <2>1
        <3> QED
            BY <1>2, <1>3, <2>1, <2>2, <3>1
    <2>3. CASE i # 1
        <3>1. i - 1 \in 1..Len(older) /\ i - 1 + 1 = i /\ i - 1 < j - 1
            BY <1>1, <1>3, <1>4, <2>3
        <3>2. samples[i] = older[i - 1]
            BY <1>3, <3>1
        <3> QED
            BY <2>1, <3>1, <3>2 DEF Aged
    <2> QED
        BY <2>2, <2>3
<1> QED
    BY <1>3, <1>4 DEF Aged, samples, new

\* The orders of one cohort in their places: each place holds one of them.
LEMMA SortedIs ==
    ASSUME NEW S, S \subseteq Orders,
           \A o, p \in S : o.cohort = p.cohort
    PROVE  /\ Cardinality(S) \in Nat
           /\ \A rung \in 1..Cardinality(S) : Sorted(S)[rung] \in S
<1> DEFINE n == Cardinality(S)
           Rank(o) == Cardinality({p \in S : Before(p, o)})
<1>1. IsFiniteSet(S) /\ n \in Nat
    BY ChurnAssumption, FS_Subset, FS_CardinalityType
<1>2. \A o \in S : /\ IsFiniteSet({p \in S : Before(p, o)})
                   /\ Rank(o) \in Nat
    BY <1>1, FS_Subset, FS_CardinalityType
<1>3. \A o \in S : o.price \in Nat /\ o.qty \in Nat
    BY ChurnAssumption
<1>4. \A o \in S : ~ Before(o, o)
    BY <1>3 DEF Before
<1>5. \A o, p \in S : Before(o, p) \/ Before(p, o) \/ o = p
    <2> TAKE o, p \in S
    <2>1. /\ o \in [cohort : Cohorts, price : Nat \ {0}, qty : Nat \ {0}]
          /\ p \in [cohort : Cohorts, price : Nat \ {0}, qty : Nat \ {0}]
        BY ChurnAssumption
    <2>2. o.cohort = p.cohort
        OBVIOUS
    <2>3. o.price = p.price /\ o.qty = p.qty => o = p
        BY <2>1, <2>2
    <2> QED
        BY <1>3, <2>3 DEF Before
<1>6. \A o, p, q \in S : Before(o, p) /\ Before(p, q) => Before(o, q)
    BY <1>3 DEF Before
<1>7. \A o, p \in S : Before(o, p) => Rank(o) < Rank(p)
    <2> SUFFICES ASSUME NEW o \in S, NEW p \in S, Before(o, p)
                 PROVE  Rank(o) < Rank(p)
        OBVIOUS
    <2>1. {q \in S : Before(q, o)} \subseteq {q \in S : Before(q, p)}
        BY <1>6
    <2>2. o \in {q \in S : Before(q, p)} /\ o \notin {q \in S : Before(q, o)}
        BY <1>4
    <2>3. {q \in S : Before(q, o)} # {q \in S : Before(q, p)}
        BY <2>2
    <2> QED
        BY <1>2, <2>1, <2>3, SmallerPart
<1>8. \A o \in S : Rank(o) \in 0..(n - 1)
    <2> TAKE o \in S
    <2>1. {q \in S : Before(q, o)} \subseteq S /\ o \notin {q \in S : Before(q, o)}
        BY <1>4
    <2>2. Rank(o) < n
        BY <1>1, <2>1, SmallerPart
    <2> QED
        BY <1>1, <1>2, <2>2
<1> DEFINE f == [o \in S |-> Rank(o)]
<1>9. f \in Injection(S, 0..(n - 1))
    <2>1. f \in [S -> 0..(n - 1)]
        BY <1>8
    <2>2. \A o, p \in S : Rank(o) = Rank(p) => o = p
        <3> SUFFICES ASSUME NEW o \in S, NEW p \in S, Rank(o) = Rank(p)
                     PROVE  o = p
            OBVIOUS
        <3>1. Rank(o) \in Nat /\ Rank(p) \in Nat
            BY <1>2
        <3>2. ~ (Rank(o) < Rank(p)) /\ ~ (Rank(p) < Rank(o))
            <4> HIDE DEF Rank
            <4> QED
                BY <3>1
        <3> HIDE DEF Rank
        <3> QED
            BY <1>5, <1>7, <3>2
    <2>3. \A o, p \in S : f[o] = f[p] => o = p
        BY <2>2
    <2> HIDE DEF f
    <2> QED
        BY <2>1, <2>3 DEF Injection, IsInjective
<1>10. IsFiniteSet(0..(n - 1)) /\ Cardinality(0..(n - 1)) = n
    <2>1. n - 1 \in Int /\ 0 \in Int /\ (0 > n - 1 => n = 0)
        BY <1>1
    <2>2. n - 1 - 0 + 1 = n
        BY <1>1
    <2> QED
        BY <2>1, <2>2, FS_Interval
<1>11. f \in Surjection(S, 0..(n - 1))
    <2>1. Cardinality(S) = Cardinality(0..(n - 1))
        BY <1>10
    <2> HIDE DEF f, n
    <2> QED
        BY <1>9, <1>10, <2>1, FS_Injection
<1>12. ASSUME NEW rung \in 1..n
       PROVE  Sorted(S)[rung] \in S
    <2>1. rung - 1 \in 0..(n - 1)
        BY <1>1
    <2>2. PICK x \in S : f[x] = rung - 1
        <3> HIDE DEF f, n
        <3> QED
            BY <1>11, <2>1 DEF Surjection
    <2>3. \E o \in S : Cardinality({p \in S : Before(p, o)}) = rung - 1
        BY <2>2
    <2>4. (CHOOSE o \in S : Cardinality({p \in S : Before(p, o)}) = rung - 1) \in S
        BY <2>3
    <2> QED
        BY <2>4 DEF Sorted
<1> QED
    BY <1>1, <1>12

\* A cohort of a plan has a place for each of its orders.
LEMMA GroupIs ==
    ASSUME NEW sample, sample.orders \in Ideals, NEW c \in CohortsOf(sample)
    PROVE  /\ c \in Cohorts /\ sample.orders \subseteq Orders
           /\ \E n \in Nat \ {0} : DOMAIN Group(sample, c) = 1..n
           /\ \A rung \in DOMAIN Group(sample, c) :
                 Group(sample, c)[rung] \in sample.orders /\ Group(sample, c)[rung].cohort = c
<1> DEFINE S == {o \in sample.orders : o.cohort = c}
<1>1. sample.orders \subseteq Orders
    BY DEF Orders
<1>2. PICK o \in sample.orders : o.cohort = c
    BY DEF CohortsOf
<1>3. c \in Cohorts
    BY <1>1, <1>2 DEF Cohorts
<1>4. Group(sample, c) = Sorted(S)
    BY <1>3 DEF Group, GroupIn
<1>5. S \subseteq Orders /\ \A p, q \in S : p.cohort = q.cohort
    BY <1>1
<1>6. Cardinality(S) \in Nat \ {0}
    <2>1. o \in S
        BY <1>2
    <2>2. IsFiniteSet(S)
        BY <1>5, ChurnAssumption, FS_Subset
    <2> HIDE DEF S
    <2>3. Cardinality(S) # 0
        BY <2>1, <2>2, FS_EmptySet
    <2> QED
        BY <1>5, <2>3, SortedIs
<1>7. DOMAIN Sorted(S) = 1..Cardinality(S)
    BY DEF Sorted
<1>8. \A rung \in 1..Cardinality(S) : Sorted(S)[rung] \in S
    BY <1>5, SortedIs
<1> QED
    BY <1>1, <1>3, <1>4, <1>6, <1>7, <1>8

\* A plan has finitely many cohorts.
LEMMA CohortsFinite ==
    ASSUME NEW sample, sample.orders \in Ideals
    PROVE  IsFiniteSet(CohortsOf(sample))
<1>1. IsFiniteSet(sample.orders)
    <2>1. sample.orders \in SUBSET Orders
        BY DEF Orders
    <2> QED
        BY <2>1, ChurnAssumption, FS_Subset
<1> DEFINE f == [o \in sample.orders |-> o.cohort]
<1>2. f \in Surjection(sample.orders, CohortsOf(sample))
    <2>1. f \in [sample.orders -> CohortsOf(sample)]
        BY DEF CohortsOf
    <2>2. \A c \in CohortsOf(sample) : \E o \in sample.orders : f[o] = c
        BY DEF CohortsOf
    <2> HIDE DEF f
    <2> QED
        BY <2>1, <2>2 DEF Surjection
<1> HIDE DEF f
<1> QED
    BY <1>1, <1>2, FS_Surjection

\* What a plan's orders are judged: each with its reason.
LEMMA DecisionsAre ==
    ASSUME NEW samples, samples[1].orders \in Ideals, NEW d \in Decisions(samples)
    PROVE  /\ d \in [order : Orders, reason : {"stable", "reappearance", "drift", "open"}]
           /\ d.order.cohort \in CohortsOf(samples[1])
           /\ d.reason = "reappearance" => Reappears(samples, d.order.cohort)
<1>1. PICK c \in CohortsOf(samples[1]) : \E rung \in DOMAIN Group(samples[1], c) :
         d = [order |-> Group(samples[1], c)[rung], reason |-> Decision(samples, c, rung)]
    BY DEF Decisions
<1>2. PICK rung \in DOMAIN Group(samples[1], c) :
         d = [order |-> Group(samples[1], c)[rung], reason |-> Decision(samples, c, rung)]
    BY <1>1
<1>3. d.order \in Orders /\ d.order.cohort = c
    BY <1>2, GroupIs
<1>4. d.reason \in {"stable", "reappearance", "drift", "open"}
    BY <1>2 DEF Decision
<1>5. d.reason = "reappearance" => Reappears(samples, c)
    BY <1>2 DEF Decision
<1>6. d \in [order : Orders, reason : {"stable", "reappearance", "drift", "open"}]
    BY <1>2, <1>3, <1>4
<1> QED
    BY <1>3, <1>5, <1>6

\* A track is as long as the run of plans it is taken from.
LEMMA TrackLengthIs ==
    ASSUME NEW samples, Aged(samples), Len(samples) > 0, NEW c
    PROVE  TrackLength(samples, c) \in 1..Len(samples)
<1> DEFINE broken == {i \in 2..Len(samples) :
                        ~ (/\ InCadence(samples, i)
                           /\ Len(Group(samples[i], c)) = Len(Group(samples[1], c)))}
<1>1. TrackLength(samples, c) = IF broken = {} THEN Len(samples) ELSE Min(broken) - 1
    BY DEF TrackLength, Prefix
<1>2. Len(samples) \in Nat \ {0} /\ broken \in SUBSET (2..Len(samples))
    BY DEF Aged
<1> HIDE DEF broken
<1> QED
    BY <1>1, <1>2, PrefixIs

\* A track is tight with its newest plan, at least, up to one of its plans.
LEMMA TightCountIs ==
    ASSUME NEW n \in Nat \ {0}, NEW track, Len(track) = n
    PROVE  TightCount(track) + 1 \in 1..n
<1> DEFINE broken == {i \in 2..n : ~ Tight(track[1], track[i])}
           k == IF broken = {} THEN n ELSE Min(broken) - 1
<1>1. TightCount(track) = k - 1
    BY DEF TightCount, Prefix
<1>2. k \in 1..n
    <2>1. broken \in SUBSET (2..n)
        OBVIOUS
    <2> HIDE DEF broken
    <2> QED
        BY <2>1, PrefixIs
<1> HIDE DEF k
<1> QED
    BY <1>1, <1>2

\* The stable run reaches back to one of its plans.
LEMMA StablePrefixIs ==
    ASSUME NEW samples, Aged(samples), Len(samples) > 0, StableRun(samples),
           \A i \in 1..Len(samples) : samples[i].age <= Window
    PROVE  StablePrefix(samples) \in 0..Window
<1> DEFINE c == CHOOSE c \in CohortsOf(samples[1]) : TRUE
           ages == {samples[TightCount(Track(samples, c, rung)) + 1].age :
                       rung \in DOMAIN Group(samples[1], c)}
<1>1. /\ Len(samples) \in Nat \ {0}
      /\ \A i \in 1..Len(samples) : samples[i] \in [age : Nat, orders : Ideals]
    BY AgedType
<1>2. c \in CohortsOf(samples[1])
    <2>1. CohortsOf(samples[1]) # {}
        <3>1. Cardinality(CohortsOf(samples[1])) = 1
            BY DEF StableRun
        <3> QED
            BY <3>1, FS_EmptySet
    <2> QED
        BY <2>1
<1>3. StablePrefix(samples) = Min(ages)
    BY DEF StablePrefix
<1> HIDE DEF c
<1>4. ages # {}
    <2>1. samples[1].orders \in Ideals
        BY <1>1
    <2>2. PICK n \in Nat \ {0} : DOMAIN Group(samples[1], c) = 1..n
        BY <1>2, <2>1, GroupIs
    <2>3. 1 \in DOMAIN Group(samples[1], c)
        BY <2>2
    <2> QED
        BY <2>3
<1>5. ages \subseteq 0..Window
    <2> SUFFICES ASSUME NEW rung
                 PROVE  samples[TightCount(Track(samples, c, rung)) + 1].age \in 0..Window
        OBVIOUS
    <2> DEFINE track == Track(samples, c, rung)
    <2>1. TrackLength(samples, c) \in 1..Len(samples)
        BY TrackLengthIs
    <2>2. Len(track) = TrackLength(samples, c)
        <3>1. DOMAIN track = 1..TrackLength(samples, c)
            BY DEF Track
        <3> DEFINE values == {track[i] : i \in 1..TrackLength(samples, c)}
        <3>2. \E s \in [1..TrackLength(samples, c) -> values] : s = track
            BY DEF Track
        <3> HIDE DEF track
        <3>3. TrackLength(samples, c) \in Nat
            BY <2>1
        <3> QED
            BY <3>2, <3>3, FunctionIsSeq
    <2> HIDE DEF track
    <2>3. TightCount(track) + 1 \in 1..Len(samples)
        <3>1. TrackLength(samples, c) \in Nat \ {0}
            BY <2>1
        <3>2. TightCount(track) + 1 \in 1..TrackLength(samples, c)
            BY <2>2, <3>1, TightCountIs
        <3> QED
            BY <1>1, <2>1, <3>2
    <2>4. /\ samples[TightCount(track) + 1].age \in Nat
          /\ samples[TightCount(track) + 1].age <= Window
        BY <1>1, <2>3
    <2>5. Window \in Nat
        BY ChurnAssumption
    <2> QED
        BY <2>4, <2>5 DEF track
<1>6. ages \subseteq Nat
    BY <1>5
<1> HIDE DEF ages
<1> QED
    BY <1>3, <1>4, <1>5, <1>6, MinOfNaturals

\* A cohort that comes back for the third time was there three times.
LEMMA ThreeTimes ==
    ASSUME NEW samples, Aged(samples), Len(samples) > 0, NEW c, Reappears(samples, c)
    PROVE  LET there == {i \in DOMAIN samples : c \in CohortsOf(samples[i])}
           IN  Cardinality({i \in there : i + 1 \notin there}) >= 3
<1> DEFINE there == {i \in DOMAIN samples : c \in CohortsOf(samples[i])}
           starts == RunStarts(samples, c)
           ends == {i \in there : i + 1 \notin there}
           broken == {i \in 2..Len(samples) :
                        ~ (/\ InCadence(samples, i)
                           /\ Cardinality(CohortsOf(samples[i])) = 1
                           /\ \A j \in 1..(i-1) :
                                 CohortsOf(samples[j]) = CohortsOf(samples[i])
                                   => Cardinality(samples[j].orders)
                                        = Cardinality(samples[i].orders))}
           n == ExclusiveLength(samples)
<1>1. Len(samples) \in Nat \ {0} /\ DOMAIN samples = 1..Len(samples)
    BY AgedType
<1>2. n \in 1..Len(samples) /\ \A i \in 2..n : Cardinality(CohortsOf(samples[i])) = 1
    <2>1. n = IF broken = {} THEN Len(samples) ELSE Min(broken) - 1
        BY DEF ExclusiveLength, Prefix
    <2>2. broken \in SUBSET (2..Len(samples))
        OBVIOUS
    <2> HIDE DEF n
    <2>3. n \in 1..Len(samples) /\ \A i \in 2..n : i \notin broken
        <3>1. Len(samples) \in Nat \ {0}
            BY <1>1
        <3> HIDE DEF broken
        <3> DEFINE k == IF broken = {} THEN Len(samples) ELSE Min(broken) - 1
        <3>2. k \in 1..Len(samples) /\ \A i \in 2..k : i \notin broken
            BY <2>2, <3>1, PrefixIs
        <3>3. n = k
            BY <2>1
        <3> HIDE DEF k
        <3> QED
            BY <3>2, <3>3
    <2>4. \A i \in 2..n : i \in 2..Len(samples)
        BY <1>1, <2>3
    <2>5. \A i \in 2..n : Cardinality(CohortsOf(samples[i])) = 1
        BY <2>3, <2>4
    <2> QED
        BY <2>3, <2>5
<1>3. starts = {i \in 1..n : /\ CohortsOf(samples[i]) = {c}
                             /\ i < n => CohortsOf(samples[i+1]) # {c}}
    BY DEF RunStarts
<1>4. Cardinality(starts) >= 3
    BY DEF Reappears
<1> HIDE DEF n, starts
<1>5. starts \subseteq there
    BY <1>1, <1>2, <1>3
<1>6. \A i \in starts : i # n => i \in ends
    <2> SUFFICES ASSUME NEW i \in starts, i # n
                 PROVE  i + 1 \notin there
        BY <1>5
    <2>1. i \in 1..n /\ n \in Nat /\ i + 1 \in 2..n /\ i < n
        BY <1>2, <1>3
    <2>2. CohortsOf(samples[i + 1]) # {c} /\ Cardinality(CohortsOf(samples[i + 1])) = 1
        BY <1>2, <1>3, <2>1
    <2>3. PICK x : CohortsOf(samples[i + 1]) = {x}
        <3>1. IsFiniteSet(CohortsOf(samples[i + 1]))
            <4>1. i + 1 \in 1..Len(samples)
                BY <1>2, <2>1
            <4>2. samples[i + 1].orders \in Ideals
                BY <4>1, AgedType
            <4> QED
                BY <4>2, CohortsFinite
        <3> QED
            BY <2>2, <3>1, FS_Singleton
    <2> QED
        BY <2>2, <2>3
<1>7. IsFiniteSet(there) /\ IsFiniteSet(ends) /\ IsFiniteSet(starts)
    <2>1. IsFiniteSet(1..Len(samples))
        BY <1>1, CountTo
    <2>2. /\ there \in SUBSET (1..Len(samples))
          /\ ends \in SUBSET there /\ starts \in SUBSET there
        BY <1>1, <1>5
    <2> HIDE DEF ends
    <2>3. IsFiniteSet(there)
        BY <2>1, <2>2, FS_Subset
    <2> QED
        BY <2>2, <2>3, FS_Subset
<1>8. Cardinality(starts) \in Nat /\ Cardinality(ends) \in Nat
    BY <1>7, FS_CardinalityType
<1>9. CASE n \notin starts
    <2>1. starts \in SUBSET ends
        BY <1>6, <1>9
    <2>2. Cardinality(starts) <= Cardinality(ends)
        <3> HIDE DEF ends
        <3> QED
            BY <1>7, <2>1, FS_Subset
    <2> QED
        BY <1>4, <1>8, <2>2
<1>10. CASE n \in starts
    <2>1. there \in SUBSET (1..Len(samples)) /\ n \in there /\ Len(samples) \in Nat
        BY <1>1, <1>5, <1>10
    <2>2. PICK j \in there : n <= j /\ j + 1 \notin there
        BY <2>1, LastInARow
    <2> DEFINE rest == starts \ {n}
    <2>3. j \notin rest
        BY <1>2, <1>3, <2>1, <2>2
    <2>4. rest \cup {j} \in SUBSET ends
        BY <1>6, <2>2
    <2>5. Cardinality(rest) = Cardinality(starts) - 1 /\ IsFiniteSet(rest)
        BY <1>7, <1>10, FS_RemoveElement
    <2> HIDE DEF rest, ends
    <2>6. Cardinality(rest \cup {j}) = Cardinality(rest) + 1
        BY <2>3, <2>5, FS_AddElement
    <2>7. Cardinality(rest \cup {j}) <= Cardinality(ends)
        BY <1>7, <2>4, FS_Subset
    <2>8. Cardinality(ends) >= 3
        BY <1>4, <1>8, <2>5, <2>6, <2>7
    <2> QED
        BY <2>8 DEF ends
<1> QED
    BY <1>9, <1>10

-----------------------------------------------------------------------------
(* The creates on their way to the connector.                               *)

SendTypes ==
    /\ attempts \in Seq(Nat)
    /\ sending \in Seq({"far", "free"})
    /\ overtaken \in Nat

\* Every far create still to be sent has room behind all that may enter before it.
FarRoom ==
    \A i \in DOMAIN sending :
        sending[i] = "far" => Len(attempts) - overtaken + i <= ActivationCount

\* What is left of the creates after one was sent or refused.
LEMMA OneLess ==
    ASSUME NEW S, NEW s \in Seq(S), NEW i \in DOMAIN s
    PROVE  /\ RemoveAt(s, i) \in Seq(S)
           /\ Len(RemoveAt(s, i)) = Len(s) - 1
           /\ \A k \in 1..(Len(s) - 1) :
                 RemoveAt(s, i)[k] = IF k < i THEN s[k] ELSE s[k + 1]
<1>1. Len(s) \in Nat /\ DOMAIN s = 1..Len(s) /\ i \in 1..Len(s)
    OBVIOUS
<1> DEFINE a == SubSeq(s, 1, i - 1)
           b == SubSeq(s, i + 1, Len(s))
<1>2. a \in Seq(S) /\ Len(a) = i - 1 /\ \A k \in 1..(i - 1) : a[k] = s[k]
    BY <1>1, SubSeqProperties
<1>3. b \in Seq(S) /\ Len(b) = Len(s) - i /\ \A k \in 1..(Len(s) - i) : b[k] = s[i + k]
    <2>1. i + 1 \in 1..(Len(s) + 1) /\ Len(s) \in i..Len(s)
        BY <1>1
    <2> QED
        BY <1>1, <2>1, SubSeqProperties, SMTT(30)
<1>4. RemoveAt(s, i) = a \o b
    BY DEF RemoveAt
<1> HIDE DEF a, b
<1>5. /\ a \o b \in Seq(S)
      /\ Len(a \o b) = Len(s) - 1
      /\ \A k \in 1..(Len(s) - 1) : (a \o b)[k] = IF k <= i - 1 THEN a[k] ELSE b[k - (i - 1)]
    <2>1. /\ a \o b \in Seq(S)
          /\ Len(a \o b) = Len(a) + Len(b)
          /\ \A k \in 1..(Len(a) + Len(b)) :
                (a \o b)[k] = IF k <= Len(a) THEN a[k] ELSE b[k - Len(a)]
        BY <1>2, <1>3, ConcatProperties
    <2>2. Len(a) + Len(b) = Len(s) - 1
        BY <1>1, <1>2, <1>3
    <2> QED
        BY <1>2, <2>1, <2>2
<1>6. \A k \in 1..(Len(s) - 1) : (a \o b)[k] = IF k < i THEN s[k] ELSE s[k + 1]
    <2> TAKE k \in 1..(Len(s) - 1)
    <2>1. CASE k < i
        <3>1. k \in 1..(i - 1) /\ k <= i - 1
            BY <1>1, <2>1
        <3> QED
            BY <1>2, <1>5, <2>1, <3>1
    <2>2. CASE ~ (k < i)
        <3>1. /\ k - (i - 1) \in 1..(Len(s) - i) /\ ~ (k <= i - 1)
              /\ i + (k - (i - 1)) = k + 1
            BY <1>1, <2>2
        <3> QED
            BY <1>3, <1>5, <2>2, <3>1
    <2> QED
        BY <2>1, <2>2
<1> QED
    BY <1>4, <1>5, <1>6

\* The end of a wave drops attempts, and only the last send does so.
LEMMA ChargedIs ==
    ASSUME SendTypes, NEW ages \in Seq(Nat)
    PROVE  /\ Charged(ages) \in Seq(Nat)
           /\ Len(sending) > 1 => Charged(ages) = ages
<1>1. CASE Len(sending) > 1
    BY <1>1 DEF Charged
<1>2. CASE ~ (Len(sending) > 1)
    <2> DEFINE n == Min({ActivationCount, Len(ages)})
    <2>1. n \in Nat /\ n <= Len(ages)
        <3>1. ActivationCount \in Nat /\ Len(ages) \in Nat
            BY ChurnAssumption
        <3>2. \/ ActivationCount <= Len(ages)
              \/ Len(ages) <= ActivationCount
            BY <3>1
        <3>3. \E x \in {ActivationCount, Len(ages)} :
                 \A y \in {ActivationCount, Len(ages)} : x <= y
            BY <3>1, <3>2
        <3>4. /\ n \in {ActivationCount, Len(ages)}
              /\ \A y \in {ActivationCount, Len(ages)} : n <= y
            BY <3>3 DEF Min
        <3> HIDE DEF n
        <3> QED
            BY <3>1, <3>4
    <2> HIDE DEF n
    <2>2. SubSeq(ages, 1, n) \in Seq(Nat)
        BY <2>1, SubSeqProperties
    <2> QED
        BY <1>2, <2>2 DEF Charged, n
<1> QED
    BY <1>1, <1>2

\* One create enters the connector.
LEMMA EnterRoom ==
    ASSUME SendTypes, FarRoom, NEW i \in DOMAIN sending, Enter(i)
    PROVE  SendTypes' /\ FarRoom'
<1>1. /\ i = 1 \/ sending[i] = "free"
      /\ attempts' = Charged(<<0>> \o attempts)
      /\ sending' = RemoveAt(sending, i)
      /\ overtaken' = overtaken + IF \E j \in 1..(i-1) : sending[j] = "far" THEN 1 ELSE 0
    BY DEF Enter
<1>2. /\ Len(sending) \in Nat /\ Len(attempts) \in Nat /\ overtaken \in Nat /\ i \in Nat
      /\ 1 <= i /\ i <= Len(sending) /\ ActivationCount \in Nat
      /\ DOMAIN sending = 1..Len(sending)
    BY ChurnAssumption DEF SendTypes
<1>3. <<0>> \o attempts \in Seq(Nat) /\ Len(<<0>> \o attempts) = Len(attempts) + 1
    <2>1. <<0>> \in Seq(Nat) /\ Len(<<0>>) = 1
        OBVIOUS
    <2> QED
        BY <1>2, <2>1, ConcatProperties DEF SendTypes
<1>4. /\ sending' \in Seq({"far", "free"})
      /\ Len(sending') = Len(sending) - 1
      /\ \A k \in 1..(Len(sending) - 1) :
            sending'[k] = IF k < i THEN sending[k] ELSE sending[k + 1]
    BY <1>1, OneLess DEF SendTypes
<1>5. attempts' \in Seq(Nat) /\ (Len(sending) > 1 => attempts' = <<0>> \o attempts)
    BY <1>1, <1>3, ChargedIs
<1>6. overtaken' \in Nat
    BY <1>1, <1>2
<1>7. ASSUME NEW k \in DOMAIN sending', sending'[k] = "far"
      PROVE  Len(attempts') - overtaken' + k <= ActivationCount
    <2>1. /\ k \in 1..(Len(sending) - 1) /\ k \in Nat
          /\ DOMAIN sending' = 1..(Len(sending) - 1)
        BY <1>4
    <2>2. Len(attempts') = Len(attempts) + 1
        <3>1. Len(sending) > 1
            BY <1>2, <2>1
        <3> QED
            BY <1>3, <1>5, <3>1
    <2>3. CASE k < i
        <3>1. sending[k] = "far" /\ k \in DOMAIN sending /\ k \in 1..(i - 1)
            BY <1>2, <1>4, <1>7, <2>1, <2>3
        <3>2. overtaken' = overtaken + 1
            BY <1>1, <3>1
        <3>3. Len(attempts) - overtaken + k <= ActivationCount
            BY <3>1 DEF FarRoom
        <3> QED
            BY <1>2, <2>1, <2>2, <3>2, <3>3
    <2>4. CASE ~ (k < i)
        <3>1. sending[k + 1] = "far" /\ k + 1 \in DOMAIN sending
            BY <1>2, <1>4, <1>7, <2>1, <2>4
        <3>2. overtaken' >= overtaken
            BY <1>1, <1>2
        <3>3. Len(attempts) - overtaken + (k + 1) <= ActivationCount
            BY <3>1 DEF FarRoom
        <3> QED
            BY <1>2, <1>6, <2>1, <2>2, <3>2, <3>3
    <2> QED
        BY <2>3, <2>4
<1> QED
    BY <1>4, <1>5, <1>6, <1>7 DEF SendTypes, FarRoom

\* One create is held back: the others move up.
LEMMA RefuseRoom ==
    ASSUME SendTypes, FarRoom, NEW i \in DOMAIN sending, Refuse(i)
    PROVE  SendTypes' /\ FarRoom'
<1>1. /\ attempts' = Charged(attempts)
      /\ sending' = RemoveAt(sending, i)
      /\ overtaken' = overtaken
    BY DEF Refuse
<1>2. /\ Len(sending) \in Nat /\ Len(attempts) \in Nat /\ overtaken \in Nat /\ i \in Nat
      /\ 1 <= i /\ i <= Len(sending) /\ ActivationCount \in Nat
      /\ DOMAIN sending = 1..Len(sending)
    BY ChurnAssumption DEF SendTypes
<1>4. /\ sending' \in Seq({"far", "free"})
      /\ Len(sending') = Len(sending) - 1
      /\ \A k \in 1..(Len(sending) - 1) :
            sending'[k] = IF k < i THEN sending[k] ELSE sending[k + 1]
    BY <1>1, OneLess DEF SendTypes
<1>5. attempts' \in Seq(Nat) /\ (Len(sending) > 1 => attempts' = attempts)
    BY <1>1, ChargedIs DEF SendTypes
<1>6. ASSUME NEW k \in DOMAIN sending', sending'[k] = "far"
      PROVE  Len(attempts') - overtaken' + k <= ActivationCount
    <2>1. /\ k \in 1..(Len(sending) - 1) /\ k \in Nat
          /\ DOMAIN sending' = 1..(Len(sending) - 1)
        BY <1>4
    <2>2. attempts' = attempts
        <3>1. Len(sending) > 1
            BY <1>2, <2>1
        <3> QED
            BY <1>5, <3>1
    <2>3. PICK n \in DOMAIN sending : sending[n] = "far" /\ k <= n /\ n \in Nat
        <3>1. CASE k < i
            <4>1. sending[k] = "far" /\ k \in DOMAIN sending
                BY <1>2, <1>4, <1>6, <2>1, <3>1
            <4> QED
                BY <2>1, <4>1
        <3>2. CASE ~ (k < i)
            <4>1. sending[k + 1] = "far" /\ k + 1 \in DOMAIN sending
                BY <1>2, <1>4, <1>6, <2>1, <3>2
            <4> QED
                BY <2>1, <4>1
        <3> QED
            BY <3>1, <3>2
    <2>4. Len(attempts) - overtaken + n <= ActivationCount
        BY <2>3 DEF FarRoom
    <2> QED
        BY <1>1, <1>2, <2>1, <2>2, <2>3, <2>4
<1> QED
    BY <1>1, <1>2, <1>4, <1>5, <1>6 DEF SendTypes, FarRoom

\* The admission leaves room for each far create behind those admitted before it.
LEMMA AdmitRoom ==
    ASSUME SendTypes, Admit
    PROVE  SendTypes' /\ FarRoom'
<1>0. PICK wave \in Waves : \E admitted \in SUBSET DOMAIN wave :
        /\ AdmittedOf(wave, admitted)
        /\ \E place \in [1..Cardinality(admitted) -> admitted] :
              /\ \A k, n \in DOMAIN place : k < n => place[k] < place[n]
              /\ sending' = [k \in DOMAIN place |-> wave[place[k]]]
    BY DEF Admit
<1>1. PICK admitted \in SUBSET DOMAIN wave :
        /\ AdmittedOf(wave, admitted)
        /\ \E place \in [1..Cardinality(admitted) -> admitted] :
              /\ \A k, n \in DOMAIN place : k < n => place[k] < place[n]
              /\ sending' = [k \in DOMAIN place |-> wave[place[k]]]
    BY <1>0
<1>2. overtaken' = 0 /\ attempts' = attempts
    BY DEF Admit
<1>3. PICK m \in Nat : wave \in [1..m -> {"far", "blind", "free"}]
    BY DEF Waves
<1>4. IsFiniteSet(admitted) /\ admitted \subseteq Nat
    <2>1. admitted \in SUBSET (1..m)
        BY <1>3
    <2>2. IsFiniteSet(1..m)
        BY FS_Interval
    <2> QED
        BY <2>1, <2>2, FS_Subset
<1> DEFINE n == Cardinality(admitted)
<1>5. n \in Nat
    BY <1>4, FS_CardinalityType
<1>6. PICK place \in [1..n -> admitted] :
        /\ \A k, j \in 1..n : k < j => place[k] < place[j]
        /\ sending' = [k \in 1..n |-> wave[place[k]]]
    <2>1. PICK place \in [1..n -> admitted] :
        /\ \A k, j \in DOMAIN place : k < j => place[k] < place[j]
        /\ sending' = [k \in DOMAIN place |-> wave[place[k]]]
        BY <1>1
    <2>2. DOMAIN place = 1..n
        BY <2>1
    <2> QED
        BY <2>1, <2>2
<1> HIDE DEF n
<1>7. \A k \in 1..n : /\ wave[place[k]] \in {"far", "free"}
                      /\ wave[place[k]] = "far" =>
                            ProjectedUsage(admitted, place[k]) + 1 <= ActivationCount
    BY <1>1, <1>6 DEF AdmittedOf
<1>8. sending' \in Seq({"far", "free"}) /\ DOMAIN sending' = 1..n
    <2>1. sending' \in [1..n -> {"far", "free"}]
        BY <1>6, <1>7
    <2> QED
        BY <1>5, <2>1, FunctionIsSeq
<1>9. ASSUME NEW k \in 1..n, sending'[k] = "far"
      PROVE  Len(attempts) - 0 + k <= ActivationCount
    <2>1. ProjectedUsage(admitted, place[k]) + 1 <= ActivationCount
        BY <1>6, <1>7, <1>9
    <2>2. /\ Cardinality({j \in admitted : j < place[k]}) \in Nat
          /\ k - 1 <= Cardinality({j \in admitted : j < place[k]})
        BY <1>4, <1>5, <1>6, PlacesBefore
    <2>3. Len(attempts) \in Nat /\ k \in Nat /\ ActivationCount \in Nat
        BY <1>5, ChurnAssumption DEF SendTypes
    <2> QED
        BY <2>1, <2>2, <2>3 DEF ProjectedUsage
<1> QED
    BY <1>2, <1>8, <1>9 DEF SendTypes, FarRoom

\* Ages that become older one by one, and of which a first part stays.
LEMMA AgedIs ==
    ASSUME NEW ages \in Seq(Nat)
    PROVE  SubSeq([i \in DOMAIN ages |-> ages[i] + 1], 1,
                  Cardinality({i \in DOMAIN ages : ages[i] < Window})) \in Seq(Nat)
<1> DEFINE older == [i \in DOMAIN ages |-> ages[i] + 1]
           young == {i \in DOMAIN ages : ages[i] < Window}
<1>1. Len(ages) \in Nat /\ DOMAIN ages = 1..Len(ages)
    OBVIOUS
<1>2. \A i \in 1..Len(ages) : older[i] \in Nat
    BY <1>1
<1>3. Cardinality(young) \in Nat /\ Cardinality(young) <= Len(ages)
    <2>1. IsFiniteSet(1..Len(ages)) /\ Cardinality(1..Len(ages)) = Len(ages)
        BY <1>1, CountTo
    <2>2. young \in SUBSET (1..Len(ages))
        BY <1>1
    <2> HIDE DEF young
    <2>3. IsFiniteSet(young) /\ Cardinality(young) <= Cardinality(1..Len(ages))
        BY <2>1, <2>2, FS_Subset
    <2> QED
        BY <2>1, <2>3, FS_CardinalityType
<1> HIDE DEF older, young
<1>4. \A i \in 1..Cardinality(young) : older[i] \in Nat
    BY <1>1, <1>2, <1>3
<1>5. SubSeq(older, 1, Cardinality(young)) \in Seq(Nat)
    BY <1>3, <1>4, FirstPart
<1> QED
    BY <1>5 DEF older, young

-----------------------------------------------------------------------------
(* The attempts that are counted.                                           *)

\* The attempts of the window, newest first.
NewestFirst(ages) ==
    /\ ages \in Seq(0..Window)
    /\ \A i, j \in 1..Len(ages) : i < j => ages[i] <= ages[j]

\* A first part of the attempts, newest first.
LEMMA FirstAttempts ==
    ASSUME NEW ages, NewestFirst(ages), NEW n \in 0..Len(ages)
    PROVE  NewestFirst(SubSeq(ages, 1, n))
<1>1. Len(ages) \in Nat /\ n \in Nat /\ n <= Len(ages) /\ \A i \in 1..n : i \in 1..Len(ages)
    BY DEF NewestFirst
<1>2. \A i \in 1..n : ages[i] \in 0..Window
    <2>1. ages \in Seq(0..Window)
        BY DEF NewestFirst
    <2> QED
        BY <1>1, <2>1, MembersOf
<1> DEFINE part == SubSeq(ages, 1, n)
<1>3. /\ part \in Seq(0..Window)
      /\ Len(part) = n
      /\ \A i \in 1..n : part[i] = ages[i]
    BY <1>1, <1>2, FirstPart
<1> HIDE DEF part
<1>4. \A i, j \in 1..n : i < j => part[i] <= part[j]
    BY <1>1, <1>3 DEF NewestFirst
<1> QED
    BY <1>3, <1>4 DEF NewestFirst, part

\* What the end of a wave leaves of the attempts.
LEMMA ChargedNewestFirst ==
    ASSUME NEW ages, NewestFirst(ages)
    PROVE  NewestFirst(Charged(ages))
<1>1. CASE Len(sending) > 1
    BY <1>1 DEF Charged
<1>2. CASE ~ (Len(sending) > 1)
    <2> DEFINE S == {ActivationCount, Len(ages)}
    <2>1. ActivationCount \in Nat /\ Len(ages) \in Nat
        BY ChurnAssumption DEF NewestFirst
    <2>2. S \subseteq Nat /\ S # {} /\ Len(ages) \in S
        BY <2>1
    <2> HIDE DEF S
    <2>3. Min(S) \in S /\ \A y \in S : Min(S) <= y
        BY <2>2, MinOfNaturals
    <2>4. Min(S) \in 0..Len(ages)
        <3>1. Min(S) \in Nat /\ Min(S) <= Len(ages)
            BY <2>2, <2>3
        <3> QED
            BY <2>1, <3>1
    <2>5. NewestFirst(SubSeq(ages, 1, Min(S)))
        BY <2>4, FirstAttempts
    <2> QED
        BY <1>2, <2>5 DEF Charged, S
<1> QED
    BY <1>1, <1>2

\* An attempt just made is the newest.
LEMMA AttemptInFront ==
    ASSUME NEW ages, NewestFirst(ages)
    PROVE  NewestFirst(<<0>> \o ages)
<1>1. ages \in Seq(0..Window) /\ Len(ages) \in Nat /\ 0 \in 0..Window
    BY ChurnAssumption DEF NewestFirst
<1> DEFINE all == <<0>> \o ages
<1>2. /\ all \in Seq(0..Window) /\ Len(all) = Len(ages) + 1 /\ all[1] = 0
      /\ \A i \in 1..Len(ages) : all[i + 1] = ages[i]
    BY <1>1
<1> HIDE DEF all
<1>3. \A i \in 1..Len(all) : all[i] \in 0..Window
    BY <1>2, MembersOf
<1>4. ASSUME NEW i \in 1..Len(all), NEW j \in 1..Len(all), i < j
      PROVE  all[i] <= all[j]
    <2>1. CASE i = 1
        BY <1>2, <1>3, <2>1
    <2>2. CASE i # 1
        <3>1. /\ i - 1 \in 1..Len(ages) /\ j - 1 \in 1..Len(ages) /\ i - 1 < j - 1
              /\ i - 1 + 1 = i /\ j - 1 + 1 = j
            BY <1>1, <1>2, <1>4, <2>2
        <3>2. all[i] = ages[i - 1] /\ all[j] = ages[j - 1]
            BY <1>2, <3>1
        <3> QED
            BY <3>1, <3>2 DEF NewestFirst
    <2> QED
        BY <2>1, <2>2
<1> QED
    BY <1>2, <1>4 DEF NewestFirst, all

\* The attempts one tick later, without those that leave the window.
LEMMA AttemptsAge ==
    ASSUME NewestFirst(attempts), Tick
    PROVE  NewestFirst(attempts')
<1> DEFINE n == Cardinality({i \in DOMAIN attempts : attempts[i] < Window})
           older == [i \in DOMAIN attempts |-> attempts[i] + 1]
           young == {i \in DOMAIN attempts : attempts[i] < Window}
           part == SubSeq(older, 1, n)
<1>1. /\ Len(attempts) \in Nat /\ DOMAIN attempts = 1..Len(attempts)
      /\ \A i \in 1..Len(attempts) : attempts[i] \in 0..Window
    <2>1. attempts \in Seq(0..Window)
        BY DEF NewestFirst
    <2> QED
        BY <2>1, MembersOf
<1>2. attempts' = part
    BY DEF Tick
<1>3. Window \in Nat
    BY ChurnAssumption
<1>4. \A i \in young : \A j \in 1..Len(attempts) : j < i => j \in young
    <2> TAKE i \in young
    <2> TAKE j \in 1..Len(attempts)
    <2>1. attempts[i] \in 0..Window /\ attempts[j] \in 0..Window /\ attempts[i] < Window
        BY <1>1
    <2>2. j < i => attempts[j] <= attempts[i]
        BY <1>1 DEF NewestFirst
    <2> QED
        BY <1>1, <1>3, <2>1, <2>2
<1>5. n \in 0..Len(attempts) /\ young = 1..n
    <2>1. young \in SUBSET (1..Len(attempts))
        BY <1>1
    <2>2. n = Cardinality(young)
        OBVIOUS
    <2> HIDE DEF young, n
    <2> QED
        BY <1>1, <1>4, <2>1, <2>2, FirstPlaces
<1>6. \A i \in 1..n : i \in 1..Len(attempts) /\ attempts[i] < Window
    <2>1. \A i \in young : attempts[i] < Window
        OBVIOUS
    <2> HIDE DEF young, n
    <2> QED
        BY <1>5, <2>1
<1> HIDE DEF n, young
<1>7. \A i \in 1..n : older[i] = attempts[i] + 1 /\ older[i] \in 0..Window
    <2> TAKE i \in 1..n
    <2>1. older[i] = attempts[i] + 1
        BY <1>1, <1>6
    <2>2. attempts[i] \in 0..Window /\ attempts[i] < Window
        BY <1>1, <1>6
    <2> QED
        BY <1>3, <2>1, <2>2
<1> HIDE DEF older
<1>8. /\ part \in Seq(0..Window)
      /\ Len(part) = n
      /\ \A i \in 1..n : part[i] = older[i]
    <2>1. n \in Nat
        BY <1>5
    <2> QED
        BY <1>7, <2>1, FirstPart
<1> HIDE DEF part
<1>9. ASSUME NEW i \in 1..n, NEW j \in 1..n, i < j
      PROVE  part[i] <= part[j]
    <2>1. attempts[i] <= attempts[j]
        BY <1>6, <1>9 DEF NewestFirst
    <2>2. attempts[i] \in Int /\ attempts[j] \in Int
        BY <1>1, <1>6
    <2>3. part[i] = attempts[i] + 1 /\ part[j] = attempts[j] + 1
        BY <1>7, <1>8
    <2> QED
        BY <2>1, <2>2, <2>3
<1> QED
    BY <1>2, <1>8, <1>9 DEF NewestFirst

-----------------------------------------------------------------------------
(* The inductive invariant.                                                 *)

\* The plans kept are no older than the last stable run.
HistoryKept ==
    /\ ideal \in Ideals
    /\ Aged(history)
    /\ since \in 0..Window
    /\ \A i \in 1..Len(history) : history[i].age <= since

\* Decisions wait for the admission of their plan only.
DecidedTypes ==
    /\ decided \subseteq [order : Orders,
                         reason : {"stable", "reappearance", "drift", "open", "risk"}]
    /\ planned \in BOOLEAN /\ putOff \in BOOLEAN
    /\ planned \/ decided = {}

\* The inductive invariant.
IInv ==
    /\ HistoryKept
    /\ NewestFirst(attempts)
    /\ DecidedTypes
    /\ EvidenceSinceStable
    /\ SendTypes
    /\ FarRoom

\* The kept plans one tick later, without those that leave the window.
LEMMA HistoryAges ==
    ASSUME HistoryKept, Tick
    PROVE  HistoryKept'
<1> DEFINE older == [i \in DOMAIN history |-> [history[i] EXCEPT !.age = @ + 1]]
<1>1. /\ Len(history) \in Nat /\ DOMAIN history = 1..Len(history)
      /\ \A i \in 1..Len(history) : history[i] \in [age : Nat, orders : Ideals]
    BY AgedType DEF HistoryKept
<1>2. /\ history' = Pruned(older, Window)
      /\ since' = Min({Window, since + 1})
      /\ ideal' = ideal
    BY DEF Tick
<1>3. Window \in Nat /\ since \in 0..Window /\ ideal \in Ideals
    BY ChurnAssumption DEF HistoryKept
<1>4. \A i \in 1..Len(history) : /\ older[i] \in [age : Nat, orders : Ideals]
                                 /\ older[i].age = history[i].age + 1
    BY <1>1
<1>5. Aged(older) /\ Len(older) = Len(history)
    <2>1. older \in [1..Len(history) -> [age : Nat, orders : Ideals]]
        <3>1. DOMAIN older = 1..Len(history) /\ older = [i \in 1..Len(history) |-> older[i]]
            BY <1>1
        <3> HIDE DEF older
        <3> QED
            BY <1>4, <3>1
    <2> HIDE DEF older
    <2>2. older \in Seq([age : Nat, orders : Ideals]) /\ Len(older) = Len(history)
        BY <1>1, <2>1, FunctionIsSeq
    <2>3. ASSUME NEW i \in 1..Len(history), NEW j \in 1..Len(history), i < j
          PROVE  older[i].age < older[j].age
        <3>1. history[i].age < history[j].age
            BY <2>3 DEF HistoryKept, Aged
        <3>2. history[i].age \in Nat /\ history[j].age \in Nat
            BY <1>1
        <3> QED
            BY <1>4, <3>1, <3>2
    <2> QED
        BY <2>2, <2>3 DEF Aged
<1> DEFINE kept == Pruned(older, Window)
<1>6. /\ Aged(kept)
      /\ \A i \in 1..Len(kept) : kept[i].age <= Window
    <2> HIDE DEF older
    <2> QED
        BY <1>3, <1>5, PrunedIs
<1>7. since' \in 0..Window /\ (since' = Window \/ since' = since + 1)
    <2> DEFINE S == {Window, since + 1}
    <2>1. S \subseteq Nat /\ S # {} /\ Window \in S
        BY <1>3
    <2>2. Min(S) = Window \/ Min(S) = since + 1
        <3>1. Min(S) \in S
            BY <2>1, MinOfNaturals
        <3> QED
            BY <3>1
    <2> HIDE DEF S
    <2>3. Min(S) \in Nat /\ Min(S) <= Window
        BY <2>1, MinOfNaturals
    <2>4. Min(S) \in 0..Window
        BY <1>3, <2>3
    <2> QED
        BY <1>2, <2>2, <2>4 DEF S
<1>8. ASSUME NEW i \in 1..Len(kept)
      PROVE  kept[i].age <= since'
    <2>1. CASE since' = Window
        BY <1>6, <2>1
    <2>2. CASE since' = since + 1
        <3>1. i \in 1..Len(history) /\ kept[i] = older[i]
            <4> HIDE DEF older
            <4> QED
                BY <1>3, <1>5, PrunedIs
        <3>2. history[i].age <= since /\ history[i].age \in Nat
            BY <1>1, <3>1 DEF HistoryKept
        <3>3. kept[i].age = history[i].age + 1
            BY <1>4, <3>1
        <3> HIDE DEF kept
        <3> QED
            BY <1>3, <2>2, <3>2, <3>3
    <2> QED
        BY <1>7, <2>1, <2>2
<1> HIDE DEF kept
<1> QED
    BY <1>2, <1>3, <1>6, <1>7, <1>8 DEF HistoryKept, kept

\* A plan is judged, recorded and left to the admission.
LEMMA PlanKeeps ==
    ASSUME HistoryKept, DecidedTypes, Plan
    PROVE  HistoryKept' /\ DecidedTypes' /\ EvidenceSinceStable'
<1>1. PICK wanted \in Ideals :
        LET samples == <<[age |-> 0, orders |-> wanted]>> \o history
            judged == Decisions(samples)
        IN  /\ ideal' = wanted
            /\ history' = Recorded(samples)
            /\ since' = IF StableRun(samples) THEN StablePrefix(samples) ELSE since
            /\ \E risk \in SUBSET CohortsOf(samples[1]) :
                  decided' = {d \in judged : d.order.cohort \notin risk}
                      \cup {[d EXCEPT !.reason = "risk"] :
                               d \in {e \in judged : e.order.cohort \in risk}}
    BY DEF Plan
<1> DEFINE samples == <<[age |-> 0, orders |-> wanted]>> \o history
           judged == Decisions(samples)
<1>2. /\ ideal' = wanted
      /\ history' = Recorded(samples)
      /\ since' = IF StableRun(samples) THEN StablePrefix(samples) ELSE since
    BY <1>1
<1>3. PICK risk \in SUBSET CohortsOf(samples[1]) :
        decided' = {d \in judged : d.order.cohort \notin risk}
            \cup {[d EXCEPT !.reason = "risk"] :
                     d \in {e \in judged : e.order.cohort \in risk}}
    BY <1>1
<1>4. planned' = TRUE /\ putOff' = putOff
    BY DEF Plan
<1>5. /\ Len(history) \in Nat /\ DOMAIN history = 1..Len(history)
      /\ \A i \in 1..Len(history) : history[i] \in [age : Nat, orders : Ideals]
    BY AgedType DEF HistoryKept
<1>6. /\ Aged(samples) /\ Len(samples) = Len(history) + 1
      /\ samples[1] = [age |-> 0, orders |-> wanted]
      /\ \A i \in 1..Len(history) : samples[i + 1] = history[i]
    <2>1. \A i \in 1..Len(history) : history[i].age > 0
        BY <1>5 DEF Plan, NewPlan
    <2> QED
        BY <2>1, PlanInFront DEF HistoryKept
<1> HIDE DEF samples
<1>7. since \in 0..Window /\ Window \in Nat
    BY ChurnAssumption DEF HistoryKept
<1>8. samples[1].orders \in Ideals
    BY <1>6
<1>9. \A i \in 1..Len(samples) : samples[i].age <= since
    <2> TAKE i \in 1..Len(samples)
    <2>1. CASE i = 1
        BY <1>6, <1>7, <2>1
    <2>2. CASE i # 1
        <3>1. i - 1 \in 1..Len(history) /\ i - 1 + 1 = i
            BY <1>5, <1>6, <2>2
        <3>2. samples[i] = history[i - 1]
            BY <1>6, <3>1
        <3> QED
            BY <3>1, <3>2 DEF HistoryKept
    <2> QED
        BY <2>1, <2>2
<1>10. \A i \in 1..Len(samples) : samples[i].age <= Window
    <2> TAKE i \in 1..Len(samples)
    <2>1. samples[i].age \in Nat /\ samples[i].age <= since
        BY <1>6, <1>9, AgedType
    <2> QED
        BY <1>7, <2>1
<1>11. Len(samples) > 0
    BY <1>5, <1>6
<1>12. \A d \in judged :
         /\ d \in [order : Orders, reason : {"stable", "reappearance", "drift", "open"}]
         /\ d.order.cohort \in CohortsOf(samples[1])
         /\ d.reason = "reappearance" => Reappears(samples, d.order.cohort)
    BY <1>8, DecisionsAre
<1>13. \A d \in decided' : d \in judged \/ d.reason = "risk"
    <2>1. \A d \in judged : [d EXCEPT !.reason = "risk"].reason = "risk"
        BY <1>12
    <2> HIDE DEF judged
    <2> QED
        BY <1>3, <2>1
<1>14. DecidedTypes'
    <2>1. \A d \in judged :
             [d EXCEPT !.reason = "risk"] \in [order : Orders, reason : {"risk"}]
        BY <1>12
    <2> HIDE DEF judged
    <2>2. \A d \in decided' : d \in [order : Orders,
                         reason : {"stable", "reappearance", "drift", "open", "risk"}]
        <3> SUFFICES ASSUME NEW d \in decided'
                     PROVE  d \in [order : Orders,
                         reason : {"stable", "reappearance", "drift", "open", "risk"}]
            OBVIOUS
        <3>1. CASE d \in judged
            BY <1>12, <3>1
        <3>2. CASE d \notin judged
            <4>1. PICK e \in judged : d = [e EXCEPT !.reason = "risk"]
                BY <1>3, <3>2
            <4>2. d \in [order : Orders, reason : {"risk"}]
                BY <2>1, <4>1
            <4> QED
                BY <4>2
        <3> QED
            BY <3>1, <3>2
    <2> QED
        BY <1>4, <2>2 DEF DecidedTypes
<1>15. CASE StableRun(samples)
    <2>1. since' \in 0..Window
        BY <1>2, <1>6, <1>10, <1>11, <1>15, StablePrefixIs
    <2>2. history' = Pruned(samples, since')
        BY <1>2, <1>15 DEF Recorded
    <2>3. Aged(history') /\ \A i \in 1..Len(history') : history'[i].age <= since'
        <3>1. since' \in Nat
            BY <1>7, <2>1
        <3> QED
            BY <1>6, <2>2, <3>1, PrunedIs
    <2>4. HistoryKept'
        BY <1>2, <2>1, <2>3 DEF HistoryKept
    <2>5. \A d \in decided' : d.reason # "reappearance"
        <3>1. \A d \in judged : d.reason = "stable"
            BY <1>15 DEF StableRun
        <3> QED
            BY <1>13, <3>1
    <2>6. EvidenceSinceStable'
        BY <2>5 DEF EvidenceSinceStable
    <2> QED
        BY <1>14, <2>4, <2>6
<1>16. CASE ~ StableRun(samples)
    <2>1. since' = since
        BY <1>2, <1>16
    <2>2. history' = samples
        <3>1. history' = Pruned(samples, Window)
            BY <1>2, <1>16 DEF Recorded
        <3> QED
            BY <1>6, <1>7, <1>10, <3>1, PrunedIs
    <2>3. HistoryKept'
        BY <1>2, <1>6, <1>7, <1>9, <2>1, <2>2 DEF HistoryKept
    <2>4. ASSUME NEW d \in decided', d.reason = "reappearance"
          PROVE  LET there == {i \in DOMAIN history' :
                                  /\ history'[i].age <= since'
                                  /\ d.order.cohort \in CohortsOf(history'[i])}
                 IN  Cardinality({i \in there : i + 1 \notin there}) >= 3
        <3> DEFINE c == d.order.cohort
                   there == {i \in DOMAIN samples : c \in CohortsOf(samples[i])}
        <3>1. Reappears(samples, c)
            BY <1>12, <1>13, <2>4
        <3>2. Cardinality({i \in there : i + 1 \notin there}) >= 3
            <4> HIDE DEF c
            <4> QED
                BY <1>6, <1>11, <3>1, ThreeTimes
        <3>3. {i \in DOMAIN history' : /\ history'[i].age <= since'
                                       /\ c \in CohortsOf(history'[i])} = there
            <4>1. DOMAIN samples = 1..Len(samples)
                BY <1>6, AgedType
            <4> QED
                BY <1>9, <2>1, <2>2, <4>1
        <3> QED
            BY <3>2, <3>3
    <2>5. EvidenceSinceStable'
        BY <2>4 DEF EvidenceSinceStable, CohortsOf
    <2> QED
        BY <1>14, <2>3, <2>5
<1> QED
    BY <1>15, <1>16

\* The inductive invariant holds in every state of every run.
LEMMA Inductive ==
    Spec => []IInv
<1>1. Init => IInv
    <2> SUFFICES ASSUME Init
                 PROVE  IInv
        OBVIOUS
    <2>1. HistoryKept
        BY ChurnAssumption DEF Init, HistoryKept, Aged
    <2>2. NewestFirst(attempts)
        BY DEF Init, NewestFirst
    <2>3. DecidedTypes /\ EvidenceSinceStable
        BY DEF Init, DecidedTypes, EvidenceSinceStable
    <2>4. SendTypes /\ FarRoom
        BY DEF Init, SendTypes, FarRoom
    <2> QED
        BY <2>1, <2>2, <2>3, <2>4 DEF IInv
<1>2. IInv /\ [Next]_vars => IInv'
    <2> SUFFICES ASSUME IInv, [Next]_vars
                 PROVE  IInv'
        OBVIOUS
    <2> USE DEF IInv
    <2>1. CASE Tick
        <3>1. /\ attempts' = SubSeq([i \in DOMAIN attempts |-> attempts[i] + 1], 1,
                       Cardinality({i \in DOMAIN attempts : attempts[i] < Window}))
              /\ sending = <<>> /\ sending' = sending /\ overtaken' = 0
              /\ ~ planned /\ planned' = planned /\ putOff' = FALSE /\ decided' = decided
            BY <2>1 DEF Tick
        <3>2. HistoryKept' /\ NewestFirst(attempts')
            BY <2>1, HistoryAges, AttemptsAge
        <3>3. decided' = {} /\ DecidedTypes'
            BY <3>1 DEF DecidedTypes
        <3>4. EvidenceSinceStable'
            BY <3>3 DEF EvidenceSinceStable
        <3>5. attempts' \in Seq(Nat)
            BY <3>1, AgedIs DEF SendTypes
        <3>6. sending' = <<>> /\ overtaken' = 0
            BY <3>1
        <3>7. SendTypes' /\ FarRoom'
            BY <3>5, <3>6 DEF SendTypes, FarRoom
        <3> QED
            BY <3>2, <3>3, <3>4, <3>7
    <2>2. CASE Plan
        <3>1. HistoryKept' /\ DecidedTypes' /\ EvidenceSinceStable'
            BY <2>2, PlanKeeps
        <3>2. attempts' = attempts /\ sending' = sending /\ overtaken' = overtaken
            BY <2>2 DEF Plan
        <3> QED
            BY <3>1, <3>2 DEF NewestFirst, SendTypes, FarRoom
    <2>3. CASE Forget
        <3>1. /\ history' = <<>> /\ since' = Window /\ ideal' = ideal
              /\ decided' = decided /\ planned' = planned /\ ~ planned /\ putOff' = putOff
              /\ attempts' = attempts /\ sending' = sending /\ overtaken' = overtaken
            BY <2>3 DEF Forget, NewPlan
        <3>2. HistoryKept'
            BY <3>1, ChurnAssumption DEF HistoryKept, Aged
        <3>3. decided' = {} /\ DecidedTypes'
            BY <3>1 DEF DecidedTypes
        <3>4. EvidenceSinceStable'
            BY <3>3 DEF EvidenceSinceStable
        <3> QED
            BY <3>1, <3>2, <3>3, <3>4 DEF NewestFirst, SendTypes, FarRoom
    <2>4. CASE Restart
        <3>1. /\ history' = <<>> /\ since' = Window /\ ideal' = ideal
              /\ decided' = {} /\ planned' = FALSE /\ putOff' = FALSE
              /\ attempts' = <<>> /\ sending' = <<>> /\ overtaken' = 0
            BY <2>4 DEF Restart
        <3>2. HistoryKept'
            BY <3>1, ChurnAssumption DEF HistoryKept, Aged
        <3>3. DecidedTypes' /\ EvidenceSinceStable'
            BY <3>1 DEF DecidedTypes, EvidenceSinceStable
        <3>4. NewestFirst(attempts')
            BY <3>1 DEF NewestFirst
        <3>5. SendTypes' /\ FarRoom'
            BY <3>1 DEF SendTypes, FarRoom
        <3> QED
            BY <3>2, <3>3, <3>4, <3>5
    <2>5. CASE Admit
        <3>1. /\ history' = history /\ since' = since /\ ideal' = ideal /\ attempts' = attempts
              /\ planned' = FALSE /\ decided' = {} /\ putOff' \in BOOLEAN
            BY <2>5 DEF Admit
        <3>2. SendTypes' /\ FarRoom'
            BY <2>5, AdmitRoom
        <3>3. DecidedTypes' /\ EvidenceSinceStable'
            BY <3>1 DEF DecidedTypes, EvidenceSinceStable
        <3> QED
            BY <3>1, <3>2, <3>3 DEF HistoryKept, NewestFirst
    <2>6. CASE Send
        <3>1. PICK i \in DOMAIN sending : Enter(i) \/ Refuse(i)
            BY <2>6 DEF Send
        <3>2. SendTypes' /\ FarRoom'
            BY <3>1, EnterRoom, RefuseRoom
        <3>3. /\ history' = history /\ since' = since /\ ideal' = ideal
              /\ planned' = planned /\ decided' = decided /\ putOff' = putOff
              /\ \/ attempts' = Charged(<<0>> \o attempts)
                 \/ attempts' = Charged(attempts)
            BY <3>1 DEF Enter, Refuse
        <3>4. NewestFirst(attempts')
            BY <3>3, AttemptInFront, ChargedNewestFirst
        <3>5. EvidenceSinceStable'
            BY <3>3 DEF EvidenceSinceStable, CohortsOf
        <3> QED
            BY <3>2, <3>3, <3>4, <3>5 DEF HistoryKept, DecidedTypes
    <2>7. CASE UNCHANGED vars
        <3>1. EvidenceSinceStable'
            BY <2>7 DEF vars, EvidenceSinceStable, CohortsOf
        <3> QED
            BY <2>7, <3>1
            DEF vars, HistoryKept, NewestFirst, DecidedTypes, SendTypes, FarRoom
    <2> QED
        BY <2>1, <2>2, <2>3, <2>4, <2>5, <2>6, <2>7 DEF Next
<1> QED
    BY <1>1, <1>2, PTL DEF Spec

-----------------------------------------------------------------------------
(* Theorems.                                                                *)

\* The state has its types, the plans kept are in the window and from different
\* instants, and so are, up to equal instants, the attempts that are counted.
THEOREM StateTypes == Spec => []TypeOK
<1>1. IInv => TypeOK
    <2> SUFFICES ASSUME IInv
                 PROVE  TypeOK
        OBVIOUS
    <2>1. /\ ideal \in Ideals /\ since \in 0..Window /\ Window \in Nat
          /\ decided \subseteq [order : Orders,
                               reason : {"stable", "reappearance", "drift", "open", "risk"}]
          /\ planned \in BOOLEAN /\ putOff \in BOOLEAN /\ overtaken \in Nat
        BY ChurnAssumption DEF IInv, HistoryKept, DecidedTypes, SendTypes
    <2>2. ASSUME NEW i \in DOMAIN history
          PROVE  /\ history[i] \in [age : 0..Window, orders : Ideals]
                 /\ i > 1 => history[i-1].age < history[i].age
        <3>1. /\ Len(history) \in Nat /\ i \in 1..Len(history)
              /\ \A j \in 1..Len(history) : history[j] \in [age : Nat, orders : Ideals]
            BY AgedType DEF IInv, HistoryKept
        <3>2. history[i].age <= since
            BY <3>1 DEF IInv, HistoryKept
        <3>3. history[i].age \in 0..Window
            <4>1. history[i].age \in Nat
                BY <3>1
            <4> QED
                BY <2>1, <3>2, <4>1
        <3>4. i > 1 => i - 1 \in 1..Len(history) /\ i - 1 < i
            BY <3>1
        <3>5. i > 1 => history[i-1].age < history[i].age
            BY <3>1, <3>4 DEF IInv, HistoryKept, Aged
        <3> QED
            BY <3>1, <3>3, <3>5
    <2>3. \A i \in DOMAIN attempts : attempts[i] \in 0..Window
        BY MembersOf DEF IInv, NewestFirst
    <2>4. \A i \in DOMAIN sending : sending[i] \in {"far", "free"}
        BY DEF IInv, SendTypes
    <2> QED
        BY <2>1, <2>2, <2>3, <2>4 DEF TypeOK
<1> QED
    BY <1>1, Inductive, PTL

\* An order is churn for coming and going only at the third appearance of its
\* cohort in the plans since the symbol's last stable run: _record_run drops the
\* switching before it.
THEOREM EvidenceIsRecent == Spec => []EvidenceSinceStable
<1>1. IInv => EvidenceSinceStable
    BY DEF IInv
<1> QED
    BY <1>1, Inductive, PTL

\* A far, evidenced create enters the connector only while the attempts counted,
\* less the exempt ones of its wave that overtook it, leave room in the allowance.
THEOREM RoomInTheAllowance == Spec => FarWithinAllowance
<1>1. ASSUME SendTypes, FarRoom, NEW i \in DOMAIN sending, Enter(i), sending[i] = "far"
      PROVE  Len(attempts) - overtaken < ActivationCount
    <2>1. i = 1
        BY <1>1 DEF Enter
    <2>2. Len(attempts) - overtaken + 1 <= ActivationCount
        BY <1>1, <2>1 DEF FarRoom
    <2>3. Len(attempts) \in Nat /\ overtaken \in Nat /\ ActivationCount \in Nat
        BY <1>1, ChurnAssumption DEF SendTypes
    <2> QED
        BY <2>2, <2>3
<1>2. IInv /\ [Next]_vars
        => [\A i \in DOMAIN sending :
              Enter(i) /\ sending[i] = "far"
                => Len(attempts) - overtaken < ActivationCount]_vars
    BY <1>1 DEF IInv
<1> QED
    BY <1>2, Inductive, PTL DEF Spec, FarWithinAllowance
=============================================================================
