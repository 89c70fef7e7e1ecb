---------------------------- MODULE SearchProofs ----------------------------
(***************************************************************************)
(* Proofs about a search: that dropping lines while a file is read keeps   *)
(* what one choice at its end would (Lines), for any texts, options and    *)
(* limits; and that its results reach the writer in walk order, and the    *)
(* workers never lead it by more than Ahead chunks, for any number of      *)
(* workers, batches, any window and any panics (OrderedStream, whose Init, *)
(* Next and Spec these are).                                               *)
(***************************************************************************)
EXTENDS Lines, OrderedStream, FiniteSetTheorems, SequenceTheorems, WellFoundedInduction, TLAPS

-----------------------------------------------------------------------------
(* A total order on a finite set lists it.                                  *)

LEMMA LeastNumber ==
    ASSUME NEW T \in SUBSET Nat, T # {}
    PROVE  \E x \in T : \A y \in T : x <= y
<1> DEFINE R == OpToRel(<, Nat)
<1>1. PICK x \in T : \A y \in T : ~ (<<y, x>> \in R)
  BY NatLessThanWellFounded, WFMin
<1>2. \A y \in T : ~ (y < x)
  BY <1>1 DEF OpToRel
<1> QED BY <1>2

\* r is a strict total order on S.
Orders(r, S) ==
    /\ \A x \in S : <<x, x>> \notin r
    /\ \A x, y \in S : x # y => <<x, y>> \in r \/ <<y, x>> \in r
    /\ \A x, y, z \in S : <<x, y>> \in r /\ <<y, z>> \in r => <<x, z>> \in r
Under(r, S, x) == {y \in S : <<y, x>> \in r}
\* The elements of S have 0, 1, .. others below them, one each.
Numbered(r, S) ==
    /\ \A x, y \in S : Cardinality(Under(r, S, x)) = Cardinality(Under(r, S, y)) => x = y
    /\ \A k \in 1 .. Cardinality(S) : \E x \in S : Cardinality(Under(r, S, x)) = k - 1

LEMMA Ranks ==
    ASSUME NEW S, IsFiniteSet(S), NEW r, Orders(r, S)
    PROVE  Numbered(r, S)
<1> DEFINE rank == [x \in S |-> Cardinality(Under(r, S, x))]
           n == Cardinality(S)
<1>1. n \in Nat
  BY FS_CardinalityType
<1>2. \A x \in S : IsFiniteSet(Under(r, S, x)) /\ rank[x] \in Nat /\ rank[x] < n
  <2>1. TAKE x \in S
  <2>2. IsFiniteSet(Under(r, S, x)) /\ Cardinality(Under(r, S, x)) <= n
        /\ (Cardinality(Under(r, S, x)) = n => S = Under(r, S, x))
    BY FS_Subset DEF Under
  <2>3. x \notin Under(r, S, x)
    BY DEF Under, Orders
  <2>4. Cardinality(Under(r, S, x)) \in Nat
    BY <2>2, FS_CardinalityType
  <2>5. Cardinality(Under(r, S, x)) # n
    BY <2>2, <2>3
  <2> QED BY <1>1, <2>2, <2>4, <2>5
<1>3. \A x, y \in S : <<x, y>> \in r => rank[x] < rank[y]
  <2>1. SUFFICES ASSUME NEW x \in S, NEW y \in S, <<x, y>> \in r PROVE rank[x] < rank[y]
    OBVIOUS
  <2>2. Under(r, S, x) \in SUBSET Under(r, S, y)
    BY <2>1 DEF Under, Orders
  <2>3. x \in Under(r, S, y) /\ x \notin Under(r, S, x)
    BY <2>1 DEF Under, Orders
  <2>4. Cardinality(Under(r, S, x)) <= Cardinality(Under(r, S, y))
        /\ (Cardinality(Under(r, S, y)) = Cardinality(Under(r, S, x)) => Under(r, S, y) = Under(r, S, x))
    BY <1>2, <2>2, FS_Subset
  <2>5. Cardinality(Under(r, S, x)) # Cardinality(Under(r, S, y))
    BY <2>3, <2>4
  <2> QED BY <1>2, <2>4, <2>5
<1>4. \A x, y \in S : rank[x] = rank[y] => x = y
  <2>1. SUFFICES ASSUME NEW x \in S, NEW y \in S, rank[x] = rank[y], x # y PROVE FALSE
    OBVIOUS
  <2>2. <<x, y>> \in r \/ <<y, x>> \in r
    BY <2>1 DEF Orders
  <2>3. rank[x] < rank[y] \/ rank[y] < rank[x]
    BY <1>3, <2>2
  <2>4. rank[x] \in Nat /\ rank[y] \in Nat
    BY <1>2
  <2> QED BY <2>1, <2>3, <2>4
<1>5. \A k \in 1 .. n : \E x \in S : rank[x] = k - 1
  <2> DEFINE T == 0 .. n - 1
  <2>1. rank \in Injection(S, T)
    BY <1>1, <1>2, <1>4 DEF Injection, IsInjective
  <2>2. IsFiniteSet(T) /\ Cardinality(T) = n
    BY <1>1, FS_Interval
  <2>3. rank \in Surjection(S, T)
    BY <2>1, <2>2, FS_Injection
  <2>4. \A t \in T : \E x \in S : rank[x] = t
    BY <2>3 DEF Surjection
  <2>5. \A k \in 1 .. n : k - 1 \in T
    BY <1>1
  <2> QED BY <2>4, <2>5
<1> QED BY <1>4, <1>5 DEF Numbered

-----------------------------------------------------------------------------
(* Lines: the first of a set, by an order.                                  *)

FirstOf(r, S, k) == {x \in S : Cardinality(Under(r, S, x)) < k}

LEMMA UnderFinite ==
    ASSUME NEW S, IsFiniteSet(S), NEW r, NEW x
    PROVE  IsFiniteSet(Under(r, S, x)) /\ Cardinality(Under(r, S, x)) \in Nat
<1>1. Under(r, S, x) \in SUBSET S
  BY DEF Under
<1> QED BY <1>1, FS_Subset, FS_CardinalityType

\* What is left of a set keeps its first k, if they are in it.
LEMMA FirstStay ==
    ASSUME NEW S, IsFiniteSet(S), NEW r, Orders(r, S), NEW k \in Nat,
           NEW R \in SUBSET S, FirstOf(r, S, k) \subseteq R
    PROVE  FirstOf(r, R, k) = FirstOf(r, S, k)
<1>1. IsFiniteSet(R)
  BY FS_Subset
<1>2. \A x : Cardinality(Under(r, R, x)) <= Cardinality(Under(r, S, x))
  <2>1. \A x : Under(r, R, x) \in SUBSET Under(r, S, x)
    BY DEF Under
  <2> QED BY <2>1, UnderFinite, FS_Subset
<1>3. FirstOf(r, S, k) \subseteq FirstOf(r, R, k)
  BY <1>1, <1>2, UnderFinite DEF FirstOf
<1>4. ASSUME NEW x \in R, x \notin FirstOf(r, S, k), Cardinality(Under(r, R, x)) < k
      PROVE  FALSE
  <2> DEFINE missing == Under(r, S, x) \ R
  <2>1. missing # {}
    <3>1. missing = {} => Under(r, S, x) = Under(r, R, x)
      BY DEF Under
    <3> QED BY <1>4, <3>1 DEF FirstOf
  <2>2. IsFiniteSet(missing) /\ Orders(r, missing) /\ missing \subseteq S
    <3>1. missing \in SUBSET S
      BY DEF Under
    <3>2. IsFiniteSet(missing)
      BY <3>1, FS_Subset
    <3> QED BY <3>1, <3>2 DEF Orders
  <2>3. PICK y \in missing : Under(r, missing, y) = {}
    <3> HIDE DEF missing
    <3>1. Cardinality(missing) \in Nat /\ Cardinality(missing) # 0
      BY <2>1, <2>2, FS_CardinalityType, FS_EmptySet
    <3>2. PICK y \in missing : Cardinality(Under(r, missing, y)) = 1 - 1
      <4>1. Numbered(r, missing)
        BY <2>2, Ranks
      <4>2. 1 \in 1 .. Cardinality(missing)
        BY <3>1
      <4> QED BY <4>1, <4>2 DEF Numbered
    <3>3. Under(r, missing, y) = {}
      BY <2>2, <3>2, UnderFinite, FS_EmptySet
    <3> QED BY <3>3
  <2>4. Under(r, S, y) \in SUBSET Under(r, R, x)
    <3>1. \A z \in Under(r, S, y) : z \in Under(r, S, x)
      BY <2>3 DEF Under, Orders
    <3>2. \A z \in Under(r, S, y) : z \in R
      BY <2>3, <3>1 DEF Under
    <3> QED BY <3>1, <3>2 DEF Under
  <2>5. Cardinality(Under(r, S, y)) < k
    BY <1>1, <1>4, <2>4, UnderFinite, FS_Subset
  <2>6. y \in S /\ y \notin R
    BY <2>3 DEF Under
  <2> QED BY <2>5, <2>6 DEF FirstOf
<1> QED BY <1>3, <1>4 DEF FirstOf

-----------------------------------------------------------------------------
(* Lines: what a ranked search keeps of the lines S, each worth v[n].       *)

LineSet(S) == S \in SUBSET Nat /\ IsFiniteSet(S)
Valued(v, S) ==
    /\ LineSet(S)
    /\ \A n \in S : v[n].line = n /\ v[n].exact \in BOOLEAN /\ v[n].score \in Int
Earlier == {w \in Nat \X Nat : w[1] < w[2]}
Finer(v) ==
    {w \in Nat \X Nat :
        \/ v[w[1]].score > v[w[2]].score
        \/ v[w[1]].score = v[w[2]].score /\ w[1] < w[2]}
Leading(S, lead) == FirstOf(Earlier, S, lead)
DefsAfter(v, S, lead) == {n \in S \ Leading(S, lead) : v[n].kind = "def"}
PoolOf(v, S, b) == {n \in S : v[n].exact = b}
KeptLines(v, S, lead) ==
    Leading(S, lead)
        \cup FirstOf(Earlier, DefsAfter(v, S, lead), MaxDefs)
        \cup FirstOf(Finer(v), PoolOf(v, S, TRUE), PerPool)
        \cup FirstOf(Finer(v), PoolOf(v, S, FALSE), PerPool)

LEMMA LineOrders ==
    ASSUME NEW v, NEW S, Valued(v, S), NEW T \in SUBSET S
    PROVE  IsFiniteSet(T) /\ Orders(Earlier, T) /\ Orders(Finer(v), T)
<1>1. IsFiniteSet(T)
  BY FS_Subset DEF Valued, LineSet
<1>2. Orders(Earlier, T)
  <2>1. \A x, y \in T : <<x, y>> \in Earlier <=> x < y
    BY DEF Earlier, Valued, LineSet
  <2>2. T \subseteq Nat
    BY DEF Valued, LineSet
  <2> QED BY <2>1, <2>2 DEF Orders
<1>3. Orders(Finer(v), T)
  <2>1. \A x, y \in T : <<x, y>> \in Finer(v) <=>
                            v[x].score > v[y].score \/ (v[x].score = v[y].score /\ x < y)
    BY DEF Finer, Valued, LineSet
  <2>2. \A x \in T : x \in Nat /\ v[x].score \in Int
    BY DEF Valued, LineSet
  <2> QED BY <2>1, <2>2 DEF Orders
<1> QED BY <1>1, <1>2, <1>3

LEMMA LimitsNat == MaxHits \in Nat /\ MaxDefs \in Nat /\ PerPool \in Nat
BY SearchAssumption

\* Fewer of a part than of the whole.
LEMMA FirstOfFewer ==
    ASSUME NEW S, IsFiniteSet(S), NEW T \in SUBSET S, NEW r, NEW k \in Nat
    PROVE  FirstOf(r, S, k) \cap T \subseteq FirstOf(r, T, k)
<1>1. IsFiniteSet(T)
  BY FS_Subset
<1>2. \A x : Cardinality(Under(r, T, x)) <= Cardinality(Under(r, S, x))
  <2>1. \A x : Under(r, T, x) \in SUBSET Under(r, S, x)
    BY DEF Under
  <2> QED BY <2>1, UnderFinite, FS_Subset
<1> QED BY <1>1, <1>2, UnderFinite DEF FirstOf

LEMMA LeadingOfBeginning ==
    ASSUME NEW v, NEW P, NEW N, Valued(v, P \cup N), \A x \in P, y \in N : x < y, NEW lead \in Nat
    PROVE  Leading(P, lead) = Leading(P \cup N, lead) \cap P
<1>1. \A x \in P : Under(Earlier, P \cup N, x) = Under(Earlier, P, x)
  BY DEF Under, Earlier, Valued, LineSet
<1> QED BY <1>1 DEF Leading, FirstOf

\* Dropping as one goes keeps what dropping at the end would.
LEMMA KeptAgain ==
    ASSUME NEW v, NEW P, NEW N, Valued(v, P \cup N), \A x \in P, y \in N : x < y, NEW lead \in Nat
    PROVE  /\ KeptLines(v, P \cup N, lead) \subseteq KeptLines(v, P, lead) \cup N
           /\ KeptLines(v, KeptLines(v, P, lead) \cup N, lead) = KeptLines(v, P \cup N, lead)
<1> DEFINE S == P \cup N
           K == KeptLines(v, P, lead)
           R == K \cup N
<1>0. Leading(P, lead) = Leading(S, lead) \cap P
  BY LeadingOfBeginning
<1>1. K \subseteq P /\ R \in SUBSET S
  BY DEF KeptLines, Leading, DefsAfter, PoolOf, FirstOf
<1>2. /\ MaxDefs \in Nat /\ PerPool \in Nat
      /\ \A T \in SUBSET S : IsFiniteSet(T) /\ Orders(Earlier, T) /\ Orders(Finer(v), T)
  BY LimitsNat, LineOrders
<1>3. Leading(S, lead) \subseteq R
  <2>1. Leading(S, lead) \subseteq S
    BY DEF Leading, FirstOf
  <2>2. Leading(P, lead) \subseteq K
    BY DEF KeptLines
  <2> QED BY <1>0, <2>1, <2>2
<1>4. DefsAfter(v, P, lead) = DefsAfter(v, S, lead) \cap P
  BY <1>0 DEF DefsAfter
<1>5. FirstOf(Earlier, DefsAfter(v, S, lead), MaxDefs) \subseteq R
  <2>1. DefsAfter(v, P, lead) \in SUBSET DefsAfter(v, S, lead) /\ DefsAfter(v, S, lead) \in SUBSET S
    BY <1>4 DEF DefsAfter
  <2>2. FirstOf(Earlier, DefsAfter(v, S, lead), MaxDefs) \cap DefsAfter(v, P, lead) \subseteq K
    BY <1>2, <2>1, FirstOfFewer DEF KeptLines
  <2>3. FirstOf(Earlier, DefsAfter(v, S, lead), MaxDefs) \subseteq DefsAfter(v, S, lead)
    BY DEF FirstOf
  <2> QED BY <1>4, <2>1, <2>2, <2>3
<1>6. \A b \in BOOLEAN : FirstOf(Finer(v), PoolOf(v, S, b), PerPool) \subseteq R
  <2>1. TAKE b \in BOOLEAN
  <2>2. PoolOf(v, P, b) \in SUBSET PoolOf(v, S, b) /\ PoolOf(v, S, b) \in SUBSET S
    BY DEF PoolOf
  <2>3. FirstOf(Finer(v), PoolOf(v, S, b), PerPool) \cap PoolOf(v, P, b) \subseteq K
    BY <1>2, <2>2, FirstOfFewer DEF KeptLines
  <2>4. FirstOf(Finer(v), PoolOf(v, S, b), PerPool) \subseteq PoolOf(v, S, b)
    BY DEF FirstOf
  <2> QED BY <2>3, <2>4 DEF PoolOf
<1>7. Leading(R, lead) = Leading(S, lead)
  BY <1>1, <1>2, <1>3, FirstStay DEF Leading
<1>8. FirstOf(Earlier, DefsAfter(v, R, lead), MaxDefs) = FirstOf(Earlier, DefsAfter(v, S, lead), MaxDefs)
  <2>1. DefsAfter(v, R, lead) = DefsAfter(v, S, lead) \cap R
    BY <1>1, <1>7 DEF DefsAfter
  <2>2. DefsAfter(v, S, lead) \in SUBSET S
    BY DEF DefsAfter
  <2>3. FirstOf(Earlier, DefsAfter(v, S, lead), MaxDefs) \subseteq DefsAfter(v, S, lead) \cap R
    BY <1>5 DEF FirstOf
  <2> HIDE DEF R, S
  <2> QED BY <1>2, <2>1, <2>2, <2>3, FirstStay
<1>9. \A b \in BOOLEAN : FirstOf(Finer(v), PoolOf(v, R, b), PerPool) = FirstOf(Finer(v), PoolOf(v, S, b), PerPool)
  <2>1. TAKE b \in BOOLEAN
  <2>2. PoolOf(v, R, b) \in SUBSET PoolOf(v, S, b) /\ PoolOf(v, S, b) \in SUBSET S
    BY <1>1 DEF PoolOf
  <2>3. FirstOf(Finer(v), PoolOf(v, S, b), PerPool) \subseteq PoolOf(v, R, b)
    BY <1>6 DEF FirstOf, PoolOf
  <2> HIDE DEF R, S
  <2> QED BY <1>2, <2>2, <2>3, FirstStay
<1>10. KeptLines(v, R, lead) = KeptLines(v, S, lead) /\ KeptLines(v, S, lead) \subseteq R
  <2> HIDE DEF R, S
  <2> QED BY <1>3, <1>5, <1>6, <1>7, <1>8, <1>9 DEF KeptLines
<1> QED BY <1>10

-----------------------------------------------------------------------------
(* Lines: sets of line numbers in order.                                    *)

Numbers(S) == Sorted(S, Below)
ByNumber(v, S) == [k \in 1 .. Cardinality(S) |-> v[Numbers(S)[k]]]
\* s has the numbers of S in order.
Counts(s, n, S) ==
    /\ DOMAIN s = 1 .. n
    /\ \A k \in 1 .. n : s[k] \in S
    /\ \A x \in S : \E k \in 1 .. n : s[k] = x
    /\ \A k, m \in 1 .. n : k < m => s[k] < s[m]

At(s, T) == {s[k] : k \in T}

LEMMA BelowIs ==
    ASSUME NEW S \in SUBSET Nat
    PROVE  \A x \in S : {y \in S : Below(y, x)} = Under(Earlier, S, x)
BY DEF Below, Under, Earlier

LEMMA CountsIs ==
    ASSUME NEW S \in SUBSET Nat, NEW n \in Nat, NEW s, Counts(s, n, S), NEW T \in SUBSET (1 .. n)
    PROVE  /\ IsFiniteSet(T) /\ IsFiniteSet(At(s, T))
           /\ Cardinality(At(s, T)) = Cardinality(T)
<1> DEFINE f == [k \in T |-> s[k]]
           U == {s[k] : k \in T}
<1>1. IsFiniteSet(1 .. n)
  BY FS_Interval
<1>2. IsFiniteSet(T)
  BY <1>1, FS_Subset
<1>3. \A k, m \in T : s[k] = s[m] => k = m
  <2>1. \A k \in 1 .. n : s[k] \in Nat
    BY DEF Counts
  <2>2. \A k, m \in 1 .. n : k # m => k < m \/ m < k
    OBVIOUS
  <2>3. \A k, m \in 1 .. n : k < m => s[k] < s[m]
    BY DEF Counts
  <2>4. \A k, m \in 1 .. n : k # m => s[k] # s[m]
    BY <2>1, <2>2, <2>3
  <2> QED BY <2>4
<1>4. f \in Bijection(T, U)
  BY <1>3 DEF Bijection, Injection, IsInjective, Surjection
<1>5. ExistsBijection(T, U)
  BY <1>4 DEF ExistsBijection
<1>6. IsFiniteSet(U) /\ Cardinality(U) = Cardinality(T)
  <2> HIDE DEF U
  <2> QED BY <1>2, <1>5, FS_Bijection
<1> QED BY <1>2, <1>6 DEF At

LEMMA CountsAll ==
    ASSUME NEW S \in SUBSET Nat, NEW n \in Nat, NEW s, Counts(s, n, S)
    PROVE  IsFiniteSet(S) /\ Cardinality(S) = n
<1>1. At(s, 1 .. n) = S
  BY DEF Counts, At
<1>2. Cardinality(1 .. n) = n
  BY FS_Interval
<1>3. 1 .. n \in SUBSET (1 .. n)
  OBVIOUS
<1>4. IsFiniteSet(At(s, 1 .. n)) /\ Cardinality(At(s, 1 .. n)) = Cardinality(1 .. n)
  BY <1>3, CountsIs
<1> QED BY <1>1, <1>2, <1>4

\* The k-th has k - 1 below it.
LEMMA CountsBelow ==
    ASSUME NEW S \in SUBSET Nat, NEW n \in Nat, NEW s, Counts(s, n, S), NEW k \in 1 .. n
    PROVE  Cardinality(Under(Earlier, S, s[k])) = k - 1
<1>1. \A j \in 1 .. n : s[j] \in Nat
  BY DEF Counts
<1>2. \A j \in 1 .. n : s[j] < s[k] <=> j < k
  <2>1. \A i, j \in 1 .. n : i < j => s[i] < s[j]
    BY DEF Counts
  <2>2. \A j \in 1 .. n : j < k \/ j = k \/ k < j
    OBVIOUS
  <2> QED BY <1>1, <2>1, <2>2
<1>3. Under(Earlier, S, s[k]) = {s[j] : j \in 1 .. k - 1}
  <2>1. \A x \in S : <<x, s[k]>> \in Earlier <=> x < s[k]
    BY <1>1 DEF Earlier
  <2>2. 1 .. k - 1 = {j \in 1 .. n : j < k}
    OBVIOUS
  <2>3. \A x \in S : \E j \in 1 .. n : s[j] = x
    BY DEF Counts
  <2>4. \A j \in 1 .. n : s[j] \in S
    BY DEF Counts
  <2> QED BY <1>2, <2>1, <2>2, <2>3, <2>4 DEF Under
<1>4. Cardinality(1 .. k - 1) = k - 1 /\ 1 .. k - 1 \in SUBSET (1 .. n)
  BY FS_Interval
<1>5. Cardinality(At(s, 1 .. k - 1)) = Cardinality(1 .. k - 1)
  BY <1>4, CountsIs
<1> QED BY <1>3, <1>4, <1>5 DEF At

LEMMA NumbersOf ==
    ASSUME NEW S \in SUBSET Nat, IsFiniteSet(S)
    PROVE  Numbers(S) = [k \in 1 .. Cardinality(S) |->
                            CHOOSE x \in S : Cardinality(Under(Earlier, S, x)) = k - 1]
<1> DEFINE plain(k) == CHOOSE x \in S : Cardinality({y \in S : Below(y, x)}) = k - 1
           under(k) == CHOOSE x \in S : Cardinality(Under(Earlier, S, x)) = k - 1
<1>1. \A k : plain(k) = under(k)
  <2>1. TAKE k
  <2>2. \A x \in S : {y \in S : Below(y, x)} = Under(Earlier, S, x)
    BY BelowIs
  <2> QED BY ONLY <2>2
<1>2. Numbers(S) = [k \in 1 .. Cardinality(S) |-> plain(k)]
  BY Zenon DEF Numbers, Sorted
<1>3. [k \in 1 .. Cardinality(S) |-> plain(k)] = [k \in 1 .. Cardinality(S) |-> under(k)]
  <2> HIDE DEF plain, under
  <2> QED BY <1>1
<1> QED BY <1>2, <1>3

LEMMA EarlierRanks ==
    ASSUME NEW S \in SUBSET Nat, IsFiniteSet(S)
    PROVE  Orders(Earlier, S) /\ Numbered(Earlier, S)
<1>1. \A x, y \in S : <<x, y>> \in Earlier <=> x < y
  BY DEF Earlier
<1>2. Orders(Earlier, S)
  BY <1>1 DEF Orders
<1> QED BY <1>2, Ranks

LEMMA NumbersCount ==
    ASSUME NEW S \in SUBSET Nat, IsFiniteSet(S)
    PROVE  Cardinality(S) \in Nat /\ Counts(Numbers(S), Cardinality(S), S)
<1> DEFINE n == Cardinality(S)
           s == Numbers(S)
           rank(x) == Cardinality(Under(Earlier, S, x))
<1>1. n \in Nat
  BY FS_CardinalityType
<1>2. DOMAIN s = 1 .. n /\ \A k \in 1 .. n : s[k] = CHOOSE x \in S : rank(x) = k - 1
  BY NumbersOf
<1>3. \A k \in 1 .. n : \E x \in S : rank(x) = k - 1
  BY EarlierRanks DEF Numbered
<1>4. \A x, y \in S : rank(x) = rank(y) => x = y
  BY EarlierRanks DEF Numbered
<1> HIDE DEF s, n, rank
<1>5. \A k \in 1 .. n : s[k] \in S /\ rank(s[k]) = k - 1
  BY <1>2, <1>3
<1>6. \A x \in S : rank(x) \in Nat /\ rank(x) < n
  <2>1. TAKE x \in S
  <2>2. Under(Earlier, S, x) \in SUBSET S /\ x \notin Under(Earlier, S, x)
    BY DEF Under, Earlier
  <2>3. rank(x) \in Nat /\ rank(x) <= n /\ rank(x) # n
    BY <2>2, UnderFinite, FS_Subset DEF rank, n
  <2> QED BY <1>1, <2>3
<1>7. \A x \in S : rank(x) + 1 \in 1 .. n /\ s[rank(x) + 1] = x
  <2>1. \A x \in S : rank(x) + 1 \in 1 .. n /\ (rank(x) + 1) - 1 = rank(x)
    BY <1>1, <1>6
  <2>2. \A x \in S : s[rank(x) + 1] \in S /\ rank(s[rank(x) + 1]) = rank(x)
    BY <1>5, <2>1
  <2> QED BY <1>4, <2>1, <2>2
<1>8. \A x, y \in S : ~ (x < y) => rank(x) >= rank(y)
  <2>1. TAKE x \in S, y \in S
  <2>2. ~ (x < y) => Under(Earlier, S, y) \in SUBSET Under(Earlier, S, x)
    BY DEF Under, Earlier
  <2>3. ~ (x < y) => Cardinality(Under(Earlier, S, y)) <= Cardinality(Under(Earlier, S, x))
    BY <2>2, UnderFinite, FS_Subset
  <2> QED BY <1>6, <2>3 DEF rank
<1>9. \A k, m \in 1 .. n : k < m => s[k] < s[m]
  <2>1. TAKE k \in 1 .. n, m \in 1 .. n
  <2>2. ~ (s[k] < s[m]) => k - 1 >= m - 1
    BY <1>5, <1>8
  <2> QED BY <1>1, <2>2
<1> QED BY <1>1, <1>2, <1>5, <1>7, <1>9 DEF Counts, n, s

\* There is one way to count.
LEMMA NumbersAre ==
    ASSUME NEW S \in SUBSET Nat, NEW n \in Nat, NEW s, Counts(s, n, S),
           s = [k \in 1 .. n |-> s[k]]
    PROVE  Numbers(S) = s /\ Cardinality(S) = n /\ IsFiniteSet(S)
<1>1. IsFiniteSet(S) /\ Cardinality(S) = n
  BY CountsAll
<1>2. \A k \in 1 .. n : (CHOOSE x \in S : Cardinality(Under(Earlier, S, x)) = k - 1) = s[k]
  <2>1. TAKE k \in 1 .. n
  <2>2. s[k] \in S /\ Cardinality(Under(Earlier, S, s[k])) = k - 1
    BY CountsBelow DEF Counts
  <2>3. \A x, y \in S : Cardinality(Under(Earlier, S, x)) = Cardinality(Under(Earlier, S, y)) => x = y
    BY <1>1, EarlierRanks DEF Numbered
  <2> QED BY <2>2, <2>3
<1>3. Numbers(S) = [k \in 1 .. n |-> s[k]]
  BY <1>1, <1>2, NumbersOf
<1> QED BY <1>1, <1>3

\* Lines come after those before them.
LEMMA NumbersJoin ==
    ASSUME NEW A \in SUBSET Nat, NEW B \in SUBSET Nat, IsFiniteSet(A), IsFiniteSet(B),
           \A x \in A, y \in B : x < y
    PROVE  /\ IsFiniteSet(A \cup B) /\ Cardinality(A \cup B) = Cardinality(A) + Cardinality(B)
           /\ \A k \in 1 .. Cardinality(A) : Numbers(A \cup B)[k] = Numbers(A)[k]
           /\ \A k \in 1 .. Cardinality(B) : Numbers(A \cup B)[Cardinality(A) + k] = Numbers(B)[k]
<1> DEFINE a == Cardinality(A)
           b == Cardinality(B)
           s == [k \in 1 .. a + b |-> IF k <= a THEN Numbers(A)[k] ELSE Numbers(B)[k - a]]
<1>1. a \in Nat /\ b \in Nat /\ Counts(Numbers(A), a, A) /\ Counts(Numbers(B), b, B)
  BY NumbersCount
<1> HIDE DEF a, b
<1>2. Counts(s, a + b, A \cup B)
  <2>1. \A k \in 1 .. a + b : IF k <= a THEN k \in 1 .. a ELSE k - a \in 1 .. b
    BY <1>1
  <2>2. \A k \in 1 .. a + b : IF k <= a THEN s[k] = Numbers(A)[k] /\ s[k] \in A
                              ELSE s[k] = Numbers(B)[k - a] /\ s[k] \in B
    BY <1>1, <2>1 DEF Counts
  <2>3. \A x \in A : \E k \in 1 .. a + b : s[k] = x
    <3>1. TAKE x \in A
    <3>2. PICK k \in 1 .. a : Numbers(A)[k] = x
      BY <1>1 DEF Counts
    <3>3. k \in 1 .. a + b /\ k <= a
      BY <1>1
    <3> QED BY <2>2, <3>2, <3>3
  <2>4. \A x \in B : \E k \in 1 .. a + b : s[k] = x
    <3>1. TAKE x \in B
    <3>2. PICK k \in 1 .. b : Numbers(B)[k] = x
      BY <1>1 DEF Counts
    <3>3. a + k \in 1 .. a + b /\ ~ (a + k <= a) /\ (a + k) - a = k
      BY <1>1
    <3> QED BY <2>2, <3>2, <3>3
  <2>5. \A k, m \in 1 .. a + b : k < m => s[k] < s[m]
    <3>1. SUFFICES ASSUME NEW k \in 1 .. a + b, NEW m \in 1 .. a + b, k < m PROVE s[k] < s[m]
      OBVIOUS
    <3> HIDE DEF s
    <3>2. CASE m <= a
      <4>1. k <= a
        BY <1>1, <3>1, <3>2
      <4> QED BY <1>1, <2>1, <2>2, <3>1, <3>2, <4>1 DEF Counts
    <3>3. CASE k <= a /\ ~ (m <= a)
      BY <2>2, <3>3
    <3>4. CASE ~ (k <= a) /\ ~ (m <= a)
      <4>1. k - a < m - a
        BY <1>1, <3>1
      <4> QED BY <1>1, <2>1, <2>2, <3>4, <4>1 DEF Counts
    <3> QED BY <3>2, <3>3, <3>4, <1>1
  <2> HIDE DEF s
  <2>6. DOMAIN s = 1 .. a + b
    BY DEF s
  <2> QED BY <2>2, <2>3, <2>4, <2>5, <2>6 DEF Counts
<1>3. Numbers(A \cup B) = s /\ Cardinality(A \cup B) = a + b /\ IsFiniteSet(A \cup B)
  BY <1>1, <1>2, NumbersAre
<1>4. \A k \in 1 .. a : k \in 1 .. a + b /\ k <= a
  BY <1>1
<1>5. \A k \in 1 .. b : a + k \in 1 .. a + b /\ ~ (a + k <= a) /\ (a + k) - a = k
  BY <1>1
<1>6. /\ \A k \in 1 .. a : s[k] = Numbers(A)[k]
      /\ \A k \in 1 .. b : s[a + k] = Numbers(B)[k]
  BY <1>4, <1>5
<1> QED BY <1>3, <1>6 DEF a, b

-----------------------------------------------------------------------------
(* Lines: what is kept of a list is what is kept of its lines.              *)

\* What a search holds of the lines S, having dropped the rest.
Pruned(v, S, lead) ==
    LET K == KeptLines(v, S, lead) IN
    [lines |-> ByNumber(v, K),
     dropped |-> Cardinality(S \ K),
     exact |-> Cardinality({n \in S \ K : v[n].exact}),
     near |-> {v[n].word : n \in {m \in S \ K : ~v[m].exact}}]

LEMMA ByNumberIs ==
    ASSUME NEW v, NEW S, LineSet(S)
    PROVE  /\ S \in SUBSET Nat /\ IsFiniteSet(S)
           /\ Cardinality(S) \in Nat /\ Counts(Numbers(S), Cardinality(S), S)
           /\ DOMAIN ByNumber(v, S) = 1 .. Cardinality(S)
           /\ \A k \in 1 .. Cardinality(S) :
                 /\ Numbers(S)[k] \in S
                 /\ ByNumber(v, S)[k] = v[Numbers(S)[k]]
<1> DEFINE n == Cardinality(S)
           s == Numbers(S)
<1>1. S \in SUBSET Nat /\ IsFiniteSet(S) /\ n \in Nat /\ Counts(s, n, S)
  BY NumbersCount DEF LineSet
<1>2. \A k \in 1 .. n : s[k] \in S
  BY <1>1 DEF Counts
<1>3. ByNumber(v, S) = [k \in 1 .. n |-> v[s[k]]]
  BY DEF ByNumber
<1>4. DOMAIN ByNumber(v, S) = 1 .. n /\ \A k \in 1 .. n : ByNumber(v, S)[k] = v[s[k]]
  BY <1>3
<1> HIDE DEF n, s
<1> QED BY <1>1, <1>2, <1>4 DEF n, s

LEMMA ByNumberSeq ==
    ASSUME NEW v, NEW S, LineSet(S)
    PROVE  ByNumber(v, S) \in Seq({v[n] : n \in S}) /\ Len(ByNumber(v, S)) = Cardinality(S)
<1> DEFINE n == Cardinality(S)
           V == {v[m] : m \in S}
           ls == ByNumber(v, S)
<1>1. n \in Nat /\ DOMAIN ls = 1 .. n /\ \A k \in 1 .. n : Numbers(S)[k] \in S /\ ls[k] = v[Numbers(S)[k]]
  BY ByNumberIs
<1>2. \A k \in 1 .. n : ls[k] \in V
  BY <1>1
<1>3. ls = [k \in 1 .. n |-> ls[k]]
  BY DEF ByNumber
<1> HIDE DEF n, V, ls
<1>4. ls \in [1 .. n -> V]
  BY <1>2, <1>3
<1>5. ls \in Seq(V) /\ Len(ls) = n
  BY <1>1, <1>4
<1> QED BY <1>5 DEF n, V, ls

LEMMA BetterIs ==
    ASSUME NEW v, NEW S, Valued(v, S),
           NEW i \in 1 .. Cardinality(S), NEW j \in 1 .. Cardinality(S)
    PROVE  Better(ByNumber(v, S), j, i) <=> <<Numbers(S)[j], Numbers(S)[i]>> \in Finer(v)
<1> DEFINE s == Numbers(S)
<1>1. Cardinality(S) \in Nat /\ S \in SUBSET Nat /\ Counts(s, Cardinality(S), S)
  BY ByNumberIs DEF Valued
<1>2. s[i] \in Nat /\ s[j] \in Nat
  BY <1>1 DEF Counts
<1>3. s[j] < s[i] <=> j < i
  <2>1. (j < i => s[j] < s[i]) /\ (i < j => s[i] < s[j])
    BY <1>1 DEF Counts
  <2>2. i \in Nat /\ j \in Nat
    BY <1>1
  <2> QED BY <1>2, <2>1, <2>2
<1>4. ByNumber(v, S)[i] = v[s[i]] /\ ByNumber(v, S)[j] = v[s[j]]
  BY ByNumberIs DEF Valued
<1>5. Better(ByNumber(v, S), j, i) <=> v[s[j]].score > v[s[i]].score \/ (v[s[j]].score = v[s[i]].score /\ j < i)
  BY <1>4, Zenon DEF Better
<1>6. <<s[j], s[i]>> \in Finer(v) <=>
          v[s[j]].score > v[s[i]].score \/ (v[s[j]].score = v[s[i]].score /\ s[j] < s[i])
  BY <1>2 DEF Finer
<1> QED BY <1>3, <1>5, <1>6

LEMMA KeptIs ==
    ASSUME NEW v, NEW S, Valued(v, S), NEW lead \in Nat
    PROVE  /\ Kept(ByNumber(v, S), lead) \in SUBSET (1 .. Cardinality(S))
           /\ \A i \in 1 .. Cardinality(S) :
                 i \in Kept(ByNumber(v, S), lead) <=> Numbers(S)[i] \in KeptLines(v, S, lead)
<1> DEFINE n == Cardinality(S)
           s == Numbers(S)
           ls == ByNumber(v, S)
<1>1. /\ n \in Nat /\ S \in SUBSET Nat /\ IsFiniteSet(S) /\ Counts(s, n, S) /\ DOMAIN ls = 1 .. n
      /\ \A k \in 1 .. n : s[k] \in S /\ ls[k] = v[s[k]]
  BY ByNumberIs DEF Valued
<1>2. \A i \in DOMAIN ls : Better(ls, i, i) \in BOOLEAN
  BY DEF Better
<1>3. Kept(ls, lead) \in SUBSET (1 .. n)
  BY <1>1 DEF Kept
<1> SUFFICES ASSUME NEW i \in 1 .. n PROVE i \in Kept(ls, lead) <=> s[i] \in KeptLines(v, S, lead)
  BY <1>3
<1>4. \A k \in 1 .. n : k <= lead <=> s[k] \in Leading(S, lead)
  <2>1. TAKE k \in 1 .. n
  <2>2. Cardinality(Under(Earlier, S, s[k])) = k - 1
    BY <1>1, CountsBelow
  <2>3. s[k] \in S
    BY <1>1
  <2> HIDE DEF s, n
  <2> QED BY <1>1, <2>2, <2>3 DEF Leading, FirstOf
<1> DEFINE defs == {j \in lead + 1 .. i - 1 : ls[j].kind = "def"}
           finer == {j \in DOMAIN ls : ls[j].exact = ls[i].exact /\ Better(ls, j, i)}
<1>5. i \in Kept(ls, lead) <=>
         \/ i <= lead
         \/ ls[i].kind = "def" /\ Cardinality(defs) < MaxDefs
         \/ Cardinality(finer) < PerPool
  BY <1>1, Zenon DEF Kept
<1>6. s[i] \in DefsAfter(v, S, lead) <=> ~(i <= lead) /\ ls[i].kind = "def"
  BY <1>1, <1>4 DEF DefsAfter
<1>7. ~(i <= lead) => Cardinality(defs) = Cardinality(Under(Earlier, DefsAfter(v, S, lead), s[i]))
  <2>1. SUFFICES ASSUME ~(i <= lead)
                 PROVE  Cardinality(defs) = Cardinality(Under(Earlier, DefsAfter(v, S, lead), s[i]))
    OBVIOUS
  <2>2. defs \in SUBSET (1 .. n) /\ \A j \in 1 .. n : j \in defs <=> ~(j <= lead) /\ j < i /\ v[s[j]].kind = "def"
    BY <1>1
  <2>3. \A j \in 1 .. n : s[j] < s[i] <=> j < i
    <3>1. \A j, k \in 1 .. n : j < k => s[j] < s[k]
      BY <1>1 DEF Counts
    <3>2. \A j \in 1 .. n : s[j] \in Nat
      BY <1>1
    <3>3. \A j \in 1 .. n : j \in Nat /\ (j < i \/ j = i \/ i < j)
      OBVIOUS
    <3> HIDE DEF s, n
    <3> QED BY <3>1, <3>2, <3>3
  <2>4. \A j \in 1 .. n : s[j] \in Under(Earlier, DefsAfter(v, S, lead), s[i]) <=> j \in defs
    <3>1. \A j \in 1 .. n : s[j] \in Nat
      BY <1>1
    <3>2. \A j \in 1 .. n : s[j] \in DefsAfter(v, S, lead) <=> ~(j <= lead) /\ v[s[j]].kind = "def"
      BY <1>1, <1>4 DEF DefsAfter
    <3> HIDE DEF s, n, defs
    <3> QED BY <2>2, <2>3, <3>1, <3>2 DEF Under, Earlier
  <2>5. Under(Earlier, DefsAfter(v, S, lead), s[i]) \subseteq S /\ \A x \in S : \E j \in 1 .. n : s[j] = x
    BY <1>1 DEF Under, DefsAfter, Counts
  <2>6. At(s, defs) = Under(Earlier, DefsAfter(v, S, lead), s[i])
    <3> HIDE DEF s, n, defs
    <3> QED BY <2>2, <2>4, <2>5 DEF At
  <2> HIDE DEF s, n, defs
  <2> QED BY <1>1, <2>2, <2>6, CountsIs
<1>8. Cardinality(finer) = Cardinality(Under(Finer(v), PoolOf(v, S, v[s[i]].exact), s[i]))
  <2>1. finer \in SUBSET (1 .. n)
    BY <1>1
  <2>2. \A j \in 1 .. n : j \in finer <=> v[s[j]].exact = v[s[i]].exact /\ <<s[j], s[i]>> \in Finer(v)
    BY <1>1, BetterIs
  <2>3. \A j \in 1 .. n : s[j] \in Under(Finer(v), PoolOf(v, S, v[s[i]].exact), s[i]) <=> j \in finer
    <3> HIDE DEF finer, s, n
    <3> QED BY <1>1, <2>2 DEF Under, PoolOf
  <2>4. Under(Finer(v), PoolOf(v, S, v[s[i]].exact), s[i]) \subseteq S /\ \A x \in S : \E j \in 1 .. n : s[j] = x
    BY <1>1 DEF Under, PoolOf, Counts
  <2> HIDE DEF s, n, finer
  <2>5. At(s, finer) = Under(Finer(v), PoolOf(v, S, v[s[i]].exact), s[i])
    BY <2>1, <2>3, <2>4 DEF At
  <2> QED BY <1>1, <2>1, <2>5, CountsIs
<1>9. v[s[i]].exact \in BOOLEAN /\ \A b \in BOOLEAN : s[i] \in PoolOf(v, S, b) <=> v[s[i]].exact = b
  BY <1>1 DEF Valued, PoolOf
<1>10. s[i] \in KeptLines(v, S, lead) <=>
          \/ i <= lead
          \/ ~(i <= lead) /\ ls[i].kind = "def" /\ Cardinality(defs) < MaxDefs
          \/ Cardinality(finer) < PerPool
  <2> HIDE DEF s, n, ls, defs, finer
  <2>1. s[i] \in Leading(S, lead) <=> i <= lead
    BY <1>4
  <2>2. s[i] \in FirstOf(Earlier, DefsAfter(v, S, lead), MaxDefs) <=>
            ~(i <= lead) /\ ls[i].kind = "def" /\ Cardinality(defs) < MaxDefs
    BY <1>6, <1>7 DEF FirstOf
  <2>3. \A b \in BOOLEAN : s[i] \in FirstOf(Finer(v), PoolOf(v, S, b), PerPool) <=>
            v[s[i]].exact = b /\ Cardinality(finer) < PerPool
    BY <1>8, <1>9 DEF FirstOf
  <2>4. s[i] \in KeptLines(v, S, lead) <=>
          \/ s[i] \in Leading(S, lead)
          \/ s[i] \in FirstOf(Earlier, DefsAfter(v, S, lead), MaxDefs)
          \/ \E b \in BOOLEAN : s[i] \in FirstOf(Finer(v), PoolOf(v, S, b), PerPool)
    BY DEF KeptLines
  <2> QED BY <1>9, <2>1, <2>2, <2>3, <2>4
<1> HIDE DEF s, n, ls, defs, finer
<1> QED BY <1>5, <1>10

LEMMA OnlyIs ==
    ASSUME NEW v, NEW S, Valued(v, S), NEW Q \in SUBSET (1 .. Cardinality(S))
    PROVE  Only(ByNumber(v, S), Q) = ByNumber(v, At(Numbers(S), Q))
<1> DEFINE n == Cardinality(S)
           s == Numbers(S)
           q == Numbers(Q)
           c == Cardinality(Q)
           t == [k \in 1 .. c |-> s[q[k]]]
           T == At(s, Q)
<1>1. /\ n \in Nat /\ S \in SUBSET Nat /\ Counts(s, n, S)
      /\ \A k \in 1 .. n : s[k] \in S /\ ByNumber(v, S)[k] = v[s[k]]
  BY ByNumberIs DEF Valued
<1>0. Q \in SUBSET (1 .. n)
  OBVIOUS
<1>2. Q \in SUBSET Nat /\ IsFiniteSet(Q) /\ c \in Nat /\ Counts(q, c, Q)
  <2> HIDE DEF n
  <2>1. Q \in SUBSET Nat
    BY <1>0, <1>1
  <2>2. IsFiniteSet(1 .. n)
    BY <1>1, FS_Interval
  <2>3. IsFiniteSet(Q)
    BY ONLY <1>0, <2>2, FS_Subset
  <2> QED BY <2>1, <2>3, NumbersCount
<1>3. DOMAIN q = 1 .. c /\ \A k \in 1 .. c : q[k] \in Q /\ q[k] \in 1 .. n
  BY <1>2 DEF Counts
<1> HIDE DEF n, s, q, c, T
<1>4. Counts(t, c, T)
  <2>1. \A k \in 1 .. c : t[k] = s[q[k]] /\ t[k] \in T
    BY <1>3 DEF T, At
  <2>2. \A x \in T : \E k \in 1 .. c : t[k] = x
    BY <1>2, <2>1 DEF T, At, Counts
  <2>3. \A k, m \in 1 .. c : k < m => t[k] < t[m]
    BY <1>1, <1>2, <1>3, <2>1 DEF Counts
  <2>4. DOMAIN t = 1 .. c
    OBVIOUS
  <2> HIDE DEF t
  <2> QED BY <2>1, <2>2, <2>3, <2>4 DEF Counts
<1>5. T \in SUBSET Nat
  BY <1>0, <1>1 DEF T, At
<1>6. Numbers(T) = t /\ Cardinality(T) = c
  BY <1>2, <1>4, <1>5, NumbersAre
<1>7. Only(ByNumber(v, S), Q) = [k \in 1 .. c |-> ByNumber(v, S)[q[k]]]
  BY <1>3 DEF Only, q, Numbers
<1>8. ByNumber(v, T) = [k \in 1 .. c |-> v[t[k]]]
  BY <1>6 DEF ByNumber
<1>9. \A k \in 1 .. c : ByNumber(v, S)[q[k]] = v[t[k]]
  BY <1>1, <1>3
<1>10. Only(ByNumber(v, S), Q) = ByNumber(v, T)
  <2> HIDE DEF t
  <2> QED BY <1>7, <1>8, <1>9
<1> QED BY <1>10 DEF T, s

LEMMA KeptSome ==
    ASSUME NEW v, NEW S, NEW lead
    PROVE  KeptLines(v, S, lead) \subseteq S
BY DEF KeptLines, Leading, DefsAfter, PoolOf, FirstOf

LEMMA LinesPart ==
    ASSUME NEW S, LineSet(S), NEW T, T \subseteq S
    PROVE  LineSet(T)
<1>1. IsFiniteSet(T)
  BY FS_Subset DEF LineSet
<1> QED BY <1>1 DEF LineSet

LEMMA ValuedPart ==
    ASSUME NEW v, NEW S, Valued(v, S), NEW T, T \subseteq S
    PROVE  Valued(v, T)
<1>1. LineSet(T)
  BY LinesPart DEF Valued
<1> QED BY <1>1 DEF Valued

\* T are the places of U.
Places(s, n, T, U) == T \subseteq 1 .. n /\ \A k \in 1 .. n : k \in T <=> s[k] \in U

LEMMA AtIs ==
    ASSUME NEW s, NEW n \in Nat, NEW S, Counts(s, n, S), NEW U \in SUBSET S, NEW T, Places(s, n, T, U)
    PROVE  At(s, T) = U
BY DEF At, Counts, Places

LEMMA CountDisjoint ==
    ASSUME NEW A, NEW B, IsFiniteSet(A), IsFiniteSet(B), A \cap B = {}
    PROVE  Cardinality(A \cup B) = Cardinality(A) + Cardinality(B)
<1>1. Cardinality(A \cap B) = 0
  BY FS_EmptySet
<1>2. Cardinality(A) \in Nat /\ Cardinality(B) \in Nat
  BY FS_CardinalityType
<1>3. Cardinality(A \cup B) = Cardinality(A) + Cardinality(B) - Cardinality(A \cap B)
  BY FS_Union
<1> QED BY ONLY <1>1, <1>2, <1>3

LEMMA PruneIs ==
    ASSUME NEW v, NEW S, Valued(v, S), NEW h, h.lines = ByNumber(v, S), NEW lead \in Nat
    PROVE  LET rest == S \ KeptLines(v, S, lead) IN
           Prune(h, lead) =
               [lines |-> ByNumber(v, KeptLines(v, S, lead)),
                dropped |-> h.dropped + Cardinality(rest),
                exact |-> h.exact + Cardinality({n \in rest : v[n].exact}),
                near |-> h.near \cup {v[n].word : n \in {m \in rest : ~v[m].exact}}]
<1> DEFINE n == Cardinality(S)
           s == Numbers(S)
           ls == ByNumber(v, S)
           K == KeptLines(v, S, lead)
           Q == Kept(ls, lead)
           G == (1 .. n) \ Q
           left == S \ K
<1>1. /\ n \in Nat /\ S \in SUBSET Nat /\ IsFiniteSet(S) /\ Counts(s, n, S) /\ DOMAIN ls = 1 .. n
      /\ \A k \in 1 .. n : s[k] \in S /\ ls[k] = v[s[k]]
  BY ByNumberIs DEF Valued
<1>2. Q \in SUBSET (1 .. n) /\ \A i \in 1 .. n : i \in Q <=> s[i] \in K
  BY KeptIs
<1>3. Only(ls, Q) = ByNumber(v, At(s, Q))
  BY <1>2, OnlyIs
<1>4. \A x \in S : \E k \in 1 .. n : s[k] = x
  BY <1>1 DEF Counts
<1>5. K \subseteq S
  BY KeptSome
<1> HIDE DEF n, s, ls, K, Q
<1>6. At(s, Q) = K /\ At(s, G) = left
  <2>1. Q \in SUBSET (1 .. n) /\ G \in SUBSET (1 .. n) /\ K \in SUBSET S /\ left \in SUBSET S
    BY <1>2, <1>5
  <2>2. \A i \in 1 .. n : i \in G <=> s[i] \in left
    BY <1>1, <1>2
  <2> HIDE DEF G, left
  <2>3. Places(s, n, Q, K) /\ Places(s, n, G, left)
    BY <1>2, <2>1, <2>2 DEF Places
  <2>4. At(s, Q) = K /\ At(s, G) = left
    BY <1>1, <2>1, <2>3, AtIs
  <2> QED BY <2>4
<1> DEFINE T == {i \in G : ls[i].exact}
           U == {m \in left : v[m].exact}
           TN == {i \in G : ~ls[i].exact}
           UN == {m \in left : ~v[m].exact}
<1>7. At(s, T) = U /\ At(s, TN) = UN /\ T \in SUBSET (1 .. n) /\ TN \in SUBSET (1 .. n)
  <2>1. /\ T \in SUBSET (1 .. n) /\ TN \in SUBSET (1 .. n)
        /\ U \in SUBSET S /\ UN \in SUBSET S
    OBVIOUS
  <2>2. \A i \in 1 .. n : (i \in T <=> s[i] \in U) /\ (i \in TN <=> s[i] \in UN)
    BY <1>1, <1>2
  <2> HIDE DEF T, U, TN, UN
  <2>3. Places(s, n, T, U) /\ Places(s, n, TN, UN)
    BY <2>1, <2>2 DEF Places
  <2> QED BY <1>1, <2>1, <2>3, AtIs
<1>8. {ls[i].word : i \in TN} = {v[m].word : m \in UN}
  <2>1. \A i \in TN : s[i] \in UN /\ ls[i] = v[s[i]]
    BY <1>1, <1>2
  <2>2. \A m \in UN : \E i \in TN : m = s[i]
    BY <1>7 DEF At
  <2> HIDE DEF TN, UN
  <2> QED BY <2>1, <2>2
<1>9. /\ Cardinality(G) = Cardinality(left)
      /\ Cardinality(T) = Cardinality(U)
  <2>1. G \in SUBSET (1 .. n)
    OBVIOUS
  <2> HIDE DEF G, left, T, U
  <2>2. \A W \in SUBSET (1 .. n) : Cardinality(At(s, W)) = Cardinality(W)
    BY <1>1, CountsIs
  <2> QED BY <1>6, <1>7, <2>1, <2>2
<1>10. Prune(h, lead) =
          [lines |-> Only(ls, Q),
           dropped |-> h.dropped + Cardinality(DOMAIN ls \ Q),
           exact |-> h.exact + Cardinality({i \in DOMAIN ls \ Q : ls[i].exact}),
           near |-> h.near \cup {ls[i].word : i \in {g \in DOMAIN ls \ Q : ~ls[g].exact}}]
  BY Zenon DEF Prune, ls, Q
<1>11. DOMAIN ls \ Q = G
  BY <1>1
<1>12. Prune(h, lead) =
          [lines |-> ByNumber(v, K), dropped |-> h.dropped + Cardinality(left),
           exact |-> h.exact + Cardinality({m \in left : v[m].exact}),
           near |-> h.near \cup {v[m].word : m \in {x \in left : ~v[x].exact}}]
  <2> HIDE DEF G, left
  <2> QED BY <1>3, <1>6, <1>8, <1>9, <1>10, <1>11
<1> QED BY <1>12 DEF K

LEMMA SeqExtensional ==
    ASSUME NEW V, NEW s \in Seq(V), NEW t \in Seq(V), Len(s) = Len(t), \A k \in 1 .. Len(s) : s[k] = t[k]
    PROVE  s = t
OBVIOUS

LEMMA ByNumberJoin ==
    ASSUME NEW v, NEW A, NEW B, LineSet(A \cup B), \A x \in A, y \in B : x < y
    PROVE  ByNumber(v, A) \o ByNumber(v, B) = ByNumber(v, A \cup B)
<1> DEFINE a == Cardinality(A)
           b == Cardinality(B)
           la == ByNumber(v, A)
           lb == ByNumber(v, B)
           S == A \cup B
           V == {v[n] : n \in S}
           lc == ByNumber(v, S)
<1>1. LineSet(A) /\ LineSet(B) /\ LineSet(S)
  BY LinesPart
<1>2. /\ a \in Nat /\ DOMAIN la = 1 .. a /\ \A k \in 1 .. a : la[k] = v[Numbers(A)[k]]
      /\ b \in Nat /\ DOMAIN lb = 1 .. b /\ \A k \in 1 .. b : lb[k] = v[Numbers(B)[k]]
  <2>1. ASSUME NEW C, LineSet(C)
        PROVE  /\ Cardinality(C) \in Nat
               /\ DOMAIN ByNumber(v, C) = 1 .. Cardinality(C)
               /\ \A k \in 1 .. Cardinality(C) : ByNumber(v, C)[k] = v[Numbers(C)[k]]
    BY ONLY LineSet(C), ByNumberIs
  <2> QED BY ONLY <1>1, <2>1
<1>3. DOMAIN lc = 1 .. Cardinality(S) /\ \A k \in 1 .. Cardinality(S) : lc[k] = v[Numbers(S)[k]]
  <2> HIDE DEF S
  <2> QED BY <1>1, ByNumberIs
<1>4. /\ Cardinality(S) = a + b
      /\ \A k \in 1 .. a : Numbers(S)[k] = Numbers(A)[k]
      /\ \A k \in 1 .. b : Numbers(S)[a + k] = Numbers(B)[k]
  BY <1>1, NumbersJoin DEF LineSet
<1>5. la \in Seq({v[n] : n \in A}) /\ Len(la) = a /\ lb \in Seq({v[n] : n \in B}) /\ Len(lb) = b
  BY <1>1, ByNumberSeq
<1>6. lc \in Seq(V) /\ Len(lc) = a + b
  <2> HIDE DEF S
  <2> QED BY <1>1, <1>4, ByNumberSeq
<1> HIDE DEF a, b, la, lb, lc
<1>7. la \in Seq(V) /\ lb \in Seq(V)
  BY <1>5
<1> HIDE DEF V, S
<1>8. la \o lb \in Seq(V) /\ Len(la \o lb) = a + b
  BY <1>2, <1>5, <1>7
<1>9. \A k \in 1 .. a + b : (la \o lb)[k] = lc[k]
  <2>1. TAKE k \in 1 .. a + b
  <2>2. CASE k <= a
    <3>1. k \in 1 .. a
      BY <1>2, <2>2
    <3>2. (la \o lb)[k] = la[k]
      BY <1>2, <1>5, <1>7, <2>2
    <3>3. lc[k] = v[Numbers(A)[k]]
      BY <1>3, <1>4, <3>1
    <3> QED BY <1>2, <3>1, <3>2, <3>3
  <2>3. CASE ~ (k <= a)
    <3>1. k - a \in 1 .. b /\ a + (k - a) = k
      BY <1>2, <2>3
    <3>2. (la \o lb)[k] = lb[k - a]
      BY <1>2, <1>5, <1>7, <2>3
    <3>3. Numbers(S)[k] = Numbers(B)[k - a]
      BY <1>4, <3>1
    <3>4. lc[k] = v[Numbers(B)[k - a]]
      BY <1>3, <1>4, <3>3
    <3> QED BY <1>2, <3>1, <3>2, <3>4
  <2> QED BY <2>2, <2>3
<1>10. la \o lb = lc
  BY <1>2, <1>6, <1>8, <1>9, SeqExtensional
<1> QED BY <1>10 DEF la, lb, lc, S

\* Taking the next lines and dropping again.
More(v, P, N, lead) == [Pruned(v, P, lead) EXCEPT !.lines = @ \o ByNumber(v, N)]

LEMMA PrunedMore ==
    ASSUME NEW v, NEW P, NEW N, Valued(v, P \cup N), \A x \in P, y \in N : x < y, NEW lead \in Nat
    PROVE  Prune(More(v, P, N, lead), lead) = Pruned(v, P \cup N, lead)
<1> DEFINE h == More(v, P, N, lead)
           S == P \cup N
           K == KeptLines(v, P, lead)
           R == K \cup N
           M == KeptLines(v, S, lead)
           lost(T) == {n \in T : v[n].exact}
           names(T) == {v[n].word : n \in {m \in T : ~v[m].exact}}
<1>1. K \subseteq P /\ M \subseteq R /\ KeptLines(v, R, lead) = M
  BY KeptSome, KeptAgain
<1>2. Valued(v, P) /\ Valued(v, R) /\ Valued(v, S) /\ IsFiniteSet(S)
  <2>1. R \subseteq S
    BY <1>1
  <2> QED BY <2>1, ValuedPart DEF Valued, LineSet
<1>3. /\ h.lines = ByNumber(v, K) \o ByNumber(v, N)
      /\ h.dropped = Cardinality(P \ K)
      /\ h.exact = Cardinality(lost(P \ K))
      /\ h.near = names(P \ K)
  <2>1. Pruned(v, P, lead) = [lines |-> ByNumber(v, K), dropped |-> Cardinality(P \ K),
                              exact |-> Cardinality(lost(P \ K)), near |-> names(P \ K)]
    BY Zenon DEF Pruned
  <2> HIDE DEF K, lost, names
  <2> QED BY <2>1 DEF More
<1> HIDE DEF h
<1>4. h.lines = ByNumber(v, R)
  <2>1. \A x \in K, y \in N : x < y
    BY <1>1
  <2> HIDE DEF K
  <2>2. LineSet(K \cup N)
    BY <1>2 DEF Valued
  <2>3. ByNumber(v, K) \o ByNumber(v, N) = ByNumber(v, K \cup N)
    BY <2>1, <2>2, ByNumberJoin
  <2> QED BY <1>3, <2>3
<1>5. Prune(h, lead) = [lines |-> ByNumber(v, M), dropped |-> h.dropped + Cardinality(R \ M),
                        exact |-> h.exact + Cardinality(lost(R \ M)), near |-> h.near \cup names(R \ M)]
  <2>1. Prune(h, lead) = [lines |-> ByNumber(v, KeptLines(v, R, lead)),
                          dropped |-> h.dropped + Cardinality(R \ KeptLines(v, R, lead)),
                          exact |-> h.exact + Cardinality(lost(R \ KeptLines(v, R, lead))),
                          near |-> h.near \cup names(R \ KeptLines(v, R, lead))]
    <3> HIDE DEF R, M, K
    <3> QED BY <1>2, <1>4, PruneIs
  <2> HIDE DEF R, M, K, lost, names
  <2> QED BY <1>1, <2>1
<1>6. S \ M = (P \ K) \cup (R \ M) /\ (P \ K) \cap (R \ M) = {}
  <2>1. \A x \in P, y \in N : x # y
    <3>1. P \cup N \subseteq Nat
      BY <1>2 DEF Valued, LineSet
    <3> QED BY <3>1
  <2> HIDE DEF K, M
  <2> QED BY <1>1, <2>1
<1> HIDE DEF S, K, R, M
<1>7. IsFiniteSet(P \ K) /\ IsFiniteSet(R \ M)
  <2>1. P \ K \in SUBSET S /\ R \ M \in SUBSET S
    BY <1>1 DEF S, R
  <2> QED BY <1>2, <2>1, FS_Subset
<1>8. Cardinality(S \ M) = Cardinality(P \ K) + Cardinality(R \ M)
  BY <1>6, <1>7, CountDisjoint
<1>9. Cardinality(lost(S \ M)) = Cardinality(lost(P \ K)) + Cardinality(lost(R \ M))
  <2>1. lost(S \ M) = lost(P \ K) \cup lost(R \ M) /\ lost(P \ K) \cap lost(R \ M) = {}
    BY <1>6
  <2>2. IsFiniteSet(lost(P \ K)) /\ IsFiniteSet(lost(R \ M))
    <3>1. lost(P \ K) \in SUBSET (P \ K) /\ lost(R \ M) \in SUBSET (R \ M)
      OBVIOUS
    <3> HIDE DEF lost
    <3> QED BY <1>7, <3>1, FS_Subset
  <2> HIDE DEF lost
  <2> QED BY <2>1, <2>2, CountDisjoint
<1>10. names(S \ M) = names(P \ K) \cup names(R \ M)
  BY <1>6
<1>11. Pruned(v, S, lead) = [lines |-> ByNumber(v, M), dropped |-> Cardinality(S \ M),
                             exact |-> Cardinality(lost(S \ M)), near |-> names(S \ M)]
  BY Zenon DEF Pruned, M
<1>12. Prune(h, lead) = Pruned(v, S, lead)
  <2> HIDE DEF lost, names
  <2> QED BY <1>3, <1>5, <1>8, <1>9, <1>10, <1>11
<1> QED BY <1>12 DEF S, h

LEMMA PrunedNone ==
    ASSUME NEW v, NEW lead \in Nat
    PROVE  Pruned(v, {}, lead) = NoLines
<1>1. KeptLines(v, {}, lead) = {}
  BY KeptSome
<1>2. Cardinality({}) = 0 /\ {} \ {} = {} /\ {n \in {} : v[n].exact} = {} /\ {m \in {} : ~v[m].exact} = {}
  BY FS_EmptySet
<1>3. ByNumber(v, {}) = <<>>
  <2>1. 1 .. Cardinality({}) = {}
    BY <1>2
  <2>2. ByNumber(v, {}) = [k \in {} |-> v[Numbers({})[k]]]
    BY <2>1, Zenon DEF ByNumber
  <2> QED BY <2>2
<1>4. {v[n].word : n \in {}} = {}
  OBVIOUS
<1> QED BY <1>1, <1>2, <1>3, <1>4 DEF Pruned, NoLines

-----------------------------------------------------------------------------
(* Lines: a file being read, of which M are the lines that match; u is what *)
(* is recorded of each, w what is held of it.                               *)

Before(M, p) == {n \in M : n < p}
Between(M, m, p) == {n \in M : m <= n /\ n < p}
DefsOf(w, M) == {n \in M : w[n].kind = "def"}

\* The lines before m were taken, those from there to p are recorded.
Holding(u, w, M, p, lead, hits, h) ==
    \E m \in 1 .. p : h = Pruned(w, Before(M, m), lead) /\ hits = ByNumber(u, Between(M, m, p))
\* Definitions found are recorded, or too many to count.
DefsRecorded(w, M, p, s) ==
    /\ s.defs \in Nat /\ s.defs <= Cardinality(DefsOf(w, Before(M, p)))
    /\ \/ \A n \in DefsOf(w, Before(M, p)) : \E k \in DOMAIN s.hits : s.hits[k].line = n
       \/ Cardinality(DefsOf(w, Before(M, p))) > MaxDefs

LEMMA BeforeNext ==
    ASSUME NEW M, LineSet(M), NEW p \in Nat
    PROVE  /\ LineSet(Before(M, p))
           /\ p \notin M => Before(M, p + 1) = Before(M, p)
           /\ p \in M => /\ Before(M, p + 1) = Before(M, p) \cup {p}
                         /\ p \notin Before(M, p)
           /\ Cardinality(Before(M, p)) \in Nat
           /\ Cardinality(Before(M, p + 1)) = Cardinality(Before(M, p)) + IF p \in M THEN 1 ELSE 0
<1>1. M \subseteq Nat
  BY DEF LineSet
<1>2. LineSet(Before(M, p))
  BY LinesPart DEF Before
<1> DEFINE succ == p + 1
<1>7. \A n \in M : (n < succ <=> n < p \/ n = p) /\ ~(p < p)
  BY <1>1
<1>3. p \notin M => Before(M, succ) = Before(M, p)
  <2> HIDE DEF succ
  <2> QED BY <1>7 DEF Before
<1>4. p \in M => Before(M, succ) = Before(M, p) \cup {p} /\ p \notin Before(M, p)
  <2> HIDE DEF succ
  <2> QED BY <1>7 DEF Before
<1>5. IsFiniteSet(Before(M, p)) /\ Cardinality(Before(M, p)) \in Nat
  BY <1>2, FS_CardinalityType DEF LineSet
<1>6. p \in M => Cardinality(Before(M, p + 1)) = Cardinality(Before(M, p)) + 1
  BY <1>4, <1>5, FS_AddElement
<1> QED BY <1>2, <1>3, <1>4, <1>5, <1>6

LEMMA ByNumberOne ==
    ASSUME NEW u, NEW p \in Nat
    PROVE  ByNumber(u, {p}) = <<u[p]>> /\ LineSet({p})
<1>1. LineSet({p}) /\ Cardinality({p}) = 1
  BY FS_Singleton DEF LineSet
<1>2. DOMAIN ByNumber(u, {p}) = 1 .. 1 /\ \A k \in 1 .. 1 : Numbers({p})[k] \in {p} /\ ByNumber(u, {p})[k] = u[Numbers({p})[k]]
  BY <1>1, ByNumberIs
<1>3. ByNumber(u, {p}) \in Seq({u[n] : n \in {p}}) /\ Len(ByNumber(u, {p})) = 1
  BY <1>1, ByNumberSeq
<1>4. ByNumber(u, {p})[1] = u[p]
  BY <1>2
<1> QED BY <1>1, <1>3, <1>4

LEMMA ByNumberAppend ==
    ASSUME NEW u, NEW S, LineSet(S), NEW p \in Nat, \A x \in S : x < p
    PROVE  Append(ByNumber(u, S), u[p]) = ByNumber(u, S \cup {p})
<1>1. ByNumber(u, S) \in Seq({u[n] : n \in S})
  BY ByNumberSeq
<1>2. Append(ByNumber(u, S), u[p]) = ByNumber(u, S) \o <<u[p]>>
  <2> DEFINE V == {u[n] : n \in S \cup {p}}
             ls == ByNumber(u, S)
  <2>1. ls \in Seq(V) /\ u[p] \in V
    BY <1>1
  <2> HIDE DEF V, ls
  <2> QED BY <2>1 DEF ls
<1>3. LineSet(S \cup {p})
  BY FS_AddElement DEF LineSet
<1>4. ByNumber(u, S) \o ByNumber(u, {p}) = ByNumber(u, S \cup {p})
  <2>1. \A x \in S, y \in {p} : x < y
    OBVIOUS
  <2> QED BY <1>3, <2>1, ByNumberJoin
<1> QED BY <1>2, <1>4, ByNumberOne

LEMMA HoldingSkips ==
    ASSUME NEW u, NEW w, NEW M, LineSet(M), NEW p \in Nat \ {0}, p \notin M, NEW lead, NEW hits, NEW h,
           Holding(u, w, M, p, lead, hits, h)
    PROVE  Holding(u, w, M, p + 1, lead, hits, h)
<1>1. PICK m \in 1 .. p : h = Pruned(w, Before(M, m), lead) /\ hits = ByNumber(u, Between(M, m, p))
  BY DEF Holding
<1> DEFINE succ == p + 1
<1>2. Between(M, m, succ) = Between(M, m, p)
  <2>1. \A n \in M : n < succ <=> n < p
    <3>1. \A n \in M : n \in Nat /\ n # p
      BY DEF LineSet
    <3> QED BY <3>1
  <2> HIDE DEF succ
  <2> QED BY <2>1 DEF Between
<1>3. m \in 1 .. p + 1
  OBVIOUS
<1> QED BY <1>1, <1>2, <1>3 DEF Holding

LEMMA HoldingAppends ==
    ASSUME NEW u, NEW w, NEW M, LineSet(M), NEW p \in M, p # 0, NEW lead, NEW hits, NEW h,
           Holding(u, w, M, p, lead, hits, h)
    PROVE  Holding(u, w, M, p + 1, lead, Append(hits, u[p]), h)
<1>1. PICK m \in 1 .. p : h = Pruned(w, Before(M, m), lead) /\ hits = ByNumber(u, Between(M, m, p))
  BY DEF Holding
<1>2. p \in Nat /\ M \subseteq Nat
  BY DEF LineSet
<1> DEFINE succ == p + 1
<1>3. Between(M, m, succ) = Between(M, m, p) \cup {p} /\ \A x \in Between(M, m, p) : x < p
  <2>1. \A n \in M : (n < succ <=> n < p \/ n = p) /\ m <= p
    BY <1>2
  <2> HIDE DEF succ
  <2> QED BY <2>1 DEF Between
<1>4. LineSet(Between(M, m, p))
  BY LinesPart DEF Between
<1>5. Append(hits, u[p]) = ByNumber(u, Between(M, m, p + 1))
  BY <1>1, <1>2, <1>3, <1>4, ByNumberAppend
<1>6. m \in 1 .. p + 1
  BY <1>2
<1> QED BY <1>1, <1>5, <1>6 DEF Holding

\* The hits of a file, taken.
Taken(h, f, hits) == [h EXCEPT !.lines = @ \o [k \in DOMAIN hits |-> Scored(f, hits[k])]]

\* What was recorded is taken.
LEMMA HoldingTakes ==
    ASSUME NEW u, NEW w, NEW M, Valued(w, M), NEW p \in Nat \ {0}, NEW lead \in Nat, NEW hits, NEW h,
           Holding(u, w, M, p, lead, hits, h),
           NEW f, \A n \in M : w[n] = Scored(f, u[n])
    PROVE  Prune(Taken(h, f, hits), lead) = Pruned(w, Before(M, p), lead)
<1>1. PICK m \in 1 .. p : h = Pruned(w, Before(M, m), lead) /\ hits = ByNumber(u, Between(M, m, p))
  BY DEF Holding
<1> DEFINE A == Before(M, m)
           B == Between(M, m, p)
           scored == [k \in DOMAIN hits |-> Scored(f, hits[k])]
<1>2. M \subseteq Nat
  BY DEF Valued, LineSet
<1>3. A \cup B = Before(M, p) /\ \A x \in A, y \in B : x < y
  <2>1. \A n \in M : (n < m \/ (m <= n /\ n < p) <=> n < p)
    BY <1>2
  <2>2. \A x, y \in M : x < m /\ m <= y => x < y
    BY <1>2
  <2> QED BY <2>1, <2>2 DEF Before, Between
<1>4. Valued(w, A \cup B) /\ LineSet(B)
  <2>1. A \cup B \subseteq M /\ B \subseteq M
    BY DEF Before, Between
  <2> QED BY <2>1, ValuedPart, LinesPart DEF Valued
<1>5. scored = ByNumber(w, B)
  <2>1. /\ DOMAIN ByNumber(u, B) = 1 .. Cardinality(B)
        /\ \A k \in 1 .. Cardinality(B) : Numbers(B)[k] \in B /\ ByNumber(u, B)[k] = u[Numbers(B)[k]]
    BY <1>4, ByNumberIs
  <2>2. B \subseteq M
    BY DEF Between
  <2> HIDE DEF B
  <2>3. \A k \in 1 .. Cardinality(B) : Scored(f, ByNumber(u, B)[k]) = w[Numbers(B)[k]]
    BY <2>1, <2>2
  <2>4. scored = [k \in 1 .. Cardinality(B) |-> Scored(f, ByNumber(u, B)[k])]
    BY <1>1, <2>1 DEF B
  <2> QED BY <2>3, <2>4 DEF ByNumber
<1> HIDE DEF scored, A, B
<1>6. [h EXCEPT !.lines = @ \o scored] = [Pruned(w, A, lead) EXCEPT !.lines = @ \o ByNumber(w, B)]
  BY <1>1, <1>5 DEF A
<1>7. Prune([h EXCEPT !.lines = @ \o scored], lead) = Pruned(w, A \cup B, lead)
  <2> DEFINE all == [h EXCEPT !.lines = @ \o scored]
  <2>1. all = [Pruned(w, A, lead) EXCEPT !.lines = @ \o ByNumber(w, B)]
    BY <1>6
  <2> HIDE DEF all
  <2>2. Prune(all, lead) = Pruned(w, A \cup B, lead)
    <3>1. all = More(w, A, B, lead)
      BY <2>1 DEF More
    <3> QED BY <1>3, <1>4, <3>1, PrunedMore
  <2> QED BY <2>2 DEF all
<1>8. Taken(h, f, hits) = [h EXCEPT !.lines = @ \o scored]
  BY Zenon DEF Taken, scored
<1> QED BY <1>3, <1>7, <1>8

LEMMA HoldingStarts ==
    ASSUME NEW u, NEW w, NEW M, LineSet(M), NEW lead \in Nat, NEW p \in Nat \ {0}
    PROVE  /\ Before(M, p) = {} => Holding(u, w, M, p, lead, <<>>, NoLines)
           /\ p \in M => Holding(u, w, M, p + 1, lead, <<u[p]>>, Pruned(w, Before(M, p), lead))
<1>1. ASSUME Before(M, p) = {} PROVE Holding(u, w, M, p, lead, <<>>, NoLines)
  <2>1. Between(M, p, p) = {}
    <3>1. \A n \in M : ~(p <= n /\ n < p)
      BY DEF LineSet
    <3> QED BY <3>1 DEF Between
  <2>2. ByNumber(u, {}) = <<>>
    <3>1. LineSet({})
      BY FS_EmptySet DEF LineSet
    <3>2. Cardinality({}) = 0
      BY FS_EmptySet
    <3>3. ByNumber(u, {}) \in Seq({u[n] : n \in {}}) /\ Len(ByNumber(u, {})) = 0
      BY <3>1, <3>2, ByNumberSeq
    <3> QED BY <3>3
  <2>3. p \in 1 .. p
    OBVIOUS
  <2> QED BY <1>1, <2>1, <2>2, <2>3, PrunedNone DEF Holding
<1>2. ASSUME p \in M PROVE Holding(u, w, M, p + 1, lead, <<u[p]>>, Pruned(w, Before(M, p), lead))
  <2> DEFINE succ == p + 1
  <2>1. Between(M, p, succ) = {p}
    <3>1. \A n \in M : p <= n /\ n < succ <=> n = p
      BY DEF LineSet
    <3> HIDE DEF succ
    <3> QED BY <1>2, <3>1 DEF Between
  <2>2. p \in 1 .. p + 1
    OBVIOUS
  <2> QED BY <2>1, <2>2, ByNumberOne DEF Holding
<1> QED BY <1>1, <1>2

-----------------------------------------------------------------------------
(* Lines: a search.                                                         *)

SearchText(text) == text \in Seq({text[n] : n \in DOMAIN text})
RankedBy(o) == o.keep > 0 /\ o.budget # 0 /\ o.mode \notin {"count", "files"}
ListsLines(o) == o.mode \notin {"count", "files"}
HitsIn(text) == [n \in Matches(text) |-> LineHit(n, text[n])]
WorthIn(f, text) == [n \in Matches(text) |-> Scored(f, LineHit(n, text[n]))]
Nonempty(text) == {n \in DOMAIN text : text[n] # <<>>}

Reading(o, u, w, M, text, p, lead, s, h) ==
    /\ SearchText(text) /\ p \in 1 .. Len(text) + 1
    /\ DOMAIN s = {"hits", "total", "all", "defs"}
    /\ s.total \in Nat /\ s.all \in Nat /\ (s.total # 0 => M # {})
    /\ o.mode # "files" =>
          s.total = Cardinality(Before(M, p)) /\ s.all = Cardinality(Before(Nonempty(text), p))
    /\ RankedBy(o) => Holding(u, w, M, p, lead, s.hits, h) /\ Len(s.hits) < Endless
    /\ ~RankedBy(o) => h = NoLines /\ s.hits \in Seq({u[n] : n \in M})
    /\ ~RankedBy(o) /\ ListsLines(o) => DefsRecorded(w, M, p, s)

\* A result is of the text that was read.
ResultOf(o, w, M, text, lead, r) ==
    /\ SearchText(text) /\ lead \in Nat /\ M # {}
    /\ o.mode # "files" => r.total = Cardinality(M) /\ r.unfiltered = Cardinality(Nonempty(text))
    /\ RankedBy(o) =>
          LET p == Pruned(w, M, lead) IN
          r.hits = p.lines /\ r.dropped = p.dropped /\ r.exact = p.exact /\ r.near = p.near
    /\ ~RankedBy(o) /\ ListsLines(o) =>
          \/ \A n \in DefsOf(w, M) : \E k \in DOMAIN r.hits : r.hits[k].line = n
          \/ Cardinality(DefsOf(w, M)) > MaxDefs

ResultsHold ==
    \A f \in Files : found[f] # NoFile =>
        ResultOf(opts, WorthIn(f, read[f].text), Matches(read[f].text), read[f].text, read[f].lead, found[f])
LinesInv ==
        /\ opts \in Asked
        /\ DOMAIN disk = Files /\ \A f \in Files : SearchText(disk[f])
        /\ DOMAIN found = Files /\ DOMAIN read = Files
        /\ pos \in Nat
        /\ pos = 0 => src = <<>>
        /\ pos > 0 =>
              /\ at \in Files
              /\ Reading(opts, HitsIn(src), WorthIn(at, src), Matches(src), src, pos, Lead, sink, held)
        /\ ResultsHold

LEMMA TextLinesAre ==
    ASSUME NEW text, SearchText(text)
    PROVE  /\ Len(text) \in Nat /\ DOMAIN text = 1 .. Len(text)
           /\ LineSet(Matches(text)) /\ LineSet(Nonempty(text))
           /\ 0 \notin DOMAIN text
<1>1. Len(text) \in Nat /\ DOMAIN text = 1 .. Len(text)
  BY DEF SearchText
<1>2. LineSet(DOMAIN text)
  BY <1>1, FS_Interval DEF LineSet
<1> QED BY <1>1, <1>2, LinesPart DEF Matches, Nonempty

LEMMA ScoresAre ==
    ASSUME opts \in Asked, NEW f \in Files, NEW occ
    PROVE  Score(f, occ) \in Int
<1>1. Prior(f) \in Int
  BY SearchAssumption DEF Prior
<1>2. Weight(occ.kind) \in Int
  BY DEF Weight
<1>3. Boost(occ.kind, Exact(occ)) \in Int
  BY DEF Boost
<1>4. \A a, b, c \in Int : a * b * c \in Int
  OBVIOUS
<1> QED BY <1>1, <1>2, <1>3, <1>4 DEF Score

LEMMA WorthIs ==
    ASSUME opts \in Asked, NEW f \in Files, NEW text, SearchText(text)
    PROVE  /\ Valued(WorthIn(f, text), Matches(text))
           /\ \A n \in Matches(text) :
                 /\ WorthIn(f, text)[n] = Scored(f, HitsIn(text)[n])
                 /\ HitsIn(text)[n] = LineHit(n, text[n])
                 /\ HitsIn(text)[n].line = n
                 /\ WorthIn(f, text)[n].kind = HitsIn(text)[n].occ.kind
<1>1. \A n \in Matches(text) :
          WorthIn(f, text)[n] = Scored(f, LineHit(n, text[n])) /\ HitsIn(text)[n] = LineHit(n, text[n])
  BY Zenon DEF WorthIn, HitsIn
<1>2. \A n, line : LineHit(n, line).line = n
  BY DEF LineHit
<1>3. \A h : /\ Scored(f, h).line = h.line /\ Scored(f, h).exact = Exact(h.occ)
             /\ Scored(f, h).score = Score(f, h.occ) /\ Scored(f, h).kind = h.occ.kind
  BY DEF Scored
<1>4. \A occ : Exact(occ) \in BOOLEAN
  BY DEF Exact
<1>5. LineSet(Matches(text))
  BY TextLinesAre
<1> QED BY <1>1, <1>2, <1>3, <1>4, <1>5, ScoresAre DEF Valued

LEMMA SameWorth ==
    ASSUME opts' = opts
    PROVE  /\ \A text : Matches(text)' = Matches(text)
           /\ \A text : HitsIn(text)' = HitsIn(text)
           /\ \A f, text : WorthIn(f, text)' = WorthIn(f, text)
<1>1. Ranked' = Ranked
  BY DEF Ranked
<1>2. Cap' = Cap
  BY <1>1 DEF Cap
<1>3. MaxPerLine' = MaxPerLine
  BY <1>1, <1>2 DEF MaxPerLine
<1>4. \A line : Qualifying(line)' = Qualifying(line)
  BY DEF Qualifying
<1>5. \A n, line : LineHit(n, line)' = LineHit(n, line)
  BY <1>3, <1>4 DEF LineHit
<1>6. \A f, h : Scored(f, h)' = Scored(f, h)
  BY DEF Scored, Score, Prior
<1>7. \A text : Matches(text)' = Matches(text)
  BY <1>4 DEF Matches, Qualifies
<1> QED BY <1>5, <1>6, <1>7 DEF HitsIn, WorthIn

-----------------------------------------------------------------------------
(* Lines: what a result holds is what one choice at the end would hold.     *)

LEMMA AllLinesAre ==
    ASSUME opts \in Asked, NEW f \in Files, SearchText(read[f].text)
    PROVE  AllLines(f) = ByNumber(WorthIn(f, read[f].text), Matches(read[f].text))
<1> DEFINE t == read[f].text
           M == Matches(t)
           w == WorthIn(f, t)
           ns == Numbers(M)
<1>1. LineSet(M) /\ \A n \in M : w[n] = Scored(f, LineHit(n, t[n]))
  BY TextLinesAre, WorthIs
<1>2. Counts(ns, Cardinality(M), M)
  BY <1>1, NumbersCount DEF LineSet
<1>3. AllLines(f) = [k \in DOMAIN ns |-> Scored(f, LineHit(ns[k], t[ns[k]]))]
  BY Zenon DEF AllLines, Numbers
<1> HIDE DEF t, M, w, ns
<1>4. DOMAIN ns = 1 .. Cardinality(M) /\ \A k \in 1 .. Cardinality(M) : ns[k] \in M
  BY <1>2 DEF Counts
<1>5. AllLines(f) = [k \in 1 .. Cardinality(M) |-> w[ns[k]]]
  BY <1>1, <1>3, <1>4
<1> QED BY <1>5 DEF ByNumber, t, M, w, ns

LEMMA PrunedAtOnce ==
    ASSUME NEW v, NEW S, Valued(v, S), NEW lead \in Nat
    PROVE  LET all == ByNumber(v, S)
               keep == Kept(all, lead)
               rest == DOMAIN all \ keep
           IN Pruned(v, S, lead) =
                [lines |-> Only(all, keep), dropped |-> Cardinality(rest),
                 exact |-> Cardinality({i \in rest : all[i].exact}),
                 near |-> {all[i].word : i \in {g \in rest : ~all[g].exact}}]
<1> DEFINE all == ByNumber(v, S)
           keep == Kept(all, lead)
           rest == DOMAIN all \ keep
           K == KeptLines(v, S, lead)
           h == [NoLines EXCEPT !.lines = all]
           sure(T, x) == {i \in T : x[i].exact}
           names(T, x) == {x[i].word : i \in {g \in T : ~x[g].exact}}
<1>1. h.lines = all /\ h.dropped = 0 /\ h.exact = 0 /\ h.near = {}
  BY DEF NoLines
<1>2. IsFiniteSet(S \ K) /\ IsFiniteSet(rest)
  <2>1. IsFiniteSet(S) /\ DOMAIN all = 1 .. Cardinality(S) /\ Cardinality(S) \in Nat
    BY ByNumberIs DEF Valued, LineSet
  <2>2. S \ K \in SUBSET S /\ rest \in SUBSET (1 .. Cardinality(S))
    BY <2>1
  <2>3. IsFiniteSet(1 .. Cardinality(S))
    BY <2>1, FS_Interval
  <2> HIDE DEF rest, K
  <2> QED BY <2>1, <2>2, <2>3, FS_Subset
<1>3. Prune(h, lead) =
         [lines |-> Only(h.lines, Kept(h.lines, lead)),
          dropped |-> h.dropped + Cardinality(DOMAIN h.lines \ Kept(h.lines, lead)),
          exact |-> h.exact + Cardinality(sure(DOMAIN h.lines \ Kept(h.lines, lead), h.lines)),
          near |-> h.near \cup names(DOMAIN h.lines \ Kept(h.lines, lead), h.lines)]
  BY Zenon DEF Prune
<1>4. Prune(h, lead) = [lines |-> ByNumber(v, K), dropped |-> h.dropped + Cardinality(S \ K),
                        exact |-> h.exact + Cardinality(sure(S \ K, v)), near |-> h.near \cup names(S \ K, v)]
  <2> HIDE DEF h
  <2> QED BY <1>1, PruneIs
<1>5. Pruned(v, S, lead) = [lines |-> ByNumber(v, K), dropped |-> Cardinality(S \ K),
                            exact |-> Cardinality(sure(S \ K, v)), near |-> names(S \ K, v)]
  BY Zenon DEF Pruned
<1>6. \A T, x : IsFiniteSet(T) => Cardinality(T) \in Nat /\ Cardinality(sure(T, x)) \in Nat
  <2>1. TAKE T, x
  <2>2. sure(T, x) \in SUBSET T
    OBVIOUS
  <2> HIDE DEF sure
  <2> QED BY <2>2, FS_Subset, FS_CardinalityType
<1> HIDE DEF h, sure, names
<1>7. Prune(h, lead) = [lines |-> Only(all, keep), dropped |-> 0 + Cardinality(rest),
                        exact |-> 0 + Cardinality(sure(rest, all)), near |-> {} \cup names(rest, all)]
  BY <1>1, <1>3
<1> HIDE DEF all, keep, rest, K
<1>8. Cardinality(rest) \in Nat /\ Cardinality(sure(rest, all)) \in Nat
      /\ Cardinality(S \ K) \in Nat /\ Cardinality(sure(S \ K, v)) \in Nat
  BY <1>2, <1>6
<1>9. /\ ByNumber(v, K) = Only(all, keep) /\ Cardinality(S \ K) = Cardinality(rest)
      /\ Cardinality(sure(S \ K, v)) = Cardinality(sure(rest, all)) /\ names(S \ K, v) = names(rest, all)
  <2>1. ByNumber(v, K) = Only(all, keep)
    BY <1>4, <1>7
  <2>2. h.dropped + Cardinality(S \ K) = 0 + Cardinality(rest)
    BY <1>4, <1>7
  <2>3. h.exact + Cardinality(sure(S \ K, v)) = 0 + Cardinality(sure(rest, all))
    BY <1>4, <1>7
  <2>4. h.near \cup names(S \ K, v) = {} \cup names(rest, all)
    BY <1>4, <1>7
  <2> QED BY <1>1, <1>8, <2>1, <2>2, <2>3, <2>4
<1>10. Pruned(v, S, lead) = [lines |-> Only(all, keep), dropped |-> Cardinality(rest),
                             exact |-> Cardinality(sure(rest, all)), near |-> names(rest, all)]
  BY <1>5, <1>9
<1> QED BY <1>10 DEF sure, names, rest, keep, all

LEMMA ResultsPruned ==
    ASSUME opts \in Asked, ResultsHold
    PROVE  PruneAsOne
<1> SUFFICES ASSUME NEW f \in MatchedFiles, Ranked
             PROVE  LET r == found[f]
                        all == AllLines(f)
                        keep == Kept(all, read[f].lead)
                        rest == DOMAIN all \ keep
                    IN /\ r.hits = Only(all, keep)
                       /\ r.exact = Cardinality({i \in rest : all[i].exact})
                       /\ r.near = {all[i].word : i \in {g \in rest : ~all[g].exact}}
  BY DEF PruneAsOne
<1> DEFINE t == read[f].text
           w == WorthIn(f, t)
           M == Matches(t)
           lead == read[f].lead
           all == AllLines(f)
           keep == Kept(all, lead)
           rest == DOMAIN all \ keep
<1>1. f \in Files /\ ResultOf(opts, w, M, t, lead, found[f]) /\ RankedBy(opts)
  BY DEF ResultsHold, MatchedFiles, Ranked, RankedBy
<1>2. SearchText(t) /\ lead \in Nat
  BY <1>1 DEF ResultOf
<1>3. Valued(w, M) /\ all = ByNumber(w, M)
  BY <1>1, <1>2, WorthIs, AllLinesAre
<1>4. /\ found[f].hits = Pruned(w, M, lead).lines /\ found[f].exact = Pruned(w, M, lead).exact
      /\ found[f].near = Pruned(w, M, lead).near
  BY <1>1 DEF ResultOf
<1> HIDE DEF t, w, M, lead, all
<1>5. Pruned(w, M, lead) =
          [lines |-> Only(all, keep), dropped |-> Cardinality(rest),
           exact |-> Cardinality({i \in rest : all[i].exact}),
           near |-> {all[i].word : i \in {g \in rest : ~all[g].exact}}]
  BY <1>2, <1>3, PrunedAtOnce
<1>6. /\ found[f].hits = Only(all, keep)
      /\ found[f].exact = Cardinality({i \in rest : all[i].exact})
      /\ found[f].near = {all[i].word : i \in {g \in rest : ~all[g].exact}}
  BY <1>4, <1>5
<1> QED BY <1>6 DEF all, lead

\* With no more definitions than are held, all are.
LEMMA DefsKept ==
    ASSUME NEW v, NEW S, Valued(v, S), NEW lead \in Nat, Cardinality(DefsOf(v, S)) <= MaxDefs
    PROVE  DefsOf(v, S) \subseteq KeptLines(v, S, lead)
<1> DEFINE B == DefsOf(v, S)
<1> SUFFICES ASSUME NEW n \in B, n \notin Leading(S, lead)
             PROVE  n \in FirstOf(Earlier, DefsAfter(v, S, lead), MaxDefs)
  BY DEF KeptLines
<1>1. n \in DefsAfter(v, S, lead) /\ DefsAfter(v, S, lead) \subseteq B /\ IsFiniteSet(S) /\ B \in SUBSET S
  BY DEF DefsAfter, DefsOf, Valued, LineSet
<1> DEFINE U == Under(Earlier, DefsAfter(v, S, lead), n)
<1>2. U \in SUBSET (B \ {n})
  BY <1>1 DEF Under, Earlier
<1>3. IsFiniteSet(B) /\ Cardinality(B) \in Nat
  BY <1>1, FS_Subset, FS_CardinalityType
<1>4. IsFiniteSet(B \ {n}) /\ Cardinality(B \ {n}) = Cardinality(B) - 1
  BY <1>3, FS_RemoveElement
<1>5. Cardinality(U) <= Cardinality(B \ {n}) /\ Cardinality(U) \in Nat
  BY <1>2, <1>4, FS_Subset, FS_CardinalityType
<1>6. Cardinality(U) < MaxDefs
  BY <1>3, <1>4, <1>5, LimitsNat
<1> QED BY <1>1, <1>6 DEF FirstOf

LEMMA ResultsCounted ==
    ASSUME opts \in Asked, ResultsHold
    PROVE  EveryLineCounted
<1> SUFFICES ASSUME NEW f \in MatchedFiles
             PROVE  LET r == found[f]
                        all == AllLines(f)
                        defs == {i \in DOMAIN all : all[i].kind = "def"}
                    IN /\ all # <<>>
                       /\ opts.mode # "files" =>
                            /\ r.total = Len(all)
                            /\ r.unfiltered = Cardinality({n \in DOMAIN read[f].text : read[f].text[n] # <<>>})
                       /\ Ranked => Len(r.hits) + r.dropped = r.total
                       /\ opts.mode \notin {"files", "count"} /\ Cardinality(defs) <= MaxDefs =>
                            \A i \in defs : \E k \in DOMAIN r.hits : r.hits[k].line = all[i].line
  BY DEF EveryLineCounted
<1> DEFINE r == found[f]
           t == read[f].text
           w == WorthIn(f, t)
           M == Matches(t)
           lead == read[f].lead
           all == AllLines(f)
           defs == {i \in DOMAIN all : all[i].kind = "def"}
           B == DefsOf(w, M)
<1>1. f \in Files /\ ResultOf(opts, w, M, t, lead, r)
  BY DEF ResultsHold, MatchedFiles
<1>2. SearchText(t) /\ lead \in Nat /\ M # {}
  BY <1>1 DEF ResultOf
<1>3. Valued(w, M) /\ all = ByNumber(w, M)
  BY <1>1, <1>2, WorthIs, AllLinesAre
<1>4. /\ opts.mode # "files" => r.total = Cardinality(M) /\ r.unfiltered = Cardinality(Nonempty(t))
      /\ Ranked => opts.mode # "files" /\ r.hits = Pruned(w, M, lead).lines /\ r.dropped = Pruned(w, M, lead).dropped
      /\ ~Ranked /\ ListsLines(opts) =>
             \/ \A n \in B : \E k \in DOMAIN r.hits : r.hits[k].line = n
             \/ Cardinality(B) > MaxDefs
  BY <1>1 DEF ResultOf, RankedBy, Ranked
<1>5. /\ Cardinality(M) \in Nat /\ Cardinality(M) # 0 /\ M \in SUBSET Nat /\ IsFiniteSet(M)
      /\ Counts(Numbers(M), Cardinality(M), M) /\ DOMAIN all = 1 .. Cardinality(M)
      /\ \A k \in 1 .. Cardinality(M) : Numbers(M)[k] \in M /\ all[k] = w[Numbers(M)[k]]
  BY <1>2, <1>3, ByNumberIs, FS_EmptySet DEF Valued, LineSet
<1>6. Len(all) = Cardinality(M)
  BY <1>3, ByNumberSeq DEF Valued
<1> DEFINE K == KeptLines(w, M, lead)
<1>7. K \subseteq M /\ Valued(w, K)
  BY <1>3, KeptSome, ValuedPart
<1>8. Pruned(w, M, lead).lines = ByNumber(w, K) /\ Pruned(w, M, lead).dropped = Cardinality(M \ K)
  BY DEF Pruned
<1>9. \A n \in M : w[n].line = n
  BY <1>3 DEF Valued
<1> HIDE DEF r, t, w, M, lead, all, B, K
<1>10. all # <<>>
  <2>1. Len(<<>>) = 0
    OBVIOUS
  <2> QED BY <1>5, <1>6, <2>1
<1>11. Ranked => Len(r.hits) + r.dropped = r.total
  <2>1. Len(ByNumber(w, K)) = Cardinality(K) /\ IsFiniteSet(K)
    BY <1>7, ByNumberSeq DEF Valued, LineSet
  <2>2. Cardinality(M) = Cardinality(K) + Cardinality(M \ K)
    <3>1. K \cup (M \ K) = M /\ K \cap (M \ K) = {} /\ M \ K \in SUBSET M
      BY <1>7
    <3>2. IsFiniteSet(M \ K)
      BY <1>5, <3>1, FS_Subset
    <3> QED BY <2>1, <3>1, <3>2, CountDisjoint
  <2> QED BY <1>4, <1>8, <2>1, <2>2
<1>12. Cardinality(defs) = Cardinality(B) /\ \A i \in defs : Numbers(M)[i] \in B /\ all[i].line = Numbers(M)[i]
  <2>1. defs \in SUBSET (1 .. Cardinality(M)) /\ B \in SUBSET M
    BY <1>5 DEF B, DefsOf
  <2>2. Places(Numbers(M), Cardinality(M), defs, B)
    BY <1>5 DEF Places, B, DefsOf
  <2>3. \A i \in defs : Numbers(M)[i] \in B /\ all[i].line = Numbers(M)[i]
    BY <1>5, <1>9, <2>1, <2>2 DEF Places
  <2> HIDE DEF defs
  <2>4. At(Numbers(M), defs) = B
    BY <1>5, <2>1, <2>2, AtIs
  <2> QED BY <1>5, <2>1, <2>3, <2>4, CountsIs
<1>13. ListsLines(opts) /\ Cardinality(B) <= MaxDefs => \A n \in B : \E k \in DOMAIN r.hits : r.hits[k].line = n
  <2>1. SUFFICES ASSUME ListsLines(opts), Cardinality(B) <= MaxDefs, NEW n \in B
                 PROVE  \E k \in DOMAIN r.hits : r.hits[k].line = n
    OBVIOUS
  <2>2. CASE Ranked
    <3>1. n \in K
      BY <1>2, <1>3, <2>1, DefsKept DEF B, K
    <3>2. /\ DOMAIN ByNumber(w, K) = 1 .. Cardinality(K)
          /\ Counts(Numbers(K), Cardinality(K), K)
          /\ \A k \in 1 .. Cardinality(K) : ByNumber(w, K)[k] = w[Numbers(K)[k]]
      BY <1>7, ByNumberIs DEF Valued
    <3>3. PICK k \in 1 .. Cardinality(K) : Numbers(K)[k] = n
      BY <3>1, <3>2 DEF Counts
    <3>4. ByNumber(w, K)[k].line = n
      BY <1>7, <1>9, <3>1, <3>2, <3>3
    <3> QED BY <1>4, <1>8, <2>2, <3>2, <3>3, <3>4
  <2>3. CASE ~Ranked
    <3>1. Cardinality(B) \in Nat
      <4>1. B \in SUBSET M
        BY DEF B, DefsOf
      <4> QED BY <1>5, <4>1, FS_Subset, FS_CardinalityType
    <3>2. ~ (Cardinality(B) > MaxDefs)
      BY <2>1, <3>1, LimitsNat
    <3> QED BY <1>4, <2>1, <2>3, <3>2
  <2> QED BY <2>2, <2>3
<1>14. opts.mode # "files" => r.total = Len(all) /\ r.unfiltered = Cardinality({n \in DOMAIN t : t[n] # <<>>})
  BY <1>4, <1>6 DEF Nonempty
<1>15. opts.mode \notin {"files", "count"} /\ Cardinality(defs) <= MaxDefs =>
          \A i \in defs : \E k \in DOMAIN r.hits : r.hits[k].line = all[i].line
  <2> HIDE DEF defs
  <2> QED BY <1>12, <1>13 DEF ListsLines
<1> QED BY <1>10, <1>11, <1>14, <1>15 DEF r, t, all

-----------------------------------------------------------------------------
(* Lines: a line is read.                                                   *)

\* Hits of s are hits of z.
Keeps(s, z) == \A k \in DOMAIN s.hits : k \in DOMAIN z.hits /\ z.hits[k] = s.hits[k]
Has(z, p) == \E k \in DOMAIN z.hits : z.hits[k].line = p

LEMMA DefsNext ==
    ASSUME NEW w, NEW M, LineSet(M), NEW p \in Nat, NEW s, DefsRecorded(w, M, p, s),
           NEW z, Keeps(s, z), z.defs \in Nat,
           p \in DefsOf(w, M) => z.defs <= s.defs + 1 /\ (Has(z, p) \/ s.defs >= MaxDefs),
           p \notin DefsOf(w, M) => z.defs <= s.defs
    PROVE  DefsRecorded(w, M, p + 1, z)
<1> DEFINE B == DefsOf(w, M)
           succ == p + 1
           a == Cardinality(Before(B, p))
           b == Cardinality(Before(B, succ))
<1>1. \A q : DefsOf(w, Before(M, q)) = Before(B, q)
  BY DEF DefsOf, Before
<1>2. LineSet(B)
  BY LinesPart DEF DefsOf
<1>3. /\ p \notin B => Before(B, succ) = Before(B, p)
      /\ p \in B => Before(B, succ) = Before(B, p) \cup {p}
      /\ a \in Nat /\ b = a + IF p \in B THEN 1 ELSE 0
  BY <1>2, BeforeNext
<1>4. /\ s.defs \in Nat /\ s.defs <= a
      /\ (\A n \in Before(B, p) : Has(s, n)) \/ a > MaxDefs
  BY <1>1 DEF DefsRecorded, Has
<1>5. \A n : Has(s, n) => Has(z, n)
  BY DEF Has, Keeps
<1> HIDE DEF B, succ, a, b
<1>6. z.defs <= b
  BY <1>3, <1>4 DEF B
<1>7. (\A n \in Before(B, succ) : Has(z, n)) \/ b > MaxDefs
  <2>1. CASE a > MaxDefs
    BY <1>3, <2>1, LimitsNat
  <2>2. CASE p \in B /\ s.defs >= MaxDefs
    BY <1>3, <1>4, <2>2, LimitsNat
  <2>3. CASE (\A n \in Before(B, p) : Has(s, n)) /\ (p \in B => Has(z, p))
    BY <1>3, <1>5, <2>3
  <2> QED BY <1>4, <2>1, <2>2, <2>3 DEF B
<1> QED BY <1>1, <1>6, <1>7 DEF DefsRecorded, Has, b, succ

LEMMA CapIs ==
    ASSUME opts \in Asked
    PROVE  /\ Ranked => Cap = Endless /\ SpillAt \in Nat /\ SpillAt < Endless
           /\ ~Ranked => Cap \in Nat /\ Cap <= Endless /\ SpillAt = Endless
           /\ Lead \in Nat /\ Endless \in Nat
           /\ Ranked <=> RankedBy(opts)
           /\ KeepDefs <=> opts.mode # "count" /\ ~Ranked
<1>1. MaxHits \in Nat /\ MaxDefs \in Nat /\ PerPool \in Nat /\ SpillLines \in Nat
      /\ SpillLines < Endless /\ MaxHits + MaxDefs + 2 * PerPool < Endless /\ Endless = 1000
  BY SearchAssumption DEF Endless
<1>2. Lead \in Nat /\ Lead <= MaxHits
  BY <1>1 DEF Lead
<1>3. Ranked <=> RankedBy(opts)
  BY DEF Ranked, RankedBy
<1>4. Ranked => Cap = Endless
  BY DEF Ranked, Cap
<1>5. ~Ranked => Cap \in Nat /\ Cap <= Endless
  BY <1>1 DEF Cap
<1> DEFINE T == {SpillLines, Lead + MaxDefs + 2 * PerPool}
<1>6. Max(T) \in T
  <2>1. \A x, y \in Nat : \E m \in {x, y} : \A z \in {x, y} : m >= z
    OBVIOUS
  <2>2. SpillLines \in Nat /\ Lead + MaxDefs + 2 * PerPool \in Nat
    BY <1>1, <1>2
  <2> QED BY <2>1, <2>2 DEF Max
<1>7. \A x \in T : x \in Nat /\ x < Endless
  BY <1>1, <1>2
<1>8. Ranked => SpillAt \in Nat /\ SpillAt < Endless
  BY <1>6, <1>7 DEF SpillAt
<1>9. ~Ranked => SpillAt = Endless
  BY DEF SpillAt
<1> QED BY <1>1, <1>2, <1>3, <1>4, <1>5, <1>8, <1>9 DEF KeepDefs

LEMMA TakeRanked ==
    ASSUME Ranked, NEW h, NEW f, NEW hits, NEW lead
    PROVE  Take(h, f, hits, lead) = Prune([h EXCEPT !.lines = @ \o [k \in DOMAIN hits |-> Scored(f, hits[k])]], lead)
BY Zenon DEF Take

\* A file is read from its first line.
LEMMA ReadsFromTheFirst ==
    ASSUME NEW o, NEW u, NEW w, NEW M, NEW text, SearchText(text), NEW lead \in Nat,
           LineSet(M), 0 \notin M
    PROVE  Reading(o, u, w, M, text, 1, lead, EmptySink, NoLines)
<1>1. LineSet(Nonempty(text)) /\ Len(text) \in Nat /\ 0 \notin Nonempty(text)
  BY TextLinesAre DEF Nonempty
<1>2. \A S : LineSet(S) /\ 0 \notin S => Before(S, 1) = {}
  <2>1. \A n \in Nat : n # 0 => ~(n < 1)
    OBVIOUS
  <2> QED BY <2>1 DEF Before, LineSet
<1>3. Before(M, 1) = {} /\ Before(Nonempty(text), 1) = {}
  BY <1>1, <1>2
<1>4. Cardinality({}) = 0
  BY FS_EmptySet
<1>5. DefsOf(w, Before(M, 1)) = {}
  BY <1>3 DEF DefsOf
<1>6. EmptySink.hits = <<>> /\ EmptySink.total = 0 /\ EmptySink.all = 0
  BY DEF EmptySink
<1>14. EmptySink.defs = 0
  BY DEF EmptySink
<1>15. Cardinality(DefsOf(w, Before(M, 1))) = 0
  BY <1>4, <1>5
<1>7. 1 \in Nat \ {0}
  OBVIOUS
<1>8. Holding(u, w, M, 1, lead, <<>>, NoLines)
  BY <1>3, <1>7, HoldingStarts
<1>9. DefsRecorded(w, M, 1, EmptySink)
  <2>1. \A n \in DefsOf(w, Before(M, 1)) : \E k \in DOMAIN EmptySink.hits : EmptySink.hits[k].line = n
    BY <1>5
  <2>2. EmptySink.defs \in Nat /\ EmptySink.defs <= Cardinality(DefsOf(w, Before(M, 1)))
    BY ONLY <1>14, <1>15
  <2> QED BY <2>1, <2>2 DEF DefsRecorded
<1>10. Len(<<>>) = 0 /\ 0 < Endless
  BY DEF Endless
<1>11. \A V : <<>> \in Seq(V)
  OBVIOUS
<1>12. <<>> \in Seq({u[n] : n \in M})
  BY ONLY <1>11
<1>13. 1 \in 1 .. Len(text) + 1
  BY <1>1
<1>16. EmptySink.total \in Nat /\ EmptySink.all \in Nat /\ ~(EmptySink.total # 0)
  BY ONLY <1>6
<1>17. EmptySink.total = Cardinality(Before(M, 1)) /\ EmptySink.all = Cardinality(Before(Nonempty(text), 1))
  BY ONLY <1>3, <1>4, <1>6
<1>18. Holding(u, w, M, 1, lead, EmptySink.hits, NoLines) /\ Len(EmptySink.hits) < Endless
       /\ EmptySink.hits \in Seq({u[n] : n \in M})
  BY ONLY <1>6, <1>8, <1>10, <1>12
<1>19. DOMAIN EmptySink = {"hits", "total", "all", "defs"}
  BY DEF EmptySink
<1> QED BY ONLY SearchText(text), <1>9, <1>13, <1>16, <1>17, <1>18, <1>19 DEF Reading

LEMMA ReadingStarts ==
    ASSUME NEW f, NEW text, SearchText(text), NEW lead \in Nat
    PROVE  Reading(opts, HitsIn(text), WorthIn(f, text), Matches(text), text, 1, lead, EmptySink, NoLines)
<1>1. LineSet(Matches(text)) /\ 0 \notin Matches(text)
  BY TextLinesAre DEF Matches
<1> QED BY <1>1, ReadsFromTheFirst

LEMMA ReadingAdvances ==
    ASSUME NEW o, NEW u, NEW w, NEW M, LineSet(M), NEW text, NEW p \in DOMAIN text, NEW lead,
           NEW s, NEW h, Reading(o, u, w, M, text, p, lead, s, h),
           NEW z, NEW g, DOMAIN z = {"hits", "total", "all", "defs"},
           z.total = s.total + IF p \in M THEN 1 ELSE 0,
           z.all = s.all + IF p \in Nonempty(text) THEN 1 ELSE 0,
           RankedBy(o) => Holding(u, w, M, p + 1, lead, z.hits, g) /\ Len(z.hits) < Endless,
           ~RankedBy(o) => g = NoLines /\ z.hits \in Seq({u[n] : n \in M}),
           ~RankedBy(o) /\ ListsLines(o) => DefsRecorded(w, M, p + 1, z),
           NEW q, q = IF o.mode = "files" /\ z.total > 0 THEN Len(text) + 1 ELSE p + 1
    PROVE  Reading(o, u, w, M, text, q, lead, z, g)
<1>1. SearchText(text) /\ Len(text) \in Nat /\ p \in 1 .. Len(text) /\ p \in Nat /\ LineSet(Nonempty(text))
  BY TextLinesAre DEF Reading
<1>2. q \in 1 .. Len(text) + 1
  BY <1>1
<1>3. z.total \in Nat /\ z.all \in Nat /\ (z.total # 0 => M # {})
  BY DEF Reading
<1>4. o.mode # "files" => q = p + 1
  OBVIOUS
<1>5. RankedBy(o) \/ ListsLines(o) => o.mode # "files"
  BY DEF RankedBy, ListsLines
<1>6. o.mode # "files" =>
          z.total = Cardinality(Before(M, q)) /\ z.all = Cardinality(Before(Nonempty(text), q))
  <2> SUFFICES ASSUME o.mode # "files"
               PROVE  z.total = Cardinality(Before(M, p + 1)) /\ z.all = Cardinality(Before(Nonempty(text), p + 1))
    BY <1>4
  <2>1. s.total = Cardinality(Before(M, p)) /\ s.all = Cardinality(Before(Nonempty(text), p))
    BY DEF Reading
  <2> DEFINE N == Nonempty(text)
             a == Cardinality(Before(M, p))
             b == Cardinality(Before(N, p))
             a1 == Cardinality(Before(M, p + 1))
             b1 == Cardinality(Before(N, p + 1))
  <2>2. a \in Nat /\ a1 = a + IF p \in M THEN 1 ELSE 0
    BY <1>1, BeforeNext
  <2>3. b \in Nat /\ b1 = b + IF p \in N THEN 1 ELSE 0
    BY <1>1, BeforeNext
  <2>4. z.total = s.total + (IF p \in M THEN 1 ELSE 0) /\ z.all = s.all + (IF p \in N THEN 1 ELSE 0)
    OBVIOUS
  <2>5. s.total = a /\ s.all = b
    BY <2>1
  <2> HIDE DEF a, b, a1, b1, N
  <2>6. z.total = a1 /\ z.all = b1
    BY ONLY <2>2, <2>3, <2>4, <2>5
  <2> QED BY <2>6 DEF a1, b1, N
<1>7. RankedBy(o) => Holding(u, w, M, q, lead, z.hits, g) /\ Len(z.hits) < Endless
  BY <1>4, <1>5
<1>8. ~RankedBy(o) /\ ListsLines(o) => DefsRecorded(w, M, q, z)
  BY <1>4, <1>5
<1> QED BY <1>1, <1>2, <1>3, <1>6, <1>7, <1>8 DEF Reading

LEMMA PruneOf ==
    ASSUME opts \in Asked, Ranked, NEW f \in Files, NEW text, SearchText(text), NEW p \in Nat \ {0}, NEW lead \in Nat,
           NEW hits, NEW h, Holding(HitsIn(text), WorthIn(f, text), Matches(text), p, lead, hits, h)
    PROVE  Take(h, f, hits, lead) = Pruned(WorthIn(f, text), Before(Matches(text), p), lead)
<1>1. /\ Valued(WorthIn(f, text), Matches(text))
      /\ \A n \in Matches(text) : WorthIn(f, text)[n] = Scored(f, HitsIn(text)[n])
  BY WorthIs
<1>2. Take(h, f, hits, lead) = Prune(Taken(h, f, hits), lead)
  BY TakeRanked, Zenon DEF Taken
<1> DEFINE u == HitsIn(text)
           w == WorthIn(f, text)
           M == Matches(text)
<1>3. Valued(w, M) /\ (\A n \in M : w[n] = Scored(f, u[n])) /\ Holding(u, w, M, p, lead, hits, h)
  BY <1>1
<1> HIDE DEF u, w, M
<1>4. Prune(Taken(h, f, hits), lead) = Pruned(w, Before(M, p), lead)
  BY <1>3, HoldingTakes
<1> QED BY <1>2, <1>4 DEF w, M

-----------------------------------------------------------------------------
(* Lines: the steps of a search.                                            *)

LEMMA LinesStart == LinesInit => LinesInv
<1> SUFFICES ASSUME LinesInit PROVE LinesInv
  OBVIOUS
<1>2. opts \in Asked /\ pos = 0 /\ src = <<>> /\ found = [f \in Files |-> NoFile]
      /\ DOMAIN read = Files /\ DOMAIN disk = Files /\ \A f \in Files : disk[f] \in Texts[f]
  BY DEF LinesInit
<1>3. \A f \in Files : SearchText(disk[f])
  BY <1>2, SearchAssumption DEF SearchText
<1>4. ResultsHold
  BY <1>2 DEF ResultsHold
<1> QED BY <1>2, <1>3, <1>4 DEF LinesInv

\* What a search moved on from.
LEMMA SameResults ==
    ASSUME ResultsHold, UNCHANGED <<opts, found, read>>
    PROVE  ResultsHold'
<1>1. \A f \in Files : found[f] # NoFile =>
          ResultOf(opts, WorthIn(f, read[f].text), Matches(read[f].text), read[f].text, read[f].lead, found[f])
  BY DEF ResultsHold
<1>2. opts' = opts
  OBVIOUS
<1>3. \A f, text : WorthIn(f, text)' = WorthIn(f, text) /\ Matches(text)' = Matches(text)
  BY <1>2, SameWorth
<1> QED BY <1>1, <1>3 DEF ResultsHold

LEMMA OpenKeeps ==
    ASSUME LinesInv, Open
    PROVE  LinesInv'
<1>1. /\ opts \in Asked /\ DOMAIN disk = Files /\ (\A f \in Files : SearchText(disk[f]))
      /\ DOMAIN found = Files /\ DOMAIN read = Files /\ ResultsHold
  BY DEF LinesInv
<1>2. /\ Due # {} /\ at' = Least(Due) /\ src' = disk[at'] /\ pos' = 1 /\ sink' = EmptySink /\ held' = NoLines
      /\ UNCHANGED <<disk, opts, pass, found, read>>
  BY DEF Open
<1>3. Due \subseteq Files
  BY DEF Due
<1>4. Least(Due) \in Due
  <2>1. Due \in SUBSET Nat
    BY <1>3, SearchAssumption
  <2> QED BY <1>2, <2>1, LeastNumber DEF Least
<1>5. at' \in Files /\ SearchText(src')
  BY <1>1, <1>2, <1>3, <1>4
<1>6. Lead' = Lead /\ Lead \in Nat
  BY <1>1, <1>2, CapIs DEF Lead
<1>7. Reading(opts, HitsIn(src'), WorthIn(at', src'), Matches(src'), src', 1, Lead, EmptySink, NoLines)
  BY <1>5, <1>6, ReadingStarts
<1>8. \A f, text : HitsIn(text)' = HitsIn(text) /\ WorthIn(f, text)' = WorthIn(f, text) /\ Matches(text)' = Matches(text)
  BY <1>2, SameWorth
<1>9. Reading(opts, HitsIn(src), WorthIn(at, src), Matches(src), src, pos, Lead, sink, held)'
  BY <1>2, <1>6, <1>7, <1>8
<1>10. ResultsHold'
  BY <1>1, <1>2, SameResults
<1> QED BY <1>1, <1>2, <1>5, <1>9, <1>10 DEF LinesInv

\* A sink after a line that is not recorded, and after one that is.
PassedBy(s, z) ==
    /\ DOMAIN z = {"hits", "total", "all", "defs"}
    /\ z.hits = s.hits /\ z.total = s.total /\ z.defs = s.defs
CountedBy(s, z) == DOMAIN z = {"hits", "total", "all", "defs"} /\ z.total = s.total + 1 /\ z.all = s.all + 1

LEMMA SinkSkips ==
    ASSUME NEW s, DOMAIN s = {"hits", "total", "all", "defs"}
    PROVE  PassedBy(s, s) /\ PassedBy(s, [s EXCEPT !.all = @ + 1]) /\ [s EXCEPT !.all = @ + 1].all = s.all + 1
BY DEF PassedBy

LEMMA SinkCounts ==
    ASSUME NEW s, DOMAIN s = {"hits", "total", "all", "defs"}, NEW hit, NEW def \in BOOLEAN
    PROVE  /\ LET z == [s EXCEPT !.hits = <<hit>>, !.total = @ + 1, !.all = @ + 1]
              IN CountedBy(s, z) /\ z.hits = <<hit>> /\ z.defs = s.defs
           /\ LET z == [s EXCEPT !.hits = Append(@, hit), !.total = @ + 1, !.all = @ + 1]
              IN CountedBy(s, z) /\ z.hits = Append(s.hits, hit) /\ z.defs = s.defs
           /\ LET z == [s EXCEPT !.total = @ + 1, !.all = @ + 1, !.defs = IF def THEN @ + 1 ELSE @,
                                 !.hits = IF def THEN Append(@, hit) ELSE @]
              IN /\ CountedBy(s, z)
                 /\ def => z.hits = Append(s.hits, hit) /\ z.defs = s.defs + 1
                 /\ ~def => z.hits = s.hits /\ z.defs = s.defs
BY DEF CountedBy

\* A line that is not recorded.
LEMMA ReadingSkips ==
    ASSUME NEW o, NEW u, NEW w, NEW M, LineSet(M), NEW text, NEW p \in DOMAIN text, p \notin M, NEW lead,
           NEW s, NEW h, Reading(o, u, w, M, text, p, lead, s, h),
           NEW z, PassedBy(s, z), z.all = s.all + IF p \in Nonempty(text) THEN 1 ELSE 0,
           NEW q, q = IF o.mode = "files" /\ z.total > 0 THEN Len(text) + 1 ELSE p + 1
    PROVE  Reading(o, u, w, M, text, q, lead, z, h)
<1>1. p \in Nat \ {0}
  BY TextLinesAre DEF Reading
<1>2. /\ DOMAIN z = {"hits", "total", "all", "defs"}
      /\ z.hits = s.hits /\ z.total = s.total /\ z.defs = s.defs
  BY DEF PassedBy
<1>3. s.total \in Nat
  BY DEF Reading
<1>4. z.total = s.total + IF p \in M THEN 1 ELSE 0
  BY <1>2, <1>3
<1>5. RankedBy(o) => Holding(u, w, M, p + 1, lead, z.hits, h) /\ Len(z.hits) < Endless
  BY <1>1, <1>2, HoldingSkips DEF Reading
<1>6. ~RankedBy(o) => h = NoLines /\ z.hits \in Seq({u[n] : n \in M})
  BY <1>2 DEF Reading
<1>7. ~RankedBy(o) /\ ListsLines(o) => DefsRecorded(w, M, p + 1, z)
  <2> SUFFICES ASSUME ~RankedBy(o), ListsLines(o) PROVE DefsRecorded(w, M, p + 1, z)
    OBVIOUS
  <2>1. DefsRecorded(w, M, p, s)
    BY DEF Reading
  <2>2. Keeps(s, z) /\ z.defs \in Nat /\ s.defs \in Nat
    BY <1>2, <2>1 DEF Keeps, DefsRecorded
  <2>3. p \notin DefsOf(w, M) /\ z.defs <= s.defs /\ p \in Nat
    BY <1>1, <1>2, <2>2 DEF DefsOf
  <2> QED BY <2>1, <2>2, <2>3, DefsNext
<1> QED BY <1>2, <1>4, <1>5, <1>6, <1>7, ReadingAdvances

\* A line that is counted: as z and g say when lines are listed.
LEMMA ReadingCounts ==
    ASSUME NEW o, NEW u, NEW w, NEW M, LineSet(M), NEW text, NEW p \in DOMAIN text,
           p \in M, p \in Nonempty(text), NEW lead,
           NEW s, NEW h, Reading(o, u, w, M, text, p, lead, s, h), NEW z, NEW g, CountedBy(s, z),
           RankedBy(o) => Holding(u, w, M, p + 1, lead, z.hits, g) /\ Len(z.hits) < Endless,
           ~RankedBy(o) => g = NoLines /\ z.hits \in Seq({u[n] : n \in M}),
           ~RankedBy(o) /\ ListsLines(o) =>
               /\ Keeps(s, z) /\ z.defs \in Nat /\ z.defs <= s.defs + 1
               /\ p \in DefsOf(w, M) => Has(z, p) \/ s.defs >= MaxDefs
               /\ p \notin DefsOf(w, M) => z.defs <= s.defs,
           NEW q, q = IF o.mode = "files" /\ z.total > 0 THEN Len(text) + 1 ELSE p + 1
    PROVE  Reading(o, u, w, M, text, q, lead, z, g)
<1>1. p \in Nat
  BY TextLinesAre DEF Reading
<1>2. DOMAIN z = {"hits", "total", "all", "defs"}
      /\ z.total = s.total + (IF p \in M THEN 1 ELSE 0)
      /\ z.all = s.all + (IF p \in Nonempty(text) THEN 1 ELSE 0)
  BY DEF CountedBy
<1>3. ~RankedBy(o) /\ ListsLines(o) => DefsRecorded(w, M, p + 1, z)
  <2> SUFFICES ASSUME ~RankedBy(o), ListsLines(o) PROVE DefsRecorded(w, M, p + 1, z)
    OBVIOUS
  <2>1. DefsRecorded(w, M, p, s)
    BY DEF Reading
  <2> QED BY <1>1, <2>1, DefsNext
<1> QED BY <1>2, <1>3, ReadingAdvances

LEMMA AppendsTo ==
    ASSUME NEW V, NEW hits \in Seq(V), NEW hit \in V
    PROVE  /\ Append(hits, hit) \in Seq(V)
           /\ \A k \in DOMAIN hits : k \in DOMAIN Append(hits, hit) /\ Append(hits, hit)[k] = hits[k]
           /\ \E k \in DOMAIN Append(hits, hit) : Append(hits, hit)[k] = hit
<1>1. Append(hits, hit) \in Seq(V) /\ Len(Append(hits, hit)) = Len(hits) + 1
  OBVIOUS
<1>2. DOMAIN hits = 1 .. Len(hits) /\ DOMAIN Append(hits, hit) = 1 .. Len(hits) + 1 /\ Len(hits) \in Nat
  BY <1>1
<1>3. \A k \in 1 .. Len(hits) : Append(hits, hit)[k] = hits[k]
  OBVIOUS
<1>4. Append(hits, hit)[Len(hits) + 1] = hit
  OBVIOUS
<1>5. \E k \in DOMAIN Append(hits, hit) : Append(hits, hit)[k] = hit
  BY <1>2, <1>4
<1> QED BY <1>1, <1>2, <1>3, <1>5

\* A ranked search records a line, after it took what it held when that was much.
LEMMA RankedRecords ==
    ASSUME NEW o, RankedBy(o), NEW u, NEW w, NEW M, LineSet(M), NEW text, NEW p \in DOMAIN text,
           p \in M, p \in Nonempty(text), NEW lead \in Nat,
           NEW s, NEW h, Reading(o, u, w, M, text, p, lead, s, h), NEW z, NEW g, CountedBy(s, z),
           NEW most \in Nat, most < Endless,
           \/ Len(s.hits) < most /\ z.hits = Append(s.hits, u[p]) /\ g = h
           \/ z.hits = <<u[p]>> /\ g = Pruned(w, Before(M, p), lead),
           NEW q, q = IF o.mode = "files" /\ z.total > 0 THEN Len(text) + 1 ELSE p + 1
    PROVE  Reading(o, u, w, M, text, q, lead, z, g)
<1>1. p \in Nat \ {0}
  BY TextLinesAre DEF Reading
<1>2. Holding(u, w, M, p, lead, s.hits, h)
  BY DEF Reading
<1>3. Holding(u, w, M, p + 1, lead, z.hits, g) /\ Len(z.hits) < Endless
  <2>1. CASE Len(s.hits) < most /\ z.hits = Append(s.hits, u[p]) /\ g = h
    <3>1. Holding(u, w, M, p + 1, lead, Append(s.hits, u[p]), h)
      BY <1>1, <1>2, HoldingAppends
    <3>2. PICK m \in 1 .. p : s.hits = ByNumber(u, Between(M, m, p))
      BY <1>2 DEF Holding
    <3>3. LineSet(Between(M, m, p))
      BY LinesPart DEF Between
    <3>4. Len(Append(s.hits, u[p])) = Len(s.hits) + 1 /\ Len(s.hits) \in Nat
      <4> DEFINE V == {u[n] : n \in Between(M, m, p)} \cup {u[p]}
      <4>1. ByNumber(u, Between(M, m, p)) \in Seq({u[n] : n \in Between(M, m, p)})
        BY <3>3, ByNumberSeq
      <4>2. s.hits \in Seq(V) /\ u[p] \in V
        BY <3>2, <4>1
      <4> HIDE DEF V
      <4> QED BY <4>2
    <3>5. Endless \in Nat
      BY DEF Endless
    <3> QED BY <2>1, <3>1, <3>4, <3>5
  <2>2. CASE z.hits = <<u[p]>> /\ g = Pruned(w, Before(M, p), lead)
    <3>1. Holding(u, w, M, p + 1, lead, <<u[p]>>, Pruned(w, Before(M, p), lead))
      BY <1>1, HoldingStarts
    <3>2. Len(<<u[p]>>) = 1 /\ 1 < Endless
      BY DEF Endless
    <3> QED BY <2>2, <3>1, <3>2
  <2> QED BY <2>1, <2>2
<1> QED BY <1>3, ReadingCounts

\* Another search holds nothing, and past its limit records definitions.
LEMMA OtherRecords ==
    ASSUME NEW o, ~RankedBy(o), NEW u, NEW w, NEW M, LineSet(M), NEW text, NEW p \in DOMAIN text,
           p \in M, p \in Nonempty(text), NEW lead,
           u[p].line = p, w[p].kind = u[p].occ.kind,
           NEW s, NEW h, Reading(o, u, w, M, text, p, lead, s, h), NEW z, CountedBy(s, z),
           NEW def \in BOOLEAN,
           \/ z.hits = Append(s.hits, u[p]) /\ z.defs = s.defs
           \/ /\ ListsLines(o) => (def <=> s.defs < MaxDefs /\ u[p].occ.kind = "def")
              /\ def => z.hits = Append(s.hits, u[p]) /\ z.defs = s.defs + 1
              /\ ~def => z.hits = s.hits /\ z.defs = s.defs,
           NEW q, q = IF o.mode = "files" /\ z.total > 0 THEN Len(text) + 1 ELSE p + 1
    PROVE  Reading(o, u, w, M, text, q, lead, z, h)
<1> DEFINE V == {u[n] : n \in M}
<1>1. h = NoLines /\ s.hits \in Seq(V)
  BY DEF Reading
<1>2. u[p] \in V
  OBVIOUS
<1> HIDE DEF V
<1>3. /\ Append(s.hits, u[p]) \in Seq(V)
      /\ \A k \in DOMAIN s.hits : k \in DOMAIN Append(s.hits, u[p]) /\ Append(s.hits, u[p])[k] = s.hits[k]
      /\ \E k \in DOMAIN Append(s.hits, u[p]) : Append(s.hits, u[p])[k] = u[p]
  BY <1>1, <1>2, AppendsTo
<1>4. z.hits = Append(s.hits, u[p]) => z.hits \in Seq(V) /\ Keeps(s, z) /\ Has(z, p)
  BY <1>3 DEF Keeps, Has
<1>5. z.hits = s.hits => z.hits \in Seq(V) /\ Keeps(s, z)
  BY <1>1 DEF Keeps
<1>6. z.hits = Append(s.hits, u[p]) \/ z.hits = s.hits
  OBVIOUS
<1>7. p \in DefsOf(w, M) <=> u[p].occ.kind = "def"
  BY DEF DefsOf
<1>8. ListsLines(o) =>
          /\ Keeps(s, z) /\ z.defs \in Nat /\ z.defs <= s.defs + 1
          /\ p \in DefsOf(w, M) => Has(z, p) \/ s.defs >= MaxDefs
          /\ p \notin DefsOf(w, M) => z.defs <= s.defs
  <2> SUFFICES ASSUME ListsLines(o)
               PROVE  /\ Keeps(s, z) /\ z.defs \in Nat /\ z.defs <= s.defs + 1
                      /\ p \in DefsOf(w, M) => Has(z, p) \/ s.defs >= MaxDefs
                      /\ p \notin DefsOf(w, M) => z.defs <= s.defs
    OBVIOUS
  <2>1. s.defs \in Nat /\ MaxDefs \in Nat
    BY LimitsNat DEF Reading, DefsRecorded
  <2> QED BY <1>4, <1>5, <1>6, <1>7, <2>1
<1> QED BY <1>1, <1>4, <1>5, <1>6, <1>8, ReadingCounts DEF V

\* After a line the search reads on: what it knows of the line's file.
LEMMA LineIs ==
    ASSUME LinesInv, pos \in DOMAIN src
    PROVE  /\ opts \in Asked /\ at \in Files /\ SearchText(src) /\ pos \in Nat \ {0}
           /\ Reading(opts, HitsIn(src), WorthIn(at, src), Matches(src), src, pos, Lead, sink, held)
           /\ LineSet(Matches(src)) /\ Valued(WorthIn(at, src), Matches(src))
           /\ pos \in Matches(src) <=> src[pos] # <<>> /\ Qualifies(src[pos])
           /\ pos \in Nonempty(src) <=> src[pos] # <<>>
           /\ pos \in Matches(src) => HitsIn(src)[pos] = LineHit(pos, src[pos])
<1>1. /\ opts \in Asked /\ pos \in Nat /\ pos # 0
      /\ at \in Files
      /\ Reading(opts, HitsIn(src), WorthIn(at, src), Matches(src), src, pos, Lead, sink, held)
  BY DEF LinesInv
<1>2. SearchText(src)
  BY <1>1 DEF Reading
<1>3. /\ pos \in Matches(src) <=> src[pos] # <<>> /\ Qualifies(src[pos])
      /\ pos \in Nonempty(src) <=> src[pos] # <<>>
  BY DEF Matches, Nonempty
<1> QED BY <1>1, <1>2, <1>3, TextLinesAre, WorthIs

LEMMA ReadsOn ==
    ASSUME LinesInv, pos \in DOMAIN src, pos' \in Nat \ {0},
           UNCHANGED <<disk, opts, pass, at, src, found, read>>,
           Reading(opts, HitsIn(src), WorthIn(at, src), Matches(src), src, pos', Lead, sink', held')
    PROVE  LinesInv'
<1>1. /\ opts \in Asked /\ at \in Files
      /\ DOMAIN disk = Files /\ (\A f \in Files : SearchText(disk[f]))
      /\ DOMAIN found = Files /\ DOMAIN read = Files /\ ResultsHold
  BY LineIs DEF LinesInv
<1>2. Lead' = Lead
  BY DEF Lead
<1>3. \A f, text : HitsIn(text)' = HitsIn(text) /\ WorthIn(f, text)' = WorthIn(f, text) /\ Matches(text)' = Matches(text)
  BY SameWorth
<1>4. Reading(opts, HitsIn(src), WorthIn(at, src), Matches(src), src, pos, Lead, sink, held)'
  BY <1>2, <1>3
<1>5. ResultsHold'
  BY <1>1, SameResults
<1> QED BY <1>1, <1>4, <1>5 DEF LinesInv

LEMMA HeldLength ==
    ASSUME NEW u, NEW w, NEW M, LineSet(M), NEW p, NEW lead, NEW hits, NEW h, Holding(u, w, M, p, lead, hits, h)
    PROVE  Len(hits) \in Nat
<1>1. PICK m \in 1 .. p : hits = ByNumber(u, Between(M, m, p))
  BY DEF Holding
<1>2. LineSet(Between(M, m, p))
  BY LinesPart DEF Between
<1>3. hits \in Seq({u[n] : n \in Between(M, m, p)})
  BY <1>1, <1>2, ByNumberSeq
<1> DEFINE V == {u[n] : n \in Between(M, m, p)}
<1>4. hits \in Seq(V)
  BY <1>3
<1> HIDE DEF V
<1> QED BY <1>4

LEMMA MatchedReads ==
    ASSUME LinesInv, Matched
    PROVE  /\ pos \in DOMAIN src
           /\ Reading(opts, HitsIn(src), WorthIn(at, src), Matches(src), src, pos', Lead, sink', held')
<1> DEFINE M == Matches(src)
           u == HitsIn(src)
           w == WorthIn(at, src)
           line == src[pos]
           q == pos'
           z == sink'
<1>1. /\ pos \in DOMAIN src
      /\ q = IF opts.mode = "files" /\ z.total > 0 THEN Len(src) + 1 ELSE pos + 1
  BY DEF Matched
<1>2. /\ opts \in Asked /\ at \in Files /\ SearchText(src) /\ pos \in Nat \ {0}
      /\ Reading(opts, u, w, M, src, pos, Lead, sink, held) /\ LineSet(M)
      /\ pos \in M <=> line # <<>> /\ Qualifies(line)
      /\ pos \in Nonempty(src) <=> line # <<>>
      /\ pos \in M => u[pos] = LineHit(pos, line)
  BY <1>1, LineIs
<1>3. pos \in M => u[pos].line = pos /\ w[pos].kind = u[pos].occ.kind
  BY <1>2, WorthIs
<1>4. /\ Ranked => Cap = Endless /\ SpillAt \in Nat /\ SpillAt < Endless
      /\ ~Ranked => Cap \in Nat /\ Cap <= Endless /\ SpillAt = Endless
      /\ Lead \in Nat /\ Endless \in Nat
      /\ Ranked <=> RankedBy(opts)
      /\ KeepDefs <=> opts.mode # "count" /\ ~Ranked
  BY <1>2, CapIs
<1>5. DOMAIN sink = {"hits", "total", "all", "defs"} /\ (Ranked => Len(sink.hits) < Endless)
      /\ (~Ranked => sink.hits \in Seq({u[n] : n \in M}))
  BY <1>2, <1>4 DEF Reading
<1>6. CASE line = <<>>
  <2>1. sink' = sink /\ held' = held
    BY <1>6 DEF Matched
  <2>2. PassedBy(sink, z)
    BY <1>5, <2>1, SinkSkips
  <2>3. sink.all \in Nat
    BY <1>2 DEF Reading
  <2>4. z.all = sink.all + IF pos \in Nonempty(src) THEN 1 ELSE 0
    BY <1>2, <1>6, <2>1, <2>3
  <2>5. pos \notin M /\ held' = held
    BY <1>2, <1>6, <2>1
  <2> HIDE DEF M, u, w, line, q, z
  <2>6. Reading(opts, u, w, M, src, q, Lead, z, held)
    BY <1>1, <1>2, <2>2, <2>4, <2>5, ReadingSkips
  <2> QED BY <1>1, <2>5, <2>6 DEF M, u, w, q, z
<1>7. CASE line # <<>> /\ ~Qualifies(line)
  <2>1. sink' = [sink EXCEPT !.all = @ + 1] /\ held' = held
    BY <1>7 DEF Matched
  <2>2. PassedBy(sink, z) /\ z.all = sink.all + 1
    BY <1>5, <2>1, SinkSkips
  <2>4. z.all = sink.all + IF pos \in Nonempty(src) THEN 1 ELSE 0
    BY <1>2, <1>7, <2>2
  <2>5. pos \notin M /\ held' = held
    BY <1>2, <1>7, <2>1
  <2> HIDE DEF M, u, w, line, q, z
  <2>6. Reading(opts, u, w, M, src, q, Lead, z, held)
    BY <1>1, <1>2, <2>2, <2>4, <2>5, ReadingSkips
  <2> QED BY <1>1, <2>5, <2>6 DEF M, u, w, q, z
<1>8. CASE line # <<>> /\ Qualifies(line)
  <2>1. pos \in M /\ pos \in Nonempty(src) /\ u[pos] = LineHit(pos, line)
    BY <1>2, <1>8
  <2>2. CASE Len(sink.hits) < Cap
    <3>1. ~(Len(sink.hits) >= Cap)
      <4>1. Ranked => Len(sink.hits) \in Nat
        BY <1>2, <1>4, HeldLength DEF Reading
      <4>2. ~Ranked => Len(sink.hits) \in Nat
        BY <1>5
      <4> QED BY <1>4, <2>2, <4>1, <4>2
    <3>2. CASE Len(sink.hits) >= SpillAt
      <4>1. /\ held' = Take(held, at, sink.hits, Lead)
            /\ z = [sink EXCEPT !.hits = <<u[pos]>>, !.total = @ + 1, !.all = @ + 1]
        BY <1>8, <2>1, <2>2, <3>1, <3>2 DEF Matched, Record
      <4>2. CountedBy(sink, z) /\ z.hits = <<u[pos]>>
        BY <1>5, <4>1, SinkCounts
      <4>3. Ranked
        <5>1. SUFFICES ASSUME ~Ranked PROVE FALSE
          OBVIOUS
        <5>2. Len(sink.hits) \in Nat
          BY <1>5, <5>1
        <5> QED BY <1>4, <2>2, <3>2, <5>1, <5>2
      <4>4. Holding(u, w, M, pos, Lead, sink.hits, held)
        BY <1>2, <1>4, <4>3 DEF Reading
      <4>5. held' = Pruned(w, Before(M, pos), Lead)
        BY <1>2, <1>4, <4>1, <4>3, <4>4, PruneOf
      <4> HIDE DEF M, u, w, line, q, z
      <4>6. Reading(opts, u, w, M, src, q, Lead, z, held')
        BY <1>1, <1>2, <1>4, <2>1, <4>2, <4>3, <4>5, RankedRecords
      <4> QED BY <1>1, <4>6 DEF M, u, w, q, z
    <3>3. CASE ~(Len(sink.hits) >= SpillAt)
      <4>1. z = [sink EXCEPT !.hits = Append(@, u[pos]), !.total = @ + 1, !.all = @ + 1] /\ held' = held
        BY <1>8, <2>1, <2>2, <3>1, <3>3 DEF Matched, Record
      <4>2. CountedBy(sink, z) /\ z.hits = Append(sink.hits, u[pos]) /\ z.defs = sink.defs
        BY <1>5, <4>1, SinkCounts
      <4>3. CASE Ranked
        <5>1. Len(sink.hits) \in Nat
          BY <1>2, <1>4, <4>3, HeldLength DEF Reading
        <5>2. Len(sink.hits) < SpillAt
          BY <1>4, <3>3, <4>3, <5>1
        <5> HIDE DEF M, u, w, line, q, z
        <5>3. Reading(opts, u, w, M, src, q, Lead, z, held)
          BY <1>1, <1>2, <1>4, <2>1, <4>2, <4>3, <5>2, RankedRecords
        <5> QED BY <1>1, <4>1, <5>3 DEF M, u, w, q, z
      <4>4. CASE ~Ranked
        <5> HIDE DEF M, u, w, line, q, z
        <5>1. Reading(opts, u, w, M, src, q, Lead, z, held)
          BY <1>1, <1>2, <1>3, <1>4, <2>1, <4>2, <4>4, OtherRecords
        <5> QED BY <1>1, <4>1, <5>1 DEF M, u, w, q, z
      <4> QED BY <4>3, <4>4
    <3> QED BY <3>2, <3>3
  <2>3. CASE ~(Len(sink.hits) < Cap)
    <3>1. ~Ranked
      BY <1>4, <1>5, <2>3
    <3>2. Len(sink.hits) >= Cap
      <4>1. Len(sink.hits) \in Nat
        BY <1>5, <3>1
      <4> QED BY <1>4, <2>3, <3>1, <4>1
    <3> DEFINE def == KeepDefs /\ sink.defs < MaxDefs /\ u[pos].occ.kind = "def"
    <3>3. /\ held' = held
          /\ z = [sink EXCEPT !.total = @ + 1, !.all = @ + 1, !.defs = IF def THEN @ + 1 ELSE @,
                              !.hits = IF def THEN Append(@, u[pos]) ELSE @]
      BY <1>8, <2>1, <2>3, <3>2 DEF Matched
    <3>4. def \in BOOLEAN
      BY DEF KeepDefs
    <3>5. ListsLines(opts) => (def <=> sink.defs < MaxDefs /\ u[pos].occ.kind = "def")
      BY <1>4, <3>1 DEF ListsLines
    <3> HIDE DEF def
    <3>6. /\ CountedBy(sink, z)
          /\ def => z.hits = Append(sink.hits, u[pos]) /\ z.defs = sink.defs + 1
          /\ ~def => z.hits = sink.hits /\ z.defs = sink.defs
      BY <1>5, <3>3, <3>4, SinkCounts
    <3> HIDE DEF M, u, w, line, q, z
    <3>7. Reading(opts, u, w, M, src, q, Lead, z, held)
      BY <1>1, <1>2, <1>3, <1>4, <2>1, <3>1, <3>4, <3>5, <3>6, OtherRecords
    <3> QED BY <1>1, <3>3, <3>7 DEF M, u, w, q, z
  <2> QED BY <2>2, <2>3
<1> QED BY <1>1, <1>6, <1>7, <1>8

LEMMA MatchedKeeps ==
    ASSUME LinesInv, Matched
    PROVE  LinesInv'
<1>1. /\ pos \in DOMAIN src
      /\ Reading(opts, HitsIn(src), WorthIn(at, src), Matches(src), src, pos', Lead, sink', held')
  BY MatchedReads
<1>2. UNCHANGED <<disk, opts, pass, at, src, found, read>>
  BY DEF Matched
<1>3. pos' \in Nat \ {0}
  BY <1>1, TextLinesAre DEF Reading
<1> QED BY <1>1, <1>2, <1>3, ReadsOn

\* Taken hits are at their lines.
LEMMA OtherTakes ==
    ASSUME ~Ranked, NEW V, NEW hits \in Seq(V), NEW f, NEW lead
    PROVE  \A k \in DOMAIN hits : /\ k \in DOMAIN Take(NoLines, f, hits, lead).lines
                                  /\ Take(NoLines, f, hits, lead).lines[k].line = hits[k].line
<1> DEFINE scored == [k \in DOMAIN hits |-> Scored(f, hits[k])]
           all == [NoLines EXCEPT !.lines = @ \o scored]
<1>1. Take(NoLines, f, hits, lead) = all
  BY Zenon DEF Take
<1>2. all.lines = <<>> \o scored
  BY DEF NoLines
<1>3. scored \in Seq({scored[k] : k \in DOMAIN hits})
  <2>1. DOMAIN hits = 1 .. Len(hits) /\ Len(hits) \in Nat
    OBVIOUS
  <2> DEFINE W == {scored[k] : k \in DOMAIN hits}
  <2>2. scored \in [1 .. Len(hits) -> W]
    BY <2>1
  <2> HIDE DEF scored, W
  <2>3. scored \in Seq(W)
    BY <2>1, <2>2
  <2> QED BY <2>3 DEF W
<1>4. <<>> \o scored = scored
  <2> HIDE DEF scored
  <2> QED BY <1>3
<1>5. \A k \in DOMAIN hits : k \in DOMAIN scored /\ scored[k].line = hits[k].line
  BY DEF Scored
<1> HIDE DEF scored, all
<1> QED BY <1>1, <1>2, <1>4, <1>5

LEMMA ReadThrough ==
    ASSUME LinesInv, pos > Len(src), pos > 0
    PROVE  /\ at \in Files /\ opts \in Asked /\ SearchText(src) /\ Lead \in Nat /\ pos \in Nat \ {0}
           /\ Reading(opts, HitsIn(src), WorthIn(at, src), Matches(src), src, pos, Lead, sink, held)
           /\ Before(Matches(src), pos) = Matches(src)
           /\ Before(Nonempty(src), pos) = Nonempty(src)
<1>1. /\ opts \in Asked /\ pos \in Nat \ {0} /\ at \in Files
      /\ Reading(opts, HitsIn(src), WorthIn(at, src), Matches(src), src, pos, Lead, sink, held)
  BY DEF LinesInv
<1>2. SearchText(src) /\ Len(src) \in Nat /\ DOMAIN src = 1 .. Len(src)
  BY <1>1, TextLinesAre DEF Reading
<1>3. \A n \in DOMAIN src : n < pos
  BY <1>1, <1>2
<1>4. Lead \in Nat
  BY <1>1, CapIs
<1> QED BY <1>1, <1>2, <1>3, <1>4 DEF Before, Matches, Nonempty

LEMMA ResultIs ==
    ASSUME LinesInv, pos > Len(src), pos > 0, sink.total # 0
    PROVE  ResultOf(opts, WorthIn(at, src), Matches(src), src, Lead, Result)
<1> DEFINE M == Matches(src)
           u == HitsIn(src)
           w == WorthIn(at, src)
           h == Take(held, at, sink.hits, Lead)
<1>1. /\ at \in Files /\ opts \in Asked /\ SearchText(src) /\ Lead \in Nat /\ pos \in Nat \ {0}
      /\ Reading(opts, u, w, M, src, pos, Lead, sink, held)
      /\ Before(M, pos) = M /\ Before(Nonempty(src), pos) = Nonempty(src)
  BY ReadThrough
<1>2. /\ Result.hits = h.lines /\ Result.total = sink.total /\ Result.unfiltered = sink.all
      /\ Result.dropped = h.dropped /\ Result.exact = h.exact /\ Result.near = h.near
  BY DEF Result
<1>3. Ranked <=> RankedBy(opts)
  BY <1>1, CapIs
<1>4. M # {}
  BY <1>1 DEF Reading
<1>5. opts.mode # "files" => Result.total = Cardinality(M) /\ Result.unfiltered = Cardinality(Nonempty(src))
  BY <1>1, <1>2 DEF Reading
<1>6. RankedBy(opts) => h = Pruned(w, M, Lead)
  <2> SUFFICES ASSUME RankedBy(opts) PROVE h = Pruned(w, M, Lead)
    OBVIOUS
  <2>1. Holding(u, w, M, pos, Lead, sink.hits, held)
    BY <1>1 DEF Reading
  <2>2. h = Pruned(w, Before(M, pos), Lead)
    BY <1>1, <1>3, <2>1, PruneOf
  <2> QED BY <1>1, <2>2
<1>7. ~RankedBy(opts) /\ ListsLines(opts) =>
          \/ \A n \in DefsOf(w, M) : \E k \in DOMAIN Result.hits : Result.hits[k].line = n
          \/ Cardinality(DefsOf(w, M)) > MaxDefs
  <2> SUFFICES ASSUME ~RankedBy(opts), ListsLines(opts), ~(Cardinality(DefsOf(w, M)) > MaxDefs),
                      NEW n \in DefsOf(w, M)
               PROVE  \E k \in DOMAIN Result.hits : Result.hits[k].line = n
    OBVIOUS
  <2>1. held = NoLines /\ sink.hits \in Seq({u[x] : x \in M}) /\ DefsRecorded(w, M, pos, sink)
    BY <1>1 DEF Reading
  <2>2. PICK k \in DOMAIN sink.hits : sink.hits[k].line = n
    BY <1>1, <2>1 DEF DefsRecorded
  <2> DEFINE V == {u[x] : x \in M}
  <2>3. sink.hits \in Seq(V)
    BY <2>1
  <2> HIDE DEF V
  <2>4. /\ k \in DOMAIN Take(NoLines, at, sink.hits, Lead).lines
        /\ Take(NoLines, at, sink.hits, Lead).lines[k].line = sink.hits[k].line
    BY <1>3, <2>3, OtherTakes
  <2>5. Result.hits = Take(NoLines, at, sink.hits, Lead).lines
    BY <1>2, <2>1
  <2> QED BY <2>2, <2>4, <2>5
<1> HIDE DEF h, u, w, M
<1>8. RankedBy(opts) =>
          LET p == Pruned(w, M, Lead) IN
          Result.hits = p.lines /\ Result.dropped = p.dropped /\ Result.exact = p.exact /\ Result.near = p.near
  BY <1>2, <1>6
<1>9. ResultOf(opts, w, M, src, Lead, Result)
  BY <1>1, <1>4, <1>5, <1>7, <1>8 DEF ResultOf
<1> QED BY <1>9 DEF w, M

LEMMA CloseKeeps ==
    ASSUME LinesInv, CloseFile
    PROVE  LinesInv'
<1>1. /\ opts \in Asked /\ DOMAIN disk = Files /\ (\A f \in Files : SearchText(disk[f]))
      /\ DOMAIN found = Files /\ DOMAIN read = Files /\ ResultsHold
  BY DEF LinesInv
<1>2. pos > Len(src) /\ pos > 0 /\ pos' = 0 /\ src' = <<>> /\ UNCHANGED <<disk, opts>>
  BY DEF CloseFile
<1>3. /\ sink.total = 0 => UNCHANGED <<found, read>>
      /\ sink.total # 0 => /\ found' = [found EXCEPT ![at] = Result]
                           /\ read' = [read EXCEPT ![at] = [text |-> src, lead |-> Lead]]
  BY DEF CloseFile
<1>4. DOMAIN found' = Files /\ DOMAIN read' = Files
  BY <1>1, <1>3
<1>5. ResultsHold'
  <2>1. CASE sink.total = 0
    BY <1>1, <1>2, <1>3, <2>1, SameResults
  <2>2. CASE sink.total # 0
    <3>1. ResultOf(opts, WorthIn(at, src), Matches(src), src, Lead, Result)
      BY <1>2, <2>2, ResultIs
    <3>2. \A f \in Files : found[f] # NoFile =>
              ResultOf(opts, WorthIn(f, read[f].text), Matches(read[f].text), read[f].text, read[f].lead, found[f])
      BY <1>1 DEF ResultsHold
    <3>3. /\ \A f \in Files : f # at => found'[f] = found[f] /\ read'[f] = read[f]
          /\ at \in Files => found'[at] = Result /\ read'[at].text = src /\ read'[at].lead = Lead
      BY <1>1, <1>3, <2>2
    <3>4. \A f \in Files : found'[f] # NoFile =>
              ResultOf(opts, WorthIn(f, read'[f].text), Matches(read'[f].text), read'[f].text, read'[f].lead, found'[f])
      BY <3>1, <3>2, <3>3
    <3>5. \A f, text : WorthIn(f, text)' = WorthIn(f, text) /\ Matches(text)' = Matches(text)
      BY <1>2, SameWorth
    <3> QED BY <1>2, <3>4, <3>5 DEF ResultsHold
  <2> QED BY <2>1, <2>2
<1> QED BY <1>1, <1>2, <1>4, <1>5 DEF LinesInv

\* Between two reads nothing is being read.
LEMMA BetweenReads ==
    ASSUME LinesInv, pos = 0, UNCHANGED <<opts, src, pos, found, read>>,
           DOMAIN disk' = Files, \A f \in Files : SearchText(disk'[f])
    PROVE  LinesInv'
<1>1. opts \in Asked /\ DOMAIN found = Files /\ DOMAIN read = Files /\ ResultsHold /\ src = <<>>
  BY DEF LinesInv
<1>2. ResultsHold'
  BY <1>1, SameResults
<1> QED BY <1>1, <1>2 DEF LinesInv

LEMMA EditKeeps ==
    ASSUME LinesInv, NEW f \in Files, NEW t \in Rewritten, Edit(f, t)
    PROVE  LinesInv'
<1>1. pos = 0 /\ disk' = [disk EXCEPT ![f] = t] /\ UNCHANGED <<opts, src, pos, found, read>>
  BY DEF Edit
<1>2. SearchText(t)
  BY SearchAssumption DEF SearchText
<1>3. DOMAIN disk = Files /\ \A x \in Files : SearchText(disk[x])
  BY DEF LinesInv
<1>4. DOMAIN disk' = Files /\ \A x \in Files : SearchText(disk'[x])
  BY <1>1, <1>2, <1>3
<1> QED BY <1>1, <1>4, BetweenReads

LEMMA EndPassKeeps ==
    ASSUME LinesInv, EndPass
    PROVE  LinesInv'
<1>1. pos = 0 /\ UNCHANGED <<disk, opts, src, pos, found, read>>
  BY DEF EndPass
<1>2. DOMAIN disk' = Files /\ \A x \in Files : SearchText(disk'[x])
  BY <1>1 DEF LinesInv
<1> QED BY <1>1, <1>2, BetweenReads

LEMMA SearchStays == LinesInv /\ UNCHANGED search => LinesInv'
<1> SUFFICES ASSUME LinesInv, UNCHANGED search PROVE LinesInv'
  OBVIOUS
<1>1. UNCHANGED <<disk, opts, pass, at, src, pos, sink, held, found, read>>
  BY DEF search
<1>2. CASE pos = 0
  <2>1. DOMAIN disk' = Files /\ \A x \in Files : SearchText(disk'[x])
    BY <1>1 DEF LinesInv
  <2> QED BY <1>1, <1>2, <2>1, BetweenReads
<1>3. CASE pos # 0
  <2>1. /\ opts \in Asked /\ DOMAIN disk = Files /\ (\A f \in Files : SearchText(disk[f]))
        /\ DOMAIN found = Files /\ DOMAIN read = Files /\ ResultsHold
        /\ pos \in Nat /\ pos > 0 /\ at \in Files
        /\ Reading(opts, HitsIn(src), WorthIn(at, src), Matches(src), src, pos, Lead, sink, held)
    BY <1>3 DEF LinesInv
  <2>2. Lead' = Lead
    BY <1>1 DEF Lead
  <2>3. \A f, text : HitsIn(text)' = HitsIn(text) /\ WorthIn(f, text)' = WorthIn(f, text) /\ Matches(text)' = Matches(text)
    BY <1>1, SameWorth
  <2>4. Reading(opts, HitsIn(src), WorthIn(at, src), Matches(src), src, pos, Lead, sink, held)'
    BY <1>1, <2>1, <2>2, <2>3
  <2>5. ResultsHold'
    BY <1>1, <2>1, SameResults
  <2> QED BY <1>1, <2>1, <2>4, <2>5 DEF LinesInv
<1> QED BY <1>2, <1>3

LEMMA SearchKeeps ==
    ASSUME LinesInv, Searching
    PROVE  LinesInv'
<1>1. CASE Open
  BY <1>1, OpenKeeps
<1>2. CASE Matched
  BY <1>2, MatchedKeeps
<1>3. CASE CloseFile
  BY <1>3, CloseKeeps
<1>4. CASE EndPass
  BY <1>4, EndPassKeeps
<1>5. ASSUME NEW f \in Files, NEW t \in Rewritten, Edit(f, t) PROVE LinesInv'
  BY <1>5, EditKeeps
<1> QED BY <1>1, <1>2, <1>3, <1>4, <1>5 DEF Searching

LEMMA LinesSteps == LinesInv /\ [Searching]_search => LinesInv'
BY SearchKeeps, SearchStays

(* Lines dropped while a file is read, and lines only counted, leave what   *)
(* one choice at the file's end would, and every count adds up, for every   *)
(* text, option, limit and edit between two reads (lib.rs `Lines::prune`,   *)
(* `CollectSink`).                                                          *)
THEOREM LinesKeptAlways == LinesSpec => []LinesKept
<1>1. LinesInv => LinesKept
  BY ResultsPruned, ResultsCounted DEF LinesInv, LinesKept
<1> QED BY <1>1, LinesStart, LinesSteps, PTL DEF LinesSpec

-----------------------------------------------------------------------------
(* The results of a streamed search, in order.                              *)

LEMMA AheadType == Ahead \in Nat
<1>1. Cardinality(Workers) \in Nat
  BY WorkersAssumption, FS_CardinalityType
<1> QED BY <1>1, BoundsAssumption DEF Ahead

\* Waking the waiters on `room` moves them back to their claim and nothing else.
LEMMA Woken ==
    ASSUME TypeOK
    PROVE  /\ RoomWoken \in [Workers -> WorkerStates]
           /\ \A w \in Workers :
                 /\ RoomWoken[w].part = worker[w].part /\ RoomWoken[w].id = worker[w].id
                 /\ RoomWoken[w].pc = IF worker[w].pc = "room" THEN "claim" ELSE worker[w].pc
           /\ ReadyWoken \in WriterStates
           /\ ReadyWoken.c = writer.c /\ ReadyWoken.part = writer.part
           /\ ReadyWoken.pc = IF writer.pc = "ready" THEN "look" ELSE writer.pc
BY DEF TypeOK, RoomWoken, ReadyWoken, WorkerStates, WriterStates

\* The worker w moves on.
LEMMA GoType ==
    ASSUME TypeOK, NEW w \in Workers, NEW pc, Go(w, pc),
           pc \in {"init", "claim", "room", "lock", "receive", "work", "empty",
                   "count", "exit", "dead"}
    PROVE  /\ worker' \in [Workers -> WorkerStates]
           /\ worker'[w].pc = pc
           /\ \A v \in Workers \ {w} : worker'[v] = worker[v]
BY DEF TypeOK, Go, WorkerStates

-----------------------------------------------------------------------------
(* The type invariant *)

LEMMA InitTypeOK == Init => TypeOK
<1> SUFFICES ASSUME Init PROVE TypeOK
  OBVIOUS
<1>1. writer \in WriterStates
  BY DEF Init, WriterStates
<1>2. worker \in [Workers -> WorkerStates]
  BY DEF Init, WorkerStates
<1>3. stop \in BOOLEAN /\ stopped \in BOOLEAN
  BY DEF Init
<1>4. /\ \A w \in Workers : worker[w].pc = "receive" <=> source.holder = w
      /\ \A w \in Workers : worker[w].pc = "count" <=> state = w
  BY WorkersAssumption DEF Init
<1> QED BY <1>1, <1>2, <1>3, <1>4 DEF Init, TypeOK

LEMMA WalkType ==
    ASSUME TypeOK, WalkStep
    PROVE  TypeOK'
BY DEF TypeOK, WalkStep, WalkOn, WalkSend, WalkSendFails

LEMMA WorkerType ==
    ASSUME TypeOK, NEW w \in Workers, WorkerStep(w)
    PROVE  TypeOK'
<1>n. NoWorker \notin Workers
  BY WorkersAssumption
<1>1. CASE WorkerInit(w)
  <2>1. PICK pc \in {"claim", "dead"} : Go(w, pc)
    BY <1>1 DEF WorkerInit
  <2> QED BY <1>1, <2>1, <1>n, GoType DEF TypeOK, WorkerInit
<1>2. CASE Claim(w)
  <2>1. PICK pc \in {"exit", "room", "lock"} : Go(w, pc)
    BY <1>2 DEF Claim
  <2>2. claimed' \in Nat
    BY <1>2 DEF Claim, TypeOK
  <2> QED BY <1>2, <2>1, <2>2, <1>n, GoType DEF TypeOK, Claim
<1>3. CASE Lock(w)
  <2>1. Go(w, "receive") /\ worker[w].pc = "lock"
    BY <1>3 DEF Lock
  <2>2. source' \in [holder : Workers \cup {NoWorker}, next : Nat] /\ source'.holder = w
    BY <1>3 DEF Lock, TypeOK
  <2>3. \A v \in Workers : worker[v].pc # "receive"
    BY <1>3, <1>n DEF Lock, TypeOK
  <2> QED BY <1>3, <2>1, <2>2, <2>3, <1>n, GoType DEF TypeOK, Lock
<1>4. CASE Receive(w)
  <2>1. worker[w].pc = "receive" /\ source.holder = w
    BY <1>4 DEF Receive, TypeOK
  <2>2. source' \in [holder : Workers \cup {NoWorker}, next : Nat] /\ source'.holder = NoWorker
    BY <1>4 DEF Receive, TypeOK
  <2>3. /\ worker' \in [Workers -> WorkerStates]
        /\ worker'[w].pc \in {"work", "empty"}
        /\ \A v \in Workers \ {w} : worker'[v] = worker[v]
    BY <1>4 DEF Receive, TypeOK, Go, WorkerStates
  <2> QED BY <1>4, <2>1, <2>2, <2>3, <1>n DEF TypeOK, Receive
<1>5. CASE Empty(w)
  <2>1. Go(w, "count") /\ worker[w].pc = "empty"
    BY <1>5 DEF Empty
  <2> QED BY <1>5, <2>1, <1>n, GoType DEF TypeOK, Empty
<1>6. CASE Count(w)
  <2>1. worker[w].pc = "count" /\ state = w /\ state' = NoWorker /\ total' \in Nat
    BY <1>6 DEF Count, TypeOK
  <2>2. /\ worker' \in [Workers -> WorkerStates] /\ worker'[w].pc = "exit"
        /\ \A v \in Workers \ {w} : worker'[v] = RoomWoken[v]
    BY <1>6, Woken DEF Count, WorkerStates
  <2>3. writer' \in WriterStates
    BY <1>6, Woken DEF Count
  <2>4. \A v \in Workers : /\ worker'[v].pc = "receive" <=> source'.holder = v
                           /\ worker'[v].pc = "count" <=> state' = v
    BY <1>6, <2>1, <2>2, <1>n, Woken DEF Count, TypeOK
  <2> QED BY <1>6, <2>1, <2>2, <2>3, <2>4 DEF TypeOK, Count
<1>7. CASE Put(w)
  <2>1. Go(w, "claim") /\ worker[w].pc = "work" /\ state = NoWorker
    BY <1>7 DEF Put
  <2>2. PICK ok \in BOOLEAN :
          /\ done' = done \cup {[id |-> Number(w), part |-> worker[w].part, ok |-> ok]}
          /\ stop' = (stop \/ ~ok)
          /\ writer' = IF Number(w) = emitted \/ ~ok THEN ReadyWoken ELSE writer
    BY <1>7 DEF Put
  <2>3. done' \subseteq [id : Nat, part : Nat, ok : BOOLEAN]
    BY <2>2 DEF TypeOK, Number, WorkerStates
  <2>4. writer' \in WriterStates
    BY <2>2, Woken DEF TypeOK
  <2>5. stop' \in BOOLEAN
    BY <2>2
  <2> QED BY <1>7, <2>1, <2>3, <2>4, <2>5, <1>n, GoType DEF TypeOK, Put
<1> QED BY <1>1, <1>2, <1>3, <1>4, <1>5, <1>6, <1>7 DEF WorkerStep

LEMMA WriterType ==
    ASSUME TypeOK, WriterStep
    PROVE  TypeOK'
<1>1. CASE Look
  <2>1. PICK pc \in {"emit", "finish", "ready"}, part \in Nat, ok \in BOOLEAN :
          writer' = [writer EXCEPT !.pc = pc, !.part = part, !.ok = ok]
    <3>1. CASE \E d \in done :
                  writer' = [writer EXCEPT !.pc = "emit", !.part = d.part, !.ok = d.ok]
      BY <3>1 DEF TypeOK
    <3>2. CASE \E pc \in {"finish", "ready"} : writer' = [writer EXCEPT !.pc = pc]
      <4>1. PICK pc \in {"finish", "ready"} : writer' = [writer EXCEPT !.pc = pc]
        BY <3>2
      <4>2. writer' = [writer EXCEPT !.pc = pc, !.part = writer.part, !.ok = writer.ok]
        BY <4>1 DEF TypeOK, WriterStates
      <4>3. writer.part \in Nat /\ writer.ok \in BOOLEAN
        BY DEF TypeOK, WriterStates
      <4> QED BY <4>2, <4>3
    <3> QED BY <1>1, <3>1, <3>2 DEF Look
  <2>2. writer' \in WriterStates
    BY <2>1 DEF TypeOK, WriterStates
  <2>3. done' \subseteq done
    BY <1>1 DEF Look
  <2> QED BY <1>1, <2>2, <2>3 DEF TypeOK, Look
<1>2. CASE Emit
  <2>1. writer.c + 1 \in Nat
    BY DEF TypeOK, WriterStates
  <2>2. writer' \in WriterStates
    <3>0. writer \in WriterStates
      BY DEF TypeOK
    <3>1. CASE writer' = [writer EXCEPT !.pc = "advance", !.c = @ + 1]
      BY <2>1, <3>0, <3>1 DEF WriterStates
    <3>2. CASE writer' = [writer EXCEPT !.pc = "finish", !.result = "error"]
      BY <3>0, <3>2 DEF WriterStates
    <3>3. CASE writer' = [writer EXCEPT !.pc = "join", !.result = "panic"]
      BY <3>0, <3>3 DEF WriterStates
    <3> QED BY <1>2, <3>1, <3>2, <3>3 DEF Emit
  <2>3. stopped' \in BOOLEAN
    BY <1>2 DEF Emit, TypeOK
  <2> QED BY <1>2, <2>2, <2>3 DEF TypeOK, Emit
<1>3. CASE Advance
  <2>1. emitted' \in Nat /\ writer' \in WriterStates
    BY <1>3 DEF Advance, TypeOK, WriterStates
  <2>2. \A w \in Workers : /\ worker'[w].pc = "receive" <=> source.holder = w
                           /\ worker'[w].pc = "count" <=> state = w
    BY <1>3, Woken DEF Advance, TypeOK
  <2> QED BY <1>3, <2>1, <2>2, Woken DEF TypeOK, Advance
<1>4. CASE Resume
  <2>1. writer' \in WriterStates
    BY <1>4 DEF Resume, TypeOK, WriterStates
  <2>2. \A w \in Workers : /\ worker'[w].pc = "receive" <=> source.holder = w
                           /\ worker'[w].pc = "count" <=> state = w
    BY <1>4, Woken DEF Resume, TypeOK
  <2> QED BY <1>4, <2>1, <2>2, Woken DEF TypeOK, Resume
<1>5. CASE Finish
  <2>1. writer' \in WriterStates
    BY <1>5 DEF Finish, TypeOK, WriterStates
  <2>2. \A w \in Workers : /\ worker'[w].pc = "receive" <=> source.holder = w
                           /\ worker'[w].pc = "count" <=> state = w
    BY <1>5, Woken DEF Finish, TypeOK
  <2> QED BY <1>5, <2>1, <2>2, Woken DEF TypeOK, Finish
<1>6. CASE Join
  <2>1. writer' \in WriterStates
    BY <1>6 DEF Join, TypeOK, WriterStates
  <2> QED BY <1>6, <2>1 DEF TypeOK, Join
<1> QED BY <1>1, <1>2, <1>3, <1>4, <1>5, <1>6 DEF WriterStep

\* The source's mutex and the state's have one holder each, and every variable
\* keeps its type.
THEOREM TypeCorrect == Spec => []TypeOK
<1>1. TypeOK /\ [Next]_vars => TypeOK'
  <2> SUFFICES ASSUME TypeOK, [Next]_vars PROVE TypeOK'
    OBVIOUS
  <2>1. CASE UNCHANGED vars
    BY <2>1 DEF vars, TypeOK
  <2> QED BY <2>1, WalkType, WorkerType, WriterType DEF Next
<1> QED BY <1>1, InitTypeOK, PTL DEF Spec

-----------------------------------------------------------------------------
(* Chunks: order and lead *)

IInv == TypeOK /\ ChunksSound

\* ChunksSound without what each process contributes: the part of it a step
\* keeps when it takes no chunk and moves none.
LEMMA SameChunks ==
    ASSUME IInv, TypeOK',
           source'.next = source.next, claimed' = claimed, emitted' = emitted,
           done' = done, writer'.c = writer.c, writer'.part = writer.part,
           \/ writer'.pc = writer.pc
           \/ /\ writer'.pc \notin {"emit", "advance"}
              /\ writer.pc # "advance",
           Taking' = Taking,
           Working' = Working,
           \A w \in Working : worker'[w].id = worker[w].id /\ worker'[w].part = worker[w].part
    PROVE  ChunksSound'
<1>1. Working \subseteq Workers
  BY DEF Working
<1>2. Unwritten' \in Int /\ Unwritten \in Int /\ Unwritten' <= Unwritten
  BY DEF Unwritten, TypeOK, IInv, WriterStates
<1>3. \A i \in Nat : i \in Unwritten .. source.next - 1 => i \in Unwritten' .. source'.next - 1
  BY <1>2 DEF TypeOK, IInv
<1>4. ChunksSound
  BY DEF IInv
<1>5. Ahead' = Ahead
  BY DEF Ahead
<1>6. \A w \in Working : worker[w].id \in Nat
  BY <1>1 DEF IInv, TypeOK, WorkerStates
<1>7. \A d \in done : d.id \in Nat
  BY DEF IInv, TypeOK
<1>8. /\ (source.next + Cardinality(Taking) <= claimed)'
      /\ (claimed <= emitted + Ahead)'
      /\ (writer.c = IF writer.pc = "advance" THEN emitted + 1 ELSE emitted)'
      /\ (Unwritten <= source.next)'
  BY <1>2, <1>4, <1>5 DEF ChunksSound, IInv, TypeOK
<1>9. (\A w \in Working :
          /\ worker[w].id \in Unwritten .. source.next - 1
          /\ worker[w].part = worker[w].id
          /\ \A v \in Working \ {w} : worker[v].id # worker[w].id
          /\ \A d \in done : d.id # worker[w].id)'
  BY <1>3, <1>4, <1>6 DEF ChunksSound
<1>10. (\A d \in done :
          /\ d.id \in Unwritten .. source.next - 1
          /\ d.part = d.id
          /\ \A e \in done \ {d} : e.id # d.id)'
  BY <1>3, <1>4, <1>7 DEF ChunksSound
<1>11. InOrder'
  BY <1>4 DEF ChunksSound, InOrder
<1> QED BY <1>8, <1>9, <1>10, <1>11 DEF ChunksSound

\* Steps that leave every chunk where it is.
LEMMA QuietSound ==
    ASSUME IInv, TypeOK',
           \/ WalkStep
           \/ \E w \in Workers : WorkerInit(w) \/ Lock(w) \/ Empty(w) \/ Count(w)
           \/ Resume \/ Finish \/ Join
    PROVE  ChunksSound'
<1>1. CASE WalkStep
  <2>1. /\ source' = source /\ claimed' = claimed /\ emitted' = emitted
        /\ done' = done /\ writer' = writer /\ worker' = worker
    BY <1>1 DEF WalkStep, WalkOn, WalkSend, WalkSendFails
  <2>2. Taking' = Taking /\ Working' = Working
    BY <2>1 DEF Taking, Working
  <2> QED BY <2>1, <2>2, SameChunks
<1>2. ASSUME NEW w \in Workers, WorkerInit(w) \/ Lock(w) \/ Empty(w)
      PROVE  ChunksSound'
  <2>1. PICK pc \in {"claim", "dead", "receive", "count"} :
          /\ Go(w, pc)
          /\ worker[w].pc \in {"lock", "receive"} <=> pc = "receive"
          /\ worker[w].pc # "work"
    BY <1>2 DEF WorkerInit, Lock, Empty
  <2>2. /\ source'.next = source.next /\ claimed' = claimed /\ emitted' = emitted
        /\ done' = done /\ writer' = writer
    BY <1>2 DEF WorkerInit, Lock, Empty, IInv, TypeOK
  <2>3. Taking' = Taking /\ Working' = Working
    BY <2>1, GoType DEF Taking, Working, IInv
  <2>4. \A v \in Working : worker'[v].id = worker[v].id /\ worker'[v].part = worker[v].part
    BY <2>1, GoType DEF Working, IInv
  <2>5. /\ writer'.c = writer.c /\ writer'.part = writer.part /\ writer'.pc = writer.pc
    BY <2>2
  <2> QED BY <2>2, <2>3, <2>4, <2>5, SameChunks
<1>3. ASSUME NEW w \in Workers, Count(w)
      PROVE  ChunksSound'
  <2>1. /\ worker[w].pc = "count" /\ worker'[w].pc = "exit"
        /\ \A v \in Workers \ {w} : worker'[v] = RoomWoken[v]
    BY <1>3, Woken DEF Count, IInv, WorkerStates
  <2>2. Taking' = Taking /\ Working' = Working
    BY <2>1, Woken DEF Taking, Working, IInv
  <2>3. \A v \in Working : worker'[v].id = worker[v].id /\ worker'[v].part = worker[v].part
    BY <2>1, Woken DEF Working, IInv
  <2>4. /\ source'.next = source.next /\ claimed' = claimed /\ emitted' = emitted
        /\ done' = done /\ writer' = ReadyWoken
    BY <1>3 DEF Count
  <2>5. /\ writer'.c = writer.c /\ writer'.part = writer.part
        /\ \/ writer'.pc = writer.pc
           \/ /\ writer'.pc \notin {"emit", "advance"}
              /\ writer.pc # "advance"
    BY <2>4, Woken DEF IInv
  <2> QED BY <2>2, <2>3, <2>4, <2>5, SameChunks
<1>4. CASE Resume \/ Finish
  <2>1. /\ worker' = RoomWoken /\ source'.next = source.next
        /\ claimed' = claimed /\ emitted' = emitted /\ done' = done
    BY <1>4 DEF Resume, Finish
  <2>2. Taking' = Taking /\ Working' = Working
    BY <2>1, Woken DEF Taking, Working, IInv
  <2>3. \A v \in Working : worker'[v].id = worker[v].id /\ worker'[v].part = worker[v].part
    BY <2>1, Woken DEF Working, IInv
  <2>4. /\ writer'.c = writer.c /\ writer'.part = writer.part
        /\ writer'.pc = "join" /\ writer.pc # "advance"
    <3>1. PICK x : writer' = [writer EXCEPT !.pc = "join", !.result = x]
      BY <1>4 DEF Resume, Finish
    <3>2. writer \in WriterStates /\ writer.pc \in {"emit", "finish"}
      BY <1>4 DEF Resume, Finish, IInv, TypeOK
    <3> QED BY <3>1, <3>2 DEF WriterStates
  <2> QED BY <2>1, <2>2, <2>3, <2>4, SameChunks
<1>5. CASE Join
  <2>1. /\ writer'.c = writer.c /\ writer'.part = writer.part
        /\ writer'.pc = "returned" /\ writer.pc # "advance"
    BY <1>5 DEF Join, IInv, TypeOK, WriterStates
  <2> QED BY <1>5, <2>1, SameChunks DEF Join, Taking, Working
<1> QED BY <1>1, <1>2, <1>3, <1>4, <1>5

LEMMA TakingFinite ==
    IsFiniteSet(Taking) /\ Cardinality(Taking) \in Nat
<1>1. Taking \in SUBSET Workers
  BY DEF Taking
<1> QED BY <1>1, WorkersAssumption, FS_Subset, FS_CardinalityType

\* A claim counts the chunk its worker is about to take.
LEMMA ClaimSound ==
    ASSUME IInv, TypeOK', NEW w \in Workers, Claim(w)
    PROVE  ChunksSound'
<1>1. /\ source' = source /\ emitted' = emitted /\ done' = done /\ writer' = writer
      /\ worker[w].pc = "claim"
  BY DEF Claim
<1>2. PICK pc \in {"exit", "room", "lock"} :
        /\ Go(w, pc)
        /\ pc # "lock" => claimed' = claimed
        /\ pc = "lock" => Room /\ claimed' = claimed + 1
  BY DEF Claim
<1>3. worker'[w].pc = pc /\ \A v \in Workers \ {w} : worker'[v] = worker[v]
  BY <1>2, GoType DEF IInv
<1>4. Working' = Working /\ \A v \in Working : worker'[v] = worker[v]
  BY <1>1, <1>2, <1>3 DEF Working
<1>5. CASE pc # "lock"
  <2>1. Taking' = Taking
    BY <1>1, <1>2, <1>3, <1>5 DEF Taking
  <2>2. \A v \in Working : worker'[v].id = worker[v].id /\ worker'[v].part = worker[v].part
    BY <1>4
  <2> QED BY <1>1, <1>2, <1>4, <1>5, <2>1, <2>2, SameChunks
<1>6. CASE pc = "lock"
  <2>1. Taking' = Taking \cup {w} /\ w \notin Taking
    BY <1>1, <1>3, <1>6 DEF Taking
  <2>2. Cardinality(Taking') = Cardinality(Taking) + 1
    BY <2>1, TakingFinite, FS_AddElement
  <2>3. (source.next + Cardinality(Taking) <= claimed)'
    BY <1>1, <1>2, <1>6, <2>2, TakingFinite DEF IInv, ChunksSound, TypeOK
  <2>4. (claimed <= emitted + Ahead)'
    BY <1>1, <1>2, <1>6, AheadType DEF IInv, TypeOK, Room
  <2>5. Unwritten' = Unwritten
    BY <1>1 DEF Unwritten
  <2>6. \A v \in Working' : worker'[v] = worker[v]
    BY <1>4
  <2> QED BY <1>1, <1>4, <2>3, <2>4, <2>5, <2>6 DEF IInv, ChunksSound, InOrder
<1> QED BY <1>5, <1>6

\* A chunk is numbered and taken while the source is held.
LEMMA ReceiveSound ==
    ASSUME IInv, TypeOK', NEW w \in Workers, Receive(w)
    PROVE  ChunksSound'
<1>1. /\ claimed' = claimed /\ emitted' = emitted /\ done' = done /\ writer' = writer
      /\ worker[w].pc = "receive"
  BY DEF Receive
<1>2. /\ source.next \in Nat /\ claimed \in Nat /\ emitted \in Nat
      /\ w \in Taking /\ w \notin Working
  BY <1>1 DEF IInv, TypeOK, Taking, Working
<1>3. Cardinality(Taking \ {w}) = Cardinality(Taking) - 1
  BY <1>2, TakingFinite, FS_RemoveElement
<1>4. Unwritten' = Unwritten /\ Unwritten \in Nat /\ Unwritten <= source.next
  BY <1>1 DEF Unwritten, IInv, TypeOK, WriterStates, ChunksSound
<1>5. /\ (claimed <= emitted + Ahead)'
      /\ (writer.c = IF writer.pc = "advance" THEN emitted + 1 ELSE emitted)'
      /\ InOrder'
  BY <1>1 DEF IInv, ChunksSound, InOrder, Ahead
<1>6. /\ \A v \in Working : worker[v].id \in Nat
      /\ \A d \in done : d.id \in Nat
  BY DEF IInv, TypeOK, WorkerStates, Working
<1>7. CASE /\ source' = [holder |-> NoWorker, next |-> source.next + 1]
           /\ worker' = [worker EXCEPT ![w] = [pc |-> "work", part |-> source.next,
                                               id |-> source.next]]
  <2>1. /\ source'.next = source.next + 1
        /\ worker'[w] = [pc |-> "work", part |-> source.next, id |-> source.next]
        /\ \A v \in Workers \ {w} : worker'[v] = worker[v]
    BY <1>7 DEF IInv, TypeOK
  <2>2. Taking' = Taking \ {w} /\ Working' = Working \cup {w}
    BY <2>1 DEF Taking, Working
  <2>3. /\ (source.next + Cardinality(Taking) <= claimed)'
        /\ (Unwritten <= source.next)'
    BY <1>1, <1>2, <1>3, <1>4, <2>1, <2>2, TakingFinite DEF IInv, ChunksSound
  <2>4. \A v \in Working : worker'[v] = worker[v] /\ worker[v].id # source.next
    BY <1>2, <1>6, <2>1 DEF Working, IInv, ChunksSound
  <2>5. \A d \in done : d.id # source.next
    BY <1>2, <1>6 DEF IInv, ChunksSound
  <2>6. \A i \in Nat : i \in Unwritten .. source.next - 1
                          => i \in Unwritten' .. source'.next - 1
    BY <1>2, <1>4, <2>1
  <2>7. source.next \in Unwritten' .. source'.next - 1
    BY <1>2, <1>4, <2>1
  <2>8. ASSUME NEW v \in Working'
        PROVE  (/\ worker[v].id \in Unwritten .. source.next - 1
                /\ worker[v].part = worker[v].id
                /\ \A u \in Working \ {v} : worker[u].id # worker[v].id
                /\ \A d \in done : d.id # worker[v].id)'
    <3>1. CASE v = w
      BY <1>1, <2>1, <2>2, <2>4, <2>5, <2>7, <3>1
    <3>2. CASE v # w
      <4>1. v \in Working /\ worker'[v] = worker[v]
        BY <2>2, <2>4, <3>2
      <4>2. worker'[w].id = source.next
        BY <2>1
      <4> QED BY <1>1, <1>6, <2>2, <2>4, <2>6, <4>1, <4>2 DEF IInv, ChunksSound
    <3> QED BY <3>1, <3>2
  <2>9. (\A d \in done :
          /\ d.id \in Unwritten .. source.next - 1
          /\ d.part = d.id
          /\ \A e \in done \ {d} : e.id # d.id)'
    BY <1>1, <1>6, <2>6 DEF IInv, ChunksSound
  <2> QED BY <1>5, <2>3, <2>8, <2>9 DEF ChunksSound
<1>8. CASE source' = [source EXCEPT !.holder = NoWorker] /\ Go(w, "empty")
  <2>1. /\ source'.next = source.next
        /\ worker'[w].pc = "empty" /\ \A v \in Workers \ {w} : worker'[v] = worker[v]
    BY <1>8, GoType DEF IInv, TypeOK
  <2>2. Taking' = Taking \ {w} /\ Working' = Working
    BY <2>1, <1>2 DEF Taking, Working
  <2>3. /\ (source.next + Cardinality(Taking) <= claimed)'
        /\ (Unwritten <= source.next)'
    BY <1>1, <1>2, <1>3, <1>4, <2>1, <2>2, TakingFinite DEF IInv, ChunksSound
  <2>4. \A v \in Working : worker'[v] = worker[v]
    BY <1>2, <2>1 DEF Working
  <2> QED BY <1>1, <1>4, <1>5, <2>1, <2>2, <2>3, <2>4 DEF IInv, ChunksSound
<1> QED BY <1>7, <1>8 DEF Receive

\* A worker hands its outcome to `done` under its own chunk's number.
LEMMA PutSound ==
    ASSUME IInv, TypeOK', NEW w \in Workers, Put(w)
    PROVE  ChunksSound'
<1>1. /\ source' = source /\ claimed' = claimed /\ emitted' = emitted
      /\ worker[w].pc = "work" /\ Go(w, "claim")
  BY DEF Put
<1>2. PICK ok \in BOOLEAN :
        done' = done \cup {[id |-> worker[w].id, part |-> worker[w].part, ok |-> ok]}
  BY DEF Put, Number
<1> DEFINE new == [id |-> worker[w].id, part |-> worker[w].part, ok |-> ok]
<1>3. /\ writer'.c = writer.c /\ writer'.part = writer.part
      /\ \/ writer'.pc = writer.pc
         \/ writer.pc = "ready" /\ writer'.pc = "look"
  BY Woken DEF Put, IInv
<1>4. Unwritten' = Unwritten
  BY <1>3 DEF Unwritten
<1>5. worker'[w].pc = "claim" /\ \A v \in Workers \ {w} : worker'[v] = worker[v]
  BY <1>1, GoType DEF IInv
<1>6. Taking' = Taking /\ Working' = Working \ {w} /\ w \in Working
  BY <1>1, <1>5 DEF Taking, Working
<1>7. \A v \in Working' : worker'[v] = worker[v] /\ v \in Working /\ v # w
  BY <1>5, <1>6 DEF Working
<1>8. /\ (source.next + Cardinality(Taking) <= claimed)'
      /\ (claimed <= emitted + Ahead)'
      /\ (Unwritten <= source.next)'
  BY <1>1, <1>4, <1>6 DEF IInv, ChunksSound, Ahead
<1>9. (writer.c = IF writer.pc = "advance" THEN emitted + 1 ELSE emitted)' /\ InOrder'
  BY <1>1, <1>3 DEF IInv, ChunksSound, InOrder
<1>10. /\ new.id \in Unwritten .. source.next - 1 /\ new.part = new.id
       /\ \A d \in done : d.id # new.id
       /\ \A v \in Working' : worker'[v].id # new.id
  BY <1>6, <1>7 DEF IInv, ChunksSound
<1>11. done' = done \cup {new}
  BY <1>2
<1> HIDE DEF new
<1>12. ASSUME NEW v \in Working'
       PROVE  (/\ worker[v].id \in Unwritten .. source.next - 1
               /\ worker[v].part = worker[v].id
               /\ \A u \in Working \ {v} : worker[u].id # worker[v].id
               /\ \A d \in done : d.id # worker[v].id)'
  <2>1. worker'[v] = worker[v] /\ v \in Working
    BY <1>7
  <2> QED BY <1>1, <1>4, <1>7, <1>10, <1>11, <2>1 DEF IInv, ChunksSound
<1>13. ASSUME NEW d \in done'
       PROVE  (/\ d.id \in Unwritten .. source.next - 1
               /\ d.part = d.id
               /\ \A e \in done \ {d} : e.id # d.id)'
  BY <1>1, <1>4, <1>10, <1>11 DEF IInv, ChunksSound
<1> QED BY <1>8, <1>9, <1>12, <1>13 DEF ChunksSound

\* The writer takes the outcome of its own chunk, of which there is one.
LEMMA LookSound ==
    ASSUME IInv, TypeOK', Look
    PROVE  ChunksSound'
<1>1. /\ source' = source /\ claimed' = claimed /\ emitted' = emitted
      /\ worker' = worker /\ writer.pc = "look"
  BY DEF Look
<1>2. writer \in WriterStates /\ source.next \in Nat /\ writer.c \in Nat
  BY DEF IInv, TypeOK, WriterStates
<1>3. Taking' = Taking /\ Working' = Working
  BY <1>1 DEF Taking, Working
<1>4. CASE \E d \in done : /\ d.id = writer.c
                           /\ done' = done \ {d}
                           /\ writer' = [writer EXCEPT !.pc = "emit", !.part = d.part,
                                                       !.ok = d.ok]
  <2>1. PICK d \in done : /\ d.id = writer.c
                          /\ done' = done \ {d}
                          /\ writer' = [writer EXCEPT !.pc = "emit", !.part = d.part,
                                                      !.ok = d.ok]
    BY <1>4
  <2>2. writer'.pc = "emit" /\ writer'.c = writer.c /\ writer'.part = d.part
    BY <1>2, <2>1 DEF WriterStates
  <2>3. Unwritten = writer.c /\ Unwritten' = writer.c + 1
    BY <1>1, <2>2 DEF Unwritten
  <2>4. /\ d.id \in Unwritten .. source.next - 1 /\ d.part = d.id
        /\ \A e \in done \ {d} : e.id # d.id
        /\ \A v \in Working : worker[v].id # d.id
    BY DEF IInv, ChunksSound
  <2>5. \A i \in Nat : i \in Unwritten .. source.next - 1 /\ i # d.id
                          => i \in Unwritten' .. source.next - 1
    BY <1>2, <2>1, <2>3
  <2>6. /\ (source.next + Cardinality(Taking) <= claimed)'
        /\ (claimed <= emitted + Ahead)'
        /\ (writer.c = IF writer.pc = "advance" THEN emitted + 1 ELSE emitted)'
        /\ InOrder'
    BY <1>1, <1>3, <2>1, <2>2, <2>4 DEF IInv, ChunksSound, Ahead, InOrder
  <2>7. (Unwritten <= source.next)'
    BY <1>1, <1>2, <2>1, <2>3, <2>4
  <2>8. (\A w \in Working :
          /\ worker[w].id \in Unwritten .. source.next - 1
          /\ worker[w].part = worker[w].id
          /\ \A v \in Working \ {w} : worker[v].id # worker[w].id
          /\ \A e \in done : e.id # worker[w].id)'
    <3>1. \A w \in Working : worker[w].id \in Nat
      BY DEF IInv, TypeOK, WorkerStates, Working
    <3> QED BY <1>1, <1>3, <2>1, <2>4, <2>5, <3>1 DEF IInv, ChunksSound
  <2>9. (\A e \in done :
          /\ e.id \in Unwritten .. source.next - 1
          /\ e.part = e.id
          /\ \A f \in done \ {e} : f.id # e.id)'
    <3>1. \A e \in done : e.id \in Nat
      BY DEF IInv, TypeOK
    <3> QED BY <1>1, <2>1, <2>4, <2>5, <3>1 DEF IInv, ChunksSound
  <2> QED BY <2>6, <2>7, <2>8, <2>9 DEF ChunksSound
<1>5. CASE \E pc \in {"finish", "ready"} : /\ writer' = [writer EXCEPT !.pc = pc]
                                           /\ done' = done
  <2>1. PICK pc \in {"finish", "ready"} : writer' = [writer EXCEPT !.pc = pc]
    BY <1>5
  <2>2. /\ writer'.pc \notin {"emit", "advance"}
        /\ writer'.c = writer.c /\ writer'.part = writer.part
    BY <1>2, <2>1 DEF WriterStates
  <2> QED BY <1>1, <1>3, <1>5, <2>2, SameChunks
<1> QED BY <1>4, <1>5 DEF Look

\* The writer is past its chunk whether it is emitted or fails.
LEMMA EmitSound ==
    ASSUME IInv, TypeOK', Emit
    PROVE  ChunksSound'
<1>1. /\ source' = source /\ claimed' = claimed /\ emitted' = emitted
      /\ worker' = worker /\ done' = done /\ writer.pc = "emit"
  BY DEF Emit
<1>2. writer \in WriterStates /\ writer.c \in Nat
  BY DEF IInv, TypeOK, WriterStates
<1>3. Taking' = Taking /\ Working' = Working
  BY <1>1 DEF Taking, Working
<1>4. CASE writer' = [writer EXCEPT !.pc = "advance", !.c = @ + 1]
  <2>1. writer'.pc = "advance" /\ writer'.c = writer.c + 1
    BY <1>2, <1>4 DEF WriterStates
  <2>2. Unwritten' = Unwritten
    BY <1>1, <2>1 DEF Unwritten
  <2>3. (writer.c = IF writer.pc = "advance" THEN emitted + 1 ELSE emitted)' /\ InOrder'
    BY <1>1, <2>1 DEF IInv, ChunksSound, InOrder
  <2> QED BY <1>1, <1>3, <2>2, <2>3 DEF IInv, ChunksSound, Ahead
<1>5. CASE \E pc \in {"finish", "join"}, r \in {"error", "panic"} :
              writer' = [writer EXCEPT !.pc = pc, !.result = r]
  <2>1. /\ writer'.pc \notin {"emit", "advance"}
        /\ writer'.c = writer.c /\ writer'.part = writer.part
    BY <1>2, <1>5 DEF WriterStates
  <2> QED BY <1>1, <1>3, <2>1, SameChunks
<1> QED BY <1>4, <1>5 DEF Emit

\* What is emitted makes room for as many chunks.
LEMMA AdvanceSound ==
    ASSUME IInv, TypeOK', Advance
    PROVE  ChunksSound'
<1>1. /\ source' = source /\ claimed' = claimed /\ emitted' = writer.c
      /\ done' = done /\ worker' = RoomWoken /\ writer.pc = "advance"
  BY DEF Advance
<1>2. /\ writer \in WriterStates /\ writer.c = emitted + 1
      /\ emitted \in Nat /\ claimed \in Nat
  BY <1>1 DEF IInv, TypeOK, ChunksSound
<1>3. writer'.pc = "look" /\ writer'.c = writer.c
  BY <1>2 DEF Advance, WriterStates
<1>4. Unwritten' = Unwritten
  BY <1>1, <1>3 DEF Unwritten
<1>5. Taking' = Taking /\ Working' = Working
  BY <1>1, Woken DEF Taking, Working, IInv
<1>6. \A v \in Working : worker'[v].id = worker[v].id /\ worker'[v].part = worker[v].part
  BY <1>1, Woken DEF Working, IInv
<1>7. (claimed <= emitted + Ahead)'
  BY <1>1, <1>2, AheadType DEF IInv, ChunksSound, Ahead
<1>8. /\ (writer.c = IF writer.pc = "advance" THEN emitted + 1 ELSE emitted)'
      /\ InOrder'
      /\ (source.next + Cardinality(Taking) <= claimed)'
      /\ (Unwritten <= source.next)'
  BY <1>1, <1>3, <1>4, <1>5 DEF InOrder, IInv, ChunksSound
<1>9. (\A w \in Working :
          /\ worker[w].id \in Unwritten .. source.next - 1
          /\ worker[w].part = worker[w].id
          /\ \A v \in Working \ {w} : worker[v].id # worker[w].id
          /\ \A d \in done : d.id # worker[w].id)'
  BY <1>1, <1>4, <1>5, <1>6 DEF IInv, ChunksSound
<1> QED BY <1>1, <1>4, <1>7, <1>8, <1>9 DEF IInv, ChunksSound

LEMMA InitSound == Init => ChunksSound
<1> SUFFICES ASSUME Init PROVE ChunksSound
  OBVIOUS
<1>1. Taking = {} /\ Working = {} /\ Unwritten = 0
  BY DEF Init, Taking, Working, Unwritten
<1>2. Cardinality(Taking) = 0
  BY <1>1, FS_EmptySet
<1> QED BY <1>1, <1>2, AheadType DEF Init, ChunksSound, InOrder

LEMMA IInvInductive == IInv /\ [Next]_vars => IInv'
<1> SUFFICES ASSUME IInv, [Next]_vars PROVE IInv'
  OBVIOUS
<1>1. CASE UNCHANGED vars
  BY <1>1 DEF vars, IInv, TypeOK, ChunksSound, InOrder, Taking, Working, Unwritten, Ahead
<1>2. CASE Next
  <2>1. TypeOK'
    BY <1>2, WalkType, WorkerType, WriterType DEF Next, IInv
  <2>2. ChunksSound'
    BY <1>2, <2>1, QuietSound, ClaimSound, ReceiveSound, PutSound, LookSound,
       EmitSound, AdvanceSound
    DEF Next, WorkerStep, WriterStep
  <2> QED BY <2>1, <2>2 DEF IInv
<1> QED BY <1>1, <1>2

\* Claims cover the chunks taken, and each chunk the writer has not reached is
\* with one worker or in `done` once, under its own number.
THEOREM ChunksAreSound == Spec => []ChunksSound
<1>1. Init => IInv
  BY InitTypeOK, InitSound DEF IInv
<1>2. IInv => ChunksSound
  BY DEF IInv
<1> QED BY <1>1, <1>2, IInvInductive, PTL DEF Spec

\* The writer emits the walk's batches in their order, each exactly once.
THEOREM EmittedInOrder == Spec => []InOrder
<1>1. ChunksSound => InOrder
  BY DEF ChunksSound
<1> QED BY <1>1, ChunksAreSound, PTL

\* However slow the writer, the workers are at most Ahead chunks past it.
THEOREM LeadIsBounded == Spec => []BoundedLead
<1>1. IInv => BoundedLead
  <2> SUFFICES ASSUME IInv PROVE BoundedLead
    OBVIOUS
  <2>1. /\ source.next \in Nat /\ claimed \in Nat /\ emitted \in Nat
        /\ \A d \in done : d.id \in Nat
    BY DEF IInv, TypeOK
  <2>2. source.next <= emitted + Ahead
    BY <2>1, TakingFinite, AheadType DEF IInv, ChunksSound
  <2>3. Unwritten \in Nat /\ emitted <= Unwritten
    BY <2>1 DEF Unwritten, IInv, TypeOK, WriterStates, ChunksSound
  <2>4. \A d \in done : d.id \in Unwritten .. source.next - 1
    BY DEF IInv, ChunksSound
  <2> QED BY <2>1, <2>2, <2>3, <2>4, AheadType DEF BoundedLead
<1>2. Init => IInv
  BY InitTypeOK, InitSound DEF IInv
<1> QED BY <1>1, <1>2, IInvInductive, PTL DEF Spec


-----------------------------------------------------------------------------
(* Completeness: who sees the source empty sees the walk's end, and only a  *)
(* writer past the total ends with "ok"                                     *)

WalkEnded == walk.pc = "closed" /\ source.next = walk.sent
AllWritten == total # Unknown /\ writer.c = walk.sent

Counted ==
    /\ source.next <= walk.sent
    /\ \A w \in Workers : worker[w].pc \in {"empty", "count"} => WalkEnded
    /\ total # Unknown => WalkEnded /\ total = walk.sent
    /\ writer.pc \in {"look", "ready", "emit", "advance"} => writer.result = "none"
    /\ writer.pc = "finish" /\ writer.result = "none" => AllWritten
    /\ writer.result = "ok" => writer.pc \in {"join", "returned"} /\ AllWritten

\* Workers that move elsewhere, and a writer that is woken, change no count.
LEMMA SameCounts ==
    ASSUME IInv, Counted, UNCHANGED <<walk, total>>, source'.next = source.next,
           writer'.c = writer.c, writer'.result = writer.result,
           \/ writer'.pc = writer.pc
           \/ {writer.pc, writer'.pc} \subseteq {"look", "ready", "advance"},
           \A w \in Workers :
               worker'[w].pc \in {"empty", "count"} => worker[w].pc \in {"empty", "count"}
    PROVE  Counted'
BY DEF Counted, WalkEnded, AllWritten

LEMMA WalkCounts == ASSUME IInv, Counted, WalkStep PROVE Counted'
<1>1. UNCHANGED <<source, total, writer, worker>>
  BY DEF WalkStep, WalkOn, WalkSend, WalkSendFails
<1>2. walk.pc # "closed" /\ walk.sent \in Nat /\ source.next \in Nat
  BY DEF WalkStep, WalkOn, WalkSend, WalkSendFails, IInv, TypeOK
<1>3. walk'.sent = walk.sent \/ walk'.sent = walk.sent + 1
  BY DEF WalkStep, WalkOn, WalkSend, WalkSendFails, IInv, TypeOK
<1>4. /\ total = Unknown /\ ~(writer.pc = "finish" /\ writer.result = "none")
      /\ writer.result # "ok" /\ \A w \in Workers : worker[w].pc \notin {"empty", "count"}
  BY <1>2 DEF Counted, WalkEnded, AllWritten
<1>5. source'.next <= walk'.sent
  BY <1>1, <1>2, <1>3 DEF Counted
<1> QED BY <1>1, <1>4, <1>5 DEF Counted

LEMMA WorkerCounts ==
    ASSUME IInv, Counted, NEW w \in Workers, WorkerStep(w) PROVE Counted'
<1>1. ASSUME NEW pc \in {"claim", "dead", "exit", "room", "lock", "receive"}, Go(w, pc),
             UNCHANGED <<walk, total>>, source'.next = source.next,
             writer' = writer \/ writer' = ReadyWoken
      PROVE  Counted'
  <2>1. worker'[w].pc = pc /\ \A v \in Workers \ {w} : worker'[v] = worker[v]
    BY <1>1, GoType DEF IInv
  <2>2. /\ writer'.c = writer.c /\ writer'.result = writer.result
        /\ \/ writer'.pc = writer.pc
           \/ {writer.pc, writer'.pc} \subseteq {"look", "ready", "advance"}
    BY <1>1 DEF ReadyWoken, IInv, TypeOK, WriterStates
  <2> QED BY <1>1, <2>1, <2>2, SameCounts
<1>2. CASE WorkerInit(w) \/ Claim(w)
  BY <1>1, <1>2 DEF WorkerInit, Claim
<1>3. CASE Lock(w)
  BY <1>1, <1>3 DEF Lock, IInv, TypeOK
<1>4. CASE Put(w)
  BY <1>1, <1>4 DEF Put
<1>5. CASE Receive(w)
  <2>0. UNCHANGED <<walk, total, writer>> /\ source.next \in Nat /\ walk.sent \in Nat
    BY <1>5 DEF Receive, IInv, TypeOK
  <2>1. CASE /\ source.next < walk.sent
             /\ source' = [holder |-> NoWorker, next |-> source.next + 1]
             /\ worker' = [worker EXCEPT ![w] = [pc |-> "work", part |-> source.next,
                                                 id |-> source.next]]
    <3>1. /\ ~WalkEnded /\ source'.next <= walk'.sent
          /\ worker'[w].pc = "work" /\ \A v \in Workers \ {w} : worker'[v] = worker[v]
      BY <2>0, <2>1 DEF WalkEnded, IInv, TypeOK
    <3>2. total = Unknown /\ \A v \in Workers : worker'[v].pc \notin {"empty", "count"}
      BY <3>1 DEF Counted
    <3> QED BY <2>0, <3>1, <3>2 DEF Counted, AllWritten
  <2>2. CASE /\ source.next = walk.sent /\ walk.pc = "closed"
             /\ source' = [source EXCEPT !.holder = NoWorker]
             /\ Go(w, "empty")
    <3>1. WalkEnded /\ source'.next = source.next
      BY <2>2 DEF WalkEnded, IInv, TypeOK
    <3> QED BY <2>0, <3>1 DEF Counted, AllWritten, WalkEnded
  <2> QED BY <1>5, <2>1, <2>2 DEF Receive
<1>6. CASE Empty(w)
  <2>1. worker'[w].pc = "count" /\ \A v \in Workers \ {w} : worker'[v] = worker[v]
    BY <1>6, GoType DEF Empty, IInv
  <2> QED BY <1>6, <2>1, SameCounts DEF Empty
<1>7. CASE Count(w)
  <2>1. WalkEnded /\ total' = walk.sent /\ UNCHANGED <<walk, source>>
    BY <1>7 DEF Count, Counted, WalkEnded
  <2>2. walk.sent # Unknown
    BY DEF IInv, TypeOK, Unknown
  <2>3. WalkEnded'
    BY <2>1 DEF WalkEnded
  <2>4. /\ writer'.c = writer.c /\ writer'.result = writer.result
        /\ \/ writer'.pc = writer.pc
           \/ {writer.pc, writer'.pc} \subseteq {"look", "ready", "advance"}
    BY <1>7 DEF Count, ReadyWoken, IInv, TypeOK, WriterStates
  <2> QED BY <2>1, <2>2, <2>3, <2>4 DEF Counted, AllWritten
<1> QED BY <1>2, <1>3, <1>4, <1>5, <1>6, <1>7 DEF WorkerStep

LEMMA WriterCounts == ASSUME IInv, Counted, WriterStep PROVE Counted'
<1>0. /\ writer \in WriterStates /\ UNCHANGED <<walk, source, total>>
  BY DEF IInv, TypeOK, WriterStep, Look, Emit, Advance, Resume, Finish, Join
<1>1. \A w \in Workers :
          worker'[w].pc \in {"empty", "count"} => worker[w].pc \in {"empty", "count"}
  BY Woken DEF IInv, WriterStep, Look, Emit, Advance, Resume, Finish, Join
<1>2. /\ (source.next <= walk.sent)'
      /\ (\A w \in Workers : worker[w].pc \in {"empty", "count"} => WalkEnded)'
      /\ (total # Unknown => WalkEnded /\ total = walk.sent)'
  BY <1>0, <1>1 DEF Counted, WalkEnded
<1>3. CASE Look
  <2>1. /\ writer.pc = "look" /\ writer'.result = writer.result /\ writer'.c = writer.c
        /\ writer'.pc \in {"emit", "finish", "ready"} /\ (writer'.pc = "finish" => Exhausted)
    BY <1>0, <1>3 DEF Look, WriterStates
  <2>2. Exhausted => AllWritten
    <3>1. writer.c \in Nat /\ walk.sent \in Nat /\ writer.c <= source.next
      BY <1>0, <2>1 DEF IInv, TypeOK, ChunksSound, Unwritten, WriterStates
    <3> QED BY <3>1 DEF Exhausted, AllWritten, Counted, WalkEnded
  <2>3. writer.result = "none"
    BY <2>1 DEF Counted
  <2> QED BY <1>0, <1>2, <2>1, <2>2, <2>3 DEF Counted, AllWritten
<1>4. CASE Emit
  <2>1. writer.pc = "emit" /\ writer.result = "none"
    BY <1>4 DEF Emit, Counted
  <2>2. \/ writer'.pc = "advance" /\ writer'.result = "none"
        \/ writer'.pc \in {"finish", "join"} /\ writer'.result \in {"error", "panic"}
    BY <1>0, <1>4, <2>1 DEF Emit, WriterStates
  <2> QED BY <1>2, <2>2 DEF Counted
<1>5. CASE Advance \/ Resume
  <2>1. writer.pc \in {"advance", "emit"} /\ writer.result = "none"
    BY <1>5 DEF Advance, Resume, Counted
  <2>2. \/ writer'.pc = "look" /\ writer'.result = "none"
        \/ writer'.pc = "join" /\ writer'.result = "panic"
    BY <1>0, <1>5, <2>1 DEF Advance, Resume, WriterStates
  <2> QED BY <1>2, <2>2 DEF Counted
<1>6. CASE Finish
  <2>1. /\ writer.pc = "finish" /\ writer'.pc = "join" /\ writer'.c = writer.c
        /\ writer'.result = IF writer.result = "none" THEN "ok" ELSE writer.result
    BY <1>0, <1>6 DEF Finish, WriterStates
  <2>2. writer.result # "ok"
    BY <2>1 DEF Counted
  <2> QED BY <1>0, <1>2, <2>1, <2>2 DEF Counted, AllWritten
<1>7. CASE Join
  <2>1. /\ writer.pc = "join" /\ writer'.pc = "returned" /\ writer'.c = writer.c
        /\ writer'.result \in {"panic", writer.result}
    BY <1>0, <1>7 DEF Join, WriterStates
  <2> QED BY <1>0, <1>2, <2>1 DEF Counted, AllWritten
<1> QED BY <1>3, <1>4, <1>5, <1>6, <1>7 DEF WriterStep

\* A streamed answer that ends well has every batch the walk found
\* (`ordered::run`, whose workers count the source only once it is empty).
THEOREM OkMeansComplete == Spec => []OkIsComplete
<1>1. Init => IInv /\ Counted
  <2>1. Init => Counted
    BY DEF Init, Counted
  <2> QED BY <2>1, InitTypeOK, InitSound DEF IInv
<1>2. (IInv /\ Counted) /\ [Next]_vars => (IInv /\ Counted)'
  <2> SUFFICES ASSUME IInv, Counted, [Next]_vars PROVE IInv' /\ Counted'
    OBVIOUS
  <2>1. CASE UNCHANGED vars
    BY <2>1, IInvInductive DEF vars, Counted, WalkEnded, AllWritten
  <2> QED BY <2>1, IInvInductive, WalkCounts, WorkerCounts, WriterCounts DEF Next
<1>3. IInv /\ Counted => OkIsComplete
  BY DEF Counted, AllWritten, WalkEnded, OkIsComplete
<1> QED BY <1>1, <1>2, <1>3, PTL DEF Spec

=============================================================================
