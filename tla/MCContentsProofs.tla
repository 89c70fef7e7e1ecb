--------------------------- MODULE MCContentsProofs ---------------------------
(***************************************************************************)
(* Proofs about MCContents: of the parses, that no share of the budget is  *)
(* lost or lent twice; of the grams, that spilling and merging give the    *)
(* index a build in memory gives, and that no chunk holds its share.       *)
(***************************************************************************)
EXTENDS MCContents, FiniteSetTheorems, SequenceTheorems, WellFoundedInduction, TLAPS

-----------------------------------------------------------------------------
(* Sums over finite sets.  MapThenSumSet takes its elements in an order of  *)
(* its own, and recurs; that the recursion has a solution, and that the sum *)
(* does not depend on the order, are inductions on how large the set is.    *)

LEMMA LeastNumber ==
    ASSUME NEW T \in SUBSET Nat, T # {}
    PROVE  \E x \in T : \A y \in T : x <= y
<1> DEFINE R == OpToRel(<, Nat)
<1>1. PICK x \in T : \A y \in T : ~ (<<y, x>> \in R)
  BY NatLessThanWellFounded, WFMin
<1>2. \A y \in T : ~ (y < x)
  BY <1>1 DEF OpToRel
<1> QED BY <1>2

Pick(T) == CHOOSE x \in T : TRUE

\* `it` sums g over the subsets of S that have at most n elements.
Small(S, n) == {T \in SUBSET S : Cardinality(T) <= n}
SumsTo(S, g, n, it) ==
    it = [T \in Small(S, n) |-> IF T = {} THEN 0 ELSE g[Pick(T)] + it[T \ {Pick(T)}]]

Sums(S, g, it) ==
    it = [T \in SUBSET S |-> IF T = {} THEN 0 ELSE g[Pick(T)] + it[T \ {Pick(T)}]]
Sum(S, g) == (CHOOSE it : Sums(S, g, it))[S]

LEMMA PickRemoved ==
    ASSUME NEW S, IsFiniteSet(S), NEW T \in SUBSET S, T # {}
    PROVE  /\ Pick(T) \in T /\ IsFiniteSet(T) /\ Cardinality(T) \in Nat \ {0}
           /\ \A x \in T : /\ T \ {x} \in SUBSET S /\ Cardinality(T \ {x}) \in Nat
                          /\ Cardinality(T \ {x}) = Cardinality(T) - 1
                          /\ Cardinality(T \ {x}) < Cardinality(T)
<1>1. IsFiniteSet(T) /\ Cardinality(T) \in Nat
  BY FS_Subset, FS_CardinalityType
<1>2. Cardinality(T) # 0
  BY <1>1, FS_EmptySet
<1>3. \A x \in T : Cardinality(T \ {x}) = Cardinality(T) - 1
  BY <1>1, FS_RemoveElement
<1>4. \A x \in T : T \ {x} \in SUBSET S
  OBVIOUS
<1>5. Pick(T) \in T
  BY DEF Pick
<1> QED BY <1>1, <1>2, <1>3, <1>4, <1>5

LEMMA SumsExist ==
    ASSUME NEW S, IsFiniteSet(S), NEW g
    PROVE  \E it : Sums(S, g, it)
<1> DEFINE Bad == {n \in Nat : \A it : ~ SumsTo(S, g, n, it)}
<1>1. SUFFICES ASSUME Bad # {} PROVE FALSE
  <2>1. Cardinality(S) \in Nat /\ Cardinality(S) \notin Bad
    BY <1>1, FS_CardinalityType
  <2>2. PICK it : SumsTo(S, g, Cardinality(S), it)
    BY <2>1
  <2>3. Small(S, Cardinality(S)) = SUBSET S
    BY FS_Subset DEF Small
  <2> QED BY <2>2, <2>3 DEF SumsTo, Sums
<1>2. PICK m \in Bad : \A k \in Bad : m <= k
  BY <1>1, LeastNumber
<1>3. m # 0
  <2>1. SUFFICES ASSUME m = 0 PROVE FALSE
    OBVIOUS
  <2> DEFINE it == [T \in Small(S, 0) |-> 0]
  <2>2. \A T \in Small(S, 0) : T = {}
    BY PickRemoved DEF Small
  <2>3. SumsTo(S, g, 0, it)
    BY <2>2 DEF SumsTo
  <2> QED BY <2>1, <2>3
<1>4. PICK it : SumsTo(S, g, m - 1, it)
  <2>1. m - 1 \in Nat /\ m - 1 \notin Bad
    BY <1>2, <1>3
  <2> QED BY <2>1
<1> DEFINE new == [T \in Small(S, m) |-> IF T = {} THEN 0 ELSE g[Pick(T)] + it[T \ {Pick(T)}]]
<1>5. ASSUME NEW T \in Small(S, m), T # {}
      PROVE  T \ {Pick(T)} \in Small(S, m - 1) /\ T \ {Pick(T)} \in Small(S, m)
  BY <1>5, PickRemoved DEF Small
<1>6. ASSUME NEW U \in Small(S, m - 1), U \in Small(S, m) PROVE new[U] = it[U]
  BY <1>4, <1>6 DEF SumsTo
<1>7. \A T \in Small(S, m) : T # {} => it[T \ {Pick(T)}] = new[T \ {Pick(T)}]
  BY <1>5, <1>6
<1>8. SumsTo(S, g, m, new)
  <2> DEFINE again == [T \in Small(S, m) |-> IF T = {} THEN 0 ELSE g[Pick(T)] + new[T \ {Pick(T)}]]
  <2> HIDE DEF new
  <2>1. new = [T \in Small(S, m) |-> IF T = {} THEN 0 ELSE g[Pick(T)] + it[T \ {Pick(T)}]]
    BY DEF new
  <2>2. \A T \in Small(S, m) : new[T] = again[T]
    BY <2>1, <1>7
  <2> QED BY <2>1, <2>2 DEF SumsTo
<1> QED BY <1>8, <1>2

\* A sum is a number, may leave out any element first, and depends on what the
\* elements count for alone.
SumIs(S, g, it) ==
    /\ Sums(S, g, it) /\ it \in [SUBSET S -> Nat] /\ it[{}] = 0
    /\ \A T \in SUBSET S : \A x \in T : it[T] = g[x] + it[T \ {x}]

LEMMA SumsAreSums ==
    ASSUME NEW S, IsFiniteSet(S), NEW g \in [S -> Nat], NEW it, Sums(S, g, it)
    PROVE  SumIs(S, g, it)
<1> DEFINE Fine(T) == it[T] \in Nat /\ \A x \in T : it[T] = g[x] + it[T \ {x}]
           Bad == {n \in Nat : \E T \in SUBSET S : Cardinality(T) = n /\ ~ Fine(T)}
<1>0. \A T \in SUBSET S : it[T] = IF T = {} THEN 0 ELSE g[Pick(T)] + it[T \ {Pick(T)}]
  BY DEF Sums
<1>1. SUFFICES ASSUME Bad # {} PROVE FALSE
  <2>1. ASSUME NEW T \in SUBSET S PROVE Fine(T)
    <3>1. Cardinality(T) \in Nat
      BY FS_Subset, FS_CardinalityType
    <3> QED BY <3>1, <1>1
  <2>2. it = [T \in SUBSET S |-> it[T]]
    BY DEF Sums
  <2>3. it \in [SUBSET S -> Nat]
    BY <2>1, <2>2
  <2>4. it[{}] = 0
    BY <1>0
  <2> QED BY <2>1, <2>3, <2>4 DEF SumIs
<1>2. PICK n \in Bad : \A k \in Bad : n <= k
  BY <1>1, LeastNumber
<1>3. PICK T \in SUBSET S : Cardinality(T) = n /\ ~ Fine(T)
  OBVIOUS
<1>4. T # {}
  BY <1>0, <1>3
<1>5. ASSUME NEW U \in SUBSET S, Cardinality(U) \in Nat, Cardinality(U) < Cardinality(T) PROVE Fine(U)
  <2>1. Cardinality(U) \notin Bad
    BY <1>2, <1>3, <1>5
  <2> QED BY <2>1, <1>5
<1> DEFINE p == Pick(T)
<1>6. /\ p \in T /\ \A x \in T : /\ T \ {x} \in SUBSET S /\ Cardinality(T \ {x}) \in Nat
                                 /\ Cardinality(T \ {x}) < Cardinality(T)
  <2> HIDE DEF Fine, Bad
  <2> QED BY PickRemoved, <1>4
<1>7. \A x \in T : Fine(T \ {x})
  BY <1>5, <1>6
<1>8. it[T] = g[p] + it[T \ {p}]
  BY <1>0, <1>4
<1> HIDE DEF p, Bad
<1>9. ASSUME NEW x \in T, x # p PROVE it[T] = g[x] + it[T \ {x}]
  <2> DEFINE rest == T \ {x, p}
  <2>1. (T \ {p}) \ {x} = rest /\ (T \ {x}) \ {p} = rest
    OBVIOUS
  <2>2. x \in T \ {p} /\ p \in T \ {x}
    BY <1>6, <1>9
  <2>3. it[T \ {p}] = g[x] + it[rest] /\ it[T \ {x}] = g[p] + it[rest]
    <3>1. Fine(T \ {p}) /\ Fine(T \ {x})
      BY <1>6, <1>7
    <3>2. it[T \ {p}] = g[x] + it[(T \ {p}) \ {x}] /\ it[T \ {x}] = g[p] + it[(T \ {x}) \ {p}]
      BY <3>1, <2>2
    <3> QED BY <3>2, <2>1
  <2>4. rest \in SUBSET S /\ Cardinality(rest) \in Nat /\ Cardinality(rest) < Cardinality(T)
    <3>1. T \ {x} # {} /\ T \ {x} \in SUBSET S
      BY <2>2
    <3>2. Cardinality((T \ {x}) \ {p}) = Cardinality(T \ {x}) - 1
      BY <3>1, <2>2, PickRemoved
    <3>3. rest \in SUBSET S /\ Cardinality(rest) \in Nat
      BY FS_Subset, FS_CardinalityType
    <3>4. /\ Cardinality(T \ {x}) \in Nat /\ Cardinality(T \ {x}) < Cardinality(T)
          /\ Cardinality(T) \in Nat /\ Cardinality(rest) = Cardinality(T \ {x}) - 1
      <4> HIDE DEF Fine
      <4> QED BY <2>1, <3>2, <1>6, PickRemoved, <1>4
    <3> HIDE DEF Fine, rest
    <3> QED BY <3>3, <3>4
  <2>5. it[rest] \in Nat
    BY <1>5, <2>4
  <2>6. g[x] \in Nat /\ g[p] \in Nat
    BY <1>6
  <2> HIDE DEF rest
  <2> QED BY <1>8, <2>3, <2>5, <2>6
<1>10. it[T] \in Nat
  <2>1. Fine(T \ {p}) /\ g[p] \in Nat
    BY <1>6, <1>7
  <2> QED BY <2>1, <1>8
<1>11. Fine(T)
  BY <1>8, <1>9, <1>10
<1> QED BY <1>3, <1>11

Agree(S, U, g, h, it, as) ==
    \A T \in SUBSET (S \cap U) : (\A x \in T : g[x] = h[x]) => it[T] = as[T]

LEMMA SumsAgree ==
    ASSUME NEW S, IsFiniteSet(S), NEW U, IsFiniteSet(U),
           NEW g, NEW h, NEW it, NEW as, SumIs(S, g, it), SumIs(U, h, as)
    PROVE  Agree(S, U, g, h, it, as)
<1> SUFFICES ASSUME NEW T \in SUBSET (S \cap U), \A x \in T : g[x] = h[x] PROVE it[T] = as[T]
  BY DEF Agree
<1>0. IsFiniteSet(T) /\ Cardinality(T) \in Nat
  BY FS_Subset, FS_CardinalityType
<1> DEFINE Bad == {n \in Nat : \E V \in SUBSET T : Cardinality(V) = n /\ it[V] # as[V]}
<1>1. SUFFICES ASSUME Bad # {} PROVE FALSE
  <2> QED BY <1>0, <1>1
<1>2. PICK n \in Bad : \A k \in Bad : n <= k
  BY <1>1, LeastNumber
<1>3. PICK V \in SUBSET T : Cardinality(V) = n /\ it[V] # as[V]
  OBVIOUS
<1>4. V # {}
  BY <1>3 DEF SumIs
<1>5. PICK x \in V : TRUE
  BY <1>4
<1>6. V \in SUBSET S /\ V \in SUBSET U
  OBVIOUS
<1>7. V \ {x} \in SUBSET T /\ Cardinality(V \ {x}) \in Nat /\ Cardinality(V \ {x}) < n
  <2> HIDE DEF Bad
  <2>1. V \ {x} \in SUBSET V
    OBVIOUS
  <2>2. Cardinality(V \ {x}) \in Nat /\ Cardinality(V \ {x}) < Cardinality(V)
    BY PickRemoved, <1>0, <1>4, <1>5
  <2> QED BY <2>1, <2>2, <1>3
<1>8. it[V \ {x}] = as[V \ {x}]
  <2>1. Cardinality(V \ {x}) \notin Bad
    <3> HIDE DEF Bad
    <3>1. n \in Nat
      BY <1>2 DEF Bad
    <3>2. ASSUME Cardinality(V \ {x}) \in Bad PROVE FALSE
      <4>1. n <= Cardinality(V \ {x})
        BY <1>2, <3>2
      <4> QED BY <3>1, <4>1, <1>7
    <3> QED BY <3>2
  <2> QED BY <2>1, <1>7
<1>9. it[V] = g[x] + it[V \ {x}] /\ as[V] = h[x] + as[V \ {x}]
  BY <1>5, <1>6 DEF SumIs
<1>10. g[x] = h[x]
  BY <1>5
<1> QED BY <1>3, <1>8, <1>9, <1>10

LEMMA SumOf ==
    ASSUME NEW S, IsFiniteSet(S), NEW g \in [S -> Nat]
    PROVE  \E it : SumIs(S, g, it) /\ Sum(S, g) = it[S]
<1> DEFINE f == CHOOSE it : Sums(S, g, it)
<1>1. Sums(S, g, f)
  BY SumsExist
<1>2. SumIs(S, g, f)
  BY <1>1, SumsAreSums
<1> QED BY <1>2 DEF Sum

LEMMA SumType ==
    ASSUME NEW S, IsFiniteSet(S), NEW g \in [S -> Nat]
    PROVE  Sum(S, g) \in Nat /\ (S = {} => Sum(S, g) = 0)
<1>1. PICK it : SumIs(S, g, it) /\ Sum(S, g) = it[S]
  BY SumOf
<1>2. S \in SUBSET S
  OBVIOUS
<1>3. it[S] \in Nat /\ it[{}] = 0
  BY <1>1, <1>2 DEF SumIs
<1> QED BY <1>1, <1>3

\* One element more, and what the others count for unchanged.
LEMMA SumMore ==
    ASSUME NEW S, IsFiniteSet(S), NEW g \in [S -> Nat], NEW x \in S,
           NEW U, U = S \ {x}, NEW h \in [U -> Nat], \A y \in U : h[y] = g[y]
    PROVE  Sum(S, g) = g[x] + Sum(U, h)
<1>0. IsFiniteSet(U)
  BY FS_Subset
<1>1. PICK it : SumIs(S, g, it) /\ Sum(S, g) = it[S]
  BY SumOf
<1>2. PICK as : SumIs(U, h, as) /\ Sum(U, h) = as[U]
  BY <1>0, SumOf
<1>3. it[U] = as[U]
  <2>1. Agree(S, U, g, h, it, as)
    BY <1>0, <1>1, <1>2, SumsAgree
  <2> QED BY <2>1 DEF Agree
<1>4. it[S] = g[x] + it[S \ {x}]
  <2>1. S \in SUBSET S
    OBVIOUS
  <2> QED BY <1>1, <2>1 DEF SumIs
<1> QED BY <1>1, <1>2, <1>3, <1>4

LEMMA SumSame ==
    ASSUME NEW S, IsFiniteSet(S), NEW g \in [S -> Nat], NEW h \in [S -> Nat], \A y \in S : h[y] = g[y]
    PROVE  Sum(S, g) = Sum(S, h)
<1>1. g = h
  OBVIOUS
<1> QED BY <1>1
-----------------------------------------------------------------------------
(* ParseBudget *)

\* What the threads of S hold, in the state th.
Lent(th, S) == P!MapThenSumSet(LAMBDA t : th[t].held, S)

LEMMA LentIsSum ==
    ASSUME NEW th, NEW S, IsFiniteSet(S), NEW g \in [S -> Nat], \A t \in S : g[t] = th[t].held
    PROVE  Lent(th, S) = Sum(S, g)
<1> DEFINE Eq(it) == it = [T \in SUBSET S |-> IF T = {} THEN 0
                                               ELSE th[Pick(T)].held + it[T \ {Pick(T)}]]
           f == CHOOSE it : Eq(it)
<1>1. Lent(th, S) = f[S]
  BY DEF Lent, P!MapThenSumSet, P!MapThenFoldSet, Pick
<1>2. ASSUME NEW it PROVE Eq(it) <=> Sums(S, g, it)
  <2>1. \A T \in SUBSET S : T # {} => th[Pick(T)].held = g[Pick(T)]
    BY PickRemoved
  <2>2. [T \in SUBSET S |-> IF T = {} THEN 0 ELSE th[Pick(T)].held + it[T \ {Pick(T)}]]
        = [T \in SUBSET S |-> IF T = {} THEN 0 ELSE g[Pick(T)] + it[T \ {Pick(T)}]]
    BY <2>1
  <2> QED BY <2>2 DEF Sums
<1>3. \E it : Eq(it)
  <2>1. PICK it : Sums(S, g, it)
    BY SumsExist
  <2> HIDE DEF Eq
  <2> QED BY <2>1, <1>2
<1>4. Eq(f)
  <2> HIDE DEF Eq
  <2> QED BY <1>3
<1> HIDE DEF f, Eq
<1>5. SumIs(S, g, f)
  BY <1>2, <1>4, SumsAreSums
<1>6. PICK it : SumIs(S, g, it) /\ Sum(S, g) = it[S]
  BY SumOf
<1>7. Agree(S, S, g, g, f, it)
  BY <1>5, <1>6, SumsAgree
<1>8. f[S] = it[S]
  BY <1>7 DEF Agree
<1> QED BY <1>1, <1>6, <1>8

ThreadType == [pc : {"rest", "ask", "wait", "parse"}, file : Parsed \cup {Nobody}, held : 0 .. Total]

\* The threads that hold a share, in the state th.
Metered(th) == {t \in Threads : th[t].pc = "parse" /\ Size[th[t].file] >= Unmetered}

Threaded(th) ==
    /\ th \in [Threads -> ThreadType]
    /\ \A t \in Threads : /\ th[t].pc # "rest" => th[t].file \in Parsed
                         /\ th[t].held = IF t \in Metered(th) THEN P!Need(th[t].file) ELSE 0

LEMMA ParseConstants ==
    /\ IsFiniteSet(Threads) /\ Size \in [Parsed -> Nat] /\ Nobody \notin Parsed
    /\ Total \in Nat /\ Unmetered \in Nat \ {0} /\ Unmetered <= Total
    /\ \A f \in Parsed : P!Need(f) \in 0 .. Total
    /\ \A f \in Parsed : Size[f] >= Unmetered => P!Need(f) >= Unmetered /\ P!Need(f) > 0
    /\ \A f \in Parsed : Size[f] >= Total => P!Need(f) = Total
<1>1. \A S : P!IsFiniteSet(S) = IsFiniteSet(S)
  BY DEF P!IsFiniteSet, IsFiniteSet
<1>2. /\ IsFiniteSet(Threads) /\ Size \in [Parsed -> Nat] /\ Nobody \notin Parsed
      /\ Total \in Nat /\ Unmetered \in Nat \ {0} /\ Unmetered <= Total
  BY <1>1, ParsesAssumption DEF P!Assumption
<1> QED BY <1>2 DEF P!Need

Holding(th) == [t \in Metered(th) |-> th[t].held]

LEMMA LentType ==
    ASSUME NEW th, Threaded(th)
    PROVE  /\ IsFiniteSet(Metered(th)) /\ Holding(th) \in [Metered(th) -> Nat]
           /\ Lent(th, Metered(th)) = Sum(Metered(th), Holding(th))
           /\ Lent(th, Metered(th)) \in Nat
<1>1. IsFiniteSet(Metered(th))
  BY ParseConstants, FS_Subset DEF Metered
<1>2. \A t \in Metered(th) : th[t].held \in Nat
  BY ParseConstants DEF Threaded, Metered, ThreadType
<1>3. Holding(th) \in [Metered(th) -> Nat] /\ \A t \in Metered(th) : Holding(th)[t] = th[t].held
  BY <1>2 DEF Holding
<1> QED BY <1>1, <1>3, LentIsSum, SumType

LEMMA LentTo ==
    ASSUME NEW th, NEW new, Threaded(th), Threaded(new), NEW t \in Threads,
           t \notin Metered(th), Metered(new) = Metered(th) \cup {t},
           \A u \in Metered(th) : new[u].held = th[u].held
    PROVE  Lent(new, Metered(new)) = new[t].held + Lent(th, Metered(th))
<1>1. /\ t \in Metered(new) /\ Metered(th) = Metered(new) \ {t}
      /\ \A u \in Metered(th) : Holding(th)[u] = Holding(new)[u]
      /\ Holding(new)[t] = new[t].held
  BY DEF Holding
<1>2. Sum(Metered(new), Holding(new)) = Holding(new)[t] + Sum(Metered(th), Holding(th))
  <2> DEFINE S == Metered(new)
             U == Metered(th)
             g == Holding(new)
             h == Holding(th)
  <2>1. IsFiniteSet(S) /\ g \in [S -> Nat] /\ h \in [U -> Nat]
    BY LentType
  <2>2. t \in S /\ U = S \ {t} /\ \A y \in U : h[y] = g[y]
    BY <1>1
  <2> HIDE DEF S, U, g, h
  <2>3. Sum(S, g) = g[t] + Sum(U, h)
    BY ONLY <2>1, <2>2, SumMore
  <2> QED BY <2>3 DEF S, U, g, h
<1> QED BY <1>1, <1>2, LentType

LEMMA LentSame ==
    ASSUME NEW th, NEW new, Threaded(th), Threaded(new), Metered(new) = Metered(th),
           \A u \in Metered(th) : new[u].held = th[u].held
    PROVE  Lent(new, Metered(new)) = Lent(th, Metered(th))
<1>1. Holding(th) = Holding(new)
  BY DEF Holding
<1> QED BY <1>1, LentType

BudgetInv ==
    /\ todo \subseteq Parsed /\ left \in 0 .. Total
    /\ Threaded(thread)
    /\ left + Lent(thread, Metered(thread)) = Total

LEMMA BudgetInit == P!Init => BudgetInv
<1> SUFFICES ASSUME P!Init PROVE BudgetInv
  OBVIOUS
<1>1. todo = Parsed /\ left = Total /\ \A t \in Threads : thread[t] = P!Resting
  BY DEF P!Init
<1>2. P!Resting \in ThreadType /\ P!Resting.pc = "rest" /\ P!Resting.held = 0
  BY ParseConstants DEF P!Resting, ThreadType
<1>3. thread \in [Threads -> ThreadType]
  BY <1>2 DEF P!Init
<1>4. Metered(thread) = {}
  BY <1>1, <1>2 DEF Metered
<1>5. Threaded(thread)
  BY <1>1, <1>2, <1>3, <1>4 DEF Threaded
<1>6. Lent(thread, Metered(thread)) = 0
  BY <1>4, <1>5, LentType, SumType
<1> QED BY <1>1, <1>5, <1>6, ParseConstants DEF BudgetInv

\* A step of one thread that neither takes nor gives back.
LEMMA QuietThread ==
    ASSUME BudgetInv, NEW t \in Threads, NEW r \in ThreadType,
           thread' = [thread EXCEPT ![t] = r], left' = left, todo' \subseteq Parsed,
           r.pc # "rest" => r.file \in Parsed, r.held = 0, t \notin Metered(thread),
           r.pc = "parse" => Size[r.file] < Unmetered
    PROVE  BudgetInv'
<1>1. thread' \in [Threads -> ThreadType] /\ thread'[t] = r /\ \A u \in Threads \ {t} : thread'[u] = thread[u]
  BY DEF BudgetInv, Threaded
<1>2. Metered(thread') = Metered(thread)
  <2>1. t \notin Metered(thread')
    BY <1>1, ParseConstants DEF Metered
  <2> QED BY <1>1, <2>1 DEF Metered
<1>3. Threaded(thread')
  <2> SUFFICES ASSUME NEW u \in Threads
               PROVE  /\ thread'[u].pc # "rest" => thread'[u].file \in Parsed
                      /\ thread'[u].held = IF u \in Metered(thread') THEN P!Need(thread'[u].file) ELSE 0
    BY <1>1 DEF Threaded
  <2>1. CASE u = t
    BY <1>1, <1>2, <2>1
  <2>2. CASE u # t
    BY <1>1, <1>2, <2>2 DEF BudgetInv, Threaded
  <2> QED BY <2>1, <2>2
<1>4. Lent(thread', Metered(thread')) = Lent(thread, Metered(thread))
  <2>1. \A u \in Metered(thread) : thread'[u].held = thread[u].held
    BY <1>1 DEF Metered
  <2> QED BY <1>2, <1>3, <2>1, LentSame DEF BudgetInv
<1> QED BY <1>3, <1>4 DEF BudgetInv

LEMMA BudgetQuiet ==
    ASSUME BudgetInv, NEW t \in Threads,
           \/ \E f \in Parsed : P!Take(t, f)
           \/ P!ParseUnasked(t) \/ P!Wait(t) \/ P!WakeSpuriously(t) \/ P!EndUnasked(t)
    PROVE  BudgetInv'
<1>0. /\ thread[t] \in ThreadType /\ todo \subseteq Parsed
      /\ thread[t].pc # "rest" => thread[t].file \in Parsed
      /\ thread[t].pc # "parse" => t \notin Metered(thread)
      /\ t \notin Metered(thread) => thread[t].held = 0
  BY DEF BudgetInv, Threaded, Metered
<1>1. ASSUME NEW pc \in {"rest", "ask", "wait", "parse"}
      PROVE  [thread[t] EXCEPT !.pc = pc] = [pc |-> pc, file |-> thread[t].file, held |-> thread[t].held]
  BY <1>0 DEF ThreadType
<1>2. ASSUME NEW f \in Parsed, P!Take(t, f) PROVE BudgetInv'
  <2> DEFINE r == [pc |-> "ask", file |-> f, held |-> 0]
  <2>1. r \in ThreadType
    BY ParseConstants DEF ThreadType
  <2>2. /\ thread' = [thread EXCEPT ![t] = r] /\ left' = left /\ todo' \subseteq Parsed
        /\ t \notin Metered(thread)
    BY <1>0, <1>2 DEF P!Take
  <2> QED BY <2>1, <2>2, QuietThread
<1>3. CASE P!ParseUnasked(t)
  <2> DEFINE r == [pc |-> "parse", file |-> thread[t].file, held |-> thread[t].held]
  <2>1. r \in ThreadType
    BY <1>0 DEF ThreadType
  <2>2. /\ thread' = [thread EXCEPT ![t] = r] /\ left' = left /\ todo' \subseteq Parsed
        /\ t \notin Metered(thread) /\ r.held = 0 /\ r.file \in Parsed /\ Size[r.file] < Unmetered
    BY <1>0, <1>1, <1>3 DEF P!ParseUnasked
  <2> QED BY <2>1, <2>2, QuietThread
<1>4. CASE P!Wait(t)
  <2> DEFINE r == [pc |-> "wait", file |-> thread[t].file, held |-> thread[t].held]
  <2>1. r \in ThreadType
    BY <1>0 DEF ThreadType
  <2>2. /\ thread' = [thread EXCEPT ![t] = r] /\ left' = left /\ todo' \subseteq Parsed
        /\ t \notin Metered(thread) /\ r.held = 0 /\ r.file \in Parsed
    BY <1>0, <1>1, <1>4 DEF P!Wait
  <2> QED BY <2>1, <2>2, QuietThread
<1>5. CASE P!WakeSpuriously(t)
  <2> DEFINE r == [pc |-> "ask", file |-> thread[t].file, held |-> thread[t].held]
  <2>1. r \in ThreadType
    BY <1>0 DEF ThreadType
  <2>2. /\ thread' = [thread EXCEPT ![t] = r] /\ left' = left /\ todo' \subseteq Parsed
        /\ t \notin Metered(thread) /\ r.held = 0 /\ r.file \in Parsed
    BY <1>0, <1>1, <1>5 DEF P!WakeSpuriously
  <2> QED BY <2>1, <2>2, QuietThread
<1>6. CASE P!EndUnasked(t)
  <2> DEFINE r == P!Resting
  <2>1. r \in ThreadType /\ r.pc = "rest" /\ r.held = 0
    BY ParseConstants DEF ThreadType, P!Resting
  <2>2. thread' = [thread EXCEPT ![t] = r] /\ left' = left /\ todo' \subseteq Parsed
    BY <1>0, <1>6 DEF P!EndUnasked
  <2>3. t \notin Metered(thread)
    <3>1. SUFFICES ASSUME t \in Metered(thread) PROVE FALSE
      OBVIOUS
    <3>2. thread[t].held = P!Need(thread[t].file) /\ thread[t].file \in Parsed
          /\ Size[thread[t].file] >= Unmetered
      BY <3>1 DEF BudgetInv, Threaded, Metered
    <3>3. thread[t].held = 0
      BY <1>6 DEF P!EndUnasked
    <3>4. P!Need(thread[t].file) > 0
      BY <3>2, ParseConstants
    <3> QED BY <3>2, <3>3, <3>4
  <2> QED BY <2>1, <2>2, <2>3, QuietThread
<1> QED BY <1>2, <1>3, <1>4, <1>5, <1>6

LEMMA BudgetAcquire ==
    ASSUME BudgetInv, NEW t \in Threads, P!Acquire(t)
    PROVE  BudgetInv'
<1> DEFINE f == thread[t].file
           r == [pc |-> "parse", file |-> f, held |-> P!Need(f)]
<1>1. /\ thread[t].pc = "ask" /\ f \in Parsed /\ Size[f] >= Unmetered /\ left >= P!Need(f)
      /\ left' = left - P!Need(f) /\ todo' = todo
  BY DEF P!Acquire, BudgetInv, Threaded
<1>2. thread' = [thread EXCEPT ![t] = r]
  <2>1. thread[t] \in ThreadType /\ thread \in [Threads -> ThreadType]
    BY DEF BudgetInv, Threaded
  <2>2. [[thread[t] EXCEPT !.pc = "parse"] EXCEPT !.held = P!Need(f)] = r
    <3>1. ASSUME NEW n
          PROVE  [[thread[t] EXCEPT !.pc = "parse"] EXCEPT !.held = n]
                 = [pc |-> "parse", file |-> thread[t].file, held |-> n]
      <4>1. [thread[t] EXCEPT !.pc = "parse"]
            = [pc |-> "parse", file |-> thread[t].file, held |-> thread[t].held]
        BY <2>1 DEF ThreadType
      <4>2. [[pc |-> "parse", file |-> thread[t].file, held |-> thread[t].held] EXCEPT !.held = n]
            = [pc |-> "parse", file |-> thread[t].file, held |-> n]
        OBVIOUS
      <4> QED BY <4>1, <4>2, Zenon
    <3> QED BY <3>1
  <2>3. thread' = [[thread EXCEPT ![t].pc = "parse"] EXCEPT ![t].held = P!Need(f)]
    BY DEF P!Acquire
  <2>4. thread' = [thread EXCEPT ![t] = [[thread[t] EXCEPT !.pc = "parse"] EXCEPT !.held = P!Need(f)]]
    <3> HIDE DEF f
    <3> QED BY <2>1, <2>3
  <2> QED BY <2>2, <2>4
<1>3. r \in ThreadType /\ P!Need(f) \in 0 .. Total
  BY <1>1, ParseConstants DEF ThreadType
<1> HIDE DEF f
<1>4. thread' \in [Threads -> ThreadType] /\ thread'[t] = r /\ \A u \in Threads \ {t} : thread'[u] = thread[u]
  BY <1>2, <1>3 DEF BudgetInv, Threaded
<1>5. t \notin Metered(thread) /\ Metered(thread') = Metered(thread) \cup {t}
  <2>1. t \notin Metered(thread)
    BY <1>1 DEF Metered
  <2>2. t \in Metered(thread')
    BY <1>1, <1>4 DEF Metered
  <2> QED BY <1>4, <2>1, <2>2 DEF Metered
<1>6. Threaded(thread')
  <2> SUFFICES ASSUME NEW u \in Threads
               PROVE  /\ thread'[u].pc # "rest" => thread'[u].file \in Parsed
                      /\ thread'[u].held = IF u \in Metered(thread') THEN P!Need(thread'[u].file) ELSE 0
    BY <1>4 DEF Threaded
  <2>1. CASE u = t
    BY <1>1, <1>4, <1>5, <2>1
  <2>2. CASE u # t
    BY <1>4, <1>5, <2>2 DEF BudgetInv, Threaded
  <2> QED BY <2>1, <2>2
<1>7. Lent(thread', Metered(thread')) = P!Need(f) + Lent(thread, Metered(thread))
  <2>1. \A u \in Metered(thread) : thread'[u].held = thread[u].held
    BY <1>4, <1>5 DEF Metered
  <2>2. Lent(thread', Metered(thread')) = thread'[t].held + Lent(thread, Metered(thread))
    BY <1>5, <1>6, <2>1, LentTo DEF BudgetInv
  <2> QED BY <1>4, <2>2
<1>8. Lent(thread, Metered(thread)) \in Nat
  BY LentType DEF BudgetInv
<1> QED BY <1>1, <1>3, <1>6, <1>7, <1>8, ParseConstants DEF BudgetInv

LEMMA BudgetRelease ==
    ASSUME BudgetInv, NEW t \in Threads, P!Release(t)
    PROVE  BudgetInv'
<1>0. thread \in [Threads -> ThreadType] /\ Threaded(thread)
  BY DEF BudgetInv, Threaded
<1>1. /\ thread[t].pc = "parse" /\ thread[t].held > 0 /\ left' = left + thread[t].held /\ todo' = todo
      /\ thread' = [u \in Threads |-> IF u = t THEN P!Resting ELSE P!Woken(u)]
  BY DEF P!Release
<1>2. P!Resting \in ThreadType /\ P!Resting.pc = "rest" /\ P!Resting.held = 0
  BY ParseConstants DEF P!Resting, ThreadType
<1>3. ASSUME NEW u \in Threads
      PROVE  /\ P!Woken(u) \in ThreadType /\ P!Woken(u).held = thread[u].held
             /\ P!Woken(u).file = thread[u].file
             /\ P!Woken(u).pc = "parse" <=> thread[u].pc = "parse"
             /\ P!Woken(u).pc = "rest" <=> thread[u].pc = "rest"
  BY <1>0 DEF P!Woken, ThreadType
<1>4. /\ thread' \in [Threads -> ThreadType] /\ thread'[t] = P!Resting
      /\ \A u \in Threads \ {t} : thread'[u] = P!Woken(u)
  BY <1>1, <1>2, <1>3
<1>5. t \in Metered(thread) /\ t \notin Metered(thread') /\ Metered(thread) = Metered(thread') \cup {t}
  <2>1. t \in Metered(thread)
    BY <1>0, <1>1, ParseConstants DEF Threaded
  <2>2. t \notin Metered(thread')
    BY <1>2, <1>4 DEF Metered
  <2> QED BY <1>3, <1>4, <2>1, <2>2 DEF Metered
<1>6. Threaded(thread')
  <2> SUFFICES ASSUME NEW u \in Threads
               PROVE  /\ thread'[u].pc # "rest" => thread'[u].file \in Parsed
                      /\ thread'[u].held = IF u \in Metered(thread') THEN P!Need(thread'[u].file) ELSE 0
    BY <1>4 DEF Threaded
  <2>1. CASE u = t
    BY <1>2, <1>4, <1>5, <2>1
  <2>2. CASE u # t
    BY <1>0, <1>3, <1>4, <1>5, <2>2 DEF Threaded
  <2> QED BY <2>1, <2>2
<1>7. Lent(thread, Metered(thread)) = thread[t].held + Lent(thread', Metered(thread'))
  <2>1. \A u \in Metered(thread') : thread[u].held = thread'[u].held
    BY <1>3, <1>4, <1>5 DEF Metered
  <2> QED BY <1>0, <1>5, <1>6, <2>1, LentTo
<1>8. Lent(thread', Metered(thread')) \in Nat
  BY <1>6, LentType
<1>9. thread[t].held \in Nat
  BY <1>0 DEF ThreadType
<1> QED BY <1>1, <1>6, <1>7, <1>8, <1>9, ParseConstants DEF BudgetInv

LEMMA BudgetNext == BudgetInv /\ [P!Next]_parseVars => BudgetInv'
<1> SUFFICES ASSUME BudgetInv, [P!Next]_parseVars PROVE BudgetInv'
  OBVIOUS
<1>1. ASSUME UNCHANGED parseVars PROVE BudgetInv'
  BY <1>1 DEF parseVars, BudgetInv
<1>2. ASSUME NEW t \in Threads, P!Step(t) \/ P!WakeSpuriously(t) PROVE BudgetInv'
  BY <1>2, BudgetQuiet, BudgetAcquire, BudgetRelease DEF P!Step
<1>3. CASE P!Done
  BY <1>1, <1>3 DEF P!Done, P!vars, parseVars
<1> QED BY <1>1, <1>2, <1>3 DEF P!Next

LEMMA BudgetMeans == BudgetInv => P!WithinBudget
<1> SUFFICES ASSUME BudgetInv PROVE P!WithinBudget
  OBVIOUS
<1>1. P!TypeOK
  BY DEF P!TypeOK, BudgetInv, Threaded, ThreadType
<1>2. P!Parsing = Metered(thread) /\ P!Held(P!Parsing) = Lent(thread, Metered(thread))
  BY DEF P!Parsing, Metered, P!Held, Lent
<1>3. ASSUME NEW t \in Metered(thread), NEW u \in Metered(thread), Size[thread[t].file] >= Total, u # t
      PROVE  FALSE
  <2> DEFINE S == Metered(thread)
             g == Holding(thread)
             U == S \ {t}
             h == [v \in U |-> g[v]]
             V == U \ {u}
             k == [v \in V |-> h[v]]
  <2>1. IsFiniteSet(S) /\ g \in [S -> Nat] /\ Lent(thread, S) = Sum(S, g)
    BY LentType DEF BudgetInv
  <2>2. IsFiniteSet(U) /\ h \in [U -> Nat] /\ u \in U
    BY <1>3, <2>1, FS_Subset
  <2>3. IsFiniteSet(V) /\ k \in [V -> Nat]
    BY <2>2, FS_Subset
  <2>4. Sum(S, g) = g[t] + Sum(U, h)
    <3> HIDE DEF S, g
    <3>1. t \in S /\ U = S \ {t} /\ \A y \in U : h[y] = g[y]
      BY <1>3 DEF S
    <3> HIDE DEF U, h
    <3> QED BY <2>1, <2>2, <3>1, SumMore
  <2>5. Sum(U, h) = h[u] + Sum(V, k)
    <3> HIDE DEF S, g, U, h
    <3>1. V = U \ {u} /\ \A y \in V : k[y] = h[y]
      OBVIOUS
    <3> HIDE DEF V, k
    <3> QED BY <2>2, <2>3, <3>1, SumMore
  <2>6. Sum(V, k) \in Nat
    <3> HIDE DEF V, k
    <3> QED BY <2>3, SumType
  <2>7. g[t] = P!Need(thread[t].file) /\ h[u] = P!Need(thread[u].file)
    <3>1. g[t] = thread[t].held /\ g[u] = thread[u].held
      BY <1>3 DEF Holding
    <3>2. h[u] = g[u]
      BY <2>2
    <3>3. thread[t].held = P!Need(thread[t].file) /\ thread[u].held = P!Need(thread[u].file)
      BY <1>3 DEF BudgetInv, Threaded, Metered
    <3> HIDE DEF S, g, U, h
    <3> QED BY <3>1, <3>2, <3>3
  <2>8. /\ thread[t].file \in Parsed /\ thread[u].file \in Parsed
        /\ Size[thread[t].file] >= Total /\ Size[thread[u].file] >= Unmetered
    BY <1>3 DEF BudgetInv, Threaded, Metered
  <2>9. P!Need(thread[t].file) = Total /\ P!Need(thread[u].file) > 0 /\ P!Need(thread[u].file) \in Nat
    BY <2>8, ParseConstants
  <2>10. left \in Nat /\ left + Lent(thread, S) = Total
    BY ParseConstants DEF BudgetInv
  <2> HIDE DEF S, g, U, h, V, k
  <2> QED BY <2>1, <2>4, <2>5, <2>6, <2>7, <2>9, <2>10, ParseConstants
<1>4. left + P!Held(P!Parsing) = Total
  BY <1>2 DEF BudgetInv
<1> QED BY <1>1, <1>2, <1>3, <1>4 DEF P!WithinBudget
-----------------------------------------------------------------------------
(* GramIndex: the order of keys, the keys of a file and what a sink is     *)
(* charged                                                                  *)

Key == Seq(Nat)

\* u comes before v by what follows their first n bytes, which they share.
Splits(u, v, n) ==
    /\ n <= Len(u) /\ n < Len(v) /\ \A i \in 1 .. n : u[i] = v[i]
    /\ n = Len(u) \/ u[n + 1] < v[n + 1]

LEMMA PrefixIs ==
    ASSUME NEW u \in Key, NEW v \in Key
    PROVE  IsPrefix(u, v) <=> Len(u) <= Len(v) /\ \A i \in 1 .. Len(u) : u[i] = v[i]
<1> SUFFICES ASSUME Len(u) <= Len(v)
             PROVE  SubSeq(u, 1, Len(u)) = SubSeq(v, 1, Len(u)) <=> \A i \in 1 .. Len(u) : u[i] = v[i]
  BY DEF IsPrefix
<1> DEFINE x == SubSeq(u, 1, Len(u))
           y == SubSeq(v, 1, Len(u))
<1>1. /\ x \in Seq(Nat) /\ y \in Seq(Nat) /\ Len(x) = Len(u) /\ Len(y) = Len(u)
      /\ \A i \in 1 .. Len(u) : x[i] = u[i] /\ y[i] = v[i]
  BY DEF Key
<1> HIDE DEF x, y
<1>2. x = y <=> \A i \in 1 .. Len(u) : x[i] = y[i]
  <2>1. Len(x) = Len(y) /\ (\A i \in 1 .. Len(x) : x[i] = y[i]) => x = y
    BY ONLY <1>1, SeqEqual
  <2> QED BY <1>1, <2>1
<1>3. x = y <=> \A i \in 1 .. Len(u) : u[i] = v[i]
  BY <1>1, <1>2
<1> QED BY <1>3 DEF x, y

LEMMA LessSplits ==
    ASSUME NEW u \in Key, NEW v \in Key
    PROVE  Less(u, v) <=> \E n \in Nat : Splits(u, v, n)
<1>0. DOMAIN u = 1 .. Len(u) /\ DOMAIN v = 1 .. Len(v) /\ Len(u) \in Nat /\ Len(v) \in Nat
  BY DEF Key
<1>1. IsStrictPrefix(u, v) <=> Splits(u, v, Len(u)) /\ Len(u) < Len(v)
  <2>1. u = v <=> Len(u) = Len(v) /\ \A i \in 1 .. Len(u) : u[i] = v[i]
    <3>1. u \in Seq(Nat) /\ v \in Seq(Nat)
      BY DEF Key
    <3>2. Len(u) = Len(v) /\ (\A i \in 1 .. Len(u) : u[i] = v[i]) => u = v
      BY ONLY <3>1, SeqEqual
    <3> QED BY <3>2
  <2>2. IsStrictPrefix(u, v) <=> /\ Len(u) <= Len(v) /\ (\A i \in 1 .. Len(u) : u[i] = v[i])
                                 /\ u # v
    BY PrefixIs DEF IsStrictPrefix
  <2>3. IsStrictPrefix(u, v) <=> Len(u) < Len(v) /\ \A i \in 1 .. Len(u) : u[i] = v[i]
    <3> DEFINE m == Len(u)
               n == Len(v)
               same == \A i \in 1 .. Len(u) : u[i] = v[i]
               differ == u # v
    <3>1. m \in Nat /\ n \in Nat
      BY DEF Key
    <3>2. IsStrictPrefix(u, v) <=> m <= n /\ same /\ differ
      BY <2>2
    <3>3. ~ differ <=> m = n /\ same
      BY <2>1
    <3>4. IsStrictPrefix(u, v) <=> m < n /\ same
      <4> HIDE DEF m, n, same, differ
      <4>1. m < n <=> m <= n /\ m # n
        BY <3>1
      <4> QED BY <3>2, <3>3, <4>1, Zenon
    <3> QED BY <3>4
  <2>4. Len(u) \in Nat
    BY DEF Key
  <2> QED BY <2>3, <2>4 DEF Splits
<1>2. ASSUME NEW i \in DOMAIN u \cap DOMAIN v, u[i] < v[i], \A j \in 1 .. i - 1 : u[j] = v[j]
      PROVE  Splits(u, v, i - 1) /\ i - 1 \in Nat
  BY <1>0, <1>2 DEF Splits
<1>3. ASSUME NEW n \in Nat, Splits(u, v, n) PROVE Less(u, v)
  <2>1. CASE n = Len(u)
    BY <1>0, <1>1, <1>3, <2>1 DEF Splits, Less
  <2>2. CASE n # Len(u)
    <3>1. n + 1 \in DOMAIN u \cap DOMAIN v /\ u[n + 1] < v[n + 1] /\ \A j \in 1 .. (n + 1) - 1 : u[j] = v[j]
      <4>1. /\ n <= Len(u) /\ n < Len(v) /\ u[n + 1] < v[n + 1]
            /\ \A i \in 1 .. n : u[i] = v[i]
        BY <1>3, <2>2 DEF Splits
      <4>2. n + 1 \in 1 .. Len(u) /\ n + 1 \in 1 .. Len(v) /\ (n + 1) - 1 = n
        <5>1. Len(u) \in Nat /\ Len(v) \in Nat
          BY DEF Key
        <5> QED BY <5>1, <2>2, <4>1
      <4> QED BY <1>0, <4>1, <4>2
    <3> QED BY <3>1 DEF Less
  <2> QED BY <2>1, <2>2
<1> QED BY <1>0, <1>1, <1>2, <1>3 DEF Less

LEMMA LessIrreflexive ==
    ASSUME NEW u \in Key
    PROVE  ~ Less(u, u)
<1>1. ASSUME NEW n \in Nat, Splits(u, u, n) PROVE FALSE
  <2>1. n < Len(u) /\ u[n + 1] < u[n + 1] /\ u[n + 1] \in Nat
    BY <1>1 DEF Splits, Key
  <2> QED BY <2>1
<1> QED BY <1>1, LessSplits

LEMMA LessTransitive ==
    ASSUME NEW u \in Key, NEW v \in Key, NEW w \in Key, Less(u, v), Less(v, w)
    PROVE  Less(u, w)
<1>1. PICK m \in Nat : Splits(u, v, m)
  BY LessSplits
<1>2. PICK n \in Nat : Splits(v, w, n)
  BY LessSplits
<1>0. /\ Len(u) \in Nat /\ Len(v) \in Nat /\ Len(w) \in Nat
      /\ \A i \in 1 .. Len(u) : u[i] \in Nat
      /\ \A i \in 1 .. Len(v) : v[i] \in Nat
      /\ \A i \in 1 .. Len(w) : w[i] \in Nat
  BY DEF Key
<1>3. CASE m < n
  <2>1. Splits(u, w, m)
    BY <1>0, <1>1, <1>2, <1>3 DEF Splits
  <2> QED BY <2>1, LessSplits
<1>4. CASE n < m
  <2>1. Splits(u, w, n)
    BY <1>0, <1>1, <1>2, <1>4 DEF Splits
  <2> QED BY <2>1, LessSplits
<1>5. CASE m = n
  <2>1. Splits(u, w, n)
    BY <1>0, <1>1, <1>2, <1>5 DEF Splits
  <2> QED BY <2>1, LessSplits
<1> QED BY <1>3, <1>4, <1>5

LEMMA LessTotal ==
    ASSUME NEW u \in Key, NEW v \in Key, u # v
    PROVE  Less(u, v) \/ Less(v, u)
<1>0. /\ Len(u) \in Nat /\ Len(v) \in Nat
      /\ \A i \in 1 .. Len(u) : u[i] \in Nat
      /\ \A i \in 1 .. Len(v) : v[i] \in Nat
  BY DEF Key
<1> DEFINE Differ == {i \in Nat \ {0} : i <= Len(u) /\ i <= Len(v) /\ u[i] # v[i]}
<1>1. CASE Differ = {}
  <2>1. \A i \in Nat \ {0} : i <= Len(u) /\ i <= Len(v) => u[i] = v[i]
    BY <1>1
  <2>2. Len(u) # Len(v)
    <3>1. u \in Seq(Nat) /\ v \in Seq(Nat)
      BY DEF Key
    <3>2. SUFFICES ASSUME Len(u) = Len(v) PROVE FALSE
      OBVIOUS
    <3>3. \A i \in 1 .. Len(u) : u[i] = v[i]
      BY <2>1, <1>0, <3>2
    <3>4. u = v
      BY ONLY <3>1, <3>2, <3>3, SeqEqual
    <3> QED BY <3>4
  <2>3. CASE Len(u) < Len(v)
    <3>1. Splits(u, v, Len(u))
      BY <1>0, <2>1, <2>3 DEF Splits
    <3> QED BY <1>0, <3>1, LessSplits
  <2>4. CASE Len(v) < Len(u)
    <3>1. Splits(v, u, Len(v))
      BY <1>0, <2>1, <2>4 DEF Splits
    <3> QED BY <1>0, <3>1, LessSplits
  <2> QED BY <1>0, <2>2, <2>3, <2>4
<1>2. CASE Differ # {}
  <2>1. Differ \in SUBSET Nat
    OBVIOUS
  <2>2. PICK i \in Differ : \A j \in Differ : i <= j
    BY <1>2, <2>1, LeastNumber
  <2>3. \A j \in 1 .. i - 1 : u[j] = v[j]
    <3>1. SUFFICES ASSUME NEW j \in 1 .. i - 1, u[j] # v[j] PROVE FALSE
      OBVIOUS
    <3>2. j \in Differ /\ j < i
      BY <1>0, <3>1
    <3> QED BY <2>2, <3>2
  <2>4. i \in Nat \ {0} /\ i <= Len(u) /\ i <= Len(v) /\ u[i] # v[i]
    BY <2>2
  <2>5. u[i] < v[i] => Splits(u, v, i - 1)
    BY <1>0, <2>3, <2>4 DEF Splits
  <2>6. v[i] < u[i] => Splits(v, u, i - 1)
    BY <1>0, <2>3, <2>4 DEF Splits
  <2>7. i - 1 \in Nat /\ (u[i] < v[i] \/ v[i] < u[i])
    BY <1>0, <2>4
  <2> QED BY <2>5, <2>6, <2>7, LessSplits
<1> QED BY <1>1, <1>2

LEMMA ImageFinite ==
    ASSUME NEW S, IsFiniteSet(S), NEW f, NEW T, T \subseteq {f[x] : x \in S}
    PROVE  IsFiniteSet(T)
<1> DEFINE R == {f[x] : x \in S}
           g == [x \in S |-> f[x]]
<1>1. g \in Surjection(S, R)
  BY DEF Surjection
<1>2. IsFiniteSet(R)
  BY <1>1, FS_Surjection
<1> QED BY <1>2, FS_Subset

LEMMA KeysType ==
    ASSUME NEW s \in Seq(Nat), NEW kind
    PROVE  IsFiniteSet(Keys(kind, s)) /\ Keys(kind, s) \subseteq Key
<1>0. Len(s) \in Nat /\ DOMAIN s = 1 .. Len(s) /\ \A i \in 1 .. Len(s) : s[i] \in Nat
  OBVIOUS
<1>1. FoldAll(s) \in Seq(Nat) /\ Len(FoldAll(s)) = Len(s)
  <2>1. \A i \in 1 .. Len(s) : Fold(s[i]) \in Nat
    BY <1>0 DEF Fold
  <2>2. FoldAll(s) = [i \in 1 .. Len(s) |-> Fold(s[i])]
    BY <1>0 DEF FoldAll
  <2> QED BY <1>0, <2>1, <2>2
<1>2. IsFiniteSet(Grams(s)) /\ Grams(s) \subseteq Key
  <2> DEFINE t == FoldAll(s)
             f == [i \in 1 .. Len(s) - 2 |-> SubSeq(t, i, i + 2)]
  <2>1. Grams(s) \subseteq {f[i] : i \in 1 .. Len(s) - 2}
    BY DEF Grams
  <2>2. \A i \in 1 .. Len(s) - 2 : SubSeq(t, i, i + 2) \in Seq(Nat)
    <3> HIDE DEF t
    <3>1. t \in Seq(Nat) /\ Len(t) = Len(s)
      BY <1>1 DEF t
    <3> QED BY <1>0, <3>1, SubSeqProperties
  <2>3. IsFiniteSet(1 .. Len(s) - 2)
    BY <1>0, FS_Interval
  <2> HIDE DEF t
  <2>4. IsFiniteSet(Grams(s))
    <3> HIDE DEF f
    <3> QED BY <2>1, <2>3, ImageFinite
  <2> QED BY <2>1, <2>2, <2>4 DEF Key
<1>3. IsFiniteSet(Words(s)) /\ Words(s) \subseteq Key
  <2> DEFINE S == (1 .. Len(s)) \X (1 .. Len(s))
             f == [p \in S |-> SubSeq(s, p[1], p[2])]
  <2>1. Words(s) \subseteq {f[p] : p \in S}
    BY DEF Words
  <2>2. \A p \in S : SubSeq(s, p[1], p[2]) \in Seq(Nat)
    BY <1>0, SubSeqProperties
  <2>3. IsFiniteSet(S)
    <3>1. IsFiniteSet(1 .. Len(s))
      BY <1>0, FS_Interval
    <3> QED BY <3>1, FS_Product
  <2>4. IsFiniteSet(Words(s))
    <3> HIDE DEF f, S
    <3> QED BY <2>1, <2>3, ImageFinite
  <2> QED BY <2>1, <2>2, <2>4 DEF Key
<1> QED BY <1>2, <1>3, FS_EmptySet DEF Keys

\* What a sink is: keys, each with ids in the order they came.
Sink(map) ==
    /\ map = [key \in DOMAIN map |-> map[key]]
    /\ IsFiniteSet(DOMAIN map) /\ DOMAIN map \subseteq Key
    /\ \A key \in DOMAIN map : map[key] \in Seq(Nat) /\ map[key] # <<>>

LEMMA EmptySink == Sink(NoMap) /\ DOMAIN NoMap = {} /\ \A map : Sink(map) => (map = NoMap <=> DOMAIN map = {})
<1>1. DOMAIN NoMap = {} /\ NoMap = [key \in {} |-> NoMap[key]]
  BY DEF NoMap
<1>2. Sink(NoMap)
  BY <1>1, FS_EmptySet DEF Sink
<1>3. ASSUME NEW map, Sink(map), DOMAIN map = {} PROVE map = NoMap
  <2>1. map = [key \in {} |-> map[key]]
    BY <1>3 DEF Sink
  <2>2. [key \in {} |-> map[key]] = [key \in {} |-> NoMap[key]]
    OBVIOUS
  <2> QED BY <1>1, <2>1, <2>2
<1> QED BY <1>1, <1>2, <1>3

LEMMA HeldType ==
    ASSUME NEW map, Sink(map)
    PROVE  Held(map) \in Nat /\ (map = NoMap => Held(map) = 0)
<1> DEFINE S == DOMAIN map
           g == [key \in S |-> 1 + Len(map[key])]
           Eq(it) == it = [T \in SUBSET S |-> IF T = {} THEN 0
                                               ELSE 1 + Len(map[Pick(T)]) + it[T \ {Pick(T)}]]
           f == CHOOSE it : Eq(it)
<1>0. IsFiniteSet(S) /\ g \in [S -> Nat]
  BY DEF Sink
<1>1. Held(map) = f[S]
  BY DEF Held, MapThenSumSet, MapThenFoldSet, Pick
<1>2. ASSUME NEW it PROVE Eq(it) <=> Sums(S, g, it)
  <2>1. \A T \in SUBSET S : T # {} => 1 + Len(map[Pick(T)]) = g[Pick(T)]
    BY <1>0, PickRemoved
  <2>2. [T \in SUBSET S |-> IF T = {} THEN 0 ELSE 1 + Len(map[Pick(T)]) + it[T \ {Pick(T)}]]
        = [T \in SUBSET S |-> IF T = {} THEN 0 ELSE g[Pick(T)] + it[T \ {Pick(T)}]]
    <3> HIDE DEF g
    <3> QED BY <2>1
  <2> HIDE DEF g
  <2> QED BY <2>2 DEF Sums
<1>3. \E it : Eq(it)
  <2> HIDE DEF g, S
  <2>1. PICK it : Sums(S, g, it)
    BY <1>0, SumsExist
  <2> HIDE DEF Eq
  <2> QED BY <2>1, <1>2
<1>4. Eq(f)
  <2> HIDE DEF Eq
  <2> QED BY <1>3
<1>5. map = NoMap => S = {}
  BY EmptySink
<1> HIDE DEF f, Eq, g, S
<1>6. SumIs(S, g, f)
  BY <1>0, <1>2, <1>4, SumsAreSums
<1>7. f[S] \in Nat /\ f[{}] = 0
  <2>1. S \in SUBSET S
    OBVIOUS
  <2> QED BY <1>6, <2>1 DEF SumIs
<1> QED BY <1>1, <1>5, <1>7
-----------------------------------------------------------------------------
(* GramIndex: what is gathered, what the merge has yet to write             *)

\* Chunk c holds or has spilled the posting of id under key.
Gathered(kind, c, key, id) ==
    \/ key \in DOMAIN sink[c][kind] /\ id \in ToSet(sink[c][kind][key])
    \/ \E n \in ToSet(segments[c][kind]) : key \in DOMAIN disk[n] /\ id \in disk[n][key]

\* It is one of a file that was extracted.
Due(kind, c, key, id) ==
    \E i \in 0 .. next[c] - 1 : id = c * PerChunk + i /\ key \in Keys(kind, files[id])

\* The segments of a chunk are on disk, each under a number of its own.
Spills(c, kind) ==
    \A n \in ToSet(segments[c][kind]) :
        /\ n \in DOMAIN disk
        /\ \E j \in 0 .. Len(segments[c][kind]) - 1 : n = Name(kind, c, j)
        /\ \A key \in DOMAIN disk[n] : disk[n][key] # {}

KeysOf(kind) == UNION {Keys(kind, files[id]) : id \in Ids}
FilesWith(kind, key) == {id \in Ids : key \in Keys(kind, files[id])}

Gathering ==
    /\ merged = [kind \in Kinds |-> <<>>]
    /\ \A c \in Chunks, kind \in Kinds :
          Spills(c, kind) /\ \A key, id : Gathered(kind, c, key, id) <=> Due(kind, c, key, id)

Entry == [key : Key, ids : SUBSET Ids]

\* What is written is in order, right, and all up to the last of it.
Merged(kind) ==
    /\ merged[kind] \in Seq(Entry)
    /\ \A i, j \in DOMAIN merged[kind] : i < j => Less(merged[kind][i].key, merged[kind][j].key)
    /\ \A i \in DOMAIN merged[kind] :
          /\ merged[kind][i].key \in KeysOf(kind)
          /\ merged[kind][i].ids = FilesWith(kind, merged[kind][i].key)
    /\ \A key \in KeysOf(kind) :
          ~ After(kind, key) => \E i \in DOMAIN merged[kind] : merged[kind][i].key = key

Merging ==
    \A kind \in Kinds :
        /\ KeysIn(kind) = KeysOf(kind)
        /\ \A key \in KeysIn(kind) : IdsOf(kind, key) = FilesWith(kind, key)
        /\ Merged(kind)

GramsType ==
    /\ phase \in {"extract", "merge", "built", "asked"}
    /\ files \in [Ids -> Seq(Nat)]
    /\ next \in [Chunks -> 0 .. PerChunk]
    /\ sink = [c \in Chunks |-> [kind \in Kinds |-> sink[c][kind]]]
    /\ merged = [kind \in Kinds |-> merged[kind]]
    /\ segments \in [Chunks -> [Kinds -> Seq(Kinds \X Nat \X Nat)]]
    /\ \A c \in Chunks, kind \in Kinds : Sink(sink[c][kind])

GramsInv ==
    /\ GramsType /\ HeldBounded
    /\ phase = "extract" => Gathering
    /\ phase = "merge" => Merging
    /\ SameIndex
-----------------------------------------------------------------------------
(* GramIndex: what a push adds                                              *)

Posted(map, key, id) == key \in DOMAIN map /\ id \in ToSet(map[key])

LEMMA AppendSet ==
    ASSUME NEW S, NEW s \in Seq(S), NEW x \in S
    PROVE  /\ ToSet(Append(s, x)) = ToSet(s) \cup {x}
           /\ Append(s, x) \in Seq(S) /\ Len(Append(s, x)) = Len(s) + 1 /\ Len(s) \in Nat
<1>1. /\ Append(s, x) \in Seq(S) /\ Len(Append(s, x)) = Len(s) + 1
      /\ DOMAIN Append(s, x) = 1 .. Len(s) + 1 /\ DOMAIN s = 1 .. Len(s) /\ Len(s) \in Nat
      /\ Append(s, x)[Len(s) + 1] = x /\ \A i \in 1 .. Len(s) : Append(s, x)[i] = s[i]
  OBVIOUS
<1>2. 1 .. Len(s) + 1 = 1 .. Len(s) \cup {Len(s) + 1}
  BY <1>1
<1> QED BY <1>1, <1>2 DEF ToSet

LEMMA PushIs ==
    ASSUME NEW ids \in Seq(Nat), NEW id \in Nat
    PROVE  Push(ids, id) \in Seq(Nat) /\ Push(ids, id) # <<>> /\ ToSet(Push(ids, id)) = ToSet(ids) \cup {id}
<1>1. CASE ids # <<>> /\ Last(ids) = id
  <2>1. Len(ids) \in DOMAIN ids /\ ids[Len(ids)] = id
    BY <1>1 DEF Last
  <2>2. id \in ToSet(ids)
    BY <2>1 DEF ToSet
  <2> QED BY <1>1, <2>2 DEF Push
<1>2. CASE ~ (ids # <<>> /\ Last(ids) = id)
  <2>1. Push(ids, id) = Append(ids, id)
    BY <1>2 DEF Push
  <2>2. Append(ids, id) \in Seq(Nat) /\ Append(ids, id) # <<>>
    <3>1. Append(ids, id) \in Seq(Nat) /\ Len(Append(ids, id)) = Len(ids) + 1 /\ Len(ids) \in Nat
      OBVIOUS
    <3>2. Len(<<>>) = 0
      OBVIOUS
    <3> QED BY <3>1, <3>2
  <2> QED BY <2>1, <2>2, AppendSet
<1> QED BY <1>1, <1>2

LEMMA PushAllIs ==
    ASSUME NEW map, Sink(map), NEW keys \in SUBSET Key, IsFiniteSet(keys), NEW id \in Nat,
           NEW new, new = PushAll(map, keys, id)
    PROVE  /\ Sink(new)
           /\ \A key, x : Posted(new, key, x) <=> Posted(map, key, x) \/ (key \in keys /\ x = id)
<1> DEFINE Old(key) == IF key \in DOMAIN map THEN map[key] ELSE <<>>
<1>1. /\ new = [key \in DOMAIN new |-> new[key]] /\ DOMAIN new = DOMAIN map \cup keys
      /\ \A key \in DOMAIN new : new[key] = IF key \in keys THEN Push(Old(key), id) ELSE Old(key)
  BY DEF PushAll
<1>2. \A key : Old(key) \in Seq(Nat)
  <2>1. <<>> \in Seq(Nat)
    OBVIOUS
  <2> QED BY <2>1 DEF Sink
<1>3. ASSUME NEW key, key \in keys
      PROVE  new[key] \in Seq(Nat) /\ new[key] # <<>> /\ ToSet(new[key]) = ToSet(Old(key)) \cup {id}
  <2>1. new[key] = Push(Old(key), id)
    BY <1>1, <1>3
  <2> HIDE DEF Old
  <2> QED BY <2>1, <1>2, PushIs
<1>4. ASSUME NEW key, key \in DOMAIN map, key \notin keys
      PROVE  new[key] = map[key]
  BY <1>1, <1>4
<1>5. Sink(new)
  <2>1. IsFiniteSet(DOMAIN new)
    <3>1. IsFiniteSet(DOMAIN map)
      BY DEF Sink
    <3>2. IsFiniteSet(DOMAIN map \cup keys)
      BY <3>1, FS_Union
    <3> QED BY <1>1, <3>2
  <2>2. \A key \in DOMAIN new : new[key] \in Seq(Nat) /\ new[key] # <<>>
    BY <1>1, <1>3, <1>4 DEF Sink
  <2>3. DOMAIN new \subseteq Key
    BY <1>1 DEF Sink
  <2>4. new = [key \in DOMAIN new |-> new[key]]
    BY <1>1
  <2> QED BY <2>1, <2>2, <2>3, <2>4 DEF Sink
<1>6. ASSUME NEW key, NEW x
      PROVE  Posted(new, key, x) <=> Posted(map, key, x) \/ (key \in keys /\ x = id)
  <2>1. CASE key \in keys
    <3>1. ToSet(<<>>) = {}
      BY DEF ToSet
    <3>2. x \in ToSet(Old(key)) <=> Posted(map, key, x)
      BY <3>1 DEF Posted
    <3> HIDE DEF Old
    <3> QED BY <1>1, <1>3, <2>1, <3>2 DEF Posted
  <2>2. CASE key \notin keys
    BY <1>1, <1>4, <2>2 DEF Posted
  <2> QED BY <2>1, <2>2
<1> QED BY <1>5, <1>6

\* Of the ids of a chunk.
LEMMA IdType ==
    ASSUME NEW c \in Chunks
    PROVE  /\ OwnNames \in Nat /\ Chunks \subseteq 0 .. OwnNames - 1 /\ c \in Nat /\ PerChunk \in Nat
           /\ \A i \in 0 .. PerChunk - 1 : c * PerChunk + i \in Ids /\ c * PerChunk + i \in Nat
<1>1. OwnNames \in Nat
  BY DEF OwnNames
<1>2. PerChunk \in Nat
  BY ChunksAssumption
<1> PICK n \in 1 .. OwnNames : Chunks = 0 .. n - 1
  BY ChunksAssumption
<1>3. c \in Nat /\ Chunks \subseteq 0 .. OwnNames - 1
  BY <1>1
<1>4. c * PerChunk \in Nat
  BY <1>2, <1>3
<1>5. \A i \in 0 .. PerChunk - 1 : c * PerChunk + i \in Nat
  <2> DEFINE d == c * PerChunk
  <2>1. d \in Nat
    BY <1>4
  <2> HIDE DEF d
  <2>2. \A i \in 0 .. PerChunk - 1 : d + i \in Nat
    BY <2>1, <1>2
  <2> QED BY <2>2 DEF d
<1>6. \A i \in 0 .. PerChunk - 1 : c * PerChunk + i \in Ids
  BY DEF Ids
<1> QED BY <1>1, <1>2, <1>3, <1>5, <1>6

LEMMA GramsInit == Init => GramsInv
<1> SUFFICES ASSUME Init PROVE GramsInv
  OBVIOUS
<1>1. /\ phase = "extract" /\ files \in Trees
      /\ next = [c \in Chunks |-> 0]
      /\ sink = [c \in Chunks |-> [k \in Kinds |-> NoMap]]
      /\ segments = [c \in Chunks |-> [k \in Kinds |-> <<>>]]
      /\ merged = [k \in Kinds |-> <<>>]
  BY DEF Init
<1>2. GramsType
  <2>1. files \in [Ids -> Seq(Nat)]
    BY <1>1, TreesAssumption
  <2>2. next \in [Chunks -> 0 .. PerChunk]
    BY <1>1, ChunksAssumption
  <2>3. \A c \in Chunks, kind \in Kinds : Sink(sink[c][kind])
    BY <1>1, EmptySink
  <2>4. segments \in [Chunks -> [Kinds -> Seq(Kinds \X Nat \X Nat)]]
    <3>1. <<>> \in Seq(Kinds \X Nat \X Nat)
      OBVIOUS
    <3> QED BY <1>1, <3>1
  <2>5. /\ sink = [c \in Chunks |-> [kind \in Kinds |-> sink[c][kind]]]
        /\ merged = [kind \in Kinds |-> merged[kind]]
    BY <1>1
  <2> QED BY <1>1, <2>1, <2>2, <2>3, <2>4, <2>5 DEF GramsType
<1>3. HeldBounded
  <2>1. Held(NoMap) < Budget
    BY EmptySink, HeldType, ChunksAssumption
  <2> QED BY <1>1, <2>1 DEF HeldBounded
<1>4. Gathering
  <2> SUFFICES ASSUME NEW c \in Chunks, NEW kind \in Kinds
               PROVE  Spills(c, kind) /\ \A key, id : Gathered(kind, c, key, id) <=> Due(kind, c, key, id)
    BY <1>1 DEF Gathering
  <2>1. sink[c][kind] = NoMap /\ DOMAIN NoMap = {} /\ segments[c][kind] = <<>> /\ ToSet(<<>>) = {} /\ next[c] = 0
    BY <1>1, EmptySink DEF ToSet
  <2>2. Spills(c, kind)
    BY <2>1 DEF Spills
  <2>3. \A key, id : ~ Gathered(kind, c, key, id)
    BY <2>1 DEF Gathered
  <2>4. \A key, id : ~ Due(kind, c, key, id)
    <3>1. 0 .. next[c] - 1 = {}
      BY <2>1
    <3> QED BY <3>1 DEF Due
  <2> QED BY <2>2, <2>3, <2>4
<1> QED BY <1>1, <1>2, <1>3, <1>4 DEF GramsInv, SameIndex
-----------------------------------------------------------------------------
(* GramIndex: one more file is extracted                                    *)

\* A name of a chunk's own that it has not used yet is no segment's.
LEMMA NewName ==
    ASSUME \A d \in Chunks, k \in Kinds : Spills(d, k), GramsType,
           NEW c \in Chunks, NEW k \in Kinds, NEW d \in Chunks, NEW m \in Kinds
    PROVE  Name(k, c, Len(segments[c][k])) \notin ToSet(segments[d][m])
<1> SUFFICES ASSUME Name(k, c, Len(segments[c][k])) \in ToSet(segments[d][m]) PROVE FALSE
  OBVIOUS
<1>1. PICK j \in 0 .. Len(segments[d][m]) - 1 : Name(k, c, Len(segments[c][k])) = Name(m, d, j)
  BY DEF Spills
<1>2. k = m /\ c = d /\ Len(segments[c][k]) = j
  BY <1>1 DEF Name
<1>3. Len(segments[c][k]) \in Nat
  BY DEF GramsType
<1> QED BY <1>2, <1>3

LEMMA FileKeys ==
    ASSUME GramsType, NEW id \in Ids, NEW kind
    PROVE  IsFiniteSet(Keys(kind, files[id])) /\ Keys(kind, files[id]) \subseteq Key
BY KeysType DEF GramsType

LEMMA GramsExtract ==
    ASSUME GramsInv, NEW c \in Chunks, Extract(c)
    PROVE  GramsInv'
<1> DEFINE id == c * PerChunk + next[c]
           new == [k \in Kinds |-> PushAll(sink[c][k], Keys(k, files[id]), id)]
           full == {k \in Kinds : Full(c, k, new[k])}
           NameOf(k) == Name(k, c, Len(segments[c][k]))
<1>0. /\ GramsType /\ HeldBounded /\ Gathering /\ phase = "extract" /\ phase' = "extract"
      /\ next[c] < PerChunk /\ next' = [next EXCEPT ![c] = @ + 1]
      /\ files' = files /\ merged' = merged
      /\ sink' = [sink EXCEPT ![c] = [k \in Kinds |-> IF k \in full THEN NoMap ELSE new[k]]]
      /\ Create([n \in {NameOf(k) : k \in full} |-> Segment(new[n[1]])])
      /\ segments' = [segments EXCEPT ![c] =
                        [k \in Kinds |-> IF k \in full THEN Append(@[k], NameOf(k)) ELSE @[k]]]
  BY DEF GramsInv, Extract
<1>1. /\ id \in Ids /\ id \in Nat /\ next[c] \in Nat /\ next[c] + 1 \in 0 .. PerChunk /\ PerChunk \in Nat
      /\ Chunks \subseteq 0 .. OwnNames - 1 /\ c \in Nat
  <2>1. next[c] \in 0 .. PerChunk /\ PerChunk \in Nat
    BY <1>0, IdType DEF GramsType
  <2>2. next[c] \in 0 .. PerChunk - 1
    BY <1>0, <2>1
  <2> QED BY <2>1, <2>2, IdType
<1>2. \A k \in Kinds :
        /\ Sink(new[k])
        /\ \A key, x : Posted(new[k], key, x) <=> Posted(sink[c][k], key, x) \/ (key \in Keys(k, files[id]) /\ x = id)
  <2> SUFFICES ASSUME NEW k \in Kinds
               PROVE  /\ Sink(new[k])
                      /\ \A key, x : Posted(new[k], key, x) <=>
                                        Posted(sink[c][k], key, x) \/ (key \in Keys(k, files[id]) /\ x = id)
    OBVIOUS
  <2>1. new[k] = PushAll(sink[c][k], Keys(k, files[id]), id)
    OBVIOUS
  <2>2. Sink(sink[c][k]) /\ IsFiniteSet(Keys(k, files[id])) /\ Keys(k, files[id]) \in SUBSET Key
    BY <1>0, <1>1, FileKeys DEF GramsType
  <2> HIDE DEF new, id
  <2> QED BY <1>1, <2>1, <2>2, PushAllIs
<1>3. \A d \in Chunks, k \in Kinds :
        sink'[d][k] = IF d = c THEN IF k \in full THEN NoMap ELSE new[k] ELSE sink[d][k]
  <2> HIDE DEF full, new
  <2> QED BY <1>0 DEF GramsType
<1>4. \A d \in Chunks, k \in Kinds :
        segments'[d][k] = IF d = c /\ k \in full THEN Append(segments[d][k], NameOf(k)) ELSE segments[d][k]
  <2> HIDE DEF full, NameOf
  <2> QED BY <1>0 DEF GramsType
<1>5. /\ \A d \in Chunks, m \in Kinds : \A n \in ToSet(segments[d][m]) : n \in DOMAIN disk' /\ disk'[n] = disk[n]
      /\ \A k \in full : NameOf(k) \in DOMAIN disk' /\ disk'[NameOf(k)] = Segment(new[k])
  <2>1. /\ DOMAIN disk' = {NameOf(k) : k \in full} \cup DOMAIN disk
        /\ \A n \in DOMAIN disk' : disk'[n] = IF n \in {NameOf(k) : k \in full} THEN Segment(new[n[1]]) ELSE disk[n]
    <3> DEFINE names == {NameOf(k) : k \in full}
               spill == [n \in names |-> Segment(new[n[1]])]
    <3>1. Create(spill) /\ DOMAIN spill = names /\ \A n \in names : spill[n] = Segment(new[n[1]])
      BY <1>0
    <3> HIDE DEF spill, names
    <3>3. DOMAIN disk' = names \cup DOMAIN disk
      BY <3>1 DEF Create
    <3>4. \A n \in names \cup DOMAIN disk : disk'[n] = IF n \in names THEN spill[n] ELSE disk[n]
      BY <3>1 DEF Create
    <3>5. \A n \in DOMAIN disk' : disk'[n] = IF n \in names THEN Segment(new[n[1]]) ELSE disk[n]
      BY <3>1, <3>3, <3>4
    <3> QED BY <3>3, <3>5 DEF names
  <2>2. \A k : NameOf(k)[1] = k
    BY DEF Name
  <2>3. \A d \in Chunks, m \in Kinds : \A n \in ToSet(segments[d][m]) :
           n \notin {NameOf(k) : k \in full} /\ n \in DOMAIN disk
    <3>1. \A d \in Chunks, k \in Kinds : Spills(d, k)
      BY <1>0 DEF Gathering
    <3>2. \A k \in Kinds, d \in Chunks, m \in Kinds : NameOf(k) \notin ToSet(segments[d][m])
      BY <1>0, <3>1, NewName
    <3>3. \A d \in Chunks, m \in Kinds : \A n \in ToSet(segments[d][m]) : n \in DOMAIN disk
      BY <3>1 DEF Spills
    <3>4. full \subseteq Kinds
      OBVIOUS
    <3> HIDE DEF full, NameOf
    <3> QED BY <3>2, <3>3, <3>4
  <2> HIDE DEF full, new, NameOf
  <2> QED BY <2>1, <2>2, <2>3
<1>6. \A k \in full : k \in Kinds /\ ToSet(segments'[c][k]) = ToSet(segments[c][k]) \cup {NameOf(k)}
                      /\ Len(segments'[c][k]) = Len(segments[c][k]) + 1
                      /\ segments'[c][k] \in Seq(Kinds \X Nat \X Nat)
                      /\ Len(segments[c][k]) \in Nat
  <2> SUFFICES ASSUME NEW k \in full
               PROVE  k \in Kinds /\ ToSet(segments'[c][k]) = ToSet(segments[c][k]) \cup {NameOf(k)}
                      /\ Len(segments'[c][k]) = Len(segments[c][k]) + 1
                      /\ segments'[c][k] \in Seq(Kinds \X Nat \X Nat)
                      /\ Len(segments[c][k]) \in Nat
    OBVIOUS
  <2>1. k \in Kinds
    OBVIOUS
  <2>2. segments[c][k] \in Seq(Kinds \X Nat \X Nat)
    BY <1>0, <2>1 DEF GramsType
  <2>3. NameOf(k) \in Kinds \X Nat \X Nat
    BY <1>1, <2>1, <2>2 DEF Name
  <2>4. segments'[c][k] = Append(segments[c][k], NameOf(k))
    BY <1>4, <2>1
  <2>5. /\ ToSet(segments'[c][k]) = ToSet(segments[c][k]) \cup {NameOf(k)}
        /\ Len(segments'[c][k]) = Len(segments[c][k]) + 1
        /\ segments'[c][k] \in Seq(Kinds \X Nat \X Nat)
        /\ Len(segments[c][k]) \in Nat
    <3> DEFINE s == segments[c][k]  t == segments'[c][k]  n == NameOf(k)
    <3>1. s \in Seq(Kinds \X Nat \X Nat) /\ n \in Kinds \X Nat \X Nat /\ t = Append(s, n)
      BY <2>2, <2>3, <2>4
    <3> HIDE DEF s, t, n
    <3>2. ToSet(t) = ToSet(s) \cup {n} /\ Len(t) = Len(s) + 1 /\ t \in Seq(Kinds \X Nat \X Nat) /\ Len(s) \in Nat
      BY ONLY <3>1, AppendSet
    <3> QED BY ONLY <3>2 DEF s, t, n
  <2> QED BY <2>1, <2>5
<1> HIDE DEF id, new, full, NameOf
<1>7. GramsType'
  <2>1. next' \in [Chunks -> 0 .. PerChunk]
    BY <1>0, <1>1 DEF GramsType
  <2>2. sink' = [d \in Chunks |-> [k \in Kinds |-> sink'[d][k]]]
    BY <1>0 DEF GramsType
  <2>3. segments' \in [Chunks -> [Kinds -> Seq(Kinds \X Nat \X Nat)]]
    <3>1. \A d \in Chunks, k \in Kinds : segments'[d][k] \in Seq(Kinds \X Nat \X Nat)
      <4> SUFFICES ASSUME NEW d \in Chunks, NEW k \in Kinds PROVE segments'[d][k] \in Seq(Kinds \X Nat \X Nat)
        OBVIOUS
      <4>1. segments[d][k] \in Seq(Kinds \X Nat \X Nat)
        BY <1>0 DEF GramsType
      <4>2. CASE d = c /\ k \in full
        BY <1>6, <4>2
      <4>3. CASE ~ (d = c /\ k \in full)
        BY <1>4, <4>1, <4>3
      <4> QED BY <4>2, <4>3
    <3>2. segments' = [d \in Chunks |-> [k \in Kinds |-> segments'[d][k]]]
      <4> DEFINE row == [k \in Kinds |-> IF k \in full THEN Append(segments[c][k], NameOf(k)) ELSE segments[c][k]]
      <4>1. segments' = [segments EXCEPT ![c] = row]
        BY <1>0
      <4>2. row = [k \in Kinds |-> row[k]] /\ segments = [d \in Chunks |-> [k \in Kinds |-> segments[d][k]]]
        BY <1>0 DEF GramsType
      <4> HIDE DEF row
      <4> QED BY <4>1, <4>2
    <3> QED BY <3>1, <3>2
  <2>4. \A d \in Chunks, k \in Kinds : Sink(sink'[d][k])
    BY <1>0, <1>2, <1>3, EmptySink DEF GramsType
  <2> QED BY <1>0, <2>1, <2>2, <2>3, <2>4 DEF GramsType
<1>8. HeldBounded'
  <2> SUFFICES ASSUME NEW d \in Chunks, NEW k \in Kinds PROVE Held(sink'[d][k]) < Budget
    BY DEF HeldBounded
  <2>0. Budget \in Nat \ {0} /\ Held(NoMap) = 0
    BY ChunksAssumption, EmptySink, HeldType
  <2>1. CASE d # c
    BY <1>0, <1>3, <2>1 DEF HeldBounded
  <2>2. CASE d = c /\ k \in full
    BY <1>3, <2>0, <2>2
  <2>3. CASE d = c /\ k \notin full
    <3>1. ~ Full(c, k, new[k]) /\ sink'[d][k] = new[k]
      BY <1>3, <2>3 DEF full
    <3>2. Held(new[k]) \in Nat
      BY <1>2, HeldType
    <3> QED BY <3>1, <3>2, <2>0 DEF Full
  <2> QED BY <2>1, <2>2, <2>3
<1>9. Gathering'
  <2>0. merged' = [k \in Kinds |-> <<>>]
    BY <1>0 DEF Gathering
  <2> SUFFICES ASSUME NEW d \in Chunks, NEW k \in Kinds
               PROVE  Spills(d, k)' /\ (\A key, x : Gathered(k, d, key, x) <=> Due(k, d, key, x))'
    BY <2>0 DEF Gathering
  <2>1. Spills(d, k) /\ \A key, x : Gathered(k, d, key, x) <=> Due(k, d, key, x)
    BY <1>0 DEF Gathering
  <2>2. CASE d # c
    <3>1. /\ sink'[d][k] = sink[d][k] /\ segments'[d][k] = segments[d][k] /\ next'[d] = next[d]
      BY <1>0, <1>3, <1>4, <2>2 DEF GramsType
    <3>2. Spills(d, k)'
      BY <1>5, <2>1, <3>1 DEF Spills
    <3>3. ASSUME NEW key, NEW x PROVE Gathered(k, d, key, x)' <=> Due(k, d, key, x)'
      <4>1. Gathered(k, d, key, x)' <=> Gathered(k, d, key, x)
        BY <1>5, <2>1, <3>1 DEF Gathered, Spills
      <4>2. Due(k, d, key, x)' <=> Due(k, d, key, x)
        BY <1>0, <3>1 DEF Due
      <4> QED BY <2>1, <4>1, <4>2
    <3> QED BY <3>2, <3>3
  <2>3. CASE d = c
    <3>1. Spills(d, k)'
      <4> SUFFICES ASSUME NEW n \in ToSet(segments'[c][k])
                   PROVE  /\ n \in DOMAIN disk'
                          /\ \E j \in 0 .. Len(segments'[c][k]) - 1 : n = Name(k, c, j)
                          /\ \A key \in DOMAIN disk'[n] : disk'[n][key] # {}
        BY <2>3 DEF Spills
      <4>1. CASE n \in ToSet(segments[c][k])
        <5>1. n \in DOMAIN disk' /\ \A key \in DOMAIN disk'[n] : disk'[n][key] # {}
          BY <1>5, <2>1, <2>3, <4>1 DEF Spills
        <5>2. PICK j \in 0 .. Len(segments[c][k]) - 1 : n = Name(k, c, j)
          BY <2>1, <2>3, <4>1 DEF Spills
        <5>3. j \in 0 .. Len(segments'[c][k]) - 1
          <6>1. Len(segments[c][k]) \in Nat
            BY <1>0 DEF GramsType
          <6>2. Len(segments'[c][k]) = Len(segments[c][k]) + 1 \/ segments'[c][k] = segments[c][k]
            BY <1>4, <1>6
          <6> QED BY <6>1, <6>2
        <5> QED BY <5>1, <5>2, <5>3
      <4>2. CASE n \notin ToSet(segments[c][k])
        <5>1. k \in full /\ n = NameOf(k)
          BY <1>4, <1>6, <4>2
        <5>2. n \in DOMAIN disk' /\ disk'[n] = Segment(new[k])
          BY <1>5, <5>1
        <5>3. \A key \in DOMAIN disk'[n] : disk'[n][key] # {}
          <6>1. \A key \in DOMAIN new[k] : new[k][key] \in Seq(Nat) /\ new[k][key] # <<>>
            BY <1>2, <5>1 DEF Sink, full
          <6>2. \A s \in Seq(Nat) : s # <<>> => ToSet(s) # {}
            <7>1. \A s \in Seq(Nat) : s # <<>> => 1 \in DOMAIN s
              OBVIOUS
            <7> QED BY <7>1 DEF ToSet
          <6> QED BY <5>2, <6>1, <6>2 DEF Segment
        <5>4. \E j \in 0 .. Len(segments'[c][k]) - 1 : n = Name(k, c, j)
          <6>1. Len(segments[c][k]) \in 0 .. Len(segments'[c][k]) - 1
            BY <1>6, <5>1
          <6> QED BY <5>1, <6>1 DEF NameOf
        <5> QED BY <5>2, <5>3, <5>4
      <4> QED BY <4>1, <4>2
    <3>2. ASSUME NEW key, NEW x PROVE Gathered(k, d, key, x)' <=> Due(k, d, key, x)'
      <4> DEFINE fresh == key \in Keys(k, files[id]) /\ x = id
                 spilled == \E n \in ToSet(segments[c][k]) : key \in DOMAIN disk[n] /\ x \in disk[n][key]
      <4>1. Gathered(k, d, key, x) <=> Posted(sink[c][k], key, x) \/ spilled
        BY <2>3 DEF Gathered, Posted
      <4>2. Gathered(k, d, key, x)' <=> Posted(new[k], key, x) \/ spilled
        <5>1. spilled <=> \E n \in ToSet(segments[c][k]) : key \in DOMAIN disk'[n] /\ x \in disk'[n][key]
          BY <1>5
        <5>2. CASE k \in full
          <6>1. sink'[c][k] = NoMap /\ DOMAIN NoMap = {}
            BY <1>3, <5>2, EmptySink
          <6>2. key \in DOMAIN disk'[NameOf(k)] /\ x \in disk'[NameOf(k)][key] <=> Posted(new[k], key, x)
            BY <1>5, <5>2 DEF Segment, Posted
          <6>3. Gathered(k, d, key, x)' <=>
                  \E n \in ToSet(segments[c][k]) \cup {NameOf(k)} : key \in DOMAIN disk'[n] /\ x \in disk'[n][key]
            BY <1>6, <2>3, <5>2, <6>1 DEF Gathered
          <6> HIDE DEF spilled
          <6> QED BY <5>1, <6>2, <6>3
        <5>3. CASE k \notin full
          <6>1. sink'[c][k] = new[k] /\ segments'[c][k] = segments[c][k]
            BY <1>3, <1>4, <5>3
          <6> QED BY <2>3, <5>1, <6>1 DEF Gathered, Posted
        <5> QED BY <5>2, <5>3
      <4>3. Posted(new[k], key, x) <=> Posted(sink[c][k], key, x) \/ fresh
        BY <1>2
      <4>4. Due(k, d, key, x)' <=> Due(k, d, key, x) \/ fresh
        <5>1. next'[c] = next[c] + 1 /\ next[c] \in Nat
          BY <1>0, <1>1 DEF GramsType
        <5>2. 0 .. next'[c] - 1 = (0 .. next[c] - 1) \cup {next[c]}
          BY <5>1
        <5>3. Due(k, c, key, x)' <=>
                \E i \in (0 .. next[c] - 1) \cup {next[c]} : x = c * PerChunk + i /\ key \in Keys(k, files[x])
          BY <1>0, <5>2 DEF Due
        <5>4. Due(k, c, key, x) <=> \E i \in 0 .. next[c] - 1 : x = c * PerChunk + i /\ key \in Keys(k, files[x])
          BY DEF Due
        <5>5. fresh <=> x = c * PerChunk + next[c] /\ key \in Keys(k, files[x])
          BY DEF id
        <5> HIDE DEF fresh
        <5> QED BY <2>3, <5>3, <5>4, <5>5
      <4>5. Gathered(k, d, key, x) <=> Due(k, d, key, x)
        BY <2>1
      <4> HIDE DEF fresh, spilled
      <4> QED BY <4>1, <4>2, <4>3, <4>4, <4>5
    <3> QED BY <2>3, <3>1, <3>2
  <2> QED BY <2>2, <2>3
<1> QED BY <1>0, <1>7, <1>8, <1>9 DEF GramsInv, SameIndex
-----------------------------------------------------------------------------
(* GramIndex: all is collected                                              *)

\* A key is held where a posting under it is.
HasKey(kind, c, key) ==
    key \in DOMAIN sink[c][kind] \/ \E n \in ToSet(segments[c][kind]) : key \in DOMAIN disk[n]

LEMMA KeyGathered ==
    ASSUME GramsType, NEW kind \in Kinds, NEW c \in Chunks, Spills(c, kind), NEW key
    PROVE  HasKey(kind, c, key) <=> \E id : Gathered(kind, c, key, id)
<1>1. ASSUME key \in DOMAIN sink[c][kind] PROVE \E id : id \in ToSet(sink[c][kind][key])
  <2>1. sink[c][kind][key] \in Seq(Nat) /\ sink[c][kind][key] # <<>>
    BY <1>1 DEF GramsType, Sink
  <2>2. 1 \in DOMAIN sink[c][kind][key]
    BY <2>1
  <2> QED BY <2>2 DEF ToSet
<1>2. ASSUME NEW n \in ToSet(segments[c][kind]), key \in DOMAIN disk[n] PROVE \E id : id \in disk[n][key]
  BY <1>2 DEF Spills
<1> QED BY <1>1, <1>2 DEF HasKey, Gathered

\* When every file is extracted what is gathered is what the files hold.
LEMMA AllGathered ==
    ASSUME GramsType, Gathering, Extracted, NEW kind \in Kinds, NEW key, NEW id
    PROVE  (\E c \in Chunks : Gathered(kind, c, key, id)) <=> id \in FilesWith(kind, key)
<1>1. ASSUME NEW c \in Chunks
      PROVE  Gathered(kind, c, key, id) <=>
                \E i \in 0 .. PerChunk - 1 : id = c * PerChunk + i /\ key \in Keys(kind, files[id])
  <2>1. Gathered(kind, c, key, id) <=> Due(kind, c, key, id)
    BY DEF Gathering
  <2>2. next[c] = PerChunk
    BY DEF Extracted
  <2> QED BY <2>1, <2>2 DEF Due
<1> QED BY <1>1 DEF FilesWith, Ids

RestName(kind, c) ==
    IF segments[c][kind] # <<>> THEN Name(kind, c, Len(segments[c][kind])) ELSE Name(kind, OwnNames + c, 0)

\* The names of what is left are new, and each is of one chunk and kind.
LEMMA RestNames ==
    ASSUME GramsType, \A d \in Chunks, k \in Kinds : Spills(d, k),
           NEW c \in Chunks, NEW k \in Kinds, NEW d \in Chunks, NEW m \in Kinds
    PROVE  /\ RestName(k, c) \notin ToSet(segments[d][m])
           /\ RestName(k, c) = RestName(m, d) => k = m /\ c = d
<1>1. /\ OwnNames \in Nat /\ c \in Nat /\ d \in Nat /\ c < OwnNames /\ d < OwnNames
      /\ OwnNames + c # d /\ OwnNames + d # c /\ (OwnNames + c = OwnNames + d => c = d)
  <2>1. OwnNames \in Nat /\ c \in 0 .. OwnNames - 1 /\ d \in 0 .. OwnNames - 1
    BY IdType
  <2> QED BY <2>1
<1>2. RestName(k, c)[1] = k /\ RestName(k, c)[2] \in {c, OwnNames + c}
  BY DEF RestName, Name
<1>3. RestName(m, d)[1] = m /\ RestName(m, d)[2] \in {d, OwnNames + d}
  BY DEF RestName, Name
<1>4. ASSUME RestName(k, c) \in ToSet(segments[d][m]) PROVE FALSE
  <2>1. CASE segments[c][k] # <<>>
    BY <1>4, <2>1, NewName DEF RestName
  <2>2. CASE segments[c][k] = <<>>
    <3>1. PICK j \in 0 .. Len(segments[d][m]) - 1 : RestName(k, c) = Name(m, d, j)
      BY <1>4 DEF Spills
    <3>2. RestName(k, c)[2] = d
      BY <3>1 DEF Name
    <3>3. RestName(k, c)[2] = OwnNames + c
      BY <2>2 DEF RestName, Name
    <3> QED BY <1>1, <3>2, <3>3
  <2> QED BY <2>1, <2>2
<1> QED BY <1>1, <1>2, <1>3, <1>4

LEMMA GramsCollect ==
    ASSUME GramsInv, Collect
    PROVE  GramsInv'
<1>a. /\ GramsType /\ HeldBounded /\ phase' = "merge"
      /\ files' = files /\ next' = next /\ sink' = sink /\ segments' = segments /\ merged' = merged
  BY DEF GramsInv, Collect
<1>1. GramsType' /\ HeldBounded'
  <2>1. GramsType'
    BY ONLY <1>a DEF GramsType
  <2>2. HeldBounded'
    BY ONLY <1>a DEF HeldBounded
  <2> QED BY <2>1, <2>2
<1> DEFINE RestOf(n) == CHOOSE kc \in Kinds \X Chunks : n \in Rest(kc[1], kc[2])
           rests == UNION {Rest(k, c) : k \in Kinds, c \in Chunks}
           new == [n \in rests |-> Segment(sink[RestOf(n)[2]][RestOf(n)[1]])]
<1>0. /\ GramsType /\ HeldBounded /\ Gathering /\ phase' = "merge" /\ Extracted
      /\ files' = files /\ next' = next /\ sink' = sink /\ segments' = segments /\ merged' = merged
      /\ Create(new)
      /\ input' = [k \in Kinds |-> UNION {ToSet(segments[c][k]) \cup Rest(k, c) : c \in Chunks}]
  <2>1. GramsInv /\ phase = "extract"
    BY DEF Collect
  <2>2. Gathering
    BY ONLY <2>1 DEF GramsInv
  <2>3. Create(new)
    BY DEF Collect
  <2>4. Extracted /\ input' = [k \in Kinds |-> UNION {ToSet(segments[c][k]) \cup Rest(k, c) : c \in Chunks}]
    BY DEF Collect
  <2> QED BY <1>a, <2>2, <2>3, <2>4
<1>2. \A d \in Chunks, k \in Kinds : Spills(d, k)
  BY <1>0 DEF Gathering
<1>3. \A k \in Kinds, c \in Chunks : \A n \in Rest(k, c) :
         n = RestName(k, c) /\ Spilled(k) /\ sink[c][k] # NoMap
  BY DEF Rest, RestName
<1>4. ASSUME NEW k \in Kinds, NEW c \in Chunks, NEW n \in Rest(k, c)
      PROVE  n \in DOMAIN disk' /\ disk'[n] = Segment(sink[c][k])
  <2>1. n \in rests
    OBVIOUS
  <2>2. RestOf(n) = <<k, c>>
    <3>1. <<k, c>> \in Kinds \X Chunks /\ n \in Rest(<<k, c>>[1], <<k, c>>[2])
      OBVIOUS
    <3>2. RestOf(n) \in Kinds \X Chunks /\ n \in Rest(RestOf(n)[1], RestOf(n)[2])
      BY <3>1
    <3> DEFINE kc == RestOf(n)
    <3>3. kc \in Kinds \X Chunks /\ n \in Rest(kc[1], kc[2])
      BY <3>2
    <3> HIDE DEF kc, rests, RestOf, new
    <3>4. PICK m \in Kinds, d \in Chunks : kc = <<m, d>>
      BY <3>3
    <3>5. n = RestName(k, c) /\ n = RestName(m, d)
      BY <1>3, <3>3, <3>4
    <3>6. RestName(k, c) = RestName(m, d) => k = m /\ c = d
      BY <1>0, <1>2, RestNames
    <3> QED BY <3>4, <3>5, <3>6 DEF kc
  <2>3. DOMAIN new = rests /\ new[n] = Segment(sink[c][k])
    <3> HIDE DEF RestOf, rests
    <3>1. DOMAIN new = rests /\ new[n] = Segment(sink[RestOf(n)[2]][RestOf(n)[1]])
      BY <2>1
    <3>2. sink[RestOf(n)[2]][RestOf(n)[1]] = sink[c][k]
      BY <2>2
    <3> HIDE DEF new
    <3> QED BY <3>1, <3>2
  <2> HIDE DEF rests, RestOf, new
  <2> QED BY <1>0, <2>1, <2>3 DEF Create
<1>5. ASSUME NEW k \in Kinds, NEW c \in Chunks, NEW n \in ToSet(segments[c][k])
      PROVE  n \in DOMAIN disk' /\ disk'[n] = disk[n]
  <2>1. n \notin rests
    BY <1>0, <1>2, <1>3, RestNames
  <2>2. DOMAIN new = rests
    OBVIOUS
  <2>3. n \in DOMAIN disk
    BY <1>2 DEF Spills
  <2> HIDE DEF rests, RestOf, new
  <2> QED BY <1>0, <2>1, <2>2, <2>3 DEF Create
<1> HIDE DEF rests, RestOf, new
<1>6. ASSUME NEW k \in Kinds, NEW key
      PROVE  /\ (key \in KeysIn(k))' <=> \E c \in Chunks : HasKey(k, c, key)
             /\ \A id : (id \in IdsOf(k, key))' <=> \E c \in Chunks : Gathered(k, c, key, id)
  <2>1. Spilled(k)' <=> Spilled(k)
    BY <1>0 DEF Spilled
  <2>2. CASE ~ Spilled(k)
    <3>1. \A c \in Chunks : segments[c][k] = <<>> /\ ToSet(<<>>) = {}
      BY <2>2 DEF Spilled, ToSet
    <3>2. KeysIn(k)' = UNION {DOMAIN sink[c][k] : c \in Chunks}
      BY <1>0, <2>1, <2>2 DEF KeysIn
    <3>3. IdsOf(k, key)' = UNION {ToSet(sink[c][k][key]) : c \in {d \in Chunks : key \in DOMAIN sink[d][k]}}
      BY <1>0, <2>1, <2>2 DEF IdsOf
    <3>4. (key \in KeysIn(k))' <=> \E c \in Chunks : HasKey(k, c, key)
      BY <3>1, <3>2 DEF HasKey
    <3>5. ASSUME NEW id PROVE (id \in IdsOf(k, key))' <=> \E c \in Chunks : Gathered(k, c, key, id)
      BY <3>1, <3>3 DEF Gathered
    <3> QED BY <3>4, <3>5
  <2>3. CASE Spilled(k)
    <3>1. /\ KeysIn(k)' = UNION {DOMAIN disk'[n] : n \in input'[k]}
          /\ IdsOf(k, key)' = UNION {disk'[n][key] : n \in {m \in input'[k] : key \in DOMAIN disk'[m]}}
      BY <2>1, <2>3 DEF KeysIn, IdsOf
    <3>2. \A n : n \in input'[k] <=> \E c \in Chunks : n \in ToSet(segments[c][k]) \/ n \in Rest(k, c)
      BY <1>0
    <3>3. \A c \in Chunks : sink[c][k] # NoMap => RestName(k, c) \in Rest(k, c)
      BY <2>3 DEF Rest, RestName
    <3>4. \A c \in Chunks : sink[c][k] = NoMap => DOMAIN sink[c][k] = {} /\ Rest(k, c) = {}
      BY EmptySink DEF Rest
    <3>5. ASSUME NEW c \in Chunks
          PROVE  /\ (\E n \in Rest(k, c) : key \in DOMAIN disk'[n]) <=> key \in DOMAIN sink[c][k]
                 /\ \A id : (\E n \in Rest(k, c) : key \in DOMAIN disk'[n] /\ id \in disk'[n][key])
                                <=> key \in DOMAIN sink[c][k] /\ id \in ToSet(sink[c][k][key])
      <4>1. \A n \in Rest(k, c) : /\ key \in DOMAIN disk'[n] <=> key \in DOMAIN sink[c][k]
                                  /\ key \in DOMAIN sink[c][k] => disk'[n][key] = ToSet(sink[c][k][key])
        <5> SUFFICES ASSUME NEW n \in Rest(k, c)
                     PROVE  /\ key \in DOMAIN disk'[n] <=> key \in DOMAIN sink[c][k]
                            /\ key \in DOMAIN sink[c][k] => disk'[n][key] = ToSet(sink[c][k][key])
          OBVIOUS
        <5>1. disk'[n] = Segment(sink[c][k])
          BY <1>4
        <5> QED BY <5>1 DEF Segment
      <4> QED BY <3>3, <3>4, <4>1
    <3>6. (key \in KeysIn(k))' <=> \E c \in Chunks : HasKey(k, c, key)
      <4>1. (key \in KeysIn(k))' <=>
              \E c \in Chunks : \/ \E n \in Rest(k, c) : key \in DOMAIN disk'[n]
                                \/ \E n \in ToSet(segments[c][k]) : key \in DOMAIN disk'[n]
        BY <3>1, <3>2
      <4>2. \A c \in Chunks : (\E n \in ToSet(segments[c][k]) : key \in DOMAIN disk'[n])
                                 <=> \E n \in ToSet(segments[c][k]) : key \in DOMAIN disk[n]
        BY <1>5
      <4> QED BY <3>5, <4>1, <4>2 DEF HasKey
    <3>7. ASSUME NEW id PROVE (id \in IdsOf(k, key))' <=> \E c \in Chunks : Gathered(k, c, key, id)
      <4>1. (id \in IdsOf(k, key))' <=>
              \E c \in Chunks : \/ \E n \in Rest(k, c) : key \in DOMAIN disk'[n] /\ id \in disk'[n][key]
                                \/ \E n \in ToSet(segments[c][k]) : key \in DOMAIN disk'[n] /\ id \in disk'[n][key]
        BY <3>1, <3>2
      <4>2. \A c \in Chunks : (\E n \in ToSet(segments[c][k]) : key \in DOMAIN disk'[n] /\ id \in disk'[n][key])
                                 <=> \E n \in ToSet(segments[c][k]) : key \in DOMAIN disk[n] /\ id \in disk[n][key]
        BY <1>5
      <4> QED BY <3>5, <4>1, <4>2 DEF Gathered
    <3> QED BY <3>6, <3>7
  <2> QED BY <2>2, <2>3
<1>7. Merging'
  <2> SUFFICES ASSUME NEW k \in Kinds
               PROVE  /\ (KeysIn(k) = KeysOf(k))'
                      /\ (\A key \in KeysIn(k) : IdsOf(k, key) = FilesWith(k, key))'
                      /\ Merged(k)'
    BY DEF Merging
  <2>0. KeysOf(k)' = KeysOf(k) /\ \A key : FilesWith(k, key)' = FilesWith(k, key)
    BY <1>0 DEF KeysOf, FilesWith
  <2>1. ASSUME NEW key PROVE (key \in KeysIn(k))' <=> key \in KeysOf(k)
    <3>1. key \in KeysOf(k) <=> \E id : id \in FilesWith(k, key)
      BY DEF KeysOf, FilesWith
    <3>2. (\E c \in Chunks : HasKey(k, c, key)) <=> \E c \in Chunks : \E id : Gathered(k, c, key, id)
      BY <1>0, <1>2, KeyGathered
    <3>3. \A id : (\E c \in Chunks : Gathered(k, c, key, id)) <=> id \in FilesWith(k, key)
      BY <1>0, AllGathered
    <3> QED BY <1>6, <3>1, <3>2, <3>3
  <2>2. ASSUME NEW key PROVE IdsOf(k, key)' = FilesWith(k, key)
    <3>1. \A id : (\E c \in Chunks : Gathered(k, c, key, id)) <=> id \in FilesWith(k, key)
      BY <1>0, AllGathered
    <3> QED BY <1>6, <3>1
  <2>3. Merged(k)'
    <3>1. merged'[k] = <<>> /\ <<>> \in Seq(Entry) /\ DOMAIN <<>> = {}
      BY <1>0 DEF Gathering
    <3>2. \A key : After(k, key)'
      BY <3>1 DEF After
    <3> QED BY <3>1, <3>2 DEF Merged
  <2> QED BY <2>0, <2>1, <2>2, <2>3
<1> QED BY <1>0, <1>1, <1>7 DEF GramsInv, SameIndex
-----------------------------------------------------------------------------
(* GramIndex: the merge, and what comes after it                            *)

LEMMA KeysOfType ==
    ASSUME GramsType, NEW kind
    PROVE  KeysOf(kind) \subseteq Key /\ \A key : FilesWith(kind, key) \subseteq Ids
BY FileKeys DEF KeysOf, FilesWith

\* The entry of the least key not yet written goes last.
LEMMA MergedNext ==
    ASSUME GramsType, NEW kind \in Kinds, Merged(kind),
           NEW key \in KeysOf(kind), After(kind, key),
           \A other \in KeysOf(kind) : After(kind, other) => other = key \/ Less(key, other),
           files' = files, merged'[kind] = Append(merged[kind], [key |-> key, ids |-> FilesWith(kind, key)])
    PROVE  Merged(kind)'
<1> DEFINE s == merged[kind]
           e == [key |-> key, ids |-> FilesWith(kind, key)]
           t == merged'[kind]
<1>0. KeysOf(kind)' = KeysOf(kind) /\ \A k : FilesWith(kind, k)' = FilesWith(kind, k)
  BY DEF KeysOf, FilesWith
<1>1. s \in Seq(Entry) /\ e \in Entry /\ e.key = key /\ e.ids = FilesWith(kind, key) /\ key \in Key
  BY KeysOfType DEF Merged, Entry
<1>2. t = Append(s, e)
  OBVIOUS
<1>3. /\ \A i, j \in DOMAIN s : i < j => Less(s[i].key, s[j].key)
      /\ \A i \in DOMAIN s : s[i].key \in KeysOf(kind) /\ s[i].ids = FilesWith(kind, s[i].key)
      /\ \A k \in KeysOf(kind) : ~ After(kind, k) => \E i \in DOMAIN s : s[i].key = k
  BY DEF Merged
<1>4. \A k : After(kind, k) <=> s = <<>> \/ Less(Last(s).key, k)
  BY DEF After
<1>5. \A k : After(kind, k)' <=> t = <<>> \/ Less(Last(t).key, k)
  BY DEF After
<1> HIDE DEF s, e, t
<1>6. /\ t \in Seq(Entry) /\ Len(s) \in Nat /\ Len(t) = Len(s) + 1 /\ DOMAIN s = 1 .. Len(s) /\ DOMAIN t = 1 .. Len(s) + 1
      /\ t[Len(s) + 1] = e /\ \A i \in 1 .. Len(s) : t[i] = s[i]
      /\ t # <<>> /\ Last(t) = e
  <2>1. /\ t \in Seq(Entry) /\ Len(s) \in Nat /\ Len(t) = Len(s) + 1 /\ DOMAIN s = 1 .. Len(s)
        /\ DOMAIN t = 1 .. Len(s) + 1
        /\ t[Len(s) + 1] = e /\ \A i \in 1 .. Len(s) : t[i] = s[i]
    BY <1>1, <1>2
  <2>2. t # <<>>
    BY <2>1
  <2> QED BY <2>1, <2>2 DEF Last
<1>7. \A i \in 1 .. Len(s) : Less(s[i].key, key)
  <2> SUFFICES ASSUME NEW i \in 1 .. Len(s) PROVE Less(s[i].key, key)
    OBVIOUS
  <2>1. s # <<>> /\ Last(s) = s[Len(s)] /\ Len(s) \in 1 .. Len(s)
    BY <1>1, <1>6 DEF Last
  <2>2. Less(s[Len(s)].key, key)
    BY <1>4, <2>1
  <2>3. CASE i = Len(s)
    BY <2>2, <2>3
  <2>4. CASE i # Len(s)
    <3> DEFINE m == Len(s)
    <3>0. i < m /\ i \in DOMAIN s /\ m \in DOMAIN s
      <4>1. m \in Nat /\ DOMAIN s = 1 .. m /\ i \in 1 .. m /\ m \in 1 .. m /\ i # m
        BY <1>6, <2>1, <2>4
      <4> HIDE DEF m
      <4> QED BY <4>1
    <3> HIDE DEF m
    <3>1. Less(s[i].key, s[m].key)
      BY <1>3, <3>0
    <3>2. s[i] \in Entry /\ s[m] \in Entry
      BY <1>1, <3>0
    <3>3. s[i].key \in Key /\ s[m].key \in Key
      BY <3>2 DEF Entry
    <3>4. Less(s[m].key, key)
      BY <2>2 DEF m
    <3> QED BY <1>1, <3>1, <3>3, <3>4, LessTransitive
  <2> QED BY <2>3, <2>4
<1>8. \A i, j \in DOMAIN t : i < j => Less(t[i].key, t[j].key)
  <2> SUFFICES ASSUME NEW i \in DOMAIN t, NEW j \in DOMAIN t, i < j PROVE Less(t[i].key, t[j].key)
    OBVIOUS
  <2>0. i \in 1 .. Len(s)
    BY <1>6
  <2>1. CASE j = Len(s) + 1
    BY <1>1, <1>6, <1>7, <2>0, <2>1
  <2>2. CASE j # Len(s) + 1
    <3>1. j \in 1 .. Len(s)
      BY <1>6, <2>2
    <3> QED BY <1>3, <1>6, <2>0, <3>1
  <2> QED BY <2>1, <2>2
<1>9. \A i \in DOMAIN t : t[i].key \in KeysOf(kind) /\ t[i].ids = FilesWith(kind, t[i].key)
  <2> SUFFICES ASSUME NEW i \in DOMAIN t
               PROVE  t[i].key \in KeysOf(kind) /\ t[i].ids = FilesWith(kind, t[i].key)
    OBVIOUS
  <2>1. CASE i = Len(s) + 1
    BY <1>1, <1>6, <2>1
  <2>2. CASE i # Len(s) + 1
    <3>1. i \in DOMAIN s /\ t[i] = s[i]
      BY <1>6, <2>2
    <3> QED BY <1>3, <3>1
  <2> QED BY <2>1, <2>2
<1>10. \A k \in KeysOf(kind) : ~ After(kind, k)' => \E i \in DOMAIN t : t[i].key = k
  <2> SUFFICES ASSUME NEW k \in KeysOf(kind), ~ After(kind, k)' PROVE \E i \in DOMAIN t : t[i].key = k
    OBVIOUS
  <2>1. ~ Less(key, k)
    BY <1>1, <1>5, <1>6
  <2>2. CASE After(kind, k)
    <3>1. k = key
      BY <2>1, <2>2
    <3>2. Len(s) + 1 \in DOMAIN t
      BY <1>6
    <3> QED BY <1>1, <1>6, <3>1, <3>2
  <2>3. CASE ~ After(kind, k)
    <3>1. PICK i \in DOMAIN s : s[i].key = k
      BY <1>3, <2>3
    <3>2. i \in DOMAIN t /\ t[i] = s[i]
      BY <1>6
    <3> QED BY <3>1, <3>2
  <2> QED BY <2>2, <2>3
<1> QED BY <1>0, <1>6, <1>8, <1>9, <1>10 DEF Merged, t

LEMMA GramsMergeOne ==
    ASSUME GramsInv, NEW kind \in Kinds, MergeOne(kind)
    PROVE  GramsInv'
<1>1. /\ GramsType /\ HeldBounded /\ Merging /\ phase = "merge" /\ phase' = "merge"
      /\ files' = files /\ next' = next /\ sink' = sink /\ disk' = disk
      /\ segments' = segments /\ input' = input
  BY DEF GramsInv, MergeOne
<1>2. GramsType' /\ HeldBounded'
  <2>1. merged' = [k \in Kinds |-> merged'[k]]
    BY <1>1 DEF MergeOne, GramsType
  <2> QED BY <1>1, <2>1 DEF GramsType, HeldBounded
<1>3. \A k \in Kinds : /\ KeysIn(k) = KeysOf(k) /\ KeysIn(k)' = KeysIn(k) /\ KeysOf(k)' = KeysOf(k)
                       /\ \A key : IdsOf(k, key)' = IdsOf(k, key) /\ FilesWith(k, key)' = FilesWith(k, key)
                       /\ \A key \in KeysIn(k) : IdsOf(k, key) = FilesWith(k, key)
                       /\ Merged(k)
  <2>1. \A k : KeysIn(k)' = KeysIn(k) /\ KeysOf(k)' = KeysOf(k)
    BY <1>1 DEF KeysIn, KeysOf, Spilled
  <2>2. \A k, key : IdsOf(k, key)' = IdsOf(k, key) /\ FilesWith(k, key)' = FilesWith(k, key)
    BY <1>1 DEF IdsOf, FilesWith, Spilled
  <2> QED BY <1>1, <2>1, <2>2 DEF Merging
<1>4. PICK key \in KeysIn(kind) :
         /\ After(kind, key)
         /\ \A other \in KeysIn(kind) : After(kind, other) => other = key \/ Less(key, other)
         /\ merged' = [merged EXCEPT ![kind] = Append(@, [key |-> key, ids |-> IdsOf(kind, key)])]
  BY DEF MergeOne
<1>5. ASSUME NEW k \in Kinds PROVE Merged(k)'
  <2>1. CASE k = kind
    <3>1. merged'[kind] = Append(merged[kind], [key |-> key, ids |-> FilesWith(kind, key)])
      <4>1. merged = [m \in Kinds |-> merged[m]] /\ IdsOf(kind, key) = FilesWith(kind, key)
        BY <1>1, <1>3 DEF GramsType
      <4> QED BY <1>4, <4>1
    <3>2. key \in KeysOf(kind) /\ \A other \in KeysOf(kind) : After(kind, other) => other = key \/ Less(key, other)
      BY <1>3, <1>4
    <3>3. Merged(kind) /\ GramsType /\ After(kind, key) /\ files' = files
      BY <1>1, <1>3, <1>4
    <3> QED BY <2>1, <3>1, <3>2, <3>3, MergedNext
  <2>2. CASE k # kind
    <3>1. merged'[k] = merged[k]
      BY <1>4, <2>2
    <3> QED BY <1>1, <1>3, <3>1 DEF Merged, After
  <2> QED BY <2>1, <2>2
<1>6. Merging'
  BY <1>3, <1>5 DEF Merging
<1> QED BY <1>1, <1>2, <1>6 DEF GramsInv, SameIndex

\* With nothing after what is written, it is the whole index.
LEMMA MergedAll ==
    ASSUME NEW kind \in Kinds, Merged(kind), \A key \in KeysOf(kind) : ~ After(kind, key)
    PROVE  /\ \A i, j \in DOMAIN merged[kind] : i < j => Less(merged[kind][i].key, merged[kind][j].key)
           /\ {e.key : e \in ToSet(merged[kind])} = UNION {Keys(kind, files[id]) : id \in Ids}
           /\ \A e \in ToSet(merged[kind]) : e.ids = {id \in Ids : e.key \in Keys(kind, files[id])}
<1>1. {e.key : e \in ToSet(merged[kind])} = KeysOf(kind)
  BY DEF Merged, ToSet
<1>2. \A e \in ToSet(merged[kind]) : e.ids = FilesWith(kind, e.key)
  BY DEF Merged, ToSet
<1> QED BY <1>1, <1>2 DEF Merged, KeysOf, FilesWith

LEMMA GramsMergeEnds ==
    ASSUME GramsInv, MergeEnds
    PROVE  GramsInv'
<1>1. /\ GramsType /\ Merging /\ phase' = "built"
      /\ \A kind \in Kinds : \A key \in KeysIn(kind) : ~ After(kind, key)
      /\ sink' = [c \in Chunks |-> [k \in Kinds |-> NoMap]]
      /\ files' = files /\ next' = next /\ segments' = segments /\ merged' = merged
  BY DEF GramsInv, MergeEnds
<1>2. GramsType'
  <2>1. \A c \in Chunks, k \in Kinds : Sink(sink'[c][k])
    BY <1>1, EmptySink
  <2>2. sink' = [c \in Chunks |-> [k \in Kinds |-> sink'[c][k]]]
    BY <1>1
  <2> QED BY <1>1, <2>1, <2>2 DEF GramsType
<1>3. HeldBounded'
  <2>1. Held(NoMap) < Budget
    BY EmptySink, HeldType, ChunksAssumption
  <2> QED BY <1>1, <2>1 DEF HeldBounded
<1>4. SameIndex'
  <2>1. \A kind \in Kinds : Merged(kind) /\ \A key \in KeysOf(kind) : ~ After(kind, key)
    BY <1>1 DEF Merging
  <2>2. SameIndex' <=>
          \A kind \in Kinds :
            /\ \A i, j \in DOMAIN merged[kind] : i < j => Less(merged[kind][i].key, merged[kind][j].key)
            /\ {e.key : e \in ToSet(merged[kind])} = UNION {Keys(kind, files[id]) : id \in Ids}
            /\ \A e \in ToSet(merged[kind]) : e.ids = {id \in Ids : e.key \in Keys(kind, files[id])}
    BY <1>1 DEF SameIndex
  <2> QED BY <2>1, <2>2, MergedAll
<1> QED BY <1>1, <1>2, <1>3, <1>4 DEF GramsInv

LEMMA GramsAfter ==
    ASSUME GramsInv, phase \in {"built", "asked"}, phase' \in {"built", "asked"},
           UNCHANGED <<files, next, sink, segments, merged>>
    PROVE  GramsInv'
<1>1. /\ files' = files /\ next' = next /\ sink' = sink /\ segments' = segments /\ merged' = merged
  OBVIOUS
<1>2. GramsType' /\ HeldBounded'
  BY <1>1 DEF GramsInv, GramsType, HeldBounded
<1>3. SameIndex'
  BY <1>1 DEF GramsInv, SameIndex
<1> QED BY <1>2, <1>3 DEF GramsInv

LEMMA GramsSame ==
    ASSUME GramsInv, UNCHANGED vars
    PROVE  GramsInv'
<1>1. /\ phase' = phase /\ files' = files /\ next' = next /\ sink' = sink /\ disk' = disk
      /\ segments' = segments /\ input' = input /\ merged' = merged
  BY DEF vars
<1>2. (GramsType' <=> GramsType) /\ (HeldBounded' <=> HeldBounded) /\ (SameIndex' <=> SameIndex)
  BY <1>1 DEF GramsType, HeldBounded, SameIndex
<1>3. Gathering' <=> Gathering
  BY <1>1 DEF Gathering, Spills, Gathered, Due
<1>4. Merging' <=> Merging
  BY <1>1 DEF Merging, KeysIn, IdsOf, KeysOf, FilesWith, Merged, After, Spilled
<1> QED BY <1>1, <1>2, <1>3, <1>4 DEF GramsInv

LEMMA GramsNext == GramsInv /\ [Next]_vars => GramsInv'
<1> SUFFICES ASSUME GramsInv, [Next]_vars PROVE GramsInv'
  OBVIOUS
<1>1. ASSUME NEW c \in Chunks, Extract(c) PROVE GramsInv'
  BY <1>1, GramsExtract
<1>2. CASE Collect
  BY <1>2, GramsCollect
<1>3. ASSUME NEW k \in Kinds, MergeOne(k) PROVE GramsInv'
  BY <1>3, GramsMergeOne
<1>4. CASE MergeEnds
  BY <1>4, GramsMergeEnds
<1>5. ASSUME NEW id \in Ids, NEW s \in Contents, Change(id, s) PROVE GramsInv'
  BY <1>5, GramsAfter DEF Change
<1>6. ASSUME NEW h \in Regexes, NEW word \in BOOLEAN, Ask(h, word) PROVE GramsInv'
  BY <1>6, GramsAfter DEF Ask
<1>7. CASE UNCHANGED vars
  BY <1>7, GramsSame
<1> QED BY <1>1, <1>2, <1>3, <1>4, <1>5, <1>6, <1>7 DEF Next
-----------------------------------------------------------------------------

PartsInv == GramsInv /\ BudgetInv

LEMMA PartsAlways == PartsSpec => []PartsInv
<1>1. PartsInit => PartsInv
  BY GramsInit, BudgetInit DEF PartsInit, PartsInv
<1>2. PartsInv /\ [PartsNext]_parts => PartsInv'
  <2> SUFFICES ASSUME PartsInv, [PartsNext]_parts PROVE PartsInv'
    OBVIOUS
  <2>1. [Next]_vars
    BY DEF PartsNext, Parse, parts
  <2>2. [P!Next]_parseVars
    BY DEF PartsNext, Parse, parts
  <2> QED BY <2>1, <2>2, GramsNext, BudgetNext DEF PartsInv
<1> QED BY <1>1, <1>2, PTL DEF PartsSpec

(* An index is what its files hold, in key order, every key once, however    *)
(* often any chunk spilled and whichever never did: for any trees, any       *)
(* number and size of chunks and any budget (external.rs `Sink`, `collect`,  *)
(* `Merger`).                                                                *)
THEOREM BudgetChangesNothing == PartsSpec => []SameIndex
<1>1. PartsInv => SameIndex
  BY DEF PartsInv, GramsInv
<1> QED BY <1>1, PartsAlways, PTL

(* For any threads, files and budgets: what the parses hold and what is left *)
(* is the budget, so they never hold more, and between files no chunk holds  *)
(* its share or more (build.rs `ParseBudget`, external.rs `spill_if_full`).  *)
THEOREM MemoryStaysBounded == PartsSpec => []MemoryBounded
<1>1. PartsInv => MemoryBounded
  BY BudgetMeans DEF PartsInv, GramsInv, MemoryBounded
<1> QED BY <1>1, PartsAlways, PTL
=============================================================================
