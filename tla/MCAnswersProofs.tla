--------------------------- MODULE MCAnswersProofs ---------------------------
(***************************************************************************)
(* Proofs about MCAnswers: that a cut answer is within its limits and as   *)
(* long as they allow (Fit), that what `def` and `impls` list is at its    *)
(* line, complete, and listed once (Listing), that `impact` grades every   *)
(* use once and rightly (Impact), that `diff` reports every change of a    *)
(* definition and nothing else (Change), and that its searches are those   *)
(* of Lines.                                                               *)
(***************************************************************************)
EXTENDS MCAnswers, FiniteSetTheorems, SequenceTheorems, WellFoundedInduction, TLAPS

-----------------------------------------------------------------------------
(* Recursions that end: next[s] is nearer to the end than s.                *)

LEMMA LeastNumber ==
    ASSUME NEW T \in SUBSET Nat, T # {}
    PROVE  \E x \in T : \A y \in T : x <= y
<1> DEFINE R == OpToRel(<, Nat)
<1>1. PICK x \in T : \A y \in T : ~ (<<y, x>> \in R)
  BY NatLessThanWellFounded, WFMin
<1>2. \A y \in T : ~ (y < x)
  BY <1>1 DEF OpToRel
<1> QED BY <1>2

Solves(f, S, done, result, after) ==
    f = [s \in S |-> IF s \in done THEN result[s] ELSE f[after[s]]]
Nearer(S, done, after, far) ==
    /\ done \in SUBSET S
    /\ far \in [S -> Nat]
    /\ \A s \in S \ done : after[s] \in S /\ far[after[s]] < far[s]
\* From J the recursion stays in J, and ends in G.
Stays(J, S, done, result, after, G) ==
    /\ J \in SUBSET S
    /\ \A s \in J \ done : after[s] \in J
    /\ \A s \in J \cap done : result[s] \in G

LEMMA Solvable ==
    ASSUME NEW S, NEW done, NEW result, NEW after, NEW far, Nearer(S, done, after, far),
           NEW N \in Nat, \A s \in S : far[s] < N
    PROVE  \E f : Solves(f, S, done, result, after)
<1> DEFINE Close(n) == {s \in S : far[s] < n}
           Bad == {n \in Nat : \A f : ~ Solves(f, Close(n), done, result, after)}
<1>1. SUFFICES ASSUME Bad # {} PROVE FALSE
  <2>1. PICK f : Solves(f, Close(N), done, result, after)
    BY <1>1
  <2>2. Close(N) = S
    OBVIOUS
  <2> QED BY <2>1, <2>2
<1>2. PICK m \in Bad : \A k \in Bad : m <= k
  BY <1>1, LeastNumber
<1>3. m # 0
  <2> DEFINE f == [s \in Close(0) |-> IF s \in done THEN result[s] ELSE 0]
  <2>1. Close(0) = {}
    BY DEF Nearer
  <2>2. Solves(f, Close(0), done, result, after)
    BY <2>1 DEF Solves
  <2> QED BY <1>2, <2>2
<1>4. m - 1 \in Nat /\ m - 1 \notin Bad
  BY <1>2, <1>3
<1>5. PICK f : Solves(f, Close(m - 1), done, result, after)
  BY <1>4
<1> DEFINE g == [s \in Close(m) |-> IF s \in done THEN result[s] ELSE f[after[s]]]
<1>6. \A s \in Close(m) \ done : after[s] \in Close(m - 1) /\ after[s] \in Close(m)
  BY <1>2 DEF Nearer
<1>7. \A s \in Close(m - 1) : f[s] = IF s \in done THEN result[s] ELSE f[after[s]]
  BY <1>5 DEF Solves
<1>8. \A s \in Close(m - 1) : s \in Close(m) /\ g[s] = f[s]
  BY <1>2, <1>7 DEF Nearer
<1>9. \A s \in Close(m) : g[s] = IF s \in done THEN result[s] ELSE g[after[s]]
  BY <1>6, <1>8
<1>10. g = [s \in Close(m) |-> IF s \in done THEN result[s] ELSE g[after[s]]]
  <2> HIDE DEF Close
  <2> DEFINE h == [s \in Close(m) |-> IF s \in done THEN result[s] ELSE g[after[s]]]
  <2>1. DOMAIN h = Close(m) /\ \A s \in Close(m) : h[s] = g[s]
    BY <1>9
  <2>2. h = [s \in Close(m) |-> h[s]] /\ g = [s \in Close(m) |-> g[s]]
    OBVIOUS
  <2> HIDE DEF h, g
  <2>3. [s \in Close(m) |-> h[s]] = [s \in Close(m) |-> g[s]]
    BY <2>1
  <2>4. h = g
    BY <2>2, <2>3
  <2> QED BY <2>4 DEF h
<1>11. Solves(g, Close(m), done, result, after)
  BY <1>10 DEF Solves
<1> QED BY <1>2, <1>11

LEMMA AtTheEnd ==
    ASSUME NEW S, NEW done, NEW result, NEW after, NEW far, Nearer(S, done, after, far),
           NEW f, Solves(f, S, done, result, after), NEW J, NEW G, Stays(J, S, done, result, after, G)
    PROVE  \A s \in J : f[s] \in G
<1>1. SUFFICES ASSUME NEW s0 \in J, f[s0] \notin G PROVE FALSE
  OBVIOUS
<1> DEFINE T == {far[s] : s \in {r \in J : f[r] \notin G}}
<1>2. T \in SUBSET Nat /\ T # {}
  BY <1>1 DEF Nearer, Stays
<1>3. PICK n \in T : \A k \in T : n <= k
  BY <1>2, LeastNumber
<1>4. PICK s \in J : f[s] \notin G /\ n = far[s]
  BY <1>3
<1>5. f[s] = IF s \in done THEN result[s] ELSE f[after[s]]
  BY <1>4 DEF Solves, Stays
<1>6. s \notin done
  BY <1>4, <1>5 DEF Stays
<1>7. after[s] \in J /\ f[after[s]] \notin G
  BY <1>4, <1>5, <1>6 DEF Stays
<1>8. far[after[s]] \in T
  BY <1>7
<1>9. far[after[s]] < n /\ n \in Nat /\ far[after[s]] \in Nat
  BY <1>2, <1>4, <1>6, <1>7, <1>8 DEF Nearer, Stays
<1>10. n <= far[after[s]]
  BY <1>3, <1>8
<1> QED BY <1>9, <1>10

-----------------------------------------------------------------------------
(* Fit: what the searches find.                                             *)

LEMMA TopNat == Top \in Nat \ {0} /\ F!Rows = 0 .. Top /\ F!None = -1
BY FitAssumption DEF F!Assumption, F!Rows, F!None

\* The last that passes before one that does not, or before `over`.
BestBelow(over, passing) ==
    {r \in F!Rows \cup {F!None} :
        r < over /\ (r \in passing \/ r = F!None) /\ (r + 1 \notin passing \/ r + 1 = over)}

LEMMA MiddleBetween ==
    ASSUME NEW s \in F!Open, s.lo < s.hi
    PROVE  F!Middle(s) \in F!Rows /\ s.lo <= F!Middle(s) /\ F!Middle(s) < s.hi
BY TopNat DEF F!Open, F!Middle

LEMMA Bisected ==
    ASSUME NEW lo \in F!Rows, NEW hi \in F!Rows, NEW best \in F!Rows \cup {F!None}, NEW over \in F!Rows, NEW passing,
           best = lo - 1, lo <= hi, hi <= over, hi \notin passing \/ hi = over, best \in passing \/ best = F!None
    PROVE  F!Bisect(lo, hi, best, passing) \in BestBelow(over, passing)
<1> DEFINE S == F!Open
           done == {s \in F!Open : s.lo >= s.hi}
           result == [s \in F!Open |-> s.best]
           after == [s \in F!Open |-> F!Narrow(s, passing)]
           far == [s \in F!Open |-> IF s.lo < s.hi THEN s.hi - s.lo ELSE 0]
           b == CHOOSE f : f = [s \in F!Open |-> IF s.lo >= s.hi THEN s.best ELSE f[F!Narrow(s, passing)]]
           J == {s \in F!Open : /\ s.best = s.lo - 1 /\ s.lo <= s.hi /\ s.hi <= over
                                /\ s.hi \notin passing \/ s.hi = over
                                /\ s.best \in passing \/ s.best = F!None}
           first == [lo |-> lo, hi |-> hi, best |-> best]
<1>1. \A s \in S \ done :
        /\ after[s] \in S /\ far[after[s]] < far[s]
        /\ s \in J => after[s] \in J
  <2>1. SUFFICES ASSUME NEW s \in F!Open, s.lo < s.hi
                 PROVE  /\ F!Narrow(s, passing) \in F!Open /\ far[F!Narrow(s, passing)] < far[s]
                        /\ s \in J => F!Narrow(s, passing) \in J
    <3>1. \A s \in S \ done : s \in F!Open /\ s.lo < s.hi /\ after[s] = F!Narrow(s, passing)
      BY TopNat DEF F!Open
    <3> HIDE DEF S, done, after, far, J
    <3>2. \A s \in S \ done : after[s] \in F!Open /\ far[after[s]] < far[s] /\ (s \in J => after[s] \in J)
      BY <3>1, <2>1
    <3> QED BY <3>2 DEF S
  <2>2. F!Middle(s) \in F!Rows /\ s.lo <= F!Middle(s) /\ F!Middle(s) < s.hi
    BY <2>1, MiddleBetween
  <2>3. s.lo \in F!Rows /\ s.hi \in F!Rows /\ s.best \in F!Rows \cup {F!None}
        /\ s = [lo |-> s.lo, hi |-> s.hi, best |-> s.best]
    BY DEF F!Open
  <2>4. CASE F!Middle(s) \in passing
    <3>1. F!Narrow(s, passing) = [lo |-> F!Middle(s) + 1, hi |-> s.hi, best |-> F!Middle(s)]
      BY <2>3, <2>4 DEF F!Narrow, F!Open
    <3> HIDE DEF after, b
    <3>2. F!Narrow(s, passing) \in F!Open
      BY <3>1, <2>2, <2>3, TopNat DEF F!Open
    <3> QED BY <3>1, <3>2, <2>2, <2>3, <2>4, TopNat
  <2>5. CASE F!Middle(s) \notin passing
    <3>1. F!Narrow(s, passing) = [lo |-> s.lo, hi |-> F!Middle(s), best |-> s.best]
      BY <2>3, <2>5 DEF F!Narrow, F!Open
    <3>2. F!Narrow(s, passing) \in F!Open
      BY <3>1, <2>2, <2>3 DEF F!Open
    <3> QED BY <3>1, <3>2, <2>2, <2>3, <2>5, TopNat
  <2> QED BY <2>4, <2>5
<1>2. far \in [S -> Nat] /\ \A s \in S : far[s] < Top + 1
  BY TopNat DEF F!Open
<1>3. Nearer(S, done, after, far)
  BY <1>1, <1>2 DEF Nearer
<1>4. PICK g : Solves(g, S, done, result, after)
  <2> DEFINE N == Top + 1
  <2>1. N \in Nat /\ \A s \in S : far[s] < N
    BY <1>2, TopNat
  <2> HIDE DEF done, after, far, result, N, S
  <2> QED BY <1>3, <2>1, Solvable
<1>5. Solves(b, S, done, result, after)
  <2>1. \A f : Solves(f, S, done, result, after)
               <=> f = [s \in F!Open |-> IF s.lo >= s.hi THEN s.best ELSE f[F!Narrow(s, passing)]]
    <3>1. SUFFICES ASSUME NEW f
                   PROVE  [s \in F!Open |-> IF s \in done THEN result[s] ELSE f[after[s]]]
                          = [s \in F!Open |-> IF s.lo >= s.hi THEN s.best ELSE f[F!Narrow(s, passing)]]
      BY DEF Solves
    <3> QED OBVIOUS
  <2> QED BY <1>4, <2>1
<1>6. J \in SUBSET S /\ \A s \in J \ done : after[s] \in J
  BY <1>1
<1>7. \A s \in J \cap done : result[s] \in BestBelow(over, passing)
  <2>1. SUFFICES ASSUME NEW s \in J, s.lo >= s.hi PROVE s.best \in BestBelow(over, passing)
    OBVIOUS
  <2>2. s.lo \in F!Rows /\ s.hi \in F!Rows /\ s.best \in F!Rows \cup {F!None}
    BY DEF F!Open
  <2>3. s.lo = s.hi /\ s.best + 1 = s.hi /\ s.best < over
    BY <2>1, <2>2, TopNat
  <2> QED BY <2>2, <2>3 DEF BestBelow
<1>8. first \in J
  BY DEF F!Open
<1>9. b[first] \in BestBelow(over, passing)
  <2> DEFINE G == BestBelow(over, passing)
  <2> HIDE DEF done, after, far, result, b, J, first, G, S
  <2> SUFFICES b[first] \in G
    BY DEF G
  <2>1. Stays(J, S, done, result, after, G)
    BY <1>6, <1>7 DEF G, Stays
  <2> QED BY <1>3, <1>5, <1>8, <2>1, AtTheEnd
<1>10. F!Bisect(lo, hi, best, passing) = b[first]
  BY DEF F!Bisect
<1> QED BY <1>9, <1>10

LEMMA LargestFound ==
    ASSUME NEW passing, Top \notin passing
    PROVE  F!Largest(Top, passing) \in BestBelow(Top, passing)
<1>1. F!Bisect(0, Top, F!None, passing) \in BestBelow(Top, passing)
  BY TopNat, Bisected
<1> QED BY <1>1 DEF F!Largest

LEMMA LargestBelowFound ==
    ASSUME NEW over \in F!Rows, NEW passing
    PROVE  F!LargestBelow(over, passing) \in BestBelow(over, passing)
<1> DEFINE S == F!Probes
           done == {s \in F!Probes : s.at >= s.hi}
           result == [s \in F!Probes |-> F!Bisect(s.lo, s.hi, s.best, passing)]
           after == [s \in F!Probes |-> F!Probe(s, passing)]
           far == [s \in F!Probes |-> IF s.at < s.hi THEN s.hi - s.at ELSE 0]
           d == CHOOSE f : f = [s \in F!Probes |-> IF s.at >= s.hi THEN F!Bisect(s.lo, s.hi, s.best, passing)
                                                   ELSE f[F!Probe(s, passing)]]
           J == {s \in F!Probes : /\ s.best = s.lo - 1 /\ s.lo <= s.hi /\ s.hi <= over /\ s.lo <= s.at
                                  /\ s.hi \notin passing \/ s.hi = over
                                  /\ s.best \in passing \/ s.best = F!None}
           first == [at |-> 0, lo |-> 0, hi |-> over, best |-> F!None]
<1>1. \A s \in S \ done :
        /\ after[s] \in S /\ far[after[s]] < far[s]
        /\ s \in J => after[s] \in J
  <2>1. SUFFICES ASSUME NEW s \in F!Probes, s.at < s.hi
                 PROVE  /\ F!Probe(s, passing) \in F!Probes /\ far[F!Probe(s, passing)] < far[s]
                        /\ s \in J => F!Probe(s, passing) \in J
    <3>1. \A s \in S \ done : s \in F!Probes /\ s.at < s.hi /\ after[s] = F!Probe(s, passing)
      BY TopNat DEF F!Probes
    <3> HIDE DEF S, done, after, far, J
    <3>2. \A s \in S \ done : after[s] \in F!Probes /\ far[after[s]] < far[s] /\ (s \in J => after[s] \in J)
      BY <3>1, <2>1
    <3> QED BY <3>2 DEF S
  <2>2. s.lo \in F!Rows /\ s.hi \in F!Rows /\ s.best \in F!Rows \cup {F!None} /\ s.at \in 0 .. 2 * Top
        /\ s = [at |-> s.at, lo |-> s.lo, hi |-> s.hi, best |-> s.best]
    BY DEF F!Probes
  <2>3. F!Twice(s.at) \in 0 .. 2 * Top /\ s.at < F!Twice(s.at) /\ s.at \in F!Rows /\ s.at + 1 \in F!Rows
    BY <2>1, <2>2, TopNat DEF F!Twice
  <2>4. CASE s.at \in passing
    <3>1. F!Probe(s, passing) = [at |-> F!Twice(s.at), lo |-> s.at + 1, hi |-> s.hi, best |-> s.at]
      BY <2>2, <2>4 DEF F!Probe, F!Probes
    <3>2. F!Probe(s, passing) \in F!Probes
      BY <3>1, <2>2, <2>3 DEF F!Probes
    <3> QED BY <3>1, <3>2, <2>1, <2>2, <2>3, <2>4, TopNat
  <2>5. CASE s.at \notin passing
    <3>1. F!Probe(s, passing) = [at |-> F!Twice(s.at), lo |-> s.lo, hi |-> s.at, best |-> s.best]
      BY <2>2, <2>5 DEF F!Probe, F!Probes
    <3>2. F!Probe(s, passing) \in F!Probes
      BY <3>1, <2>2, <2>3 DEF F!Probes
    <3> QED BY <3>1, <3>2, <2>1, <2>2, <2>3, <2>5, TopNat
  <2> QED BY <2>4, <2>5
<1>2. far \in [S -> Nat] /\ \A s \in S : far[s] < Top + 1
  BY TopNat DEF F!Probes
<1>3. Nearer(S, done, after, far)
  BY <1>1, <1>2 DEF Nearer
<1>4. PICK g : Solves(g, S, done, result, after)
  <2> DEFINE N == Top + 1
  <2>1. N \in Nat /\ \A s \in S : far[s] < N
    BY <1>2, TopNat
  <2> HIDE DEF done, after, far, result, N, S
  <2> QED BY <1>3, <2>1, Solvable
<1>5. Solves(d, S, done, result, after)
  <2>1. \A f : Solves(f, S, done, result, after)
               <=> f = [s \in F!Probes |-> IF s.at >= s.hi THEN F!Bisect(s.lo, s.hi, s.best, passing)
                                           ELSE f[F!Probe(s, passing)]]
    <3>1. SUFFICES ASSUME NEW f
                   PROVE  [s \in F!Probes |-> IF s \in done THEN result[s] ELSE f[after[s]]]
                          = [s \in F!Probes |-> IF s.at >= s.hi THEN F!Bisect(s.lo, s.hi, s.best, passing)
                                                ELSE f[F!Probe(s, passing)]]
      BY DEF Solves
    <3> QED OBVIOUS
  <2> QED BY <1>4, <2>1
<1>6. J \in SUBSET S /\ \A s \in J \ done : after[s] \in J
  BY <1>1
<1>7. \A s \in J \cap done : result[s] \in BestBelow(over, passing)
  <2>1. SUFFICES ASSUME NEW s \in J PROVE F!Bisect(s.lo, s.hi, s.best, passing) \in BestBelow(over, passing)
    OBVIOUS
  <2>2. s.lo \in F!Rows /\ s.hi \in F!Rows /\ s.best \in F!Rows \cup {F!None}
    BY DEF F!Probes
  <2> QED BY <2>2, Bisected
<1>8. first \in J
  BY TopNat DEF F!Probes
<1>9. d[first] \in BestBelow(over, passing)
  <2> DEFINE G == BestBelow(over, passing)
  <2> HIDE DEF done, after, far, result, d, J, first, G, S
  <2> SUFFICES d[first] \in G
    BY DEF G
  <2>1. Stays(J, S, done, result, after, G)
    BY <1>6, <1>7 DEF G, Stays
  <2> QED BY <1>3, <1>5, <1>8, <2>1, AtTheEnd
<1>10. F!LargestBelow(over, passing) = d[first]
  BY DEF F!LargestBelow
<1> QED BY <1>9, <1>10

FitTyped ==
    given \in [size : [F!Rows -> Nat], tokens : [F!Rows -> Nat], budget : Nat, ceiling : Nat, whole : BOOLEAN]

LEMMA ScaledBelow ==
    ASSUME FitTyped, NEW n \in F!Rows, n > 1, ~ F!SizeFits(n)
    PROVE  F!Scaled(n) \in F!Rows /\ 1 <= F!Scaled(n) /\ F!Scaled(n) < n
<1>1. given.size[n] \in Nat /\ given.size[n] > 0 /\ given.ceiling \in Nat
  BY DEF FitTyped, F!SizeFits
<1> DEFINE x == (n * given.ceiling * 97) \div (given.size[n] * 100)
<1>2. x \in Int
  <2> DEFINE a == n * given.ceiling * 97
             c == given.size[n] * 100
  <2>1. a \in Int
    <3>1. n * given.ceiling \in Int
      BY <1>1, TopNat
    <3> QED BY <3>1
  <2>2. c \in Int /\ c > 0
    BY <1>1
  <2> HIDE DEF a, c
  <2>3. a \div c \in Int
    BY <2>1, <2>2
  <2> QED BY <2>3 DEF a, c
<1> HIDE DEF x
<1>3. F!Scaled(n) = F!Clamp(x, 1, n - 1)
  BY DEF F!Scaled, x
<1> QED BY <1>2, <1>3, TopNat DEF F!Clamp

LEMMA ScaleFits ==
    ASSUME FitTyped, ~ F!SizeFits(Top)
    PROVE  LET r == F!Scale[[over |-> Top, left |-> 6]]
           IN  r \in [lo : F!Rows, over : F!Rows, left : 0 .. 4] /\ (r.lo = 1 \/ F!SizeFits(r.lo))
<1> DEFINE S == [over : {n \in F!Rows : ~ F!SizeFits(n)}, left : 0 .. 6]
           done == {s \in S : s.left = 0 \/ s.over <= 1 \/ F!SizeFits(F!Scaled(s.over)) \/ F!Scaled(s.over) = 1}
           result == [s \in S |-> IF s.left = 0 \/ s.over <= 1 THEN [lo |-> 1, over |-> s.over, left |-> 4]
                                  ELSE [lo |-> F!Scaled(s.over), over |-> s.over, left |-> 4]]
           after == [s \in S |-> [over |-> F!Scaled(s.over), left |-> s.left - 1]]
           far == [s \in S |-> s.left]
           G == {r \in [lo : F!Rows, over : F!Rows, left : 0 .. 4] : r.lo = 1 \/ F!SizeFits(r.lo)}
           first == [over |-> Top, left |-> 6]
<1>1. \A s \in S : s.over \in F!Rows /\ ~ F!SizeFits(s.over) /\ s.left \in 0 .. 6 /\ far[s] = s.left
  OBVIOUS
<1>2. \A s \in S : s.over > 1 => F!Scaled(s.over) \in F!Rows /\ 1 <= F!Scaled(s.over)
  BY <1>1, ScaledBelow
<1>3. \A s \in S \ done : after[s] \in S /\ far[after[s]] < far[s]
  <2>1. SUFFICES ASSUME NEW s \in S \ done PROVE after[s] \in S /\ far[after[s]] < far[s]
    OBVIOUS
  <2>2. s \in S /\ s.left # 0 /\ s.over > 1 /\ ~ F!SizeFits(F!Scaled(s.over))
    BY <1>1, TopNat
  <2>3. after[s] = [over |-> F!Scaled(s.over), left |-> s.left - 1]
    BY <2>2
  <2>4. after[s].over = F!Scaled(s.over) /\ after[s].left = s.left - 1 /\ s.left - 1 \in 0 .. 6
    BY <2>2, <2>3, <1>1
  <2>5. after[s] \in S
    BY <1>2, <2>2, <2>3, <2>4
  <2> QED BY <1>1, <2>2, <2>4, <2>5
<1>4. Nearer(S, done, after, far) /\ \A s \in S : far[s] < 7
  BY <1>1, <1>3 DEF Nearer
<1>5. PICK g : Solves(g, S, done, result, after)
  <2> HIDE DEF S, done, after, far, result
  <2>1. 7 \in Nat
    OBVIOUS
  <2> QED BY <1>4, <2>1, Solvable
<1>6. Solves(F!Scale, S, done, result, after)
  <2> DEFINE Body(f) == [s \in S |->
                IF s.left = 0 \/ s.over <= 1 THEN [lo |-> 1, over |-> s.over, left |-> 4]
                ELSE IF F!SizeFits(F!Scaled(s.over)) \/ F!Scaled(s.over) = 1
                     THEN [lo |-> F!Scaled(s.over), over |-> s.over, left |-> 4]
                ELSE f[[over |-> F!Scaled(s.over), left |-> s.left - 1]]]
  <2>1. \A f : Solves(f, S, done, result, after) <=> f = Body(f)
    <3>1. SUFFICES ASSUME NEW f
                   PROVE  [s \in S |-> IF s \in done THEN result[s] ELSE f[after[s]]] = Body(f)
      BY DEF Solves
    <3> QED OBVIOUS
  <2>2. F!Scale = CHOOSE f : f = Body(f)
    BY DEF F!Scale, F!Steps
  <2> HIDE DEF S, done, after, far, result, Body
  <2> QED BY <1>5, <2>1, <2>2
<1>7. \A s \in S \cap done : result[s] \in G
  <2>1. SUFFICES ASSUME NEW s \in S, s \in done PROVE result[s] \in G
    OBVIOUS
  <2>2. CASE s.left = 0 \/ s.over <= 1
    <3>1. result[s] = [lo |-> 1, over |-> s.over, left |-> 4]
      BY <2>2
    <3> QED BY <3>1, <1>1, TopNat
  <2>3. CASE ~ (s.left = 0 \/ s.over <= 1)
    <3>1. result[s] = [lo |-> F!Scaled(s.over), over |-> s.over, left |-> 4]
      BY <2>3
    <3>2. F!Scaled(s.over) \in F!Rows /\ (F!SizeFits(F!Scaled(s.over)) \/ F!Scaled(s.over) = 1)
      BY <1>1, <1>2, <2>1, <2>3, TopNat
    <3> QED BY <3>1, <3>2, <1>1
  <2> QED BY <2>2, <2>3
<1>8. first \in S
  BY TopNat
<1>9. F!Scale[first] \in G
  <2> HIDE DEF S, done, after, far, result, G, first
  <2>1. Stays(S, S, done, result, after, G)
    BY <1>3, <1>7 DEF Stays
  <2> QED BY <1>4, <1>6, <1>8, <2>1, AtTheEnd
<1> QED BY <1>9

LEMMA HalveFits ==
    ASSUME FitTyped, NEW r \in [lo : F!Rows, over : F!Rows, left : 0 .. 4], r.lo = 1 \/ F!SizeFits(r.lo)
    PROVE  F!Halve[r] \in F!Rows /\ (F!Halve[r] = 1 \/ F!SizeFits(F!Halve[r]))
<1> DEFINE S == [lo : F!Rows, over : F!Rows, left : 0 .. 4]
           done == {s \in S : s.left = 0 \/ ~ F!SizeFits(s.lo) \/ F!Nearly(s.lo) \/ s.over - s.lo <= 1}
           result == [s \in S |-> s.lo]
           after == [s \in S |-> F!Halved(s)]
           far == [s \in S |-> s.left]
           J == {s \in S : s.lo = 1 \/ F!SizeFits(s.lo)}
           G == {n \in F!Rows : n = 1 \/ F!SizeFits(n)}
<1>1. \A s \in S : s.over \in F!Rows /\ s.lo \in F!Rows /\ s.left \in 0 .. 4 /\ far[s] = s.left
  OBVIOUS
<1>2. \A s \in S \ done : after[s] \in S /\ far[after[s]] < far[s] /\ (s \in J => after[s] \in J)
  <2>1. SUFFICES ASSUME NEW s \in S \ done
                 PROVE  after[s] \in S /\ far[after[s]] < far[s] /\ (s \in J => after[s] \in J)
    OBVIOUS
  <2>2. s \in S /\ s.left # 0 /\ s.over - s.lo > 1 /\ s = [lo |-> s.lo, over |-> s.over, left |-> s.left]
    BY <1>1, TopNat
  <2> DEFINE mid == s.lo + (s.over - s.lo) \div 2
  <2>3. mid \in F!Rows
    BY <1>1, <2>2, TopNat
  <2>4. after[s] = F!Halved(s)
    BY <2>2
  <2>5. F!Halved(s) = IF F!SizeFits(mid) THEN [lo |-> mid, over |-> s.over, left |-> s.left - 1]
                      ELSE [lo |-> s.lo, over |-> mid, left |-> s.left - 1]
    BY DEF F!Halved
  <2> HIDE DEF mid
  <2>6. s.left - 1 \in 0 .. 4
    BY <1>1, <2>2
  <2> QED BY <1>1, <2>2, <2>3, <2>4, <2>5, <2>6
<1>3. Nearer(S, done, after, far) /\ \A s \in S : far[s] < 5
  BY <1>1, <1>2 DEF Nearer
<1>4. PICK g : Solves(g, S, done, result, after)
  <2> HIDE DEF S, done, after, far, result
  <2>1. 5 \in Nat
    OBVIOUS
  <2> QED BY <1>3, <2>1, Solvable
<1>5. Solves(F!Halve, S, done, result, after)
  <2> DEFINE Body(f) == [s \in S |->
                IF s.left = 0 \/ ~ F!SizeFits(s.lo) \/ F!Nearly(s.lo) \/ s.over - s.lo <= 1 THEN s.lo
                ELSE f[F!Halved(s)]]
  <2>1. \A f : Solves(f, S, done, result, after) <=> f = Body(f)
    <3>1. SUFFICES ASSUME NEW f
                   PROVE  [s \in S |-> IF s \in done THEN result[s] ELSE f[after[s]]] = Body(f)
      BY DEF Solves
    <3> QED OBVIOUS
  <2>2. F!Halve = CHOOSE f : f = Body(f)
    BY DEF F!Halve, F!Gaps
  <2> HIDE DEF S, done, after, far, result, Body
  <2> QED BY <1>4, <2>1, <2>2
<1>6. \A s \in J \cap done : result[s] \in G
  BY <1>1
<1>7. r \in J
  OBVIOUS
<1>8. F!Halve[r] \in G
  <2>1. J \in SUBSET S
    OBVIOUS
  <2> HIDE DEF S, done, after, far, result, G, J
  <2>2. Stays(J, S, done, result, after, G)
    BY <1>2, <1>6, <2>1 DEF Stays
  <2> QED BY <1>3, <1>5, <1>7, <2>2, AtTheEnd
<1> QED BY <1>8

-----------------------------------------------------------------------------
(* Fit: what is written.                                                    *)

\* WithinCeiling and FullyUsed, of an answer r.
Within(r) ==
    given.ceiling > 0 =>
        /\ ~ r.failed => IF r.how \in {"fit", "keep"}
                         THEN given.size[r.rows] + F!Notice(r.rows, "bytes" \in r.cut, "budget" \in r.cut)
                                <= given.ceiling
                         ELSE given.size[r.rows] <= given.ceiling
        /\ r.failed => IF r.how \in {"fit", "keep"} THEN ~ F!BytesFit(0, TRUE, TRUE)
                       ELSE given.size[1] > given.ceiling
Used(r) ==
    ~ r.failed /\ r.how \in {"fit", "keep"} /\ F!Grows(given.size) /\ F!Grows(given.tokens) =>
        /\ r.rows < Top =>
              \/ r.how = "fit" /\ ~ F!TokensFit(r.rows + 1)
              \/ ~ F!BytesFit(r.rows + 1, TRUE, r.how = "keep" \/ "budget" \in r.cut)
        /\ r.how = "fit" /\ "budget" \notin r.cut => F!TokensFit(Top) \/ Top = 0
        /\ "bytes" \notin r.cut => given.ceiling = 0 \/ F!Bytes(r.rows, FALSE, FALSE) <= given.ceiling

\* A line that names more limits is longer.
LEMMA MoreToSay ==
    ASSUME FitTyped, NEW n \in F!Rows, NEW bytes \in BOOLEAN, NEW budget \in BOOLEAN
    PROVE  /\ F!Notice(n, bytes, budget) \in Nat
           /\ F!BytesFit(n, TRUE, TRUE) => F!BytesFit(n, bytes, budget)
           /\ F!BytesFit(n, bytes, budget) => F!BytesFit(n, FALSE, FALSE)
<1>1. given.size[n] \in Nat /\ given.ceiling \in Nat
  BY DEF FitTyped
<1>2. F!Notice(n, bytes, budget) \in Nat
  BY DEF F!Notice
<1>3. F!Notice(n, bytes, budget) <= F!Notice(n, TRUE, TRUE) /\ F!Notice(n, TRUE, TRUE) \in Nat
  BY DEF F!Notice
<1>4. F!Notice(n, FALSE, FALSE) <= F!Notice(n, bytes, budget) /\ F!Notice(n, FALSE, FALSE) \in Nat
  BY DEF F!Notice
<1> DEFINE x == F!Notice(n, bytes, budget)
           y == F!Notice(n, TRUE, TRUE)
           z == F!Notice(n, FALSE, FALSE)
<1>5. /\ F!BytesFit(n, bytes, budget) <=> given.ceiling = 0 \/ given.size[n] + x <= given.ceiling
      /\ F!BytesFit(n, TRUE, TRUE) <=> given.ceiling = 0 \/ given.size[n] + y <= given.ceiling
      /\ F!BytesFit(n, FALSE, FALSE) <=> given.ceiling = 0 \/ given.size[n] + z <= given.ceiling
  BY DEF F!BytesFit, F!Bytes
<1>6. x \in Nat /\ y \in Nat /\ z \in Nat /\ x <= y /\ z <= x
  BY <1>2, <1>3, <1>4
<1> HIDE DEF x, y, z
<1>7. given.size[n] + y <= given.ceiling => given.size[n] + x <= given.ceiling
  BY <1>1, <1>6
<1>8. given.size[n] + x <= given.ceiling => given.size[n] + z <= given.ceiling
  BY <1>1, <1>6
<1>9. /\ F!BytesFit(n, TRUE, TRUE) => F!BytesFit(n, bytes, budget)
      /\ F!BytesFit(n, bytes, budget) => F!BytesFit(n, FALSE, FALSE)
  BY <1>5, <1>7, <1>8, Zenon
<1> QED BY <1>2, <1>9

LEMMA ShrunkGood ==
    ASSUME FitTyped
    PROVE  Within(F!Shrunk) /\ Used(F!Shrunk)
<1> DEFINE last == F!Halve[F!Scale[[over |-> Top, left |-> 6]]]
<1>1. Used(F!Shrunk)
  BY DEF Used, F!Shrunk, F!Result, F!Failed
<1>2. ~ F!SizeFits(Top) => last \in F!Rows /\ (last = 1 \/ F!SizeFits(last))
  BY ScaleFits, HalveFits
<1>3. given.size[1] \in Nat /\ given.ceiling \in Nat
  BY TopNat DEF FitTyped
<1> HIDE DEF last
<1>4. F!Shrunk = IF given.ceiling = 0 \/ F!SizeFits(Top) THEN F!Result("shrink", Top, {})
                 ELSE IF F!SizeFits(last) THEN F!Result("shrink", last, {"bytes"}) ELSE F!Failed("shrink")
  BY DEF F!Shrunk, last
<1>5. Within(F!Shrunk)
  <2>1. CASE given.ceiling = 0
    BY <2>1 DEF Within
  <2>2. CASE given.ceiling # 0 /\ F!SizeFits(Top)
    <3>1. F!Shrunk = F!Result("shrink", Top, {})
      BY <1>4, <2>2
    <3> QED BY <3>1, <2>2 DEF Within, F!Result, F!SizeFits
  <2>3. CASE given.ceiling # 0 /\ ~ F!SizeFits(Top) /\ F!SizeFits(last)
    <3>1. F!Shrunk = F!Result("shrink", last, {"bytes"})
      BY <1>4, <2>3
    <3> QED BY <3>1, <2>3 DEF Within, F!Result, F!SizeFits
  <2>4. CASE given.ceiling # 0 /\ ~ F!SizeFits(Top) /\ ~ F!SizeFits(last)
    <3>1. F!Shrunk = F!Failed("shrink") /\ last = 1
      BY <1>2, <1>4, <2>4
    <3> QED BY <3>1, <2>4, <1>3 DEF Within, F!Failed, F!SizeFits
  <2> QED BY <2>1, <2>2, <2>3, <2>4
<1> QED BY <1>1, <1>5

LEMMA KeptGood ==
    ASSUME FitTyped
    PROVE  Within(F!KeptWithin) /\ Used(F!KeptWithin)
<1> DEFINE passing == F!OfBytes(TRUE, TRUE)
           got == F!LargestBelow(Top, passing)
<1>1. got \in BestBelow(Top, passing)
  <2>1. Top \in F!Rows
    BY TopNat
  <2> HIDE DEF passing
  <2> QED BY <2>1, LargestBelowFound
<1>2. \A n \in F!Rows : n \in passing <=> F!BytesFit(n, TRUE, TRUE)
  BY DEF F!OfBytes
<1>3. F!KeptWithin = IF F!BytesFit(Top, FALSE, FALSE) THEN F!Result("keep", Top, {})
                     ELSE IF got # F!None THEN F!Result("keep", got, {"bytes"}) ELSE F!Failed("keep")
  BY DEF F!KeptWithin
<1> HIDE DEF passing, got
<1>4. Top \in F!Rows /\ 0 \in F!Rows /\ Top \in Nat \ {0} /\ F!None = -1 /\ F!Rows = 0 .. Top
  BY TopNat
<1>5. got \in F!Rows \cup {F!None} /\ got < Top /\ (got \in passing \/ got = F!None)
      /\ (got + 1 \notin passing \/ got + 1 = Top)
  BY <1>1 DEF BestBelow
<1>6. got + 1 \in F!Rows
  BY <1>4, <1>5
<1>7. CASE F!BytesFit(Top, FALSE, FALSE)
  <2>1. F!KeptWithin = F!Result("keep", Top, {})
    BY <1>3, <1>7
  <2>2. F!Notice(Top, FALSE, FALSE) = F!Notice(Top, "bytes" \in {}, "budget" \in {})
    BY DEF F!Notice
  <2>3. Within(F!KeptWithin)
    BY <1>7, <2>1, <2>2 DEF Within, F!Result, F!BytesFit, F!Bytes, F!Notice
  <2>4. Used(F!KeptWithin)
    <3> DEFINE r == F!KeptWithin
    <3>1. r.rows = Top /\ r.how = "keep" /\ ~ (r.rows < Top)
      BY <2>1, <1>4 DEF F!Result
    <3>2. given.ceiling = 0 \/ F!Bytes(r.rows, FALSE, FALSE) <= given.ceiling
      BY <1>7, <3>1 DEF F!BytesFit
    <3>3. r.how # "fit"
      BY <3>1
    <3> HIDE DEF r
    <3>4. Used(r)
      BY <3>1, <3>2, <3>3, Zenon DEF Used
    <3> QED BY <3>4 DEF r
  <2> QED BY <2>3, <2>4
<1>8. CASE ~ F!BytesFit(Top, FALSE, FALSE)
  <2>1. ~ F!BytesFit(got + 1, TRUE, TRUE)
    <3>1. CASE got + 1 = Top
      BY <3>1, <1>4, <1>8, MoreToSay
    <3>2. CASE got + 1 \notin passing
      BY <3>2, <1>2, <1>6
    <3> QED BY <3>1, <3>2, <1>5
  <2>2. CASE got = F!None
    <3>1. F!KeptWithin = F!Failed("keep")
      BY <1>3, <1>8, <2>2
    <3>2. got + 1 = 0
      BY <2>2, <1>4
    <3>3. ~ F!BytesFit(0, TRUE, TRUE)
      BY <2>1, <3>2
    <3> QED BY <3>1, <3>3 DEF Within, Used, F!Failed
  <2>3. CASE got # F!None
    <3>1. F!KeptWithin = F!Result("keep", got, {"bytes"})
      BY <1>3, <1>8, <2>3
    <3>2. F!BytesFit(got, TRUE, TRUE) /\ got \in F!Rows
      BY <1>2, <1>5, <2>3
    <3>3. given.size[got] + F!Notice(got, TRUE, FALSE) <= given.ceiling \/ given.ceiling = 0
      BY <3>2, MoreToSay DEF F!BytesFit, F!Bytes
    <3>4. Within(F!KeptWithin)
      BY <3>1, <3>3 DEF Within, F!Result, F!Notice
    <3>5. Used(F!KeptWithin)
      BY <3>1, <2>1 DEF Used, F!Result, F!BytesFit
    <3> QED BY <3>4, <3>5
  <2> QED BY <2>2, <2>3
<1> QED BY <1>7, <1>8

LEMMA FittedGood ==
    ASSUME FitTyped
    PROVE  Within(F!Fitted) /\ Used(F!Fitted)
<1> DEFINE byTokens == F!Largest(Top, F!OfTokens)
           rows == IF byTokens = F!None THEN 0 ELSE byTokens
           budgetCut == rows < Top \/ (given.budget > 0 /\ ~ given.whole)
           small == F!OfBytes(TRUE, budgetCut)
           both == F!LargestBelow(rows, small \cap F!OfTokens)
           shorter == F!LargestBelow(rows, small)
           got == IF both # F!None THEN both ELSE shorter
           named == IF budgetCut THEN {"budget"} ELSE {}
<1>1. Top \in F!Rows /\ 0 \in F!Rows /\ Top \in Nat \ {0} /\ F!None = -1 /\ F!Rows = 0 .. Top
  BY TopNat
<1>2. F!Fitted = IF F!BytesFit(rows, FALSE, FALSE) THEN F!Result("fit", rows, named)
                 ELSE IF got # F!None THEN F!Result("fit", got, named \cup {"bytes"}) ELSE F!Failed("fit")
  BY DEF F!Fitted
<1>3. (F!TokensFit(Top) /\ byTokens = Top) \/ (~ F!TokensFit(Top) /\ byTokens \in BestBelow(Top, F!OfTokens))
  BY LargestFound, <1>1 DEF F!Largest, F!OfTokens
<1>4. \A n \in F!Rows : n \in small <=> F!BytesFit(n, TRUE, budgetCut)
  BY DEF F!OfBytes
<1>5. \A n \in F!Rows : n \in F!OfTokens <=> F!TokensFit(n)
  BY DEF F!OfTokens
<1>6. budgetCut \in BOOLEAN
  OBVIOUS
<1>7. /\ "budget" \in named <=> budgetCut
      /\ "bytes" \notin named
      /\ "budget" \in named \cup {"bytes"} <=> budgetCut
      /\ "bytes" \in named \cup {"bytes"}
  OBVIOUS
<1> HIDE DEF byTokens
<1>8. rows \in F!Rows
  BY <1>1, <1>3 DEF BestBelow
<1>9. ~ budgetCut => F!TokensFit(Top)
  BY <1>1, <1>3 DEF BestBelow
<1>10. F!Grows(given.tokens) /\ rows < Top => ~ F!TokensFit(rows + 1)
  <2>1. SUFFICES ASSUME F!Grows(given.tokens), rows < Top PROVE ~ F!TokensFit(rows + 1)
    OBVIOUS
  <2>2. ~ F!TokensFit(Top) /\ byTokens \in BestBelow(Top, F!OfTokens)
    BY <1>1, <1>3, <2>1
  <2>3. byTokens + 1 \in F!Rows
    BY <1>1, <2>2 DEF BestBelow
  <2>4. ~ F!TokensFit(byTokens + 1)
    BY <1>5, <2>2, <2>3 DEF BestBelow
  <2>5. CASE byTokens # F!None
    BY <2>4, <2>5
  <2>6. CASE byTokens = F!None
    <3>1. ~ F!TokensFit(0) /\ rows = 0
      BY <2>4, <2>6, <1>1
    <3>2. given.tokens[0] \in Nat /\ given.tokens[1] \in Nat /\ given.budget \in Nat
      BY <1>1 DEF FitTyped
    <3>3. given.tokens[0] <= given.tokens[0 + 1]
      BY <1>1, <2>1 DEF F!Grows
    <3> QED BY <3>1, <3>2, <3>3 DEF F!TokensFit, F!Tokens
  <2> QED BY <2>5, <2>6
<1>11. both \in BestBelow(rows, small \cap F!OfTokens) /\ shorter \in BestBelow(rows, small)
  <2> HIDE DEF rows, small
  <2> QED BY <1>8, LargestBelowFound
<1> HIDE DEF rows, budgetCut, small, both, shorter, named
<1>12. given.ceiling > 0 => given.ceiling # 0
  OBVIOUS
<1>13. CASE F!BytesFit(rows, FALSE, FALSE)
  <2> DEFINE r == F!Fitted
  <2>1. r = F!Result("fit", rows, named)
    BY <1>2, <1>13
  <2>2. r.how = "fit" /\ r.rows = rows /\ r.cut = named /\ r.failed = FALSE
    BY <2>1 DEF F!Result
  <2> HIDE DEF r
  <2>3. Within(r)
    <3>1. F!Notice(rows, "bytes" \in named, "budget" \in named) = F!Notice(rows, FALSE, FALSE)
      BY <1>7 DEF F!Notice
    <3>2. given.ceiling > 0 => given.size[rows] + F!Notice(rows, FALSE, FALSE) <= given.ceiling
      BY <1>12, <1>13, Zenon DEF F!BytesFit, F!Bytes
    <3> QED BY <2>2, <3>1, <3>2 DEF Within
  <2>4. Used(r)
    <3>1. F!Grows(given.tokens) /\ r.rows < Top => ~ F!TokensFit(r.rows + 1)
      BY <1>10, <2>2
    <3>2. "budget" \notin r.cut => F!TokensFit(Top)
      BY <1>7, <1>9, <2>2
    <3>3. given.ceiling = 0 \/ F!Bytes(r.rows, FALSE, FALSE) <= given.ceiling
      BY <1>13, <2>2 DEF F!BytesFit
    <3> QED BY <2>2, <3>1, <3>2, <3>3, Zenon DEF Used
  <2> QED BY <2>3, <2>4 DEF r
<1>14. CASE ~ F!BytesFit(rows, FALSE, FALSE)
  <2>1. ~ F!BytesFit(rows, TRUE, budgetCut)
    BY <1>6, <1>8, <1>14, MoreToSay
  <2>2. shorter \in F!Rows \cup {F!None} /\ shorter + 1 \in F!Rows /\ (shorter # F!None => shorter \in small)
        /\ ~ F!BytesFit(shorter + 1, TRUE, budgetCut)
    <3>1. shorter \in F!Rows \cup {F!None} /\ shorter + 1 \in F!Rows /\ (shorter # F!None => shorter \in small)
      BY <1>1, <1>8, <1>11 DEF BestBelow
    <3>2. shorter + 1 = rows \/ shorter + 1 \notin small
      BY <1>11 DEF BestBelow
    <3> QED BY <1>4, <2>1, <3>1, <3>2
  <2>3. both \in F!Rows \cup {F!None} /\ both + 1 \in F!Rows /\ (both # F!None => both \in small)
        /\ (~ F!BytesFit(both + 1, TRUE, budgetCut) \/ ~ F!TokensFit(both + 1))
    <3>1. both \in F!Rows \cup {F!None} /\ both + 1 \in F!Rows /\ (both # F!None => both \in small)
      BY <1>1, <1>8, <1>11 DEF BestBelow
    <3>2. both + 1 = rows \/ both + 1 \notin small \cap F!OfTokens
      BY <1>11 DEF BestBelow
    <3> QED BY <1>4, <1>5, <2>1, <3>1, <3>2
  <2> DEFINE r == F!Fitted
  <2>4. CASE got = F!None
    <3>1. r = F!Failed("fit")
      BY <1>2, <1>14, <2>4
    <3>2. shorter + 1 = 0
      BY <1>1, <2>4
    <3>3. ~ F!BytesFit(0, TRUE, budgetCut)
      BY <2>2, <3>2
    <3>4. ~ F!BytesFit(0, TRUE, TRUE)
      BY <1>1, <1>6, <3>3, MoreToSay
    <3> QED BY <3>1, <3>4 DEF Within, Used, F!Failed
  <2>5. CASE got # F!None
    <3>1. r = F!Result("fit", got, named \cup {"bytes"})
      BY <1>2, <1>14, <2>5
    <3>2. got \in F!Rows /\ got \in small
      BY <2>2, <2>3, <2>5
    <3>3. F!BytesFit(got, TRUE, budgetCut)
      BY <1>4, <3>2
    <3>4. ~ F!BytesFit(got + 1, TRUE, budgetCut) \/ ~ F!TokensFit(got + 1)
      BY <2>2, <2>3
    <3> HIDE DEF got
    <3>5. r.how = "fit" /\ r.rows = got /\ r.cut = named \cup {"bytes"} /\ r.failed = FALSE
      BY <3>1 DEF F!Result
    <3> HIDE DEF r
    <3>6. Within(r)
      <4>1. F!Notice(got, "bytes" \in r.cut, "budget" \in r.cut) = F!Notice(got, TRUE, budgetCut)
        BY <1>7, <3>5 DEF F!Notice
      <4>2. given.ceiling > 0 => given.size[got] + F!Notice(got, TRUE, budgetCut) <= given.ceiling
        BY <1>12, <3>3, Zenon DEF F!BytesFit, F!Bytes
      <4> QED BY <3>5, <4>1, <4>2 DEF Within
    <3>7. Used(r)
      <4>1. "budget" \in r.cut <=> budgetCut
        BY <1>7, <3>5
      <4>2. F!BytesFit(got + 1, TRUE, r.how = "keep" \/ "budget" \in r.cut)
            <=> F!BytesFit(got + 1, TRUE, budgetCut)
        BY <3>5, <4>1 DEF F!BytesFit, F!Bytes, F!Notice
      <4>3. ~ F!TokensFit(r.rows + 1) \/ ~ F!BytesFit(r.rows + 1, TRUE, r.how = "keep" \/ "budget" \in r.cut)
        BY <3>4, <3>5, <4>2, Zenon
      <4>4. "budget" \notin r.cut => F!TokensFit(Top)
        BY <1>9, <4>1
      <4>5. "bytes" \in r.cut
        BY <1>7, <3>5
      <4> QED BY <3>5, <4>3, <4>4, <4>5, Zenon DEF Used
    <3> QED BY <3>6, <3>7 DEF r
  <2> QED BY <2>4, <2>5
<1> QED BY <1>13, <1>14


FitInv == FitTyped /\ F!WithinCeiling /\ F!FullyUsed

LEMMA FitGood ==
    /\ F!WithinCeiling <=> (fitted # F!Waiting => Within(fitted))
    /\ F!FullyUsed <=> (fitted # F!Waiting => Used(fitted))
<1>1. F!WithinCeiling <=> (fitted # F!Waiting => Within(fitted))
  BY Zenon DEF F!WithinCeiling, Within, F!ByRows, F!Named
<1>2. F!FullyUsed <=> (fitted # F!Waiting => Used(fitted))
  BY Zenon DEF F!FullyUsed, Used, F!ByRows, F!Named
<1> QED BY <1>1, <1>2

LEMMA FitStarts == PartsInit => FitInv
<1> SUFFICES ASSUME PartsInit PROVE FitInv
  OBVIOUS
<1>1. F!Init
  BY DEF PartsInit
<1>2. FitTyped
  BY <1>1, FitAssumption, TopNat DEF F!Init, F!Assumption, FitTyped
<1>3. fitted = F!Waiting
  BY <1>1 DEF F!Init
<1> QED BY <1>2, <1>3, FitGood DEF FitInv

LEMMA FitSteps == FitInv /\ [PartsNext]_parts => FitInv'
<1> SUFFICES ASSUME FitInv, [PartsNext]_parts PROVE FitInv'
  OBVIOUS
<1>1. CASE UNCHANGED <<given, fitted>>
  BY <1>1 DEF FitInv, FitTyped, F!WithinCeiling, F!FullyUsed, F!ByRows, F!Named, F!Waiting,
              F!Notice, F!BytesFit, F!Bytes, F!TokensFit, F!Tokens
<1>2. ASSUME given' = given, NEW r, fitted' = r, Within(r), Used(r) PROVE FitInv'
  <2>1. FitTyped'
    BY <1>2 DEF FitInv, FitTyped
  <2>2. Within(fitted)' /\ Used(fitted)'
    BY <1>2 DEF Within, Used, F!Notice, F!BytesFit, F!Bytes, F!TokensFit, F!Tokens
  <2>3. F!WithinCeiling' /\ F!FullyUsed'
    BY <2>2, FitGood, PTL
  <2> QED BY <2>1, <2>3 DEF FitInv
<1>3. CASE F!FitRows
  BY <1>2, <1>3, FittedGood DEF F!FitRows, FitInv
<1>4. CASE F!KeepUnits
  BY <1>2, <1>4, KeptGood DEF F!KeepUnits, FitInv
<1>5. CASE F!ShrinkShape
  BY <1>2, <1>5, ShrunkGood DEF F!ShrinkShape, FitInv
<1> QED
  <2>1. CASE F!Next
    BY <2>1, <1>3, <1>4, <1>5 DEF F!Next
  <2>2. CASE ~ F!Next
    <3>1. UNCHANGED fitting
      BY <2>2 DEF PartsNext, parts
    <3> QED BY <3>1, <1>1 DEF fitting
  <2> QED BY <2>1, <2>2

(* A cut answer is within its limits and as long as they allow, and a       *)
(* refusal says that not even the shortest fits, of every rendering, limit  *)
(* and number of rows (verbs_out.rs `fit`, main.rs `largest_below`).        *)
THEOREM FitsLimitsAlways == PartsSpec => []FitsLimits
<1>1. FitInv => FitsLimits
  BY DEF FitInv, FitsLimits
<1> QED BY <1>1, FitStarts, FitSteps, PTL DEF PartsSpec

-----------------------------------------------------------------------------
(* A total order on a finite set lists it.                                  *)

\* r is a strict total order on S.
Orders(r, S) ==
    /\ \A x \in S : <<x, x>> \notin r
    /\ \A x, y \in S : x # y => <<x, y>> \in r \/ <<y, x>> \in r
    /\ \A x, y, z \in S : <<x, y>> \in r /\ <<y, z>> \in r => <<x, z>> \in r
Under(r, S, x) == {y \in S : <<y, x>> \in r}
\* The elements of S have 0, 1, .. others below them, one each.
Numbered(r, S) ==
    /\ \A x, y \in S : Cardinality(Under(r, S, x)) = Cardinality(Under(r, S, y)) => x = y
    /\ \A k \in 1 .. Cardinality(S) : \E x \in S : Cardinality(Under(r, S, x)) = k - 1

LEMMA Ranks ==
    ASSUME NEW S, IsFiniteSet(S), NEW r, Orders(r, S)
    PROVE  Numbered(r, S)
<1> DEFINE rank == [x \in S |-> Cardinality(Under(r, S, x))]
           n == Cardinality(S)
<1>1. n \in Nat
  BY FS_CardinalityType
<1>2. \A x \in S : IsFiniteSet(Under(r, S, x)) /\ rank[x] \in Nat /\ rank[x] < n
  <2>1. TAKE x \in S
  <2>2. IsFiniteSet(Under(r, S, x)) /\ Cardinality(Under(r, S, x)) <= n
        /\ (Cardinality(Under(r, S, x)) = n => S = Under(r, S, x))
    BY FS_Subset DEF Under
  <2>3. x \notin Under(r, S, x)
    BY DEF Under, Orders
  <2>4. Cardinality(Under(r, S, x)) \in Nat
    BY <2>2, FS_CardinalityType
  <2>5. Cardinality(Under(r, S, x)) # n
    BY <2>2, <2>3
  <2> QED BY <1>1, <2>2, <2>4, <2>5
<1>3. \A x, y \in S : <<x, y>> \in r => rank[x] < rank[y]
  <2>1. SUFFICES ASSUME NEW x \in S, NEW y \in S, <<x, y>> \in r PROVE rank[x] < rank[y]
    OBVIOUS
  <2>2. Under(r, S, x) \in SUBSET Under(r, S, y)
    BY <2>1 DEF Under, Orders
  <2>3. x \in Under(r, S, y) /\ x \notin Under(r, S, x)
    BY <2>1 DEF Under, Orders
  <2>4. Cardinality(Under(r, S, x)) <= Cardinality(Under(r, S, y))
        /\ (Cardinality(Under(r, S, y)) = Cardinality(Under(r, S, x)) => Under(r, S, y) = Under(r, S, x))
    BY <1>2, <2>2, FS_Subset
  <2>5. Cardinality(Under(r, S, x)) # Cardinality(Under(r, S, y))
    BY <2>3, <2>4
  <2> QED BY <1>2, <2>4, <2>5
<1>4. \A x, y \in S : rank[x] = rank[y] => x = y
  <2>1. SUFFICES ASSUME NEW x \in S, NEW y \in S, rank[x] = rank[y], x # y PROVE FALSE
    OBVIOUS
  <2>2. <<x, y>> \in r \/ <<y, x>> \in r
    BY <2>1 DEF Orders
  <2>3. rank[x] < rank[y] \/ rank[y] < rank[x]
    BY <1>3, <2>2
  <2>4. rank[x] \in Nat /\ rank[y] \in Nat
    BY <1>2
  <2> QED BY <2>1, <2>3, <2>4
<1>5. \A k \in 1 .. n : \E x \in S : rank[x] = k - 1
  <2> DEFINE T == 0 .. n - 1
  <2>1. rank \in Injection(S, T)
    BY <1>1, <1>2, <1>4 DEF Injection, IsInjective
  <2>2. IsFiniteSet(T) /\ Cardinality(T) = n
    BY <1>1, FS_Interval
  <2>3. rank \in Surjection(S, T)
    BY <2>1, <2>2, FS_Injection
  <2>4. \A t \in T : \E x \in S : rank[x] = t
    BY <2>3 DEF Surjection
  <2>5. \A k \in 1 .. n : k - 1 \in T
    BY <1>1
  <2> QED BY <2>4, <2>5
<1> QED BY <1>4, <1>5 DEF Numbered

LEMMA SameCardinality == \A S : L!Cardinality(S) = Cardinality(S)
BY Zenon DEF L!Cardinality, Cardinality

LEMMA Lesser ==
    ASSUME NEW n \in Nat, NEW m \in Nat
    PROVE  L!Min({n, m}) = IF n <= m THEN n ELSE m
BY DEF L!Min

\* s has the elements of S, once each.
Lists(s, S) ==
    /\ DOMAIN s = 1 .. Cardinality(S) /\ Len(s) = Cardinality(S)
    /\ s \in Seq(S)
    /\ \A x \in S : \E k \in DOMAIN s : s[k] = x

\* Entries of a listing, each at a place of its own.
Placeable(S) ==
    /\ IsFiniteSet(S)
    /\ \A x \in S : x.file \in Nat /\ x.line \in Nat /\ x.score \in Int /\ x.module \in BOOLEAN
    /\ \A x, y \in S : x.file = y.file /\ x.line = y.line /\ x.module = y.module => x = y

LEMMA RankedLists ==
    ASSUME NEW S, Placeable(S)
    PROVE  Lists(L!Ranked(S), S)
<1> DEFINE r == {p \in S \X S : L!Before(p[1], p[2])}
           n == Cardinality(S)
           s == [k \in 1 .. n |-> CHOOSE x \in S : Cardinality({y \in S : L!Before(y, x)}) = k - 1]
<1>1. \A x, y \in S : <<x, y>> \in r <=> L!Before(x, y)
  OBVIOUS
<1>2. Orders(r, S)
  <2>1. \A x \in S : ~ L!Before(x, x)
    BY DEF L!Before, Placeable
  <2>2. \A x, y \in S : x # y => L!Before(x, y) \/ L!Before(y, x)
    BY DEF L!Before, Placeable
  <2>3. \A x, y, z \in S : L!Before(x, y) /\ L!Before(y, z) => L!Before(x, z)
    BY DEF L!Before, Placeable
  <2> HIDE DEF r
  <2> QED BY <1>1, <2>1, <2>2, <2>3 DEF Orders
<1>3. \A x \in S : Under(r, S, x) = {y \in S : L!Before(y, x)}
  BY <1>1 DEF Under
<1>4. /\ \A x, y \in S : Cardinality({z \in S : L!Before(z, x)}) = Cardinality({z \in S : L!Before(z, y)}) => x = y
      /\ \A k \in 1 .. n : \E x \in S : Cardinality({z \in S : L!Before(z, x)}) = k - 1
  <2> HIDE DEF r
  <2>1. IsFiniteSet(S)
    BY DEF Placeable
  <2>2. Numbered(r, S)
    BY <1>2, <2>1, Ranks
  <2> QED BY <1>3, <2>2 DEF Numbered
<1>5. n \in Nat
  BY FS_CardinalityType DEF Placeable
<1>6. L!Ranked(S) = s
  BY Zenon DEF L!Ranked, L!Cardinality, Cardinality
<1>7. \A k \in 1 .. n : s[k] \in S /\ Cardinality({z \in S : L!Before(z, s[k])}) = k - 1
  BY <1>4
<1>8. DOMAIN s = 1 .. n /\ s \in Seq(S) /\ Len(s) = n
  <2>1. s \in [1 .. n -> S]
    BY <1>7
  <2> HIDE DEF s, n
  <2> QED BY <1>5, <2>1
<1>9. \A x \in S : /\ Cardinality({z \in S : L!Before(z, x)}) \in Nat
                  /\ Cardinality({z \in S : L!Before(z, x)}) + 1 \in 1 .. n
  <2>1. TAKE x \in S
  <2> DEFINE T == {z \in S : L!Before(z, x)}
  <2>2. IsFiniteSet(S) /\ x \notin T
    BY DEF Placeable, L!Before
  <2>3. IsFiniteSet(T) /\ Cardinality(T) <= n /\ (n = Cardinality(T) => S = T)
    BY <2>2, FS_Subset
  <2>4. Cardinality(T) \in Nat
    BY <2>3, FS_CardinalityType
  <2>5. Cardinality(T) # n
    BY <2>2, <2>3
  <2> HIDE DEF T, n
  <2>6. Cardinality(T) + 1 \in 1 .. n
    BY <1>5, <2>3, <2>4, <2>5
  <2> QED BY <2>4, <2>6 DEF T
<1>10. \A x \in S : \E k \in 1 .. n : s[k] = x
  <2>1. TAKE x \in S
  <2> DEFINE k == Cardinality({z \in S : L!Before(z, x)}) + 1
  <2>2. k \in 1 .. n
    BY <1>9
  <2>3. Cardinality({z \in S : L!Before(z, s[k])}) = Cardinality({z \in S : L!Before(z, x)}) /\ s[k] \in S
    <3>1. s[k] \in S /\ Cardinality({z \in S : L!Before(z, s[k])}) = k - 1
      BY <1>7, <2>2
    <3>2. Cardinality({z \in S : L!Before(z, x)}) \in Nat
      BY <1>9
    <3>3. k - 1 = Cardinality({z \in S : L!Before(z, x)})
      BY <3>2
    <3> HIDE DEF s, k
    <3> QED BY <3>1, <3>3
  <2>4. s[k] = x
    <3> HIDE DEF s, k
    <3> QED BY <1>4, <2>3
  <2> QED BY <2>2, <2>4
<1> HIDE DEF s
<1> QED BY <1>6, <1>8, <1>10 DEF Lists

-----------------------------------------------------------------------------
(* Listing: what is known of the entries while they are made, described and *)
(* told apart.                                                              *)

Text == Seq(L!Declarations)
EntryType ==
    [file : Files, line : Nat, was : Nat, kind : DOMAIN KindWeight \cup {"module"},
     name : STRING \cup {"q"}, score : Int, indexed : BOOLEAN, module : BOOLEAN]
Elements(s) == {s[k] : k \in DOMAIN s}

\* Every entry was described: the entries left are those that are still there.
Over == listStage = "done" \/ (listStage = "scan" /\ ask.verb = "impls" /\ ask.index)

ListTyped ==
    /\ recorded \in [Files -> [text : Text, stamp : {1}]]
    /\ files \in [Files -> [text : Text, stamp : Nat]]
    /\ ask \in L!AnyRequest
    /\ listStage \in {"open", "scan", "describe", "done"}
    /\ todo \in SUBSET Selected
    /\ entries \in Seq(EntryType)
    /\ next \in Nat \ {0} /\ total \in Int /\ writes \in Nat
    /\ cache \in [Files -> [text : Text, current : BOOLEAN, read : BOOLEAN]]
    /\ scanned \in [Files -> Text]
    /\ gone \in SUBSET (1 .. next - 1)
    /\ listStage \in {"open", "scan"} /\ ~ Over => next = 1
    /\ listStage = "describe" => ask.index /\ next <= L!Shown + 1
    /\ listStage = "open" => entries = <<>> /\ extras = {} /\ have = {}
    /\ \A f \in Files \ Racy : files[f].stamp = recorded[f].stamp => files[f] = recorded[f]

\* Where a definition of the index is found again in a text.
Homes(kind, name, text) ==
    {i \in L!HasDefs(text) : /\ text[i].kind = kind /\ text[i].name = name
                             /\ ask.verb = "impls" => "q" \in text[i].supers}

\* By the entry's file as it was read.
SeenAt(e) ==
    LET file == cache[e.file]
    IN  /\ file.read
        /\ IF file.current THEN e.line = e.was ELSE e.line \in Homes(e.kind, e.name, file.text)
LostFrom(e) ==
    LET file == cache[e.file] IN file.read /\ ~ file.current /\ Homes(e.kind, e.name, file.text) = {}

\* What an entry stands for: of the index, for what that had; of a scan, for
\* what the scan saw.
Sound(e) ==
    /\ e.indexed => ask.index /\ e.file \in L!Indexed
    /\ e.module => e.indexed /\ ask.verb = "def"
    /\ e.indexed /\ ~ e.module => e.was \in Homes(e.kind, e.name, recorded[e.file].text)
    /\ ~ e.indexed =>
          /\ e.file \in Selected \ todo /\ e.line \in Homes(e.kind, e.name, scanned[e.file])
          /\ ask.verb = "impls" => ~ ask.index
          /\ ask.index => e.file \notin L!Indexed
AsIndexed(e) == e.indexed /\ ~ e.module => e.line = e.was
Seen(e) == e.indexed /\ ~ e.module => SeenAt(e)
Lost(e) == e.indexed /\ ~ e.module => LostFrom(e)

Placed ==
    /\ \A f \in L!Indexed : cache[f].read /\ cache[f].current => cache[f].text = recorded[f].text
    /\ \A e \in Elements(entries) : Sound(e)
    /\ Over => \A e \in Elements(entries) : Seen(e)
    /\ ~ Over => \A k \in DOMAIN entries : k >= next => AsIndexed(entries[k])
    /\ listStage = "describe" =>
          \A k \in DOMAIN entries : \A e \in {entries[k]} :
              k < next => IF k \in gone THEN Lost(e) ELSE Seen(e)
    /\ ask.index /\ ask.verb = "def" => todo \in SUBSET Skipped
    /\ listStage \in {"describe", "done"} /\ (ask.verb = "def" \/ listStage = "done") => todo = {}
    /\ listStage = "scan" /\ ~ Over =>
          \A d, e \in Elements(entries) : d.file = e.file /\ d.line = e.line /\ d.module = e.module => d = e

\* What was asked of the index.
Wanted(f) ==
    LET text == recorded[f].text
    IN  IF ask.verb = "impls" THEN L!Extending(text)
        ELSE {i \in L!Named(text, {"q"}) : ask.kind = "any" \/ text[i].kind = ask.kind}
Stands(e, f, i) ==
    /\ e.file = f /\ e.was = i /\ e.indexed /\ ~ e.module
    /\ e.kind = recorded[f].text[i].kind /\ e.name = recorded[f].text[i].name
Vanished(f, i) ==
    /\ cache[f].read /\ ~ cache[f].current
    /\ Homes(recorded[f].text[i].kind, recorded[f].text[i].name, cache[f].text) = {}

\* A total that says nothing was left out.
Complete ==
    ask.index /\ listStage # "open" =>
        /\ ~ Over => Len(entries) <= total
        /\ total = Len(entries) =>
             \A f \in L!Indexed : \A i \in Wanted(f) :
                \/ \E e \in Elements(entries) : Stands(e, f, i)
                \/ Over /\ Vanished(f, i)

Staying == {k \in DOMAIN entries : listStage = "describe" => k \notin gone}
Listed == {<<entries[k].file, entries[k].line>> : k \in Staying}
LinesOf(S) == {<<x.file, x.line>> : x \in S}
WasThere(f, i) == f \in Files /\ i \in DOMAIN recorded[f].text /\ "q" \in recorded[f].text[i].supers
Asking(d) ==
    ("q" \in d.supers \/ d.mentions) /\ d.kind \in {"class", "impl", "alias"} /\ d.name # "q"

\* An implementor's line is direct or an extra's.
Apart ==
    ask.verb = "impls" =>
        /\ Listed \subseteq have
        /\ \A x \in extras : <<x.file, x.line>> \notin have /\ x.file \in Files \ todo
        /\ listStage \in {"open", "describe"} => extras = {}
        /\ \A p \in have : \/ p \in Listed
                           \/ ask.index /\ WasThere(p[1], p[2])
                           \/ listStage = "done" /\ ask.show # 0
        /\ have \subseteq Files \X Nat
        /\ ~ ask.index => \A p \in have : p[1] \notin todo
        /\ listStage = "done" \/ (listStage = "scan" /\ (Over \/ ~ ask.index)) =>
              \A f \in Selected \ todo : \A i \in L!HasDefs(scanned[f]) :
                  Asking(scanned[f][i]) => <<f, i>> \in have \cup LinesOf(extras)

ListInv == ListTyped /\ Placed /\ Complete /\ Apart

\* t has elements of s, and all of them when it is as long.
PartOf(t, s) ==
    /\ Elements(t) \subseteq Elements(s)
    /\ Len(t) <= Len(s)
    /\ Len(t) = Len(s) => Elements(t) = Elements(s)

LEMMA ElementsOf ==
    ASSUME NEW T, NEW s \in Seq(T)
    PROVE  /\ DOMAIN s = 1 .. Len(s) /\ Len(s) \in Nat /\ Elements(s) \in SUBSET T
           /\ IsFiniteSet(Elements(s)) /\ Cardinality(Elements(s)) \in Nat
           /\ Cardinality(Elements(s)) <= Len(s)
           /\ L!ToSet(s) = Elements(s)
<1>1. Len(s) \in Nat /\ s \in [1 .. Len(s) -> T] /\ DOMAIN s = 1 .. Len(s)
  BY LenProperties
<1>2. Elements(s) \in SUBSET T
  BY <1>1 DEF Elements
<1> DEFINE n == Len(s)
           f == [k \in 1 .. n |-> s[k]]
<1>3. f \in Surjection(1 .. n, Elements(s))
  BY <1>1 DEF Surjection, Elements
<1>4. IsFiniteSet(1 .. n) /\ Cardinality(1 .. n) = n
  BY <1>1, FS_Interval
<1> HIDE DEF n, f
<1>5. IsFiniteSet(Elements(s)) /\ Cardinality(Elements(s)) <= n
  BY <1>3, <1>4, FS_Surjection
<1>6. Cardinality(Elements(s)) \in Nat
  BY <1>5, FS_CardinalityType
<1>7. L!ToSet(s) = Elements(s)
  BY DEF L!ToSet, Elements
<1> QED BY <1>1, <1>2, <1>5, <1>6, <1>7 DEF n

LEMMA Joined ==
    ASSUME NEW T, NEW s \in Seq(T), NEW t \in Seq(T)
    PROVE  /\ s \o t \in Seq(T) /\ Len(s \o t) = Len(s) + Len(t)
           /\ Elements(s \o t) = Elements(s) \cup Elements(t)
<1>1. /\ s \o t \in Seq(T) /\ Len(s \o t) = Len(s) + Len(t)
      /\ \A i \in 1 .. Len(s) + Len(t) : (s \o t)[i] = IF i <= Len(s) THEN s[i] ELSE t[i - Len(s)]
  BY ConcatProperties
<1>2. /\ Len(s) \in Nat /\ DOMAIN s = 1 .. Len(s) /\ Len(t) \in Nat /\ DOMAIN t = 1 .. Len(t)
      /\ DOMAIN (s \o t) = 1 .. Len(s) + Len(t)
  BY <1>1, LenProperties
<1> DEFINE u == s \o t
<1>3. \A i \in DOMAIN u : u[i] \in Elements(s) \cup Elements(t)
  <2>1. TAKE i \in DOMAIN u
  <2>2. CASE i <= Len(s)
    BY <2>2, <1>1, <1>2 DEF Elements
  <2>3. CASE ~ (i <= Len(s))
    <3>1. i - Len(s) \in DOMAIN t /\ u[i] = t[i - Len(s)]
      BY <2>3, <1>1, <1>2
    <3> QED BY <3>1 DEF Elements
  <2> QED BY <2>2, <2>3
<1>4. \A i \in DOMAIN s : i \in DOMAIN u /\ u[i] = s[i]
  BY <1>1, <1>2
<1>5. \A i \in DOMAIN t : i + Len(s) \in DOMAIN u /\ u[i + Len(s)] = t[i]
  <2>1. TAKE i \in DOMAIN t
  <2>2. i + Len(s) \in 1 .. Len(s) + Len(t) /\ ~ (i + Len(s) <= Len(s)) /\ i + Len(s) - Len(s) = i
    BY <1>2
  <2> QED BY <2>2, <1>1, <1>2
<1> HIDE DEF u
<1>6. Elements(u) = Elements(s) \cup Elements(t)
  BY <1>3, <1>4, <1>5 DEF Elements
<1> QED BY <1>1, <1>6 DEF u

LEMMA FirstOfPart ==
    ASSUME NEW T, NEW s \in Seq(T), NEW n \in Nat
    PROVE  /\ L!FirstOf(s, n) \in Seq(T) /\ PartOf(L!FirstOf(s, n), s)
<1>1. Len(s) \in Nat /\ s \in [1 .. Len(s) -> T] /\ DOMAIN s = 1 .. Len(s)
  BY LenProperties
<1> DEFINE m == IF n <= Len(s) THEN n ELSE Len(s)
           t == SubSeq(s, 1, m)
<1>2. L!FirstOf(s, n) = t
  BY <1>1, Lesser DEF L!FirstOf
<1>3. m \in Nat /\ m <= Len(s)
  BY <1>1
<1> HIDE DEF m
<1>4. t \in Seq(T) /\ Len(t) = m /\ \A i \in 1 .. m : t[i] = s[i]
  <2>1. \A i \in 1 .. m : s[i] \in T
    BY <1>1, <1>3
  <2>2. /\ t \in Seq(T) /\ Len(t) = IF 1 <= m THEN m - 1 + 1 ELSE 0
        /\ \A i \in 1 .. m - 1 + 1 : t[i] = s[1 + i - 1]
    BY <1>3, <2>1, SubSeqProperties
  <2>3. m - 1 + 1 = m /\ \A i \in 1 .. m : 1 + i - 1 = i
    BY <1>3
  <2> QED BY <1>3, <2>2, <2>3
<1> HIDE DEF t
<1>5. DOMAIN t = 1 .. m
  BY <1>4, LenProperties
<1>6. PartOf(t, s)
  <2>1. \A i \in DOMAIN t : i \in DOMAIN s /\ t[i] = s[i]
    BY <1>1, <1>3, <1>4, <1>5
  <2>2. Elements(t) \subseteq Elements(s)
    BY <2>1 DEF Elements
  <2>3. ASSUME m = Len(s) PROVE Elements(s) \subseteq Elements(t)
    <3>1. DOMAIN t = DOMAIN s
      BY <1>1, <1>5, <2>3
    <3> QED BY <2>1, <3>1 DEF Elements
  <2> QED BY <1>3, <1>4, <2>2, <2>3 DEF PartOf
<1> QED BY <1>2, <1>4, <1>6

LEMMA CutPart ==
    ASSUME ListTyped, NEW T, NEW s \in Seq(T)
    PROVE  /\ L!Cut(s) \in Seq(T) /\ PartOf(L!Cut(s), s)
           /\ ask.show = 0 => L!Cut(s) = s
<1>1. Described \in Nat
  BY ListingAssumption DEF L!Assumption
<1>2. PartOf(s, s)
  BY LenProperties DEF PartOf
<1> QED BY <1>1, <1>2, FirstOfPart DEF L!Cut, L!Unlimited

LEMMA ListsElements ==
    ASSUME NEW T, NEW S \in SUBSET T, NEW s, Lists(s, S)
    PROVE  s \in Seq(T) /\ Elements(s) = S /\ Len(s) = Cardinality(S)
<1>1. s \in Seq(T)
  BY DEF Lists
<1>2. Elements(s) \in SUBSET S
  <2>1. s \in Seq(S)
    BY DEF Lists
  <2> QED BY <2>1, ElementsOf
<1> QED BY <1>1, <1>2 DEF Lists, Elements

\* The rank of entries that have places.
LEMMA RankedEntries ==
    ASSUME NEW T, NEW S \in SUBSET T, Placeable(S)
    PROVE  /\ L!Ranked(S) \in Seq(T) /\ Elements(L!Ranked(S)) = S /\ Len(L!Ranked(S)) = Cardinality(S)
           /\ Cardinality(S) \in Nat
<1>1. Cardinality(S) \in Nat
  BY FS_CardinalityType DEF Placeable
<1> QED BY <1>1, RankedLists, ListsElements

LEMMA WithoutImplsPart ==
    ASSUME NEW T, NEW s \in Seq(T), Placeable(Elements(s)), Len(s) = Cardinality(Elements(s))
    PROVE  L!WithoutImpls(s) \in Seq(T) /\ PartOf(L!WithoutImpls(s), s)
<1> DEFINE impls(k) == L!Cardinality({j \in 1 .. k : s[j].kind = "impl"})
           keep == {k \in DOMAIN s : s[k].kind # "impl" \/ impls(k) <= MaxImpls}
           S == {s[k] : k \in keep}
<1>1. S \in SUBSET Elements(s) /\ Elements(s) \in SUBSET T
  BY ElementsOf DEF Elements
<1>2. L!WithoutImpls(s) = IF \E k \in DOMAIN s : s[k].kind # "impl" THEN L!Ranked(S) ELSE s
  BY DEF L!WithoutImpls
<1> HIDE DEF S
<1>3. Placeable(S) /\ Cardinality(S) <= Cardinality(Elements(s))
      /\ (Cardinality(S) = Cardinality(Elements(s)) => S = Elements(s))
  <2>1. IsFiniteSet(Elements(s))
    BY DEF Placeable
  <2> QED BY <1>1, <2>1, FS_Subset DEF Placeable
<1>4. L!Ranked(S) \in Seq(T) /\ Elements(L!Ranked(S)) = S /\ Len(L!Ranked(S)) = Cardinality(S)
  BY <1>1, <1>3, RankedEntries
<1>5. PartOf(L!Ranked(S), s)
  BY <1>1, <1>3, <1>4 DEF PartOf
<1>6. PartOf(s, s)
  BY LenProperties DEF PartOf
<1> QED BY <1>2, <1>4, <1>5, <1>6

-----------------------------------------------------------------------------
(* Listing: what opening and scanning find.                                 *)

LEMMA ListConstants ==
    /\ Files \subseteq Nat /\ IsFiniteSet(Files) /\ Selected \subseteq Files
    /\ \A f \in Files : /\ Sources[f] \subseteq [text : Text, stamp : {1}]
                        /\ Edited[f] \subseteq [text : Text, stamp : Nat]
    /\ DOMAIN KindWeight \subseteq STRING /\ KindWeight \in [DOMAIN KindWeight -> Nat]
    /\ PathPrior \in [Files -> Nat] /\ ModuleWeight \in Nat /\ MaxImpls \in Nat
    /\ Requests \subseteq L!AnyRequest
<1>1. IsFiniteSet(Files)
  <2>1. L!IsFiniteSet(Files)
    BY ListingAssumption DEF L!Assumption
  <2> QED BY <2>1, Zenon DEF L!IsFiniteSet, IsFiniteSet
<1> QED BY <1>1, ListingAssumption DEF L!Assumption, Text

\* Entries at lines of texts.
LEMMA FewPlaces ==
    ASSUME NEW long \in [Files -> Nat], NEW S,
           \A x \in S : x.file \in Files /\ x.line \in 1 .. long[x.file],
           \A x, y \in S : x.file = y.file /\ x.line = y.line => x = y
    PROVE  IsFiniteSet(S)
<1> DEFINE Of == [f \in Files |-> {f} \X (1 .. long[f])]
           Parts == {Of[f] : f \in Files}
           T == UNION Parts
           place == [x \in S |-> <<x.file, x.line>>]
<1>1. \A f \in Files : IsFiniteSet(Of[f])
  <2>1. TAKE f \in Files
  <2>2. 1 \in Int /\ long[f] \in Int
    OBVIOUS
  <2>3. IsFiniteSet({f}) /\ IsFiniteSet(1 .. long[f])
    BY <2>2, FS_Singleton, FS_Interval
  <2> QED BY <2>3, FS_Product
<1>2. Of \in Surjection(Files, Parts)
  BY DEF Surjection
<1> HIDE DEF Of
<1>3. IsFiniteSet(Parts)
  BY <1>2, ListConstants, FS_Surjection
<1>4. IsFiniteSet(T)
  BY <1>1, <1>3, FS_UNION
<1>5. place \in Injection(S, T)
  <2>1. \A x \in S : place[x] \in Of[x.file] /\ x.file \in Files
    BY DEF Of
  <2>2. place \in [S -> T]
    BY <2>1
  <2> QED BY <2>2 DEF Injection, IsInjective
<1> HIDE DEF T
<1> QED BY <1>4, <1>5, FS_Injection

\* S has entries of texts, and flags whether they are the index's.
FromTexts(S, texts, flags) ==
    \A x \in S :
        /\ x \in EntryType /\ x.indexed \in flags /\ x.module = FALSE
        /\ x.line \in L!HasDefs(texts[x.file]) /\ x.was = x.line
        /\ x.kind = texts[x.file][x.line].kind /\ x.name = texts[x.file][x.line].name
        /\ x.score = L!Score(x.file, texts[x.file][x.line])

LEMMA TextLines ==
    ASSUME NEW text \in Text
    PROVE  /\ Len(text) \in Nat /\ DOMAIN text = 1 .. Len(text) /\ L!HasDefs(text) \subseteq 1 .. Len(text)
           /\ \A i \in DOMAIN text : text[i] \in L!Declarations
<1>1. Len(text) \in Nat /\ text \in [1 .. Len(text) -> L!Declarations]
  BY LenProperties DEF Text
<1> QED BY <1>1 DEF L!HasDefs

\* e is the entry of a line of f's text.
IsEntry(e, f, i, text) ==
    /\ e.indexed \in BOOLEAN
    /\ e = L!Entry(f, i, text[i], L!Score(f, text[i]), e.indexed)
Tells(e, f, i, text) ==
    /\ e \in EntryType /\ e.file = f /\ e.line = i /\ e.was = i /\ e.module = FALSE
    /\ e.kind = text[i].kind /\ e.name = text[i].name /\ e.score = L!Score(f, text[i])

LEMMA EntryIs ==
    ASSUME NEW f \in Files, NEW text \in Text, NEW i \in L!HasDefs(text), NEW e, IsEntry(e, f, i, text)
    PROVE  Tells(e, f, i, text)
<1>1. i \in Nat /\ text[i] \in L!Declarations
  BY TextLines
<1> DEFINE d == text[i]
           score == L!Score(f, d)
<1>2. d.kind \in DOMAIN KindWeight /\ d.name \in STRING
  BY <1>1, ListConstants DEF L!Declarations
<1>3. score \in Int
  <2>1. KindWeight[d.kind] \in Nat /\ PathPrior[f] \in Nat
    BY <1>2, ListConstants
  <2> DEFINE a == KindWeight[d.kind]
             b == PathPrior[f]
  <2> HIDE DEF a, b
  <2>2. a * b \in Int
    BY <2>1 DEF a, b
  <2> QED BY <2>2 DEF L!Score, a, b
<1>4. e = [file |-> f, line |-> i, was |-> i, kind |-> d.kind, name |-> d.name, score |-> score,
           indexed |-> e.indexed, module |-> FALSE]
  BY DEF IsEntry, L!Entry
<1> HIDE DEF d, score
<1>5. e.file = f /\ e.line = i /\ e.was = i /\ e.module = FALSE /\ e.kind = d.kind /\ e.name = d.name /\ e.score = score
  BY <1>4
<1>6. e \in EntryType
  <2>1. PICK no \in BOOLEAN : no = FALSE
    OBVIOUS
  <2>2. e = [file |-> f, line |-> i, was |-> i, kind |-> d.kind, name |-> d.name, score |-> score,
             indexed |-> e.indexed, module |-> no]
    BY <1>4, <2>1
  <2>3. e.indexed \in BOOLEAN
    BY DEF IsEntry
  <2> QED BY <1>1, <1>2, <1>3, <2>2, <2>3 DEF EntryType
<1> QED BY <1>5, <1>6 DEF d, score, Tells

LEMMA EntriesPlaceable ==
    ASSUME NEW texts \in [Files -> Text], NEW flags \in {{TRUE}, {FALSE}}, NEW S, FromTexts(S, texts, flags)
    PROVE  Placeable(S) /\ S \in SUBSET EntryType
<1> DEFINE long == [f \in Files |-> Len(texts[f])]
<1>1. \A x \in S : x \in EntryType
  BY DEF FromTexts
<1>2. \A x \in S : x.file \in Files /\ x.line \in 1 .. long[x.file]
  <2>1. TAKE x \in S
  <2>2. x.file \in Files
    BY <1>1 DEF EntryType
  <2>3. texts[x.file] \in Text /\ x.line \in L!HasDefs(texts[x.file]) /\ long[x.file] = Len(texts[x.file])
    BY <2>2 DEF FromTexts
  <2> QED BY <2>2, <2>3, TextLines
<1>3. \A x, y \in S : x.file = y.file /\ x.line = y.line => x = y
  <2>1. SUFFICES ASSUME NEW x \in S, NEW y \in S, x.file = y.file, x.line = y.line PROVE x = y
    OBVIOUS
  <2>2. x.was = y.was /\ x.kind = y.kind /\ x.name = y.name /\ x.score = y.score /\ x.module = y.module
    BY <2>1 DEF FromTexts
  <2>3. x.indexed = y.indexed
    BY DEF FromTexts
  <2>4. x \in EntryType /\ y \in EntryType
    BY <1>1
  <2> QED BY <2>1, <2>2, <2>3, <2>4 DEF EntryType
<1>4. long \in [Files -> Nat]
  <2>1. \A f \in Files : Len(texts[f]) \in Nat
    BY TextLines
  <2> QED BY <2>1
<1>5. IsFiniteSet(S)
  <2> HIDE DEF long
  <2> QED BY <1>2, <1>3, <1>4, FewPlaces
<1>6. Placeable(S)
  <2>1. \A x \in S : x.file \in Nat /\ x.line \in Nat /\ x.score \in Int /\ x.module \in BOOLEAN
    BY <1>1, ListConstants DEF EntryType
  <2> QED BY <1>3, <1>5, <2>1 DEF Placeable
<1> QED BY <1>1, <1>6

\* S has the entries of the index at these lines of its files.
IndexTexts == [f \in Files |-> recorded[f].text]
EntryAt(f, i) == L!Entry(f, i, recorded[f].text[i], L!Score(f, recorded[f].text[i]), TRUE)
AreOf(S, lines) == \A x : x \in S <=> \E f \in L!Indexed : \E i \in lines[f] : x = EntryAt(f, i)

LEMMA IndexTextsTyped ==
    ASSUME ListTyped
    PROVE  /\ IndexTexts \in [Files -> Text] /\ L!Indexed \subseteq Files
           /\ \A f \in Files : recorded[f].text \in Text /\ IndexTexts[f] = recorded[f].text
<1>1. \A f \in Files : recorded[f].text \in Text
  BY DEF ListTyped
<1> QED BY <1>1, ListConstants DEF IndexTexts, L!Indexed

LEMMA IndexEntries ==
    ASSUME ListTyped, NEW lines, \A f \in Files : lines[f] \subseteq L!HasDefs(recorded[f].text),
           NEW S, AreOf(S, lines)
    PROVE  /\ FromTexts(S, IndexTexts, {TRUE})
           /\ \A x \in S : x.file \in L!Indexed /\ x.line \in lines[x.file]
           /\ \A f \in L!Indexed : \A i \in lines[f] : \E x \in S : x.file = f /\ x.line = i
<1>1. ASSUME NEW f \in L!Indexed, NEW i \in lines[f], NEW x, x = EntryAt(f, i)
      PROVE  Tells(x, f, i, recorded[f].text) /\ x.indexed = TRUE
  <2> DEFINE t == recorded[f].text
  <2>1. f \in Files /\ t \in Text /\ i \in L!HasDefs(t)
    BY IndexTextsTyped
  <2>2. x = L!Entry(f, i, t[i], L!Score(f, t[i]), TRUE)
    BY <1>1 DEF EntryAt
  <2> HIDE DEF t
  <2>3. x.indexed = TRUE
    BY <2>2 DEF L!Entry
  <2>4. IsEntry(x, f, i, t)
    BY <2>2, <2>3 DEF L!Entry, IsEntry
  <2>5. Tells(x, f, i, t)
    BY <2>1, <2>4, EntryIs
  <2> QED BY <2>3, <2>5 DEF t
<1>2. ASSUME NEW x \in S
      PROVE  /\ x \in EntryType /\ x.indexed \in {TRUE} /\ x.module = FALSE
             /\ x.line \in L!HasDefs(IndexTexts[x.file]) /\ x.was = x.line
             /\ x.kind = IndexTexts[x.file][x.line].kind /\ x.name = IndexTexts[x.file][x.line].name
             /\ x.score = L!Score(x.file, IndexTexts[x.file][x.line])
             /\ x.file \in L!Indexed /\ x.line \in lines[x.file]
  <2>1. PICK f \in L!Indexed : \E i \in lines[f] : x = EntryAt(f, i)
    BY DEF AreOf
  <2>2. PICK i \in lines[f] : x = EntryAt(f, i)
    BY <2>1
  <2>3. Tells(x, f, i, recorded[f].text) /\ x.indexed = TRUE
    BY <1>1, <2>2
  <2>4. f \in Files /\ IndexTexts[f] = recorded[f].text /\ i \in L!HasDefs(recorded[f].text)
    BY IndexTextsTyped
  <2> QED BY <2>3, <2>4 DEF Tells
<1>3. FromTexts(S, IndexTexts, {TRUE})
  BY <1>2 DEF FromTexts
<1>4. \A f \in L!Indexed : \A i \in lines[f] : \E x \in S : x.file = f /\ x.line = i
  <2>1. TAKE f \in L!Indexed
  <2>2. TAKE i \in lines[f]
  <2>3. EntryAt(f, i) \in S
    BY DEF AreOf
  <2>4. Tells(EntryAt(f, i), f, i, recorded[f].text)
    BY <1>1
  <2> QED BY <2>3, <2>4 DEF Tells
<1> QED BY <1>2, <1>3, <1>4

NamedEntries(names) == UNION {{EntryAt(f, i) : i \in L!Named(recorded[f].text, names)} : f \in L!Indexed}
ExtendingEntries == UNION {{EntryAt(f, i) : i \in L!Extending(recorded[f].text)} : f \in L!Indexed}

LEMMA NamedAre ==
    ASSUME ListTyped, NEW names
    PROVE  /\ FromTexts(NamedEntries(names), IndexTexts, {TRUE})
           /\ \A x \in NamedEntries(names) : x.file \in L!Indexed
           /\ \A f \in L!Indexed : \A i \in L!Named(recorded[f].text, names) :
                 \E x \in NamedEntries(names) : x.file = f /\ x.line = i
<1> DEFINE lines == [f \in Files |-> L!Named(recorded[f].text, names)]
           S == NamedEntries(names)
<1>1. \A f \in Files : lines[f] = L!Named(recorded[f].text, names)
  OBVIOUS
<1> HIDE DEF lines
<1>2. \A f \in Files : lines[f] \subseteq L!HasDefs(recorded[f].text)
  BY <1>1 DEF L!Named
<1>3. AreOf(S, lines)
  <2>1. \A f \in L!Indexed : lines[f] = L!Named(recorded[f].text, names)
    BY <1>1, IndexTextsTyped
  <2>2. \A x : x \in S <=> \E f \in L!Indexed : \E i \in L!Named(recorded[f].text, names) : x = EntryAt(f, i)
    BY DEF NamedEntries
  <2> QED BY <2>1, <2>2 DEF AreOf
<1> HIDE DEF S
<1>4. /\ FromTexts(S, IndexTexts, {TRUE})
      /\ \A x \in S : x.file \in L!Indexed /\ x.line \in lines[x.file]
      /\ \A f \in L!Indexed : \A i \in lines[f] : \E x \in S : x.file = f /\ x.line = i
  BY <1>2, <1>3, IndexEntries
<1>5. \A f \in L!Indexed : lines[f] = L!Named(recorded[f].text, names)
  BY <1>1, IndexTextsTyped
<1> QED BY <1>4, <1>5 DEF S

LEMMA ExtendingAre ==
    ASSUME ListTyped
    PROVE  /\ FromTexts(ExtendingEntries, IndexTexts, {TRUE})
           /\ \A x \in ExtendingEntries : x.file \in L!Indexed /\ x.line \in L!Extending(recorded[x.file].text)
           /\ \A f \in L!Indexed : \A i \in L!Extending(recorded[f].text) :
                 \E x \in ExtendingEntries : x.file = f /\ x.line = i
<1> DEFINE lines == [f \in Files |-> L!Extending(recorded[f].text)]
           S == ExtendingEntries
<1>1. \A f \in Files : lines[f] = L!Extending(recorded[f].text)
  OBVIOUS
<1> HIDE DEF lines
<1>2. \A f \in Files : lines[f] \subseteq L!HasDefs(recorded[f].text)
  BY <1>1 DEF L!Extending
<1>3. AreOf(S, lines)
  <2>1. \A f \in L!Indexed : lines[f] = L!Extending(recorded[f].text)
    BY <1>1, IndexTextsTyped
  <2>2. \A x : x \in S <=> \E f \in L!Indexed : \E i \in L!Extending(recorded[f].text) : x = EntryAt(f, i)
    BY DEF ExtendingEntries
  <2> QED BY <2>1, <2>2 DEF AreOf
<1> HIDE DEF S
<1>4. /\ FromTexts(S, IndexTexts, {TRUE})
      /\ \A x \in S : x.file \in L!Indexed /\ x.line \in lines[x.file]
      /\ \A f \in L!Indexed : \A i \in lines[f] : \E x \in S : x.file = f /\ x.line = i
  BY <1>2, <1>3, IndexEntries
<1>5. \A f \in L!Indexed : lines[f] = L!Extending(recorded[f].text)
  BY <1>1, IndexTextsTyped
<1> QED BY <1>4, <1>5 DEF S

\* The definitions `def` opens with: of the index, and all that were asked for.
LEMMA SymbolsAre ==
    ASSUME ListTyped, ask.verb = "def"
    PROVE  /\ FromTexts(L!OfKind(L!Symbols), IndexTexts, {TRUE})
           /\ \A x \in L!OfKind(L!Symbols) : x.file \in L!Indexed
           /\ \A f \in L!Indexed : \A i \in Wanted(f) : \E x \in L!OfKind(L!Symbols) : x.file = f /\ x.line = i
<1> DEFINE exact == NamedEntries(L!Names)
           folded == NamedEntries(Folded)
           close == NamedEntries(Near)
           S == L!Symbols
<1>1. S = IF exact # {} \/ Modules \cap L!Indexed # {} \/ ~ ask.discover THEN exact
          ELSE IF folded # {} THEN folded ELSE close
  BY DEF L!Symbols, L!InIndex, NamedEntries, EntryAt
<1>2. /\ S = exact \/ S = folded \/ S = close
      /\ exact # {} => S = exact
  BY <1>1
<1>3. FromTexts(S, IndexTexts, {TRUE}) /\ \A x \in S : x.file \in L!Indexed
  BY <1>2, NamedAre
<1>4. L!OfKind(S) = {x \in S : ask.kind = "any" \/ x.kind = ask.kind}
  BY DEF L!OfKind
<1> HIDE DEF S
<1>5. FromTexts(L!OfKind(S), IndexTexts, {TRUE}) /\ \A x \in L!OfKind(S) : x.file \in L!Indexed
  BY <1>3, <1>4 DEF FromTexts
<1>6. \A f \in L!Indexed : \A i \in Wanted(f) : \E x \in L!OfKind(S) : x.file = f /\ x.line = i
  <2>1. SUFFICES ASSUME NEW f \in L!Indexed, NEW i \in Wanted(f)
                 PROVE  \E x \in L!OfKind(S) : x.file = f /\ x.line = i
    OBVIOUS
  <2>2. /\ i \in L!Named(recorded[f].text, {"q"})
        /\ ask.kind = "any" \/ recorded[f].text[i].kind = ask.kind
    BY DEF Wanted
  <2>3. i \in L!Named(recorded[f].text, L!Names)
    BY <2>2 DEF L!Named, L!Names, L!Query
  <2>4. PICK x \in exact : x.file = f /\ x.line = i
    BY <2>3, NamedAre
  <2>5. x \in S
    BY <1>2, <2>4
  <2>6. x.kind = recorded[f].text[i].kind
    <3>1. x.kind = IndexTexts[f][i].kind
      BY <1>3, <2>4, <2>5 DEF FromTexts
    <3> QED BY <3>1, IndexTextsTyped
  <2> QED BY <1>4, <2>2, <2>4, <2>5, <2>6
<1> QED BY <1>5, <1>6 DEF S

LEMMA ModulesAre ==
    ASSUME ListTyped
    PROVE  /\ Placeable(L!FileModules) /\ L!FileModules \in SUBSET EntryType
           /\ \A x \in L!FileModules : x.file \in L!Indexed /\ x.indexed = TRUE /\ x.module = TRUE
<1> DEFINE E(f) == [file |-> f, line |-> 1, was |-> 1, kind |-> "module", name |-> "q",
                    score |-> ModuleWeight * PathPrior[f], indexed |-> TRUE, module |-> TRUE]
           S == L!FileModules
<1>1. \A x \in S : \E f \in L!Indexed : x = E(f)
  BY DEF L!FileModules, L!Query
<1>2. \A f \in L!Indexed : f \in Files /\ f \in Nat /\ ModuleWeight * PathPrior[f] \in Int
  <2>1. TAKE f \in L!Indexed
  <2>2. f \in Files /\ f \in Nat
    BY IndexTextsTyped, ListConstants
  <2>3. PathPrior[f] \in Nat /\ ModuleWeight \in Nat
    BY <2>2, ListConstants
  <2> DEFINE a == PathPrior[f]
  <2> HIDE DEF a
  <2>4. ModuleWeight * a \in Int
    BY <2>3 DEF a
  <2> QED BY <2>2, <2>4 DEF a
<1> HIDE DEF S
<1>3. \A x \in S : /\ x \in EntryType /\ x.file \in L!Indexed /\ x.line = 1 /\ x.indexed = TRUE /\ x.module = TRUE
                  /\ x = E(x.file)
  <2>1. TAKE x \in S
  <2>2. PICK f \in L!Indexed : x = E(f)
    BY <1>1
  <2>3. PICK yes \in BOOLEAN : yes = TRUE
    OBVIOUS
  <2>4. x = [file |-> f, line |-> 1, was |-> 1, kind |-> "module", name |-> "q",
             score |-> ModuleWeight * PathPrior[f], indexed |-> yes, module |-> yes]
    BY <2>2, <2>3
  <2>5. x \in EntryType
    BY <1>2, <2>4 DEF EntryType
  <2> QED BY <2>2, <2>5
<1>4. \A x \in S : x.file \in Files /\ x.line \in 1 .. 1
  BY <1>2, <1>3
<1>5. \A x, y \in S : x.file = y.file => x = y
  <2>1. \A x, y \in S : x.file = y.file => E(x.file) = E(y.file)
    OBVIOUS
  <2> HIDE DEF E
  <2> QED BY <1>3, <2>1
<1>6. IsFiniteSet(S)
  <2> DEFINE long == [f \in Files |-> 1]
  <2>1. long \in [Files -> Nat] /\ \A x \in S : x.file \in Files /\ x.line \in 1 .. long[x.file]
    BY <1>4
  <2> HIDE DEF long
  <2> QED BY <1>5, <2>1, FewPlaces
<1>7. \A x \in S : x.file \in Nat /\ x.line \in Nat /\ x.score \in Int /\ x.module \in BOOLEAN
  BY <1>3, ListConstants DEF EntryType
<1>8. Placeable(S)
  BY <1>5, <1>6, <1>7 DEF Placeable
<1> QED BY <1>3, <1>8 DEF S

\* What a scan of f makes of it.
LEMMA ScanEntries ==
    ASSUME NEW f \in Files, NEW texts \in [Files -> Text], NEW S,
           \A x \in S : \E i \in L!HasDefs(texts[f]) : x = L!Entry(f, i, texts[f][i], L!Score(f, texts[f][i]), FALSE)
    PROVE  FromTexts(S, texts, {FALSE}) /\ \A x \in S : x.file = f /\ x.line \in L!HasDefs(texts[f])
<1> DEFINE t == texts[f]
<1>1. ASSUME NEW x \in S
      PROVE  /\ x \in EntryType /\ x.indexed \in {FALSE} /\ x.module = FALSE /\ x.file = f
             /\ x.line \in L!HasDefs(t) /\ x.was = x.line
             /\ x.kind = t[x.line].kind /\ x.name = t[x.line].name
             /\ x.score = L!Score(f, t[x.line])
  <2>1. t \in Text
    OBVIOUS
  <2>2. PICK i \in L!HasDefs(t) : x = L!Entry(f, i, t[i], L!Score(f, t[i]), FALSE)
    OBVIOUS
  <2> HIDE DEF t
  <2>3. x.indexed = FALSE
    BY <2>2 DEF L!Entry
  <2>4. IsEntry(x, f, i, t)
    BY <2>2, <2>3 DEF L!Entry, IsEntry
  <2>5. Tells(x, f, i, t)
    BY <2>1, <2>4, EntryIs
  <2> QED BY <2>2, <2>3, <2>5 DEF Tells
<1> QED BY <1>1 DEF FromTexts

-----------------------------------------------------------------------------
(* Listing: the steps.                                                      *)

LEMMA SoundStays ==
    ASSUME UNCHANGED <<recorded, ask>>, NEW e, Sound(e),
           e.indexed \/ (e.file \notin todo' /\ scanned'[e.file] = scanned[e.file])
    PROVE  Sound(e)'
BY DEF Sound, Homes, L!Indexed

LEMMA OpenDefStep ==
    ASSUME ListInv, L!OpenDef
    PROVE  ListInv'
<1> DEFINE syms == L!OfKind(L!Symbols)
           mods == L!FileModules
           s == L!Cut(L!Ranked(syms))
           t == L!Ranked(mods)
<1>1. /\ listStage = "open" /\ ask.verb = "def" /\ ask.index = TRUE
      /\ entries' = s \o t /\ total' = L!Cardinality(syms) + L!Cardinality(mods)
      /\ todo' = Selected \cap Skipped /\ listStage' = "scan"
      /\ UNCHANGED <<files, recorded, ask, next, cache, gone, have, extras, scanned, writes>>
  <2>1. ask.index \in BOOLEAN
    BY DEF ListInv, ListTyped, L!AnyRequest
  <2> QED BY <2>1 DEF L!OpenDef
<1>2. ListTyped
  BY DEF ListInv
<1>3. /\ FromTexts(syms, IndexTexts, {TRUE}) /\ \A x \in syms : x.file \in L!Indexed
      /\ \A f \in L!Indexed : \A i \in Wanted(f) : \E x \in syms : x.file = f /\ x.line = i
  BY <1>1, <1>2, SymbolsAre
<1>4. /\ Placeable(mods) /\ mods \in SUBSET EntryType
      /\ \A x \in mods : x.file \in L!Indexed /\ x.indexed = TRUE /\ x.module = TRUE
  BY <1>2, ModulesAre
<1> HIDE DEF syms, mods
<1>5. Placeable(syms) /\ syms \in SUBSET EntryType
  <2>1. {TRUE} \in {{TRUE}, {FALSE}}
    OBVIOUS
  <2> QED BY <1>2, <1>3, <2>1, IndexTextsTyped, EntriesPlaceable
<1>6. /\ s \in Seq(EntryType) /\ Elements(s) \subseteq syms /\ Len(s) <= Cardinality(syms)
      /\ Len(s) = Cardinality(syms) => Elements(s) = syms
      /\ Cardinality(syms) \in Nat /\ Len(s) \in Nat
  <2>1. /\ L!Ranked(syms) \in Seq(EntryType) /\ Elements(L!Ranked(syms)) = syms
        /\ Len(L!Ranked(syms)) = Cardinality(syms) /\ Cardinality(syms) \in Nat
    BY <1>5, RankedEntries
  <2>2. s \in Seq(EntryType) /\ PartOf(s, L!Ranked(syms))
    BY <1>2, <2>1, CutPart
  <2> QED BY <2>1, <2>2, LenProperties DEF PartOf
<1>7. t \in Seq(EntryType) /\ Elements(t) = mods /\ Len(t) = Cardinality(mods) /\ Cardinality(mods) \in Nat
  BY <1>4, RankedEntries
<1> HIDE DEF s, t
<1>8. /\ entries' \in Seq(EntryType) /\ Len(entries') = Len(s) + Len(t)
      /\ Elements(entries') = Elements(s) \cup mods
  BY <1>1, <1>6, <1>7, Joined
<1>9. total' = Cardinality(syms) + Cardinality(mods)
  BY <1>1, SameCardinality
<1>10. ListTyped'
  <2>1. total' \in Int /\ todo' \in SUBSET Selected
    BY <1>1, <1>6, <1>7, <1>9
  <2> QED BY <1>1, <1>2, <1>8, <2>1 DEF ListTyped, Over
<1>11. \A x \in syms : /\ x.indexed = TRUE /\ x.module = FALSE /\ x.was = x.line /\ x.file \in L!Indexed
                       /\ x.line \in L!HasDefs(recorded[x.file].text)
                       /\ x.kind = recorded[x.file].text[x.line].kind
                       /\ x.name = recorded[x.file].text[x.line].name
  <2>1. TAKE x \in syms
  <2>2. x.file \in L!Indexed
    BY <1>3
  <2>3. IndexTexts[x.file] = recorded[x.file].text
    BY <1>2, <2>2, IndexTextsTyped
  <2> QED BY <1>3, <2>2, <2>3 DEF FromTexts
<1>12. Placed'
  <2>1. \A x \in Elements(entries') : Sound(x)'
    <3>1. ASSUME NEW x \in syms PROVE Sound(x)'
      BY <1>1, <1>11 DEF Sound, Homes, L!Indexed
    <3>2. ASSUME NEW x \in mods PROVE Sound(x)'
      BY <1>1, <1>4 DEF Sound, Homes, L!Indexed
    <3> QED BY <1>6, <1>8, <3>1, <3>2
  <2>2. \A k \in DOMAIN entries' : AsIndexed(entries'[k])
    <3>1. TAKE k \in DOMAIN entries'
    <3>2. entries'[k] \in syms \cup mods
      BY <1>6, <1>8 DEF Elements
    <3> QED BY <1>4, <1>11, <3>2 DEF AsIndexed
  <2>3. \A d, e \in Elements(entries') : d.file = e.file /\ d.line = e.line /\ d.module = e.module => d = e
    <3>1. SUFFICES ASSUME NEW d \in Elements(entries'), NEW e \in Elements(entries'),
                          d.file = e.file, d.line = e.line, d.module = e.module
                   PROVE  d = e
      OBVIOUS
    <3>2. (d \in syms /\ e \in syms) \/ (d \in mods /\ e \in mods)
      BY <1>4, <1>6, <1>8, <1>11, <3>1
    <3> QED BY <1>4, <1>5, <3>1, <3>2 DEF Placeable
  <2>4. \A f \in L!Indexed' : cache'[f].read /\ cache'[f].current => cache'[f].text = recorded'[f].text
    BY <1>1 DEF ListInv, Placed, L!Indexed
  <2>5. ~ Over'
    BY <1>1 DEF Over
  <2> QED BY <1>1, <2>1, <2>2, <2>3, <2>4, <2>5 DEF Placed, AsIndexed
<1>13. Complete'
  <2>1. Len(entries') <= total'
    BY <1>6, <1>7, <1>8, <1>9
  <2>2. ASSUME total' = Len(entries'), NEW f \in L!Indexed, NEW i \in Wanted(f)
        PROVE  \E e \in Elements(entries') : Stands(e, f, i)
    <3>1. Elements(s) = syms
      BY <1>6, <1>7, <1>8, <1>9, <2>2
    <3>2. PICK x \in syms : x.file = f /\ x.line = i
      BY <1>3
    <3>3. Stands(x, f, i)
      BY <1>11, <3>2 DEF Stands
    <3> QED BY <1>8, <3>1, <3>3
  <2>3. L!Indexed' = L!Indexed /\ \A f : Wanted(f)' = Wanted(f) /\ \A e, i : Stands(e, f, i)' = Stands(e, f, i)
    BY <1>1 DEF L!Indexed, Wanted, Stands
  <2> QED BY <2>1, <2>2, <2>3 DEF Complete
<1>14. Apart'
  BY <1>1 DEF Apart
<1> QED BY <1>10, <1>12, <1>13, <1>14 DEF ListInv

LEMMA OpenImplsStep ==
    ASSUME ListInv, L!OpenImpls
    PROVE  ListInv'
<1> DEFINE syms == ExtendingEntries
           s == L!Cut(L!Ranked(syms))
<1>1. /\ listStage = "open" /\ ask.verb = "impls" /\ ask.index = TRUE
      /\ entries' = s /\ total' = L!Cardinality(syms) /\ have' = LinesOf(syms) /\ listStage' = "describe"
      /\ UNCHANGED <<files, recorded, ask, todo, next, cache, gone, extras, scanned, writes>>
  <2>1. ask.index \in BOOLEAN
    BY DEF ListInv, ListTyped, L!AnyRequest
  <2> QED BY <2>1 DEF L!OpenImpls, L!InIndex, ExtendingEntries, EntryAt, LinesOf
<1>2. ListTyped
  BY DEF ListInv
<1>3. /\ FromTexts(syms, IndexTexts, {TRUE})
      /\ \A x \in syms : x.file \in L!Indexed /\ x.line \in L!Extending(recorded[x.file].text)
      /\ \A f \in L!Indexed : \A i \in L!Extending(recorded[f].text) : \E x \in syms : x.file = f /\ x.line = i
  BY <1>2, ExtendingAre
<1> HIDE DEF syms
<1>4. Placeable(syms) /\ syms \in SUBSET EntryType
  <2>1. {TRUE} \in {{TRUE}, {FALSE}}
    OBVIOUS
  <2> QED BY <1>2, <1>3, <2>1, IndexTextsTyped, EntriesPlaceable
<1>5. /\ s \in Seq(EntryType) /\ Elements(s) \subseteq syms /\ Len(s) <= Cardinality(syms)
      /\ Len(s) = Cardinality(syms) => Elements(s) = syms
      /\ Cardinality(syms) \in Nat /\ Len(s) \in Nat
  <2>1. /\ L!Ranked(syms) \in Seq(EntryType) /\ Elements(L!Ranked(syms)) = syms
        /\ Len(L!Ranked(syms)) = Cardinality(syms) /\ Cardinality(syms) \in Nat
    BY <1>4, RankedEntries
  <2>2. s \in Seq(EntryType) /\ PartOf(s, L!Ranked(syms))
    BY <1>2, <2>1, CutPart
  <2> QED BY <2>1, <2>2, LenProperties DEF PartOf
<1> HIDE DEF s
<1>6. total' = Cardinality(syms)
  BY <1>1, SameCardinality
<1>7. ListTyped'
  <2>1. total' \in Int /\ entries' \in Seq(EntryType) /\ next = 1
    BY <1>1, <1>2, <1>5, <1>6 DEF ListTyped, Over
  <2>2. L!Shown' = Len(entries')
    BY <1>1 DEF L!Shown
  <2>3. next' <= L!Shown' + 1
    BY <1>1, <1>5, <2>1, <2>2
  <2> QED BY <1>1, <1>2, <2>1, <2>3 DEF ListTyped, Over
<1>8. \A x \in syms : /\ x.indexed = TRUE /\ x.module = FALSE /\ x.was = x.line /\ x.file \in L!Indexed
                      /\ x.line \in L!HasDefs(recorded[x.file].text)
                      /\ x.kind = recorded[x.file].text[x.line].kind
                      /\ x.name = recorded[x.file].text[x.line].name
                      /\ "q" \in recorded[x.file].text[x.line].supers
  <2>1. TAKE x \in syms
  <2>2. x.file \in L!Indexed /\ x.line \in L!Extending(recorded[x.file].text)
    BY <1>3
  <2>3. IndexTexts[x.file] = recorded[x.file].text
    BY <1>2, <2>2, IndexTextsTyped
  <2> QED BY <1>3, <2>2, <2>3 DEF FromTexts, L!Extending, L!Query
<1>9. Placed'
  <2>1. \A x \in Elements(entries') : Sound(x)'
    <3>1. ASSUME NEW x \in syms PROVE Sound(x)'
      BY <1>1, <1>8 DEF Sound, Homes, L!Indexed
    <3> QED BY <1>1, <1>5, <3>1
  <2>2. \A k \in DOMAIN entries' : AsIndexed(entries'[k])
    <3>1. TAKE k \in DOMAIN entries'
    <3>2. entries'[k] \in syms
      BY <1>1, <1>5 DEF Elements
    <3> QED BY <1>8, <3>2 DEF AsIndexed
  <2>3. \A f \in L!Indexed' : cache'[f].read /\ cache'[f].current => cache'[f].text = recorded'[f].text
    BY <1>1 DEF ListInv, Placed, L!Indexed
  <2>4. ~ Over' /\ next' = 1
    BY <1>1, <1>2 DEF Over, ListTyped
  <2>5. \A k \in DOMAIN entries' : ~ (k < next')
    <3>1. DOMAIN entries' = 1 .. Len(entries')
      BY <1>1, <1>5, LenProperties
    <3> QED BY <2>4, <3>1
  <2> QED BY <1>1, <2>1, <2>2, <2>3, <2>4, <2>5 DEF Placed, AsIndexed
<1>10. Complete'
  <2>1. Len(entries') <= total'
    BY <1>1, <1>5, <1>6
  <2>2. ASSUME total' = Len(entries'), NEW f \in L!Indexed, NEW i \in Wanted(f)
        PROVE  \E e \in Elements(entries') : Stands(e, f, i)
    <3>1. Elements(entries') = syms
      BY <1>1, <1>5, <1>6, <2>2
    <3>2. PICK x \in syms : x.file = f /\ x.line = i
      BY <1>1, <1>3 DEF Wanted
    <3>3. Stands(x, f, i)
      BY <1>8, <3>2 DEF Stands
    <3> QED BY <3>1, <3>3
  <2>3. L!Indexed' = L!Indexed /\ \A f : Wanted(f)' = Wanted(f) /\ \A e, i : Stands(e, f, i)' = Stands(e, f, i)
    BY <1>1 DEF L!Indexed, Wanted, Stands
  <2> QED BY <2>1, <2>2, <2>3 DEF Complete
<1>11. Apart'
  <2>1. Listed' \subseteq have'
    <3>1. ASSUME NEW k \in DOMAIN entries' PROVE <<entries'[k].file, entries'[k].line>> \in have'
      <4>1. entries'[k] \in syms
        BY <1>1, <1>5 DEF Elements
      <4> QED BY <1>1, <4>1 DEF LinesOf
    <3> QED BY <3>1 DEF Listed, Staying
  <2>2. extras' = {}
    BY <1>1, <1>2 DEF ListTyped
  <2>3. \A p \in have' : p \in Files \X Nat /\ WasThere(p[1], p[2])'
    <3>1. TAKE p \in have'
    <3>2. PICK x \in syms : p = <<x.file, x.line>>
      BY <1>1 DEF LinesOf
    <3>3. x \in EntryType /\ x.file \in Files /\ x.line \in Nat
      BY <1>4 DEF EntryType
    <3>4. x.line \in DOMAIN recorded[x.file].text /\ "q" \in recorded[x.file].text[x.line].supers
      BY <1>8 DEF L!HasDefs
    <3> QED BY <1>1, <3>2, <3>3, <3>4 DEF WasThere
  <2> QED BY <1>1, <2>1, <2>2, <2>3 DEF Apart, Over
<1> QED BY <1>7, <1>9, <1>10, <1>11 DEF ListInv

LEMMA OpenScanStep ==
    ASSUME ListInv, L!OpenScan
    PROVE  ListInv'
<1>1. /\ listStage = "open" /\ ~ ask.index /\ todo' = Selected /\ listStage' = "scan"
      /\ UNCHANGED <<files, recorded, ask, entries, next, cache, gone, total, have, extras, scanned, writes>>
  BY DEF L!OpenScan
<1>2. entries = <<>> /\ extras = {} /\ have = {} /\ Elements(entries) = {} /\ DOMAIN entries = {}
  BY <1>1 DEF ListInv, ListTyped, Elements
<1>3. ~ Over /\ ~ Over'
  BY <1>1 DEF Over
<1>4. ListTyped'
  BY <1>1, <1>3 DEF ListInv, ListTyped
<1>5. Placed'
  <2>1. \A f \in L!Indexed' : cache'[f].read /\ cache'[f].current => cache'[f].text = recorded'[f].text
    BY <1>1 DEF ListInv, Placed, L!Indexed
  <2>2. Elements(entries') = {} /\ DOMAIN entries' = {}
    BY <1>1, <1>2
  <2> QED BY <1>1, <1>3, <2>1, <2>2 DEF Placed
<1>6. Complete'
  BY <1>1 DEF Complete
<1>7. Apart'
  <2>1. Listed' = {}
    BY <1>1, <1>2 DEF Listed, Staying
  <2> QED BY <1>1, <1>2, <2>1 DEF Apart, Over
<1> QED BY <1>4, <1>5, <1>6, <1>7 DEF ListInv

LEMMA LeastToDo ==
    ASSUME ListTyped, todo # {}
    PROVE  L!Min(todo) \in todo
<1>1. todo \in SUBSET Nat
  BY ListConstants DEF ListTyped
<1>2. \E x \in todo : \A y \in todo : x <= y
  BY <1>1, LeastNumber
<1> QED BY <1>2 DEF L!Min

\* What a scan of one file leaves as it was.
LEMMA ScanLeaves ==
    ASSUME ListInv, L!Scan, NEW f, f = L!Min(todo)
    PROVE  /\ f \in todo /\ f \in Files /\ f \in Selected /\ listStage = "scan"
           /\ todo' = todo \ {f} /\ scanned' = [scanned EXCEPT ![f] = files[f].text]
           /\ scanned' \in [Files -> Text] /\ scanned'[f] = files[f].text /\ \A g \in Files \ {f} : scanned'[g] = scanned[g]
           /\ UNCHANGED <<files, recorded, ask, listStage, next, cache, gone, writes>>
           /\ Over' = Over /\ L!Indexed' = L!Indexed
           /\ \A e \in Elements(entries) : Sound(e)'
           /\ ~ Over => \A k \in DOMAIN entries : AsIndexed(entries[k])
           /\ Over => \A e \in Elements(entries) : Seen(e)'
<1>1. ListTyped /\ Placed
  BY DEF ListInv
<1>2. f \in todo
  BY <1>1, LeastToDo DEF L!Scan
<1>3. /\ f \in Files /\ f \in Selected /\ listStage = "scan"
      /\ todo' = todo \ {f} /\ scanned' = [scanned EXCEPT ![f] = files[f].text]
      /\ UNCHANGED <<files, recorded, ask, listStage, next, cache, gone, writes>>
  BY <1>1, <1>2, ListConstants DEF L!Scan, ListTyped
<1>4. /\ scanned' \in [Files -> Text] /\ scanned'[f] = files[f].text
      /\ \A g \in Files \ {f} : scanned'[g] = scanned[g]
  <2>1. scanned \in [Files -> Text] /\ files[f].text \in Text
    BY <1>1, <1>3 DEF ListTyped
  <2> QED BY <1>3, <2>1
<1>5. Over' = Over /\ L!Indexed' = L!Indexed
  BY <1>3 DEF Over, L!Indexed
<1>6. \A e \in Elements(entries) : Sound(e)'
  <2>1. TAKE e \in Elements(entries)
  <2>2. Sound(e)
    BY <1>1 DEF Placed
  <2>3. ~ e.indexed => e.file \in Selected \ todo
    BY <2>2 DEF Sound
  <2>4. ~ e.indexed => e.file \notin todo' /\ scanned'[e.file] = scanned[e.file]
    BY <1>2, <1>3, <1>4, <2>3, ListConstants
  <2> QED BY <1>3, <2>2, <2>4, SoundStays
<1>7. ~ Over => \A k \in DOMAIN entries : AsIndexed(entries[k])
  <2>1. SUFFICES ASSUME ~ Over, NEW k \in DOMAIN entries PROVE AsIndexed(entries[k])
    OBVIOUS
  <2>2. next = 1 /\ k \in 1 .. Len(entries)
    BY <1>1, <1>3, <2>1, LenProperties DEF ListTyped
  <2>3. k >= next
    BY <2>2
  <2> QED BY <1>1, <2>1, <2>3 DEF Placed
<1>8. Over => \A e \in Elements(entries) : Seen(e)'
  <2>1. \A e : Seen(e)' = Seen(e)
    BY <1>3 DEF Seen, SeenAt, Homes
  <2> QED BY <1>1, <2>1 DEF Placed
<1> QED BY <1>2, <1>3, <1>4, <1>5, <1>6, <1>7, <1>8

LEMMA ScanDefStep ==
    ASSUME ListInv, L!Scan, ask.verb = "def"
    PROVE  ListInv'
<1> DEFINE f == L!Min(todo)
           hits == L!Hits(f, files[f].text)
           t == L!Ranked(hits)
<1>1. /\ f \in todo /\ f \in Files /\ f \in Selected /\ listStage = "scan"
      /\ todo' = todo \ {f}
      /\ scanned' \in [Files -> Text] /\ scanned'[f] = files[f].text
      /\ UNCHANGED <<files, recorded, ask, listStage, next, cache, gone, writes>>
      /\ Over' = Over /\ L!Indexed' = L!Indexed
      /\ \A e \in Elements(entries) : Sound(e)'
      /\ ~ Over => \A k \in DOMAIN entries : AsIndexed(entries[k])
  BY ScanLeaves
<1>2. entries' = entries \o t /\ total' = total + L!Cardinality(hits) /\ UNCHANGED <<have, extras>>
  BY DEF L!Scan, L!ScanDefs, L!ScanImpls
<1>3. ListTyped /\ Placed /\ Complete /\ Apart
  BY DEF ListInv
<1>4. ~ Over /\ ~ Over'
  BY <1>1 DEF Over
<1>5. \A x \in hits : /\ \E i \in L!HasDefs(scanned'[f]) :
                            x = L!Entry(f, i, scanned'[f][i], L!Score(f, scanned'[f][i]), FALSE)
  BY <1>1 DEF L!Hits, L!OfKind, L!Named
<1> HIDE DEF f, hits
<1>6. FromTexts(hits, scanned', {FALSE}) /\ \A x \in hits : x.file = f /\ x.line \in L!HasDefs(scanned'[f])
  BY <1>1, <1>5, ScanEntries
<1>7. Placeable(hits) /\ hits \in SUBSET EntryType
  <2>1. {FALSE} \in {{TRUE}, {FALSE}}
    OBVIOUS
  <2> QED BY <1>1, <1>6, <2>1, EntriesPlaceable
<1>8. t \in Seq(EntryType) /\ Elements(t) = hits /\ Len(t) = Cardinality(hits) /\ Cardinality(hits) \in Nat
  BY <1>7, RankedEntries
<1> HIDE DEF t
<1>9. entries \in Seq(EntryType) /\ Len(entries) \in Nat /\ DOMAIN entries = 1 .. Len(entries)
  BY <1>3, LenProperties DEF ListTyped
<1>10. /\ entries' \in Seq(EntryType) /\ Len(entries') = Len(entries) + Len(t)
       /\ Elements(entries') = Elements(entries) \cup hits
  <2>1. entries' = entries \o t /\ entries \in Seq(EntryType) /\ t \in Seq(EntryType)
    BY <1>2, <1>8, <1>9, Zenon
  <2>2. /\ entries \o t \in Seq(EntryType) /\ Len(entries \o t) = Len(entries) + Len(t)
        /\ Elements(entries \o t) = Elements(entries) \cup Elements(t)
    BY ONLY <2>1, Joined
  <2> QED BY ONLY <2>1, <2>2, <1>8
<1>11. total' = total + Cardinality(hits)
  BY <1>2, SameCardinality
<1>12. ListTyped'
  <2>1. total' \in Int /\ todo' \in SUBSET Selected
    BY <1>1, <1>3, <1>8, <1>11 DEF ListTyped
  <2> QED BY <1>1, <1>2, <1>3, <1>4, <1>10, <2>1 DEF ListTyped
<1>13. \A x \in hits : /\ x.indexed = FALSE /\ x.module = FALSE /\ x.file = f
                       /\ x.line \in L!HasDefs(scanned'[f])
                       /\ x.kind = scanned'[f][x.line].kind /\ x.name = scanned'[f][x.line].name
  BY <1>6 DEF FromTexts
<1>14. ask.index => f \notin L!Indexed
  BY <1>1, <1>3 DEF Placed, L!Indexed
<1>15. Placed'
  <2>1. \A x \in Elements(entries') : Sound(x)'
    <3>1. ASSUME NEW x \in hits PROVE Sound(x)'
      BY <1>1, <1>13, <1>14 DEF Sound, Homes
    <3> QED BY <1>1, <1>10, <3>1
  <2>2. \A k \in DOMAIN entries' : AsIndexed(entries'[k])
    <3>1. TAKE k \in DOMAIN entries'
    <3>2. entries'[k] \in Elements(entries) \/ entries'[k] \in hits
      BY <1>10 DEF Elements
    <3>3. \A x \in Elements(entries) : AsIndexed(x)
      BY <1>1, <1>4 DEF Elements
    <3> QED BY <1>13, <3>2, <3>3 DEF AsIndexed
  <2>3. \A d, e \in Elements(entries') : d.file = e.file /\ d.line = e.line /\ d.module = e.module => d = e
    <3>1. SUFFICES ASSUME NEW d \in Elements(entries'), NEW e \in Elements(entries'),
                          d.file = e.file, d.line = e.line, d.module = e.module
                   PROVE  d = e
      OBVIOUS
    <3>2. \A x \in Elements(entries) : x.file # f
      <4>1. TAKE x \in Elements(entries)
      <4>2. Sound(x)
        BY <1>3 DEF Placed
      <4>3. CASE x.indexed
        BY <1>14, <4>2, <4>3 DEF Sound
      <4>4. CASE ~ x.indexed
        BY <1>1, <4>2, <4>4 DEF Sound
      <4> QED BY <4>3, <4>4
    <3>3. (d \in Elements(entries) /\ e \in Elements(entries)) \/ (d \in hits /\ e \in hits)
      BY <1>10, <1>13, <3>1, <3>2
    <3>4. \A x, y \in Elements(entries) : x.file = y.file /\ x.line = y.line /\ x.module = y.module => x = y
      BY <1>1, <1>3, <1>4 DEF Placed
    <3> QED BY <1>7, <3>1, <3>3, <3>4 DEF Placeable
  <2>4. \A g \in L!Indexed' : cache'[g].read /\ cache'[g].current => cache'[g].text = recorded'[g].text
    BY <1>1, <1>3 DEF Placed
  <2>5. ask.index => todo' \in SUBSET Skipped
    BY <1>1, <1>3 DEF Placed
  <2> QED BY <1>1, <1>4, <2>1, <2>2, <2>3, <2>4, <2>5 DEF Placed, AsIndexed
<1>16. Complete'
  <2>1. SUFFICES ASSUME ask.index
                 PROVE  /\ Len(entries') <= total'
                        /\ total' = Len(entries') => \A g \in L!Indexed : \A i \in Wanted(g) :
                               \E e \in Elements(entries') : Stands(e, g, i)
    <3>1. \A g : Wanted(g)' = Wanted(g) /\ \A e, i : Stands(e, g, i)' = Stands(e, g, i)
      BY <1>1 DEF Wanted, Stands
    <3> QED BY <1>1, <1>4, <3>1 DEF Complete
  <2>2. /\ Len(entries) <= total
        /\ total = Len(entries) => \A g \in L!Indexed : \A i \in Wanted(g) :
               \E e \in Elements(entries) : Stands(e, g, i)
    BY <1>1, <1>3, <1>4, <2>1 DEF Complete
  <2>3. total \in Int
    BY <1>3 DEF ListTyped
  <2>4. Len(entries') <= total' /\ (total' = Len(entries') => total = Len(entries))
    <3>1. Len(entries) \in Int /\ Cardinality(hits) \in Int
      BY <1>8, <1>9
    <3>2. Len(entries') = Len(entries) + Cardinality(hits)
      BY <1>8, <1>10
    <3> QED BY ONLY <1>11, <2>2, <2>3, <3>1, <3>2
  <2> QED BY <1>10, <2>2, <2>4
<1>17. Apart'
  BY <1>1 DEF Apart
<1> QED BY <1>12, <1>15, <1>16, <1>17 DEF ListInv

LEMMA ScanImplsStep ==
    ASSUME ListInv, L!Scan, ask.verb = "impls"
    PROVE  ListInv'
<1> DEFINE f == L!Min(todo)
           text == files[f].text
           hits == IF ask.index THEN {} ELSE L!Implementors(f, text)
           t == L!Ranked(hits)
           known == have \cup {<<f, x.line>> : x \in hits}
           more == L!MoreUses(f, text, known)
<1>1. /\ f \in todo /\ f \in Files /\ f \in Selected /\ listStage = "scan"
      /\ todo' = todo \ {f}
      /\ scanned' \in [Files -> Text] /\ scanned'[f] = text /\ \A g \in Files \ {f} : scanned'[g] = scanned[g]
      /\ UNCHANGED <<files, recorded, ask, listStage, next, cache, gone, writes>>
      /\ Over' = Over /\ L!Indexed' = L!Indexed
      /\ \A e \in Elements(entries) : Sound(e)'
      /\ ~ Over => \A k \in DOMAIN entries : AsIndexed(entries[k])
      /\ Over => \A e \in Elements(entries) : Seen(e)'
  BY ScanLeaves
<1>2. /\ entries' = entries \o t /\ total' = total + L!Cardinality(hits)
      /\ have' = known /\ extras' = extras \cup more
  BY DEF L!Scan, L!ScanDefs, L!ScanImpls
<1>3. ListTyped /\ Placed /\ Complete /\ Apart
  BY DEF ListInv
<1>4. Over <=> ask.index
  BY <1>1 DEF Over
<1>5. \A x \in hits : \E i \in L!HasDefs(scanned'[f]) :
                            x = L!Entry(f, i, scanned'[f][i], L!Score(f, scanned'[f][i]), FALSE)
  BY <1>1 DEF L!Implementors, L!Extending
<1>6. FromTexts(hits, scanned', {FALSE}) /\ \A x \in hits : x.file = f /\ x.line \in L!HasDefs(scanned'[f])
  <2> HIDE DEF f, hits, text
  <2> QED BY <1>1, <1>5, ScanEntries
<1>7. \A x \in hits : /\ x.indexed = FALSE /\ x.module = FALSE /\ x.file = f
                      /\ x.line \in L!HasDefs(scanned'[f])
                      /\ x.kind = scanned'[f][x.line].kind /\ x.name = scanned'[f][x.line].name
                      /\ "q" \in scanned'[f][x.line].supers /\ ~ ask.index
  <2>1. ASSUME NEW x \in hits PROVE ~ ask.index /\ "q" \in scanned'[f][x.line].supers
    <3>1. ~ ask.index /\ x \in L!Implementors(f, text)
      OBVIOUS
    <3>2. PICK i \in L!Extending(text) : x = L!Entry(f, i, text[i], L!Score(f, text[i]), FALSE)
      BY <3>1 DEF L!Implementors
    <3>3. x.line = i
      BY <3>2 DEF L!Entry
    <3> QED BY <1>1, <3>1, <3>2, <3>3 DEF L!Extending, L!Query
  <2> HIDE DEF f, hits, text
  <2> QED BY <1>6, <2>1 DEF FromTexts
<1>8. ask.index => hits = {}
  OBVIOUS
<1>9. /\ \A x \in more : /\ x.file = f /\ <<f, x.line>> \notin known
      /\ \A i \in L!HasDefs(text) : Asking(text[i]) => <<f, i>> \in known \/ \E x \in more : x.file = f /\ x.line = i
  <2>1. \A x \in more : \E i \in L!HasDefs(text) :
            <<f, i>> \notin known /\ x = L!Entry(f, i, text[i], L!Score(f, text[i]), FALSE)
    BY DEF L!MoreUses
  <2>2. \A i \in L!HasDefs(text) : Asking(text[i]) /\ <<f, i>> \notin known =>
            L!Entry(f, i, text[i], L!Score(f, text[i]), FALSE) \in more
    BY DEF L!MoreUses, L!Query, Asking
  <2> HIDE DEF f, text, known, more
  <2>3. \A x : \A i \in L!HasDefs(text) :
            x = L!Entry(f, i, text[i], L!Score(f, text[i]), FALSE) => x.file = f /\ x.line = i
    BY DEF L!Entry
  <2>4. \A x \in more : x.file = f /\ <<f, x.line>> \notin known
    <3>1. TAKE x \in more
    <3>2. PICK i \in L!HasDefs(text) :
              <<f, i>> \notin known /\ x = L!Entry(f, i, text[i], L!Score(f, text[i]), FALSE)
      BY <2>1
    <3> QED BY <2>3, <3>2
  <2>5. ASSUME NEW i \in L!HasDefs(text), Asking(text[i]), <<f, i>> \notin known
        PROVE  \E x \in more : x.file = f /\ x.line = i
    <3>1. PICK x : x = L!Entry(f, i, text[i], L!Score(f, text[i]), FALSE)
      OBVIOUS
    <3>2. x \in more
      BY <2>2, <2>5, <3>1
    <3> QED BY <2>3, <3>1, <3>2
  <2> QED BY <2>4, <2>5
<1> HIDE DEF f, hits, text, more
<1>10. Placeable(hits) /\ hits \in SUBSET EntryType
  <2>1. {FALSE} \in {{TRUE}, {FALSE}}
    OBVIOUS
  <2> QED BY <1>1, <1>6, <2>1, EntriesPlaceable
<1>11. t \in Seq(EntryType) /\ Elements(t) = hits /\ Len(t) = Cardinality(hits) /\ Cardinality(hits) \in Nat
  BY <1>10, RankedEntries
<1> HIDE DEF t
<1>12. entries \in Seq(EntryType) /\ Len(entries) \in Nat /\ DOMAIN entries = 1 .. Len(entries)
  BY <1>3, LenProperties DEF ListTyped
<1>13. /\ entries' \in Seq(EntryType) /\ Len(entries') = Len(entries) + Len(t)
       /\ Elements(entries') = Elements(entries) \cup hits
  <2>1. entries' = entries \o t /\ entries \in Seq(EntryType) /\ t \in Seq(EntryType)
    BY <1>2, <1>11, <1>12, Zenon
  <2>2. /\ entries \o t \in Seq(EntryType) /\ Len(entries \o t) = Len(entries) + Len(t)
        /\ Elements(entries \o t) = Elements(entries) \cup Elements(t)
    BY ONLY <2>1, Joined
  <2> QED BY ONLY <2>1, <2>2, <1>11
<1>14. total' = total + Cardinality(hits)
  BY <1>2, SameCardinality
<1>15. ListTyped'
  <2>1. total' \in Int /\ todo' \in SUBSET Selected
    BY <1>1, <1>3, <1>11, <1>14 DEF ListTyped
  <2>2. listStage' = "scan"
    BY <1>1
  <2> HIDE DEF known
  <2> QED BY <1>1, <1>2, <1>3, <1>13, <2>1, <2>2 DEF ListTyped
<1>16. Placed'
  <2>1. \A x \in Elements(entries') : Sound(x)'
    <3>1. ASSUME NEW x \in hits PROVE Sound(x)'
      BY <1>1, <1>7 DEF Sound, Homes
    <3> QED BY <1>1, <1>13, <3>1
  <2>2. ~ Over => \A k \in DOMAIN entries' : AsIndexed(entries'[k])
    <3>1. SUFFICES ASSUME ~ Over, NEW k \in DOMAIN entries' PROVE AsIndexed(entries'[k])
      OBVIOUS
    <3>2. entries'[k] \in Elements(entries) \/ entries'[k] \in hits
      BY <1>13 DEF Elements
    <3>3. \A x \in Elements(entries) : AsIndexed(x)
      BY <1>1, <3>1 DEF Elements
    <3> QED BY <1>7, <3>2, <3>3 DEF AsIndexed
  <2>3. ~ Over => \A d, e \in Elements(entries') :
            d.file = e.file /\ d.line = e.line /\ d.module = e.module => d = e
    <3>1. SUFFICES ASSUME ~ Over, NEW d \in Elements(entries'), NEW e \in Elements(entries'),
                          d.file = e.file, d.line = e.line, d.module = e.module
                   PROVE  d = e
      OBVIOUS
    <3>2. \A x \in Elements(entries) : x.file # f
      <4>1. TAKE x \in Elements(entries)
      <4>2. Sound(x)
        BY <1>3 DEF Placed
      <4>3. ~ x.indexed
        BY <1>4, <3>1, <4>2 DEF Sound
      <4> QED BY <1>1, <4>2, <4>3 DEF Sound
    <3>3. (d \in Elements(entries) /\ e \in Elements(entries)) \/ (d \in hits /\ e \in hits)
      BY <1>7, <1>13, <3>1, <3>2
    <3>4. \A x, y \in Elements(entries) : x.file = y.file /\ x.line = y.line /\ x.module = y.module => x = y
      BY <1>1, <1>3, <3>1 DEF Placed
    <3> QED BY <1>10, <3>1, <3>3, <3>4 DEF Placeable
  <2>4. \A g \in L!Indexed' : cache'[g].read /\ cache'[g].current => cache'[g].text = recorded'[g].text
    BY <1>1, <1>3 DEF Placed
  <2>5. Over => \A x \in Elements(entries') : Seen(x)'
    <3>1. Over => Elements(entries') = Elements(entries)
      BY <1>4, <1>8, <1>13
    <3> QED BY <1>1, <3>1
  <2>6. listStage' = "scan" /\ ask'.verb = "impls" /\ Over' = Over
    BY <1>1
  <2> QED BY <2>1, <2>2, <2>3, <2>4, <2>5, <2>6 DEF Placed, AsIndexed
<1>17. Complete'
  <2>1. CASE ~ ask.index
    BY <1>1, <2>1 DEF Complete
  <2>2. CASE ask.index
    <3>1. Elements(entries') = Elements(entries) /\ Len(entries') = Len(entries) /\ total' = total
      <4>1. hits = {} /\ Cardinality(hits) = 0
        BY <1>8, <2>2, FS_EmptySet
      <4>2. total \in Int
        BY <1>3 DEF ListTyped
      <4> QED BY <1>11, <1>12, <1>13, <1>14, <4>1, <4>2
    <3>2. \A g : /\ Wanted(g)' = Wanted(g) /\ \A e, i : Stands(e, g, i)' = Stands(e, g, i)
                 /\ \A i : Vanished(g, i)' = Vanished(g, i)
      BY <1>1 DEF Wanted, Stands, Vanished, Homes
    <3>3. Complete
      BY <1>3
    <3> QED BY <1>1, <1>4, <2>2, <3>1, <3>2, <3>3 DEF Complete
  <2> QED BY <2>1, <2>2
<1>18. Apart'
  <2>1. /\ Listed \subseteq have /\ have \subseteq Files \X Nat
        /\ \A x \in extras : <<x.file, x.line>> \notin have /\ x.file \in Files \ todo
        /\ \A p \in have : p \in Listed \/ (ask.index /\ WasThere(p[1], p[2]))
        /\ \A g \in Selected \ todo : \A i \in L!HasDefs(scanned[g]) :
              Asking(scanned[g][i]) => <<g, i>> \in have \cup LinesOf(extras)
        /\ ~ ask.index => \A p \in have : p[1] \notin todo
    BY <1>1, <1>3, <1>4 DEF Apart
  <2>2. Listed = LinesOf(Elements(entries)) /\ Listed' = LinesOf(Elements(entries'))
    BY <1>1 DEF Listed, Staying, LinesOf, Elements
  <2>3. Listed' = Listed \cup LinesOf(hits) /\ have' = have \cup LinesOf(hits)
    BY <1>2, <1>7, <1>13, <2>2 DEF LinesOf
  <2>4. \A x \in hits : x.file = f /\ x.line \in Nat
    BY <1>7, <1>10 DEF EntryType
  <2>5. have' \subseteq Files \X Nat
    BY <1>1, <2>1, <2>3, <2>4 DEF LinesOf
  <2>6. \A x \in extras' : <<x.file, x.line>> \notin have' /\ x.file \in Files \ todo'
    <3>1. ASSUME NEW x \in extras PROVE <<x.file, x.line>> \notin have' /\ x.file \in Files \ todo'
      BY <1>1, <2>1, <2>3, <2>4 DEF LinesOf
    <3>2. ASSUME NEW x \in more PROVE <<x.file, x.line>> \notin have' /\ x.file \in Files \ todo'
      BY <1>1, <1>2, <1>9
    <3> QED BY <1>2, <3>1, <3>2
  <2>7. \A p \in have' : p \in Listed' \/ (ask.index /\ WasThere(p[1], p[2]))
    BY <2>1, <2>3
  <2>8. ~ ask.index => \A p \in have' : p[1] \notin todo'
    BY <1>1, <2>1, <2>3, <2>4 DEF LinesOf
  <2>9. \A g \in Selected \ todo' : \A i \in L!HasDefs(scanned'[g]) :
              Asking(scanned'[g][i]) => <<g, i>> \in have' \cup LinesOf(extras')
    <3>1. SUFFICES ASSUME NEW g \in Selected \ todo', NEW i \in L!HasDefs(scanned'[g]), Asking(scanned'[g][i])
                   PROVE  <<g, i>> \in have' \cup LinesOf(extras')
      OBVIOUS
    <3>2. CASE g = f
      <4>1. <<f, i>> \in have' \/ \E x \in more : x.file = f /\ x.line = i
        BY <1>1, <1>2, <1>9, <3>1, <3>2
      <4> QED BY <1>2, <3>2, <4>1 DEF LinesOf
    <3>3. CASE g # f
      <4>1. g \in Selected \ todo /\ scanned'[g] = scanned[g]
        BY <1>1, <3>3, ListConstants
      <4>2. <<g, i>> \in have \cup LinesOf(extras)
        BY <2>1, <3>1, <4>1
      <4> QED BY <1>2, <2>3, <4>2 DEF LinesOf
    <3> QED BY <3>2, <3>3
  <2>10. \A g, i : WasThere(g, i)' = WasThere(g, i)
    BY <1>1 DEF WasThere
  <2>11. listStage' = "scan" /\ ask' = ask
    BY <1>1
  <2>12. Listed' \subseteq have'
    BY <2>1, <2>3
  <2> HIDE DEF known
  <2> QED BY <2>5, <2>6, <2>7, <2>8, <2>9, <2>10, <2>11, <2>12 DEF Apart
<1> QED BY <1>15, <1>16, <1>17, <1>18 DEF ListInv

\* The entries ranked, when no two have a place.
LEMMA SortedEntries ==
    ASSUME ListInv, listStage = "scan", ~ Over
    PROVE  LET sorted == L!Ranked(L!ToSet(entries))
           IN  /\ sorted \in Seq(EntryType) /\ Elements(sorted) = Elements(entries)
               /\ Placeable(Elements(sorted)) /\ Len(sorted) = Cardinality(Elements(sorted))
               /\ Len(sorted) <= Len(entries) /\ Len(sorted) \in Nat /\ Len(entries) \in Nat
<1> DEFINE S == Elements(entries)
           sorted == L!Ranked(L!ToSet(entries))
<1>1. ListTyped /\ Placed
  BY DEF ListInv
<1>2. entries \in Seq(EntryType)
  BY <1>1 DEF ListTyped
<1>3. /\ Len(entries) \in Nat /\ S \in SUBSET EntryType /\ IsFiniteSet(S) /\ Cardinality(S) \in Nat
      /\ Cardinality(S) <= Len(entries) /\ L!ToSet(entries) = S
  BY <1>2, ElementsOf
<1>4. Placeable(S)
  <2>1. \A x \in S : x.file \in Nat /\ x.line \in Nat /\ x.score \in Int /\ x.module \in BOOLEAN
    BY <1>3, ListConstants DEF EntryType
  <2>2. \A x, y \in S : x.file = y.file /\ x.line = y.line /\ x.module = y.module => x = y
    BY <1>1 DEF Placed
  <2> HIDE DEF S
  <2> QED BY <1>3, <2>1, <2>2 DEF Placeable
<1>5. sorted \in Seq(EntryType) /\ Elements(sorted) = S /\ Len(sorted) = Cardinality(S)
  <2>1. sorted = L!Ranked(S)
    BY <1>3
  <2> HIDE DEF S, sorted
  <2> QED BY <1>3, <1>4, <2>1, RankedEntries
<1> HIDE DEF sorted
<1>6. Placeable(Elements(sorted)) /\ Len(sorted) = Cardinality(Elements(sorted))
  BY <1>4, <1>5
<1> QED BY <1>3, <1>5, <1>6 DEF sorted

\* What the end of a scan leaves as it was, and part of the entries.
LEMMA EndScanLeaves ==
    ASSUME ListInv, listStage = "scan", todo = {}, listStage' \in {"describe", "done"},
           UNCHANGED <<files, recorded, ask, todo, next, cache, gone, total, have, extras, scanned, writes>>,
           entries' \in Seq(EntryType), Elements(entries') \subseteq Elements(entries),
           listStage' = "describe" => ask.index /\ ask.verb = "def" /\ ~ Over,
           listStage' = "done" => ~ ask.index \/ Over,
           Over => entries' = entries,
           ask.index => /\ Len(entries') <= Len(entries)
                        /\ Len(entries') = Len(entries) => Elements(entries') = Elements(entries)
    PROVE  ListTyped' /\ Placed' /\ Complete'
<1>1. ListTyped /\ Placed /\ Complete
  BY DEF ListInv
<1>2. L!Indexed' = L!Indexed /\ \A e : Seen(e)' = Seen(e) /\ Sound(e)' = Sound(e)
  BY DEF L!Indexed, Seen, SeenAt, Sound, Homes
<1>3. Len(entries') \in Nat /\ DOMAIN entries' = 1 .. Len(entries')
  BY LenProperties
<1>4. entries \in Seq(EntryType) /\ Len(entries) \in Nat /\ DOMAIN entries = 1 .. Len(entries)
  BY <1>1, LenProperties DEF ListTyped
<1>5. listStage' = "describe" => next = 1
  BY <1>1 DEF ListTyped
<1>6. ListTyped'
  <2>1. ASSUME listStage' = "describe" PROVE next' <= L!Shown' + 1
    <3>1. next' = 1
      BY <1>5, <2>1
    <3>2. ask.show \in Nat
      BY <1>1 DEF ListTyped, L!AnyRequest
    <3>3. L!Shown' \in Nat
      BY <1>3, <3>2, Lesser DEF L!Shown
    <3>4. \A m \in Nat : 1 <= m + 1
      OBVIOUS
    <3> QED BY <3>1, <3>3, <3>4
  <2>2. ~ (listStage' = "open") /\ ~ (listStage' = "scan")
    OBVIOUS
  <2> QED BY <1>1, <2>1, <2>2 DEF ListTyped
<1>7. Placed'
  <2>1. \A e \in Elements(entries') : Sound(e)'
    BY <1>1, <1>2 DEF Placed
  <2>2. Over' => \A e \in Elements(entries') : Seen(e)'
    <3>1. SUFFICES ASSUME Over', NEW e \in Elements(entries') PROVE Seen(e)'
      OBVIOUS
    <3>2. e \in Elements(entries) /\ listStage' = "done"
      BY <3>1 DEF Over
    <3>3. CASE Over
      BY <1>1, <1>2, <3>2, <3>3 DEF Placed
    <3>4. CASE ~ ask.index
      <4>1. ~ e.indexed
        BY <1>1, <3>2, <3>4 DEF Placed, Sound
      <4> QED BY <1>2, <4>1 DEF Seen
    <3> QED BY <3>2, <3>3, <3>4
  <2>3. ~ Over' => \A k \in DOMAIN entries' : k >= next' => AsIndexed(entries'[k])
    <3>1. SUFFICES ASSUME ~ Over', NEW k \in DOMAIN entries' PROVE AsIndexed(entries'[k])
      BY DEF AsIndexed
    <3>2. listStage' = "describe" /\ ~ Over
      BY <3>1 DEF Over
    <3>3. entries'[k] \in Elements(entries)
      BY DEF Elements
    <3>4. PICK j \in DOMAIN entries : entries[j] = entries'[k]
      BY <3>3 DEF Elements
    <3>5. j >= next
      BY <1>4, <1>5, <3>2
    <3> QED BY <1>1, <3>2, <3>4, <3>5 DEF Placed
  <2>4. listStage' = "describe" => \A k \in DOMAIN entries' : ~ (k < next')
    BY <1>3, <1>5
  <2>5. \A f \in L!Indexed' : cache'[f].read /\ cache'[f].current => cache'[f].text = recorded'[f].text
    BY <1>1, <1>2 DEF Placed
  <2>6. listStage' # "scan" /\ todo' = {}
    OBVIOUS
  <2> QED BY <2>1, <2>2, <2>3, <2>4, <2>5, <2>6 DEF Placed
<1>8. Complete'
  <2>1. \A g : /\ Wanted(g)' = Wanted(g) /\ \A e, i : Stands(e, g, i)' = Stands(e, g, i)
               /\ \A i : Vanished(g, i)' = Vanished(g, i)
    BY DEF Wanted, Stands, Vanished, Homes
  <2>2. SUFFICES ASSUME ask.index
                 PROVE  /\ ~ Over' => Len(entries') <= total
                        /\ total = Len(entries') => \A g \in L!Indexed : \A i \in Wanted(g) :
                               (\E e \in Elements(entries') : Stands(e, g, i)) \/ (Over' /\ Vanished(g, i))
    BY <1>2, <2>1 DEF Complete
  <2>3. /\ ~ Over => Len(entries) <= total
        /\ total = Len(entries) => \A g \in L!Indexed : \A i \in Wanted(g) :
               (\E e \in Elements(entries) : Stands(e, g, i)) \/ (Over /\ Vanished(g, i))
    BY <1>1, <2>2 DEF Complete
  <2>4. CASE ~ Over
    <3>1. total \in Int /\ Len(entries) \in Int /\ Len(entries') \in Int
      <4>1. total \in Int
        BY <1>1 DEF ListTyped
      <4> QED BY ONLY <1>3, <1>4, <4>1
    <3>2. /\ Len(entries') <= Len(entries)
          /\ Len(entries') = Len(entries) => Elements(entries') = Elements(entries)
      BY ONLY <2>2, ask.index => /\ Len(entries') <= Len(entries)
                                 /\ Len(entries') = Len(entries) => Elements(entries') = Elements(entries)
    <3>3. Len(entries) <= total
      BY ONLY <2>3, <2>4
    <3>4. Len(entries') <= total /\ (total = Len(entries') => Len(entries') = Len(entries))
      BY ONLY <3>1, <3>2, <3>3
    <3>5. ASSUME total = Len(entries'), NEW g \in L!Indexed, NEW i \in Wanted(g)
          PROVE  \E e \in Elements(entries') : Stands(e, g, i)
      <4>1. total = Len(entries) /\ Elements(entries') = Elements(entries)
        BY <3>2, <3>4, <3>5
      <4> QED BY <2>3, <2>4, <4>1
    <3> QED BY <3>4, <3>5
  <2>5. CASE Over
    <3>1. Over' /\ Elements(entries') = Elements(entries) /\ Len(entries') = Len(entries)
      BY <2>2, <2>5 DEF Over
    <3> QED BY <2>3, <2>5, <3>1
  <2> QED BY <2>4, <2>5
<1> QED BY <1>6, <1>7, <1>8

LEMMA EndScanStep ==
    ASSUME ListInv, L!EndScan
    PROVE  ListInv'
<1> DEFINE sorted == L!Ranked(L!ToSet(entries))
<1>1. /\ listStage = "scan" /\ todo = {}
      /\ UNCHANGED <<files, recorded, ask, todo, next, cache, gone, total, have, extras, scanned, writes>>
  BY DEF L!EndScan
<1>2. ListTyped /\ Apart /\ ask.verb \in {"def", "impls"} /\ ask.index \in BOOLEAN
      /\ ask.show \in Nat /\ entries \in Seq(EntryType)
  BY DEF ListInv, ListTyped, L!AnyRequest
<1>3. CASE ask.verb = "def" /\ ask.index
  <2>1. entries' = L!WithoutImpls(sorted) /\ listStage' = "describe"
    BY <1>3 DEF L!EndScan
  <2>2. ~ Over
    BY <1>1, <1>3 DEF Over
  <2>3. /\ sorted \in Seq(EntryType) /\ Elements(sorted) = Elements(entries)
        /\ Placeable(Elements(sorted)) /\ Len(sorted) = Cardinality(Elements(sorted))
        /\ Len(sorted) <= Len(entries) /\ Len(sorted) \in Nat /\ Len(entries) \in Nat
    BY <1>1, <2>2, SortedEntries
  <2> HIDE DEF sorted
  <2>4. entries' \in Seq(EntryType) /\ PartOf(entries', sorted)
    BY <2>1, <2>3, WithoutImplsPart
  <2>5. Len(entries') \in Nat
    BY <2>4, LenProperties
  <2>6. /\ Elements(entries') \subseteq Elements(entries) /\ Len(entries') <= Len(entries)
        /\ Len(entries') = Len(entries) => Elements(entries') = Elements(entries)
    BY <2>3, <2>4, <2>5 DEF PartOf
  <2>7. ListTyped' /\ Placed' /\ Complete'
    BY <1>1, <1>3, <2>1, <2>2, <2>4, <2>6, EndScanLeaves
  <2>8. Apart'
    BY <1>1, <1>3 DEF Apart
  <2> QED BY <2>7, <2>8 DEF ListInv
<1>4. CASE ~ ask.index
  <2>1. /\ listStage' = "done"
        /\ \/ entries' = sorted /\ (ask.verb = "impls" => ask.show = 0)
           \/ \E n \in Nat : entries' = L!FirstOf(sorted, n) /\ ask.show # 0
    <3>1. CASE ask.verb = "def"
      BY <1>2, <1>4, <3>1 DEF L!EndScan, L!Unlimited
    <3>2. CASE ask.verb = "impls"
      <4>1. listStage' = "done" /\ entries' = L!Cut(sorted)
        BY <1>4, <3>2 DEF L!EndScan
      <4>2. Described \in Nat
        BY ListingAssumption DEF L!Assumption
      <4> QED BY <4>1, <4>2 DEF L!Cut, L!Unlimited
    <3> QED BY <1>2, <3>1, <3>2
  <2>2. ~ Over /\ Over'
    BY <1>1, <1>4, <2>1 DEF Over
  <2>3. sorted \in Seq(EntryType) /\ Elements(sorted) = Elements(entries)
    BY <1>1, <2>2, SortedEntries
  <2> HIDE DEF sorted
  <2>4. entries' \in Seq(EntryType) /\ Elements(entries') \subseteq Elements(entries)
    BY <2>1, <2>3, FirstOfPart DEF PartOf
  <2>5. ListTyped' /\ Placed' /\ Complete'
    BY <1>1, <1>4, <2>1, <2>2, <2>4, EndScanLeaves
  <2>6. Apart'
    <3>1. CASE ask.verb = "def"
      BY <1>1, <3>1 DEF Apart
    <3>2. CASE ask.verb = "impls"
      <4>1. /\ Listed \subseteq have /\ have \subseteq Files \X Nat
            /\ \A x \in extras : <<x.file, x.line>> \notin have /\ x.file \in Files \ todo
            /\ \A p \in have : p \in Listed
            /\ \A p \in have : p[1] \notin todo
            /\ \A f \in Selected \ todo : \A i \in L!HasDefs(scanned[f]) :
                  Asking(scanned[f][i]) => <<f, i>> \in have \cup LinesOf(extras)
        BY <1>1, <1>2, <1>4, <3>2 DEF Apart
      <4>2. Listed = LinesOf(Elements(entries)) /\ Listed' = LinesOf(Elements(entries'))
        BY <1>1, <2>1 DEF Listed, Staying, LinesOf, Elements
      <4>3. Listed' \subseteq Listed
        BY <2>4, <4>2 DEF LinesOf
      <4>4. ask.show = 0 => Listed' = Listed
        BY <2>1, <2>3, <4>2
      <4>5. \A g, i : WasThere(g, i)' = WasThere(g, i)
        BY <1>1 DEF WasThere
      <4> QED BY <1>1, <1>4, <2>1, <4>1, <4>3, <4>4 DEF Apart
    <3> QED BY <1>2, <3>1, <3>2
  <2> QED BY <2>5, <2>6 DEF ListInv
<1>5. CASE ask.verb = "impls" /\ ask.index
  <2>1. entries' = entries /\ listStage' = "done"
    BY <1>5 DEF L!EndScan
  <2>2. Over
    BY <1>1, <1>5 DEF Over
  <2>3. Len(entries) \in Nat
    BY <1>2, LenProperties
  <2>4. ListTyped' /\ Placed' /\ Complete'
    BY <1>1, <1>2, <2>1, <2>2, <2>3, EndScanLeaves
  <2>5. Apart'
    <3>1. Listed' = Listed /\ \A g, i : WasThere(g, i)' = WasThere(g, i)
      BY <1>1, <2>1 DEF Listed, Staying, WasThere
    <3> QED BY <1>1, <1>2, <1>5, <2>1, <2>2, <3>1 DEF Apart
  <2> QED BY <2>4, <2>5 DEF ListInv
<1> QED BY <1>2, <1>3, <1>4, <1>5

\* relocate finds a home if there is one.
LEMMA Relocated ==
    ASSUME NEW e, e.line \in Nat, NEW text \in Text
    PROVE  IF Homes(e.kind, e.name, text) = {} THEN L!Relocate(e, text) = 0
           ELSE L!Relocate(e, text) \in Homes(e.kind, e.name, text)
<1> DEFINE S == Homes(e.kind, e.name, text)
           far(i) == L!Distance(i, e.line)
           Best(i) == \A j \in S : far(i) < far(j) \/ (far(i) = far(j) /\ i <= j)
<1>1. L!Again(e, text) = S
  BY DEF L!Again, Homes, L!Query
<1>2. L!Relocate(e, text) = IF S = {} THEN 0 ELSE CHOOSE i \in S : Best(i)
  BY <1>1 DEF L!Relocate
<1>3. S \in SUBSET Nat
  BY TextLines DEF Homes
<1> HIDE DEF S
<1>4. S # {} => \E i \in S : Best(i)
  <2> DEFINE key == [i \in Nat |-> IF i > e.line THEN 2 * (i - e.line) + 1 ELSE 2 * (e.line - i)]
             T == {key[i] : i \in S}
  <2>1. SUFFICES ASSUME S # {} PROVE \E i \in S : Best(i)
    OBVIOUS
  <2>2. \A i \in S : i \in Nat /\ key[i] \in Nat
    BY <1>3
  <2>3. T \in SUBSET Nat /\ T # {}
    BY <2>1, <2>2
  <2>4. PICK x \in T : \A y \in T : x <= y
    BY <2>3, LeastNumber
  <2>5. PICK i \in S : \A j \in S : key[i] <= key[j]
    BY <2>4
  <2>6. Best(i)
    <3>1. SUFFICES ASSUME NEW j \in S PROVE far(i) < far(j) \/ (far(i) = far(j) /\ i <= j)
      OBVIOUS
    <3>2. i \in Nat /\ j \in Nat /\ key[i] <= key[j]
      BY <2>2, <2>5
    <3> QED BY <3>2 DEF L!Distance
  <2> QED BY <2>6
<1> HIDE DEF Best
<1> QED BY <1>2, <1>4 DEF S

LEMMA DescribeStep ==
    ASSUME ListInv, L!Describe
    PROVE  ListInv'
<1> DEFINE e == entries[next]
           f == e.file
           file == IF cache[f].read THEN cache[f] ELSE L!IndexedText(e)
           place == IF file.current \/ e.module THEN e.line ELSE L!Relocate(e, file.text)
           none == IF e.module THEN file.text = <<>> ELSE place = 0
           here == IF none \/ ~ e.indexed THEN e.line ELSE place
           e2 == [e EXCEPT !.line = here]
<1>1. /\ listStage = "describe" /\ next <= L!Shown
      /\ cache' = [cache EXCEPT ![f] = file] /\ next' = next + 1
      /\ entries' = IF none \/ ~ e.indexed THEN entries ELSE [entries EXCEPT ![next].line = place]
      /\ gone' = IF none THEN gone \cup {next} ELSE gone
      /\ have' = IF none \/ file.current THEN have ELSE have \cup {<<f, place>>}
      /\ UNCHANGED <<files, recorded, ask, listStage, todo, total, extras, scanned, writes>>
  BY DEF L!Describe, L!DescribeAs
<1>2. ListTyped /\ Placed /\ Complete /\ Apart
  BY DEF ListInv
<1>3. /\ ask.index /\ ~ Over /\ next \in Nat \ {0} /\ gone \in SUBSET (1 .. next - 1)
      /\ entries \in Seq(EntryType) /\ Len(entries) \in Nat /\ DOMAIN entries = 1 .. Len(entries)
  BY <1>1, <1>2, LenProperties DEF ListTyped, Over
<1>4. next \in DOMAIN entries
  <2>1. ask.show \in Nat
    BY <1>2 DEF ListTyped, L!AnyRequest
  <2>2. L!Shown <= Len(entries) /\ L!Shown \in Nat
    BY <1>3, <2>1, Lesser DEF L!Shown
  <2>3. next <= L!Shown /\ next \in Nat \ {0} /\ Len(entries) \in Nat
    BY <1>1, <1>3, Zenon
  <2>4. next \in 1 .. Len(entries)
    BY ONLY <2>2, <2>3
  <2> QED BY <1>3, <2>4, Zenon
<1>5. e \in EntryType /\ f \in Files /\ e.line \in Nat
  <2>1. e \in EntryType
    BY <1>3, <1>4
  <2> QED BY <2>1 DEF EntryType
<1>6. /\ Sound(e) /\ AsIndexed(e)
  <2>1. e \in Elements(entries) /\ next >= next
    BY <1>3, <1>4 DEF Elements
  <2> QED BY <1>2, <1>3, <1>4, <2>1 DEF Placed
<1>7. file \in [text : Text, current : BOOLEAN, read : BOOLEAN] /\ file.read
  <2>1. cache[f] \in [text : Text, current : BOOLEAN, read : BOOLEAN] /\ files[f].text \in Text
    BY <1>2, <1>5 DEF ListTyped
  <2>2. CASE cache[f].read
    BY <2>1, <2>2
  <2>3. CASE ~ cache[f].read
    <3>1. file = L!IndexedText(e)
      BY <2>3
    <3>2. PICK yes \in BOOLEAN : yes = TRUE
      OBVIOUS
    <3>3. PICK same \in BOOLEAN : file = [text |-> files[f].text, read |-> yes, current |-> same]
      BY <3>1, <3>2 DEF L!IndexedText
    <3> HIDE DEF file, f
    <3> QED BY <2>1, <3>2, <3>3
  <2> QED BY <2>2, <2>3
<1>8. f \in L!Indexed /\ file.current => file.text = recorded[f].text
  <2>1. SUFFICES ASSUME f \in L!Indexed, file.current PROVE file.text = recorded[f].text
    OBVIOUS
  <2>2. CASE cache[f].read
    BY <1>2, <2>1, <2>2 DEF Placed
  <2>3. CASE ~ cache[f].read
    <3>1. file.text = files[f].text /\ file.current = (~ e.indexed \/ (files[f] # L!Missing /\ f \notin Racy /\ files[f].stamp = recorded[f].stamp))
      BY <2>3 DEF L!IndexedText
    <3>2. e.indexed
      BY <1>3, <1>6, <2>1 DEF Sound
    <3>3. f \notin Racy /\ files[f].stamp = recorded[f].stamp
      BY <2>1, <3>1, <3>2
    <3> QED BY <1>2, <1>5, <3>1, <3>3 DEF ListTyped
  <2> QED BY <2>2, <2>3
<1>9. \A g \in Files : cache'[g] = IF g = f THEN file ELSE cache[g]
  BY <1>1, <1>2 DEF ListTyped
<1>10. \A g \in Files : cache[g].read => cache'[g] = cache[g]
  BY <1>9
<1> HIDE DEF file
<1>11. place \in Nat /\ (~ file.current /\ ~ e.module =>
            IF Homes(e.kind, e.name, file.text) = {} THEN place = 0
            ELSE place \in Homes(e.kind, e.name, file.text))
  <2>1. file.text \in Text
    BY <1>7
  <2>2. Homes(e.kind, e.name, file.text) \subseteq Nat
    BY <2>1, TextLines DEF Homes
  <2> QED BY <1>5, <2>1, <2>2, Relocated
<1>12. e.indexed /\ ~ e.module =>
          /\ e.line = e.was /\ e.was \in Homes(e.kind, e.name, recorded[f].text) /\ f \in L!Indexed
          /\ none => ~ file.current /\ Homes(e.kind, e.name, file.text) = {}
          /\ ~ none => IF file.current THEN place = e.was ELSE place \in Homes(e.kind, e.name, file.text)
  <2>1. SUFFICES ASSUME e.indexed, ~ e.module
                 PROVE  /\ e.line = e.was /\ e.was \in Homes(e.kind, e.name, recorded[f].text) /\ f \in L!Indexed
                        /\ none => ~ file.current /\ Homes(e.kind, e.name, file.text) = {}
                        /\ ~ none => IF file.current THEN place = e.was ELSE place \in Homes(e.kind, e.name, file.text)
    OBVIOUS
  <2>2. e.line = e.was /\ e.was \in Homes(e.kind, e.name, recorded[f].text) /\ f \in L!Indexed
    BY <1>6, <2>1 DEF Sound, AsIndexed
  <2>3. recorded[f].text \in Text /\ file.text \in Text
    BY <1>2, <1>5, <1>7 DEF ListTyped
  <2>4. e.was # 0 /\ 0 \notin Homes(e.kind, e.name, file.text)
    BY <2>2, <2>3, TextLines DEF Homes
  <2>5. none <=> place = 0
    BY <2>1
  <2>6. CASE file.current
    <3>1. place = e.line
      BY <2>6
    <3> QED BY <2>2, <2>4, <2>5, <2>6, <3>1
  <2>7. CASE ~ file.current
    BY <1>11, <2>1, <2>2, <2>4, <2>5, <2>7
  <2> QED BY <2>6, <2>7
<1>13. /\ e2 \in EntryType /\ e2.file = f /\ e2.was = e.was /\ e2.kind = e.kind /\ e2.name = e.name
       /\ e2.indexed = e.indexed /\ e2.module = e.module /\ e2.line = here /\ e2.score = e.score
       /\ (here = e.line => e2 = e)
  <2>1. here \in Nat
    BY <1>5, <1>11
  <2> HIDE DEF here, f
  <2> QED BY <1>5, <2>1 DEF EntryType, f
<1>14. entries' = [entries EXCEPT ![next] = e2]
  <2>1. CASE none \/ ~ e.indexed
    <3>1. e2 = e /\ entries' = entries
      BY <1>1, <1>13, <2>1
    <3> HIDE DEF e2
    <3> QED BY <1>3, <1>4, <3>1
  <2>2. CASE ~ (none \/ ~ e.indexed)
    <3>1. here = place /\ entries' = [entries EXCEPT ![next].line = place]
      BY <1>1, <2>2
    <3> HIDE DEF place, none, here
    <3> QED BY <3>1
  <2> QED BY <2>1, <2>2
<1> HIDE DEF e2
<1>15. /\ entries' \in Seq(EntryType) /\ Len(entries') = Len(entries) /\ DOMAIN entries' = DOMAIN entries
       /\ entries'[next] = e2 /\ \A k \in DOMAIN entries \ {next} : entries'[k] = entries[k]
  BY <1>3, <1>4, <1>13, <1>14
<1> HIDE DEF place
<1>16. ListTyped'
  <2>1. L!Shown' = L!Shown
    BY <1>1, <1>15 DEF L!Shown, L!Unlimited
  <2>2. next' \in Nat \ {0} /\ next' <= L!Shown' + 1
    <3>1. ask.show \in Nat
      BY <1>2 DEF ListTyped, L!AnyRequest
    <3>2. L!Shown \in Nat
      BY <1>3, <3>1, Lesser DEF L!Shown
    <3> QED BY <1>1, <1>3, <2>1, <3>2
  <2>3. gone' \in SUBSET (1 .. next' - 1)
    BY <1>1, <1>3
  <2>4. cache' \in [Files -> [text : Text, current : BOOLEAN, read : BOOLEAN]]
    BY <1>1, <1>2, <1>7 DEF ListTyped
  <2>5. listStage' = "describe" /\ ask' = ask /\ ask.index
    BY <1>1, <1>3
  <2> HIDE DEF none, f
  <2> QED BY <1>1, <1>2, <1>15, <2>2, <2>3, <2>4, <2>5 DEF ListTyped
<1> HIDE DEF here
<1>17. ASSUME NEW x, x.file \in Files PROVE (Seen(x) => Seen(x)') /\ (Lost(x) => Lost(x)')
  <2>1. cache[x.file].read => cache'[x.file] = cache[x.file]
    BY <1>10, <1>17
  <2>2. \A text : Homes(x.kind, x.name, text)' = Homes(x.kind, x.name, text)
    BY <1>1 DEF Homes
  <2> QED BY <2>1, <2>2 DEF Seen, Lost, SeenAt, LostFrom
<1>18. Placed'
  <2>1. \A x \in Elements(entries') : Sound(x)'
    <3>1. SUFFICES ASSUME NEW k \in DOMAIN entries, NEW x, x = entries'[k] PROVE Sound(x)'
      BY <1>15 DEF Elements
    <3>2. ASSUME NEW y, Sound(y) PROVE Sound(y)'
      BY <1>1, <3>2 DEF Sound, Homes, L!Indexed
    <3>3. CASE k # next
      <4>1. Sound(entries[k])
        BY <1>2 DEF Placed, Elements
      <4> QED BY <1>15, <3>1, <3>2, <3>3, <4>1
    <3>4. CASE k = next
      <4>1. CASE ~ e.indexed
        <5>1. e2 = e
          BY <1>13, <4>1 DEF here
        <5> QED BY <1>6, <1>15, <3>1, <3>2, <3>4, <5>1
      <4>2. CASE e.indexed
        <5>1. Sound(e2)
          BY <1>6, <1>13, <4>2 DEF Sound
        <5> QED BY <1>15, <3>1, <3>2, <3>4, <5>1
      <4> QED BY <4>1, <4>2
    <3> QED BY <3>3, <3>4
  <2>2. \A k \in DOMAIN entries' : k >= next' => AsIndexed(entries'[k])
    <3>1. SUFFICES ASSUME NEW k \in DOMAIN entries, k >= next + 1 PROVE AsIndexed(entries'[k])
      BY <1>1, <1>15
    <3>2. k # next /\ k >= next
      BY <1>3, <3>1
    <3> QED BY <1>2, <1>3, <1>15, <3>2 DEF Placed
  <2>3. \A k \in DOMAIN entries' : \A x \in {entries'[k]} : k < next' => IF k \in gone' THEN Lost(x)' ELSE Seen(x)'
    <3>1. SUFFICES ASSUME NEW k \in DOMAIN entries, k < next + 1, NEW x, x = entries'[k]
                   PROVE  IF k \in gone' THEN Lost(x)' ELSE Seen(x)'
      BY <1>1, <1>15
    <3>2. CASE k # next
      <4>1. k < next /\ (k \in gone' <=> k \in gone) /\ x = entries[k]
        BY <1>1, <1>3, <1>15, <3>1, <3>2
      <4>2. IF k \in gone THEN Lost(x) ELSE Seen(x)
        BY <1>1, <1>2, <4>1 DEF Placed
      <4>3. x.file \in Files
        <5>1. x \in EntryType
          BY <1>3, <4>1
        <5> QED BY <5>1 DEF EntryType
      <4> QED BY <1>17, <4>1, <4>2, <4>3
    <3>3. CASE k = next
      <4>1. (next \in gone' <=> none) /\ x = e2
        BY <1>1, <1>3, <1>15, <3>1, <3>3
      <4>2. /\ x.file = f /\ x.was = e.was /\ x.kind = e.kind /\ x.name = e.name
            /\ x.indexed = e.indexed /\ x.module = e.module /\ x.line = here
        BY <1>13, <4>1
      <4>3. cache'[x.file] = file
        BY <1>5, <1>9, <4>2
      <4>4. \A text : Homes(x.kind, x.name, text)' = Homes(x.kind, x.name, text)
        BY <1>1 DEF Homes
      <4>5. x.indexed /\ ~ x.module =>
              /\ none => ~ file.current /\ Homes(x.kind, x.name, file.text) = {}
              /\ ~ none => IF file.current THEN x.line = x.was ELSE x.line \in Homes(x.kind, x.name, file.text)
        BY <1>12, <4>2 DEF here
      <4> HIDE DEF none, e, f
      <4>6. none => Lost(x)'
        BY <1>7, <4>3, <4>4, <4>5 DEF Lost, LostFrom
      <4>7. ~ none => Seen(x)'
        BY <1>7, <4>3, <4>4, <4>5 DEF Seen, SeenAt
      <4> QED BY <3>3, <4>1, <4>6, <4>7
    <3> QED BY <3>2, <3>3
  <2>4. \A g \in L!Indexed' : cache'[g].read /\ cache'[g].current => cache'[g].text = recorded'[g].text
    <3>1. SUFFICES ASSUME NEW g \in L!Indexed, cache'[g].read, cache'[g].current
                   PROVE  cache'[g].text = recorded[g].text
      BY <1>1 DEF L!Indexed
    <3>2. g \in Files
      BY <1>2, IndexTextsTyped
    <3> QED BY <1>2, <1>8, <1>9, <3>1, <3>2 DEF Placed
  <2>5. ~ Over' /\ listStage' = "describe"
    BY <1>1, <1>3 DEF Over
  <2>6. /\ ask'.index /\ ask'.verb = "def" => todo' \in SUBSET Skipped
        /\ listStage' \in {"describe", "done"} /\ (ask'.verb = "def" \/ listStage' = "done") => todo' = {}
    BY <1>1, <1>2 DEF Placed
  <2> QED BY <2>1, <2>2, <2>3, <2>4, <2>5, <2>6 DEF Placed, AsIndexed
<1>19. Complete'
  <2>1. \A g : /\ Wanted(g)' = Wanted(g) /\ \A x, i : Stands(x, g, i)' = Stands(x, g, i)
    BY <1>1 DEF Wanted, Stands
  <2>2. \A g, i : \A x \in Elements(entries) : Stands(x, g, i) => \E y \in Elements(entries') : Stands(y, g, i)
    <3>1. SUFFICES ASSUME NEW g, NEW i, NEW k \in DOMAIN entries, Stands(entries[k], g, i)
                   PROVE  \E y \in Elements(entries') : Stands(y, g, i)
      BY DEF Elements
    <3>2. Stands(entries'[k], g, i)
      <4>1. CASE k = next
        BY <1>13, <1>15, <3>1, <4>1 DEF Stands
      <4>2. CASE k # next
        BY <1>15, <3>1, <4>2
      <4> QED BY <4>1, <4>2
    <3> QED BY <1>15, <3>2 DEF Elements
  <2>3. ~ Over' /\ L!Indexed' = L!Indexed /\ listStage # "open"
    BY <1>1, <1>3 DEF Over, L!Indexed
  <2>4. /\ Len(entries) <= total
        /\ total = Len(entries) => \A g \in L!Indexed : \A i \in Wanted(g) :
               \E x \in Elements(entries) : Stands(x, g, i)
    BY <1>2, <1>3, <2>3 DEF Complete
  <2> QED BY <1>1, <1>15, <2>1, <2>2, <2>3, <2>4 DEF Complete
<1>20. Apart'
  <2>1. SUFFICES ASSUME ask.verb = "impls" PROVE Apart'
    BY <1>1 DEF Apart
  <2>2. e.indexed /\ ~ e.module
    BY <1>3, <1>6, <2>1 DEF Sound
  <2>3. /\ Listed \subseteq have /\ have \subseteq Files \X Nat /\ extras = {}
        /\ \A p \in have : p \in Listed \/ WasThere(p[1], p[2])
    BY <1>1, <1>2, <2>1 DEF Apart
  <2>4. Staying = DOMAIN entries \ gone /\ Staying' = DOMAIN entries \ gone' /\ next \notin gone
    BY <1>1, <1>3, <1>15 DEF Staying
  <2>5. Listed' \subseteq have'
    <3>1. SUFFICES ASSUME NEW k \in DOMAIN entries \ gone' PROVE <<entries'[k].file, entries'[k].line>> \in have'
      BY <2>4 DEF Listed
    <3>2. <<entries[k].file, entries[k].line>> \in have
      BY <1>1, <2>3, <2>4, <3>1 DEF Listed
    <3>3. have \subseteq have'
      BY <1>1
    <3>4. CASE k # next
      BY <1>15, <3>2, <3>3, <3>4
    <3>5. CASE k = next
      <4>1. ~ none
        BY <1>1, <3>1, <3>5
      <4>2. e2.line = place /\ e2.file = f /\ entries'[k] = e2
        BY <1>13, <1>15, <2>2, <3>5, <4>1 DEF here
      <4>3. CASE file.current
        BY <1>12, <2>2, <3>2, <3>3, <3>5, <4>1, <4>2, <4>3
      <4>4. CASE ~ file.current
        BY <1>1, <4>1, <4>2, <4>4
      <4> QED BY <4>3, <4>4
    <3> QED BY <3>4, <3>5
  <2>6. \A p \in have' : p \in Files \X Nat /\ (p \in Listed' \/ WasThere(p[1], p[2]))
    <3>1. TAKE p \in have'
    <3>2. CASE p \in have
      <4>1. p \in Files \X Nat
        BY <2>3, <3>2
      <4>2. CASE p \in Listed
        <5>1. PICK k \in DOMAIN entries \ gone : p = <<entries[k].file, entries[k].line>>
          BY <2>4, <4>2 DEF Listed
        <5>2. CASE k # next
          <6>1. k \notin gone' /\ entries'[k] = entries[k]
            BY <1>1, <1>15, <5>2
          <6> QED BY <2>4, <4>1, <5>1, <6>1 DEF Listed
        <5>3. CASE k = next
          <6>1. p = <<f, e.was>> /\ e.was \in Homes(e.kind, e.name, recorded[f].text)
            BY <1>12, <2>2, <5>1, <5>3
          <6>2. WasThere(f, e.was)
            BY <1>5, <2>1, <6>1 DEF WasThere, Homes, L!HasDefs
          <6> QED BY <4>1, <6>1, <6>2
        <5> QED BY <5>2, <5>3
      <4>3. CASE WasThere(p[1], p[2])
        BY <4>1, <4>3
      <4> QED BY <2>3, <3>2, <4>2, <4>3
    <3>3. CASE p \notin have
      <4>1. ~ none /\ p = <<f, place>>
        BY <1>1, <3>3
      <4>2. next \notin gone' /\ e2.line = place /\ e2.file = f
        BY <1>1, <1>13, <2>2, <2>4, <4>1 DEF here
      <4>3. p \in Listed'
        BY <1>4, <1>15, <2>4, <4>1, <4>2 DEF Listed
      <4> QED BY <1>5, <1>11, <4>1, <4>3
    <3> QED BY <3>2, <3>3
  <2>7. \A g, i : WasThere(g, i)' = WasThere(g, i)
    BY <1>1 DEF WasThere
  <2>8. listStage' = "describe" /\ ask' = ask /\ extras' = {} /\ ask.index
    BY <1>1, <1>3, <2>3
  <2>9. have' \subseteq Files \X Nat
    BY <2>6
  <2> QED BY <2>5, <2>6, <2>7, <2>8, <2>9 DEF Apart, Over
<1> QED BY <1>16, <1>18, <1>19, <1>20 DEF ListInv

\* Numbering what stays.
LEMMA Renumbered ==
    ASSUME NEW n \in Nat, NEW stay \in SUBSET (1 .. n)
    PROVE  LET nth(k) == CHOOSE j \in stay : L!Cardinality({i \in stay : i <= j}) = k
           IN  /\ IsFiniteSet(stay) /\ Cardinality(stay) \in Nat
               /\ \A k \in 1 .. Cardinality(stay) : nth(k) \in stay
               /\ \A j \in stay : \E k \in 1 .. Cardinality(stay) : nth(k) = j
<1> DEFINE r == {p \in stay \X stay : p[1] < p[2]}
           rank(j) == Cardinality(Under(r, stay, j))
           nth(k) == CHOOSE j \in stay : L!Cardinality({i \in stay : i <= j}) = k
<1>1. IsFiniteSet(stay) /\ Cardinality(stay) \in Nat
  <2>1. IsFiniteSet(1 .. n)
    BY FS_Interval
  <2> QED BY <2>1, FS_Subset, FS_CardinalityType
<1>2. \A i, j \in stay : <<i, j>> \in r <=> i < j
  OBVIOUS
<1>3. \A j \in stay : Under(r, stay, j) = {i \in stay : i < j}
  BY <1>2 DEF Under
<1>4. Orders(r, stay)
  <2> HIDE DEF r
  <2> QED BY <1>2 DEF Orders
<1>5. /\ \A x, y \in stay : rank(x) = rank(y) => x = y
      /\ \A k \in 1 .. Cardinality(stay) : \E x \in stay : rank(x) = k - 1
  <2> HIDE DEF r
  <2>1. Numbered(r, stay)
    BY <1>1, <1>4, Ranks
  <2> QED BY <2>1 DEF Numbered
<1>6. \A j \in stay : rank(j) \in Nat /\ L!Cardinality({i \in stay : i <= j}) = rank(j) + 1
  <2>1. TAKE j \in stay
  <2> DEFINE T == {i \in stay : i < j}
  <2>2. IsFiniteSet(T) /\ j \notin T /\ {i \in stay : i <= j} = T \cup {j}
    <3>1. T \in SUBSET stay
      OBVIOUS
    <3>2. IsFiniteSet(T)
      BY <1>1, <3>1, FS_Subset
    <3>3. j \in Int /\ \A i \in stay : i \in Int
      OBVIOUS
    <3>4. j \notin T /\ \A i \in stay : i <= j <=> (i < j \/ i = j)
      BY <3>3
    <3>5. {i \in stay : i <= j} = T \cup {j}
      BY <3>4
    <3> QED BY <3>2, <3>4, <3>5
  <2>3. Cardinality(T) \in Nat /\ Cardinality(T \cup {j}) = Cardinality(T) + 1
    <3> HIDE DEF T
    <3> QED BY <2>2, FS_AddElement, FS_CardinalityType
  <2>4. rank(j) = Cardinality(T)
    BY <1>3
  <2> HIDE DEF r, T
  <2> QED BY <2>2, <2>3, <2>4, SameCardinality
<1> HIDE DEF r
<1>7. \A k \in 1 .. Cardinality(stay) : \E j \in stay : L!Cardinality({i \in stay : i <= j}) = k
  <2>1. TAKE k \in 1 .. Cardinality(stay)
  <2>2. PICK j \in stay : rank(j) = k - 1
    BY <1>5
  <2>3. k \in Nat /\ rank(j) \in Nat /\ L!Cardinality({i \in stay : i <= j}) = rank(j) + 1
    BY <1>1, <1>6
  <2> HIDE DEF rank
  <2>4. L!Cardinality({i \in stay : i <= j}) = k
    BY <2>2, <2>3
  <2> QED BY <2>4
<1>8. \A k \in 1 .. Cardinality(stay) : nth(k) \in stay /\ L!Cardinality({i \in stay : i <= nth(k)}) = k
  BY <1>7
<1>9. \A j \in stay : \E k \in 1 .. Cardinality(stay) : nth(k) = j
  <2>1. TAKE j \in stay
  <2> DEFINE k == L!Cardinality({i \in stay : i <= j})
  <2>2. k \in 1 .. Cardinality(stay)
    <3> DEFINE T == {i \in stay : i <= j}
    <3>1. T \in SUBSET stay
      OBVIOUS
    <3>2. Cardinality(T) <= Cardinality(stay) /\ k = Cardinality(T)
      BY <1>1, <3>1, FS_Subset, SameCardinality
    <3>3. k = rank(j) + 1 /\ rank(j) \in Nat
      BY <1>6
    <3> HIDE DEF k, T
    <3> QED BY <1>1, <3>2, <3>3
  <2>3. nth(k) \in stay /\ L!Cardinality({i \in stay : i <= nth(k)}) = L!Cardinality({i \in stay : i <= j})
    BY <1>8, <2>2
  <2> HIDE DEF k, nth
  <2>4. rank(nth(k)) = rank(j)
    <3> DEFINE upto(x) == L!Cardinality({i \in stay : i <= x})
    <3> HIDE DEF rank
    <3>1. rank(nth(k)) \in Nat /\ L!Cardinality({i \in stay : i <= nth(k)}) = rank(nth(k)) + 1
      BY <1>6, <2>3
    <3>2. rank(j) \in Nat /\ L!Cardinality({i \in stay : i <= j}) = rank(j) + 1
      BY <1>6
    <3>3. upto(nth(k)) = upto(j) /\ upto(nth(k)) = rank(nth(k)) + 1 /\ upto(j) = rank(j) + 1
      BY <2>3, <3>1, <3>2
    <3>4. rank(nth(k)) \in Nat /\ rank(j) \in Nat
      BY <3>1, <3>2
    <3>5. \A a, b \in Nat : a + 1 = b + 1 => a = b
      OBVIOUS
    <3>6. rank(nth(k)) + 1 = rank(j) + 1
      BY <3>3, Zenon
    <3> QED BY ONLY <3>4, <3>5, <3>6, Zenon
  <2>5. nth(k) = j
    BY <1>5, <2>3, <2>4
  <2> QED BY <2>2, <2>5
<1> QED BY <1>1, <1>8, <1>9

LEMMA EndDescribeStep ==
    ASSUME ListInv, L!EndDescribe
    PROVE  ListInv'
<1> DEFINE n == L!Shown
           stay == {k \in 1 .. n : k \notin gone}
           nth(k) == CHOOSE j \in stay : L!Cardinality({i \in stay : i <= j}) = k
<1>1. /\ listStage = "describe" /\ next > n
      /\ entries' = [k \in 1 .. L!Cardinality(stay) |-> entries[nth(k)]]
      /\ total' = total - L!Cardinality(gone)
      /\ IF ask.verb = "impls" THEN listStage' = "scan" /\ todo' = Selected
         ELSE listStage' = "done" /\ UNCHANGED todo
      /\ UNCHANGED <<files, recorded, ask, next, cache, gone, have, extras, scanned, writes>>
  BY DEF L!EndDescribe, L!TotalLeft
<1>2. ListTyped /\ Placed /\ Complete /\ Apart
  BY DEF ListInv
<1>3. /\ ask.index /\ ~ Over /\ Over' /\ next \in Nat /\ gone \in SUBSET (1 .. next - 1) /\ total \in Int
      /\ next <= n + 1 /\ ask.verb \in {"def", "impls"}
      /\ entries \in Seq(EntryType) /\ Len(entries) \in Nat /\ DOMAIN entries = 1 .. Len(entries)
  BY <1>1, <1>2, LenProperties DEF ListTyped, Over, L!AnyRequest
<1>4. n \in Nat /\ n <= Len(entries) /\ (ask.verb = "impls" => n = Len(entries))
  <2>1. ask.show \in Nat
    BY <1>2 DEF ListTyped, L!AnyRequest
  <2> QED BY <1>3, <2>1, Lesser DEF L!Shown
<1> HIDE DEF n
<1>a. Len(entries) \in Nat /\ DOMAIN entries = 1 .. Len(entries) /\ n \in Nat /\ n <= Len(entries)
  BY <1>3, <1>4, Zenon
<1>b. next \in Nat /\ gone \in SUBSET (1 .. next - 1) /\ total \in Int
  BY <1>3, Zenon
<1>5. next = n + 1 /\ gone \in SUBSET (1 .. n)
  <2>1. next > n
    BY <1>1
  <2>2. next \in Nat /\ next <= n + 1 /\ gone \in SUBSET (1 .. next - 1) /\ n \in Nat
    BY <1>3, <1>4
  <2> QED BY ONLY <2>1, <2>2
<1>6. /\ IsFiniteSet(stay) /\ Cardinality(stay) \in Nat
      /\ \A k \in 1 .. Cardinality(stay) : nth(k) \in stay
      /\ \A j \in stay : \E k \in 1 .. Cardinality(stay) : nth(k) = j
  <2>1. stay \in SUBSET (1 .. n)
    OBVIOUS
  <2> HIDE DEF stay
  <2> QED BY <1>4, <2>1, Renumbered
<1>7. Cardinality(stay) = n - Cardinality(gone) /\ Cardinality(gone) \in Nat
  <2>1. IsFiniteSet(1 .. n) /\ Cardinality(1 .. n) = n
    BY <1>4, FS_Interval
  <2>2. IsFiniteSet(gone) /\ (1 .. n) \cap gone = gone /\ stay = (1 .. n) \ gone
    BY <1>5, <2>1, FS_Subset
  <2> HIDE DEF stay
  <2>3. Cardinality((1 .. n) \ gone) = Cardinality(1 .. n) - Cardinality((1 .. n) \cap gone)
    BY <2>1, FS_Difference, Zenon
  <2> QED BY <2>1, <2>2, <2>3, FS_CardinalityType
<1>8. /\ entries' \in Seq(EntryType) /\ Len(entries') = Cardinality(stay)
      /\ Elements(entries') = {entries[k] : k \in stay}
  <2>1. entries' = [k \in 1 .. Cardinality(stay) |-> entries[nth(k)]]
    BY <1>1, SameCardinality
  <2>2. \A k \in stay : k \in DOMAIN entries /\ entries[k] \in EntryType
    <3>1. TAKE k \in stay
    <3>2. k \in 1 .. n
      OBVIOUS
    <3>3. k \in DOMAIN entries
      BY ONLY <1>a, <3>2
    <3>4. entries[k] \in EntryType
      BY ONLY <1>3, <3>3
    <3> QED BY <3>3, <3>4
  <2> HIDE DEF stay, nth
  <2>3. \A k \in 1 .. Cardinality(stay) : entries[nth(k)] \in EntryType
    BY <1>6, <2>2
  <2>4. DOMAIN entries' = 1 .. Cardinality(stay) /\ entries' \in [1 .. Cardinality(stay) -> EntryType]
    BY <2>1, <2>3
  <2>5. entries' \in Seq(EntryType) /\ Len(entries') = Cardinality(stay)
    BY <1>6, <2>4
  <2>6. Elements(entries') = {entries[k] : k \in stay}
    BY <1>6, <2>1, <2>4 DEF Elements
  <2> QED BY <2>5, <2>6
<1>9. \A x \in Elements(entries') : Sound(x) /\ Seen(x) /\ x \in Elements(entries)
  <2>1. SUFFICES ASSUME NEW k \in stay, NEW x, x = entries[k] PROVE Sound(x) /\ Seen(x) /\ x \in Elements(entries)
    BY <1>8
  <2>2. k \in DOMAIN entries /\ k < next /\ k \notin gone
    <3>1. k \in 1 .. n /\ k \notin gone
      OBVIOUS
    <3> QED BY ONLY <1>a, <1>5, <3>1
  <2>3. x \in Elements(entries)
    BY <2>1, <2>2 DEF Elements
  <2>4. Seen(x)
    BY <1>1, <1>2, <2>1, <2>2 DEF Placed
  <2> QED BY <1>2, <2>3, <2>4 DEF Placed
<1> HIDE DEF nth
<1>10. ListTyped'
  <2>1. total' \in Int
    BY <1>1, <1>3, <1>7, SameCardinality
  <2>2. todo' \in SUBSET Selected /\ listStage' \in {"scan", "done"}
    BY <1>1, <1>2 DEF ListTyped
  <2> QED BY <1>1, <1>2, <1>3, <1>8, <2>1, <2>2 DEF ListTyped
<1>11. Placed'
  <2>1. \A x \in Elements(entries') : Sound(x)' /\ Seen(x)'
    <3>1. SUFFICES ASSUME NEW x \in Elements(entries') PROVE Sound(x)' /\ Seen(x)'
      OBVIOUS
    <3>2. Sound(x) /\ Seen(x)
      BY <1>9
    <3>3. Seen(x)'
      BY <1>1, <3>2 DEF Seen, SeenAt, Homes
    <3>4. x.indexed \/ x.file \notin todo'
      BY <1>1, <1>3, <3>2 DEF Sound
    <3> QED BY <1>1, <3>2, <3>3, <3>4, SoundStays
  <2>2. \A f \in L!Indexed' : cache'[f].read /\ cache'[f].current => cache'[f].text = recorded'[f].text
    BY <1>1, <1>2 DEF Placed, L!Indexed
  <2>3. ask.verb = "def" => todo' = {}
    BY <1>1, <1>2 DEF Placed
  <2>4. listStage' = "done" => ask.verb = "def"
    BY <1>1, <1>3
  <2>5. listStage' # "describe" /\ ask' = ask
    BY <1>1
  <2> QED BY <1>3, <2>1, <2>2, <2>3, <2>4, <2>5 DEF Placed
<1>12. Complete'
  <2>1. \A g : /\ Wanted(g)' = Wanted(g) /\ \A x, i : Stands(x, g, i)' = Stands(x, g, i)
               /\ \A i : Vanished(g, i)' = Vanished(g, i)
    BY <1>1 DEF Wanted, Stands, Vanished, Homes
  <2>2. L!Indexed' = L!Indexed
    BY <1>1 DEF L!Indexed
  <2>3. SUFFICES ASSUME total' = Len(entries'), NEW g \in L!Indexed, NEW i \in Wanted(g)
                 PROVE  (\E x \in Elements(entries') : Stands(x, g, i)) \/ Vanished(g, i)
    BY <1>3, <2>1, <2>2 DEF Complete
  <2>4. total = n
    <3>1. total' = total - Cardinality(gone)
      BY <1>1, SameCardinality
    <3>2. total' = n - Cardinality(gone)
      BY <1>7, <1>8, <2>3
    <3>3. total \in Int /\ n \in Int /\ Cardinality(gone) \in Int
      BY ONLY <1>a, <1>b, <1>7
    <3> QED BY ONLY <3>1, <3>2, <3>3
  <2>5. /\ Len(entries) <= total
        /\ total = Len(entries) => \E x \in Elements(entries) : Stands(x, g, i)
    BY <1>1, <1>2, <1>3 DEF Complete
  <2>6. n = Len(entries)
    <3>1. Len(entries) <= total
      BY <2>5
    <3>2. Len(entries) <= n
      BY <2>4, <3>1, Zenon
    <3>3. \A a, b \in Nat : a <= b /\ b <= a => a = b
      OBVIOUS
    <3>4. Len(entries) \in Nat /\ n \in Nat /\ n <= Len(entries)
      BY <1>a, Zenon
    <3> QED BY ONLY <3>2, <3>3, <3>4, Zenon
  <2>7. PICK k \in DOMAIN entries : Stands(entries[k], g, i)
    BY <2>4, <2>5, <2>6 DEF Elements
  <2>8. CASE k \in gone
    <3> DEFINE x == entries[k]
    <3>1. Lost(x)
      BY <1>1, <1>2, <1>3, <1>5, <2>6, <2>8 DEF Placed
    <3>2. Stands(x, g, i)
      BY <2>7
    <3> HIDE DEF x
    <3> QED BY <3>1, <3>2 DEF Lost, LostFrom, Stands, Vanished
  <2>9. CASE k \notin gone
    <3>1. k \in stay
      BY <1>3, <2>6, <2>9
    <3> QED BY <1>8, <2>7, <3>1
  <2> QED BY <2>8, <2>9
<1>13. Apart'
  <2>1. SUFFICES ASSUME ask.verb = "impls" PROVE Apart'
    BY <1>1 DEF Apart
  <2>2. listStage' = "scan" /\ todo' = Selected
    BY <1>1, <2>1
  <2>3. /\ Listed \subseteq have /\ have \subseteq Files \X Nat /\ extras = {}
        /\ \A p \in have : p \in Listed \/ WasThere(p[1], p[2])
    BY <1>1, <1>2, <2>1 DEF Apart
  <2>4. Listed' = Listed
    <3>1. Listed' = LinesOf(Elements(entries'))
      BY <2>2 DEF Listed, Staying, LinesOf, Elements
    <3>2. Staying = stay
      BY <1>1, <1>3, <1>4, <2>1 DEF Staying
    <3> HIDE DEF stay
    <3>3. LinesOf(Elements(entries')) = {<<entries[k].file, entries[k].line>> : k \in stay}
      BY <1>8 DEF LinesOf
    <3> QED BY <3>1, <3>2, <3>3 DEF Listed
  <2>5. \A g, i : WasThere(g, i)' = WasThere(g, i)
    BY <1>1 DEF WasThere
  <2>6. extras' = {} /\ have' = have /\ ask' = ask
    BY <1>1, <2>3
  <2> QED BY <1>3, <2>2, <2>3, <2>4, <2>5, <2>6 DEF Apart
<1> QED BY <1>10, <1>11, <1>12, <1>13 DEF ListInv

LEMMA EditStep ==
    ASSUME ListInv, NEW f \in Files, NEW t \in Edited[f], NEW sameTick \in BOOLEAN, L!Edit(f, t, sameTick)
    PROVE  ListInv'
<1> DEFINE stamp == IF sameTick THEN files[f].stamp ELSE 2 + writes
           file == IF t = L!Missing THEN L!Missing ELSE [t EXCEPT !.stamp = stamp]
<1>1. /\ files' = [files EXCEPT ![f] = file] /\ writes' = writes + 1
      /\ (sameTick => f \in Racy /\ t # L!Missing)
      /\ UNCHANGED <<recorded, ask, listStage, todo, entries, next, cache, gone, total, have, extras, scanned>>
  BY DEF L!Edit
<1>2. ListTyped /\ Placed /\ Complete /\ Apart
  BY DEF ListInv
<1>3. t \in [text : Text, stamp : Nat] /\ files[f].stamp \in Nat /\ writes \in Nat /\ stamp \in Nat
  <2>1. t \in [text : Text, stamp : Nat]
    BY ListConstants
  <2>2. files[f].stamp \in Nat /\ writes \in Nat
    BY <1>2 DEF ListTyped
  <2> QED BY <2>1, <2>2
<1>4. file \in [text : Text, stamp : Nat] /\ (f \notin Racy => file.stamp # 1)
  <2>1. CASE t = L!Missing
    BY <1>3, <2>1 DEF L!Missing
  <2>2. CASE t # L!Missing
    <3>1. file = [t EXCEPT !.stamp = stamp]
      BY <2>2
    <3>2. f \notin Racy => stamp # 1
      BY <1>1, <1>3
    <3> HIDE DEF stamp, file
    <3> QED BY <1>3, <3>1, <3>2
  <2> QED BY <2>1, <2>2
<1> HIDE DEF file
<1>5. ListTyped'
  <2>1. files' \in [Files -> [text : Text, stamp : Nat]]
    BY <1>1, <1>2, <1>4 DEF ListTyped
  <2>2. \A g \in Files \ Racy : files'[g].stamp = recorded'[g].stamp => files'[g] = recorded'[g]
    <3>1. SUFFICES ASSUME NEW g \in Files \ Racy, files'[g].stamp = recorded[g].stamp
                   PROVE  files'[g] = recorded[g]
      BY <1>1
    <3>2. recorded[g].stamp = 1
      BY <1>2 DEF ListTyped
    <3>3. g # f /\ files'[g] = files[g]
      BY <1>1, <1>2, <1>4, <3>1, <3>2 DEF ListTyped
    <3> QED BY <1>2, <3>1, <3>3 DEF ListTyped
  <2>3. Over' = Over /\ L!Shown' = L!Shown /\ writes' \in Nat
    BY <1>1, <1>3 DEF Over, L!Shown, L!Unlimited
  <2> QED BY <1>1, <1>2, <2>1, <2>2, <2>3 DEF ListTyped
<1>6. /\ Over' = Over /\ L!Indexed' = L!Indexed /\ \A x : Sound(x)' = Sound(x) /\ Seen(x)' = Seen(x) /\ Lost(x)' = Lost(x)
      /\ \A g, i : Wanted(g)' = Wanted(g) /\ Vanished(g, i)' = Vanished(g, i) /\ WasThere(g, i)' = WasThere(g, i)
      /\ \A x, g, i : Stands(x, g, i)' = Stands(x, g, i)
      /\ Listed' = Listed
  BY <1>1 DEF Over, L!Indexed, Sound, Seen, SeenAt, Lost, LostFrom, Homes, Wanted, Vanished, WasThere, Stands,
              Listed, Staying
<1>7. Placed'
  BY <1>1, <1>2, <1>6 DEF Placed
<1>8. Complete'
  BY <1>1, <1>2, <1>6 DEF Complete
<1>9. Apart'
  BY <1>1, <1>2, <1>6 DEF Apart
<1> QED BY <1>5, <1>7, <1>8, <1>9 DEF ListInv


\* What the steps do not read.
LEMMA ListStays ==
    ASSUME ListInv, UNCHANGED listing
    PROVE  ListInv'
<1>1. UNCHANGED <<files, recorded, ask, listStage, todo, entries, next, cache, gone, total, have, extras, scanned,
                  writes>>
  BY DEF listing
<1>2. ListTyped /\ Placed /\ Complete /\ Apart
  BY DEF ListInv
<1>3. Over' = Over /\ L!Shown' = L!Shown /\ L!Indexed' = L!Indexed /\ Listed' = Listed
  BY <1>1 DEF Over, L!Shown, L!Unlimited, L!Indexed, Listed, Staying
<1>4. \A x : Sound(x)' = Sound(x) /\ Seen(x)' = Seen(x) /\ Lost(x)' = Lost(x)
  BY <1>1 DEF L!Indexed, Sound, Seen, SeenAt, Lost, LostFrom, Homes
<1>5. /\ \A g, i : Wanted(g)' = Wanted(g) /\ Vanished(g, i)' = Vanished(g, i) /\ WasThere(g, i)' = WasThere(g, i)
      /\ \A x, g, i : Stands(x, g, i)' = Stands(x, g, i)
  BY <1>1 DEF Homes, Wanted, Vanished, WasThere, Stands
<1>6. ListTyped'
  BY <1>1, <1>2, <1>3 DEF ListTyped
<1>7. Placed'
  BY <1>1, <1>2, <1>3, <1>4 DEF Placed
<1>8. Complete'
  BY <1>1, <1>2, <1>3, <1>5 DEF Complete
<1>9. Apart'
  BY <1>1, <1>2, <1>3, <1>5 DEF Apart
<1> QED BY <1>6, <1>7, <1>8, <1>9 DEF ListInv

LEMMA ListStarts == PartsInit => ListInv
<1> SUFFICES ASSUME PartsInit PROVE ListInv
  OBVIOUS
<1>1. L!Init
  BY DEF PartsInit
<1>2. /\ \A f \in Files : files[f] \in Sources[f]
      /\ files \in [Files -> UNION {Sources[f] : f \in Files}]
      /\ recorded = files /\ ask \in Requests
      /\ listStage = "open" /\ todo = {} /\ entries = <<>> /\ next = 1
      /\ cache = [f \in Files |-> L!Unread] /\ gone = {} /\ total = 0
      /\ have = {} /\ extras = {} /\ scanned = [f \in Files |-> <<>>] /\ writes = 0
  BY <1>1 DEF L!Init
<1>3. <<>> \in Text /\ <<>> \in Seq(EntryType) /\ DOMAIN <<>> = {}
  BY EmptySeq DEF Text
<1>4. ListTyped
  <2>1. \A f \in Files : files[f] \in [text : Text, stamp : {1}]
    BY <1>2, ListConstants
  <2>2. files \in [Files -> [text : Text, stamp : {1}]]
    BY <1>2, <2>1
  <2>3. files \in [Files -> [text : Text, stamp : Nat]]
    BY <1>2, <2>1
  <2>4. cache \in [Files -> [text : Text, current : BOOLEAN, read : BOOLEAN]]
    BY <1>2, <1>3 DEF L!Unread
  <2>5. ask \in L!AnyRequest
    BY <1>2, ListConstants
  <2> QED BY <1>2, <1>3, <2>2, <2>3, <2>4, <2>5 DEF ListTyped, Over
<1>5. Elements(entries) = {} /\ ~ Over
  BY <1>2, <1>3 DEF Elements, Over
<1>6. Placed
  <2>1. \A f \in L!Indexed : ~ cache[f].read
    BY <1>2, <1>4, IndexTextsTyped DEF L!Unread
  <2> QED BY <1>2, <1>3, <1>5, <2>1 DEF Placed
<1>7. Complete
  BY <1>2 DEF Complete
<1>8. Apart
  <2>1. Listed = {}
    BY <1>2, <1>3 DEF Listed, Staying
  <2> QED BY <1>2, <1>5, <2>1 DEF Apart, Over
<1> QED BY <1>4, <1>6, <1>7, <1>8 DEF ListInv

LEMMA ListSteps == ListInv /\ [PartsNext]_parts => ListInv'
<1> SUFFICES ASSUME ListInv, [PartsNext]_parts PROVE ListInv'
  OBVIOUS
<1>1. CASE UNCHANGED listing
  BY <1>1, ListStays
<1>2. CASE L!Next
  <2>1. CASE L!Scan
    <3>1. ask.verb \in {"def", "impls"}
      BY DEF ListInv, ListTyped, L!AnyRequest
    <3> QED BY <2>1, <3>1, ScanDefStep, ScanImplsStep
  <2>2. CASE \E f \in Files : \E t \in Edited[f], sameTick \in BOOLEAN : L!Edit(f, t, sameTick)
    BY <2>2, EditStep
  <2> QED BY <1>2, <2>1, <2>2, OpenDefStep, OpenImplsStep, OpenScanStep, EndScanStep, DescribeStep, EndDescribeStep
          DEF L!Next
<1> QED
  <2>1. CASE ~ L!Next
    <3>1. UNCHANGED listing
      BY <2>1 DEF PartsNext, parts
    <3> QED BY <3>1, <1>1
  <2> QED BY <2>1, <1>2

LEMMA EntryRead ==
    ASSUME ListInv, listStage = "done", NEW e \in Elements(entries), ~ e.module
    PROVE  /\ e.line \in Homes(e.kind, e.name, L!ReadOf(e))
           /\ e.indexed => /\ e.file \in L!Indexed /\ cache[e.file].read
                           /\ cache[e.file].current =>
                                 e.line = e.was /\ cache[e.file].text = recorded[e.file].text
<1>1. Sound(e) /\ Seen(e)
  BY DEF ListInv, Placed, Over
<1>2. CASE ~ e.indexed
  BY <1>1, <1>2 DEF Sound, L!ReadOf
<1>3. CASE e.indexed
  <2>1. e.file \in L!Indexed /\ e.was \in Homes(e.kind, e.name, recorded[e.file].text)
    BY <1>1, <1>3 DEF Sound
  <2>2. SeenAt(e) /\ L!ReadOf(e) = cache[e.file].text
    BY <1>1, <1>3 DEF Seen, L!ReadOf
  <2>3. cache[e.file].current => cache[e.file].text = recorded[e.file].text
    BY <2>1, <2>2 DEF ListInv, Placed, SeenAt
  <2> QED BY <1>3, <2>1, <2>2, <2>3 DEF SeenAt
<1> QED BY <1>2, <1>3

LEMMA OneHome ==
    ASSUME NEW text \in Text, NEW d, L!Sole(text, d), NEW i, NEW j,
           i \in L!HasDefs(text), text[i].kind = d.kind, text[i].name = d.name,
           j \in L!HasDefs(text), text[j].kind = d.kind, text[j].name = d.name
    PROVE  i = j
<1> DEFINE S == {k \in L!HasDefs(text) : text[k].kind = d.kind /\ text[k].name = d.name}
<1>1. i \in S /\ j \in S
  OBVIOUS
<1>2. Cardinality(S) = 1
  BY SameCardinality DEF L!Sole
<1>3. IsFiniteSet(S)
  <2>1. S \in SUBSET (1 .. Len(text)) /\ Len(text) \in Nat
    BY TextLines
  <2>2. IsFiniteSet(1 .. Len(text))
    BY <2>1, FS_Interval
  <2> QED BY <2>1, <2>2, FS_Subset
<1> HIDE DEF S
<1>4. \E x : S = {x}
  BY <1>2, <1>3, FS_Singleton
<1> QED BY <1>1, <1>4

LEMMA ListLocated == ListInv => L!Located /\ L!NoneLost
<1> SUFFICES ASSUME ListInv PROVE L!Located /\ L!NoneLost
  OBVIOUS
<1>1. ListTyped /\ Placed /\ Complete
  BY DEF ListInv
<1>2. L!Located
  <2>1. SUFFICES ASSUME listStage = "done", NEW k \in DOMAIN entries, ~ entries[k].module
                 PROVE  LET e == entries[k] IN
                          /\ e.line \in L!HasDefs(L!ReadOf(e))
                          /\ LET d == L!ReadOf(e)[e.line] IN
                             /\ d.kind = e.kind /\ d.name = e.name
                             /\ ask.verb = "impls" => "q" \in d.supers
    BY DEF L!Located, L!Done, L!Query
  <2>2. entries[k] \in Elements(entries)
    BY DEF Elements
  <2>3. entries[k].line \in Homes(entries[k].kind, entries[k].name, L!ReadOf(entries[k]))
    BY <2>1, <2>2, EntryRead
  <2> QED BY <2>3 DEF Homes
<1>3. L!NoneLost
  <2> DEFINE text(f) == recorded[f].text
             now(f) == IF cache[f].read THEN cache[f].text ELSE text(f)
             asked(f) == IF ask.verb = "impls" THEN L!Extending(text(f)) ELSE L!Named(text(f), {"q"})
             Lasts(f, i, j) ==
                 /\ (ask.verb = "def" /\ ask.kind # "any" => text(f)[i].kind = ask.kind)
                 /\ now(f)[j].kind = text(f)[i].kind /\ now(f)[j].name = text(f)[i].name
                    /\ now(f)[j].supers = text(f)[i].supers
                 /\ L!Sole(text(f), text(f)[i]) /\ L!Sole(now(f), text(f)[i])
             Shows(f, j) == \E k \in DOMAIN entries : entries[k].file = f /\ entries[k].line = j
  <2>1. SUFFICES ASSUME listStage = "done", ask.index, total = Len(entries), NEW f \in L!Indexed,
                        NEW i \in asked(f), NEW j \in L!HasDefs(now(f)), Lasts(f, i, j)
                 PROVE  Shows(f, j)
    <3>1. L!NoneLost <=>
            (listStage = "done" /\ ask.index /\ total = Len(entries) =>
                \A f \in L!Indexed : \A i \in asked(f) : \A j \in L!HasDefs(now(f)) : Lasts(f, i, j) => Shows(f, j))
      BY Zenon DEF L!NoneLost, L!Done, L!Query
    <3> HIDE DEF asked, now, Lasts, Shows
    <3> QED BY <3>1
  <2>2. f \in Files /\ text(f) \in Text /\ now(f) \in Text
    <3>1. f \in Files /\ recorded[f].text \in Text
      BY <1>1, IndexTextsTyped
    <3> QED BY <1>1, <3>1 DEF ListTyped
  <2>3. ask.verb \in {"def", "impls"}
    BY <1>1 DEF ListTyped, L!AnyRequest
  <2>4. i \in Wanted(f) /\ i \in L!HasDefs(text(f))
    BY <2>1, <2>3 DEF Wanted, L!Named, L!Extending
  <2>5. ask.verb = "impls" => "q" \in now(f)[j].supers
    BY <2>1 DEF L!Extending, L!Query
  <2>6. j \in Homes(text(f)[i].kind, text(f)[i].name, now(f))
    BY <2>1, <2>5 DEF Homes
  <2>7. ~ Vanished(f, i)
    BY <2>6 DEF Vanished
  <2>8. PICK e \in Elements(entries) : Stands(e, f, i)
    BY <1>1, <2>1, <2>4, <2>7 DEF Complete
  <2>9. /\ e.file = f /\ e.was = i /\ e.indexed /\ ~ e.module
        /\ e.kind = text(f)[i].kind /\ e.name = text(f)[i].name
    BY <2>8 DEF Stands
  <2>10. /\ e.line \in Homes(e.kind, e.name, L!ReadOf(e)) /\ L!ReadOf(e) = now(f)
    BY <2>1, <2>9, EntryRead DEF L!ReadOf
  <2>11. /\ e.line \in L!HasDefs(now(f))
         /\ now(f)[e.line].kind = text(f)[i].kind /\ now(f)[e.line].name = text(f)[i].name
    BY <2>9, <2>10 DEF Homes
  <2> HIDE DEF now, text
  <2>12. e.line = j
    BY <2>1, <2>2, <2>11, OneHome
  <2> QED BY <2>9, <2>12 DEF Elements
<1> QED BY <1>2, <1>3

LEMMA ListOnce == ListInv => L!ListedOnce
<1> SUFFICES ASSUME ListInv, listStage = "done", ask.verb = "impls"
             PROVE  /\ L!Direct \cap L!Extra = {}
                    /\ \A f \in Selected : \A i \in L!HasDefs(scanned[f]) :
                          LET stale == /\ recorded[f] # L!Missing /\ i \in DOMAIN recorded[f].text
                                       /\ "q" \in recorded[f].text[i].supers
                          IN  Asking(scanned[f][i]) /\ ask.show = 0 /\ ~ stale => <<f, i>> \in L!Direct \cup L!Extra
  BY DEF L!ListedOnce, L!Done, L!Query, L!Unlimited, Asking
<1>1. ListTyped /\ Placed /\ Apart
  BY DEF ListInv
<1>2. L!Direct = Listed /\ L!Extra = LinesOf(extras)
  BY DEF L!Direct, L!Extra, Listed, Staying, LinesOf
<1>3. todo = {}
  BY <1>1 DEF Placed
<1>4. L!Direct \cap L!Extra = {}
  BY <1>1, <1>2 DEF Apart, LinesOf
<1>5. ASSUME NEW f \in Selected, NEW i \in L!HasDefs(scanned[f]), Asking(scanned[f][i]), ask.show = 0,
             ~ (/\ recorded[f] # L!Missing /\ i \in DOMAIN recorded[f].text
                /\ "q" \in recorded[f].text[i].supers)
      PROVE  <<f, i>> \in L!Direct \cup L!Extra
  <2>1. <<f, i>> \in have \cup LinesOf(extras)
    BY <1>1, <1>3, <1>5 DEF Apart
  <2>2. recorded[f] # L!Missing
    <3>1. f \in Files
      BY ListConstants
    <3>2. recorded[f].stamp = 1 /\ L!Missing.stamp = 0
      BY <1>1, <3>1 DEF ListTyped, L!Missing
    <3> QED BY <3>2
  <2>3. ~ WasThere(f, i)
    BY <1>5, <2>2 DEF WasThere
  <2>4. <<f, i>> \in have => <<f, i>> \in Listed
    <3> DEFINE p == <<f, i>>
    <3>1. p \in have => p \in Listed \/ (ask.index /\ WasThere(p[1], p[2])) \/ ask.show # 0
      BY <1>1 DEF Apart
    <3>2. p[1] = f /\ p[2] = i
      OBVIOUS
    <3> QED BY <1>5, <2>3, <3>1, <3>2
  <2> QED BY <1>2, <2>1, <2>4
<1> QED BY <1>4, <1>5

(* What `def` and `impls` list is at its line when its file is read, and    *)
(* nothing the checked index had and the file still has is left out unsaid, *)
(* of every tree and every edit between two reads (verbs.rs `relocate`,     *)
(* `indexed_text`, `def`).                                                  *)
THEOREM ListedWhereTheyAre == PartsSpec => []Located
<1>1. ListInv => Located
  BY ListLocated DEF Located
<1> QED BY <1>1, ListStarts, ListSteps, PTL DEF PartsSpec

(* An implementor is direct or an extra, once, of every tree and every edit *)
(* between two reads (verbs.rs `impls`).                                    *)
THEOREM ListedOnceAlways == PartsSpec => []ListedOnce
<1>1. ListInv => ListedOnce
  BY ListOnce DEF ListedOnce
<1> QED BY <1>1, ListStarts, ListSteps, PTL DEF PartsSpec
-----------------------------------------------------------------------------
(* Impact: publications, and the records that follow one another.           *)

IsSeq(s) == s \in Seq({s[n] : n \in DOMAIN s})
NewerIds(i, m) == {k \in DOMAIN i.recs : i.recs[k].prev = m}
\* A record comes after the one it replaces, which is of the same path and dead.
Chained(i) ==
    /\ IsSeq(i.recs)
    /\ i.dead \subseteq DOMAIN i.recs
    /\ \A n \in DOMAIN i.recs :
          LET b == i.recs[n].prev IN
          /\ b \in Nat
          /\ b # 0 => b < n /\ b \in i.dead /\ i.recs[b].path = i.recs[n].path
OneLive(i) == \A m, n \in I!Live(i) : i.recs[m].path = i.recs[n].path => m = n
Targeted(i) == \A n \in DOMAIN i.recs : i.recs[n].targets \subseteq DOMAIN i.recs
LinksHeld(i) ==
    \A n \in I!Live(i) :
        I!PathsOf(i, I!OutEdges(i, n)) = i.recs[n].has.imports \cap I!PathsOf(i, I!Live(i))
Published(i) == Chained(i) /\ OneLive(i) /\ Targeted(i) /\ LinksHeld(i)

GradedAs ==
    /\ likely \cup possible \cup review = DOMAIN uses
    /\ likely \cap possible = {} /\ likely \cap review = {} /\ possible \cap review = {}
    /\ builds = 0 =>
        \A p \in DOMAIN uses : I!Latest(graph, uses[p].id) \in I!Live(graph) =>
              (p \in likely <=> p \notin Aside /\ I!Strong(p) /\ I!LinkedPath(graph, p))

\* Without a build, what the search opened is still there, by id.
GradeInv ==
    part = "impact" =>
        /\ DOMAIN tree \subseteq Paths
        /\ builds \in Nat
        /\ Published(index)
        /\ impactStage = "search" =>
              /\ Chained(snap)
              /\ builds = 0 =>
                 \A n \in I!Live(snap) : n \in DOMAIN index.recs /\ index.recs[n].path = snap.recs[n].path
        /\ impactStage = "graph" /\ builds = 0 =>
              \A p \in DOMAIN uses : uses[p].id \in DOMAIN index.recs /\ index.recs[uses[p].id].path = p
        /\ impactStage = "graded" => GradedAs

LEMMA SeqIs ==
    ASSUME NEW s, IsSeq(s)
    PROVE  Len(s) \in Nat /\ DOMAIN s = 1 .. Len(s)
BY DEF IsSeq

LEMMA LeastOf ==
    ASSUME NEW S \in SUBSET Nat, S # {}
    PROVE  Min(S) \in S /\ \A x \in S : Min(S) <= x
BY LeastNumber DEF Min

LEMMA ChainIs ==
    ASSUME NEW i, Chained(i)
    PROVE  /\ Len(i.recs) \in Nat /\ DOMAIN i.recs = 1 .. Len(i.recs)
           /\ \A n, k \in DOMAIN i.recs : k \in NewerIds(i, n) => n < k /\ n \in i.dead /\ i.recs[n].path = i.recs[k].path
           /\ \A n \in DOMAIN i.recs : NewerIds(i, n) # {} => Min(NewerIds(i, n)) \in NewerIds(i, n)
<1>1. Len(i.recs) \in Nat /\ DOMAIN i.recs = 1 .. Len(i.recs)
  BY SeqIs DEF Chained
<1>2. \A n, k \in DOMAIN i.recs : k \in NewerIds(i, n) => n < k /\ n \in i.dead /\ i.recs[n].path = i.recs[k].path
  BY <1>1 DEF Chained, NewerIds
<1>3. \A n \in DOMAIN i.recs : NewerIds(i, n) \in SUBSET Nat
  BY <1>1 DEF NewerIds
<1> QED BY <1>1, <1>2, <1>3, LeastOf

\* What a chain of records leads to.
LEMMA Newest ==
    ASSUME NEW i, Chained(i)
    PROVE  \A n \in DOMAIN i.recs :
              /\ I!Latest(i, n) = IF NewerIds(i, n) = {} THEN n ELSE I!Latest(i, Min(NewerIds(i, n)))
              /\ I!Latest(i, n) \in DOMAIN i.recs
              /\ NewerIds(i, I!Latest(i, n)) = {}
              /\ i.recs[I!Latest(i, n)].path = i.recs[n].path
<1> DEFINE S == DOMAIN i.recs
           done == {n \in S : NewerIds(i, n) = {}}
           result == [n \in S |-> n]
           after == [n \in S |-> Min(NewerIds(i, n))]
           far == [n \in S |-> Len(i.recs) - n]
           l == CHOOSE f : f = [m \in DOMAIN i.recs |->
                    IF {k \in DOMAIN i.recs : i.recs[k].prev = m} = {} THEN m
                    ELSE f[Min({k \in DOMAIN i.recs : i.recs[k].prev = m})]]
<1>1. Len(i.recs) \in Nat /\ S = 1 .. Len(i.recs)
  BY ChainIs
<1>2. \A n \in S \ done : after[n] \in S /\ n < after[n] /\ i.recs[after[n]].path = i.recs[n].path
  <2>1. \A n \in S \ done : Min(NewerIds(i, n)) \in NewerIds(i, n)
    BY ChainIs
  <2>2. \A n \in S \ done : after[n] \in NewerIds(i, n) /\ after[n] \in S
    BY <2>1 DEF NewerIds
  <2> QED BY <2>2, ChainIs
<1>3. Nearer(S, done, after, far)
  <2>1. far \in [S -> Nat] /\ \A n \in S : far[n] = Len(i.recs) - n
    BY <1>1
  <2> HIDE DEF done, after, far
  <2>2. \A n \in S \ done : after[n] \in S /\ far[after[n]] < far[n]
    BY <1>1, <1>2, <2>1
  <2> QED BY <2>1, <2>2 DEF Nearer, done
<1>4. PICK g : Solves(g, S, done, result, after)
  <2> DEFINE N == Len(i.recs) + 1
  <2>1. N \in Nat /\ \A s \in S : far[s] < N
    BY <1>1
  <2> HIDE DEF done, after, far, result, N, S
  <2> QED BY <1>3, <2>1, Solvable
<1>5. Solves(l, S, done, result, after)
  <2>1. \A f : Solves(f, S, done, result, after)
               <=> f = [m \in DOMAIN i.recs |->
                            IF {k \in DOMAIN i.recs : i.recs[k].prev = m} = {} THEN m
                            ELSE f[Min({k \in DOMAIN i.recs : i.recs[k].prev = m})]]
    <3>1. SUFFICES ASSUME NEW f
                   PROVE  [s \in S |-> IF s \in done THEN result[s] ELSE f[after[s]]]
                          = [m \in DOMAIN i.recs |->
                            IF {k \in DOMAIN i.recs : i.recs[k].prev = m} = {} THEN m
                            ELSE f[Min({k \in DOMAIN i.recs : i.recs[k].prev = m})]]
      BY DEF Solves
    <3> QED BY DEF NewerIds
  <2> QED BY <1>4, <2>1
<1>6. \A n \in S : I!Latest(i, n) = l[n]
  BY Zenon DEF I!Latest, I!Min, Min
<1>7. \A n \in S : l[n] = IF NewerIds(i, n) = {} THEN n ELSE l[Min(NewerIds(i, n))]
  <2> HIDE DEF l
  <2> QED BY <1>5 DEF Solves
<1>8. \A n \in S : I!Latest(i, n) = IF NewerIds(i, n) = {} THEN n ELSE I!Latest(i, Min(NewerIds(i, n)))
  <2> HIDE DEF l
  <2> QED BY <1>2, <1>6, <1>7
<1>9. \A n \in S : l[n] \in {m \in done : i.recs[m].path = i.recs[n].path}
  <2> TAKE n \in S
  <2> DEFINE J == {m \in S : i.recs[m].path = i.recs[n].path}
             G == {m \in done : i.recs[m].path = i.recs[n].path}
  <2>1. Stays(J, S, done, result, after, G)
    BY <1>2 DEF Stays
  <2>2. n \in J
    OBVIOUS
  <2> SUFFICES l[n] \in G
    OBVIOUS
  <2> HIDE DEF done, after, far, result, l, J, G, S
  <2> QED BY <1>3, <1>5, <2>1, <2>2, AtTheEnd
<1> HIDE DEF l
<1> QED BY <1>6, <1>8, <1>9

Added(i, j) == DOMAIN j.recs \ DOMAIN i.recs
\* j has the records of i, and others that replace live ones.
Follows(i, j) ==
    /\ DOMAIN i.recs \subseteq DOMAIN j.recs
    /\ \A n \in DOMAIN i.recs : j.recs[n] = i.recs[n]
    /\ \A k \in Added(i, j) :
          /\ \A n \in DOMAIN i.recs : n < k
          /\ j.recs[k].prev # 0 => j.recs[k].prev \in I!Live(i)

LEMMA NewerAfter ==
    ASSUME NEW i, NEW j, Chained(i), Chained(j), Follows(i, j)
    PROVE  /\ \A n \in DOMAIN i.recs : n \notin I!Live(i) => NewerIds(j, n) = NewerIds(i, n)
           /\ \A n \in I!Live(i) : NewerIds(i, n) = {} /\ NewerIds(j, n) \subseteq Added(i, j)
           /\ \A k \in Added(i, j) : NewerIds(j, k) = {}
<1>1. /\ Len(i.recs) \in Nat /\ DOMAIN i.recs = 1 .. Len(i.recs)
      /\ \A k \in DOMAIN i.recs : i.recs[k].prev = 0 \/ (i.recs[k].prev \in DOMAIN i.recs /\ i.recs[k].prev \in i.dead)
  <2>1. Len(i.recs) \in Nat /\ DOMAIN i.recs = 1 .. Len(i.recs)
    BY ChainIs
  <2> QED BY <2>1 DEF Chained
<1>2. \A k \in DOMAIN j.recs : k \notin DOMAIN i.recs => k \in Added(i, j)
  BY DEF Added
<1>3. ASSUME NEW n \in DOMAIN i.recs, n \notin I!Live(i) PROVE NewerIds(j, n) = NewerIds(i, n)
  <2>1. n # 0 /\ \A k \in Added(i, j) : j.recs[k].prev # n
    BY <1>1, <1>3 DEF Follows
  <2> QED BY <1>2, <2>1 DEF NewerIds, Follows
<1>4. ASSUME NEW n \in I!Live(i) PROVE NewerIds(i, n) = {} /\ NewerIds(j, n) \subseteq Added(i, j)
  <2>1. \A k \in DOMAIN i.recs : i.recs[k].prev # n
    BY <1>1, <1>4 DEF I!Live
  <2> QED BY <1>2, <2>1 DEF NewerIds, Follows
<1>5. ASSUME NEW k \in Added(i, j) PROVE NewerIds(j, k) = {}
  <2>1. k \notin DOMAIN i.recs /\ k # 0
    <3>1. DOMAIN j.recs = 1 .. Len(j.recs)
      BY ChainIs
    <3> QED BY <3>1 DEF Added
  <2>2. \A m \in Added(i, j) : j.recs[m].prev # k
    BY <2>1 DEF Follows, I!Live
  <2>3. \A m \in DOMAIN i.recs : j.recs[m].prev # k
    BY <1>1, <2>1 DEF Follows
  <2> QED BY <1>2, <2>2, <2>3 DEF NewerIds
<1> QED BY <1>3, <1>4, <1>5

\* An older id leads on from where it led.
LEMMA Onward ==
    ASSUME NEW i, NEW j, Chained(i), Chained(j), Follows(i, j)
    PROVE  \A n \in DOMAIN i.recs : I!Latest(j, n) = I!Latest(j, I!Latest(i, n))
<1> DEFINE Bad == {n \in DOMAIN i.recs : I!Latest(j, n) # I!Latest(j, I!Latest(i, n))}
           T == {Len(i.recs) - n : n \in Bad}
<1>1. Len(i.recs) \in Nat /\ DOMAIN i.recs = 1 .. Len(i.recs) /\ DOMAIN i.recs \subseteq DOMAIN j.recs
  BY ChainIs DEF Follows
<1>2. SUFFICES ASSUME Bad # {} PROVE FALSE
  OBVIOUS
<1>3. T \in SUBSET Nat /\ T # {}
  <2>1. \A n \in DOMAIN i.recs : Len(i.recs) - n \in Nat
    BY <1>1
  <2>2. \A n \in Bad : n \in DOMAIN i.recs
    OBVIOUS
  <2> HIDE DEF Bad
  <2> QED BY <1>2, <2>1, <2>2
<1>4. PICK d \in T : \A e \in T : d <= e
  BY <1>3, LeastNumber
<1>5. PICK n \in Bad : d = Len(i.recs) - n
  BY <1>4
<1>6. n \in DOMAIN i.recs /\ I!Latest(j, n) # I!Latest(j, I!Latest(i, n))
  BY <1>5
<1>7. NewerIds(i, n) # {}
  BY <1>6, Newest
<1> DEFINE k == Min(NewerIds(i, n))
<1>8. k \in DOMAIN i.recs /\ n < k /\ n \notin I!Live(i)
  <2>1. k \in NewerIds(i, n)
    BY <1>6, <1>7, ChainIs
  <2> QED BY <1>6, <2>1, ChainIs DEF NewerIds, I!Live
<1>9. NewerIds(j, n) = NewerIds(i, n)
  BY <1>6, <1>8, NewerAfter
<1>10. I!Latest(i, n) = I!Latest(i, k) /\ I!Latest(j, n) = I!Latest(j, k)
  BY <1>1, <1>6, <1>7, <1>9, Newest
<1>11. k \in Bad
  BY <1>6, <1>8, <1>10
<1>12. Len(i.recs) - k \in T
  BY <1>11
<1> HIDE DEF k, T, Bad
<1> QED BY <1>1, <1>4, <1>5, <1>6, <1>8, <1>12

LEMMA LeadsTo ==
    ASSUME NEW i, NEW j, Chained(i), Chained(j), Follows(i, j), NEW n \in DOMAIN i.recs
    PROVE  LET m == I!Latest(i, n) IN
           /\ m \in I!Live(i) /\ NewerIds(j, m) # {} => I!Latest(j, n) \in NewerIds(j, m)
           /\ m \notin I!Live(i) \/ NewerIds(j, m) = {} => I!Latest(j, n) = m
<1> DEFINE m == I!Latest(i, n)
<1>1. m \in DOMAIN i.recs /\ m \in DOMAIN j.recs /\ NewerIds(i, m) = {} /\ I!Latest(j, n) = I!Latest(j, m)
  BY Newest, Onward DEF Follows
<1>2. I!Latest(j, m) = IF NewerIds(j, m) = {} THEN m ELSE I!Latest(j, Min(NewerIds(j, m)))
  BY <1>1, Newest
<1>3. ASSUME m \in I!Live(i), NewerIds(j, m) # {} PROVE I!Latest(j, n) \in NewerIds(j, m)
  <2> DEFINE k == Min(NewerIds(j, m))
  <2>1. k \in NewerIds(j, m)
    BY <1>1, <1>3, ChainIs
  <2>2. k \in DOMAIN j.recs /\ k \in Added(i, j) /\ NewerIds(j, k) = {}
    BY <1>3, <2>1, NewerAfter DEF Added
  <2>3. I!Latest(j, k) = k
    BY <2>2, Newest
  <2> HIDE DEF k, m
  <2>4. I!Latest(j, n) = I!Latest(j, k)
    BY <1>1, <1>2, <1>3 DEF k
  <2> QED BY <2>1, <2>3, <2>4
<1>4. ASSUME m \notin I!Live(i) \/ NewerIds(j, m) = {} PROVE I!Latest(j, n) = m
  <2>1. NewerIds(j, m) = {}
    BY <1>1, <1>4, NewerAfter
  <2> QED BY <1>1, <1>2, <2>1
<1> QED BY <1>3, <1>4

-----------------------------------------------------------------------------
(* Impact: what a delta and a build number.                                 *)

LEMMA InAscent ==
    ASSUME NEW S \in SUBSET Nat, IsFiniteSet(S)
    PROVE  LET o == I!Ascending(S) IN
           /\ Cardinality(S) \in Nat
           /\ DOMAIN o = 1 .. Cardinality(S) /\ o \in Seq(S)
           /\ Len(o) = Cardinality(S)
           /\ \A n \in DOMAIN o : o[n] \in S
           /\ \A p \in S : \E n \in DOMAIN o : o[n] = p
           /\ \A m, n \in DOMAIN o : o[m] = o[n] => m = n
<1> DEFINE r == {w \in S \X S : w[1] < w[2]}
           o == [n \in 1 .. Cardinality(S) |-> CHOOSE p \in S : Cardinality({q \in S : q < p}) = n - 1]
           below(p) == {q \in S : q < p}
<1>1. Orders(r, S)
  BY DEF Orders
<1>2. \A p \in S : Under(r, S, p) = below(p)
  BY DEF Under
<1>3. Cardinality(S) \in Nat
  BY FS_CardinalityType
<1>4. /\ \A x, y \in S : Cardinality(below(x)) = Cardinality(below(y)) => x = y
      /\ \A k \in 1 .. Cardinality(S) : \E x \in S : Cardinality(below(x)) = k - 1
  <2>1. Numbered(r, S)
    BY <1>1, Ranks
  <2> HIDE DEF r, below
  <2> QED BY <1>2, <2>1 DEF Numbered
<1>5. \A n \in 1 .. Cardinality(S) : o[n] \in S /\ Cardinality(below(o[n])) = n - 1
  BY <1>4
<1>6. \A p \in S : Cardinality(below(p)) + 1 \in 1 .. Cardinality(S)
  <2>1. TAKE p \in S
  <2>2. IsFiniteSet(below(p)) /\ Cardinality(below(p)) <= Cardinality(S)
        /\ (Cardinality(below(p)) = Cardinality(S) => S = below(p))
    BY FS_Subset
  <2>3. p \notin below(p)
    OBVIOUS
  <2>4. Cardinality(below(p)) \in Nat /\ Cardinality(below(p)) # Cardinality(S)
    BY <2>2, <2>3, FS_CardinalityType
  <2> HIDE DEF below
  <2> QED BY <1>3, <2>2, <2>4
<1>7. \A p \in S : \E n \in 1 .. Cardinality(S) : o[n] = p
  <2>1. TAKE p \in S
  <2> DEFINE n == Cardinality(below(p)) + 1
  <2>2. n \in 1 .. Cardinality(S)
    BY <1>6
  <2>3. Cardinality(below(p)) \in Nat
    BY FS_Subset, FS_CardinalityType
  <2>4. n - 1 = Cardinality(below(p))
    BY <2>3
  <2> HIDE DEF n, o, below
  <2>5. o[n] = p
    BY <1>4, <1>5, <2>2, <2>4
  <2> QED BY <2>2, <2>5
<1>8. \A m, n \in 1 .. Cardinality(S) : o[m] = o[n] => m = n
  <2> HIDE DEF o, below
  <2>1. \A m, n \in 1 .. Cardinality(S) : o[m] = o[n] => m - 1 = n - 1
    BY <1>5
  <2> QED BY <1>3, <2>1
<1>9. I!Ascending(S) = o
  BY Zenon DEF I!Ascending, I!Cardinality, Cardinality
<1>10. DOMAIN o = 1 .. Cardinality(S)
  OBVIOUS
<1>11. o \in Seq(S) /\ Len(o) = Cardinality(S)
  <2> DEFINE c == Cardinality(S)
  <2>1. o \in [1 .. c -> S]
    BY <1>5
  <2> HIDE DEF o, c
  <2>2. o \in Seq(S) /\ Len(o) = c
    BY <1>3, <2>1 DEF c
  <2> QED BY <2>2 DEF c
<1> HIDE DEF o
<1> QED BY <1>3, <1>5, <1>7, <1>8, <1>9, <1>10, <1>11

LEMMA IdIs ==
    ASSUME NEW i, Chained(i), NEW p
    PROVE  /\ I!Id(i, p) = I!NoId => \A n \in I!Live(i) : i.recs[n].path # p
           /\ I!Id(i, p) # I!NoId => I!Id(i, p) \in I!Live(i) /\ i.recs[I!Id(i, p)].path = p
           /\ \A n \in I!Live(i) : i.recs[n].path = p => I!Id(i, p) # I!NoId
<1> DEFINE S == {n \in I!Live(i) : i.recs[n].path = p}
<1>1. S \in SUBSET Nat /\ 0 \notin S
  <2>1. DOMAIN i.recs = 1 .. Len(i.recs)
    BY ChainIs
  <2> QED BY <2>1 DEF I!Live
<1>2. I!Id(i, p) = IF S = {} THEN 0 ELSE Min(S)
  BY Zenon DEF I!Id, I!NoId, I!Min, Min
<1>3. S # {} => Min(S) \in S
  BY <1>1, LeastOf
<1> QED BY <1>1, <1>2, <1>3 DEF I!NoId

\* What stands for path q in a delta: its new record, or the one it has.
StandsFor(i, t, j, q, m) ==
    IF q \in I!Stale(i, t) THEN m \in Added(i, j) /\ j.recs[m].path = q ELSE m = I!Id(i, q)
\* j is what a delta makes of i and the tree t.
Extended(i, t, j) ==
    /\ IsSeq(j.recs)
    /\ DOMAIN i.recs \subseteq DOMAIN j.recs
    /\ \A n \in DOMAIN i.recs : j.recs[n] = i.recs[n] /\ \A k \in Added(i, j) : n < k
    /\ \A k \in Added(i, j) :
          /\ j.recs[k].path \in I!Stale(i, t)
          /\ j.recs[k].has = t[j.recs[k].path]
          /\ j.recs[k].prev = I!Id(i, j.recs[k].path)
          /\ \A m \in j.recs[k].targets : \E q \in t[j.recs[k].path].imports \cap DOMAIN t : StandsFor(i, t, j, q, m)
          /\ \A q \in t[j.recs[k].path].imports \cap DOMAIN t : \E m \in j.recs[k].targets : StandsFor(i, t, j, q, m)
    /\ \A p \in I!Stale(i, t) : \E k \in Added(i, j) : j.recs[k].path = p
    /\ \A k, m \in Added(i, j) : j.recs[k].path = j.recs[m].path => k = m
    /\ j.dead = i.dead \cup {n \in I!Live(i) : i.recs[n].path \in I!Stale(i, t) \/ i.recs[n].path \notin DOMAIN t}

LEMMA PathsFinite == Paths \in SUBSET Nat /\ IsFiniteSet(Paths) /\ \A t \in Trees : DOMAIN t \subseteq Paths
<1>1. I!IsFiniteSet(Paths)
  BY ImpactAssumption DEF I!Assumption
<1>2. IsFiniteSet(Paths)
  BY <1>1, Zenon DEF I!IsFiniteSet, IsFiniteSet
<1> QED BY <1>2, ImpactAssumption DEF I!Assumption

LEMMA DeltaExtends ==
    ASSUME NEW i, Chained(i), NEW t, DOMAIN t \subseteq Paths
    PROVE  Extended(i, t, I!Delta(i, t))
<1> DEFINE S == I!Stale(i, t)
           o == I!Ascending(S)
           len == Len(i.recs)
           c == Cardinality(S)
           placed(p) == CHOOSE n \in DOMAIN o : o[n] = p
           IdOf(p) == IF p \in S THEN len + placed(p) ELSE I!Id(i, p)
           rec(p) == [path |-> p, has |-> t[p], targets |-> {IdOf(q) : q \in t[p].imports \cap DOMAIN t},
                      prev |-> I!Id(i, p)]
           fresh == [n \in DOMAIN o |-> rec(o[n])]
           dead == i.dead \cup {n \in I!Live(i) : i.recs[n].path \in S \/ i.recs[n].path \notin DOMAIN t}
           j == [recs |-> i.recs \o fresh, dead |-> dead]
<1>1. S \in SUBSET Nat /\ IsFiniteSet(S) /\ S \subseteq DOMAIN t
  <2>1. S \subseteq DOMAIN t
    BY DEF I!Stale
  <2>2. Paths \in SUBSET Nat /\ IsFiniteSet(Paths)
    BY PathsFinite
  <2> QED BY <2>1, <2>2, FS_Subset
<1>2. /\ c \in Nat /\ DOMAIN o = 1 .. c /\ o \in Seq(S) /\ Len(o) = c
      /\ \A n \in DOMAIN o : o[n] \in S
      /\ \A p \in S : \E n \in DOMAIN o : o[n] = p
      /\ \A m, n \in DOMAIN o : o[m] = o[n] => m = n
  BY <1>1, InAscent
<1>3. \A p \in S : placed(p) \in DOMAIN o /\ o[placed(p)] = p
  BY <1>2
<1>4. I!Delta(i, t) = j
  BY Zenon DEF I!Delta, I!Rec, I!Targets
<1>5. len \in Nat /\ DOMAIN i.recs = 1 .. len /\ IsSeq(i.recs)
  BY ChainIs DEF Chained
<1> DEFINE A == {i.recs[n] : n \in DOMAIN i.recs}
           B == {rec(p) : p \in S}
<1>6. i.recs \in Seq(A \cup B) /\ fresh \in Seq(A \cup B) /\ Len(fresh) = c /\ DOMAIN fresh = 1 .. c
  <2>1. i.recs \in [1 .. len -> A \cup B]
    BY <1>5 DEF IsSeq
  <2>2. fresh \in [1 .. c -> A \cup B]
    <3>1. \A n \in DOMAIN o : rec(o[n]) \in B
      <4> HIDE DEF rec, o, c, S
      <4> QED BY <1>2
    <3>2. fresh = [n \in 1 .. c |-> rec(o[n])]
      BY <1>2
    <3> HIDE DEF rec, o, c, A, B, fresh
    <3> QED BY <1>2, <3>1, <3>2
  <2> HIDE DEF A, B, fresh, len, c
  <2> QED BY <1>2, <1>5, <2>1, <2>2
<1>7. /\ j.recs \in Seq(A \cup B) /\ Len(j.recs) = len + c /\ DOMAIN j.recs = 1 .. len + c
      /\ \A n \in 1 .. len : j.recs[n] = i.recs[n]
      /\ \A n \in 1 .. c : j.recs[len + n] = fresh[n]
  <2> DEFINE R == i.recs
  <2>1. j.recs = R \o fresh
    OBVIOUS
  <2> HIDE DEF A, B, fresh, c, j
  <2>2. R \o fresh \in Seq(A \cup B) /\ Len(R \o fresh) = len + c /\ DOMAIN (R \o fresh) = 1 .. len + c
    BY <1>2, <1>5, <1>6
  <2>3. \A n \in 1 .. len : (R \o fresh)[n] = R[n]
    BY <1>2, <1>5, <1>6
  <2>4. \A n \in 1 .. c : (R \o fresh)[len + n] = fresh[n]
    BY <1>2, <1>5, <1>6
  <2> QED BY <2>1, <2>2, <2>3, <2>4
<1>8. Added(i, j) = len + 1 .. len + c
  <2> HIDE DEF j, c, len
  <2> QED BY <1>2, <1>5, <1>7 DEF Added
<1>9. \A k \in Added(i, j) : k - len \in DOMAIN o /\ j.recs[k] = rec(o[k - len])
  <2>1. \A n \in 1 .. c : j.recs[len + n] = rec(o[n])
    BY <1>2, <1>7
  <2> HIDE DEF j, c, len, o, rec
  <2>2. \A k \in Added(i, j) : k - len \in 1 .. c /\ len + (k - len) = k
    BY <1>2, <1>5, <1>8
  <2> QED BY <1>2, <2>1, <2>2
<1>10. \A k \in Added(i, j) : j.recs[k].path = o[k - len] /\ o[k - len] \in S /\ j.recs[k] = rec(j.recs[k].path)
  <2>1. \A p : rec(p).path = p
    OBVIOUS
  <2> HIDE DEF j, c, len, o, rec
  <2> QED BY <1>2, <1>9, <2>1
<1>11. \A p \in S : len + placed(p) \in Added(i, j) /\ j.recs[len + placed(p)].path = p
  <2> TAKE p \in S
  <2>1. placed(p) \in 1 .. c /\ o[placed(p)] = p
    BY <1>2, <1>3
  <2>2. len + placed(p) \in Added(i, j) /\ (len + placed(p)) - len = placed(p)
    BY <1>2, <1>5, <1>8, <2>1
  <2> HIDE DEF j, c, len, o, placed
  <2> QED BY <1>10, <2>1, <2>2
<1>12. \A k, m \in Added(i, j) : j.recs[k].path = j.recs[m].path => k = m
  <2> HIDE DEF j, c, len, o
  <2>1. ASSUME NEW k \in Added(i, j), NEW m \in Added(i, j), j.recs[k].path = j.recs[m].path PROVE k - len = m - len
    <3>1. k - len \in DOMAIN o /\ m - len \in DOMAIN o /\ o[k - len] = o[m - len]
      BY <1>9, <1>10, <2>1
    <3> QED BY <1>2, <3>1
  <2>2. \A k \in Added(i, j) : k \in Int
    BY <1>2, <1>5, <1>8
  <2> QED BY <1>5, <2>1, <2>2
<1>13. \A q \in DOMAIN t : StandsFor(i, t, j, q, IdOf(q))
  BY <1>11 DEF StandsFor
<1>14. \A k \in Added(i, j) :
          /\ j.recs[k].has = t[j.recs[k].path]
          /\ j.recs[k].prev = I!Id(i, j.recs[k].path)
          /\ j.recs[k].targets = {IdOf(q) : q \in t[j.recs[k].path].imports \cap DOMAIN t}
  <2>1. \A p : /\ rec(p).has = t[p] /\ rec(p).prev = I!Id(i, p)
               /\ rec(p).targets = {IdOf(q) : q \in t[p].imports \cap DOMAIN t}
    OBVIOUS
  <2> HIDE DEF j, rec, IdOf
  <2> QED BY <1>10, <2>1
<1>15. \A n \in DOMAIN i.recs, k \in Added(i, j) : n < k
  <2> HIDE DEF j, c, len
  <2> QED BY <1>2, <1>5, <1>8
<1>16. IsSeq(j.recs)
  <2> HIDE DEF j, A, B
  <2>1. j.recs \in [1 .. Len(j.recs) -> {j.recs[n] : n \in DOMAIN j.recs}] /\ Len(j.recs) \in Nat
    BY <1>7
  <2> QED BY <2>1 DEF IsSeq
<1>17. DOMAIN i.recs \subseteq DOMAIN j.recs
  <2> HIDE DEF j, c, len
  <2> QED BY <1>2, <1>5, <1>7
<1>18. \A k \in Added(i, j) :
          /\ \A m \in j.recs[k].targets : \E q \in t[j.recs[k].path].imports \cap DOMAIN t : StandsFor(i, t, j, q, m)
          /\ \A q \in t[j.recs[k].path].imports \cap DOMAIN t : \E m \in j.recs[k].targets : StandsFor(i, t, j, q, m)
  <2> HIDE DEF j, IdOf
  <2> QED BY <1>13, <1>14
<1>19. j.dead = dead
  OBVIOUS
<1> HIDE DEF j, c, len, o, placed, IdOf, rec, fresh, A, B
<1>20. Extended(i, t, j)
  BY <1>5, <1>7, <1>10, <1>11, <1>12, <1>14, <1>15, <1>16, <1>17, <1>18, <1>19 DEF Extended
<1> QED BY <1>4, <1>20

\* A file whose publication is not stale is as the tree has it.
LEMMA NotStale ==
    ASSUME NEW i, Chained(i), OneLive(i), NEW t, NEW n \in I!Live(i),
           i.recs[n].path \in DOMAIN t, i.recs[n].path \notin I!Stale(i, t)
    PROVE  /\ I!Id(i, i.recs[n].path) = n
           /\ i.recs[n].has = t[i.recs[n].path]
           /\ I!PathsOf(i, I!OutEdges(i, n)) = t[i.recs[n].path].imports \cap DOMAIN t
<1> DEFINE p == i.recs[n].path
<1>1. I!Id(i, p) # I!NoId /\ I!Id(i, p) = n
  BY IdIs DEF OneLive
<1> QED BY <1>1 DEF I!Stale

LEMMA DeltaChained ==
    ASSUME NEW i, Published(i), NEW t, NEW j, Extended(i, t, j)
    PROVE  Chained(j) /\ Follows(i, j)
<1>1. Chained(i) /\ Len(i.recs) \in Nat /\ DOMAIN i.recs = 1 .. Len(i.recs)
  BY ChainIs DEF Published
<1>2. Len(j.recs) \in Nat /\ DOMAIN j.recs = 1 .. Len(j.recs)
  BY SeqIs DEF Extended
<1>3. j.dead \subseteq DOMAIN j.recs /\ i.dead \subseteq j.dead
  BY <1>1 DEF Extended, Chained, I!Live
<1>4. ASSUME NEW k \in Added(i, j)
      PROVE  LET b == j.recs[k].prev IN
             /\ b \in Nat
             /\ b # 0 => /\ b \in I!Live(i) /\ b < k /\ b \in j.dead /\ j.recs[b].path = j.recs[k].path
  <2> DEFINE b == j.recs[k].prev
             p == j.recs[k].path
  <2>1. b = I!Id(i, p) /\ p \in I!Stale(i, t) /\ I!NoId = 0
    BY <1>4 DEF Extended, I!NoId
  <2>2. b # 0 => b \in I!Live(i) /\ i.recs[b].path = p
    BY <1>1, <2>1, IdIs
  <2>3. b # 0 => b \in DOMAIN i.recs /\ j.recs[b] = i.recs[b] /\ b < k
    BY <2>2, <1>4 DEF Extended, I!Live
  <2>4. b # 0 => b \in j.dead
    BY <2>1, <2>2 DEF Extended
  <2> HIDE DEF b, p
  <2>5. b \in Nat
    BY <1>1, <2>3
  <2> QED BY <2>2, <2>3, <2>4, <2>5 DEF b, p
<1>5. ASSUME NEW k \in DOMAIN i.recs
      PROVE  LET b == j.recs[k].prev IN
             /\ b \in Nat
             /\ b # 0 => b < k /\ b \in j.dead /\ j.recs[b].path = j.recs[k].path
  <2>1. j.recs[k] = i.recs[k]
    BY <1>5 DEF Extended
  <2> DEFINE b == i.recs[k].prev
  <2>2. b \in Nat /\ (b # 0 => b < k /\ b \in i.dead /\ i.recs[b].path = i.recs[k].path)
    BY <1>1, <1>5 DEF Chained
  <2>3. b # 0 => b \in DOMAIN i.recs /\ j.recs[b] = i.recs[b]
    BY <1>1, <2>2 DEF Extended, Chained
  <2> QED BY <1>3, <2>1, <2>2, <2>3
<1>6. \A k \in DOMAIN j.recs : k \in Added(i, j) \/ k \in DOMAIN i.recs
  BY DEF Added
<1>7. IsSeq(j.recs)
  BY DEF Extended
<1>8. Chained(j)
  BY <1>3, <1>4, <1>5, <1>6, <1>7 DEF Chained
<1>9. Follows(i, j)
  BY <1>4 DEF Extended, Follows
<1> QED BY <1>8, <1>9

\* What lives on is unchanged, and what is new is of the tree.
LEMMA DeltaLive ==
    ASSUME NEW i, Published(i), NEW t, NEW j, Extended(i, t, j)
    PROVE  /\ Added(i, j) \subseteq I!Live(j)
           /\ \A n \in I!Live(j) : n \notin Added(i, j) =>
                 n \in I!Live(i) /\ i.recs[n].path \notin I!Stale(i, t) /\ i.recs[n].path \in DOMAIN t /\ j.recs[n] = i.recs[n]
           /\ \A n \in I!Live(i) : i.recs[n].path \notin I!Stale(i, t) /\ i.recs[n].path \in DOMAIN t =>
                 n \in I!Live(j) /\ j.recs[n] = i.recs[n]
           /\ OneLive(j)
           /\ I!PathsOf(j, I!Live(j)) = DOMAIN t
<1>1. Chained(i) /\ OneLive(i) /\ Chained(j) /\ Follows(i, j)
  BY DeltaChained DEF Published
<1>2. Added(i, j) \subseteq I!Live(j)
  BY <1>1 DEF Added, I!Live, Extended, Chained
<1>3. \A n \in I!Live(j) : n \notin Added(i, j) =>
                 n \in I!Live(i) /\ i.recs[n].path \notin I!Stale(i, t) /\ i.recs[n].path \in DOMAIN t /\ j.recs[n] = i.recs[n]
  BY DEF Added, I!Live, Extended
<1>4. \A n \in I!Live(i) : i.recs[n].path \notin I!Stale(i, t) /\ i.recs[n].path \in DOMAIN t =>
                 n \in I!Live(j) /\ j.recs[n] = i.recs[n]
  BY DEF I!Live, Extended
<1>5. OneLive(j)
  <2>1. SUFFICES ASSUME NEW m \in I!Live(j), NEW n \in I!Live(j), j.recs[m].path = j.recs[n].path PROVE m = n
    BY DEF OneLive
  <2>2. CASE m \in Added(i, j) /\ n \in Added(i, j)
    BY <2>1, <2>2 DEF Extended
  <2>3. CASE m \in Added(i, j) /\ n \notin Added(i, j)
    BY <1>3, <2>1, <2>3 DEF Extended
  <2>4. CASE m \notin Added(i, j) /\ n \in Added(i, j)
    BY <1>3, <2>1, <2>4 DEF Extended
  <2>5. CASE m \notin Added(i, j) /\ n \notin Added(i, j)
    BY <1>1, <1>3, <2>1, <2>5 DEF OneLive
  <2> QED BY <2>2, <2>3, <2>4, <2>5
<1>6. ASSUME NEW p \in DOMAIN t PROVE \E n \in I!Live(j) : j.recs[n].path = p
  <2>1. CASE p \in I!Stale(i, t)
    BY <1>2, <2>1 DEF Extended
  <2>2. CASE p \notin I!Stale(i, t)
    <3>1. I!Id(i, p) # I!NoId
      BY <2>2 DEF I!Stale
    <3>2. I!Id(i, p) \in I!Live(i) /\ i.recs[I!Id(i, p)].path = p
      BY <1>1, <3>1, IdIs
    <3> QED BY <1>4, <2>2, <3>2
  <2> QED BY <2>1, <2>2
<1>7. \A n \in I!Live(j) : j.recs[n].path \in DOMAIN t
  <2>1. \A n \in Added(i, j) : j.recs[n].path \in DOMAIN t
    BY DEF Extended, I!Stale
  <2> QED BY <1>3, <2>1
<1>8. I!PathsOf(j, I!Live(j)) = DOMAIN t
  BY <1>6, <1>7 DEF I!PathsOf
<1> QED BY <1>2, <1>3, <1>4, <1>5, <1>8

\* A path of the tree stands in the new publication, by any id that leads to it.
LEMMA StandsLive ==
    ASSUME NEW i, Published(i), NEW t, NEW j, Extended(i, t, j),
           NEW q \in DOMAIN t, NEW m, StandsFor(i, t, j, q, m)
    PROVE  m \in I!Live(j) /\ j.recs[m].path = q /\ I!Latest(j, m) = m
<1>1. Chained(i) /\ OneLive(i) /\ Chained(j) /\ Follows(i, j)
  BY DeltaChained DEF Published
<1>2. CASE q \in I!Stale(i, t)
  <2>1. m \in Added(i, j) /\ j.recs[m].path = q
    BY <1>2 DEF StandsFor
  <2>2. m \in I!Live(j) /\ m \in DOMAIN j.recs /\ NewerIds(j, m) = {}
    BY <1>1, <2>1, DeltaLive, NewerAfter DEF I!Live
  <2> QED BY <1>1, <2>1, <2>2, Newest
<1>3. CASE q \notin I!Stale(i, t)
  <2>1. m = I!Id(i, q) /\ I!Id(i, q) # I!NoId
    BY <1>3 DEF StandsFor, I!Stale
  <2>2. m \in I!Live(i) /\ i.recs[m].path = q
    BY <1>1, <2>1, IdIs
  <2>3. m \in I!Live(j) /\ j.recs[m] = i.recs[m]
    BY <1>3, <2>2, DeltaLive
  <2>4. NewerIds(j, m) = {}
    <3>1. SUFFICES ASSUME NEW k \in NewerIds(j, m) PROVE FALSE
      OBVIOUS
    <3>2. m \in j.dead
      BY <1>1, <3>1, ChainIs, <2>3 DEF I!Live, NewerIds
    <3> QED BY <2>3, <3>2 DEF I!Live
  <2>5. m \in DOMAIN j.recs
    BY <2>3 DEF I!Live
  <2> QED BY <1>1, <2>2, <2>3, <2>4, <2>5, Newest
<1> QED BY <1>2, <1>3

\* A record that was not rewritten leads to the same paths as before.
LEMMA LinksStay ==
    ASSUME NEW i, Published(i), NEW t, NEW j, Extended(i, t, j),
           NEW n \in I!Live(j), n \notin Added(i, j)
    PROVE  I!PathsOf(j, I!OutEdges(j, n)) = j.recs[n].has.imports \cap DOMAIN t
<1> DEFINE p == i.recs[n].path
           wanted == t[p].imports \cap DOMAIN t
<1>1. Chained(i) /\ OneLive(i) /\ Targeted(i) /\ Chained(j) /\ Follows(i, j)
  BY DeltaChained DEF Published
<1>2. n \in I!Live(i) /\ n \in DOMAIN i.recs /\ p \notin I!Stale(i, t) /\ p \in DOMAIN t /\ j.recs[n] = i.recs[n]
  <2>1. n \in I!Live(i)
    BY DeltaLive
  <2>2. n \in DOMAIN i.recs
    BY <2>1 DEF I!Live
  <2> QED BY <2>1, <2>2, DeltaLive
<1>3. i.recs[n].has = t[p] /\ I!PathsOf(i, I!OutEdges(i, n)) = wanted
  BY <1>1, <1>2, NotStale
<1>4. ASSUME NEW g \in i.recs[n].targets, I!Latest(j, g) \in I!Live(j)
      PROVE  j.recs[I!Latest(j, g)].path \in wanted
  <2> DEFINE m == I!Latest(i, g)
  <2>1. g \in DOMAIN i.recs /\ g \in DOMAIN j.recs /\ j.recs[g] = i.recs[g]
    BY <1>1, <1>2, <1>4 DEF Targeted, Follows
  <2>2. m \in DOMAIN i.recs /\ i.recs[m].path = i.recs[g].path
    BY <1>1, <2>1, Newest
  <2>3. m \in I!Live(i)
    <3>1. SUFFICES ASSUME m \notin I!Live(i) PROVE FALSE
      OBVIOUS
    <3>2. I!Latest(j, g) = m
      BY <1>1, <2>1, <3>1, LeadsTo
    <3>3. m \in i.dead
      BY <2>2, <3>1 DEF I!Live
    <3>4. m \in j.dead
      BY <3>3 DEF Extended
    <3> QED BY <1>4, <3>2, <3>4 DEF I!Live
  <2>4. i.recs[m].path \in wanted
    <3>1. m \in I!OutEdges(i, n)
      BY <1>4, <2>3 DEF I!OutEdges
    <3>2. i.recs[m].path \in I!PathsOf(i, I!OutEdges(i, n))
      BY <3>1 DEF I!PathsOf
    <3> QED BY <1>3, <3>2
  <2>5. j.recs[I!Latest(j, g)].path = j.recs[g].path
    BY <1>1, <2>1, Newest
  <2> QED BY <2>1, <2>2, <2>4, <2>5
<1>5. ASSUME NEW q \in wanted
      PROVE  \E g \in i.recs[n].targets : I!Latest(j, g) \in I!Live(j) /\ j.recs[I!Latest(j, g)].path = q
  <2>1. q \in I!PathsOf(i, I!OutEdges(i, n))
    BY <1>3, <1>5
  <2>2. PICK g \in i.recs[n].targets : I!Latest(i, g) \in I!Live(i) /\ i.recs[I!Latest(i, g)].path = q
    BY <2>1 DEF I!PathsOf, I!OutEdges
  <2> DEFINE m == I!Latest(i, g)
  <2>3. g \in DOMAIN i.recs /\ q \in DOMAIN t
    BY <1>1, <1>2, <1>5, <2>2 DEF Targeted
  <2>4. CASE q \in I!Stale(i, t)
    <3>1. PICK k \in Added(i, j) : j.recs[k].path = q
      BY <2>4 DEF Extended
    <3>2. m = I!Id(i, q)
      <4>1. I!Id(i, q) # I!NoId /\ I!Id(i, q) \in I!Live(i) /\ i.recs[I!Id(i, q)].path = q
        BY <1>1, <2>2, IdIs
      <4> QED BY <1>1, <2>2, <4>1 DEF OneLive
    <3>3. k \in NewerIds(j, m)
      BY <3>1, <3>2 DEF Extended, NewerIds, Added
    <3>4. I!Latest(j, g) \in NewerIds(j, m)
      BY <1>1, <2>2, <2>3, <3>3, LeadsTo
    <3> HIDE DEF m
    <3>5. I!Latest(j, g) \in Added(i, j) /\ j.recs[I!Latest(j, g)].path = q
      <4>1. I!Latest(j, g) \in Added(i, j)
        BY <1>1, <2>2, <3>4, NewerAfter DEF m
      <4>2. j.recs[I!Latest(j, g)].prev = I!Id(i, q)
        BY <3>2, <3>4 DEF NewerIds
      <4>3. j.recs[I!Latest(j, g)].prev = I!Id(i, j.recs[I!Latest(j, g)].path)
        BY <4>1 DEF Extended
      <4> DEFINE x == j.recs[I!Latest(j, g)].path
      <4>4. I!Id(i, x) = m /\ m # I!NoId
        <5>1. m # 0
          <6>1. m \in DOMAIN i.recs /\ DOMAIN i.recs = 1 .. Len(i.recs)
            BY <1>1, <2>2, ChainIs DEF I!Live, m
          <6> QED BY <6>1
        <5> QED BY <3>2, <4>2, <4>3, <5>1 DEF I!NoId
      <4>5. i.recs[I!Id(i, x)].path = x
        BY <1>1, <4>4, IdIs
      <4> QED BY <2>2, <4>1, <4>4, <4>5 DEF m
    <3> QED BY <2>2, <3>5, DeltaLive
  <2>5. CASE q \notin I!Stale(i, t)
    <3>1. m \in I!Live(i) /\ i.recs[m].path = q
      BY <2>2
    <3>2. m \in I!Live(j) /\ j.recs[m] = i.recs[m]
      BY <2>3, <2>5, <3>1, DeltaLive
    <3>3. NewerIds(j, m) = {}
      <4>1. SUFFICES ASSUME NEW k \in NewerIds(j, m) PROVE FALSE
        OBVIOUS
      <4>2. m \in j.dead
        BY <1>1, <4>1, ChainIs, <3>2 DEF I!Live, NewerIds
      <4> QED BY <3>2, <4>2 DEF I!Live
    <3>4. I!Latest(j, g) = m
      BY <1>1, <2>3, <3>3, LeadsTo
    <3> QED BY <2>2, <3>1, <3>2, <3>4
  <2> QED BY <2>4, <2>5
<1>6. I!PathsOf(j, I!OutEdges(j, n)) = wanted
  <2>1. j.recs[n].targets = i.recs[n].targets
    BY <1>2
  <2> HIDE DEF wanted
  <2>2. \A x \in I!PathsOf(j, I!OutEdges(j, n)) : x \in wanted
    BY <1>4, <2>1 DEF I!PathsOf, I!OutEdges
  <2>3. \A x \in wanted : x \in I!PathsOf(j, I!OutEdges(j, n))
    BY <1>5, <2>1 DEF I!PathsOf, I!OutEdges
  <2> QED BY <2>2, <2>3
<1> QED BY <1>2, <1>3, <1>6

LEMMA DeltaPublished ==
    ASSUME NEW i, Published(i), NEW t, NEW j, Extended(i, t, j)
    PROVE  Published(j)
<1>1. Chained(i) /\ Targeted(i) /\ Chained(j) /\ Follows(i, j)
  BY DeltaChained DEF Published
<1>2. OneLive(j) /\ I!PathsOf(j, I!Live(j)) = DOMAIN t
  BY DeltaLive
<1>3. Targeted(j)
  <2>1. ASSUME NEW k \in Added(i, j), NEW m \in j.recs[k].targets PROVE m \in DOMAIN j.recs
    <3>1. PICK q \in t[j.recs[k].path].imports \cap DOMAIN t : StandsFor(i, t, j, q, m)
      BY <2>1 DEF Extended
    <3>2. m \in I!Live(j)
      BY <3>1, StandsLive
    <3> QED BY <3>2 DEF I!Live
  <2>2. \A n \in DOMAIN i.recs : j.recs[n].targets \subseteq DOMAIN j.recs
    BY <1>1 DEF Targeted, Follows
  <2> QED BY <2>1, <2>2 DEF Targeted, Added
<1>4. ASSUME NEW n \in Added(i, j)
      PROVE  I!PathsOf(j, I!OutEdges(j, n)) = j.recs[n].has.imports \cap DOMAIN t
  <2> DEFINE wanted == t[j.recs[n].path].imports \cap DOMAIN t
  <2>1. /\ j.recs[n].has = t[j.recs[n].path]
        /\ \A m \in j.recs[n].targets : \E q \in wanted : StandsFor(i, t, j, q, m)
        /\ \A q \in wanted : \E m \in j.recs[n].targets : StandsFor(i, t, j, q, m)
    BY <1>4 DEF Extended
  <2>2. \A q \in wanted : \A m : StandsFor(i, t, j, q, m) => m \in I!Live(j) /\ j.recs[m].path = q /\ I!Latest(j, m) = m
    BY StandsLive
  <2> HIDE DEF wanted
  <2>3. \A m \in I!OutEdges(j, n) : j.recs[m].path \in wanted
    BY <2>1, <2>2 DEF I!OutEdges
  <2>4. \A q \in wanted : \E m \in I!OutEdges(j, n) : j.recs[m].path = q
    BY <2>1, <2>2 DEF I!OutEdges
  <2>5. I!PathsOf(j, I!OutEdges(j, n)) = wanted
    BY <2>3, <2>4 DEF I!PathsOf
  <2> QED BY <2>1, <2>5 DEF wanted
<1>5. LinksHeld(j)
  BY <1>2, <1>4, LinksStay DEF LinksHeld
<1> QED BY <1>1, <1>2, <1>3, <1>5 DEF Published

LEMMA NothingPublished == Published(I!NoIndex)
<1>1. I!NoIndex.recs = <<>> /\ I!NoIndex.dead = {}
  BY DEF I!NoIndex
<1>2. DOMAIN I!NoIndex.recs = {} /\ I!Live(I!NoIndex) = {}
  BY <1>1 DEF I!Live
<1>3. IsSeq(I!NoIndex.recs)
  BY <1>1, EmptySeq DEF IsSeq
<1> QED BY <1>1, <1>2, <1>3 DEF Published, Chained, OneLive, Targeted, LinksHeld

\* A build is a delta of nothing.
LEMMA BuildExtends ==
    ASSUME NEW t, DOMAIN t \subseteq Paths
    PROVE  Extended(I!NoIndex, t, I!Build(t))
<1> DEFINE S == DOMAIN t
           i == I!NoIndex
           o == I!Ascending(S)
           placed(p) == CHOOSE n \in DOMAIN o : o[n] = p
           IdOf(p) == IF p \in S THEN Len(i.recs) + placed(p) ELSE I!Id(i, p)
           recD(p) == [path |-> p, has |-> t[p], targets |-> {IdOf(q) : q \in t[p].imports \cap DOMAIN t},
                       prev |-> I!Id(i, p)]
           recB(p) == [path |-> p, has |-> t[p], targets |-> {placed(q) : q \in t[p].imports \cap DOMAIN t},
                       prev |-> I!NoId]
           dead == i.dead \cup {n \in I!Live(i) : i.recs[n].path \in S \/ i.recs[n].path \notin DOMAIN t}
<1>1. i.recs = <<>> /\ i.dead = {} /\ I!Live(i) = {}
  BY DEF I!NoIndex, I!Live
<1>2. \A p : I!Id(i, p) = I!NoId
  BY <1>1 DEF I!Id
<1>3. I!Stale(i, t) = S
  BY <1>2 DEF I!Stale
<1>4. S \in SUBSET Nat /\ IsFiniteSet(S)
  BY PathsFinite, FS_Subset
<1>5. \A p \in S : IdOf(p) = placed(p)
  <2>1. \A p \in S : placed(p) \in DOMAIN o /\ DOMAIN o = 1 .. Cardinality(S) /\ Cardinality(S) \in Nat
    BY <1>4, InAscent
  <2>2. Len(i.recs) = 0
    BY <1>1
  <2> HIDE DEF placed, o
  <2>3. \A p \in S : placed(p) \in Nat
    BY <2>1
  <2> QED BY <2>2, <2>3
<1>6. \A p : recD(p) = recB(p)
  <2> TAKE p
  <2> HIDE DEF placed, IdOf, i
  <2>1. {IdOf(q) : q \in t[p].imports \cap S} = {placed(q) : q \in t[p].imports \cap S}
    BY <1>5
  <2>2. I!Id(i, p) = I!NoId
    BY <1>2
  <2> QED BY <2>1, <2>2
<1>7. I!Build(t) = [recs |-> [n \in DOMAIN o |-> recB(o[n])], dead |-> {}]
  BY Zenon DEF I!Build, I!Rec, I!Targets
<1>8. I!Delta(i, t) = [recs |-> i.recs \o [n \in DOMAIN o |-> recD(o[n])], dead |-> dead]
  <2> DEFINE DeltaOf(X) ==
          [recs |-> i.recs \o
              [n \in DOMAIN I!Ascending(X) |->
                  [path |-> I!Ascending(X)[n], has |-> t[I!Ascending(X)[n]],
                   targets |-> {IF q \in X THEN Len(i.recs) + CHOOSE m \in DOMAIN I!Ascending(X) : I!Ascending(X)[m] = q
                                ELSE I!Id(i, q) : q \in t[I!Ascending(X)[n]].imports \cap DOMAIN t},
                   prev |-> I!Id(i, I!Ascending(X)[n])]],
           dead |-> i.dead \cup {n \in I!Live(i) : i.recs[n].path \in X \/ i.recs[n].path \notin DOMAIN t}]
  <2>1. I!Delta(i, t) = DeltaOf(I!Stale(i, t))
    BY Zenon DEF I!Delta, I!Rec, I!Targets
  <2>2. DeltaOf(S) = [recs |-> i.recs \o [n \in DOMAIN o |-> recD(o[n])], dead |-> dead]
    BY Zenon
  <2> HIDE DEF D
  <2>3. DeltaOf(I!Stale(i, t)) = DeltaOf(S)
    BY <1>3
  <2> QED BY <2>1, <2>2, <2>3
<1>9. [n \in DOMAIN o |-> recD(o[n])] = [n \in DOMAIN o |-> recB(o[n])]
  <2> HIDE DEF recD, recB, o
  <2> QED BY <1>6
<1>10. i.recs \o [n \in DOMAIN o |-> recB(o[n])] = [n \in DOMAIN o |-> recB(o[n])]
  <2> DEFINE s == [n \in DOMAIN o |-> recB(o[n])]
             R == {recB(p) : p \in S}
  <2>1. DOMAIN o = 1 .. Cardinality(S) /\ Cardinality(S) \in Nat /\ \A n \in DOMAIN o : o[n] \in S
    BY <1>4, InAscent
  <2> HIDE DEF recB, o
  <2>2. s \in [1 .. Cardinality(S) -> R]
    BY <2>1
  <2>3. s \in Seq(R)
    <3> HIDE DEF s, R
    <3> QED BY <2>1, <2>2
  <2> HIDE DEF s, i
  <2>4. <<>> \o s = s
    BY <2>3, ConcatEmptySeq
  <2> QED BY <1>1, <2>4 DEF s
<1>11. dead = {}
  BY <1>1
<1> HIDE DEF i, recD, recB, o, dead
<1>12. I!Build(t) = I!Delta(i, t)
  BY <1>7, <1>8, <1>9, <1>10, <1>11
<1>13. Chained(i)
  BY NothingPublished DEF Published, i
<1>14. Extended(i, t, I!Delta(i, t))
  BY <1>13, DeltaExtends
<1> QED BY <1>12, <1>14 DEF i

-----------------------------------------------------------------------------
(* Impact: the grades.                                                      *)

LEMMA MeetAsPaths ==
    ASSUME NEW i, OneLive(i), NEW A, NEW B, A \subseteq I!Live(i), B \subseteq I!Live(i)
    PROVE  I!PathsOf(i, A) \cap I!PathsOf(i, B) # {} <=> A \cap B # {}
<1>1. ASSUME I!PathsOf(i, A) \cap I!PathsOf(i, B) # {} PROVE A \cap B # {}
  <2>1. PICK m \in A, n \in B : i.recs[m].path = i.recs[n].path
    BY <1>1 DEF I!PathsOf
  <2>2. m = n
    BY <2>1 DEF OneLive
  <2> QED BY <2>1, <2>2
<1>2. ASSUME A \cap B # {} PROVE I!PathsOf(i, A) \cap I!PathsOf(i, B) # {}
  BY <1>2 DEF I!PathsOf
<1> QED BY <1>1, <1>2

\* What a publication says a path imports, by ids and by paths.
OutPaths(i, q) == IF I!Id(i, q) = I!NoId THEN {} ELSE i.recs[I!Id(i, q)].has.imports \cap I!PathsOf(i, I!Live(i))

LEMMA OutAre ==
    ASSUME NEW i, Published(i), NEW n \in I!Live(i)
    PROVE  OutPaths(i, i.recs[n].path) = I!PathsOf(i, I!OutEdges(i, n))
<1>1. Chained(i) /\ OneLive(i) /\ LinksHeld(i)
  BY DEF Published
<1> DEFINE p == i.recs[n].path
<1>2. I!Id(i, p) # I!NoId /\ I!Id(i, p) = n
  BY <1>1, IdIs DEF OneLive
<1> QED BY <1>1, <1>2 DEF OutPaths, LinksHeld

LEMMA LinkedIs ==
    ASSUME NEW i, Published(i), NEW n \in DOMAIN i.recs, I!Latest(i, n) \in I!Live(i)
    PROVE  I!Linked(i, n) <=> I!LinkedPath(i, i.recs[n].path)
<1> DEFINE p == i.recs[n].path
           file == I!Latest(i, n)
           defs == I!DefinitionFiles(i)
           out == I!OutEdges(i, file)
<1>1. Chained(i) /\ OneLive(i)
  BY DEF Published
<1>2. i.recs[file].path = p
  BY <1>1, Newest
<1>3. defs \subseteq I!Live(i) /\ \A m : I!OutEdges(i, m) \subseteq I!Live(i)
  BY DEF I!DefinitionFiles, I!OutEdges
<1>4. OutPaths(i, p) = I!PathsOf(i, out)
  BY <1>2, OutAre
<1>5. p \in I!PathsOf(i, defs) <=> file \in defs
  <2>1. p \in I!PathsOf(i, defs) => file \in defs
    BY <1>1, <1>2, <1>3 DEF I!PathsOf, OneLive
  <2>2. file \in defs => p \in I!PathsOf(i, defs)
    BY <1>2 DEF I!PathsOf
  <2> QED BY <2>1, <2>2
<1>6. OutPaths(i, p) \cap I!PathsOf(i, defs) # {} <=> out \cap defs # {}
  BY <1>1, <1>3, <1>4, MeetAsPaths
<1>7. (\E m \in OutPaths(i, p) : OutPaths(i, m) \cap I!PathsOf(i, defs) # {})
      <=> \E mid \in out : I!OutEdges(i, mid) \cap defs # {}
  <2>1. \A mid \in out : OutPaths(i, i.recs[mid].path) \cap I!PathsOf(i, defs) # {}
                         <=> I!OutEdges(i, mid) \cap defs # {}
    BY <1>1, <1>3, OutAre, MeetAsPaths
  <2>2. \A m \in OutPaths(i, p) : \E mid \in out : i.recs[mid].path = m
    BY <1>4 DEF I!PathsOf
  <2>3. \A mid \in out : i.recs[mid].path \in OutPaths(i, p)
    BY <1>4 DEF I!PathsOf
  <2> HIDE DEF out, defs
  <2> QED BY <2>1, <2>2, <2>3
<1>8. I!Linked(i, n) <=> /\ n \in DOMAIN i.recs
                         /\ file \in defs \/ out \cap defs # {} \/ \E mid \in out : I!OutEdges(i, mid) \cap defs # {}
  BY Zenon DEF I!Linked, I!ImportsDefinition
<1>9. I!LinkedPath(i, p) <=> \/ p \in I!PathsOf(i, defs)
                             \/ OutPaths(i, p) \cap I!PathsOf(i, defs) # {}
                             \/ \E m \in OutPaths(i, p) : OutPaths(i, m) \cap I!PathsOf(i, defs) # {}
  BY Zenon DEF I!LinkedPath, OutPaths
<1> HIDE DEF p, file, defs, out
<1>10. I!Linked(i, n) <=> I!LinkedPath(i, p)
  BY <1>5, <1>6, <1>7, <1>8, <1>9
<1> QED BY <1>10 DEF p

-----------------------------------------------------------------------------
(* Impact: its steps.                                                       *)

LEMMA GradeStarts == PartsInit => GradeInv
<1> SUFFICES ASSUME PartsInit, part = "impact" PROVE GradeInv
  BY DEF GradeInv
<1>1. tree \in Trees /\ index = I!Build(tree) /\ impactStage = "settle" /\ builds = 0
  BY DEF PartsInit, I!Init
<1>2. DOMAIN tree \subseteq Paths
  BY <1>1, PathsFinite
<1>3. Published(index)
  <2>1. Extended(I!NoIndex, tree, index)
    BY <1>1, <1>2, BuildExtends
  <2> QED BY <2>1, NothingPublished, DeltaPublished
<1> QED BY <1>1, <1>2, <1>3 DEF GradeInv

LEMMA DeltaMoves ==
    ASSUME NEW i, Published(i), NEW t, DOMAIN t \subseteq Paths
    PROVE  LET j == I!Delta(i, t) IN
           Published(j) /\ \A n \in DOMAIN i.recs : n \in DOMAIN j.recs /\ j.recs[n] = i.recs[n]
<1> DEFINE j == I!Delta(i, t)
<1>1. Extended(i, t, j)
  BY DeltaExtends DEF Published
<1>2. Published(j)
  BY <1>1, DeltaPublished
<1> QED BY <1>1, <1>2 DEF Extended

LEMMA BuildMoves ==
    ASSUME NEW t, DOMAIN t \subseteq Paths
    PROVE  Published(I!Build(t))
BY BuildExtends, NothingPublished, DeltaPublished

\* What the steps of a check and of other processes leave of the index.
Onwards ==
    /\ Published(index')
    /\ builds' \in Nat
    /\ builds' = 0 => builds = 0 /\ \A n \in DOMAIN index.recs : n \in DOMAIN index'.recs /\ index'.recs[n] = index.recs[n]

LEMMA StagesKept ==
    ASSUME GradeInv, part = "impact", part' = part, Onwards, DOMAIN tree' \subseteq Paths,
           UNCHANGED <<snap, uses>>,
           \/ impactStage' = impactStage /\ impactStage # "graded"
           \/ impactStage' = "open"
    PROVE  GradeInv'
<1>1. impactStage' = "search" =>
          /\ Chained(snap)'
          /\ builds' = 0 =>
              \A n \in I!Live(snap)' : n \in DOMAIN index'.recs /\ index'.recs[n].path = snap'.recs[n].path
  <2>1. I!Live(snap)' = I!Live(snap)
    BY DEF I!Live
  <2>2. Chained(snap)' <=> Chained(snap)
    BY DEF Chained, IsSeq
  <2> QED BY <2>1, <2>2 DEF GradeInv, Onwards
<1>2. impactStage' = "graph" /\ builds' = 0 =>
          \A p \in DOMAIN uses' : uses'[p].id \in DOMAIN index'.recs /\ index'.recs[uses'[p].id].path = p
  BY DEF GradeInv, Onwards
<1>3. impactStage' # "graded"
  OBVIOUS
<1>4. Published(index)'
  BY DEF Onwards
<1> QED BY <1>1, <1>2, <1>3, <1>4 DEF GradeInv, Onwards

LEMMA SearchGraded ==
    ASSUME GradeInv, part = "impact", part' = part, I!Search
    PROVE  GradeInv'
<1>1. /\ impactStage = "search" /\ impactStage' = "graph"
      /\ uses' = [p \in {q \in I!PathsOf(snap, I!Live(snap)) \cap DOMAIN tree : tree[q].uses # {}} |->
                     [id |-> I!Id(snap, p), kinds |-> tree[p].uses]]
      /\ UNCHANGED <<tree, index, snap, builds>>
  BY DEF I!Search
<1>2. Published(index) /\ Chained(snap) /\ DOMAIN tree \subseteq Paths /\ builds \in Nat
  BY <1>1 DEF GradeInv
<1>3. ASSUME builds = 0, NEW p \in DOMAIN uses'
      PROVE  uses'[p].id \in DOMAIN index.recs /\ index.recs[uses'[p].id].path = p
  <2>1. p \in I!PathsOf(snap, I!Live(snap)) /\ uses'[p].id = I!Id(snap, p)
    BY <1>1, <1>3
  <2>2. I!Id(snap, p) \in I!Live(snap) /\ snap.recs[I!Id(snap, p)].path = p
    BY <1>2, <2>1, IdIs DEF I!PathsOf
  <2>3. \A n \in I!Live(snap) : n \in DOMAIN index.recs /\ index.recs[n].path = snap.recs[n].path
    BY <1>1, <1>3 DEF GradeInv
  <2> QED BY <2>1, <2>2, <2>3
<1>4. Published(index)'
  BY <1>1, <1>2
<1> QED BY <1>1, <1>2, <1>3, <1>4 DEF GradeInv

LEMMA GradeGraded ==
    ASSUME GradeInv, part = "impact", part' = part, I!Grade
    PROVE  GradeInv'
<1> DEFINE source == DOMAIN uses \ Aside
           linked == {p \in source : I!Strong(p) /\ I!Linked(index, uses[p].id)}
           other == {p \in source \ linked : \E k \in uses[p].kinds : I!Use(k) \/ I!Weak(k)}
<1>1. /\ impactStage = "graph" /\ impactStage' = "graded" /\ graph' = index
      /\ likely' = linked /\ possible' = other /\ review' = DOMAIN uses \ (linked \cup other)
      /\ UNCHANGED <<tree, index, snap, uses, builds>>
  BY DEF I!Grade
<1>2. Published(index) /\ DOMAIN tree \subseteq Paths /\ builds \in Nat
  BY <1>1 DEF GradeInv
<1>3. /\ linked \cup other \cup (DOMAIN uses \ (linked \cup other)) = DOMAIN uses
      /\ linked \cap other = {} /\ linked \cap (DOMAIN uses \ (linked \cup other)) = {}
      /\ other \cap (DOMAIN uses \ (linked \cup other)) = {}
  OBVIOUS
<1>4. ASSUME builds = 0, NEW p \in DOMAIN uses, I!Latest(index, uses[p].id) \in I!Live(index)
      PROVE  p \in linked <=> p \notin Aside /\ I!Strong(p) /\ I!LinkedPath(index, p)
  <2>1. uses[p].id \in DOMAIN index.recs /\ index.recs[uses[p].id].path = p
    BY <1>1, <1>4 DEF GradeInv
  <2>2. I!Linked(index, uses[p].id) <=> I!LinkedPath(index, p)
    BY <1>2, <1>4, <2>1, LinkedIs
  <2> QED BY <1>4, <2>2
<1>5. GradedAs'
  <2> HIDE DEF linked, other
  <2>1. \A p : I!Strong(p)' <=> I!Strong(p)
    BY <1>1 DEF I!Strong
  <2>2. \A p : I!LinkedPath(graph, p)' <=> I!LinkedPath(index, p)
    BY <1>1 DEF I!LinkedPath, I!PathsOf, I!DefinitionFiles, I!Live, I!Id
  <2> QED BY <1>1, <1>3, <1>4, <2>1, <2>2 DEF GradedAs
<1>6. Published(index)'
  BY <1>1, <1>2
<1> HIDE DEF linked, other
<1> QED BY <1>1, <1>2, <1>5, <1>6 DEF GradeInv

LEMMA GradeMoves ==
    ASSUME GradeInv, part = "impact", part' = part, I!Next
    PROVE  GradeInv'
<1>1. Published(index) /\ DOMAIN tree \subseteq Paths /\ builds \in Nat
  BY DEF GradeInv
<1>2. ASSUME index' = I!Delta(index, tree)
      PROVE  Published(index') /\ \A n \in DOMAIN index.recs : n \in DOMAIN index'.recs /\ index'.recs[n] = index.recs[n]
  BY <1>1, <1>2, DeltaMoves
<1>3. CASE I!Settle
  <2>1. index' = index \/ index' = I!Delta(index, tree)
    BY <1>3 DEF I!Settle
  <2>2. Onwards
    BY <1>1, <1>2, <1>3, <2>1 DEF Onwards, I!Settle
  <2> QED BY <1>1, <1>3, <2>2, StagesKept DEF I!Settle
<1>4. CASE I!OpenForSearch
  <2>1. impactStage' = "search" /\ snap' = index /\ UNCHANGED <<tree, index, builds>>
    BY <1>4 DEF I!OpenForSearch
  <2>2. Published(index)' /\ Chained(snap)'
    BY <1>1, <2>1 DEF Published
  <2>3. \A n \in I!Live(snap)' : n \in DOMAIN index'.recs /\ index'.recs[n].path = snap'.recs[n].path
    BY <2>1 DEF I!Live
  <2> QED BY <1>1, <2>1, <2>2, <2>3 DEF GradeInv
<1>5. CASE I!Search
  BY <1>5, SearchGraded
<1>6. CASE I!Grade
  BY <1>6, GradeGraded
<1>7. CASE I!OtherDelta
  <2>1. index' = I!Delta(index, tree)
    BY <1>7 DEF I!OtherDelta
  <2>2. Onwards
    BY <1>1, <1>2, <1>7, <2>1 DEF Onwards, I!OtherDelta
  <2> QED BY <1>1, <1>7, <2>2, StagesKept DEF I!OtherDelta
<1>8. CASE I!OtherBuild
  <2>1. Published(index') /\ builds' = builds + 1
    BY <1>1, <1>8, BuildMoves DEF I!OtherBuild
  <2>2. Onwards
    BY <1>1, <2>1 DEF Onwards
  <2> QED BY <1>1, <1>8, <2>2, StagesKept DEF I!OtherBuild
<1>9. ASSUME NEW p \in Paths, I!Unlink(p) \/ \E c \in Contents : I!Write(p, c)
      PROVE  GradeInv'
  <2>1. DOMAIN tree' \subseteq Paths /\ UNCHANGED <<index, snap, uses, impactStage, builds>>
        /\ impactStage # "graded"
    BY <1>1, <1>9 DEF I!Unlink, I!Write
  <2>2. Onwards
    BY <1>1, <2>1 DEF Onwards
  <2> QED BY <2>1, <2>2, StagesKept
<1> QED BY <1>3, <1>4, <1>5, <1>6, <1>7, <1>8, <1>9 DEF I!Next

LEMMA GradeStays == GradeInv /\ UNCHANGED <<part, grading>> => GradeInv'
<1> SUFFICES ASSUME GradeInv, UNCHANGED <<part, grading>> PROVE GradeInv'
  OBVIOUS
<1>1. UNCHANGED <<part, tree, index, impactStage, snap, uses, graph, likely, possible, review, builds>>
  BY DEF grading
<1>2. Published(index)' <=> Published(index)
  BY <1>1
<1>3. Chained(snap)' <=> Chained(snap)
  BY <1>1
<1>4. I!Live(snap)' = I!Live(snap)
  BY <1>1 DEF I!Live
<1>5. GradedAs' <=> GradedAs
  <2>1. \A p : I!Strong(p)' <=> I!Strong(p)
    BY <1>1 DEF I!Strong
  <2> QED BY <1>1, <2>1 DEF GradedAs
<1> QED BY <1>1, <1>2, <1>3, <1>4, <1>5 DEF GradeInv

LEMMA GradeSteps == GradeInv /\ [PartsNext]_parts => GradeInv'
<1> SUFFICES ASSUME GradeInv, [PartsNext]_parts PROVE GradeInv'
  OBVIOUS
<1>1. CASE part = "impact" /\ I!Next /\ part' = part
  BY <1>1, GradeMoves
<1>2. CASE UNCHANGED <<part, grading>>
  BY <1>2, GradeStays
<1>3. (part = "impact" /\ I!Next /\ part' = part) \/ UNCHANGED <<part, grading>>
  BY Zenon DEF PartsNext, parts
<1> QED BY <1>1, <1>2, <1>3

(* Every use has one grade, and "likely" is what a definition's importers   *)
(* hold, whatever is edited and whichever deltas are published between the  *)
(* search and the grading (verbs.rs `impact`, `imports_definition`).        *)
THEOREM GradedAlways == PartsSpec => []Graded
<1>1. GradeInv => Graded
  BY DEF GradeInv, GradedAs, Graded, I!Graded
<1> QED BY <1>1, GradeStarts, GradeSteps, PTL DEF PartsSpec

-----------------------------------------------------------------------------
(* Change: lines, and the definitions they lie in.                          *)

IsText(t) == t \in Seq({t[i] : i \in DOMAIN t}) /\ C!Nested(t)

LEMMA TextsGiven == \A t \in Olds \cup News : t # Absent => IsText(t)
BY ChangeAssumption DEF C!Assumption, IsText

LEMMA TextIs ==
    ASSUME NEW t, IsText(t)
    PROVE  /\ Len(t) \in Nat /\ DOMAIN t = 1 .. Len(t)
           /\ DOMAIN C!LinesOf(t) = 1 .. 2 * Len(t) /\ Len(C!LinesOf(t)) = 2 * Len(t)
<1>1. Len(t) \in Nat /\ DOMAIN t = 1 .. Len(t)
  BY DEF IsText
<1> DEFINE m == 2 * Len(t)
           s == C!LinesOf(t)
<1>2. m \in Nat
  BY <1>1
<1>3. DOMAIN s = 1 .. m /\ s = [n \in 1 .. m |-> s[n]]
  BY DEF C!LinesOf
<1> HIDE DEF m, s
<1>4. s \in [1 .. m -> {s[n] : n \in 1 .. m}]
  BY <1>3
<1>5. Len(s) = m
  BY <1>2, <1>4
<1> QED BY <1>1, <1>3, <1>5 DEF m, s

LEMMA GreatestOf ==
    ASSUME NEW S, S \subseteq Nat, IsFiniteSet(S), S # {}
    PROVE  C!Max(S) \in S /\ \A x \in S : x <= C!Max(S)
<1> DEFINE above(x) == {y \in S : y > x}
           T == {Cardinality(above(x)) : x \in S}
<1>1. \A x \in S : IsFiniteSet(above(x)) /\ Cardinality(above(x)) \in Nat
  BY FS_Subset, FS_CardinalityType
<1>2. T \in SUBSET Nat /\ T # {}
  <2> HIDE DEF above
  <2> QED BY <1>1
<1>3. PICK c \in T : \A d \in T : c <= d
  BY <1>2, LeastNumber
<1>4. PICK x \in S : c = Cardinality(above(x))
  BY <1>3
<1>5. \A y \in S : y <= x
  <2>1. SUFFICES ASSUME NEW y \in S, y > x PROVE FALSE
    BY <1>4
  <2>2. above(y) \subseteq above(x) /\ y \in above(x) /\ y \notin above(y)
    BY <1>4, <2>1
  <2>3. Cardinality(above(y)) <= Cardinality(above(x))
        /\ (Cardinality(above(y)) = Cardinality(above(x)) => above(y) = above(x))
    BY <1>1, <1>4, <2>2, FS_Subset
  <2> HIDE DEF above
  <2>4. c <= Cardinality(above(y))
    BY <1>3, <2>1
  <2> QED BY <1>1, <1>4, <2>1, <2>2, <2>3, <2>4
<1> QED BY <1>4, <1>5 DEF C!Max

\* Where a definition ends.
LEMMA EndIs ==
    ASSUME NEW t, IsText(t), NEW i \in DOMAIN t
    PROVE  /\ C!First(i) \in Nat /\ C!End(t, i) \in Nat
           /\ C!First(i) < C!End(t, i) /\ 2 * i <= C!End(t, i)
<1> DEFINE S == {i} \cup C!Members(t, i)
<1>1. Len(t) \in Nat /\ DOMAIN t = 1 .. Len(t)
  BY TextIs
<1>2. S \subseteq 1 .. Len(t) /\ IsFiniteSet(S) /\ S # {} /\ i \in S
  <2>1. S \subseteq 1 .. Len(t)
    BY <1>1 DEF C!Members
  <2>2. i \in S
    OBVIOUS
  <2> DEFINE Slots == 1 .. Len(t)
  <2>3. IsFiniteSet(Slots)
    BY <1>1, FS_Interval
  <2> HIDE DEF S, Slots
  <2>4. IsFiniteSet(S)
    BY <2>1, <2>3, FS_Subset DEF Slots
  <2> QED BY <2>1, <2>2, <2>4
<1>3. C!Max(S) \in Nat /\ i <= C!Max(S)
  <2> HIDE DEF S
  <2> QED BY <1>1, <1>2, GreatestOf
<1>4. C!End(t, i) = 2 * C!Max(S)
  BY DEF C!End
<1> HIDE DEF S
<1> QED BY <1>1, <1>3, <1>4 DEF C!First

LEMMA InnermostIs ==
    ASSUME NEW t, IsText(t), NEW n \in C!LinesIn(t), t # Absent
    PROVE  /\ C!Innermost(t, n) \in DOMAIN t /\ C!Spans(t, C!Innermost(t, n), n)
           /\ \A j \in DOMAIN t : C!Spans(t, j, n) =>
                 LET i == C!Innermost(t, n) size(k) == C!End(t, k) - C!First(k)
                 IN  size(i) < size(j) \/ (size(i) = size(j) /\ i <= j)
<1> DEFINE holds == {i \in DOMAIN t : C!Spans(t, i, n)}
           size(i) == C!End(t, i) - C!First(i)
           T == {size(i) : i \in holds}
<1>1. Len(t) \in Nat /\ DOMAIN t = 1 .. Len(t) /\ n \in 1 .. 2 * Len(t)
  BY TextIs DEF C!LinesIn
<1>2. holds # {}
  <2> DEFINE k == (n + 1) \div 2
  <2>1. k \in 1 .. Len(t) /\ 2 * k - 1 <= n /\ n <= 2 * k
    BY <1>1
  <2> HIDE DEF k
  <2>2. n <= C!End(t, k)
    BY <1>1, <2>1, EndIs
  <2> QED BY <1>1, <2>1, <2>2 DEF C!Spans, C!First
<1>3. T \in SUBSET Nat /\ T # {}
  <2>1. \A i \in holds : size(i) \in Nat
    BY EndIs
  <2> HIDE DEF size, holds
  <2> QED BY <1>2, <2>1
<1>4. PICK c \in T : \A d \in T : c <= d
  BY <1>3, LeastNumber
<1> DEFINE U == {i \in holds : size(i) = c}
<1>5. U \in SUBSET Nat /\ U # {}
  <2> HIDE DEF size
  <2> QED BY <1>1, <1>4
<1>6. PICK i \in U : \A j \in U : i <= j
  BY <1>5, LeastNumber
<1>7. \A j \in holds : size(i) < size(j) \/ (size(i) = size(j) /\ i <= j)
  <2> HIDE DEF size, holds
  <2> QED BY <1>3, <1>4, <1>6
<1>8. C!Innermost(t, n) = CHOOSE k \in holds : \A j \in holds : size(k) < size(j) \/ (size(k) = size(j) /\ k <= j)
  BY Zenon DEF C!Innermost
<1>9. i \in holds
  BY <1>6
<1> HIDE DEF size, T, U
<1>10. /\ C!Innermost(t, n) \in holds
       /\ \A j \in holds : size(C!Innermost(t, n)) < size(j) \/ (size(C!Innermost(t, n)) = size(j) /\ C!Innermost(t, n) <= j)
  <2> HIDE DEF holds
  <2> QED BY <1>7, <1>8, <1>9
<1> QED BY <1>10 DEF size

\* A declaration lies in its own definition: what holds it ends no earlier.
LEMMA DeclarationsOwn ==
    ASSUME NEW t, IsText(t), t # Absent, NEW i \in DOMAIN t
    PROVE  C!First(i) \in C!LinesIn(t) /\ C!Innermost(t, C!First(i)) = i
<1> DEFINE n == C!First(i)
           j == C!Innermost(t, n)
<1>1. Len(t) \in Nat /\ DOMAIN t = 1 .. Len(t)
  BY TextIs
<1>2. n \in C!LinesIn(t)
  BY <1>1, TextIs DEF C!LinesIn, C!First
<1>3. C!Spans(t, i, n)
  BY EndIs DEF C!Spans
<1>4. /\ j \in DOMAIN t /\ C!Spans(t, j, n)
      /\ C!End(t, j) - C!First(j) < C!End(t, i) - C!First(i)
         \/ (C!End(t, j) - C!First(j) = C!End(t, i) - C!First(i) /\ j <= i)
  BY <1>2, <1>3, InnermostIs
<1> HIDE DEF j
<1>5. C!First(j) <= C!First(i) /\ C!First(i) <= C!End(t, j) /\ j <= i
  BY <1>1, <1>4 DEF C!Spans, C!First
<1>6. j < i => C!End(t, i) <= C!End(t, j)
  BY <1>4, <1>5 DEF IsText, C!Nested
<1>7. C!End(t, i) \in Nat /\ C!End(t, j) \in Nat
  BY <1>4, EndIs
<1>8. j = i
  BY <1>1, <1>4, <1>5, <1>6, <1>7 DEF C!First
<1> QED BY <1>2, <1>8 DEF j

\* The lines that changed from a to b: every other line of a is one of b's.
LeftOut(h, a, b) ==
    /\ h.old \subseteq C!LinesIn(a)
    /\ h.new \subseteq C!LinesIn(b)
    /\ \A x \in C!LinesIn(a) : x \notin h.old => \E y \in C!LinesIn(b) : C!LinesOf(a)[x] = C!LinesOf(b)[y]

LEMMA DiffsLeaveOut ==
    ASSUME NEW a, NEW b, a # Absent, b # Absent, IsText(a), IsText(b), NEW h \in C!Diffs(a, b)
    PROVE  LeftOut(h, a, b)
<1> DEFINE x == C!LinesOf(a)
           y == C!LinesOf(b)
           equal == {p \in (1 .. Len(x)) \X (1 .. Len(y)) : x[p[1]] = y[p[2]]}
<1>1. C!LinesIn(a) = 1 .. Len(x) /\ C!LinesIn(b) = 1 .. Len(y)
  BY DEF C!LinesIn
<1>2. PICK s \in C!Alignments(a, b) :
         h = [old |-> C!LinesIn(a) \ {p[1] : p \in s}, new |-> C!LinesIn(b) \ {p[2] : p \in s}]
  BY DEF C!Diffs
<1>3. s \subseteq equal
  BY DEF C!Alignments
<1>4. \A p \in s : p[2] \in 1 .. Len(y) /\ x[p[1]] = y[p[2]]
  BY <1>3
<1> HIDE DEF x, y, equal
<1>5. \A n \in C!LinesIn(a) : n \notin h.old => \E m \in C!LinesIn(b) : x[n] = y[m]
  BY <1>1, <1>2, <1>4
<1> QED BY <1>2, <1>5 DEF LeftOut, x, y

\* A declaration that no definition of b has is among the lines that changed.
LEMMA DeclarationChanged ==
    ASSUME NEW a, NEW b, a # Absent, b # Absent, IsText(a), IsText(b), NEW h, LeftOut(h, a, b), NEW i \in DOMAIN a,
           \A j \in DOMAIN b : C!Key(b[j]) = C!Key(a[i]) => b[j].sig # a[i].sig
    PROVE  C!First(i) \in h.old
<1>1. /\ Len(a) \in Nat /\ DOMAIN a = 1 .. Len(a) /\ DOMAIN C!LinesOf(a) = 1 .. 2 * Len(a) /\ Len(C!LinesOf(a)) = 2 * Len(a)
      /\ Len(b) \in Nat /\ DOMAIN b = 1 .. Len(b) /\ DOMAIN C!LinesOf(b) = 1 .. 2 * Len(b) /\ Len(C!LinesOf(b)) = 2 * Len(b)
  BY TextIs
<1>2. SUFFICES ASSUME C!First(i) \notin h.old PROVE FALSE
  OBVIOUS
<1>3. C!First(i) \in C!LinesIn(a)
  BY DeclarationsOwn
<1>4. PICK y \in C!LinesIn(b) : C!LinesOf(a)[C!First(i)] = C!LinesOf(b)[y]
  BY <1>2, <1>3 DEF LeftOut
<1>5. C!LinesOf(a)[C!First(i)] = C!Declaration(a[i])
  <2>1. C!First(i) \in 1 .. 2 * Len(a) /\ C!First(i) % 2 = 1 /\ (C!First(i) + 1) \div 2 = i
    BY <1>1 DEF C!First
  <2> QED BY <2>1 DEF C!LinesOf
<1> DEFINE j == (y + 1) \div 2
<1>6. y \in 1 .. 2 * Len(b) /\ j \in DOMAIN b
  BY <1>1, <1>4 DEF C!LinesIn
<1>7. C!LinesOf(b)[y] = IF y % 2 = 1 THEN C!Declaration(b[j]) ELSE C!Body(b[j])
  BY <1>6 DEF C!LinesOf
<1> HIDE DEF j
<1>8. C!Declaration(a[i]) # C!Body(b[j])
  <2>1. DOMAIN C!Declaration(a[i]) = {"in", "kind", "name", "sig"} /\ DOMAIN C!Body(b[j]) = {"in", "body"}
    BY DEF C!Declaration, C!Body
  <2> QED BY <2>1
<1>9. C!Declaration(a[i]) = C!Declaration(b[j])
  BY <1>4, <1>5, <1>7, <1>8
<1>10. C!Key(b[j]) = C!Key(a[i]) /\ b[j].sig = a[i].sig
  BY <1>9 DEF C!Declaration, C!Key
<1> QED BY <1>6, <1>10

-----------------------------------------------------------------------------
(* Change: what is reported.                                                *)

LEMMA FindIs ==
    ASSUME NEW t, IsText(t), NEW key
    PROVE  /\ C!Find(t, key) = 0 => \A i \in DOMAIN t : C!Key(t[i]) # key
           /\ C!Find(t, key) # 0 => C!Find(t, key) \in DOMAIN t /\ C!Key(t[C!Find(t, key)]) = key
           /\ \A i \in DOMAIN t : C!Key(t[i]) = key => C!Find(t, key) # 0
<1> DEFINE S == {i \in DOMAIN t : C!Key(t[i]) = key}
<1>1. S \in SUBSET Nat /\ 0 \notin S
  BY TextIs
<1>2. C!Find(t, key) = IF S = {} THEN 0 ELSE Min(S)
  BY Zenon DEF C!Find, C!Min, Min
<1>3. S # {} => Min(S) \in S
  BY <1>1, LeastOf
<1> QED BY <1>1, <1>2, <1>3

LEMMA TouchedAre ==
    ASSUME NEW t, IsText(t), t # Absent, NEW lines
    PROVE  C!TouchedIn(t, lines) \subseteq DOMAIN t
BY InnermostIs DEF C!TouchedIn, C!Touched

LEMMA FirstTouchedIs ==
    ASSUME NEW o, IsText(o), o # Absent, NEW S, S \subseteq C!TouchedIn(o, hunks.old), S # {}
    PROVE  C!FirstTouched(o, S) \in S
<1> DEFINE lines == hunks.old \cap C!LinesIn(o)
           T == {l \in lines : C!Innermost(o, l) \in S}
<1>1. T \in SUBSET Nat
  BY TextIs DEF C!LinesIn
<1>2. T # {}
  BY DEF C!TouchedIn, C!Touched
<1>3. PICK l \in T : \A m \in T : l <= m
  BY <1>1, <1>2, LeastNumber
<1>4. \A m \in lines : m < l => C!Innermost(o, m) \notin S
  <2>1. \A m \in lines : C!Innermost(o, m) \in S => l <= m /\ m \in Nat /\ l \in Nat
    BY <1>1, <1>3
  <2> HIDE DEF lines, T
  <2>2. \A m \in lines : C!Innermost(o, m) \in S => ~ (m < l)
    BY <2>1
  <2> QED BY <2>2
<1>5. C!Innermost(o, l) \in S /\ l \in lines
  BY <1>3
<1> HIDE DEF lines, T
<1>6. \E i \in S : \E k \in lines : C!Innermost(o, k) = i /\ \A m \in lines : m < k => C!Innermost(o, m) \notin S
  BY <1>4, <1>5
<1>7. C!FirstTouched(o, S) =
        CHOOSE i \in S : \E k \in lines : C!Innermost(o, k) = i /\ \A m \in lines : m < k => C!Innermost(o, m) \notin S
  BY Zenon DEF C!FirstTouched, lines
<1> QED BY <1>6, <1>7

\* The old definition that one of the new side is compared with.
From(o, n, j) ==
    IF C!Became(o, n, j) # {} THEN C!FirstTouched(o, C!Became(o, n, j)) ELSE C!Find(o, C!Key(n[j]))

LEMMA BecameAre ==
    ASSUME NEW o, NEW n, IsText(o), IsText(n), o # Absent, n # Absent, NEW j \in DOMAIN n
    PROVE  /\ C!Became(o, n, j) \subseteq C!TouchedIn(o, hunks.old)
           /\ \A i \in C!Became(o, n, j) : i \in DOMAIN o /\ C!Key(o[i]) = C!Key(n[j])
           /\ C!Became(o, n, j) # {} => C!Find(o, C!Key(n[j])) # 0 /\ From(o, n, j) \in C!Became(o, n, j)
           /\ C!Find(o, C!Key(n[j])) # 0 => From(o, n, j) \in DOMAIN o /\ C!Key(o[From(o, n, j)]) = C!Key(n[j])
<1>1. C!Became(o, n, j) \subseteq C!TouchedIn(o, hunks.old)
  BY DEF C!Became
<1>2. \A i \in C!Became(o, n, j) : i \in DOMAIN o /\ C!Key(o[i]) = C!Key(n[j])
  <2>1. \A i \in C!Became(o, n, j) : i \in DOMAIN o /\ C!Find(n, C!Key(o[i])) = j
    BY TouchedAre DEF C!Became, C!FoundNew
  <2>2. j # 0
    BY TextIs
  <2> QED BY <2>1, <2>2, FindIs
<1>3. C!Became(o, n, j) # {} => C!Find(o, C!Key(n[j])) # 0 /\ From(o, n, j) \in C!Became(o, n, j)
  <2>1. C!Became(o, n, j) # {} => C!Find(o, C!Key(n[j])) # 0
    BY <1>2, FindIs
  <2>2. C!Became(o, n, j) # {} => From(o, n, j) \in C!Became(o, n, j)
    BY <1>1, FirstTouchedIs DEF From
  <2> QED BY <2>1, <2>2
<1>4. C!Find(o, C!Key(n[j])) # 0 => From(o, n, j) \in DOMAIN o /\ C!Key(o[From(o, n, j)]) = C!Key(n[j])
  BY <1>2, <1>3, FindIs DEF From
<1> QED BY <1>1, <1>2, <1>3, <1>4

\* A definition is modified if one it became, or it, was touched.
ModifiedAt(o, n, j) ==
    C!Became(o, n, j) # {} \/ (j \in C!TouchedIn(n, hunks.new) /\ C!Find(o, C!Key(n[j])) # 0)

LEMMA ModificationsAre ==
    ASSUME NEW o, NEW n, IsText(o), IsText(n), o # Absent, n # Absent
    PROVE  C!Modifications(o, n) = {C!Modified(o, From(o, n, j), n, j) : j \in {k \in DOMAIN n : ModifiedAt(o, n, k)}}
<1> DEFINE A == {C!Modified(o, C!FirstTouched(o, C!Became(o, n, j)), n, j) : j \in {k \in DOMAIN n : C!Became(o, n, k) # {}}}
           B == {C!Modified(o, C!Find(o, C!Key(n[j])), n, j) :
                   j \in {k \in C!TouchedIn(n, hunks.new) : C!Became(o, n, k) = {} /\ C!Find(o, C!Key(n[k])) # 0}}
           M == {C!Modified(o, From(o, n, j), n, j) : j \in {k \in DOMAIN n : ModifiedAt(o, n, k)}}
<1>1. C!TouchedIn(n, hunks.new) \subseteq DOMAIN n
  BY TouchedAre
<1>2. A \subseteq M
  BY DEF From, ModifiedAt
<1>3. B \subseteq M
  BY <1>1 DEF From, ModifiedAt
<1>4. M \subseteq A \cup B
  BY DEF From, ModifiedAt
<1>5. C!Modifications(o, n) = A \cup B
  BY DEF C!Modifications
<1> QED BY <1>2, <1>3, <1>4, <1>5

LEMMA RenamedIs ==
    ASSUME NEW o, NEW n, IsText(o), IsText(n), o # Absent, n # Absent,
           NEW j \in C!Come(o, n), C!RenamedFrom(o, n, j) # {}
    PROVE  \E i \in C!Gone(o, n) :
              /\ C!RenamedFrom(o, n, j) = {i} /\ C!Min(C!RenamedFrom(o, n, j)) = i
              /\ C!Scope(o[i]) = C!Scope(n[j])
              /\ \A k \in C!Come(o, n) : C!Scope(n[k]) = C!Scope(n[j]) => k = j
<1> DEFINE olds == {i \in C!Gone(o, n) : C!Scope(o[i]) = C!Scope(n[j])}
           news == {k \in C!Come(o, n) : C!Scope(n[k]) = C!Scope(n[j])}
<1>1. C!RenamedFrom(o, n, j) = IF C!Cardinality(olds) = 1 /\ C!Cardinality(news) = 1 THEN olds ELSE {}
  BY Zenon DEF C!RenamedFrom
<1>2. \A S : C!Cardinality(S) = Cardinality(S)
  BY Zenon DEF C!Cardinality, Cardinality
<1>3. C!RenamedFrom(o, n, j) = olds /\ Cardinality(olds) = 1 /\ Cardinality(news) = 1
  <2> HIDE DEF olds, news
  <2> QED BY <1>1, <1>2
<1>4. olds \subseteq DOMAIN o /\ news \subseteq DOMAIN n
  BY TouchedAre DEF C!Gone, C!Come
<1>5. IsFiniteSet(DOMAIN o) /\ IsFiniteSet(DOMAIN n)
  BY TextIs, FS_Interval
<1>6. IsFiniteSet(olds) /\ IsFiniteSet(news)
  <2> HIDE DEF olds, news
  <2> QED BY <1>4, <1>5, FS_Subset
<1>7. (\E i : olds = {i}) /\ (\E k : news = {k})
  <2> HIDE DEF olds, news
  <2> QED BY <1>3, <1>6, FS_Singleton
<1>8. PICK i, k : olds = {i} /\ news = {k}
  BY <1>7
<1>9. j \in news /\ i \in C!Gone(o, n) /\ C!Scope(o[i]) = C!Scope(n[j])
  BY <1>8
<1>10. \A m \in C!Come(o, n) : C!Scope(n[m]) = C!Scope(n[j]) => m = j
  BY <1>8, <1>9
<1>11. C!Min({i}) = i
  <2>1. i \in Nat
    BY <1>9, TouchedAre, TextIs DEF C!Gone
  <2>2. C!Min({i}) = CHOOSE x \in {i} : \A y \in {i} : x <= y
    BY Zenon DEF C!Min
  <2> QED BY <2>1, <2>2
<1> HIDE DEF olds, news
<1> QED BY <1>3, <1>8, <1>9, <1>10, <1>11

OnceIn(S) ==
    /\ \A d, e \in S : d # e => <<d.side, d.at>> # <<e.side, e.at>>
    /\ \A d, e \in S : d # e /\ d.change = "renamed" =>
          /\ ~(e.change = "renamed" /\ d.other = e.other)
          /\ ~(e.change = "removed" /\ e.at = d.other)

\* Each kind of report, by what it is of.
LEMMA ReportsAre ==
    ASSUME NEW o, NEW n, IsText(o), IsText(n), o # Absent, n # Absent
    PROVE  /\ \A d \in C!Modifications(o, n) : \E j \in DOMAIN n :
                 /\ d = C!Modified(o, From(o, n, j), n, j) /\ C!Find(o, C!Key(n[j])) # 0
                 /\ d.side = "new" /\ d.at = j /\ d.change \in {"body", "signature"}
           /\ \A d \in C!Additions(o, n) : \E j \in C!Come(o, n) :
                 /\ d = IF C!RenamedFrom(o, n, j) # {}
                        THEN C!Report("new", n, j, "renamed", C!Min(C!RenamedFrom(o, n, j)))
                        ELSE C!Report("new", n, j, "added", 0)
                 /\ d.side = "new" /\ d.at = j
                 /\ d.change = "renamed" => C!RenamedFrom(o, n, j) # {} /\ d.other = C!Min(C!RenamedFrom(o, n, j))
                 /\ d.change \in {"renamed", "added"}
           /\ \A d \in C!Removals(o, n) : \E i \in C!Gone(o, n) :
                 /\ d = C!Report("old", o, i, "removed", 0) /\ d.side = "old" /\ d.at = i /\ d.change = "removed"
                 /\ \A j \in C!Come(o, n) : i \notin C!RenamedFrom(o, n, j)
<1>1. ASSUME NEW d \in C!Modifications(o, n)
      PROVE  \E j \in DOMAIN n :
                 /\ d = C!Modified(o, From(o, n, j), n, j) /\ C!Find(o, C!Key(n[j])) # 0
                 /\ d.side = "new" /\ d.at = j /\ d.change \in {"body", "signature"}
  <2>1. PICK j \in DOMAIN n : ModifiedAt(o, n, j) /\ d = C!Modified(o, From(o, n, j), n, j)
    BY ModificationsAre
  <2>2. C!Find(o, C!Key(n[j])) # 0
    BY <2>1, BecameAre DEF ModifiedAt
  <2>3. d.side = "new" /\ d.at = j /\ d.change \in {"body", "signature"}
    BY <2>1 DEF C!Modified, C!Report
  <2> QED BY <2>1, <2>2, <2>3
<1>2. ASSUME NEW d \in C!Additions(o, n)
      PROVE  \E j \in C!Come(o, n) :
                 /\ d = IF C!RenamedFrom(o, n, j) # {}
                        THEN C!Report("new", n, j, "renamed", C!Min(C!RenamedFrom(o, n, j)))
                        ELSE C!Report("new", n, j, "added", 0)
                 /\ d.side = "new" /\ d.at = j
                 /\ d.change = "renamed" => C!RenamedFrom(o, n, j) # {} /\ d.other = C!Min(C!RenamedFrom(o, n, j))
                 /\ d.change \in {"renamed", "added"}
  <2>1. PICK j \in C!Come(o, n) :
           d = IF C!RenamedFrom(o, n, j) # {}
               THEN C!Report("new", n, j, "renamed", C!Min(C!RenamedFrom(o, n, j)))
               ELSE C!Report("new", n, j, "added", 0)
    BY DEF C!Additions
  <2>2. CASE C!RenamedFrom(o, n, j) # {}
    BY <2>1, <2>2 DEF C!Report
  <2>3. CASE C!RenamedFrom(o, n, j) = {}
    BY <2>1, <2>3 DEF C!Report
  <2> QED BY <2>2, <2>3
<1>3. ASSUME NEW d \in C!Removals(o, n)
      PROVE  \E i \in C!Gone(o, n) :
                 /\ d = C!Report("old", o, i, "removed", 0) /\ d.side = "old" /\ d.at = i /\ d.change = "removed"
                 /\ \A j \in C!Come(o, n) : i \notin C!RenamedFrom(o, n, j)
  <2>1. PICK i \in C!Gone(o, n) :
           d = C!Report("old", o, i, "removed", 0) /\ \A j \in C!Come(o, n) : i \notin C!RenamedFrom(o, n, j)
    BY DEF C!Removals
  <2> QED BY <2>1 DEF C!Report
<1> QED BY <1>1, <1>2, <1>3

LEMMA ReportsOnce ==
    ASSUME NEW o, NEW n, IsText(o), IsText(n), o # Absent, n # Absent
    PROVE  OnceIn(C!Modifications(o, n) \cup C!Additions(o, n) \cup C!Removals(o, n))
<1> DEFINE M == C!Modifications(o, n)
           A == C!Additions(o, n)
           R == C!Removals(o, n)
<1>1. \A d \in M, e \in A : d.at # e.at
  <2>1. \A j \in C!Come(o, n) : C!Find(o, C!Key(n[j])) = 0
    BY DEF C!Come
  <2> QED BY <2>1, ReportsAre
<1>2. \A d, e \in M : d.at = e.at => d = e
  BY ReportsAre
<1>3. \A d, e \in A : d.at = e.at => d = e
  BY ReportsAre
<1>4. \A d, e \in R : d.at = e.at => d = e
  BY ReportsAre
<1>5. \A d \in M \cup A : d.side = "new" /\ d.change # "removed"
  BY ReportsAre
<1>6. \A d \in R : d.side = "old" /\ d.change = "removed"
  BY ReportsAre
<1>7. \A d \in M : d.change # "renamed"
  BY ReportsAre
<1>8. ASSUME NEW d \in A, NEW e \in A, d.change = "renamed", e.change = "renamed", d.other = e.other
      PROVE  d = e
  <2>1. PICK j \in C!Come(o, n) : d.at = j /\ C!RenamedFrom(o, n, j) # {} /\ d.other = C!Min(C!RenamedFrom(o, n, j))
    BY <1>8, ReportsAre
  <2>2. PICK k \in C!Come(o, n) : e.at = k /\ C!RenamedFrom(o, n, k) # {} /\ e.other = C!Min(C!RenamedFrom(o, n, k))
    BY <1>8, ReportsAre
  <2>3. C!Scope(o[d.other]) = C!Scope(n[j]) /\ \A m \in C!Come(o, n) : C!Scope(n[m]) = C!Scope(n[j]) => m = j
    BY <2>1, RenamedIs
  <2>4. C!Scope(o[e.other]) = C!Scope(n[k])
    BY <2>2, RenamedIs
  <2>5. j = k
    BY <1>8, <2>3, <2>4
  <2> QED BY <1>3, <2>1, <2>2, <2>5
<1>9. ASSUME NEW d \in A, NEW e \in R, d.change = "renamed"
      PROVE  e.at # d.other
  <2>1. PICK j \in C!Come(o, n) : C!RenamedFrom(o, n, j) # {} /\ d.other = C!Min(C!RenamedFrom(o, n, j))
    BY <1>9, ReportsAre
  <2>2. d.other \in C!RenamedFrom(o, n, j)
    BY <2>1, RenamedIs
  <2> QED BY <2>2, ReportsAre
<1> HIDE DEF M, A, R
<1>10. OnceIn(M \cup A \cup R)
  <2>1. \A d, e \in M \cup A \cup R : d # e => <<d.side, d.at>> # <<e.side, e.at>>
    BY <1>1, <1>2, <1>3, <1>4, <1>5, <1>6
  <2>2. \A d, e \in M \cup A \cup R : d # e /\ d.change = "renamed" =>
          /\ ~(e.change = "renamed" /\ d.other = e.other)
          /\ ~(e.change = "removed" /\ e.at = d.other)
    BY <1>5, <1>6, <1>7, <1>8, <1>9
  <2> QED BY <2>1, <2>2 DEF OnceIn
<1> QED BY <1>10 DEF M, A, R

LEMMA ChangedOnce ==
    ASSUME NEW o, NEW n, o # Absent => IsText(o), n # Absent => IsText(n)
    PROVE  OnceIn(C!ChangedDefs(o, n))
<1>1. \A S, T : OnceIn(S) /\ T \subseteq S => OnceIn(T)
  BY DEF OnceIn
<1>2. \A S : C!NotImpl(S) \subseteq S
  BY DEF C!NotImpl
<1>3. \A side, text, how : how # "renamed" => OnceIn(C!All(side, text, how))
  <2> TAKE side, text, how
  <2>1. \A d \in C!All(side, text, how) : \E i \in DOMAIN text : d = C!Report(side, text, i, how, 0) /\ d.at = i /\ d.change = how
    BY DEF C!All, C!Report
  <2> QED BY <2>1 DEF OnceIn
<1>4. CASE o = Absent /\ n = Absent
  <2>1. C!ChangedDefs(o, n) = {}
    BY <1>4 DEF C!ChangedDefs
  <2> QED BY <2>1 DEF OnceIn
<1>5. CASE o = Absent /\ n # Absent
  <2>1. C!ChangedDefs(o, n) = C!NotImpl(C!All("new", n, "added"))
    BY <1>5 DEF C!ChangedDefs
  <2> QED BY <1>1, <1>2, <1>3, <2>1
<1>6. CASE o # Absent /\ n = Absent
  <2>1. C!ChangedDefs(o, n) = C!NotImpl(C!All("old", o, "removed"))
    BY <1>6 DEF C!ChangedDefs
  <2> QED BY <1>1, <1>2, <1>3, <2>1
<1>7. CASE o # Absent /\ n # Absent
  <2>1. C!ChangedDefs(o, n) = C!NotImpl(C!Modifications(o, n) \cup C!Additions(o, n) \cup C!Removals(o, n))
    BY <1>7 DEF C!ChangedDefs
  <2>2. OnceIn(C!Modifications(o, n) \cup C!Additions(o, n) \cup C!Removals(o, n))
    BY <1>7, ReportsOnce
  <2> QED BY <1>1, <1>2, <2>1, <2>2
<1> QED BY <1>4, <1>5, <1>6, <1>7

SoleIn(t, key) == \A i, k \in DOMAIN t : C!Key(t[i]) = key /\ C!Key(t[k]) = key => i = k

LEMMA SoleIs ==
    ASSUME NEW t, IsText(t), NEW key, C!Sole(t, key)
    PROVE  SoleIn(t, key)
<1> DEFINE S == {i \in DOMAIN t : C!Key(t[i]) = key}
<1>1. \A T : C!Cardinality(T) = Cardinality(T)
  BY Zenon DEF C!Cardinality, Cardinality
<1>2. Cardinality(S) <= 1
  BY <1>1 DEF C!Sole
<1>3. IsFiniteSet(S)
  <2>1. IsFiniteSet(DOMAIN t)
    BY TextIs, FS_Interval
  <2> QED BY <2>1, FS_Subset
<1>4. SUFFICES ASSUME NEW i \in S, NEW k \in S, i # k PROVE FALSE
  BY DEF SoleIn
<1>5. IsFiniteSet({i}) /\ Cardinality({i}) = 1 /\ {i} \subseteq S
  BY <1>4, FS_Singleton
<1> HIDE DEF S
<1>6. Cardinality(S) = 1 => S = {i}
  BY <1>3, <1>5, FS_Subset
<1>7. Cardinality({i}) <= Cardinality(S) /\ Cardinality(S) \in Nat
  BY <1>3, <1>5, FS_Subset, FS_CardinalityType
<1> QED BY <1>2, <1>4, <1>5, <1>6, <1>7

\* What a touched definition of either side is reported as.
LEMMA TouchedReported ==
    ASSUME NEW o, NEW n, IsText(o), IsText(n), o # Absent, n # Absent
    PROVE  /\ \A j \in C!TouchedIn(n, hunks.new) : n[j].kind # "impl" =>
                 \E d \in C!ChangedDefs(o, n) : d.side = "new" /\ d.at = j
           /\ \A i \in C!TouchedIn(o, hunks.old) : o[i].kind # "impl" /\ C!FoundNew(o, n, i) = 0 =>
                 \E d \in C!ChangedDefs(o, n) : \/ d.side = "old" /\ d.change = "removed" /\ d.at = i
                                                \/ d.side = "new" /\ d.change = "renamed" /\ d.other = i
           /\ \A i \in C!TouchedIn(o, hunks.old) : o[i].kind # "impl" /\ C!FoundNew(o, n, i) # 0 /\ SoleIn(o, C!Key(o[i])) =>
                 C!Modified(o, i, n, C!FoundNew(o, n, i)) \in C!ChangedDefs(o, n)
<1> DEFINE M == C!Modifications(o, n)
           A == C!Additions(o, n)
           R == C!Removals(o, n)
<1>1. C!ChangedDefs(o, n) = {d \in M \cup A \cup R : d.kind # "impl"}
  BY DEF C!ChangedDefs, C!NotImpl
<1>2. C!TouchedIn(n, hunks.new) \subseteq DOMAIN n /\ C!TouchedIn(o, hunks.old) \subseteq DOMAIN o
  BY TouchedAre
<1>3. ASSUME NEW j \in DOMAIN n, ModifiedAt(o, n, j), n[j].kind # "impl"
      PROVE  C!Modified(o, From(o, n, j), n, j) \in C!ChangedDefs(o, n)
  <2>1. C!Modified(o, From(o, n, j), n, j) \in M
    BY <1>3, ModificationsAre
  <2>2. C!Modified(o, From(o, n, j), n, j).kind = n[j].kind
    BY DEF C!Modified, C!Report
  <2> HIDE DEF M, A, R
  <2> QED BY <1>1, <1>3, <2>1, <2>2
<1>4. ASSUME NEW j \in C!TouchedIn(n, hunks.new), n[j].kind # "impl"
      PROVE  \E d \in C!ChangedDefs(o, n) : d.side = "new" /\ d.at = j
  <2>1. CASE C!Find(o, C!Key(n[j])) = 0
    <3> DEFINE d == IF C!RenamedFrom(o, n, j) # {} THEN C!Report("new", n, j, "renamed", C!Min(C!RenamedFrom(o, n, j)))
                    ELSE C!Report("new", n, j, "added", 0)
    <3>1. d \in A
      BY <1>4, <2>1 DEF C!Additions, C!Come
    <3>2. d.side = "new" /\ d.at = j /\ d.kind = n[j].kind
      BY DEF C!Report
    <3> HIDE DEF d, A, M, R
    <3> QED BY <1>1, <1>4, <3>1, <3>2
  <2>2. CASE C!Find(o, C!Key(n[j])) # 0
    <3>1. C!Modified(o, From(o, n, j), n, j) \in C!ChangedDefs(o, n)
      BY <1>2, <1>3, <1>4, <2>2 DEF ModifiedAt
    <3>2. C!Modified(o, From(o, n, j), n, j).side = "new" /\ C!Modified(o, From(o, n, j), n, j).at = j
      BY DEF C!Modified, C!Report
    <3> QED BY <3>1, <3>2
  <2> QED BY <2>1, <2>2
<1>5. ASSUME NEW i \in C!TouchedIn(o, hunks.old), o[i].kind # "impl", C!FoundNew(o, n, i) = 0
      PROVE  \E d \in C!ChangedDefs(o, n) : \/ d.side = "old" /\ d.change = "removed" /\ d.at = i
                                            \/ d.side = "new" /\ d.change = "renamed" /\ d.other = i
  <2>1. i \in C!Gone(o, n)
    BY <1>5 DEF C!Gone
  <2>2. CASE \E j \in C!Come(o, n) : i \in C!RenamedFrom(o, n, j)
    <3>1. PICK j \in C!Come(o, n) : i \in C!RenamedFrom(o, n, j)
      BY <2>2
    <3>2. C!Min(C!RenamedFrom(o, n, j)) = i /\ C!RenamedFrom(o, n, j) # {} /\ C!Scope(o[i]) = C!Scope(n[j])
      BY <3>1, RenamedIs
    <3> DEFINE d == C!Report("new", n, j, "renamed", i)
    <3>3. d \in A
      BY <3>1, <3>2 DEF C!Additions
    <3>4. d.side = "new" /\ d.change = "renamed" /\ d.other = i /\ d.kind = n[j].kind
      BY DEF C!Report
    <3>5. n[j].kind = o[i].kind
      BY <3>2 DEF C!Scope
    <3> HIDE DEF d, A, M, R
    <3> QED BY <1>1, <1>5, <3>3, <3>4, <3>5
  <2>3. CASE ~ \E j \in C!Come(o, n) : i \in C!RenamedFrom(o, n, j)
    <3> DEFINE d == C!Report("old", o, i, "removed", 0)
    <3>1. d \in R
      BY <2>1, <2>3 DEF C!Removals
    <3>2. d.side = "old" /\ d.change = "removed" /\ d.at = i /\ d.kind = o[i].kind
      BY DEF C!Report
    <3> HIDE DEF d, A, M, R
    <3> QED BY <1>1, <1>5, <3>1, <3>2
  <2> QED BY <2>2, <2>3
<1>6. ASSUME NEW i \in C!TouchedIn(o, hunks.old), o[i].kind # "impl", C!FoundNew(o, n, i) # 0, SoleIn(o, C!Key(o[i]))
      PROVE  C!Modified(o, i, n, C!FoundNew(o, n, i)) \in C!ChangedDefs(o, n)
  <2> DEFINE j == C!FoundNew(o, n, i)
  <2>1. j \in DOMAIN n /\ C!Key(n[j]) = C!Key(o[i])
    BY <1>6, FindIs DEF C!FoundNew
  <2>2. i \in C!Became(o, n, j)
    BY <1>6 DEF C!Became
  <2>3. From(o, n, j) = i
    <3>1. From(o, n, j) \in DOMAIN o /\ C!Key(o[From(o, n, j)]) = C!Key(n[j])
      BY <2>1, <2>2, BecameAre
    <3> QED BY <1>2, <1>6, <2>1, <3>1 DEF SoleIn
  <2>4. n[j].kind = o[i].kind /\ ModifiedAt(o, n, j)
    BY <2>1, <2>2 DEF C!Key, ModifiedAt
  <2> QED BY <1>3, <1>6, <2>1, <2>3, <2>4
<1> QED BY <1>4, <1>5, <1>6

\* A signature is reported of a definition that has it on both sides.
LEMMA SignaturesDiffer ==
    ASSUME NEW o, NEW n, IsText(o), IsText(n), o # Absent, n # Absent,
           NEW d \in C!ChangedDefs(o, n), d.change = "signature"
    PROVE  d.at \in DOMAIN n /\ d.other \in DOMAIN o /\ o[d.other].sig # n[d.at].sig
<1>1. d \in C!Modifications(o, n) \cup C!Additions(o, n) \cup C!Removals(o, n)
  BY DEF C!ChangedDefs, C!NotImpl
<1>2. d \in C!Modifications(o, n)
  BY <1>1, ReportsAre
<1>3. PICK j \in DOMAIN n : d = C!Modified(o, From(o, n, j), n, j) /\ C!Find(o, C!Key(n[j])) # 0
  BY <1>2, ReportsAre
<1>4. From(o, n, j) \in DOMAIN o
  BY <1>3, BecameAre
<1>5. d.at = j /\ d.other = From(o, n, j) /\ d.change = IF o[From(o, n, j)].sig = n[j].sig THEN "body" ELSE "signature"
  BY <1>3 DEF C!Modified, C!Report
<1> QED BY <1>4, <1>5

BreakingIn(S) ==
    \A i \in DOMAIN old : LET j == C!Find(new, C!Key(old[i])) IN
        C!Plain(C!Key(old[i])) =>
            /\ j = 0 /\ C!First(i) \in hunks.old =>
                  \E d \in S : \/ d.change = "removed" /\ d.at = i
                               \/ d.change = "renamed" /\ d.other = i
            /\ j # 0 => ((old[i].sig # new[j].sig) <=>
                            \E d \in S : d.change = "signature" /\ d.at = j /\ d.other = i)
AnsweredIn(S) ==
    /\ \A n \in hunks.new : LET j == C!Innermost(new, n) IN
          new[j].kind # "impl" => \E d \in S : d.side = "new" /\ d.at = j
    /\ \A n \in hunks.old : LET i == C!Innermost(old, n) IN
          C!Plain(C!Key(old[i])) =>
            \E d \in S : \/ d.side = "old" /\ d.at = i
                         \/ d.side = "new" /\ d.other = i

LEMMA KeyKind == \A d : C!Key(d)[1] = d.kind
BY DEF C!Key

LEMMA TouchedBy ==
    ASSUME NEW t, NEW lines, NEW n \in lines, n \in C!LinesIn(t)
    PROVE  C!Innermost(t, n) \in C!TouchedIn(t, lines)
BY DEF C!TouchedIn, C!Touched

LEMMA ChangesBreaking ==
    ASSUME IsText(old), IsText(new), old # Absent, new # Absent, LeftOut(hunks, old, new)
    PROVE  BreakingIn(C!ChangedDefs(old, new))
<1> DEFINE S == C!ChangedDefs(old, new)
<1>1. SUFFICES ASSUME NEW i \in DOMAIN old, C!Plain(C!Key(old[i]))
               PROVE  LET j == C!FoundNew(old, new, i) IN
                      /\ j = 0 /\ C!First(i) \in hunks.old =>
                            \E d \in S : \/ d.change = "removed" /\ d.at = i
                                         \/ d.change = "renamed" /\ d.other = i
                      /\ j # 0 => ((old[i].sig # new[j].sig) <=>
                                      \E d \in S : d.change = "signature" /\ d.at = j /\ d.other = i)
  BY DEF BreakingIn, C!FoundNew
<1> DEFINE key == C!Key(old[i])
           j == C!FoundNew(old, new, i)
<1>2. old[i].kind # "impl" /\ SoleIn(old, key) /\ SoleIn(new, key)
  <2>1. key[1] # "impl" /\ C!Sole(old, key) /\ C!Sole(new, key)
    BY <1>1 DEF C!Plain
  <2> QED BY <2>1, KeyKind, SoleIs
<1>3. C!First(i) \in hunks.old => i \in C!TouchedIn(old, hunks.old)
  <2>1. C!First(i) \in C!LinesIn(old) /\ C!Innermost(old, C!First(i)) = i
    BY DeclarationsOwn
  <2> QED BY <2>1, TouchedBy
<1>4. ASSUME j = 0, C!First(i) \in hunks.old
      PROVE  \E d \in S : \/ d.change = "removed" /\ d.at = i
                          \/ d.change = "renamed" /\ d.other = i
  BY <1>2, <1>3, <1>4, TouchedReported
<1>5. ASSUME j # 0, old[i].sig # new[j].sig
      PROVE  \E d \in S : d.change = "signature" /\ d.at = j /\ d.other = i
  <2>1. j \in DOMAIN new /\ C!Key(new[j]) = key
    BY <1>5, FindIs DEF C!FoundNew
  <2>2. \A k \in DOMAIN new : C!Key(new[k]) = key => new[k].sig # old[i].sig
    BY <1>2, <1>5, <2>1 DEF SoleIn
  <2>3. C!First(i) \in hunks.old
    BY <2>2, DeclarationChanged
  <2>4. C!Modified(old, i, new, j) \in S
    BY <1>2, <1>3, <1>5, <2>3, TouchedReported
  <2>5. /\ C!Modified(old, i, new, j).change = "signature" /\ C!Modified(old, i, new, j).at = j
        /\ C!Modified(old, i, new, j).other = i
    BY <1>5 DEF C!Modified, C!Report
  <2> HIDE DEF S, j
  <2> QED BY <2>4, <2>5
<1>6. ASSUME NEW d \in S, d.change = "signature", d.at = j, d.other = i
      PROVE  old[i].sig # new[j].sig
  BY <1>6, SignaturesDiffer
<1> HIDE DEF S
<1> QED BY <1>4, <1>5, <1>6

LEMMA ChangesAnswered ==
    ASSUME IsText(old), IsText(new), old # Absent, new # Absent, LeftOut(hunks, old, new)
    PROVE  AnsweredIn(C!ChangedDefs(old, new))
<1> DEFINE S == C!ChangedDefs(old, new)
<1>1. ASSUME NEW n \in hunks.new, new[C!Innermost(new, n)].kind # "impl"
      PROVE  \E d \in S : d.side = "new" /\ d.at = C!Innermost(new, n)
  <2>1. C!Innermost(new, n) \in C!TouchedIn(new, hunks.new)
    BY <1>1, TouchedBy DEF LeftOut
  <2> QED BY <1>1, <2>1, TouchedReported
<1>2. ASSUME NEW n \in hunks.old, C!Plain(C!Key(old[C!Innermost(old, n)]))
      PROVE  \E d \in S : \/ d.side = "old" /\ d.at = C!Innermost(old, n)
                          \/ d.side = "new" /\ d.other = C!Innermost(old, n)
  <2> DEFINE i == C!Innermost(old, n)
             j == C!FoundNew(old, new, i)
  <2>1. i \in C!TouchedIn(old, hunks.old)
    BY <1>2, TouchedBy DEF LeftOut
  <2> HIDE DEF i
  <2>2. old[i].kind # "impl" /\ SoleIn(old, C!Key(old[i]))
    <3>1. C!Key(old[i])[1] # "impl" /\ C!Sole(old, C!Key(old[i]))
      BY <1>2 DEF C!Plain, i
    <3> QED BY <3>1, KeyKind, SoleIs
  <2>3. CASE j = 0
    BY <2>1, <2>2, <2>3, TouchedReported DEF i
  <2>4. CASE j # 0
    <3>1. C!Modified(old, i, new, j) \in S
      BY <2>1, <2>2, <2>4, TouchedReported
    <3>2. C!Modified(old, i, new, j).side = "new" /\ C!Modified(old, i, new, j).other = i
      BY DEF C!Modified, C!Report
    <3> HIDE DEF S, j
    <3> QED BY <3>1, <3>2 DEF i
  <2> QED BY <2>3, <2>4
<1> HIDE DEF S
<1>3. AnsweredIn(S)
  BY <1>1, <1>2 DEF AnsweredIn
<1> QED BY <1>3 DEF S

-----------------------------------------------------------------------------
(* Change: its steps.                                                       *)

ChangeInv ==
    part = "change" =>
        /\ old \in Olds /\ new \in News /\ compared \in News
        /\ compareStage = "compare" => changed = {}
        /\ compareStage = "read" =>
              /\ changed = {}
              /\ old # Absent /\ compared # Absent => LeftOut(hunks, old, compared)
        /\ compareStage = "reported" => C!ReportedOnce /\ C!BreakingFound /\ C!LinesAnswered
        /\ compareStage \in {"compare", "read", "reported"}

LEMMA ChangeStarts == PartsInit => ChangeInv
BY DEF PartsInit, C!Init, ChangeInv

LEMMA ChangeMoves ==
    ASSUME ChangeInv, part = "change", part' = part, C!Next
    PROVE  ChangeInv'
<1>1. old \in Olds /\ new \in News /\ compared \in News
  BY DEF ChangeInv
<1>2. /\ old # Absent => IsText(old)
      /\ new # Absent => IsText(new)
      /\ compared # Absent => IsText(compared)
  BY <1>1, TextsGiven
<1>3. CASE C!Compare
  <2>1. old # Absent /\ new # Absent => LeftOut(hunks', old, new)
    BY <1>2, <1>3, DiffsLeaveOut DEF C!Compare
  <2>2. compareStage = "compare" /\ compareStage' = "read" /\ compared' = new /\ UNCHANGED <<old, new, changed>>
    BY <1>3 DEF C!Compare
  <2>3. (old # Absent /\ compared # Absent => LeftOut(hunks, old, compared))'
    BY <2>1, <2>2 DEF LeftOut
  <2> QED BY <1>1, <2>2, <2>3 DEF ChangeInv
<1>4. CASE C!ReadWorktree
  <2> DEFINE n == IF compared = Absent THEN Absent ELSE new
             S == C!ChangedDefs(old, n)
  <2>1. /\ compareStage = "read" /\ compareStage' = "reported" /\ changed' = S
        /\ UNCHANGED <<old, new, hunks, compared, changes>>
    BY <1>4 DEF C!ReadWorktree
  <2>2. OnceIn(S)
    BY <1>2, ChangedOnce
  <2>3. new = compared /\ old # Absent /\ new # Absent => BreakingIn(S) /\ AnsweredIn(S)
    <3>1. SUFFICES ASSUME new = compared, old # Absent, new # Absent
                   PROVE  BreakingIn(C!ChangedDefs(old, new)) /\ AnsweredIn(C!ChangedDefs(old, new))
      OBVIOUS
    <3>2. LeftOut(hunks, old, new)
      BY <2>1, <3>1 DEF ChangeInv
    <3> QED BY <1>2, <3>1, <3>2, ChangesBreaking, ChangesAnswered
  <2> HIDE DEF S
  <2>4. C!ReportedOnce'
    BY <2>1, <2>2 DEF OnceIn, C!ReportedOnce
  <2>5. C!Settled' => BreakingIn(S) /\ AnsweredIn(S)
    BY <2>1, <2>3 DEF C!Settled
  <2>6. \A key : C!Plain(key)' <=> C!Plain(key)
    BY <2>1 DEF C!Plain, C!Sole
  <2>7. C!BreakingFound'
    BY <2>1, <2>5, <2>6 DEF BreakingIn, C!BreakingFound
  <2>8. C!LinesAnswered'
    BY <2>1, <2>5, <2>6 DEF AnsweredIn, C!LinesAnswered
  <2> QED BY <1>1, <2>1, <2>4, <2>7, <2>8 DEF ChangeInv
<1>5. ASSUME NEW t \in News, C!EditWorktree(t)
      PROVE  ChangeInv'
  <2>1. compareStage = "read" /\ new' = t /\ UNCHANGED <<old, compareStage, hunks, compared, changed>>
    BY <1>5 DEF C!EditWorktree
  <2>2. (old # Absent /\ compared # Absent => LeftOut(hunks, old, compared))'
    BY <2>1 DEF ChangeInv, LeftOut
  <2> QED BY <1>1, <2>1, <2>2 DEF ChangeInv
<1> QED BY <1>3, <1>4, <1>5 DEF C!Next

LEMMA ChangeStays == ChangeInv /\ UNCHANGED <<part, changing>> => ChangeInv'
<1> SUFFICES ASSUME ChangeInv, UNCHANGED <<part, changing>> PROVE ChangeInv'
  OBVIOUS
<1>1. UNCHANGED <<part, old, new, compareStage, hunks, compared, changed>>
  BY DEF changing
<1>2. \A key : C!Plain(key)' <=> C!Plain(key)
  BY <1>1 DEF C!Plain, C!Sole
<1>3. C!Settled' <=> C!Settled
  BY <1>1 DEF C!Settled
<1>4. /\ C!ReportedOnce' <=> C!ReportedOnce
      /\ C!BreakingFound' <=> C!BreakingFound
      /\ C!LinesAnswered' <=> C!LinesAnswered
  BY <1>1, <1>2, <1>3 DEF C!ReportedOnce, C!BreakingFound, C!LinesAnswered
<1>5. LeftOut(hunks, old, compared)' <=> LeftOut(hunks, old, compared)
  BY <1>1 DEF LeftOut
<1> QED BY <1>1, <1>4, <1>5 DEF ChangeInv

LEMMA ChangeSteps == ChangeInv /\ [PartsNext]_parts => ChangeInv'
<1> SUFFICES ASSUME ChangeInv, [PartsNext]_parts PROVE ChangeInv'
  OBVIOUS
<1>1. CASE part = "change" /\ C!Next /\ part' = part
  BY <1>1, ChangeMoves
<1>2. CASE UNCHANGED <<part, changing>>
  BY <1>2, ChangeStays
<1>3. (part = "change" /\ C!Next /\ part' = part) \/ UNCHANGED <<part, changing>>
  BY Zenon DEF PartsNext, parts
<1> QED BY <1>1, <1>2, <1>3

(* A change is reported once, a changed declaration with both its sides,    *)
(* and every changed line by the definition it lies in, of every two texts, *)
(* every alignment git may choose and every edit after it compared          *)
(* (change.rs `changed_defs`).                                              *)
THEOREM ChangesReportedAlways == PartsSpec => []ChangesReported
<1>1. ChangeInv => ChangesReported
  <2>1. compareStage # "reported" /\ changed = {} => C!ReportedOnce /\ C!BreakingFound /\ C!LinesAnswered
    BY DEF C!ReportedOnce, C!BreakingFound, C!LinesAnswered, C!Settled
  <2> QED BY <2>1 DEF ChangeInv, ChangesReported
<1> QED BY <1>1, ChangeStarts, ChangeSteps, PTL DEF PartsSpec

(* A search of the answers is one of Lines, whatever else moves: what       *)
(* SearchProofs shows of every search holds of these (lib.rs `scan_once`).  *)
THEOREM SearchesAreLines == PartsSpec => LinesSpec
<1>1. PartsInit => LinesInit
  BY DEF PartsInit, ShapeInit
<1>2. [PartsNext]_parts => [Searching]_search
  <2>1. CASE ShapeNext
    BY <2>1 DEF ShapeNext, DoShape, DoKeep
  <2>2. UNCHANGED shaping => UNCHANGED search
    BY Zenon DEF shaping
  <2>3. [PartsNext]_parts => ShapeNext \/ UNCHANGED shaping
    BY Zenon DEF PartsNext, parts
  <2> QED BY <2>1, <2>2, <2>3
<1> QED BY <1>1, <1>2, PTL DEF PartsSpec, LinesSpec

=============================================================================
