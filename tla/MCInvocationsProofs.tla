-------------------------- MODULE MCInvocationsProofs --------------------------
(***************************************************************************)
(* Proofs about MCInvocations.  The first half is about the session log:    *)
(* the folds that measure and read a log, what it means that one still      *)
(* holds what was acknowledged (Holds), the inductive invariant Inv, one    *)
(* lemma for each action, and the theorems.  The second half is about one    *)
(* run of Answer in the same way, for any files, requests and rungs, with    *)
(* AnswerInv.                                                               *)
(***************************************************************************)
EXTENDS MCInvocations, FiniteSetTheorems, SequenceTheorems, TLAPS

-----------------------------------------------------------------------------
(* The folds over a log *)

LEMMA LeastNumber ==
    ASSUME NEW T \in SUBSET Nat, T # {}
    PROVE  \E x \in T : \A y \in T : x <= y
<1> DEFINE R == OpToRel(<, Nat)
<1>1. PICK x \in T : \A y \in T : ~ (<<y, x>> \in R)
  BY NatLessThanWellFounded, WFMin
<1>2. \A y \in T : ~ (y < x)
  BY <1>1 DEF OpToRel
<1> QED BY <1>2

LEMMA GreatestNumber ==
    ASSUME NEW n \in Nat, NEW T \in SUBSET (0 .. n), T # {}
    PROVE  \E x \in T : \A y \in T : y <= x
<1> DEFINE D == {n - x : x \in T}
<1>1. D \in SUBSET Nat /\ D # {}
  <2>1. \A x \in T : n - x \in Nat
    OBVIOUS
  <2>2. PICK x \in T : TRUE
    OBVIOUS
  <2>3. n - x \in D
    BY <2>2
  <2> QED BY <2>1, <2>3
<1>2. PICK d \in D : \A c \in D : d <= c
  BY <1>1, LeastNumber
<1>3. PICK x \in T : d = n - x
  OBVIOUS
<1>4. ASSUME NEW y \in T PROVE y <= x
  <2>1. d <= n - y
    BY <1>2
  <2> QED BY <2>1, <1>3
<1> QED BY <1>4

LEMMA MaxIs ==
    ASSUME NEW n \in Nat, NEW T \in SUBSET (1 .. n), T # {}
    PROVE  Max(T) \in T /\ \A y \in T : y <= Max(T)
<1>1. T \in SUBSET (0 .. n)
  OBVIOUS
<1>2. PICK x \in T : \A y \in T : y <= x
  BY <1>1, GreatestNumber
<1>3. x \in T /\ \A y \in T : x >= y
  BY <1>2
<1>4. Max(T) \in T /\ \A y \in T : Max(T) >= y
  BY <1>3 DEF Max
<1> QED BY <1>4

LEMMA MaxOfFirst ==
    ASSUME NEW n \in Nat \ {0}
    PROVE  Max(1 .. n) = n /\ (1 .. n) \ {n} = 1 .. n - 1
<1>1. 1 .. n \in SUBSET (1 .. n) /\ n \in 1 .. n
  OBVIOUS
<1>2. Max(1 .. n) \in 1 .. n /\ \A y \in 1 .. n : y <= Max(1 .. n)
  BY <1>1, MaxIs
<1>3. Max(1 .. n) = n
  BY <1>1, <1>2
<1> QED BY <1>3

BytesSums(s, it) ==
    it = [T \in SUBSET DOMAIN s |-> IF T = {} THEN 0 ELSE it[T \ {Max(T)}] + s[Max(T)].size]

LEMMA BytesExist ==
    ASSUME NEW s, NEW n \in Nat, DOMAIN s = 1 .. n
    PROVE  \E it : BytesSums(s, it)
<1> DEFINE Eq(m, it) ==
             it = [T \in SUBSET (1 .. m) |->
                       IF T = {} THEN 0 ELSE it[T \ {Max(T)}] + s[Max(T)].size]
           Bad == {m \in Nat : \A it : ~ Eq(m, it)}
<1>1. SUFFICES ASSUME Bad # {} PROVE FALSE
  <2>1. \E it : Eq(n, it)
    <3> HIDE DEF Eq
    <3>1. n \notin Bad
      BY <1>1
    <3> QED BY <3>1
  <2> QED BY <2>1 DEF BytesSums
<1>2. PICK m \in Bad : \A k \in Bad : m <= k
  BY <1>1, LeastNumber
<1>3. m # 0
  <2>1. SUFFICES ASSUME m = 0 PROVE FALSE
    OBVIOUS
  <2> DEFINE it == [T \in SUBSET (1 .. 0) |-> 0]
  <2>2. \A T \in SUBSET (1 .. 0) : T = {}
    OBVIOUS
  <2>3. Eq(0, it)
    BY <2>2
  <2> HIDE DEF it, Eq
  <2> QED BY <2>1, <2>3
<1>4. PICK it : Eq(m - 1, it)
  <2> HIDE DEF Eq
  <2>1. m - 1 \in Nat /\ m - 1 \notin Bad
    BY <1>2, <1>3
  <2> QED BY <2>1
<1> DEFINE new == [T \in SUBSET (1 .. m) |->
                       IF T = {} THEN 0 ELSE it[T \ {Max(T)}] + s[Max(T)].size]
<1>5. ASSUME NEW T \in SUBSET (1 .. m), T # {} PROVE T \ {Max(T)} \in SUBSET (1 .. m - 1)
  <2>1. Max(T) \in T /\ \A y \in T : y <= Max(T)
    BY <1>5, MaxIs
  <2>2. ASSUME NEW y \in T \ {Max(T)} PROVE y \in 1 .. m - 1
    <3>1. y <= Max(T) /\ y \in 1 .. m /\ Max(T) \in 1 .. m /\ y # Max(T)
      BY <2>1
    <3> QED BY <3>1
  <2> QED BY <2>2
<1>6. ASSUME NEW U \in SUBSET (1 .. m - 1) PROVE new[U] = it[U]
  <2>1. U \in SUBSET (1 .. m)
    OBVIOUS
  <2> QED BY <2>1, <1>4
<1>7. \A T \in SUBSET (1 .. m) : T # {} => it[T \ {Max(T)}] = new[T \ {Max(T)}]
  BY <1>5, <1>6
<1> DEFINE again == [T \in SUBSET (1 .. m) |->
                       IF T = {} THEN 0 ELSE new[T \ {Max(T)}] + s[Max(T)].size]
<1>8. new = again
  <2> HIDE DEF new
  <2>1. new = [T \in SUBSET (1 .. m) |->
                       IF T = {} THEN 0 ELSE it[T \ {Max(T)}] + s[Max(T)].size]
    BY DEF new
  <2>2. \A T \in SUBSET (1 .. m) : new[T] = again[T]
    BY <2>1, <1>7
  <2> QED BY <2>1, <2>2
<1>9. Eq(m, new)
  BY <1>8
<1> HIDE DEF new, Eq
<1> QED BY <1>9, <1>2

LEMMA BytesUnfold ==
    ASSUME NEW s, NEW n \in Nat, DOMAIN s = 1 .. n
    PROVE  \E it : BytesSums(s, it) /\ Bytes(s) = it[1 .. n]
<1> DEFINE f == CHOOSE it : BytesSums(s, it)
<1>1. BytesSums(s, f)
  BY BytesExist
<1>2. Bytes(s) = f[DOMAIN s]
  BY DEF Bytes, FoldLeft, MapThenFoldSet, BytesSums
<1> QED BY <1>1, <1>2

LEMMA BytesEmpty == Bytes(<<>>) = 0
<1>1. DOMAIN <<>> = 1 .. 0 /\ 1 .. 0 = {}
  OBVIOUS
<1>2. PICK it : BytesSums(<<>>, it) /\ Bytes(<<>>) = it[1 .. 0]
  BY <1>1, BytesUnfold
<1> QED BY <1>1, <1>2 DEF BytesSums

LEMMA BytesAppend ==
    ASSUME NEW S, NEW s \in Seq(S), NEW x \in S
    PROVE  Bytes(Append(s, x)) = Bytes(s) + x.size
<1> DEFINE t == Append(s, x)  n == Len(s)
<1>1. n \in Nat /\ DOMAIN s = 1 .. n
  BY LenProperties
<1>2. DOMAIN t = 1 .. n + 1 /\ t[n + 1] = x /\ \A i \in 1 .. n : t[i] = s[i]
  BY AppendProperties, <1>1
<1> HIDE DEF t, n
<1>3. PICK f : BytesSums(s, f) /\ Bytes(s) = f[1 .. n]
  BY <1>1, BytesUnfold
<1>4. PICK g : BytesSums(t, g) /\ Bytes(t) = g[1 .. n + 1]
  <2>1. n + 1 \in Nat
    BY <1>1
  <2> QED BY <2>1, <1>2, BytesUnfold
<1> DEFINE Bad == {m \in 0 .. n : f[1 .. m] # g[1 .. m]}
<1>5. Bad = {}
  <2>1. SUFFICES ASSUME Bad # {} PROVE FALSE
    OBVIOUS
  <2>2. PICK m \in Bad : \A k \in Bad : m <= k
    <3>1. Bad \in SUBSET Nat
      BY <1>1
    <3> QED BY <3>1, <2>1, LeastNumber
  <2>3. CASE m = 0
    <3>1. f[{}] = 0 /\ g[{}] = 0
      BY <1>3, <1>4 DEF BytesSums
    <3>2. 1 .. 0 = {}
      OBVIOUS
    <3> QED BY <2>3, <3>1, <3>2
  <2>4. CASE m # 0
    <3>1. m \in Nat \ {0} /\ 1 .. m \in SUBSET DOMAIN s /\ 1 .. m \in SUBSET DOMAIN t /\ 1 .. m # {}
      <4>1. m \in Nat \ {0} /\ m <= n /\ m \in 1 .. m
        BY <1>1, <2>4
      <4>2. 1 .. m \in SUBSET (1 .. n) /\ 1 .. m \in SUBSET (1 .. n + 1)
        BY <4>1, <1>1
      <4>3. 1 .. m # {}
        BY <4>1
      <4> QED BY <4>1, <4>2, <4>3, <1>1, <1>2
    <3>2. Max(1 .. m) = m /\ (1 .. m) \ {m} = 1 .. m - 1
      BY <3>1, MaxOfFirst
    <3>3. f[1 .. m] = f[1 .. m - 1] + s[m].size
      BY <1>3, <1>1, <3>1, <3>2 DEF BytesSums
    <3>4. g[1 .. m] = g[1 .. m - 1] + t[m].size
      BY <1>4, <3>1, <3>2 DEF BytesSums
    <3>5. m - 1 \in 0 .. n /\ m - 1 \notin Bad /\ t[m] = s[m]
      BY <2>2, <2>4, <1>1, <1>2
    <3> QED BY <3>3, <3>4, <3>5
  <2> QED BY <2>3, <2>4
<1>6. f[1 .. n] = g[1 .. n]
  BY <1>5, <1>1
<1>7. g[1 .. n + 1] = g[1 .. n] + t[n + 1].size
  <2>1. n + 1 \in Nat \ {0} /\ 1 .. n + 1 # {} /\ (n + 1) - 1 = n /\ 1 .. n + 1 \in SUBSET DOMAIN t
    <3>1. n + 1 \in Nat \ {0} /\ (n + 1) - 1 = n /\ n + 1 \in 1 .. n + 1
      BY <1>1
    <3> QED BY <3>1, <1>2
  <2>2. Max(1 .. n + 1) = n + 1 /\ (1 .. n + 1) \ {n + 1} = 1 .. n
    BY <2>1, MaxOfFirst
  <2>3. g = [T \in SUBSET DOMAIN t |-> IF T = {} THEN 0 ELSE g[T \ {Max(T)}] + t[Max(T)].size]
    BY <1>4 DEF BytesSums
  <2> QED BY <2>1, <2>2, <2>3
<1> QED BY <1>2, <1>3, <1>4, <1>6, <1>7 DEF t

UsablesSums(now, s, it) ==
    it = [T \in SUBSET DOMAIN s |-> IF T = {} THEN <<>> ELSE (IF Usable(s[Max(T)], now) THEN Append(it[T \ {Max(T)}], s[Max(T)]) ELSE it[T \ {Max(T)}])]

LEMMA UsablesExist ==
    ASSUME NEW s, NEW n \in Nat, DOMAIN s = 1 .. n, NEW now
    PROVE  \E it : UsablesSums(now, s, it)
<1> DEFINE Eq(m, it) ==
             it = [T \in SUBSET (1 .. m) |->
                       IF T = {} THEN <<>> ELSE (IF Usable(s[Max(T)], now) THEN Append(it[T \ {Max(T)}], s[Max(T)]) ELSE it[T \ {Max(T)}])]
           Bad == {m \in Nat : \A it : ~ Eq(m, it)}
<1>1. SUFFICES ASSUME Bad # {} PROVE FALSE
  <2>1. \E it : Eq(n, it)
    <3> HIDE DEF Eq
    <3>1. n \notin Bad
      BY <1>1
    <3> QED BY <3>1
  <2> QED BY <2>1 DEF UsablesSums
<1>2. PICK m \in Bad : \A k \in Bad : m <= k
  BY <1>1, LeastNumber
<1>3. m # 0
  <2>1. SUFFICES ASSUME m = 0 PROVE FALSE
    OBVIOUS
  <2> DEFINE it == [T \in SUBSET (1 .. 0) |-> <<>>]
  <2>2. \A T \in SUBSET (1 .. 0) : T = {}
    OBVIOUS
  <2>3. Eq(0, it)
    BY <2>2
  <2> HIDE DEF it, Eq
  <2> QED BY <2>1, <2>3
<1>4. PICK it : Eq(m - 1, it)
  <2> HIDE DEF Eq
  <2>1. m - 1 \in Nat /\ m - 1 \notin Bad
    BY <1>2, <1>3
  <2> QED BY <2>1
<1> DEFINE new == [T \in SUBSET (1 .. m) |->
                       IF T = {} THEN <<>> ELSE (IF Usable(s[Max(T)], now) THEN Append(it[T \ {Max(T)}], s[Max(T)]) ELSE it[T \ {Max(T)}])]
<1>5. ASSUME NEW T \in SUBSET (1 .. m), T # {} PROVE T \ {Max(T)} \in SUBSET (1 .. m - 1)
  <2>1. Max(T) \in T /\ \A y \in T : y <= Max(T)
    BY <1>5, MaxIs
  <2>2. ASSUME NEW y \in T \ {Max(T)} PROVE y \in 1 .. m - 1
    <3>1. y <= Max(T) /\ y \in 1 .. m /\ Max(T) \in 1 .. m /\ y # Max(T)
      BY <2>1
    <3> QED BY <3>1
  <2> QED BY <2>2
<1>6. ASSUME NEW U \in SUBSET (1 .. m - 1) PROVE new[U] = it[U]
  <2>1. U \in SUBSET (1 .. m)
    OBVIOUS
  <2> QED BY <2>1, <1>4
<1>7. \A T \in SUBSET (1 .. m) : T # {} => it[T \ {Max(T)}] = new[T \ {Max(T)}]
  BY <1>5, <1>6
<1> DEFINE again == [T \in SUBSET (1 .. m) |->
                       IF T = {} THEN <<>> ELSE (IF Usable(s[Max(T)], now) THEN Append(new[T \ {Max(T)}], s[Max(T)]) ELSE new[T \ {Max(T)}])]
<1>8. new = again
  <2> HIDE DEF new
  <2>1. new = [T \in SUBSET (1 .. m) |->
                       IF T = {} THEN <<>> ELSE (IF Usable(s[Max(T)], now) THEN Append(it[T \ {Max(T)}], s[Max(T)]) ELSE it[T \ {Max(T)}])]
    BY DEF new
  <2>2. \A T \in SUBSET (1 .. m) : new[T] = again[T]
    BY <2>1, <1>7
  <2> QED BY <2>1, <2>2
<1>9. Eq(m, new)
  BY <1>8
<1> HIDE DEF new, Eq
<1> QED BY <1>9, <1>2

LEMMA UsablesUnfold ==
    ASSUME NEW s, NEW n \in Nat, DOMAIN s = 1 .. n, NEW now
    PROVE  \E it : UsablesSums(now, s, it) /\ Usables(s, now) = it[1 .. n]
<1> DEFINE f == CHOOSE it : UsablesSums(now, s, it)
<1>1. UsablesSums(now, s, f)
  BY UsablesExist
<1>2. Usables(s, now) = f[DOMAIN s]
  BY DEF Usables, FoldLeft, MapThenFoldSet, UsablesSums
<1> QED BY <1>1, <1>2

LEMMA UsablesEmpty ==
    ASSUME NEW now
    PROVE  Usables(<<>>, now) = <<>>
<1>1. DOMAIN <<>> = 1 .. 0 /\ 1 .. 0 = {}
  OBVIOUS
<1>2. PICK it : UsablesSums(now, <<>>, it) /\ Usables(<<>>, now) = it[1 .. 0]
  BY <1>1, UsablesUnfold
<1> QED BY <1>1, <1>2 DEF UsablesSums

LEMMA UsablesAppend ==
    ASSUME NEW S, NEW s \in Seq(S), NEW x \in S, NEW now
    PROVE  Usables(Append(s, x), now) = (IF Usable(x, now) THEN Append(Usables(s, now), x) ELSE Usables(s, now))
<1> DEFINE t == Append(s, x)  n == Len(s)
<1>1. n \in Nat /\ DOMAIN s = 1 .. n
  BY LenProperties
<1>2. DOMAIN t = 1 .. n + 1 /\ t[n + 1] = x /\ \A i \in 1 .. n : t[i] = s[i]
  BY AppendProperties, <1>1
<1> HIDE DEF t, n
<1>3. PICK f : UsablesSums(now, s, f) /\ Usables(s, now) = f[1 .. n]
  BY <1>1, UsablesUnfold
<1>4. PICK g : UsablesSums(now, t, g) /\ Usables(t, now) = g[1 .. n + 1]
  <2>1. n + 1 \in Nat
    BY <1>1
  <2> QED BY <2>1, <1>2, UsablesUnfold
<1> DEFINE Bad == {m \in 0 .. n : f[1 .. m] # g[1 .. m]}
<1>5. Bad = {}
  <2>1. SUFFICES ASSUME Bad # {} PROVE FALSE
    OBVIOUS
  <2>2. PICK m \in Bad : \A k \in Bad : m <= k
    <3>1. Bad \in SUBSET Nat
      BY <1>1
    <3> QED BY <3>1, <2>1, LeastNumber
  <2>3. CASE m = 0
    <3>1. f[{}] = <<>> /\ g[{}] = <<>>
      BY <1>3, <1>4 DEF UsablesSums
    <3>2. 1 .. 0 = {}
      OBVIOUS
    <3> QED BY <2>3, <3>1, <3>2
  <2>4. CASE m # 0
    <3>1. m \in Nat \ {0} /\ 1 .. m \in SUBSET DOMAIN s /\ 1 .. m \in SUBSET DOMAIN t /\ 1 .. m # {}
      <4>1. m \in Nat \ {0} /\ m <= n /\ m \in 1 .. m
        BY <1>1, <2>4
      <4>2. 1 .. m \in SUBSET (1 .. n) /\ 1 .. m \in SUBSET (1 .. n + 1)
        BY <4>1, <1>1
      <4>3. 1 .. m # {}
        BY <4>1
      <4> QED BY <4>1, <4>2, <4>3, <1>1, <1>2
    <3>2. Max(1 .. m) = m /\ (1 .. m) \ {m} = 1 .. m - 1
      BY <3>1, MaxOfFirst
    <3>3. f[1 .. m] = (IF Usable(s[m], now) THEN Append(f[1 .. m - 1], s[m]) ELSE f[1 .. m - 1])
      BY <1>3, <1>1, <3>1, <3>2 DEF UsablesSums
    <3>4. g[1 .. m] = (IF Usable(t[m], now) THEN Append(g[1 .. m - 1], t[m]) ELSE g[1 .. m - 1])
      BY <1>4, <3>1, <3>2 DEF UsablesSums
    <3>5. m - 1 \in 0 .. n /\ m - 1 \notin Bad /\ t[m] = s[m]
      BY <2>2, <2>4, <1>1, <1>2
    <3> QED BY <3>3, <3>4, <3>5
  <2> QED BY <2>3, <2>4
<1>6. f[1 .. n] = g[1 .. n]
  BY <1>5, <1>1
<1>7. g[1 .. n + 1] = (IF Usable(t[n + 1], now) THEN Append(g[1 .. n], t[n + 1]) ELSE g[1 .. n])
  <2>1. n + 1 \in Nat \ {0} /\ 1 .. n + 1 # {} /\ (n + 1) - 1 = n /\ 1 .. n + 1 \in SUBSET DOMAIN t
    <3>1. n + 1 \in Nat \ {0} /\ (n + 1) - 1 = n /\ n + 1 \in 1 .. n + 1
      BY <1>1
    <3> QED BY <3>1, <1>2
  <2>2. Max(1 .. n + 1) = n + 1 /\ (1 .. n + 1) \ {n + 1} = 1 .. n
    BY <2>1, MaxOfFirst
  <2>3. g = [T \in SUBSET DOMAIN t |-> IF T = {} THEN <<>> ELSE (IF Usable(t[Max(T)], now) THEN Append(g[T \ {Max(T)}], t[Max(T)]) ELSE g[T \ {Max(T)}])]
    BY <1>4 DEF UsablesSums
  <2> QED BY <2>1, <2>2, <2>3
<1> QED BY <1>2, <1>3, <1>4, <1>6, <1>7 DEF t

-----------------------------------------------------------------------------
(* Sequences of records and the records picked from them *)

LEMMA NewestIs ==
    ASSUME NEW S, NEW s \in Seq(S), NEW n \in 0 .. Len(s)
    PROVE  /\ Newest(s, n) \in Seq(S) /\ Len(Newest(s, n)) = n
           /\ \A i \in 1 .. n : Newest(s, n)[i] = s[Len(s) - n + i]
<1> DEFINE a == Len(s) - n + 1  t == SubSeq(s, a, Len(s))
<1>1. Len(s) \in Nat /\ n \in Nat /\ n <= Len(s) /\ \A i \in 1 .. Len(s) : s[i] \in S
  BY LenProperties, ElementOfSeq
<1>2. CASE n = 0
  <2>1. t = <<>>
    BY <1>1, <1>2, SubSeqEmpty
  <2> QED BY <1>2, <2>1, EmptySeq DEF Newest
<1>3. CASE n # 0
  <2>1. a \in 1 .. Len(s) /\ Len(s) - a + 1 = n /\ \A i \in 1 .. n : a + i - 1 = Len(s) - n + i
    BY <1>1, <1>3
  <2>2. /\ t \in Seq(S) /\ Len(t) = n
        /\ \A i \in 1 .. n : t[i] = s[a + i - 1]
    BY <1>1, <2>1, SubSeqProperties
  <2> QED BY <2>1, <2>2 DEF Newest
<1> QED BY <1>2, <1>3

LEMMA NewestAppend ==
    ASSUME NEW S, NEW s \in Seq(S), NEW r \in S, NEW n \in 0 .. Len(s)
    PROVE  Newest(Append(s, r), n + 1) = Append(Newest(s, n), r)
<1> DEFINE t == Append(s, r)  u == Newest(t, n + 1)  v == Newest(s, n)  w == Append(v, r)
<1>1. Len(s) \in Nat /\ n \in Nat /\ n <= Len(s)
  BY LenProperties
<1>2. t \in Seq(S) /\ Len(t) = Len(s) + 1 /\ t[Len(s) + 1] = r /\ \A i \in 1 .. Len(s) : t[i] = s[i]
  BY AppendProperties
<1> HIDE DEF t
<1>3. /\ u \in Seq(S) /\ Len(u) = n + 1
      /\ \A i \in 1 .. n + 1 : u[i] = t[Len(t) - (n + 1) + i]
  <2>1. n + 1 \in 0 .. Len(t)
    BY <1>1, <1>2
  <2> QED BY <2>1, <1>2, NewestIs
<1>4. v \in Seq(S) /\ Len(v) = n /\ \A i \in 1 .. n : v[i] = s[Len(s) - n + i]
  BY NewestIs
<1> HIDE DEF u, v
<1>5. w \in Seq(S) /\ Len(w) = n + 1 /\ w[n + 1] = r /\ \A i \in 1 .. n : w[i] = v[i]
  BY <1>4, AppendProperties
<1> HIDE DEF w
<1>6. ASSUME NEW i \in 1 .. Len(u) PROVE u[i] = w[i]
  <2>1. i \in 1 .. n + 1 /\ i \in Nat /\ Len(t) - (n + 1) + i = Len(s) - n + i
    BY <1>1, <1>2, <1>3
  <2>2. CASE i = n + 1
    <3>1. Len(s) - n + i = Len(s) + 1
      BY <1>1, <2>2
    <3> QED BY <2>1, <2>2, <3>1, <1>2, <1>3, <1>5
  <2>3. CASE i # n + 1
    <3>1. i \in 1 .. n /\ Len(s) - n + i \in 1 .. Len(s)
      BY <1>1, <2>1, <2>3
    <3>2. u[i] = t[Len(s) - n + i] /\ t[Len(s) - n + i] = s[Len(s) - n + i]
      BY <2>1, <3>1, <1>2, <1>3
    <3>3. w[i] = v[i] /\ v[i] = s[Len(s) - n + i]
      BY <3>1, <1>4, <1>5
    <3> QED BY <3>2, <3>3
  <2> QED BY <2>2, <2>3
<1>7. u = w
  BY <1>3, <1>5, <1>6, SeqEqual
<1> QED BY <1>7 DEF t, u, v, w

\* A sequence that is not empty is one that ends with its last element.
LEMMA LastSplit ==
    ASSUME NEW S, NEW s \in Seq(S), Len(s) # 0
    PROVE  \E t \in Seq(S), x \in S : s = Append(t, x) /\ Len(t) = Len(s) - 1
<1> DEFINE n == Len(s)  t == SubSeq(s, 1, n - 1)  u == Append(t, s[n])
<1>1. n \in Nat \ {0} /\ \A i \in 1 .. n : s[i] \in S
  BY LenProperties, ElementOfSeq
<1>2. t \in Seq(S) /\ Len(t) = n - 1 /\ \A i \in 1 .. n - 1 : t[i] = s[i]
  <2>1. CASE n = 1
    <3>1. t = <<>>
      BY <2>1, SubSeqEmpty
    <3> QED BY <2>1, <3>1, EmptySeq
  <2>2. CASE n # 1
    <3>1. n - 1 \in 1 .. n /\ n - 1 - 1 + 1 = n - 1 /\ 1 <= n - 1
      <4>1. n \in Nat /\ n # 0 /\ n # 1
        BY <1>1, <2>2
      <4> HIDE DEF n
      <4> QED BY <4>1
    <3>2. \A i \in 1 .. n - 1 : i \in 1 .. n /\ 1 + i - 1 = i
      BY <1>1
    <3>3. \A i \in 1 .. n - 1 : s[i] \in S
      BY <1>1, <3>2
    <3>4. t \in Seq(S) /\ Len(t) = n - 1 /\ \A i \in 1 .. n - 1 : t[i] = s[1 + i - 1]
      BY <1>1, <3>1, <3>3, SubSeqProperties
    <3> QED BY <3>2, <3>4
  <2> QED BY <2>1, <2>2
<1> HIDE DEF t
<1>3. s[n] \in S
  BY <1>1
<1>4. u \in Seq(S) /\ Len(u) = Len(t) + 1 /\ u[Len(t) + 1] = s[n] /\ \A i \in 1 .. Len(t) : u[i] = t[i]
  BY <1>2, <1>3, AppendProperties
<1> HIDE DEF u
<1>5. ASSUME NEW i \in 1 .. Len(s) PROVE s[i] = u[i]
  <2>1. i = n \/ i \in 1 .. n - 1
    BY <1>1
  <2> QED BY <2>1, <1>2, <1>4, <1>1
<1>6. Len(u) = Len(s)
  BY <1>1, <1>2, <1>4
<1>7. s = u
  BY <1>4, <1>5, <1>6, SeqEqual
<1> QED BY <1>2, <1>3, <1>7 DEF u

LEMMA BytesType ==
    ASSUME NEW s \in Seq(Record)
    PROVE  Bytes(s) \in Nat
<1> DEFINE Bad == {n \in Nat : \E u \in Seq(Record) : Len(u) = n /\ Bytes(u) \notin Nat}
<1>1. SUFFICES ASSUME Bad # {} PROVE FALSE
  <2>1. Len(s) \in Nat /\ Len(s) \notin Bad
    BY <1>1, LenProperties
  <2> QED BY <2>1
<1>2. PICK n \in Bad : \A m \in Bad : n <= m
  BY <1>1, LeastNumber
<1>3. PICK u \in Seq(Record) : Len(u) = n /\ Bytes(u) \notin Nat
  OBVIOUS
<1>4. n # 0
  <2>1. SUFFICES ASSUME n = 0 PROVE FALSE
    OBVIOUS
  <2>2. u = <<>>
    BY <2>1, <1>3, EmptySeq
  <2> QED BY <2>2, <1>3, BytesEmpty
<1>5. PICK t \in Seq(Record), x \in Record : u = Append(t, x) /\ Len(t) = n - 1
  <2>1. Len(u) # 0 /\ Len(u) = n /\ u \in Seq(Record)
    BY <1>3, <1>4
  <2>2. \E t \in Seq(Record), x \in Record : u = Append(t, x) /\ Len(t) = Len(u) - 1
    BY <2>1, LastSplit
  <2> QED BY <2>1, <2>2
<1>6. Bytes(u) = Bytes(t) + x.size
  BY <1>5, BytesAppend
<1>7. n - 1 \in Nat /\ n - 1 \notin Bad
  BY <1>2, <1>4
<1>8. Bytes(t) \in Nat /\ x.size \in Nat
  BY <1>5, <1>7 DEF Record
<1> QED BY <1>3, <1>6, <1>8

\* `s` is the records of `t` at the places `e`, in order.
Picks(s, e, t) ==
    /\ s \in Seq(Record) /\ t \in Seq(Record)
    /\ e \in [1 .. Len(s) -> 1 .. Len(t)]
    /\ \A i, j \in 1 .. Len(s) : i < j => e[i] < e[j]
    /\ \A i \in 1 .. Len(s) : s[i] = t[e[i]]

LEMMA PicksAppend ==
    ASSUME NEW s, NEW e, NEW t, Picks(s, e, t), NEW r \in Record, NEW x, x = Len(t) + 1
    PROVE  /\ Picks(s, e, Append(t, r))
           /\ Picks(Append(s, r), [i \in 1 .. Len(s) + 1 |-> IF i <= Len(s) THEN e[i] ELSE x],
                    Append(t, r))
<1> DEFINE u == Append(s, r)  v == Append(t, r)
           f == [i \in 1 .. Len(s) + 1 |-> IF i <= Len(s) THEN e[i] ELSE x]
<1>1. s \in Seq(Record) /\ t \in Seq(Record) /\ Len(s) \in Nat /\ Len(t) \in Nat
  BY LenProperties DEF Picks
<1>2. /\ e \in [1 .. Len(s) -> 1 .. Len(t)] /\ \A i, j \in 1 .. Len(s) : i < j => e[i] < e[j]
      /\ \A i \in 1 .. Len(s) : s[i] = t[e[i]]
  BY DEF Picks
<1>3. u \in Seq(Record) /\ Len(u) = Len(s) + 1 /\ u[Len(s) + 1] = r /\ \A i \in 1 .. Len(s) : u[i] = s[i]
  BY <1>1, AppendProperties
<1>4. v \in Seq(Record) /\ Len(v) = Len(t) + 1 /\ v[Len(t) + 1] = r /\ \A i \in 1 .. Len(t) : v[i] = t[i]
  BY <1>1, AppendProperties
<1> HIDE DEF u, v
<1>5. Picks(s, e, v)
  <2>1. e \in [1 .. Len(s) -> 1 .. Len(v)]
    <3>1. 1 .. Len(t) \subseteq 1 .. Len(v)
      BY <1>1, <1>4
    <3> QED BY <3>1, <1>2
  <2>2. \A i \in 1 .. Len(s) : s[i] = v[e[i]]
    BY <1>2, <1>4
  <2> QED BY <2>1, <2>2, <1>1, <1>2, <1>4 DEF Picks
<1>6. f \in [1 .. Len(u) -> 1 .. Len(v)]
  <2>1. \A i \in 1 .. Len(s) + 1 : (IF i <= Len(s) THEN e[i] ELSE x) \in 1 .. Len(v)
    <3> TAKE i \in 1 .. Len(s) + 1
    <3>1. CASE i <= Len(s)
      <4>1. e[i] \in 1 .. Len(t)
        BY <1>1, <1>2, <3>1
      <4> QED BY <4>1, <3>1, <1>1, <1>4
    <3>2. CASE ~(i <= Len(s))
      BY <3>2, <1>1, <1>4
    <3> QED BY <3>1, <3>2
  <2> QED BY <2>1, <1>3
<1>7. \A i \in 1 .. Len(s) : f[i] = e[i] /\ f[i] \in 1 .. Len(t)
  BY <1>1, <1>2
<1>8. f[Len(s) + 1] = Len(t) + 1
  BY <1>1
<1> HIDE DEF f
<1>9. ASSUME NEW i \in 1 .. Len(u), NEW j \in 1 .. Len(u), i < j PROVE f[i] < f[j]
  <2>1. i \in 1 .. Len(s)
    BY <1>1, <1>3, <1>9
  <2>2. CASE j \in 1 .. Len(s)
    BY <2>1, <2>2, <1>7, <1>2, <1>9
  <2>3. CASE j = Len(s) + 1
    BY <2>1, <2>3, <1>1, <1>7, <1>8
  <2> QED BY <2>2, <2>3, <1>1, <1>3
<1>10. ASSUME NEW i \in 1 .. Len(u) PROVE u[i] = v[f[i]]
  <2>1. CASE i \in 1 .. Len(s)
    <3>1. u[i] = s[i] /\ s[i] = t[e[i]]
      BY <2>1, <1>2, <1>3
    <3>2. v[f[i]] = t[f[i]] /\ f[i] = e[i]
      BY <2>1, <1>4, <1>7
    <3> QED BY <3>1, <3>2
  <2>2. CASE i = Len(s) + 1
    BY <2>2, <1>3, <1>4, <1>8
  <2> QED BY <2>1, <2>2, <1>1, <1>3
<1>11. Picks(u, f, v)
  BY <1>3, <1>4, <1>6, <1>9, <1>10 DEF Picks
<1> QED BY <1>5, <1>11 DEF u, v, f

LEMMA PicksCompose ==
    ASSUME NEW s, NEW e, NEW t, NEW f, NEW u, Picks(s, e, t), Picks(t, f, u)
    PROVE  Picks(s, [i \in 1 .. Len(s) |-> f[e[i]]], u)
<1>1. Len(s) \in Nat /\ Len(t) \in Nat /\ Len(u) \in Nat
  BY LenProperties DEF Picks
<1> DEFINE g == [i \in 1 .. Len(s) |-> f[e[i]]]
<1>2. \A i \in 1 .. Len(s) : e[i] \in 1 .. Len(t) /\ g[i] = f[e[i]] /\ f[e[i]] \in 1 .. Len(u)
  BY DEF Picks
<1>3. g \in [1 .. Len(s) -> 1 .. Len(u)]
  BY <1>2
<1> HIDE DEF g
<1>4. ASSUME NEW i \in 1 .. Len(s), NEW j \in 1 .. Len(s), i < j PROVE g[i] < g[j]
  <2>1. e[i] < e[j]
    BY <1>4 DEF Picks
  <2>2. f[e[i]] < f[e[j]]
    BY <2>1, <1>2 DEF Picks
  <2> QED BY <2>2, <1>2
<1>5. \A i \in 1 .. Len(s) : s[i] = u[g[i]]
  BY <1>2 DEF Picks
<1>6. Picks(s, g, u)
  BY <1>3, <1>4, <1>5 DEF Picks
<1> QED BY <1>6 DEF g

LEMMA NewestPicks ==
    ASSUME NEW s \in Seq(Record), NEW n \in 0 .. Len(s)
    PROVE  Picks(Newest(s, n), [i \in 1 .. n |-> Len(s) - n + i], s)
<1>1. Len(s) \in Nat /\ n \in Nat /\ n <= Len(s)
  BY LenProperties
<1>2. /\ Newest(s, n) \in Seq(Record) /\ Len(Newest(s, n)) = n
      /\ \A i \in 1 .. n : Newest(s, n)[i] = s[Len(s) - n + i]
  BY NewestIs
<1> DEFINE e == [i \in 1 .. n |-> Len(s) - n + i]
<1>3. e \in [1 .. n -> 1 .. Len(s)] /\ \A i \in 1 .. n : e[i] = Len(s) - n + i
  BY <1>1
<1> HIDE DEF e
<1>4. \A i, j \in 1 .. n : i < j => e[i] < e[j]
  BY <1>1, <1>3
<1>5. Picks(Newest(s, n), e, s)
  BY <1>2, <1>3, <1>4 DEF Picks
<1> QED BY <1>5 DEF e

\* As many records come after a picked one as after it among the picked.
LEMMA PicksCount ==
    ASSUME NEW s, NEW e, NEW t, Picks(s, e, t)
    PROVE  /\ \A i \in 1 .. Len(s) : Len(s) - i <= Len(t) - e[i]
           /\ Len(s) <= Len(t)
<1>1. Len(s) \in Nat /\ Len(t) \in Nat /\ \A i \in 1 .. Len(s) : e[i] \in 1 .. Len(t) /\ e[i] \in Nat
  BY LenProperties DEF Picks
<1> DEFINE Bad == {m \in Nat : m < Len(s) /\ ~ (m <= Len(t) - e[Len(s) - m])}
<1>2. Bad = {}
  <2>1. SUFFICES ASSUME Bad # {} PROVE FALSE
    OBVIOUS
  <2>2. PICK m \in Bad : \A k \in Bad : m <= k
    BY <2>1, LeastNumber
  <2>3. m # 0
    <3>1. SUFFICES ASSUME m = 0 PROVE FALSE
      OBVIOUS
    <3>2. Len(s) - m = Len(s) /\ Len(s) \in 1 .. Len(s)
      BY <1>1, <3>1, <2>2
    <3> QED BY <3>1, <3>2, <1>1
  <2> DEFINE i == Len(s) - m
  <2>4. /\ m - 1 \in Nat /\ m - 1 < Len(s) /\ i \in 1 .. Len(s) /\ i + 1 \in 1 .. Len(s)
        /\ Len(s) - (m - 1) = i + 1
    BY <1>1, <2>3
  <2>5. m - 1 <= Len(t) - e[i + 1]
    BY <2>2, <2>4
  <2>6. e[i] < e[i + 1]
    <3>1. \A j, k \in 1 .. Len(s) : j < k => e[j] < e[k]
      BY DEF Picks
    <3>2. i < i + 1
      BY <2>4
    <3> HIDE DEF i
    <3> QED BY <3>1, <3>2, <2>4
  <2> QED BY <2>4, <2>5, <2>6, <1>1
<1>3. ASSUME NEW i \in 1 .. Len(s) PROVE Len(s) - i <= Len(t) - e[i]
  <2>1. Len(s) - i \in Nat /\ Len(s) - i < Len(s) /\ Len(s) - (Len(s) - i) = i
    BY <1>1
  <2> QED BY <2>1, <1>2
<1>4. Len(s) <= Len(t)
  <2>1. CASE Len(s) = 0
    BY <2>1, <1>1
  <2>2. CASE Len(s) # 0
    <3>1. 1 \in 1 .. Len(s)
      BY <1>1, <2>2
    <3> QED BY <3>1, <1>1, <1>3
  <2> QED BY <2>1, <2>2
<1> QED BY <1>3, <1>4

LEMMA PicksBytes ==
    ASSUME NEW s, NEW e, NEW t, Picks(s, e, t)
    PROVE  Bytes(s) <= Bytes(t)
<1> DEFINE Bad == {n \in Nat : \E a, f, b : Picks(a, f, b) /\ Len(b) = n /\ ~ (Bytes(a) <= Bytes(b))}
<1>1. SUFFICES ASSUME Bad # {} PROVE FALSE
  <2>1. Len(t) \in Nat /\ Len(t) \notin Bad
    BY <1>1, LenProperties DEF Picks
  <2> QED BY <2>1
<1>2. PICK n \in Bad : \A m \in Bad : n <= m
  BY <1>1, LeastNumber
<1>3. PICK a, f, b : Picks(a, f, b) /\ Len(b) = n /\ ~ (Bytes(a) <= Bytes(b))
  OBVIOUS
<1>4. /\ a \in Seq(Record) /\ b \in Seq(Record) /\ Len(a) \in Nat /\ Len(b) \in Nat
      /\ Bytes(a) \in Nat /\ Bytes(b) \in Nat
  BY <1>3, LenProperties, BytesType DEF Picks
<1>5. Len(a) # 0
  <2>1. SUFFICES ASSUME Len(a) = 0 PROVE FALSE
    OBVIOUS
  <2>2. a = <<>>
    BY <2>1, <1>4, EmptySeq
  <2> QED BY <2>2, <1>3, <1>4, BytesEmpty
<1>6. f[Len(a)] \in 1 .. n /\ n # 0
  <2>1. f \in [1 .. Len(a) -> 1 .. n]
    BY <1>3 DEF Picks
  <2>2. Len(a) \in 1 .. Len(a)
    BY <1>4, <1>5
  <2> QED BY <2>1, <2>2
<1>7. PICK a0 \in Seq(Record), x \in Record : a = Append(a0, x) /\ Len(a0) = Len(a) - 1
  BY <1>4, <1>5, LastSplit
<1>8. PICK b0 \in Seq(Record), y \in Record : b = Append(b0, y) /\ Len(b0) = n - 1
  <2>1. Len(b) # 0 /\ Len(b) = n /\ b \in Seq(Record)
    BY <1>3, <1>4, <1>6
  <2>2. \E c0 \in Seq(Record), z \in Record : b = Append(c0, z) /\ Len(c0) = Len(b) - 1
    BY <2>1, LastSplit
  <2> QED BY <2>1, <2>2
<1>9. /\ Bytes(a) = Bytes(a0) + x.size /\ Bytes(b) = Bytes(b0) + y.size
      /\ Bytes(a0) \in Nat /\ Bytes(b0) \in Nat /\ x.size \in Nat /\ y.size \in Nat
  BY <1>7, <1>8, BytesAppend, BytesType DEF Record
<1>10. /\ \A i \in 1 .. Len(a) - 1 : a[i] = a0[i]
       /\ \A i \in 1 .. n - 1 : b[i] = b0[i]
       /\ a[Len(a)] = x /\ b[n] = y
  BY <1>3, <1>4, <1>6, <1>7, <1>8, AppendProperties
<1>11. /\ \A i \in 1 .. Len(a) : f[i] \in 1 .. n /\ a[i] = b[f[i]]
       /\ \A i, j \in 1 .. Len(a) : i < j => f[i] < f[j]
  BY <1>3 DEF Picks
<1>12. n - 1 \in Nat /\ n - 1 \notin Bad
  BY <1>2, <1>6
<1>13. \A c, g, d : Picks(c, g, d) /\ Len(d) = n - 1 => Bytes(c) <= Bytes(d)
  BY <1>12
<1>14. CASE f[Len(a)] = n
  <2> DEFINE g == [i \in 1 .. Len(a0) |-> f[i]]
  <2>1. \A i \in 1 .. Len(a) - 1 : f[i] \in 1 .. n - 1
    <3> TAKE i \in 1 .. Len(a) - 1
    <3>1. i \in 1 .. Len(a) /\ Len(a) \in 1 .. Len(a) /\ i < Len(a)
      BY <1>4
    <3> QED BY <3>1, <1>11, <1>14
  <2>2. Picks(a0, g, b0)
    <3>1. g \in [1 .. Len(a0) -> 1 .. Len(b0)] /\ \A i \in 1 .. Len(a0) : g[i] = f[i]
      BY <2>1, <1>7, <1>8
    <3> HIDE DEF g
    <3>2. \A i \in 1 .. Len(a0) : i \in 1 .. Len(a)
      BY <1>4, <1>7
    <3>3. \A i, j \in 1 .. Len(a0) : i < j => g[i] < g[j]
      BY <3>1, <3>2, <1>11
    <3>4. \A i \in 1 .. Len(a0) : a0[i] = b0[g[i]]
      BY <3>1, <3>2, <2>1, <1>7, <1>10, <1>11
    <3> QED BY <3>1, <3>3, <3>4 DEF Picks
  <2>3. Bytes(a0) <= Bytes(b0)
    BY <2>2, <1>8, <1>13
  <2>4. x = y
    BY <1>14, <1>10, <1>11, <1>4, <1>5
  <2> QED BY <2>3, <2>4, <1>3, <1>9
<1>15. CASE f[Len(a)] # n
  <2>1. \A i \in 1 .. Len(a) : f[i] \in 1 .. n - 1
    <3> TAKE i \in 1 .. Len(a)
    <3>1. Len(a) \in 1 .. Len(a) /\ (i < Len(a) \/ i = Len(a))
      BY <1>4, <1>5
    <3>2. f[i] <= f[Len(a)] /\ f[Len(a)] < n
      BY <3>1, <1>11, <1>15
    <3> QED BY <3>2, <1>11
  <2>2. Picks(a, f, b0)
    <3>1. f \in [1 .. Len(a) -> 1 .. Len(b0)]
      BY <2>1, <1>3, <1>8 DEF Picks
    <3>2. \A i \in 1 .. Len(a) : a[i] = b0[f[i]]
      BY <2>1, <1>10, <1>11
    <3> QED BY <3>1, <3>2, <1>4, <1>11 DEF Picks
  <2>3. Bytes(a) <= Bytes(b0)
    BY <2>2, <1>8, <1>13
  <2> QED BY <2>3, <1>3, <1>9, <1>4
<1> QED BY <1>14, <1>15

LEMMA UsablesPicks ==
    ASSUME NEW s \in Seq(Record), NEW now
    PROVE  \E e : /\ Picks(Usables(s, now), e, s)
                  /\ \A i \in 1 .. Len(s) : Usable(s[i], now) =>
                         \E j \in 1 .. Len(Usables(s, now)) : e[j] = i
<1> DEFINE Good(u, e) ==
             /\ Picks(Usables(u, now), e, u)
             /\ \A i \in 1 .. Len(u) : Usable(u[i], now) =>
                    \E j \in 1 .. Len(Usables(u, now)) : e[j] = i
           Bad == {n \in Nat : \E u \in Seq(Record) : Len(u) = n /\ \A e : ~ Good(u, e)}
<1>1. SUFFICES ASSUME Bad # {} PROVE FALSE
  <2> HIDE DEF Good
  <2>1. Len(s) \in Nat /\ Len(s) \notin Bad
    BY <1>1, LenProperties
  <2>2. \E e : Good(s, e)
    BY <2>1
  <2> QED BY <2>2 DEF Good
<1>2. PICK n \in Bad : \A m \in Bad : n <= m
  BY <1>1, LeastNumber
<1>3. PICK u \in Seq(Record) : Len(u) = n /\ \A e : ~ Good(u, e)
  OBVIOUS
<1>4. n # 0
  <2>1. SUFFICES ASSUME n = 0 PROVE FALSE
    OBVIOUS
  <2>2. u = <<>> /\ Usables(<<>>, now) = <<>>
    BY <2>1, <1>3, EmptySeq, UsablesEmpty
  <2> DEFINE e == [i \in 1 .. 0 |-> 0]
  <2>3. <<>> \in Seq(Record) /\ Len(<<>>) = 0
    BY EmptySeq
  <2>4. Picks(<<>>, e, <<>>)
    BY <2>3 DEF Picks
  <2>5. Good(u, e)
    BY <2>2, <2>3, <2>4
  <2> HIDE DEF Good
  <2> QED BY <2>5, <1>3
<1>5. PICK t \in Seq(Record), x \in Record : u = Append(t, x) /\ Len(t) = n - 1
  <2>1. Len(u) # 0 /\ Len(u) = n /\ u \in Seq(Record)
    BY <1>3, <1>4
  <2>2. \E t \in Seq(Record), x \in Record : u = Append(t, x) /\ Len(t) = Len(u) - 1
    BY <2>1, LastSplit
  <2> QED BY <2>1, <2>2
<1>6. PICK e : Good(t, e)
  <2> HIDE DEF Good
  <2>1. n - 1 \in Nat /\ n - 1 \notin Bad
    BY <1>2, <1>4
  <2> QED BY <2>1, <1>5
<1> DEFINE v == Usables(t, now)
<1>7. Usables(u, now) = IF Usable(x, now) THEN Append(v, x) ELSE v
  BY <1>5, UsablesAppend
<1>8. Picks(v, e, t) /\ \A i \in 1 .. Len(t) : Usable(t[i], now) => \E j \in 1 .. Len(v) : e[j] = i
  BY <1>6
<1> HIDE DEF v
<1>9. Len(u) = Len(t) + 1 /\ u[Len(t) + 1] = x /\ \A i \in 1 .. Len(t) : u[i] = t[i]
  BY <1>5, AppendProperties
<1>10. Len(t) \in Nat /\ Len(v) \in Nat
  BY <1>8, LenProperties DEF Picks
<1>11. CASE ~ Usable(x, now)
  <2>1. Picks(v, e, u)
    BY <1>5, <1>8, PicksAppend
  <2>2. \A i \in 1 .. Len(u) : Usable(u[i], now) => \E j \in 1 .. Len(v) : e[j] = i
    <3> TAKE i \in 1 .. Len(u)
    <3>1. i \in 1 .. Len(t) \/ i = Len(t) + 1
      BY <1>9, <1>10
    <3> QED BY <3>1, <1>8, <1>9, <1>11
  <2>3. Usables(u, now) = v
    BY <1>7, <1>11
  <2>4. Good(u, e)
    BY <2>1, <2>2, <2>3
  <2> HIDE DEF Good
  <2> QED BY <2>4, <1>3
<1>12. CASE Usable(x, now)
  <2> DEFINE w == Append(v, x)
             f == [i \in 1 .. Len(v) + 1 |-> IF i <= Len(v) THEN e[i] ELSE Len(t) + 1]
  <2>1. Picks(w, f, u)
    BY <1>5, <1>8, PicksAppend
  <2>2. Len(w) = Len(v) + 1
    BY <1>8, AppendProperties DEF Picks
  <2> HIDE DEF w
  <2>3. (\A j \in 1 .. Len(v) : f[j] = e[j]) /\ f[Len(v) + 1] = Len(t) + 1
    BY <1>10
  <2> HIDE DEF f
  <2>4. \A i \in 1 .. Len(u) : Usable(u[i], now) => \E j \in 1 .. Len(w) : f[j] = i
    <3> TAKE i \in 1 .. Len(u)
    <3>1. CASE i \in 1 .. Len(t)
      <4>1. SUFFICES ASSUME Usable(u[i], now) PROVE \E j \in 1 .. Len(w) : f[j] = i
        OBVIOUS
      <4>2. PICK j \in 1 .. Len(v) : e[j] = i
        BY <4>1, <3>1, <1>8, <1>9
      <4>3. j \in 1 .. Len(w)
        BY <2>2, <1>10
      <4> QED BY <4>2, <4>3, <2>3
    <3>2. CASE i = Len(t) + 1
      <4>1. Len(v) + 1 \in 1 .. Len(w)
        BY <2>2, <1>10
      <4> QED BY <4>1, <2>3, <3>2
    <3> QED BY <3>1, <3>2, <1>9, <1>10
  <2>5. Usables(u, now) = w
    BY <1>7, <1>12 DEF w
  <2>6. Good(u, f)
    BY <2>1, <2>4, <2>5
  <2> HIDE DEF Good
  <2> QED BY <2>6, <1>3
<1> QED BY <1>11, <1>12

\* More of the newest records take no fewer bytes.
LEMMA NewestBytes ==
    ASSUME NEW s \in Seq(Record), NEW n \in 0 .. Len(s), NEW m \in 0 .. Len(s), n <= m
    PROVE  Bytes(Newest(s, n)) <= Bytes(Newest(s, m))
<1> DEFINE a == Newest(s, n)  b == Newest(s, m)  e == [i \in 1 .. n |-> m - n + i]
<1>1. Len(s) \in Nat /\ n \in Nat /\ m \in Nat /\ n <= Len(s) /\ m <= Len(s)
  BY LenProperties
<1>2. /\ a \in Seq(Record) /\ Len(a) = n /\ \A i \in 1 .. n : a[i] = s[Len(s) - n + i]
      /\ b \in Seq(Record) /\ Len(b) = m /\ \A i \in 1 .. m : b[i] = s[Len(s) - m + i]
  BY NewestIs
<1> HIDE DEF a, b
<1>3. e \in [1 .. n -> 1 .. m] /\ \A i \in 1 .. n : e[i] = m - n + i
  BY <1>1
<1> HIDE DEF e
<1>4. \A i, j \in 1 .. n : i < j => e[i] < e[j]
  BY <1>1, <1>3
<1>5. \A i \in 1 .. n : a[i] = b[e[i]]
  <2> TAKE i \in 1 .. n
  <2>1. e[i] = m - n + i /\ e[i] \in 1 .. m /\ Len(s) - m + (m - n + i) = Len(s) - n + i
    BY <1>1, <1>3
  <2> QED BY <2>1, <1>2
<1>6. Picks(a, e, b)
  BY <1>2, <1>3, <1>4, <1>5 DEF Picks
<1>7. Bytes(a) <= Bytes(b)
  BY <1>6, PicksBytes
<1> QED BY <1>7 DEF a, b

\* So do the records from a picked one on, of those they are picked from.
LEMMA SuffixBytes ==
    ASSUME NEW s, NEW e, NEW t, Picks(s, e, t), NEW u \in 1 .. Len(s)
    PROVE  Bytes(Newest(s, Len(s) - u + 1)) <= Bytes(Newest(t, Len(t) - e[u] + 1))
<1> DEFINE n == Len(s) - u + 1  m == Len(t) - e[u] + 1  a == Newest(s, n)  b == Newest(t, m)
           g == [i \in 1 .. n |-> e[u - 1 + i] - e[u] + 1]
<1>1. /\ s \in Seq(Record) /\ t \in Seq(Record) /\ Len(s) \in Nat /\ Len(t) \in Nat
      /\ e \in [1 .. Len(s) -> 1 .. Len(t)]
      /\ \A i, j \in 1 .. Len(s) : i < j => e[i] < e[j]
      /\ \A i \in 1 .. Len(s) : s[i] = t[e[i]]
  BY LenProperties DEF Picks
<1>2. u \in Nat /\ u >= 1 /\ u <= Len(s) /\ e[u] \in 1 .. Len(t) /\ e[u] \in Nat
  BY <1>1
<1>3. n \in 0 .. Len(s) /\ m \in 0 .. Len(t) /\ n \in Nat /\ m \in Nat
  BY <1>1, <1>2
<1>4. /\ a \in Seq(Record) /\ Len(a) = n /\ \A i \in 1 .. n : a[i] = s[Len(s) - n + i]
      /\ b \in Seq(Record) /\ Len(b) = m /\ \A i \in 1 .. m : b[i] = t[Len(t) - m + i]
  BY <1>1, <1>3, NewestIs
<1>5. Len(s) - n = u - 1 /\ Len(t) - m = e[u] - 1
  BY <1>1, <1>2
<1> HIDE DEF a, b
<1>6. \A i \in 1 .. n : /\ u - 1 + i \in 1 .. Len(s) /\ e[u - 1 + i] \in 1 .. Len(t)
                        /\ e[u] <= e[u - 1 + i]
  <2> TAKE i \in 1 .. n
  <2> DEFINE j == u - 1 + i
  <2>1. j \in 1 .. Len(s) /\ (u = j \/ u < j)
    BY <1>1, <1>2
  <2> HIDE DEF j
  <2>2. e[j] \in 1 .. Len(t) /\ e[u] <= e[j]
    BY <2>1, <1>1, <1>2
  <2> QED BY <2>1, <2>2 DEF j
<1>7. g \in [1 .. n -> 1 .. m] /\ \A i \in 1 .. n : g[i] = e[u - 1 + i] - e[u] + 1
  <2>1. \A i \in 1 .. n : e[u - 1 + i] - e[u] + 1 \in 1 .. m
    <3> TAKE i \in 1 .. n
    <3> DEFINE x == e[u - 1 + i]
    <3>1. x \in 1 .. Len(t) /\ e[u] <= x
      BY <1>6
    <3> HIDE DEF x
    <3>2. x - e[u] + 1 \in 1 .. m
      BY <3>1, <1>1, <1>2
    <3> QED BY <3>2 DEF x
  <2> QED BY <2>1
<1> HIDE DEF g, n, m
<1>8. ASSUME NEW i \in 1 .. n, NEW j \in 1 .. n, i < j PROVE g[i] < g[j]
  <2>1. e[u - 1 + i] < e[u - 1 + j]
    <3>1. u - 1 + i < u - 1 + j
      BY <1>8, <1>2, <1>3
    <3> QED BY <3>1, <1>6, <1>1
  <2> QED BY <2>1, <1>6, <1>7, <1>2, <1>1
<1>9. ASSUME NEW i \in 1 .. n PROVE a[i] = b[g[i]]
  <2>1. a[i] = s[u - 1 + i] /\ s[u - 1 + i] = t[e[u - 1 + i]]
    BY <1>1, <1>4, <1>5, <1>6
  <2>2. g[i] \in 1 .. m /\ e[u] - 1 + g[i] = e[u - 1 + i]
    <3> DEFINE x == e[u - 1 + i]
    <3>1. x \in 1 .. Len(t) /\ g[i] = x - e[u] + 1 /\ g[i] \in 1 .. m
      BY <1>6, <1>7
    <3> HIDE DEF x
    <3>2. e[u] - 1 + g[i] = x
      BY <3>1, <1>1, <1>2
    <3> QED BY <3>1, <3>2 DEF x
  <2>3. b[g[i]] = t[e[u] - 1 + g[i]]
    BY <2>2, <1>4, <1>5
  <2> QED BY <2>1, <2>2, <2>3
<1>10. Picks(a, g, b)
  BY <1>4, <1>7, <1>8, <1>9 DEF Picks
<1>11. Bytes(a) <= Bytes(b)
  BY <1>10, PicksBytes
<1> QED BY <1>11 DEF a, b, n, m

LEMMA BytesOfOnes ==
    ASSUME NEW s \in Seq(Record), \A i \in 1 .. Len(s) : s[i].size = 1
    PROVE  Bytes(s) = Len(s)
<1> DEFINE Ones(u) == \A i \in 1 .. Len(u) : u[i].size = 1
           Bad == {n \in Nat : \E u \in Seq(Record) : Len(u) = n /\ Ones(u) /\ Bytes(u) # n}
<1>1. SUFFICES ASSUME Bad # {} PROVE FALSE
  <2>1. Len(s) \in Nat /\ Len(s) \notin Bad
    BY <1>1, LenProperties
  <2> QED BY <2>1
<1>2. PICK n \in Bad : \A m \in Bad : n <= m
  BY <1>1, LeastNumber
<1>3. PICK u \in Seq(Record) : Len(u) = n /\ Ones(u) /\ Bytes(u) # n
  OBVIOUS
<1>4. n # 0
  <2>1. SUFFICES ASSUME n = 0 PROVE FALSE
    OBVIOUS
  <2>2. u = <<>>
    BY <2>1, <1>3, EmptySeq
  <2> QED BY <2>1, <2>2, <1>3, BytesEmpty
<1>5. PICK t \in Seq(Record), x \in Record : u = Append(t, x) /\ Len(t) = n - 1
  <2>1. Len(u) # 0 /\ Len(u) = n /\ u \in Seq(Record)
    BY <1>3, <1>4
  <2>2. \E t \in Seq(Record), x \in Record : u = Append(t, x) /\ Len(t) = Len(u) - 1
    BY <2>1, LastSplit
  <2> QED BY <2>1, <2>2
<1>6. Len(u) = Len(t) + 1 /\ u[Len(t) + 1] = x /\ \A i \in 1 .. Len(t) : u[i] = t[i]
  BY <1>5, AppendProperties
<1>7. n - 1 \in Nat /\ n - 1 \notin Bad /\ n \in 1 .. n
  BY <1>2, <1>4
<1>8. x.size = 1
  BY <1>3, <1>5, <1>6, <1>7
<1>9. Ones(t)
  <2>1. \A i \in 1 .. Len(t) : i \in 1 .. Len(u)
    BY <1>3, <1>5, <1>7
  <2> QED BY <2>1, <1>3, <1>6
<1>10. Bytes(t) = n - 1
  <2> HIDE DEF Ones
  <2> QED BY <1>5, <1>7, <1>9
<1>11. Bytes(u) = Bytes(t) + x.size
  BY <1>5, BytesAppend
<1> QED BY <1>3, <1>8, <1>10, <1>11

-----------------------------------------------------------------------------
(* A log beside the records that were acknowledged *)

\* Why the i-th of the records `a` may be gone from the log at time `c`.
Gone(a, c, i) ==
    \/ c - a[i].t >= MaxAge
    \/ Len(a) - i > MaxRecords \div 2
    \/ Bytes(Newest(a, Len(a) - i + 1)) > MaxBytes \div 2
    \/ \E j \in i + 1 .. Len(a) : a[j].t < a[i].t

\* The lines are acknowledged records in order, and every other is gone.
Holds(lines, a, c) ==
    \E e : /\ Picks(lines, e, a)
           /\ \A i \in 1 .. Len(a) : (\E j \in 1 .. Len(lines) : e[j] = i) \/ Gone(a, c, i)

LEMMA GoneLater ==
    ASSUME NEW a \in Seq(Record), NEW i \in 1 .. Len(a), NEW c \in Nat, NEW d \in Nat, c <= d,
           Gone(a, c, i), MaxAge \in Nat
    PROVE  Gone(a, d, i)
<1>1. a[i].t \in Nat
  <2>1. a[i] \in Record
    BY ElementOfSeq
  <2> QED BY <2>1 DEF Record
<1>2. c - a[i].t >= MaxAge => d - a[i].t >= MaxAge
  BY <1>1
<1> QED BY <1>2 DEF Gone

LEMMA GoneAppend ==
    ASSUME NEW a \in Seq(Record), NEW i \in 1 .. Len(a), NEW r \in Record, NEW c, Gone(a, c, i),
           MaxRecords \in Nat, MaxBytes \in Nat
    PROVE  Gone(Append(a, r), c, i)
<1> DEFINE b == Append(a, r)
<1>1. Len(a) \in Nat /\ i \in Nat /\ i >= 1 /\ i <= Len(a)
  BY LenProperties
<1>2. b \in Seq(Record) /\ Len(b) = Len(a) + 1 /\ \A j \in 1 .. Len(a) : b[j] = a[j]
  BY AppendProperties
<1>3. Newest(b, Len(b) - i + 1) = Append(Newest(a, Len(a) - i + 1), r)
  <2>1. Len(a) - i + 1 \in 0 .. Len(a) /\ Len(b) - i + 1 = (Len(a) - i + 1) + 1
    BY <1>1, <1>2
  <2> QED BY <2>1, NewestAppend
<1> HIDE DEF b
<1>4. CASE c - a[i].t >= MaxAge
  BY <1>4, <1>2 DEF Gone, b
<1>5. CASE Len(a) - i > MaxRecords \div 2
  <2>1. Len(b) - i > MaxRecords \div 2
    <3> DEFINE h == MaxRecords \div 2
    <3>1. h \in Int
      OBVIOUS
    <3> HIDE DEF h
    <3>2. Len(a) - i > h
      BY <1>5 DEF h
    <3>3. Len(b) - i > h
      BY <3>1, <3>2, <1>1, <1>2
    <3> QED BY <3>3 DEF h
  <2> QED BY <2>1 DEF Gone, b
<1>6. CASE Bytes(Newest(a, Len(a) - i + 1)) > MaxBytes \div 2
  <2> DEFINE u == Newest(a, Len(a) - i + 1)  h == MaxBytes \div 2
  <2>1. u \in Seq(Record) /\ h \in Int /\ Bytes(u) > h
    <3>1. Len(a) - i + 1 \in 0 .. Len(a)
      BY <1>1
    <3> QED BY <3>1, <1>6, NewestIs
  <2> HIDE DEF u, h
  <2>2. Bytes(Append(u, r)) = Bytes(u) + r.size /\ Bytes(u) \in Nat /\ r.size \in Nat
    BY <2>1, BytesAppend, BytesType DEF Record
  <2>3. Bytes(Append(u, r)) > h
    BY <2>1, <2>2
  <2> QED BY <2>3, <1>3 DEF Gone, u, h, b
<1>7. CASE \E j \in i + 1 .. Len(a) : a[j].t < a[i].t
  <2>1. PICK j \in i + 1 .. Len(a) : a[j].t < a[i].t
    BY <1>7
  <2>2. j \in i + 1 .. Len(b) /\ b[j] = a[j] /\ b[i] = a[i]
    BY <2>1, <1>1, <1>2
  <2>3. \E k \in i + 1 .. Len(b) : b[k].t < b[i].t
    BY <2>1, <2>2
  <2> QED BY <2>3 DEF Gone, b
<1> QED BY <1>4, <1>5, <1>6, <1>7 DEF Gone

LEMMA HoldsType ==
    ASSUME NEW s, NEW a, NEW c, Holds(s, a, c)
    PROVE  s \in Seq(Record) /\ a \in Seq(Record) /\ Len(s) \in Nat /\ Len(a) \in Nat
BY LenProperties DEF Holds, Picks

LEMMA HoldsLater ==
    ASSUME NEW s, NEW a, NEW c \in Nat, NEW d \in Nat, c <= d, Holds(s, a, c), MaxAge \in Nat
    PROVE  Holds(s, a, d)
<1>1. PICK e : /\ Picks(s, e, a)
               /\ \A i \in 1 .. Len(a) : (\E j \in 1 .. Len(s) : e[j] = i) \/ Gone(a, c, i)
  BY DEF Holds
<1>2. \A i \in 1 .. Len(a) : (\E j \in 1 .. Len(s) : e[j] = i) \/ Gone(a, d, i)
  BY <1>1, GoneLater, HoldsType
<1> QED BY <1>1, <1>2 DEF Holds

\* Nothing is in an empty log, which loses nothing when all its lines were old.
LEMMA HoldsNothing ==
    ASSUME NEW s, NEW a, NEW c, Holds(s, a, c), \A i \in 1 .. Len(s) : c - s[i].t >= MaxAge
    PROVE  Holds(<<>>, a, c)
<1>1. PICK e : /\ Picks(s, e, a)
               /\ \A i \in 1 .. Len(a) : (\E j \in 1 .. Len(s) : e[j] = i) \/ Gone(a, c, i)
  BY DEF Holds
<1> DEFINE f == [i \in 1 .. 0 |-> 1]
<1>2. <<>> \in Seq(Record) /\ Len(<<>>) = 0 /\ a \in Seq(Record)
  BY EmptySeq, HoldsType
<1>3. Picks(<<>>, f, a)
  BY <1>2 DEF Picks
<1>4. \A i \in 1 .. Len(a) : Gone(a, c, i)
  <2> TAKE i \in 1 .. Len(a)
  <2>1. CASE \E j \in 1 .. Len(s) : e[j] = i
    <3>1. PICK j \in 1 .. Len(s) : e[j] = i
      BY <2>1
    <3>2. s[j] = a[i]
      BY <3>1, <1>1 DEF Picks
    <3> QED BY <3>2 DEF Gone
  <2> QED BY <2>1, <1>1
<1> QED BY <1>3, <1>4 DEF Holds

\* A record appended to both.
LEMMA HoldsAppend ==
    ASSUME NEW s, NEW a, NEW c, Holds(s, a, c), NEW r \in Record,
           MaxRecords \in Nat, MaxBytes \in Nat
    PROVE  Holds(Append(s, r), Append(a, r), c)
<1>1. PICK e : /\ Picks(s, e, a)
               /\ \A i \in 1 .. Len(a) : (\E j \in 1 .. Len(s) : e[j] = i) \/ Gone(a, c, i)
  BY DEF Holds
<1> DEFINE f == [i \in 1 .. Len(s) + 1 |-> IF i <= Len(s) THEN e[i] ELSE Len(a) + 1]
           t == Append(s, r)  b == Append(a, r)
<1>2. Picks(t, f, b)
  BY <1>1, PicksAppend
<1>3. s \in Seq(Record) /\ a \in Seq(Record) /\ Len(s) \in Nat /\ Len(a) \in Nat
  BY HoldsType
<1>4. Len(t) = Len(s) + 1 /\ Len(b) = Len(a) + 1
  BY <1>3, AppendProperties
<1>5. \A i \in 1 .. Len(a) : Gone(a, c, i) => Gone(b, c, i)
  BY <1>3, GoneAppend
<1> HIDE DEF t, b
<1>6. (\A j \in 1 .. Len(s) : f[j] = e[j]) /\ f[Len(s) + 1] = Len(a) + 1
  BY <1>3
<1> HIDE DEF f
<1>7. ASSUME NEW i \in 1 .. Len(b) PROVE (\E j \in 1 .. Len(t) : f[j] = i) \/ Gone(b, c, i)
  <2>1. CASE i = Len(a) + 1
    <3>1. Len(s) + 1 \in 1 .. Len(t)
      BY <1>3, <1>4
    <3> QED BY <2>1, <3>1, <1>6
  <2>2. CASE i \in 1 .. Len(a)
    <3>1. CASE \E j \in 1 .. Len(s) : e[j] = i
      <4>1. PICK j \in 1 .. Len(s) : e[j] = i
        BY <3>1
      <4>2. j \in 1 .. Len(t) /\ f[j] = i
        BY <4>1, <1>3, <1>4, <1>6
      <4> QED BY <4>2
    <3> QED BY <3>1, <2>2, <1>1, <1>5
  <2> QED BY <2>1, <2>2, <1>3, <1>4
<1> QED BY <1>2, <1>7 DEF Holds, t, b

LEMMA DivFacts ==
    ASSUME NEW n \in Nat
    PROVE  n \div 2 \in Nat /\ 2 * (n \div 2) <= n /\ n < 2 * (n \div 2) + 2
OBVIOUS

\* A rewrite at `r.t` keeps the newest `n` of the usable lines, where `n` is all
\* of them, what the limit on records allows, or the most the bytes allow.
LEMMA HoldsRewrite ==
    ASSUME NEW s, NEW a, NEW c \in Nat, Holds(s, a, c), NEW r \in Record, r.t <= c,
           \A i \in 1 .. Len(s) : s[i].whole,
           MaxRecords \in Nat, MaxBytes \in Nat, MaxAge \in Nat,
           NEW n \in 0 .. Len(Usables(s, r.t)),
           \/ n = Len(Usables(s, r.t))
           \/ n = MaxRecords \div 2
           \/ /\ n + 1 \in 0 .. Len(Usables(s, r.t))
              /\ Bytes(Newest(Usables(s, r.t), n + 1)) + r.size > MaxBytes \div 2
    PROVE  Holds(Append(Newest(Usables(s, r.t), n), r), Append(a, r), c)
<1> DEFINE old == Usables(s, r.t)  new == Newest(old, n)  t == Append(new, r)  b == Append(a, r)
<1>1. PICK e : /\ Picks(s, e, a)
               /\ \A i \in 1 .. Len(a) : (\E j \in 1 .. Len(s) : e[j] = i) \/ Gone(a, c, i)
  BY DEF Holds
<1>2. s \in Seq(Record) /\ a \in Seq(Record) /\ Len(s) \in Nat /\ Len(a) \in Nat
  BY HoldsType
<1>3. PICK f : /\ Picks(old, f, s)
               /\ \A i \in 1 .. Len(s) : Usable(s[i], r.t) => \E j \in 1 .. Len(old) : f[j] = i
  BY <1>2, UsablesPicks
<1>4. old \in Seq(Record) /\ Len(old) \in Nat /\ n \in Nat /\ n <= Len(old)
  BY <1>3, LenProperties DEF Picks
<1>5. \/ n = Len(old)
      \/ n = MaxRecords \div 2
      \/ /\ n + 1 \in 0 .. Len(old)
         /\ Bytes(Newest(old, n + 1)) + r.size > MaxBytes \div 2
  OBVIOUS
<1> HIDE DEF old
<1> DEFINE g == [i \in 1 .. Len(old) |-> e[f[i]]]
           h == [i \in 1 .. n |-> Len(old) - n + i]
<1>6. Picks(old, g, a)
  BY <1>1, <1>3, PicksCompose
<1>7. \A i \in 1 .. Len(old) : g[i] = e[f[i]]
  OBVIOUS
<1>8. Picks(new, h, old) /\ Len(new) = n
  BY <1>4, NewestPicks, NewestIs
<1>9. \A i \in 1 .. n : h[i] = Len(old) - n + i
  OBVIOUS
<1> HIDE DEF g, h, new
<1> DEFINE gh == [i \in 1 .. Len(new) |-> g[h[i]]]
           k == [i \in 1 .. Len(new) + 1 |-> IF i <= Len(new) THEN gh[i] ELSE Len(a) + 1]
<1>10. Picks(new, gh, a)
  BY <1>6, <1>8, PicksCompose
<1>11. \A i \in 1 .. Len(new) : gh[i] = g[h[i]]
  OBVIOUS
<1> HIDE DEF gh
<1>12. Picks(t, k, b)
  BY <1>10, PicksAppend
<1>13. (\A i \in 1 .. n : k[i] = gh[i]) /\ k[n + 1] = Len(a) + 1
  BY <1>4, <1>8
<1>14. Len(t) = n + 1 /\ Len(b) = Len(a) + 1 /\ b[Len(a) + 1] = r /\ \A i \in 1 .. Len(a) : b[i] = a[i]
  BY <1>2, <1>8, <1>10, AppendProperties DEF Picks
<1>15. \A i \in 1 .. Len(a) : Gone(a, c, i) => Gone(b, c, i)
  BY <1>2, GoneAppend
<1>16. \A i \in 1 .. Len(a) : Newest(b, Len(b) - i + 1) = Append(Newest(a, Len(a) - i + 1), r)
  <2> TAKE i \in 1 .. Len(a)
  <2>1. Len(a) - i + 1 \in 0 .. Len(a) /\ Len(b) - i + 1 = (Len(a) - i + 1) + 1
    BY <1>2, <1>14
  <2> QED BY <2>1, <1>2, NewestAppend
<1> HIDE DEF k, t, b
<1>17. r.t \in Nat /\ r.size \in Nat /\ \A i \in 1 .. Len(s) : s[i] \in Record /\ s[i].t \in Nat
  <2>1. \A i \in 1 .. Len(s) : s[i] \in Record
    BY <1>2, ElementOfSeq
  <2> QED BY <2>1 DEF Record
<1>18. ASSUME NEW i \in 1 .. Len(a), NEW j \in 1 .. Len(s), e[j] = i, ~ Usable(s[j], r.t)
       PROVE  Gone(b, c, i)
  <2>1. s[j] = a[i] /\ b[i] = a[i]
    BY <1>1, <1>14, <1>18 DEF Picks
  <2>2. CASE s[j].t > r.t
    <3>1. Len(a) + 1 \in i + 1 .. Len(b) /\ b[Len(a) + 1].t < b[i].t
      BY <1>2, <1>14, <1>17, <2>1, <2>2
    <3> QED BY <3>1 DEF Gone
  <2>3. CASE ~(s[j].t > r.t)
    <3>1. r.t - s[j].t >= MaxAge
      BY <2>3, <1>17, <1>18 DEF Usable
    <3>2. c - b[i].t >= MaxAge
      BY <3>1, <2>1, <1>17
    <3> QED BY <3>2 DEF Gone
  <2> QED BY <2>2, <2>3
<1>19. ASSUME NEW u \in 1 .. Len(old), u <= Len(old) - n, NEW i \in 1 .. Len(a), g[u] = i
       PROVE  Gone(b, c, i)
  <2>1. u \in Nat /\ u >= 1 /\ n < Len(old) /\ i \in Nat
    BY <1>4, <1>19
  <2>2. CASE n = MaxRecords \div 2
    <3>1. Len(old) - u <= Len(a) - i
      BY <1>6, <1>19, PicksCount
    <3>2. Len(b) - i > n
      BY <3>1, <2>1, <1>4, <1>2, <1>14, <1>19
    <3> QED BY <3>2, <2>2 DEF Gone
  <2>3. CASE n + 1 \in 0 .. Len(old) /\ Bytes(Newest(old, n + 1)) + r.size > MaxBytes \div 2
    <3> DEFINE m == Len(old) - u + 1  w == Newest(a, Len(a) - i + 1)  q == MaxBytes \div 2
    <3>1. m \in 0 .. Len(old) /\ n + 1 <= m
      BY <1>4, <2>1, <1>19
    <3>2. Bytes(Newest(old, n + 1)) <= Bytes(Newest(old, m))
      BY <1>4, <2>3, <3>1, NewestBytes
    <3>3. Bytes(Newest(old, m)) <= Bytes(w)
      BY <1>6, <1>19, SuffixBytes
    <3>4. w \in Seq(Record) /\ Newest(old, n + 1) \in Seq(Record) /\ Newest(old, m) \in Seq(Record)
      <4>1. Len(a) - i + 1 \in 0 .. Len(a)
        BY <1>2
      <4> QED BY <4>1, <1>2, <1>4, <2>3, <3>1, NewestIs
    <3>5. /\ Bytes(w) \in Nat /\ Bytes(Newest(old, n + 1)) \in Nat /\ Bytes(Newest(old, m)) \in Nat
          /\ Bytes(Append(w, r)) = Bytes(w) + r.size /\ q \in Nat
      BY <3>4, BytesType, BytesAppend, DivFacts
    <3> HIDE DEF m, w, q
    <3>6. Bytes(Newest(old, n + 1)) + r.size > q
      BY <2>3 DEF q
    <3>7. Bytes(Append(w, r)) > q
      BY <3>2, <3>3, <3>5, <3>6, <1>17
    <3> QED BY <3>7, <1>16 DEF Gone, w, q
  <2> QED BY <2>1, <2>2, <2>3, <1>5
<1>20. ASSUME NEW i \in 1 .. Len(b) PROVE (\E j \in 1 .. Len(t) : k[j] = i) \/ Gone(b, c, i)
  <2>1. CASE i = Len(a) + 1
    <3>1. n + 1 \in 1 .. Len(t)
      BY <1>4, <1>14
    <3> QED BY <2>1, <3>1, <1>13
  <2>2. CASE i \in 1 .. Len(a) /\ Gone(a, c, i)
    BY <2>2, <1>15
  <2>3. CASE i \in 1 .. Len(a) /\ \E j \in 1 .. Len(s) : e[j] = i
    <3>1. PICK j \in 1 .. Len(s) : e[j] = i
      BY <2>3
    <3>2. CASE ~ Usable(s[j], r.t)
      BY <2>3, <3>1, <3>2, <1>18
    <3>3. CASE Usable(s[j], r.t)
      <4>1. PICK u \in 1 .. Len(old) : f[u] = j
        BY <3>3, <1>3
      <4>2. g[u] = i
        BY <3>1, <4>1, <1>7
      <4>3. CASE u <= Len(old) - n
        BY <4>2, <4>3, <2>3, <1>19
      <4>4. CASE ~(u <= Len(old) - n)
        <5> DEFINE x == u - (Len(old) - n)
        <5>1. x \in 1 .. n /\ Len(old) - n + x = u
          BY <1>4, <4>4
        <5>2. h[x] = u
          BY <5>1, <1>9
        <5> HIDE DEF x
        <5>3. x \in 1 .. Len(t) /\ k[x] = i
          BY <5>1, <5>2, <4>2, <1>4, <1>8, <1>11, <1>13, <1>14
        <5> QED BY <5>3
      <4> QED BY <4>3, <4>4
    <3> QED BY <3>2, <3>3
  <2> QED BY <2>1, <2>2, <2>3, <1>1, <1>2, <1>14
<1>21. Holds(t, b, c)
  BY <1>12, <1>20 DEF Holds
<1> QED BY <1>21 DEF t, b, new, old

-----------------------------------------------------------------------------
(* The inductive invariant of the session logs *)

Shown(shown, m) == \E e \in shown : e.mtime = m

\* A log beside the records acknowledged and the context printed in its session.
LogOK(l, a, c, shown) ==
    /\ Holds(l.lines, a, c)
    /\ Len(l.lines) <= MaxRecords /\ Bytes(l.lines) + l.tail <= MaxBytes
    /\ l.mtime <= c
    /\ \A i \in 1 .. Len(l.lines) :
           /\ l.lines[i].t <= l.mtime /\ l.lines[i].whole
           /\ l.lines[i].shown # 0 => Shown(shown, l.lines[i].shown)

\* A run beside the log it reads and writes.
RunOK(q, l, c, shown) ==
    /\ q.record.t <= c /\ q.record.whole /\ q.record.size \in 1 .. MaxRecordBytes
    /\ q.record.shown # 0 => Shown(shown, q.record.shown)
    /\ \A m \in q.known : Shown(shown, m)
    /\ q.pc \in {"opened", "searched"} => ~ q.seen
    /\ q.seen \/ q.pc = "emitted" => Shown(shown, q.mtime)
    /\ q.pc = "writing" => /\ l.tail = 1 /\ Len(l.lines) < MaxRecords
                           /\ Bytes(l.lines) + q.record.size <= MaxBytes

LogsOK == \A k \in Keys : LogOK(log[k], acked[k], clock, printed[k])
RunsOK == \A p \in Procs : RunOK(proc[p], log[proc[p].key], clock, printed[proc[p].key])

Inv == TypeOK /\ LogsOK /\ RunsOK

LEMMA Bounds ==
    /\ MaxRecords \in Nat /\ MaxRecords >= 2 /\ MaxAge \in Nat /\ MaxRecordBytes \in Nat
    /\ MaxRecordBytes >= 1 /\ MaxBytes \in Nat /\ MaxRecordBytes * 2 <= MaxBytes
    /\ \A size \in Sizes : size \in Nat /\ size >= 1
BY BoundsAssumption

LEMMA IdleType ==
    /\ Idle \in Process /\ Idle.pc = "idle" /\ Idle.known = {} /\ ~ Idle.seen
    /\ Idle.record = [id |-> 0, t |-> 0, size |-> 1, shown |-> 0, whole |-> TRUE]
<1>1. (CHOOSE k \in Keys : TRUE) \in Keys
  BY BoundsAssumption
<1>2. [id |-> 0, t |-> 0, size |-> 1, shown |-> 0, whole |-> TRUE] \in Record
  BY DEF Record
<1> QED BY <1>1, <1>2 DEF Idle, Process

\* Processes change one at a time, and printed context only grows.
LEMMA LogLater ==
    ASSUME NEW l, NEW a, NEW c \in Nat, NEW d \in Nat, c <= d, NEW s, NEW u, s \subseteq u,
           l \in [lines : Seq(Record), tail : Nat, mtime : Nat], LogOK(l, a, c, s)
    PROVE  LogOK(l, a, d, u)
<1>1. Holds(l.lines, a, d)
  BY HoldsLater, Bounds DEF LogOK
<1>2. \A m : Shown(s, m) => Shown(u, m)
  BY DEF Shown
<1>3. l.mtime \in Nat
  OBVIOUS
<1>4. l.mtime <= d
  BY <1>3 DEF LogOK
<1> QED BY <1>1, <1>2, <1>4 DEF LogOK

LEMMA RunLater ==
    ASSUME NEW q \in Process, NEW l, NEW m, NEW c \in Nat, NEW d \in Nat, c <= d, NEW s, NEW u,
           s \subseteq u, RunOK(q, l, c, s), l = m \/ q.pc # "writing"
    PROVE  RunOK(q, m, d, u)
<1>1. \A n : Shown(s, n) => Shown(u, n)
  BY DEF Shown
<1>2. q.record.t \in Nat
  BY DEF Process, Record
<1>3. q.record.t <= d
  BY <1>2 DEF RunOK
<1> QED BY <1>1, <1>3 DEF RunOK

LEMMA RunIdle ==
    ASSUME NEW l, NEW c \in Nat, NEW s
    PROVE  RunOK(Idle, l, c, s)
BY IdleType, Bounds DEF RunOK

-----------------------------------------------------------------------------
(* Each step keeps the invariant *)

LogType == [lines : Seq(Record), tail : Nat, mtime : Nat]

\* A process changes; no log does.
LEMMA RunStep ==
    ASSUME Inv, NEW p \in Procs, NEW r \in Process, Become(p, r),
           UNCHANGED <<clock, log, acked, file>>, runs' \in Nat,
           printed' \in [Keys -> SUBSET Showing], \A k \in Keys : printed[k] \subseteq printed'[k],
           lock' \in Procs \cup {NoProc}, r.pc \in {"locked", "writing"} <=> lock' = p,
           \A o \in Procs \ {p} : lock' = o <=> lock = o,
           RunOK(r, log[r.key], clock, printed'[r.key])
    PROVE  Inv'
<1>1. TypeOK /\ LogsOK /\ RunsOK
  BY DEF Inv
<1>2. /\ proc' \in [Procs -> Process] /\ proc'[p] = r
      /\ \A o \in Procs \ {p} : proc'[o] = proc[o] /\ proc[o] \in Process
  BY <1>1 DEF TypeOK, Become
<1>3. clock \in Nat /\ clock <= clock /\ clock' = clock /\ log' = log /\ acked' = acked
  BY <1>1 DEF TypeOK
<1>4. TypeOK'
  <2>1. \A o \in Procs : proc'[o].pc \in {"locked", "writing"} <=> lock' = o
    <3> TAKE o \in Procs
    <3>1. CASE o = p
      BY <3>1, <1>2
    <3>2. CASE o # p
      BY <3>2, <1>1, <1>2 DEF TypeOK
    <3> QED BY <3>1, <3>2
  <2> QED BY <1>1, <1>2, <1>3, <2>1 DEF TypeOK
<1>5. LogsOK'
  <2>1. ASSUME NEW k \in Keys PROVE LogOK(log[k], acked[k], clock, printed'[k])
    <3>1. LogOK(log[k], acked[k], clock, printed[k]) /\ log[k] \in LogType
      BY <1>1 DEF LogsOK, TypeOK, LogType
    <3>2. printed[k] \subseteq printed'[k]
      OBVIOUS
    <3> QED BY <1>3, <3>1, <3>2, LogLater DEF LogType
  <2> QED BY <1>3, <2>1 DEF LogsOK
<1>6. RunsOK'
  <2>1. ASSUME NEW o \in Procs PROVE RunOK(proc'[o], log[proc'[o].key], clock, printed'[proc'[o].key])
    <3>1. CASE o = p
      BY <3>1, <1>2
    <3>2. CASE o # p
      <4>1. /\ proc[o] \in Process /\ proc'[o] = proc[o] /\ proc[o].key \in Keys
            /\ RunOK(proc[o], log[proc[o].key], clock, printed[proc[o].key])
        BY <3>2, <1>1, <1>2 DEF RunsOK, Process
      <4>2. printed[proc[o].key] \subseteq printed'[proc[o].key]
        BY <4>1
      <4> QED BY <4>1, <4>2, <1>3, RunLater
    <3> QED BY <3>1, <3>2
  <2> QED BY <1>3, <2>1 DEF RunsOK
<1> QED BY <1>4, <1>5, <1>6 DEF Inv

\* A process changes and writes or removes a log.
LEMMA LogStep ==
    ASSUME Inv, NEW p \in Procs, NEW r \in Process, Become(p, r), UNCHANGED <<clock, file, runs, printed>>,
           NEW k \in Keys, NEW l \in LogType, NEW a \in Seq(Record),
           log' = [log EXCEPT ![k] = l], acked' = [acked EXCEPT ![k] = a],
           LogOK(l, a, clock, printed[k]),
           RunOK(r, IF r.key = k THEN l ELSE log[r.key], clock, printed[r.key]),
           \A o \in Procs \ {p} : proc[o].pc # "writing",
           lock' \in Procs \cup {NoProc}, r.pc \in {"locked", "writing"} <=> lock' = p,
           \A o \in Procs \ {p} : lock' = o <=> lock = o
    PROVE  Inv'
<1>1. TypeOK /\ LogsOK /\ RunsOK
  BY DEF Inv
<1>2. /\ proc' \in [Procs -> Process] /\ proc'[p] = r
      /\ \A o \in Procs \ {p} : proc'[o] = proc[o] /\ proc[o] \in Process
  BY <1>1 DEF TypeOK, Become
<1>3. clock \in Nat /\ clock <= clock /\ clock' = clock /\ printed' = printed
  BY <1>1 DEF TypeOK
<1>4. /\ log' \in [Keys -> LogType] /\ acked' \in [Keys -> Seq(Record)] /\ log'[k] = l /\ acked'[k] = a
      /\ \A m \in Keys \ {k} : log'[m] = log[m] /\ acked'[m] = acked[m]
  BY <1>1 DEF TypeOK, LogType
<1>5. TypeOK'
  <2>1. \A o \in Procs : proc'[o].pc \in {"locked", "writing"} <=> lock' = o
    <3> TAKE o \in Procs
    <3>1. CASE o = p
      BY <3>1, <1>2
    <3>2. CASE o # p
      BY <3>2, <1>1, <1>2 DEF TypeOK
    <3> QED BY <3>1, <3>2
  <2> QED BY <1>1, <1>2, <1>3, <1>4, <2>1 DEF TypeOK, LogType
<1>6. LogsOK'
  <2>1. ASSUME NEW m \in Keys PROVE LogOK(log'[m], acked'[m], clock, printed[m])
    BY <1>1, <1>4 DEF LogsOK
  <2> QED BY <1>3, <2>1 DEF LogsOK
<1>7. RunsOK'
  <2>1. ASSUME NEW o \in Procs PROVE RunOK(proc'[o], log'[proc'[o].key], clock, printed[proc'[o].key])
    <3>1. CASE o = p
      <4>1. r.key \in Keys
        BY DEF Process
      <4>2. log'[r.key] = IF r.key = k THEN l ELSE log[r.key]
        BY <4>1, <1>4
      <4> QED BY <3>1, <4>2, <1>2
    <3>2. CASE o # p
      <4>1. /\ proc[o] \in Process /\ proc'[o] = proc[o] /\ proc[o].pc # "writing"
            /\ RunOK(proc[o], log[proc[o].key], clock, printed[proc[o].key])
        BY <3>2, <1>1, <1>2 DEF RunsOK
      <4>2. printed[proc[o].key] \subseteq printed[proc[o].key]
        OBVIOUS
      <4> QED BY <4>1, <4>2, <1>3, RunLater
    <3> QED BY <3>1, <3>2
  <2> QED BY <1>3, <2>1 DEF RunsOK
<1> QED BY <1>5, <1>6, <1>7 DEF Inv

LEMMA RunFacts ==
    ASSUME Inv, NEW p \in Procs
    PROVE  /\ proc[p] \in Process /\ proc[p].key \in Keys /\ proc[p].record \in Record
           /\ RunOK(proc[p], log[proc[p].key], clock, printed[proc[p].key])
           /\ \A k \in Keys : /\ log[k] \in LogType /\ acked[k] \in Seq(Record)
                              /\ LogOK(log[k], acked[k], clock, printed[k])
           /\ clock \in Nat /\ runs \in Nat /\ lock \in Procs \cup {NoProc}
           /\ NoProc \notin Procs /\ printed \in [Keys -> SUBSET Showing]
           /\ \A o \in Procs : proc[o].pc \in {"locked", "writing"} <=> lock = o
           /\ file \in [content : Nat, mtime : Nat]
BY NoProcAssumption DEF Inv, TypeOK, LogsOK, RunsOK, Process, LogType

\* What a log is found to hold is some of its lines.
LEMMA LoadIs ==
    ASSUME NEW k \in Keys, log[k] \in LogType, NEW now, Bytes(log[k].lines) + log[k].tail <= MaxBytes,
           Len(log[k].lines) <= MaxRecords
    PROVE  LET u == Usables(log[k].lines, now)
           IN  /\ Load(k, now) = [records |-> u, bytes |-> Bytes(log[k].lines) + log[k].tail,
                                  compact |-> log[k].tail > 0 \/ Len(u) < Len(log[k].lines)]
               /\ u \in Seq(Record) /\ Len(u) <= Len(log[k].lines)
               /\ \A i \in 1 .. Len(u) : \E j \in 1 .. Len(log[k].lines) : u[i] = log[k].lines[j]
<1> DEFINE u == Usables(log[k].lines, now)  s == log[k].lines
<1>1. s \in Seq(Record) /\ log[k].tail \in Nat
  BY DEF LogType
<1>2. PICK e : Picks(u, e, s)
  BY <1>1, UsablesPicks
<1>3. u \in Seq(Record) /\ Len(u) <= Len(s)
  BY <1>2, PicksCount DEF Picks
<1>4. \A i \in 1 .. Len(u) : \E j \in 1 .. Len(s) : u[i] = s[j]
  BY <1>2 DEF Picks
<1>5. Bytes(s) \in Nat /\ Len(u) \in Nat /\ Len(s) \in Nat
  BY <1>1, <1>3, BytesType, LenProperties
<1> HIDE DEF u
<1>6. Capped(u) = u /\ ~ (Bytes(s) + log[k].tail > MaxBytes)
  BY <1>1, <1>3, <1>5, Bounds DEF Capped
<1>7. Load(k, now) = [records |-> u, bytes |-> Bytes(s) + log[k].tail,
                      compact |-> log[k].tail > 0 \/ Len(u) < Len(s)]
  BY <1>6 DEF Load, u
<1> QED BY <1>3, <1>4, <1>7 DEF u

LEMMA OpenKept ==
    ASSUME Inv, NEW p \in Procs, NEW k \in Keys, Open(p, k)
    PROVE  Inv'
<1> DEFINE known == {x.shown : x \in ToSet(Load(k, clock).records)} \ {0}
           r == [Idle EXCEPT !.pc = "opened", !.key = k, !.id = runs + 1, !.known = known]
<1>1. /\ Become(p, r) /\ runs' = runs + 1 /\ UNCHANGED <<clock, file, log, lock, printed, acked>>
      /\ proc[p].pc = "idle"
  BY DEF Open
<1>2. \A m \in known : m \in Nat /\ Shown(printed[k], m)
  <2> DEFINE u == Load(k, clock).records
  <2> TAKE m \in known
  <2>1. PICK x \in ToSet(u) : x.shown = m /\ m # 0
    OBVIOUS
  <2>2. LogOK(log[k], acked[k], clock, printed[k]) /\ log[k] \in LogType
    BY RunFacts
  <2>3. /\ u \in Seq(Record)
        /\ \A i \in 1 .. Len(u) : \E j \in 1 .. Len(log[k].lines) : u[i] = log[k].lines[j]
    BY <2>2, LoadIs DEF LogOK
  <2>4. DOMAIN u = 1 .. Len(u)
    BY <2>3, LenProperties
  <2> HIDE DEF u
  <2>5. PICK i \in 1 .. Len(u) : x = u[i]
    BY <2>1, <2>4 DEF ToSet
  <2>6. PICK j \in 1 .. Len(log[k].lines) : x = log[k].lines[j]
    BY <2>3, <2>5
  <2>7. Shown(printed[k], m)
    BY <2>1, <2>2, <2>6 DEF LogOK
  <2>8. x \in Record
    BY <2>3, <2>5, ElementOfSeq
  <2> QED BY <2>1, <2>7, <2>8 DEF Record
<1>3. known \in SUBSET Nat
  BY <1>2
<1> HIDE DEF known
<1>4. r \in Process /\ r.pc = "opened" /\ r.key = k /\ r.known = known /\ ~ r.seen /\ r.record = Idle.record
  <2>1. runs + 1 \in Nat
    BY RunFacts
  <2> QED BY <1>3, <2>1, IdleType DEF Process
<1> HIDE DEF r
<1>5. RunOK(r, log[k], clock, printed[k])
  BY <1>2, <1>4, IdleType, Bounds, RunFacts DEF RunOK
<1>6. lock # p
  BY <1>1, RunFacts
<1> QED BY <1>1, <1>4, <1>5, <1>6, RunFacts, RunStep

LEMMA SearchKept ==
    ASSUME Inv, NEW p \in Procs, Search(p)
    PROVE  Inv'
<1> DEFINE q == proc[p]  r == [q EXCEPT !.pc = "searched", !.mtime = file.mtime]
<1>1. Become(p, r) /\ UNCHANGED <<clock, file, log, lock, runs, printed, acked>> /\ q.pc = "opened"
  BY DEF Search
<1>2. q \in Process /\ file.mtime \in Nat /\ RunOK(q, log[q.key], clock, printed[q.key])
  BY RunFacts
<1>3. /\ r \in Process /\ r.pc = "searched" /\ r.key = q.key /\ r.known = q.known /\ r.seen = q.seen
      /\ r.record = q.record
  BY <1>2 DEF Process
<1>4. lock # p
  BY <1>1, RunFacts
<1>5. ~ q.seen
  BY <1>1, <1>2 DEF RunOK
<1> HIDE DEF r
<1>6. RunOK(r, log[r.key], clock, printed[r.key])
  BY <1>2, <1>3, <1>5 DEF RunOK
<1> QED BY <1>1, <1>3, <1>4, <1>6, RunFacts, RunStep

LEMMA ShapeKept ==
    ASSUME Inv, NEW p \in Procs, Shape(p)
    PROVE  Inv'
<1> DEFINE q == proc[p]
<1>1. PICK implicit \in BOOLEAN :
          Become(p, [q EXCEPT !.pc = "shaped", !.context = file.content, !.seen = implicit /\ Covered(p)])
  BY DEF Shape
<1> DEFINE seen == implicit /\ Covered(p)
           r == [q EXCEPT !.pc = "shaped", !.context = file.content, !.seen = seen]
<1>2. Become(p, r) /\ UNCHANGED <<clock, file, log, lock, runs, printed, acked>> /\ q.pc = "searched"
  BY <1>1 DEF Shape
<1>3. q \in Process /\ file.content \in Nat /\ RunOK(q, log[q.key], clock, printed[q.key])
  BY RunFacts
<1>4. seen \in BOOLEAN /\ (seen => q.mtime \in q.known)
  BY DEF Covered
<1> HIDE DEF seen
<1>5. /\ r \in Process /\ r.pc = "shaped" /\ r.key = q.key /\ r.known = q.known /\ r.seen = seen
      /\ r.record = q.record /\ r.mtime = q.mtime
  BY <1>3, <1>4 DEF Process
<1>6. lock # p
  BY <1>2, RunFacts
<1> HIDE DEF r
<1>7. RunOK(r, log[r.key], clock, printed[r.key])
  BY <1>3, <1>4, <1>5 DEF RunOK
<1> QED BY <1>2, <1>5, <1>6, <1>7, RunFacts, RunStep

\* What is printed is noted as printed before the run goes on.
LEMMA EmitKept ==
    ASSUME Inv, NEW p \in Procs, Emit(p)
    PROVE  Inv'
<1> DEFINE q == proc[p]  r == [q EXCEPT !.pc = "emitted"]
           x == [mtime |-> q.mtime, context |-> q.context]
           s == IF q.seen THEN printed[q.key] ELSE printed[q.key] \cup {x}
<1>1. /\ Become(p, r) /\ UNCHANGED <<clock, file, log, lock, runs, acked>> /\ q.pc = "shaped"
      /\ printed' = [printed EXCEPT ![q.key] = s]
  BY DEF Emit
<1>2. /\ q \in Process /\ q.key \in Keys /\ q.mtime \in Nat /\ q.context \in Nat
      /\ RunOK(q, log[q.key], clock, printed[q.key]) /\ printed \in [Keys -> SUBSET Showing]
  BY RunFacts DEF Process
<1>3. /\ r \in Process /\ r.pc = "emitted" /\ r.key = q.key /\ r.known = q.known /\ r.seen = q.seen
      /\ r.record = q.record /\ r.mtime = q.mtime
  BY <1>2 DEF Process
<1>4. x \in Showing /\ x.mtime = q.mtime
  BY <1>2 DEF Showing
<1>5. s \in SUBSET Showing /\ printed[q.key] \subseteq s /\ (~ q.seen => x \in s)
  BY <1>2, <1>4
<1> HIDE DEF r, s, x
<1>6. /\ printed' \in [Keys -> SUBSET Showing] /\ printed'[q.key] = s
      /\ \A k \in Keys : printed[k] \subseteq printed'[k]
  BY <1>1, <1>2, <1>5
<1>7. RunOK(r, log[q.key], clock, s)
  <2>1. \A m : Shown(printed[q.key], m) => Shown(s, m)
    BY <1>5 DEF Shown
  <2>2. Shown(s, q.mtime)
    <3>1. CASE q.seen
      BY <3>1, <2>1, <1>2 DEF RunOK
    <3>2. CASE ~ q.seen
      BY <3>2, <1>4, <1>5 DEF Shown
    <3> QED BY <3>1, <3>2
  <2> QED BY <2>1, <2>2, <1>2, <1>3 DEF RunOK
<1>8. lock # p
  BY <1>1, RunFacts
<1> QED BY <1>1, <1>3, <1>6, <1>7, <1>8, RunFacts, RunStep

LEMMA MakeRecordKept ==
    ASSUME Inv, NEW p \in Procs, MakeRecord(p)
    PROVE  Inv'
<1> DEFINE q == proc[p]
           Rec(size) == [id |-> q.id, t |-> clock, size |-> size, whole |-> TRUE,
                         shown |-> IF q.seen THEN 0 ELSE q.mtime]
<1>1. PICK size \in Sizes :
          Become(p, IF size > MaxRecordBytes THEN Idle
                    ELSE [q EXCEPT !.pc = "waiting", !.record = Rec(size)])
  BY DEF MakeRecord
<1>2. UNCHANGED <<clock, file, log, lock, runs, printed, acked>> /\ q.pc = "emitted"
  BY DEF MakeRecord
<1>3. /\ q \in Process /\ q.id \in Nat /\ q.mtime \in Nat /\ clock \in Nat /\ size \in Nat /\ size >= 1
      /\ RunOK(q, log[q.key], clock, printed[q.key])
  BY RunFacts, Bounds DEF Process
<1>4. lock # p
  BY <1>2, RunFacts
<1>5. CASE size > MaxRecordBytes
  <2>1. Become(p, Idle)
    BY <1>1, <1>5
  <2>2. RunOK(Idle, log[Idle.key], clock, printed'[Idle.key])
    BY <1>3, RunIdle
  <2> QED BY <1>2, <1>4, <2>1, <2>2, IdleType, RunFacts, RunStep
<1>6. CASE ~(size > MaxRecordBytes)
  <2> DEFINE rec == Rec(size)  r == [q EXCEPT !.pc = "waiting", !.record = rec]
  <2>1. Become(p, r)
    BY <1>1, <1>6
  <2>2. /\ rec \in Record /\ rec.t = clock /\ rec.size = size /\ rec.whole
        /\ rec.shown # 0 => ~ q.seen /\ rec.shown = q.mtime
    BY <1>3 DEF Record
  <2> HIDE DEF rec
  <2>3. /\ r \in Process /\ r.pc = "waiting" /\ r.key = q.key /\ r.known = q.known /\ r.seen = q.seen
        /\ r.record = rec /\ r.mtime = q.mtime
    BY <1>3, <2>2 DEF Process
  <2> HIDE DEF r
  <2>4. rec.shown # 0 => Shown(printed[q.key], rec.shown)
    BY <1>2, <1>3, <2>2 DEF RunOK
  <2>5. size \in 1 .. MaxRecordBytes
    BY <1>3, <1>6, Bounds
  <2>6. RunOK(r, log[r.key], clock, printed[r.key])
    BY <1>3, <2>2, <2>3, <2>4, <2>5 DEF RunOK
  <2> QED BY <1>2, <1>4, <2>1, <2>3, <2>6, RunFacts, RunStep
<1> QED BY <1>5, <1>6

LEMMA TakeLockKept ==
    ASSUME Inv, NEW p \in Procs, TakeLock(p)
    PROVE  Inv'
<1> DEFINE q == proc[p]  r == [q EXCEPT !.pc = "locked"]
<1>1. /\ Become(p, r) /\ UNCHANGED <<clock, file, log, runs, printed, acked>> /\ q.pc = "waiting"
      /\ lock = NoProc /\ lock' = p
  BY DEF TakeLock
<1>2. q \in Process /\ RunOK(q, log[q.key], clock, printed[q.key])
  BY RunFacts
<1>3. /\ r \in Process /\ r.pc = "locked" /\ r.key = q.key /\ r.known = q.known /\ r.seen = q.seen
      /\ r.record = q.record /\ r.mtime = q.mtime
  BY <1>2 DEF Process
<1> HIDE DEF r
<1>4. RunOK(r, log[r.key], clock, printed[r.key])
  BY <1>2, <1>3 DEF RunOK
<1>5. \A o \in Procs \ {p} : lock' = o <=> lock = o
  BY <1>1, RunFacts
<1> QED BY <1>1, <1>3, <1>4, <1>5, RunFacts, RunStep

LEMMA ListExpiredKept ==
    ASSUME Inv, NEW p \in Procs, ListExpired(p)
    PROVE  Inv'
<1> DEFINE q == proc[p]  expired == {k \in Keys \ {q.key} : Old(k)}
           r == IF expired = {} THEN Idle ELSE [q EXCEPT !.pc = "pruning", !.expired = expired]
<1>1. Become(p, r) /\ UNCHANGED <<clock, file, log, lock, runs, printed, acked>> /\ q.pc = "prune"
  BY DEF ListExpired
<1>2. q \in Process /\ RunOK(q, log[q.key], clock, printed[q.key]) /\ clock \in Nat
  BY RunFacts
<1>3. expired \in SUBSET Keys
  OBVIOUS
<1> HIDE DEF expired
<1>4. \/ r = Idle
      \/ /\ r \in Process /\ r.pc = "pruning" /\ r.key = q.key /\ r.known = q.known /\ r.seen = q.seen
         /\ r.record = q.record /\ r.mtime = q.mtime
  BY <1>2, <1>3 DEF Process
<1> HIDE DEF r
<1>5. r \in Process /\ r.pc \notin {"locked", "writing"}
  BY <1>4, IdleType
<1>6. RunOK(r, log[r.key], clock, printed[r.key])
  <2>1. CASE r = Idle
    BY <1>2, <2>1, RunIdle
  <2>2. CASE r # Idle
    BY <2>2, <1>2, <1>4 DEF RunOK
  <2> QED BY <2>1, <2>2
<1>7. lock # p
  BY <1>1, RunFacts
<1> QED BY <1>1, <1>5, <1>6, <1>7, RunFacts, RunStep

\* A run ends, or gives up waiting.
LEMMA StopKept ==
    ASSUME Inv, NEW p \in Procs, GiveUp(p) \/ PruneBusy(p) \/ Stop(p)
    PROVE  Inv'
<1>1. /\ Become(p, Idle) /\ UNCHANGED <<clock, file, log, runs, printed, acked>>
      /\ lock' = (IF lock = p THEN NoProc ELSE lock)
  <2>1. CASE Stop(p)
    BY <2>1 DEF Stop
  <2>2. CASE GiveUp(p)
    BY <2>2, RunFacts DEF GiveUp
  <2>3. CASE PruneBusy(p)
    BY <2>3, RunFacts DEF PruneBusy
  <2> QED BY <2>1, <2>2, <2>3
<1>2. lock' \in Procs \cup {NoProc} /\ lock' # p /\ \A o \in Procs \ {p} : lock' = o <=> lock = o
  BY <1>1, RunFacts
<1>3. RunOK(Idle, log[Idle.key], clock, printed'[Idle.key])
  BY RunFacts, RunIdle
<1> QED BY <1>1, <1>2, <1>3, IdleType, RunFacts, RunStep

\* What a rewrite keeps: room for the record, and no less than is promised.
LEMMA KeptIs ==
    ASSUME Inv, NEW p \in Procs
    PROVE  LET q == proc[p]  u == Usables(log[q.key].lines, q.record.t)
           IN  \E n \in 0 .. Len(u) :
                   /\ Kept(p) = Newest(u, n) /\ n < MaxRecords
                   /\ Bytes(Newest(u, n)) + q.record.size <= MaxBytes
                   /\ \/ n = Len(u)
                      \/ n = MaxRecords \div 2
                      \/ /\ n + 1 \in 0 .. Len(u)
                         /\ Bytes(Newest(u, n + 1)) + q.record.size > MaxBytes \div 2
<1> DEFINE q == proc[p]  u == Usables(log[q.key].lines, q.record.t)  size == q.record.size
           keep == Keep(p)  target == ByteTarget(p)  h == MaxBytes \div 2  hr == MaxRecords \div 2
           Fits(n) == n <= keep /\ Bytes(Newest(u, n)) + size <= target
           fits == {n \in 0 .. Len(u) : Fits(n)}
<1>1. /\ q.key \in Keys /\ log[q.key] \in LogType /\ q.record \in Record
      /\ RunOK(q, log[q.key], clock, printed[q.key])
      /\ LogOK(log[q.key], acked[q.key], clock, printed[q.key])
  BY RunFacts
<1>2. /\ Loaded(p).records = u /\ u \in Seq(Record) /\ Len(u) <= Len(log[q.key].lines)
  BY <1>1, LoadIs DEF LogOK, Loaded
<1>3. Len(u) \in Nat /\ Len(u) <= MaxRecords
  <2>1. Len(log[q.key].lines) \in Nat /\ Len(u) \in Nat
    BY <1>1, <1>2, LenProperties DEF LogType
  <2>2. Len(log[q.key].lines) <= MaxRecords
    BY <1>1 DEF LogOK
  <2> DEFINE a == Len(log[q.key].lines)  b == Len(u)
  <2>3. a \in Nat /\ b \in Nat /\ a <= MaxRecords /\ b <= a
    BY <2>1, <2>2, <1>2
  <2> HIDE DEF a, b
  <2>4. b \in Nat /\ b <= MaxRecords
    BY <2>3, Bounds
  <2> QED BY <2>4 DEF b
<1>4. size \in Nat /\ size >= 1 /\ size <= MaxRecordBytes
  BY <1>1, Bounds DEF RunOK
<1>5. /\ h \in Nat /\ h <= MaxBytes /\ MaxRecordBytes <= h /\ hr \in Nat /\ hr < MaxRecords
  <2>1. h \in Nat /\ 2 * h <= MaxBytes /\ MaxBytes < 2 * h + 2
    BY Bounds, DivFacts
  <2>2. hr \in Nat /\ 2 * hr <= MaxRecords /\ MaxRecords < 2 * hr + 2
    BY Bounds, DivFacts
  <2> HIDE DEF h, hr
  <2> QED BY <2>1, <2>2, Bounds
<1>6. \/ keep = hr /\ Len(u) >= MaxRecords
      \/ keep = MaxRecords - 1 /\ Len(u) < MaxRecords
  BY <1>2, <1>3, Bounds DEF Keep
<1>7. target \in {h, MaxBytes}
  BY DEF ByteTarget
<1>8. Kept(p) = Newest(u, CHOOSE n \in fits : \A m \in fits : m <= n)
  BY <1>2 DEF Kept
<1> HIDE DEF u, keep, target, h, hr, size
<1>9. Newest(u, 0) \in Seq(Record) /\ Bytes(Newest(u, 0)) = 0
  <2>1. 0 \in 0 .. Len(u)
    BY <1>3
  <2>2. Newest(u, 0) \in Seq(Record) /\ Len(Newest(u, 0)) = 0
    BY <2>1, <1>2, NewestIs
  <2>3. Newest(u, 0) = <<>>
    BY <2>2, EmptySeq
  <2> QED BY <2>2, <2>3, BytesEmpty
<1>10. keep \in Nat /\ keep < MaxRecords /\ target \in Nat /\ h <= target /\ target <= MaxBytes
  BY <1>5, <1>6, <1>7, Bounds
<1>11. 0 \in fits
  <2>1. size <= target
    BY <1>4, <1>5, <1>10, Bounds
  <2> QED BY <2>1, <1>3, <1>4, <1>9, <1>10
<1>12. fits \in SUBSET (0 .. Len(u)) /\ fits # {}
  BY <1>11
<1>13. \A n \in fits : Fits(n)
  OBVIOUS
<1>14. \A n \in 0 .. Len(u) : n \notin fits => ~ Fits(n)
  OBVIOUS
<1> HIDE DEF fits
<1>15. PICK g \in fits : \A m \in fits : m <= g
  BY <1>3, <1>12, GreatestNumber
<1> DEFINE n == CHOOSE x \in fits : \A m \in fits : m <= x
<1>16. n \in fits /\ \A m \in fits : m <= n
  BY <1>15
<1> HIDE DEF n
<1>17. n \in 0 .. Len(u) /\ n \in Nat /\ n <= Len(u) /\ n <= keep
       /\ Bytes(Newest(u, n)) + size <= target
  BY <1>3, <1>12, <1>13, <1>16
<1>18. Bytes(Newest(u, n)) \in Nat
  BY <1>17, <1>2, NewestIs, BytesType
<1>19. n < MaxRecords /\ Bytes(Newest(u, n)) + size <= MaxBytes
  BY <1>4, <1>10, <1>17, <1>18, Bounds
<1>20. \/ n = Len(u)
       \/ n = hr
       \/ n + 1 \in 0 .. Len(u) /\ Bytes(Newest(u, n + 1)) + size > h
  <2>1. SUFFICES ASSUME n # Len(u) PROVE n = hr \/ (n + 1 \in 0 .. Len(u) /\ Bytes(Newest(u, n + 1)) + size > h)
    OBVIOUS
  <2>2. n + 1 \in 0 .. Len(u) /\ ~ (n + 1 <= n)
    BY <2>1, <1>3, <1>17
  <2>3. ~ Fits(n + 1)
    BY <2>2, <1>14, <1>16
  <2>4. Bytes(Newest(u, n + 1)) \in Nat
    BY <2>2, <1>2, NewestIs, BytesType
  <2>5. CASE ~ (n + 1 <= keep)
    <3>1. n = keep
      BY <2>5, <1>10, <1>17
    <3> QED BY <3>1, <2>2, <1>3, <1>6, <1>17, Bounds
  <2>6. CASE ~ (Bytes(Newest(u, n + 1)) + size <= target)
    <3>1. Bytes(Newest(u, n + 1)) + size > h
      BY <2>6, <2>4, <1>4, <1>5, <1>10
    <3> QED BY <3>1, <2>2
  <2> QED BY <2>3, <2>5, <2>6
<1>21. Kept(p) = Newest(u, n)
  BY <1>8 DEF n
<1> QED BY <1>17, <1>19, <1>20, <1>21 DEF u, h, hr, size

\* The time, the wholeness and what is shown hold of every line.
LineOK(r, m, shown) == r.t <= m /\ r.whole /\ (r.shown # 0 => Shown(shown, r.shown))

LEMMA AcknowledgeFacts ==
    ASSUME Inv, NEW p \in Procs, NEW fresh \in BOOLEAN, Acknowledge(p, fresh),
           proc[p].pc \in {"locked", "writing"}
    PROVE  LET q == proc[p]  r == IF fresh THEN [q EXCEPT !.pc = "prune"] ELSE Idle
           IN  /\ Become(p, r) /\ r \in Process /\ r.pc \notin {"locked", "writing"}
               /\ \A l : RunOK(r, l, clock, printed[r.key])
               /\ acked' = [acked EXCEPT ![q.key] = Append(acked[q.key], q.record)]
               /\ Append(acked[q.key], q.record) \in Seq(Record)
               /\ \A o \in Procs \ {p} : proc[o].pc # "writing"
               /\ lock' \in Procs \cup {NoProc} /\ lock' # p
               /\ \A o \in Procs \ {p} : lock' = o <=> lock = o
<1> DEFINE q == proc[p]  r == IF fresh THEN [q EXCEPT !.pc = "prune"] ELSE Idle
<1>1. /\ Become(p, r) /\ acked' = [acked EXCEPT ![q.key] = Append(acked[q.key], q.record)]
      /\ lock' = NoProc
  BY DEF Acknowledge
<1>2. /\ q \in Process /\ q.record \in Record /\ acked[q.key] \in Seq(Record) /\ clock \in Nat
      /\ RunOK(q, log[q.key], clock, printed[q.key]) /\ lock = p
  BY RunFacts
<1>3. \/ r = Idle
      \/ /\ r \in Process /\ r.pc = "prune" /\ r.key = q.key /\ r.known = q.known /\ r.seen = q.seen
         /\ r.record = q.record /\ r.mtime = q.mtime
  BY <1>2 DEF Process
<1> HIDE DEF r
<1>4. r \in Process /\ r.pc \notin {"locked", "writing"}
  BY <1>3, IdleType
<1>5. ASSUME NEW l PROVE RunOK(r, l, clock, printed[r.key])
  <2>1. CASE r = Idle
    BY <1>2, <2>1, RunIdle
  <2>2. CASE r # Idle
    BY <2>2, <1>2, <1>3 DEF RunOK
  <2> QED BY <2>1, <2>2
<1>6. Append(acked[q.key], q.record) \in Seq(Record)
  BY <1>2, AppendProperties
<1>7. /\ \A o \in Procs \ {p} : proc[o].pc # "writing"
      /\ lock' \in Procs \cup {NoProc} /\ lock' # p
      /\ \A o \in Procs \ {p} : lock' = o <=> lock = o
  BY <1>1, <1>2, RunFacts
<1> QED BY <1>1, <1>4, <1>5, <1>6, <1>7 DEF r

LEMMA RewriteKept ==
    ASSUME Inv, NEW p \in Procs, Rewrite(p)
    PROVE  Inv'
<1> DEFINE q == proc[p]  k == q.key  rec == q.record  a == acked[k]  s == log[k].lines
           l == [lines |-> Append(Kept(p), rec), tail |-> 0, mtime |-> clock]
           fresh == Loaded(p).bytes = 0
           r == IF fresh THEN [q EXCEPT !.pc = "prune"] ELSE Idle
<1>1. /\ log' = [log EXCEPT ![k] = l] /\ Acknowledge(p, fresh) /\ fresh \in BOOLEAN
      /\ UNCHANGED <<clock, file, runs, printed>> /\ q.pc = "locked"
  BY DEF Rewrite
<1> HIDE DEF fresh
<1>2. /\ q.key \in Keys /\ log[k] \in LogType /\ rec \in Record /\ clock \in Nat
      /\ RunOK(q, log[k], clock, printed[k]) /\ LogOK(log[k], a, clock, printed[k])
  BY RunFacts
<1>3. /\ Become(p, r) /\ r \in Process /\ r.pc \notin {"locked", "writing"}
      /\ \A m : RunOK(r, m, clock, printed[r.key])
      /\ acked' = [acked EXCEPT ![k] = Append(a, rec)] /\ Append(a, rec) \in Seq(Record)
      /\ \A o \in Procs \ {p} : proc[o].pc # "writing"
      /\ lock' \in Procs \cup {NoProc} /\ lock' # p
      /\ \A o \in Procs \ {p} : lock' = o <=> lock = o
  BY <1>1, AcknowledgeFacts
<1> DEFINE u == Usables(s, rec.t)
<1>4. PICK n \in 0 .. Len(u) :
          /\ Kept(p) = Newest(u, n) /\ n < MaxRecords /\ Bytes(Newest(u, n)) + rec.size <= MaxBytes
          /\ \/ n = Len(u)
             \/ n = MaxRecords \div 2
             \/ /\ n + 1 \in 0 .. Len(u)
                /\ Bytes(Newest(u, n + 1)) + rec.size > MaxBytes \div 2
  BY KeptIs
<1>5. Holds(Append(Newest(u, n), rec), Append(a, rec), clock)
  BY <1>2, <1>4, Bounds, HoldsRewrite DEF LogOK, RunOK
<1>6. /\ u \in Seq(Record) /\ \A i \in 1 .. Len(u) : \E j \in 1 .. Len(s) : u[i] = s[j]
  BY <1>2, LoadIs DEF LogOK
<1>7. s \in Seq(Record) /\ Len(u) \in Nat /\ log[k].mtime \in Nat /\ log[k].mtime <= clock
      /\ \A j \in 1 .. Len(s) : LineOK(s[j], log[k].mtime, printed[k]) /\ s[j].t \in Nat
  <2>1. s \in Seq(Record) /\ Len(u) \in Nat /\ log[k].mtime \in Nat
    BY <1>2, <1>6, LenProperties DEF LogType
  <2>2. \A j \in 1 .. Len(s) : s[j] \in Record
    BY <2>1, ElementOfSeq
  <2>3. \A j \in 1 .. Len(s) : LineOK(s[j], log[k].mtime, printed[k]) /\ s[j].t \in Nat
    BY <1>2, <2>2 DEF LogOK, LineOK, Record
  <2> QED BY <2>1, <2>3, <1>2 DEF LogOK
<1> HIDE DEF u
<1> DEFINE w == Newest(u, n)  t == Append(w, rec)
<1>8. /\ w \in Seq(Record) /\ Len(w) = n /\ n \in Nat
      /\ \A i \in 1 .. n : \E j \in 1 .. Len(s) : w[i] = s[j]
  <2>1. w \in Seq(Record) /\ Len(w) = n /\ \A i \in 1 .. n : w[i] = u[Len(u) - n + i]
    BY <1>4, <1>6, NewestIs
  <2>2. \A i \in 1 .. n : Len(u) - n + i \in 1 .. Len(u)
    BY <1>4, <1>7
  <2>3. ASSUME NEW i \in 1 .. n PROVE \E j \in 1 .. Len(s) : w[i] = s[j]
    <3>1. w[i] = u[Len(u) - n + i]
      BY <2>1, <2>3
    <3>2. Len(u) - n + i \in 1 .. Len(u)
      BY <2>2, <2>3
    <3> DEFINE m == Len(u) - n + i
    <3> HIDE DEF m, w
    <3>3. \E j \in 1 .. Len(s) : u[m] = s[j]
      BY <3>2, <1>6 DEF m
    <3> QED BY <3>1, <3>3 DEF m
  <2>4. n \in Nat
    BY <1>4, <1>7
  <2> HIDE DEF w
  <2> QED BY <2>1, <2>3, <2>4
<1> HIDE DEF w
<1>9. /\ t \in Seq(Record) /\ Len(t) = n + 1 /\ t[n + 1] = rec /\ \A i \in 1 .. n : t[i] = w[i]
      /\ Bytes(t) = Bytes(w) + rec.size
  BY <1>2, <1>8, AppendProperties, BytesAppend
<1> HIDE DEF t
<1>10. \A i \in 1 .. Len(t) : LineOK(t[i], clock, printed[k])
  <2> TAKE i \in 1 .. Len(t)
  <2>1. CASE i = n + 1
    BY <2>1, <1>2, <1>9 DEF LineOK, RunOK
  <2>2. CASE i \in 1 .. n
    <3>1. PICK j \in 1 .. Len(s) : t[i] = s[j]
      BY <2>2, <1>8, <1>9
    <3>2. s[j].t <= log[k].mtime /\ s[j].t \in Nat /\ log[k].mtime \in Nat /\ log[k].mtime <= clock
      BY <1>7 DEF LineOK
    <3>3. s[j].t <= clock
      <4> DEFINE x == s[j].t  y == log[k].mtime  z == clock
      <4>1. x <= y /\ y <= z /\ x \in Nat /\ y \in Nat /\ z \in Nat
        BY <3>2, <1>2
      <4> HIDE DEF x, y, z
      <4>2. x <= z
        BY <4>1
      <4> QED BY <4>2 DEF x, z
    <3> QED BY <3>1, <3>3, <1>7 DEF LineOK
  <2> QED BY <2>1, <2>2, <1>8, <1>9
<1>11. l.lines = t /\ l.tail = 0 /\ l.mtime = clock
  BY <1>4 DEF t, w
<1>12. l \in LogType
  BY <1>2, <1>9, <1>11 DEF LogType
<1> HIDE DEF l
<1>13. LogOK(l, Append(a, rec), clock, printed[k])
  <2>1. Holds(l.lines, Append(a, rec), clock)
    BY <1>5, <1>11 DEF t, w
  <2>2. Len(l.lines) <= MaxRecords
    BY <1>4, <1>8, <1>9, <1>11, Bounds
  <2>3. Bytes(l.lines) + l.tail <= MaxBytes
    <3>1. Bytes(t) \in Nat /\ Bytes(t) <= MaxBytes
      BY <1>4, <1>9, BytesType DEF w
    <3> QED BY <3>1, <1>11
  <2>4. l.mtime <= clock
    BY <1>2, <1>11
  <2> QED BY <2>1, <2>2, <2>3, <2>4, <1>10, <1>11 DEF LogOK, LineOK
<1> HIDE DEF r
<1> QED BY <1>1, <1>2, <1>3, <1>12, <1>13, LogStep

\* What `append` finds when it need not rewrite the log.
LEMMA RoomFacts ==
    ASSUME Inv, NEW p \in Procs, ~ Compacts(p)
    PROVE  LET q == proc[p]  l == log[q.key]
           IN  /\ l.tail = 0 /\ Len(l.lines) < MaxRecords
               /\ Bytes(l.lines) + q.record.size <= MaxBytes
<1> DEFINE q == proc[p]  l == log[q.key]  u == Usables(l.lines, q.record.t)
           n == Len(l.lines)  m == Len(u)  b == Bytes(l.lines)  z == q.record.size
<1>1. q.key \in Keys /\ l \in LogType /\ LogOK(l, acked[q.key], clock, printed[q.key])
      /\ q.record \in Record
  BY RunFacts
<1>2. /\ Loaded(p) = [records |-> u, bytes |-> b + l.tail, compact |-> l.tail > 0 \/ m < n]
      /\ u \in Seq(Record) /\ m <= n
  BY <1>1, LoadIs DEF LogOK, Loaded
<1>3. n \in Nat /\ m \in Nat /\ l.tail \in Nat /\ b \in Nat /\ z \in Nat
  BY <1>1, <1>2, LenProperties, BytesType DEF LogType, Record
<1>4. ~ (l.tail > 0) /\ ~ (m < n) /\ ~ (m >= MaxRecords) /\ ~ (b + l.tail + z > MaxBytes)
  <2>1. ~ Loaded(p).compact /\ ~ (Len(Loaded(p).records) >= MaxRecords) /\ ~ (Loaded(p).bytes + z > MaxBytes)
    BY DEF Compacts
  <2>2. /\ Loaded(p).records = u /\ Loaded(p).bytes = b + l.tail
        /\ Loaded(p).compact = (l.tail > 0 \/ m < n)
    BY <1>2
  <2> HIDE DEF u, b, z, n, l
  <2> QED BY <2>1, <2>2
<1> DEFINE t == l.tail
<1>5. ~ (t > 0) /\ ~ (m < n) /\ ~ (m >= MaxRecords) /\ ~ (b + t + z > MaxBytes) /\ t \in Nat /\ m <= n
  BY <1>2, <1>3, <1>4
<1> HIDE DEF n, m, b, z, t
<1>6. t = 0 /\ n < MaxRecords /\ b + z <= MaxBytes
  BY <1>3, <1>5, Bounds
<1> QED BY <1>6 DEF n, b, z, t

LEMMA TailBegun ==
    ASSUME NEW w \in LogType, w.tail = 0, NEW c \in Nat
    PROVE  [w EXCEPT !.tail = w.tail + 1, !.mtime = c] = [lines |-> w.lines, tail |-> 1, mtime |-> c]
<1> DEFINE n == w.tail + 1
<1>0. n = 1
  OBVIOUS
<1> HIDE DEF n
<1> DEFINE x == [w EXCEPT !.tail = n, !.mtime = c]
           y == [lines |-> w.lines, tail |-> 1, mtime |-> c]
<1>1. x \in LogType /\ x.lines = w.lines /\ x.tail = n /\ x.mtime = c
  BY <1>0 DEF LogType
<1>2. y \in LogType /\ y.lines = w.lines /\ y.tail = 1 /\ y.mtime = c
  BY DEF LogType
<1> HIDE DEF x, y
<1>3. x = y
  BY <1>0, <1>1, <1>2 DEF LogType
<1> QED BY <1>3 DEF n, x, y

LEMMA BeginLineKept ==
    ASSUME Inv, NEW p \in Procs, BeginLine(p)
    PROVE  Inv'
<1> DEFINE q == proc[p]  k == q.key  a == acked[k]  s == log[k].lines
           l == [lines |-> s, tail |-> 1, mtime |-> clock]
           r == [q EXCEPT !.pc = "writing", !.fresh = Loaded(p).bytes = 0]
<1>1. /\ ~ Compacts(p) /\ Become(p, r) /\ UNCHANGED <<clock, file, lock, runs, printed, acked>>
      /\ q.pc = "locked" /\ log' = [log EXCEPT ![k].tail = @ + 1, ![k].mtime = clock]
  BY DEF BeginLine
<1>2. /\ k \in Keys /\ log[k] \in LogType /\ clock \in Nat /\ a \in Seq(Record) /\ q \in Process
      /\ q.record \in Record /\ RunOK(q, log[k], clock, printed[k])
      /\ LogOK(log[k], a, clock, printed[k]) /\ lock = p
      /\ \A o \in Procs \ {p} : proc[o].pc # "writing"
  BY <1>1, RunFacts
<1>3. /\ log[k].tail = 0 /\ Len(s) < MaxRecords /\ Bytes(s) + q.record.size <= MaxBytes
  BY <1>1, RoomFacts
<1>4. log' = [log EXCEPT ![k] = l]
  <2>1. log \in [Keys -> LogType]
    BY DEF Inv, TypeOK, LogType
  <2>2. [log[k] EXCEPT !.tail = log[k].tail + 1, !.mtime = clock] = l
    BY <1>2, <1>3, TailBegun
  <2>3. log' = [log EXCEPT ![k] = [log[k] EXCEPT !.tail = log[k].tail + 1, !.mtime = clock]]
    BY <1>1
  <2> QED BY <2>2, <2>3
<1>5. /\ r \in Process /\ r.pc = "writing" /\ r.key = k /\ r.known = q.known /\ r.seen = q.seen
      /\ r.record = q.record /\ r.mtime = q.mtime
  BY <1>2 DEF Process
<1> HIDE DEF r
<1>6. l \in LogType /\ l.lines = s /\ l.tail = 1 /\ l.mtime = clock
  BY <1>2 DEF LogType
<1> HIDE DEF l
<1>7. s \in Seq(Record) /\ log[k].mtime \in Nat /\ Len(s) \in Nat /\ Bytes(s) \in Nat
      /\ \A j \in 1 .. Len(s) : s[j].t \in Nat
  <2>1. s \in Seq(Record) /\ log[k].mtime \in Nat
    BY <1>2 DEF LogType
  <2>2. \A j \in 1 .. Len(s) : s[j] \in Record
    BY <2>1, ElementOfSeq
  <2> QED BY <2>1, <2>2, LenProperties, BytesType DEF Record
<1>8. LogOK(l, a, clock, printed[k])
  <2>1. \A i \in 1 .. Len(s) : s[i].t <= clock
    <3> TAKE i \in 1 .. Len(s)
    <3> DEFINE u == s[i].t  v == log[k].mtime  c == clock
    <3>1. u <= v /\ v <= c /\ u \in Nat /\ v \in Nat /\ c \in Nat
      BY <1>2, <1>7 DEF LogOK
    <3> HIDE DEF u, v, c
    <3>2. u <= c
      BY <3>1
    <3> QED BY <3>2 DEF u, c
  <2>2. Bytes(s) + 1 <= MaxBytes
    <3>1. q.record.size \in Nat /\ q.record.size >= 1
      BY <1>2, Bounds DEF RunOK
    <3> DEFINE u == Bytes(s)  v == q.record.size
    <3> HIDE DEF u, v
    <3>2. u + 1 <= MaxBytes
      BY <1>3, <1>7, <3>1, Bounds DEF u, v
    <3> QED BY <3>2 DEF u
  <2>3. clock <= clock
    BY <1>2
  <2> QED BY <2>1, <2>2, <2>3, <1>2, <1>6 DEF LogOK
<1>9. RunOK(r, l, clock, printed[k])
  BY <1>2, <1>3, <1>5, <1>6 DEF RunOK
<1>10. lock' = p /\ lock' \in Procs \cup {NoProc}
  BY <1>1, <1>2
<1>11. RunOK(r, IF r.key = k THEN l ELSE log[r.key], clock, printed[r.key])
  BY <1>5, <1>9
<1>12. acked' = [acked EXCEPT ![k] = a]
  BY <1>1 DEF Inv, TypeOK
<1>13. /\ (r.pc \in {"locked", "writing"} <=> lock' = p)
       /\ \A o \in Procs \ {p} : lock' = o <=> lock = o
  BY <1>1, <1>5, <1>10
<1>14. /\ Become(p, r) /\ r \in Process /\ UNCHANGED <<clock, file, runs, printed>>
       /\ k \in Keys /\ l \in LogType /\ log' = [log EXCEPT ![k] = l]
       /\ a \in Seq(Record) /\ acked' = [acked EXCEPT ![k] = a]
       /\ LogOK(l, a, clock, printed[k])
       /\ RunOK(r, IF r.key = k THEN l ELSE log[r.key], clock, printed[r.key])
       /\ \A o \in Procs \ {p} : proc[o].pc # "writing"
       /\ lock' \in Procs \cup {NoProc} /\ (r.pc \in {"locked", "writing"} <=> lock' = p)
       /\ \A o \in Procs \ {p} : lock' = o <=> lock = o
  BY <1>1, <1>2, <1>4, <1>5, <1>6, <1>8, <1>10, <1>11, <1>12, <1>13
<1> HIDE DEF k, a, q
<1> QED BY <1>14, LogStep

LEMMA EndLineKept ==
    ASSUME Inv, NEW p \in Procs, EndLine(p)
    PROVE  Inv'
<1> DEFINE q == proc[p]  k == q.key  a == acked[k]  s == log[k].lines  rec == q.record
           t == Append(s, rec)  l == [lines |-> t, tail |-> 0, mtime |-> clock]
           r == IF q.fresh THEN [q EXCEPT !.pc = "prune"] ELSE Idle
<1>1. /\ Acknowledge(p, q.fresh) /\ UNCHANGED <<clock, file, runs, printed>> /\ q.pc = "writing"
      /\ log' = [log EXCEPT ![k] = [lines |-> Append(s, [rec EXCEPT !.whole = log[k].tail = 1]),
                                    tail |-> 0, mtime |-> clock]]
  BY DEF EndLine
<1>2. /\ k \in Keys /\ log[k] \in LogType /\ clock \in Nat /\ a \in Seq(Record) /\ q \in Process
      /\ rec \in Record /\ RunOK(q, log[k], clock, printed[k])
      /\ LogOK(log[k], a, clock, printed[k])
  BY <1>1, RunFacts
<1>3. /\ log[k].tail = 1 /\ Len(s) < MaxRecords /\ Bytes(s) + rec.size <= MaxBytes /\ rec.whole
  BY <1>1, <1>2 DEF RunOK
<1>4. log' = [log EXCEPT ![k] = l]
  <2>1. [rec EXCEPT !.whole = log[k].tail = 1] = rec
    <3> DEFINE w == log[k].tail = 1
    <3>1. w /\ w \in BOOLEAN /\ rec.whole \in BOOLEAN
      BY <1>2, <1>3 DEF Record
    <3> HIDE DEF w
    <3>2. rec.whole = w
      BY <3>1, <1>3
    <3>3. rec = [rec EXCEPT !.whole = w]
      BY <3>2, <1>2 DEF Record
    <3> QED BY <3>3 DEF w
  <2> QED BY <2>1, <1>1
<1>5. q.fresh \in BOOLEAN
  BY <1>2 DEF Process
<1>6. /\ Become(p, r) /\ r \in Process /\ r.pc \notin {"locked", "writing"}
      /\ \A m : RunOK(r, m, clock, printed[r.key])
      /\ acked' = [acked EXCEPT ![k] = Append(a, rec)] /\ Append(a, rec) \in Seq(Record)
      /\ \A o \in Procs \ {p} : proc[o].pc # "writing"
      /\ lock' \in Procs \cup {NoProc} /\ lock' # p
      /\ \A o \in Procs \ {p} : lock' = o <=> lock = o
  BY <1>1, <1>5, AcknowledgeFacts
<1>7. s \in Seq(Record) /\ log[k].mtime \in Nat /\ Len(s) \in Nat
      /\ \A j \in 1 .. Len(s) : s[j].t \in Nat
  <2>1. s \in Seq(Record) /\ log[k].mtime \in Nat
    BY <1>2 DEF LogType
  <2>2. \A j \in 1 .. Len(s) : s[j] \in Record
    BY <2>1, ElementOfSeq
  <2> QED BY <2>1, <2>2, LenProperties DEF Record
<1>8. Holds(t, Append(a, rec), clock)
  BY <1>2, Bounds, HoldsAppend DEF LogOK
<1>9. /\ t \in Seq(Record) /\ Len(t) = Len(s) + 1 /\ t[Len(s) + 1] = rec
      /\ \A i \in 1 .. Len(s) : t[i] = s[i]
  <2> HIDE DEF s, rec
  <2> QED BY <1>2, <1>7, AppendProperties
<1>10. Bytes(t) = Bytes(s) + rec.size /\ Bytes(t) \in Nat
  BY <1>2, <1>7, <1>9, BytesAppend, BytesType
<1> HIDE DEF t
<1>11. l \in LogType /\ l.lines = t /\ l.tail = 0 /\ l.mtime = clock
  BY <1>2, <1>9 DEF LogType
<1> HIDE DEF l
<1>12. \A i \in 1 .. Len(t) : LineOK(t[i], clock, printed[k])
  <2> TAKE i \in 1 .. Len(t)
  <2>1. CASE i = Len(s) + 1
    BY <2>1, <1>2, <1>9 DEF LineOK, RunOK
  <2>2. CASE i \in 1 .. Len(s)
    <3> DEFINE u == s[i].t  v == log[k].mtime  c == clock
    <3>1. u <= v /\ v <= c /\ u \in Nat /\ v \in Nat /\ c \in Nat
      BY <2>2, <1>2, <1>7 DEF LogOK
    <3> HIDE DEF u, v, c
    <3>2. u <= c
      BY <3>1
    <3>3. t[i] = s[i] /\ s[i].t <= clock
      BY <2>2, <3>2, <1>9 DEF u, c
    <3> QED BY <2>2, <3>3, <1>2 DEF LineOK, LogOK
  <2> QED BY <2>1, <2>2, <1>7, <1>9
<1>13. LogOK(l, Append(a, rec), clock, printed[k])
  <2>1. Len(t) <= MaxRecords
    BY <1>3, <1>7, <1>9, Bounds
  <2>2. Bytes(t) + 0 <= MaxBytes
    BY <1>3, <1>10
  <2>3. clock <= clock
    BY <1>2
  <2> QED BY <2>1, <2>2, <2>3, <1>8, <1>11, <1>12 DEF LogOK, LineOK
<1> HIDE DEF r
<1>14. RunOK(r, IF r.key = k THEN l ELSE log[r.key], clock, printed[r.key])
  BY <1>6
<1>15. r.pc \in {"locked", "writing"} <=> lock' = p
  BY <1>6
<1> DEFINE b == Append(a, rec)
<1>16. /\ Become(p, r) /\ r \in Process /\ UNCHANGED <<clock, file, runs, printed>>
       /\ k \in Keys /\ l \in LogType /\ log' = [log EXCEPT ![k] = l]
       /\ b \in Seq(Record) /\ acked' = [acked EXCEPT ![k] = b]
       /\ LogOK(l, b, clock, printed[k])
       /\ RunOK(r, IF r.key = k THEN l ELSE log[r.key], clock, printed[r.key])
       /\ \A o \in Procs \ {p} : proc[o].pc # "writing"
       /\ lock' \in Procs \cup {NoProc} /\ (r.pc \in {"locked", "writing"} <=> lock' = p)
       /\ \A o \in Procs \ {p} : lock' = o <=> lock = o
  BY <1>1, <1>2, <1>4, <1>6, <1>11, <1>13, <1>14, <1>15
<1> HIDE DEF b, k, a, q
<1> QED BY <1>16, LogStep

\* A log whose lines are all a day old loses nothing anyone is promised.
LEMMA OldLinesExpired ==
    ASSUME Inv, NEW k \in Keys, Old(k)
    PROVE  \A i \in 1 .. Len(log[k].lines) : clock - log[k].lines[i].t >= MaxAge
<1> DEFINE s == log[k].lines
<1>1. log[k] \in LogType /\ clock \in Nat /\ LogOK(log[k], acked[k], clock, printed[k])
  BY DEF Inv, TypeOK, LogsOK, LogType
<1>2. s \in Seq(Record) /\ log[k].mtime \in Nat
  BY <1>1 DEF LogType
<1>3. \A i \in 1 .. Len(s) : s[i].t \in Nat
  <2>1. \A i \in 1 .. Len(s) : s[i] \in Record
    BY <1>2, ElementOfSeq
  <2> QED BY <2>1 DEF Record
<1> TAKE i \in 1 .. Len(s)
<1> DEFINE u == s[i].t  v == log[k].mtime  c == clock
<1>4. u <= v /\ c - v >= MaxAge /\ u \in Nat /\ v \in Nat /\ c \in Nat
  BY <1>1, <1>2, <1>3 DEF LogOK, Old
<1> HIDE DEF u, v, c
<1>5. c - u >= MaxAge
  BY <1>4, Bounds
<1> QED BY <1>5 DEF c, u

LEMMA PruneOneKept ==
    ASSUME Inv, NEW p \in Procs, NEW k \in Keys, PruneOne(p, k)
    PROVE  Inv'
<1> DEFINE q == proc[p]  r == IF q.expired = {k} THEN Idle ELSE [q EXCEPT !.expired = @ \ {k}]
           l == IF StillOld(k) THEN NoLog ELSE log[k]
<1>1. /\ Become(p, r) /\ UNCHANGED <<clock, file, lock, runs, printed, acked>> /\ q.pc = "pruning"
      /\ lock = NoProc /\ log' = IF StillOld(k) THEN [log EXCEPT ![k] = NoLog] ELSE log
  BY DEF PruneOne
<1>2. /\ log[k] \in LogType /\ clock \in Nat /\ acked[k] \in Seq(Record) /\ q \in Process
      /\ RunOK(q, log[q.key], clock, printed[q.key])
      /\ LogOK(log[k], acked[k], clock, printed[k])
      /\ \A o \in Procs \ {p} : proc[o].pc # "writing"
  BY <1>1, RunFacts
<1>3. log \in [Keys -> LogType] /\ acked \in [Keys -> Seq(Record)]
  BY DEF Inv, TypeOK, LogType
<1>4. log' = [log EXCEPT ![k] = l] /\ acked' = [acked EXCEPT ![k] = acked[k]]
  BY <1>1, <1>3
<1>5. l \in LogType /\ LogOK(l, acked[k], clock, printed[k])
  <2>1. CASE StillOld(k)
    <3>1. l = NoLog /\ NoLog.lines = <<>> /\ NoLog.tail = 0 /\ NoLog.mtime = 0 /\ Len(<<>>) = 0
      BY <2>1 DEF NoLog
    <3>2. Old(k)
      BY <2>1 DEF StillOld
    <3>3. Holds(<<>>, acked[k], clock)
      <4>1. \A i \in 1 .. Len(log[k].lines) : clock - log[k].lines[i].t >= MaxAge
        BY <3>2, OldLinesExpired
      <4> QED BY <4>1, <1>2, HoldsNothing DEF LogOK
    <3>4. NoLog \in LogType
      BY EmptySeq DEF NoLog, LogType
    <3>5. LogOK(NoLog, acked[k], clock, printed[k])
      <4>1. \A i \in 1 .. Len(<<>>) : FALSE
        BY <3>1
      <4>2. Len(NoLog.lines) <= MaxRecords /\ Bytes(NoLog.lines) + NoLog.tail <= MaxBytes
        BY <3>1, BytesEmpty, Bounds
      <4>3. NoLog.mtime <= clock
        BY <3>1, <1>2
      <4> HIDE DEF l
      <4> QED BY <4>1, <4>2, <4>3, <3>1, <3>3 DEF LogOK
    <3> QED BY <3>1, <3>4, <3>5
  <2>2. CASE ~ StillOld(k)
    BY <2>2, <1>2
  <2> QED BY <2>1, <2>2
<1> HIDE DEF l
<1>6. q.expired \ {k} \in SUBSET Keys
  BY <1>2 DEF Process
<1>7. \/ r = Idle
      \/ /\ r \in Process /\ r.pc = "pruning" /\ r.key = q.key /\ r.known = q.known /\ r.seen = q.seen
         /\ r.record = q.record /\ r.mtime = q.mtime
  BY <1>1, <1>2, <1>6 DEF Process
<1> HIDE DEF r
<1>8. r \in Process /\ r.pc \notin {"locked", "writing"}
  BY <1>7, IdleType
<1>9. \A m : RunOK(r, m, clock, printed[r.key])
  <2> TAKE m
  <2>1. CASE r = Idle
    BY <2>1, <1>2, RunIdle
  <2>2. CASE r # Idle
    BY <2>2, <1>1, <1>2, <1>7 DEF RunOK
  <2> QED BY <2>1, <2>2
<1>10. lock' \in Procs \cup {NoProc} /\ lock' # p /\ \A o \in Procs \ {p} : lock' = o <=> lock = o
  BY <1>1, NoProcAssumption
<1>11. RunOK(r, IF r.key = k THEN l ELSE log[r.key], clock, printed[r.key])
  BY <1>9
<1>12. r.pc \in {"locked", "writing"} <=> lock' = p
  BY <1>8, <1>10
<1> DEFINE a == acked[k]
<1>13. /\ Become(p, r) /\ r \in Process /\ UNCHANGED <<clock, file, runs, printed>>
       /\ k \in Keys /\ l \in LogType /\ log' = [log EXCEPT ![k] = l]
       /\ a \in Seq(Record) /\ acked' = [acked EXCEPT ![k] = a]
       /\ LogOK(l, a, clock, printed[k])
       /\ RunOK(r, IF r.key = k THEN l ELSE log[r.key], clock, printed[r.key])
       /\ \A o \in Procs \ {p} : proc[o].pc # "writing"
       /\ lock' \in Procs \cup {NoProc} /\ (r.pc \in {"locked", "writing"} <=> lock' = p)
       /\ \A o \in Procs \ {p} : lock' = o <=> lock = o
  BY <1>1, <1>2, <1>4, <1>5, <1>8, <1>10, <1>11, <1>12
<1> HIDE DEF a, q
<1> QED BY <1>13, LogStep

\* The clock moves on, or the file is edited.
LEMMA OutsideKept ==
    ASSUME Inv, Edit \/ Tick \/ UNCHANGED vars
    PROVE  Inv'
<1>1. UNCHANGED <<log, lock, proc, runs, printed, acked>>
  BY DEF Edit, Tick, vars
<1>2. clock \in Nat /\ clock' \in Nat /\ clock <= clock'
  BY DEF Inv, TypeOK, Edit, Tick, vars
<1>3. file' \in [content : Nat, mtime : Nat]
  BY <1>2 DEF Inv, TypeOK, Edit, Tick, vars
<1>4. TypeOK'
  BY <1>1, <1>2, <1>3 DEF Inv, TypeOK
<1>5. LogsOK'
  <2>1. ASSUME NEW k \in Keys PROVE LogOK(log[k], acked[k], clock', printed[k])
    <3>1. log[k] \in LogType /\ LogOK(log[k], acked[k], clock, printed[k])
      BY RunFacts DEF Inv, TypeOK, LogsOK, LogType
    <3>2. printed[k] \subseteq printed[k]
      OBVIOUS
    <3> QED BY <1>2, <3>1, <3>2, LogLater DEF LogType
  <2> QED BY <1>1, <2>1 DEF LogsOK
<1>6. RunsOK'
  <2>1. ASSUME NEW p \in Procs PROVE RunOK(proc[p], log[proc[p].key], clock', printed[proc[p].key])
    <3>1. proc[p] \in Process /\ RunOK(proc[p], log[proc[p].key], clock, printed[proc[p].key])
      BY RunFacts
    <3>2. printed[proc[p].key] \subseteq printed[proc[p].key]
      OBVIOUS
    <3> QED BY <1>2, <3>1, <3>2, RunLater
  <2> QED BY <1>1, <2>1 DEF RunsOK
<1> QED BY <1>4, <1>5, <1>6 DEF Inv

LEMMA InitInv == Init => Inv
<1> SUFFICES ASSUME Init PROVE Inv
  OBVIOUS
<1> DEFINE L(k) == IF Seeded[k] = 0 THEN NoLog ELSE [lines |-> Seeds(k), tail |-> 0, mtime |-> 1]
<1>1. /\ clock = 1 /\ file = [content |-> 1, mtime |-> 1] /\ log = [k \in Keys |-> L(k)]
      /\ lock = NoProc /\ proc = [p \in Procs |-> Idle] /\ runs = MaxRecords
      /\ printed = [k \in Keys |-> {}] /\ acked = [k \in Keys |-> Seeds(k)]
  BY DEF Init
<1> HIDE DEF L
<1>2. ASSUME NEW k \in Keys
      PROVE  /\ L(k) \in LogType /\ Seeds(k) \in Seq(Record) /\ L(k).lines = Seeds(k) /\ L(k).tail = 0
             /\ L(k).mtime \in {0, 1} /\ Len(Seeds(k)) = Seeded[k] /\ Bytes(Seeds(k)) = Seeded[k]
             /\ \A i \in 1 .. Seeded[k] : Seeds(k)[i] = SeedRecord(i) /\ L(k).mtime = 1
  <2> DEFINE n == Seeded[k]  s == Seeds(k)
  <2>1. n \in Nat
    BY BoundsAssumption
  <2>2. \A i \in 1 .. n : SeedRecord(i) \in Record /\ SeedRecord(i).size = 1
    BY DEF SeedRecord, Record
  <2>3. s = [i \in 1 .. n |-> SeedRecord(i)]
    BY DEF Seeds
  <2> HIDE DEF n, s
  <2>4. s \in Seq(Record) /\ Len(s) = n /\ \A i \in 1 .. n : s[i] = SeedRecord(i)
    <3>1. s \in [1 .. n -> Record]
      BY <2>2, <2>3
    <3>2. s \in Seq(Record)
      BY <2>1, <3>1, SeqDef
    <3>3. DOMAIN s = 1 .. n
      BY <2>3
    <3>4. Len(s) = n
      BY <2>1, <3>2, <3>3, LenProperties
    <3> QED BY <3>2, <3>4, <2>3
  <2>5. Bytes(s) = n
    BY <2>2, <2>4, BytesOfOnes
  <2>6. CASE n = 0
    <3>1. s = <<>>
      BY <2>4, <2>6, EmptySeq
    <3>2. L(k) = NoLog
      BY <2>6 DEF L, n
    <3>3. NoLog \in LogType /\ NoLog.lines = <<>> /\ NoLog.tail = 0 /\ NoLog.mtime = 0
      BY EmptySeq DEF NoLog, LogType
    <3>4. \A i \in 1 .. n : FALSE
      BY <2>6
    <3> QED BY <2>4, <2>5, <3>1, <3>2, <3>3, <3>4 DEF n, s
  <2>7. CASE n # 0
    <3>1. L(k) = [lines |-> s, tail |-> 0, mtime |-> 1]
      BY <2>7 DEF L, n, s
    <3> QED BY <3>1, <2>4, <2>5 DEF LogType, n, s
  <2> QED BY <2>6, <2>7
<1>3. TypeOK
  <2>1. log \in [Keys -> LogType]
    BY <1>1, <1>2
  <2>2. acked \in [Keys -> Seq(Record)]
    BY <1>1, <1>2
  <2>3. proc \in [Procs -> Process]
    BY <1>1, IdleType
  <2>4. \A p \in Procs : proc[p].pc \in {"locked", "writing"} <=> lock = p
    BY <1>1, IdleType, NoProcAssumption
  <2> QED BY <1>1, <2>1, <2>2, <2>3, <2>4, Bounds DEF TypeOK, LogType
<1>4. LogsOK
  <2>1. ASSUME NEW k \in Keys PROVE LogOK(L(k), Seeds(k), 1, {})
    <3> DEFINE s == Seeds(k)  n == Seeded[k]
    <3>1. /\ L(k).lines = s /\ L(k).tail = 0 /\ L(k).mtime \in {0, 1} /\ s \in Seq(Record)
          /\ Len(s) = n /\ Bytes(s) = n /\ n \in Nat /\ n <= MaxRecords /\ n <= MaxBytes
          /\ \A i \in 1 .. n : s[i] = SeedRecord(i) /\ L(k).mtime = 1
      BY <1>2, BoundsAssumption
    <3> HIDE DEF s, n
    <3>2. Holds(s, s, 1)
      <4> DEFINE e == [i \in 1 .. Len(s) |-> i]
      <4>1. Picks(s, e, s)
        BY <3>1 DEF Picks
      <4>2. \A i \in 1 .. Len(s) : \E j \in 1 .. Len(s) : e[j] = i
        OBVIOUS
      <4> QED BY <4>1, <4>2 DEF Holds
    <3>3. \A i \in 1 .. Len(s) : s[i].t = 1 /\ s[i].whole /\ s[i].shown = 0
      BY <3>1 DEF SeedRecord
    <3>4. Len(s) <= MaxRecords /\ Bytes(s) + 0 <= MaxBytes
      BY <3>1
    <3>5. \A i \in 1 .. Len(s) : s[i].t <= L(k).mtime
      BY <3>1, <3>3
    <3>6. L(k).mtime <= 1
      BY <3>1
    <3> QED BY <3>1, <3>2, <3>3, <3>4, <3>5, <3>6 DEF LogOK, s
  <2> QED BY <1>1, <2>1 DEF LogsOK
<1>5. RunsOK
  <2>1. \A p \in Procs : proc[p] = Idle
    BY <1>1
  <2>2. clock \in Nat
    BY <1>1
  <2> QED BY <2>1, <2>2, RunIdle DEF RunsOK
<1> QED BY <1>3, <1>4, <1>5 DEF Inv

LEMMA StepInv == Inv /\ [Next]_vars => Inv'
<1> SUFFICES ASSUME Inv, [Next]_vars PROVE Inv'
  OBVIOUS
<1>1. CASE \E p \in Procs : Run(p)
  <2> PICK p \in Procs : Run(p)
    BY <1>1
  <2>1. CASE \E k \in Keys : Open(p, k)
    BY <2>1, OpenKept
  <2>2. CASE Search(p)
    BY <2>2, SearchKept
  <2>3. CASE Shape(p)
    BY <2>3, ShapeKept
  <2>4. CASE Emit(p)
    BY <2>4, EmitKept
  <2>5. CASE MakeRecord(p)
    BY <2>5, MakeRecordKept
  <2>6. CASE TakeLock(p)
    BY <2>6, TakeLockKept
  <2>7. CASE Rewrite(p)
    BY <2>7, RewriteKept
  <2>8. CASE BeginLine(p)
    BY <2>8, BeginLineKept
  <2>9. CASE EndLine(p)
    BY <2>9, EndLineKept
  <2>10. CASE ListExpired(p)
    BY <2>10, ListExpiredKept
  <2>11. CASE \E k \in Keys : PruneOne(p, k)
    BY <2>11, PruneOneKept
  <2>12. CASE GiveUp(p) \/ PruneBusy(p) \/ Stop(p)
    BY <2>12, StopKept
  <2> QED BY <2>1, <2>2, <2>3, <2>4, <2>5, <2>6, <2>7, <2>8, <2>9, <2>10, <2>11, <2>12 DEF Run
<1>2. CASE Edit \/ Tick \/ UNCHANGED vars
  BY <1>2, OutsideKept
<1> QED BY <1>1, <1>2 DEF Next

\* What the invariant says of the properties.
LEMMA InvIsTyped == Inv => TypeOK
BY DEF Inv

LEMMA InvRemembers == Inv => Remembered
<1> SUFFICES ASSUME Inv, NEW k \in Keys, NEW i \in DOMAIN acked[k]
             PROVE  InLog(k, acked[k][i]) \/ Expired(acked[k][i]) \/ PushedOut(k, i) \/ DatedAhead(k, i)
  BY DEF Remembered
<1> DEFINE a == acked[k]  s == log[k].lines
<1>1. Holds(s, a, clock)
  BY DEF Inv, LogsOK, LogOK
<1>2. s \in Seq(Record) /\ a \in Seq(Record) /\ i \in 1 .. Len(a) /\ DOMAIN s = 1 .. Len(s)
  <2>1. s \in Seq(Record) /\ a \in Seq(Record)
    BY <1>1, HoldsType
  <2>2. DOMAIN a = 1 .. Len(a) /\ DOMAIN s = 1 .. Len(s)
    BY <2>1, LenProperties
  <2> QED BY <2>1, <2>2
<1>3. PICK e : Picks(s, e, a) /\ \A j \in 1 .. Len(a) : (\E x \in 1 .. Len(s) : e[x] = j) \/ Gone(a, clock, j)
  BY <1>1 DEF Holds
<1>4. CASE \E x \in 1 .. Len(s) : e[x] = i
  <2>1. PICK x \in 1 .. Len(s) : e[x] = i
    BY <1>4
  <2>2. s[x] = a[i] /\ x \in DOMAIN s
    BY <2>1, <1>2, <1>3 DEF Picks
  <2> QED BY <2>2 DEF InLog
<1>5. CASE Gone(a, clock, i)
  BY <1>5 DEF Gone, Expired, PushedOut, DatedAhead
<1> QED BY <1>2, <1>3, <1>4, <1>5

LEMMA InvMarks == Inv => MarkedWasPrinted
<1> SUFFICES ASSUME Inv, NEW p \in Procs, proc[p].seen
             PROVE  \E e \in printed[proc[p].key] : e.mtime = proc[p].mtime
  BY DEF MarkedWasPrinted
<1> QED BY DEF Inv, RunsOK, RunOK, Shown

LEMMA InvBounds == Inv => Bounded
BY DEF Inv, LogsOK, LogOK, Bounded

\* A sweep removes no log that still holds a record younger than a day.
LEMMA StepPrunes ==
    ASSUME Inv, [Next]_vars, NEW k \in Keys, log[k] # NoLog, log'[k] = NoLog
    PROVE  \A i \in DOMAIN log[k].lines : Expired(log[k].lines[i])
<1> DEFINE Pruned == \E p \in Procs, m \in Keys : PruneOne(p, m)
<1>1. log \in [Keys -> LogType]
  BY DEF Inv, TypeOK, LogType
<1>2. ASSUME NEW s \in Seq(Record), NEW m \in Keys, NEW r \in Record, NEW c, NEW l,
             l = [lines |-> Append(s, r), tail |-> 0, mtime |-> c],
             log' = [log EXCEPT ![m] = l]
      PROVE  FALSE
  <2>1. l # NoLog
    <3>1. Append(s, r) # <<>>
      BY <1>2, AppendProperties
    <3> QED BY <3>1, <1>2 DEF NoLog
  <2> QED BY <1>1, <1>2, <2>1
<1>3. CASE \E p \in Procs : Rewrite(p)
  <2> PICK p \in Procs : Rewrite(p)
    BY <1>3
  <2>1. /\ proc[p].key \in Keys /\ proc[p].record \in Record /\ log[proc[p].key] \in LogType
        /\ LogOK(log[proc[p].key], acked[proc[p].key], clock, printed[proc[p].key])
    BY RunFacts
  <2> DEFINE u == Usables(log[proc[p].key].lines, proc[p].record.t)
  <2>2. u \in Seq(Record)
    BY <2>1, LoadIs DEF LogOK
  <2>3. PICK n \in 0 .. Len(u) : Kept(p) = Newest(u, n)
    BY KeptIs
  <2>4. Kept(p) \in Seq(Record)
    BY <2>2, <2>3, NewestIs
  <2> QED BY <1>2, <2>1, <2>4 DEF Rewrite
<1>4. CASE \E p \in Procs : BeginLine(p)
  <2> PICK p \in Procs : BeginLine(p)
    BY <1>4
  <2> DEFINE m == proc[p].key
  <2>1. m \in Keys /\ log[m] \in LogType
    BY RunFacts
  <2>2. log[m].tail = 0
    BY RoomFacts DEF BeginLine
  <2>3. log' = [log EXCEPT ![m] = [lines |-> log[m].lines, tail |-> 1, mtime |-> clock]]
    <3>1. log' = [log EXCEPT ![m] = [log[m] EXCEPT !.tail = log[m].tail + 1, !.mtime = clock]]
      BY <1>1 DEF BeginLine
    <3>2. clock \in Nat
      BY RunFacts
    <3>3. [log[m] EXCEPT !.tail = log[m].tail + 1, !.mtime = clock]
              = [lines |-> log[m].lines, tail |-> 1, mtime |-> clock]
      BY <2>1, <2>2, <3>2, TailBegun
    <3> QED BY <3>1, <3>3
  <2>4. log'[m].tail = 1 /\ \A x \in Keys \ {m} : log'[x] = log[x]
    BY <1>1, <2>1, <2>3
  <2> QED BY <2>4 DEF NoLog
<1>5. CASE \E p \in Procs : EndLine(p)
  <2> PICK p \in Procs : EndLine(p)
    BY <1>5
  <2> DEFINE m == proc[p].key  line == [proc[p].record EXCEPT !.whole = log[m].tail = 1]
  <2>1. m \in Keys /\ log[m] \in LogType /\ proc[p].record \in Record
    BY RunFacts
  <2>2. line \in Record /\ log[m].lines \in Seq(Record)
    BY <2>1 DEF Record, LogType
  <2>3. log' = [log EXCEPT ![m] = [lines |-> Append(log[m].lines, line), tail |-> 0, mtime |-> clock]]
    BY DEF EndLine
  <2> QED BY <1>2, <2>1, <2>2, <2>3
<1>6. CASE Pruned
  <2> PICK p \in Procs, m \in Keys : PruneOne(p, m)
    BY <1>6
  <2>1. log' = IF StillOld(m) THEN [log EXCEPT ![m] = NoLog] ELSE log
    BY DEF PruneOne
  <2>2. m = k /\ Old(k)
    BY <1>1, <2>1 DEF StillOld
  <2>3. \A i \in 1 .. Len(log[k].lines) : clock - log[k].lines[i].t >= MaxAge
    BY <2>2, OldLinesExpired
  <2>4. DOMAIN log[k].lines = 1 .. Len(log[k].lines)
    BY <1>1, LenProperties DEF LogType
  <2> QED BY <2>3, <2>4 DEF Expired
<1>7. CASE log' = log
  BY <1>7
<1>8. \/ \E p \in Procs : Rewrite(p)
      \/ \E p \in Procs : BeginLine(p)
      \/ \E p \in Procs : EndLine(p)
      \/ Pruned
      \/ log' = log
  <2>1. CASE UNCHANGED vars
    BY <2>1 DEF vars
  <2>2. CASE Edit \/ Tick
    BY <2>2 DEF Edit, Tick
  <2>3. ASSUME NEW p \in Procs, Run(p)
        PROVE  Rewrite(p) \/ BeginLine(p) \/ EndLine(p) \/ (\E m \in Keys : PruneOne(p, m)) \/ log' = log
    BY <2>3 DEF Run, Open, Search, Shape, Emit, MakeRecord, TakeLock, GiveUp, ListExpired, PruneBusy, Stop
  <2> QED BY <2>1, <2>2, <2>3 DEF Next
<1> QED BY <1>3, <1>4, <1>5, <1>6, <1>7, <1>8

-----------------------------------------------------------------------------
(* Theorems about the session log *)

\* A behaviour of MCInvocations is one of the session log.
LEMMA SessionsAreRuns == PartsSpec => Spec
<1>1. PartsInit => Init
  BY DEF PartsInit
<1>2. [PartsNext]_parts => [Next]_vars
  BY DEF PartsNext, Program, parts
<1> QED BY <1>1, <1>2, PTL DEF PartsSpec, Spec

LEMMA AlwaysInv == Spec => []Inv
BY InitInv, StepInv, PTL DEF Spec

\* Every variable of the session log keeps its type, and a process is past
\* TakeLock exactly while it holds the lock (session_store.rs `append`).
THEOREM SessionTypeCorrect == PartsSpec => []TypeOK
BY SessionsAreRuns, AlwaysInv, InvIsTyped, PTL

\* A record whose append returned Ok stays in its log until it is a day old,
\* pushed out by newer ones, or dated ahead of a later writer; what a run marks
\* as shown, a run of its session printed; and no log outgrows what its readers
\* accept: session_store.rs `load`, `append`, `prune`, session.rs `record_parts`.
THEOREM LogsAreTrue == PartsSpec => []LogTrue
<1>1. Inv => LogTrue
  BY InvRemembers, InvMarks, InvBounds DEF LogTrue
<1> QED BY <1>1, SessionsAreRuns, AlwaysInv, PTL

\* A sweep removes no log that still holds a record younger than a day, though
\* it listed the directory without the lock: session_store.rs `prune`.
THEOREM SweepsAreLate == PartsSpec => PruneOnlyExpired
<1>1. Inv /\ [Next]_vars =>
          [\A k \in Keys : log[k] # NoLog /\ log'[k] = NoLog =>
               \A i \in DOMAIN log[k].lines : Expired(log[k].lines[i])]_vars
  BY StepPrunes
<1> QED BY <1>1, SessionsAreRuns, AlwaysInv, PTL DEF Spec, PruneOnlyExpired

-----------------------------------------------------------------------------
(* Rows lists a set in order *)

\* `s` has the elements of `S`, in order and each once.
Lists(s, S) ==
    /\ s \in Seq(S)
    /\ \A i, j \in 1 .. Len(s) : i < j => s[i] < s[j]
    /\ \A x \in S : \E i \in 1 .. Len(s) : s[i] = x

\* Two lists of a set agree as far as the first goes.
LEMMA ListAgrees ==
    ASSUME NEW S \in SUBSET Nat, NEW s, NEW t, Lists(s, S), Lists(t, S)
    PROVE  \A i \in 1 .. Len(s) : i <= Len(t) /\ s[i] = t[i]
<1>1. Len(s) \in Nat /\ Len(t) \in Nat
  BY LenProperties DEF Lists
<1>2. (\A i \in 1 .. Len(s) : s[i] \in S /\ s[i] \in Nat) /\ \A i \in 1 .. Len(t) : t[i] \in S /\ t[i] \in Nat
  BY <1>1, ElementOfSeq DEF Lists
<1> DEFINE Bad == {i \in 1 .. Len(s) : ~ (i <= Len(t) /\ s[i] = t[i])}
<1>3. SUFFICES ASSUME Bad # {} PROVE FALSE
  OBVIOUS
<1>4. Bad \in SUBSET Nat
  BY <1>1
<1>5. PICK i \in Bad : \A j \in Bad : i <= j
  BY <1>3, <1>4, LeastNumber
<1>6. i \in 1 .. Len(s) /\ i \in Nat /\ \A j \in 1 .. i - 1 : j <= Len(t) /\ s[j] = t[j]
  BY <1>5, <1>1
<1>7. PICK m \in 1 .. Len(t) : t[m] = s[i]
  BY <1>2, <1>6 DEF Lists
<1>8. m >= i
  <2>1. SUFFICES ASSUME m < i PROVE FALSE
    BY <1>1, <1>6, <1>7
  <2>2. m \in 1 .. i - 1 /\ m \in 1 .. Len(s)
    BY <2>1, <1>6, <1>1
  <2>3. s[m] = t[m] /\ s[m] < s[i]
    BY <2>1, <2>2, <1>6 DEF Lists
  <2> QED BY <2>2, <2>3, <1>7, <1>2, <1>6
<1>9. i \in 1 .. Len(t)
  BY <1>8, <1>6, <1>1, <1>7
<1>10. PICK n \in 1 .. Len(s) : s[n] = t[i]
  BY <1>2, <1>9 DEF Lists
<1>11. n >= i
  <2>1. SUFFICES ASSUME n < i PROVE FALSE
    BY <1>1, <1>6, <1>10
  <2>2. n \in 1 .. i - 1 /\ n \in 1 .. Len(t)
    BY <2>1, <1>6, <1>1, <1>9
  <2>3. s[n] = t[n] /\ t[n] < t[i]
    BY <2>1, <2>2, <1>6, <1>9 DEF Lists
  <2> QED BY <2>2, <2>3, <1>10, <1>2, <1>9
<1>12. s[i] <= s[n] /\ t[i] <= t[m]
  BY <1>8, <1>11, <1>9, <1>6, <1>2, <1>1, <1>7, <1>10 DEF Lists
<1>13. s[i] = t[i]
  BY <1>12, <1>7, <1>10, <1>2, <1>6, <1>9
<1> QED BY <1>13, <1>9, <1>5, <1>1

LEMMA ListUnique ==
    ASSUME NEW S \in SUBSET Nat, NEW s, NEW t, Lists(s, S), Lists(t, S)
    PROVE  s = t
<1>1. Len(s) \in Nat /\ Len(t) \in Nat /\ s \in Seq(S) /\ t \in Seq(S)
  BY LenProperties DEF Lists
<1>2. /\ \A i \in 1 .. Len(s) : i <= Len(t) /\ s[i] = t[i]
      /\ \A i \in 1 .. Len(t) : i <= Len(s)
  BY ListAgrees
<1>3. Len(s) = Len(t)
  BY <1>1, <1>2
<1> QED BY <1>1, <1>2, <1>3, SeqEqual

LEMMA ListExtended ==
    ASSUME NEW S \in SUBSET Nat, NEW s, Lists(s, S), NEW f \in Nat, \A g \in S : g < f
    PROVE  Lists(Append(s, f), S \cup {f})
<1> DEFINE U == S \cup {f}  t == Append(s, f)
<1>1. s \in Seq(U) /\ s \in Seq(S) /\ Len(s) \in Nat
  BY SeqMonotonic, LenProperties DEF Lists
<1>2. t \in Seq(U) /\ Len(t) = Len(s) + 1 /\ t[Len(s) + 1] = f /\ \A i \in 1 .. Len(s) : t[i] = s[i]
  BY <1>1, AppendProperties
<1> HIDE DEF t
<1>3. \A i \in 1 .. Len(s) : s[i] \in S /\ s[i] \in Nat
  BY <1>1, ElementOfSeq
<1>4. ASSUME NEW i \in 1 .. Len(t), NEW j \in 1 .. Len(t), i < j PROVE t[i] < t[j]
  <2>1. i \in 1 .. Len(s)
    BY <1>1, <1>2, <1>4
  <2>2. CASE j \in 1 .. Len(s)
    BY <2>1, <2>2, <1>2, <1>4 DEF Lists
  <2>3. CASE j = Len(s) + 1
    BY <2>1, <2>3, <1>2, <1>3
  <2> QED BY <2>2, <2>3, <1>1, <1>2
<1>5. \A x \in U : \E i \in 1 .. Len(t) : t[i] = x
  <2> TAKE x \in U
  <2>1. CASE x = f
    BY <2>1, <1>1, <1>2
  <2>2. CASE x \in S
    <3>1. PICK i \in 1 .. Len(s) : s[i] = x
      BY <2>2 DEF Lists
    <3>2. i \in 1 .. Len(t) /\ t[i] = x
      BY <3>1, <1>1, <1>2
    <3> QED BY <3>2
  <2> QED BY <2>1, <2>2
<1>6. Lists(t, U)
  BY <1>2, <1>4, <1>5 DEF Lists
<1> QED BY <1>6 DEF t

LEMMA SameCardinality ==
    ASSUME NEW S
    PROVE  A!Cardinality(S) = Cardinality(S)
BY Zenon DEF A!Cardinality, Cardinality

LEMMA EmptyList == Lists(<<>>, {})
BY EmptySeq DEF Lists

\* Every set of files has a list: the least bound below which one has none
\* would be that of the set without its greatest file.
LEMMA ListExists ==
    ASSUME NEW n \in Nat, NEW S \in SUBSET (1 .. n)
    PROVE  \E s : Lists(s, S)
<1> DEFINE Bad == {m \in Nat : \E U \in SUBSET (1 .. m) : \A s : ~ Lists(s, U)}
<1>1. SUFFICES ASSUME Bad # {} PROVE FALSE
  OBVIOUS
<1>2. PICK m \in Bad : \A k \in Bad : m <= k
  BY <1>1, LeastNumber
<1>3. m \in Nat
  OBVIOUS
<1>4. PICK U \in SUBSET (1 .. m) : \A s : ~ Lists(s, U)
  OBVIOUS
<1>5. m # 0
  <2>1. SUFFICES ASSUME m = 0 PROVE FALSE
    OBVIOUS
  <2>2. U = {}
    BY <2>1
  <2> QED BY <2>2, <1>4, EmptyList
<1> DEFINE V == U \ {m}
<1>6. m - 1 \in Nat /\ V \in SUBSET (1 .. m - 1) /\ m - 1 \notin Bad
  BY <1>2, <1>3, <1>5
<1>7. PICK s : Lists(s, V)
  BY <1>6
<1>8. CASE m \in U
  <2>1. V \in SUBSET Nat /\ \A g \in V : g < m
    BY <1>6, <1>3
  <2>2. Lists(Append(s, m), V \cup {m})
    BY <1>7, <2>1, <1>3, ListExtended
  <2>3. V \cup {m} = U
    BY <1>8
  <2> QED BY <2>2, <2>3, <1>4
<1>9. CASE m \notin U
  <2>1. V = U
    BY <1>9
  <2> QED BY <2>1, <1>7, <1>4
<1> QED BY <1>8, <1>9

LEMMA RowsList ==
    ASSUME NEW S \in SUBSET A!Files, N \in Nat
    PROVE  Lists(A!Rows(S), S)
<1>1. S \subseteq Nat
  BY DEF A!Files
<1>2. IsFiniteSet(S)
  <2>1. IsFiniteSet(1 .. N)
    BY FS_Interval
  <2> QED BY <2>1, FS_Subset DEF A!Files
<1> DEFINE c == Cardinality(S)
<1>3. c \in Nat
  BY <1>2, FS_CardinalityType
<1>4. PICK s : Lists(s, S)
  BY ListExists DEF A!Files
<1> DEFINE n == Len(s)
<1>5. n \in Nat /\ s \in [1 .. n -> S] /\ DOMAIN s = 1 .. n
  BY <1>4, LenProperties DEF Lists
<1> HIDE DEF n
<1>6. s \in Bijection(1 .. n, S)
  <2>1. \A i, j \in 1 .. n : s[i] = s[j] => i = j
    <3> TAKE i, j \in 1 .. n
    <3>1. i < j \/ j < i \/ i = j
      BY <1>5
    <3>2. s[i] \in Nat /\ s[j] \in Nat
      BY <1>5, <1>1
    <3> QED BY <3>1, <3>2, <1>4 DEF Lists, n
  <2>2. \A x \in S : \E i \in 1 .. n : s[i] = x
    BY <1>4 DEF Lists, n
  <2> QED BY <2>1, <2>2, <1>5 DEF Bijection, Injection, Surjection, IsInjective
<1>7. c = n
  <2>1. ExistsBijection(1 .. n, S)
    BY <1>6 DEF ExistsBijection
  <2> QED BY <2>1, <1>5, FS_CountingElements
<1>8. s \in A!SetToSeqs(S) /\ \A i, j \in DOMAIN s : i < j => s[i] < s[j]
  <2>1. \A i, j \in 1 .. n : i < j => s[i] < s[j]
    BY <1>4 DEF Lists, n
  <2>2. \A i, j \in 1 .. c : i # j => s[i] # s[j]
    BY <1>6, <1>7, <1>5 DEF Bijection, Injection, IsInjective
  <2> QED BY <2>1, <2>2, <1>5, <1>7, SameCardinality DEF A!SetToSeqs
<1> DEFINE t == A!Rows(S)
<1>9. t \in A!SetToSeqs(S) /\ \A i, j \in DOMAIN t : i < j => t[i] < t[j]
  BY <1>8 DEF A!Rows
<1> HIDE DEF t
<1>10. t \in [1 .. c -> S] /\ \A i, j \in 1 .. c : i # j => t[i] # t[j]
  BY <1>9, SameCardinality DEF A!SetToSeqs
<1>11. t \in Seq(S) /\ Len(t) = c
  BY <1>3, <1>10, SeqDef
<1>12. \A i, j \in 1 .. Len(t) : i < j => t[i] < t[j]
  BY <1>9, <1>10, <1>11
<1>13. t \in Surjection(1 .. c, S)
  <2>1. t \in Injection(1 .. c, S)
    BY <1>10 DEF Injection, IsInjective
  <2>2. Cardinality(1 .. c) = c
    BY <1>3, FS_Interval
  <2> QED BY <2>1, <2>2, <1>2, FS_Injection
<1>14. \A x \in S : \E i \in 1 .. Len(t) : t[i] = x
  BY <1>13, <1>11 DEF Surjection
<1>15. Lists(t, S)
  BY <1>11, <1>12, <1>14 DEF Lists
<1> QED BY <1>15 DEF t

LEMMA ListsJoin ==
    ASSUME NEW S \in SUBSET Nat, NEW T \in SUBSET Nat, NEW s, NEW t, Lists(s, S), Lists(t, T),
           \A x \in S, y \in T : x < y
    PROVE  Lists(s \o t, S \cup T)
<1> DEFINE U == S \cup T  u == s \o t
<1>1. s \in Seq(U) /\ t \in Seq(U) /\ s \in Seq(S) /\ t \in Seq(T)
  BY SeqMonotonic DEF Lists
<1>2. Len(s) \in Nat /\ Len(t) \in Nat
  BY <1>1, LenProperties
<1>3. /\ u \in Seq(U) /\ Len(u) = Len(s) + Len(t)
      /\ \A i \in 1 .. Len(s) + Len(t) : u[i] = IF i <= Len(s) THEN s[i] ELSE t[i - Len(s)]
  BY <1>1, ConcatProperties
<1> HIDE DEF u
<1>4. /\ \A i \in 1 .. Len(s) : s[i] \in S /\ s[i] \in Nat
      /\ \A i \in 1 .. Len(t) : t[i] \in T /\ t[i] \in Nat
  BY <1>1, ElementOfSeq
<1>5. ASSUME NEW i \in 1 .. Len(u), NEW j \in 1 .. Len(u), i < j PROVE u[i] < u[j]
  <2>1. CASE j <= Len(s)
    <3>1. i \in 1 .. Len(s) /\ j \in 1 .. Len(s)
      BY <2>1, <1>5, <1>2, <1>3
    <3>2. s[i] < s[j]
      BY <3>1, <1>5 DEF Lists
    <3> QED BY <3>1, <3>2, <1>3, <2>1, <1>2
  <2>2. CASE i <= Len(s) /\ ~(j <= Len(s))
    <3>1. i \in 1 .. Len(s) /\ j - Len(s) \in 1 .. Len(t)
      BY <2>2, <1>2, <1>3
    <3>2. u[i] \in S /\ u[j] \in T
      BY <3>1, <1>3, <1>4, <2>2
    <3> QED BY <3>2
  <2>3. CASE ~(i <= Len(s))
    <3>1. i - Len(s) \in 1 .. Len(t) /\ j - Len(s) \in 1 .. Len(t) /\ i - Len(s) < j - Len(s) /\ ~(j <= Len(s))
      BY <2>3, <1>5, <1>2, <1>3
    <3>2. t[i - Len(s)] < t[j - Len(s)]
      BY <3>1 DEF Lists
    <3> QED BY <3>1, <3>2, <2>3, <1>3
  <2> QED BY <2>1, <2>2, <2>3
<1>6. ASSUME NEW x \in U PROVE \E i \in 1 .. Len(u) : u[i] = x
  <2>1. CASE x \in S
    <3>1. PICK i \in 1 .. Len(s) : s[i] = x
      BY <2>1 DEF Lists
    <3>2. i \in 1 .. Len(u) /\ u[i] = x
      BY <3>1, <1>2, <1>3
    <3> QED BY <3>2
  <2>2. CASE x \in T
    <3>1. PICK i \in 1 .. Len(t) : t[i] = x
      BY <2>2 DEF Lists
    <3>2. Len(s) + i \in 1 .. Len(u) /\ u[Len(s) + i] = x
      BY <3>1, <1>2, <1>3
    <3> QED BY <3>2
  <2> QED BY <2>1, <2>2
<1>7. Lists(u, U)
  BY <1>3, <1>5, <1>6 DEF Lists
<1> QED BY <1>7 DEF u

LEMMA RowsType ==
    ASSUME NEW S \in SUBSET A!Files, N \in Nat
    PROVE  A!Rows(S) \in Seq(A!Files)
BY RowsList, SeqMonotonic DEF Lists

LEMMA RowsEmpty ==
    ASSUME N \in Nat
    PROVE  A!Rows({}) = <<>>
BY RowsList, EmptyList, ListUnique

\* No row, no file.
LEMMA RowsNone ==
    ASSUME NEW S \in SUBSET A!Files, N \in Nat, A!Rows(S) = <<>>
    PROVE  S = {}
BY RowsList, EmptySeq DEF Lists

\* A file after those listed comes last.
LEMMA RowsAppend ==
    ASSUME NEW S \in SUBSET A!Files, N \in Nat, NEW f \in A!Files, \A g \in S : g < f
    PROVE  Append(A!Rows(S), f) = A!Rows(S \cup {f})
<1>1. S \in SUBSET Nat /\ S \cup {f} \in SUBSET Nat /\ S \cup {f} \in SUBSET A!Files /\ f \in Nat
  BY DEF A!Files
<1>2. Lists(Append(A!Rows(S), f), S \cup {f})
  BY <1>1, RowsList, ListExtended
<1>3. Lists(A!Rows(S \cup {f}), S \cup {f})
  BY <1>1, RowsList
<1> QED BY <1>1, <1>2, <1>3, ListUnique

LEMMA PrefixOfJoin ==
    ASSUME NEW S, NEW s \in Seq(S), NEW t \in Seq(S)
    PROVE  A!IsPrefix(s, s \o t)
<1> DEFINE u == s \o t
<1>1. Len(s) \in Nat /\ Len(t) \in Nat
  BY LenProperties
<1>2. u \in Seq(S) /\ Len(u) = Len(s) + Len(t) /\ \A i \in 1 .. Len(s) : u[i] = s[i]
  BY <1>1, ConcatProperties
<1> HIDE DEF u
<1>3. /\ \A i \in 1 .. Len(s) : s[i] \in S /\ u[i] \in S
  BY <1>2, ElementOfSeq
<1>4. /\ SubSeq(s, 1, Len(s)) \in Seq(S) /\ SubSeq(u, 1, Len(s)) \in Seq(S)
      /\ Len(SubSeq(s, 1, Len(s))) = Len(s) /\ Len(SubSeq(u, 1, Len(s))) = Len(s)
      /\ \A i \in 1 .. Len(s) : SubSeq(s, 1, Len(s))[i] = s[i] /\ SubSeq(u, 1, Len(s))[i] = u[i]
  BY <1>1, <1>3, SubSeqProperties
<1>5. SubSeq(s, 1, Len(s)) = SubSeq(u, 1, Len(s))
  BY <1>4, <1>2, SeqEqual
<1> QED BY <1>1, <1>2, <1>5 DEF A!IsPrefix, u

\* The files up to any one come first.
LEMMA RowsPrefix ==
    ASSUME NEW S \in SUBSET A!Files, N \in Nat, NEW h \in Nat
    PROVE  A!IsPrefix(A!Rows({f \in S : f <= h}), A!Rows(S))
<1> DEFINE Lo == {f \in S : f <= h}  B == S \ Lo
<1>1. S \in SUBSET Nat /\ Lo \in SUBSET A!Files /\ B \in SUBSET A!Files /\ Lo \in SUBSET Nat /\ B \in SUBSET Nat
  <2>1. S \in SUBSET Nat
    BY DEF A!Files
  <2>2. Lo \subseteq S /\ B \subseteq S
    OBVIOUS
  <2> HIDE DEF Lo, B
  <2> QED BY <2>1, <2>2
<1>2. (\A x \in Lo, y \in B : x < y) /\ Lo \cup B = S
  <2>1. ASSUME NEW x \in Lo, NEW y \in B PROVE x < y
    <3>1. x \in Nat /\ y \in Nat /\ x <= h /\ ~(y <= h)
      BY <1>1
    <3> QED BY <3>1
  <2>2. Lo \cup B = S
    OBVIOUS
  <2> QED BY <2>1, <2>2
<1> HIDE DEF Lo, B
<1>3. Lists(A!Rows(Lo), Lo) /\ Lists(A!Rows(B), B) /\ Lists(A!Rows(S), S)
  BY <1>1, RowsList
<1>4. Lists(A!Rows(Lo) \o A!Rows(B), S)
  BY <1>1, <1>2, <1>3, ListsJoin
<1>5. A!Rows(S) = A!Rows(Lo) \o A!Rows(B)
  BY <1>1, <1>3, <1>4, ListUnique
<1>6. A!Rows(Lo) \in Seq(A!Files) /\ A!Rows(B) \in Seq(A!Files)
  BY <1>1, RowsType
<1>7. A!IsPrefix(A!Rows(Lo), A!Rows(S))
  BY <1>5, <1>6, PrefixOfJoin
<1> QED BY <1>7 DEF Lo

LEMMA PrefixOfItself ==
    ASSUME NEW S, NEW s \in Seq(S)
    PROVE  A!IsPrefix(s, s) /\ A!IsPrefix(<<>>, s)
<1>1. Len(s) \in Nat /\ Len(<<>>) = 0
  BY LenProperties, EmptySeq
<1>2. SubSeq(s, 1, 0) = <<>> /\ SubSeq(<<>>, 1, 0) = <<>>
  BY SubSeqEmpty
<1> QED BY <1>1, <1>2 DEF A!IsPrefix

SameText(p, q, s, t) == p \o q = s \o t

\* Writing a part of what is buffered moves it from the one to the other.
LEMMA SplitJoins ==
    ASSUME NEW S, NEW s \in Seq(S), NEW t \in Seq(S), NEW n \in 1 .. Len(t)
    PROVE  \A p, q : p = s \o SubSeq(t, 1, n) /\ q = SubSeq(t, n + 1, Len(t))
               => SameText(p, q, s, t) /\ p \in Seq(S) /\ q \in Seq(S)
<1> DEFINE a == SubSeq(t, 1, n)  b == SubSeq(t, n + 1, Len(t))
           u == s \o a  v == u \o b  w == s \o t
<1>1. Len(s) \in Nat /\ Len(t) \in Nat /\ n \in Nat /\ n <= Len(t) /\ \A i \in 1 .. Len(t) : t[i] \in S
  BY LenProperties, ElementOfSeq
<1>2. /\ a \in Seq(S) /\ b \in Seq(S) /\ Len(a) = n /\ Len(b) = Len(t) - n
      /\ \A i \in 1 .. n : a[i] = t[i]
      /\ \A i \in 1 .. Len(t) - n : b[i] = t[n + i]
  BY <1>1, SubSeqProperties
<1> HIDE DEF a, b
<1>3. /\ u \in Seq(S) /\ Len(u) = Len(s) + n
      /\ \A i \in 1 .. Len(s) + n : u[i] = IF i <= Len(s) THEN s[i] ELSE a[i - Len(s)]
  BY <1>2, ConcatProperties
<1>4. /\ w \in Seq(S) /\ Len(w) = Len(s) + Len(t)
      /\ \A i \in 1 .. Len(s) + Len(t) : w[i] = IF i <= Len(s) THEN s[i] ELSE t[i - Len(s)]
  BY ConcatProperties
<1> HIDE DEF u, w
<1>5. /\ v \in Seq(S) /\ Len(v) = Len(s) + Len(t)
      /\ \A i \in 1 .. Len(s) + Len(t) : v[i] = IF i <= Len(u) THEN u[i] ELSE b[i - Len(u)]
  <2>1. /\ v \in Seq(S) /\ Len(v) = Len(u) + Len(b)
        /\ \A i \in 1 .. Len(u) + Len(b) : v[i] = IF i <= Len(u) THEN u[i] ELSE b[i - Len(u)]
    <3>1. u \in Seq(S) /\ b \in Seq(S)
      BY <1>2, <1>3
    <3> QED BY <3>1, ConcatProperties
  <2>2. Len(u) + Len(b) = Len(s) + Len(t)
    BY <1>1, <1>2, <1>3
  <2> QED BY <2>1, <2>2
<1> HIDE DEF v
<1>6. ASSUME NEW i \in 1 .. Len(v) PROVE v[i] = w[i]
  <2>1. CASE i <= Len(s)
    <3>1. i \in 1 .. Len(s) + n /\ i <= Len(u) /\ i \in 1 .. Len(s) + Len(t)
      BY <2>1, <1>1, <1>3, <1>5
    <3>2. v[i] = u[i] /\ u[i] = s[i]
      BY <2>1, <3>1, <1>3, <1>5
    <3>3. w[i] = s[i]
      BY <2>1, <3>1, <1>4
    <3> QED BY <3>2, <3>3
  <2>2. CASE i > Len(s) /\ i <= Len(s) + n
    <3>1. i - Len(s) \in 1 .. n /\ ~(i <= Len(s)) /\ i \in 1 .. Len(s) + n
      BY <2>2, <1>1, <1>5
    <3>2. v[i] = a[i - Len(s)]
      BY <3>1, <1>1, <1>3, <1>5
    <3> QED BY <3>1, <3>2, <1>2, <1>4, <1>5
  <2>3. CASE i > Len(s) + n
    <3> DEFINE j == i - (Len(s) + n)
    <3>1. j \in 1 .. Len(t) - n /\ n + j = i - Len(s) /\ ~(i <= Len(s)) /\ ~(i <= Len(u)) /\ j = i - Len(u)
      BY <2>3, <1>1, <1>3, <1>5
    <3>2. v[i] = b[j] /\ b[j] = t[n + j]
      BY <3>1, <1>2, <1>5
    <3> QED BY <3>1, <3>2, <1>4, <1>5
  <2> QED BY <2>1, <2>2, <2>3, <1>1, <1>5
<1>7. v = w
  BY <1>4, <1>5, <1>6, SeqEqual
<1>8. ASSUME NEW p, NEW q, p = u, q = b PROVE p \o q = w /\ p \in Seq(S) /\ q \in Seq(S)
  BY <1>2, <1>3, <1>7, <1>8 DEF v
<1> QED BY <1>8 DEF a, b, u, w, SameText

-----------------------------------------------------------------------------
(* The inductive invariant *)

Said == out \o buf

Upto == {f \in A!Matches : f <= handed}

Lower == {g \in {"exact"} \cup (req.climbs \ {"names"}) : A!Place(g) < A!Place(rung)}

\* Where the run may be, and what it then has not done yet.
Control ==
    /\ exit # "running" => pc \in {"drop", "done"}
    /\ pc = "drop" => exit \notin {"found", "nothing"}
    /\ mapped => pc \in {"read", "names"}
    /\ lost # {} => failed
    /\ ~committed => out = <<>> /\ ~writing
    /\ writing => pc \in {"flush", "drop"} \/ (req.kind = "stream" /\ pc \in {"read", "scan"})
    /\ req.kind = "stream" => pc \notin {"ladder", "names", "print"} /\ got = {}
    /\ req.kind # "stream" => handed = 0
    /\ pc \in {"start", "open"} => handed = 0
    /\ pc = "names" => rung = "names" /\ got = {}
    /\ pc \in {"ladder", "names"} => req.kind = "search"

Silent ==
    \/ pc \in {"start", "open", "ladder", "names", "print"}
    \/ req.kind # "stream" /\ pc \in {"read", "scan"}

\* What is written, or about to be, is what is known of the answer.
Told ==
    /\ Silent => Said = <<>>
    /\ req.kind = "stream" /\ pc \in {"read", "scan", "flush"} => Said = A!Rows(Upto)
    /\ req.kind = "stream" /\ pc = "flush" => Upto = A!Matches
    /\ req.kind # "stream" /\ pc = "flush" => Said = A!Rows(got)
    /\ handed # 0 => handed \in A!Matches

\* A finished result is what the rung matches, and the rungs below match nothing.
Sought ==
    /\ \A g \in Lower : req.match[g] = {}
    /\ pc = "ladder" => got = A!Matches
    /\ A!Checked /\ req.kind # "stream" /\ pc \in {"print", "flush"} =>
           got = A!Matches \/ (rung = "names" /\ got = {})

\* What the end of the run leaves written.
Ended ==
    /\ A!Checked /\ pc \in {"drop", "done"} => A!IsPrefix(Said, A!Rows(A!Matches))
    /\ A!OkIsComplete

Saved == spawned \/ fate = "superseded"

\* From the first recovery on, the failed snapshot is unusable or replaced, and
\* its rebuild queued, started or needless.
Promised ==
    req.persist /\ (noted \/ (image = "again" /\ pc # "start") \/ exit = "incomplete") =>
        /\ fate # "used"
        /\ pc # "done" => Saved \/ pending = "build"
        /\ pc = "done" /\ exit \notin {"panic", "sigbus"} => Saved

AnswerInv == A!RequestAssumption /\ A!TypeOK /\ Control /\ Told /\ Sought /\ Ended /\ Promised

-----------------------------------------------------------------------------
(* Each step keeps the types *)

Flags ==
    /\ try \in BOOLEAN /\ mapped \in BOOLEAN /\ failed \in BOOLEAN /\ noted \in BOOLEAN
    /\ spawned \in BOOLEAN /\ panicked \in BOOLEAN /\ writing \in BOOLEAN /\ committed \in BOOLEAN

Typed ==
    /\ req \in A!Requests
    /\ image \in {"first", "again"}
    /\ pc \in {"start", "open", "read", "scan", "ladder", "names", "print",
              "flush", "drop", "done"}
    /\ rung \in {"exact"} \cup req.climbs
    /\ lost \subseteq A!Files /\ got \subseteq A!Files /\ handed \in 0 .. N
    /\ fate \in {"used", "unusable", "superseded"}
    /\ pending \in {"none", "refresh", "build"}
    /\ buf \in Seq(A!Files) /\ out \in Seq(A!Files)
    /\ exit \in A!Exits \cup {"running"}

LEMMA TypeParts == A!TypeOK <=> Typed /\ Flags
BY DEF A!TypeOK, Typed, Flags

LEMMA RequestType ==
    ASSUME A!RequestAssumption, req \in A!Requests
    PROVE  /\ req.kind \in A!Kind /\ req.climbs \subseteq A!Rungs \ {"exact"}
           /\ req.kind # "search" => req.climbs = {}
           /\ req.match \in [{"exact"} \cup Climbs -> SUBSET A!Files] /\ req.climbs \subseteq Climbs
           /\ req.persist \in BOOLEAN
<1> DEFINE R == [kind : Kinds, index : BOOLEAN, persist : BOOLEAN, repeatable : BOOLEAN,
                 climbs : SUBSET Climbs, match : [{"exact"} \cup Climbs -> SUBSET A!Files]]
<1>1. req \in R /\ (req.kind # "search" => req.climbs = {})
  BY DEF A!Requests
<1>2. /\ req.kind \in Kinds /\ req.climbs \in SUBSET Climbs /\ req.persist \in BOOLEAN
      /\ req.match \in [{"exact"} \cup Climbs -> SUBSET A!Files]
  BY <1>1
<1> QED BY <1>1, <1>2 DEF A!RequestAssumption

LEMMA MatchesType ==
    ASSUME A!RequestAssumption, Typed
    PROVE  A!Matches \in SUBSET A!Files
<1>1. rung \in {"exact"} \cup Climbs
  BY RequestType DEF Typed
<1> QED BY <1>1, RequestType DEF Typed, A!Matches

LEMMA PlaceIs ==
    A!Place("exact") = 1 /\ A!Place("noword") = 2 /\ A!Place("case") = 3 /\ A!Place("names") = 4
<1> DEFINE In(g, i) == i \in DOMAIN A!Order /\ A!Order[i] = g
<1>1. DOMAIN A!Order = 1 .. 4 /\ A!Order[1] = "exact" /\ A!Order[2] = "noword" /\ A!Order[3] = "case" /\ A!Order[4] = "names"
  BY DEF A!Order
<1>2. /\ \A i : In("exact", i) <=> i = 1
      /\ \A i : In("noword", i) <=> i = 2
      /\ \A i : In("case", i) <=> i = 3
      /\ \A i : In("names", i) <=> i = 4
  BY <1>1
<1>3. /\ (CHOOSE i : In("exact", i)) = 1 /\ (CHOOSE i : In("noword", i)) = 2
      /\ (CHOOSE i : In("case", i)) = 3 /\ (CHOOSE i : In("names", i)) = 4
  BY <1>2
<1> QED BY <1>3 DEF A!Place

LEMMA NextRungIs ==
    ASSUME A!RequestAssumption, req \in A!Requests, A!Later(rung) # {}
    PROVE  A!NextRung(rung) \in A!Later(rung) /\ \A h \in A!Later(rung) : A!Place(A!NextRung(rung)) <= A!Place(h)
<1>1. A!Later(rung) \subseteq A!Rungs /\ \A h \in A!Rungs : A!Place(h) \in 1 .. 4
  BY RequestType, PlaceIs DEF A!Later, A!Rungs
<1> DEFINE T == {A!Place(h) : h \in A!Later(rung)}
<1>2. T \in SUBSET Nat /\ T # {}
  BY <1>1
<1>3. PICK n \in T : \A m \in T : n <= m
  BY <1>2, LeastNumber
<1>4. PICK h \in A!Later(rung) : A!Place(h) = n
  OBVIOUS
<1>5. \A k \in A!Later(rung) : A!Place(h) <= A!Place(k)
  BY <1>3, <1>4
<1> QED BY <1>4, <1>5 DEF A!NextRung

LEMMA FlagsKept ==
    ASSUME A!RequestAssumption, A!TypeOK, A!Next
    PROVE  Flags'
<1>1. CASE A!Start
  <2>1. UNCHANGED <<try, mapped, failed, noted, spawned, panicked, writing, committed>>
    BY <1>1 DEF A!Start, A!output
  <2> QED BY <2>1, TypeParts DEF Flags
<1>2. CASE A!SkipIndex
  BY <1>2, TypeParts DEF Flags, A!SkipIndex, A!WithoutIndex, A!End, A!output, A!marks
<1>3. CASE A!OpenIndex
  BY <1>3, TypeParts DEF Flags, A!OpenIndex, A!FateOnceOpened, A!SpawnRefresh, A!output
<1>4. CASE A!OpenDeclined
  BY <1>4, TypeParts DEF Flags, A!OpenDeclined, A!WithoutIndex, A!End, A!SpawnBuild, A!output
<1>5. CASE A!OpenCorrupt
  BY <1>5, TypeParts DEF Flags, A!OpenCorrupt, A!NoteCorruption, A!WithoutIndex, A!End, A!output
<1>6. CASE A!WaitForBuild
  BY <1>6, TypeParts DEF Flags, A!WaitForBuild, A!output
<1>7. CASE A!IndexDeclines
  BY <1>7, TypeParts DEF Flags, A!IndexDeclines, A!Close, A!marks, A!output
<1>8. CASE A!SearchRead
  BY <1>8, TypeParts DEF Flags, A!SearchRead, A!Close, A!NoteCorruption, A!marks, A!output
<1>9. CASE A!VerbRead
  BY <1>9, TypeParts DEF Flags, A!VerbRead, A!AnswerAgain, A!Close, A!NoteCorruption, A!marks, A!output
<1>10. CASE A!GraphRead
  BY <1>10, TypeParts DEF Flags, A!GraphRead, A!End, A!Close, A!NoteCorruption, A!marks, A!output
<1>11. CASE A!DiffRead
  BY <1>11, TypeParts DEF Flags, A!DiffRead, A!Close, A!NoteCorruption, A!marks, A!output
<1>12. CASE A!IndexError
  BY <1>12, TypeParts DEF Flags, A!IndexError, A!End, A!Close, A!marks, A!output
<1>13. CASE A!IndexPanics
  BY <1>13, TypeParts DEF Flags, A!IndexPanics, A!MarkCorrupt, A!End, A!Close, A!marks, A!output
<1>14. CASE A!HandOver
  BY <1>14, TypeParts DEF Flags, A!HandOver, A!Streaming, A!ChecksPassed, A!Remaining, A!marks
<1>15. CASE A!StreamStops
  BY <1>15, TypeParts DEF Flags, A!StreamStops, A!Streaming, A!Close, A!NoteCorruption, A!MarkCorrupt, A!End, A!output
<1>16. CASE A!StreamEnds
  BY <1>16, TypeParts DEF Flags, A!StreamEnds, A!Streaming, A!Close, A!marks, A!output
<1>17. CASE A!ScanEnds
  BY <1>17, TypeParts DEF Flags, A!ScanEnds, A!AnswerAgain, A!NoteCorruption, A!marks, A!output
<1>18. CASE A!ScanError
  BY <1>18, TypeParts DEF Flags, A!ScanError, A!End, A!marks, A!output
<1>19. CASE A!Climb
  BY <1>19, TypeParts DEF Flags, A!Climb, A!marks, A!output
<1>20. CASE A!OpenForNames
  BY <1>20, TypeParts DEF Flags, A!OpenForNames, A!FateOnceOpened, A!DeclineForNames, A!SpawnBuild, A!NoteCorruption, A!output
<1>21. CASE A!LookUpNames
  BY <1>21, TypeParts DEF Flags, A!LookUpNames, A!Close, A!marks, A!output
<1>22. CASE A!NamesPanic
  BY <1>22, TypeParts DEF Flags, A!NamesPanic, A!Close, A!End, A!marks, A!output
<1>23. CASE A!Render
  BY <1>23, TypeParts DEF Flags, A!Render, A!marks
<1>24. CASE A!Commit
  BY <1>24, TypeParts DEF Flags, A!Commit, A!MayWrite, A!marks
<1>25. CASE A!Write
  BY <1>25, TypeParts DEF Flags, A!Write, A!marks
<1>26. CASE A!WriteFails
  BY <1>26, TypeParts DEF Flags, A!WriteFails, A!MarkCorrupt, A!End, A!Close, A!marks
<1>27. CASE A!Finish
  BY <1>27, TypeParts DEF Flags, A!Finish, A!Flush, A!output
<1>28. CASE A!Die
  BY <1>28, TypeParts DEF Flags, A!Die, A!Flush, A!output
<1>29. CASE A!BlockFails
  BY <1>29, TypeParts DEF Flags, A!BlockFails, A!marks, A!output
<1>30. CASE A!SigbusReruns
  BY <1>30, TypeParts DEF Flags, A!SigbusReruns, A!MayRerun, A!Armed, A!Reexec, A!output
<1>31. CASE A!SigbusEnds
  BY <1>31, TypeParts DEF Flags, A!SigbusEnds, A!MayRerun, A!marks, A!output
<1> QED BY <1>1, <1>2, <1>3, <1>4, <1>5, <1>6, <1>7, <1>8, <1>9, <1>10, <1>11, <1>12, <1>13,
      <1>14, <1>15, <1>16, <1>17, <1>18, <1>19, <1>20, <1>21, <1>22, <1>23, <1>24, <1>25, <1>26,
      <1>27, <1>28, <1>29, <1>30, <1>31 DEF A!Next, A!ProgramSteps, A!IndexSteps

LEMMA TypedKept ==
    ASSUME A!RequestAssumption, A!TypeOK, A!Next
    PROVE  Typed'
<1>1. CASE A!Start
  <2>1. UNCHANGED <<req, image, rung, lost, got, handed, buf, out, exit>>
    BY <1>1 DEF A!Start, A!output
  <2>2. pc' = "open"
    BY <1>1 DEF A!Start
  <2>3. fate' \in {"used", "unusable", "superseded"} /\ pending' \in {"none", "refresh", "build"}
    <3>1. fate \in {"used", "unusable", "superseded"} /\ pending \in {"none", "refresh", "build"}
      BY TypeParts DEF Typed
    <3>2. CASE image = "again" /\ req.persist
      BY <1>1, <3>2 DEF A!Start
    <3>3. CASE ~(image = "again" /\ req.persist)
      BY <1>1, <3>1, <3>3 DEF A!Start
    <3> QED BY <3>2, <3>3
  <2> QED BY <2>1, <2>2, <2>3, TypeParts DEF Typed
<1>2. CASE A!SkipIndex
  BY <1>2, TypeParts DEF Typed, A!Exits, A!SkipIndex, A!WithoutIndex, A!End, A!output, A!marks
<1>3. CASE A!OpenIndex
  BY <1>3, TypeParts DEF Typed, A!Exits, A!OpenIndex, A!FateOnceOpened, A!SpawnRefresh, A!output
<1>4. CASE A!OpenDeclined
  BY <1>4, TypeParts DEF Typed, A!Exits, A!OpenDeclined, A!WithoutIndex, A!End, A!SpawnBuild, A!output
<1>5. CASE A!OpenCorrupt
  BY <1>5, TypeParts DEF Typed, A!Exits, A!OpenCorrupt, A!NoteCorruption, A!WithoutIndex, A!End, A!output
<1>6. CASE A!WaitForBuild
  BY <1>6, TypeParts DEF Typed, A!Exits, A!WaitForBuild, A!output
<1>7. CASE A!IndexDeclines
  BY <1>7, TypeParts DEF Typed, A!Exits, A!IndexDeclines, A!Close, A!marks, A!output
<1>8. CASE A!SearchRead
  <2>1. A!Matches \in SUBSET A!Files
    BY TypeParts, MatchesType
  <2>2. got' \subseteq A!Files
    BY <1>8, <2>1, TypeParts DEF Typed, A!SearchRead, A!Close, A!NoteCorruption, A!marks, A!output
  <2> QED BY <1>8, <2>2, TypeParts DEF Typed, A!Exits, A!SearchRead, A!Close, A!NoteCorruption, A!marks, A!output
<1>9. CASE A!VerbRead
  <2>1. A!Matches \in SUBSET A!Files
    BY TypeParts, MatchesType
  <2>2. got' \subseteq A!Files
    BY <1>9, <2>1, TypeParts DEF Typed, A!VerbRead, A!AnswerAgain, A!Close, A!NoteCorruption, A!marks, A!output
  <2> QED BY <1>9, <2>2, TypeParts DEF Typed, A!Exits, A!VerbRead, A!AnswerAgain, A!Close, A!NoteCorruption, A!marks, A!output
<1>10. CASE A!GraphRead
  <2>1. A!Matches \in SUBSET A!Files
    BY TypeParts, MatchesType
  <2>2. got' \subseteq A!Files
    BY <1>10, <2>1, TypeParts DEF Typed, A!GraphRead, A!End, A!Close, A!NoteCorruption, A!marks, A!output
  <2> QED BY <1>10, <2>2, TypeParts DEF Typed, A!Exits, A!GraphRead, A!End, A!Close, A!NoteCorruption, A!marks, A!output
<1>11. CASE A!DiffRead
  <2>1. A!Matches \in SUBSET A!Files
    BY TypeParts, MatchesType
  <2> QED BY <1>11, <2>1, TypeParts DEF Typed, A!Exits, A!DiffRead, A!Close, A!NoteCorruption, A!marks, A!output
<1>12. CASE A!IndexError
  BY <1>12, TypeParts DEF Typed, A!Exits, A!IndexError, A!End, A!Close, A!marks, A!output
<1>13. CASE A!IndexPanics
  BY <1>13, TypeParts DEF Typed, A!Exits, A!IndexPanics, A!MarkCorrupt, A!End, A!Close, A!marks, A!output
<1>14. CASE A!HandOver
  <2>1. handed' \in A!Remaining
    <3>1. A!Remaining \in SUBSET Nat /\ A!Remaining # {}
      BY <1>14, TypeParts, MatchesType DEF A!HandOver, A!Remaining, A!Files
    <3>2. \E f \in A!Remaining : \A g \in A!Remaining : f <= g
      BY <3>1, LeastNumber
    <3> QED BY <1>14, <3>2 DEF A!HandOver
  <2>2. handed' \in A!Files
    BY <2>1, TypeParts, MatchesType DEF A!Remaining
  <2>3. buf' \in Seq(A!Files)
    BY <1>14, <2>2, TypeParts, AppendProperties DEF A!HandOver, Typed
  <2>4. handed' \in 0 .. N
    BY <2>2 DEF A!Files
  <2> QED BY <1>14, <2>3, <2>4, TypeParts DEF Typed, A!HandOver, A!marks
<1>15. CASE A!StreamStops
  BY <1>15, TypeParts DEF Typed, A!Exits, A!StreamStops, A!Streaming, A!Close, A!NoteCorruption, A!MarkCorrupt, A!End, A!output
<1>16. CASE A!StreamEnds
  BY <1>16, TypeParts DEF Typed, A!Exits, A!StreamEnds, A!Streaming, A!Close, A!marks, A!output
<1>17. CASE A!ScanEnds
  <2>1. A!Matches \in SUBSET A!Files
    BY TypeParts, MatchesType
  <2> QED BY <1>17, <2>1, TypeParts DEF Typed, A!Exits, A!ScanEnds, A!AnswerAgain, A!NoteCorruption, A!marks, A!output
<1>18. CASE A!ScanError
  BY <1>18, TypeParts DEF Typed, A!Exits, A!ScanError, A!End, A!marks, A!output
<1>19. CASE A!Climb
  <2>1. rung' \in {"exact"} \cup req.climbs
    BY <1>19, NextRungIs, TypeParts DEF A!Climb, Typed, A!Later
  <2>2. pc' \in {"print", "names", "open"}
    BY <1>19 DEF A!Climb
  <2> QED BY <1>19, <2>1, <2>2, TypeParts DEF Typed, A!Climb, A!marks, A!output
<1>20. CASE A!OpenForNames
  BY <1>20, TypeParts DEF Typed, A!Exits, A!OpenForNames, A!FateOnceOpened, A!DeclineForNames, A!SpawnBuild, A!NoteCorruption, A!output
<1>21. CASE A!LookUpNames
  BY <1>21, TypeParts DEF Typed, A!Exits, A!LookUpNames, A!Close, A!marks, A!output
<1>22. CASE A!NamesPanic
  BY <1>22, TypeParts DEF Typed, A!Exits, A!NamesPanic, A!Close, A!End, A!marks, A!output
<1>23. CASE A!Render
  <2>1. buf' \in Seq(A!Files)
    BY <1>23, RowsType, TypeParts DEF A!RequestAssumption, A!Render, Typed
  <2> QED BY <1>23, <2>1, TypeParts DEF Typed, A!Render, A!marks
<1>24. CASE A!Commit
  BY <1>24, TypeParts DEF Typed, A!Exits, A!Commit, A!MayWrite, A!marks
<1>25. CASE A!Write
  <2>1. PICK n \in 1 .. Len(buf) : /\ out' = out \o SubSeq(buf, 1, n)
                                /\ buf' = SubSeq(buf, n + 1, Len(buf))
    BY <1>25 DEF A!Write
  <2>2. out' \in Seq(A!Files) /\ buf' \in Seq(A!Files)
    BY <2>1, SplitJoins, TypeParts DEF Typed
  <2> QED BY <1>25, <2>2, TypeParts DEF Typed, A!Write, A!marks
<1>26. CASE A!WriteFails
  BY <1>26, TypeParts DEF Typed, A!Exits, A!WriteFails, A!MarkCorrupt, A!End, A!Close, A!marks
<1>27. CASE A!Finish
  BY <1>27, TypeParts DEF Typed, A!Exits, A!Finish, A!Flush, A!output
<1>28. CASE A!Die
  BY <1>28, TypeParts DEF Typed, A!Exits, A!Die, A!Flush, A!output
<1>29. CASE A!BlockFails
  <2>1. A!Matches \in SUBSET A!Files
    BY TypeParts, MatchesType
  <2>2. lost' \subseteq A!Files
    BY <1>29, <2>1, TypeParts DEF A!BlockFails, Typed
  <2> QED BY <1>29, <2>2, TypeParts DEF Typed, A!Exits, A!BlockFails, A!marks, A!output
<1>30. CASE A!SigbusReruns
  <2>1. buf' \in Seq(A!Files) /\ UNCHANGED <<req, fate, out, exit>>
    BY <1>30, EmptySeq DEF A!SigbusReruns, A!Reexec
  <2>2. handed' \in 0 .. N
    BY <1>30 DEF A!RequestAssumption, A!SigbusReruns, A!Reexec
  <2> QED BY <1>30, <2>1, <2>2, TypeParts DEF Typed, A!SigbusReruns, A!Reexec
<1>31. CASE A!SigbusEnds
  BY <1>31, TypeParts DEF Typed, A!Exits, A!SigbusEnds, A!MayRerun, A!marks, A!output
<1> QED BY <1>1, <1>2, <1>3, <1>4, <1>5, <1>6, <1>7, <1>8, <1>9, <1>10, <1>11, <1>12, <1>13,
      <1>14, <1>15, <1>16, <1>17, <1>18, <1>19, <1>20, <1>21, <1>22, <1>23, <1>24, <1>25, <1>26,
      <1>27, <1>28, <1>29, <1>30, <1>31 DEF A!Next, A!ProgramSteps, A!IndexSteps

-----------------------------------------------------------------------------
(* Each step keeps the control *)

LEMMA ControlKept ==
    ASSUME A!RequestAssumption, A!TypeOK, Control, A!Next
    PROVE  Control'
<1>1. CASE A!Start
  <2>1. /\ UNCHANGED <<req, image, rung, mapped, lost, failed, got, handed, writing, committed, out, exit>>
        /\ pc = "start" /\ pc' = "open"
    BY <1>1 DEF A!Start, A!output
  <2> QED BY <2>1 DEF Control
<1>2. CASE A!SkipIndex
  BY <1>2, TypeParts DEF Control, Flags, Typed, A!SkipIndex, A!WithoutIndex, A!End, A!output, A!marks
<1>3. CASE A!OpenIndex
  BY <1>3, TypeParts DEF Control, Flags, Typed, A!OpenIndex, A!FateOnceOpened, A!SpawnRefresh, A!output
<1>4. CASE A!OpenDeclined
  BY <1>4, TypeParts DEF Control, Flags, Typed, A!OpenDeclined, A!WithoutIndex, A!End, A!SpawnBuild, A!output
<1>5. CASE A!OpenCorrupt
  BY <1>5, TypeParts DEF Control, Flags, Typed, A!OpenCorrupt, A!NoteCorruption, A!WithoutIndex, A!End, A!output
<1>6. CASE A!WaitForBuild
  BY <1>6, TypeParts DEF Control, Flags, Typed, A!WaitForBuild, A!output
<1>7. CASE A!IndexDeclines
  BY <1>7, TypeParts DEF Control, Flags, Typed, A!IndexDeclines, A!Close, A!marks, A!output
<1>8. CASE A!SearchRead
  BY <1>8, TypeParts DEF Control, Flags, Typed, A!SearchRead, A!Close, A!NoteCorruption, A!marks, A!output
<1>9. CASE A!VerbRead
  BY <1>9, TypeParts DEF Control, Flags, Typed, A!VerbRead, A!AnswerAgain, A!Close, A!NoteCorruption, A!marks, A!output
<1>10. CASE A!GraphRead
  BY <1>10, TypeParts DEF Control, Flags, Typed, A!GraphRead, A!End, A!Close, A!NoteCorruption, A!marks, A!output
<1>11. CASE A!DiffRead
  BY <1>11, TypeParts DEF Control, Flags, Typed, A!DiffRead, A!Close, A!NoteCorruption, A!marks, A!output
<1>12. CASE A!IndexError
  BY <1>12, TypeParts DEF Control, Flags, Typed, A!IndexError, A!End, A!Close, A!marks, A!output
<1>13. CASE A!IndexPanics
  BY <1>13, TypeParts DEF Control, Flags, Typed, A!IndexPanics, A!MarkCorrupt, A!End, A!Close, A!marks, A!output
<1>14. CASE A!HandOver
  BY <1>14, TypeParts DEF Control, Flags, Typed, A!HandOver, A!Streaming, A!ChecksPassed, A!Remaining, A!marks
<1>15. CASE A!StreamStops
  BY <1>15, TypeParts DEF Control, Flags, Typed, A!StreamStops, A!Streaming, A!Close, A!NoteCorruption, A!MarkCorrupt, A!End, A!output
<1>16. CASE A!StreamEnds
  BY <1>16, TypeParts DEF Control, Flags, Typed, A!StreamEnds, A!Streaming, A!Close, A!marks, A!output
<1>17. CASE A!ScanEnds
  BY <1>17, TypeParts DEF Control, Flags, Typed, A!ScanEnds, A!AnswerAgain, A!NoteCorruption, A!marks, A!output
<1>18. CASE A!ScanError
  BY <1>18, TypeParts DEF Control, Flags, Typed, A!ScanError, A!End, A!marks, A!output
<1>19. CASE A!Climb
  BY <1>19, TypeParts DEF Control, Flags, Typed, A!Climb, A!marks, A!output
<1>20. CASE A!OpenForNames
  BY <1>20, TypeParts DEF Control, Flags, Typed, A!OpenForNames, A!FateOnceOpened, A!DeclineForNames, A!SpawnBuild, A!NoteCorruption, A!output
<1>21. CASE A!LookUpNames
  BY <1>21, TypeParts DEF Control, Flags, Typed, A!LookUpNames, A!Close, A!marks, A!output
<1>22. CASE A!NamesPanic
  BY <1>22, TypeParts DEF Control, Flags, Typed, A!NamesPanic, A!Close, A!End, A!marks, A!output
<1>23. CASE A!Render
  BY <1>23, TypeParts DEF Control, Flags, Typed, A!Render, A!marks
<1>24. CASE A!Commit
  BY <1>24, TypeParts DEF Control, Flags, Typed, A!Commit, A!MayWrite, A!marks
<1>25. CASE A!Write
  BY <1>25, TypeParts DEF Control, Flags, Typed, A!Write, A!marks
<1>26. CASE A!WriteFails
  BY <1>26, TypeParts DEF Control, Flags, Typed, A!WriteFails, A!MarkCorrupt, A!End, A!Close, A!marks
<1>27. CASE A!Finish
  BY <1>27, TypeParts DEF Control, Flags, Typed, A!Finish, A!Flush, A!output
<1>28. CASE A!Die
  BY <1>28, TypeParts DEF Control, Flags, Typed, A!Die, A!Flush, A!output
<1>29. CASE A!BlockFails
  BY <1>29, TypeParts DEF Control, Flags, Typed, A!BlockFails, A!marks, A!output
<1>30. CASE A!SigbusReruns
  BY <1>30, TypeParts DEF Control, Flags, Typed, A!SigbusReruns, A!MayRerun, A!Armed, A!Reexec, A!output
<1>31. CASE A!SigbusEnds
  BY <1>31, TypeParts DEF Control, Flags, Typed, A!SigbusEnds, A!MayRerun, A!marks, A!output
<1> QED BY <1>1, <1>2, <1>3, <1>4, <1>5, <1>6, <1>7, <1>8, <1>9, <1>10, <1>11, <1>12, <1>13,
      <1>14, <1>15, <1>16, <1>17, <1>18, <1>19, <1>20, <1>21, <1>22, <1>23, <1>24, <1>25, <1>26,
      <1>27, <1>28, <1>29, <1>30, <1>31 DEF A!Next, A!ProgramSteps, A!IndexSteps

-----------------------------------------------------------------------------
(* Each step keeps to the answer what is written *)

LEMMA NothingUpto ==
    ASSUME A!RequestAssumption, Typed, handed = 0
    PROVE  A!Rows(Upto) = <<>>
<1>1. Upto = {}
  BY MatchesType DEF Upto, A!Files
<1> QED BY <1>1, RowsEmpty DEF A!RequestAssumption

LEMMA AppendJoins ==
    ASSUME NEW S, NEW s \in Seq(S), NEW t \in Seq(S), NEW e \in S
    PROVE  s \o Append(t, e) = Append(s \o t, e)
<1> DEFINE u == Append(t, e)  v == s \o u  w == s \o t  x == Append(w, e)
<1>1. Len(s) \in Nat /\ Len(t) \in Nat
  BY LenProperties
<1>2. u \in Seq(S) /\ Len(u) = Len(t) + 1 /\ u[Len(t) + 1] = e /\ \A i \in 1 .. Len(t) : u[i] = t[i]
  BY <1>1, AppendProperties
<1>3. /\ w \in Seq(S) /\ Len(w) = Len(s) + Len(t)
      /\ \A i \in 1 .. Len(s) + Len(t) : w[i] = IF i <= Len(s) THEN s[i] ELSE t[i - Len(s)]
  BY ConcatProperties
<1> HIDE DEF u, w
<1>4. u \in Seq(S) /\ w \in Seq(S)
  BY <1>2, <1>3
<1>5. /\ v \in Seq(S) /\ Len(v) = Len(s) + Len(u)
      /\ \A i \in 1 .. Len(s) + Len(u) : v[i] = IF i <= Len(s) THEN s[i] ELSE u[i - Len(s)]
  BY <1>4, ConcatProperties
<1>6. x \in Seq(S) /\ Len(x) = Len(w) + 1 /\ x[Len(w) + 1] = e /\ \A i \in 1 .. Len(w) : x[i] = w[i]
  <2>1. Len(w) \in Nat
    BY <1>1, <1>3
  <2> QED BY <1>4, <2>1, AppendProperties
<1> HIDE DEF v, x
<1>7. Len(v) = Len(x) /\ Len(v) = Len(s) + Len(t) + 1
  BY <1>1, <1>2, <1>3, <1>5, <1>6
<1>8. ASSUME NEW i \in 1 .. Len(v) PROVE v[i] = x[i]
  <2>1. CASE i <= Len(s)
    <3>1. i \in 1 .. Len(w) /\ i \in 1 .. Len(s) + Len(t) /\ i \in 1 .. Len(s) + Len(u)
      BY <2>1, <1>1, <1>2, <1>3, <1>7
    <3>2. v[i] = s[i] /\ w[i] = s[i] /\ x[i] = w[i]
      BY <2>1, <3>1, <1>3, <1>5, <1>6
    <3> QED BY <3>2
  <2>2. CASE i > Len(s) /\ i <= Len(s) + Len(t)
    <3>1. i \in 1 .. Len(w) /\ i \in 1 .. Len(s) + Len(t) /\ i \in 1 .. Len(s) + Len(u) /\ ~(i <= Len(s)) /\ i - Len(s) \in 1 .. Len(t)
      BY <2>2, <1>1, <1>2, <1>3, <1>7
    <3>2. v[i] = u[i - Len(s)] /\ u[i - Len(s)] = t[i - Len(s)] /\ w[i] = t[i - Len(s)] /\ x[i] = w[i]
      BY <3>1, <1>2, <1>3, <1>5, <1>6
    <3> QED BY <3>2
  <2>3. CASE i = Len(s) + Len(t) + 1
    <3>1. i = Len(w) + 1 /\ i \in 1 .. Len(s) + Len(u) /\ ~(i <= Len(s)) /\ i - Len(s) = Len(t) + 1
      BY <2>3, <1>1, <1>2, <1>3, <1>7
    <3>2. v[i] = u[i - Len(s)] /\ u[i - Len(s)] = e /\ x[i] = e
      BY <3>1, <1>2, <1>5, <1>6
    <3> QED BY <3>2
  <2> QED BY <2>1, <2>2, <2>3, <1>1, <1>7
<1>9. v = x
  BY <1>5, <1>6, <1>7, <1>8, SeqEqual
<1> QED BY <1>9 DEF u, v, w, x

LEMMA SaidType ==
    ASSUME Typed
    PROVE  Said \in Seq(A!Files) /\ (Said = <<>> => out = <<>> /\ buf = <<>>)
BY ConcatProperties, ConcatEqualIffEmpty DEF Typed, Said

LEMMA WriteSays ==
    ASSUME Typed, A!Write
    PROVE  Said' = Said
<1>1. PICK n \in 1 .. Len(buf) : out' = out \o SubSeq(buf, 1, n) /\ buf' = SubSeq(buf, n + 1, Len(buf))
  BY DEF A!Write
<1>2. out \in Seq(A!Files) /\ buf \in Seq(A!Files)
  BY DEF Typed
<1>3. SameText(out', buf', out, buf)
  BY <1>1, <1>2, SplitJoins
<1> QED BY <1>3 DEF Said, SameText

LEMMA ToldKept ==
    ASSUME A!RequestAssumption, A!TypeOK, Control, Told, A!Next
    PROVE  Told'
<1>1. CASE A!Start
  <2>1. Said' = Said
    BY <1>1 DEF A!Start, A!output, Said
  <2>2. Upto' = Upto /\ A!Matches' = A!Matches
    BY <1>1 DEF A!Start, A!output, Upto, A!Matches
  <2> QED BY <1>1, <2>1, <2>2, TypeParts DEF Told, Silent, Control, Typed, A!Start, A!output
<1>2. CASE A!SkipIndex
  <2>1. Said' = Said
    BY <1>2 DEF A!SkipIndex, A!WithoutIndex, A!End, A!output, A!marks, Said
  <2>2. Upto' = Upto /\ A!Matches' = A!Matches
    BY <1>2 DEF A!SkipIndex, A!WithoutIndex, A!End, A!output, A!marks, Upto, A!Matches
  <2> QED BY <1>2, <2>1, <2>2, TypeParts, NothingUpto DEF Told, Silent, Control, Typed, A!SkipIndex, A!WithoutIndex, A!End, A!output, A!marks
<1>3. CASE A!OpenIndex
  <2>1. Said' = Said
    BY <1>3 DEF A!OpenIndex, A!FateOnceOpened, A!SpawnRefresh, A!output, Said
  <2>2. Upto' = Upto /\ A!Matches' = A!Matches
    BY <1>3 DEF A!OpenIndex, A!FateOnceOpened, A!SpawnRefresh, A!output, Upto, A!Matches
  <2> QED BY <1>3, <2>1, <2>2, TypeParts, NothingUpto DEF Told, Silent, Control, Typed, A!OpenIndex, A!FateOnceOpened, A!SpawnRefresh, A!output
<1>4. CASE A!OpenDeclined
  <2>1. Said' = Said
    BY <1>4 DEF A!OpenDeclined, A!WithoutIndex, A!End, A!SpawnBuild, A!output, Said
  <2>2. Upto' = Upto /\ A!Matches' = A!Matches
    BY <1>4 DEF A!OpenDeclined, A!WithoutIndex, A!End, A!SpawnBuild, A!output, Upto, A!Matches
  <2> QED BY <1>4, <2>1, <2>2, TypeParts, NothingUpto DEF Told, Silent, Control, Typed, A!OpenDeclined, A!WithoutIndex, A!End, A!SpawnBuild, A!output
<1>5. CASE A!OpenCorrupt
  <2>1. Said' = Said
    BY <1>5 DEF A!OpenCorrupt, A!NoteCorruption, A!WithoutIndex, A!End, A!output, Said
  <2>2. Upto' = Upto /\ A!Matches' = A!Matches
    BY <1>5 DEF A!OpenCorrupt, A!NoteCorruption, A!WithoutIndex, A!End, A!output, Upto, A!Matches
  <2> QED BY <1>5, <2>1, <2>2, TypeParts, NothingUpto DEF Told, Silent, Control, Typed, A!OpenCorrupt, A!NoteCorruption, A!WithoutIndex, A!End, A!output
<1>6. CASE A!WaitForBuild
  <2>1. Said' = Said
    BY <1>6 DEF A!WaitForBuild, A!output, Said
  <2>2. Upto' = Upto /\ A!Matches' = A!Matches
    BY <1>6 DEF A!WaitForBuild, A!output, Upto, A!Matches
  <2> QED BY <1>6, <2>1, <2>2, TypeParts DEF Told, Silent, Control, Typed, A!WaitForBuild, A!output
<1>7. CASE A!IndexDeclines
  <2>1. Said' = Said
    BY <1>7 DEF A!IndexDeclines, A!Close, A!marks, A!output, Said
  <2>2. Upto' = Upto /\ A!Matches' = A!Matches
    BY <1>7 DEF A!IndexDeclines, A!Close, A!marks, A!output, Upto, A!Matches
  <2> QED BY <1>7, <2>1, <2>2, TypeParts DEF Told, Silent, Control, Typed, A!IndexDeclines, A!Close, A!marks, A!output
<1>8. CASE A!SearchRead
  <2>1. Said' = Said
    BY <1>8 DEF A!SearchRead, A!Close, A!NoteCorruption, A!marks, A!output, Said
  <2>2. Upto' = Upto /\ A!Matches' = A!Matches
    BY <1>8 DEF A!SearchRead, A!Close, A!NoteCorruption, A!marks, A!output, Upto, A!Matches
  <2> QED BY <1>8, <2>1, <2>2, TypeParts DEF Told, Silent, Control, Typed, A!SearchRead, A!Close, A!NoteCorruption, A!marks, A!output
<1>9. CASE A!VerbRead
  <2>1. Said' = Said
    BY <1>9 DEF A!VerbRead, A!AnswerAgain, A!Close, A!NoteCorruption, A!marks, A!output, Said
  <2>2. Upto' = Upto /\ A!Matches' = A!Matches
    BY <1>9 DEF A!VerbRead, A!AnswerAgain, A!Close, A!NoteCorruption, A!marks, A!output, Upto, A!Matches
  <2> QED BY <1>9, <2>1, <2>2, TypeParts DEF Told, Silent, Control, Typed, A!VerbRead, A!AnswerAgain, A!Close, A!NoteCorruption, A!marks, A!output
<1>10. CASE A!GraphRead
  <2>1. Said' = Said
    BY <1>10 DEF A!GraphRead, A!End, A!Close, A!NoteCorruption, A!marks, A!output, Said
  <2>2. Upto' = Upto /\ A!Matches' = A!Matches
    BY <1>10 DEF A!GraphRead, A!End, A!Close, A!NoteCorruption, A!marks, A!output, Upto, A!Matches
  <2> QED BY <1>10, <2>1, <2>2, TypeParts DEF Told, Silent, Control, Typed, A!GraphRead, A!End, A!Close, A!NoteCorruption, A!marks, A!output
<1>11. CASE A!DiffRead
  <2>1. Said' = Said
    BY <1>11 DEF A!DiffRead, A!Close, A!NoteCorruption, A!marks, A!output, Said
  <2>2. Upto' = Upto /\ A!Matches' = A!Matches
    BY <1>11 DEF A!DiffRead, A!Close, A!NoteCorruption, A!marks, A!output, Upto, A!Matches
  <2> QED BY <1>11, <2>1, <2>2, TypeParts DEF Told, Silent, Control, Typed, A!DiffRead, A!Close, A!NoteCorruption, A!marks, A!output
<1>12. CASE A!IndexError
  <2>1. Said' = Said
    BY <1>12 DEF A!IndexError, A!End, A!Close, A!marks, A!output, Said
  <2>2. Upto' = Upto /\ A!Matches' = A!Matches
    BY <1>12 DEF A!IndexError, A!End, A!Close, A!marks, A!output, Upto, A!Matches
  <2> QED BY <1>12, <2>1, <2>2, TypeParts DEF Told, Silent, Control, Typed, A!IndexError, A!End, A!Close, A!marks, A!output
<1>13. CASE A!IndexPanics
  <2>1. Said' = Said
    BY <1>13 DEF A!IndexPanics, A!MarkCorrupt, A!End, A!Close, A!marks, A!output, Said
  <2>2. Upto' = Upto /\ A!Matches' = A!Matches
    BY <1>13 DEF A!IndexPanics, A!MarkCorrupt, A!End, A!Close, A!marks, A!output, Upto, A!Matches
  <2> QED BY <1>13, <2>1, <2>2, TypeParts DEF Told, Silent, Control, Typed, A!IndexPanics, A!MarkCorrupt, A!End, A!Close, A!marks, A!output
<1>14. CASE A!HandOver
  <2>1. A!Remaining = {f \in A!Matches : f > handed} /\ A!Remaining # {}
    BY <1>14 DEF A!HandOver, A!Remaining, A!ChecksPassed, A!Streaming, Control
  <2>2. A!Matches \in SUBSET A!Files /\ A!Matches \in SUBSET Nat /\ handed \in Nat
    BY TypeParts, MatchesType DEF A!Files, Typed
  <2>3. handed' \in A!Remaining /\ \A g \in A!Remaining : handed' <= g
    <3>1. \E f \in A!Remaining : \A g \in A!Remaining : f <= g
      BY <2>1, <2>2, LeastNumber
    <3> QED BY <1>14, <3>1 DEF A!HandOver
  <2>4. Upto' = Upto \cup {handed'} /\ handed' \in A!Files /\ \A g \in Upto : g < handed'
    <3>1. A!Matches' = A!Matches
      BY <1>14 DEF A!HandOver, A!Matches
    <3>2. handed' \in A!Matches /\ handed' \in Nat /\ handed < handed'
      BY <2>1, <2>2, <2>3
    <3>3. \A f \in A!Matches : f <= handed' <=> f <= handed \/ f = handed'
      BY <3>2, <2>1, <2>2, <2>3
    <3>4. Upto' = {f \in A!Matches : f <= handed'}
      BY <3>1 DEF Upto
    <3>5. Upto' = Upto \cup {handed'}
      BY <3>2, <3>3, <3>4 DEF Upto
    <3>6. \A g \in Upto : g < handed'
      BY <3>2, <2>2 DEF Upto
    <3> QED BY <3>2, <3>5, <3>6, <2>2
  <2>5. A!Rows(Upto') = Append(A!Rows(Upto), handed')
    <3>1. Upto \in SUBSET A!Files
      BY <2>2 DEF Upto
    <3> QED BY <3>1, <2>4, RowsAppend DEF A!RequestAssumption
  <2>6. Said' = Append(Said, handed')
    <3>1. out \in Seq(A!Files) /\ buf \in Seq(A!Files)
      BY TypeParts DEF Typed
    <3>2. out \o Append(buf, handed') = Append(out \o buf, handed')
      BY <3>1, <2>4, AppendJoins
    <3> QED BY <1>14, <3>2 DEF A!HandOver, Said
  <2>7. handed' \in A!Matches'
    BY <1>14, <2>1, <2>3 DEF A!HandOver, A!Matches
  <2> QED BY <1>14, <2>5, <2>6, <2>7 DEF Told, Silent, A!HandOver, A!Streaming
<1>15. CASE A!StreamStops
  <2>1. Said' = Said
    BY <1>15 DEF A!StreamStops, A!Streaming, A!Close, A!NoteCorruption, A!MarkCorrupt, A!End, A!output, Said
  <2>2. Upto' = Upto /\ A!Matches' = A!Matches
    BY <1>15 DEF A!StreamStops, A!Streaming, A!Close, A!NoteCorruption, A!MarkCorrupt, A!End, A!output, Upto, A!Matches
  <2> QED BY <1>15, <2>1, <2>2, TypeParts DEF Told, Silent, Control, Typed, A!StreamStops, A!Streaming, A!Close, A!NoteCorruption, A!MarkCorrupt, A!End, A!output
<1>16. CASE A!StreamEnds
  <2>1. Said' = Said
    BY <1>16 DEF A!StreamEnds, A!output, Said
  <2>2. Upto' = Upto /\ A!Matches' = A!Matches
    BY <1>16 DEF A!StreamEnds, Upto, A!Matches
  <2>3. Upto = A!Matches
    <3>1. \A f \in A!Matches : ~(f > handed)
      BY <1>16 DEF A!StreamEnds, A!Remaining, A!ChecksPassed, Control
    <3>2. \A f \in A!Matches : f \in Nat
      BY TypeParts, MatchesType DEF A!Files
    <3> QED BY <3>1, <3>2, TypeParts DEF Upto, Typed
  <2> QED BY <1>16, <2>1, <2>2, <2>3 DEF Told, Silent, A!StreamEnds, A!Streaming
<1>17. CASE A!ScanEnds
  <2>1. Said' = Said
    BY <1>17 DEF A!ScanEnds, A!AnswerAgain, A!NoteCorruption, A!marks, A!output, Said
  <2>2. Upto' = Upto /\ A!Matches' = A!Matches
    BY <1>17 DEF A!ScanEnds, A!AnswerAgain, A!NoteCorruption, A!marks, A!output, Upto, A!Matches
  <2> QED BY <1>17, <2>1, <2>2, TypeParts DEF Told, Silent, Control, Typed, A!ScanEnds, A!AnswerAgain, A!NoteCorruption, A!marks, A!output
<1>18. CASE A!ScanError
  <2>1. Said' = Said
    BY <1>18 DEF A!ScanError, A!End, A!marks, A!output, Said
  <2>2. Upto' = Upto /\ A!Matches' = A!Matches
    BY <1>18 DEF A!ScanError, A!End, A!marks, A!output, Upto, A!Matches
  <2> QED BY <1>18, <2>1, <2>2, TypeParts DEF Told, Silent, Control, Typed, A!ScanError, A!End, A!marks, A!output
<1>19. CASE A!Climb
  <2>1. Said' = Said /\ UNCHANGED req
    BY <1>19 DEF A!Climb, A!output, Said
  <2>2. pc = "ladder" /\ pc' \in {"print", "names", "open"}
    BY <1>19 DEF A!Climb
  <2>3. handed' = 0
    BY <1>19 DEF A!Climb, Control
  <2> QED BY <2>1, <2>2, <2>3 DEF Told, Silent
<1>20. CASE A!OpenForNames
  <2>1. Said' = Said
    BY <1>20 DEF A!OpenForNames, A!FateOnceOpened, A!DeclineForNames, A!SpawnBuild, A!NoteCorruption, A!output, Said
  <2>2. Upto' = Upto /\ A!Matches' = A!Matches
    BY <1>20 DEF A!OpenForNames, A!FateOnceOpened, A!DeclineForNames, A!SpawnBuild, A!NoteCorruption, A!output, Upto, A!Matches
  <2> QED BY <1>20, <2>1, <2>2, TypeParts DEF Told, Silent, Control, Typed, A!OpenForNames, A!FateOnceOpened, A!DeclineForNames, A!SpawnBuild, A!NoteCorruption, A!output
<1>21. CASE A!LookUpNames
  <2>1. Said' = Said
    BY <1>21 DEF A!LookUpNames, A!Close, A!marks, A!output, Said
  <2>2. Upto' = Upto /\ A!Matches' = A!Matches
    BY <1>21 DEF A!LookUpNames, A!Close, A!marks, A!output, Upto, A!Matches
  <2> QED BY <1>21, <2>1, <2>2, TypeParts DEF Told, Silent, Control, Typed, A!LookUpNames, A!Close, A!marks, A!output
<1>22. CASE A!NamesPanic
  <2>1. Said' = Said
    BY <1>22 DEF A!NamesPanic, A!Close, A!End, A!marks, A!output, Said
  <2>2. Upto' = Upto /\ A!Matches' = A!Matches
    BY <1>22 DEF A!NamesPanic, A!Close, A!End, A!marks, A!output, Upto, A!Matches
  <2> QED BY <1>22, <2>1, <2>2, TypeParts DEF Told, Silent, Control, Typed, A!NamesPanic, A!Close, A!End, A!marks, A!output
<1>23. CASE A!Render
  <2>1. A!Rows(got) \in Seq(A!Files)
    BY TypeParts, RowsType DEF Typed, A!RequestAssumption
  <2>2. out = <<>> /\ req.kind # "stream"
    BY <1>23, TypeParts, SaidType DEF A!Render, Told, Silent, Control
  <2>3. Said' = A!Rows(got)
    BY <1>23, <2>1, <2>2, ConcatEmptySeq DEF A!Render, Said
  <2>4. A!Matches' = A!Matches
    BY <1>23 DEF A!Render, A!Matches
  <2> QED BY <1>23, <2>2, <2>3, <2>4 DEF Told, Silent, A!Render
<1>24. CASE A!Commit
  <2>1. Said' = Said
    BY <1>24 DEF A!Commit, A!MayWrite, A!marks, Said
  <2>2. Upto' = Upto /\ A!Matches' = A!Matches
    BY <1>24 DEF A!Commit, A!MayWrite, A!marks, Upto, A!Matches
  <2> QED BY <1>24, <2>1, <2>2, TypeParts DEF Told, Silent, Control, Typed, A!Commit, A!MayWrite, A!marks
<1>25. CASE A!Write
  <2>1. Said' = Said
    BY <1>25, TypeParts, WriteSays
  <2>2. Upto' = Upto /\ A!Matches' = A!Matches
    BY <1>25 DEF A!Write, Upto, A!Matches
  <2> QED BY <1>25, <2>1, <2>2 DEF Told, Silent, A!Write, A!marks
<1>26. CASE A!WriteFails
  <2>1. pc' = "drop" /\ UNCHANGED <<req, handed>> /\ A!Matches' = A!Matches
    BY <1>26 DEF A!WriteFails, A!End, A!Matches
  <2> QED BY <2>1 DEF Told, Silent
<1>27. CASE A!Finish
  <2>1. Said' = Said
    BY <1>27 DEF A!Finish, A!Flush, A!output, Said
  <2>2. Upto' = Upto /\ A!Matches' = A!Matches
    BY <1>27 DEF A!Finish, A!Flush, A!output, Upto, A!Matches
  <2> QED BY <1>27, <2>1, <2>2, TypeParts DEF Told, Silent, Control, Typed, A!Finish, A!Flush, A!output
<1>28. CASE A!Die
  <2>1. Said' = Said
    BY <1>28 DEF A!Die, A!Flush, A!output, Said
  <2>2. Upto' = Upto /\ A!Matches' = A!Matches
    BY <1>28 DEF A!Die, A!Flush, A!output, Upto, A!Matches
  <2> QED BY <1>28, <2>1, <2>2, TypeParts DEF Told, Silent, Control, Typed, A!Die, A!Flush, A!output
<1>29. CASE A!BlockFails
  <2>1. Said' = Said
    BY <1>29 DEF A!BlockFails, A!marks, A!output, Said
  <2>2. Upto' = Upto /\ A!Matches' = A!Matches
    BY <1>29 DEF A!BlockFails, A!marks, A!output, Upto, A!Matches
  <2> QED BY <1>29, <2>1, <2>2, TypeParts DEF Told, Silent, Control, Typed, A!BlockFails, A!marks, A!output
<1>30. CASE A!SigbusReruns
  <2>1. out = <<>> /\ pc' = "start"
    BY <1>30 DEF A!SigbusReruns, A!MayRerun, A!Reexec, Control
  <2>2. out' = <<>> /\ buf' = <<>>
    BY <1>30, <2>1 DEF A!SigbusReruns, A!Reexec
  <2>4. handed' = 0
    BY <1>30 DEF A!SigbusReruns, A!Reexec
  <2>3. Said' = <<>>
    BY <2>2, EmptySeq, ConcatEmptySeq DEF Said
  <2> QED BY <2>1, <2>3, <2>4 DEF Told, Silent
<1>31. CASE A!SigbusEnds
  <2>1. Said' = Said
    BY <1>31 DEF A!SigbusEnds, A!MayRerun, A!marks, A!output, Said
  <2>2. Upto' = Upto /\ A!Matches' = A!Matches
    BY <1>31 DEF A!SigbusEnds, A!MayRerun, A!marks, A!output, Upto, A!Matches
  <2> QED BY <1>31, <2>1, <2>2, TypeParts DEF Told, Silent, Control, Typed, A!SigbusEnds, A!MayRerun, A!marks, A!output
<1> QED BY <1>1, <1>2, <1>3, <1>4, <1>5, <1>6, <1>7, <1>8, <1>9, <1>10, <1>11, <1>12, <1>13,
      <1>14, <1>15, <1>16, <1>17, <1>18, <1>19, <1>20, <1>21, <1>22, <1>23, <1>24, <1>25, <1>26,
      <1>27, <1>28, <1>29, <1>30, <1>31 DEF A!Next, A!ProgramSteps, A!IndexSteps

-----------------------------------------------------------------------------
(* Each step keeps what was sought, and what is complete *)

LEMMA RungClimbs ==
    ASSUME A!RequestAssumption, Typed, A!Climb, pc' # "print"
    PROVE  \A g \in Lower' : g \in Lower \/ g = rung
<1>1. /\ rung' \in A!Later(rung) /\ \A h \in A!Later(rung) : A!Place(rung') <= A!Place(h)
      /\ UNCHANGED req
  BY NextRungIs DEF A!Climb, Typed
<1>2. rung \in A!Rungs /\ rung' \in A!Rungs /\ req.climbs \subseteq A!Rungs
  BY <1>1, RequestType DEF Typed, A!Later, A!Rungs
<1>3. ASSUME NEW g \in Lower' PROVE g \in Lower \/ g = rung
  <2>1. g \in {"exact"} \cup (req.climbs \ {"names"}) /\ A!Place(g) < A!Place(rung')
    BY <1>1, <1>3 DEF Lower
  <2>2. g \in A!Rungs
    BY <2>1, <1>2 DEF A!Rungs
  <2>3. \A h \in A!Rungs : A!Place(h) \in 1 .. 4
    BY PlaceIs DEF A!Rungs
  <2>4. \A h, i \in A!Rungs : A!Place(h) = A!Place(i) => h = i
    BY PlaceIs DEF A!Rungs
  <2>5. ~(A!Place(g) > A!Place(rung))
    <3>1. SUFFICES ASSUME A!Place(g) > A!Place(rung) PROVE FALSE
      OBVIOUS
    <3>2. g # "exact"
      BY <3>1, <2>3, PlaceIs, <1>2
    <3>3. g \in A!Later(rung)
      BY <3>1, <3>2, <2>1 DEF A!Later
    <3> QED BY <3>3, <1>1, <2>1, <2>3, <2>2, <1>2
  <2> QED BY <2>1, <2>2, <2>3, <2>4, <2>5, <1>2 DEF Lower
<1> QED BY <1>3

LEMMA SoughtKept ==
    ASSUME A!RequestAssumption, A!TypeOK, Control, Told, Sought, A!Next
    PROVE  Sought'
<1>1. CASE A!Start
  <2>1. Lower' = Lower /\ A!Matches' = A!Matches /\ UNCHANGED <<req, rung>> /\ (A!Checked' <=> A!Checked)
    BY <1>1 DEF A!Start, A!output, Lower, A!Matches, A!Checked
  <2> QED BY <1>1, <2>1, TypeParts DEF Sought, Control, Typed, A!Start, A!output
<1>2. CASE A!SkipIndex
  <2>1. Lower' = Lower /\ A!Matches' = A!Matches /\ UNCHANGED <<req, rung>> /\ (A!Checked' <=> A!Checked)
    BY <1>2 DEF A!SkipIndex, A!WithoutIndex, A!End, A!output, A!marks, Lower, A!Matches, A!Checked
  <2> QED BY <1>2, <2>1, TypeParts DEF Sought, Control, Typed, A!SkipIndex, A!WithoutIndex, A!End, A!output, A!marks
<1>3. CASE A!OpenIndex
  <2>1. Lower' = Lower /\ A!Matches' = A!Matches /\ UNCHANGED <<req, rung>> /\ (A!Checked' <=> A!Checked)
    BY <1>3 DEF A!OpenIndex, A!FateOnceOpened, A!SpawnRefresh, A!output, Lower, A!Matches, A!Checked
  <2> QED BY <1>3, <2>1, TypeParts DEF Sought, Control, Typed, A!OpenIndex, A!FateOnceOpened, A!SpawnRefresh, A!output
<1>4. CASE A!OpenDeclined
  <2>1. Lower' = Lower /\ A!Matches' = A!Matches /\ UNCHANGED <<req, rung>> /\ (A!Checked' <=> A!Checked)
    BY <1>4 DEF A!OpenDeclined, A!WithoutIndex, A!End, A!SpawnBuild, A!output, Lower, A!Matches, A!Checked
  <2> QED BY <1>4, <2>1, TypeParts DEF Sought, Control, Typed, A!OpenDeclined, A!WithoutIndex, A!End, A!SpawnBuild, A!output
<1>5. CASE A!OpenCorrupt
  <2>1. Lower' = Lower /\ A!Matches' = A!Matches /\ UNCHANGED <<req, rung>> /\ (A!Checked' <=> A!Checked)
    BY <1>5 DEF A!OpenCorrupt, A!NoteCorruption, A!WithoutIndex, A!End, A!output, Lower, A!Matches, A!Checked
  <2> QED BY <1>5, <2>1, TypeParts DEF Sought, Control, Typed, A!OpenCorrupt, A!NoteCorruption, A!WithoutIndex, A!End, A!output
<1>6. CASE A!WaitForBuild
  <2>1. Lower' = Lower /\ A!Matches' = A!Matches /\ UNCHANGED <<req, rung>> /\ (A!Checked' <=> A!Checked)
    BY <1>6 DEF A!WaitForBuild, A!output, Lower, A!Matches, A!Checked
  <2> QED BY <1>6, <2>1, TypeParts DEF Sought, Control, Typed, A!WaitForBuild, A!output
<1>7. CASE A!IndexDeclines
  <2>1. Lower' = Lower /\ A!Matches' = A!Matches /\ UNCHANGED <<req, rung>> /\ (A!Checked' <=> A!Checked)
    BY <1>7 DEF A!IndexDeclines, A!Close, A!marks, A!output, Lower, A!Matches, A!Checked
  <2> QED BY <1>7, <2>1, TypeParts DEF Sought, Control, Typed, A!IndexDeclines, A!Close, A!marks, A!output
<1>8. CASE A!SearchRead
  <2>1. Lower' = Lower /\ A!Matches' = A!Matches /\ UNCHANGED <<req, rung>> /\ (A!Checked' <=> A!Checked)
    BY <1>8 DEF A!SearchRead, A!Close, A!NoteCorruption, A!marks, A!output, Lower, A!Matches, A!Checked
  <2> QED BY <1>8, <2>1, TypeParts DEF Sought, Control, Typed, A!SearchRead, A!Close, A!NoteCorruption, A!marks, A!output
<1>9. CASE A!VerbRead
  <2>1. Lower' = Lower /\ A!Matches' = A!Matches /\ UNCHANGED <<req, rung>> /\ (A!Checked' <=> A!Checked)
    BY <1>9 DEF A!VerbRead, A!AnswerAgain, A!Close, A!NoteCorruption, A!marks, A!output, Lower, A!Matches, A!Checked
  <2> QED BY <1>9, <2>1, TypeParts DEF Sought, Control, Typed, A!VerbRead, A!AnswerAgain, A!Close, A!NoteCorruption, A!marks, A!output
<1>10. CASE A!GraphRead
  <2>1. Lower' = Lower /\ A!Matches' = A!Matches /\ UNCHANGED <<req, rung>> /\ (A!Checked' <=> A!Checked)
    BY <1>10 DEF A!GraphRead, A!End, A!Close, A!NoteCorruption, A!marks, A!output, Lower, A!Matches, A!Checked
  <2> QED BY <1>10, <2>1, TypeParts DEF Sought, Control, Typed, A!GraphRead, A!End, A!Close, A!NoteCorruption, A!marks, A!output
<1>11. CASE A!DiffRead
  <2>1. Lower' = Lower /\ A!Matches' = A!Matches /\ UNCHANGED <<req, rung>> /\ (A!Checked' <=> A!Checked)
    BY <1>11 DEF A!DiffRead, A!Close, A!NoteCorruption, A!marks, A!output, Lower, A!Matches, A!Checked
  <2> QED BY <1>11, <2>1, TypeParts DEF Sought, A!Checked, Control, Typed, A!DiffRead, A!Close, A!NoteCorruption, A!marks, A!output
<1>12. CASE A!IndexError
  <2>1. Lower' = Lower /\ A!Matches' = A!Matches /\ UNCHANGED <<req, rung>> /\ (A!Checked' <=> A!Checked)
    BY <1>12 DEF A!IndexError, A!End, A!Close, A!marks, A!output, Lower, A!Matches, A!Checked
  <2> QED BY <1>12, <2>1, TypeParts DEF Sought, Control, Typed, A!IndexError, A!End, A!Close, A!marks, A!output
<1>13. CASE A!IndexPanics
  <2>1. Lower' = Lower /\ A!Matches' = A!Matches /\ UNCHANGED <<req, rung>> /\ (A!Checked' <=> A!Checked)
    BY <1>13 DEF A!IndexPanics, A!MarkCorrupt, A!End, A!Close, A!marks, A!output, Lower, A!Matches, A!Checked
  <2> QED BY <1>13, <2>1, TypeParts DEF Sought, Control, Typed, A!IndexPanics, A!MarkCorrupt, A!End, A!Close, A!marks, A!output
<1>14. CASE A!HandOver
  <2>1. Lower' = Lower /\ A!Matches' = A!Matches /\ UNCHANGED <<req, rung>> /\ (A!Checked' <=> A!Checked)
    BY <1>14 DEF A!HandOver, A!Streaming, A!ChecksPassed, A!Remaining, A!marks, Lower, A!Matches, A!Checked
  <2> QED BY <1>14, <2>1, TypeParts DEF Sought, Control, Typed, A!HandOver, A!Streaming, A!ChecksPassed, A!Remaining, A!marks
<1>15. CASE A!StreamStops
  <2>1. Lower' = Lower /\ A!Matches' = A!Matches /\ UNCHANGED <<req, rung>> /\ (A!Checked' <=> A!Checked)
    BY <1>15 DEF A!StreamStops, A!Streaming, A!Close, A!NoteCorruption, A!MarkCorrupt, A!End, A!output, Lower, A!Matches, A!Checked
  <2> QED BY <1>15, <2>1, TypeParts DEF Sought, Control, Typed, A!StreamStops, A!Streaming, A!Close, A!NoteCorruption, A!MarkCorrupt, A!End, A!output
<1>16. CASE A!StreamEnds
  <2>1. Lower' = Lower /\ A!Matches' = A!Matches /\ UNCHANGED <<req, rung>> /\ (A!Checked' <=> A!Checked)
    BY <1>16 DEF A!StreamEnds, A!Streaming, A!Close, A!marks, A!output, Lower, A!Matches, A!Checked
  <2> QED BY <1>16, <2>1, TypeParts DEF Sought, Control, Typed, A!StreamEnds, A!Streaming, A!Close, A!marks, A!output
<1>17. CASE A!ScanEnds
  <2>1. Lower' = Lower /\ A!Matches' = A!Matches /\ UNCHANGED <<req, rung>> /\ (A!Checked' <=> A!Checked)
    BY <1>17 DEF A!ScanEnds, A!AnswerAgain, A!NoteCorruption, A!marks, A!output, Lower, A!Matches, A!Checked
  <2> QED BY <1>17, <2>1, TypeParts DEF Sought, Control, Typed, A!ScanEnds, A!AnswerAgain, A!NoteCorruption, A!marks, A!output
<1>18. CASE A!ScanError
  <2>1. Lower' = Lower /\ A!Matches' = A!Matches /\ UNCHANGED <<req, rung>> /\ (A!Checked' <=> A!Checked)
    BY <1>18 DEF A!ScanError, A!End, A!marks, A!output, Lower, A!Matches, A!Checked
  <2> QED BY <1>18, <2>1, TypeParts DEF Sought, Control, Typed, A!ScanError, A!End, A!marks, A!output
<1>19. CASE A!Climb
  <2>1. pc = "ladder" /\ got = A!Matches /\ UNCHANGED <<req, got>> /\ (A!Checked' <=> A!Checked)
    BY <1>19 DEF A!Climb, Sought, A!Checked
  <2>2. CASE pc' = "print"
    <3>1. UNCHANGED rung
      BY <1>19, <2>2 DEF A!Climb
    <3>2. Lower' = Lower /\ A!Matches' = A!Matches
      BY <2>1, <3>1 DEF Lower, A!Matches
    <3> QED BY <2>1, <2>2, <3>1, <3>2 DEF Sought
  <2>3. CASE pc' # "print"
    <3>1. got = {} /\ pc' \in {"names", "open"}
      BY <1>19, <2>3 DEF A!Climb
    <3>2. req.match[rung] = {}
      BY <2>1, <3>1 DEF A!Matches
    <3>3. \A g \in Lower' : req.match[g] = {}
      BY <1>19, <2>3, <3>2, TypeParts, RungClimbs DEF Sought
    <3> QED BY <2>1, <3>1, <3>3 DEF Sought
  <2> QED BY <2>2, <2>3
<1>20. CASE A!OpenForNames
  <2>1. Lower' = Lower /\ A!Matches' = A!Matches /\ UNCHANGED <<req, rung>> /\ (A!Checked' <=> A!Checked)
    BY <1>20 DEF A!OpenForNames, A!FateOnceOpened, A!DeclineForNames, A!SpawnBuild, A!NoteCorruption, A!output, Lower, A!Matches, A!Checked
  <2> QED BY <1>20, <2>1, TypeParts DEF Sought, Control, Typed, A!OpenForNames, A!FateOnceOpened, A!DeclineForNames, A!SpawnBuild, A!NoteCorruption, A!output
<1>21. CASE A!LookUpNames
  <2>1. Lower' = Lower /\ A!Matches' = A!Matches /\ UNCHANGED <<req, rung>> /\ (A!Checked' <=> A!Checked)
    BY <1>21 DEF A!LookUpNames, A!Close, A!marks, A!output, Lower, A!Matches, A!Checked
  <2> QED BY <1>21, <2>1, TypeParts DEF Sought, Control, Typed, A!LookUpNames, A!Close, A!marks, A!output
<1>22. CASE A!NamesPanic
  <2>1. Lower' = Lower /\ A!Matches' = A!Matches /\ UNCHANGED <<req, rung>> /\ (A!Checked' <=> A!Checked)
    BY <1>22 DEF A!NamesPanic, A!Close, A!End, A!marks, A!output, Lower, A!Matches, A!Checked
  <2> QED BY <1>22, <2>1, TypeParts DEF Sought, Control, Typed, A!NamesPanic, A!Close, A!End, A!marks, A!output
<1>23. CASE A!Render
  <2>1. Lower' = Lower /\ A!Matches' = A!Matches /\ UNCHANGED <<req, rung>> /\ (A!Checked' <=> A!Checked)
    BY <1>23 DEF A!Render, A!marks, Lower, A!Matches, A!Checked
  <2> QED BY <1>23, <2>1, TypeParts DEF Sought, Control, Typed, A!Render, A!marks
<1>24. CASE A!Commit
  <2>1. Lower' = Lower /\ A!Matches' = A!Matches /\ UNCHANGED <<req, rung>> /\ (A!Checked' <=> A!Checked)
    BY <1>24 DEF A!Commit, A!MayWrite, A!marks, Lower, A!Matches, A!Checked
  <2> QED BY <1>24, <2>1, TypeParts DEF Sought, Control, Typed, A!Commit, A!MayWrite, A!marks
<1>25. CASE A!Write
  <2>1. Lower' = Lower /\ A!Matches' = A!Matches /\ UNCHANGED <<req, rung>> /\ (A!Checked' <=> A!Checked)
    BY <1>25 DEF A!Write, A!marks, Lower, A!Matches, A!Checked
  <2> QED BY <1>25, <2>1, TypeParts DEF Sought, Control, Typed, A!Write, A!marks
<1>26. CASE A!WriteFails
  <2>1. Lower' = Lower /\ A!Matches' = A!Matches /\ UNCHANGED <<req, rung>> /\ (A!Checked' <=> A!Checked)
    BY <1>26 DEF A!WriteFails, A!MarkCorrupt, A!End, A!Close, A!marks, Lower, A!Matches, A!Checked
  <2> QED BY <1>26, <2>1, TypeParts DEF Sought, Control, Typed, A!WriteFails, A!MarkCorrupt, A!End, A!Close, A!marks
<1>27. CASE A!Finish
  <2>1. Lower' = Lower /\ A!Matches' = A!Matches /\ UNCHANGED <<req, rung>> /\ (A!Checked' <=> A!Checked)
    BY <1>27 DEF A!Finish, A!Flush, A!output, Lower, A!Matches, A!Checked
  <2> QED BY <1>27, <2>1, TypeParts DEF Sought, Control, Typed, A!Finish, A!Flush, A!output
<1>28. CASE A!Die
  <2>1. Lower' = Lower /\ A!Matches' = A!Matches /\ UNCHANGED <<req, rung>> /\ (A!Checked' <=> A!Checked)
    BY <1>28 DEF A!Die, A!Flush, A!output, Lower, A!Matches, A!Checked
  <2> QED BY <1>28, <2>1, TypeParts DEF Sought, Control, Typed, A!Die, A!Flush, A!output
<1>29. CASE A!BlockFails
  <2>1. Lower' = Lower /\ A!Matches' = A!Matches /\ UNCHANGED <<req, rung>> /\ (A!Checked' <=> A!Checked)
    BY <1>29 DEF A!BlockFails, A!marks, A!output, Lower, A!Matches, A!Checked
  <2> QED BY <1>29, <2>1, TypeParts DEF Sought, Control, Typed, A!BlockFails, A!marks, A!output
<1>30. CASE A!SigbusReruns
  <2>1. rung' = "exact" /\ UNCHANGED req /\ pc' = "start"
    BY <1>30 DEF A!SigbusReruns, A!Reexec
  <2>2. Lower' = {}
    <3>1. req.climbs \subseteq A!Rungs
      BY TypeParts, RequestType DEF Typed
    <3>2. \A g \in A!Rungs : A!Place(g) >= 1
      BY PlaceIs DEF A!Rungs
    <3>3. \A g \in {"exact"} \cup (req.climbs \ {"names"}) : ~(A!Place(g) < A!Place("exact"))
      BY <3>1, PlaceIs DEF A!Rungs
    <3> QED BY <2>1, <3>3 DEF Lower
  <2> QED BY <2>1, <2>2 DEF Sought
<1>31. CASE A!SigbusEnds
  <2>1. Lower' = Lower /\ A!Matches' = A!Matches /\ UNCHANGED <<req, rung>> /\ (A!Checked' <=> A!Checked)
    BY <1>31 DEF A!SigbusEnds, A!MayRerun, A!marks, A!output, Lower, A!Matches, A!Checked
  <2> QED BY <1>31, <2>1, TypeParts DEF Sought, Control, Typed, A!SigbusEnds, A!MayRerun, A!marks, A!output
<1> QED BY <1>1, <1>2, <1>3, <1>4, <1>5, <1>6, <1>7, <1>8, <1>9, <1>10, <1>11, <1>12, <1>13,
      <1>14, <1>15, <1>16, <1>17, <1>18, <1>19, <1>20, <1>21, <1>22, <1>23, <1>24, <1>25, <1>26,
      <1>27, <1>28, <1>29, <1>30, <1>31 DEF A!Next, A!ProgramSteps, A!IndexSteps

LEMMA SayingIsPrefix ==
    ASSUME A!RequestAssumption, Typed, Told, Sought, A!Checked, pc \notin {"drop", "done"}
    PROVE  A!IsPrefix(Said, A!Rows(A!Matches))
<1>1. A!Matches \in SUBSET A!Files /\ N \in Nat /\ A!Rows(A!Matches) \in Seq(A!Files)
  BY MatchesType, RowsType DEF A!RequestAssumption
<1>2. A!IsPrefix(<<>>, A!Rows(A!Matches)) /\ A!IsPrefix(A!Rows(A!Matches), A!Rows(A!Matches))
  BY <1>1, PrefixOfItself
<1>3. A!IsPrefix(A!Rows(Upto), A!Rows(A!Matches))
  <2>1. handed \in Nat
    BY DEF Typed
  <2>2. A!IsPrefix(A!Rows({f \in A!Matches : f <= handed}), A!Rows(A!Matches))
    BY <2>1, <1>1, RowsPrefix
  <2> QED BY <2>2 DEF Upto
<1>4. CASE Silent
  BY <1>4, <1>2 DEF Told
<1>5. CASE req.kind = "stream" /\ pc \in {"read", "scan", "flush"}
  BY <1>5, <1>3 DEF Told
<1>6. CASE req.kind # "stream" /\ pc = "flush"
  <2>1. got = A!Matches \/ got = {}
    BY <1>6 DEF Sought
  <2> QED BY <1>6, <2>1, <1>1, <1>2, RowsEmpty DEF Told
<1> QED BY <1>4, <1>5, <1>6 DEF Silent, Typed

LEMMA PrefixCut ==
    ASSUME NEW S, NEW s \in Seq(S), NEW t \in Seq(S), NEW r \in Seq(S), A!IsPrefix(s \o t, r)
    PROVE  A!IsPrefix(s \o <<>>, r)
<1> DEFINE u == s \o t
<1>1. Len(s) \in Nat /\ Len(t) \in Nat /\ Len(r) \in Nat
  BY LenProperties
<1>2. u \in Seq(S) /\ Len(u) = Len(s) + Len(t) /\ \A i \in 1 .. Len(s) : u[i] = s[i]
  BY <1>1, ConcatProperties
<1>3. A!IsPrefix(u, r) /\ s \o <<>> = s
  BY ConcatEmptySeq
<1> HIDE DEF u
<1>4. Len(u) <= Len(r) /\ SubSeq(u, 1, Len(u)) = SubSeq(r, 1, Len(u))
  BY <1>3 DEF A!IsPrefix
<1>5. /\ \A i \in 1 .. Len(s) : s[i] \in S
      /\ \A i \in 1 .. Len(u) : u[i] \in S /\ r[i] \in S
  BY <1>1, <1>2, <1>4, ElementOfSeq
<1>6. \A i \in 1 .. Len(u) : SubSeq(u, 1, Len(u))[i] = u[i] /\ SubSeq(r, 1, Len(u))[i] = r[i]
  BY <1>1, <1>2, <1>5, SubSeqProperties
<1>7. \A i \in 1 .. Len(s) : s[i] = r[i] /\ r[i] \in S
  <2> TAKE i \in 1 .. Len(s)
  <2>1. i \in 1 .. Len(u)
    BY <1>1, <1>2
  <2> QED BY <2>1, <1>2, <1>4, <1>5, <1>6
<1>8. /\ SubSeq(s, 1, Len(s)) \in Seq(S) /\ Len(SubSeq(s, 1, Len(s))) = Len(s)
      /\ SubSeq(r, 1, Len(s)) \in Seq(S) /\ Len(SubSeq(r, 1, Len(s))) = Len(s)
      /\ \A i \in 1 .. Len(s) : SubSeq(s, 1, Len(s))[i] = s[i] /\ SubSeq(r, 1, Len(s))[i] = r[i]
  BY <1>1, <1>5, <1>7, SubSeqProperties
<1>9. SubSeq(s, 1, Len(s)) = SubSeq(r, 1, Len(s))
  BY <1>7, <1>8, SeqEqual
<1>10. Len(s) <= Len(r)
  BY <1>1, <1>2, <1>4
<1>11. A!IsPrefix(s, r)
  BY <1>9, <1>10 DEF A!IsPrefix
<1> QED BY <1>3, <1>11

LEMMA AlwaysPrefix ==
    ASSUME A!RequestAssumption, Typed, Told, Sought, Ended, A!Checked
    PROVE  A!IsPrefix(Said, A!Rows(A!Matches))
BY SayingIsPrefix DEF Ended

LEMMA PrefixKept ==
    ASSUME A!RequestAssumption, A!TypeOK, Control, Told, Sought, Ended, A!Next
    PROVE  A!Checked' /\ pc' \in {"drop", "done"} => A!IsPrefix(Said', A!Rows(A!Matches'))
<1>1. CASE A!Start
  <2>1. Said' = Said
    BY <1>1 DEF A!Start, A!output, Said
  <2>2. A!Matches' = A!Matches /\ (A!Checked' <=> A!Checked)
    BY <1>1 DEF A!Start, A!output, A!Matches, A!Checked
  <2> QED BY <2>1, <2>2, TypeParts, AlwaysPrefix
<1>2. CASE A!SkipIndex
  <2>1. Said' = Said
    BY <1>2 DEF A!SkipIndex, A!WithoutIndex, A!End, A!output, A!marks, Said
  <2>2. A!Matches' = A!Matches /\ (A!Checked' <=> A!Checked)
    BY <1>2 DEF A!SkipIndex, A!WithoutIndex, A!End, A!output, A!marks, A!Matches, A!Checked
  <2> QED BY <2>1, <2>2, TypeParts, AlwaysPrefix
<1>3. CASE A!OpenIndex
  <2>1. Said' = Said
    BY <1>3 DEF A!OpenIndex, A!FateOnceOpened, A!SpawnRefresh, A!output, Said
  <2>2. A!Matches' = A!Matches /\ (A!Checked' <=> A!Checked)
    BY <1>3 DEF A!OpenIndex, A!FateOnceOpened, A!SpawnRefresh, A!output, A!Matches, A!Checked
  <2> QED BY <2>1, <2>2, TypeParts, AlwaysPrefix
<1>4. CASE A!OpenDeclined
  <2>1. Said' = Said
    BY <1>4 DEF A!OpenDeclined, A!WithoutIndex, A!End, A!SpawnBuild, A!output, Said
  <2>2. A!Matches' = A!Matches /\ (A!Checked' <=> A!Checked)
    BY <1>4 DEF A!OpenDeclined, A!WithoutIndex, A!End, A!SpawnBuild, A!output, A!Matches, A!Checked
  <2> QED BY <2>1, <2>2, TypeParts, AlwaysPrefix
<1>5. CASE A!OpenCorrupt
  <2>1. Said' = Said
    BY <1>5 DEF A!OpenCorrupt, A!NoteCorruption, A!WithoutIndex, A!End, A!output, Said
  <2>2. A!Matches' = A!Matches /\ (A!Checked' <=> A!Checked)
    BY <1>5 DEF A!OpenCorrupt, A!NoteCorruption, A!WithoutIndex, A!End, A!output, A!Matches, A!Checked
  <2> QED BY <2>1, <2>2, TypeParts, AlwaysPrefix
<1>6. CASE A!WaitForBuild
  <2>1. Said' = Said
    BY <1>6 DEF A!WaitForBuild, A!output, Said
  <2>2. A!Matches' = A!Matches /\ (A!Checked' <=> A!Checked)
    BY <1>6 DEF A!WaitForBuild, A!output, A!Matches, A!Checked
  <2> QED BY <2>1, <2>2, TypeParts, AlwaysPrefix
<1>7. CASE A!IndexDeclines
  <2>1. Said' = Said
    BY <1>7 DEF A!IndexDeclines, A!Close, A!marks, A!output, Said
  <2>2. A!Matches' = A!Matches /\ (A!Checked' <=> A!Checked)
    BY <1>7 DEF A!IndexDeclines, A!Close, A!marks, A!output, A!Matches, A!Checked
  <2> QED BY <2>1, <2>2, TypeParts, AlwaysPrefix
<1>8. CASE A!SearchRead
  <2>1. Said' = Said
    BY <1>8 DEF A!SearchRead, A!Close, A!NoteCorruption, A!marks, A!output, Said
  <2>2. A!Matches' = A!Matches /\ (A!Checked' <=> A!Checked)
    BY <1>8 DEF A!SearchRead, A!Close, A!NoteCorruption, A!marks, A!output, A!Matches, A!Checked
  <2> QED BY <2>1, <2>2, TypeParts, AlwaysPrefix
<1>9. CASE A!VerbRead
  <2>1. Said' = Said
    BY <1>9 DEF A!VerbRead, A!AnswerAgain, A!Close, A!NoteCorruption, A!marks, A!output, Said
  <2>2. A!Matches' = A!Matches /\ (A!Checked' <=> A!Checked)
    BY <1>9 DEF A!VerbRead, A!AnswerAgain, A!Close, A!NoteCorruption, A!marks, A!output, A!Matches, A!Checked
  <2> QED BY <2>1, <2>2, TypeParts, AlwaysPrefix
<1>10. CASE A!GraphRead
  <2>1. Said' = Said
    BY <1>10 DEF A!GraphRead, A!End, A!Close, A!NoteCorruption, A!marks, A!output, Said
  <2>2. A!Matches' = A!Matches /\ (A!Checked' <=> A!Checked)
    BY <1>10 DEF A!GraphRead, A!End, A!Close, A!NoteCorruption, A!marks, A!output, A!Matches, A!Checked
  <2> QED BY <2>1, <2>2, TypeParts, AlwaysPrefix
<1>11. CASE A!DiffRead
  <2>1. Said' = Said
    BY <1>11 DEF A!DiffRead, A!Close, A!NoteCorruption, A!marks, A!output, Said
  <2>2. A!Matches' = A!Matches /\ (A!Checked' <=> A!Checked)
    BY <1>11 DEF A!DiffRead, A!Close, A!NoteCorruption, A!marks, A!output, A!Matches, A!Checked
  <2> QED BY <2>1, <2>2, TypeParts, AlwaysPrefix
<1>12. CASE A!IndexError
  <2>1. Said' = Said
    BY <1>12 DEF A!IndexError, A!End, A!Close, A!marks, A!output, Said
  <2>2. A!Matches' = A!Matches /\ (A!Checked' <=> A!Checked)
    BY <1>12 DEF A!IndexError, A!End, A!Close, A!marks, A!output, A!Matches, A!Checked
  <2> QED BY <2>1, <2>2, TypeParts, AlwaysPrefix
<1>13. CASE A!IndexPanics
  <2>1. Said' = Said
    BY <1>13 DEF A!IndexPanics, A!MarkCorrupt, A!End, A!Close, A!marks, A!output, Said
  <2>2. A!Matches' = A!Matches /\ (A!Checked' <=> A!Checked)
    BY <1>13 DEF A!IndexPanics, A!MarkCorrupt, A!End, A!Close, A!marks, A!output, A!Matches, A!Checked
  <2> QED BY <2>1, <2>2, TypeParts, AlwaysPrefix
<1>14. CASE A!HandOver
  <2>1. pc \in {"read", "scan"} /\ UNCHANGED pc
    BY <1>14 DEF A!HandOver, A!Streaming, A!ChecksPassed, A!Remaining, A!marks
  <2> QED BY <2>1
<1>15. CASE A!StreamStops
  <2>1. Said' = Said
    BY <1>15 DEF A!StreamStops, A!Streaming, A!Close, A!NoteCorruption, A!MarkCorrupt, A!End, A!output, Said
  <2>2. A!Matches' = A!Matches /\ (A!Checked' <=> A!Checked)
    BY <1>15 DEF A!StreamStops, A!Streaming, A!Close, A!NoteCorruption, A!MarkCorrupt, A!End, A!output, A!Matches, A!Checked
  <2> QED BY <2>1, <2>2, TypeParts, AlwaysPrefix
<1>16. CASE A!StreamEnds
  <2>1. Said' = Said
    BY <1>16 DEF A!StreamEnds, A!Streaming, A!Close, A!marks, A!output, Said
  <2>2. A!Matches' = A!Matches /\ (A!Checked' <=> A!Checked)
    BY <1>16 DEF A!StreamEnds, A!Streaming, A!Close, A!marks, A!output, A!Matches, A!Checked
  <2> QED BY <2>1, <2>2, TypeParts, AlwaysPrefix
<1>17. CASE A!ScanEnds
  <2>1. Said' = Said
    BY <1>17 DEF A!ScanEnds, A!AnswerAgain, A!NoteCorruption, A!marks, A!output, Said
  <2>2. A!Matches' = A!Matches /\ (A!Checked' <=> A!Checked)
    BY <1>17 DEF A!ScanEnds, A!AnswerAgain, A!NoteCorruption, A!marks, A!output, A!Matches, A!Checked
  <2> QED BY <2>1, <2>2, TypeParts, AlwaysPrefix
<1>18. CASE A!ScanError
  <2>1. Said' = Said
    BY <1>18 DEF A!ScanError, A!End, A!marks, A!output, Said
  <2>2. A!Matches' = A!Matches /\ (A!Checked' <=> A!Checked)
    BY <1>18 DEF A!ScanError, A!End, A!marks, A!output, A!Matches, A!Checked
  <2> QED BY <2>1, <2>2, TypeParts, AlwaysPrefix
<1>19. CASE A!Climb
  <2>1. pc' \in {"print", "names", "open"}
    BY <1>19 DEF A!Climb, A!marks, A!output
  <2> QED BY <2>1
<1>20. CASE A!OpenForNames
  <2>1. Said' = Said
    BY <1>20 DEF A!OpenForNames, A!FateOnceOpened, A!DeclineForNames, A!SpawnBuild, A!NoteCorruption, A!output, Said
  <2>2. A!Matches' = A!Matches /\ (A!Checked' <=> A!Checked)
    BY <1>20 DEF A!OpenForNames, A!FateOnceOpened, A!DeclineForNames, A!SpawnBuild, A!NoteCorruption, A!output, A!Matches, A!Checked
  <2> QED BY <2>1, <2>2, TypeParts, AlwaysPrefix
<1>21. CASE A!LookUpNames
  <2>1. Said' = Said
    BY <1>21 DEF A!LookUpNames, A!Close, A!marks, A!output, Said
  <2>2. A!Matches' = A!Matches /\ (A!Checked' <=> A!Checked)
    BY <1>21 DEF A!LookUpNames, A!Close, A!marks, A!output, A!Matches, A!Checked
  <2> QED BY <2>1, <2>2, TypeParts, AlwaysPrefix
<1>22. CASE A!NamesPanic
  <2>1. Said' = Said
    BY <1>22 DEF A!NamesPanic, A!Close, A!End, A!marks, A!output, Said
  <2>2. A!Matches' = A!Matches /\ (A!Checked' <=> A!Checked)
    BY <1>22 DEF A!NamesPanic, A!Close, A!End, A!marks, A!output, A!Matches, A!Checked
  <2> QED BY <2>1, <2>2, TypeParts, AlwaysPrefix
<1>23. CASE A!Render
  <2>1. pc' = "flush"
    BY <1>23 DEF A!Render, A!marks
  <2> QED BY <2>1
<1>24. CASE A!Commit
  <2>1. Said' = Said
    BY <1>24 DEF A!Commit, A!MayWrite, A!marks, Said
  <2>2. A!Matches' = A!Matches /\ (A!Checked' <=> A!Checked)
    BY <1>24 DEF A!Commit, A!MayWrite, A!marks, A!Matches, A!Checked
  <2> QED BY <2>1, <2>2, TypeParts, AlwaysPrefix
<1>25. CASE A!Write
  <2>1. Said' = Said
    BY <1>25, TypeParts, WriteSays
  <2>2. A!Matches' = A!Matches /\ (A!Checked' <=> A!Checked)
    BY <1>25 DEF A!Write, A!Matches, A!Checked
  <2> QED BY <2>1, <2>2, TypeParts, AlwaysPrefix
<1>26. CASE A!WriteFails
  <2>1. A!Matches' = A!Matches /\ (A!Checked' <=> A!Checked) /\ UNCHANGED out /\ buf' = <<>>
    BY <1>26 DEF A!WriteFails, A!Matches, A!Checked
  <2>2. out \in Seq(A!Files) /\ buf \in Seq(A!Files) /\ A!Rows(A!Matches) \in Seq(A!Files)
    BY TypeParts, MatchesType, RowsType DEF Typed, A!RequestAssumption
  <2>3. A!Checked => A!IsPrefix(out \o buf, A!Rows(A!Matches))
    BY TypeParts, AlwaysPrefix DEF Said
  <2>4. A!Checked => A!IsPrefix(out \o <<>>, A!Rows(A!Matches))
    BY <2>2, <2>3, PrefixCut
  <2> QED BY <2>1, <2>4 DEF Said
<1>27. CASE A!Finish
  <2>1. Said' = Said
    BY <1>27 DEF A!Finish, A!Flush, A!output, Said
  <2>2. A!Matches' = A!Matches /\ (A!Checked' <=> A!Checked)
    BY <1>27 DEF A!Finish, A!Flush, A!output, A!Matches, A!Checked
  <2> QED BY <2>1, <2>2, TypeParts, AlwaysPrefix
<1>28. CASE A!Die
  <2>1. Said' = Said
    BY <1>28 DEF A!Die, A!Flush, A!output, Said
  <2>2. A!Matches' = A!Matches /\ (A!Checked' <=> A!Checked)
    BY <1>28 DEF A!Die, A!Flush, A!output, A!Matches, A!Checked
  <2> QED BY <2>1, <2>2, TypeParts, AlwaysPrefix
<1>29. CASE A!BlockFails
  <2>1. Said' = Said
    BY <1>29 DEF A!BlockFails, A!marks, A!output, Said
  <2>2. A!Matches' = A!Matches /\ (A!Checked' <=> A!Checked)
    BY <1>29 DEF A!BlockFails, A!marks, A!output, A!Matches, A!Checked
  <2> QED BY <2>1, <2>2, TypeParts, AlwaysPrefix
<1>30. CASE A!SigbusReruns
  <2>1. pc' = "start"
    BY <1>30 DEF A!SigbusReruns, A!MayRerun, A!Armed, A!Reexec, A!output
  <2> QED BY <2>1
<1>31. CASE A!SigbusEnds
  <2>1. Said' = Said
    BY <1>31 DEF A!SigbusEnds, A!MayRerun, A!marks, A!output, Said
  <2>2. A!Matches' = A!Matches /\ (A!Checked' <=> A!Checked)
    BY <1>31 DEF A!SigbusEnds, A!MayRerun, A!marks, A!output, A!Matches, A!Checked
  <2> QED BY <2>1, <2>2, TypeParts, AlwaysPrefix
<1> QED BY <1>1, <1>2, <1>3, <1>4, <1>5, <1>6, <1>7, <1>8, <1>9, <1>10, <1>11, <1>12, <1>13,
      <1>14, <1>15, <1>16, <1>17, <1>18, <1>19, <1>20, <1>21, <1>22, <1>23, <1>24, <1>25, <1>26,
      <1>27, <1>28, <1>29, <1>30, <1>31 DEF A!Next, A!ProgramSteps, A!IndexSteps

LEMMA OnlyFinish ==
    ASSUME A!TypeOK, Control, A!Next, exit' \in {"found", "nothing"}
    PROVE  A!Finish
<1>1. CASE A!Start
  BY <1>1, TypeParts DEF Control, Typed, A!Start, A!output
<1>2. CASE A!SkipIndex
  BY <1>2, TypeParts DEF Control, Typed, A!SkipIndex, A!WithoutIndex, A!End, A!output, A!marks
<1>3. CASE A!OpenIndex
  BY <1>3, TypeParts DEF Control, Typed, A!OpenIndex, A!FateOnceOpened, A!SpawnRefresh, A!output
<1>4. CASE A!OpenDeclined
  BY <1>4, TypeParts DEF Control, Typed, A!OpenDeclined, A!WithoutIndex, A!End, A!SpawnBuild, A!output
<1>5. CASE A!OpenCorrupt
  BY <1>5, TypeParts DEF Control, Typed, A!OpenCorrupt, A!NoteCorruption, A!WithoutIndex, A!End, A!output
<1>6. CASE A!WaitForBuild
  BY <1>6, TypeParts DEF Control, Typed, A!WaitForBuild, A!output
<1>7. CASE A!IndexDeclines
  BY <1>7, TypeParts DEF Control, Typed, A!IndexDeclines, A!Close, A!marks, A!output
<1>8. CASE A!SearchRead
  BY <1>8, TypeParts DEF Control, Typed, A!SearchRead, A!Close, A!NoteCorruption, A!marks, A!output
<1>9. CASE A!VerbRead
  BY <1>9, TypeParts DEF Control, Typed, A!VerbRead, A!AnswerAgain, A!Close, A!NoteCorruption, A!marks, A!output
<1>10. CASE A!GraphRead
  BY <1>10, TypeParts DEF Control, Typed, A!GraphRead, A!End, A!Close, A!NoteCorruption, A!marks, A!output
<1>11. CASE A!DiffRead
  BY <1>11, TypeParts DEF Control, Typed, A!DiffRead, A!Close, A!NoteCorruption, A!marks, A!output
<1>12. CASE A!IndexError
  BY <1>12, TypeParts DEF Control, Typed, A!IndexError, A!End, A!Close, A!marks, A!output
<1>13. CASE A!IndexPanics
  BY <1>13, TypeParts DEF Control, Typed, A!IndexPanics, A!MarkCorrupt, A!End, A!Close, A!marks, A!output
<1>14. CASE A!HandOver
  BY <1>14, TypeParts DEF Control, Typed, A!HandOver, A!Streaming, A!ChecksPassed, A!Remaining, A!marks
<1>15. CASE A!StreamStops
  BY <1>15, TypeParts DEF Control, Typed, A!StreamStops, A!Streaming, A!Close, A!NoteCorruption, A!MarkCorrupt, A!End, A!output
<1>16. CASE A!StreamEnds
  BY <1>16, TypeParts DEF Control, Typed, A!StreamEnds, A!Streaming, A!Close, A!marks, A!output
<1>17. CASE A!ScanEnds
  BY <1>17, TypeParts DEF Control, Typed, A!ScanEnds, A!AnswerAgain, A!NoteCorruption, A!marks, A!output
<1>18. CASE A!ScanError
  BY <1>18, TypeParts DEF Control, Typed, A!ScanError, A!End, A!marks, A!output
<1>19. CASE A!Climb
  BY <1>19, TypeParts DEF Control, Typed, A!Climb, A!marks, A!output
<1>20. CASE A!OpenForNames
  BY <1>20, TypeParts DEF Control, Typed, A!OpenForNames, A!FateOnceOpened, A!DeclineForNames, A!SpawnBuild, A!NoteCorruption, A!output
<1>21. CASE A!LookUpNames
  BY <1>21, TypeParts DEF Control, Typed, A!LookUpNames, A!Close, A!marks, A!output
<1>22. CASE A!NamesPanic
  BY <1>22, TypeParts DEF Control, Typed, A!NamesPanic, A!Close, A!End, A!marks, A!output
<1>23. CASE A!Render
  BY <1>23, TypeParts DEF Control, Typed, A!Render, A!marks
<1>24. CASE A!Commit
  BY <1>24, TypeParts DEF Control, Typed, A!Commit, A!MayWrite, A!marks
<1>25. CASE A!Write
  BY <1>25, TypeParts DEF Control, Typed, A!Write, A!marks
<1>26. CASE A!WriteFails
  BY <1>26, TypeParts DEF Control, Typed, A!WriteFails, A!MarkCorrupt, A!End, A!Close, A!marks
<1>27. CASE A!Finish
  BY <1>27
<1>28. CASE A!Die
  BY <1>28, TypeParts DEF Control, Typed, A!Die, A!Flush, A!output
<1>29. CASE A!BlockFails
  BY <1>29, TypeParts DEF Control, Typed, A!BlockFails, A!marks, A!output
<1>30. CASE A!SigbusReruns
  BY <1>30, TypeParts DEF Control, Typed, A!SigbusReruns, A!MayRerun, A!Armed, A!Reexec, A!output
<1>31. CASE A!SigbusEnds
  BY <1>31, TypeParts DEF Control, Typed, A!SigbusEnds, A!MayRerun, A!marks, A!output
<1> QED BY <1>1, <1>2, <1>3, <1>4, <1>5, <1>6, <1>7, <1>8, <1>9, <1>10, <1>11, <1>12, <1>13,
      <1>14, <1>15, <1>16, <1>17, <1>18, <1>19, <1>20, <1>21, <1>22, <1>23, <1>24, <1>25, <1>26,
      <1>27, <1>28, <1>29, <1>30, <1>31 DEF A!Next, A!ProgramSteps, A!IndexSteps

LEMMA FinishCompletes ==
    ASSUME A!RequestAssumption, A!TypeOK, Control, Told, Sought, A!Finish, A!Checked
    PROVE  A!WroteItAll'
<1> USE TypeParts
<1>1. /\ pc = "flush" /\ buf = <<>> /\ UNCHANGED <<req, rung, got, handed, out>>
      /\ exit' = IF (got # {} \/ handed > 0) /\ rung = "exact" THEN "found" ELSE "nothing"
  BY DEF A!Finish, A!output
<1>2. A!Matches \in SUBSET A!Files /\ A!Matches' = A!Matches /\ got \subseteq A!Files /\ handed \in Nat
  BY <1>1, MatchesType DEF A!Matches, Typed
<1>3. Said = out
  BY <1>1, ConcatEmptySeq DEF Said, Typed
<1>4. /\ out = A!Rows(A!Matches) \/ (rung = "names" /\ out = <<>>)
      /\ rung = "exact" => (got # {} \/ handed > 0 <=> A!Matches # {})
  <2>1. CASE req.kind = "stream"
    <3>1. Upto = A!Matches /\ out = A!Rows(Upto) /\ got = {}
      BY <2>1, <1>1, <1>3 DEF Told, Control
    <3>2. handed > 0 => A!Matches # {}
      BY <1>2 DEF Told
    <3>3. handed = 0 => A!Matches = {}
      BY <3>1, <1>2 DEF Upto, A!Files
    <3> QED BY <3>1, <3>2, <3>3, <1>2
  <2>2. CASE req.kind # "stream"
    <3>1. out = A!Rows(got) /\ handed = 0 /\ (got = A!Matches \/ (rung = "names" /\ got = {}))
      BY <2>2, <1>1, <1>3 DEF Told, Control, Sought
    <3>2. A!Rows({}) = <<>>
      BY <1>1, RowsEmpty DEF A!RequestAssumption
    <3>3. ~ (handed > 0)
      BY <3>1
    <3>4. CASE got = A!Matches
      BY <3>1, <3>3, <3>4
    <3>5. CASE rung = "names" /\ got = {}
      <4>1. out = <<>> /\ rung # "exact"
        BY <3>1, <3>2, <3>5
      <4> QED BY <4>1, <3>5
    <3> QED BY <3>1, <3>4, <3>5
  <2> QED BY <2>1, <2>2
<1>5. rung # "exact" => req.match["exact"] = {}
  <2>1. SUFFICES ASSUME rung # "exact" PROVE "exact" \in Lower
    BY DEF Sought
  <2>2. rung \in A!Rungs \ {"exact"}
    BY <2>1, RequestType DEF Typed, A!Rungs
  <2> QED BY <2>2, PlaceIs DEF Lower, A!Rungs
<1>6. exit' = "found" <=> req.match["exact"] # {}
  BY <1>1, <1>4, <1>5 DEF A!Matches
<1>7. \A g \in {"exact"} \cup (req.climbs \ {"names"}) : A!Place(g) < A!Place(rung) => req.match[g] = {}
  BY DEF Sought, Lower
<1> QED BY <1>1, <1>2, <1>4, <1>6, <1>7 DEF A!WroteItAll

LEMMA EndedKept ==
    ASSUME A!RequestAssumption, A!TypeOK, Control, Told, Sought, Ended, A!Next
    PROVE  Ended'
<1>1. A!Checked' /\ pc' \in {"drop", "done"} => A!IsPrefix(Said', A!Rows(A!Matches'))
  BY PrefixKept
<1>2. ASSUME A!Checked', exit' \in {"found", "nothing"} PROVE A!WroteItAll'
  <2>1. A!Finish
    BY <1>2, OnlyFinish
  <2>2. A!Checked
    BY <1>2, <2>1 DEF A!Checked, A!Finish
  <2> QED BY <2>1, <2>2, FinishCompletes
<1> QED BY <1>1, <1>2 DEF Ended, A!OkIsComplete

-----------------------------------------------------------------------------
(* Each step keeps the promises *)

LEMMA PromisedKept ==
    ASSUME A!TypeOK, Control, Promised, A!Next
    PROVE  Promised'
<1>1. CASE A!Start
  BY <1>1, TypeParts DEF Promised, Saved, Control, Typed, A!Start, A!output
<1>2. CASE A!SkipIndex
  BY <1>2, TypeParts DEF Promised, Saved, Control, Typed, A!SkipIndex, A!WithoutIndex, A!End, A!output, A!marks
<1>3. CASE A!OpenIndex
  BY <1>3, TypeParts DEF Promised, Saved, Control, Typed, A!OpenIndex, A!FateOnceOpened, A!SpawnRefresh, A!output
<1>4. CASE A!OpenDeclined
  BY <1>4, TypeParts DEF Promised, Saved, Control, Typed, A!OpenDeclined, A!WithoutIndex, A!End, A!SpawnBuild, A!output
<1>5. CASE A!OpenCorrupt
  BY <1>5, TypeParts DEF Promised, Saved, Control, Typed, A!OpenCorrupt, A!NoteCorruption, A!WithoutIndex, A!End, A!output
<1>6. CASE A!WaitForBuild
  BY <1>6, TypeParts DEF Promised, Saved, Control, Typed, A!WaitForBuild, A!output
<1>7. CASE A!IndexDeclines
  BY <1>7, TypeParts DEF Promised, Saved, Control, Typed, A!IndexDeclines, A!Close, A!marks, A!output
<1>8. CASE A!SearchRead
  BY <1>8, TypeParts DEF Promised, Saved, Control, Typed, A!SearchRead, A!Close, A!NoteCorruption, A!marks, A!output
<1>9. CASE A!VerbRead
  BY <1>9, TypeParts DEF Promised, Saved, Control, Typed, A!VerbRead, A!AnswerAgain, A!Close, A!NoteCorruption, A!marks, A!output
<1>10. CASE A!GraphRead
  BY <1>10, TypeParts DEF Promised, Saved, Control, Typed, A!GraphRead, A!End, A!Close, A!NoteCorruption, A!marks, A!output
<1>11. CASE A!DiffRead
  BY <1>11, TypeParts DEF Promised, Saved, Control, Typed, A!DiffRead, A!Close, A!NoteCorruption, A!marks, A!output
<1>12. CASE A!IndexError
  BY <1>12, TypeParts DEF Promised, Saved, Control, Typed, A!IndexError, A!End, A!Close, A!marks, A!output
<1>13. CASE A!IndexPanics
  BY <1>13, TypeParts DEF Promised, Saved, Control, Typed, A!IndexPanics, A!MarkCorrupt, A!End, A!Close, A!marks, A!output
<1>14. CASE A!HandOver
  BY <1>14, TypeParts DEF Promised, Saved, Control, Typed, A!HandOver, A!Streaming, A!ChecksPassed, A!Remaining, A!marks
<1>15. CASE A!StreamStops
  BY <1>15, TypeParts DEF Promised, Saved, Control, Typed, A!StreamStops, A!Streaming, A!Close, A!NoteCorruption, A!MarkCorrupt, A!End, A!output
<1>16. CASE A!StreamEnds
  BY <1>16, TypeParts DEF Promised, Saved, Control, Typed, A!StreamEnds, A!Streaming, A!Close, A!marks, A!output
<1>17. CASE A!ScanEnds
  BY <1>17, TypeParts DEF Promised, Saved, Control, Typed, A!ScanEnds, A!AnswerAgain, A!NoteCorruption, A!marks, A!output
<1>18. CASE A!ScanError
  BY <1>18, TypeParts DEF Promised, Saved, Control, Typed, A!ScanError, A!End, A!marks, A!output
<1>19. CASE A!Climb
  BY <1>19, TypeParts DEF Promised, Saved, Control, Typed, A!Climb, A!marks, A!output
<1>20. CASE A!OpenForNames
  BY <1>20, TypeParts DEF Promised, Saved, Control, Typed, A!OpenForNames, A!FateOnceOpened, A!DeclineForNames, A!SpawnBuild, A!NoteCorruption, A!output
<1>21. CASE A!LookUpNames
  BY <1>21, TypeParts DEF Promised, Saved, Control, Typed, A!LookUpNames, A!Close, A!marks, A!output
<1>22. CASE A!NamesPanic
  BY <1>22, TypeParts DEF Promised, Saved, Control, Typed, A!NamesPanic, A!Close, A!End, A!marks, A!output
<1>23. CASE A!Render
  BY <1>23, TypeParts DEF Promised, Saved, Control, Typed, A!Render, A!marks
<1>24. CASE A!Commit
  BY <1>24, TypeParts DEF Promised, Saved, Control, Typed, A!Commit, A!MayWrite, A!marks
<1>25. CASE A!Write
  BY <1>25, TypeParts DEF Promised, Saved, Control, Typed, A!Write, A!marks
<1>26. CASE A!WriteFails
  <2>1. /\ UNCHANGED <<req, image, spawned>> /\ writing /\ pc' \in {"drop"}
        /\ \/ UNCHANGED <<exit, noted, fate, pending>> /\ pc = "drop"
           \/ UNCHANGED <<noted, fate, pending>> /\ exit' \in {"error", "sigpipe"}
           \/ UNCHANGED noted /\ fate' = "unusable" /\ pending' = "build" /\ exit' = "incomplete"
           \/ UNCHANGED noted /\ fate' = "superseded" /\ exit' = "incomplete"
           \/ ~req.persist
    BY <1>26 DEF A!WriteFails, A!MarkCorrupt, A!End, A!Close, A!marks
  <2>2. pc \notin {"start", "done"}
    BY <2>1 DEF Control
  <2> QED BY <2>1, <2>2 DEF Promised, Saved
<1>27. CASE A!Finish
  BY <1>27, TypeParts DEF Promised, Saved, Control, Typed, A!Finish, A!Flush, A!output
<1>28. CASE A!Die
  BY <1>28, TypeParts DEF Promised, Saved, Control, Typed, A!Die, A!Flush, A!output
<1>29. CASE A!BlockFails
  BY <1>29, TypeParts DEF Promised, Saved, Control, Typed, A!BlockFails, A!marks, A!output
<1>30. CASE A!SigbusReruns
  BY <1>30, TypeParts DEF Promised, Saved, Control, Typed, A!SigbusReruns, A!MayRerun, A!Armed, A!Reexec, A!output
<1>31. CASE A!SigbusEnds
  BY <1>31, TypeParts DEF Promised, Saved, Control, Typed, A!SigbusEnds, A!MayRerun, A!marks, A!output
<1> QED BY <1>1, <1>2, <1>3, <1>4, <1>5, <1>6, <1>7, <1>8, <1>9, <1>10, <1>11, <1>12, <1>13,
      <1>14, <1>15, <1>16, <1>17, <1>18, <1>19, <1>20, <1>21, <1>22, <1>23, <1>24, <1>25, <1>26,
      <1>27, <1>28, <1>29, <1>30, <1>31 DEF A!Next, A!ProgramSteps, A!IndexSteps

LEMMA AnswerInit ==
    ASSUME A!RequestAssumption, A!Init
    PROVE  AnswerInv
<1>1. /\ image = "first" /\ pc = "start" /\ rung = "exact" /\ try = req.index /\ req \in A!Requests
      /\ mapped = FALSE /\ lost = {} /\ failed = FALSE /\ panicked = FALSE
      /\ noted = FALSE /\ fate = "used" /\ pending = "none" /\ spawned = FALSE
      /\ got = {} /\ handed = 0
      /\ buf = <<>> /\ writing = FALSE /\ committed = FALSE /\ out = <<>> /\ exit = "running"
  BY DEF A!Init
<1>2. req.index \in BOOLEAN
  BY <1>1 DEF A!Requests
<1>3. <<>> \in Seq(A!Files) /\ <<>> \o <<>> = <<>>
  BY EmptySeq, ConcatEmptySeq
<1>4. N \in Nat
  BY DEF A!RequestAssumption
<1>5. A!TypeOK
  <2>1. Typed
    BY <1>1, <1>3, <1>4 DEF Typed
  <2>2. Flags
    BY <1>1, <1>2 DEF Flags
  <2> QED BY <2>1, <2>2, TypeParts
<1>6. Control
  BY <1>1 DEF Control
<1>7. Told
  BY <1>1, <1>3 DEF Told, Said
<1>8. Lower = {}
  <2>1. ASSUME NEW g \in {"exact"} \cup (req.climbs \ {"names"}), A!Place(g) < A!Place(rung) PROVE FALSE
    <3>1. g \in A!Rungs
      BY <1>1, RequestType DEF A!Rungs
    <3> QED BY <3>1, <2>1, <1>1, PlaceIs DEF A!Rungs
  <2> QED BY <2>1 DEF Lower
<1>9. Sought
  BY <1>1, <1>8 DEF Sought
<1>10. Ended /\ Promised
  BY <1>1 DEF Ended, A!OkIsComplete, Promised
<1> QED BY <1>5, <1>6, <1>7, <1>9, <1>10 DEF AnswerInv

LEMMA AnswerStep ==
    ASSUME AnswerInv, [A!Next]_(A!vars)
    PROVE  AnswerInv'
<1>1. CASE A!Next
  <2>1. A!TypeOK'
    <3>1. Typed' /\ Flags'
      BY <1>1, TypedKept, FlagsKept DEF AnswerInv
    <3> QED BY <3>1 DEF A!TypeOK, Typed, Flags
  <2>2. Control' /\ Told' /\ Sought' /\ Ended' /\ Promised'
    BY <1>1, ControlKept, ToldKept, SoughtKept, EndedKept, PromisedKept DEF AnswerInv
  <2> QED BY <2>1, <2>2 DEF AnswerInv, A!RequestAssumption
<1>2. CASE UNCHANGED A!vars
  <2>1. /\ UNCHANGED <<req, image, pc, rung, try, mapped, lost, failed, noted, fate>>
        /\ UNCHANGED <<pending, spawned, panicked, got, handed, buf, writing, committed, out, exit>>
    BY <1>2 DEF A!vars
  <2>2. UNCHANGED <<A!Matches, A!Checked>> /\ UNCHANGED <<Said, Upto, Lower, Silent, Saved>>
    BY <2>1 DEF A!Matches, A!Checked, Said, Upto, Lower, Silent, Saved
  <2>3. A!TypeOK'
    BY <2>1 DEF AnswerInv, A!TypeOK
  <2>4. Control'
    BY <2>1 DEF AnswerInv, Control
  <2>5. Told'
    BY <2>1, <2>2 DEF AnswerInv, Told
  <2>6. Sought'
    BY <2>1, <2>2 DEF AnswerInv, Sought
  <2>7. Ended'
    BY <2>1, <2>2 DEF AnswerInv, Ended, A!OkIsComplete, A!WroteItAll
  <2>8. Promised'
    BY <2>1, <2>2 DEF AnswerInv, Promised
  <2> QED BY <2>3, <2>4, <2>5, <2>6, <2>7, <2>8 DEF AnswerInv, A!RequestAssumption
<1> QED BY <1>1, <1>2

\* The safety properties of a run follow from the invariant.
LEMMA InvSafe ==
    ASSUME AnswerInv
    PROVE  A!TypeOK /\ A!OutIsPrefix /\ A!OkIsComplete /\ A!PromiseKept
<1>1. A!TypeOK /\ A!OkIsComplete
  BY DEF AnswerInv, Ended
<1>2. A!OutIsPrefix
  BY TypeParts, AlwaysPrefix DEF AnswerInv, A!OutIsPrefix, Said
<1>3. A!PromiseKept
  BY DEF AnswerInv, Promised, Saved, A!PromiseKept
<1> QED BY <1>1, <1>2, <1>3

-----------------------------------------------------------------------------
(* Theorems *)

LEMMA Invariance == A!RequestAssumption => (A!Spec => []AnswerInv)
<1>1. A!RequestAssumption /\ A!Init => AnswerInv
  BY AnswerInit
<1>2. AnswerInv /\ [A!Next]_(A!vars) => AnswerInv'
  BY AnswerStep
<1> QED BY <1>1, <1>2, PTL DEF A!Spec

\* Every variable keeps its type, whatever fails under the run.
THEOREM AnswerTypeCorrect == A!RequestAssumption => (A!Spec => []A!TypeOK)
BY Invariance, InvSafe, PTL

\* Whatever fails while a run answers (a block, the code, the writer, a
\* truncated index file), what reached stdout is the beginning of the true
\* answer: commit.rs `Tee::write`, lib.rs `Stream::go`, main.rs `on_sigbus`.
THEOREM OutputIsPrefix == A!RequestAssumption => (A!Spec => []A!OutIsPrefix)
BY Invariance, InvSafe, PTL

\* A run that ends with 0 or 1 wrote the whole answer of the first rung that
\* matches, and 0 says that the query as given matched: outcome.rs, lib.rs
\* `scan_once`, `scan`.
THEOREM OkMeansComplete == A!RequestAssumption => (A!Spec => []A!OkIsComplete)
BY Invariance, InvSafe, PTL

\* A run that said it rebuilds the index leaves no query the snapshot that
\* failed, and the rebuild was started or needless: lib.rs `mark_corrupt`,
\* main.rs `flush_pending_build`.
THEOREM AnswerPromises == A!RequestAssumption => (A!Spec => []A!PromiseKept)
BY Invariance, InvSafe, PTL

-----------------------------------------------------------------------------
(* A behaviour of MCInvocations is one of Answer *)

LEMMA AnswersAreRuns == PartsSpec => A!Spec
<1>1. PartsInit => A!Init
  BY DEF PartsInit
<1>2. [PartsNext]_parts => [A!Next]_(A!vars)
  <2>1. CASE UNCHANGED answering
    BY <2>1 DEF answering, A!vars
  <2>2. CASE UNCHANGED parts
    BY <2>1, <2>2 DEF parts
  <2>3. CASE PartsNext
    BY <2>1, <2>3 DEF PartsNext, Program, A!Next
  <2> QED BY <2>2, <2>3
<1> QED BY <1>1, <1>2, PTL DEF PartsSpec, A!Spec

-----------------------------------------------------------------------------
(* Theorems about answers *)

\* Whatever fails under a run, what is on stdout is the beginning of the true
\* answer, and a run that ends with 0 or 1 wrote all of it: commit.rs
\* `Tee::write`, lib.rs `scan_once`, main.rs `on_sigbus`, outcome.rs.
THEOREM AnswersAreTrue == PartsSpec => []OutputIsAnswer
<1>1. A!OutIsPrefix /\ A!OkIsComplete => OutputIsAnswer
  BY DEF OutputIsAnswer
<1> QED BY <1>1, ReqAssumption, AnswersAreRuns, OutputIsPrefix, OkMeansComplete, PTL

\* A run that said it rebuilds the index leaves no query a snapshot that
\* failed, and a rebuild started behind it: lib.rs `mark_corrupt`, main.rs
\* `flush_pending_build`.
THEOREM PromisesAreKept == PartsSpec => []PromiseKept
<1>1. A!PromiseKept => PromiseKept
  BY DEF PromiseKept
<1> QED BY <1>1, ReqAssumption, AnswersAreRuns, AnswerPromises, PTL
=============================================================================
