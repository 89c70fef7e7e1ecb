-------------------------------- MODULE Plan --------------------------------
(***************************************************************************)
(* From a regex to what a file must hold for it to match (greeg: plan.rs,  *)
(* gram.rs, words.rs): the trigram query, the whole-word alternatives, and *)
(* the keys extracted from a file.                                         *)
(*                                                                         *)
(* A byte is a number; 0 is the line terminator, 1 a byte no word holds, 2 *)
(* the upper case of 3, and the rest letters.  A regex is the tree that    *)
(* regex-syntax returns (captures are their contents).                     *)
(***************************************************************************)
EXTENDS Naturals, Sequences, SequencesExt, FiniteSets, FiniteSetsExt

CONSTANTS
    MaxSet,      \* MAX_SET
    MaxStr,      \* MAX_STR
    MinWord, MaxWord,   \* MIN_WORD, MAX_WORD
    MaxSeqs,     \* MAX_SEQS
    MaxNest      \* bound: how deep expressions and queries nest

NewLine == 0
Fold(b) == IF b = 2 THEN 3 ELSE b
FoldAll(s) == [i \in DOMAIN s |-> Fold(s[i])]
IsWordByte(b) == b >= 2

First(s, n) == SubSeq(s, 1, IF Len(s) < n THEN Len(s) ELSE n)
Final(s, n) == SubSeq(s, IF Len(s) < n THEN 1 ELSE Len(s) - n + 1, Len(s))

\* An expression or a query, and all that are nested in it: what the passes
\* below recur over.
Within(x) ==
    LET Parts(y) == CASE y.is = "rep" -> {y.sub} [] y.is \in {"cat", "alt"} -> ToSet(y.of)
                      [] y.is \in {"and", "or"} -> y.of [] OTHER -> {}
        Level[n \in 0 .. MaxNest] ==
            IF n = 0 THEN {x} ELSE LET inner == Level[n - 1] IN inner \cup UNION {Parts(y) : y \in inner}
    IN  Level[MaxNest]

-----------------------------------------------------------------------------
(* What is extracted from a file *)

\* Dedup::extract: every three bytes of a line, folded.
Grams(s) ==
    {SubSeq(FoldAll(s), i, i + 2) : i \in {j \in 1 .. Len(s) - 2 :
        \A k \in j .. j + 2 : s[k] # NewLine}}

\* for_each_word: maximal runs of word bytes, their case kept.
Words(s) ==
    LET Run(i, j) == /\ \A k \in i .. j : IsWordByte(s[k])
                     /\ i = 1 \/ ~IsWordByte(s[i - 1])
                     /\ j = Len(s) \/ ~IsWordByte(s[j + 1])
    IN  {SubSeq(s, ij[1], ij[2]) : ij \in {p \in (1 .. Len(s)) \X (1 .. Len(s)) :
            p[1] <= p[2] /\ Run(p[1], p[2]) /\ p[2] - p[1] + 1 \in MinWord .. MaxWord}}

IsQueryWord(w) == Len(w) \in MinWord .. MaxWord /\ \A i \in DOMAIN w : IsWordByte(w[i])

-----------------------------------------------------------------------------
(* Queries: All, None, a gram, a conjunction or an alternative *)

All == [is |-> "all"]
NoFile == [is |-> "none"]
Gram(g) == [is |-> "gram", key |-> g]
And(qs) == [is |-> "and", of |-> qs]
Or(qs) == [is |-> "or", of |-> qs]

\* and, or: what is neutral or absorbing goes, what nests is joined.
Under(q, is) == IF q.is = is THEN q.of ELSE {q}
Both(p, q) == CASE p = All -> q [] q = All -> p
                [] p = NoFile \/ q = NoFile -> NoFile
                [] OTHER -> And(Under(p, "and") \cup Under(q, "and"))
Either(p, q) == CASE p = All \/ q = All -> All
                  [] p = NoFile -> q [] q = NoFile -> p
                  [] OTHER -> Or(Under(p, "or") \cup Under(q, "or"))

\* literal_keys
LiteralKeys(s) == Grams(s)

\* trigrams_of: a string too short to constrain leaves the set without a query.
TrigramsOf(set) ==
    IF set = {} \/ \E s \in set : LiteralKeys(s) = {} THEN All
    ELSE LET Of(s) == IF Cardinality(LiteralKeys(s)) = 1 THEN Gram(CHOOSE g \in LiteralKeys(s) : TRUE)
                      ELSE And({Gram(g) : g \in LiteralKeys(s)})
         IN  IF Cardinality(set) = 1 THEN Of(CHOOSE s \in set : TRUE) ELSE Or({Of(s) : s \in set})

-----------------------------------------------------------------------------
(* analyze: what every match of a node starts and ends with, the strings it *)
(* is if they are few, and the query it implies                             *)

Cross(a, b) == {x \o y : x \in a, y \in b}
Unknown == [known |-> FALSE, set |-> {}]
Exactly(set) == [known |-> TRUE, set |-> set]
Info(exact, prefix, suffix, q) == [exact |-> exact, prefix |-> prefix, suffix |-> suffix, q |-> q]
Nothing == {<<>>}

\* simplify: sets past their limits go into the query, or are cut.
Simplify(i) ==
    LET over == i.exact.known /\ (Cardinality(i.exact.set) > MaxSet
                                  \/ \E s \in i.exact.set : Len(s) > MaxStr)
        prefix == IF over THEN {First(s, 3) : s \in i.exact.set} ELSE i.prefix
        suffix == IF over THEN {Final(s, 3) : s \in i.exact.set} ELSE i.suffix
        Cut(set, Keep(_)) == IF Cardinality(set) <= MaxSet THEN set
                             ELSE IF Cardinality({Keep(s) : s \in set}) > MaxSet THEN Nothing
                             ELSE {Keep(s) : s \in set}
    IN  Info(IF over THEN Unknown ELSE i.exact,
             Cut(prefix, LAMBDA s : First(s, 2)), Cut(suffix, LAMBDA s : Final(s, 2)),
             IF over THEN Both(i.q, TrigramsOf(i.exact.set)) ELSE i.q)

(* Mutant: what a side that is not exact ends with is taken for the whole side. *)
ConcatEnds(a, b) ==
    LET exact == IF a.exact.known /\ b.exact.known THEN Exactly(Cross(a.exact.set, b.exact.set))
                 ELSE Unknown
        mid == IF exact.known THEN All ELSE TrigramsOf(Cross(a.suffix, b.prefix))
    IN  Simplify(Info(exact, IF a.exact.known THEN Cross(a.exact.set, b.prefix) ELSE a.prefix,
                      Cross(a.suffix, IF b.exact.known THEN b.exact.set ELSE b.suffix),
                      Both(Both(a.q, b.q), mid)))

Concat(a, b) ==
    LET exact == IF a.exact.known /\ b.exact.known THEN Exactly(Cross(a.exact.set, b.exact.set))
                 ELSE Unknown
        mid == IF exact.known THEN All ELSE TrigramsOf(Cross(a.suffix, b.prefix))
    IN  Simplify(Info(exact,
                      IF a.exact.known THEN Cross(a.exact.set, b.prefix) ELSE a.prefix,
                      IF b.exact.known THEN Cross(a.suffix, b.exact.set) ELSE b.suffix,
                      Both(Both(a.q, b.q), mid)))

Alternate(a, b) ==
    LET WithExact(i) == IF i.exact.known THEN Both(i.q, TrigramsOf(i.exact.set)) ELSE i.q
    IN  Simplify(Info(IF a.exact.known /\ b.exact.known THEN Exactly(a.exact.set \cup b.exact.set)
                      ELSE Unknown,
                      a.prefix \cup b.prefix, a.suffix \cup b.suffix,
                      IF a.exact.known /\ b.exact.known THEN All ELSE Either(WithExact(a), WithExact(b))))

\* class_members: folded; None if there are too many.
Members(set) == {<<Fold(b)>> : b \in set}
MaxMembers == 8

Analyze(h) ==
    LET Leaf(set) == Info(Exactly(set), set, set, All)
        Unbounded(q) == Info(Unknown, Nothing, Nothing, q)
        Of[x \in Within(h)] == Simplify(
            CASE x.is \in {"empty", "look"} -> Leaf(Nothing)
              [] x.is = "lit" -> Leaf({FoldAll(x.bytes)})
              [] x.is = "class" ->
                   IF Members(x.set) # {} /\ Cardinality(Members(x.set)) <= MaxMembers THEN Leaf(Members(x.set))
                   ELSE Unbounded(All)
              [] x.is = "rep" ->
                   IF x.min = 0 THEN Unbounded(All) ELSE IF x.min = 1 /\ x.max = 1 THEN Of[x.sub]
                   ELSE [Of[x.sub] EXCEPT !.exact = Unknown]
              [] x.is = "cat" -> FoldLeft(Concat, Leaf(Nothing), [i \in DOMAIN x.of |-> Of[x.of[i]]])
              [] x.is = "alt" -> FoldLeft(Alternate, Of[x.of[1]], [i \in DOMAIN Tail(x.of) |-> Of[x.of[i + 1]]]))
    IN  Of[h]

\* flatten
Flatten(q) ==
    LET One(set, is, none) == IF set = {} THEN none ELSE IF Cardinality(set) = 1 THEN CHOOSE x \in set : TRUE
                              ELSE [is |-> is, of |-> set]
        Join(subs, is, neutral) == One(UNION {Under(x, is) : x \in subs \ {neutral}}, is, neutral)
        Of[x \in Within(q)] ==
            IF x.is \notin {"and", "or"} THEN x
            ELSE LET subs == {Of[y] : y \in x.of}
                 IN  IF x.is = "and" THEN IF NoFile \in subs THEN NoFile ELSE Join(subs, "and", All)
                     ELSE IF All \in subs THEN All ELSE Join(subs, "or", NoFile)
    IN  Of[q]

\* plan
PlanOf(h) ==
    LET i == Analyze(h)
    IN  Flatten(IF i.exact.known THEN Both(i.q, TrigramsOf(i.exact.set)) ELSE i.q)

-----------------------------------------------------------------------------
(* word_plan: the words one of which the file must hold, or none *)

Bound == [is |-> "bound"]
Piece(s) == [is |-> "piece", bytes |-> s]
NoSeqs == [ok |-> FALSE, set |-> {}]
Seqs(set) == IF Cardinality(set) > MaxSeqs THEN NoSeqs ELSE [ok |-> TRUE, set |-> set]

SeqsOf(h) ==
    LET Join(a, b) == IF a.ok /\ b.ok THEN Seqs(Cross(a.set, b.set)) ELSE NoSeqs
        Union(a, b) == IF a.ok /\ b.ok THEN Seqs(a.set \cup b.set) ELSE NoSeqs
        Of[x \in Within(h)] ==
            CASE x.is = "empty" -> Seqs({<<>>})
              [] x.is = "look" -> Seqs({<<Bound>>})
              [] x.is = "lit" -> Seqs({<<Piece(x.bytes)>>})
              [] x.is = "cat" -> FoldLeft(Join, Seqs({<<>>}), [i \in DOMAIN x.of |-> Of[x.of[i]]])
              [] x.is = "alt" -> FoldLeft(Union, Seqs({}), [i \in DOMAIN x.of |-> Of[x.of[i]]])
              [] OTHER -> NoSeqs
    IN  Of[h]

WordPlan(h, casei, word) ==
    LET s == SeqsOf(h)
        Whole(t) == \/ word /\ Len(t) = 1 /\ t[1].is = "piece"
                    \/ Len(t) = 3 /\ t[1] = Bound /\ t[3] = Bound /\ t[2].is = "piece"
        Lit(t) == IF Len(t) = 1 THEN t[1].bytes ELSE t[2].bytes
    IN  IF \/ casei \/ ~s.ok \/ s.set = {}
           \/ \E t \in s.set : ~Whole(t) \/ ~IsQueryWord(Lit(t))
        THEN NoSeqs ELSE [ok |-> TRUE, set |-> {Lit(t) : t \in s.set}]

-----------------------------------------------------------------------------
(* What a regex matches, for reference: where a match can end, by where it *)
(* starts.  `word` asks for boundaries on both sides, as -w does.          *)

Boundary(s, i) ==
    (i > 1 /\ IsWordByte(s[i - 1])) # (i <= Len(s) /\ IsWordByte(s[i]))

Ends(h, s) ==
    LET From[x \in Within(h)] ==
          LET After(set, y) == UNION {From[y][j] : j \in set}
              Times(at, n) == FoldLeft(After, {at}, [k \in 1 .. n |-> x.sub])
          IN  [at \in 1 .. Len(s) + 1 |->
                CASE x.is = "empty" -> {at}
                  [] x.is = "look" -> IF Boundary(s, at) THEN {at} ELSE {}
                  [] x.is = "lit" -> IF IsPrefix(x.bytes, SubSeq(s, at, Len(s))) THEN {at + Len(x.bytes)} ELSE {}
                  [] x.is = "class" -> IF at <= Len(s) /\ s[at] \in x.set THEN {at + 1} ELSE {}
                  [] x.is = "rep" -> UNION {Times(at, n) : n \in x.min .. x.max}
                  [] x.is = "cat" -> FoldLeft(After, {at}, x.of)
                  [] x.is = "alt" -> UNION {From[x.of[k]][at] : k \in DOMAIN x.of}]
    IN  From[h]

Matches(h, word, s) ==
    LET ends == Ends(h, s)
    IN  \E i \in 1 .. Len(s) + 1 : \E j \in ends[i] :
            word => /\ i = 1 \/ ~IsWordByte(s[i - 1])
                    /\ j > Len(s) \/ ~IsWordByte(s[j])

=============================================================================
