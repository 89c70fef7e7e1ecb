--------------------------------- MODULE Fit ---------------------------------
(***************************************************************************)
(* Fitting an answer to --budget and --max-bytes (greeg: verbs_out.rs      *)
(* `fit`, main.rs `largest_below`, `keep_within`, `shrink`, `fit_search`). *)
(* An answer is rendered at several allowances of rows, units or shaping   *)
(* tokens, and the searches assume that it grows with its allowance, which *)
(* it does but for a line that a completed group drops.                    *)
(***************************************************************************)
EXTENDS Integers, FiniteSets

CONSTANTS
    Sizes,     \* bytes of a rendering by its allowance: functions on 0 .. Top
    Estimates, \* its tokens, the same
    Top,       \* rows or units there are
    Budgets,   \* --budget (0: unlimited)
    Ceilings   \* --max-bytes (0: unlimited)

Assumption ==
    /\ Top \in Nat \ {0}
    /\ Sizes \subseteq [0 .. Top -> Nat] /\ Estimates \subseteq [0 .. Top -> Nat]
    /\ Budgets \subseteq Nat /\ Ceilings \subseteq Nat

VARIABLES
    given,     \* the answer and its limits
    fitted     \* what is written: [how, rows, cut, failed]

fitting == <<given, fitted>>
None == -1
Waiting == [how |-> "none"]

\* A rendering names the limits that cut it; under both the line is longer.
Notice(rows, bytes, budget) ==
    IF rows = Top /\ given.whole THEN 0 ELSE IF bytes /\ budget THEN 2 ELSE 1
Bytes(rows, bytes, budget) == given.size[rows] + Notice(rows, bytes, budget)
Tokens(rows) == given.tokens[rows]
TokensFit(rows) == given.budget = 0 \/ Tokens(rows) <= given.budget
BytesFit(rows, bytes, budget) == given.ceiling = 0 \/ Bytes(rows, bytes, budget) <= given.ceiling

-----------------------------------------------------------------------------
(* The searches, over the allowances that pass: those from lo on and below   *)
(* hi are open, best is the last that passed.                               *)
Rows == 0 .. Top
Open == [lo : Rows, hi : Rows, best : Rows \cup {None}]
Middle(s) == s.lo + (s.hi - s.lo) \div 2

NarrowFrom(s, pass) ==
    IF Middle(s) \in pass THEN [s EXCEPT !.lo = Middle(s), !.best = Middle(s)] ELSE [s EXCEPT !.hi = Middle(s)]
BisectFrom(lo, hi, best, pass) ==
    LET b[s \in Open] == IF s.hi - s.lo <= 1 THEN s.best ELSE b[NarrowFrom(s, pass)]
    IN b[[lo |-> lo, hi |-> hi, best |-> best]]

\* The last passing middle.
Narrow(s, pass) ==
    IF Middle(s) \in pass THEN [s EXCEPT !.lo = Middle(s) + 1, !.best = Middle(s)] ELSE [s EXCEPT !.hi = Middle(s)]
Bisect(lo, hi, best, pass) ==
    LET b[s \in Open] == IF s.lo >= s.hi THEN s.best ELSE b[Narrow(s, pass)]
    IN b[[lo |-> lo, hi |-> hi, best |-> best]]

Largest(hi, pass) == IF hi \in pass THEN hi ELSE Bisect(0, hi, None, pass)

\* largest_below: doubling from 0 while it passes, then bisecting.
Probes == [at : 0 .. 2 * Top, lo : Rows, hi : Rows, best : Rows \cup {None}]
Twice(n) == IF n = 0 THEN 1 ELSE 2 * n
Probe(s, pass) ==
    IF s.at \in pass THEN [s EXCEPT !.at = Twice(s.at), !.lo = s.at + 1, !.best = s.at]
    ELSE [s EXCEPT !.at = Twice(s.at), !.hi = s.at]
LargestBelow(over, pass) ==
    LET d[s \in Probes] == IF s.at >= s.hi THEN Bisect(s.lo, s.hi, s.best, pass) ELSE d[Probe(s, pass)]
    IN d[[at |-> 0, lo |-> 0, hi |-> over, best |-> None]]

Result(how, rows, cut) == [how |-> how, rows |-> rows, cut |-> cut, failed |-> FALSE]
Failed(how) == [how |-> how, rows |-> 0, cut |-> {}, failed |-> TRUE]

OfBytes(bytes, budget) == {n \in Rows : BytesFit(n, bytes, budget)}
OfTokens == {n \in Rows : TokensFit(n)}

(* fit: the rows of a verb's answer. *)
Fitted ==
    LET byTokens == Largest(Top, OfTokens)
        rows == IF byTokens = None THEN 0 ELSE byTokens
        budgetCut == rows < Top \/ (given.budget > 0 /\ ~given.whole)
        small == OfBytes(TRUE, budgetCut)
        both == LargestBelow(rows, small \cap OfTokens)
        kept == IF both # None THEN both ELSE LargestBelow(rows, small)
        named == IF budgetCut THEN {"budget"} ELSE {}
    IN IF BytesFit(rows, FALSE, FALSE) THEN Result("fit", rows, named)
       ELSE IF kept # None THEN Result("fit", kept, named \cup {"bytes"}) ELSE Failed("fit")

(* keep_within: the first units of an unshaped answer; a cut one has a hint *)
(* more than the whole one.                                                 *)
KeptWithin ==
    LET kept == LargestBelow(Top, OfBytes(TRUE, TRUE))
    IN IF BytesFit(Top, FALSE, FALSE) THEN Result("keep", Top, {})
       ELSE IF kept # None THEN Result("keep", kept, {"bytes"}) ELSE Failed("keep")

(* shrink: a shaping budget, from one that is over.  Six steps scaled by how *)
(* far the size is over, then four that halve what is left.                  *)
Clamp(n, a, b) == IF n < a THEN a ELSE IF n > b THEN b ELSE n
SizeFits(n) == given.size[n] <= given.ceiling
Scaled(over) == Clamp((over * given.ceiling * 97) \div (given.size[over] * 100), 1, over - 1)
Steps == [over : {n \in Rows : ~SizeFits(n)}, left : 0 .. 6]
Scale[s \in Steps] ==
    IF s.left = 0 \/ s.over <= 1 THEN [lo |-> 1, over |-> s.over, left |-> 4]
    ELSE IF SizeFits(Scaled(s.over)) \/ Scaled(s.over) = 1
         THEN [lo |-> Scaled(s.over), over |-> s.over, left |-> 4]
    ELSE Scale[[over |-> Scaled(s.over), left |-> s.left - 1]]

Nearly(n) == given.size[n] >= given.ceiling - given.ceiling \div 10
Halved(s) ==
    LET mid == s.lo + (s.over - s.lo) \div 2
    IN IF SizeFits(mid) THEN [lo |-> mid, over |-> s.over, left |-> s.left - 1]
       ELSE [lo |-> s.lo, over |-> mid, left |-> s.left - 1]
Gaps == [lo : Rows, over : Rows, left : 0 .. 4]
Halve[s \in Gaps] ==
    IF s.left = 0 \/ ~SizeFits(s.lo) \/ Nearly(s.lo) \/ s.over - s.lo <= 1 THEN s.lo ELSE Halve[Halved(s)]

\* fit_search, for a shaped answer in text.
Shrunk ==
    LET at == Halve[Scale[[over |-> Top, left |-> 6]]]
    IN IF given.ceiling = 0 \/ SizeFits(Top) THEN Result("shrink", Top, {})
       ELSE IF SizeFits(at) THEN Result("shrink", at, {"bytes"}) ELSE Failed("shrink")

-----------------------------------------------------------------------------
Init ==
    /\ given \in [size : Sizes, tokens : Estimates, budget : Budgets, ceiling : Ceilings, whole : BOOLEAN]
    /\ fitted = Waiting

FitRows == fitted = Waiting /\ fitted' = Fitted /\ UNCHANGED given
KeepUnits == fitted = Waiting /\ fitted' = KeptWithin /\ UNCHANGED given
ShrinkShape == fitted = Waiting /\ fitted' = Shrunk /\ UNCHANGED given
Next == FitRows \/ KeepUnits \/ ShrinkShape
Spec == Init /\ [][Next]_fitting

-----------------------------------------------------------------------------
Grows(f) == \A r \in 0 .. Top - 1 : f[r] <= f[r + 1]
ByRows == fitted.how \in {"fit", "keep"}
Named(limit) == limit \in fitted.cut

(* Nothing over --max-bytes is written, and an error says that not even the *)
(* floor fits: also where an answer shrinks as its allowance grows          *)
(* (verbs_out.rs `fit`, "an error over --max-bytes"; main.rs `shrink`,      *)
(* `keep_within`).                                                          *)
WithinCeiling ==
    fitted # Waiting /\ given.ceiling > 0 =>
        LET size == given.size[fitted.rows]
            notice == Notice(fitted.rows, Named("bytes"), Named("budget"))
        IN /\ ~fitted.failed => IF ByRows THEN size + notice <= given.ceiling ELSE size <= given.ceiling
           /\ fitted.failed =>
                IF ByRows THEN ~BytesFit(0, TRUE, TRUE) ELSE given.size[1] > given.ceiling

(* Nothing that fits is left out, of an answer that grows with its          *)
(* allowance: one row more is over the budget or over the ceiling, and a    *)
(* limit that is not named as having cut it would not have (verbs_out.rs    *)
(* `Fitted.cut_by`, "the limits that cut it").                              *)
FullyUsed ==
    fitted # Waiting /\ ~fitted.failed /\ ByRows /\ Grows(given.size) /\ Grows(given.tokens) =>
        /\ fitted.rows < Top =>
              \/ fitted.how = "fit" /\ ~TokensFit(fitted.rows + 1)
              \/ ~BytesFit(fitted.rows + 1, TRUE, fitted.how = "keep" \/ Named("budget"))
        /\ fitted.how = "fit" /\ ~Named("budget") => TokensFit(Top) \/ Top = 0
        /\ ~Named("bytes") => given.ceiling = 0 \/ Bytes(fitted.rows, FALSE, FALSE) <= given.ceiling
=============================================================================
