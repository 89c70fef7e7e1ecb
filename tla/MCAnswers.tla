------------------------------ MODULE MCAnswers ------------------------------
(* What becomes of an answer: the lines a search keeps and what a report    *)
(* shows of them (Lines, Shape), the changes of a diff (Change), the        *)
(* definitions and implementors of a verb (Listing), the grades of impact   *)
(* (Impact), and the cut of a written answer (Fit).  The five share no      *)
(* state, so one moves in each behaviour.                                   *)
EXTENDS Shape

CONSTANTS
    Olds, News, Absent, MaxChanges,
    Sources, Edited, PathPrior, KindWeight, Requests, Selected, Skipped, Modules, Racy, ModuleWeight,
    Folded, Near, Described, MaxImpls, MaxWrites,
    Paths, Trees, Contents, Aside, MaxTreeEdits, MaxBuilds,
    Sizes, Estimates, Top, Budgets, Ceilings

VARIABLES
    part,
    old, new, compareStage, hunks, compared, changed, changes,
    files, recorded, ask, listStage, todo, entries, next, cache, gone, total, have, extras, scanned, writes,
    tree, index, impactStage, snap, uses, graph, likely, possible, review, treeEdits, builds,
    given, fitted

C == INSTANCE Change WITH stage <- compareStage
L == INSTANCE Listing WITH
        Texts <- Sources, Rewritten <- Edited, Asked <- Requests, MaxEdits <- MaxWrites,
        disk <- files, index <- recorded, stage <- listStage, found <- entries, edits <- writes
I == INSTANCE Impact WITH MaxEdits <- MaxTreeEdits, stage <- impactStage, edits <- treeEdits
F == INSTANCE Fit

ASSUME ChangeAssumption == C!Assumption
ASSUME ListingAssumption == L!Assumption
ASSUME ImpactAssumption == I!Assumption
ASSUME FitAssumption == F!Assumption

changing == <<old, new, compareStage, hunks, compared, changed, changes>>
listing == <<files, recorded, ask, listStage, todo, entries, next, cache, gone, total, have, extras, scanned, writes>>
grading == <<tree, index, impactStage, snap, uses, graph, likely, possible, review, treeEdits, builds>>
fitting == <<given, fitted>>
parts == <<part, shaping, changing, listing, grading, fitting>>

-----------------------------------------------------------------------------
(* Shape: texts of four lines and fewer, the third file's with two hits on  *)
(* one line.                                                                *)
Occ(kind, word) == [kind |-> kind, word |-> word]
Def == <<Occ("def", 0)>>
Use == <<Occ("call", 0)>>
NearUse == <<Occ("call", 1)>>
NearDef == <<Occ("def", 2)>>
Mixed == <<Occ("str", 1), Occ("str", 0), Occ("call", 0), Occ("call", 0)>>
Twice == <<Occ("str", 2), Occ("call", 0)>>
Plain == <<>>
Texts1 == UNION {[1 .. n -> {Def, Use, NearUse}] : n \in 1 .. 2} \cup [1 .. 4 -> {Def, NearUse}]
             \cup {<<NearUse, Plain, Mixed>> \o t \o <<Use>> : t \in [1 .. 2 -> {Def, Use, NearDef}]}
Texts2 == {<<>>, <<Use>>, <<NearDef, Use, Def, Use>>}
MCTexts == <<Texts1, Texts2, {<<Twice, Use>>}>>
MCRewritten == {<<>>, <<NearUse, NearUse, Use, Def>>}

Opt(mode, budget, identifier, kinds, cap) ==
    [mode |-> mode, budget |-> budget, identifier |-> identifier, kinds |-> kinds, cap |-> cap,
     keep |-> 1, prior |-> <<2, 2, 1>>]
MCAsked == {Opt("content", b, i, {}, 1) : b \in {0, 9, 14, 24, 60}, i \in BOOLEAN}
      \cup {Opt(m, 20, TRUE, k, 1) : m \in {"files", "count", "content"}, k \in {{}, {"call"}}}
      \cup {[Opt("content", 24, FALSE, {}, 1) EXCEPT !.keep = 0]}

(* Change: functions at top level, and in one of two classes. *)
D(in, kind, name, sig, body) == [in |-> in, kind |-> kind, name |-> name, sig |-> sig, body |-> body]
Fn(name, sig, body) == D("", "fn", name, sig, body)
Class(name) == D("", "class", name, "s", "b")
Method(in, name, sig, body) == D(in, "fn", name, sig, body)
Fns == {Fn("f", "s", "b"), Fn("f", "t", "b"), Fn("g", "s", "b"), Fn("f", "s", "c")}
TopLevel == {<<>>, <<Fn("h", "s", "b")>>} \cup {<<x>> : x \in Fns} \cup {t \in [1 .. 2 -> Fns] : t[1].name # t[2].name}
Classes == {<<Class(c), Method(c, x, s, "b")>> : c \in {"C", "D"}, x \in {"f", "g"}, s \in {"s", "t"}}
       \cup {<<Class("C"), Method("C", "f", "s", "b"), Method("C", "g", "s", b)>> : b \in {"b", "c"}}
Impls == {<<D("", "impl", "C", "s", "b"), Method("C", "f", "s", x)>> : x \in {"b", "c"}}
MCVersions == TopLevel \cup Classes \cup Impls \cup {Absent}

(* Listing: definitions of "q", its variants in case, what extends it. *)
Decl(kind, name, supers, mentions) == [kind |-> kind, name |-> name, supers |-> supers, mentions |-> mentions]
AFn(n) == Decl("fn", n, {}, FALSE)
AClass(n) == Decl("class", n, {}, FALSE)
Sub(n) == Decl("class", n, {"q"}, TRUE)
Imp(n) == Decl("impl", n, {"q"}, TRUE)
Own == Decl("impl", "q", {}, FALSE)
Alias(n) == Decl("alias", n, {}, TRUE)
Prose == Decl("plain", "", {}, FALSE)
Stamped(text) == [text |-> text, stamp |-> 1]
Gone == [text |-> <<>>, stamp |-> 0]
MCSources ==
    <<{Stamped(<<AFn("q"), Prose, AClass("q")>>), Stamped(<<AFn("Q"), Sub("a"), Imp("q")>>),
       Stamped(<<Sub("a"), Alias("b"), AFn("qs")>>)},
      {Stamped(<<Prose, AFn("q"), Own, Own>>), Stamped(<<Imp("a"), Imp("c"), AFn("x")>>)},
      {Stamped(<<AFn("q"), Sub("z")>>), Stamped(<<Alias("b"), Prose>>)}>>
MCEdited ==
    <<{Stamped(<<Prose, AFn("q"), AClass("q")>>), Stamped(<<AClass("q"), Sub("a")>>),
       Stamped(<<Alias("n"), AFn("a"), Sub("a"), AFn("qs")>>)},
      {Stamped(<<Own, Prose, AFn("q")>>), Stamped(<<AClass("n"), Sub("n"), Imp("a")>>), Gone},
      {Stamped(<<Prose, Prose, AFn("q")>>)}>>
Req(verb, fold, discover, kind, show, idx) ==
    [verb |-> verb, fold |-> fold, discover |-> discover, kind |-> kind, show |-> show, index |-> idx]
MCRequests ==
         {Req("def", f, d, "any", s, TRUE) : f \in BOOLEAN, d \in BOOLEAN, s \in {0, 2}}
    \cup {Req("def", FALSE, TRUE, k, s, TRUE) : k \in {"fn", "class"}, s \in {0, 2}}
    \cup {Req("def", FALSE, FALSE, "any", s, FALSE) : s \in {0, 2}}
    \cup {Req("impls", FALSE, FALSE, "any", s, i) : s \in {0, 2}, i \in BOOLEAN}
MCPathPrior == <<2, 1, 2>>
MCKindWeight == [fn |-> 8, class |-> 10, impl |-> 4, alias |-> 6, plain |-> 0, module |-> 3]

(* Impact: a definition, a module that hands it on, and two users. *)
Holds(u, i, d) == [uses |-> u, imports |-> i, defines |-> d]
Defining == Holds({}, {}, TRUE)
HandingOn == Holds({}, {2}, FALSE)
MCTrees == {(2 :> Defining) @@ (3 :> HandingOn) @@ (4 :> Holds({"call"}, im, FALSE)) @@ (5 :> Holds(u, {2}, FALSE)) :
                im \in {{}, {3}, {1}}, u \in {{"member"}, {"call"}}}
MCContents == {Defining, HandingOn, Holds({"type", "member"}, {3}, FALSE)}

(* Fit: sizes that grow with the allowance and sizes that do not. *)
MCSizes == [0 .. 4 -> {1, 3, 5}]
MCEstimates == {[r \in 0 .. 4 |-> r], [r \in 0 .. 4 |-> 1 + r \div 2], [r \in 0 .. 4 |-> IF r = 3 THEN 1 ELSE 2]}

-----------------------------------------------------------------------------
One(S) == CHOOSE x \in S : TRUE

\* A part that does not move starts in one state.
PartsInit ==
    /\ part \in {"shape", "change", "listing", "impact", "fit"}
    /\ IF part = "shape" THEN TRUE ELSE disk = [f \in Files |-> One(Texts[f])] /\ opts = One(Asked)
    /\ ShapeInit
    /\ IF part = "change" THEN TRUE ELSE old = One(Olds) /\ new = One(News \ {old})
    /\ C!Init
    /\ IF part = "listing" THEN TRUE ELSE files = [f \in Files |-> One(Sources[f])] /\ ask = One(Requests)
    /\ L!Init
    /\ IF part = "impact" THEN TRUE ELSE tree = One(Trees)
    /\ I!Init
    /\ IF part = "fit" THEN TRUE
       ELSE given = [size |-> One(Sizes), tokens |-> One(Estimates), budget |-> One(Budgets),
                     ceiling |-> One(Ceilings), whole |-> TRUE]
    /\ F!Init

PartsNext ==
    \/ part = "shape" /\ ShapeNext /\ UNCHANGED <<part, changing, listing, grading, fitting>>
    \/ part = "change" /\ C!Next /\ UNCHANGED <<part, shaping, listing, grading, fitting>>
    \/ part = "listing" /\ L!Next /\ UNCHANGED <<part, shaping, changing, grading, fitting>>
    \/ part = "impact" /\ I!Next /\ UNCHANGED <<part, shaping, changing, listing, fitting>>
    \/ part = "fit" /\ F!Next /\ UNCHANGED <<part, shaping, changing, listing, grading>>

PartsSpec == PartsInit /\ [][PartsNext]_parts

-----------------------------------------------------------------------------
(* A reader can tell what an answer left out: counts by file add up, also   *)
(* after --max-bytes cut it, a bigger budget is advised when it would show  *)
(* more, and the names of near-misses are named (shape.rs `Report`).        *)
ToldWhatIsMissing == part = "shape" => Accounted /\ HintTrue /\ NearNamed

(* A change is reported once, a changed declaration with both its sides,    *)
(* and every changed line by the definition it lies in (change.rs           *)
(* `changed_defs`).                                                         *)
ChangesReported == part = "change" => C!ReportedOnce /\ C!BreakingFound /\ C!LinesAnswered

(* What `def` and `impls` list is at its line when its file is read, and    *)
(* nothing the checked index had and the file still has is left out         *)
(* unsaid (verbs.rs `relocate`, `def`).                                     *)
Located == part = "listing" => L!Located /\ L!NoneLost

(* An implementor is direct or an extra, once (verbs.rs `impls`). *)
ListedOnce == part = "listing" => L!ListedOnce

(* Every use has one grade, and "likely" is what a definition's importers   *)
(* hold (verbs.rs `impact`).                                                *)
Graded == part = "impact" => I!Graded

(* A cut answer is within its limits and as long as they allow, and a       *)
(* refusal says that not even the shortest fits (verbs_out.rs `fit`,        *)
(* main.rs `largest_below`).                                                *)
FitsLimits == part = "fit" => F!WithinCeiling /\ F!FullyUsed
=============================================================================
