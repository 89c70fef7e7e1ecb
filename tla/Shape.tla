------------------------------- MODULE Shape -------------------------------
(***************************************************************************)
(* What of the matched lines an answer shows (greeg-query: shape.rs        *)
(* `shape_within`, `Report::keep`): everything within a budget of tokens,  *)
(* or facets with the best definitions and uses when it would not fit; and *)
(* how the rest is accounted for, in `+N more`, collapsed groups, related  *)
(* names and hints.                                                        *)
(***************************************************************************)
EXTENDS Lines, TLC

CONSTANTS
    HitCost,     \* tokens of a shown line
    HeaderCost,  \* tokens of a file's header
    MoreCost,    \* MORE_COST
    FooterCost,  \* FOOTER_COST
    FacetsCost,  \* tokens of the facets' own lines
    Broad,       \* an answer of at most this many lines is never faceted (12)
    MaxTop,      \* uses shown beside facets (10)
    MaxRelated,  \* related names (4)
    Demoted      \* files of tests, vendored, generated or mock code

VARIABLES
    report,      \* the Report, or None
    kept         \* what --max-bytes left of it, or None

None == [layout |-> "none"]

(* An entry is a file and the position of a hit in its result. *)
Hit(x) == found[x[1]].hits[x[2]]
Entries == UNION {{f} \X DOMAIN found[f].hits : f \in MatchedFiles}
RankedBefore(x, y) ==
    \/ Hit(x).score > Hit(y).score
    \/ Hit(x).score = Hit(y).score /\ (x[1] < y[1] \/ (x[1] = y[1] /\ x[2] < y[2]))
InOrder(S) == Sorted(S, RankedBefore)

Parity == opts.budget = 0
Sum(f, S) == FoldSet(LAMBDA x, n : f[x] + n, 0, S)

-----------------------------------------------------------------------------
(* Near-misses: a bare identifier with a whole-word match is about the word *)

ExactKept == {x \in Entries : Hit(x).exact}
Dropped == Sum([f \in MatchedFiles |-> found[f].dropped], MatchedFiles)
DroppedExact == Sum([f \in MatchedFiles |-> found[f].exact], MatchedFiles)
ExactLines == Cardinality(ExactKept) + DroppedExact
NearMissesLeft ==
    ~Parity /\ opts.identifier /\ ExactLines > 0 /\ ExactLines < Cardinality(Entries) + Dropped

Candidates == IF NearMissesLeft THEN ExactKept ELSE Entries
EligibleAll(f) == found[f].total
Eligible(f) ==
    IF NearMissesLeft THEN Cardinality({x \in ExactKept : x[1] = f}) + found[f].exact
    ELSE found[f].total

\* related_names, with the files each name is found in.
NearFiles(w) ==
    {f \in MatchedFiles : w \in found[f].near \/ \E h \in ToSet(found[f].hits) : ~h.exact /\ h.word = w}
NearNames == {w \in UNION {found[f].near \cup {h.word : h \in ToSet(found[f].hits)} : f \in MatchedFiles} :
                w # Query /\ NearFiles(w) # {}}
MoreFiles(v, w) ==
    LET n == Cardinality(NearFiles(v)) m == Cardinality(NearFiles(w)) IN n > m \/ (n = m /\ v < w)
Related ==
    IF ~NearMissesLeft THEN {}
    ELSE {w \in NearNames :
            Cardinality({v \in NearNames : MoreFiles(v, w)}) < MaxRelated}

-----------------------------------------------------------------------------
(* The choice of layout *)

KeptOf(f) == Cardinality({x \in Candidates : x[1] = f})
Counted(f) ==
    LET n == KeptOf(f)
        all == n + IF NearMissesLeft THEN found[f].exact ELSE found[f].dropped
    IN Max({n, Least({all, MaxHits})})
WithKept == {f \in MatchedFiles : KeptOf(f) > 0}
HitTotal == Sum([f \in WithKept |-> Counted(f)], WithKept)
FullCost == HitTotal * HitCost + Cardinality(MatchedFiles) * (HeaderCost + MoreCost) + FooterCost
Facets == ~Parity /\ opts.mode = "content" /\ FullCost > opts.budget /\ HitTotal > Broad
RelatedCost == Cardinality(Related)

-----------------------------------------------------------------------------
(* Content: the best lines that fit, at most a few of each of many files *)

FileCap == IF Parity \/ Cardinality(MatchedFiles) <= Few THEN Endless ELSE opts.cap
Empty == [sel |-> <<>>, est |-> FooterCost + RelatedCost, full |-> FALSE]
OfFile(s, f) == Len(SelectSeq(s.sel, LAMBDA x : x[1] = f))

Pick(s, x) ==
    LET n == OfFile(s, x[1])
        cost == HitCost + IF n = 0 THEN HeaderCost + MoreCost ELSE 0
    IN CASE s.full \/ n >= FileCap -> s
         [] ~s.full /\ n < FileCap /\ ~Parity /\ s.est + cost > opts.budget ->
              [s EXCEPT !.full = TRUE, !.sel = IF @ = <<>> THEN <<x>> ELSE @]
         [] OTHER -> [s EXCEPT !.est = @ + cost, !.sel = Append(@, x)]

Content == FoldLeft(Pick, Empty, InOrder(Candidates)).sel

-----------------------------------------------------------------------------
(* Facets: definitions within six tenths of the budget, of demoted files a  *)
(* few and the rest collapsed; then the best uses                           *)

Defs == {x \in Candidates : Hit(x).kind = "def"}
Uses == {x \in Candidates : Hit(x).kind \notin {"def", "import"}}
TopUses == LET all == InOrder(Uses) IN SubSeq(all, 1, Least({Len(all), MaxTop + 2}))
DefBudget == IF Uses = {} THEN opts.budget ELSE (opts.budget * 6) \div 10
Fits(s, budget) == s.est + HitCost <= budget

Charge(s, x) ==
    LET cost == HitCost + IF OfFile(s, x[1]) = 0 THEN HeaderCost ELSE 0
    IN IF s.est + cost <= opts.budget THEN [s EXCEPT !.est = @ + cost, !.sel = Append(@, x)] ELSE s

SourceDef(s, x) ==
    IF s.full \/ ~Fits(s, DefBudget) THEN [s EXCEPT !.full = TRUE] ELSE Charge(s, x)

\* s.room: how many may still be shown.
DemotedDef(s, x) ==
    IF s.room > 0 /\ Fits(s, DefBudget) /\ Charge(s, x) # s
    THEN [Charge(s, x) EXCEPT !.room = @ - 1] ELSE [s EXCEPT !.collapsed = @ \cup {x}]

TopUse(s, x) ==
    IF s.full \/ s.room = 0 \/ ~Fits(s, opts.budget) THEN [s EXCEPT !.full = TRUE]
    ELSE IF Charge(s, x) = s THEN s ELSE [Charge(s, x) EXCEPT !.room = @ - 1]

OfDemoted(x) == x[1] \in Demoted
Shown ==
    LET start == [Empty EXCEPT !.est = @ + FacetsCost] @@ [collapsed |-> {}, room |-> 0]
        source == FoldLeft(SourceDef, start, InOrder({x \in Defs : ~OfDemoted(x)}))
        room == IF source.sel = <<>> THEN 3 ELSE Len(source.sel) \div 3
        defs == FoldLeft(DemotedDef, [source EXCEPT !.room = room], InOrder({x \in Defs : OfDemoted(x)}))
    IN [FoldLeft(TopUse, [defs EXCEPT !.full = FALSE, !.room = MaxTop], TopUses)
            EXCEPT !.collapsed = defs.collapsed]

-----------------------------------------------------------------------------
(* The report *)

FilesOf(sel) ==
    LET first == {i \in DOMAIN sel : \A j \in 1 .. i - 1 : sel[j][1] # sel[i][1]}
        order == Sorted(first, Below)
    IN [k \in DOMAIN order |-> sel[order[k]][1]]
Group(sel, f) ==
    LET hits == {sel[i][2] : i \in {j \in DOMAIN sel : sel[j][1] = f}}
    IN [file |-> f, more |-> Max({0, Eligible(f) - Cardinality(hits)}),
        hits |-> IF Parity THEN Sorted(hits, Below)
                 ELSE Sorted(hits, LAMBDA i, j : RankedBefore(<<f, i>>, <<f, j>>))]
Grouped(sel) ==
    LET files == IF Parity THEN Sorted({x[1] : x \in ToSet(sel)}, Below) ELSE FilesOf(sel)
    IN [k \in DOMAIN files |-> Group(sel, files[k])]

HitsOf(files) == Sum([k \in DOMAIN files |-> Len(files[k].hits)], DOMAIN files)
MoreOf(files) == Sum([k \in DOMAIN files |-> files[k].more], DOMAIN files)

Report(layout, files, collapsed) ==
    [layout |-> layout, files |-> files, collapsed |-> collapsed,
     hitsShown |-> IF layout = "list" THEN MoreOf(files) ELSE HitsOf(files),
     hintBudget |-> layout = "content" /\ HitsOf(files) < HitTotal,
     related |-> IF layout = "list" THEN {} ELSE Related, byteCut |-> FALSE]

\* -l and -c list every file, whatever the budget.
List ==
    LET byPrior(f, g) == Prior(f) > Prior(g) \/ (Prior(f) = Prior(g) /\ f < g)
        files == IF Parity THEN Sorted(MatchedFiles, Below) ELSE Sorted(MatchedFiles, byPrior)
    IN [k \in DOMAIN files |-> [file |-> files[k], more |-> found[files[k]].total, hits |-> <<>>]]

Shaped ==
    CASE opts.mode \in {"files", "count"} -> Report("list", List, {})
      [] opts.mode = "content" /\ ~Facets -> Report("content", Grouped(Content), {})
      [] opts.mode = "content" /\ Facets -> Report("facets", Grouped(Shown.sel), Shown.collapsed)

Units(r) == IF r.layout = "list" THEN Len(r.files) ELSE HitsOf(r.files)

(* Report::keep: the first n units, the rest left out by --max-bytes. *)
Keep(r, n) ==
    LET upTo(k) == Sum([j \in 1 .. k |-> Len(r.files[j].hits)], 1 .. k)
        cut(k) == LET stay == Least({Len(r.files[k].hits), n - upTo(k - 1)})
                  IN [r.files[k] EXCEPT !.hits = SubSeq(@, 1, stay), !.more = @ + Len(r.files[k].hits) - stay]
        last == IF r.layout = "list" THEN Least({n, Len(r.files)})
                ELSE Cardinality({k \in DOMAIN r.files : upTo(k - 1) < n})
        files == IF r.layout = "list" THEN SubSeq(r.files, 1, last) ELSE [k \in 1 .. last |-> cut(k)]
    IN IF n < Units(r)
       THEN [r EXCEPT !.files = files, !.byteCut = TRUE,
                      !.hitsShown = IF r.layout = "list" THEN MoreOf(files) ELSE n]
       ELSE r

ShapeInit == LinesInit /\ report = None /\ kept = None

DoShape ==
    /\ pass = "found" /\ report = None
    /\ report' = Shaped
    /\ UNCHANGED <<search, kept>>

DoKeep(n) ==
    /\ report # None /\ kept = None
    /\ kept' = Keep(report, n)
    /\ UNCHANGED <<search, report>>

ShapeNext ==
    \/ Searching /\ UNCHANGED <<report, kept>>
    \/ DoShape
    \/ \E n \in 0 .. IF report = None THEN 0 ELSE Units(report) : DoKeep(n)

shaping == <<search, report, kept>>
ShapeSpec == ShapeInit /\ [][ShapeNext]_shaping

-----------------------------------------------------------------------------
(* What the text a result is of holds, whatever was kept of it. *)
Whole == \E f \in MatchedFiles : \E i \in DOMAIN AllLines(f) : AllLines(f)[i].exact
NearToo == \E f \in MatchedFiles : \E i \in DOMAIN AllLines(f) : ~AllLines(f)[i].exact
OnlyWhole == ~Parity /\ opts.identifier /\ Whole /\ NearToo /\ opts.mode = "content"
Owed(f) == {i \in DOMAIN AllLines(f) : ~OnlyWhole \/ AllLines(f)[i].exact}
Counting == Ranked \/ Parity

Covers(r) ==
    /\ \A k \in DOMAIN r.files :
          /\ Len(r.files[k].hits) + r.files[k].more = Cardinality(Owed(r.files[k].file))
          /\ \A j \in DOMAIN r.files : r.files[j].file = r.files[k].file => j = k
    /\ r.layout # "list" => r.hitsShown = HitsOf(r.files)

(* A reader can tell how much is missing: in every file shown, the lines    *)
(* shown and `+N more` add up to the lines the answer is about, also after  *)
(* --max-bytes cut it, and no definition is both shown and collapsed        *)
(* (shape.rs `eligible`, `Report::keep`: "it must not promise hits that     *)
(* left the answer").                                                       *)
Accounted ==
    /\ report # None /\ opts.mode # "files" /\ Counting =>
         /\ Covers(report)
         /\ kept # None => Covers(kept)
         /\ report.layout = "facets" =>
              \A x \in Defs : OfDemoted(x) =>
                 (x \in report.collapsed) # \E k \in DOMAIN report.files :
                    report.files[k].file = x[1] /\ x[2] \in ToSet(report.files[k].hits)

ShownIn(r, f) == UNION {ToSet(r.files[k].hits) : k \in {j \in DOMAIN r.files : r.files[j].file = f}}
LinesShown(f) == {found[f].hits[i].line : i \in ShownIn(report, f)}

(* No better line is left out for a worse one, whatever was dropped while   *)
(* the files were read: a line the answer is about ranks below every line   *)
(* shown, or its file has shown as many as it may, or it was a few-file     *)
(* answer, which keeps the first lines and the best of the rest (shape.rs   *)
(* `shape_within`, lib.rs `kept_lines`).                                    *)
BestShown ==
    report # None /\ report.layout = "content" /\ Ranked =>
        \A f \in MatchedFiles : \A i \in Owed(f) :
            LET line == AllLines(f)[i] IN
            \/ line.line \in LinesShown(f)
            \/ Cardinality(LinesShown(f)) >= Least({FileCap, PerPool})
            \/ \A g \in MatchedFiles : \A x \in ShownIn(report, g) : found[g].hits[x].score >= line.score

(* A bigger budget is advised when it would show more, and only near-misses *)
(* and lines past the first 64 of a file go unshown without the advice      *)
(* (shape.rs `hints`).                                                      *)
HintTrue ==
    report # None /\ report.layout = "content" /\ Ranked =>
        /\ report.hintBudget => \E f \in MatchedFiles : Cardinality(LinesShown(f)) < Cardinality(Owed(f))
        /\ ~report.hintBudget =>
              \A f \in MatchedFiles :
                  Cardinality(LinesShown(f)) >= Least({MaxHits, Cardinality(Owed(f))})

(* The names left out are named: with few of them, each identifier a near-  *)
(* miss lies in is in the related line (shape.rs `related_names`).          *)
NearNamed ==
    report # None /\ report.layout # "list" /\ Ranked /\ OnlyWhole =>
        LET near(f) == {i \in DOMAIN AllLines(f) : ~AllLines(f)[i].exact}
            names == UNION {{AllLines(f)[i].word : i \in near(f)} : f \in MatchedFiles}
        IN Cardinality(names) <= MaxRelated => report.related = names
=============================================================================
