------------------------------- MODULE Lines -------------------------------
(***************************************************************************)
(* Which matched lines of a file a search keeps (greeg-query: lib.rs       *)
(* `CollectSink`, `process_file`, `Lines`, `kept_lines`, `refill`).  A     *)
(* ranked search counts every line and holds a bounded number of them: it  *)
(* spills what it holds as it reads and drops what can no longer be shown. *)
(* A few-file answer is then read again, keeping the first lines as well;  *)
(* the file may have been edited in between.                               *)
(***************************************************************************)
EXTENDS Integers, Sequences, FiniteSets, SequencesExt

CONSTANTS
    Files,       \* the files searched, 1 .. n in path order
    Texts,       \* by file, what it may hold: sequences of lines
    Asked,       \* the options a search may have
    MaxHits,     \* MAX_HITS_PER_FILE
    MaxDefs,     \* MAX_DEFS_PER_FILE
    PerPool,     \* Options.keep_lines of a ranked search (opts.keep is it or 0)
    PerLine,     \* occurrences recorded of a line
    Few,         \* files of an answer that is read again
    SpillLines,  \* SPILL_LINES
    Rewritten,   \* what an edit may leave a file with
    MaxEdits     \* bound: edits during a search

VARIABLES
    disk,        \* by file, its text
    opts,        \* the search's options
    pass,        \* "search", "refill" or "found"
    at,          \* the file being read
    src,         \* what was read of it
    pos,         \* its next line
    sink,        \* CollectSink: lines recorded, counts, definitions kept past the cap
    held,        \* Lines.held, Lines.dropped, Lines.near
    found,       \* by file, its FileResult
    unqualified, \* Stats.unqualified
    read,        \* history: by file, the text its result is of, and the lines led with
    edits

search == <<disk, opts, pass, at, src, pos, sink, held, found, unqualified, read, edits>>

Least(S) == CHOOSE m \in S : \A x \in S : m <= x
\* A set in the order of `before`.
Sorted(S, before(_, _)) ==
    [k \in 1 .. Cardinality(S) |-> CHOOSE x \in S : Cardinality({y \in S : before(y, x)}) = k - 1]
Below(m, n) == m < n
NoFile == <<>>
Endless == 1000

(* Texts are sequences of lines, and no limit on held lines is so large     *)
(* that it seems to be none.                                                *)
ASSUME SearchAssumption ==
    /\ Files \in SUBSET Nat
    /\ \A f \in Files : \A t \in Texts[f] \cup Rewritten : t \in Seq({t[n] : n \in DOMAIN t})
    /\ \A o \in Asked : \A f \in Files : o.prior[f] \in Int
    /\ MaxHits \in Nat /\ MaxDefs \in Nat /\ PerPool \in Nat /\ SpillLines \in Nat
    /\ SpillLines < Endless /\ MaxHits + MaxDefs + 2 * PerPool < Endless

(* An occurrence is its kind and the identifier it lies in; a line is the   *)
(* sequence of its occurrences, a text the sequence of its lines.           *)
Query == 0
Exact(occ) == occ.word = Query

Weight(kind) ==
    CASE kind = "def" -> 100 [] kind = "call" -> 60 [] kind = "type" -> 50 [] kind = "member" -> 45
      [] kind = "import" -> 45 [] kind = "ident" -> 40 [] kind = "doc" -> 30 [] OTHER -> 25
Boost(kind, exact) == IF ~exact THEN 100 ELSE IF kind = "def" THEN 130 ELSE 115
Prior(f) == opts.prior[f]
Score(f, occ) == Weight(occ.kind) * Boost(occ.kind, Exact(occ)) * Prior(f)

Ranked == opts.keep > 0 /\ opts.budget # 0 /\ opts.mode \notin {"count", "files"}
Lead == IF pass = "refill" THEN MaxHits ELSE 0
Cap == CASE opts.mode = "count" -> 1 [] opts.budget = 0 \/ Ranked -> Endless [] OTHER -> MaxHits
KeepDefs == opts.mode # "count" /\ ~Ranked
MaxPerLine == IF Cap = Endless /\ ~Ranked THEN Endless ELSE PerLine
SpillAt == IF Ranked THEN Max({SpillLines, Lead + MaxDefs + 2 * PerPool}) ELSE Endless

EmptySink == [hits |-> <<>>, total |-> 0, all |-> 0, defs |-> 0]
NoLines == [lines |-> <<>>, dropped |-> 0, exact |-> 0, near |-> {}]

-----------------------------------------------------------------------------
(* One matched line *)

\* Under a kind filter the first occurrence of a requested kind stands for it.
Qualifying(line) == {p \in DOMAIN line : opts.kinds = {} \/ line[p].kind \in opts.kinds}
Qualifies(line) == Qualifying(line) # {}

LineHit(n, line) ==
    LET p == Least(Qualifying(line))
        before == Least({p - 1, MaxPerLine - 1})
        after == Least({Len(line) - p, MaxPerLine - 1 - before})
    IN [line |-> n, primary |-> p, occ |-> line[p],
        subs |-> 1 .. before \cup p .. p + after]

Scored(f, h) == [line |-> h.line, primary |-> h.primary, subs |-> h.subs, kind |-> h.occ.kind,
                 word |-> h.occ.word, exact |-> Exact(h.occ), score |-> Score(f, h.occ)]

(* The lines a ranked search can still show: the first ones, definitions    *)
(* after them, and the best of the whole-word matches and of the rest.      *)
Better(ls, j, i) == ls[j].score > ls[i].score \/ (ls[j].score = ls[i].score /\ j < i)
KeptOnePool(ls, lead) ==
    {i \in DOMAIN ls : i <= lead \/ Cardinality({j \in DOMAIN ls : Better(ls, j, i)}) < PerPool}
Kept(ls, lead) ==
    {i \in DOMAIN ls :
        \/ i <= lead
        \/ /\ ls[i].kind = "def"
           /\ Cardinality({j \in lead + 1 .. i - 1 : ls[j].kind = "def"}) < MaxDefs
        \/ Cardinality({j \in DOMAIN ls : ls[j].exact = ls[i].exact /\ Better(ls, j, i)}) < PerPool}

Only(ls, keep) == LET order == Sorted(keep, Below) IN [k \in DOMAIN order |-> ls[order[k]]]

Prune(h, lead) ==
    LET keep == Kept(h.lines, lead)
        gone == DOMAIN h.lines \ keep
    IN [lines |-> Only(h.lines, keep),
        dropped |-> h.dropped + Cardinality(gone),
        exact |-> h.exact + Cardinality({i \in gone : h.lines[i].exact}),
        near |-> h.near \cup {h.lines[i].word : i \in {g \in gone : ~h.lines[g].exact}}]

TakeBatch(h, f, hits, lead) ==
    LET new == [NoLines EXCEPT !.lines = [k \in DOMAIN hits |-> Scored(f, hits[k])]]
        p == IF Ranked THEN Prune(new, lead) ELSE new
    IN [lines |-> h.lines \o p.lines, dropped |-> h.dropped + p.dropped, exact |-> h.exact + p.exact,
        near |-> h.near \cup p.near]
Take(h, f, hits, lead) ==
    LET all == [h EXCEPT !.lines = @ \o [k \in DOMAIN hits |-> Scored(f, hits[k])]]
    IN IF Ranked THEN Prune(all, lead) ELSE all

-----------------------------------------------------------------------------
(* A search *)

LinesInit ==
    /\ disk \in {t \in [Files -> UNION {Texts[f] : f \in Files}] : \A f \in Files : t[f] \in Texts[f]}
    /\ opts \in Asked
    /\ pass = "search" /\ at = 0 /\ src = <<>> /\ pos = 0
    /\ sink = EmptySink /\ held = NoLines
    /\ found = [f \in Files |-> NoFile] /\ unqualified = 0
    /\ read = [f \in Files |-> [text |-> <<>>, lead |-> 0]]
    /\ edits = 0

\* process_file reads the file at once; what it searches is that buffer.
Due == IF pass = "search" THEN {f \in Files : f > at}
       ELSE {f \in Files : f > at /\ found[f] # NoFile /\ found[f].dropped > 0}

Open ==
    /\ pass \in {"search", "refill"} /\ pos = 0 /\ Due # {}
    /\ at' = Least(Due) /\ src' = disk[at'] /\ pos' = 1
    /\ sink' = EmptySink /\ held' = NoLines
    /\ UNCHANGED <<disk, opts, pass, found, unqualified, read, edits>>

Record(hit) ==
    IF Len(sink.hits) >= SpillAt
    THEN /\ held' = Take(held, at, sink.hits, Lead)
         /\ sink' = [sink EXCEPT !.hits = <<hit>>, !.total = @ + 1, !.all = @ + 1]
    ELSE /\ sink' = [sink EXCEPT !.hits = Append(@, hit), !.total = @ + 1, !.all = @ + 1]
         /\ UNCHANGED held

\* CollectSink::matched, on a line with occurrences.
Matched ==
    /\ pos \in DOMAIN src
    /\ LET line == src[pos] IN
       /\ CASE line = <<>> -> UNCHANGED <<sink, held>>
            [] line # <<>> /\ ~Qualifies(line) ->
                 sink' = [sink EXCEPT !.all = @ + 1] /\ UNCHANGED held
            [] line # <<>> /\ Qualifies(line) /\ Len(sink.hits) < Cap -> Record(LineHit(pos, line))
            [] line # <<>> /\ Qualifies(line) /\ Len(sink.hits) >= Cap ->
                 /\ UNCHANGED held
                 /\ LET hit == LineHit(pos, line)
                        def == KeepDefs /\ sink.defs < MaxDefs /\ hit.occ.kind = "def"
                    IN sink' = [sink EXCEPT !.total = @ + 1, !.all = @ + 1,
                                            !.defs = IF def THEN @ + 1 ELSE @,
                                            !.hits = IF def THEN Append(@, hit) ELSE @]
       /\ pos' = IF opts.mode = "files" /\ sink'.total > 0 THEN Len(src) + 1 ELSE pos + 1
    /\ UNCHANGED <<disk, opts, pass, at, src, found, unqualified, read, edits>>

\* Lines.kinds counts a line when it is pushed: kept, or dropped by a ranked search.
Result ==
    LET h == Take(held, at, sink.hits, Lead)
    IN [hits |-> h.lines, total |-> sink.total, unfiltered |-> sink.all,
        dropped |-> h.dropped, exact |-> h.exact, near |-> h.near]

\* A file that no longer matches when it is read again keeps its first result.
CloseFile ==
    /\ pos > Len(src) /\ pos > 0
    /\ IF sink.total = 0
       THEN /\ unqualified' = unqualified + IF pass = "search" THEN sink.all ELSE 0
            /\ UNCHANGED <<found, read>>
       ELSE /\ found' = [found EXCEPT ![at] = Result]
            /\ read' = [read EXCEPT ![at] = [text |-> src, lead |-> Lead]]
            /\ UNCHANGED unqualified
    /\ pos' = 0 /\ sink' = EmptySink /\ held' = NoLines /\ src' = <<>>
    /\ UNCHANGED <<disk, opts, pass, at, edits>>

MatchedFiles == {f \in Files : found[f] # NoFile}
Refills == Cardinality(MatchedFiles) <= Few /\ \E f \in MatchedFiles : found[f].dropped > 0

EndPass ==
    /\ pass \in {"search", "refill"} /\ pos = 0 /\ Due = {}
    /\ pass' = IF pass = "search" /\ Refills THEN "refill" ELSE "found"
    /\ at' = 0
    /\ UNCHANGED <<disk, opts, src, pos, sink, held, found, unqualified, read, edits>>

\* An edit before a file's first read is another initial state, so only those
\* between the two reads are steps.
Edit(f, t) ==
    /\ edits < MaxEdits /\ edits' = edits + 1
    /\ pass = "refill" /\ at = 0 /\ pos = 0 /\ f \in MatchedFiles
    /\ t # disk[f] /\ disk' = [disk EXCEPT ![f] = t]
    /\ UNCHANGED <<opts, pass, at, src, pos, sink, held, found, unqualified, read>>

Searching == Open \/ Matched \/ CloseFile \/ EndPass \/ \E f \in Files : \E t \in Rewritten : Edit(f, t)

LinesSpec == LinesInit /\ [][Searching]_search

-----------------------------------------------------------------------------
Matches(text) == {n \in DOMAIN text : text[n] # <<>> /\ Qualifies(text[n])}
AllLines(f) ==
    LET text == read[f].text
        ns == Sorted(Matches(text), Below)
    IN [k \in DOMAIN ns |-> Scored(f, LineHit(ns[k], text[ns[k]]))]

(* Dropping lines while the file is read keeps what one choice at its end   *)
(* would: "a later line can only push a line out" (lib.rs `Lines::prune`).  *)
PruneAsOne ==
    \A f \in MatchedFiles : Ranked =>
        LET r == found[f]
            all == AllLines(f)
            keep == Kept(all, read[f].lead)
            gone == DOMAIN all \ keep
        IN /\ r.hits = Only(all, keep)
           /\ r.exact = Cardinality({i \in gone : all[i].exact})
           /\ r.near = {all[i].word : i \in {g \in gone : ~all[g].exact}}

(* No line is lost from the counts: what a file's result holds, dropped and *)
(* only counted, adds up to the lines that match in the text it is of, and  *)
(* a definition after any number of uses is held (lib.rs `CollectSink`).    *)
EveryLineCounted ==
    \A f \in MatchedFiles :
        LET r == found[f]
            all == AllLines(f)
            defs == {i \in DOMAIN all : all[i].kind = "def"}
        IN /\ all # <<>>
           /\ opts.mode # "files" =>
                /\ r.total = Len(all)
                /\ r.unfiltered = Cardinality({n \in DOMAIN read[f].text : read[f].text[n] # <<>>})
           /\ Ranked => Len(r.hits) + r.dropped = r.total
           /\ opts.mode \notin {"files", "count"} /\ Cardinality(defs) <= MaxDefs =>
                \A i \in defs : \E k \in DOMAIN r.hits : r.hits[k].line = all[i].line

(* Lines dropped while a file is read, and lines only counted, leave what   *)
(* one choice at the file's end would, and every count adds up (lib.rs      *)
(* `Lines::prune`, `CollectSink`).                                          *)
LinesKept == PruneAsOne /\ EveryLineCounted
=============================================================================
