------------------------------- MODULE Listing -------------------------------
(***************************************************************************)
(* What `def` and `impls` list (greeg-query: verbs.rs `def`, `scan_defs`,  *)
(* `impls`).  The definitions come from the index, as the check before     *)
(* left it; each file is read once, to describe them, and what moved since *)
(* is found again there.  Files the index skipped, or all of them without  *)
(* one, are scanned.  Any file may be edited between two reads.            *)
(***************************************************************************)
EXTENDS Integers, Sequences, FiniteSets, FiniteSetsExt, SequencesExt

CONSTANTS
    Files,      \* the files of the tree, 1 .. n in path order
    Texts,      \* by file, what it may hold
    Rewritten,  \* what an edit may leave, by file
    Selected,   \* the files the request selects
    Skipped,    \* the files the index holds no symbols of
    Modules,    \* the files that are the module Query
    Racy,       \* files written just before the index read them (STAMP_RECHECK)
    PathPrior,  \* by file, its part of a score
    KindWeight, \* by kind, kind_weight
    ModuleWeight,
    Folded,     \* names equal to Query but for case
    Near,       \* names the split-token and fuzzy rungs give
    Described,  \* DESCRIBED_DEFS and DESCRIBED_IMPLS
    MaxImpls,   \* impl blocks `def` lists beside others (3)
    Asked,      \* requests
    MaxEdits    \* bound

\* A line of a text; what the index reads was stamped before.
Declarations == [kind : DOMAIN KindWeight, name : STRING, supers : SUBSET STRING, mentions : BOOLEAN]
AnyRequest ==
    [verb : {"def", "impls"}, fold : BOOLEAN, discover : BOOLEAN, kind : STRING, show : Nat, index : BOOLEAN]
Assumption ==
    /\ Files \subseteq Nat /\ IsFiniteSet(Files) /\ Selected \subseteq Files
    /\ \A f \in Files : /\ Texts[f] \subseteq [text : Seq(Declarations), stamp : {1}]
                        /\ Rewritten[f] \subseteq [text : Seq(Declarations), stamp : Nat]
    /\ DOMAIN KindWeight \subseteq STRING /\ KindWeight \in [DOMAIN KindWeight -> Nat]
    /\ PathPrior \in [Files -> Nat] /\ ModuleWeight \in Nat
    /\ Described \in Nat /\ MaxImpls \in Nat
    /\ Asked \subseteq AnyRequest

VARIABLES
    disk,    \* by file, [text, stamp]
    index,   \* the same, as the index recorded it
    ask,     \* the request: [verb, fold, discover, kind, show, index]
    stage,   \* "open", "scan", "rank", "describe", "done"
    todo,    \* files still to scan
    found,   \* entries, best first
    next,    \* the entry to describe
    cache,   \* by file, what was read of it: [text, current], or Unread
    gone,    \* entries whose definition is no more
    total,   \* DefResult.total, ImplsResult.direct_total
    have,    \* lines of `direct`, told apart from the extras
    extras,
    scanned, \* history: by file, the text a scan read
    edits

listing == <<disk, index, ask, stage, todo, found, next, cache, gone, total, have, extras,
             scanned, edits>>

Query == "q"
Unread == [text |-> <<>>, current |-> FALSE, read |-> FALSE]
Missing == [text |-> <<>>, stamp |-> 0]  \* a file deleted since

(* A text is a sequence of lines; a line declares a definition, which may   *)
(* extend others and mention a type, or is plain.                           *)
Names ==
    {Query} \cup IF ask.fold THEN Folded ELSE {}
HasDefs(text) == {i \in DOMAIN text : text[i].kind # "plain"}
Named(text, names) == {i \in HasDefs(text) : text[i].name \in names}
Extending(text) == {i \in HasDefs(text) : Query \in text[i].supers}

Entry(f, i, d, score, indexed) ==
    [file |-> f, line |-> i, was |-> i, kind |-> d.kind, name |-> d.name, score |-> score,
     indexed |-> indexed, module |-> FALSE]
Score(f, d) == KindWeight[d.kind] * PathPrior[f]

Before(x, y) ==
    \/ x.score > y.score
    \/ x.score = y.score /\ (x.file < y.file \/ (x.file = y.file /\ x.line < y.line))
    \/ x.score = y.score /\ x.file = y.file /\ x.line = y.line /\ ~x.module /\ y.module
Ranked(S) == [k \in 1 .. Cardinality(S) |-> CHOOSE x \in S : Cardinality({y \in S : Before(y, x)}) = k - 1]
FirstOf(s, n) == SubSeq(s, 1, Min({n, Len(s)}))

Unlimited == ask.show = 0
Indexed == {f \in Selected \ Skipped : index[f] # Missing}
InIndex(At(_)) == UNION {{Entry(f, i, index[f].text[i], Score(f, index[f].text[i]), TRUE) :
                             i \in At(index[f].text)} : f \in Indexed}

-----------------------------------------------------------------------------
Init ==
    /\ disk \in {d \in [Files -> UNION {Texts[f] : f \in Files}] : \A f \in Files : d[f] \in Texts[f]}
    /\ index = disk
    /\ ask \in Asked
    /\ stage = "open" /\ todo = {} /\ found = <<>> /\ next = 1
    /\ cache = [f \in Files |-> Unread] /\ gone = {} /\ total = 0
    /\ have = {} /\ extras = {}
    /\ scanned = [f \in Files |-> <<>>] /\ edits = 0

\* lookup, the case variants, and the ladder over names when nothing has Query.
Symbols ==
    LET exact == InIndex(LAMBDA t : Named(t, Names))
        modules == Modules \cap Indexed
        folded == InIndex(LAMBDA t : Named(t, Folded))
        near == InIndex(LAMBDA t : Named(t, Near))
    IN IF exact # {} \/ modules # {} \/ ~ask.discover THEN exact
       ELSE IF folded # {} THEN folded ELSE near

OfKind(S) == {x \in S : ask.kind = "any" \/ x.kind = ask.kind}
FileModules ==
    IF ask.kind \notin {"any", "module"} THEN {}
    ELSE {[file |-> f, line |-> 1, was |-> 1, kind |-> "module", name |-> Query,
           score |-> ModuleWeight * PathPrior[f], indexed |-> TRUE, module |-> TRUE] : f \in Modules \cap Indexed}

Cut(s) == IF Unlimited THEN s ELSE FirstOf(s, Described)

\* def: every definition ranked on the index's metadata, the best described.
OpenDef ==
    /\ stage = "open" /\ ask.verb = "def" /\ ask.index
    /\ LET syms == OfKind(Symbols) IN
       /\ found' = Cut(Ranked(syms)) \o Ranked(FileModules)
       /\ total' = Cardinality(syms) + Cardinality(FileModules)
    /\ todo' = Selected \cap Skipped /\ stage' = "scan"
    /\ UNCHANGED <<disk, index, ask, next, cache, gone, have, extras, scanned, edits>>

OpenImpls ==
    /\ stage = "open" /\ ask.verb = "impls" /\ ask.index
    /\ LET syms == InIndex(Extending) IN
       /\ found' = Cut(Ranked(syms))
       /\ total' = Cardinality(syms)
       /\ have' = {<<x.file, x.line>> : x \in syms}
    /\ stage' = "describe"
    /\ UNCHANGED <<disk, index, ask, todo, next, cache, gone, extras, scanned, edits>>

\* Without a usable index.
OpenScan ==
    /\ stage = "open" /\ ~ask.index
    /\ todo' = Selected /\ stage' = "scan"
    /\ UNCHANGED <<disk, index, ask, found, next, cache, gone, total, have, extras, scanned, edits>>

\* A scan's definition lines; what it tells of a kind is the parse's.
Hits(f, text) ==
    OfKind({Entry(f, i, text[i], Score(f, text[i]), FALSE) : i \in Named(text, {Query})})
Implementors(f, text) == {Entry(f, i, text[i], Score(f, text[i]), FALSE) : i \in Extending(text)}

\* Type uses on a line that declares a container of another name, and that
\* the supertype lists did not give.
MoreUses(f, text, known) ==
    {Entry(f, i, text[i], Score(f, text[i]), FALSE) :
        i \in {j \in HasDefs(text) : /\ text[j].mentions \/ Query \in text[j].supers
                                     /\ text[j].kind \in {"class", "impl", "alias"}
                                     /\ text[j].name # Query /\ <<f, j>> \notin known}}

ScanDefs(f) ==
    /\ ask.verb = "def"
    /\ LET hits == Hits(f, disk[f].text) IN
       /\ found' = found \o Ranked(hits)
       /\ total' = total + Cardinality(hits)
    /\ UNCHANGED <<have, extras>>

ScanImpls(f) ==
    /\ ask.verb = "impls"
    /\ LET direct == IF ask.index THEN {} ELSE Implementors(f, disk[f].text)
           known == have \cup {<<f, x.line>> : x \in direct}
       IN /\ found' = found \o Ranked(direct)
          /\ total' = total + Cardinality(direct)
          /\ have' = known
          /\ extras' = extras \cup MoreUses(f, disk[f].text, known)

Scan ==
    /\ stage = "scan" /\ todo # {}
    /\ LET f == Min(todo) IN
       /\ ScanDefs(f) \/ ScanImpls(f)
       /\ todo' = todo \ {f}
       /\ scanned' = [scanned EXCEPT ![f] = disk[f].text]
    /\ UNCHANGED <<disk, index, ask, stage, next, cache, gone, edits>>

\* impl blocks are secondary.
WithoutImpls(s) ==
    LET impls(k) == Cardinality({j \in 1 .. k : s[j].kind = "impl"})
        keep == {k \in DOMAIN s : s[k].kind # "impl" \/ impls(k) <= MaxImpls}
        nth == Ranked({s[k] : k \in keep})
    IN IF \E k \in DOMAIN s : s[k].kind # "impl" THEN nth ELSE s

EndScan ==
    /\ stage = "scan" /\ todo = {}
    /\ LET sorted == Ranked(ToSet(found)) IN
       CASE ask.verb = "def" /\ ask.index ->
              /\ found' = WithoutImpls(sorted) /\ stage' = "describe"
         [] ask.verb = "def" /\ ~ask.index ->
              /\ found' = (IF Unlimited THEN sorted ELSE FirstOf(sorted, ask.show)) /\ stage' = "done"
         [] ask.verb = "impls" ->
              /\ found' = (IF ask.index THEN found ELSE Cut(sorted)) /\ stage' = "done"
    /\ UNCHANGED <<disk, index, ask, todo, next, cache, gone, total, have, extras, scanned, edits>>

(* indexed_text: the file now, and whether the index's spans describe it. *)
IndexedTextByStamp(e) ==
    [text |-> disk[e.file].text, read |-> TRUE,
     current |-> ~e.indexed \/ disk[e.file].stamp = index[e.file].stamp]
IndexedText(e) ==
    [text |-> disk[e.file].text, read |-> TRUE,
     current |-> \/ ~e.indexed
                 \/ /\ disk[e.file] # Missing /\ e.file \notin Racy
                    /\ disk[e.file].stamp = index[e.file].stamp]

(* relocate: the nearest definition of the kind and the name, and for       *)
(* `impls` with the supertype.                                              *)
Distance(i, j) == IF i > j THEN i - j ELSE j - i
Again(e, text) ==
    {i \in HasDefs(text) : /\ text[i].kind = e.kind /\ text[i].name = e.name
                           /\ ask.verb = "impls" => Query \in text[i].supers}
Relocate(e, text) ==
    LET s == Again(e, text)
    IN IF s = {} THEN 0
       ELSE CHOOSE i \in s : \A j \in s : Distance(i, e.line) < Distance(j, e.line)
                                          \/ (Distance(i, e.line) = Distance(j, e.line) /\ i <= j)

Shown == IF ask.verb = "def" /\ ~Unlimited THEN Min({ask.show, Len(found)}) ELSE Len(found)

DescribeAsUnnoted(e, file) ==
    LET at == IF file.current \/ e.module THEN e.line ELSE Relocate(e, file.text)
        none == IF e.module THEN file.text = <<>> ELSE at = 0
    IN /\ found' = IF none \/ ~e.indexed THEN found ELSE [found EXCEPT ![next].line = at]
       /\ gone' = IF none THEN gone \cup {next} ELSE gone
       /\ UNCHANGED have

DescribeAs(e, file) ==
    LET at == IF file.current \/ e.module THEN e.line ELSE Relocate(e, file.text)
        none == IF e.module THEN file.text = <<>> ELSE at = 0
    IN /\ found' = IF none \/ ~e.indexed THEN found ELSE [found EXCEPT ![next].line = at]
       /\ gone' = IF none THEN gone \cup {next} ELSE gone
       /\ have' = IF none \/ file.current THEN have ELSE have \cup {<<e.file, at>>}

Describe ==
    /\ stage = "describe" /\ next <= Shown
    /\ LET e == found[next]
           file == IF cache[e.file].read THEN cache[e.file] ELSE IndexedText(e)
       IN /\ cache' = [cache EXCEPT ![e.file] = file]
          /\ DescribeAs(e, file)
    /\ next' = next + 1
    /\ UNCHANGED <<disk, index, ask, stage, todo, total, extras, scanned, edits>>

TotalLeft == total - Cardinality(gone)

\* What is gone leaves the list and the total; `impls` then reads its extras.
EndDescribe ==
    /\ stage = "describe" /\ next > Shown
    /\ found' = LET stay == {k \in 1 .. Shown : k \notin gone}
                    nth(k) == CHOOSE j \in stay : Cardinality({i \in stay : i <= j}) = k
                IN [k \in 1 .. Cardinality(stay) |-> found[nth(k)]]
    /\ total' = TotalLeft
    /\ IF ask.verb = "impls" THEN stage' = "scan" /\ todo' = Selected
       ELSE stage' = "done" /\ UNCHANGED todo
    /\ UNCHANGED <<disk, index, ask, next, cache, gone, have, extras, scanned, edits>>

\* A file is written after the index was checked; one that was written just
\* before may keep its stamp.
Edit(f, t, sameTick) ==
    /\ stage # "open" /\ stage # "done" /\ edits < MaxEdits
    /\ t # disk[f] /\ disk[f] # Missing
    /\ sameTick => f \in Racy /\ t # Missing
    /\ edits' = edits + 1
    /\ disk' = [disk EXCEPT ![f] = IF t = Missing THEN Missing
                                   ELSE [t EXCEPT !.stamp = IF sameTick THEN disk[f].stamp ELSE 2 + edits]]
    /\ UNCHANGED <<index, ask, stage, todo, found, next, cache, gone, total, have, extras, scanned>>

Next ==
    \/ OpenDef \/ OpenImpls \/ OpenScan \/ Scan \/ EndScan \/ Describe \/ EndDescribe
    \/ \E f \in Files : \E t \in Rewritten[f], sameTick \in BOOLEAN : Edit(f, t, sameTick)

Spec == Init /\ [][Next]_listing

-----------------------------------------------------------------------------
Done == stage = "done"
ReadOf(e) == IF e.indexed THEN cache[e.file].text ELSE scanned[e.file]
Sole(text, d) == Cardinality({i \in HasDefs(text) : text[i].kind = d.kind /\ text[i].name = d.name}) = 1

(* An agent opens what is listed at its line: there, when it was read, the  *)
(* file declared a definition of that kind and name, and for `impls` one    *)
(* that extends the asked type, whatever the index knew (verbs.rs           *)
(* `relocate`, `indexed_text`).                                             *)
Located ==
    Done => \A k \in DOMAIN found : LET e == found[k] IN
        ~e.module =>
            /\ e.line \in HasDefs(ReadOf(e))
            /\ LET d == ReadOf(e)[e.line] IN
               /\ d.kind = e.kind /\ d.name = e.name
               /\ ask.verb = "impls" => Query \in d.supers

(* "No definition" and "N of N" are said when they are so: a definition     *)
(* that the checked index had and its file still has when it is read is     *)
(* listed, unless the total says that more were left out (verbs.rs `def`:   *)
(* "rank every eligible definition", `total`).                              *)
NoneLost ==
    Done /\ ask.index /\ total = Len(found) =>
        \A f \in Indexed :
            LET was == index[f].text
                now == IF cache[f].read THEN cache[f].text ELSE was
                asked == IF ask.verb = "impls" THEN Extending(was) ELSE Named(was, {Query})
            IN \A i \in asked : \A j \in HasDefs(now) :
                  LET d == was[i] IN
                  /\ (ask.verb = "def" /\ ask.kind # "any" => d.kind = ask.kind)
                  /\ now[j].kind = d.kind /\ now[j].name = d.name /\ now[j].supers = d.supers
                  /\ Sole(was, d) /\ Sole(now, d)
                  => \E k \in DOMAIN found : found[k].file = f /\ found[k].line = j

(* Every implementor is listed once: a line a scan saw that extends the     *)
(* type, or declares something by mentioning it, is direct or an extra and  *)
(* not both (verbs.rs: "extras below are told apart by line"), but for a    *)
(* line where the index had another.                                        *)
Direct == {<<found[k].file, found[k].line>> : k \in DOMAIN found}
Extra == {<<x.file, x.line>> : x \in extras}
ListedOnce ==
    Done /\ ask.verb = "impls" =>
        /\ Direct \cap Extra = {}
        /\ \A f \in Selected : \A i \in HasDefs(scanned[f]) :
              LET d == scanned[f][i]
                  stale == index[f] # Missing /\ i \in DOMAIN index[f].text /\ Query \in index[f].text[i].supers
              IN /\ Query \in d.supers \/ d.mentions
                 /\ d.kind \in {"class", "impl", "alias"} /\ d.name # Query
                 /\ Unlimited /\ ~stale
                 => <<f, i>> \in Direct \cup Extra
=============================================================================
