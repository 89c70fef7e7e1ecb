------------------------------- MODULE Impact -------------------------------
(***************************************************************************)
(* How `impact` grades the files that use a name (greeg-query: verbs.rs    *)
(* `impact`, `refs_settled`, `definition_files`, `imports_definition`;     *)
(* indexed.rs `settled`; index.rs version chains).  One check is run, and  *)
(* the index is then opened again by each part of the answer: the search,  *)
(* and the graph its files are looked up in by id.  Other processes        *)
(* publish deltas, and builds, in between.                                 *)
(***************************************************************************)
EXTENDS Naturals, Sequences, FiniteSets, FiniteSetsExt, SequencesExt

CONSTANTS
    Paths,       \* 1 .. n, in path order
    Trees,       \* what the tree may hold: path to [uses, imports, defines]
    Contents,    \* what an edit may leave a file with
    Aside,       \* paths of tests, demoted code and files without a grammar
    MaxEdits,    \* bounds
    MaxBuilds

VARIABLES
    tree,
    index,    \* the current publication: [recs, dead]
    stage,    \* "settle", "open", "search", "graph", "graded"
    snap,     \* the publication the search opened
    uses,     \* ScanResult.files: path to [id, kinds]
    graph,    \* the publication the grading opened
    likely, possible, review,
    edits, builds

impact == <<tree, index, stage, snap, uses, graph, likely, possible, review, edits, builds>>

NoId == 0
\* Paths are ordered as numbers.
Assumption ==
    /\ Paths \in SUBSET Nat /\ IsFiniteSet(Paths)
    /\ \A t \in Trees : DOMAIN t \subseteq Paths
Ascending(S) == [n \in 1 .. Cardinality(S) |-> CHOOSE p \in S : Cardinality({q \in S : q < p}) = n - 1]
NoIndex == [recs |-> <<>>, dead |-> {}]
Use(kind) == kind \in {"call", "type", "import"}
Weak(kind) == kind \in {"member", "ident"}

-----------------------------------------------------------------------------
(* Publications: a record per id, its edges as ids; an edited file has a    *)
(* new record that names the one before.                                    *)

Live(i) == DOMAIN i.recs \ i.dead
Id(i, p) == LET ids == {n \in Live(i) : i.recs[n].path = p} IN IF ids = {} THEN NoId ELSE Min(ids)
Latest(i, n) ==
    LET newer(m) == {k \in DOMAIN i.recs : i.recs[k].prev = m}
        l[m \in DOMAIN i.recs] == IF newer(m) = {} THEN m ELSE l[Min(newer(m))]
    IN l[n]
OutEdges(i, n) == {Latest(i, t) : t \in i.recs[n].targets} \cap Live(i)

Targets(t, p, IdOf(_)) == {IdOf(q) : q \in t[p].imports \cap DOMAIN t}
Rec(t, p, IdOf(_), prev) == [path |-> p, has |-> t[p], targets |-> Targets(t, p, IdOf), prev |-> prev]

\* A build numbers the files in path order.
Build(t) ==
    LET order == Ascending(DOMAIN t)
        IdOf(p) == CHOOSE n \in DOMAIN order : order[n] = p
    IN [recs |-> [n \in DOMAIN order |-> Rec(t, order[n], IdOf, NoId)], dead |-> {}]

\* A delta numbers the files added or changed after those there are; a file
\* whose imports resolve to others is one of them.
PathsOf(i, ids) == {i.recs[n].path : n \in ids}
Stale(i, t) ==
    {p \in DOMAIN t : Id(i, p) = NoId
        \/ i.recs[Id(i, p)].has # t[p]
        \/ PathsOf(i, OutEdges(i, Id(i, p))) # t[p].imports \cap DOMAIN t}
Delta(i, t) ==
    LET order == Ascending(Stale(i, t))
        IdOf(p) == IF p \in Stale(i, t) THEN Len(i.recs) + CHOOSE n \in DOMAIN order : order[n] = p ELSE Id(i, p)
    IN [recs |-> i.recs \o [n \in DOMAIN order |-> Rec(t, order[n], IdOf, Id(i, order[n]))],
        dead |-> i.dead \cup {n \in Live(i) : i.recs[n].path \in Stale(i, t) \/ i.recs[n].path \notin DOMAIN t}]
Current(i, t) == Stale(i, t) = {} /\ PathsOf(i, Live(i)) = DOMAIN t

-----------------------------------------------------------------------------
Init ==
    /\ tree \in Trees /\ index = Build(tree)
    /\ stage = "settle" /\ snap = NoIndex /\ graph = NoIndex
    /\ uses = <<>> /\ likely = {} /\ possible = {} /\ review = {}
    /\ edits = 0 /\ builds = 0

\* The check, and the delta it applies; the parts that follow run none.
Settle ==
    /\ stage = "settle" /\ stage' = "open"
    /\ index' = IF Current(index, tree) THEN index ELSE Delta(index, tree)
    /\ UNCHANGED <<tree, snap, uses, graph, likely, possible, review, edits, builds>>

OpenForSearch ==
    /\ stage = "open" /\ stage' = "search"
    /\ snap' = index
    /\ UNCHANGED <<tree, index, uses, graph, likely, possible, review, edits, builds>>

\* The files of the publication are read as they are now.
Search ==
    /\ stage = "search" /\ stage' = "graph"
    /\ uses' = [p \in {q \in PathsOf(snap, Live(snap)) \cap DOMAIN tree : tree[q].uses # {}} |->
                    [id |-> Id(snap, p), kinds |-> tree[p].uses]]
    /\ UNCHANGED <<tree, index, snap, graph, likely, possible, review, edits, builds>>

DefinitionFiles(i) == {n \in Live(i) : i.recs[n].has.defines}

\* imports_definition: the file defines it, imports one that does, or one that
\* imports one that does.
ImportsAsFound(i, n) ==
    LET out == OutEdges(i, n) IN
    \/ n \in DefinitionFiles(i)
    \/ out \cap DefinitionFiles(i) # {}
    \/ \E mid \in out : OutEdges(i, mid) \cap DefinitionFiles(i) # {}
ImportsDefinition(i, n) ==
    LET file == Latest(i, n) out == OutEdges(i, file) IN
    \/ file \in DefinitionFiles(i)
    \/ out \cap DefinitionFiles(i) # {}
    \/ \E mid \in out : OutEdges(i, mid) \cap DefinitionFiles(i) # {}

\* The graph is opened by itself; the ids are those of the search.
Linked(i, id) == id \in DOMAIN i.recs /\ ImportsDefinition(i, id)
Strong(p) == \E k \in uses[p].kinds : Use(k)
Grade ==
    /\ stage = "graph" /\ stage' = "graded"
    /\ graph' = index
    /\ LET source == DOMAIN uses \ Aside
           linked == {p \in source : Strong(p) /\ Linked(index, uses[p].id)}
           other == {p \in source \ linked : \E k \in uses[p].kinds : Use(k) \/ Weak(k)}
       IN likely' = linked /\ possible' = other /\ review' = DOMAIN uses \ (linked \cup other)
    /\ UNCHANGED <<tree, index, snap, uses, edits, builds>>

\* Others edit the tree, check it, and build the index.
Write(p, c) ==
    /\ stage \notin {"settle", "graded"} /\ edits < MaxEdits /\ edits' = edits + 1
    /\ tree' = [q \in DOMAIN tree \cup {p} |-> IF q = p THEN c ELSE tree[q]]
    /\ tree' # tree
    /\ UNCHANGED <<index, stage, snap, uses, graph, likely, possible, review, builds>>
Unlink(p) ==
    /\ stage \notin {"settle", "graded"} /\ edits < MaxEdits /\ edits' = edits + 1
    /\ p \in DOMAIN tree /\ tree' = [q \in DOMAIN tree \ {p} |-> tree[q]]
    /\ UNCHANGED <<index, stage, snap, uses, graph, likely, possible, review, builds>>
OtherDelta ==
    /\ stage \notin {"settle", "graded"} /\ ~Current(index, tree)
    /\ index' = Delta(index, tree)
    /\ UNCHANGED <<tree, stage, snap, uses, graph, likely, possible, review, edits, builds>>
OtherBuild ==
    /\ stage \notin {"settle", "graded"} /\ builds < MaxBuilds /\ builds' = builds + 1
    /\ index' = Build(tree)
    /\ UNCHANGED <<tree, stage, snap, uses, graph, likely, possible, review, edits>>

Next ==
    \/ Settle \/ OpenForSearch \/ Search \/ Grade \/ OtherDelta \/ OtherBuild
    \/ \E p \in Paths : Unlink(p) \/ \E c \in Contents : Write(p, c)

Spec == Init /\ [][Next]_impact

-----------------------------------------------------------------------------
\* By path, what a publication says a file imports.
LinkedPath(i, p) ==
    LET defs == PathsOf(i, DefinitionFiles(i))
        out(q) == IF Id(i, q) = NoId THEN {} ELSE i.recs[Id(i, q)].has.imports \cap PathsOf(i, Live(i))
    IN p \in defs \/ out(p) \cap defs # {} \/ \E m \in out(p) : out(m) \cap defs # {}

(* Each file that uses the name has one grade, and "likely" is a strong use *)
(* in source that defines the name or imports a definition, at most through *)
(* one module, by the publication it is graded with, also when deltas were  *)
(* published since the search, unless it was removed (verbs.rs              *)
(* `imports_definition`, index.rs `latest`).                                *)
Graded ==
    stage = "graded" /\ builds = 0 =>
        /\ likely \cup possible \cup review = DOMAIN uses
        /\ likely \cap possible = {} /\ likely \cap review = {} /\ possible \cap review = {}
        /\ \A p \in DOMAIN uses : Latest(graph, uses[p].id) \in Live(graph) =>
              (p \in likely <=> p \notin Aside /\ Strong(p) /\ LinkedPath(graph, p))

(* "A call, type use or import in a file that imports a definition's file"  *)
(* (verbs.rs `ImpactResult::likely`): by the publication that was searched  *)
(* or by the one that was graded with.                                      *)
LikelyImports ==
    stage = "graded" => \A p \in likely : LinkedPath(snap, p) \/ LinkedPath(graph, p)
=============================================================================
