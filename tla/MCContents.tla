----------------------------- MODULE MCContents -----------------------------
(* What an index holds: the grams and words of phase 1 and the queries they *)
(* answer (GramIndex), the parses of phase 2 (ParseBudget), and the imports *)
(* and symbols they find, through deltas (ImportGraph).  The three share no *)
(* state, so one moves in each behaviour.                                   *)
EXTENDS GramIndex

CONSTANTS
    Threads, Parsed, Nobody, Size, Total, Unmetered,
    Projects, Written(_), Configs, PyRoots, Crates, Packages, MaxEdits, MaxDeltas, Share

VARIABLES
    part,
    todo, left, thread,
    tree, config, recs, nBase, tombs, deltas, built, synced, edits

P == INSTANCE ParseBudget WITH Files <- Parsed, NoFile <- Nobody
I == INSTANCE ImportGraph

parseVars == <<todo, left, thread>>
graphVars == <<tree, config, recs, nBase, tombs, deltas, built, synced, edits>>
parts == <<part, vars, parseVars, graphVars>>

ASSUME ParsesAssumption == P!Assumption

MCSize == [f \in 1 .. 7 |-> <<1, 3, 9, 0, 1, 3, 4>>[f]]

MCChunks == {0, 1}
a == 3
b == 4
A == 2
MCHuge == <<9>>

File1 == <<a, b, a, b, 1, b, b>>
File2 == <<A, b, a, NewLine, b, a>>
File3 == <<b, a, 1, a, b>>
File4 == <<b, b, a, b, a>>
MCContents == {File3, MCHuge}
Tree(f, g, h, k) == [i \in 0 .. 3 |-> <<f, g, h, k>>[i + 1]]
MCTrees == {Tree(File1, File2, File3, File4), Tree(File1, MCHuge, <<>>, File3),
            Tree(File4, <<>>, <<a, b>>, File2)}

Lit(s) == [is |-> "lit", bytes |-> s]
Class(set) == [is |-> "class", set |-> set]
Rep(h, m, n) == [is |-> "rep", sub |-> h, min |-> m, max |-> n]
Cat(s) == [is |-> "cat", of |-> s]
Alt(s) == [is |-> "alt", of |-> s]
Look == [is |-> "look"]
Empty == [is |-> "empty"]

Atoms == {Lit(<<a>>), Lit(<<a, b>>), Lit(<<b, a, b>>), Class({a, A}), Class({a, b}), Class(1 .. 11), Look,
          Rep(Lit(<<b>>), 0, 1), Rep(Lit(<<b, a>>), 1, 2)}
Short == {Lit(<<a>>), Lit(<<b, a, b>>), Class({a, A}), Look, Rep(Lit(<<b>>), 1, 2)}
Pairs == {Cat(<<p, q>>) : p, q \in Atoms}
Triples == {Cat(<<p, q, r>>) : p, q, r \in Short}
Sides == {Cat(<<p, q>>) : p, q \in {Lit(<<b, a, b>>), Rep(Lit(<<b, a>>), 1, 2), Class({a, A})}}
            \cup {Empty, Lit(<<A, b>>), Cat(<<Look, Lit(<<a, b>>), Look>>), Cat(<<Look, Lit(<<b, a>>), Look>>)}
Alternatives == {Alt(<<p, q>>) : p, q \in Sides}
MCRegexes == Atoms \cup Pairs \cup Triples \cup Alternatives
                \cup {Cat(<<p, Lit(<<a>>)>>) : p \in Alternatives} \cup {Rep(p, 1, 2) : p \in Sides}

MCSamples == UNION {[1 .. n -> {1, A, a, b}] : n \in 0 .. 3} \cup UNION {[1 .. n -> {a, b}] : n \in {4}}
                \cup {<<a, b>> \o s \o <<b, a>> : s \in [1 .. 2 -> {NewLine, a, b}]}

(* A small project in each of three languages, in every combination of its *)
(* files.                                                                   *)
Rel(up, segs) == [rel |-> TRUE, up |-> up, segs |-> segs, ext |-> ""]
Abs(segs) == [rel |-> FALSE, up |-> 0, segs |-> segs, ext |-> ""]
Source(name, imports) == [imports |-> imports, defs |-> {[name |-> name, supers |-> {"Base"}]}]

Path(dir, stem, ext) == [dir |-> dir, name |-> <<stem, ext>>]

PyMain == Path(<<"pkg">>, "m", "py")
PyImports == <<Abs(<<"a", "b">>), Rel(1, <<"a">>), Rel(2, <<"a", "c">>)>>
PyFiles == {Path(<<"pkg">>, "a", "py"), Path(<<"pkg", "a">>, "__init__", "py"), Path(<<"a">>, "b", "py"),
            Path(<<"src">>, "a", "py")}

RsMain == Path(<<"src", "a">>, "b", "rs")
RsImports == <<Abs(<<"crate", "a", "c">>), Abs(<<"super", "T">>), Abs(<<"k", "a">>)>>
RsFiles == {Path(<<"src">>, "a", "rs"), Path(<<"src", "a">>, "mod", "rs"), Path(<<"src", "a">>, "c", "rs"),
            Path(<<"k", "src">>, "lib", "rs")}

JsMain == Path(<<"src">>, "i", "ts")
JsImports == <<Rel(0, <<"x">>), [Rel(0, <<"x">>) EXCEPT !.ext = "js"], Abs(<<"@", "x">>), Abs(<<"cfg">>),
               Abs(<<"p">>), Rel(0, <<>>)>>
JsFiles == {Path(<<"src">>, "x", "ts"), Path(<<"src", "x">>, "index", "ts"), Path(<<"lib">>, "x", "js"),
            Path(<<"src">>, "conf", "ts"), Path(<<"p", "src">>, "index", "ts")}

TreesOf(main, imports, others) ==
    {[p \in {main} \cup some |-> IF p = main THEN Source("Main", imports) ELSE Source(p.name[1], <<>>)] :
        some \in {s \in SUBSET others : Cardinality(s) <= 2}}
MCProjects == TreesOf(PyMain, PyImports, PyFiles) \cup TreesOf(RsMain, RsImports, RsFiles)
              \cup TreesOf(JsMain, JsImports, JsFiles)
Fresh(others) == {{}} \cup {{<<p, Source("New", <<>>)>>} : p \in others}
WritesOf(main, imports, others) == Fresh(others) \cup {{<<main, Source("Main", SubSeq(imports, 1, 2))>>}}
MCWritten(t) ==
    CASE PyMain \in DOMAIN t -> WritesOf(PyMain, PyImports, PyFiles)
      [] RsMain \in DOMAIN t -> WritesOf(RsMain, RsImports, RsFiles)
      [] OTHER -> Fresh(JsFiles)

MCConfigs == {[own |-> "extends", extended |-> "first"], [own |-> "extends", extended |-> "second"]}
MCPyRoots == <<<<"src">>, <<>>>>
MCCrates == [r |-> <<>>, k |-> <<"k">>]
MCPackages == [p |-> [dir |-> <<"p">>, main |-> <<"out", "js">>]]

-----------------------------------------------------------------------------
PartsInit ==
    /\ part \in {"grams", "parse", "graph"}
    /\ Init /\ P!Init /\ I!Init
    /\ part # "grams" => files = CHOOSE t \in Trees : TRUE
    /\ part # "graph" => /\ tree = CHOOSE t \in Projects : TRUE
                        /\ config = CHOOSE c \in Configs : TRUE

Parse(step) == part = "parse" /\ step /\ UNCHANGED <<part, vars, graphVars>>

PartsNext ==
    \/ part = "grams" /\ Next /\ UNCHANGED <<part, parseVars, graphVars>>
    \/ Parse(P!Next)
    \/ part = "graph" /\ I!Next /\ UNCHANGED <<part, vars, parseVars>>

PartsSpec == PartsInit /\ [][PartsNext]_parts /\ \A t \in Threads : WF_parts(Parse(P!Step(t)))

(* No plan drops a file that matches, of any regex over any texts: what a    *)
(* query requires is in every text it matches, and the index answers with    *)
(* every file that has it (plan.rs, blocks.rs).                              *)
PlansComplete == Complete /\ PlanSound

(* Edges and symbols after deltas are those of a build of the tree, and a    *)
(* live file is an importer of exactly the live files it imports; of the     *)
(* versions of a file at most the last is live (fresh.rs `reresolve`,        *)
(* index.rs `in_edges`, `out_edges`).                                        *)
AsRebuilt == part = "graph" => I!AsRebuilt /\ I!BothWays /\ I!OneVersion

(* The budget of the parses is never lent twice or lost, and no chunk holds  *)
(* more keys and ids than its share (build.rs `ParseBudget`, external.rs).   *)
MemoryBounded == P!WithinBudget /\ HeldBounded

(* Every file is parsed, no thread waits for a share of the budget that      *)
(* never comes (build.rs `ParseBudget`).                                     *)
ParsesFinish == part = "parse" => P!Finishes
=============================================================================
