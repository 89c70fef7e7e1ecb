---------------------------- MODULE ImportGraph ----------------------------
(***************************************************************************)
(* The import graph and the symbols of an index, through deltas (greeg:    *)
(* resolve.rs, build.rs `phase2` and `build_delta`, fresh.rs `reresolve`,  *)
(* index.rs and symtab.rs lookups).  A build resolves every import against *)
(* the files there are.  A delta extracts again only what changed, and the *)
(* unchanged files some import of which the change may move.               *)
(*                                                                         *)
(* A path is a directory, a sequence of names, and a name with its         *)
(* extension.  Kotlin, whose imports name packages, is left out.           *)
(***************************************************************************)
EXTENDS Naturals, Sequences, SequencesExt, FiniteSets, FiniteSetsExt

CONSTANTS
    Projects,    \* trees a build starts from: path to content
    Written(_),  \* what an edit of a tree may write: sets of pairs of a path and a content
    Configs,     \* configurations: what tsconfig.json says itself and by `extends`
    PyRoots,     \* Python's search roots, longest first
    Crates,      \* directories with a Cargo.toml: name to directory
    Packages,    \* workspace packages: name to [dir, main]
    MaxEdits,
    MaxDeltas,   \* deltas a rebuild is due after
    Share        \* one in Share of the files changed is due for a rebuild

VARIABLES
    tree,        \* on disk: path to [imports, defs]
    config,
    recs,        \* by id, the index's files: what was extracted, and what it resolved to
    nBase,       \* ids of the base
    tombs,        \* ids superseded
    deltas,      \* how many there are
    built,       \* the configuration the base was resolved with
    synced,      \* no edit since the last check
    edits

vars == <<tree, config, recs, nBase, tombs, deltas, built, synced, edits>>

NoId == 0
NoPath == [dir |-> <<>>, name |-> <<"", "">>]
At(dir, stem, ext) == [dir |-> dir, name |-> <<stem, ext>>]
Up(dir, n) == SubSeq(dir, 1, IF n > Len(dir) THEN 0 ELSE Len(dir) - n)
Within(root, dir) == IsPrefix(root, dir)

-----------------------------------------------------------------------------
(* Where resolution looks, in order.  An import is what the text says: how  *)
(* many directories up, if it is relative, and names.                       *)

\* Longest module path first: the tail may be the name of a symbol.
PyUnder(base, segs) ==
    FlattenSeq([j \in 1 .. Len(segs) + 1 |->
        LET k == Len(segs) + 1 - j
        IN  (IF k > 0 THEN <<At(base \o SubSeq(segs, 1, k - 1), segs[k], "py")>> ELSE <<>>)
            \o <<At(base \o SubSeq(segs, 1, k), "__init__", "py")>>])

Python(from, im) ==
    IF im.rel THEN PyUnder(Up(from.dir, im.up - 1), im.segs)
    ELSE FlattenSeq([i \in DOMAIN PyRoots |->
                IF Within(PyRoots[i], from.dir) THEN PyUnder(PyRoots[i], im.segs) ELSE <<>>])
         \o FlattenSeq([i \in DOMAIN PyRoots |-> PyUnder(PyRoots[i], im.segs)])

IsOwner(stem) == stem \in {"mod", "lib", "main"}

\* file_ctx: the source directory of the nearest crate, and the module's own.
SrcDir(from) ==
    LET around == {Crates[c] : c \in {d \in DOMAIN Crates : Within(Crates[d], from.dir)}}
    IN  IF around = {} THEN <<"src">>
        ELSE (CHOOSE d \in around : \A e \in around : Len(e) <= Len(d)) \o <<"src">>
ModDir(from) == IF IsOwner(from.name[1]) THEN from.dir ELSE Append(from.dir, from.name[1])

RustUnder(base, segs, least) ==
    FlattenSeq([j \in 1 .. Len(segs) + 1 - least |->
        LET k == Len(segs) + 1 - j
            p == base \o SubSeq(segs, 1, k)
            itself == IF p = <<>> THEN <<>> ELSE <<At(Front(p), Last(p), "rs")>>
        IN  IF k > 0 THEN itself \o <<At(p, "mod", "rs")>>
            ELSE <<At(p, "lib", "rs"), At(p, "main", "rs"), At(p, "mod", "rs")>> \o itself])

Rust(from, im) ==
    LET head == im.segs[1]
        supers == CHOOSE n \in 0 .. Len(im.segs) :
                      /\ \A i \in 1 .. n : im.segs[i] = "super"
                      /\ n < Len(im.segs) => im.segs[n + 1] # "super"
    IN  CASE head = "crate" -> RustUnder(SrcDir(from), Tail(im.segs), 0)
          [] head = "self" -> RustUnder(ModDir(from), Tail(im.segs), 0)
          [] head = "super" -> RustUnder(Up(ModDir(from), supers), SubSeq(im.segs, supers + 1, Len(im.segs)), 0)
          [] head \in DOMAIN Crates -> RustUnder(Crates[head] \o <<"src">>, Tail(im.segs), 0)
          [] OTHER -> RustUnder(SrcDir(from), im.segs, 1)

SourceExts == <<"ts", "d.ts", "js">>
IndexExts == <<"ts", "js">>

\* js_probe: the file as named, with a source extension, or a directory's index.
JsProbe(dir, name) ==
    <<[dir |-> dir, name |-> name]>>
    \o (IF name[2] \in {"", "js"} THEN [i \in DOMAIN SourceExts |-> At(dir, name[1], SourceExts[i])] ELSE <<>>)
    \o (IF name[2] = "" THEN [i \in DOMAIN IndexExts |-> At(Append(dir, name[1]), "index", IndexExts[i])] ELSE <<>>)
\* A path that ends in a directory, whose own name is probed as a file's.
JsDir(dir) == IF dir = <<>> THEN [i \in DOMAIN IndexExts |-> At(<<>>, "index", IndexExts[i])]
              ELSE JsProbe(Front(dir), <<Last(dir), "">>)
JsIn(base, im) == IF im.segs = <<>> THEN JsDir(base)
                  ELSE JsProbe(base \o Front(im.segs), <<Last(im.segs), im.ext>>)
Drop(im, n) == [im EXCEPT !.segs = SubSeq(im.segs, n + 1, Len(im.segs))]

\* What a configuration says: `paths` "@/*" and "cfg", and `baseUrl`.
Says(c) == IF c.own = "extends" THEN c.extended ELSE c.own
AliasDirs(c) == IF Says(c) = "first" THEN <<<<"src">>, <<"lib">>>> ELSE <<<<"lib">>>>
Fixed == At(<<"src">>, "conf", "")
BaseUrl == <<"src">>
Through(F(_), s) == FlattenSeq([i \in DOMAIN s |-> F(s[i])])

JavaScript(c, from, im) ==
    IF im.rel THEN JsIn(Up(from.dir, im.up), im)
    ELSE (IF im.segs[1] = "@" /\ Len(im.segs) > 1 THEN Through(LAMBDA d : JsIn(d, Drop(im, 1)), AliasDirs(c))
          ELSE IF im.segs = <<"cfg">> THEN JsProbe(Fixed.dir, Fixed.name) ELSE <<>>)
         \o JsIn(BaseUrl, im)
         \o (IF im.segs[1] \notin DOMAIN Packages THEN <<>>
             ELSE LET pkg == Packages[im.segs[1]]
                  IN  IF Len(im.segs) > 1
                      THEN JsIn(pkg.dir, Drop(im, 1)) \o JsIn(pkg.dir \o <<"src">>, Drop(im, 1))
                      ELSE JsProbe(pkg.dir, pkg.main) \o JsProbe(pkg.dir \o <<"src">>, <<"index", "">>)
                           \o JsProbe(pkg.dir, <<"index", "">>) \o JsProbe(pkg.dir \o <<"src">>, <<"main", "">>)
                           \o JsProbe(pkg.dir \o <<"lib">>, <<"index", "">>))

Lang(p) == CASE p.name[2] = "py" -> "py" [] p.name[2] = "rs" -> "rs"
             [] p.name[2] \in ToSet(SourceExts) -> "js" [] OTHER -> "none"

\* resolve_module: the first there is, unless it is the importer.
Resolve(paths, c, from, im) ==
    LET probes == CASE Lang(from) = "py" -> Python(from, im)
                    [] Lang(from) = "rs" -> Rust(from, im)
                    [] Lang(from) = "js" -> JavaScript(c, from, im)
        hits == {i \in DOMAIN probes : probes[i] \in paths}
    IN  IF hits = {} THEN NoPath
        ELSE LET first == probes[Min(hits)] IN IF first = from THEN NoPath ELSE first

-----------------------------------------------------------------------------
(* Builds *)

Live == {i \in DOMAIN recs : i \notin tombs}
IdIn(ids, files, p) == IF \E i \in ids : files[i].path = p THEN CHOOSE i \in ids : files[i].path = p ELSE NoId

\* phase2: every file against every other.
Extracted(paths, content, c, IdOf(_), p, prev) ==
    [path |-> p, imports |-> content[p].imports, defs |-> content[p].defs, prev |-> prev,
     targets |-> [i \in DOMAIN content[p].imports |->
                     LET t == Resolve(paths, c, p, content[p].imports[i])
                     IN  IF t = NoPath THEN NoId ELSE IdOf(t)]]

Base(content, c) ==
    LET order == SetToSeq(DOMAIN content)
        IdOf(p) == CHOOSE i \in DOMAIN order : order[i] = p
    IN  [i \in DOMAIN order |-> Extracted(DOMAIN content, content, c, IdOf, order[i], NoId)]

BuildFrom(content, c) ==
    /\ recs' = Base(content, c)
    /\ nBase' = Cardinality(DOMAIN content)
    /\ tombs' = {} /\ deltas' = 0 /\ built' = c

Init ==
    /\ tree \in Projects /\ config \in Configs
    /\ recs = Base(tree, config) /\ nBase = Cardinality(DOMAIN tree)
    /\ tombs = {} /\ deltas = 0 /\ built = config
    /\ synced = TRUE /\ edits = 0

-----------------------------------------------------------------------------
(* What a set of added and deleted files can move *)

Every == [every |-> TRUE, names |-> {}]
Named(names) == [every |-> FALSE, names |-> names]
Touches(reach, names) == reach.every \/ reach.names \cap names # {}

(* Mutant: a file that speaks for a directory moves what names it, only. *)
RustReachByName(changed, dirs) == Named({p.name[1] : p \in {q \in changed : Lang(q) = "rs"}})

RustReach(changed, dirs) ==
    LET rust == {p \in changed : Lang(p) = "rs"}
    IN  IF \E p \in rust : IsOwner(p.name[1]) \/ Append(p.dir, p.name[1]) \in dirs THEN Every
        ELSE Named({p.name[1] : p \in rust})

PyReach(changed) ==
    LET py == {p \in changed : Lang(p) = "py"}
    IN  IF \E p \in py : p.name[1] = "__init__" THEN Every ELSE Named({p.name[1] : p \in py})

\* Names as an import may give them: with their extension, without, or as the
\* directory an index speaks for.
JsNames(p) ==
    {p.name} \cup (IF p.name[2] \in ToSet(SourceExts) THEN {<<p.name[1], "">>} ELSE {})
        \cup (IF p.name[1] = "index" THEN {<<IF p.dir = <<>> THEN "" ELSE Last(p.dir), "">>} ELSE {})
JsStem(name) == IF name[2] = "js" THEN <<name[1], "">> ELSE name
JsReach(changed) == Named(UNION {JsNames(p) : p \in changed})

\* configured_names: what a bare import reaches without naming it.
ConfiguredNames ==
    {<<Last(BaseUrl), "">>, Fixed.name}
        \cup (IF DOMAIN Packages = {} THEN {} ELSE {<<"index", "">>, <<"main", "">>})
        \cup {Packages[n].main : n \in DOMAIN Packages}

MayMove(changed, dirs, from, im) ==
    CASE Lang(from) = "py" -> Touches(PyReach(changed), ToSet(im.segs))
      [] Lang(from) = "rs" -> Touches(RustReach(changed, dirs), ToSet(im.segs))
      [] Lang(from) = "js" ->
           LET js == JsReach(changed)
               bare == \E n \in ConfiguredNames : Touches(js, {n, JsStem(n)})
               dir == Up(from.dir, im.up)
           IN  IF im.segs = <<>> THEN Touches(js, {<<IF dir = <<>> THEN "" ELSE Last(dir), "">>})
               ELSE \/ ~im.rel /\ bare
                    \/ Touches(js, {<<Last(im.segs), im.ext>>, JsStem(<<Last(im.segs), im.ext>>)})

-----------------------------------------------------------------------------
(* Version chains and lookups *)

Newer(id) == {i \in DOMAIN recs : recs[i].prev = id}
Canon(id) == LET c[j \in DOMAIN recs] == IF recs[j].prev = NoId THEN j ELSE c[recs[j].prev] IN c[id]
Latest(id) == LET l[j \in DOMAIN recs] == IF Newer(j) = {} THEN j ELSE l[CHOOSE i \in Newer(j) : TRUE] IN l[id]

Edges(id) == {recs[id].targets[i] : i \in DOMAIN recs[id].targets} \ {NoId}

OutEdges(id) == {Latest(t) : t \in Edges(id)} \cap Live

InEdges(id) ==
    LET root == Canon(id)
    IN  {f \in Live : f <= nBase /\ root <= nBase /\ root \in Edges(f)}
        \cup {f \in Live : f > nBase /\ \E t \in Edges(f) : Canon(t) = root}

\* lookup and implementors: the files whose live version defines a name, or
\* something that extends it.
Lookup(name) == {id \in Live : \E d \in recs[id].defs : d.name = name}
Implementors(name) == {id \in Live : \E d \in recs[id].defs : name \in d.supers}

-----------------------------------------------------------------------------
(* Edits, checks and deltas *)

\* A batch of edits: contents to write, and paths to remove.
Edit(writes, gone) ==
    /\ edits < MaxEdits
    /\ \A p \in gone : p \in DOMAIN tree /\ \A w \in writes : w[1] # p
    /\ tree' = [p \in (DOMAIN tree \cup {w[1] : w \in writes}) \ gone |->
                   IF \E w \in writes : w[1] = p THEN (CHOOSE w \in writes : w[1] = p)[2] ELSE tree[p]]
    /\ tree' # tree
    /\ synced' = FALSE /\ edits' = edits + 1
    /\ UNCHANGED <<config, recs, nBase, tombs, deltas, built>>

Configure(c) ==
    /\ edits < MaxEdits /\ c # config
    /\ config' = c
    /\ synced' = FALSE /\ edits' = edits + 1
    /\ UNCHANGED <<tree, recs, nBase, tombs, deltas, built>>

IdAt(p) == IdIn(Live, recs, p)
Indexed == {recs[i].path : i \in Live}
Added == DOMAIN tree \ Indexed
Deleted == {i \in Live : recs[i].path \notin DOMAIN tree}
Modified == {i \in Live \ Deleted : [imports |-> recs[i].imports, defs |-> recs[i].defs] # tree[recs[i].path]}

\* reresolve: the unchanged files whose imports resolve to another file now.
Moved ==
    LET changed == Added \cup {recs[i].path : i \in Deleted}
        dirs == UNION {{Up(recs[i].path.dir, n) : n \in 0 .. Len(recs[i].path.dir)} : i \in Live}
        paths == (Indexed \ {recs[i].path : i \in Deleted}) \cup Added
        Was(t) == IF t = NoId THEN NoPath
                  ELSE IF Latest(t) \in Live \ Deleted THEN recs[Latest(t)].path ELSE NoPath
    IN  IF changed = {} THEN {}
        ELSE {i \in Live \ (Deleted \cup Modified) : \E k \in DOMAIN recs[i].imports :
                /\ MayMove(changed, dirs, recs[i].path, recs[i].imports[k])
                /\ Resolve(paths, config, recs[i].path, recs[i].imports[k]) # Was(recs[i].targets[k])}

\* note and resolver_inputs: tsconfig.json is a file of the tree, and what it
\* extends is in a digest.
ConfigMoved == config # built

RebuildDue(again) ==
    \/ ConfigMoved
    \/ deltas >= MaxDeltas
    \/ (Cardinality(tombs) + Cardinality(again) + Cardinality(Added)) * Share > nBase

\* A check, and the delta it applies.
Apply ==
    LET again == Modified \cup Moved
        order == SetToSeq({[path |-> recs[i].path, prev |-> i] : i \in again})
                 \o SetToSeq({[path |-> p, prev |-> NoId] : p \in Added})
        IdOf(p) == IF \E k \in DOMAIN order : order[k].path = p
                   THEN Len(recs) + (CHOOSE k \in DOMAIN order : order[k].path = p) ELSE IdAt(p)
    IN  /\ ~RebuildDue(again)
        /\ again \cup Deleted # {} \/ Added # {}
        /\ recs' = recs \o [k \in DOMAIN order |->
                         Extracted(DOMAIN tree, tree, config, IdOf, order[k].path, order[k].prev)]
        /\ tombs' = tombs \cup again \cup Deleted
        /\ deltas' = deltas + 1
        /\ UNCHANGED <<nBase, built>>

Rebuild == RebuildDue(Modified \cup Moved) /\ BuildFrom(tree, config)

NoChange ==
    /\ ~RebuildDue({}) /\ Modified \cup Deleted = {} /\ Added = {}
    /\ UNCHANGED <<recs, nBase, tombs, deltas, built>>

Check ==
    /\ ~synced
    /\ Apply \/ Rebuild \/ NoChange
    /\ synced' = TRUE
    /\ UNCHANGED <<tree, config, edits>>

Next ==
    \/ \E writes \in Written(tree), gone \in SUBSET DOMAIN tree : Cardinality(gone) <= 1 /\ Edit(writes, gone)
    \/ \E c \in Configs : Configure(c)
    \/ Check

Spec == Init /\ [][Next]_vars

-----------------------------------------------------------------------------

Names == UNION {{d.name} \cup d.supers : d \in UNION {recs[i].defs : i \in DOMAIN recs}}
PathsOf(ids) == {recs[i].path : i \in ids}

(* However an index came to be, its edges and symbols are those of a build of
   the tree it was last checked against: nothing is kept that a deleted or
   shadowed file answered, and nothing missed that an added one answers now. *)
AsRebuilt ==
    synced =>
        /\ Indexed = DOMAIN tree
        /\ \A i \in Live :
              LET now == tree[recs[i].path] IN
              /\ PathsOf(OutEdges(i)) =
                    {Resolve(DOMAIN tree, config, recs[i].path, im) : im \in ToSet(now.imports)} \ {NoPath}
              /\ \A n \in Names :
                    /\ i \in Lookup(n) <=> \E d \in now.defs : d.name = n
                    /\ i \in Implementors(n) <=> \E d \in now.defs : n \in d.supers

(* Both directions agree at any time, also between an edit and its check: a
   live file is an importer of exactly the live files it imports. *)
BothWays ==
    \A j \in Live : InEdges(j) = {i \in Live : j \in OutEdges(i)}

(* The versions of a file are one chain: at most one is live, and it is the
   last. *)
OneVersion ==
    \A i \in DOMAIN recs :
        /\ Cardinality(Newer(i)) <= 1
        /\ i \in Live => Latest(i) = i /\ IdAt(recs[i].path) = i

=============================================================================
