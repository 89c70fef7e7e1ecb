----------------------------- MODULE GramIndex -----------------------------
(***************************************************************************)
(* Phase 1 and what it is for (greeg: build.rs `build`, external.rs,       *)
(* index.rs `candidates_with`): chunks of files are extracted in parallel  *)
(* into posting lists under a byte budget, spilled to sorted segments when *)
(* a chunk's share is used up, merged into one index, amended by a delta,  *)
(* and asked for the files a pattern may match.                            *)
(***************************************************************************)
EXTENDS Plan, TLC

CONSTANTS
    Chunks,      \* chunks of the walked files, numbered from 0
    PerChunk,    \* number of files in a chunk
    Trees,       \* the trees built: by file, what it holds
    Contents,    \* what a changed file may hold; Huge is too large to extract
    Huge,
    Budget,      \* a chunk's share of posting_budget, in keys and ids
    Spread,      \* a list that holds more than 1 in Spread files is not worth reading
    MaxLists,    \* lists read of one conjunction
    Regexes,     \* patterns asked
    Samples      \* strings a plan is held against

VARIABLES
    phase,       \* "extract", "merge", "built", "asked"
    files,       \* by id, its content
    next,        \* by chunk, the files extracted
    sink,        \* by chunk and kind, what is held: key to ids, in order of arrival
    disk,        \* spilled segments by name: key to set of ids
    segments,    \* by chunk and kind, the names it spilled
    input,       \* by kind, the names of the segments merged
    merged,      \* by kind, the sequence of entries written
    delta,       \* what a later delta holds: files and their keys
    tomb,        \* ids superseded
    asked        \* the pattern, how it was planned, and the candidates

Kinds == {"g", "w"}
Ids == {c * PerChunk + i : c \in Chunks, i \in 0 .. PerChunk - 1}
OwnNames == 1000000     \* segments written for those who never spilled are numbered from here

\* build: a few chunks for each thread.
ASSUME ChunksAssumption ==
    /\ \E n \in 1 .. OwnNames : Chunks = 0 .. n - 1
    /\ PerChunk \in Nat /\ Budget \in Nat \ {0}

ASSUME TreesAssumption == Trees \subseteq [Ids -> Seq(Nat)]

vars == <<phase, files, next, sink, disk, segments, input, merged, delta, tomb, asked>>

Keys(kind, s) == IF s = Huge THEN {} ELSE IF kind = "g" THEN Grams(s) ELSE Words(s)
NoMap == <<>>

\* Key order: bytewise.
Less(a, b) ==
    \/ IsStrictPrefix(a, b)
    \/ \E i \in DOMAIN a \cap DOMAIN b : a[i] < b[i] /\ \A j \in 1 .. i - 1 : a[j] = b[j]

Init ==
    /\ phase = "extract"
    /\ files \in Trees
    /\ next = [c \in Chunks |-> 0]
    /\ sink = [c \in Chunks |-> [k \in Kinds |-> NoMap]]
    /\ disk = NoMap
    /\ segments = [c \in Chunks |-> [k \in Kinds |-> <<>>]]
    /\ input = [k \in Kinds |-> {}] /\ merged = [k \in Kinds |-> <<>>]
    /\ delta = NoMap /\ tomb = {} /\ asked = NoMap

-----------------------------------------------------------------------------
(* Sink *)

\* push, push_bytes: repeating the most recent id for a key is ignored.
Push(ids, id) == IF ids # <<>> /\ Last(ids) = id THEN ids ELSE Append(ids, id)
PushAll(map, keys, id) ==
    [key \in DOMAIN map \cup keys |->
        LET ids == IF key \in DOMAIN map THEN map[key] ELSE <<>>
        IN  IF key \in keys THEN Push(ids, id) ELSE ids]

\* What is charged: keys and ids.
Held(map) == MapThenSumSet(LAMBDA key : 1 + Len(map[key]), DOMAIN map)

\* Sink::spill: sorted and deduplicated, under a name of this sink's own.
Segment(map) == [key \in DOMAIN map |-> ToSet(map[key])]
Name(kind, worker, n) == <<kind, worker, n>>
Create(new) ==
    disk' = [n \in DOMAIN disk \cup DOMAIN new |-> IF n \in DOMAIN new THEN new[n] ELSE disk[n]]

\* spill_if_full
Full(c, kind, map) == map # NoMap /\ Held(map) >= Budget

\* One file of a chunk: extract_file_with, push_words, push, and the spills
\* after it.
Extract(c) ==
    /\ phase = "extract" /\ next[c] < PerChunk
    /\ LET id == c * PerChunk + next[c]
           new == [k \in Kinds |-> PushAll(sink[c][k], Keys(k, files[id]), id)]
           full == {k \in Kinds : Full(c, k, new[k])}
           NameOf(k) == Name(k, c, Len(segments[c][k]))
       IN  /\ sink' = [sink EXCEPT ![c] = [k \in Kinds |-> IF k \in full THEN NoMap ELSE new[k]]]
           /\ Create([n \in {NameOf(k) : k \in full} |-> Segment(new[n[1]])])
           /\ segments' = [segments EXCEPT ![c] =
                             [k \in Kinds |-> IF k \in full THEN Append(@[k], NameOf(k)) ELSE @[k]]]
    /\ next' = [next EXCEPT ![c] = @ + 1]
    /\ UNCHANGED <<phase, files, input, merged, delta, tomb, asked>>

-----------------------------------------------------------------------------
(* finish and collect, then the merge *)

Extracted == \A c \in Chunks : next[c] = PerChunk
Spilled(kind) == \E c \in Chunks : segments[c][kind] # <<>>

(* Mutant: a chunk that never spilled has nothing to write. *)
RestOwn(kind, c) ==
    IF segments[c][kind] # <<>> /\ sink[c][kind] # NoMap THEN {Name(kind, c, Len(segments[c][kind]))} ELSE {}

\* What is still held is written out too if anyone spilled: under the chunk's
\* next name if it did, under a name past every worker's if it did not.
Rest(kind, c) ==
    IF ~Spilled(kind) \/ sink[c][kind] = NoMap THEN {}
    ELSE IF segments[c][kind] # <<>> THEN {Name(kind, c, Len(segments[c][kind]))}
    ELSE {Name(kind, OwnNames + c, 0)}

Collect ==
    /\ phase = "extract" /\ Extracted
    /\ LET RestOf(n) == CHOOSE kc \in Kinds \X Chunks : n \in Rest(kc[1], kc[2])
           left == UNION {Rest(k, c) : k \in Kinds, c \in Chunks}
       IN  Create([n \in left |-> LET kc == RestOf(n) IN Segment(sink[kc[2]][kc[1]])])
    /\ input' = [k \in Kinds |-> UNION {ToSet(segments[c][k]) \cup Rest(k, c) : c \in Chunks}]
    /\ phase' = "merge"
    /\ UNCHANGED <<files, next, sink, segments, merged, delta, tomb, asked>>

\* The keys a kind's input still holds after `last`, and the entry of one of them.
After(kind, key) == IF merged[kind] = <<>> THEN TRUE ELSE Less(Last(merged[kind]).key, key)
KeysIn(kind) ==
    IF Spilled(kind) THEN UNION {DOMAIN disk[n] : n \in input[kind]}
    ELSE UNION {DOMAIN sink[c][kind] : c \in Chunks}
IdsOf(kind, key) ==
    IF Spilled(kind) THEN UNION {disk[n][key] : n \in {m \in input[kind] : key \in DOMAIN disk[m]}}
    ELSE UNION {ToSet(sink[c][kind][key]) : c \in {d \in Chunks : key \in DOMAIN sink[d][kind]}}

\* Merger::next, or an entry of the in-memory path.
MergeOne(kind) ==
    /\ phase = "merge"
    /\ \E key \in KeysIn(kind) :
         /\ After(kind, key)
         /\ \A other \in KeysIn(kind) : After(kind, other) => other = key \/ Less(key, other)
         /\ merged' = [merged EXCEPT ![kind] = Append(@, [key |-> key, ids |-> IdsOf(kind, key)])]
    /\ UNCHANGED <<phase, files, next, sink, disk, segments, input, delta, tomb, asked>>

\* The segments are removed, and then their directory.
MergeEnds ==
    /\ phase = "merge"
    /\ \A kind \in Kinds : \A key \in KeysIn(kind) : ~After(kind, key)
    /\ phase' = "built"
    /\ disk' = NoMap /\ sink' = [c \in Chunks |-> [k \in Kinds |-> NoMap]]
    /\ UNCHANGED <<files, next, segments, input, merged, delta, tomb, asked>>

\* apply: a changed file gets the next id, in a delta with keys of its own.
Change(id, s) ==
    /\ phase = "built" /\ delta = NoMap
    /\ delta' = (Cardinality(Ids) :> s) /\ tomb' = {id}
    /\ UNCHANGED <<phase, files, next, sink, disk, segments, input, merged, asked>>

-----------------------------------------------------------------------------
(* A segment of the index, and what it answers *)

BaseEntry(kind, key) == {e \in ToSet(merged[kind]) : e.key = key}
Base == [ids |-> Ids, of |-> files,
         has |-> [kind \in Kinds |-> {e.key : e \in ToSet(merged[kind])}],
         post |-> [kind \in Kinds |-> [key \in {e.key : e \in ToSet(merged[kind])} |->
                      UNION {e.ids : e \in BaseEntry(kind, key)}]]]
DeltaKeys(kind) == UNION {Keys(kind, delta[id]) : id \in DOMAIN delta}
Delta == [ids |-> DOMAIN delta, of |-> delta,
          has |-> [kind \in Kinds |-> DeltaKeys(kind)],
          post |-> [kind \in Kinds |-> [key \in DeltaKeys(kind) |->
                      {id \in DOMAIN delta : key \in Keys(kind, delta[id])}]]]
SegmentsOf == IF delta = NoMap THEN {Base} ELSE {Base, Delta}

Everything == [all |-> TRUE, ids |-> {}]
Some(ids) == [all |-> FALSE, ids |-> ids]
Meet(a, b) == IF a.all THEN b ELSE IF b.all THEN a ELSE Some(a.ids \cap b.ids)

\* The lists of a conjunction that are read: the shortest, but after the first
\* none that holds much of the segment.
Read(seg, grams) ==
    LET Count(g) == Cardinality(seg.post["g"][g])
        order == SetToSortSeq(grams, LAMBDA g, h : Count(g) < Count(h) \/ (Count(g) = Count(h) /\ Less(g, h)))
    IN  {order[n] : n \in {i \in DOMAIN order :
            i <= MaxLists /\ \A j \in 2 .. i : Count(order[j]) * Spread <= Cardinality(seg.ids)}}

\* eval
Eval(seg, q) ==
    LET Of[x \in Within(q)] ==
          CASE x.is = "all" -> Everything
            [] x.is = "none" -> Some({})
            [] x.is = "gram" -> Some(IF x.key \in seg.has["g"] THEN seg.post["g"][x.key] ELSE {})
            [] x.is = "and" ->
                 LET grams == {y.key : y \in {z \in x.of : z.is = "gram"}}
                     lists == {Some(seg.post["g"][g]) : g \in Read(seg, grams)}
                     subs == {Of[y] : y \in {z \in x.of : z.is # "gram"}}
                 IN  IF ~(grams \subseteq seg.has["g"]) THEN Some({})
                     ELSE FoldSet(Meet, Everything, lists \cup subs)
            [] x.is = "or" ->
                 LET alts == {Of[y] : y \in x.of}
                 IN  IF Everything \in alts THEN Everything ELSE Some(UNION {y.ids : y \in alts})
    IN  Of[q]

\* Files too large to extract are candidates of every query.
HugeIn(seg) == {id \in seg.ids : seg.of[id] = Huge}

\* candidates_with: words where they are known, else the grams; files that
\* could not be extracted always; superseded ones never.
Candidates(q, words) ==
    LET Of(seg) ==
          IF words.ok THEN UNION {seg.post["w"][w] : w \in words.set \cap seg.has["w"]}
          ELSE LET e == Eval(seg, q) IN IF e.all THEN seg.ids ELSE e.ids
    IN  UNION {Of(seg) \cup HugeIn(seg) : seg \in SegmentsOf} \ tomb

\* What a plan is does not depend on the index.
Plans == [h \in Regexes |-> PlanOf(h)]
WordPlans == [h \in Regexes |-> [word \in BOOLEAN |-> WordPlan(h, FALSE, word)]]

Ask(h, word) ==
    /\ phase = "built"
    /\ phase' = "asked"
    /\ asked' = [h |-> h, word |-> word, got |-> Candidates(Plans[h], WordPlans[h][word])]
    /\ UNCHANGED <<files, next, sink, disk, segments, input, merged, delta, tomb>>

Next ==
    \/ \E c \in Chunks : Extract(c)
    \/ Collect \/ (\E k \in Kinds : MergeOne(k)) \/ MergeEnds
    \/ phase = "built" /\ delta = NoMap /\ \E id \in Ids, s \in Contents : Change(id, s)
    \/ phase = "built" /\ \E h \in Regexes, word \in BOOLEAN : Ask(h, word)

Spec == Init /\ [][Next]_vars

-----------------------------------------------------------------------------

Live == (Ids \cup DOMAIN delta) \ tomb
Content(id) == IF id \in Ids THEN files[id] ELSE delta[id]

(* The whole of the first phase, and the promise an index makes: whatever was
   spilled, merged, superseded or left unread, a live file that matches is
   among the candidates. *)
Complete ==
    phase = "asked" =>
        \A id \in Live :
            (Content(id) # Huge => Matches(asked.h, asked.word, Content(id))) => id \in asked.got

(* A plan is sound for any file, not only those of this tree: no string that
   matches lacks what the query or the word alternatives ask of it. *)
Holds(q, s) ==
    LET In[x \in Within(q)] ==
          CASE x.is = "all" -> TRUE [] x.is = "none" -> FALSE
            [] x.is = "gram" -> x.key \in Grams(s)
            [] x.is = "and" -> \A y \in x.of : In[y]
            [] x.is = "or" -> \E y \in x.of : In[y]
    IN  In[q]

SoundFor(h, word) ==
    \A s \in Samples : Matches(h, word, s) =>
        /\ Holds(Plans[h], s)
        /\ WordPlans[h][word].ok => WordPlans[h][word].set \cap Words(s) # {}
Sound == [h \in Regexes |-> [word \in BOOLEAN |-> SoundFor(h, word)]]
PlanSound == phase = "asked" => Sound[asked.h][asked.word]

(* The budget changes nothing but memory: chunks that spilled, once or often,
   and chunks that never did give the index a build in memory gives, every key
   once and in order, with exactly the files that hold it. *)
SameIndex ==
    phase \in {"built", "asked"} =>
        \A kind \in Kinds :
            /\ \A i, j \in DOMAIN merged[kind] : i < j => Less(merged[kind][i].key, merged[kind][j].key)
            /\ {e.key : e \in ToSet(merged[kind])} = UNION {Keys(kind, files[id]) : id \in Ids}
            /\ \A e \in ToSet(merged[kind]) : e.ids = {id \in Ids : e.key \in Keys(kind, files[id])}

(* Between files no chunk holds its budget or more, however many it has seen. *)
HeldBounded == \A c \in Chunks, kind \in Kinds : Held(sink[c][kind]) < Budget

=============================================================================
