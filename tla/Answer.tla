------------------------------- MODULE Answer -------------------------------
(***************************************************************************)
(* One run of `greeg`, from its arguments to its exit status               *)
(* (greeg-query: lib.rs `scan` and `scan_once`, indexed.rs; greeg-index:    *)
(* commit.rs, integrity.rs; greeg: main.rs, stream.rs, verbs_out.rs).       *)
(*                                                                         *)
(* The run answers from the index when it can.  While the index is mapped, *)
(* a block may fail its digest, the code may panic, and another process    *)
(* may truncate a mapped file, which raises SIGBUS.  Until a byte of the   *)
(* answer reached stdout each of these is recovered from, by answering     *)
(* again without the index (after a SIGBUS in a new process image); after   *)
(* it the run ends with status 2.                                          *)
(*                                                                         *)
(* An answer is the matching files, in path order.  The number of lines of *)
(* a file, their ranking and the budget are left out.  Reading the files   *)
(* themselves is modelled as one atomic act: what changes on disk while a  *)
(* query runs is the matter of Freshness.                                  *)
(***************************************************************************)
EXTENDS Integers, Sequences, SequencesExt

CONSTANTS
    Kinds,   \* the requests a run may be given (see Kind)
    Climbs,  \* the rungs a discovery search may climb to after "exact"
    N        \* bound: files in the tree

Files == 1 .. N   \* in path order

\* "search": a shaped search; "stream": a `--budget 0` content search;
\* "verb": def, refs, callers, impls, show, outline, impact NAME;
\* "graph": find and map, which have no answer without the index;
\* "diff": impact --diff
Kind == {"search", "stream", "verb", "graph", "diff"}
Rungs == {"exact", "noword", "case", "names"}

RequestAssumption ==
    Kinds \subseteq Kind /\ Climbs \subseteq Rungs \ {"exact"} /\ N \in Nat

VARIABLES
    req,        \* the arguments, and what they match in the tree
    image,      \* "first", or "again": the process image after a SIGBUS
    pc,         \* where the main thread is
    rung,       \* the rung of the ladder being answered
    try,        \* use_index of the attempt under way
    mapped,     \* the index is mapped
    lost,       \* matching files the index path left out for a bad block
    failed,     \* integrity::failed(), or the index's own corrupt()
    noted,      \* note_corruption ran
    fate,       \* what became of the snapshot this run found unusable
    pending,    \* PENDING_BUILD
    spawned,    \* a background build was started
    panicked,   \* the index path panicked
    got,        \* the files of a finished result
    handed,     \* the last file a streamed answer handed to its writer
    buf,        \* the writer's buffer
    writing,    \* Tee::write is between commit() and write(2)
    committed,  \* COMMITTED
    out,        \* what reached stdout
    exit        \* how the run ended (see Exits), or "running"

vars == <<req, image, pc, rung, try, mapped, lost, failed, noted, fate,
          pending, spawned, panicked, got, handed, buf, writing, committed,
          out, exit>>

\* With their statuses: 0; 1; 2 with INCOMPLETE on stderr; 2 with another
\* error; 2 from on_sigbus; killed by SIGPIPE; 101.
Exits == {"found", "nothing", "incomplete", "error", "sigbus", "sigpipe", "panic"}

\* process-wide state that an attempt to answer does not touch
output == <<buf, writing, committed, out>>
marks == <<noted, fate, pending>>

Rows(S) == CHOOSE s \in SetToSeqs(S) : \A i, j \in DOMAIN s : i < j => s[i] < s[j]
Matches == req.match[rung]

-----------------------------------------------------------------------------
Requests ==
    {r \in [kind : Kinds, index : BOOLEAN, persist : BOOLEAN, repeatable : BOOLEAN,
            climbs : SUBSET Climbs,
            match : [{"exact"} \cup Climbs -> SUBSET Files]] :
        /\ r.kind # "search" => r.climbs = {}
        /\ r.climbs = {} => \A g \in Climbs : r.match[g] = {}
        \* dropping `-w`, then case, only adds matches
        /\ {"noword", "case"} \subseteq Climbs =>
               r.match["noword"] \subseteq r.match["case"]
        /\ r.climbs # {} /\ Climbs \cap {"noword", "case"} # {} =>
               \A g \in Climbs \cap {"noword", "case"} :
                   r.match["exact"] \subseteq r.match[g]}

Init ==
    /\ req \in Requests
    /\ image = "first" /\ pc = "start" /\ rung = "exact" /\ try = req.index
    /\ mapped = FALSE /\ lost = {} /\ failed = FALSE /\ panicked = FALSE
    /\ noted = FALSE /\ fate = "used" /\ pending = "none" /\ spawned = FALSE
    /\ got = {} /\ handed = 0
    /\ buf = <<>> /\ writing = FALSE /\ committed = FALSE /\ out = <<>>
    /\ exit = "running"

-----------------------------------------------------------------------------
(* Marking the snapshot unusable and queueing its rebuild *)

\* mark_corrupt.  A snapshot published since is left alone.
MarkCorrupt ==
    /\ UNCHANGED noted
    /\ \/ req.persist /\ fate' = "unusable" /\ pending' = "build"
       \/ req.persist /\ fate' = "superseded" /\ UNCHANGED pending
       \/ ~req.persist /\ UNCHANGED <<fate, pending>>

\* note_corruption: once per process.
NoteCorruption ==
    /\ noted' = TRUE
    /\ \/ noted /\ UNCHANGED <<fate, pending>>
       \/ ~noted /\ req.persist /\ fate' = "unusable" /\ pending' = "build"
       \/ ~noted /\ req.persist /\ fate' = "superseded" /\ UNCHANGED pending
       \/ ~noted /\ ~req.persist /\ UNCHANGED <<fate, pending>>

\* spawn_build, then spawn_refresh, which a queued build outranks.
SpawnBuild == pending' = IF req.persist THEN "build" ELSE pending
SpawnRefresh ==
    pending' = IF req.persist /\ pending # "build" THEN "refresh" ELSE pending

\* The run fails; its writer, dropped, still writes what it holds.
End(e) == exit' = e /\ pc' = "drop"

\* The same program from its start, without the index (execv in on_sigbus).
\* What the process kept in memory is gone.
Reexec ==
    /\ image' = "again" /\ pc' = "start" /\ rung' = "exact" /\ try' = FALSE
    /\ mapped' = FALSE /\ lost' = {} /\ failed' = FALSE
    /\ noted' = FALSE /\ pending' = "none" /\ got' = {} /\ handed' = 0
    /\ buf' = <<>> /\ writing' = FALSE /\ committed' = FALSE
    /\ UNCHANGED <<req, fate, spawned, panicked, out, exit>>

-----------------------------------------------------------------------------
(* Starting, and opening the index *)

\* A snapshot marked unusable opens only once another process replaced it.
FateOnceOpened == IF fate = "unusable" THEN "superseded" ELSE fate

\* `--after-sigbus` marks whatever snapshot is published: this process never
\* opened one.
Start ==
    /\ pc = "start"
    /\ pc' = "open"
    /\ IF image = "again" /\ req.persist
       THEN fate' = "unusable" /\ pending' = "build"
       ELSE UNCHANGED <<fate, pending>>
    /\ UNCHANGED <<req, image, rung, try, mapped, lost, failed, noted, spawned,
                   panicked, got, handed, output, exit>>

\* Where the attempt goes when the index cannot answer it.
WithoutIndex ==
    IF req.kind = "graph" THEN End("error") ELSE pc' = "scan" /\ UNCHANGED exit

\* Not asked to use the index.
SkipIndex ==
    /\ pc = "open" /\ ~try
    /\ WithoutIndex
    /\ UNCHANGED <<req, image, rung, try, mapped, lost, failed, marks, spawned,
                   panicked, got, handed, output>>

\* The snapshot opens and its freshness check is done.  A search reads the
\* changed files from disk and queues a refresh.
OpenIndex ==
    /\ pc = "open" /\ try
    /\ mapped' = TRUE /\ lost' = {}
    /\ pc' = "read"
    /\ fate' = FateOnceOpened
    /\ \/ UNCHANGED pending
       \/ req.kind \in {"search", "stream"} /\ SpawnRefresh
    /\ UNCHANGED <<req, image, rung, try, failed, noted, spawned, panicked, got,
                   handed, output, exit>>

\* No usable index: none, another root's, or a rebuild is due.
OpenDeclined ==
    /\ pc = "open" /\ try
    /\ ~failed
    /\ WithoutIndex
    /\ \/ SpawnBuild
       \/ UNCHANGED pending   \* an error queues nothing
    /\ UNCHANGED <<req, image, rung, try, mapped, lost, failed, noted, fate,
                   spawned, panicked, got, handed, output>>

\* A component fails its check while it is opened, or failed one before.
OpenCorrupt ==
    /\ pc = "open" /\ try
    /\ failed' = TRUE
    /\ NoteCorruption
    /\ WithoutIndex
    /\ UNCHANGED <<req, image, rung, try, mapped, lost, spawned, panicked, got,
                   handed, output>>

\* A verb that needs the graph starts the rebuild and waits for it.
WaitForBuild ==
    /\ pc = "open" /\ try /\ req.kind = "graph" /\ req.persist
    /\ pc' = "read" /\ mapped' = TRUE /\ lost' = {}
    /\ pending' = "none" /\ spawned' = TRUE /\ fate' = "superseded"
    /\ UNCHANGED <<req, image, rung, try, failed, noted, panicked, got, handed,
                   output, exit>>

-----------------------------------------------------------------------------
(* Answering from the index *)

\* A block read by any thread fails its digest: what it would have said is
\* unknown, so matching files not yet handed over may be left out.
BlockFails ==
    /\ mapped
    /\ failed' = TRUE
    /\ \E L \in SUBSET {f \in Matches : f > handed} : lost' = lost \cup L
    /\ UNCHANGED <<req, image, pc, rung, try, mapped, marks, spawned, panicked,
                   got, handed, output, exit>>

Close == mapped' = FALSE

\* A request the index cannot cover: a path outside it, files it skipped.
IndexDeclines ==
    /\ pc = "read" /\ req.kind \in {"search", "stream"} /\ handed = 0
    /\ Close /\ pc' = "scan"
    /\ UNCHANGED <<req, image, rung, try, lost, failed, marks, spawned,
                   panicked, got, handed, output, exit>>

\* The end of try_index for a shaped search.
SearchRead ==
    /\ pc = "read" /\ req.kind = "search"
    /\ Close
    /\ \/ failed /\ NoteCorruption /\ pc' = "scan" /\ UNCHANGED got
       \/ ~failed /\ UNCHANGED marks /\ got' = Matches \ lost /\ pc' = "ladder"
    /\ UNCHANGED <<req, image, rung, try, lost, failed, spawned, panicked,
                   handed, output, exit>>

AnswerFromIndexAgain == UNCHANGED try /\ pc' = "open"
AnswerAgain == try' = FALSE /\ pc' = "open"

\* `answered`: a verb's answer is dropped when a check failed meanwhile, and
\* made again without the index.
VerbRead ==
    /\ pc = "read" /\ req.kind = "verb"
    /\ Close
    /\ \/ failed /\ NoteCorruption /\ AnswerAgain /\ UNCHANGED got
       \/ ~failed /\ UNCHANGED <<marks, try>> /\ got' = Matches \ lost /\ pc' = "print"
    /\ UNCHANGED <<req, image, rung, lost, failed, spawned, panicked, handed,
                   output, exit>>

\* `failed_check` at the end of find and map.
GraphRead ==
    /\ pc = "read" /\ req.kind = "graph"
    /\ Close
    /\ \/ failed /\ NoteCorruption /\ End("error") /\ UNCHANGED got
       \/ ~failed /\ UNCHANGED <<marks, exit>> /\ got' = Matches \ lost /\ pc' = "print"
    /\ UNCHANGED <<req, image, rung, try, lost, failed, spawned, panicked,
                   handed, output>>

\* impact --diff runs a search per name, which checks, and looks up the other
\* definitions of the name, which does not.
DiffRead ==
    /\ pc = "read" /\ req.kind = "diff"
    /\ Close
    /\ \/ UNCHANGED marks
       \/ failed /\ NoteCorruption
    /\ got' = Matches \ lost /\ pc' = "print"
    /\ UNCHANGED <<req, image, rung, try, lost, failed, spawned, panicked,
                   handed, output, exit>>

\* An error that is neither a failed check nor the writer's.  scan_once scans
\* instead, which a wrong request (a bad glob) makes fail as well; a verb
\* gives up.
IndexError ==
    /\ pc = "read" /\ handed = 0
    /\ Close
    /\ \/ ~failed /\ req.kind \in {"search", "stream"} /\ pc' = "scan" /\ UNCHANGED exit
       \/ End("error")
    /\ UNCHANGED <<req, image, rung, try, lost, failed, marks, spawned,
                   panicked, got, handed, output>>

\* scan_once catches a panic of the index path; a verb does not.
IndexPanics ==
    /\ pc = "read"
    /\ Close /\ panicked' = TRUE
    /\ \/ req.kind \in {"search", "stream"} /\ handed = 0 /\ MarkCorrupt
          /\ pc' = "scan" /\ UNCHANGED exit
       \/ req.kind = "stream" /\ handed > 0 /\ MarkCorrupt /\ End("incomplete")
       \/ req.kind \notin {"search", "stream"} /\ UNCHANGED marks /\ End("panic")
    /\ UNCHANGED <<req, image, rung, try, lost, failed, spawned, got, handed,
                   output>>

-----------------------------------------------------------------------------
(* A streamed answer: Stream::go and scan_streamed *)

\* The files of this attempt that are still to be handed over.
Remaining == {f \in Matches \ (IF pc = "read" THEN lost ELSE {}) : f > handed}

Streaming == req.kind = "stream" /\ pc \in {"read", "scan"} /\ ~writing

\* "Each is handed over only while every block read so far passed its check."
ChecksPassed == pc = "read" => ~failed

\* The next file goes to the writer; from the index only while every block
\* read so far passed its check.
HandOver ==
    /\ Streaming
    /\ ChecksPassed
    /\ Remaining # {}
    /\ handed' = CHOOSE f \in Remaining : \A g \in Remaining : f <= g
    /\ buf' = Append(buf, handed')
    /\ UNCHANGED <<req, image, pc, rung, try, mapped, lost, failed, marks,
                   spawned, panicked, got, writing, committed, out, exit>>

\* A check failed: nothing was handed over and a scan answers, or the answer
\* ends incomplete.
StreamStops ==
    /\ Streaming /\ pc = "read" /\ failed
    /\ Close
    /\ \/ handed = 0 /\ NoteCorruption /\ pc' = "scan" /\ UNCHANGED exit
       \/ handed > 0 /\ MarkCorrupt /\ End("incomplete")
    /\ UNCHANGED <<req, image, rung, try, lost, failed, spawned, panicked, got,
                   handed, output>>

StreamEnds ==
    /\ Streaming
    /\ Remaining = {}
    /\ ChecksPassed
    /\ Close
    /\ pc' = "flush"
    /\ UNCHANGED <<req, image, rung, try, lost, failed, marks, spawned,
                   panicked, got, handed, output, exit>>

-----------------------------------------------------------------------------
(* Answering from a scan, and the ladder *)

\* A walk that reads every file; a verb asked to use the index and that saw a
\* check fail answers once more.
ScanEnds ==
    /\ pc = "scan" /\ req.kind # "stream"
    /\ \/ req.kind = "search" /\ got' = Matches /\ pc' = "ladder"
          /\ UNCHANGED <<marks, try>>
       \/ req.kind = "diff" /\ got' = Matches /\ pc' = "print"
          /\ UNCHANGED <<marks, try>>
       \/ req.kind = "verb" /\ ~(try /\ failed) /\ got' = Matches /\ pc' = "print"
          /\ UNCHANGED <<marks, try>>
       \/ req.kind = "verb" /\ try /\ failed /\ NoteCorruption
          /\ AnswerAgain /\ UNCHANGED got
    /\ UNCHANGED <<req, image, rung, mapped, lost, failed, spawned, panicked,
                   handed, output, exit>>

\* An override glob or a walk that cannot be set up.
ScanError ==
    /\ pc = "scan" /\ handed = 0
    /\ End("error")
    /\ UNCHANGED <<req, image, rung, try, mapped, lost, failed, marks, spawned,
                   panicked, got, handed, output>>

Order == <<"exact", "noword", "case", "names">>
Place(g) == CHOOSE i \in DOMAIN Order : Order[i] = g
Later(g) == {h \in req.climbs : Place(h) > Place(g)}
NextRung(g) == CHOOSE h \in Later(g) : \A i \in Later(g) : Place(h) <= Place(i)

\* An empty answer climbs; the first rung that finds something is printed.
\* At the top nothing matched, whatever the count of ignored files says.
Climb ==
    /\ pc = "ladder"
    /\ \/ (got # {} \/ Later(rung) = {}) /\ pc' = "print" /\ UNCHANGED rung
       \/ got = {} /\ Later(rung) # {}
          /\ rung' = NextRung(rung)
          /\ pc' = IF rung' = "names" THEN "names" ELSE "open"
    /\ UNCHANGED <<req, image, try, mapped, lost, failed, marks, spawned,
                   panicked, got, handed, output, exit>>

DeclineForNames ==
    \/ try /\ SpawnBuild
    \/ UNCHANGED pending

\* The rungs that need symbol names open the index for them, when they can.
OpenForNames ==
    /\ pc = "names" /\ ~mapped
    /\ \/ try /\ mapped' = TRUE
          /\ fate' = FateOnceOpened
          /\ UNCHANGED <<pc, failed, noted, pending>>
       \/ ~failed /\ pc' = "print" /\ DeclineForNames
          /\ UNCHANGED <<mapped, failed, noted, fate>>
       \/ try /\ failed' = TRUE /\ NoteCorruption /\ pc' = "print"
          /\ UNCHANGED mapped
    /\ UNCHANGED <<req, image, rung, try, lost, spawned, panicked, got, handed,
                   output, exit>>

\* Similar names are searched for; with a failed check none may be found.
LookUpNames ==
    /\ pc = "names" /\ mapped
    /\ Close
    /\ \/ pc' = "open"
       \/ (failed \/ Matches = {}) /\ pc' = "print"
    /\ UNCHANGED <<req, image, rung, try, lost, failed, marks, spawned,
                   panicked, got, handed, output, exit>>

\* This lookup is outside scan_once, so nothing catches its panic.
NamesPanic ==
    /\ pc = "names" /\ mapped
    /\ Close /\ panicked' = TRUE /\ End("panic")
    /\ UNCHANGED <<req, image, rung, try, lost, failed, marks, spawned, got,
                   handed, output>>

-----------------------------------------------------------------------------
(* Writing *)

Render ==
    /\ pc = "print"
    /\ buf' = Rows(got)
    /\ pc' = "flush"
    /\ UNCHANGED <<req, image, rung, try, mapped, lost, failed, marks, spawned,
                   panicked, got, handed, writing, committed, out, exit>>

MayWrite == pc \in {"flush", "drop"} \/ (req.kind = "stream" /\ pc \in {"read", "scan"})

\* Tee::write: first the flag that the signal handler reads.
Commit ==
    /\ MayWrite /\ ~writing /\ buf # <<>>
    /\ writing' = TRUE /\ committed' = TRUE
    /\ UNCHANGED <<req, image, pc, rung, try, mapped, lost, failed, marks,
                   spawned, panicked, got, handed, buf, out, exit>>

\* ... then write(2), which may take a part.
Write ==
    /\ writing
    /\ writing' = FALSE
    /\ \E n \in 1 .. Len(buf) :
           /\ out' = out \o SubSeq(buf, 1, n)
           /\ buf' = SubSeq(buf, n + 1, Len(buf))
    /\ UNCHANGED <<req, image, pc, rung, try, mapped, lost, failed, marks,
                   spawned, panicked, got, handed, committed, exit>>

\* The disk is full, or the reader left.  A failed check seen by then still
\* marks the index (Stream::go tests it first); a failing drop is ignored.
WriteFails ==
    /\ writing
    /\ writing' = FALSE /\ buf' = <<>>
    /\ Close
    /\ \/ pc = "drop" /\ UNCHANGED <<exit, pc, marks>>
       \/ pc # "drop" /\ mapped /\ failed /\ MarkCorrupt /\ End("incomplete")
       \/ pc # "drop" /\ ~(mapped /\ failed) /\ UNCHANGED marks
          /\ \E e \in {"error", "sigpipe"} : End(e)
    /\ UNCHANGED <<req, image, rung, try, lost, failed, spawned, panicked, got,
                   handed, committed, out>>

FlushAtReturn ==   \* only by main(), which process::exit skips
    /\ spawned' = (spawned \/ (pending = "build" /\ exit' \in {"found", "error"}))
    /\ pending' = "none"

\* flush_pending_build, which a panic of the main thread skips.
Flush ==
    /\ spawned' = (spawned \/ (pending = "build" /\ exit' # "panic"))
    /\ pending' = IF exit' = "panic" THEN pending ELSE "none"

\* finish_run: 0 only when the query as given found something.
Finish ==
    /\ pc = "flush" /\ buf = <<>> /\ ~writing
    /\ exit' = IF (got # {} \/ handed > 0) /\ rung = "exact" THEN "found" ELSE "nothing"
    /\ pc' = "done"
    /\ Flush
    /\ UNCHANGED <<req, image, rung, try, mapped, lost, failed, noted, fate,
                   panicked, got, handed, output>>

Die ==
    /\ pc = "drop" /\ buf = <<>> /\ ~writing
    /\ pc' = "done"
    /\ UNCHANGED exit
    /\ Flush
    /\ UNCHANGED <<req, image, rung, try, mapped, lost, failed, noted, fate,
                   panicked, got, handed, output>>

-----------------------------------------------------------------------------
(* SIGBUS, on whichever thread touched the truncated file *)

\* install_sigbus_guard armed the re-run: not under --no-index, nor in the
\* run that recovers, nor when the arguments cannot be passed on.
Armed == image = "first" /\ req.index /\ req.repeatable

RerunsOnceArmed == Armed
MayRerun == ~committed /\ Armed

SigbusReruns ==
    /\ mapped
    /\ MayRerun
    /\ Reexec

SigbusEnds ==
    /\ mapped
    /\ ~MayRerun
    /\ mapped' = FALSE /\ writing' = FALSE
    /\ exit' = "sigbus" /\ pc' = "done"
    /\ UNCHANGED <<req, image, rung, try, lost, failed, marks, spawned,
                   panicked, got, handed, buf, committed, out>>

-----------------------------------------------------------------------------
IndexSteps ==
    \/ IndexDeclines \/ SearchRead \/ VerbRead \/ GraphRead \/ DiffRead
    \/ IndexError \/ IndexPanics

ProgramSteps ==
    \/ Start \/ SkipIndex \/ OpenIndex \/ OpenDeclined \/ OpenCorrupt
    \/ WaitForBuild \/ IndexSteps
    \/ HandOver \/ StreamStops \/ StreamEnds
    \/ ScanEnds \/ ScanError \/ Climb \/ OpenForNames \/ LookUpNames \/ NamesPanic
    \/ Render \/ Commit \/ Write \/ WriteFails \/ Finish \/ Die

Next == ProgramSteps \/ BlockFails \/ SigbusReruns \/ SigbusEnds

Spec == Init /\ [][Next]_vars

\* The program runs while it can: nothing it does waits for another process
\* for ever (open_for_graph polls for two seconds).
FairSpec == Spec /\ WF_vars(ProgramSteps)

-----------------------------------------------------------------------------
(* Properties *)

TypeOK ==
    /\ req \in Requests
    /\ image \in {"first", "again"}
    /\ pc \in {"start", "open", "read", "scan", "ladder", "names", "print",
              "flush", "drop", "done"}
    /\ rung \in {"exact"} \cup req.climbs
    /\ {try, mapped, failed, noted, spawned, panicked, writing, committed} \subseteq BOOLEAN
    /\ lost \subseteq Files /\ got \subseteq Files /\ handed \in 0 .. N
    /\ fate \in {"used", "unusable", "superseded"}
    /\ pending \in {"none", "refresh", "build"}
    /\ buf \in Seq(Files) /\ out \in Seq(Files)
    /\ exit \in Exits \cup {"running"}

\* The answers whose blocks' digests are looked at before they are trusted:
\* all but impact --diff's (impact_diff.rs has no committable()).
Checked == req.kind # "diff"

\* What is on stdout, and what the writer holds, is always the beginning of
\* the true answer: no row twice when a fault makes the run start again, and
\* no row of an answer that left files out for a bad block
\* (commit.rs, Stream::go, on_sigbus).
OutIsPrefix == Checked => IsPrefix(out \o buf, Rows(Matches))

WroteItAll ==
    /\ out = Rows(Matches) \/ (rung = "names" /\ out = <<>>)
    /\ exit = "found" <=> req.match["exact"] # {}
    /\ \A g \in {"exact"} \cup (req.climbs \ {"names"}) :
           Place(g) < Place(rung) => req.match[g] = {}

\* A run that ends with 0 or 1 wrote the whole answer, from the first rung
\* of the ladder that matches, and 0 says that the query as given matched
\* (outcome.rs; scan_once's fall back to a scan).  Which names are similar is
\* discovery: the last rung may find none.
OkIsComplete == Checked /\ exit \in {"found", "nothing"} => WroteItAll

\* The same of every answer, as ARCHITECTURE.md has it: "A block whose digest
\* does not match marks the index corrupt and the query falls back to the scan".
EveryOkIsComplete == exit \in {"found", "nothing"} => WroteItAll

\* A run that said it rebuilds the index, because it noted a failed check,
\* recovered from a SIGBUS or stopped a streamed answer, leaves no query a
\* snapshot that failed, and a rebuild started behind it unless another
\* process published one since (mark_corrupt, flush_pending_build).  A panic
\* and a second fault lose the queued rebuild: the next query queues it.
PromiseKept ==
    pc = "done" /\ req.persist /\ (noted \/ image = "again" \/ exit = "incomplete") =>
        /\ fate # "used"
        /\ exit \notin {"panic", "sigbus"} => spawned \/ fate = "superseded"

\* "A block whose digest does not match [...] marks the index corrupt [...], a
\* rebuild is queued" (ARCHITECTURE.md): after any answer given.
FailureIsQueued ==
    exit \in {"found", "nothing"} /\ failed /\ req.persist =>
        spawned \/ fate = "superseded"

\* "A panic anywhere in the index path is caught" (ARCHITECTURE.md).
PanicDegrades == exit # "panic"

\* Every run ends: each recovery happens at most once.
Terminates == <>(pc = "done")

=============================================================================
