------------------------------ MODULE Snapshot ------------------------------
(***************************************************************************)
(* How one index directory is published, read and cleaned                  *)
(* (greeg-index: snapshot.rs, build.rs, fresh.rs `apply`, index.rs `open`;  *)
(* greeg-query: indexed.rs).                                               *)
(*                                                                         *)
(* A build writes its files into a directory of its own, `g-<epoch>/`, and *)
(* publishes them by renaming a new `manifest` over the old one, first     *)
(* with the postings and the file table (phase 1), then with symbols and a *)
(* second file table (phase 2).  A query opens every file the manifest     *)
(* names without any lock, may publish a delta segment, a verification     *)
(* stamp, or mark the snapshot unusable.  Writers serialise on LOCK; what  *)
(* a publication supersedes is retired, and removed by a later one.        *)
(*                                                                         *)
(* Data is abstracted to file names and to the manifest's fields that the  *)
(* protocol reads back.  grams.bin and words.bin are one file here         *)
(* ("postings"), and so are symbols.bin, spans.bin and graph.bin           *)
(* ("symbols"): each group is written, named and retired together.         *)
(***************************************************************************)
EXTENDS Integers, FiniteSets

CONSTANTS
    Builders,       \* `greeg index` processes
    Queries,        \* searches, verbs and `greeg index --refresh` processes
    NoProc,         \* nobody holds LOCK
    RetireAge,      \* RETIRE_MS, in ticks
    RetiredBuilds,  \* RETIRED_BUILDS
    OpenAttempts,   \* OPEN_ATTEMPTS
    MaxRemovals,    \* MAX_REMOVALS
    DeltaLimit,     \* deltas that make a rebuild due (16 in `rebuild_reason`)
    InodeChecks,    \* what a check may find: {TRUE} that inode numbers are not
                    \* kept (ch.no_ino), {FALSE} that they are, or both
    \* bounds of the model
    MaxEpoch,       \* builds that get as far as choosing an epoch
    MaxTime,        \* ticks of the clock
    MaxFaults,      \* crashes, power losses and corruptions
    MaxEvents,      \* ticks and faults together
    MaxLag          \* ticks between a writer's now_ms() and its rename

ASSUME ProcessesAssumption ==
    /\ Builders \cap Queries = {}
    /\ NoProc \notin Builders \cup Queries

ASSUME LimitsAssumption ==
    /\ RetireAge \in Nat \ {0}
    /\ {RetiredBuilds, OpenAttempts, MaxRemovals, DeltaLimit} \subseteq Nat
    /\ InodeChecks \subseteq BOOLEAN
    \* one cleaning pass removes all that one publication lets fall due
    /\ (RetiredBuilds + 1) * (DeltaLimit + 2) <= MaxRemovals
    /\ {MaxEpoch, MaxTime, MaxFaults, MaxEvents, MaxLag} \subseteq Nat

VARIABLES
    clock,     \* the wall clock that now_ms() reads
    lock,      \* the process that holds the flock on LOCK
    manifest,  \* the contents of `manifest`
    files,     \* the component files on disk
    torn,      \* those of them a power loss tore
    made,      \* the last epoch handed out
    faults,    \* faults so far
    proc       \* the private state of each process

vars == <<clock, lock, manifest, files, torn, made, faults, proc>>

Procs == Builders \cup Queries

-----------------------------------------------------------------------------
(* Names and manifests *)

Kinds == {"postings", "files", "symbols", "skipped", "delta", "dir"}

Name == [epoch : Nat, kind : Kinds, n : Nat]

File(e, k, i) == [epoch |-> e, kind |-> k, n |-> i]

\* The directory of build e, as an entry of the `retired` list.
GenDir(e) == File(e, "dir", 0)

Manifest == [epoch : Nat, seq : 1 .. 2, deltas : Nat, skipped : Nat,
             retired : SUBSET [name : Name, since : Nat],
             ok : BOOLEAN,      \* phase1; phase2 is ok /\ seq = 2
             noIno : BOOLEAN]   \* stamp_mode is STAMP_NO_INO

\* No readable manifest; real epochs are never 0.
NoManifest == [epoch |-> 0, seq |-> 1, deltas |-> 0, skipped |-> 0,
               retired |-> {}, ok |-> FALSE, noIno |-> FALSE]

Snap(m) == <<m.epoch, m.seq, m.deltas>>

\* The files a manifest names.
Named(m) ==
    IF m.epoch = 0 THEN {}
    ELSE {File(m.epoch, "postings", 1), File(m.epoch, "files", m.seq),
          File(m.epoch, "skipped", m.skipped)}
         \cup (IF m.seq = 2 THEN {File(m.epoch, "symbols", 2)} ELSE {})
         \cup {File(m.epoch, "delta", i) : i \in 1 .. m.deltas}

\* Names the removal of entry x deletes: a file, or a whole build directory.
Within(f, x) == f = x \/ x = GenDir(f.epoch)

-----------------------------------------------------------------------------
(* The retired list (`retire`).  Epochs grow with each publication, so the *)
(* oldest retired builds are those with the smallest epochs.               *)

DueATickEarly(retired, t) == {r \in retired : t - r.since + 1 >= RetireAge}

Due(retired, t) == {r \in retired : t - r.since >= RetireAge}

Kept(retired, new, t) ==
    (retired \ Due(retired, t)) \cup {[name |-> x, since |-> t] : x \in new}

Builds(retired) ==
    {r.name.epoch : r \in {s \in retired : s.name.kind = "dir"}}

\* Retired builds beyond the newest RetiredBuilds.
Excess(retired) ==
    {e \in Builds(retired) :
        Cardinality({f \in Builds(retired) : f > e}) >= RetiredBuilds}

StillRetired(retired, new, t) ==
    LET keep == Kept(retired, new, t)
    IN  {r \in keep : r.name.epoch \notin Excess(keep)}

ToRemove(retired, new, t) ==
    LET keep == Kept(retired, new, t)
    IN  {r.name : r \in Due(retired, t)}
        \cup {r.name : r \in {s \in keep : s.name.epoch \in Excess(keep)}}

-----------------------------------------------------------------------------
(* Processes *)

Pcs == {"idle",
        \* under LOCK: writing files, publishing, cleaning
        "write", "publish", "clean",
        \* a build: walking the tree, then parsing it
        "walk", "parse",
        \* a query: opening, deciding, waiting for LOCK, asking for a build
        "read", "open", "retry", "opened",
        "stampLock", "deltaLock", "markLock", "spawn"}

Jobs == {"none", "phase1", "phase2", "delta", "stamp", "mark", "corrupt"}

Locked == {"write", "publish", "clean"}

Process == [pc : Pcs, job : Jobs,
            mine : Manifest,      \* the manifest a build made, a query opened
            next : Manifest,      \* the manifest about to be published
            todo : SUBSET Name,   \* files still to write, or still to open
            due : SUBSET Name,    \* entries to remove once published
            gone : Nat,           \* removals so far in this pass
            now : Nat,            \* the now_ms() this process acts on; while
                                  \* a query opens, when it read the manifest
            tries : Nat,          \* failed opens
            round : Nat]          \* 0, 1: checks to go; 2: answer

Idle == [pc |-> "idle", job |-> "none", mine |-> NoManifest,
         next |-> NoManifest, todo |-> {}, due |-> {}, gone |-> 0,
         now |-> 0, tries |-> 0, round |-> 0]

Become(p, r) == proc' = [proc EXCEPT ![p] = r]

\* p takes LOCK to publish `m`, after writing the files `new`.
Begin(p, job, m, new) ==
    /\ lock = NoProc
    /\ lock' = p
    /\ Become(p, [proc[p] EXCEPT !.pc = "write", !.job = job,
                                 !.next = m, !.todo = new])

Init ==
    /\ clock = 0
    /\ lock = NoProc
    /\ manifest = NoManifest
    /\ files = {}
    /\ torn = {}
    /\ made = 0
    /\ faults = 0
    /\ proc = [p \in Procs |-> Idle]

\* The orders in which components are written and opened; deltas by number.
WriteRank == [postings |-> 1, symbols |-> 2, files |-> 3, delta |-> 4, skipped |-> 5]
OpenRank == [files |-> 1, postings |-> 2, symbols |-> 3, delta |-> 4, skipped |-> 5]

\* f comes first among the names in S.
First(f, S, rank) ==
    \A g \in S : \/ rank[f.kind] < rank[g.kind]
                 \/ rank[f.kind] = rank[g.kind] /\ f.n <= g.n

-----------------------------------------------------------------------------
(* Publishing: the steps every writer takes under LOCK.                    *)

\* One component file, written beside its name and renamed to it.
Write(p) ==
    \E f \in proc[p].todo :
        /\ proc[p].pc = "write" /\ First(f, proc[p].todo, WriteRank)
        /\ files' = files \cup {f}
        /\ torn' = torn \ {f}
        /\ Become(p, [proc[p] EXCEPT !.todo = @ \ {f}])
        /\ UNCHANGED <<clock, lock, manifest, made, faults>>

SupersededByName(p) ==
    IF proc[p].job = "phase2" THEN {File(manifest.epoch, "files", 2)} ELSE {}

SupersededBuildOnly(p) ==
    IF proc[p].job = "phase1" /\ manifest.epoch # 0
    THEN {GenDir(manifest.epoch)} ELSE {}

\* What the publication p prepares supersedes.
Superseded(p) ==
    LET m == proc[p].next
    IN  CASE proc[p].job = "phase1" ->
                 IF manifest.epoch = 0 THEN {} ELSE {GenDir(manifest.epoch)}
          [] proc[p].job = "phase2" ->
                 {File(manifest.epoch, "files", manifest.seq)}
          [] proc[p].job = "delta" /\ m.skipped # manifest.skipped ->
                 {File(manifest.epoch, "skipped", manifest.skipped)}
          [] OTHER -> {}

\* The time a publication retires at: a stamp read the clock before it
\* waited for LOCK, the others read it after writing their files.
RetireTime(p) == IF proc[p].job = "stamp" THEN proc[p].now ELSE clock

Prepare(p) ==
    LET t == RetireTime(p)
        old == IF proc[p].job = "mark" THEN manifest.retired
               ELSE StillRetired(manifest.retired, Superseded(p), t)
    IN  /\ proc[p].pc = "write" /\ proc[p].todo = {}
        /\ Become(p, [proc[p] EXCEPT
                !.pc = "publish", !.now = t, !.next.retired = old,
                !.due = IF proc[p].job = "mark" THEN {}
                        ELSE ToRemove(manifest.retired, Superseded(p), t)])
        /\ UNCHANGED <<clock, lock, manifest, files, torn, made, faults>>

Publish(p) ==
    /\ proc[p].pc = "publish"
    /\ manifest' = proc[p].next
    /\ Become(p, [proc[p] EXCEPT !.pc = "clean",
                    !.mine = IF p \in Builders THEN proc[p].next ELSE @])
    /\ UNCHANGED <<clock, lock, files, torn, made, faults>>

\* One removal of `clean`; a name that is already gone does not count.
Clean(p) ==
    \E x \in proc[p].due :
        LET victims == {f \in files : Within(f, x)}
        IN  /\ proc[p].pc = "clean" /\ proc[p].gone < MaxRemovals
            /\ files' = files \ victims
            /\ torn' = torn \ victims
            /\ Become(p, [proc[p] EXCEPT !.due = @ \ {x},
                            !.gone = IF victims = {} THEN @ ELSE @ + 1])
            /\ UNCHANGED <<clock, lock, manifest, made, faults>>

\* A phase-1 publication also removes build directories its manifest neither
\* names nor retires.  Their age (ORPHAN_MS) is left open: any may be old.
CleanOrphan(b) ==
    \E e \in {f.epoch : f \in files} \ ({manifest.epoch} \cup Builds(manifest.retired)) :
        /\ proc[b].pc = "clean" /\ proc[b].job = "phase1"
        /\ proc[b].due = {} /\ proc[b].gone < MaxRemovals
        /\ files' = {f \in files : f.epoch # e}
        /\ torn' = {f \in torn : f.epoch # e}
        /\ Become(b, [proc[b] EXCEPT !.gone = @ + 1])
        /\ UNCHANGED <<clock, lock, manifest, made, faults>>

\* Where p goes on once it has released LOCK.
Onward(p) ==
    CASE proc[p].job = "phase1" -> [Idle EXCEPT !.pc = "parse", !.mine = proc[p].mine]
      [] proc[p].job = "delta" -> [Idle EXCEPT !.pc = "read", !.round = 2]
      [] proc[p].job = "mark" -> [Idle EXCEPT !.pc = "spawn"]
      [] OTHER -> Idle

Release(p) ==
    /\ proc[p].pc = "clean"
    /\ proc[p].due = {} \/ proc[p].gone >= MaxRemovals
    /\ lock' = NoProc
    /\ \/ Become(p, Onward(p))
       \/ proc[p].job = "phase1" /\ Become(p, Idle)   \* phase1_only
    /\ UNCHANGED <<clock, manifest, files, torn, made, faults>>

-----------------------------------------------------------------------------
(* A build *)

\* The walk and the extraction run outside LOCK and touch nothing here.
StartBuild(b) ==
    /\ proc[b].pc = "idle"
    /\ made < MaxEpoch
    /\ Become(b, [Idle EXCEPT !.pc = "walk"])
    /\ UNCHANGED <<clock, lock, manifest, files, torn, made, faults>>

BuildPhase1(b) ==
    LET m == [NoManifest EXCEPT !.epoch = made + 1, !.ok = TRUE,
                                !.noIno = manifest.noIno]
    IN  /\ proc[b].pc = "walk"
        /\ made < MaxEpoch
        /\ made' = made + 1
        /\ Begin(b, "phase1", m, Named(m))
        /\ UNCHANGED <<clock, manifest, files, torn, faults>>

MineOrAbandoned(b) == manifest.epoch = proc[b].mine.epoch

\* Phase 2 publishes only over the phase 1 it belongs to.
StillMine(b) == manifest.epoch = proc[b].mine.epoch /\ manifest.ok

BuildPhase2(b) ==
    LET e == proc[b].mine.epoch
        m == [proc[b].mine EXCEPT !.seq = 2, !.deltas = manifest.deltas,
                                  !.skipped = manifest.skipped]
    IN  /\ proc[b].pc = "parse" /\ StillMine(b)
        /\ Begin(b, "phase2", m, {File(e, "symbols", 2), File(e, "files", 2)})
        /\ UNCHANGED <<clock, manifest, files, torn, made, faults>>

\* Abandoned, superseded or vanished meanwhile: the build fails.
BuildBail(b) ==
    /\ proc[b].pc = "parse" /\ lock = NoProc /\ ~StillMine(b)
    /\ Become(b, Idle)
    /\ UNCHANGED <<clock, lock, manifest, files, torn, made, faults>>

-----------------------------------------------------------------------------
(* A query: `Index::open`, then `open_fresh_with`. *)

StartQuery(q) ==
    /\ proc[q].pc = "idle"
    /\ Become(q, [Idle EXCEPT !.pc = "read"])
    /\ UNCHANGED <<clock, lock, manifest, files, torn, made, faults>>

FailedQuietly(q) ==
    IF proc[q].job = "corrupt" THEN [Idle EXCEPT !.pc = "markLock"] ELSE Idle

\* A query that finds no usable index asks for a build after its answer; one
\* that fails to open it again after a delta only reports the error.
Failed(q) ==
    IF proc[q].round > 0 THEN Idle
    ELSE IF proc[q].job = "corrupt" THEN [Idle EXCEPT !.pc = "markLock"]
    ELSE [Idle EXCEPT !.pc = "spawn"]

ReadManifest(q) ==
    /\ proc[q].pc = "read"
    /\ Become(q,
         IF manifest.epoch = 0 THEN Failed(q)
         ELSE [proc[q] EXCEPT !.mine = manifest, !.now = clock,
                              !.pc = IF manifest.ok THEN "open" ELSE "retry",
                              !.todo = IF manifest.ok THEN Named(manifest) ELSE {}])
    /\ UNCHANGED <<clock, lock, manifest, files, torn, made, faults>>

\* Opens the next file.  Only the skipped record may be missing or damaged:
\* without it the index answers, its coverage unknown.
OpenFile(q) ==
    \E f \in proc[q].todo :
        /\ proc[q].pc = "open" /\ First(f, proc[q].todo, OpenRank)
        /\ f \in files \ torn \/ f.kind = "skipped"
        /\ Become(q, [proc[q] EXCEPT !.todo = @ \ {f}])
        /\ UNCHANGED <<clock, lock, manifest, files, torn, made, faults>>

\* A missing file is an error; a torn one fails its block digests, which the
\* process remembers (integrity::note_failed).
OpenFails(q) ==
    \E f \in proc[q].todo :
        /\ proc[q].pc = "open" /\ First(f, proc[q].todo, OpenRank)
        /\ f \notin files \ torn /\ f.kind # "skipped"
        /\ Become(q, [proc[q] EXCEPT !.pc = "retry", !.todo = {},
                        !.job = IF f \in torn THEN "corrupt" ELSE @])
        /\ UNCHANGED <<clock, lock, manifest, files, torn, made, faults>>

\* Open again only while the snapshot keeps changing, a bounded number of times.
Retry(q) ==
    LET changed == manifest.epoch # 0 /\ Snap(manifest) # Snap(proc[q].mine)
    IN  /\ proc[q].pc = "retry"
        /\ Become(q, IF changed /\ proc[q].tries + 1 < OpenAttempts
                     THEN [proc[q] EXCEPT !.pc = "read", !.tries = @ + 1]
                     ELSE Failed(q))
        /\ UNCHANGED <<clock, lock, manifest, files, torn, made, faults>>

Opened(q) ==
    /\ proc[q].pc = "open" /\ proc[q].todo = {}
    /\ Become(q, [proc[q] EXCEPT !.pc = "opened", !.job = "none", !.tries = 0])
    /\ UNCHANGED <<clock, lock, manifest, files, torn, made, faults>>

\* Fresh within the TTL, answered around pending changes, or --no-persist.
Answer(q) ==
    /\ proc[q].pc = "opened"
    /\ Become(q, Idle)
    /\ UNCHANGED <<clock, lock, manifest, files, torn, made, faults>>

\* The freshness check decides: nothing changed (`stampLock`), a delta
\* (`deltaLock`, extracted before LOCK is taken), or too much (`spawn`).
Check(q) ==
    /\ proc[q].pc = "opened" /\ proc[q].round < 2
    /\ \E pc \in {"stampLock", "spawn"}
                 \cup {x \in {"deltaLock"} : proc[q].mine.deltas < DeltaLimit} :
          Become(q, [proc[q] EXCEPT !.pc = pc, !.now = clock])
    /\ UNCHANGED <<clock, lock, manifest, files, torn, made, faults>>

SameBuild(q) == manifest.epoch # 0 /\ manifest.epoch = proc[q].mine.epoch

\* `same_index`: the manifest under LOCK is the one the query opened.
SameIndex(q) == manifest.epoch # 0 /\ Snap(manifest) = Snap(proc[q].mine)

\* An unchanged tree: refresh the verification stamp and drop what is due.
\* `found` is a check that saw inode numbers change by themselves.
ApplyStamp(q) ==
    /\ proc[q].pc = "stampLock" /\ SameIndex(q)
    /\ \E found \in InodeChecks :
          Begin(q, "stamp", [manifest EXCEPT !.noIno = @ \/ found], {})
    /\ UNCHANGED <<clock, manifest, files, torn, made, faults>>

\* `skips`: the changes alter the skipped record, written with the delta.
ApplyDelta(q) ==
    LET n == proc[q].mine.deltas + 1
    IN  /\ proc[q].pc = "deltaLock" /\ SameIndex(q)
        /\ \E found \in InodeChecks, skips \in BOOLEAN :
              Begin(q, "delta",
                    [manifest EXCEPT !.deltas = n, !.noIno = @ \/ found,
                                     !.skipped = IF skips THEN n ELSE @],
                    {File(manifest.epoch, "delta", n)}
                    \cup (IF skips THEN {File(manifest.epoch, "skipped", n)} ELSE {}))
        /\ UNCHANGED <<clock, manifest, files, torn, made, faults>>

\* Another writer republished first: nothing is written.  A stamp is given
\* up; a delta is computed again once, from the snapshot published meanwhile.
ApplyNothing(q) ==
    /\ proc[q].pc \in {"stampLock", "deltaLock"}
    /\ lock = NoProc /\ ~SameIndex(q)
    /\ Become(q, IF proc[q].pc = "stampLock" THEN Idle
                 ELSE [Idle EXCEPT !.pc = "read", !.round = proc[q].round + 1])
    /\ UNCHANGED <<clock, lock, manifest, files, torn, made, faults>>

\* A block of the open snapshot fails its check.
FindCorrupt(q) ==
    /\ proc[q].pc = "opened"
    /\ faults < MaxFaults /\ clock + faults < MaxEvents
    /\ faults' = faults + 1
    /\ Become(q, [Idle EXCEPT !.pc = "markLock", !.mine = proc[q].mine])
    /\ UNCHANGED <<clock, lock, manifest, files, torn, made>>

\* `mark_corrupt`: only the snapshot this process opened, or any when it
\* opened none.
MayMark(q) ==
    proc[q].mine.epoch = 0 \/ Snap(manifest) = Snap(proc[q].mine)

MarkCorrupt(q) ==
    /\ proc[q].pc = "markLock" /\ manifest.epoch # 0 /\ MayMark(q)
    /\ Begin(q, "mark", [manifest EXCEPT !.ok = FALSE], {})
    /\ UNCHANGED <<clock, manifest, files, torn, made, faults>>

MarkNothing(q) ==
    /\ proc[q].pc = "markLock" /\ lock = NoProc
    /\ manifest.epoch = 0 \/ ~MayMark(q)
    /\ Become(q, IF manifest.epoch = 0 THEN [Idle EXCEPT !.pc = "spawn"] ELSE Idle)
    /\ UNCHANGED <<clock, lock, manifest, files, torn, made, faults>>

\* The queued build starts, unless one is running (its BUILDING marker).
SpawnBuild(q) ==
    LET free == {b \in Builders : proc[b].pc = "idle" /\ made < MaxEpoch}
    IN  /\ proc[q].pc = "spawn"
        /\ IF free = {} THEN Become(q, Idle)
           ELSE \E b \in free :
                   proc' = [proc EXCEPT ![q] = Idle,
                                        ![b] = [Idle EXCEPT !.pc = "walk"]]
        /\ UNCHANGED <<clock, lock, manifest, files, torn, made, faults>>

-----------------------------------------------------------------------------
(* The environment *)

\* A process dies; the kernel drops its lock.
Crash(p) ==
    /\ proc[p].pc # "idle"
    /\ faults < MaxFaults /\ clock + faults < MaxEvents
    /\ faults' = faults + 1
    /\ lock' = IF lock = p THEN NoProc ELSE lock
    /\ Become(p, Idle)
    /\ UNCHANGED <<clock, manifest, files, torn, made>>

\* Every process dies.  Base components are fsynced; delta segments and the
\* manifest are not, so any of them may come back torn.
PowerLoss ==
    /\ faults < MaxFaults /\ clock + faults < MaxEvents
    /\ faults' = faults + 1
    /\ lock' = NoProc
    /\ proc' = [p \in Procs |-> Idle]
    /\ \E lost \in SUBSET {f \in files : f.kind = "delta"} : torn' = torn \cup lost
    /\ manifest' \in {manifest, NoManifest}
    /\ UNCHANGED <<clock, files, made>>

\* Bounded: a writer renames its manifest soon after reading the clock.
Tick ==
    /\ clock < MaxTime /\ clock + faults < MaxEvents
    /\ \A p \in Procs : proc[p].pc = "publish" /\ proc[p].job # "stamp"
                            => clock - proc[p].now < MaxLag
    /\ clock' = clock + 1
    /\ UNCHANGED <<lock, manifest, files, torn, made, faults, proc>>

Step(p) ==
    \/ Write(p) \/ Prepare(p) \/ Publish(p) \/ Clean(p) \/ Release(p)

BuildStep(b) ==
    \/ Step(b) \/ CleanOrphan(b)
    \/ BuildPhase1(b) \/ BuildPhase2(b) \/ BuildBail(b)

QueryStep(q) ==
    \/ Step(q)
    \/ ReadManifest(q) \/ OpenFile(q) \/ OpenFails(q) \/ Retry(q)
    \/ Opened(q) \/ Answer(q) \/ Check(q)
    \/ ApplyStamp(q) \/ ApplyDelta(q) \/ ApplyNothing(q)
    \/ MarkCorrupt(q) \/ MarkNothing(q) \/ SpawnBuild(q)

Next ==
    \/ \E b \in Builders : StartBuild(b) \/ BuildStep(b)
    \/ \E q \in Queries : StartQuery(q) \/ QueryStep(q) \/ FindCorrupt(q)
    \/ \E p \in Procs : Crash(p)
    \/ PowerLoss
    \/ Tick

Spec == Init /\ [][Next]_vars

-----------------------------------------------------------------------------
(* Fairness.  The scheduler runs every process that can go on.  flock wakes *)
(* its waiters whenever LOCK is released, and each holder keeps it for a    *)
(* bounded publication, so a waiter is not passed over for ever.  Queries   *)
(* keep arriving; nothing is assumed of builds a user starts, nor of faults.*)

TakesLock(p) ==
    \/ p \in Builders /\ (BuildPhase1(p) \/ BuildPhase2(p) \/ BuildBail(p))
    \/ p \in Queries /\ (\/ ApplyStamp(p) \/ ApplyDelta(p) \/ ApplyNothing(p)
                         \/ MarkCorrupt(p) \/ MarkNothing(p))

Fairness ==
    /\ \A b \in Builders : WF_vars(BuildStep(b)) /\ SF_vars(TakesLock(b))
    /\ \A q \in Queries : /\ WF_vars(QueryStep(q)) /\ SF_vars(TakesLock(q))
                          /\ WF_vars(StartQuery(q))

FairSpec == Spec /\ Fairness

-----------------------------------------------------------------------------
(* Properties *)

TypeOK ==
    /\ clock \in Nat
    /\ lock \in Procs \cup {NoProc}
    /\ manifest \in Manifest
    /\ files \subseteq Name
    /\ torn \subseteq files
    /\ made \in Nat
    /\ faults \in Nat
    /\ proc \in [Procs -> Process]
    /\ \A p \in Procs : proc[p].pc \in Locked <=> lock = p

\* Whatever writers, cleaners and crashes do, every file the manifest names
\* is on disk: `clean` never removes part of the published snapshot.
NamedOnDisk == Named(manifest) \subseteq files

\* A name is never written again while a query may open it through a manifest
\* it read, nor while the manifest names it ("never renamed over").
NeverRewritten ==
    \A p \in Procs : proc[p].pc = "write" =>
        /\ proc[p].todo \cap Named(manifest) = {}
        /\ \A q \in Queries : proc[p].todo \cap Named(proc[q].mine) = {}

\* A query fails to open a whole snapshot only once the manifest names
\* another: its retry then sees the change, and an index nobody republished
\* never looks missing.
FailsOnlyWhenSuperseded ==
    \A q \in Queries :
        proc[q].pc = "retry" /\ proc[q].mine.ok /\ proc[q].job # "corrupt"
            => manifest.epoch = 0 \/ Snap(manifest) # Snap(proc[q].mine)

\* The grace period: a query that read its manifest less than RETIRE_MS ago
\* (less a publication's own delay) can still open every file it names,
\* unless more than RETIRED_BUILDS builds were published since.
GracePeriod ==
    \A q \in Queries :
        proc[q].pc = "open"
        /\ clock - proc[q].now + MaxLag < RetireAge
        /\ manifest.epoch - proc[q].mine.epoch <= RetiredBuilds
            => Named(proc[q].mine) \subseteq files

\* Without faults nothing is left behind: between publications every file on
\* disk is named by the manifest or waits in its retired list, so at most
\* RETIRED_BUILDS superseded builds take up space.
NothingLeaks ==
    lock = NoProc /\ faults = 0 =>
        /\ \A f \in files :
              \/ f \in Named(manifest)
              \/ \E r \in manifest.retired : Within(f, r.name)
        /\ Cardinality({f.epoch : f \in files}) <= RetiredBuilds + 1

\* A query ends, however often the snapshot changes under it.
QueriesEnd == \A q \in Queries : proc[q].pc # "idle" ~> proc[q].pc = "idle"

\* An index marked corrupt, torn or lost is rebuilt as queries keep coming,
\* unless the model has no epoch left for another build.
Usable == manifest.ok /\ Named(manifest) \cap torn = {}
NoBuildLeft ==
    made = MaxEpoch /\ \A b \in Builders : proc[b].pc \in {"idle", "walk", "parse"}
Rebuilt == ~Usable ~> (Usable \/ NoBuildLeft)

\* What readers rely on, whatever fails: they end, and an index comes back.
Recovers == QueriesEnd /\ Rebuilt

-----------------------------------------------------------------------------
(* Why the named files stay on disk: the invariant SnapshotProofs proves.   *)

\* Entry x of a retired or removal list is no part of the snapshot m.
Superfluous(m, x) ==
    \/ x.epoch < m.epoch
    \/ /\ x.epoch = m.epoch
       /\ \/ x = File(m.epoch, "files", 1) /\ m.seq = 2
          \/ x.kind = "skipped" /\ x.n < m.skipped

Sound(m) ==
    /\ m.epoch <= made
    /\ m.skipped <= m.deltas
    /\ \A r \in m.retired : Superfluous(m, r.name)

\* What each job may change of the manifest it read under LOCK.
Follows(p) ==
    LET m == proc[p].next
    IN  CASE proc[p].job = "phase1" ->
                 p \in Builders /\ m.epoch > manifest.epoch /\ m.seq = 1
          [] proc[p].job = "phase2" ->
                 /\ p \in Builders /\ m.epoch = manifest.epoch
                 /\ manifest.seq = 1 /\ m.seq = 2
                 /\ m.deltas = manifest.deltas /\ m.skipped = manifest.skipped
          [] proc[p].job = "delta" ->
                 /\ p \in Queries /\ m.epoch = manifest.epoch
                 /\ m.seq = manifest.seq /\ m.deltas = manifest.deltas + 1
                 /\ m.skipped \in {manifest.skipped, m.deltas}
          [] proc[p].job \in {"stamp", "mark"} ->
                 /\ p \in Queries
                 /\ Snap(m) = Snap(manifest) /\ m.skipped = manifest.skipped
          [] OTHER -> FALSE

\* The process under LOCK, from the files it writes to those it removes.
WriterSound(p) ==
    LET m == proc[p].next
    IN  /\ proc[p].pc \in {"write", "publish"} =>
              m.epoch \in 1 .. made /\ m.skipped <= m.deltas /\ Follows(p)
        /\ proc[p].pc = "write" => Named(m) \subseteq files \cup proc[p].todo
        /\ proc[p].pc = "publish" =>
              /\ Named(m) \subseteq files /\ Sound(m)
              /\ \A x \in proc[p].due : Superfluous(m, x)
        /\ proc[p].pc = "clean" =>
              \A x \in proc[p].due : Superfluous(manifest, x)

\* The epoch a build publishes under.
Claims(b) == proc[b].pc \in Locked \cup {"parse"}
Claim(b) == IF proc[b].pc = "parse" THEN proc[b].mine.epoch ELSE proc[b].next.epoch

\* Phase 2 of a build is the only one to complete that build's snapshot.
BuildSound(b) ==
    /\ Claims(b) => Claim(b) \in 1 .. made
    /\ proc[b].pc = "clean" /\ proc[b].job = "phase1" =>
          /\ proc[b].mine.epoch = proc[b].next.epoch
          /\ manifest.epoch = proc[b].next.epoch /\ manifest.seq = 1
    /\ proc[b].pc = "parse" /\ manifest.epoch = proc[b].mine.epoch => manifest.seq = 1
    /\ \A c \in Builders \ {b} : Claims(b) /\ Claims(c) => Claim(b) # Claim(c)

\* The published snapshot is whole, its retired entries are no part of it, and
\* so is whatever the process under LOCK is about to make of it.
PublicationSound ==
    /\ NamedOnDisk
    /\ Sound(manifest)
    /\ \A p \in Procs : WriterSound(p)
    /\ \A b \in Builders : BuildSound(b)

-----------------------------------------------------------------------------
(* The publications as atomic changes of the current snapshot. *)

Publications ==
    INSTANCE Publications WITH
        NoSnapshot <- <<0, 1, 0>>,
        current <- Snap(manifest),
        usable <- manifest.ok,
        handed <- made,
        base <- [q \in Queries |-> Snap(proc[q].mine)]

\* Every publication is computed from the snapshot it replaces: no delta is
\* lost by phase 2, none is laid over another snapshot, and an abandoned or
\* superseded build is never published again.
Atomic == Publications!Spec

=============================================================================
