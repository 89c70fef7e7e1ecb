# A TLA+ verification of greeg

greeg answers code searches from an on-disk index that it keeps current by
itself.  Any number of `greeg` processes, started by people and by agents, read
and change the same index directory at once, and a query never waits for a
build.  What is hard about the program is therefore not one algorithm but what
happens between processes, threads, users who edit files and crashes.  This
directory models that, and the algorithms whose mistakes would show as missing
lines: TLA+ modules translated from the source, TLC configurations that check
them on small instances, and TLAPS proofs, for every value of the constants, of
what matters most.

Paths below are relative to the repository.  `index/` abbreviates
`crates/greeg-index/src/`, `query/` is `crates/greeg-query/src/` and `cli/` is
`crates/greeg/src/`.

## 1. Inventory

### Parts, their state and their operations

| Part | State it keeps | Operations | What makes it correct |
|---|---|---|---|
| Snapshots (`index/snapshot.rs`, `lib.rs`, `index.rs`) | `manifest` (epoch, sequence, deltas, tombstones, retired list, stamps), the component files it names | read and open with retries, retire, clean, abandon, mark corrupt | the manifest never names a file that is not there; no file is rewritten under its name; a failed open means a newer snapshot; nothing leaks |
| Builds (`index/build.rs`) | a walk, extracted grams and symbols, a budget of bytes to parse | walk, phase 1 (text index), phase 2 (symbols), settle racy files | both publications replace what they were computed from; the budget neither starves nor overflows |
| Checks and deltas (`index/fresh.rs`, `query/indexed.rs`) | stamps of files and directories, `verified_unix_ms`, inode mode | stat pass, relist, walk new directories, publish a delta, defer to a background refresh | no change hides from the next check; what is "verified as of" is so; answers are as fresh as promised |
| Locks and markers (`index/lock.rs`) | `LOCK`, `BUILDING`, `REFRESHING` and the flocks on the files they name | take, test, drop, probe | one build at a time; writers exclude each other |
| Purge (`index/purge.rs`, `legacy.rs`) | the entries of an index directory | remove a layout in an order that can be resumed | what is left is recognised |
| Planning and postings (`index/plan.rs`, `gram.rs`, `words.rs`, `external.rs`) | sorted segments, posting lists | regex to a query over grams, extract, spill, merge | no matching file is left out; spilling changes nothing |
| Imports and symbols (`index/resolve.rs`, `derive.rs`, `symtab.rs`) | file tables, edges, version chains | resolve, say what a change may move, look up | a graph kept by deltas is the graph a build would make |
| Answering (`query/lib.rs`, `indexed.rs`, `index/commit.rs`, `integrity.rs`, `cli/main.rs`, `stream.rs`) | the attempt under way, the rung of the ladder, failure flags, queued background work, the output and whether a byte of it is out | answer from the index, fall back to a scan, climb the ladder, answer again after a SIGBUS, end | stdout holds a prefix of the one true answer; 0 and 1 mean complete; what was promised about the index is done; every run ends |
| Ordered streaming (`query/ordered.rs`) | a channel of batches, two mutexes, a map of finished chunks | claim, receive, read, hand over, write in order, stop | order, bounded lead, no deadlock |
| Hits and layout (`query/lib.rs`, `find.rs`, `shape.rs`, `precise.rs`) | pools of hits, spilled offsets, a budget of tokens | keep, prune, spill, refill, shape, report the rest | each shown line is one that matched; what is left out is told |
| Verbs (`query/verbs.rs`, `change.rs`, `impact_diff.rs`) | entries listed from an index, version chains | def, impls, changes, impact | located where they are, listed once, graded by what they do |
| Limits (`cli/verbs_out.rs`, `main.rs`) | none | bisect what fits bytes and tokens | within the limits, and what was cut is told |
| Session memory (`query/session.rs`, `session_store.rs`) | one log of records per session | load, append, rewrite, sweep; mark context as shown | acknowledged records are kept; logs stay within what readers accept; marks rest on what was printed |
| Statistics (`cli/stats.rs`) | an event log of two generations | append, rotate, clear, read, pair runs with hooks | no record lost, doubled or paired with another's |
| Hook installation (`cli/hook_config.rs`, `hook.rs`, `hook_skill.rs`) | configuration files of other programs | read, edit, replace under a lock | nothing of the user's is lost; success means done |
| Shell rewriting (`cli/rewrite.rs`, `hook.rs`) | none | decide, translate `rg` and `grep` | same meaning, same place, or left alone |
| Ignore rules, skipped entries (`index/ignores.rs`, `skipped.rs`, `rel.rs`) | records of skipped entries | decide what is indexed | index and scan agree on the files |
| Language extraction (`crates/greeg-lang`), FSEvents, reports, JSON | none | lex, parse, replay directories, format | sequential, tested by unit tests |

### How they interact

* A query reads `manifest`, maps the files it names and checks the tree
  (`open_fresh_with`).  What changed it answers from disk, publishes as a delta
  under `LOCK`, or leaves to a refresh it starts when it ends.
* A build takes the marker `BUILDING`, walks and extracts without any lock,
  takes `LOCK` for phase 1's publication, parses without it and takes it again
  for phase 2.  Deltas, stamps, corruption marks and other publications may come
  between.
* Who publishes also removes: superseded files wait in the manifest's retired
  list for `RETIRE_MS`, or until `RETIRED_BUILDS` builds superseded theirs.
* A failed digest, a panic or a SIGBUS while the index is read turns into a scan
  (or a new process image) as long as nothing of the answer is out, and into a
  rebuild that starts after the answer.
* A streamed answer is read by worker threads and written by the calling thread.
* After its answer a search appends a record to its session's log, which later
  searches of the session read.
* An agent's command line goes to the hook, which may rewrite it and records
  that; the shell runs the line, and each greeg in it records its run in the same
  log.

### Hard behaviours

Interleavings of processes at every step outside `LOCK`; clean-up racing opens;
crashes between writing components, manifest and removals; power loss, as
neither the manifest nor deltas are fsynced; state read before a lock and used
under it (the manifest, the clock, `OWNER`); lock files that are unlinked while
others hold or wait for them; edits between a stat and a read, and within one tick
of a coarse clock; failures that arrive half-way through an answer; worker
threads that wait for a writer that waits for them; logs at their limits; a
deletion of one part of a regex's requirements; ids of one snapshot used with
another.  `PROJECT.json` lists each at the line where it bites, with the properties
that would catch it going wrong.

## 2. Modules

| Module | Models | Proofs |
|---|---|---|
| `Snapshot` | the manifest protocol: builds, queries, deltas, stamps, corruption marks, retirement, faults | `SnapshotProofs` |
| `Publications` | what publishing promises, abstractly; `Snapshot` implements it (`Atomic`) | |
| `IndexDirectory` | `LOCK`, `BUILDING`, `OWNER`: markers, probes, writers, purges, crashes | `IndexDirectoryProofs` |
| `MCIndex` | both of the last but one, composed for the run `index` | `IndexDirectoryProofs` |
| `Freshness` | users' changes, stat passes, reads, deltas, builds against one tree | `FreshnessProofs` |
| `ParseBudget` | the byte budget of phase 2, shared by the parse threads | `MCContentsProofs` |
| `Plan`, `GramIndex` | from a regex to the grams a file must hold; extraction, spills, merge and evaluation | `MCContentsProofs` (of the index) |
| `ImportGraph` | resolution of imports, what a delta recomputes, version chains | |
| `Answer` | one run of `greeg` from its arguments to its exit status | `MCInvocationsProofs` |
| `OrderedStream` | `ordered::run` and the walk that feeds it | `SearchProofs` |
| `SessionLog` | the session store and its users | `MCInvocationsProofs` |
| `MCInvocations` | `Answer` and `SessionLog`, composed for the run `invocations` | `MCInvocationsProofs` |
| `Lines`, `Shape` | the hits a ranked search keeps, and what a layout shows and tells of them | `SearchProofs` (of `Lines`) |
| `Listing` | what `def` and `impls` list, and where | `MCAnswersProofs` |
| `Impact`, `Change` | the grades of `impact`; the definitions a diff touched | `MCAnswersProofs` |
| `Fit` | what of an answer fits `--budget` and `--max-bytes` | `MCAnswersProofs` |
| `Rewrite`, `StatsLog`, `AgentCalls` | the hook's rewriting; the event log; one agent's call from hook to statistics | `MCAgentsProofs` |
| `HookInstall` | installs and uninstalls against editors and crashes | `MCAgentsProofs` |

They split the program where it splits itself: `Snapshot` abstracts which process
may build (`IndexDirectory` says so) and what a check finds (`Freshness` says
so); `Freshness` abstracts a publication to one step, which `Snapshot`'s
`Atomic` justifies; `Answer` abstracts the index to "usable, unusable,
superseded".  An `MC...` module composes the modules whose parts a run
explores; parts that share no state move one at a time, `part` saying which,
so that no interleaving is left out that the code could tell apart.

### Snapshot

`manifest`, `files`, `lock` and `clock` are the directory; `proc[p]` is what a
process holds: the manifest it read (`mine`), the one it will publish (`next`), the
files to write (`todo`) and to remove (`due`).  Names are records [kind, epoch,
n] as `snapshot.rs` builds them.  A publication runs through the code's steps:
`Begin` (take `LOCK`, read the manifest), write components, publish (rename
over `manifest`), clean, release, each an action, so that a crash or a reader falls
between any two.  `BuildPhase1`, `BuildPhase2` and `BuildBail` are `build` and
`phase2`; `ApplyStamp`, `ApplyDelta` and `ApplyNothing` are `fresh::apply`;
`MarkCorrupt` and `MarkNothing` are `mark_corrupt`.  Opening reads the manifest,
then opens each file, and retries while the manifest changed, at most
`OPEN_ATTEMPTS` times.  `Crash` frees the flock; `PowerLoss` tears what was not
synced or loses the manifest.  What a file holds is left out: it is whole or torn.

### IndexDirectory

Here names and inodes differ: `lock` and `marker` are the inodes `LOCK` and
`BUILDING` name (0: none), `flock` says who holds which inode, and a process
keeps the inode it opened.  `OpenMarker`, `TryMarker` and `CheckMarker` are
`take_marker`, `DropMarker`, `UnlinkMarker` and `CloseMarker` the marker's drop,
`Probe` and `EndProbe` `marker_held`, `OpenLock` and `TakeLock` `lock::writer`.
`PurgeOpen` to `PurgeEnd` are `purge_one` and `remove_layout`: without a check
that `LOCK` still is what it was, and taking an absent `LOCK` as free.

### Freshness

The tree is a set of entries with a stamp and a content number.  Stamps hold a
time, in ticks of the file system's clock, and an inode; a stamp read less than
`Window` ticks after its time is racy.  Users write, replace, remove, create,
move directories out and back, and a mount may number inodes anew; each may
happen between any two steps of a check: `OpenFresh`, `StatEntry`, `Classify`,
`ListDir`, `ToRead`, `Open`, `Read`, `Settle`, `ApplyDelta`, `Defer`, `EndAnswer`.
`Read` returns the bytes of the start or of the end of the read.  A build walks
(`ListDir` from the root), reads, publishes (`Phase1`), reads again for symbols
(`Parse`) and publishes again (`Phase2`).  Two history variables serve the
properties only: `touched`, when a file last changed, and `hidden`, the files
that came where no check looks (section 6).

### Answer

One process.  `req` is the request with what it matches on each rung of the
ladder; the actions are the steps of `run`, `scan`, `scan_once`, `answered`,
`Stream::go` and `finish_run`.  `BlockFails` (a digest does not match),
`IndexPanics`, `SigbusReruns` or `SigbusEnds` and `WriteFails` may happen wherever
the code can meet them.  `Commit` and `Write` are two steps because a SIGBUS may
come between them.  An answer is the matching files in path order.

### OrderedStream

One action per step between two lock operations of `ordered::run`: a worker
initialises, claims (or waits for room), takes the source's mutex, receives and
numbers a batch, reads it, puts it into `done`; the writer looks for the next
chunk, emits, advances, finishes, joins.  `walk` sends into a channel of
`QueueCap` batches and polls `stopped`.  Panics may strike `init`, `work` and `emit`.

### SessionLog

`log[k]` is a session's file: whole lines, bytes of an unfinished one, an
mtime.  A run opens (reads without the lock), searches, shapes (marks), emits,
makes its record, waits for the lock, loads again, rewrites or appends in two
steps, and a run that starts a session sweeps expired logs.  `Stop` ends
a run anywhere.  `acked` is history: what a run was told is saved.

### Plan, GramIndex, ParseBudget, ImportGraph

`Plan` turns a regex tree into required, prefix, suffix and exact grams as
`plan.rs` does, with its bounds on sets and strings; `Grams` and `Words` say which
keys a file yields; its recursions over expressions and queries are recursive
functions on what nests in one (`Within`, no deeper than `MaxNest`).  `GramIndex` gathers chunks of files with a share of the budget,
spills sorted segments, merges, amends by a delta and asks.  `ParseBudget` is
`left` bytes and one condition variable with spurious wakeups.  `ImportGraph`
resolves Python, Rust and JavaScript imports over small trees, before and after
edits; a delta extracts again what changed and what the change may move.

### Lines, Shape, Listing, Impact, Change, Fit

Each takes its inputs from a small set and runs the code's passes over them, a
user editing between two reads.  `Lines` is the sink of a ranked search with its
pools, spills and refill; `Shape` what of that a layout shows and how the rest
is told; `Listing` what `def` and `impls` list from an index older than the files;
`Impact` the index being opened again between search and grading; `Change` git's
hunks matched to definitions; `Fit` the bisections over renderings.

### Rewrite, StatsLog, AgentCalls, HookInstall

A line is a sequence of commands with the separators that join them, a word its
text and value.  `Rewrite` walks it as `rewrite_full` does; the hook's `Decide`
adds what it asks of the file system.  What `greeg_words` puts out is read again
by greeg's own command line, and must say what the words of `rg` or `grep` said;
presentation flags, a colour of any accepted value among them, say nothing.  In
`AgentCalls` the hook asks, a shell runs
the line (a command may fail, `cd` moves, `||` and `&&` skip), and each greeg
records its run in `StatsLog`, where other writers append, rotate, clear and die.
`HookInstall` runs `install` and `uninstall` of one agent through `Config::read`,
`lock`, `prepare` and `commit` against other commands, users and their editors.

## 3. Runs

| Run | Checks | Instance |
|---|---|---|
| `invocations` | `OutputIsAnswer`, `PromiseKept`, `LogTrue`, `Terminates`, `PruneOnlyExpired` | every kind of request over two files, three rungs; two processes, two sessions, a log one record short of its limit, three runs, one edit |
| `agents` | `LogSound`, `RunsAsChecked`, `SameAsAsked`, `EditsSurvive`, `OkIsDone` | 24 lines in seven file systems, another writer, one rotation, clear, read and fault; words of `rg` and `grep` lines, `--color` with its value joined to it or after it; two installers, one edit, one failure |
| `index` | `OneBuild`, `LocksSound`, `Recognised`, `OnlyItsOwn`, `SnapshotsOpen`, `NeverRewritten` | two builders, a query, a purge, one crash, five inodes; and one builder with one query, a clock and a fault, or with two queries |
| `snapshot_live` | `PublicationSound`, `NothingLeaks`, `Atomic`, `Recovers` | one builder, one query, two builds, one fault, fairness |
| `freshness` | `ChangesShow`, `AnswerFresh`, `BecomesExact` | one query, two files, two directories, two changes of any kind; or a build and a query over one file |
| `stream` | `InOrder`, `BoundedLead`, `OkIsComplete`, `Returns` | three workers, five batches, fairness |
| `contents` | `MemoryBounded`, `PlansComplete`, `SameIndex`, `AsRebuilt`, `ParsesFinish` | every regex of a small grammar against every short text; two chunks of two files; three threads over seven files; projects edited twice |
| `answers` | `LinesKept`, `ToldWhatIsMissing`, `BestShown`, `ChangesReported`, `Located`, `ListedOnce`, `Graded`, `FitsLimits` | three files searched, listed, diffed or edited; five paths graded; four rows to fit |
| `known_directory` | finds `KnownDirectory` violated | lines with `\|\|` before a `cd` |
| `moved_back` | finds `EveryAnswerFresh` violated | a directory moved out and back |
| `change_overloads` | finds `SignatureChanged` violated | two definitions with one key |
| `impact_ids` | finds `LikelyImports` violated | a build between search and grading |

What the passing ones show:

* **The published snapshot is always whole** (`PublicationSound`), whoever
  crashes where, and an open that fails means that the manifest names another
  snapshot (`SnapshotsOpen`), so a query neither blames an intact index nor retries
  for ever.  Within the grace period a query can open what it read.  Every
  publication changes the snapshot it was computed from (`Atomic`): phase 2 loses
  no delta, no delta lands on another snapshot, no abandoned build comes back.  No
  file is rewritten while someone may open it (`NeverRewritten`).  Without
  faults nothing is left behind (`NothingLeaks`).  A bad index is rebuilt
  (`Recovers`).
* **Locks mean what they name** (`LocksSound`, `OneBuild`) as long as nothing is
  purged; writers change only what they were entitled to (`OnlyItsOwn`); a purge
  that stops half-way leaves what the next one recognises (`Recognised`).
* **No change hides**: a file edited within the clock tick of its stamp, during a
  read, between the passes, in a directory that appears while it is walked, is
  found by the next check (`ChangesShow`), and answers and `verified_unix_ms`
  are as fresh as they say (`AnswerFresh`), except for the files in `hidden`, whose
  three ways of getting there section 6 describes.  Once users stop, the index
  becomes exact (`BecomesExact`).
* **No wrong or partial answer passes for a whole one** (`OutputIsAnswer`),
  whatever fails when, `impact --diff` excepted (section 6); a run that says it
  rebuilds does (`PromiseKept`); every run ends (`Terminates`).
* **Streaming** is in order, bounded and does not hang, but for a panic in `emit`.
* **The session log** keeps what it acknowledged, stays readable and marks only
  what was printed (`LogTrue`); it is swept only when expired.
* **The plan** of a regex excludes no file that matches (`PlansComplete`); an
  index gathered with spills is the one gathered without (`SameIndex`); the import
  graph kept by deltas is the one a build makes (`AsRebuilt`).
* **Lines shown are lines that matched**, the best of them, and what was dropped
  is told (`LinesKept`, `BestShown`, `ToldWhatIsMissing`); verbs list each
  definition once, where it is (`ListedOnce`, `Located`); limits hold (`FitsLimits`).
* **What the hook rewrites** runs where and as it was checked (`RunsAsChecked`) and
  asks for the same (`SameAsAsked`); the log keeps, reads once and pairs what was
  recorded (`LogSound`); installs lose nothing of the user's (`EditsSurvive`),
  success means done, and what a command changed itself outlives the power
  (`OkIsDone`; what it found done already may still be lost, when another command
  renamed it and failed before its sync).

For each property of each passing run `PROJECT.json` names a mutant: a plausible
bug in a modelled definition under which TLC finds the property violated by the
same run.  The mutated forms stand beside what they mutate.

### Bounds, and why they are enough

* *Snapshot.*  Two builds are the least for which one supersedes the other and its
  retired files meet a query or a delta of the older one; one fault reaches every
  state a fault can strike.  `MaxEvents` bounds how many deltas, stamps and marks
  are begun.  `MaxLag` bounds how far the clock runs between a writer's reading it
  and publishing.  `index` lets files retire by age, `snapshot_live` at once
  (`RetiredBuilds = 0`), the harshest setting for queries; it has one builder and
  one query only, as `PublicationSound` and `Atomic` are proved for any number.
* *IndexDirectory.*  Five inodes allow each name to be made anew after removals;
  one purge suffices for a removal under a build and one stopped by a crash.
* *Freshness.*  Two changes: one before and one after whatever a check looked at.
  `Window = 1` is the least window in which a stamp is racy at all; no change is
  made when its stamp could not settle before time ends (`MaxTime`).
* *Answer.*  Two files: one handed over, one still to come.
* *OrderedStream.*  `Window = 1` gives the smallest lead the code computes, five
  batches more than the lead of three workers, so that every wait happens.
* *SessionLog.*  One log starts one record short of its limit; the other does not
  exist, so its first run sweeps.  `MaxAge = 1` lets records expire.
* *Plan, GramIndex.*  `MaxNest = 4` is as deep as the grammar nests and the queries that
  planning makes of it; `SameIndex` is proved for any number of chunks and files.
* *Agents.*  One record fills the log, so each append may rotate; `Focus` leaves
  out lines whose run differs from another's only in words that nothing reads.

Runs of systems that stop by themselves say `CHECK_DEADLOCK FALSE`: a run ends, a
clock reaches its bound, builds are used up.  Symmetry is used in runs whose
liveness property is of a part that has no symmetric process (`Terminates` is
about one run of `Answer`, which leaves `Procs` alone).

### Fairness, and why the code justifies it

* `Snapshot`: weak fairness of each process's next step (the scheduler), strong
  fairness of taking `LOCK` (`flock` wakes waiters at each release and each holder
  does a bounded publication), weak fairness of queries arriving.  Nothing is
  assumed of builds, which users start, or of faults.
* `Freshness`: time passes, processes run, queries come.  Strong fairness of
  `ToRead`: a search may defer to a background refresh each time; the refresh it
  starts does not defer.
* `OrderedStream`, `ParseBudget`: weak fairness per thread; mutexes are not
  assumed fair, and a spurious wakeup is never assumed.
* `Answer`: the process takes its next step, whichever of those it can take.
  SIGBUS and failed blocks are never assumed.

## 4. Proofs

Each theorem holds for every value of the constants that satisfies the named
assumptions of its module: which constants are numbers, that sets of processes
are disjoint, that inputs have their types.

| Theorem | States |
|---|---|
| `SnapshotProofs!TypeCorrect`, `PublicationIsSound`, `NothingNamedIsRemoved` | `TypeOK`, `PublicationSound`, `NamedOnDisk` |
| `SnapshotProofs!PublicationsAreAtomic` | `Snapshot` implements `Publications` (`Atomic`) |
| `SnapshotProofs!NamesAreWrittenOnce`, `OpensUnlessSuperseded`, `GraceIsKept`; `IndexDirectoryProofs!SnapshotsStayOpen`, `NamesAreWrittenOnce` | what a query without `LOCK` may count on: `NeverRewritten`, `SnapshotsOpen` |
| `SnapshotProofs!NothingIsLeftBehind` | `NothingLeaks` |
| `IndexDirectoryProofs!LocksAreSound`, `OneBuildAtATime`, `OneWriterAtATime` | `LocksSound`, `OneBuild`, `WritersExclude` |
| `IndexDirectoryProofs!LeftoversAreRecognised`, `PublicationsKeepToTheirBase` | `Recognised`, `OnlyItsOwn` |
| `FreshnessProofs!TypeCorrect`, `ChangesAreShown`, `AnswersAreFresh` | `TypeOK`, `ChangesShow`, `AnswerFresh` |
| `SearchProofs!TypeCorrect`, `ChunksAreSound`, `EmittedInOrder`, `LeadIsBounded`, `OkMeansComplete` | `TypeOK`, `ChunksSound`, `InOrder`, `BoundedLead`, `OkIsComplete` |
| `MCInvocationsProofs!AnswerTypeCorrect`, `OutputIsPrefix`, `OkMeansComplete`, `AnswerPromises`; `AnswersAreTrue`, `PromisesAreKept` | `TypeOK`, `OutIsPrefix`, `OkIsComplete`, `PromiseKept`; `OutputIsAnswer`, `PromiseKept` |
| `MCInvocationsProofs!SessionTypeCorrect`, `LogsAreTrue`, `SweepsAreLate` | `TypeOK`, `LogTrue`, `PruneOnlyExpired` |
| `MCAgentsProofs!EditsAreKept`, `SuccessIsDone` | `EditsSurvive`, `OkIsDone` |
| `MCAgentsProofs!RewritesRunAsChecked` | `RunsAsChecked` |
| `MCAgentsProofs!LogKeepsRecords` | `LogSound` |
| `MCContentsProofs!BudgetChangesNothing`, `MemoryStaysBounded` | `SameIndex`, `MemoryBounded` |
| `MCAnswersProofs!FitsLimitsAlways` | `FitsLimits` |
| `MCAnswersProofs!ListedWhereTheyAre`, `ListedOnceAlways` | `Located`, `ListedOnce` |
| `MCAnswersProofs!GradedAlways` | `Graded` |
| `MCAnswersProofs!ChangesReportedAlways` | `ChangesReported` |
| `SearchProofs!LinesKeptAlways`; `MCAnswersProofs!SearchesAreLines` | `LinesKept` of every search of `Lines`; the searches of the run `answers` are such |

**Snapshot.**  That clean-up never removes what the manifest names is not
inductive: it depends on what is in the retired list, which depends on what each
writer put there, which depends on the manifest not having changed since it took
`LOCK`.  `PublicationSound` says all of it: every retired entry is `Superfluous`
to the manifest (older, or the file table phase 2 replaced, or an older
`skipped`), the process under `LOCK` is preparing a manifest that `Follows` the
present one and holds only superfluous entries in `due` (`WriterSound`), and a
build in phase 2 is the only one to complete its epoch (`BuildSound`).  The
refinement maps `current`, `usable`, `handed` and `base` of `Publications` to
fields of the manifest and of processes; each step is a publication or a
stutter.  What queries count on needs `GraceSound`: a manifest somebody read is
behind the present one, and as long as it is young and at most `RETIRED_BUILDS`
builds old, each file it names is named still or sheltered by an entry of the
retired list that is neither due nor in excess, so that no removal, of due
entries, of excess or of orphans, reaches it.

`NothingLeaks` needs more than where a file is listed: a cleaning pass stops after
`MAX_REMOVALS`, and what it did not get to has left the retired list and is
forgotten.  `TidySound` bounds what one publication can let fall due.  The retired
list holds entries of at most `RETIRED_BUILDS` builds; each entry is the build's
directory, its file table or one of its `skipped` files, of which there are no more
than deltas before a rebuild; and an older build's entries fall due no later than its
directory.  So one pass removes at most `(RETIRED_BUILDS + 1) * (16 + 2)` names, and
`LimitsAssumption` asks that this be at most `MAX_REMOVALS`: 54 and 64 in the code
(snapshot.rs:25-30, fresh.rs `rebuild_reason`).  With room for 53 removals
or a limit of 32 deltas the argument would not go through.

**IndexDirectory.**  One build at a time rests on a build's holding the flock of
the very inode `BUILDING` names.  `LocksBound` states it for both locks: flocks
have one holder, who is past a lock holds it on the inode it opened, and that is
the one the name means.  A purge destroys this, so the invariant is proved as
"`Unpurged` implies `LocksBound`", together with the shape of purging processes
that makes `Unpurged` false from the first removal on and for ever.  `Recognised`
follows from the order of removal (`Layout`): `OWNER` outlives the entries that
make a directory greeg's.

**Freshness.**  `IInv` says what may be relied on of each thing a process or the
index holds: the record of a file without a doubt has the file's content as long
as it has its time; the stamps of directories are no newer than the directory, and
older if something unknown came to it; what a check has seen of files nobody
touched since it began is still so; bytes read are those of their stamp, unless
the stamp moves.  The attempt to prove it with a weaker form of `EditsShow` failed
on a step that TLC, given three changes, confirmed: see section 6, the record of
an unread file.

**OrderedStream.**  Order is inductive only with the bookkeeping behind it:
`ChunksSound` says that claims cover the chunks taken, the lead covers the
claims, and each chunk from the writer's on is with one worker or in `done`,
once, under its own number.  Completeness counts chunks handed over against
chunks sent (`Counted`).

**Answer.**  `AnswerInv` has a part for the control (`Control`: where each flag may be
set), one for what is out (`Told`), one for what has been looked for (`Sought`),
one for exits and one for what was promised.  Rows are listed in path order by a
choice over orderings of a set; that there is one is an induction on the least
counterexample, as are all inductions here: the library's induction theorems take
an operator, which the provers cannot instantiate, and `WFMin`-style "take the
least number in this set" says the same without one.

**SessionLog.**  The folds that measure and read a log are unrolled line by line by
the same argument.  `Holds` says that a log still keeps an acknowledged
record, or has dropped it for its age or for a fuller log, and the invariant carries
it through the two steps of an append, the rewrite, kills in between and the
bytes they leave.

**Agents.**  Three invariants, as the parts share nothing.  `HInv` says that each
edit greeg prepares keeps the user's part of the file it read (`Without` is
idempotent, which is an induction over the entries), and what a command that got
as far as it has knows to be done; the lock is needed for success to mean done, not
for the user's edits to survive.  `LastInv` adds what a command changed itself
(`wrote`, a history field): between the change and the sync of the directory it
is the one file the command is at, and once synced it stays as it was told, since
any later change there puts the file in `over`.  `ShellSound` relates, by `Where`, the directory
and status of the shell to what `rewrite_full`'s loop knew at that command, which
is where the `||` of section 6 breaks it.  `AgentsOk` says of the log that each
record is unique by who made it, that a file somebody has open is the current one,
the older, or was rotated twice or cleared, that who is between `again` and
`check` holds the lock, and that what a reader has read stays where it was in its
inode; pairing, which is a recursion over runs in order of time and place, is
taken apart on initial segments of that order.

**GramIndex, ParseBudget.**  What the parses hold and what is left is the budget;
the sum is over a set of threads, so that it does not depend on the order it is
taken in is proved first, by the least counterexample.  Of the grams the invariant
has two parts.  `Gathering`, while chunks extract: each posting of an extracted
file is with its chunk, held or in one of its segments, and nothing else is; the
names of a chunk's segments are its own, and segments are sorted.  `Merging`: what
has been written is in key order, has for each key exactly the files with it, and
lacks no key up to the last it wrote, so that with nothing left after the last key
it is the whole index.  It needs that the order of keys is total and transitive, that
the merger takes the least key of all segments, and that the records of one key are
joined whichever segments they come from.  What a chunk never spilled is merged
under a name past 1,000,000, which is new only while there are no more chunks than
that: `ChunksAssumption`, and `build` has a few for each thread (build.rs:675).

**Fit.**  The work is in the searches, which are recursive functions on the states a
loop can be in (`Open`, `Probes`); `AtTheEnd` says once for all of them that a
recursion each of whose steps stays in a set and comes nearer to an end, ends with a
result of that set.  The set is the loop's invariant: the last allowance that passed
is the one before the open ones, and the first above them did not pass or is the bound
(`BestBelow`).  So what a search returns passes and the next does not, whatever the
sizes; that nothing above the next passes either is where `FullyUsed` needs answers
that grow with their allowance.  A cut answer is longer than an uncut one by what it
says of the cut, and is measured with that (`MoreToSay`).  `shrink` gives up after
a fixed number of steps, so of it only the limit is claimed, not that it is filled.

**Listing.**  An entry is known by what it stands for: of the index, a definition the
index had at its `was`; of a scan, the line that scan read.  `Placed` follows an entry
from there: until it is described it is where the index had it; described, it is
`Seen`, where its file as read declares what it stands for, or it is `Lost`, its file
as read declares no such thing.  That a text read under the index's stamp is the
index's text (`cache` of `current`) is what lets an entry keep its line, and is why a
file written as the index read it (`Racy`) never counts as current.  `Complete`
carries the total: it is the number of entries exactly when none was cut, entries
leave it only as they are lost, so "N of N" accounts for every definition asked for.
`Apart` says of each line in `have` why it is there: it is listed, or the index had an
implementor there; a scan adds what is in neither list, so no line is in both.  Which
entries a cut keeps rests on `Ranks`: on a finite set under a total order each
position has one element, so that `Ranked` lists every entry once.

**Impact.**  What `impact` trusts is an index opened after the one it searched, so the
invariant is about what a publication leaves of the ones before it (`Published`).
Records are only added; each names the one before it of its path, which is older and
dead (`Chained`), one record of a path is live (`OneLive`), and the live records a
live record leads to are, by path, exactly the imports of its file that are indexed
(`LinksHeld`).  Of a delta the last is the hard one: a target may be replaced by a
record added in the same delta, which `Latest` follows to (`LeadsTo`), and a file may
import one that has just come or gone, which is why such a file is stale
(`NotStale`).  A build is a delta of an index that has nothing.  Ids keep their
meaning only from delta to delta, so `Graded` is claimed while `builds = 0`; that every
use has one grade is in the invariant (`GradedAs`) for any number of builds.  Paths are
numbers here, as they are ordered.

**Change.**  The old and the new text share what the alignment leaves out of the
hunks (`LeftOut`), and nothing else about the alignment is used, so the theorem is for
every one git may choose.  The work is to find, from a declaration that differs, a
line that changed and lies in it: a declaration line is in its own definition before
it is in any other (`DeclarationsOwn`), since a class that begins within another ends
within it (`Nested`, assumed of the texts).  A line that no definition of the
other side has cannot be among the aligned ones (`DeclarationChanged`), and each
definition touched is reported as what `ReportsAre` says of its kind of report.
That no definition is reported twice needs that the three kinds of report are of
different definitions, and that a rename takes the only one gone and the only one come of
a scope (`RenamedIs`).  After an edit that git did not see only `ReportedOnce` holds,
and is claimed of every text.

**Lines.**  A ranked search drops lines whenever it holds too many, knowing only the
lines it has read; `LinesKept` says that it ends with what one choice among all the
lines of the file would keep.  Three orders choose: place, place among the definitions
after the lead, and rank in a pool.  Of each it keeps the first few, and whoever is not
among the first few of some lines is not among the first few of more of them
(`FirstStay`), while whoever leaves took nobody's place (`KeptAgain`).  So a choice
among what an earlier choice left and the lines after it is a choice among all of them
(`PrunedMore`), which is an invariant of sets of line numbers; that a list stands for a
set of numbers in order (`Counts`, `ByNumber`) is proved once and carries it to the
sequences of the code.  The invariant (`Reading`) is that, for some line `m` before the
one being read, what is held is `Pruned` of the lines before `m` and what is recorded
are the lines from `m` on.  An unranked search holds nothing but records definitions
past its limit: either every definition so far is recorded, or there are more than
`MaxDefs` (`DefsRecorded`).  `SearchAssumption` says that texts are sequences and that
what a search may hold is less than `Endless`, the model's `usize::MAX`: otherwise a
ranked search would not be told from one without a limit.

**Only model-checked.**  Liveness under fairness (`Recovers`, `BecomesExact`,
`Returns`, `Terminates`, `ParsesFinish`) and `ENABLED` are out of the prover's
reach.  `PlansComplete` is an induction over expressions nested to any depth, and
`AsRebuilt` is about a recursive resolution over trees; the library's induction
theorems cannot be instantiated for either.  Of the run `answers` the
properties of `Shape` (`ToldWhatIsMissing`, `BestShown`) are about selections that
recur over lists of hits, which the run alone compares; `SameAsAsked`
folds over lists of words against a second reading of the same words.

## 5. Not modelled

* Decoding and encoding of components, page digests (`format.rs`): a file is whole
  or torn, a block fails or not.
* Ignore rules, symbolic links, FSEvents, skipped entries.  Which files a walk
  selects and which a check does is the same but for four cases that reading the
  code shows: hidden names that a `!` rule takes in again, named files that
  their own globs or types exclude, directories made unreadable later, and a
  `.gitignore` edited between a walk's reading it and its stat.
* Block and outline layouts, the adaptive context and facets by area of
  `shape.rs`; `map`, `callers`, `outline` and `show`.
* Languages other than Python, Rust and JavaScript in the import graph.
* Quoting and regex dialects in `rewrite.rs`, clap's treatment of words that
  spell verbs, the reports computed from the statistics.
* Ownership and mode checks (`private.rs`), rendering, argument parsing.

`PROJECT.json` has a note for each part.

## 6. Where the code and what is said of it differ

Four runs expect a violation; `PROJECT.json` quotes the lines under "findings":

* `known_directory`: in `rg x || cd a && grep -rn y d | sort` a first command that
  succeeds skips the `cd`, and the grep runs where its path was not checked.
* `moved_back`: a directory that is moved out of the tree and, after a check
  dropped its files, back again is in `known()` by name and stamp, so its files are
  never added again.  `hidden` has two more kinds of files: those unlinked when they
  are stat'ed and created again before their directory is (`Changes` with "again"),
  and those created in the tick of an earlier change to their directory, after it was
  listed ("sameTick"; `index/build.rs:133` trusts a directory's mtime however
  recent).
* `change_overloads`: of two definitions with one key, the body of the second
  changes and the first is compared with it.
* `impact_ids`: a build between the search and the grading renumbers the files.

The modules state more sentences that TLC refutes, with the constants given here;
the runs check the weaker forms that hold.

| Property | Code | Constants | What happens |
|---|---|---|---|
| `Answer!EveryOkIsComplete` | `query/impact_diff.rs:215` | `Kinds = {"diff"}`, `Climbs = {}`, `N = 2` | `impact --diff` never looks whether a block failed: it exits as complete with definitions missing |
| `Answer!FailureIsQueued` | `query/indexed.rs:564` | `{"search"}`, `{"names"}`, 1 | an attempt that declines after a failed block does not note it: no rebuild is queued |
| `Answer!PanicDegrades` | `query/indexed.rs:202` | `{"verb"}`, `{}`, 1 | a panic in a verb's index read ends the process, though ARCHITECTURE.md says each is caught |
| `IndexDirectory!InUseIsKept` | `index/purge.rs:112` | one builder, one query, one purge | `purge` asks only for `LOCK`, which a build holds only while it publishes; `purge.rs:2` says an index in use "is reported and kept" |
| `OrderedStream!AlwaysReturns` | `query/ordered.rs:118` | two workers, `Panics = {"emit"}` | a panic in `emit` leaves waiting workers waiting, and the call hangs |
| `SessionLog!AcknowledgedIsKept` | `query/session.rs:353` | one session, two runs | a writer whose clock reading is older than a record takes it for future-dated and drops it |
| `SessionLog!SeenWasShown` | `query/session.rs:238` | one edit | context edited within the second of its mtime is marked as shown |

Met while modelling and proving, and stated as exceptions in the definitions:

* A file whose open fails is recorded with the walk's stamp and without a doubt
  (`index/build.rs:389`): written, stat'ed, moved away with its directory, found
  missing, moved back, it has that stamp again and is never read.
* `greeg hook` dies between the hard link and the removal of its private copy: the
  configuration has two links, and later installs refuse it until one is removed.
* Adding `k/src.rs` where no directory `k/src/` exists moves imports that
  `fresh.rs` (near 858) does not look for, against its comment at 687.
* Two stale definitions of one name and kind may relocate to the same line; the
  `have` of `impls` keeps lines of before the file changed.
* A verb's `show` reads the file before the outline's check; `def --mode block`
  reads it once more.
* A reader of the statistics log takes no lock: a rotation between its two reads may
  cost it a generation, never double a record; a record is dropped when the
  log is rotated between create and open, or the lock is busy for 50 ms.
* The rows of facets may exceed the budget by the lines of collapsed groups.

## 7. Plan

Done: the modules of section 2, and the proofs of section 4.

Next, in this order:

1. `Shape`: `BestShown` and `ToldWhatIsMissing`, of the selections as functions on sets of hits.
2. What section 5 lists, where state is kept: FSEvents replay, skipped entries.
