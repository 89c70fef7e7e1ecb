--------------------------- MODULE IndexDirectory ---------------------------
(***************************************************************************)
(* One layout directory and the locks its processes take on it             *)
(* (greeg-index: lock.rs, purge.rs, legacy.rs; greeg: main.rs `run_index`; *)
(* greeg-query: indexed.rs).                                               *)
(*                                                                         *)
(* A full build runs under the BUILDING marker, and every publication      *)
(* under LOCK.  Both are files: a lock is held on the file a process       *)
(* opened, an inode, and not on the name, which others may meanwhile       *)
(* remove or bind to another file.  A purge (or the cleanup of a layout    *)
(* unverified for 14 days) removes the directory under LOCK, LOCK last.    *)
(*                                                                         *)
(* An inode is a number, 0 for none.  A manifest is the number of the      *)
(* build that made it, its epoch, and of the changes published since.      *)
(* What builds write into the directory is "data".                         *)
(***************************************************************************)
EXTENDS Integers, FiniteSets

CONSTANTS
    Builders,    \* `greeg index` processes
    Queries,     \* searches, which publish deltas and ask whether one builds
    Purgers,     \* `greeg purge --yes`, and builds of another version
    \* bounds of the model
    MaxInodes, MaxPublications, MaxCrashes

ASSUME ProcessesAreDistinct ==
    /\ Builders \cap Queries = {} /\ Builders \cap Purgers = {}
    /\ Queries \cap Purgers = {}

ASSUME CapsAssumption == {MaxInodes, MaxPublications, MaxCrashes} \subseteq Nat

VARIABLES
    lock,      \* the inode LOCK names
    marker,    \* the inode BUILDING names
    entries,   \* the other entries: "data", "manifest", "OWNER"
    inodes,    \* inodes made
    version,   \* the manifest last published
    flock,     \* <<i, p>>: p holds the flock on inode i
    crashes,
    proc

vars == <<lock, marker, entries, inodes, version, flock, crashes, proc>>

Procs == Builders \cup Queries \cup Purgers

Pcs == {"idle",
        \* a build: its marker, its walk and parse
        "open", "tryMark", "sameFile", "owner", "work", "drop", "unlink", "close",
        \* a query: what it opened is stale; a probe of the marker
        "stale", "probe",
        \* any writer: waiting for LOCK, holding it, its manifest checked
        "wait", "critical", "publish",
        \* a purge
        "tryLock", "list", "remove", "manifest", "OWNER", "LOCK",
        \* a build or a purge has ended
        "done"}

\* `epoch` and the deltas and second phase published on it.
Version == [epoch : Nat, changes : Nat]
NoVersion == [epoch |-> 0, changes |-> 0]

Process == [pc : Pcs,
            fd : Nat,           \* the inode of LOCK it opened
            mark : Nat,         \* the inode of BUILDING it opened
            base : Version,     \* the manifest a query opened, a build published
            phase : 1 .. 2,
            listed : SUBSET {"data", "marker"},  \* entries a purge goes through
            failed : BOOLEAN]

Idle == [pc |-> "idle", fd |-> 0, mark |-> 0, base |-> NoVersion, phase |-> 1,
         listed |-> {}, failed |-> FALSE]

\* No directory yet, or one that holds an index.
Init ==
    /\ \/ /\ lock = 0 /\ inodes = 0
          /\ entries = {} /\ version = NoVersion
       \/ /\ lock = 1 /\ inodes = 1
          /\ entries = {"data", "manifest", "OWNER"}
          /\ version = [epoch |-> 1, changes |-> 0]
    /\ marker = 0
    /\ flock = {}
    /\ crashes = 0
    /\ proc = [p \in Procs |-> Idle]

Done == [Idle EXCEPT !.pc = "done"]

Become(p, r) == proc' = [proc EXCEPT ![p] = r]
Goto(p, pc) == Become(p, [proc[p] EXCEPT !.pc = pc])

Free(i) == \A q \in Procs : <<i, q>> \notin flock

Manifest == IF "manifest" \in entries THEN version ELSE NoVersion

-----------------------------------------------------------------------------
(* The BUILDING marker (`take_marker`, `Marker::drop`, `marker_held`) *)

StartBuild(b) ==
    /\ proc[b].pc = "idle"
    /\ Become(b, [Idle EXCEPT !.pc = "open"])
    /\ UNCHANGED <<lock, marker, entries, inodes, version, flock, crashes>>

\* O_CREAT: the file there is, or a new one.
OpenMarker(b) ==
    LET i == IF marker = 0 THEN inodes + 1 ELSE marker
    IN  /\ proc[b].pc = "open" /\ i <= MaxInodes
        /\ marker' = i
        /\ inodes' = IF marker = 0 THEN inodes + 1 ELSE inodes
        /\ Become(b, [proc[b] EXCEPT !.pc = "tryMark", !.mark = i])
        /\ UNCHANGED <<lock, entries, version, flock, crashes>>

TryMarkerShared(b) ==
    /\ proc[b].pc = "tryMark"
    /\ flock' = flock \cup {<<proc[b].mark, b>>}
    /\ Goto(b, "sameFile")
    /\ UNCHANGED <<lock, marker, entries, inodes, version, crashes>>

\* A lock that stays taken for five tries is another build's, or probes'.
TryMarker(b) ==
    /\ proc[b].pc = "tryMark"
    /\ IF Free(proc[b].mark)
       THEN /\ flock' = flock \cup {<<proc[b].mark, b>>}
            /\ Goto(b, "sameFile")
       ELSE /\ UNCHANGED flock
            /\ Become(b, Done) \/ Goto(b, "tryMark")
    /\ UNCHANGED <<lock, marker, entries, inodes, version, crashes>>

WhateverFile(b) == TRUE

\* The name still means the file that is locked.
SameFile(b) == marker = proc[b].mark

\* The owner before us may have removed the file after we opened it.
CheckMarker(b) ==
    /\ proc[b].pc = "sameFile"
    /\ IF SameFile(b)
       THEN Goto(b, "owner") /\ UNCHANGED flock
       ELSE /\ flock' = flock \ {<<proc[b].mark, b>>}
            /\ Become(b, [Idle EXCEPT !.pc = "open"])
    /\ UNCHANGED <<lock, marker, entries, inodes, version, crashes>>

\* Dropping the marker: remove the file if it is still ours, then close it.
DropMarker(b) ==
    /\ proc[b].pc = "drop"
    /\ Goto(b, IF SameFile(b) THEN "unlink" ELSE "close")
    /\ UNCHANGED <<lock, marker, entries, inodes, version, flock, crashes>>

UnlinkMarker(b) ==
    /\ proc[b].pc = "unlink"
    /\ marker' = 0
    /\ Goto(b, "close")
    /\ UNCHANGED <<lock, entries, inodes, version, flock, crashes>>

CloseMarker(b) ==
    /\ proc[b].pc = "close"
    /\ flock' = flock \ {<<proc[b].mark, b>>}
    /\ Become(b, Done)
    /\ UNCHANGED <<lock, marker, entries, inodes, version, crashes>>

\* A query asks whether a build runs by locking the marker for an instant;
\* when none does, it starts one.
Probe(q) ==
    /\ proc[q].pc = "idle" /\ marker # 0
    /\ IF Free(marker)
       THEN /\ flock' = flock \cup {<<marker, q>>}
            /\ Become(q, [Idle EXCEPT !.pc = "probe", !.mark = marker])
       ELSE UNCHANGED <<flock, proc>>
    /\ UNCHANGED <<lock, marker, entries, inodes, version, crashes>>

EndProbe(q) ==
    /\ proc[q].pc = "probe"
    /\ flock' = flock \ {<<proc[q].mark, q>>}
    /\ Become(q, Idle)
    /\ UNCHANGED <<lock, marker, entries, inodes, version, crashes>>

-----------------------------------------------------------------------------
(* Writers *)

\* The build's first step: the directory is marked as greeg's own.
WriteOwner(b) ==
    /\ proc[b].pc = "owner"
    /\ entries' = entries \cup {"OWNER"}
    /\ Goto(b, "work")
    /\ UNCHANGED <<lock, marker, inodes, version, flock, crashes>>

\* A query opens the index and finds a changed file.
OpenIndex(q) ==
    /\ proc[q].pc = "idle" /\ Manifest # NoVersion
    /\ Become(q, [Idle EXCEPT !.pc = "stale", !.base = Manifest])
    /\ UNCHANGED <<lock, marker, entries, inodes, version, flock, crashes>>

\* `open_lock`: LOCK is created when missing, an existing one reused.
OpenLock(p) ==
    LET i == IF lock = 0 THEN inodes + 1 ELSE lock
    IN  /\ proc[p].pc = IF p \in Queries THEN "stale" ELSE "work"
        /\ i <= MaxInodes
        /\ lock' = i
        /\ inodes' = IF lock = 0 THEN inodes + 1 ELSE inodes
        /\ Become(p, [proc[p] EXCEPT !.pc = "wait", !.fd = i])
        /\ UNCHANGED <<marker, entries, version, flock, crashes>>

TakeLock(p) ==
    /\ proc[p].pc = "wait" /\ Free(proc[p].fd)
    /\ flock' = flock \cup {<<proc[p].fd, p>>}
    /\ Goto(p, "critical")
    /\ UNCHANGED <<lock, marker, entries, inodes, version, crashes>>

PublishAnyway(p) == TRUE

FirstPhase(p) == p \in Builders /\ proc[p].phase = 1

\* Phase 1 replaces any manifest, phase 2 its build's, whatever deltas were
\* published on it, and a delta the one its query opened.
Own(p) == IF p \in Queries THEN Manifest = proc[p].base
          ELSE Manifest.epoch = proc[p].base.epoch
MayPublish(p) == FirstPhase(p) \/ Own(p)

\* LOCK is released.  A build goes on to its second phase unless it stops
\* after the first, or its manifest was gone.
Release(p) ==
    /\ flock' = flock \ {<<proc[p].fd, p>>}
    /\ LET next == [proc[p] EXCEPT !.base = version', !.fd = 0]
       IN  IF p \in Queries THEN Become(p, Idle)
           ELSE \/ /\ proc[p].phase = 1
                   /\ Become(p, [next EXCEPT !.pc = "work", !.phase = 2])
                \/ Become(p, [next EXCEPT !.pc = "drop"])

\* The manifest is read again under LOCK.
CheckManifest(p) ==
    /\ proc[p].pc = "critical"
    /\ IF MayPublish(p)
       THEN Goto(p, "publish") /\ UNCHANGED <<version, flock>>
       ELSE UNCHANGED version /\ Release(p)
    /\ UNCHANGED <<lock, marker, entries, inodes, crashes>>

\* Components, then the manifest by a rename.
Publish(p) ==
    /\ proc[p].pc = "publish" /\ version.epoch + version.changes < MaxPublications
    /\ entries' = entries \cup {"data", "manifest"}
    /\ version' = IF FirstPhase(p) THEN [epoch |-> version.epoch + 1, changes |-> 0]
                   ELSE [version EXCEPT !.changes = @ + 1]
    /\ Release(p)
    /\ UNCHANGED <<lock, marker, inodes, crashes>>

-----------------------------------------------------------------------------
(* Removal of the directory (`purge_one`, `legacy::clean`, `remove_layout`) *)

\* Only a directory whose OWNER greeg wrote; LOCK is never created for it, and
\* one that is absent counts as free.
PurgeOpen(p) ==
    /\ proc[p].pc = "idle" /\ "OWNER" \in entries
    /\ Become(p, [Idle EXCEPT !.pc = IF lock = 0 THEN "list" ELSE "tryLock",
                              !.fd = lock])
    /\ UNCHANGED <<lock, marker, entries, inodes, version, flock, crashes>>

PurgeLock(p) ==
    /\ proc[p].pc = "tryLock"
    /\ IF Free(proc[p].fd)
       THEN flock' = flock \cup {<<proc[p].fd, p>>} /\ Goto(p, "list")
       ELSE Become(p, Idle) /\ UNCHANGED flock        \* in use, kept
    /\ UNCHANGED <<lock, marker, entries, inodes, version, crashes>>

PurgeList(p) ==
    /\ proc[p].pc = "list"
    /\ Become(p, [proc[p] EXCEPT !.pc = "remove",
            !.listed = (entries \cap {"data"})
                       \cup (IF marker = 0 THEN {} ELSE {"marker"})])
    /\ UNCHANGED <<lock, marker, entries, inodes, version, flock, crashes>>

\* Any listed entry; one that is gone by now makes the removal stop.
PurgeEntry(p) ==
    \E e \in proc[p].listed :
        LET there == IF e = "marker" THEN marker # 0 ELSE e \in entries
        IN  /\ proc[p].pc = "remove"
            /\ marker' = IF e = "marker" THEN 0 ELSE marker
            /\ entries' = entries \ {e}
            /\ Become(p, [proc[p] EXCEPT !.listed = @ \ {e},
                                         !.failed = @ \/ ~there])
            /\ UNCHANGED <<lock, inodes, version, flock, crashes>>

Released(p) == flock \ {<<proc[p].fd, p>>}

OwnerFirst == <<"OWNER", "manifest", "LOCK">>

\* manifest and OWNER go after everything else, LOCK last.
LastEntries == <<"manifest", "OWNER", "LOCK">>

PurgeRest(p) ==
    /\ proc[p].pc = "remove" /\ proc[p].listed = {}
    /\ IF proc[p].failed
       THEN Become(p, Done) /\ flock' = Released(p)
       ELSE Goto(p, LastEntries[1]) /\ UNCHANGED flock
    /\ UNCHANGED <<lock, marker, entries, inodes, version, crashes>>

PurgeLast(p) ==
    /\ \E i \in 1 .. 2 :
          /\ proc[p].pc = LastEntries[i]
          /\ Goto(p, LastEntries[i + 1])
    /\ entries' = entries \ {proc[p].pc}
    /\ UNCHANGED <<lock, marker, inodes, version, flock, crashes>>

\* Then the directory, when nothing new is in it.
PurgeEnd(p) ==
    /\ proc[p].pc = "LOCK"
    /\ lock' = 0
    /\ flock' = Released(p)
    /\ Become(p, Done)
    /\ UNCHANGED <<marker, entries, inodes, version, crashes>>

-----------------------------------------------------------------------------

\* A process dies and the kernel drops its locks; its files stay.
Crash(p) ==
    /\ proc[p].pc \notin {"idle", "done"} /\ crashes < MaxCrashes
    /\ crashes' = crashes + 1
    /\ flock' = {h \in flock : h[2] # p}
    /\ Become(p, IF p \in Queries THEN Idle ELSE Done)
    /\ UNCHANGED <<lock, marker, entries, inodes, version>>

BuildStep(b) ==
    \/ StartBuild(b) \/ OpenMarker(b) \/ TryMarker(b) \/ CheckMarker(b)
    \/ WriteOwner(b) \/ DropMarker(b) \/ UnlinkMarker(b) \/ CloseMarker(b)
WriteStep(p) == OpenLock(p) \/ TakeLock(p) \/ CheckManifest(p) \/ Publish(p)
QueryStep(q) == OpenIndex(q) \/ Probe(q) \/ EndProbe(q)
PurgeStep(p) ==
    \/ PurgeOpen(p) \/ PurgeLock(p) \/ PurgeList(p) \/ PurgeEntry(p)
    \/ PurgeRest(p) \/ PurgeLast(p) \/ PurgeEnd(p)

Next ==
    \/ \E b \in Builders : BuildStep(b)
    \/ \E p \in Builders \cup Queries : WriteStep(p)
    \/ \E q \in Queries : QueryStep(q)
    \/ \E p \in Purgers : PurgeStep(p)
    \/ \E p \in Procs : Crash(p)

Spec == Init /\ [][Next]_vars

-----------------------------------------------------------------------------
(* Properties *)

TypeOK ==
    /\ {lock, marker, inodes, crashes} \subseteq Nat
    /\ lock <= inodes /\ marker <= inodes /\ version \in Version
    /\ entries \subseteq {"data", "manifest", "OWNER"}
    /\ flock \subseteq (1 .. inodes) \X Procs
    /\ proc \in [Procs -> Process]

Building(p) == p \in Builders /\ proc[p].pc \in
                  {"owner", "work", "wait", "critical", "publish", "drop", "unlink"}

\* No purge has started to remove anything.
Unpurged == \A p \in Purgers : proc[p].pc \in {"idle", "tryLock"}

\* "One build per index": whatever markers come and go under them, and
\* however often one dies, two builds never work at once.
OneAtWork == \A b, c \in Builders : Building(b) /\ Building(c) => b = c
OneBuild == Unpurged => OneAtWork

\* Why: a build that works holds the file BUILDING names.
MarkerNamed ==
    \A b \in Builders : Building(b) => marker = proc[b].mark

\* While a purge or a cleanup removes, or a writer publishes, nobody else
\* does: each "holds an exclusive flock on <index dir>/LOCK".
Exclusive(p) ==
    proc[p].pc \in
        {"critical", "publish", "list", "remove", "manifest", "OWNER", "LOCK"}
OneExclusive == \A p, q \in Procs : Exclusive(p) /\ Exclusive(q) => p = q
WritersExclude == Unpurged => OneExclusive

\* The invariant IndexDirectoryProofs proves until something is removed: a
\* flock has one holder, whoever is past a lock holds it on the file its name
\* means, and the two locks are never the same file.
HasMarker == {"sameFile", "owner", "work", "wait", "critical", "publish",
              "drop", "unlink", "close"}

LocksBound ==
    /\ \A h, g \in flock : h[1] = g[1] => h[2] = g[2]
    /\ \A b \in Builders : proc[b].pc \in HasMarker => <<proc[b].mark, b>> \in flock
    /\ \A p \in Procs : proc[p].pc \in {"wait", "critical", "publish"} =>
          lock # 0 /\ proc[p].fd = lock
    /\ \A p \in Procs : proc[p].pc \in {"critical", "publish"} =>
          <<proc[p].fd, p>> \in flock
    /\ lock # 0 => marker # lock /\ \A p \in Procs : proc[p].mark # lock
    /\ \A p \in Procs : /\ proc[p].mark <= inodes
                        /\ proc[p].pc = "tryMark" => proc[p].mark # 0
    /\ MarkerNamed

LocksSound == Unpurged => LocksBound

\* What removals leave of a layout, stopped half-way or not, is recognised by
\* the next cleanup: OWNER goes after everything a delta may publish.
NoBuildStarted == \A b \in Builders : proc[b].pc = "idle"
Recognised ==
    NoBuildStarted /\ entries \cap {"data", "manifest"} # {} => "OWNER" \in entries

\* A purge leaves alone what is in use: a working build keeps its marker.
InUseIsKept ==
    [][\A p \in Purgers, b \in Builders :
          PurgeStep(p) /\ Building(b) => marker' = marker]_vars

\* A delta or a second phase replaces only the manifest it was made for, until
\* something is removed under a build.
OnlyItsOwn ==
    [][\A p \in Builders \cup Queries :
          version' # version /\ proc[p].pc = "publish" /\ proc'[p].pc # "publish"
          /\ ~FirstPhase(p) /\ (Unpurged \/ NoBuildStarted) => Own(p)]_vars

=============================================================================
