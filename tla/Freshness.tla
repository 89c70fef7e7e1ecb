----------------------------- MODULE Freshness -----------------------------
(***************************************************************************)
(* How an index keeps up with the tree (greeg-index: fresh.rs `check`,     *)
(* `apply`; build.rs `build`, `read_file`, `settle_racy`, `phase2`;        *)
(* greeg-query: indexed.rs `open_fresh_with`).                             *)
(*                                                                         *)
(* A stat pass compares the stamp of every known file and directory with   *)
(* its record and lists the directories that changed; what it found is     *)
(* read again and published as a delta.  Users change the tree between any *)
(* two of these steps.  Timestamps are coarse: changes within a tick of    *)
(* `now` get the same one, so a stamp read within Window ticks of its time *)
(* is not trusted.                                                         *)
(*                                                                         *)
(* A file's stamp is [time, ino]: `time` stands for size, mtime and ctime. *)
(* The publication protocol (manifest, LOCK, files) is Snapshot's; here a  *)
(* publication is one step, made only on the manifest it was computed for. *)
(***************************************************************************)
EXTENDS Integers, FiniteSets

CONSTANTS
    Files, Dirs,
    Root,          \* in Dirs
    Parent,        \* of every file and directory but Root
    Builders, Queries,
    Window,        \* trusted_from, in ticks
    TTL,           \* TTL_MS, in ticks
    NoInoMin,      \* NO_INO_MIN
    Changes,       \* what users do, a subset of AllChanges
    NewSets,       \* the entries that may not exist at the start
    Indexed,       \* a subset of BOOLEAN: whether there is an index, exact, at the start
    \* bounds of the model
    MaxTime, MaxOps, MaxBuilds

Entries == Files \cup Dirs

\* "replace" renames another file over one, "again" creates a file at a path
\* that had one, "away" and "back" move a directory out of the tree and into
\* it again, "sameTick" gives a directory's changes within a tick one mtime,
\* "inodes" numbers every inode anew, as some network mounts do.
AllChanges == {"write", "replace", "remove", "create", "again", "away", "back",
               "sameTick", "inodes"}

ASSUME TreeAssumption ==
    /\ Root \in Dirs /\ Files \cap Dirs = {}
    /\ NewSets \subseteq SUBSET (Entries \ {Root})
    /\ Parent \in [Entries \ {Root} -> Dirs]
    \* what is in a directory that does not exist does not exist either
    /\ \A new \in NewSets : \A e \in Entries \ {Root} : Parent[e] \in new => e \in new
ASSUME ChangesAssumption == Changes \subseteq AllChanges
ASSUME ScaleAssumption ==
    /\ {Window, NoInoMin} \subseteq Nat \ {0}
    /\ {TTL, MaxTime, MaxOps, MaxBuilds} \subseteq Nat
    /\ Indexed \subseteq BOOLEAN
ASSUME ProcessesAssumption == Builders \cap Queries = {}

VARIABLES
    tree,     \* entry -> [there, stamp, content]
    now,
    ops,      \* changes made by users
    builds,   \* builds started
    index,    \* what the manifest names
    touched,  \* file -> when it was last changed (ghost)
    hidden,   \* files that came where no check looks (ghost)
    proc

vars == <<tree, now, ops, builds, index, touched, hidden, proc>>

Procs == Builders \cup Queries

Stamps == [time : Nat, ino : Nat]
Absent == [time |-> 0, ino |-> 0]         \* no stamp: inodes start at 1

\* `doubt` other than "none" is STAMP_RECHECK; `base`: the record is the
\* base segment's, not a delta's.
Records == [stamp : Stamps, content : Nat, symbols : Nat,
            doubt : {"none", "racy", "changed"}, base : BOOLEAN]
NoRec == [stamp |-> Absent, content |-> 0, symbols |-> 0, doubt |-> "none",
          base |-> FALSE]

NoIndex == [live |-> [f \in Files |-> NoRec], dirs |-> [d \in Dirs |-> Absent],
            verified |-> 0, epoch |-> 0, version |-> 0, noIno |-> FALSE]

-----------------------------------------------------------------------------
(* The tree *)

\* Entries on the way from the root, itself included (two levels of
\* directories are as deep as the model goes).
Way(e) == {e} \cup (IF e = Root THEN {} ELSE {Parent[e]})
              \cup (IF e = Root \/ Parent[e] = Root THEN {} ELSE {Parent[Parent[e]]})

ASSUME DepthAssumption == \A e \in Entries : Root \in Way(e)

ReachIn(t, e) == \A w \in Way(e) : t[w].there
Reach(e) == ReachIn(tree, e)
Below(d) == {f \in Files : d \in Way(f)}
Kids(d) == {e \in Entries \ {Root} : Parent[e] = d /\ Reach(e)}

\* The stamp a stat of e returns, Absent when it is gone.
StatOf(e) == IF Reach(e) THEN tree[e].stamp ELSE Absent

\* What a user's change does to the tree; those who look at it have seen the
\* files it touches as they were.  It hides those that come to names a check
\* knows, or to a directory whose mtime does not show it.
Change(kind, t, files, hides) ==
    /\ kind \in Changes /\ ops < MaxOps /\ now + Window <= MaxTime
    /\ ops' = ops + 1
    /\ tree' = t
    /\ touched' = [f \in Files |-> IF f \in files THEN now ELSE touched[f]]
    /\ hidden' = hidden \cup hides
    /\ proc' = [p \in Procs |-> [proc[p] EXCEPT !.since = @ \cup files]]
    /\ UNCHANGED <<now, builds, index>>

\* Inodes and contents are numbered by the change that made them.
Fresh == ops + 2

\* The entry list of d changed: its mtime is the coarse time, or one of its own.
Listed(t, d) ==
    [t EXCEPT ![d].stamp.time = IF "sameTick" \in Changes THEN now ELSE MaxTime + Fresh]

\* The change leaves the mtime of d as it was.
SameMtime(d) == "sameTick" \in Changes /\ tree[d].stamp.time = now

Write(f) ==
    /\ Reach(f)
    /\ Change("write", [tree EXCEPT ![f].stamp.time = now, ![f].content = Fresh], {f}, {})

Replace(f) ==
    /\ Reach(f)
    /\ Change("replace",
              Listed([tree EXCEPT ![f].stamp = [time |-> now, ino |-> Fresh],
                                  ![f].content = Fresh], Parent[f]), {f}, {})

Remove(f) ==
    /\ Reach(f)
    /\ Change("remove", Listed([tree EXCEPT ![f].there = FALSE], Parent[f]), {f}, {})

Create(f) ==
    /\ ~tree[f].there /\ Reach(Parent[f])
    /\ Change(IF tree[f].content = 0 THEN "create" ELSE "again",
              Listed([tree EXCEPT ![f] = [there |-> TRUE, content |-> Fresh,
                          stamp |-> [time |-> now, ino |-> Fresh]]], Parent[f]), {f},
              IF tree[f].content # 0 \/ SameMtime(Parent[f]) THEN {f} ELSE {})

\* Moving a directory changes its parent's entry list, and not its own.
MoveAway(d) ==
    /\ d # Root /\ Reach(d)
    /\ Change("away", Listed([tree EXCEPT ![d].there = FALSE], Parent[d]), Below(d), {})

MoveBack(d) ==
    /\ d # Root /\ ~tree[d].there /\ Reach(Parent[d]) /\ tree[d].stamp # Absent
    /\ Change("back", Listed([tree EXCEPT ![d].there = TRUE], Parent[d]), Below(d),
           Below(d))

MakeDir(d) ==
    /\ tree[d].stamp = Absent /\ Reach(Parent[d])
    /\ Change("create",
              Listed([tree EXCEPT ![d].there = TRUE,
                                  ![d].stamp = [time |-> now, ino |-> Fresh]], Parent[d]), {},
              IF SameMtime(Parent[d]) THEN Below(d) ELSE {})

NumberAnew ==
    Change("inodes", [e \in Entries |-> IF tree[e].stamp = Absent THEN tree[e]
                                        ELSE [tree[e] EXCEPT !.stamp.ino = @ + MaxOps + 2]],
           {}, {})

Tick ==
    /\ now < MaxTime
    /\ now' = now + 1
    /\ UNCHANGED <<tree, ops, builds, index, touched, hidden, proc>>

User == \/ \E f \in Files : Write(f) \/ Replace(f) \/ Remove(f) \/ Create(f)
        \/ \E d \in Dirs : MoveAway(d) \/ MoveBack(d) \/ MakeDir(d)
        \/ NumberAnew

-----------------------------------------------------------------------------
(* Stamps *)

Same(s, r, noIno) == s.time = r.time /\ (noIno \/ s.ino = r.ino)
MovedOnly(s, r) == Same(s, r, TRUE) /\ ~Same(s, r, FALSE)

\* Read too soon for a later write to show in the stamp.
Racy(s, at) == at < s.time + Window

-----------------------------------------------------------------------------
(* A check (`open_fresh_with`, `check_stat`, `relist_dirs`) *)

Idle == [pc |-> "idle", opened |-> NoIndex, retry |-> FALSE,
         checked |-> 0,                      \* when it began to read the tree
         since |-> {},                       \* files touched since then (ghost)
         left |-> {},                        \* entries of the step still to do
         saw |-> [e \in Entries |-> Absent],
         found |-> [f \in Files |-> Absent], \* the walk's stamps: to be read
         gone |-> {}, dirs |-> [d \in Dirs |-> Absent], noIno |-> FALSE,
         got |-> [f \in Files |-> NoRec],
         unsettled |-> {},                   \* racy files to be read again
         from |-> 0,                         \* when the walk or delta began
         \* the file being read: descriptor's stamp, when, bytes so far
         cur |-> Root, before |-> Absent, started |-> 0, bytes |-> 0]

\* Without an index the tree has just been written.
Old(indexed) == [time |-> IF indexed THEN 0 ELSE 1, ino |-> 1]

Start(indexed) ==
    /\ \E new \in NewSets :
          tree = [e \in Entries |->
                    [there |-> e \notin new, content |-> IF e \in new THEN 0 ELSE 1,
                     stamp |-> IF e \in new THEN Absent ELSE Old(indexed)]]
    /\ now = 1 /\ ops = 0 /\ builds = 0
    /\ index = IF ~indexed THEN NoIndex
               ELSE [NoIndex EXCEPT !.version = 1,
                       !.live = [f \in Files |-> IF ~tree[f].there THEN NoRec ELSE
                          [stamp |-> Old(indexed), content |-> 1,
                           symbols |-> 1, doubt |-> "none", base |-> TRUE]],
                       !.dirs = [d \in Dirs |-> tree[d].stamp]]
    /\ touched = [f \in Files |-> Old(indexed).time]
    /\ hidden = {}
    /\ proc = [p \in Procs |-> Idle]

Init == \E indexed \in Indexed : Start(indexed)

Become(p, r) == proc' = [proc EXCEPT ![p] = r]
Step(p, r) == Become(p, r) /\ UNCHANGED <<tree, now, ops, builds, index, touched, hidden>>

\* Known entries: live files and every directory ever recorded.
Live(i) == {f \in Files : i.live[f] # NoRec}
Known(i) == Live(i) \cup {d \in Dirs : i.dirs[d] # Absent}

Checking(i, retry) ==
    [Idle EXCEPT !.pc = "stat", !.opened = i, !.retry = retry, !.checked = now,
                 !.left = Known(i)]

\* An index verified within the TTL answers without a check.
OpenFresh(q) ==
    /\ proc[q].pc = "idle" /\ index.version > 0
    /\ Step(q, IF now - index.verified < TTL
               THEN [Idle EXCEPT !.pc = "answer", !.opened = index,
                       !.since = {f \in Files : touched[f] > now - TTL}]
               ELSE Checking(index, FALSE))

\* Files first, then directories.
StatEntry(q) ==
    \E e \in proc[q].left :
        /\ proc[q].pc = "stat"
        /\ e \in Dirs => proc[q].left \cap Files = {}
        /\ Step(q, [proc[q] EXCEPT !.left = @ \ {e}, !.saw[e] = StatOf(e)])

\* What lies below a directory that is gone is gone (`drop_below_gone`).
Saw(q, e) == IF \E w \in Way(e) \cap Known(proc[q].opened) : proc[q].saw[w] = Absent
             THEN Absent ELSE proc[q].saw[e]

\* Most files differing only in their inode: inodes are not kept here.
InodesMove(q) ==
    LET i == proc[q].opened
        moved == {f \in Live(i) : Saw(q, f) # Absent
                                  /\ MovedOnly(Saw(q, f), i.live[f].stamp)}
    IN  ~i.noIno /\ Cardinality(moved) >= NoInoMin
        /\ 2 * Cardinality(moved) > Cardinality(Live(i))

Classify(q) ==
    LET i == proc[q].opened
        noIno == i.noIno \/ InodesMove(q)
        here == {f \in Live(i) : Saw(q, f) # Absent}
        modified == {f \in here : \/ ~Same(Saw(q, f), i.live[f].stamp, noIno)
                                  \/ i.live[f].doubt # "none"}
        changed == {d \in Known(i) \cap Dirs :
                      Saw(q, d) # Absent /\ ~Same(Saw(q, d), i.dirs[d], noIno)}
    IN  /\ proc[q].pc = "stat" /\ proc[q].left = {}
        /\ Step(q, [proc[q] EXCEPT !.pc = "list", !.left = changed,
                      !.saw = Idle.saw,
                      !.noIno = InodesMove(q),
                      !.gone = Live(i) \ here,
                      !.found = [f \in Files |-> IF f \in modified THEN Saw(q, f)
                                                 ELSE Absent],
                      !.dirs = [d \in Dirs |-> IF d \in changed THEN Saw(q, d)
                                               ELSE Absent]])

\* One directory is listed: entries the index does not know are added, and
\* new directories walked, which is also how a build walks the tree.
ListDir(p) ==
    \E d \in proc[p].left :
        LET new == Kids(d) \ Known(proc[p].opened)
        IN  /\ proc[p].pc = "list"
            /\ Step(p, [proc[p] EXCEPT
                  !.left = (@ \ {d}) \cup (new \cap Dirs),
                  !.found = [f \in Files |-> IF f \in new THEN StatOf(f) ELSE @[f]],
                  !.dirs = [c \in Dirs |-> IF c \in new THEN StatOf(c) ELSE @[c]]])

Found(p) == {f \in Files : proc[p].found[f] # Absent}
NoChange(q) == Found(q) = {} /\ proc[q].gone = {} /\ proc[q].dirs = Idle.dirs

Answering(q, i) == [Idle EXCEPT !.pc = "answer", !.opened = i, !.since = proc[q].since]

VerifiedWhenPublished(p) == now

VerifiedFrom(p) == proc[p].checked

\* Nothing changed: the index is verified as of the check's start, unless it
\* was verified within VERIFY_WRITE_MS or was republished meanwhile.
ApplyNothing(q) ==
    /\ proc[q].pc = "list" /\ proc[q].left = {} /\ NoChange(q)
    /\ Become(q, Answering(q, proc[q].opened))
    /\ \/ /\ index.version = proc[q].opened.version
          /\ index' = [index EXCEPT !.noIno = @ \/ proc[q].noIno,
                         !.verified = IF @ > VerifiedFrom(q) THEN @ ELSE VerifiedFrom(q)]
       \/ /\ ~proc[q].noIno \/ index.version # proc[q].opened.version
          /\ UNCHANGED index
    /\ UNCHANGED <<tree, now, ops, builds, touched, hidden>>

\* A search answers what changed from disk; a refresh is left to another.
Defer(q) ==
    /\ proc[q].pc = "list" /\ proc[q].left = {} /\ ~NoChange(q)
    /\ Step(q, [proc[q] EXCEPT !.pc = "answer"])

ToRead(p) ==
    /\ proc[p].pc = "list" /\ proc[p].left = {}
    /\ p \in Queries => ~NoChange(p)
    /\ Step(p, [proc[p] EXCEPT !.pc = "read", !.left = Found(p),
                   !.from = IF p \in Builders THEN proc[p].checked ELSE now])

EndAnswer(q) ==
    /\ proc[q].pc \in {"answer", "raced"}
    /\ Step(q, Idle)

-----------------------------------------------------------------------------
(* Reading files (`read_file`, `recorded`, `settle_racy`) *)

\* The stamp a file is expected to have: the walk's, or phase 1's record.
Expected(p, f) == IF proc[p].pc \in {"parse", "parsing"} THEN proc[p].got[f].stamp
                  ELSE proc[p].found[f]

\* The descriptor's stamp is taken, then the bytes are read, then the stamp is
\* taken again.  A delta settles a file before it reads the next one.
Open(p) ==
    \E f \in proc[p].left :
        /\ proc[p].pc \in {"read", "parse"} /\ Reach(f)
        /\ p \in Queries => proc[p].unsettled = {}
        /\ Step(p, [proc[p] EXCEPT !.left = @ \ {f}, !.cur = f, !.started = now,
               !.pc = IF proc[p].pc = "read" THEN "reading" ELSE "parsing",
               !.before = StatOf(f), !.bytes = tree[f].content])

\* A file that cannot be read keeps the walk's stamp.
OpenFails(p) ==
    \E f \in proc[p].left :
        /\ ~Reach(f)
        /\ p \in Queries => proc[p].unsettled = {}
        /\ \/ /\ proc[p].pc = "read"
              /\ Step(p, [proc[p] EXCEPT !.left = @ \ {f}, !.got[f] =
                     [NoRec EXCEPT !.stamp = proc[p].found[f], !.base = p \in Builders,
                         !.doubt = IF Racy(proc[p].found[f], proc[p].from)
                                   THEN "changed" ELSE "none"]])
           \/ /\ proc[p].pc = "parse"
              /\ Step(p, [proc[p] EXCEPT !.left = @ \ {f}, !.got[f].doubt = "changed"])

\* The path no longer means the file the descriptor is of.
Unlinked(p) == \/ ~tree[proc[p].cur].there
               \/ tree[proc[p].cur].stamp.ino # proc[p].before.ino

ChangedSinceWalk(p) == ~Same(proc[p].before, Expected(p, proc[p].cur), TRUE)

ChangedDuringRead(p) ==
    \/ Unlinked(p)
    \/ ~Same(tree[proc[p].cur].stamp, proc[p].before, FALSE)
    \/ ChangedSinceWalk(p)

Doubt(p) == IF ChangedDuringRead(p) THEN "changed"
            ELSE IF Racy(proc[p].before, proc[p].started) THEN "racy" ELSE "none"

\* What was read: the bytes of the start, or of the end, of the read.
BytesRead(p) == {proc[p].bytes}
                \cup (IF Unlinked(p) THEN {} ELSE {tree[proc[p].cur].content})

Read(p) ==
    \E c \in BytesRead(p) :
        LET f == proc[p].cur
        IN  /\ proc[p].pc = "reading"
            /\ Step(p, [proc[p] EXCEPT !.pc = "read", !.cur = Root,
                  !.before = Absent, !.started = 0, !.bytes = 0,
                  !.unsettled = IF Doubt(p) = "racy" THEN @ \cup {f} ELSE @,
                  !.got[f] = [stamp |-> proc[p].before, content |-> c,
                              symbols |-> IF p \in Builders THEN 0 ELSE c,
                              doubt |-> Doubt(p), base |-> p \in Builders]])

\* Phase 2 reads the bytes again for their symbols; a file it finds changed,
\* or reads too soon to tell, is marked.
Marked(p, f) == IF Doubt(p) = "none" THEN proc[p].got[f].doubt ELSE "changed"

Parse(p) ==
    \E c \in BytesRead(p) :
        LET f == proc[p].cur
        IN  /\ proc[p].pc = "parsing"
            /\ Step(p, [proc[p] EXCEPT !.pc = "parse", !.cur = Root,
                  !.before = Absent, !.started = 0, !.bytes = 0,
                  !.got[f].symbols = c, !.got[f].doubt = Marked(p, f)])

SettledAtOnce(p, r) == TRUE

Settled(p, r) == ~Racy(r.stamp, now)

\* Once its timestamp can no longer be reused the file is read again and, if
\* its stamp and bytes are what they were, no longer in doubt.  A build does so
\* when it has read all files; a delta does not wait out whole-second times.
Settle(p) ==
    \E f \in proc[p].unsettled :
        LET r == proc[p].got[f]
            same == Reach(f) /\ Same(StatOf(f), r.stamp, TRUE)
                    /\ tree[f].content = r.content
        IN  /\ proc[p].pc = "read"
            /\ p \in Builders => proc[p].left = {}
            /\ \/ /\ Settled(p, r)
                  /\ Step(p, [proc[p] EXCEPT !.unsettled = @ \ {f},
                         !.got[f].doubt = IF same THEN "none" ELSE "changed"])
               \/ /\ p \in Queries
                  /\ Step(p, [proc[p] EXCEPT !.unsettled = @ \ {f}])

AllRead(p) == proc[p].pc = "read" /\ proc[p].left = {} /\ proc[p].unsettled = {}

-----------------------------------------------------------------------------
(* Publications *)

DirStampAtPublish(q, d) == StatOf(d)

\* The stamp of before the directory was listed.
DirStamp(q, d) == proc[q].dirs[d]

\* The index another writer left may lack what this check saw: its stamp is
\* not trusted (`retry_mode`).
CheckAgain(q, i) == Checking(i, TRUE)

\* A delta replaces the manifest it was computed from, or nothing; then the
\* query opens the index again, and checks once more if nothing of its own
\* was read and published.
ApplyDelta(q) ==
    LET mine == index.version = proc[q].opened.version
        next == [index EXCEPT
            !.live = [f \in Files |-> IF f \in Found(q) THEN proc[q].got[f]
                                      ELSE IF f \in proc[q].gone THEN NoRec ELSE @[f]],
            !.dirs = [d \in Dirs |-> IF proc[q].dirs[d] # Absent THEN DirStamp(q, d)
                                     ELSE @[d]],
            !.verified = VerifiedFrom(q), !.version = @ + 1,
            !.noIno = @ \/ proc[q].noIno]
    IN  /\ AllRead(q) /\ q \in Queries
        /\ index' = IF mine THEN next ELSE index
        /\ Become(q, IF mine /\ (Found(q) # {} \/ proc[q].retry)
                     THEN Answering(q, index')
                     ELSE IF proc[q].retry
                     THEN [Idle EXCEPT !.pc = "raced", !.opened = index']
                     ELSE CheckAgain(q, index'))
        /\ UNCHANGED <<tree, now, ops, builds, touched, hidden>>

StartBuild(b) ==
    /\ proc[b].pc = "idle" /\ builds < MaxBuilds
    /\ builds' = builds + 1
    /\ Become(b, [Idle EXCEPT !.pc = "list", !.checked = now, !.left = {Root},
                     !.dirs[Root] = StatOf(Root)])
    /\ UNCHANGED <<tree, now, ops, index, touched, hidden>>

\* Verified as of the walk.  Phase 2 reads what phase 1 read.
Phase1(b) ==
    /\ AllRead(b) /\ b \in Builders
    /\ index' = [live |-> proc[b].got, dirs |-> proc[b].dirs,
                 verified |-> VerifiedFrom(b), epoch |-> index.epoch + 1,
                 version |-> index.version + 1, noIno |-> index.noIno]
    /\ Become(b, [Idle EXCEPT !.pc = "parse", !.got = proc[b].got, !.opened = index',
                     !.left = {f \in Found(b) : proc[b].got[f].content # 0}])
    /\ UNCHANGED <<tree, now, ops, builds, touched, hidden>>

\* The file table is published again, under whatever deltas came meanwhile
\* (`stamp_mode` is phase 1's).
Phase2(b) ==
    /\ proc[b].pc = "parse" /\ proc[b].left = {}
    /\ IF index.epoch = proc[b].opened.epoch
       THEN index' = [index EXCEPT !.version = @ + 1,
                !.noIno = proc[b].opened.noIno,
                !.live = [f \in Files |-> IF @[f].base THEN proc[b].got[f] ELSE @[f]]]
       ELSE UNCHANGED index
    /\ Become(b, Idle)
    /\ UNCHANGED <<tree, now, ops, builds, touched, hidden>>

-----------------------------------------------------------------------------

QueryStep(q) ==
    \/ OpenFresh(q) \/ StatEntry(q) \/ Classify(q) \/ ApplyNothing(q) \/ Defer(q)
    \/ ApplyDelta(q) \/ EndAnswer(q)
BuildStep(b) == StartBuild(b) \/ Phase1(b) \/ Phase2(b)
ReadStep(p) ==
    \/ ListDir(p) \/ ToRead(p) \/ Open(p) \/ OpenFails(p) \/ Read(p) \/ Parse(p)
    \/ Settle(p)

Next ==
    \/ User \/ Tick
    \/ \E q \in Queries : QueryStep(q)
    \/ \E b \in Builders : BuildStep(b)
    \/ \E p \in Procs : ReadStep(p)

Spec == Init /\ [][Next]_vars

\* Time passes, processes are scheduled, queries keep coming, and a search
\* that defers a refresh starts one (`spawn_refresh`), which does not.
Fairness ==
    /\ WF_vars(Tick)
    /\ \A q \in Queries : WF_vars(QueryStep(q) \/ ReadStep(q)) /\ SF_vars(ToRead(q))
    /\ \A b \in Builders : WF_vars(BuildStep(b) \/ ReadStep(b))

FairSpec == Spec /\ Fairness

-----------------------------------------------------------------------------
(* Properties *)

IndexType ==
    [live : [Files -> Records], dirs : [Dirs -> Stamps], verified : Nat,
     epoch : Nat, version : Nat, noIno : BOOLEAN]

Process ==
    [pc : {"idle", "stat", "list", "read", "reading", "parse", "parsing", "answer", "raced"},
     opened : IndexType, retry : BOOLEAN, checked : Nat, since : SUBSET Files,
     left : SUBSET Entries, saw : [Entries -> Stamps], found : [Files -> Stamps],
     gone : SUBSET Files, dirs : [Dirs -> Stamps], noIno : BOOLEAN,
     got : [Files -> Records], unsettled : SUBSET Files, from : Nat,
     cur : Entries, before : Stamps, started : Nat, bytes : Nat]

TypeOK ==
    /\ tree \in [Entries -> [there : BOOLEAN, stamp : Stamps, content : Nat]]
    /\ {now, ops, builds} \subseteq Nat
    /\ index \in IndexType /\ touched \in [Files -> Nat]
    /\ hidden \subseteq Files
    /\ proc \in [Procs -> Process]
    /\ \A p \in Procs : proc[p].cur \in Files <=> proc[p].pc \in {"reading", "parsing"}

\* What the index holds of a file is what the tree holds.
Truth(f) == IF Reach(f) THEN tree[f].content ELSE 0
Exact(i, f) == /\ i.live[f].content = Truth(f)
               /\ i.live[f].symbols \in {0, Truth(f)}

\* No edit of an indexed file hides: unless the record is exact, the next
\* check sees another stamp or a mark.  (The exception is a file that was gone
\* when it was to be read, and then moved back with the stamp it had.)
EditsShow ==
    \A f \in Live(index) :
        \/ ~Reach(f)
        \/ Exact(index, f)
        \/ ~Same(tree[f].stamp, index.live[f].stamp, index.noIno)
        \/ index.live[f].doubt # "none"
        \/ index.live[f].content = 0 /\ f \in hidden

\* No new file hides: the next check lists a directory that leads to it.
AdditionsShow ==
    index.version > 0 =>
        \A f \in Files \ (Live(index) \cup hidden) :
            Reach(f) => \E e \in Way(f) \ Known(index) :
                e # Root /\ Parent[e] \in Known(index)
                /\ ~Same(tree[Parent[e]].stamp, index.dirs[Parent[e]], index.noIno)

\* No change hides from the next check.
ChangesShow == EditsShow /\ AdditionsShow

\* "It is verified as of when its check or build began reading the tree": a
\* file it does not hold exactly was changed at that time or later.
VerifiedAsOf ==
    index.version > 0 =>
        \A f \in Files \ hidden : Exact(index, f) \/ touched[f] >= index.verified

Reflects(q, f) == IF f \in proc[q].gone THEN ~Reach(f)
                  ELSE f \in Found(q) \/ Exact(proc[q].opened, f)

\* An answer reflects every change made before its check, or up to TTL before
\* it opened the index: from the index, or for a search from disk.  What a later
\* check may rely on within TTL is as VerifiedAsOf says.
AnswerFresh ==
    /\ VerifiedAsOf
    /\ \A q \in Queries : proc[q].pc = "answer" =>
           \A f \in Files \ (proc[q].since \cup hidden) : Reflects(q, f)

\* The same of every file: "The index has to reflect the working tree at query
\* time" (ARCHITECTURE.md).
EveryAnswerFresh ==
    \A q \in Queries : proc[q].pc = "answer" =>
        \A f \in Files \ proc[q].since : Reflects(q, f)

\* Once users stop, the index becomes exact and stays so, whatever was in
\* doubt.
Settles == <>[](\A f \in Files \ hidden : Exact(index, f))
=============================================================================
