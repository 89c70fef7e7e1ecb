------------------------ MODULE IndexDirectoryProofs ------------------------
(***************************************************************************)
(* Proofs about IndexDirectory for any processes and bounds: until a purge *)
(* starts to remove something, one build works at a time, and writers      *)
(* exclude each other.  And about the publications that MCIndex has beside *)
(* the locks, which are runs of Snapshot.                                  *)
(***************************************************************************)
EXTENDS MCIndex, TLAPS

IInv == TypeOK /\ LocksBound

LEMMA BecomeType ==
    ASSUME TypeOK, NEW p \in Procs, NEW r \in Process, Become(p, r)
    PROVE  /\ proc' \in [Procs -> Process]
           /\ proc'[p] = r
           /\ \A q \in Procs \ {p} : proc'[q] = proc[q]
BY DEF TypeOK, Become

\* Going on to another step changes nothing else of a process.
LEMMA GotoType ==
    ASSUME TypeOK, NEW p \in Procs, NEW pc \in Pcs, Goto(p, pc)
    PROVE  /\ proc' \in [Procs -> Process]
           /\ proc'[p].pc = pc
           /\ proc'[p].mark = proc[p].mark /\ proc'[p].fd = proc[p].fd
           /\ \A q \in Procs \ {p} : proc'[q] = proc[q]
BY DEF TypeOK, Goto, Become, Process

LEMMA IdleType ==
    /\ Idle \in Process
    /\ \A pc \in Pcs, i \in Nat :
          /\ [Idle EXCEPT !.pc = pc] \in Process
          /\ [Idle EXCEPT !.pc = pc, !.mark = i] \in Process
    /\ \A pc \in Pcs, v \in Version : [Idle EXCEPT !.pc = pc, !.base = v] \in Process
<1>1. Idle \in Process
  <2>1. {} \in SUBSET {"data", "marker"} /\ 1 \in 1 .. 2 /\ "idle" \in Pcs /\ FALSE \in BOOLEAN
    BY DEF Pcs
  <2> QED BY <2>1 DEF Idle, Process, Version, NoVersion
<1> QED BY <1>1 DEF Process

LEMMA DoneType == Done \in Process /\ Done.pc = "done" /\ Done.mark = 0
<1>1. Done.pc = "done" /\ Done.mark = 0
  BY DEF Done, Idle
<1>2. Done \in Process
  BY IdleType DEF Done, Pcs
<1> QED BY <1>1, <1>2

\* A step of p keeps LocksBound when p takes no lock it may not: what the
\* others hold is theirs still, and what p is past it holds.
LEMMA StepSound ==
    ASSUME IInv, TypeOK', NEW p \in Procs,
           \A q \in Procs \ {p} : proc'[q] = proc[q],
           \* a lock is taken when it is free, and released by its holder
           \A h \in flock' \ flock : h[2] = p /\ Free(h[1]) /\ flock' = flock \cup {h},
           \A h \in flock \ flock' : h[2] = p,
           \A q \in Builders \ {p} : Building(q) => marker' = marker,
           lock' = lock \/ lock = 0,
           inodes <= inodes', proc'[p].mark <= inodes',
           proc'[p].pc = "tryMark" => proc'[p].mark # 0,
           lock' # 0 => marker' # lock' /\ \A q \in Procs : proc'[q].mark # lock',
           p \in Builders /\ proc'[p].pc \in HasMarker => <<proc'[p].mark, p>> \in flock',
           p \in Builders /\ proc'[p].pc \in
               {"owner", "work", "wait", "critical", "publish", "drop", "unlink"}
                   => marker' = proc'[p].mark,
           proc'[p].pc \in {"wait", "critical", "publish"} => lock' # 0 /\ proc'[p].fd = lock',
           proc'[p].pc \in {"critical", "publish"} => <<proc'[p].fd, p>> \in flock'
    PROVE  LocksBound'
<1>1. \A h, g \in flock' : h[1] = g[1] => h[2] = g[2]
  <2> SUFFICES ASSUME NEW h \in flock', NEW g \in flock', h[1] = g[1]
               PROVE  h[2] = g[2]
    OBVIOUS
  <2>0. flock \subseteq (1 .. inodes) \X Procs
    BY DEF IInv, TypeOK
  <2>1. CASE h \in flock /\ g \in flock
    BY <2>1 DEF IInv, LocksBound
  <2>2. CASE h \notin flock /\ g \notin flock
    BY <2>2
  <2>3. ASSUME NEW a \in flock', NEW c \in flock', a \notin flock, c \in flock, a[1] = c[1]
        PROVE  FALSE
    <3>1. Free(a[1])
      BY <2>3
    <3>2. c = <<c[1], c[2]>> /\ c[2] \in Procs
      BY <2>0, <2>3
    <3> QED BY <2>3, <3>1, <3>2 DEF Free
  <2> QED BY <2>1, <2>2, <2>3
<1>2. ASSUME NEW b \in Builders, proc'[b].pc \in HasMarker
      PROVE  <<proc'[b].mark, b>> \in flock'
  <2>1. CASE b = p
    BY <1>2, <2>1
  <2>2. CASE b # p
    BY <1>2, <2>2 DEF IInv, LocksBound, Procs
  <2> QED BY <2>1, <2>2
<1>3. ASSUME NEW q \in Procs
      PROVE  /\ proc'[q].pc \in {"wait", "critical", "publish"} => lock' # 0 /\ proc'[q].fd = lock'
             /\ proc'[q].pc \in {"critical", "publish"} => <<proc'[q].fd, q>> \in flock'
  BY DEF IInv, LocksBound
<1>4. MarkerNamed'
  <2> SUFFICES ASSUME NEW b \in Builders, Building(b)'
               PROVE  marker' = proc'[b].mark
    BY DEF MarkerNamed
  <2>1. CASE b = p
    BY <2>1 DEF Building
  <2>2. CASE b # p
    BY <2>2 DEF IInv, LocksBound, MarkerNamed, Building, Procs
  <2> QED BY <2>1, <2>2
<1>5. ASSUME NEW q \in Procs
      PROVE  /\ proc'[q].mark <= inodes'
             /\ proc'[q].pc = "tryMark" => proc'[q].mark # 0
  <2>1. CASE q = p
    BY <2>1
  <2>2. CASE q # p
    <3>1. proc'[q] = proc[q] /\ proc[q].mark <= inodes /\ proc[q].mark \in Nat
      BY <2>2 DEF IInv, LocksBound, TypeOK, Process
    <3>2. inodes \in Nat /\ inodes' \in Nat
      BY DEF IInv, TypeOK
    <3> QED BY <3>1, <3>2 DEF IInv, LocksBound
  <2> QED BY <2>1, <2>2
<1> QED BY <1>1, <1>2, <1>3, <1>4, <1>5 DEF LocksBound

-----------------------------------------------------------------------------
(* The type invariant *)

LEMMA InitTypeOK == Init => TypeOK
<1> SUFFICES ASSUME Init PROVE TypeOK
  OBVIOUS
<1>1. proc \in [Procs -> Process]
  BY IdleType DEF Init
<1>2. /\ {lock, marker, inodes, crashes} \subseteq Nat
      /\ lock <= inodes /\ marker <= inodes
  BY DEF Init
<1>3. entries \subseteq {"data", "manifest", "OWNER"} /\ flock \subseteq (1 .. inodes) \X Procs
  BY DEF Init
<1>4. version \in Version
  BY DEF Init, Version, NoVersion
<1> QED BY <1>1, <1>2, <1>3, <1>4 DEF TypeOK

\* A step keeps the type when it only moves p on and takes or drops flocks.
LEMMA MoveType ==
    ASSUME TypeOK, NEW p \in Procs, NEW r \in Process, Become(p, r),
           UNCHANGED <<lock, marker, entries, inodes, version, crashes>>,
           flock' \subseteq (1 .. inodes) \X Procs
    PROVE  TypeOK'
<1>1. proc' \in [Procs -> Process]
  BY BecomeType
<1> QED BY <1>1 DEF TypeOK

LEMMA GotoBecomes ==
    ASSUME TypeOK, NEW p \in Procs, NEW pc \in Pcs, Goto(p, pc)
    PROVE  \E r \in Process : Become(p, r)
<1>1. [proc[p] EXCEPT !.pc = pc] \in Process
  BY DEF TypeOK, Process
<1> QED BY <1>1 DEF Goto

LEMMA FlockType ==
    ASSUME TypeOK, NEW p \in Procs, NEW i \in 1 .. inodes
    PROVE  /\ flock \cup {<<i, p>>} \subseteq (1 .. inodes) \X Procs
           /\ \A j : flock \ {<<j, p>>} \subseteq (1 .. inodes) \X Procs
           /\ flock \subseteq (1 .. inodes) \X Procs
BY DEF TypeOK

-----------------------------------------------------------------------------
(* Each action keeps the invariant.  The locks a step leaves alone: *)

LEMMA InitSound == Init => LocksBound
<1> SUFFICES ASSUME Init PROVE LocksBound
  OBVIOUS
<1>1. \A p \in Procs : proc[p] = Idle
  BY DEF Init
<1>2. \A p \in Procs : proc[p].pc = "idle" /\ proc[p].mark = 0
  BY <1>1 DEF Idle
<1>3. flock = {} /\ marker = 0 /\ inodes \in Nat
  BY DEF Init
<1>4. MarkerNamed
  BY <1>2 DEF MarkerNamed, Building, Procs
<1> QED BY <1>2, <1>3, <1>4 DEF LocksBound, HasMarker, Procs

\* A process that holds no lock it is past, and the files are as they were.
LEMMA RestSound ==
    ASSUME IInv, NEW p \in Procs, NEW r \in Process, Become(p, r),
           UNCHANGED <<lock, inodes>>,
           TypeOK', \A h \in flock \ flock' : h[2] = p, flock' \subseteq flock,
           \A q \in Builders \ {p} : Building(q) => marker' = marker,
           marker' = marker \/ marker' = 0,
           r.mark = proc[p].mark \/ r.mark = 0,
           r.pc \in Pcs \ (HasMarker \cup {"tryMark", "wait", "critical", "publish"})
    PROVE  LocksBound'
<1>1. proc'[p] = r /\ \A q \in Procs \ {p} : proc'[q] = proc[q]
  BY BecomeType DEF IInv
<1>2. lock' # 0 => marker' # lock' /\ \A q \in Procs : proc'[q].mark # lock'
  BY <1>1 DEF IInv, LocksBound
<1>3. inodes \in Nat /\ proc[p].mark <= inodes
  BY DEF IInv, TypeOK, LocksBound
<1>4. inodes <= inodes' /\ proc'[p].mark <= inodes'
  BY <1>1, <1>3
<1> HIDE DEF Become
<1>5. proc'[p].pc \notin HasMarker \cup {"tryMark", "wait", "critical", "publish"}
  BY <1>1
<1>6. \A h \in flock' \ flock : h[2] = p /\ Free(h[1]) /\ flock' = flock \cup {h}
  OBVIOUS
<1> QED BY <1>1, <1>2, <1>4, <1>5, <1>6, StepSound DEF HasMarker

LEMMA StartBuildKeeps == ASSUME IInv, NEW b \in Builders, StartBuild(b) PROVE IInv'
<1> DEFINE r == [Idle EXCEPT !.pc = "open"]
<1>1. r \in Process /\ r.pc = "open" /\ r.mark = 0 /\ b \in Procs
  BY IdleType DEF Pcs, Idle, Procs
<1>2. Become(b, r) /\ UNCHANGED <<lock, marker, entries, inodes, version, flock, crashes>>
  BY DEF StartBuild
<1> HIDE DEF r
<1>3. TypeOK'
  BY <1>1, <1>2, MoveType, FlockType DEF IInv, TypeOK
<1> QED BY <1>1, <1>2, <1>3, RestSound DEF IInv, HasMarker, Pcs

LEMMA ExceptType ==
    ASSUME TypeOK, NEW p \in Procs, NEW pc \in Pcs
    PROVE  LET r == [proc[p] EXCEPT !.pc = pc]
           IN  r \in Process /\ r.pc = pc /\ r.mark = proc[p].mark /\ r.fd = proc[p].fd
BY DEF TypeOK, Process

\* At most one build works: it holds the flock of the file BUILDING names.
LEMMA OneHolder ==
    ASSUME LocksBound
    PROVE  OneAtWork /\ \A b, c \in Builders : Building(b) /\ Building(c) => b = c
<1> SUFFICES ASSUME NEW b \in Builders, NEW c \in Builders, Building(b), Building(c)
             PROVE  b = c
  BY DEF OneAtWork
<1>1. <<proc[b].mark, b>> \in flock /\ <<proc[c].mark, c>> \in flock
  BY DEF LocksBound, Building, HasMarker
<1>2. proc[b].mark = proc[c].mark
  BY DEF LocksBound, MarkerNamed
<1> QED BY <1>1, <1>2 DEF LocksBound

LEMMA OpenMarkerKeeps == ASSUME IInv, NEW b \in Builders, OpenMarker(b) PROVE IInv'
<1> DEFINE i == IF marker = 0 THEN inodes + 1 ELSE marker
           r == [proc[b] EXCEPT !.pc = "tryMark", !.mark = i]
<1>0. b \in Procs /\ TypeOK /\ LocksBound /\ "tryMark" \in Pcs
  BY DEF Procs, IInv, Pcs
<1>1. /\ inodes' = IF marker = 0 THEN inodes + 1 ELSE inodes
      /\ marker' = i /\ Become(b, r) /\ proc[b].pc = "open"
      /\ UNCHANGED <<lock, entries, version, flock, crashes>>
  BY DEF OpenMarker
<1>2. /\ {lock, marker, inodes, crashes} \subseteq Nat
      /\ lock <= inodes /\ marker <= inodes
  BY <1>0 DEF TypeOK
<1>3. i \in Nat /\ i # 0 /\ i <= inodes' /\ inodes <= inodes' /\ inodes' \in Nat /\ lock <= inodes'
  BY <1>1, <1>2
<1>4. i # lock
  BY <1>0, <1>2 DEF LocksBound
<1>5. r \in Process /\ r.pc = "tryMark" /\ r.mark = i
  <2>1. proc[b] \in Process
    BY <1>0 DEF TypeOK
  <2> QED BY <2>1, <1>0, <1>3 DEF Process
<1> HIDE DEF i, r
<1>6. proc' \in [Procs -> Process] /\ proc'[b] = r /\ \A q \in Procs \ {b} : proc'[q] = proc[q]
  BY <1>0, <1>1, <1>5, BecomeType
<1>7. flock' \subseteq (1 .. inodes') \X Procs
  <2>1. 1 .. inodes \subseteq 1 .. inodes'
    BY <1>2, <1>3
  <2> QED BY <2>1, <1>0, <1>1 DEF TypeOK
<1>8. TypeOK'
  <2>1. entries' \subseteq {"data", "manifest", "OWNER"} /\ crashes' \in Nat /\ version' \in Version
    BY <1>0, <1>1 DEF TypeOK
  <2> QED BY <1>1, <1>2, <1>3, <1>6, <1>7, <2>1 DEF TypeOK
<1>9. \A q \in Builders \ {b} : Building(q) => marker' = marker
  <2> SUFFICES ASSUME NEW q \in Builders, Building(q) PROVE marker # 0
    BY <1>1 DEF i
  <2>1. <<proc[q].mark, q>> \in flock /\ marker = proc[q].mark
    BY <1>0 DEF LocksBound, MarkerNamed, Building, HasMarker
  <2>2. flock \subseteq (1 .. inodes) \X Procs
    BY <1>0 DEF TypeOK
  <2> QED BY <2>1, <2>2, <1>2
<1>10. lock' # 0 => marker' # lock' /\ \A q \in Procs : proc'[q].mark # lock'
  BY <1>0, <1>1, <1>4, <1>5, <1>6 DEF LocksBound
<1>11. lock' = lock /\ flock' = flock
  BY <1>1
<1> HIDE <1>1
<1>12. LocksBound'
  BY <1>0, <1>3, <1>5, <1>6, <1>8, <1>9, <1>10, <1>11, StepSound DEF HasMarker
<1> QED BY <1>8, <1>12 DEF IInv

\* A step of p that only moves it on, and takes the lock h when it is free,
\* drops locks of its own, or leaves the locks alone.
LEMMA MoveKeeps ==
    ASSUME IInv, NEW p \in Procs, NEW r \in Process, Become(p, r),
           UNCHANGED <<lock, marker, entries, inodes, version, crashes>>,
           flock' \subseteq (1 .. inodes) \X Procs,
           \A h \in flock' \ flock : h[2] = p /\ Free(h[1]) /\ flock' = flock \cup {h},
           \A h \in flock \ flock' : h[2] = p,
           r.mark <= inodes,
           lock # 0 => r.mark # lock,
           r.pc = "tryMark" => r.mark # 0,
           p \in Builders /\ r.pc \in HasMarker => <<r.mark, p>> \in flock',
           p \in Builders /\ r.pc \in
               {"owner", "work", "wait", "critical", "publish", "drop", "unlink"} => marker = r.mark,
           r.pc \in {"wait", "critical", "publish"} => lock # 0 /\ r.fd = lock,
           r.pc \in {"critical", "publish"} => <<r.fd, p>> \in flock'
    PROVE  IInv'
<1>1. TypeOK'
  BY MoveType DEF IInv
<1>2. proc'[p] = r /\ \A q \in Procs \ {p} : proc'[q] = proc[q]
  BY BecomeType DEF IInv
<1>3. inodes <= inodes'
  BY DEF IInv, TypeOK
<1>4. lock' # 0 => marker' # lock' /\ \A q \in Procs : proc'[q].mark # lock'
  BY <1>2 DEF IInv, LocksBound
<1>5. lock' = lock /\ marker' = marker /\ inodes' = inodes
  OBVIOUS
<1>6. LocksBound'
  BY <1>1, <1>2, <1>3, <1>4, <1>5, StepSound
<1> QED BY <1>1, <1>6 DEF IInv

\* A process that keeps its marker and its flocks.
LEMMA GotoKeeps ==
    ASSUME IInv, NEW p \in Procs, NEW pc \in Pcs \ {"wait", "critical", "publish"}, Goto(p, pc),
           UNCHANGED <<lock, marker, entries, inodes, version, crashes, flock>>,
           pc = "tryMark" => proc[p].pc = "tryMark",
           p \in Builders /\ pc \in HasMarker => proc[p].pc \in HasMarker,
           p \in Builders /\ pc \in {"owner", "work", "drop", "unlink"}
               => marker = proc[p].mark
    PROVE  IInv'
<1> DEFINE r == [proc[p] EXCEPT !.pc = pc]
<1>1. r \in Process /\ r.pc = pc /\ r.mark = proc[p].mark
  BY ExceptType DEF IInv
<1>2. Become(p, r)
  BY DEF Goto
<1> HIDE DEF r
<1>3. flock' \subseteq (1 .. inodes) \X Procs /\ flock' = flock
  BY DEF IInv, TypeOK
<1>4. r.mark <= inodes /\ (lock # 0 => r.mark # lock)
  BY <1>1 DEF IInv, LocksBound
<1>5. r.pc = "tryMark" => r.mark # 0
  BY <1>1 DEF IInv, LocksBound
<1>6. p \in Builders /\ r.pc \in HasMarker => <<r.mark, p>> \in flock'
  BY <1>1, <1>3 DEF IInv, LocksBound
<1>7. /\ \A h \in flock' \ flock : h[2] = p /\ Free(h[1]) /\ flock' = flock \cup {h}
      /\ \A h \in flock \ flock' : h[2] = p
  BY <1>3
<1>8. p \in Builders /\ r.pc \in
               {"owner", "work", "wait", "critical", "publish", "drop", "unlink"} => marker = r.mark
  BY <1>1
<1>9. r.pc \notin {"wait", "critical", "publish"}
  BY <1>1
<1> QED BY <1>1, <1>2, <1>3, <1>4, <1>5, <1>6, <1>7, <1>8, <1>9, MoveKeeps

\* A process that gives up its flock on i and holds none it needs.
LEMMA LetGoKeeps ==
    ASSUME IInv, NEW p \in Procs, NEW i,
           NEW r \in {Idle, Done, [Idle EXCEPT !.pc = "open"]}, Become(p, r),
           UNCHANGED <<lock, marker, entries, inodes, version, crashes>>,
           flock' = flock \/ flock' = flock \ {<<i, p>>}
    PROVE  IInv'
<1>1. r \in Process /\ r.pc \in {"idle", "done", "open"} /\ r.mark = 0
  <2>1. CASE r = Idle
    BY <2>1, IdleType DEF Idle
  <2>2. CASE r = [Idle EXCEPT !.pc = "open"]
    <3>1. "open" \in Pcs /\ [Idle EXCEPT !.pc = "open"].pc = "open"
          /\ [Idle EXCEPT !.pc = "open"].mark = 0
      BY DEF Pcs, Idle
    <3> QED BY <2>2, <3>1, IdleType
  <2>3. CASE r = Done
    BY <2>3, DoneType
  <2> QED BY <2>1, <2>2, <2>3
<1>3. flock' \subseteq (1 .. inodes) \X Procs
  BY DEF IInv, TypeOK
<1>4. /\ \A h \in flock' \ flock : h[2] = p /\ Free(h[1]) /\ flock' = flock \cup {h}
      /\ \A h \in flock \ flock' : h[2] = p
  OBVIOUS
<1>5. r.mark <= inodes /\ (lock # 0 => r.mark # lock)
  BY <1>1 DEF IInv, TypeOK
<1>6. r.pc \notin HasMarker \cup {"tryMark", "wait", "critical", "publish"}
  BY <1>1 DEF HasMarker
<1> QED BY <1>1, <1>3, <1>4, <1>5, <1>6, MoveKeeps DEF HasMarker

LEMMA TryMarkerKeeps == ASSUME IInv, NEW b \in Builders, TryMarker(b) PROVE IInv'
<1>0. /\ b \in Procs /\ proc[b].pc = "tryMark" /\ "tryMark" \in Pcs /\ "sameFile" \in Pcs
      /\ UNCHANGED <<lock, marker, entries, inodes, version, crashes>>
  BY DEF TryMarker, Procs, Pcs
<1>1. CASE Free(proc[b].mark)
  <2> DEFINE r == [proc[b] EXCEPT !.pc = "sameFile"]
             h == <<proc[b].mark, b>>
  <2>1. flock' = flock \cup {h} /\ Become(b, r)
    BY <1>1 DEF TryMarker, Goto
  <2>2. r \in Process /\ r.pc = "sameFile" /\ r.mark = proc[b].mark
    BY <1>0, ExceptType DEF IInv
  <2>3. r.mark <= inodes /\ (lock # 0 => r.mark # lock)
    BY <1>0, <2>2 DEF IInv, LocksBound
  <2>4. proc[b].mark \in 1 .. inodes
    BY <1>0 DEF IInv, LocksBound, TypeOK, Process
  <2>5. flock' \subseteq (1 .. inodes) \X Procs
    BY <1>0, <2>1, <2>4, FlockType DEF IInv
  <2>6. /\ \A g \in flock' \ flock : g[2] = b /\ Free(g[1]) /\ flock' = flock \cup {g}
        /\ \A g \in flock \ flock' : g[2] = b
    BY <1>1, <2>1
  <2>7. <<r.mark, b>> \in flock'
    BY <2>1, <2>2
  <2> HIDE DEF r, h
  <2> QED BY <1>0, <2>1, <2>2, <2>3, <2>5, <2>6, <2>7, MoveKeeps
<1>2. CASE ~Free(proc[b].mark)
  <2>1. flock' = flock /\ (Become(b, Done) \/ Goto(b, "tryMark"))
    BY <1>2 DEF TryMarker
  <2>2. CASE Become(b, Done)
    BY <1>0, <2>1, <2>2, LetGoKeeps
  <2>3. CASE Goto(b, "tryMark")
    BY <1>0, <2>1, <2>3, GotoKeeps DEF HasMarker
  <2> QED BY <2>1, <2>2, <2>3
<1> QED BY <1>1, <1>2

LEMMA CheckMarkerKeeps == ASSUME IInv, NEW b \in Builders, CheckMarker(b) PROVE IInv'
<1>0. /\ b \in Procs /\ proc[b].pc = "sameFile" /\ "owner" \in Pcs
      /\ UNCHANGED <<lock, marker, entries, inodes, version, crashes>>
  BY DEF CheckMarker, Procs, Pcs
<1>1. CASE SameFile(b)
  <2>1. flock' = flock /\ Goto(b, "owner") /\ marker = proc[b].mark
    BY <1>1 DEF CheckMarker, SameFile
  <2> QED BY <1>0, <2>1, GotoKeeps DEF HasMarker
<1>2. CASE ~SameFile(b)
  <2>1. flock' = flock \ {<<proc[b].mark, b>>} /\ Become(b, [Idle EXCEPT !.pc = "open"])
    BY <1>2 DEF CheckMarker
  <2> QED BY <1>0, <2>1, LetGoKeeps
<1> QED BY <1>1, <1>2

LEMMA DropMarkerKeeps == ASSUME IInv, NEW b \in Builders, DropMarker(b) PROVE IInv'
<1>0. /\ b \in Procs /\ proc[b].pc = "drop" /\ {"unlink", "close"} \subseteq Pcs
      /\ UNCHANGED <<lock, marker, entries, inodes, version, crashes, flock>>
      /\ Goto(b, IF SameFile(b) THEN "unlink" ELSE "close")
  BY DEF DropMarker, Procs, Pcs
<1>1. CASE SameFile(b)
  BY <1>0, <1>1, GotoKeeps DEF HasMarker, SameFile
<1>2. CASE ~SameFile(b)
  BY <1>0, <1>2, GotoKeeps DEF HasMarker
<1> QED BY <1>1, <1>2

LEMMA CloseMarkerKeeps == ASSUME IInv, NEW b \in Builders, CloseMarker(b) PROVE IInv'
BY LetGoKeeps DEF CloseMarker, Procs

LEMMA EndProbeKeeps == ASSUME IInv, NEW q \in Queries, EndProbe(q) PROVE IInv'
BY LetGoKeeps DEF EndProbe, Procs

\* The file is removed by the one build that holds it.
LEMMA UnlinkMarkerKeeps == ASSUME IInv, NEW b \in Builders, UnlinkMarker(b) PROVE IInv'
<1> DEFINE r == [proc[b] EXCEPT !.pc = "close"]
<1>0. /\ b \in Procs /\ proc[b].pc = "unlink" /\ marker' = 0 /\ Become(b, r)
      /\ UNCHANGED <<lock, entries, inodes, version, flock, crashes>>
  BY DEF UnlinkMarker, Procs, Goto
<1>1. r \in Process /\ r.pc = "close" /\ r.mark = proc[b].mark
  BY <1>0, ExceptType DEF IInv, Pcs
<1> HIDE DEF r
<1>2. proc' \in [Procs -> Process] /\ proc'[b] = r /\ \A q \in Procs \ {b} : proc'[q] = proc[q]
  BY <1>0, <1>1, BecomeType DEF IInv
<1>3. TypeOK'
  BY <1>0, <1>2 DEF IInv, TypeOK
<1>4. \A q \in Builders \ {b} : Building(q) => marker' = marker
  <2>1. Building(b)
    BY <1>0 DEF Building
  <2> QED BY <2>1, OneHolder DEF IInv
<1>5. <<r.mark, b>> \in flock
  BY <1>0, <1>1 DEF IInv, LocksBound, HasMarker
<1>6. lock' # 0 => marker' # lock' /\ \A q \in Procs : proc'[q].mark # lock'
  BY <1>0, <1>1, <1>2 DEF IInv, LocksBound
<1>7. inodes <= inodes' /\ proc'[b].mark <= inodes'
  BY <1>0, <1>1, <1>2 DEF IInv, LocksBound, TypeOK
<1>8. lock' = lock /\ flock' = flock
  BY <1>0
<1>9. LocksBound'
  BY <1>0, <1>1, <1>2, <1>3, <1>4, <1>5, <1>6, <1>7, <1>8, StepSound
<1> QED BY <1>3, <1>9 DEF IInv

LEMMA WriteOwnerKeeps == ASSUME IInv, NEW b \in Builders, WriteOwner(b) PROVE IInv'
<1> DEFINE r == [proc[b] EXCEPT !.pc = "work"]
<1>0. /\ b \in Procs /\ proc[b].pc = "owner" /\ entries' = entries \cup {"OWNER"} /\ Become(b, r)
      /\ UNCHANGED <<lock, marker, inodes, version, flock, crashes>>
  BY DEF WriteOwner, Procs, Goto
<1>1. r \in Process /\ r.pc = "work" /\ r.mark = proc[b].mark
  BY <1>0, ExceptType DEF IInv, Pcs
<1> HIDE DEF r
<1>2. proc' \in [Procs -> Process] /\ proc'[b] = r /\ \A q \in Procs \ {b} : proc'[q] = proc[q]
  BY <1>0, <1>1, BecomeType DEF IInv
<1>3. TypeOK'
  BY <1>0, <1>2 DEF IInv, TypeOK
<1>4. <<r.mark, b>> \in flock /\ marker = r.mark
  BY <1>0, <1>1 DEF IInv, LocksBound, HasMarker, MarkerNamed, Building
<1>5. lock' # 0 => marker' # lock' /\ \A q \in Procs : proc'[q].mark # lock'
  BY <1>0, <1>1, <1>2 DEF IInv, LocksBound
<1>6. inodes <= inodes' /\ proc'[b].mark <= inodes'
  BY <1>0, <1>1, <1>2 DEF IInv, LocksBound, TypeOK
<1>7. lock' = lock /\ flock' = flock /\ marker' = marker
  BY <1>0
<1>8. LocksBound'
  BY <1>0, <1>1, <1>2, <1>3, <1>4, <1>5, <1>6, <1>7, StepSound
<1> QED BY <1>3, <1>8 DEF IInv

LEMMA ProbeKeeps == ASSUME IInv, NEW q \in Queries, Probe(q) PROVE IInv'
<1>0. /\ q \in Procs /\ q \notin Builders /\ marker # 0
      /\ UNCHANGED <<lock, marker, entries, inodes, version, crashes>>
  BY ProcessesAreDistinct DEF Probe, Procs
<1>1. CASE Free(marker)
  <2> DEFINE r == [Idle EXCEPT !.pc = "probe", !.mark = marker]
             h == <<marker, q>>
  <2>0. marker \in 1 .. inodes /\ marker \in Nat
    BY <1>0 DEF IInv, TypeOK
  <2>1. flock' = flock \cup {h} /\ Become(q, r)
    BY <1>1 DEF Probe
  <2>2. r \in Process /\ r.pc = "probe" /\ r.mark = marker
    BY <2>0, IdleType DEF Pcs, Idle
  <2>3. r.mark <= inodes /\ (lock # 0 => r.mark # lock)
    BY <2>0, <2>2 DEF IInv, LocksBound
  <2>4. flock' \subseteq (1 .. inodes) \X Procs
    BY <1>0, <2>0, <2>1, FlockType DEF IInv
  <2>5. /\ \A g \in flock' \ flock : g[2] = q /\ Free(g[1]) /\ flock' = flock \cup {g}
        /\ \A g \in flock \ flock' : g[2] = q
    BY <1>1, <2>1
  <2> HIDE DEF r, h
  <2> QED BY <1>0, <2>1, <2>2, <2>3, <2>4, <2>5, MoveKeeps
<1>2. CASE ~Free(marker)
  <2>1. UNCHANGED vars
    BY <1>0, <1>2 DEF Probe, vars
  <2> QED BY <2>1 DEF vars, IInv, TypeOK, LocksBound, MarkerNamed, Building
<1> QED BY <1>1, <1>2

LEMMA OpenIndexKeeps == ASSUME IInv, NEW q \in Queries, OpenIndex(q) PROVE IInv'
<1> DEFINE r == [Idle EXCEPT !.pc = "stale", !.base = Manifest]
<1>0. /\ q \in Procs /\ Become(q, r) /\ q \notin Builders
      /\ UNCHANGED <<lock, marker, entries, inodes, version, flock, crashes>>
  BY ProcessesAreDistinct DEF OpenIndex, Procs
<1>1. Manifest \in Version
  BY DEF Manifest, IInv, TypeOK, Version, NoVersion
<1>2. r \in Process /\ r.pc = "stale" /\ r.mark = 0
  BY <1>1, IdleType DEF Pcs, Idle
<1>3. r.mark <= inodes /\ (lock # 0 => r.mark # lock)
  BY <1>2 DEF IInv, TypeOK
<1> HIDE DEF r
<1>4. flock' \subseteq (1 .. inodes) \X Procs /\ flock' = flock
  BY <1>0 DEF IInv, TypeOK
<1> QED BY <1>0, <1>2, <1>3, <1>4, MoveKeeps

LEMMA OpenLockKeeps ==
    ASSUME IInv, NEW p \in Builders \cup Queries, OpenLock(p) PROVE IInv'
<1> DEFINE i == IF lock = 0 THEN inodes + 1 ELSE lock
           r == [proc[p] EXCEPT !.pc = "wait", !.fd = i]
<1>0. /\ p \in Procs /\ proc[p].pc \in {"work", "stale"} /\ Become(p, r)
      /\ lock' = i /\ inodes' = IF lock = 0 THEN inodes + 1 ELSE inodes
      /\ UNCHANGED <<marker, entries, version, flock, crashes>>
  BY DEF OpenLock, Procs
<1>1. /\ {lock, marker, inodes, crashes} \subseteq Nat
      /\ lock <= inodes /\ marker <= inodes
  BY DEF IInv, TypeOK
<1>2. i \in Nat /\ i # 0 /\ i <= inodes' /\ inodes <= inodes' /\ inodes' \in Nat /\ marker <= inodes'
  BY <1>0, <1>1
<1>3. r \in Process /\ r.pc = "wait" /\ r.mark = proc[p].mark /\ r.fd = i
  <2>1. proc[p] \in Process /\ "wait" \in Pcs
    BY <1>0 DEF IInv, TypeOK, Pcs
  <2> QED BY <2>1, <1>2 DEF Process
<1>4. i # marker /\ \A q \in Procs : proc[q].mark # i
  <2>1. CASE lock = 0
    <3>1. \A q \in Procs : proc[q].mark <= inodes
      BY DEF IInv, LocksBound
    <3> QED BY <2>1, <3>1, <1>1
  <2>2. CASE lock # 0
    BY <2>2 DEF IInv, LocksBound
  <2> QED BY <2>1, <2>2
<1>5. i = lock \/ lock = 0
  OBVIOUS
<1> HIDE DEF i, r
<1>6. proc' \in [Procs -> Process] /\ proc'[p] = r /\ \A q \in Procs \ {p} : proc'[q] = proc[q]
  BY <1>0, <1>3, BecomeType DEF IInv
<1>7. flock' \subseteq (1 .. inodes') \X Procs
  <2>1. 1 .. inodes \subseteq 1 .. inodes'
    BY <1>1, <1>2
  <2> QED BY <2>1, <1>0 DEF IInv, TypeOK
<1>8. TypeOK'
  <2>1. entries' \subseteq {"data", "manifest", "OWNER"} /\ crashes' \in Nat /\ version' \in Version
    BY <1>0 DEF IInv, TypeOK
  <2> QED BY <1>0, <1>1, <1>2, <1>6, <1>7, <2>1 DEF TypeOK
<1>9. lock' # 0 => marker' # lock' /\ \A q \in Procs : proc'[q].mark # lock'
  BY <1>0, <1>3, <1>4, <1>6
<1>10. p \in Builders => <<r.mark, p>> \in flock /\ marker = r.mark
  <2> SUFFICES ASSUME p \in Builders PROVE <<r.mark, p>> \in flock /\ marker = r.mark
    OBVIOUS
  <2>1. proc[p].pc = "work"
    BY ProcessesAreDistinct DEF OpenLock
  <2> QED BY <1>3, <2>1 DEF IInv, LocksBound, HasMarker, MarkerNamed, Building
<1>11. proc'[p].mark <= inodes'
  <2>1. proc[p].mark <= inodes /\ proc[p].mark \in Nat
    BY <1>0 DEF IInv, LocksBound, TypeOK, Process
  <2> QED BY <2>1, <1>1, <1>2, <1>3, <1>6
<1>12. flock' = flock /\ marker' = marker /\ lock' = i
  BY <1>0
<1>13. LocksBound'
  BY <1>0, <1>2, <1>3, <1>5, <1>6, <1>8, <1>9, <1>10, <1>11, <1>12, StepSound
<1> QED BY <1>8, <1>13 DEF IInv

LEMMA TakeLockKeeps ==
    ASSUME IInv, NEW p \in Builders \cup Queries, TakeLock(p) PROVE IInv'
<1> DEFINE r == [proc[p] EXCEPT !.pc = "critical"]
           h == <<proc[p].fd, p>>
<1>0. /\ p \in Procs /\ proc[p].pc = "wait" /\ Free(proc[p].fd) /\ Become(p, r)
      /\ flock' = flock \cup {h}
      /\ UNCHANGED <<lock, marker, entries, inodes, version, crashes>>
  BY DEF TakeLock, Procs, Goto
<1>1. r \in Process /\ r.pc = "critical" /\ r.mark = proc[p].mark /\ r.fd = proc[p].fd
  BY <1>0, ExceptType DEF IInv, Pcs
<1>2. lock # 0 /\ proc[p].fd = lock /\ lock \in 1 .. inodes
  BY <1>0 DEF IInv, LocksBound, TypeOK
<1>3. r.mark <= inodes /\ (lock # 0 => r.mark # lock)
  BY <1>0, <1>1 DEF IInv, LocksBound
<1>4. flock' \subseteq (1 .. inodes) \X Procs
  BY <1>0, <1>2, FlockType DEF IInv
<1>5. /\ \A g \in flock' \ flock : g[2] = p /\ Free(g[1]) /\ flock' = flock \cup {g}
      /\ \A g \in flock \ flock' : g[2] = p
  BY <1>0
<1>6. p \in Builders => <<r.mark, p>> \in flock' /\ marker = r.mark
  BY <1>0, <1>1 DEF IInv, LocksBound, HasMarker, MarkerNamed, Building
<1>7. <<r.fd, p>> \in flock'
  BY <1>0, <1>1
<1> HIDE DEF r, h
<1> QED BY <1>0, <1>1, <1>2, <1>3, <1>4, <1>5, <1>6, <1>7, MoveKeeps

\* LOCK is released; the marker, another file, is not.
LEMMA ReleaseKeeps ==
    ASSUME IInv, NEW p \in Builders \cup Queries, Release(p),
           proc[p].pc \in {"critical", "publish"},
           entries' \subseteq {"data", "manifest", "OWNER"}, version' \in Version,
           UNCHANGED <<lock, marker, inodes, crashes>>
    PROVE  IInv'
<1>0. /\ p \in Procs /\ flock' = flock \ {<<proc[p].fd, p>>}
  BY DEF Release, Procs
<1> DEFINE n == [proc[p] EXCEPT !.base = version', !.fd = 0]
           two == [n EXCEPT !.pc = "work", !.phase = 2]
           end == [n EXCEPT !.pc = "drop"]
<1>2. PICK r \in {Idle, two, end} :
         Become(p, r) /\ (r = Idle => p \in Queries)
  <2>1. CASE p \in Queries
    BY <2>1 DEF Release
  <2>2. CASE p \notin Queries
    <3>1. Become(p, two) \/ Become(p, end)
      BY <2>2 DEF Release
    <3>2. two.pc = "work" /\ end.pc = "drop" /\ Idle.pc = "idle"
      <4>1. proc[p] \in Process
        BY <1>0 DEF IInv, TypeOK
      <4> QED BY <4>1 DEF Process, Idle
    <3> QED BY <3>1, <3>2
  <2> QED BY <2>1, <2>2
<1>3. /\ r \in Process /\ r.mark \in {0, proc[p].mark}
      /\ r.pc \in {"idle", "work", "drop"} /\ (r.pc # "idle" => r.mark = proc[p].mark)
      /\ (p \in Builders => r.pc # "idle")
  <2>1. proc[p] \in Process /\ 2 \in 1 .. 2 /\ {"work", "drop"} \subseteq Pcs /\ 0 \in Nat
    BY <1>0 DEF IInv, TypeOK, Pcs
  <2>2. n \in Process /\ n.mark = proc[p].mark
    BY <2>1 DEF Process
  <2> HIDE DEF n
  <2>3. two \in Process /\ two.mark = n.mark /\ two.pc = "work"
    BY <2>1, <2>2 DEF Process
  <2>4. end \in Process /\ end.mark = n.mark /\ end.pc = "drop"
    BY <2>1, <2>2 DEF Process
  <2>5. Idle \in Process /\ Idle.mark = 0 /\ Idle.pc = "idle"
    BY IdleType DEF Idle
  <2> HIDE DEF two, end
  <2> QED BY <1>2, <2>2, <2>3, <2>4, <2>5, ProcessesAreDistinct
<1> HIDE DEF n, two, end
<1>4. proc' \in [Procs -> Process] /\ proc'[p] = r /\ \A q \in Procs \ {p} : proc'[q] = proc[q]
  BY <1>0, <1>2, <1>3, BecomeType DEF IInv
<1>5. flock' \subseteq (1 .. inodes') \X Procs
  BY <1>0 DEF IInv, TypeOK
<1>6. TypeOK'
  BY <1>0, <1>4, <1>5 DEF IInv, TypeOK
<1>7. p \in Builders => <<r.mark, p>> \in flock' /\ marker = r.mark
  <2> SUFFICES ASSUME p \in Builders PROVE <<r.mark, p>> \in flock' /\ marker = r.mark
    OBVIOUS
  <2>1. r.mark = proc[p].mark
    BY <1>3
  <2>2. <<proc[p].mark, p>> \in flock /\ marker = proc[p].mark
    BY <1>0 DEF IInv, LocksBound, HasMarker, MarkerNamed, Building
  <2>3. proc[p].fd # proc[p].mark
    BY <1>0 DEF IInv, LocksBound
  <2> QED BY <1>0, <2>1, <2>2, <2>3
<1>8. lock' # 0 => marker' # lock' /\ \A q \in Procs : proc'[q].mark # lock'
  BY <1>0, <1>3, <1>4 DEF IInv, LocksBound
<1>9. inodes <= inodes' /\ proc'[p].mark <= inodes'
  BY <1>0, <1>3, <1>4 DEF IInv, LocksBound, TypeOK
<1>10. /\ \A h \in flock' \ flock : h[2] = p /\ Free(h[1]) /\ flock' = flock \cup {h}
       /\ \A h \in flock \ flock' : h[2] = p
  BY <1>0
<1>11. lock' = lock /\ marker' = marker
  BY <1>0
<1>12. LocksBound'
  BY <1>0, <1>3, <1>4, <1>6, <1>7, <1>8, <1>9, <1>10, <1>11, StepSound
<1> QED BY <1>6, <1>12 DEF IInv

LEMMA PublishKeeps ==
    ASSUME IInv, NEW p \in Builders \cup Queries, Publish(p) PROVE IInv'
<1>1. entries' \subseteq {"data", "manifest", "OWNER"} /\ version' \in Version
  BY DEF Publish, IInv, TypeOK, Version
<1> QED BY <1>1, ReleaseKeeps DEF Publish

LEMMA CheckManifestKeeps ==
    ASSUME IInv, NEW p \in Builders \cup Queries, CheckManifest(p) PROVE IInv'
<1>0. /\ p \in Procs /\ proc[p].pc = "critical" /\ version' = version
      /\ UNCHANGED <<lock, marker, entries, inodes, crashes>>
  BY DEF CheckManifest, Procs
<1>1. CASE MayPublish(p)
  <2> DEFINE r == [proc[p] EXCEPT !.pc = "publish"]
  <2>1. Become(p, r) /\ flock' = flock
    BY <1>1 DEF CheckManifest, Goto
  <2>2. r \in Process /\ r.pc = "publish" /\ r.mark = proc[p].mark /\ r.fd = proc[p].fd
    BY <1>0, ExceptType DEF IInv, Pcs
  <2> HIDE DEF r
  <2>3. r.mark <= inodes /\ (lock # 0 => r.mark # lock) /\ r.fd = lock /\ lock # 0
    BY <1>0, <2>2 DEF IInv, LocksBound
  <2>4. flock' \subseteq (1 .. inodes) \X Procs
    BY <2>1 DEF IInv, TypeOK
  <2>5. p \in Builders => <<r.mark, p>> \in flock' /\ marker = r.mark
    BY <1>0, <2>1, <2>2 DEF IInv, LocksBound, HasMarker, MarkerNamed, Building
  <2>6. <<r.fd, p>> \in flock'
    BY <1>0, <2>1, <2>2 DEF IInv, LocksBound
  <2> QED BY <1>0, <2>1, <2>2, <2>3, <2>4, <2>5, <2>6, MoveKeeps
<1>2. CASE ~MayPublish(p)
  <2>1. Release(p)
    BY <1>2 DEF CheckManifest
  <2>2. entries' \subseteq {"data", "manifest", "OWNER"} /\ version' \in Version
    BY <1>0 DEF IInv, TypeOK
  <2> QED BY <1>0, <2>1, <2>2, ReleaseKeeps
<1> QED BY <1>1, <1>2

LEMMA CrashKeeps == ASSUME IInv, NEW p \in Procs, Crash(p) PROVE IInv'
<1> DEFINE r == IF p \in Queries THEN Idle ELSE Done
<1>0. /\ flock' = {h \in flock : h[2] # p} /\ Become(p, r) /\ crashes' = crashes + 1
      /\ UNCHANGED <<lock, marker, entries, inodes, version>>
  BY DEF Crash
<1>1. r \in Process /\ r.pc \in {"idle", "done"} /\ r.mark = 0
  BY IdleType, DoneType DEF Idle
<1> HIDE DEF r
<1>2. proc' \in [Procs -> Process]
  BY <1>0, <1>1, BecomeType DEF IInv
<1>3. TypeOK'
  BY <1>0, <1>2 DEF IInv, TypeOK
<1>4. /\ \A h \in flock \ flock' : h[2] = p
      /\ flock' \subseteq flock /\ UNCHANGED <<lock, inodes>> /\ marker' = marker
  BY <1>0
<1>5. r.pc \in Pcs \ (HasMarker \cup {"tryMark", "wait", "critical", "publish"})
  BY <1>1 DEF HasMarker, Pcs
<1>6. LocksBound'
  BY <1>0, <1>1, <1>3, <1>4, <1>5, RestSound
<1> QED BY <1>3, <1>6 DEF IInv

-----------------------------------------------------------------------------
(* Purges.  What they do before they remove anything keeps the invariant;  *)
(* once one removes, no step makes Unpurged true again.                    *)

\* The steps of a removal under way.
Removing(p) == PurgeList(p) \/ PurgeEntry(p) \/ PurgeRest(p) \/ PurgeLast(p) \/ PurgeEnd(p)

LEMMA RemovingStarted ==
    ASSUME NEW p, Removing(p)
    PROVE  proc[p].pc \in {"list", "remove", "manifest", "OWNER", "LOCK"}
<1>1. LastEntries[1] = "manifest" /\ LastEntries[2] = "OWNER"
  BY DEF LastEntries
<1>2. ASSUME PurgeLast(p) PROVE proc[p].pc \in {"manifest", "OWNER"}
  <2>1. PICK i \in 1 .. 2 : proc[p].pc = LastEntries[i]
    BY <1>2 DEF PurgeLast
  <2>2. i = 1 \/ i = 2
    BY <2>1
  <2> QED BY <1>1, <2>1, <2>2
<1>3. PurgeList(p) => proc[p].pc = "list"
  BY DEF PurgeList
<1>4. PurgeEntry(p) \/ PurgeRest(p) => proc[p].pc = "remove"
  BY DEF PurgeEntry, PurgeRest
<1>5. PurgeEnd(p) => proc[p].pc = "LOCK"
  BY DEF PurgeEnd
<1> QED BY <1>2, <1>3, <1>4, <1>5 DEF Removing

\* A purge that finds LOCK taken leaves everything as it is, as does its
\* opening of LOCK.
LEMMA PurgeKeeps ==
    ASSUME IInv, NEW p \in Purgers, PurgeStep(p), Unpurged, Unpurged' PROVE IInv'
<1>0. p \in Procs /\ p \notin Builders /\ proc[p].pc \in {"idle", "tryLock"}
  BY ProcessesAreDistinct DEF Procs, Unpurged
<1>1. proc'[p].pc \in {"idle", "tryLock"}
  BY DEF Unpurged
<1>2. CASE PurgeOpen(p)
  <2> DEFINE r == [Idle EXCEPT !.pc = IF lock = 0 THEN "list" ELSE "tryLock", !.fd = lock]
  <2>1. Become(p, r) /\ UNCHANGED <<lock, marker, entries, inodes, version, flock, crashes>>
    BY <1>2 DEF PurgeOpen
  <2>2. r.pc \in {"list", "tryLock"} /\ r.mark = 0
    BY DEF Idle
  <2>3. r \in Process
    <3>1. Idle \in Process /\ lock \in Nat /\ {"list", "tryLock"} \subseteq Pcs
      BY IdleType DEF IInv, TypeOK, Pcs
    <3> QED BY <3>1 DEF Process
  <2> HIDE DEF r
  <2>4. TypeOK' /\ flock \subseteq (1 .. inodes) \X Procs
    BY <1>0, <2>1, <2>3, MoveType DEF IInv, TypeOK
  <2>5. r.pc \in Pcs \ (HasMarker \cup {"tryMark", "wait", "critical", "publish"})
    BY <2>2 DEF HasMarker, Pcs
  <2> QED BY <1>0, <2>1, <2>2, <2>3, <2>4, <2>5, RestSound DEF IInv
<1>3. CASE PurgeLock(p)
  <2>1. CASE Free(proc[p].fd)
    <3>1. Goto(p, "list") /\ "list" \in Pcs
      BY <1>3, <2>1 DEF PurgeLock, Pcs
    <3>2. proc'[p].pc = "list"
      BY <1>0, <3>1, GotoType DEF IInv
    <3> QED BY <1>1, <3>2
  <2>2. CASE ~Free(proc[p].fd)
    <3>1. Become(p, Idle) /\ UNCHANGED <<flock, lock, marker, entries, inodes, version, crashes>>
      BY <1>3, <2>2 DEF PurgeLock
    <3> QED BY <1>0, <3>1, LetGoKeeps
  <2> QED BY <2>1, <2>2
<1>4. ~Removing(p)
  BY <1>0, RemovingStarted
<1> QED BY <1>2, <1>3, <1>4 DEF PurgeStep, Removing

\* Enough of the type to tell where purges are, whatever they removed.
Shape ==
    /\ proc = [p \in Procs |-> proc[p]]
    /\ \A p \in Purgers : proc[p] = [f \in DOMAIN Idle |-> proc[p][f]]

LEMMA ShapeKept ==
    ASSUME Shape, NEW p \in Procs, NEW r, Become(p, r),
           p \in Purgers => r = [f \in DOMAIN Idle |-> r[f]]
    PROVE  /\ Shape' /\ proc'[p] = r
           /\ \A q \in Procs \ {p} : proc'[q] = proc[q]
<1>1. proc' = [q \in Procs |-> IF q = p THEN r ELSE proc[q]]
  BY DEF Shape, Become
<1>2. proc'[p] = r /\ \A q \in Procs \ {p} : proc'[q] = proc[q]
  BY <1>1
<1>3. proc' = [q \in Procs |-> proc'[q]]
  BY <1>1
<1>4. ASSUME NEW q \in Purgers PROVE proc'[q] = [f \in DOMAIN Idle |-> proc'[q][f]]
  BY <1>2, <1>4 DEF Shape, Procs
<1> QED BY <1>2, <1>3, <1>4 DEF Shape

\* A process other than a purge is replaced as a whole.
LEMMA OtherSteps ==
    ASSUME NEW p \in Builders \cup Queries,
           BuildStep(p) \/ WriteStep(p) \/ QueryStep(p) \/ Crash(p)
    PROVE  proc' = proc \/ \E r : Become(p, r)
<1>2. ASSUME BuildStep(p) PROVE \E r : Become(p, r)
  BY <1>2 DEF BuildStep, StartBuild, OpenMarker, TryMarker, CheckMarker, WriteOwner,
     DropMarker, UnlinkMarker, CloseMarker, Goto
<1>3. ASSUME WriteStep(p) PROVE \E r : Become(p, r)
  BY <1>3 DEF WriteStep, OpenLock, TakeLock, CheckManifest, Publish, Release, Goto
<1>4. ASSUME QueryStep(p) PROVE proc' = proc \/ \E r : Become(p, r)
  BY <1>4 DEF QueryStep, OpenIndex, Probe, EndProbe
<1>5. ASSUME Crash(p) PROVE \E r : Become(p, r)
  BY <1>5 DEF Crash
<1> QED BY <1>2, <1>3, <1>4, <1>5

LEMMA PurgedStays ==
    ASSUME Shape, [Next]_vars
    PROVE  Shape' /\ (Unpurged' => Unpurged)
<1>1. CASE proc' = proc
  BY <1>1 DEF Shape, Unpurged
<1>2. ASSUME NEW p \in Builders \cup Queries, NEW r, Become(p, r)
      PROVE  Shape' /\ (Unpurged' => Unpurged)
  <2>1. p \in Procs /\ p \notin Purgers
    BY ProcessesAreDistinct DEF Procs
  <2>2. Shape' /\ \A q \in Procs \ {p} : proc'[q] = proc[q]
    BY <1>2, <2>1, ShapeKept
  <2> QED BY <2>1, <2>2 DEF Unpurged, Procs
<1>3. ASSUME NEW p \in Purgers, NEW r, Become(p, r), r = [f \in DOMAIN Idle |-> r[f]],
             proc[p].pc \notin {"idle", "tryLock"} => r.pc \notin {"idle", "tryLock"}
      PROVE  Shape' /\ (Unpurged' => Unpurged)
  <2>1. p \in Procs
    BY DEF Procs
  <2>2. Shape' /\ proc'[p] = r /\ \A q \in Procs \ {p} : proc'[q] = proc[q]
    BY <1>3, <2>1, ShapeKept
  <2>3. ASSUME NEW q \in Purgers, proc'[q].pc \in {"idle", "tryLock"}
        PROVE  proc[q].pc \in {"idle", "tryLock"}
    BY <1>3, <2>2, <2>3 DEF Procs
  <2> QED BY <2>2, <2>3 DEF Unpurged
<1>5. Idle = [f \in DOMAIN Idle |-> Idle[f]] /\ Done = [f \in DOMAIN Idle |-> Done[f]]
      /\ Done.pc = "done" /\ Idle.pc = "idle"
  BY DEF Idle, Done
<1>6. ASSUME NEW p \in Purgers, PurgeStep(p)
      PROVE  Shape' /\ (Unpurged' => Unpurged)
  <2>0. /\ proc[p] = [f \in DOMAIN Idle |-> proc[p][f]]
        /\ DOMAIN Idle = {"pc", "fd", "mark", "base", "phase", "listed", "failed"}
    BY DEF Shape, Idle
  <2>1. CASE proc[p].pc \in {"idle", "tryLock"}
    <3>1. \E r : Become(p, r) /\ r = [f \in DOMAIN Idle |-> r[f]]
      <4>1. CASE PurgeOpen(p)
        <5> DEFINE r == [Idle EXCEPT !.pc = IF lock = 0 THEN "list" ELSE "tryLock", !.fd = lock]
        <5>1. Become(p, r) /\ r = [f \in DOMAIN Idle |-> r[f]]
          BY <4>1 DEF PurgeOpen, Idle
        <5> QED BY <5>1
      <4>2. CASE PurgeLock(p)
        <5> DEFINE r == [proc[p] EXCEPT !.pc = "list"]
        <5>1. r = [f \in DOMAIN Idle |-> r[f]]
          BY <2>0
        <5>2. Become(p, r) \/ Become(p, Idle)
          BY <4>2 DEF PurgeLock, Goto
        <5> QED BY <1>5, <5>1, <5>2
      <4>3. ~Removing(p)
        BY <2>1, RemovingStarted
      <4> QED BY <1>6, <4>1, <4>2, <4>3 DEF PurgeStep, Removing
    <3> QED BY <1>3, <2>1, <3>1
  <2>2. CASE proc[p].pc \notin {"idle", "tryLock"}
    <3>1. CASE PurgeList(p)
      <4> DEFINE l == (entries \cap {"data"}) \cup (IF marker = 0 THEN {} ELSE {"marker"})
                 r == [proc[p] EXCEPT !.pc = "remove", !.listed = l]
      <4>1. r = [f \in DOMAIN Idle |-> r[f]] /\ r.pc = "remove"
        BY <2>0
      <4>2. Become(p, r)
        BY <3>1 DEF PurgeList
      <4> HIDE DEF r
      <4> QED BY <1>3, <4>1, <4>2
    <3>2. CASE PurgeEntry(p)
      <4>1. PICK e \in proc[p].listed, t \in BOOLEAN :
               Become(p, [proc[p] EXCEPT !.listed = @ \ {e}, !.failed = @ \/ t])
        BY <3>2 DEF PurgeEntry
      <4> DEFINE r == [proc[p] EXCEPT !.listed = @ \ {e}, !.failed = @ \/ t]
      <4>2. r = [f \in DOMAIN Idle |-> r[f]] /\ r.pc = proc[p].pc
        BY <2>0
      <4> HIDE DEF r
      <4> QED BY <1>3, <2>2, <4>1, <4>2 DEF r
    <3>3. ASSUME NEW pc \in {"manifest", "OWNER", "LOCK"}, Goto(p, pc)
          PROVE  Shape' /\ (Unpurged' => Unpurged)
      <4> DEFINE r == [proc[p] EXCEPT !.pc = pc]
      <4>1. r = [f \in DOMAIN Idle |-> r[f]] /\ r.pc = pc
        BY <2>0
      <4>2. Become(p, r)
        BY <3>3 DEF Goto
      <4> HIDE DEF r
      <4> QED BY <1>3, <3>3, <4>1, <4>2
    <3>4. CASE Become(p, Done)
      BY <1>3, <1>5, <3>4
    <3>5. CASE PurgeRest(p) \/ PurgeLast(p) \/ PurgeEnd(p)
      <4>1. Become(p, Done) \/ \E pc \in {"manifest", "OWNER", "LOCK"} : Goto(p, pc)
        BY <3>5 DEF PurgeRest, PurgeLast, PurgeEnd, LastEntries
      <4> QED BY <3>3, <3>4, <4>1
    <3>6. ~PurgeOpen(p) /\ ~PurgeLock(p)
      BY <2>2 DEF PurgeOpen, PurgeLock
    <3> QED BY <1>6, <3>1, <3>2, <3>5, <3>6 DEF PurgeStep
  <2> QED BY <2>1, <2>2
<1>7. ASSUME NEW p \in Procs, Crash(p)
      PROVE  Shape' /\ (Unpurged' => Unpurged)
  <2>1. CASE p \in Purgers
    <3>1. Become(p, Done)
      BY <1>7, <2>1, ProcessesAreDistinct DEF Crash
    <3> QED BY <1>3, <1>5, <2>1, <3>1
  <2>2. CASE p \notin Purgers
    BY <1>1, <1>2, <1>7, <2>2, OtherSteps DEF Procs
  <2> QED BY <2>1, <2>2
<1>8. ASSUME NEW p \in Builders \cup Queries, BuildStep(p) \/ WriteStep(p) \/ QueryStep(p)
      PROVE  Shape' /\ (Unpurged' => Unpurged)
  BY <1>1, <1>2, <1>8, OtherSteps
<1> QED BY <1>1, <1>6, <1>7, <1>8 DEF Next, vars

-----------------------------------------------------------------------------
(* The invariant, and what it gives until something is removed *)

LEMMA Inductive ==
    ASSUME IInv, [Next]_vars, Unpurged, Unpurged'
    PROVE  IInv'
<1>1. CASE UNCHANGED vars
  BY <1>1 DEF vars, IInv, TypeOK, LocksBound, MarkerNamed, Building
<1>2. ASSUME NEW b \in Builders, BuildStep(b)
      PROVE  IInv'
  BY <1>2, StartBuildKeeps, OpenMarkerKeeps, TryMarkerKeeps, CheckMarkerKeeps,
     WriteOwnerKeeps, DropMarkerKeeps, UnlinkMarkerKeeps, CloseMarkerKeeps
     DEF BuildStep
<1>3. ASSUME NEW p \in Builders \cup Queries, WriteStep(p)
      PROVE  IInv'
  BY <1>3, OpenLockKeeps, TakeLockKeeps, CheckManifestKeeps, PublishKeeps DEF WriteStep
<1>4. ASSUME NEW q \in Queries, QueryStep(q)
      PROVE  IInv'
  BY <1>4, OpenIndexKeeps, ProbeKeeps, EndProbeKeeps DEF QueryStep
<1>5. ASSUME NEW p \in Procs, Crash(p)
      PROVE  IInv'
  BY <1>5, CrashKeeps
<1>6. ASSUME NEW p \in Purgers, PurgeStep(p)
      PROVE  IInv'
  BY <1>6, PurgeKeeps
<1> QED BY <1>1, <1>2, <1>3, <1>4, <1>5, <1>6 DEF Next

\* Nobody removes anything.
Removals == {"list", "remove", "manifest", "OWNER", "LOCK"}
NoneRemoves == \A p \in Procs : proc[p].pc \notin Removals

LEMMA BecomeNoneRemoves ==
    ASSUME TypeOK, NoneRemoves, NEW p \in Procs, NEW r, Become(p, r), r.pc \notin Removals
    PROVE  NoneRemoves'
BY DEF TypeOK, NoneRemoves, Become

LEMMA GotoNoneRemoves ==
    ASSUME TypeOK, NoneRemoves, NEW p \in Procs, NEW pc \in Pcs \ Removals, Goto(p, pc)
    PROVE  NoneRemoves'
<1> DEFINE r == [proc[p] EXCEPT !.pc = pc]
<1>1. r.pc = pc /\ Become(p, r)
  BY ExceptType DEF Goto
<1> QED BY <1>1, BecomeNoneRemoves

LEMMA NoneRemovesKept ==
    ASSUME TypeOK, NoneRemoves, [Next]_vars, Unpurged'
    PROVE  NoneRemoves'
<1>1. CASE UNCHANGED vars
  BY <1>1 DEF vars, NoneRemoves
<1>2. ASSUME NEW b \in Builders, BuildStep(b)
      PROVE  NoneRemoves'
  <2>0. b \in Procs
    BY DEF Procs
  <2>1. CASE StartBuild(b) \/ CheckMarker(b)
    <3>1. [Idle EXCEPT !.pc = "open"].pc = "open"
      BY DEF Idle
    <3>2. Become(b, [Idle EXCEPT !.pc = "open"]) \/ Goto(b, "owner")
      BY <2>1 DEF StartBuild, CheckMarker
    <3> QED BY <2>0, <3>1, <3>2, BecomeNoneRemoves, GotoNoneRemoves DEF Removals, Pcs
  <2>2. CASE OpenMarker(b)
    <3> DEFINE i == IF marker = 0 THEN inodes + 1 ELSE marker
               r == [proc[b] EXCEPT !.pc = "tryMark", !.mark = i]
    <3>1. r.pc = "tryMark"
      BY <2>0 DEF TypeOK, Process
    <3>2. Become(b, r)
      BY <2>2 DEF OpenMarker
    <3> HIDE DEF r
    <3> QED BY <2>0, <3>1, <3>2, BecomeNoneRemoves DEF Removals
  <2>3. CASE TryMarker(b) \/ CloseMarker(b)
    <3>1. Become(b, Done) \/ Goto(b, "tryMark") \/ Goto(b, "sameFile")
      BY <2>3 DEF TryMarker, CloseMarker
    <3>2. Done.pc = "done"
      BY DoneType
    <3> QED BY <2>0, <3>1, <3>2, BecomeNoneRemoves, GotoNoneRemoves DEF Removals, Pcs
  <2>4. CASE WriteOwner(b) \/ DropMarker(b) \/ UnlinkMarker(b)
    <3>1. \E pc \in {"work", "unlink", "close"} : Goto(b, pc)
      BY <2>4 DEF WriteOwner, DropMarker, UnlinkMarker
    <3> QED BY <2>0, <3>1, GotoNoneRemoves DEF Removals, Pcs
  <2> QED BY <1>2, <2>1, <2>2, <2>3, <2>4 DEF BuildStep
<1>3. ASSUME NEW p \in Builders \cup Queries, WriteStep(p)
      PROVE  NoneRemoves'
  <2>0. p \in Procs
    BY DEF Procs
  <2>1. CASE OpenLock(p)
    <3> DEFINE i == IF lock = 0 THEN inodes + 1 ELSE lock
               r == [proc[p] EXCEPT !.pc = "wait", !.fd = i]
    <3>1. r.pc = "wait"
      BY <2>0 DEF TypeOK, Process
    <3>2. Become(p, r)
      BY <2>1 DEF OpenLock
    <3> HIDE DEF r
    <3> QED BY <2>0, <3>1, <3>2, BecomeNoneRemoves DEF Removals
  <2>2. CASE TakeLock(p)
    BY <2>0, <2>2, GotoNoneRemoves DEF TakeLock, Removals, Pcs
  <2>3. CASE Release(p)
    <3> DEFINE n == [proc[p] EXCEPT !.base = version', !.fd = 0]
               two == [n EXCEPT !.pc = "work", !.phase = 2]
               end == [n EXCEPT !.pc = "drop"]
    <3>1. Become(p, Idle) \/ Become(p, two) \/ Become(p, end)
      BY <2>3 DEF Release
    <3>2. two.pc = "work" /\ end.pc = "drop" /\ Idle.pc = "idle"
      BY <2>0 DEF TypeOK, Process, Idle
    <3> HIDE DEF two, end
    <3> QED BY <2>0, <3>1, <3>2, BecomeNoneRemoves DEF Removals
  <2>4. CASE CheckManifest(p) \/ Publish(p)
    <3>1. Release(p) \/ Goto(p, "publish")
      BY <2>4 DEF CheckManifest, Publish
    <3> QED BY <2>0, <2>3, <3>1, GotoNoneRemoves DEF Removals, Pcs
  <2> QED BY <1>3, <2>1, <2>2, <2>4 DEF WriteStep
<1>4. ASSUME NEW q \in Queries, QueryStep(q)
      PROVE  NoneRemoves'
  <2> DEFINE stale == [Idle EXCEPT !.pc = "stale", !.base = Manifest]
             probe == [Idle EXCEPT !.pc = "probe", !.mark = marker]
  <2>1. q \in Procs /\ stale.pc = "stale" /\ probe.pc = "probe" /\ Idle.pc = "idle"
    BY DEF Idle, Procs
  <2>2. proc' = proc \/ Become(q, Idle) \/ Become(q, stale) \/ Become(q, probe)
    BY <1>4 DEF QueryStep, OpenIndex, Probe, EndProbe
  <2> HIDE DEF stale, probe
  <2>3. CASE proc' = proc
    BY <2>3 DEF NoneRemoves
  <2> QED BY <2>1, <2>2, <2>3, BecomeNoneRemoves DEF Removals
<1>5. ASSUME NEW p \in Procs, Crash(p)
      PROVE  NoneRemoves'
  <2>1. (Become(p, Idle) \/ Become(p, Done)) /\ Idle.pc = "idle" /\ Done.pc = "done"
    BY <1>5, DoneType DEF Crash, Idle
  <2> QED BY <2>1, BecomeNoneRemoves DEF Removals
<1>6. ASSUME NEW p \in Purgers, PurgeStep(p)
      PROVE  NoneRemoves'
  <2>1. PICK r : Become(p, r)
    BY <1>6 DEF PurgeStep, PurgeOpen, PurgeLock, PurgeList, PurgeEntry, PurgeRest,
       PurgeLast, PurgeEnd, Goto
  <2>2. p \in Procs /\ proc'[p].pc \in {"idle", "tryLock"}
    BY DEF Procs, Unpurged
  <2>3. proc'[p] = r
    BY <2>1, <2>2 DEF Become, TypeOK
  <2> QED BY <2>1, <2>2, <2>3, BecomeNoneRemoves DEF Removals
<1> QED BY <1>1, <1>2, <1>3, <1>4, <1>5, <1>6 DEF Next

\* What holds until something is removed, and the shape that outlives it.
Inv == Shape /\ (Unpurged => IInv /\ NoneRemoves)

LEMMA Invariant == Spec => []Inv
<1>1. ASSUME Init PROVE Inv
  <2>1. proc = [p \in Procs |-> Idle]
    BY <1>1 DEF Init
  <2>2. \A p \in Purgers : proc[p] = [f \in DOMAIN Idle |-> proc[p][f]]
    BY <2>1 DEF Idle, Procs
  <2>3. Shape
    BY <2>1, <2>2 DEF Shape
  <2>4. NoneRemoves
    BY <2>1 DEF NoneRemoves, Removals, Idle
  <2> QED BY <1>1, <2>3, <2>4, InitTypeOK, InitSound DEF Inv, IInv
<1>2. ASSUME Inv, [Next]_vars PROVE Inv'
  <2>1. Shape' /\ (Unpurged' => Unpurged)
    BY <1>2, PurgedStays DEF Inv
  <2>2. ASSUME Unpurged' PROVE (IInv /\ NoneRemoves)'
    BY <1>2, <2>1, <2>2, Inductive, NoneRemovesKept DEF Inv, IInv
  <2> QED BY <2>1, <2>2 DEF Inv
<1> QED BY <1>1, <1>2, PTL DEF Spec

\* The names BUILDING and LOCK stay bound to the files whoever is past them
\* has locked (`take_marker`, `Marker::drop`, `open_lock`), until something is
\* removed.
THEOREM LocksAreSound == Spec => []LocksSound
<1>1. Inv => LocksSound
  BY DEF Inv, IInv, LocksSound
<1> QED BY <1>1, Invariant, PTL

\* "One build per index": however markers are removed and made again, and
\* however builds die, no two of them walk and parse at the same time
\* (`take_marker`, which checks that the name still means the locked file).
THEOREM OneBuildAtATime == Spec => []OneBuild
<1>1. Inv => OneBuild
  BY OneHolder DEF Inv, IInv, OneBuild
<1> QED BY <1>1, Invariant, PTL

LEMMA OneExclusively == ASSUME IInv, NoneRemoves PROVE OneExclusive
<1> SUFFICES ASSUME NEW p \in Procs, NEW q \in Procs, Exclusive(p), Exclusive(q)
             PROVE  p = q
  BY DEF OneExclusive
<1>1. {proc[p].pc, proc[q].pc} \subseteq {"critical", "publish"}
  BY DEF NoneRemoves, Removals, Exclusive
<1>2. proc[p].fd = lock /\ proc[q].fd = lock
  BY <1>1 DEF IInv, LocksBound
<1>3. <<lock, p>> \in flock /\ <<lock, q>> \in flock
  BY <1>1, <1>2 DEF IInv, LocksBound
<1> QED BY <1>3 DEF IInv, LocksBound

\* LOCK is never bound to another file, so one writer publishes at a time
\* (`lock::acquire`), until a purge, which removes LOCK, starts.
THEOREM OneWriterAtATime == Spec => []WritersExclude
<1>1. Inv => WritersExclude
  BY OneExclusively DEF Inv, WritersExclude
<1> QED BY <1>1, Invariant, PTL

-----------------------------------------------------------------------------
(* What a removal leaves, as long as no build has started: whoever publishes *)
(* or removes holds the flock on LOCK, the first file of that name, until    *)
(* OWNER is gone.                                                            *)

QueryPcs == {"idle", "stale", "wait", "critical", "publish"}
PurgePcs == {"idle", "tryLock", "list", "remove", "manifest", "OWNER", "LOCK", "done"}
Opened == {"wait", "critical", "publish", "tryLock"}
Holding == {"critical", "publish", "list", "remove", "manifest", "OWNER", "LOCK"}
Based == {"stale", "wait", "critical", "publish"}

Sound(p) ==
    /\ proc[p].pc \in IF p \in Queries THEN QueryPcs ELSE PurgePcs
    /\ proc[p].pc \in Opened => proc[p].fd # 0 /\ proc[p].fd <= inodes
    /\ proc[p].pc \in Opened /\ "OWNER" \in entries => proc[p].fd = lock
    /\ proc[p].pc \in Holding /\ "OWNER" \in entries =>
           proc[p].fd = lock /\ <<lock, p>> \in flock
    /\ p \in Queries /\ proc[p].pc \in Based => proc[p].base # NoVersion
    /\ p \in Queries /\ proc[p].pc = "publish" => Manifest = proc[p].base
    /\ proc[p].pc = "remove" /\ "data" \in entries => "data" \in proc[p].listed
    /\ proc[p].pc \in {"manifest", "OWNER", "LOCK"} => "data" \notin entries
    /\ proc[p].pc \in {"OWNER", "LOCK"} => "manifest" \notin entries
    /\ proc[p].pc = "LOCK" => "OWNER" \notin entries

Layout ==
    /\ TypeOK /\ marker = 0
    /\ \A h, g \in flock : h[1] = g[1] => h[2] = g[2]
    /\ entries \cap {"data", "manifest"} # {} => "OWNER" \in entries
    /\ "OWNER" \in entries => lock # 0
    /\ \A p \in Queries \cup Purgers : Sound(p)

\* Under OWNER one process publishes or removes.
LEMMA HoldsAlone ==
    ASSUME Layout, "OWNER" \in entries, NEW p \in Queries \cup Purgers, NEW q \in Queries \cup Purgers,
           proc[p].pc \in Holding, proc[q].pc \in Holding
    PROVE  p = q
BY DEF Layout, Sound

\* A step that moves p to r, and gives or takes only what p may.
LEMMA LayoutKept ==
    ASSUME Layout, NEW p \in Queries \cup Purgers, NEW r \in Process, Become(p, r),
           marker' = 0, inodes' \in Nat, inodes <= inodes', lock' \in Nat, lock' <= inodes',
           version' \in Version, crashes' \in Nat,
           entries' \subseteq {"data", "manifest", "OWNER"},
           "OWNER" \in entries' => "OWNER" \in entries /\ lock' = lock,
           entries' \cap {"data", "manifest"} # {} => "OWNER" \in entries',
           \A e \in {"data", "manifest"} : (e \in entries') # (e \in entries) =>
                        proc[p].pc \in Holding /\ "OWNER" \in entries,
           Manifest' # Manifest => proc[p].pc \in Holding /\ "OWNER" \in entries,
           \A h \in flock \ flock' : h[2] = p,
           \A h \in flock' \ flock :
               h \in (1 .. inodes) \X {p} /\ Free(h[1]) /\ flock' = flock \cup {h},
           Sound(p)'
    PROVE  Layout'
<1>0. p \in Procs /\ proc'[p] = r /\ \A q \in Procs \ {p} : proc'[q] = proc[q]
  BY BecomeType DEF Layout, Procs
<1>1. TypeOK'
  <2>1. proc' \in [Procs -> Process]
    BY <1>0, BecomeType DEF Layout
  <2>2. flock' \subseteq (1 .. inodes') \X Procs
    <3> SUFFICES ASSUME NEW h \in flock' PROVE h \in (1 .. inodes') \X Procs
      OBVIOUS
    <3>0. inodes \in Nat /\ flock \subseteq (1 .. inodes) \X Procs
      BY DEF Layout, TypeOK
    <3>1. h \in (1 .. inodes) \X Procs
      BY <1>0, <3>0
    <3>2. 1 .. inodes \subseteq 1 .. inodes'
      BY <3>0
    <3> QED BY <3>1, <3>2
  <2> QED BY <2>1, <2>2 DEF TypeOK
<1>2. \A h, g \in flock' : h[1] = g[1] => h[2] = g[2]
  <2> SUFFICES ASSUME NEW h \in flock', NEW g \in flock', h[1] = g[1]
               PROVE  h[2] = g[2]
    OBVIOUS
  <2>0. flock \subseteq (1 .. inodes) \X Procs
    BY DEF Layout, TypeOK
  <2>1. ASSUME NEW a \in flock', NEW c \in flock', a \notin flock, c \in flock, a[1] = c[1]
        PROVE  FALSE
    <3>1. Free(a[1]) /\ c = <<c[1], c[2]>> /\ c[2] \in Procs
      BY <2>0, <2>1
    <3> QED BY <2>1, <3>1 DEF Free
  <2> QED BY <2>1 DEF Layout
<1>3. ASSUME NEW q \in Queries \cup Purgers, q # p
      PROVE  Sound(q)'
  <2>0. proc'[q] = proc[q] /\ q \in Procs /\ proc[q] \in Process
    BY <1>0, <1>3 DEF Procs, Layout, TypeOK
  <2>1. Sound(q)
    BY DEF Layout
  <2>2. proc[q].pc \in Opened => proc[q].fd # 0 /\ proc[q].fd <= inodes'
    <3>1. inodes \in Nat /\ proc[q].fd \in Nat
      BY <2>0 DEF Layout, TypeOK, Process
    <3> QED BY <2>1, <3>1 DEF Sound
  <2>3. "OWNER" \in entries /\ proc[q].pc \in Holding => proc[p].pc \notin Holding
    BY <1>3, HoldsAlone
  <2>4. <<lock, q>> \in flock => <<lock, q>> \in flock'
    BY <1>3
  <2>5. proc[q].pc = "publish" => "publish" \in Holding /\ (q \in Queries => Manifest' = Manifest)
    <3>1. q \in Queries /\ proc[q].pc = "publish" => "OWNER" \in entries
      BY <2>1 DEF Sound, Manifest, Layout, Based
    <3> QED BY <2>3, <3>1 DEF Holding
  <2>6. proc[q].pc \in {"remove", "manifest", "OWNER", "LOCK"} =>
            (\A e \in {"data", "manifest"} : e \in entries' => e \in entries)
    BY <2>3 DEF Holding
  <2> QED BY <2>0, <2>1, <2>2, <2>3, <2>4, <2>5, <2>6 DEF Sound
<1>4. \A q \in Queries \cup Purgers : Sound(q)'
  BY <1>3
<1>5. "OWNER" \in entries' => lock' # 0
  BY DEF Layout
<1> QED BY <1>1, <1>2, <1>4, <1>5 DEF Layout

LEMMA MoveKept ==
    ASSUME Layout, NEW p \in Queries \cup Purgers, NEW r \in Process, Become(p, r),
           UNCHANGED <<lock, marker, entries, inodes, version>>, crashes' \in Nat,
           \A h \in flock \ flock' : h[2] = p,
           \A h \in flock' \ flock :
               h \in (1 .. inodes) \X {p} /\ Free(h[1]) /\ flock' = flock \cup {h},
           proc'[p] = r => Sound(p)'
    PROVE  Layout'
<1>1. p \in Procs /\ proc'[p] = r
  BY BecomeType DEF Layout, Procs
<1>2. Manifest' = Manifest
  BY DEF Manifest
<1>3. /\ {lock, marker, inodes} \subseteq Nat /\ lock <= inodes /\ version \in Version
      /\ entries \subseteq {"data", "manifest", "OWNER"}
  BY DEF Layout, TypeOK
<1>4. inodes <= inodes'
  BY <1>3
<1> QED BY <1>1, <1>2, <1>3, <1>4, LayoutKept DEF Layout

LEMMA OpenIndexKept == ASSUME Layout, NEW q \in Queries, OpenIndex(q) PROVE Layout'
<1> DEFINE r == [Idle EXCEPT !.pc = "stale", !.base = Manifest]
<1>1. Manifest \in Version
  BY DEF Layout, TypeOK, Manifest, Version, NoVersion
<1>2. r \in Process /\ r.pc = "stale" /\ r.base = Manifest
  BY <1>1, IdleType DEF Pcs, Idle
<1>3. Become(q, r) /\ Manifest # NoVersion /\ UNCHANGED <<lock, marker, entries, inodes, version, flock, crashes>>
  BY DEF OpenIndex
<1> HIDE DEF r
<1>4. proc'[q] = r => Sound(q)'
  BY <1>2, <1>3, ProcessesAreDistinct DEF Sound, QueryPcs, Opened, Holding
<1> QED BY <1>2, <1>3, <1>4, MoveKept DEF Layout, TypeOK

LEMMA OpenLockKept ==
    ASSUME Layout, NEW q \in Queries, OpenLock(q) PROVE Layout'
<1> DEFINE i == IF lock = 0 THEN inodes + 1 ELSE lock
           r == [proc[q] EXCEPT !.pc = "wait", !.fd = i]
<1>0. /\ {lock, marker, inodes, crashes} \subseteq Nat /\ lock <= inodes /\ version \in Version
      /\ entries \subseteq {"data", "manifest", "OWNER"} /\ proc[q] \in Process /\ Sound(q)
  BY DEF Layout, TypeOK, Procs
<1>1. /\ Become(q, r) /\ lock' = i /\ inodes' = (IF lock = 0 THEN inodes + 1 ELSE inodes)
      /\ UNCHANGED <<marker, entries, version, flock, crashes>>
      /\ proc[q].pc = "stale"
  BY DEF OpenLock
<1>2. i \in Nat /\ i # 0 /\ i <= inodes' /\ inodes' \in Nat /\ inodes <= inodes'
  BY <1>0, <1>1
<1>3. r \in Process /\ r.pc = "wait" /\ r.fd = i /\ r.base = proc[q].base
  BY <1>0, <1>2 DEF Process, Pcs
<1>4. "OWNER" \in entries => i = lock
  BY DEF Layout
<1> HIDE DEF i, r
<1>5. proc'[q] = r
  BY <1>1, <1>3, BecomeType DEF Layout, Procs
<1>6. Sound(q)'
  BY <1>0, <1>1, <1>2, <1>3, <1>4, <1>5, ProcessesAreDistinct DEF Sound, QueryPcs, Opened, Holding, Based
<1>7. Manifest' = Manifest
  BY <1>1 DEF Manifest
<1> QED BY <1>0, <1>1, <1>2, <1>3, <1>4, <1>6, <1>7, LayoutKept DEF Layout

LEMMA TakeLockKept == ASSUME Layout, NEW q \in Queries, TakeLock(q) PROVE Layout'
<1> DEFINE r == [proc[q] EXCEPT !.pc = "critical"]
<1>0. proc[q] \in Process /\ Sound(q) /\ {inodes, crashes} \subseteq Nat
  BY DEF Layout, TypeOK, Procs
<1>1. /\ Become(q, r) /\ proc[q].pc = "wait" /\ Free(proc[q].fd)
      /\ flock' = flock \cup {<<proc[q].fd, q>>}
      /\ UNCHANGED <<lock, marker, entries, inodes, version, crashes>>
  BY DEF TakeLock, Goto
<1>2. r \in Process /\ r.pc = "critical" /\ r.fd = proc[q].fd /\ r.base = proc[q].base
  BY <1>0 DEF Process, Pcs
<1>3. proc[q].fd \in 1 .. inodes
  BY <1>0, <1>1 DEF Sound, Opened, Process
<1> HIDE DEF r
<1>4. proc'[q] = r => Sound(q)'
  BY <1>0, <1>1, <1>2, ProcessesAreDistinct DEF Sound, QueryPcs, Opened, Holding, Based
<1> QED BY <1>0, <1>1, <1>2, <1>3, <1>4, MoveKept DEF Layout

LEMMA LetGoKept ==
    ASSUME Layout, NEW p \in Queries \cup Purgers, NEW r \in {Idle, Done},
           r.pc = "done" => p \in Purgers, Become(p, r), crashes' \in Nat,
           UNCHANGED <<lock, marker, entries, inodes, version>>,
           \A h \in flock \ flock' : h[2] = p, flock' \subseteq flock
    PROVE  Layout'
<1>0. Idle.pc = "idle"
  BY DEF Idle
<1>1. r \in Process /\ r.pc \in {"idle", "done"}
  BY <1>0, IdleType, DoneType
<1>2. proc'[p] = r => Sound(p)'
  BY <1>1, ProcessesAreDistinct DEF Sound, QueryPcs, PurgePcs, Opened, Holding, Based
<1> QED BY <1>1, <1>2, MoveKept

LEMMA CheckManifestKept == ASSUME Layout, NEW q \in Queries, CheckManifest(q) PROVE Layout'
<1> DEFINE r == [proc[q] EXCEPT !.pc = "publish"]
<1>0. proc[q] \in Process /\ Sound(q) /\ {inodes, crashes} \subseteq Nat /\ q \notin Builders
  BY ProcessesAreDistinct DEF Layout, TypeOK, Procs
<1>1. proc[q].pc = "critical" /\ UNCHANGED <<lock, marker, entries, inodes, crashes>>
  BY DEF CheckManifest
<1>2. CASE MayPublish(q)
  <2>1. Become(q, r) /\ UNCHANGED <<flock, version>>
    BY <1>2 DEF CheckManifest, Goto
  <2>2. Manifest = proc[q].base
    BY <1>0, <1>2 DEF MayPublish, FirstPhase, Own
  <2>3. r \in Process /\ r.pc = "publish" /\ r.fd = proc[q].fd /\ r.base = proc[q].base
    BY <1>0 DEF Process, Pcs
  <2> HIDE DEF r
  <2>4. Manifest' = Manifest
    BY <1>1, <2>1 DEF Manifest
  <2>5. proc'[q] = r => Sound(q)'
    BY <1>0, <1>1, <2>1, <2>2, <2>3, <2>4, ProcessesAreDistinct DEF Sound, QueryPcs, Opened, Holding, Based
  <2> QED BY <1>0, <1>1, <2>1, <2>3, <2>5, MoveKept DEF Layout
<1>3. CASE ~MayPublish(q)
  <2>1. Become(q, Idle) /\ flock' = flock \ {<<proc[q].fd, q>>} /\ UNCHANGED version
    BY <1>3 DEF CheckManifest, Release
  <2>2. crashes' \in Nat /\ flock' \subseteq flock /\ \A h \in flock \ flock' : h[2] = q
    BY <1>0, <1>1, <2>1
  <2>3. Idle \in {Idle, Done} /\ Idle.pc # "done"
    BY DEF Idle
  <2> QED BY <1>1, <2>1, <2>2, <2>3, LetGoKept
<1> QED BY <1>2, <1>3

LEMMA PublishKept == ASSUME Layout, NEW q \in Queries, Publish(q) PROVE Layout'
<1>0. /\ proc[q] \in Process /\ Sound(q) /\ {lock, inodes, crashes} \subseteq Nat /\ q \notin Builders
      /\ version \in Version /\ lock <= inodes /\ entries \subseteq {"data", "manifest", "OWNER"}
  BY ProcessesAreDistinct DEF Layout, TypeOK, Procs
<1>1. /\ proc[q].pc = "publish" /\ entries' = entries \cup {"data", "manifest"}
      /\ version' = [version EXCEPT !.changes = @ + 1]
      /\ Become(q, Idle) /\ flock' = flock \ {<<proc[q].fd, q>>}
      /\ UNCHANGED <<lock, marker, inodes, crashes>>
  BY <1>0 DEF Publish, Release, FirstPhase
<1>2. "OWNER" \in entries /\ proc[q].pc \in Holding
  BY <1>0, <1>1 DEF Sound, Manifest, Layout, Based, Holding
<1>3. Idle \in Process /\ Idle.pc = "idle"
  BY IdleType DEF Idle
<1>4. proc'[q] = Idle
  BY <1>1, <1>3, BecomeType DEF Layout, Procs
<1>5. Sound(q)'
  BY <1>3, <1>4, ProcessesAreDistinct DEF Sound, QueryPcs, Opened, Holding, Based
<1>6. version' \in Version
  BY <1>0, <1>1 DEF Version
<1>7. entries' \subseteq {"data", "manifest", "OWNER"} /\ "OWNER" \in entries' /\ inodes <= inodes'
  BY <1>0, <1>1, <1>2
<1> QED BY <1>0, <1>1, <1>2, <1>3, <1>5, <1>6, <1>7, LayoutKept DEF Layout

LEMMA PurgeOpenKept == ASSUME Layout, NEW p \in Purgers, PurgeOpen(p) PROVE Layout'
<1> DEFINE r == [Idle EXCEPT !.pc = IF lock = 0 THEN "list" ELSE "tryLock", !.fd = lock]
<1>0. {lock, inodes, crashes} \subseteq Nat /\ lock <= inodes /\ lock # 0
  BY DEF Layout, TypeOK, PurgeOpen
<1>1. /\ Become(p, r) /\ UNCHANGED <<lock, marker, entries, inodes, version, flock, crashes>>
  BY DEF PurgeOpen
<1>2. r \in Process /\ r.pc = "tryLock" /\ r.fd = lock
  <2> DEFINE s == [Idle EXCEPT !.pc = "tryLock"]
  <2>1. s \in Process /\ s.pc = "tryLock"
    BY IdleType DEF Pcs, Idle
  <2>2. r = [s EXCEPT !.fd = lock] /\ lock \in Nat
    BY <1>0
  <2> HIDE DEF r, s
  <2> QED BY <2>1, <2>2 DEF Process
<1> HIDE DEF r
<1>3. proc'[p] = r => Sound(p)'
  BY <1>0, <1>1, <1>2, ProcessesAreDistinct DEF Sound, PurgePcs, Opened, Holding, Based
<1> QED BY <1>0, <1>1, <1>2, <1>3, MoveKept

LEMMA PurgeLockKept == ASSUME Layout, NEW p \in Purgers, PurgeLock(p) PROVE Layout'
<1> DEFINE r == [proc[p] EXCEPT !.pc = "list"]
<1>0. proc[p] \in Process /\ Sound(p) /\ {inodes, crashes} \subseteq Nat
  BY DEF Layout, TypeOK, Procs
<1>1. proc[p].pc = "tryLock" /\ UNCHANGED <<lock, marker, entries, inodes, version, crashes>>
  BY DEF PurgeLock
<1>2. CASE Free(proc[p].fd)
  <2>1. Become(p, r) /\ flock' = flock \cup {<<proc[p].fd, p>>}
    BY <1>2 DEF PurgeLock, Goto
  <2>2. r \in Process /\ r.pc = "list" /\ r.fd = proc[p].fd
    BY <1>0 DEF Process, Pcs
  <2>3. proc[p].fd \in 1 .. inodes
    BY <1>0, <1>1 DEF Sound, Opened, Process
  <2> HIDE DEF r
  <2>4. proc'[p] = r => Sound(p)'
    BY <1>0, <1>1, <2>1, <2>2, ProcessesAreDistinct DEF Sound, PurgePcs, Opened, Holding, Based
  <2> QED BY <1>0, <1>1, <1>2, <2>1, <2>2, <2>3, <2>4, MoveKept
<1>3. CASE ~Free(proc[p].fd)
  <2>1. Become(p, Idle) /\ UNCHANGED flock
    BY <1>3 DEF PurgeLock
  <2>2. Idle \in {Idle, Done} /\ Idle.pc # "done"
    BY DEF Idle
  <2> QED BY <1>0, <1>1, <2>1, <2>2, LetGoKept
<1> QED BY <1>2, <1>3

LEMMA PurgeListKept == ASSUME Layout, NEW p \in Purgers, PurgeList(p) PROVE Layout'
<1> DEFINE all == (entries \cap {"data"}) \cup (IF marker = 0 THEN {} ELSE {"marker"})
           r == [proc[p] EXCEPT !.pc = "remove", !.listed = all]
<1>0. proc[p] \in Process /\ Sound(p) /\ crashes \in Nat
  BY DEF Layout, TypeOK, Procs
<1>1. /\ Become(p, r) /\ proc[p].pc = "list"
      /\ UNCHANGED <<lock, marker, entries, inodes, version, flock, crashes>>
  BY DEF PurgeList
<1>2. all \in SUBSET {"data", "marker"} /\ ("data" \in entries => "data" \in all)
  OBVIOUS
<1> HIDE DEF all
<1>3. r \in Process /\ r.pc = "remove" /\ r.listed = all /\ r.fd = proc[p].fd
  BY <1>0, <1>2 DEF Process, Pcs
<1> HIDE DEF r
<1>4. proc'[p] = r => Sound(p)'
  BY <1>0, <1>1, <1>2, <1>3, ProcessesAreDistinct DEF Sound, PurgePcs, Opened, Holding, Based
<1> QED BY <1>0, <1>1, <1>3, <1>4, MoveKept

LEMMA PurgeEntryKept == ASSUME Layout, NEW p \in Purgers, PurgeEntry(p) PROVE Layout'
<1>0. /\ proc[p] \in Process /\ Sound(p) /\ {lock, inodes, crashes} \subseteq Nat /\ lock <= inodes
      /\ version \in Version /\ entries \subseteq {"data", "manifest", "OWNER"} /\ marker = 0
  BY DEF Layout, TypeOK, Procs
<1>1. PICK e \in proc[p].listed :
         /\ proc[p].pc = "remove" /\ entries' = entries \ {e}
         /\ marker' = IF e = "marker" THEN 0 ELSE marker
         /\ Become(p, [proc[p] EXCEPT !.listed = @ \ {e},
                          !.failed = @ \/ ~(IF e = "marker" THEN marker # 0 ELSE e \in entries)])
         /\ UNCHANGED <<lock, inodes, version, flock, crashes>>
  BY DEF PurgeEntry
<1> DEFINE f == proc[p].failed \/ ~(IF e = "marker" THEN marker # 0 ELSE e \in entries)
           r == [proc[p] EXCEPT !.listed = @ \ {e}, !.failed = f]
<1>2. e \in {"data", "marker"} /\ f \in BOOLEAN
  BY <1>0 DEF Process
<1>3. Become(p, r)
  BY <1>1
<1> HIDE DEF f
<1>4. r \in Process /\ r.pc = "remove" /\ r.listed = proc[p].listed \ {e} /\ r.fd = proc[p].fd
  BY <1>0, <1>1, <1>2 DEF Process
<1> HIDE DEF r
<1>5. proc'[p] = r
  BY <1>3, <1>4, BecomeType DEF Layout, Procs
<1>6. Sound(p)'
  BY <1>0, <1>1, <1>4, <1>5, ProcessesAreDistinct DEF Sound, PurgePcs, Opened, Holding, Based
<1>7. Manifest' = Manifest
  BY <1>1, <1>2 DEF Manifest
<1>8. /\ entries' \subseteq entries /\ "OWNER" \in entries' => "OWNER" \in entries
      /\ entries' \cap {"data", "manifest"} # {} => "OWNER" \in entries'
      /\ \A d \in {"data", "manifest"} : (d \in entries') # (d \in entries) =>
                        proc[p].pc \in Holding /\ "OWNER" \in entries
  BY <1>1, <1>2 DEF Layout, Holding
<1> QED BY <1>0, <1>1, <1>3, <1>4, <1>6, <1>7, <1>8, LayoutKept DEF Layout

LEMMA PurgeRestKept == ASSUME Layout, NEW p \in Purgers, PurgeRest(p) PROVE Layout'
<1> DEFINE r == [proc[p] EXCEPT !.pc = "manifest"]
<1>0. proc[p] \in Process /\ Sound(p) /\ crashes \in Nat
  BY DEF Layout, TypeOK, Procs
<1>1. /\ proc[p].pc = "remove" /\ proc[p].listed = {}
      /\ UNCHANGED <<lock, marker, entries, inodes, version, crashes>>
  BY DEF PurgeRest
<1>2. CASE proc[p].failed
  <2>1. Become(p, Done) /\ flock' = flock \ {<<proc[p].fd, p>>}
    BY <1>2 DEF PurgeRest, Released
  <2> QED BY <1>0, <1>1, <2>1, LetGoKept
<1>3. CASE ~proc[p].failed
  <2>1. Become(p, r) /\ UNCHANGED flock
    BY <1>3 DEF PurgeRest, Goto, LastEntries
  <2>2. r \in Process /\ r.pc = "manifest" /\ r.fd = proc[p].fd
    BY <1>0 DEF Process, Pcs
  <2> HIDE DEF r
  <2>3. proc'[p] = r => Sound(p)'
    BY <1>0, <1>1, <2>1, <2>2, ProcessesAreDistinct DEF Sound, PurgePcs, Opened, Holding, Based
  <2> QED BY <1>0, <1>1, <2>1, <2>2, <2>3, MoveKept
<1> QED BY <1>2, <1>3

LEMMA PurgeLastKept == ASSUME Layout, NEW p \in Purgers, PurgeLast(p) PROVE Layout'
<1>0. /\ proc[p] \in Process /\ Sound(p) /\ {lock, inodes, crashes} \subseteq Nat /\ lock <= inodes
      /\ version \in Version /\ entries \subseteq {"data", "manifest", "OWNER"} /\ marker = 0
  BY DEF Layout, TypeOK, Procs
<1>1. PICK pc \in {"OWNER", "LOCK"} :
         /\ proc[p].pc = IF pc = "OWNER" THEN "manifest" ELSE "OWNER"
         /\ Goto(p, pc) /\ entries' = entries \ {proc[p].pc}
         /\ UNCHANGED <<lock, marker, inodes, version, flock, crashes>>
  <2>1. PICK i \in 1 .. 2 : proc[p].pc = LastEntries[i] /\ Goto(p, LastEntries[i + 1])
    BY DEF PurgeLast
  <2>2. i = 1 \/ i = 2
    BY <2>1
  <2>3. /\ LastEntries[1] = "manifest" /\ LastEntries[2] = "OWNER" /\ LastEntries[3] = "LOCK"
        /\ LastEntries[1 + 1] = "OWNER" /\ LastEntries[2 + 1] = "LOCK"
    BY DEF LastEntries
  <2> QED BY <2>1, <2>2, <2>3 DEF PurgeLast
<1> DEFINE r == [proc[p] EXCEPT !.pc = pc]
<1>2. Become(p, r)
  BY <1>1 DEF Goto
<1>3. r \in Process /\ r.pc = pc /\ r.fd = proc[p].fd
  BY <1>0 DEF Process, Pcs
<1> HIDE DEF r
<1>4. proc'[p] = r
  BY <1>2, <1>3, BecomeType DEF Layout, Procs
<1>5. Sound(p)'
  BY <1>0, <1>1, <1>3, <1>4, ProcessesAreDistinct DEF Sound, PurgePcs, Opened, Holding, Based
<1>6. /\ entries' \subseteq entries /\ "OWNER" \in entries' => "OWNER" \in entries
      /\ entries' \cap {"data", "manifest"} # {} => "OWNER" \in entries'
      /\ \A d \in {"data", "manifest"} : (d \in entries') # (d \in entries) =>
                        proc[p].pc \in Holding /\ "OWNER" \in entries
  BY <1>0, <1>1 DEF Layout, Sound, Holding
<1>7. Manifest' # Manifest => proc[p].pc \in Holding /\ "OWNER" \in entries
  BY <1>1, <1>6 DEF Manifest
<1> QED BY <1>0, <1>1, <1>2, <1>3, <1>5, <1>6, <1>7, LayoutKept DEF Layout

LEMMA PurgeEndKept == ASSUME Layout, NEW p \in Purgers, PurgeEnd(p) PROVE Layout'
<1>0. /\ Sound(p) /\ {lock, inodes, crashes} \subseteq Nat /\ version \in Version /\ marker = 0
      /\ entries \subseteq {"data", "manifest", "OWNER"}
  BY DEF Layout, TypeOK
<1>1. /\ proc[p].pc = "LOCK" /\ lock' = 0 /\ flock' = flock \ {<<proc[p].fd, p>>}
      /\ Become(p, Done) /\ UNCHANGED <<marker, entries, inodes, version, crashes>>
  BY DEF PurgeEnd, Released
<1>2. Done \in Process /\ Done.pc = "done"
  BY DoneType
<1>3. proc'[p] = Done
  BY <1>1, <1>2, BecomeType DEF Layout, Procs
<1>4. Sound(p)'
  BY <1>2, <1>3, ProcessesAreDistinct DEF Sound, PurgePcs, Opened, Holding, Based
<1>5. "OWNER" \notin entries /\ Manifest' = Manifest
  BY <1>0, <1>1 DEF Sound, Manifest
<1> QED BY <1>0, <1>1, <1>2, <1>4, <1>5, LayoutKept DEF Layout

LEMMA CrashKept == ASSUME Layout, NEW p \in Queries \cup Purgers, Crash(p) PROVE Layout'
<1>1. /\ Become(p, IF p \in Queries THEN Idle ELSE Done) /\ flock' = {h \in flock : h[2] # p}
      /\ crashes' = crashes + 1 /\ UNCHANGED <<lock, marker, entries, inodes, version>>
  BY DEF Crash
<1>2. crashes' \in Nat
  BY <1>1 DEF Layout, TypeOK
<1>3. (p \in Queries => Idle.pc # "done") /\ (p \notin Queries => p \in Purgers)
  BY DEF Idle
<1>4. PICK r \in {Idle, Done} : r = IF p \in Queries THEN Idle ELSE Done
  OBVIOUS
<1>5. flock' \subseteq flock /\ \A h \in flock \ flock' : h[2] = p
  BY <1>1
<1>6. Become(p, r) /\ (r.pc = "done" => p \in Purgers)
  BY <1>1, <1>3, <1>4
<1> HIDE DEF Become
<1> QED BY <1>1, <1>2, <1>5, <1>6, LetGoKept

LEMMA LayoutInductive ==
    ASSUME Layout, NoBuildStarted, NoBuildStarted', [Next]_vars
    PROVE  Layout'
<1>1. CASE UNCHANGED vars
  BY <1>1 DEF vars, Layout, TypeOK, Sound, Manifest
<1>2. ASSUME NEW b \in Builders, BuildStep(b) PROVE FALSE
  <2>1. StartBuild(b)
    BY <1>2 DEF BuildStep, OpenMarker, TryMarker, CheckMarker, WriteOwner, DropMarker,
       UnlinkMarker, CloseMarker, NoBuildStarted
  <2>2. [Idle EXCEPT !.pc = "open"] \in Process /\ [Idle EXCEPT !.pc = "open"].pc = "open"
    BY IdleType DEF Pcs, Idle
  <2>3. proc'[b].pc = "open"
    BY <2>1, <2>2, BecomeType DEF StartBuild, Layout, Procs
  <2> QED BY <2>3 DEF NoBuildStarted
<1>3. ASSUME NEW p \in Builders \cup Queries, WriteStep(p)
      PROVE  Layout'
  <2>1. p \in Queries
    BY <1>3, ProcessesAreDistinct DEF WriteStep, OpenLock, TakeLock, CheckManifest, Publish,
       NoBuildStarted
  <2> QED BY <1>3, <2>1, OpenLockKept, TakeLockKept, CheckManifestKept, PublishKept DEF WriteStep
<1>4. ASSUME NEW q \in Queries, QueryStep(q)
      PROVE  Layout'
  <2>1. ~Probe(q) /\ ~EndProbe(q)
    BY DEF Layout, Sound, Probe, EndProbe, QueryPcs
  <2> QED BY <1>4, <2>1, OpenIndexKept DEF QueryStep
<1>5. ASSUME NEW p \in Purgers, PurgeStep(p)
      PROVE  Layout'
  BY <1>5, PurgeOpenKept, PurgeLockKept, PurgeListKept, PurgeEntryKept, PurgeRestKept,
     PurgeLastKept, PurgeEndKept DEF PurgeStep
<1>6. ASSUME NEW p \in Procs, Crash(p)
      PROVE  Layout'
  <2>1. p \in Queries \cup Purgers
    BY <1>6 DEF Crash, NoBuildStarted, Procs
  <2> QED BY <1>6, <2>1, CrashKept
<1> QED BY <1>1, <1>2, <1>3, <1>4, <1>5, <1>6 DEF Next


LEMMA InitLayout == Init => Layout
<1> SUFFICES ASSUME Init PROVE Layout
  OBVIOUS
<1>1. TypeOK /\ \A p \in Queries \cup Purgers : proc[p] = Idle
  BY InitTypeOK DEF Init, Procs
<1>2. Idle.pc = "idle"
  BY DEF Idle
<1>3. ASSUME NEW p \in Queries \cup Purgers PROVE Sound(p)
  BY <1>1, <1>2 DEF Sound, QueryPcs, PurgePcs, Opened, Holding, Based
<1> QED BY <1>1, <1>3 DEF Init, Layout

\* A builder that has started is never idle again, whatever was removed.
Whole(r) == r = [f \in DOMAIN Idle |-> r[f]]
BuildersWhole == \A b \in Builders : Whole(proc[b])

LEMMA BuilderMoves ==
    ASSUME NEW b \in Builders, Whole(proc[b]), BuildStep(b) \/ WriteStep(b) \/ Crash(b)
    PROVE  \E r : Become(b, r) /\ Whole(r) /\ r.pc # "idle"
<1>0. b \notin Queries /\ DOMAIN Idle = {"pc", "fd", "mark", "base", "phase", "listed", "failed"}
  BY ProcessesAreDistinct DEF Idle
<1>1. Whole(Done) /\ Done.pc # "idle"
  BY DEF Whole, Done, Idle
<1>2. ASSUME NEW pc, pc # "idle", Goto(b, pc)
      PROVE  \E r : Become(b, r) /\ Whole(r) /\ r.pc # "idle"
  <2> DEFINE r == [proc[b] EXCEPT !.pc = pc]
  <2>1. Whole(r) /\ r.pc # "idle"
    BY <1>0, <1>2 DEF Whole
  <2> QED BY <1>2, <2>1 DEF Goto
<1>3. ASSUME NEW x, NEW pc, pc # "idle"
      PROVE  LET m == [proc[b] EXCEPT !.pc = pc, !.mark = x]
                 n == [proc[b] EXCEPT !.pc = pc, !.fd = x]
             IN  Whole(m) /\ m.pc # "idle" /\ Whole(n) /\ n.pc # "idle"
  BY <1>0, <1>3 DEF Whole
<1>4. Whole([Idle EXCEPT !.pc = "open"]) /\ [Idle EXCEPT !.pc = "open"].pc # "idle"
  BY DEF Whole, Idle
<1>5. CASE StartBuild(b) \/ CheckMarker(b)
  BY <1>2, <1>4, <1>5 DEF StartBuild, CheckMarker
<1>6. CASE OpenMarker(b) \/ OpenLock(b)
  BY <1>3, <1>6 DEF OpenMarker, OpenLock
<1>7. CASE TryMarker(b) \/ WriteOwner(b) \/ UnlinkMarker(b) \/ CloseMarker(b)
           \/ TakeLock(b) \/ Crash(b)
  BY <1>0, <1>1, <1>2, <1>7 DEF TryMarker, WriteOwner, UnlinkMarker, CloseMarker,
     TakeLock, Crash
<1>8. CASE DropMarker(b)
  BY <1>2, <1>8 DEF DropMarker
<1>9. CASE CheckManifest(b) \/ Publish(b)
  <2>1. Goto(b, "publish") \/ Release(b)
    BY <1>9 DEF CheckManifest, Publish
  <2> DEFINE n == [proc[b] EXCEPT !.base = version', !.fd = 0]
             w == [n EXCEPT !.pc = "work", !.phase = 2]
             d == [n EXCEPT !.pc = "drop"]
  <2>2. Release(b) => Become(b, w) \/ Become(b, d)
    BY <1>0 DEF Release
  <2>3. Whole(w) /\ w.pc # "idle" /\ Whole(d) /\ d.pc # "idle"
    BY <1>0 DEF Whole
  <2> HIDE DEF w, d
  <2> QED BY <1>2, <2>1, <2>2, <2>3
<1> QED BY <1>5, <1>6, <1>7, <1>8, <1>9 DEF BuildStep, WriteStep

LEMMA StartedStays ==
    ASSUME Shape, BuildersWhole, [Next]_vars
    PROVE  BuildersWhole' /\ (NoBuildStarted' => NoBuildStarted)
<1>1. CASE proc' = proc
  BY <1>1 DEF BuildersWhole, NoBuildStarted
<1>2. ASSUME NEW p \in Queries \cup Purgers, NEW r, Become(p, r)
      PROVE  BuildersWhole' /\ (NoBuildStarted' => NoBuildStarted)
  <2>1. \A b \in Builders : proc'[b] = proc[b]
    BY <1>2, ProcessesAreDistinct DEF Shape, Become, Procs
  <2> QED BY <2>1 DEF BuildersWhole, NoBuildStarted
<1>3. ASSUME NEW b \in Builders, BuildStep(b) \/ WriteStep(b) \/ Crash(b)
      PROVE  BuildersWhole' /\ (NoBuildStarted' => NoBuildStarted)
  <2>1. PICK r : Become(b, r) /\ Whole(r) /\ r.pc # "idle"
    BY <1>3, BuilderMoves DEF BuildersWhole
  <2>2. proc'[b] = r /\ \A c \in Builders \ {b} : proc'[c] = proc[c]
    BY <2>1 DEF Shape, Become, Procs
  <2> QED BY <2>1, <2>2 DEF BuildersWhole, NoBuildStarted
<1>4. ASSUME NEW q \in Queries, WriteStep(q) \/ QueryStep(q) \/ Crash(q)
      PROVE  BuildersWhole' /\ (NoBuildStarted' => NoBuildStarted)
  BY <1>1, <1>2, <1>4, OtherSteps
<1>5. ASSUME NEW p \in Purgers, PurgeStep(p) \/ Crash(p)
      PROVE  BuildersWhole' /\ (NoBuildStarted' => NoBuildStarted)
  <2>1. \E r : Become(p, r)
    BY <1>5 DEF PurgeStep, PurgeOpen, PurgeLock, PurgeList, PurgeEntry, PurgeRest,
       PurgeLast, PurgeEnd, Goto, Crash
  <2> QED BY <1>2, <2>1
<1> QED BY <1>1, <1>3, <1>4, <1>5 DEF Next, vars, Procs

LayoutInv == Shape /\ BuildersWhole /\ (NoBuildStarted => Layout)

LEMMA LayoutInvariant == Spec => []LayoutInv
<1>1. ASSUME Init PROVE LayoutInv
  <2>1. /\ proc = [p \in Procs |-> Idle]
        /\ Idle = [f \in DOMAIN Idle |-> Idle[f]]
    BY <1>1 DEF Init, Idle
  <2>2. proc = [p \in Procs |-> proc[p]] /\ \A p \in Procs : proc[p] = Idle
    BY <2>1
  <2>3. Shape /\ BuildersWhole
    BY <2>1, <2>2 DEF Shape, BuildersWhole, Whole, Procs
  <2> QED BY <1>1, <2>3, InitLayout DEF LayoutInv
<1>2. ASSUME LayoutInv, [Next]_vars PROVE LayoutInv'
  <2>1. Shape' /\ BuildersWhole' /\ (NoBuildStarted' => NoBuildStarted)
    BY <1>2, PurgedStays, StartedStays DEF LayoutInv
  <2> QED BY <1>2, <2>1, LayoutInductive DEF LayoutInv
<1> QED BY <1>1, <1>2, PTL DEF Spec

\* What a purge or a cleanup leaves, stopped half-way or not, is recognised by
\* the next one: OWNER goes after everything a delta may publish, and LOCK,
\* under which deltas are published, after OWNER (`remove_layout`).
THEOREM LeftoversAreRecognised == Spec => []Recognised
<1>1. LayoutInv => Recognised
  BY DEF LayoutInv, Layout, Recognised
<1> QED BY <1>1, LayoutInvariant, PTL


-----------------------------------------------------------------------------
(* A delta and a second phase replace the manifest they were made for *)

Owned == \A p \in Builders \cup Queries : proc[p].pc = "publish" /\ ~FirstPhase(p) => Own(p)

\* Who moves elsewhere, and leaves the manifest, disturbs nobody.
LEMMA ElsewhereKept ==
    ASSUME TypeOK, Owned, Manifest' = Manifest, NEW p \in Procs, NEW r, Become(p, r),
           r.pc # "publish"
    PROVE  Owned'
<1>1. proc'[p] = r /\ \A q \in Procs \ {p} : proc'[q] = proc[q]
  BY DEF TypeOK, Become
<1> QED BY <1>1 DEF Owned, Own, FirstPhase, Procs

LEMMA OwnedKept ==
    ASSUME IInv, NoneRemoves, Owned, [Next]_vars, Unpurged, Unpurged'
    PROVE  Owned'
<1>0. TypeOK /\ Idle.pc = "idle" /\ Done.pc = "done"
  BY DoneType DEF IInv, Idle
<1>1. ASSUME NEW p \in Procs, NEW pc \in Pcs \ {"publish"}, Goto(p, pc), Manifest' = Manifest
      PROVE  Owned'
  <2> DEFINE r == [proc[p] EXCEPT !.pc = pc]
  <2>1. r.pc # "publish" /\ Become(p, r)
    BY <1>0, <1>1, ExceptType DEF Goto
  <2> QED BY <1>0, <1>1, <2>1, ElsewhereKept
<1>2. CASE UNCHANGED vars
  BY <1>2 DEF vars, Owned, Own, FirstPhase, Manifest
<1>3. ASSUME NEW b \in Builders, BuildStep(b)
      PROVE  Owned'
  <2>0. b \in Procs /\ proc[b] \in Process
    BY <1>0 DEF Procs, TypeOK
  <2>1. Manifest' = Manifest
    BY <1>3 DEF BuildStep, StartBuild, OpenMarker, TryMarker, CheckMarker, WriteOwner,
       DropMarker, UnlinkMarker, CloseMarker, Manifest
  <2>2. \/ \E pc \in {"sameFile", "tryMark", "owner", "work", "unlink", "close"} : Goto(b, pc)
        \/ Become(b, Done) \/ Become(b, [Idle EXCEPT !.pc = "open"])
        \/ \E i : Become(b, [proc[b] EXCEPT !.pc = "tryMark", !.mark = i])
    BY <1>3 DEF BuildStep, StartBuild, OpenMarker, TryMarker, CheckMarker, WriteOwner,
       DropMarker, UnlinkMarker, CloseMarker
  <2>3. [Idle EXCEPT !.pc = "open"].pc # "publish"
    BY DEF Idle
  <2>4. \A i : [proc[b] EXCEPT !.pc = "tryMark", !.mark = i].pc # "publish"
    BY <2>0 DEF Process
  <2>5. {"sameFile", "tryMark", "owner", "work", "unlink", "close"} \subseteq Pcs \ {"publish"}
    BY DEF Pcs
  <2> QED BY <1>0, <1>1, <2>0, <2>1, <2>2, <2>3, <2>4, <2>5, ElsewhereKept
<1>4. ASSUME NEW p \in Builders \cup Queries, OpenLock(p) \/ TakeLock(p)
      PROVE  Owned'
  <2>0. p \in Procs /\ proc[p] \in Process /\ "critical" \in Pcs \ {"publish"}
    BY <1>0 DEF Procs, TypeOK, Pcs
  <2>1. Manifest' = Manifest
    BY <1>4 DEF OpenLock, TakeLock, Manifest
  <2>2. Goto(p, "critical") \/ \E i : Become(p, [proc[p] EXCEPT !.pc = "wait", !.fd = i])
    BY <1>4 DEF OpenLock, TakeLock
  <2>3. \A i : [proc[p] EXCEPT !.pc = "wait", !.fd = i].pc # "publish"
    BY <2>0 DEF Process
  <2> QED BY <1>0, <1>1, <2>0, <2>1, <2>2, <2>3, ElsewhereKept
<1>5. ASSUME NEW p \in Builders \cup Queries, Release(p)
      PROVE  \E r : Become(p, r) /\ r.pc # "publish"
  <2>0. p \in Procs /\ proc[p] \in Process
    BY <1>0 DEF Procs, TypeOK
  <2> DEFINE n == [proc[p] EXCEPT !.base = version', !.fd = 0]
             w == [n EXCEPT !.pc = "work", !.phase = 2]
             d == [n EXCEPT !.pc = "drop"]
  <2>1. Become(p, Idle) \/ Become(p, w) \/ Become(p, d)
    BY <1>5 DEF Release
  <2>2. w.pc = "work" /\ d.pc = "drop"
    BY <2>0 DEF Process
  <2> HIDE DEF w, d
  <2> QED BY <1>0, <2>1, <2>2
<1>6. ASSUME NEW p \in Builders \cup Queries, CheckManifest(p)
      PROVE  Owned'
  <2>0. p \in Procs /\ proc[p] \in Process
    BY <1>0 DEF Procs, TypeOK
  <2>1. Manifest' = Manifest
    BY <1>6 DEF CheckManifest, Manifest
  <2>2. CASE MayPublish(p)
    <3> DEFINE r == [proc[p] EXCEPT !.pc = "publish"]
    <3>1. Become(p, r)
      BY <1>6, <2>2 DEF CheckManifest, Goto
    <3>2. r.base = proc[p].base /\ r.phase = proc[p].phase
      BY <2>0 DEF Process
    <3> HIDE DEF r
    <3>3. proc'[p] = r /\ \A q \in Procs \ {p} : proc'[q] = proc[q]
      BY <1>0, <2>0, <3>1 DEF TypeOK, Become
    <3> QED BY <2>1, <2>2, <3>2, <3>3 DEF Owned, Own, FirstPhase, MayPublish, Procs
  <2>3. CASE ~MayPublish(p)
    <3>1. Release(p)
      BY <1>6, <2>3 DEF CheckManifest
    <3> QED BY <1>0, <1>5, <2>0, <2>1, <3>1, ElsewhereKept
  <2> QED BY <2>2, <2>3
<1>7. ASSUME NEW p \in Builders \cup Queries, Publish(p)
      PROVE  Owned'
  <2>1. p \in Procs /\ Release(p) /\ proc[p].pc = "publish"
    BY <1>7 DEF Procs, Publish
  <2>2. PICK r : Become(p, r) /\ r.pc # "publish"
    BY <1>5, <2>1
  <2>3. proc'[p] = r /\ \A q \in Procs \ {p} : proc'[q] = proc[q]
    BY <1>0, <2>1, <2>2 DEF TypeOK, Become
  <2>4. \A q \in Procs : proc[q].pc = "publish" => q = p
    BY <2>1, OneExclusively DEF OneExclusive, Exclusive
  <2> QED BY <2>2, <2>3, <2>4 DEF Owned, Procs
<1>8. ASSUME NEW q \in Queries, QueryStep(q)
      PROVE  Owned'
  <2>0. q \in Procs
    BY DEF Procs
  <2>1. Manifest' = Manifest
    BY <1>8 DEF QueryStep, OpenIndex, Probe, EndProbe, Manifest
  <2>2. \/ proc' = proc \/ Become(q, Idle)
        \/ Become(q, [Idle EXCEPT !.pc = "stale", !.base = Manifest])
        \/ Become(q, [Idle EXCEPT !.pc = "probe", !.mark = marker])
    BY <1>8 DEF QueryStep, OpenIndex, Probe, EndProbe
  <2>3. /\ [Idle EXCEPT !.pc = "stale", !.base = Manifest].pc # "publish"
        /\ [Idle EXCEPT !.pc = "probe", !.mark = marker].pc # "publish"
    BY DEF Idle
  <2>4. CASE proc' = proc
    BY <2>1, <2>4 DEF Owned, Own, FirstPhase
  <2> QED BY <1>0, <2>0, <2>1, <2>2, <2>3, <2>4, ElsewhereKept
<1>9. ASSUME NEW p \in Procs, Crash(p)
      PROVE  Owned'
  <2>1. Become(p, Idle) \/ Become(p, Done)
    BY <1>9 DEF Crash
  <2>2. Manifest' = Manifest
    BY <1>9 DEF Crash, Manifest
  <2> QED BY <1>0, <2>1, <2>2, ElsewhereKept
<1>10. ASSUME NEW p \in Purgers, PurgeStep(p)
       PROVE  Owned'
  <2>0. p \in Procs /\ p \notin Builders \cup Queries
    BY ProcessesAreDistinct DEF Procs
  <2>1. ~Removing(p)
    BY RemovingStarted DEF Unpurged
  <2>2. PurgeOpen(p) \/ PurgeLock(p)
    BY <1>10, <2>1 DEF PurgeStep, Removing
  <2>3. Manifest' = Manifest /\ \E r : Become(p, r)
    BY <2>2 DEF PurgeOpen, PurgeLock, Goto, Manifest
  <2>4. \A q \in Builders \cup Queries : proc'[q] = proc[q]
    BY <1>0, <2>0, <2>3 DEF TypeOK, Become, Procs
  <2> QED BY <2>3, <2>4 DEF Owned, Own, FirstPhase
<1> QED BY <1>2, <1>3, <1>4, <1>6, <1>7, <1>8, <1>9, <1>10 DEF Next, WriteStep

LEMMA OwnedInvariant == Spec => [](Unpurged => Owned)
<1>1. ASSUME Init PROVE Owned
  BY <1>1 DEF Init, Owned, Idle, Procs
<1>2. ASSUME Inv, [Next]_vars, Unpurged => Owned PROVE (Unpurged => Owned)'
  BY <1>2, PurgedStays, OwnedKept DEF Inv
<1> QED BY <1>1, <1>2, Invariant, PTL DEF Spec

\* The manifest read under LOCK is still the one the delta, or the second
\* phase, was made for when it is replaced (`publish_delta`, `build_phase2`).
THEOREM PublicationsKeepToTheirBase == Spec => OnlyItsOwn
<1> DEFINE Kept == \A p \in Builders \cup Queries :
          version' # version /\ proc[p].pc = "publish" /\ proc'[p].pc # "publish"
          /\ ~FirstPhase(p) /\ (Unpurged \/ NoBuildStarted) => Own(p)
<1>1. ASSUME LayoutInv, Unpurged => Owned, [Next]_vars PROVE [Kept]_vars
  <2> SUFFICES ASSUME NEW p \in Builders \cup Queries, proc[p].pc = "publish",
                      ~FirstPhase(p), Unpurged \/ NoBuildStarted
               PROVE  Own(p)
    OBVIOUS
  <2>1. CASE Unpurged
    BY <1>1, <2>1 DEF Owned
  <2>2. CASE NoBuildStarted
    <3>1. p \in Queries /\ Layout
      BY <1>1, <2>2 DEF NoBuildStarted, LayoutInv
    <3> QED BY <3>1 DEF Layout, Sound, Own
  <2> QED BY <2>1, <2>2
<1> QED BY <1>1, LayoutInvariant, OwnedInvariant, PTL DEF Spec, OnlyItsOwn

-----------------------------------------------------------------------------
(* The publications of MCIndex, beside the locks: what SnapshotProofs shows *)
(* of an index directory holds of them.                                     *)

SP == INSTANCE SnapshotProofs WITH Builders <- Publishers, Queries <- Readers,
                                   lock <- held, proc <- running

\* SnapshotProofs speaks of the same initial states and the same steps.
LEMMA SameInit == S!Init <=> SP!Init
BY DEF S!Init, SP!Init, S!NoManifest, SP!NoManifest, S!Procs, SP!Procs, S!Idle, SP!Idle

LEMMA SameRetiring ==
    ASSUME NEW retired, NEW new, NEW t
    PROVE  /\ S!StillRetired(retired, new, t) = SP!StillRetired(retired, new, t)
           /\ S!ToRemove(retired, new, t) = SP!ToRemove(retired, new, t)
<1>1. \A s : S!Builds(s) = SP!Builds(s)
  BY DEF S!Builds, SP!Builds
<1>2. \A s : S!Cardinality(s) = SP!Cardinality(s)
  BY Zenon DEF S!Cardinality, SP!Cardinality
<1>3. \A s : S!Excess(s) = SP!Excess(s)
  BY <1>1, <1>2 DEF S!Excess, SP!Excess
<1>4. S!Due(retired, t) = SP!Due(retired, t)
  BY DEF S!Due, SP!Due
<1>5. S!Kept(retired, new, t) = SP!Kept(retired, new, t)
  BY <1>4 DEF S!Kept, SP!Kept
<1> QED BY <1>3, <1>4, <1>5 DEF S!StillRetired, SP!StillRetired, S!ToRemove, SP!ToRemove

LEMMA SamePrepare ==
    ASSUME NEW p
    PROVE  S!Prepare(p) => SP!Prepare(p)
<1>1. S!Superseded(p) = SP!Superseded(p) /\ S!RetireTime(p) = SP!RetireTime(p)
  BY DEF S!Superseded, SP!Superseded, S!GenDir, SP!GenDir, S!File, SP!File,
         S!RetireTime, SP!RetireTime
<1>2. \A r, t : /\ S!StillRetired(r, S!Superseded(p), t) = SP!StillRetired(r, S!Superseded(p), t)
                /\ S!ToRemove(r, S!Superseded(p), t) = SP!ToRemove(r, S!Superseded(p), t)
  BY SameRetiring
<1> SUFFICES ASSUME S!Prepare(p) PROVE SP!Prepare(p)
  OBVIOUS
<1> DEFINE t == S!RetireTime(p)
           new == S!Superseded(p)
           old == IF running[p].job = "mark" THEN manifest.retired
                  ELSE S!StillRetired(manifest.retired, new, t)
           due == IF running[p].job = "mark" THEN {}
                  ELSE S!ToRemove(manifest.retired, new, t)
<1>3. /\ running[p].pc = "write" /\ running[p].todo = {}
      /\ running' = [running EXCEPT ![p] =
                       [running[p] EXCEPT !.pc = "publish", !.now = t,
                                          !.next.retired = old, !.due = due]]
      /\ UNCHANGED <<clock, held, manifest, files, torn, made, faults>>
  BY DEF S!Prepare, S!Become
<1>4. /\ t = SP!RetireTime(p)
      /\ old = IF running[p].job = "mark" THEN manifest.retired
               ELSE SP!StillRetired(manifest.retired, SP!Superseded(p), t)
      /\ due = IF running[p].job = "mark" THEN {}
               ELSE SP!ToRemove(manifest.retired, SP!Superseded(p), t)
  BY <1>1, <1>2
<1> HIDE DEF t, old, due
<1> QED BY <1>3, <1>4 DEF SP!Prepare, SP!Become

LEMMA SameStep == S!Next => SP!Next
<1>1. \A p : S!StartBuild(p) => SP!StartBuild(p)
  BY DEF S!StartBuild, SP!StartBuild, S!Become, SP!Become, S!Idle, SP!Idle, S!NoManifest,
     SP!NoManifest
<1>2. \A p : S!CleanOrphan(p) => SP!CleanOrphan(p)
  BY DEF S!CleanOrphan, SP!CleanOrphan, S!Builds, SP!Builds, S!Become, SP!Become
<1>3. \A p : S!BuildPhase1(p) => SP!BuildPhase1(p)
  BY DEF S!BuildPhase1, SP!BuildPhase1, S!NoManifest, SP!NoManifest, S!Begin, SP!Begin,
     S!Become, SP!Become, S!Named, SP!Named, S!File, SP!File
<1>4. \A p : S!BuildPhase2(p) => SP!BuildPhase2(p)
  BY DEF S!BuildPhase2, SP!BuildPhase2, S!StillMine, SP!StillMine, S!Begin, SP!Begin,
     S!Become, SP!Become, S!File, SP!File
<1>5. \A p : S!BuildBail(p) => SP!BuildBail(p)
  BY DEF S!BuildBail, SP!BuildBail, S!StillMine, SP!StillMine, S!Become, SP!Become, S!Idle,
     SP!Idle, S!NoManifest, SP!NoManifest
<1>6. \A p : S!StartQuery(p) => SP!StartQuery(p)
  BY DEF S!StartQuery, SP!StartQuery, S!Become, SP!Become, S!Idle, SP!Idle, S!NoManifest,
     SP!NoManifest
<1>7. \A p : S!ReadManifest(p) => SP!ReadManifest(p)
  BY DEF S!ReadManifest, SP!ReadManifest, S!Become, SP!Become, S!Failed, SP!Failed, S!Idle,
     SP!Idle, S!NoManifest, SP!NoManifest, S!Named, SP!Named, S!File, SP!File
<1>8. \A p : S!OpenFile(p) => SP!OpenFile(p)
  BY DEF S!OpenFile, SP!OpenFile, S!First, SP!First, S!OpenRank, SP!OpenRank, S!Become,
     SP!Become
<1>9. \A p : S!OpenFails(p) => SP!OpenFails(p)
  BY DEF S!OpenFails, SP!OpenFails, S!First, SP!First, S!OpenRank, SP!OpenRank, S!Become,
     SP!Become
<1>10. \A p : S!Retry(p) => SP!Retry(p)
  BY DEF S!Retry, SP!Retry, S!Snap, SP!Snap, S!Become, SP!Become, S!Failed, SP!Failed,
     S!Idle, SP!Idle, S!NoManifest, SP!NoManifest
<1>11. \A p : S!Opened(p) => SP!Opened(p)
  BY DEF S!Opened, SP!Opened, S!Become, SP!Become
<1>12. \A p : S!Answer(p) => SP!Answer(p)
  BY DEF S!Answer, SP!Answer, S!Become, SP!Become, S!Idle, SP!Idle, S!NoManifest,
     SP!NoManifest
<1>13. \A p : S!Check(p) => SP!Check(p)
  BY DEF S!Check, SP!Check, S!Become, SP!Become
<1>14. \A p : S!ApplyStamp(p) => SP!ApplyStamp(p)
  BY DEF S!ApplyStamp, SP!ApplyStamp, S!SameIndex, SP!SameIndex, S!Snap, SP!Snap, S!Begin,
     SP!Begin, S!Become, SP!Become
<1>15. \A p : S!ApplyDelta(p) => SP!ApplyDelta(p)
  BY DEF S!ApplyDelta, SP!ApplyDelta, S!SameIndex, SP!SameIndex, S!Snap, SP!Snap, S!Begin,
     SP!Begin, S!Become, SP!Become, S!File, SP!File
<1>16. \A p : S!ApplyNothing(p) => SP!ApplyNothing(p)
  BY DEF S!ApplyNothing, SP!ApplyNothing, S!SameIndex, SP!SameIndex, S!Snap, SP!Snap,
     S!Become, SP!Become, S!Idle, SP!Idle, S!NoManifest, SP!NoManifest
<1>17. \A p : S!MarkCorrupt(p) => SP!MarkCorrupt(p)
  BY DEF S!MarkCorrupt, SP!MarkCorrupt, S!MayMark, SP!MayMark, S!Snap, SP!Snap, S!Begin,
     SP!Begin, S!Become, SP!Become
<1>18. \A p : S!MarkNothing(p) => SP!MarkNothing(p)
  BY DEF S!MarkNothing, SP!MarkNothing, S!MayMark, SP!MayMark, S!Snap, SP!Snap, S!Become,
     SP!Become, S!Idle, SP!Idle, S!NoManifest, SP!NoManifest
<1>19. \A p : S!SpawnBuild(p) => SP!SpawnBuild(p)
  BY DEF S!SpawnBuild, SP!SpawnBuild, S!Become, SP!Become, S!Idle, SP!Idle, S!NoManifest,
     SP!NoManifest
<1>20. \A p : S!FindCorrupt(p) => SP!FindCorrupt(p)
  BY DEF S!FindCorrupt, SP!FindCorrupt, S!Become, SP!Become, S!Idle, SP!Idle, S!NoManifest,
     SP!NoManifest
<1>21. \A p : S!Write(p) => SP!Write(p)
  BY DEF S!Write, SP!Write, S!First, SP!First, S!WriteRank, SP!WriteRank, S!Become,
     SP!Become
<1>22. \A p : S!Prepare(p) => SP!Prepare(p)
  BY SamePrepare
<1>23. \A p : S!Publish(p) => SP!Publish(p)
  BY DEF S!Publish, SP!Publish, S!Become, SP!Become
<1>24. \A p : S!Clean(p) => SP!Clean(p)
  BY DEF S!Clean, SP!Clean, S!Within, SP!Within, S!GenDir, SP!GenDir, S!File, SP!File,
     S!Become, SP!Become
<1>25. \A p : S!Release(p) => SP!Release(p)
  BY DEF S!Release, SP!Release, S!Become, SP!Become, S!Onward, SP!Onward, S!Idle, SP!Idle,
     S!NoManifest, SP!NoManifest
<1>26. \A p : S!Crash(p) => SP!Crash(p)
  BY DEF S!Crash, SP!Crash, S!Become, SP!Become, S!Idle, SP!Idle, S!NoManifest,
     SP!NoManifest
<1>27. S!PowerLoss => SP!PowerLoss
  BY DEF S!PowerLoss, SP!PowerLoss, S!Procs, SP!Procs, S!Idle, SP!Idle, S!NoManifest,
     SP!NoManifest
<1>28. S!Tick => SP!Tick
  BY DEF S!Tick, SP!Tick, S!Procs, SP!Procs
<1> QED BY <1>1, <1>2, <1>3, <1>4, <1>5, <1>6, <1>7, <1>8, <1>9, <1>10, <1>11, <1>12, <1>13,
   <1>14, <1>15, <1>16, <1>17, <1>18, <1>19, <1>20, <1>21, <1>22, <1>23, <1>24, <1>25,
   <1>26, <1>27, <1>28 DEF S!Next, SP!Next, S!BuildStep, SP!BuildStep, S!QueryStep,
   SP!QueryStep, S!Step, SP!Step, S!Procs, SP!Procs

LEMMA PublicationsAreRuns == PartsSpec => SP!Spec
<1>1. PartsInit => SP!Init
  BY SameInit DEF PartsInit
<1>2. [PartsNext]_parts => [SP!Next]_(SP!vars)
  <2>1. CASE UNCHANGED publishing
    BY <2>1 DEF publishing, SP!vars
  <2>2. CASE UNCHANGED parts
    BY <2>1, <2>2 DEF parts
  <2>3. CASE PartsNext
    BY <2>1, <2>3, SameStep DEF PartsNext
  <2> QED BY <2>2, <2>3
<1> QED BY <1>1, <1>2, PTL DEF PartsSpec, SP!Spec

LEMMA SameAssumptions == SP!ProcessesAssumption /\ SP!LimitsAssumption
BY PublishersAssumption DEF S!ProcessesAssumption, SP!ProcessesAssumption,
   S!LimitsAssumption, SP!LimitsAssumption

LEMMA SameProperties ==
    /\ SP!NeverRewritten <=> S!NeverRewritten
    /\ SP!FailsOnlyWhenSuperseded <=> S!FailsOnlyWhenSuperseded
    /\ SP!GracePeriod <=> S!GracePeriod
<1>1. SP!NeverRewritten <=> S!NeverRewritten
  BY DEF S!NeverRewritten, SP!NeverRewritten, S!Procs, SP!Procs, S!Named, SP!Named, S!File, SP!File
<1>2. SP!FailsOnlyWhenSuperseded <=> S!FailsOnlyWhenSuperseded
  BY DEF S!FailsOnlyWhenSuperseded, SP!FailsOnlyWhenSuperseded, S!Snap, SP!Snap
<1>3. SP!GracePeriod <=> S!GracePeriod
  BY DEF S!GracePeriod, SP!GracePeriod, S!Named, SP!Named, S!File, SP!File
<1> QED BY <1>1, <1>2, <1>3

\* A query fails to open a whole snapshot only once the manifest names another,
\* and for RETIRE_MS and RETIRED_BUILDS builds it finds every file (index.rs
\* `open`, snapshot.rs `retire`).
THEOREM SnapshotsStayOpen == PartsSpec => []SnapshotsOpen
<1>1. SP!FailsOnlyWhenSuperseded /\ SP!GracePeriod => SnapshotsOpen
  BY SameProperties DEF SnapshotsOpen
<1> QED BY <1>1, PublicationsAreRuns, SP!OpensUnlessSuperseded, SP!GraceIsKept,
           SameAssumptions, PTL

\* No writer writes a name that somebody may open through a manifest it read
\* (snapshot.rs, "never renamed over").
THEOREM NamesAreWrittenOnce == PartsSpec => []NeverRewritten
<1>1. SP!NeverRewritten => NeverRewritten
  BY SameProperties DEF NeverRewritten
<1> QED BY <1>1, PublicationsAreRuns, SP!NamesAreWrittenOnce, SameAssumptions, PTL

=============================================================================
