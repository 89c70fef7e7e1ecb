--------------------------- MODULE SnapshotProofs ---------------------------
(***************************************************************************)
(* Proofs about Snapshot, for every value of its constants.                *)
(*                                                                         *)
(* TypeCorrect is the type invariant, with LOCK held exactly by the one    *)
(* process inside a publication.  PublicationIsSound is the invariant that *)
(* keeps the published snapshot whole, PublicationsAreAtomic the           *)
(* refinement of Publications; three theorems say what a query without     *)
(* LOCK may count on, and the last that nothing is left behind.            *)
(***************************************************************************)
EXTENDS Snapshot, TLAPS, FiniteSetTheorems, WellFoundedInduction

-----------------------------------------------------------------------------
(* Types of the helpers *)

LEMMA IdleType == NoManifest \in Manifest /\ Idle \in Process
BY DEF NoManifest, Manifest, Idle, Process, Pcs, Jobs

LEMMA NamedType ==
    ASSUME NEW m \in Manifest
    PROVE  Named(m) \subseteq Name
BY DEF Named, Manifest, Name, File, Kinds

LEMMA RetiredType ==
    ASSUME NEW retired \in SUBSET [name : Name, since : Nat],
           NEW new \in SUBSET Name, NEW t \in Nat
    PROVE  /\ StillRetired(retired, new, t) \in SUBSET [name : Name, since : Nat]
           /\ ToRemove(retired, new, t) \in SUBSET Name
<1> DEFINE keep == Kept(retired, new, t)
<1>1. keep \in SUBSET [name : Name, since : Nat]
  BY DEF Kept
<1>2. Due(retired, t) \in SUBSET [name : Name, since : Nat]
  BY DEF Due
<1> HIDE DEF keep
<1>3. {r \in keep : r.name.epoch \notin Excess(keep)}
         \in SUBSET [name : Name, since : Nat]
  BY <1>1
<1>4. {r.name : r \in Due(retired, t)} \in SUBSET Name
  BY <1>2
<1>5. {r.name : r \in {s \in keep : s.name.epoch \in Excess(keep)}} \in SUBSET Name
  BY <1>1
<1> QED BY <1>3, <1>4, <1>5 DEF StillRetired, ToRemove, keep

LEMMA SupersededType ==
    ASSUME TypeOK, NEW p \in Procs
    PROVE  Superseded(p) \in SUBSET Name
BY DEF TypeOK, Superseded, Process, Manifest, Name, GenDir, File, Kinds

\* One process moves on, and LOCK follows it.
LEMMA BecomeType ==
    ASSUME TypeOK, NEW p \in Procs, NEW r \in Process, Become(p, r),
           \/ lock' = lock /\ (r.pc \in Locked <=> proc[p].pc \in Locked)
           \/ lock = NoProc /\ lock' = p /\ r.pc \in Locked
           \/ lock = p /\ lock' = NoProc /\ r.pc \notin Locked
    PROVE  /\ lock' \in Procs \cup {NoProc}
           /\ proc' \in [Procs -> Process]
           /\ \A q \in Procs : proc'[q].pc \in Locked <=> lock' = q
BY ProcessesAssumption DEF TypeOK, Become, Procs

\* Taking LOCK to publish m after writing the files `new`.
LEMMA BeginType ==
    ASSUME TypeOK, NEW p \in Procs, NEW job \in Jobs,
           NEW m \in Manifest, NEW new \in SUBSET Name, Begin(p, job, m, new)
    PROVE  /\ lock' \in Procs \cup {NoProc}
           /\ proc' \in [Procs -> Process]
           /\ \A q \in Procs : proc'[q].pc \in Locked <=> lock' = q
<1> DEFINE r == [proc[p] EXCEPT !.pc = "write", !.job = job,
                                !.next = m, !.todo = new]
<1>a. proc[p] \in Process
  BY DEF TypeOK
<1>1. r \in Process
  BY <1>a DEF Process, Pcs
<1>2. r.pc \in Locked
  BY <1>1 DEF Locked, TypeOK, Process
<1>3. Become(p, r) /\ lock = NoProc /\ lock' = p
  BY DEF Begin
<1> QED BY <1>1, <1>2, <1>3, BecomeType

-----------------------------------------------------------------------------
(* The type invariant *)

LEMMA InitTypeOK == Init => TypeOK
BY IdleType, ProcessesAssumption DEF Init, TypeOK, Procs, Idle, Locked

\* Writing, publishing and cleaning, under LOCK.
LEMMA StepType ==
    ASSUME TypeOK, NEW p \in Procs, Step(p)
    PROVE  TypeOK'
<1>p. proc[p] \in Process /\ manifest \in Manifest
  BY DEF TypeOK
<1>1. CASE Write(p)
  <2>1. PICK f \in proc[p].todo :
          /\ proc[p].pc = "write"
          /\ files' = files \cup {f} /\ torn' = torn \ {f}
          /\ Become(p, [proc[p] EXCEPT !.todo = @ \ {f}])
          /\ UNCHANGED <<clock, lock, manifest, made, faults>>
    BY <1>1 DEF Write
  <2> DEFINE r == [proc[p] EXCEPT !.todo = @ \ {f}]
  <2>2. f \in Name
    BY <1>p DEF Process
  <2>3. r \in Process
    BY <1>p DEF Process
  <2>4. r.pc = proc[p].pc /\ Become(p, r)
    BY <1>p, <2>1 DEF Process
  <2> HIDE DEF r
  <2> QED BY <2>1, <2>2, <2>3, <2>4, BecomeType DEF TypeOK
<1>2. CASE Prepare(p)
  <2> DEFINE t == RetireTime(p)
             old == IF proc[p].job = "mark" THEN manifest.retired
                    ELSE StillRetired(manifest.retired, Superseded(p), t)
             due == IF proc[p].job = "mark" THEN {}
                    ELSE ToRemove(manifest.retired, Superseded(p), t)
             r == [proc[p] EXCEPT !.pc = "publish", !.now = t,
                                  !.next.retired = old, !.due = due]
  <2>1. t \in Nat
    BY <1>p DEF RetireTime, TypeOK, Process
  <2>2. manifest.retired \in SUBSET [name : Name, since : Nat]
    BY <1>p DEF Manifest
  <2>3. Superseded(p) \in SUBSET Name
    BY SupersededType
  <2>4. old \in SUBSET [name : Name, since : Nat] /\ due \in SUBSET Name
    BY <2>1, <2>2, <2>3, RetiredType
  <2>5. Become(p, r) /\ proc[p].pc = "write"
        /\ UNCHANGED <<clock, lock, manifest, files, torn, made, faults>>
    BY <1>2 DEF Prepare
  <2> HIDE DEF t, old, due
  <2>6. r \in Process /\ r.pc = "publish"
    BY <1>p, <2>1, <2>4 DEF Process, Pcs, Manifest
  <2> HIDE DEF r
  <2> QED BY <2>5, <2>6, BecomeType DEF TypeOK, Locked
<1>3. CASE Publish(p)
  <2> DEFINE r == [proc[p] EXCEPT !.pc = "clean",
                       !.mine = IF p \in Builders THEN proc[p].next ELSE @]
  <2>1. r \in Process /\ r.pc = "clean"
    BY <1>p DEF Process, Pcs
  <2>2. Become(p, r) /\ proc[p].pc = "publish" /\ manifest' \in Manifest
    BY <1>3, <1>p DEF Publish, Process
  <2> HIDE DEF r
  <2> QED BY <1>3, <2>1, <2>2, BecomeType DEF TypeOK, Locked, Publish
<1>4. CASE Clean(p)
  <2>1. PICK x \in proc[p].due :
          LET victims == {f \in files : Within(f, x)}
          IN  /\ proc[p].pc = "clean"
              /\ files' = files \ victims /\ torn' = torn \ victims
              /\ Become(p, [proc[p] EXCEPT !.due = @ \ {x},
                              !.gone = IF victims = {} THEN @ ELSE @ + 1])
              /\ UNCHANGED <<clock, lock, manifest, made, faults>>
    BY <1>4 DEF Clean
  <2> DEFINE victims == {f \in files : Within(f, x)}
             gone == IF victims = {} THEN proc[p].gone ELSE proc[p].gone + 1
             due == proc[p].due \ {x}
             r == [proc[p] EXCEPT !.due = due, !.gone = gone]
  <2>a. gone \in Nat /\ due \in SUBSET Name
    BY <1>p DEF Process
  <2>3. Become(p, r)
    BY <2>1
  <2> HIDE DEF gone, due
  <2>2. r \in Process /\ r.pc = proc[p].pc
    BY <1>p, <2>a DEF Process
  <2> HIDE DEF r
  <2> QED BY <2>1, <2>2, <2>3, BecomeType DEF TypeOK
<1>5. CASE Release(p)
  <2>1. Onward(p) \in Process /\ Onward(p).pc \notin Locked
    <3>1. proc[p].mine \in Manifest
      BY <1>p DEF Process
    <3>2. /\ [Idle EXCEPT !.pc = "parse", !.mine = proc[p].mine] \in Process
          /\ [Idle EXCEPT !.pc = "read", !.round = 2] \in Process
          /\ [Idle EXCEPT !.pc = "spawn"] \in Process
      <4>1. "parse" \in Pcs /\ "read" \in Pcs /\ "spawn" \in Pcs 
        BY DEF Pcs
      <4> QED BY <3>1, <4>1, IdleType DEF Process
    <3>3. /\ [Idle EXCEPT !.pc = "parse", !.mine = proc[p].mine].pc = "parse"
          /\ [Idle EXCEPT !.pc = "read", !.round = 2].pc = "read"
          /\ [Idle EXCEPT !.pc = "spawn"].pc = "spawn"
          /\ Idle.pc = "idle"
      BY DEF Idle
    <3> QED BY <3>2, <3>3, IdleType DEF Onward, Locked
  <2>2. Idle \in Process /\ Idle.pc \notin Locked
    BY IdleType DEF Idle, Locked
  <2>3. lock = p /\ lock' = NoProc
    BY <1>5 DEF Release, TypeOK, Locked
  <2>4. Become(p, Onward(p)) \/ Become(p, Idle)
    BY <1>5 DEF Release
  <2> QED BY <1>5, <2>1, <2>2, <2>3, <2>4, BecomeType DEF TypeOK, Release
<1> QED BY <1>1, <1>2, <1>3, <1>4, <1>5 DEF Step

\* A build's own steps.
LEMMA BuildType ==
    ASSUME TypeOK, NEW b \in Builders,
           StartBuild(b) \/ CleanOrphan(b) \/ BuildPhase1(b)
           \/ BuildPhase2(b) \/ BuildBail(b)
    PROVE  TypeOK'
<1>b. b \in Procs
  BY DEF Procs
<1>p. proc[b] \in Process /\ manifest \in Manifest /\ made \in Nat
  BY <1>b DEF TypeOK
<1>1. CASE StartBuild(b)
  <2>1. [Idle EXCEPT !.pc = "walk"] \in Process
        /\ [Idle EXCEPT !.pc = "walk"].pc \notin Locked
    BY IdleType DEF Process, Pcs, Locked, Idle
  <2> QED BY <1>1, <1>b, <2>1, BecomeType DEF StartBuild, TypeOK, Locked
<1>2. CASE CleanOrphan(b)
  <2> DEFINE r == [proc[b] EXCEPT !.gone = @ + 1]
  <2>1. r \in Process /\ r.pc = proc[b].pc
    BY <1>p DEF Process
  <2>2. Become(b, r) /\ UNCHANGED <<clock, lock, manifest, made, faults>>
    BY <1>2 DEF CleanOrphan
  <2>3. files' \subseteq files /\ torn' \subseteq files'
    BY <1>2 DEF CleanOrphan, TypeOK
  <2> HIDE DEF r
  <2> QED BY <1>b, <2>1, <2>2, <2>3, BecomeType DEF TypeOK
<1>3. CASE BuildPhase1(b)
  <2> DEFINE m == [NoManifest EXCEPT !.epoch = made + 1, !.ok = TRUE,
                                     !.noIno = manifest.noIno]
  <2>1. m \in Manifest
    <3>1. made + 1 \in Nat /\ manifest.noIno \in BOOLEAN
      BY <1>p DEF Manifest
    <3> QED BY <3>1, IdleType DEF Manifest
  <2>2. Begin(b, "phase1", m, Named(m)) /\ made' = made + 1
        /\ UNCHANGED <<clock, manifest, files, torn, faults>>
    BY <1>3 DEF BuildPhase1
  <2> HIDE DEF m
  <2>3. "phase1" \in Jobs
    BY DEF Jobs
  <2> QED BY <1>b, <1>p, <2>1, <2>2, <2>3, NamedType, BeginType DEF TypeOK
<1>4. CASE BuildPhase2(b)
  <2> DEFINE e == proc[b].mine.epoch
             m == [proc[b].mine EXCEPT !.seq = 2, !.deltas = manifest.deltas,
                                       !.skipped = manifest.skipped]
             new == {File(e, "symbols", 2), File(e, "files", 2)}
  <2>1. m \in Manifest
    <3>1. manifest.deltas \in Nat /\ manifest.skipped \in Nat
      BY <1>p DEF Manifest
    <3>2. proc[b].mine \in Manifest
      BY <1>p DEF Process
    <3>3. 2 \in 1 .. 2
      OBVIOUS
    <3> QED BY <3>1, <3>2, <3>3 DEF Manifest
  <2>2. new \in SUBSET Name
    BY <1>p DEF Process, Manifest, Name, File, Kinds
  <2>3. Begin(b, "phase2", m, new)
        /\ UNCHANGED <<clock, manifest, files, torn, made, faults>>
    BY <1>4 DEF BuildPhase2
  <2> HIDE DEF m, new
  <2>4. "phase2" \in Jobs
    BY DEF Jobs
  <2> QED BY <1>b, <2>1, <2>2, <2>3, <2>4, BeginType DEF TypeOK
<1>5. CASE BuildBail(b)
  <2>1. Idle \in Process /\ Idle.pc \notin Locked
    BY IdleType DEF Idle, Locked
  <2> QED BY <1>5, <1>b, <2>1, BecomeType DEF BuildBail, TypeOK, Locked
<1> QED BY <1>1, <1>2, <1>3, <1>4, <1>5

\* A process that stays outside LOCK changes nothing but itself.
LEMMA OutsideType ==
    ASSUME TypeOK, NEW p \in Procs, proc[p].pc \notin Locked,
           NEW r \in Process, r.pc \notin Locked, Become(p, r), faults' \in Nat,
           UNCHANGED <<clock, lock, manifest, files, torn, made>>
    PROVE  TypeOK'
BY BecomeType DEF TypeOK

\* A query reading, opening and deciding.
LEMMA OpenType ==
    ASSUME TypeOK, NEW q \in Queries,
           \/ StartQuery(q) \/ ReadManifest(q) \/ OpenFile(q) \/ OpenFails(q)
           \/ Retry(q) \/ Opened(q) \/ Answer(q) \/ Check(q)
    PROVE  TypeOK'
<1>q. q \in Procs
  BY DEF Procs
<1>p. proc[q] \in Process /\ manifest \in Manifest /\ clock \in Nat /\ faults \in Nat
  BY <1>q DEF TypeOK
<1>f. Failed(q) \in Process /\ Failed(q).pc \notin Locked
  <2>1. "markLock" \in Pcs /\ "spawn" \in Pcs
    BY DEF Pcs
  <2>2. [Idle EXCEPT !.pc = "markLock"] \in Process /\ [Idle EXCEPT !.pc = "spawn"] \in Process
    BY <2>1, IdleType DEF Process
  <2>3. /\ [Idle EXCEPT !.pc = "markLock"].pc = "markLock"
        /\ [Idle EXCEPT !.pc = "spawn"].pc = "spawn" /\ Idle.pc = "idle"
    BY DEF Idle
  <2> QED BY <2>2, <2>3, IdleType DEF Failed, Locked
<1>1. CASE StartQuery(q)
  <2>1. [Idle EXCEPT !.pc = "read"] \in Process
        /\ [Idle EXCEPT !.pc = "read"].pc \notin Locked
    BY IdleType DEF Process, Pcs, Locked, Idle
  <2> QED BY <1>1, <1>q, <1>p, <2>1, OutsideType DEF StartQuery, Locked
<1>2. CASE ReadManifest(q)
  <2> DEFINE pc == IF manifest.ok THEN "open" ELSE "retry"
             todo == IF manifest.ok THEN Named(manifest) ELSE {}
             r == [proc[q] EXCEPT !.mine = manifest, !.now = clock,
                                  !.pc = pc, !.todo = todo]
  <2>1. pc \in Pcs \ Locked /\ todo \in SUBSET Name
    BY <1>p, NamedType DEF Pcs, Locked
  <2>2. proc[q].pc = "read"
        /\ UNCHANGED <<clock, lock, manifest, files, torn, made, faults>>
        /\ Become(q, IF manifest.epoch = 0 THEN Failed(q) ELSE r)
    BY <1>2 DEF ReadManifest
  <2> HIDE DEF pc, todo
  <2>3. r \in Process /\ r.pc = pc
    BY <1>p, <2>1 DEF Process
  <2> HIDE DEF r
  <2>4. proc[q].pc \notin Locked /\ r.pc \notin Locked
    BY <2>1, <2>2, <2>3 DEF Locked
  <2> QED BY <1>q, <1>p, <1>f, <2>2, <2>3, <2>4, OutsideType
<1>3. CASE OpenFile(q)
  <2>1. PICK f \in proc[q].todo : Become(q, [proc[q] EXCEPT !.todo = @ \ {f}])
    BY <1>3 DEF OpenFile
  <2> DEFINE r == [proc[q] EXCEPT !.todo = @ \ {f}]
  <2>2. r \in Process /\ r.pc = proc[q].pc
    BY <1>p DEF Process
  <2>3. Become(q, r) /\ proc[q].pc \notin Locked
    BY <1>3, <2>1 DEF OpenFile, Locked
  <2> HIDE DEF r
  <2> QED BY <1>3, <1>q, <1>p, <2>2, <2>3, OutsideType DEF OpenFile
<1>4. CASE OpenFails(q)
  <2>1. PICK f \in proc[q].todo :
          Become(q, [proc[q] EXCEPT !.pc = "retry", !.todo = {},
                        !.job = IF f \in torn THEN "corrupt" ELSE @])
    BY <1>4 DEF OpenFails
  <2> DEFINE job == IF f \in torn THEN "corrupt" ELSE proc[q].job
             r == [proc[q] EXCEPT !.pc = "retry", !.todo = {}, !.job = job]
  <2>2. job \in Jobs /\ "retry" \in Pcs
    BY <1>p DEF Process, Jobs, Pcs
  <2>3. Become(q, r) /\ proc[q].pc \notin Locked
    BY <1>4, <2>1 DEF OpenFails, Locked
  <2> HIDE DEF job
  <2>4. r \in Process /\ r.pc = "retry"
    BY <1>p, <2>2 DEF Process
  <2> HIDE DEF r
  <2> QED BY <1>4, <1>q, <1>p, <2>3, <2>4, OutsideType DEF OpenFails, Locked
<1>5. CASE Retry(q)
  <2> DEFINE changed == manifest.epoch # 0 /\ Snap(manifest) # Snap(proc[q].mine)
             r == [proc[q] EXCEPT !.pc = "read", !.tries = @ + 1]
  <2>1. r \in Process /\ r.pc = "read"
    <3>1. proc[q].tries + 1 \in Nat /\ "read" \in Pcs
      BY <1>p DEF Process, Pcs
    <3> QED BY <1>p, <3>1 DEF Process
  <2>2. Become(q, IF changed /\ proc[q].tries + 1 < OpenAttempts THEN r ELSE Failed(q))
        /\ proc[q].pc \notin Locked
    BY <1>5 DEF Retry, Locked
  <2> HIDE DEF r, changed
  <2> QED BY <1>5, <1>q, <1>p, <1>f, <2>1, <2>2, OutsideType DEF Retry, Locked
<1>6. CASE Opened(q)
  <2> DEFINE r == [proc[q] EXCEPT !.pc = "opened", !.job = "none", !.tries = 0]
  <2>1. r \in Process /\ r.pc = "opened"
    BY <1>p DEF Process, Pcs, Jobs
  <2>2. Become(q, r) /\ proc[q].pc \notin Locked
    BY <1>6 DEF Opened, Locked
  <2> HIDE DEF r
  <2> QED BY <1>6, <1>q, <1>p, <2>1, <2>2, OutsideType DEF Opened, Locked
<1>7. CASE Answer(q)
  <2>1. Idle \in Process /\ Idle.pc \notin Locked
    BY IdleType DEF Idle, Locked
  <2> QED BY <1>7, <1>q, <1>p, <2>1, OutsideType DEF Answer, Locked
<1>8. CASE Check(q)
  <2>1. PICK pc \in {"stampLock", "spawn", "deltaLock"} :
          Become(q, [proc[q] EXCEPT !.pc = pc, !.now = clock])
    BY <1>8 DEF Check
  <2> DEFINE r == [proc[q] EXCEPT !.pc = pc, !.now = clock]
  <2>2. pc \in Pcs /\ pc \notin Locked
    BY DEF Pcs, Locked
  <2>3. r \in Process /\ r.pc = pc
    BY <1>p, <2>2 DEF Process
  <2>4. Become(q, r) /\ proc[q].pc \notin Locked
    BY <1>8, <2>1 DEF Check, Locked
  <2> HIDE DEF r
  <2> QED BY <1>8, <1>q, <1>p, <2>2, <2>3, <2>4, OutsideType DEF Check
<1> QED BY <1>1, <1>2, <1>3, <1>4, <1>5, <1>6, <1>7, <1>8

\* A query publishing, marking, or asking for a build.
LEMMA ApplyType ==
    ASSUME TypeOK, NEW q \in Queries,
           \/ ApplyStamp(q) \/ ApplyDelta(q) \/ ApplyNothing(q) \/ FindCorrupt(q)
           \/ MarkCorrupt(q) \/ MarkNothing(q) \/ SpawnBuild(q)
    PROVE  TypeOK'
<1>q. q \in Procs
  BY DEF Procs
<1>p. proc[q] \in Process /\ manifest \in Manifest /\ faults \in Nat
  BY <1>q DEF TypeOK
<1>j. {"stamp", "delta", "mark"} \subseteq Jobs
  BY DEF Jobs
<1>1. CASE ApplyStamp(q)
  <2>1. PICK found \in InodeChecks :
          Begin(q, "stamp", [manifest EXCEPT !.noIno = @ \/ found], {})
    BY <1>1 DEF ApplyStamp
  <2> DEFINE m == [manifest EXCEPT !.noIno = @ \/ found]
  <2>2. m \in Manifest
    BY <1>p DEF Manifest
  <2>3. Begin(q, "stamp", m, {})
    BY <2>1
  <2> HIDE DEF m
  <2> QED BY <1>1, <1>q, <1>j, <2>2, <2>3, BeginType DEF ApplyStamp, TypeOK
<1>2. CASE ApplyDelta(q)
  <2> DEFINE n == proc[q].mine.deltas + 1
  <2>1. n \in Nat
    BY <1>p DEF Process, Manifest
  <2>2. PICK found \in InodeChecks, skips \in BOOLEAN :
          Begin(q, "delta",
                [manifest EXCEPT !.deltas = n, !.noIno = @ \/ found,
                                 !.skipped = IF skips THEN n ELSE @],
                {File(manifest.epoch, "delta", n)}
                \cup (IF skips THEN {File(manifest.epoch, "skipped", n)} ELSE {}))
    BY <1>2 DEF ApplyDelta
  <2> DEFINE k == IF skips THEN n ELSE manifest.skipped
             noIno == manifest.noIno \/ found
             m == [manifest EXCEPT !.deltas = n, !.noIno = noIno, !.skipped = k]
             new == {File(manifest.epoch, "delta", n)}
                    \cup (IF skips THEN {File(manifest.epoch, "skipped", n)} ELSE {})
  <2>3. k \in Nat /\ noIno \in BOOLEAN
    BY <1>p, <2>1 DEF Manifest
  <2>4. new \in SUBSET Name
    BY <1>p, <2>1 DEF Manifest, Name, File, Kinds
  <2>5. Begin(q, "delta", m, new)
    BY <2>2
  <2> HIDE DEF n, k, noIno, new
  <2>6. m \in Manifest
    BY <1>p, <2>1, <2>3 DEF Manifest
  <2> HIDE DEF m
  <2> QED BY <1>2, <1>q, <1>j, <2>4, <2>5, <2>6, BeginType DEF ApplyDelta, TypeOK
<1>3. CASE ApplyNothing(q)
  <2> DEFINE r == [Idle EXCEPT !.pc = "read", !.round = proc[q].round + 1]
  <2>1. proc[q].pc \notin Locked
    BY <1>3 DEF ApplyNothing, Locked
  <2>2. Idle \in Process /\ Idle.pc \notin Locked
    BY IdleType DEF Idle, Locked
  <2>3. CASE proc[q].pc = "stampLock"
    BY <1>3, <1>q, <1>p, <2>1, <2>2, <2>3, OutsideType DEF ApplyNothing
  <2>4. CASE proc[q].pc # "stampLock"
    <3>1. Become(q, r)
      BY <1>3, <2>4 DEF ApplyNothing
    <3>2. proc[q].round + 1 \in Nat /\ "read" \in Pcs
      BY <1>p DEF Process, Pcs
    <3>3. r \in Process /\ r.pc = "read"
      BY <3>2, IdleType DEF Process, Idle
    <3> HIDE DEF r
    <3> QED BY <1>3, <1>q, <1>p, <2>1, <3>1, <3>3, OutsideType DEF ApplyNothing, Locked
  <2> QED BY <2>3, <2>4
<1>4. CASE FindCorrupt(q)
  <2> DEFINE r == [Idle EXCEPT !.pc = "markLock", !.mine = proc[q].mine]
  <2>1. proc[q].mine \in Manifest /\ "markLock" \in Pcs
    BY <1>p DEF Process, Pcs
  <2>2. r \in Process /\ r.pc = "markLock"
    BY <2>1, IdleType DEF Process, Idle
  <2>3. Become(q, r) /\ proc[q].pc \notin Locked /\ faults' \in Nat
    BY <1>4, <1>p DEF FindCorrupt, Locked
  <2> HIDE DEF r
  <2> QED BY <1>4, <1>q, <2>2, <2>3, OutsideType DEF FindCorrupt, Locked
<1>5. CASE MarkCorrupt(q)
  <2> DEFINE m == [manifest EXCEPT !.ok = FALSE]
  <2>1. m \in Manifest
    BY <1>p DEF Manifest
  <2>2. Begin(q, "mark", m, {})
    BY <1>5 DEF MarkCorrupt
  <2> HIDE DEF m
  <2> QED BY <1>5, <1>q, <1>j, <2>1, <2>2, BeginType DEF MarkCorrupt, TypeOK
<1>6. CASE MarkNothing(q)
  <2>1. [Idle EXCEPT !.pc = "spawn"] \in Process
        /\ [Idle EXCEPT !.pc = "spawn"].pc \notin Locked
    BY IdleType DEF Process, Pcs, Locked, Idle
  <2>2. Idle \in Process /\ Idle.pc \notin Locked
    BY IdleType DEF Idle, Locked
  <2>3. proc[q].pc \notin Locked
    BY <1>6 DEF MarkNothing, Locked
  <2> QED BY <1>6, <1>q, <1>p, <2>1, <2>2, <2>3, OutsideType DEF MarkNothing
<1>7. CASE SpawnBuild(q)
  <2> DEFINE walk == [Idle EXCEPT !.pc = "walk"]
  <2>1. walk \in Process /\ walk.pc = "walk" /\ Idle \in Process /\ Idle.pc = "idle"
    BY IdleType DEF Process, Pcs, Idle
  <2>2. proc[q].pc \notin Locked
    BY <1>7 DEF SpawnBuild, Locked
  <2>3. CASE Become(q, Idle)
    BY <1>7, <1>q, <1>p, <2>1, <2>2, <2>3, OutsideType DEF SpawnBuild, Locked
  <2>4. CASE ~Become(q, Idle)
    <3>1. PICK b \in Builders : proc[b].pc = "idle"
            /\ proc' = [proc EXCEPT ![q] = Idle, ![b] = walk]
      BY <1>7, <2>4 DEF SpawnBuild
    <3>2. b \in Procs
      BY DEF Procs
    <3> HIDE DEF walk
    <3>3. proc' \in [Procs -> Process]
      BY <1>q, <2>1, <3>1, <3>2 DEF TypeOK
    <3>4. \A p \in Procs : proc'[p].pc \in Locked <=> lock = p
      BY <1>q, <2>1, <2>2, <3>1, <3>2 DEF TypeOK, Locked
    <3> QED BY <1>7, <3>3, <3>4 DEF SpawnBuild, TypeOK
  <2> QED BY <2>3, <2>4
<1> QED BY <1>1, <1>2, <1>3, <1>4, <1>5, <1>6, <1>7

\* Crashes, power losses and time.
LEMMA EnvironmentType ==
    ASSUME TypeOK, \/ \E p \in Procs : Crash(p)
                   \/ PowerLoss
                   \/ Tick
    PROVE  TypeOK'
<1>i. Idle \in Process /\ Idle.pc \notin Locked /\ NoManifest \in Manifest
  BY IdleType DEF Idle, Locked
<1>1. ASSUME NEW p \in Procs, Crash(p) PROVE TypeOK'
  <2>1. CASE lock = p
    BY <1>1, <1>i, <2>1, BecomeType DEF Crash, TypeOK
  <2>2. CASE lock # p
    BY <1>1, <1>i, <2>2, BecomeType DEF Crash, TypeOK
  <2> QED BY <2>1, <2>2
<1>2. CASE PowerLoss
  <2>1. torn' \subseteq files' /\ manifest' \in Manifest
    BY <1>2, <1>i DEF PowerLoss, TypeOK
  <2>2. proc' = [p \in Procs |-> Idle] /\ lock' = NoProc /\ faults' \in Nat
        /\ UNCHANGED <<clock, files, made>>
    BY <1>2 DEF PowerLoss, TypeOK
  <2>3. \A p \in Procs : p # NoProc
    BY ProcessesAssumption DEF Procs
  <2> QED BY <1>i, <2>1, <2>2, <2>3 DEF TypeOK
<1>3. CASE Tick
  BY <1>3 DEF Tick, TypeOK
<1> QED BY <1>1, <1>2, <1>3

\* LOCK is held exactly by the process inside a publication, and every
\* variable keeps its type (the flock of WriterLock, dropped by the kernel
\* with its holder).
THEOREM TypeCorrect == Spec => []TypeOK
<1>1. Init => TypeOK
  BY InitTypeOK
<1>2. TypeOK /\ [Next]_vars => TypeOK'
  <2> SUFFICES ASSUME TypeOK, [Next]_vars PROVE TypeOK'
    OBVIOUS
  <2>1. CASE UNCHANGED vars
    BY <2>1 DEF vars, TypeOK
  <2>2. ASSUME NEW b \in Builders, StartBuild(b) \/ BuildStep(b) PROVE TypeOK'
    BY <2>2, BuildType, StepType DEF BuildStep, Procs
  <2>3. ASSUME NEW q \in Queries, StartQuery(q) \/ QueryStep(q) \/ FindCorrupt(q)
        PROVE  TypeOK'
    BY <2>3, OpenType, ApplyType, StepType DEF QueryStep, Procs
  <2> QED BY <2>1, <2>2, <2>3, EnvironmentType DEF Next
<1> QED BY <1>1, <1>2, PTL DEF Spec

-----------------------------------------------------------------------------
(* The published snapshot stays whole *)

IInv == TypeOK /\ PublicationSound

\* Superseding a snapshot never brings back a name that was retired.
LEMMA SuperfluousGrows ==
    ASSUME TypeOK, NEW p \in Procs, Follows(p),
           proc[p].next.skipped <= proc[p].next.deltas, Sound(manifest),
           NEW x \in Name, Superfluous(manifest, x)
    PROVE  Superfluous(proc[p].next, x)
<1> DEFINE m == proc[p].next
<1>1. m \in Manifest /\ manifest \in Manifest
  BY DEF TypeOK, Process
<1>2. /\ m.epoch \in Nat /\ m.skipped \in Nat /\ m.deltas \in Nat
      /\ manifest.epoch \in Nat /\ manifest.skipped \in Nat /\ manifest.deltas \in Nat
      /\ x.epoch \in Nat /\ x.n \in Nat
  BY <1>1 DEF Manifest, Name
<1>3. Snap(m) = Snap(manifest) => m.epoch = manifest.epoch /\ m.seq = manifest.seq
  BY DEF Snap
<1>4. manifest.skipped <= manifest.deltas
  BY DEF Sound
<1>5. \/ m.epoch > manifest.epoch
      \/ /\ m.epoch = manifest.epoch
         /\ m.seq = manifest.seq \/ m.seq = 2
         /\ m.skipped >= manifest.skipped
  BY <1>2, <1>3, <1>4 DEF Follows
<1> HIDE DEF m
<1>6. Superfluous(m, x)
  BY <1>2, <1>5 DEF Superfluous, File
<1> QED BY <1>6 DEF m

\* What a publication supersedes is no part of what it publishes.
LEMMA SupersededSuperfluous ==
    ASSUME TypeOK, NEW p \in Procs, Follows(p), Sound(manifest),
           NEW x \in Superseded(p)
    PROVE  Superfluous(proc[p].next, x)
<1> DEFINE m == proc[p].next
<1>1. /\ m.epoch \in Nat /\ m.skipped \in Nat /\ m.deltas \in Nat
      /\ manifest.epoch \in Nat /\ manifest.skipped \in Nat /\ manifest.deltas \in Nat
  BY DEF TypeOK, Process, Manifest
<1>2. CASE proc[p].job = "phase1"
  <2>1. x = GenDir(manifest.epoch) /\ m.epoch > manifest.epoch
    BY <1>2 DEF Superseded, Follows
  <2> QED BY <1>1, <2>1 DEF Superfluous, GenDir, File
<1>3. CASE proc[p].job = "phase2"
  <2>1. x = File(m.epoch, "files", 1) /\ m.seq = 2
    BY <1>3 DEF Superseded, Follows
  <2>2. x.epoch = m.epoch
    BY <2>1 DEF File
  <2> QED BY <1>1, <2>1, <2>2 DEF Superfluous
<1>4. CASE proc[p].job = "delta"
  <2>1. x = File(m.epoch, "skipped", manifest.skipped) /\ m.skipped = manifest.deltas + 1
    BY <1>1, <1>4 DEF Superseded, Follows
  <2>2. manifest.skipped < m.skipped
    BY <1>1, <2>1 DEF Sound
  <2> QED BY <1>1, <2>1, <2>2 DEF Superfluous, File
<1> QED BY <1>2, <1>3, <1>4 DEF Superseded

\* Removing a superfluous entry leaves the snapshot alone.
LEMMA SuperfluousUnnamed ==
    ASSUME NEW m \in Manifest, NEW x \in Name, Superfluous(m, x),
           NEW f \in Named(m)
    PROVE  ~Within(f, x)
<1>1. m.epoch \in Nat /\ m.skipped \in Nat /\ x.epoch \in Nat /\ x.n \in Nat /\ m.seq \in 1 .. 2
  BY DEF Manifest, Name
<1>2. f.epoch = m.epoch /\ f.kind # "dir"
      /\ (f.kind = "files" => f.n = m.seq) /\ (f.kind = "skipped" => f.n = m.skipped)
  BY DEF Named, File
<1>3. CASE x.epoch < m.epoch
  BY <1>1, <1>2, <1>3 DEF Within, GenDir, File
<1>4. CASE x = File(m.epoch, "files", 1) /\ m.seq = 2
  BY <1>1, <1>2, <1>4 DEF Within, GenDir, File
<1>5. CASE x.kind = "skipped" /\ x.n < m.skipped
  BY <1>1, <1>2, <1>5 DEF Within, GenDir, File
<1> QED BY <1>3, <1>4, <1>5 DEF Superfluous

\* A process outside LOCK that changes only itself, and claims no epoch.
LEMMA QuietSound ==
    ASSUME IInv, TypeOK', NEW p \in Procs, NEW r \in Process,
           r.pc \notin Locked \cup {"parse"}, Become(p, r),
           UNCHANGED <<manifest, files, made>>
    PROVE  PublicationSound'
<1>1. \A q \in Procs : proc'[q] = IF q = p THEN r ELSE proc[q]
  BY DEF IInv, TypeOK, Become
<1>2. NamedOnDisk' /\ Sound(manifest)'
  BY DEF IInv, PublicationSound, NamedOnDisk, Sound
<1>3. ASSUME NEW q \in Procs PROVE WriterSound(q)'
  <2>1. CASE q = p
    BY <1>1, <2>1 DEF WriterSound, Locked
  <2>2. CASE q # p
    <3>1. WriterSound(q) /\ proc'[q] = proc[q]
      BY <1>1, <2>2 DEF IInv, PublicationSound
    <3> QED BY <3>1 DEF WriterSound, Follows, Sound
  <2> QED BY <2>1, <2>2
<1>4. ASSUME NEW b \in Builders PROVE BuildSound(b)'
  <2>1. \A c \in Builders : Claims(c)' => Claims(c) /\ Claim(c)' = Claim(c) /\ c # p
    BY <1>1 DEF Claims, Claim, Procs
  <2>2. BuildSound(b) /\ b \in Procs
    BY DEF IInv, PublicationSound, Procs
  <2>3. CASE b = p
    BY <1>1, <2>1, <2>2, <2>3 DEF BuildSound, Locked
  <2>4. CASE b # p
    BY <1>1, <2>1, <2>2, <2>4 DEF BuildSound
  <2> QED BY <2>3, <2>4
<1> QED BY <1>2, <1>3, <1>4 DEF PublicationSound

\* A process takes LOCK with a snapshot that follows the published one.
LEMMA BeginSound ==
    ASSUME IInv, TypeOK', NEW p \in Procs, NEW job \in Jobs,
           NEW m \in Manifest, NEW new \in SUBSET Name, Begin(p, job, m, new),
           UNCHANGED <<manifest, files>>, made' >= made,
           m.epoch \in 1 .. made', m.skipped <= m.deltas, Follows(p)',
           Named(m) \subseteq files \cup new,
           p \in Builders =>
              \/ m.epoch > made
              \/ proc[p].pc = "parse" /\ m.epoch = proc[p].mine.epoch
    PROVE  PublicationSound'
<1>1. /\ \A q \in Procs \ {p} : proc'[q] = proc[q] /\ proc[q].pc \notin Locked
      /\ proc'[p].pc = "write" /\ proc'[p].next = m /\ proc'[p].todo = new
  BY DEF IInv, TypeOK, Process, Begin, Become, Locked, Procs
<1>2. NamedOnDisk' /\ Sound(manifest)'
  BY DEF IInv, TypeOK, PublicationSound, NamedOnDisk, Sound, Manifest
<1>3. ASSUME NEW q \in Procs PROVE WriterSound(q)'
  <2>1. CASE q = p
    BY <1>1, <2>1 DEF WriterSound
  <2>2. CASE q # p
    BY <1>1, <2>2 DEF WriterSound, Locked
  <2> QED BY <2>1, <2>2
<1>4. ASSUME NEW b \in Builders PROVE BuildSound(b)'
  <2>0. \A c \in Builders : BuildSound(c) /\ c \in Procs
    BY DEF IInv, PublicationSound, Procs
  <2>1. made \in Nat /\ made' \in Nat
    BY DEF IInv, TypeOK
  <2>2. \A c \in Builders \ {p} :
          /\ Claims(c)' => Claims(c) /\ Claim(c)' = Claim(c)
          /\ Claims(c) => Claim(c) \in 1 .. made
    BY <1>1, <2>0 DEF Claims, Claim, BuildSound
  <2>3. p \in Builders => /\ Claim(p)' = m.epoch
                          /\ \A c \in Builders \ {p} : Claims(c)' => Claim(c)' # m.epoch
    <3>1. CASE m.epoch > made
      BY <1>1, <2>1, <2>2, <3>1 DEF Claim
    <3>2. CASE proc[p].pc = "parse" /\ m.epoch = proc[p].mine.epoch
      BY <1>1, <2>0, <2>2, <3>2 DEF Claim, Claims, BuildSound
    <3> QED BY <3>1, <3>2
  <2>4. CASE b = p
    BY <1>1, <2>3, <2>4 DEF BuildSound
  <2>5. CASE b # p
    <3>1. proc'[b] = proc[b] /\ BuildSound(b)
      BY <1>1, <2>0, <2>5
    <3>2. Claims(b)' => Claim(b)' \in 1 .. made'
      BY <2>1, <2>2, <2>5
    <3>3. \A c \in Builders \ {b} : Claims(b)' /\ Claims(c)' => Claim(b)' # Claim(c)'
      BY <2>2, <2>3, <2>5, <3>1 DEF BuildSound
    <3> QED BY <3>1, <3>2, <3>3 DEF BuildSound
  <2> QED BY <2>4, <2>5
<1> QED BY <1>2, <1>3, <1>4 DEF PublicationSound

\* Only p is under LOCK, so only its own part of the invariant can change.
LEMMA HolderSound ==
    ASSUME IInv, TypeOK', NEW p \in Procs, proc[p].pc \in Locked,
           NEW r \in Process, Become(p, r), made' = made,
           NamedOnDisk', Sound(manifest)', WriterSound(p)',
           \A b \in Builders : BuildSound(b)'
    PROVE  PublicationSound'
<1>1. \A q \in Procs \ {p} : proc'[q] = proc[q] /\ proc[q].pc \notin Locked
  BY DEF IInv, TypeOK, Become
<1>2. \A q \in Procs \ {p} : WriterSound(q)'
  BY <1>1 DEF WriterSound, Locked
<1> QED BY <1>2 DEF PublicationSound

\* Steps of the process under LOCK that publish nothing keep BuildSound.
LEMMA HolderBuilds ==
    ASSUME IInv, NEW p \in Procs, proc[p].pc \in Locked,
           NEW r \in Process, Become(p, r), UNCHANGED <<manifest, made>>,
           \/ r.pc \notin Locked \cup {"parse"}
           \/ /\ r.pc \in Locked /\ r.next.epoch = proc[p].next.epoch
              /\ r.job = proc[p].job /\ r.mine = proc[p].mine
              /\ r.pc = "clean" => proc[p].pc = "clean",
           NEW b \in Builders
    PROVE  BuildSound(b)'
<1>1. \A c \in Procs : proc'[c] = IF c = p THEN r ELSE proc[c]
  BY DEF IInv, TypeOK, Become
<1>2. \A c \in Builders : BuildSound(c) /\ c \in Procs
  BY DEF IInv, PublicationSound, Procs
<1>3. \A c \in Builders : Claims(c)' => Claims(c) /\ Claim(c)' = Claim(c)
  BY <1>1, <1>2 DEF Claims, Claim, Locked
<1>4. CASE b = p
  BY <1>1, <1>2, <1>3, <1>4 DEF BuildSound, Locked
<1>5. CASE b # p
  BY <1>1, <1>2, <1>3, <1>5 DEF BuildSound
<1> QED BY <1>4, <1>5

LEMMA WriteSound ==
    ASSUME IInv, TypeOK', NEW p \in Procs, Write(p)
    PROVE  PublicationSound'
<1>1. PICK f \in proc[p].todo :
        /\ proc[p].pc = "write"
        /\ files' = files \cup {f}
        /\ Become(p, [proc[p] EXCEPT !.todo = @ \ {f}])
        /\ UNCHANGED <<clock, lock, manifest, made, faults>>
  BY DEF Write
<1> DEFINE r == [proc[p] EXCEPT !.todo = @ \ {f}]
<1>2. proc[p] \in Process /\ proc[p].pc \in Locked
  BY <1>1 DEF IInv, TypeOK, Locked
<1>3. r \in Process /\ r.pc = "write" /\ r.todo = proc[p].todo \ {f}
      /\ r.next = proc[p].next /\ r.job = proc[p].job /\ r.mine = proc[p].mine
  BY <1>1, <1>2 DEF Process
<1>4. Become(p, r) /\ proc'[p] = r
  BY <1>1 DEF Become, IInv, TypeOK
<1> HIDE DEF r
<1>5. NamedOnDisk' /\ Sound(manifest)'
  BY <1>1 DEF IInv, PublicationSound, NamedOnDisk, Sound
<1>6. WriterSound(p)
  BY DEF IInv, PublicationSound
<1>7. Follows(p)' <=> Follows(p)
  BY <1>1, <1>3, <1>4 DEF Follows
<1>8. WriterSound(p)'
  BY <1>1, <1>3, <1>4, <1>6, <1>7 DEF WriterSound
<1>9. \A b \in Builders : BuildSound(b)'
  BY <1>1, <1>2, <1>3, <1>4, HolderBuilds DEF Locked
<1> QED BY <1>1, <1>2, <1>3, <1>4, <1>5, <1>8, <1>9, HolderSound

LEMMA PrepareSound ==
    ASSUME IInv, TypeOK', NEW p \in Procs, Prepare(p)
    PROVE  PublicationSound'
<1> DEFINE t == RetireTime(p)
           old == IF proc[p].job = "mark" THEN manifest.retired
                  ELSE StillRetired(manifest.retired, Superseded(p), t)
           due == IF proc[p].job = "mark" THEN {}
                  ELSE ToRemove(manifest.retired, Superseded(p), t)
           r == [proc[p] EXCEPT !.pc = "publish", !.now = t,
                                !.next.retired = old, !.due = due]
           m == proc[p].next
<1>1. Become(p, r) /\ proc[p].pc = "write" /\ proc[p].todo = {}
      /\ UNCHANGED <<clock, lock, manifest, files, torn, made, faults>>
  BY DEF Prepare
<1>2. proc[p] \in Process /\ proc[p].pc \in Locked /\ m \in Manifest /\ manifest \in Manifest
  BY <1>1 DEF IInv, TypeOK, Process, Locked
<1>3. WriterSound(p) /\ Sound(manifest) /\ Named(m) \subseteq files
      /\ Follows(p) /\ m.skipped <= m.deltas /\ m.epoch \in 1 .. made
  BY <1>1 DEF IInv, PublicationSound, WriterSound
\* Everything retired or removed is superfluous to the next snapshot.
<1>4. ASSUME NEW x \in Name,
             \/ \E e \in manifest.retired : x = e.name
             \/ x \in Superseded(p)
      PROVE  Superfluous(m, x)
  <2>1. \A e \in manifest.retired : Superfluous(manifest, e.name)
    BY <1>3 DEF Sound
  <2> QED BY <1>3, <1>4, <2>1, SuperfluousGrows, SupersededSuperfluous DEF IInv
<1>5. \A e \in Kept(manifest.retired, Superseded(p), t) :
          e.name \in Name /\ Superfluous(m, e.name)
  <2>1. Superseded(p) \subseteq Name /\ \A e \in manifest.retired : e.name \in Name
    BY <1>2, SupersededType DEF IInv, Manifest
  <2> QED BY <1>4, <2>1 DEF Kept
<1>6. \A e \in Due(manifest.retired, t) : e.name \in Name /\ Superfluous(m, e.name)
  BY <1>2, <1>4 DEF Due, Manifest
<1>7. \A e \in manifest.retired : e.name \in Name /\ Superfluous(m, e.name)
  BY <1>2, <1>4 DEF Manifest
<1>8. \A e \in old : Superfluous(m, e.name)
  BY <1>5, <1>7 DEF StillRetired
<1>9. \A x \in due : Superfluous(m, x)
  BY <1>5, <1>6 DEF ToRemove
<1> HIDE DEF t, old, due
<1>10. proc'[p] = r /\ r.pc = "publish" /\ r.due = due
       /\ r.job = proc[p].job /\ r.mine = proc[p].mine /\ r.next = [m EXCEPT !.retired = old]
  BY <1>1, <1>2 DEF Become, Process, IInv, TypeOK
<1>11. r \in Process
  <2>1. proc' \in [Procs -> Process]
    BY DEF TypeOK
  <2> QED BY <1>10, <2>1
<1> HIDE DEF r
<1> DEFINE n == r.next
<1>12. /\ n.epoch = m.epoch /\ n.seq = m.seq /\ n.deltas = m.deltas
       /\ n.skipped = m.skipped /\ n.retired = old
  BY <1>2, <1>10 DEF Manifest
<1> HIDE DEF n, m
<1>13. Named(n) = Named(m) /\ Snap(n) = Snap(m)
  BY <1>12 DEF Named, Snap
<1>14. \A x : Superfluous(m, x) <=> Superfluous(n, x)
  BY <1>12 DEF Superfluous
<1>15. WriterSound(p)'
  <2>1. Follows(p)'
    BY <1>1, <1>3, <1>10, <1>12, <1>13 DEF Follows, m, n
  <2>2. proc'[p].next = n /\ proc'[p].pc = "publish" /\ proc'[p].due = due
    BY <1>10 DEF n
  <2>3. /\ n.epoch \in 1 .. made' /\ n.skipped <= n.deltas
        /\ Named(n) \subseteq files'
        /\ \A x \in due : Superfluous(n, x)
        /\ \A e \in n.retired : Superfluous(n, e.name)
    BY <1>1, <1>3, <1>8, <1>9, <1>12, <1>13, <1>14 DEF m
  <2>4. Sound(proc[p].next)'
    BY <1>1, <2>2, <2>3 DEF Sound, IInv, TypeOK
  <2> QED BY <2>1, <2>2, <2>3, <2>4 DEF WriterSound
<1>16. NamedOnDisk' /\ Sound(manifest)'
  BY <1>1 DEF IInv, PublicationSound, NamedOnDisk, Sound
<1>17. \A b \in Builders : BuildSound(b)'
  BY <1>1, <1>2, <1>10, <1>11, <1>12, HolderBuilds DEF Locked, m, n
<1> QED BY <1>1, <1>2, <1>11, <1>15, <1>16, <1>17, HolderSound

LEMMA PublishSound ==
    ASSUME IInv, TypeOK', NEW p \in Procs, Publish(p)
    PROVE  PublicationSound'
<1> DEFINE r == [proc[p] EXCEPT !.pc = "clean",
                     !.mine = IF p \in Builders THEN proc[p].next ELSE @]
           m == proc[p].next
<1>1. Become(p, r) /\ proc[p].pc = "publish" /\ manifest' = m
      /\ UNCHANGED <<files, made>>
  BY DEF Publish
<1>2. proc[p] \in Process /\ proc[p].pc \in Locked /\ m \in Manifest
  BY <1>1 DEF IInv, TypeOK, Process, Locked
<1>3. Named(m) \subseteq files /\ Sound(m) /\ Follows(p)
      /\ m.epoch \in 1 .. made /\ \A x \in proc[p].due : Superfluous(m, x)
  BY <1>1 DEF IInv, PublicationSound, WriterSound
<1>4. /\ proc'[p] = r /\ r \in Process
      /\ \A q \in Procs \ {p} : proc'[q] = proc[q] /\ proc[q].pc \notin Locked
  BY <1>1, <1>2 DEF Become, IInv, TypeOK
<1>5. r.pc = "clean" /\ r.due = proc[p].due /\ r.next = m /\ r.job = proc[p].job
      /\ (p \in Builders => r.mine = m)
  BY <1>2 DEF Process
<1> HIDE DEF r
<1>6. NamedOnDisk' /\ Sound(manifest)' /\ WriterSound(p)'
  BY <1>1, <1>3, <1>4, <1>5 DEF NamedOnDisk, Sound, WriterSound
<1>7. ASSUME NEW b \in Builders PROVE BuildSound(b)'
  <2>1. \A c \in Builders : BuildSound(c) /\ c \in Procs
    BY DEF IInv, PublicationSound, Procs
  <2>2. \A c \in Builders : Claims(c)' => Claims(c) /\ Claim(c)' = Claim(c)
    BY <1>1, <1>2, <1>4, <1>5, <2>1 DEF Claims, Claim, Locked
  <2>3. manifest.epoch \in Nat /\ m.epoch \in Nat
    BY <1>2 DEF IInv, TypeOK, Manifest
  <2>4. CASE b = p
    <3>1. m.seq = 1 \/ proc[p].job # "phase1"
      BY <1>3 DEF Follows
    <3> QED BY <1>1, <1>4, <1>5, <2>1, <2>2, <2>4, <3>1 DEF BuildSound, Claims, Claim
  <2>5. CASE b # p
    <3>1. proc'[b] = proc[b] /\ proc[b].pc \notin Locked /\ BuildSound(b)
      BY <1>4, <2>1, <2>5
    \* b's phase 1 is current: nobody else publishes under its epoch's first half.
    <3>2. proc[b].pc = "parse" /\ m.epoch = proc[b].mine.epoch => m.seq = 1
      <4>1. SUFFICES ASSUME proc[b].pc = "parse", m.epoch = proc[b].mine.epoch
                     PROVE  m.seq = 1
        OBVIOUS
      <4>2. p \in Builders => m.epoch # proc[b].mine.epoch
        <5>1. Claims(b) /\ Claim(b) = proc[b].mine.epoch
          BY <4>1 DEF Claims, Claim
        <5>2. p \in Builders => Claims(p) /\ Claim(p) = m.epoch
          BY <1>1, <1>2 DEF Claims, Claim
        <5> QED BY <2>1, <2>5, <5>1, <5>2 DEF BuildSound
      <4>3. proc[p].job \in {"delta", "stamp", "mark"}
        BY <1>3, <4>1, <4>2 DEF Follows
      <4>4. m.epoch = manifest.epoch /\ m.seq = manifest.seq
        BY <1>3, <4>3 DEF Follows, Snap
      <4> QED BY <3>1, <4>1, <4>4 DEF BuildSound
    <3> QED BY <1>1, <2>1, <2>2, <2>5, <3>1, <3>2 DEF BuildSound, Locked
  <2> QED BY <2>4, <2>5
<1> QED BY <1>1, <1>2, <1>4, <1>6, <1>7, HolderSound

LEMMA CleanSound ==
    ASSUME IInv, TypeOK', NEW p \in Procs, Clean(p)
    PROVE  PublicationSound'
<1>1. PICK x \in proc[p].due :
        LET victims == {f \in files : Within(f, x)}
        IN  /\ proc[p].pc = "clean"
            /\ files' = files \ victims
            /\ Become(p, [proc[p] EXCEPT !.due = @ \ {x},
                            !.gone = IF victims = {} THEN @ ELSE @ + 1])
            /\ UNCHANGED <<manifest, made>>
  BY DEF Clean
<1> DEFINE gone == IF {f \in files : Within(f, x)} = {}
                   THEN proc[p].gone ELSE proc[p].gone + 1
           r == [proc[p] EXCEPT !.due = @ \ {x}, !.gone = gone]
<1>2. proc[p] \in Process /\ proc[p].pc \in Locked /\ manifest \in Manifest /\ x \in Name
  BY <1>1 DEF IInv, TypeOK, Process, Locked
<1>3. Become(p, r)
  BY <1>1
<1> HIDE DEF gone
<1>4. proc'[p] = r
  BY <1>3 DEF Become, IInv, TypeOK
<1>5. r \in Process
  BY <1>4 DEF TypeOK
<1>6. /\ r.pc = "clean" /\ r.due = proc[p].due \ {x} /\ r.next = proc[p].next
      /\ r.job = proc[p].job /\ r.mine = proc[p].mine
  BY <1>1, <1>2 DEF Process
<1> HIDE DEF r
<1>7. WriterSound(p) /\ NamedOnDisk /\ Sound(manifest)
  BY DEF IInv, PublicationSound
<1>8. Superfluous(manifest, x)
  BY <1>1, <1>7 DEF WriterSound
<1>9. NamedOnDisk'
  BY <1>1, <1>2, <1>7, <1>8, SuperfluousUnnamed DEF NamedOnDisk
<1>10. WriterSound(p)' /\ Sound(manifest)'
  BY <1>1, <1>4, <1>6, <1>7 DEF WriterSound, Sound
<1>11. \A b \in Builders : BuildSound(b)'
  BY <1>1, <1>2, <1>3, <1>5, <1>6, HolderBuilds DEF Locked
<1> QED BY <1>1, <1>2, <1>3, <1>5, <1>9, <1>10, <1>11, HolderSound

LEMMA CleanOrphanSound ==
    ASSUME IInv, TypeOK', NEW b \in Builders, CleanOrphan(b)
    PROVE  PublicationSound'
<1>1. PICK e \in {f.epoch : f \in files} \ ({manifest.epoch} \cup Builds(manifest.retired)) :
        /\ proc[b].pc = "clean"
        /\ files' = {f \in files : f.epoch # e}
        /\ Become(b, [proc[b] EXCEPT !.gone = @ + 1])
        /\ UNCHANGED <<manifest, made>>
  BY DEF CleanOrphan
<1> DEFINE r == [proc[b] EXCEPT !.gone = @ + 1]
<1>2. b \in Procs /\ proc[b] \in Process /\ proc[b].pc \in Locked /\ manifest \in Manifest
  BY <1>1 DEF IInv, TypeOK, Locked, Procs
<1>3. Become(b, r) /\ proc'[b] = r
  BY <1>1, <1>2 DEF Become, IInv, TypeOK
<1>4. r \in Process
  BY <1>2, <1>3 DEF TypeOK
<1>5. r.pc = "clean" /\ r.due = proc[b].due /\ r.next = proc[b].next
      /\ r.job = proc[b].job /\ r.mine = proc[b].mine
  BY <1>1, <1>2 DEF Process
<1> HIDE DEF r
<1>6. WriterSound(b) /\ NamedOnDisk /\ Sound(manifest)
  BY <1>2 DEF IInv, PublicationSound
<1>7. NamedOnDisk'
  <2>1. \A f \in Named(manifest) : f.epoch = manifest.epoch
    BY DEF Named, File
  <2> QED BY <1>1, <1>6, <2>1 DEF NamedOnDisk
<1>8. WriterSound(b)' /\ Sound(manifest)'
  BY <1>1, <1>3, <1>5, <1>6 DEF WriterSound, Sound
<1>9. \A c \in Builders : BuildSound(c)'
  BY <1>1, <1>2, <1>3, <1>4, <1>5, HolderBuilds DEF Locked
<1> QED BY <1>1, <1>2, <1>3, <1>4, <1>7, <1>8, <1>9, HolderSound

LEMMA ReleaseSound ==
    ASSUME IInv, TypeOK', NEW p \in Procs, Release(p)
    PROVE  PublicationSound'
<1>1. proc[p].pc = "clean" /\ UNCHANGED <<manifest, files, made>>
      /\ (Become(p, Onward(p)) \/ Become(p, Idle))
  BY DEF Release
<1>2. proc[p].pc \in Locked
  BY <1>1 DEF Locked
<1>3. NamedOnDisk' /\ Sound(manifest)'
  BY <1>1 DEF IInv, PublicationSound, NamedOnDisk, Sound
<1>4. \A q \in Procs \ {p} : proc'[q] = proc[q]
  BY <1>1 DEF Become, IInv, TypeOK
<1>5. CASE proc'[p].pc \notin Locked \cup {"parse"}
  <2>1. proc'[p] \in Process /\ Become(p, proc'[p])
    BY <1>1 DEF TypeOK, IInv, Become
  <2>2. WriterSound(p)'
    BY <1>5 DEF WriterSound, Locked
  <2>3. \A b \in Builders : BuildSound(b)'
    BY <1>1, <1>2, <1>5, <2>1, HolderBuilds
  <2> QED BY <1>1, <1>2, <1>3, <2>1, <2>2, <2>3, HolderSound
<1>6. CASE proc'[p].pc \in Locked \cup {"parse"}
  <2>1. proc[p].job = "phase1" /\ proc'[p].pc = "parse" /\ proc'[p].mine = proc[p].mine
    <3>1. proc'[p] = Onward(p) \/ proc'[p] = Idle
      BY <1>1 DEF Become, IInv, TypeOK
    <3>2. Idle.pc = "idle" /\ [Idle EXCEPT !.pc = "read", !.round = 2].pc = "read"
          /\ [Idle EXCEPT !.pc = "spawn"].pc = "spawn"
      BY DEF Idle
    <3>3. proc[p].job = "phase1" /\ proc'[p] = [Idle EXCEPT !.pc = "parse", !.mine = proc[p].mine]
      BY <1>6, <3>1, <3>2 DEF Onward, Locked
    <3>4. proc'[p].pc = "parse" /\ proc'[p].mine = proc[p].mine
      BY <3>3 DEF Idle
    <3> QED BY <3>3, <3>4
  <2>2. WriterSound(p)'
    BY <2>1 DEF WriterSound
  <2>3. proc'[p] \in Process /\ Become(p, proc'[p])
    BY <1>1 DEF TypeOK, IInv, Become
  <2>4. ASSUME NEW b \in Builders PROVE BuildSound(b)'
    <3>1. \A c \in Builders : BuildSound(c) /\ c \in Procs
      BY DEF IInv, PublicationSound, Procs
    <3>2. \A c \in Builders : Claims(c)' => Claims(c) /\ Claim(c)' = Claim(c)
      BY <1>1, <1>2, <1>4, <2>1, <3>1 DEF Claims, Claim, BuildSound
    <3>3. CASE b = p
      BY <1>1, <2>1, <3>1, <3>2, <3>3 DEF BuildSound
    <3>4. CASE b # p
      BY <1>1, <1>4, <3>1, <3>2, <3>4 DEF BuildSound
    <3> QED BY <3>3, <3>4
  <2> QED BY <1>1, <1>2, <1>3, <2>2, <2>3, <2>4, HolderSound
<1> QED BY <1>5, <1>6

\* Phase 1 publishes under an epoch newer than any.
LEMMA Phase1Sound ==
    ASSUME IInv, TypeOK', NEW b \in Builders, BuildPhase1(b)
    PROVE  PublicationSound'
<1> DEFINE m == [NoManifest EXCEPT !.epoch = made + 1, !.ok = TRUE,
                                   !.noIno = manifest.noIno]
<1>1. Begin(b, "phase1", m, Named(m)) /\ made' = made + 1 /\ UNCHANGED <<manifest, files>>
  BY DEF BuildPhase1
<1>2. b \in Procs /\ "phase1" \in Jobs /\ made \in Nat /\ manifest \in Manifest
      /\ manifest.epoch \in Nat /\ manifest.epoch <= made
  BY DEF Procs, Jobs, IInv, TypeOK, PublicationSound, Sound, Manifest
<1>3. m \in Manifest
  <2>1. made + 1 \in Nat /\ manifest.noIno \in BOOLEAN
    BY <1>2 DEF Manifest
  <2> QED BY <2>1, IdleType DEF Manifest
<1>4. m.epoch = made + 1 /\ m.seq = 1 /\ m.skipped = 0 /\ m.deltas = 0
  BY DEF NoManifest
<1> HIDE DEF m
<1>5. Named(m) \in SUBSET Name
  BY <1>3, NamedType
<1>6. Follows(b)'
  <2>1. proc'[b].job = "phase1" /\ proc'[b].next = m
    BY <1>1, <1>2, <1>3 DEF Begin, Become, IInv, TypeOK, Process
  <2> QED BY <1>1, <1>2, <1>4, <2>1 DEF Follows
<1>7. /\ made' >= made /\ m.epoch \in 1 .. made' /\ m.skipped <= m.deltas /\ m.epoch > made
  BY <1>1, <1>2, <1>4
<1> QED BY <1>1, <1>2, <1>3, <1>5, <1>6, <1>7, BeginSound

\* Phase 2 completes the snapshot its own phase 1 published, deltas included.
LEMMA Phase2Sound ==
    ASSUME IInv, TypeOK', NEW b \in Builders, BuildPhase2(b)
    PROVE  PublicationSound'
<1> DEFINE e == proc[b].mine.epoch
           m == [proc[b].mine EXCEPT !.seq = 2, !.deltas = manifest.deltas,
                                     !.skipped = manifest.skipped]
           new == {File(e, "symbols", 2), File(e, "files", 2)}
<1>1. Begin(b, "phase2", m, new) /\ proc[b].pc = "parse" /\ manifest.epoch = e
      /\ UNCHANGED <<manifest, files, made>>
  BY DEF BuildPhase2, StillMine
<1>2. b \in Procs /\ "phase2" \in Jobs /\ made \in Nat /\ manifest \in Manifest
      /\ proc[b].mine \in Manifest
  BY DEF Procs, Jobs, IInv, TypeOK, Process
<1>3. BuildSound(b) /\ NamedOnDisk /\ Sound(manifest)
  BY DEF IInv, PublicationSound
<1>4. e \in 1 .. made /\ manifest.seq = 1
  BY <1>1, <1>3 DEF BuildSound, Claims, Claim
<1>5. m \in Manifest
  <2>1. manifest.deltas \in Nat /\ manifest.skipped \in Nat /\ 2 \in 1 .. 2
    BY <1>2 DEF Manifest
  <2> QED BY <1>2, <2>1 DEF Manifest
<1>6. m.epoch = e /\ m.seq = 2 /\ m.deltas = manifest.deltas /\ m.skipped = manifest.skipped
  BY <1>2 DEF Manifest
<1>7. new \in SUBSET Name
  BY <1>2, <1>4 DEF Name, File, Kinds
<1> HIDE DEF m
<1>8. Follows(b)'
  <2>1. proc'[b].job = "phase2" /\ proc'[b].next = m
    BY <1>1, <1>2, <1>5 DEF Begin, Become, IInv, TypeOK, Process
  <2> QED BY <1>1, <1>2, <1>4, <1>6, <2>1 DEF Follows
<1>9. Named(m) \subseteq files \cup new
  BY <1>1, <1>2, <1>3, <1>4, <1>6 DEF NamedOnDisk, Named
<1>10. /\ made' >= made /\ m.epoch \in 1 .. made' /\ m.skipped <= m.deltas
       /\ m.epoch = proc[b].mine.epoch
  BY <1>1, <1>2, <1>3, <1>4, <1>6 DEF Sound
<1> HIDE DEF new
<1> QED BY <1>1, <1>2, <1>5, <1>7, <1>8, <1>9, <1>10, BeginSound

\* A stamp or a mark names the same files as the snapshot it replaces.
LEMMA SameFilesSound ==
    ASSUME IInv, TypeOK', NEW q \in Queries, NEW job \in {"stamp", "mark"},
           NEW m \in Manifest, Begin(q, job, m, {}), manifest.epoch # 0,
           m.epoch = manifest.epoch, m.seq = manifest.seq,
           m.deltas = manifest.deltas, m.skipped = manifest.skipped,
           UNCHANGED <<manifest, files, made>>
    PROVE  PublicationSound'
<1>1. q \in Procs /\ q \notin Builders /\ job \in Jobs /\ {} \in SUBSET Name
  BY ProcessesAssumption DEF Procs, Jobs
<1>2. manifest \in Manifest /\ made \in Nat /\ Sound(manifest) /\ NamedOnDisk
  BY DEF IInv, TypeOK, PublicationSound
<1>3. Named(m) \subseteq files \cup {}
  BY <1>2 DEF NamedOnDisk, Named
<1>4. Follows(q)'
  <2>1. proc'[q].job = job /\ proc'[q].next = m
    BY <1>1 DEF Begin, Become, IInv, TypeOK, Process
  <2> QED BY <1>1, <2>1 DEF Follows, Snap
<1>5. made' >= made /\ m.epoch \in 1 .. made' /\ m.skipped <= m.deltas
  BY <1>2 DEF Sound, Manifest
<1> QED BY <1>1, <1>3, <1>4, <1>5, BeginSound

LEMMA StampSound ==
    ASSUME IInv, TypeOK', NEW q \in Queries, ApplyStamp(q)
    PROVE  PublicationSound'
<1>1. PICK found \in InodeChecks :
        Begin(q, "stamp", [manifest EXCEPT !.noIno = @ \/ found], {})
  BY DEF ApplyStamp
<1> DEFINE m == [manifest EXCEPT !.noIno = @ \/ found]
<1>2. manifest \in Manifest /\ manifest.epoch # 0 /\ UNCHANGED <<manifest, files, made>>
  BY DEF IInv, TypeOK, ApplyStamp, SameIndex
<1>3. m \in Manifest /\ m.epoch = manifest.epoch /\ m.seq = manifest.seq
      /\ m.deltas = manifest.deltas /\ m.skipped = manifest.skipped
  BY <1>2 DEF Manifest
<1>4. Begin(q, "stamp", m, {})
  BY <1>1
<1> HIDE DEF m
<1> QED BY <1>2, <1>3, <1>4, SameFilesSound

LEMMA MarkSound ==
    ASSUME IInv, TypeOK', NEW q \in Queries, MarkCorrupt(q)
    PROVE  PublicationSound'
<1> DEFINE m == [manifest EXCEPT !.ok = FALSE]
<1>1. manifest \in Manifest /\ manifest.epoch # 0 /\ UNCHANGED <<manifest, files, made>>
  BY DEF IInv, TypeOK, MarkCorrupt
<1>2. m \in Manifest /\ m.epoch = manifest.epoch /\ m.seq = manifest.seq
      /\ m.deltas = manifest.deltas /\ m.skipped = manifest.skipped
  BY <1>1 DEF Manifest
<1>3. Begin(q, "mark", m, {})
  BY DEF MarkCorrupt
<1> HIDE DEF m
<1> QED BY <1>1, <1>2, <1>3, SameFilesSound

\* A delta adds its own files to those of the snapshot it extends.
LEMMA DeltaSound ==
    ASSUME IInv, TypeOK', NEW q \in Queries, ApplyDelta(q)
    PROVE  PublicationSound'
<1> DEFINE n == proc[q].mine.deltas + 1
<1>1. manifest.epoch # 0 /\ UNCHANGED <<manifest, files, made>>
      /\ manifest \in Manifest /\ made \in Nat /\ Sound(manifest) /\ NamedOnDisk
  BY DEF ApplyDelta, SameIndex, IInv, TypeOK, PublicationSound
<1>2. n = manifest.deltas + 1 /\ n \in Nat
  BY <1>1 DEF ApplyDelta, SameIndex, Snap, Manifest
<1>3. PICK found \in InodeChecks, skips \in BOOLEAN :
        Begin(q, "delta",
              [manifest EXCEPT !.deltas = n, !.noIno = @ \/ found,
                               !.skipped = IF skips THEN n ELSE @],
              {File(manifest.epoch, "delta", n)}
              \cup (IF skips THEN {File(manifest.epoch, "skipped", n)} ELSE {}))
  BY DEF ApplyDelta
<1> DEFINE k == IF skips THEN n ELSE manifest.skipped
           noIno == manifest.noIno \/ found
           m == [manifest EXCEPT !.deltas = n, !.noIno = noIno, !.skipped = k]
           new == {File(manifest.epoch, "delta", n)}
                  \cup (IF skips THEN {File(manifest.epoch, "skipped", n)} ELSE {})
<1>4. k \in Nat /\ noIno \in BOOLEAN /\ k \in {manifest.skipped, n}
      /\ (k = manifest.skipped \/ File(manifest.epoch, "skipped", k) \in new)
  BY <1>1, <1>2 DEF Manifest
<1>5. new \in SUBSET Name /\ File(manifest.epoch, "delta", n) \in new
  BY <1>1, <1>2 DEF Manifest, Name, File, Kinds
<1>6. Begin(q, "delta", m, new)
  BY <1>3
<1> HIDE DEF n, k, noIno, new
<1>7. m \in Manifest /\ m.epoch = manifest.epoch /\ m.seq = manifest.seq
      /\ m.deltas = n /\ m.skipped = k
  BY <1>1, <1>2, <1>4 DEF Manifest
<1> HIDE DEF m
<1>8. q \in Procs /\ q \notin Builders /\ "delta" \in Jobs
  BY ProcessesAssumption DEF Procs, Jobs
<1>9. Follows(q)'
  <2>1. proc'[q].job = "delta" /\ proc'[q].next = m
    BY <1>6, <1>8 DEF Begin, Become, IInv, TypeOK, Process
  <2> QED BY <1>1, <1>2, <1>4, <1>7, <1>8, <2>1 DEF Follows
<1>10. Named(m) \subseteq files \cup new
  <2>1. Named(m) \subseteq Named(manifest)
           \cup {File(manifest.epoch, "delta", n), File(manifest.epoch, "skipped", k)}
    <3>1. \A i \in 1 .. n : i \in 1 .. manifest.deltas \/ i = n
      BY <1>1, <1>2 DEF Manifest
    <3> QED BY <1>1, <1>7, <3>1 DEF Named
  <2>2. File(manifest.epoch, "skipped", k) \in Named(manifest) \cup new
    BY <1>1, <1>4 DEF Named
  <2> QED BY <1>1, <1>5, <2>1, <2>2 DEF NamedOnDisk
<1>11. made' >= made /\ m.epoch \in 1 .. made' /\ m.skipped <= m.deltas
  BY <1>1, <1>2, <1>4, <1>7 DEF Sound, Manifest
<1> QED BY <1>1, <1>5, <1>6, <1>7, <1>8, <1>9, <1>10, <1>11, BeginSound

\* The steps of a query outside LOCK.
LEMMA QueryQuietSound ==
    ASSUME IInv, TypeOK', NEW q \in Queries,
           \/ StartQuery(q) \/ ReadManifest(q) \/ OpenFile(q) \/ OpenFails(q)
           \/ Retry(q) \/ Opened(q) \/ Answer(q) \/ Check(q) \/ ApplyNothing(q)
           \/ FindCorrupt(q) \/ MarkNothing(q)
    PROVE  PublicationSound'
<1>1. q \in Procs /\ proc[q] \in Process /\ UNCHANGED <<manifest, files, made>>
  BY DEF Procs, IInv, TypeOK, StartQuery, ReadManifest, OpenFile, OpenFails, Retry,
         Opened, Answer, Check, ApplyNothing, FindCorrupt, MarkNothing
<1>2. \E r : Become(q, r)
  BY DEF StartQuery, ReadManifest, OpenFile, OpenFails, Retry,
         Opened, Answer, Check, ApplyNothing, FindCorrupt, MarkNothing
<1>3. Become(q, proc'[q]) /\ proc'[q] \in Process
  BY <1>1, <1>2 DEF Become, IInv, TypeOK
<1>4. Idle.pc = "idle" /\ Failed(q).pc \in {"idle", "markLock", "spawn"}
  BY DEF Failed, Idle
<1>5. proc'[q].pc \notin Locked \cup {"parse"}
  <2>1. CASE StartQuery(q) \/ Answer(q) \/ MarkNothing(q)
    BY <1>1, <2>1 DEF StartQuery, Answer, MarkNothing, Become, Idle, Locked, IInv, TypeOK
  <2>2. CASE ReadManifest(q)
    <3>1. \/ proc'[q] = Failed(q)
          \/ proc'[q].pc \in {"open", "retry"}
      BY <1>1, <2>2 DEF ReadManifest, Become, IInv, TypeOK, Process
    <3> QED BY <1>4, <3>1 DEF Locked
  <2>3. CASE OpenFile(q)
    BY <1>1, <2>3 DEF OpenFile, Become, IInv, TypeOK, Process, Locked
  <2>4. CASE OpenFails(q)
    <3>1. PICK job : proc'[q] = [proc[q] EXCEPT !.pc = "retry", !.todo = {}, !.job = job]
      BY <1>1, <2>4 DEF OpenFails, Become, IInv, TypeOK
    <3> QED BY <1>1, <3>1 DEF Process, Locked
  <2>5. CASE Retry(q)
    <3>1. proc'[q] = Failed(q) \/ proc'[q].pc = "read"
      BY <1>1, <2>5 DEF Retry, Become, IInv, TypeOK, Process
    <3> QED BY <1>4, <3>1 DEF Locked
  <2>6. CASE Opened(q)
    BY <1>1, <2>6 DEF Opened, Become, IInv, TypeOK, Process, Locked
  <2>7. CASE Check(q)
    <3>1. PICK pc \in {"stampLock", "spawn", "deltaLock"} :
            proc'[q] = [proc[q] EXCEPT !.pc = pc, !.now = clock]
      BY <1>1, <2>7 DEF Check, Become, IInv, TypeOK
    <3> QED BY <1>1, <3>1 DEF Process, Locked
  <2>8. CASE ApplyNothing(q)
    BY <1>1, <2>8 DEF ApplyNothing, Become, IInv, TypeOK, Idle, Locked
  <2>9. CASE FindCorrupt(q)
    BY <1>1, <2>9 DEF FindCorrupt, Become, IInv, TypeOK, Idle, Locked
  <2> QED BY <2>1, <2>2, <2>3, <2>4, <2>5, <2>6, <2>7, <2>8, <2>9
<1> QED BY <1>1, <1>3, <1>5, QuietSound

\* The steps of a build outside LOCK.
LEMMA BuildQuietSound ==
    ASSUME IInv, TypeOK', NEW b \in Builders, StartBuild(b) \/ BuildBail(b)
    PROVE  PublicationSound'
<1>1. b \in Procs /\ UNCHANGED <<manifest, files, made>>
  BY DEF Procs, StartBuild, BuildBail
<1>2. Become(b, [Idle EXCEPT !.pc = "walk"]) \/ Become(b, Idle)
  BY DEF StartBuild, BuildBail
<1>3. Become(b, proc'[b]) /\ proc'[b] \in Process /\ proc'[b].pc \in {"walk", "idle"}
  BY <1>1, <1>2 DEF Become, Idle, IInv, TypeOK
<1> QED BY <1>1, <1>3, QuietSound DEF Locked

\* A query starts a build: two processes outside LOCK, neither claiming.
LEMMA SpawnSound ==
    ASSUME IInv, TypeOK', NEW q \in Queries, SpawnBuild(q)
    PROVE  PublicationSound'
<1> DEFINE walk == [Idle EXCEPT !.pc = "walk"]
<1>1. q \in Procs /\ UNCHANGED <<manifest, files, made>>
  BY DEF Procs, SpawnBuild
<1>2. Idle.pc = "idle" /\ walk.pc = "walk"
  BY DEF Idle
<1>3. CASE Become(q, Idle)
  <2>1. Become(q, proc'[q]) /\ proc'[q] \in Process /\ proc'[q].pc = "idle"
    BY <1>1, <1>2, <1>3 DEF Become, IInv, TypeOK
  <2> QED BY <1>1, <2>1, QuietSound DEF Locked
<1>4. CASE ~Become(q, Idle)
  <2>1. PICK b \in Builders : proc' = [proc EXCEPT ![q] = Idle, ![b] = walk]
    BY <1>4 DEF SpawnBuild
  <2> HIDE DEF walk
  <2>2. \A p \in Procs : proc'[p] = proc[p] \/ proc'[p].pc \in {"idle", "walk"}
    BY <1>1, <1>2, <2>1 DEF IInv, TypeOK, Procs
  <2>3. NamedOnDisk' /\ Sound(manifest)'
    BY <1>1 DEF IInv, PublicationSound, NamedOnDisk, Sound
  <2>4. ASSUME NEW p \in Procs PROVE WriterSound(p)'
    <3>1. CASE proc'[p] = proc[p]
      BY <1>1, <3>1 DEF IInv, PublicationSound, WriterSound, Follows, Sound
    <3>2. CASE proc'[p].pc \in {"idle", "walk"}
      BY <3>2 DEF WriterSound
    <3> QED BY <2>2, <3>1, <3>2
  <2>5. ASSUME NEW c \in Builders PROVE BuildSound(c)'
    <3>1. \A d \in Builders : d \in Procs /\ BuildSound(d)
      BY DEF IInv, PublicationSound, Procs
    <3>2. \A d \in Builders : Claims(d)' => proc'[d] = proc[d] /\ Claims(d) /\ Claim(d)' = Claim(d)
      BY <2>2, <3>1 DEF Claims, Claim, Locked
    <3>3. CASE proc'[c] = proc[c]
      BY <1>1, <3>1, <3>2, <3>3 DEF BuildSound
    <3>4. CASE proc'[c].pc \in {"idle", "walk"}
      BY <3>2, <3>4 DEF BuildSound, Claims, Locked
    <3> QED BY <2>2, <3>1, <3>3, <3>4
  <2> QED BY <2>3, <2>4, <2>5 DEF PublicationSound
<1> QED BY <1>3, <1>4

\* Crashes and power losses leave no half of a publication behind.
LEMMA EnvironmentSound ==
    ASSUME IInv, TypeOK', \/ \E p \in Procs : Crash(p)
                          \/ PowerLoss
                          \/ Tick
    PROVE  PublicationSound'
<1>i. Idle \in Process /\ Idle.pc = "idle"
  BY IdleType DEF Idle
<1>1. ASSUME NEW p \in Procs, Crash(p) PROVE PublicationSound'
  BY <1>1, <1>i, QuietSound DEF Crash, Locked
<1>2. CASE PowerLoss
  <2>1. \A p \in Procs : proc'[p].pc = "idle"
    BY <1>2, <1>i DEF PowerLoss
  <2>2. (NamedOnDisk /\ Sound(manifest))'
    <3>1. CASE manifest' = manifest
      BY <1>2, <3>1 DEF PowerLoss, IInv, PublicationSound, NamedOnDisk, Sound
    <3>2. CASE manifest' = NoManifest
      BY <3>2 DEF NoManifest, NamedOnDisk, Named, Sound, TypeOK
    <3> QED BY <1>2, <3>1, <3>2 DEF PowerLoss
  <2>3. \A p \in Procs : WriterSound(p)'
    BY <2>1 DEF WriterSound
  <2>4. \A b \in Builders : BuildSound(b)'
    BY <2>1 DEF BuildSound, Claims, Locked, Procs
  <2> QED BY <2>2, <2>3, <2>4 DEF PublicationSound
<1>3. CASE Tick
  BY <1>3 DEF Tick, IInv, PublicationSound, NamedOnDisk, Sound, WriterSound, Follows,
              BuildSound, Claims, Claim
<1> QED BY <1>1, <1>2, <1>3

LEMMA StepSound ==
    ASSUME IInv, TypeOK', Next
    PROVE  PublicationSound'
<1>1. ASSUME NEW p \in Procs, Step(p) PROVE PublicationSound'
  BY <1>1, WriteSound, PrepareSound, PublishSound, CleanSound, ReleaseSound DEF Step
<1>2. ASSUME NEW b \in Builders, StartBuild(b) \/ BuildStep(b) PROVE PublicationSound'
  BY <1>1, <1>2, BuildQuietSound, CleanOrphanSound, Phase1Sound, Phase2Sound
     DEF BuildStep, Procs
<1>3. ASSUME NEW q \in Queries, StartQuery(q) \/ QueryStep(q) \/ FindCorrupt(q)
      PROVE  PublicationSound'
  BY <1>1, <1>3, QueryQuietSound, StampSound, DeltaSound, MarkSound, SpawnSound
     DEF QueryStep, Procs
<1> QED BY <1>2, <1>3, EnvironmentSound DEF Next

\* Every publication follows the snapshot it replaces, and what it retires or
\* removes is no part of any snapshot from then on (`retire`, `clean`).
THEOREM PublicationIsSound == Spec => []PublicationSound
<1>1. Init => IInv
  <2> SUFFICES ASSUME Init PROVE PublicationSound
    BY InitTypeOK DEF IInv
  <2>1. \A p \in Procs : proc[p].pc = "idle"
    BY DEF Init, Idle
  <2>2. NamedOnDisk /\ Sound(manifest)
    BY DEF Init, NoManifest, NamedOnDisk, Named, Sound
  <2> QED BY <2>1, <2>2 DEF PublicationSound, WriterSound, BuildSound, Claims, Locked, Procs
<1>2. IInv /\ TypeOK' /\ [Next]_vars => IInv'
  <2> SUFFICES ASSUME IInv, TypeOK', [Next]_vars PROVE PublicationSound'
    BY DEF IInv
  <2>1. CASE UNCHANGED vars
    BY <2>1 DEF vars, IInv, PublicationSound, NamedOnDisk, Sound, WriterSound, Follows,
                BuildSound, Claims, Claim
  <2> QED BY <2>1, StepSound
<1>3. IInv => PublicationSound
  BY DEF IInv
<1> QED BY <1>1, <1>2, <1>3, TypeCorrect, PTL DEF Spec

\* Whatever writers, cleaners and crashes do, every file the manifest names is
\* on disk (`clean` against `Manifest::named`).
THEOREM NothingNamedIsRemoved == Spec => []NamedOnDisk
<1>1. PublicationSound => NamedOnDisk
  BY DEF PublicationSound
<1> QED BY <1>1, PublicationIsSound, PTL


-----------------------------------------------------------------------------
(* Publications are atomic changes of the snapshot they replace.  Entitled   *)
(* is what a process carries from the check it made under LOCK, or from its  *)
(* own first phase, to the rename.                                           *)

Entitled(p) ==
    LET m == proc[p].next
    IN  /\ proc[p].pc \in {"write", "publish"} =>
              /\ proc[p].job = "phase1" => m.epoch = made /\ m.deltas = 0 /\ m.ok
              /\ proc[p].job = "phase2" => manifest.ok /\ m.ok
              /\ proc[p].job = "delta" =>
                    /\ manifest.epoch # 0 /\ Snap(proc[p].mine) = Snap(manifest)
                    /\ m.ok = manifest.ok
              /\ proc[p].job = "stamp" => m.ok = manifest.ok
              /\ proc[p].job = "mark" => ~m.ok /\ MayMark(p)
        /\ p \in Builders /\ (\/ proc[p].pc = "parse"
                              \/ proc[p].pc = "clean" /\ proc[p].job = "phase1") =>
              proc[p].mine.ok
        /\ p \in Queries /\ proc[p].mine.epoch = 0 => Snap(proc[p].mine) = Snap(NoManifest)

AllEntitled == \A p \in Procs : Entitled(p)

Simulated == [Publications!Next]_(Publications!vars)

LEMMA SnapParts ==
    /\ \A m : Snap(m)[1] = m.epoch /\ Snap(m)[2] = m.seq /\ Snap(m)[3] = m.deltas
    /\ Snap(NoManifest) = <<0, 1, 0>>
BY DEF Snap, NoManifest

\* Only the process that moves can lose what it is entitled to.
LEMMA EntitledKept ==
    ASSUME IInv, AllEntitled, NEW p \in Procs, NEW r, Become(p, r),
           UNCHANGED <<manifest, made>> \/ proc[p].pc \in Locked \/ lock = NoProc,
           Entitled(p)'
    PROVE  AllEntitled'
<1> SUFFICES ASSUME NEW q \in Procs, q # p PROVE Entitled(q)'
  BY DEF AllEntitled
<1>1. proc'[q] = proc[q] /\ Entitled(q)
  BY DEF Become, IInv, TypeOK, AllEntitled
<1>2. CASE UNCHANGED <<manifest, made>>
  BY <1>1, <1>2 DEF Entitled, MayMark
<1>3. CASE proc[p].pc \in Locked \/ lock = NoProc
  <2>1. proc[q].pc \notin Locked
    BY <1>3, ProcessesAssumption DEF IInv, TypeOK, Procs
  <2> QED BY <1>1, <2>1 DEF Entitled, Locked
<1> QED BY <1>2, <1>3

\* Steps that publish nothing: queries start from what is current, or end.
LEMMA Rebased ==
    ASSUME UNCHANGED <<manifest, made>>,
           \A q \in Queries : Snap(proc[q].mine)' \in
               {Snap(NoManifest), Snap(manifest), Snap(proc[q].mine)}
    PROVE  Simulated
<1> QED BY SnapParts DEF Simulated, Publications!Next, Publications!Rebase

\* One process moves, and publishes nothing.
LEMMA MovedSimulated ==
    ASSUME IInv, AllEntitled, NEW p \in Procs, NEW r, Become(p, r),
           UNCHANGED <<manifest, made>>, Entitled(p)',
           p \in Queries => r.mine \in {NoManifest, manifest, proc[p].mine}
    PROVE  AllEntitled' /\ Simulated
<1>1. proc'[p] = r /\ \A q \in Procs \ {p} : proc'[q] = proc[q]
  BY DEF Become, IInv, TypeOK
<1>2. \A q \in Queries : Snap(proc[q].mine)' \in
               {Snap(NoManifest), Snap(manifest), Snap(proc[q].mine)}
  BY <1>1 DEF Snap, Procs
<1> QED BY <1>2, EntitledKept, Rebased


\* Steps of a query, or of a build, outside LOCK.
LEMMA QuietSimulated ==
    ASSUME IInv, AllEntitled, NEW p \in Procs, NEW r, Become(p, r),
           UNCHANGED <<manifest, made>>, r.pc \notin Locked \cup {"parse"},
           p \in Queries => \/ r.mine \in {NoManifest, proc[p].mine}
                            \/ r.mine = manifest /\ manifest.epoch # 0
    PROVE  AllEntitled' /\ Simulated
<1>1. proc'[p] = r
  BY DEF Become, IInv, TypeOK
<1>2. p \in Queries /\ r.mine.epoch = 0 => Snap(r.mine) = Snap(NoManifest)
  BY DEF AllEntitled, Entitled
<1>3. Entitled(p)'
  BY <1>1, <1>2, SnapParts DEF Entitled, Locked, Snap
<1> QED BY <1>3, MovedSimulated

LEMMA QuerySimulated ==
    ASSUME IInv, AllEntitled, NEW q \in Queries,
           \/ StartQuery(q) \/ ReadManifest(q) \/ OpenFile(q) \/ OpenFails(q)
           \/ Retry(q) \/ Opened(q) \/ Answer(q) \/ Check(q) \/ ApplyNothing(q)
           \/ FindCorrupt(q) \/ MarkNothing(q)
    PROVE  AllEntitled' /\ Simulated
<1>1. q \in Procs /\ proc[q] \in Process /\ UNCHANGED <<manifest, made>>
  BY DEF Procs, IInv, TypeOK, StartQuery, ReadManifest, OpenFile, OpenFails, Retry,
         Opened, Answer, Check, ApplyNothing, FindCorrupt, MarkNothing
<1>2. ASSUME NEW pc, pc \notin Locked \cup {"parse"}
      PROVE  LET i == [Idle EXCEPT !.pc = pc]
             IN  i.pc = pc /\ i.mine = NoManifest
  BY DEF Idle
<1>3. Idle.pc = "idle" /\ Idle.mine = NoManifest
  BY DEF Idle
<1>4. Failed(q).pc \notin Locked \cup {"parse"} /\ Failed(q).mine = NoManifest
  <2>1. \A pc \in {"markLock", "spawn"} : LET i == [Idle EXCEPT !.pc = pc]
                                          IN  i.pc = pc /\ i.mine = NoManifest
    BY <1>2 DEF Locked
  <2> QED BY <1>3, <2>1 DEF Failed, Locked
<1> DEFINE Quiet(r) == /\ Become(q, r) /\ r.pc \notin Locked \cup {"parse"}
                       /\ \/ r.mine \in {NoManifest, proc[q].mine}
                          \/ r.mine = manifest /\ manifest.epoch # 0
<1>5. \E r : Quiet(r)
  <2>1. CASE StartQuery(q)
    <3>1. Quiet([Idle EXCEPT !.pc = "read"])
      BY <1>2, <2>1 DEF StartQuery, Locked
    <3> QED BY <3>1
  <2>2. CASE Answer(q)
    BY <1>3, <2>2 DEF Answer, Locked
  <2>3. CASE ReadManifest(q)
    <3> DEFINE r == [proc[q] EXCEPT !.mine = manifest, !.now = clock,
                              !.pc = IF manifest.ok THEN "open" ELSE "retry",
                              !.todo = IF manifest.ok THEN Named(manifest) ELSE {}]
    <3>1. r.pc \in {"open", "retry"} /\ r.mine = manifest
      BY <1>1 DEF Process
    <3>2. Become(q, IF manifest.epoch = 0 THEN Failed(q) ELSE r)
      BY <2>3 DEF ReadManifest
    <3> HIDE DEF r
    <3> QED BY <1>4, <3>1, <3>2 DEF Locked
  <2>4. CASE OpenFile(q)
    <3>1. PICK f \in proc[q].todo : Become(q, [proc[q] EXCEPT !.todo = @ \ {f}])
      BY <2>4 DEF OpenFile
    <3> DEFINE r == [proc[q] EXCEPT !.todo = @ \ {f}]
    <3>2. r.pc = "open" /\ r.mine = proc[q].mine
      BY <1>1, <2>4 DEF Process, OpenFile
    <3>3. Quiet(r)
      BY <3>1, <3>2 DEF Locked
    <3> QED BY <3>3
  <2>5. CASE OpenFails(q)
    <3>1. PICK job : Become(q, [proc[q] EXCEPT !.pc = "retry", !.todo = {}, !.job = job])
      BY <2>5 DEF OpenFails
    <3> DEFINE r == [proc[q] EXCEPT !.pc = "retry", !.todo = {}, !.job = job]
    <3>2. r.pc = "retry" /\ r.mine = proc[q].mine
      BY <1>1 DEF Process
    <3>3. Quiet(r)
      BY <3>1, <3>2 DEF Locked
    <3> QED BY <3>3
  <2>6. CASE Retry(q)
    <3> DEFINE r == [proc[q] EXCEPT !.pc = "read", !.tries = @ + 1]
    <3>1. r.pc = "read" /\ r.mine = proc[q].mine
      BY <1>1 DEF Process
    <3>2. Become(q, r) \/ Become(q, Failed(q))
      BY <2>6 DEF Retry
    <3> HIDE DEF r
    <3> QED BY <1>4, <3>1, <3>2 DEF Locked
  <2>7. CASE Opened(q)
    <3> DEFINE r == [proc[q] EXCEPT !.pc = "opened", !.job = "none", !.tries = 0]
    <3>1. r.pc = "opened" /\ r.mine = proc[q].mine
      BY <1>1 DEF Process
    <3>2. Quiet(r)
      BY <2>7, <3>1 DEF Opened, Locked
    <3> QED BY <3>2
  <2>8. CASE Check(q)
    <3>1. PICK pc \in {"stampLock", "spawn", "deltaLock"} :
            Become(q, [proc[q] EXCEPT !.pc = pc, !.now = clock])
      BY <2>8 DEF Check
    <3> DEFINE r == [proc[q] EXCEPT !.pc = pc, !.now = clock]
    <3>2. r.pc = pc /\ r.mine = proc[q].mine
      BY <1>1 DEF Process
    <3>3. Quiet(r)
      BY <3>1, <3>2 DEF Locked
    <3> QED BY <3>3
  <2>9. CASE ApplyNothing(q)
    <3> DEFINE r == [Idle EXCEPT !.pc = "read", !.round = proc[q].round + 1]
    <3>1. r.pc = "read" /\ r.mine = NoManifest
      BY DEF Idle
    <3>2. Become(q, r) \/ Become(q, Idle)
      BY <2>9 DEF ApplyNothing
    <3> HIDE DEF r
    <3> QED BY <1>3, <3>1, <3>2 DEF Locked
  <2>10. CASE FindCorrupt(q)
    <3> DEFINE r == [Idle EXCEPT !.pc = "markLock", !.mine = proc[q].mine]
    <3>1. r.pc = "markLock" /\ r.mine = proc[q].mine
      BY DEF Idle
    <3>2. Quiet(r)
      BY <2>10, <3>1 DEF FindCorrupt, Locked
    <3> QED BY <3>2
  <2>11. CASE MarkNothing(q)
    <3>1. Become(q, [Idle EXCEPT !.pc = "spawn"]) \/ Become(q, Idle)
      BY <2>11 DEF MarkNothing
    <3>2. LET i == [Idle EXCEPT !.pc = "spawn"] IN i.pc = "spawn" /\ i.mine = NoManifest
      BY <1>2 DEF Locked
    <3> QED BY <1>3, <3>1, <3>2 DEF Locked
  <2> QED BY <2>1, <2>2, <2>3, <2>4, <2>5, <2>6, <2>7, <2>8, <2>9, <2>10, <2>11
<1>6. PICK r : Quiet(r)
  BY <1>5
<1> QED BY <1>1, <1>6, QuietSimulated

\* A build outside LOCK, a death, and a query that starts a build.
LEMMA OutsideSimulated ==
    ASSUME IInv, AllEntitled,
           \/ \E b \in Builders : StartBuild(b) \/ BuildBail(b)
           \/ \E p \in Procs : Crash(p)
           \/ \E q \in Queries : SpawnBuild(q)
    PROVE  AllEntitled' /\ Simulated
<1>1. /\ Idle.pc = "idle" /\ Idle.mine = NoManifest
      /\ [Idle EXCEPT !.pc = "walk"].pc = "walk"
  BY DEF Idle
<1>2. ASSUME NEW b \in Builders, StartBuild(b) \/ BuildBail(b)
      PROVE  AllEntitled' /\ Simulated
  <2>1. Become(b, [Idle EXCEPT !.pc = "walk"]) \/ Become(b, Idle)
    BY <1>2 DEF StartBuild, BuildBail
  <2>2. b \in Procs /\ b \notin Queries /\ UNCHANGED <<manifest, made>>
    BY <1>2, ProcessesAssumption DEF StartBuild, BuildBail, Procs
  <2> QED BY <1>1, <2>1, <2>2, QuietSimulated DEF Locked
<1>3. ASSUME NEW p \in Procs, Crash(p) PROVE AllEntitled' /\ Simulated
  BY <1>1, <1>3, QuietSimulated DEF Crash, Locked
<1>4. ASSUME NEW q \in Queries, SpawnBuild(q) PROVE AllEntitled' /\ Simulated
  <2>0. q \in Procs /\ UNCHANGED <<manifest, made>>
    BY <1>4 DEF SpawnBuild, Procs
  <2>1. CASE Become(q, Idle)
    BY <1>1, <2>0, <2>1, QuietSimulated DEF Locked
  <2>2. CASE ~Become(q, Idle)
    <3>1. PICK b \in Builders :
             proc' = [proc EXCEPT ![q] = Idle, ![b] = [Idle EXCEPT !.pc = "walk"]]
      BY <1>4, <2>2 DEF SpawnBuild
    <3>2. b \in Procs /\ b \notin Queries
      BY ProcessesAssumption DEF Procs
    <3>3. /\ proc'[q] = Idle /\ proc'[b].pc = "walk"
          /\ \A p \in Procs \ {q, b} : proc'[p] = proc[p]
      BY <1>1, <2>0, <3>1, <3>2 DEF IInv, TypeOK
    <3>4. \A p \in Procs \ {q, b} : Entitled(p)'
      BY <2>0, <3>3 DEF AllEntitled, Entitled, MayMark
    <3>5. Entitled(q)' /\ Entitled(b)'
      BY <1>1, <3>2, <3>3, SnapParts DEF Entitled, Snap
    <3>6. \A p \in Queries : Snap(proc[p].mine)' \in
               {Snap(NoManifest), Snap(manifest), Snap(proc[p].mine)}
      BY <1>1, <3>2, <3>3 DEF Snap, Procs
    <3> QED BY <2>0, <3>4, <3>5, <3>6, Rebased DEF AllEntitled
  <2> QED BY <2>1, <2>2
<1> QED BY <1>2, <1>3, <1>4

\* LOCK is taken for a publication the process is entitled to.
LEMMA BeginEntitled ==
    ASSUME IInv, AllEntitled, NEW p \in Procs, NEW job, NEW m, NEW new, Begin(p, job, m, new)
    PROVE  /\ proc'[p].pc = "write" /\ proc'[p].job = job /\ proc'[p].next = m
           /\ proc'[p].mine = proc[p].mine /\ lock = NoProc
           /\ \E r : Become(p, r) /\ r.mine = proc[p].mine
<1> DEFINE r == [proc[p] EXCEPT !.pc = "write", !.job = job, !.next = m, !.todo = new]
<1>1. Become(p, r) /\ lock = NoProc
  BY DEF Begin
<1>2. r.pc = "write" /\ r.job = job /\ r.next = m /\ r.mine = proc[p].mine
  BY DEF IInv, TypeOK, Process
<1>3. proc'[p] = r
  BY <1>1 DEF Become, IInv, TypeOK
<1> HIDE DEF r
<1> QED BY <1>1, <1>2, <1>3

LEMMA BeginSimulated ==
    ASSUME IInv, AllEntitled, NEW q \in Queries,
           ApplyStamp(q) \/ ApplyDelta(q) \/ MarkCorrupt(q)
    PROVE  AllEntitled' /\ Simulated
<1>0. q \in Procs /\ q \notin Builders /\ manifest \in Manifest /\ UNCHANGED <<manifest, made>>
  BY ProcessesAssumption DEF Procs, ApplyStamp, ApplyDelta, MarkCorrupt, IInv, TypeOK
<1>1. CASE ApplyStamp(q)
  <2>1. PICK found : Begin(q, "stamp", [manifest EXCEPT !.noIno = @ \/ found], {})
    BY <1>1 DEF ApplyStamp
  <2> DEFINE m == [manifest EXCEPT !.noIno = @ \/ found]
  <2>2. m.ok = manifest.ok /\ Begin(q, "stamp", m, {})
    BY <1>0, <2>1 DEF Manifest
  <2> HIDE DEF m
  <2>4. /\ proc'[q].job = "stamp" /\ proc'[q].next.ok = manifest'.ok
        /\ proc'[q].mine = proc[q].mine
    BY <1>0, <2>2, BeginEntitled
  <2>3. Entitled(q)'
    BY <1>0, <2>4 DEF Entitled, AllEntitled, Snap
  <2> QED BY <1>0, <2>1, <2>3, BeginEntitled, MovedSimulated
<1>2. CASE ApplyDelta(q)
  <2>1. PICK n, found, k, new :
          Begin(q, "delta", [manifest EXCEPT !.deltas = n, !.noIno = @ \/ found,
                                             !.skipped = k], new)
    BY <1>2 DEF ApplyDelta
  <2> DEFINE m == [manifest EXCEPT !.deltas = n, !.noIno = @ \/ found, !.skipped = k]
  <2>2. m.ok = manifest.ok /\ Begin(q, "delta", m, new)
    BY <1>0, <2>1 DEF Manifest
  <2> HIDE DEF m
  <2>5. /\ proc'[q].job = "delta" /\ proc'[q].next.ok = manifest'.ok
        /\ proc'[q].mine = proc[q].mine
    BY <1>0, <2>2, BeginEntitled
  <2>3. manifest.epoch # 0 /\ Snap(manifest) = Snap(proc[q].mine)
    BY <1>2 DEF ApplyDelta, SameIndex
  <2>4. Entitled(q)'
    BY <1>0, <2>3, <2>5 DEF Entitled, AllEntitled, Snap
  <2> QED BY <1>0, <2>1, <2>4, BeginEntitled, MovedSimulated
<1>3. CASE MarkCorrupt(q)
  <2>1. Begin(q, "mark", [manifest EXCEPT !.ok = FALSE], {}) /\ MayMark(q)
    BY <1>3 DEF MarkCorrupt
  <2> DEFINE m == [manifest EXCEPT !.ok = FALSE]
  <2>2. ~m.ok /\ Begin(q, "mark", m, {})
    BY <1>0, <2>1 DEF Manifest
  <2> HIDE DEF m
  <2>4. /\ proc'[q].job = "mark" /\ ~proc'[q].next.ok
        /\ proc'[q].mine = proc[q].mine
    BY <1>0, <2>2, BeginEntitled
  <2>3. Entitled(q)'
    BY <1>0, <2>1, <2>4 DEF Entitled, AllEntitled, Snap, MayMark
  <2> QED BY <1>0, <2>1, <2>3, BeginEntitled, MovedSimulated
<1> QED BY <1>1, <1>2, <1>3

LEMMA BuildSimulated ==
    ASSUME IInv, AllEntitled, NEW b \in Builders, BuildPhase1(b) \/ BuildPhase2(b)
    PROVE  AllEntitled' /\ Simulated
<1>0. b \in Procs /\ b \notin Queries /\ manifest \in Manifest /\ proc[b] \in Process
  BY ProcessesAssumption DEF Procs, IInv, TypeOK
<1>1. CASE BuildPhase1(b)
  <2> DEFINE m == [NoManifest EXCEPT !.epoch = made + 1, !.ok = TRUE,
                                     !.noIno = manifest.noIno]
  <2>1. Begin(b, "phase1", m, Named(m)) /\ made' = made + 1 /\ UNCHANGED manifest
    BY <1>1 DEF BuildPhase1
  <2>2. m.epoch = made + 1 /\ m.deltas = 0 /\ m.ok
    BY DEF NoManifest
  <2> HIDE DEF m
  <2>3. Entitled(b)'
    BY <1>0, <2>1, <2>2, BeginEntitled DEF Entitled
  <2>4. AllEntitled'
    BY <1>0, <2>1, <2>3, BeginEntitled, EntitledKept
  <2>5. \A q \in Queries : proc'[q] = proc[q]
    BY <1>0, <2>1, BeginEntitled DEF Become, IInv, TypeOK, Procs
  <2>6. Publications!HandOut
    BY <2>1, <2>5 DEF Publications!HandOut, Snap
  <2> QED BY <2>4, <2>6 DEF Simulated, Publications!Next
<1>2. CASE BuildPhase2(b)
  <2> DEFINE m == [proc[b].mine EXCEPT !.seq = 2, !.deltas = manifest.deltas,
                                       !.skipped = manifest.skipped]
  <2>1. PICK new : Begin(b, "phase2", m, new) /\ UNCHANGED <<manifest, made>>
    BY <1>2 DEF BuildPhase2
  <2>2. m.ok = proc[b].mine.ok
    BY <1>0 DEF Process, Manifest
  <2>3. proc[b].mine.ok /\ manifest.ok
    BY <1>0, <1>2 DEF BuildPhase2, StillMine, AllEntitled, Entitled
  <2> HIDE DEF m
  <2>5. proc'[b].pc = "write" /\ proc'[b].job = "phase2" /\ proc'[b].next.ok /\ manifest'.ok
    BY <1>0, <2>1, <2>2, <2>3, BeginEntitled
  <2>4. Entitled(b)'
    BY <1>0, <2>5 DEF Entitled
  <2> QED BY <1>0, <2>1, <2>4, BeginEntitled, MovedSimulated
<1> QED BY <1>1, <1>2


\* Under LOCK, before and after the rename.
LEMMA HolderSimulated ==
    ASSUME IInv, AllEntitled, NEW p \in Procs,
           \/ Write(p) \/ Prepare(p) \/ Clean(p) \/ Release(p)
           \/ p \in Builders /\ CleanOrphan(p)
    PROVE  AllEntitled' /\ Simulated
<1>0. proc[p] \in Process /\ Entitled(p) /\ UNCHANGED <<manifest, made>>
  BY DEF IInv, TypeOK, AllEntitled, Write, Prepare, Clean, Release, CleanOrphan
<1>1. ASSUME NEW r, Become(p, r), r.pc = proc[p].pc \/ (proc[p].pc = "write" /\ r.pc = "publish"),
             r.job = proc[p].job, r.mine = proc[p].mine, r.next.epoch = proc[p].next.epoch,
             r.next.deltas = proc[p].next.deltas, r.next.ok = proc[p].next.ok
      PROVE  AllEntitled' /\ Simulated
  <2>1. proc'[p] = r
    BY <1>1 DEF Become, IInv, TypeOK
  <2>2. Entitled(p)'
    BY <1>0, <1>1, <2>1 DEF Entitled, MayMark
  <2> QED BY <1>0, <1>1, <2>2, MovedSimulated
<1>2. CASE Write(p)
  <2>1. PICK f \in proc[p].todo : Become(p, [proc[p] EXCEPT !.todo = @ \ {f}])
    BY <1>2 DEF Write
  <2> DEFINE r == [proc[p] EXCEPT !.todo = @ \ {f}]
  <2>2. /\ r.pc = proc[p].pc /\ r.job = proc[p].job /\ r.mine = proc[p].mine
        /\ r.next.epoch = proc[p].next.epoch /\ r.next.deltas = proc[p].next.deltas
        /\ r.next.ok = proc[p].next.ok
    BY <1>0 DEF Process
  <2>3. Become(p, r)
    BY <2>1
  <2> HIDE DEF r
  <2>4. r.pc = proc[p].pc \/ (proc[p].pc = "write" /\ r.pc = "publish")
    BY <2>2
  <2> QED BY ONLY <1>1, <2>2, <2>3, <2>4
<1>3. CASE Prepare(p)
  <2>1. PICK t, old, due :
          Become(p, [proc[p] EXCEPT !.pc = "publish", !.now = t, !.next.retired = old, !.due = due])
    BY <1>3 DEF Prepare
  <2> DEFINE r == [proc[p] EXCEPT !.pc = "publish", !.now = t, !.next.retired = old, !.due = due]
  <2>2. /\ r.pc = "publish" /\ r.job = proc[p].job /\ r.mine = proc[p].mine
        /\ r.next.epoch = proc[p].next.epoch /\ r.next.deltas = proc[p].next.deltas
        /\ r.next.ok = proc[p].next.ok
    BY <1>0 DEF Process, Manifest
  <2>3. Become(p, r) /\ proc[p].pc = "write"
    BY <1>3, <2>1 DEF Prepare
  <2> HIDE DEF r
  <2>4. r.pc = proc[p].pc \/ (proc[p].pc = "write" /\ r.pc = "publish")
    BY <2>2, <2>3
  <2> QED BY ONLY <1>1, <2>2, <2>3, <2>4
<1>4. CASE Clean(p)
  <2>1. PICK x, gone : Become(p, [proc[p] EXCEPT !.due = @ \ {x}, !.gone = gone])
    BY <1>4 DEF Clean
  <2> DEFINE r == [proc[p] EXCEPT !.due = @ \ {x}, !.gone = gone]
  <2>2. /\ r.pc = proc[p].pc /\ r.job = proc[p].job /\ r.mine = proc[p].mine
        /\ r.next.epoch = proc[p].next.epoch /\ r.next.deltas = proc[p].next.deltas
        /\ r.next.ok = proc[p].next.ok
    BY <1>0 DEF Process
  <2>3. Become(p, r)
    BY <2>1
  <2> HIDE DEF r
  <2>4. r.pc = proc[p].pc \/ (proc[p].pc = "write" /\ r.pc = "publish")
    BY <2>2
  <2> QED BY ONLY <1>1, <2>2, <2>3, <2>4
<1>5. CASE CleanOrphan(p)
  <2> DEFINE r == [proc[p] EXCEPT !.gone = @ + 1]
  <2>1. /\ r.pc = proc[p].pc /\ r.job = proc[p].job /\ r.mine = proc[p].mine
        /\ r.next.epoch = proc[p].next.epoch /\ r.next.deltas = proc[p].next.deltas
        /\ r.next.ok = proc[p].next.ok
    BY <1>0 DEF Process
  <2>2. Become(p, r)
    BY <1>5 DEF CleanOrphan
  <2> HIDE DEF r
  <2>4. r.pc = proc[p].pc \/ (proc[p].pc = "write" /\ r.pc = "publish")
    BY <2>1
  <2> QED BY ONLY <1>1, <2>1, <2>2, <2>4
<1>6. CASE Release(p)
  <2> DEFINE parse == [Idle EXCEPT !.pc = "parse", !.mine = proc[p].mine]
             again == [Idle EXCEPT !.pc = "read", !.round = 2]
             spawn == [Idle EXCEPT !.pc = "spawn"]
  <2>1. /\ parse.pc = "parse" /\ parse.mine = proc[p].mine
        /\ again.pc = "read" /\ again.mine = NoManifest
        /\ spawn.pc = "spawn" /\ spawn.mine = NoManifest
        /\ Idle.pc = "idle" /\ Idle.mine = NoManifest
    BY DEF Idle
  <2>2. \/ Become(p, parse) /\ proc[p].pc = "clean" /\ proc[p].job = "phase1"
        \/ Become(p, again) \/ Become(p, spawn) \/ Become(p, Idle)
    BY <1>6 DEF Release, Onward
  <2> HIDE DEF parse, again, spawn
  <2>3. CASE Become(p, parse) /\ proc[p].pc = "clean" /\ proc[p].job = "phase1"
    <3>1. proc'[p] = parse
      BY <2>3 DEF Become, IInv, TypeOK
    <3>2. Entitled(p)'
      BY <1>0, <2>1, <2>3, <3>1 DEF Entitled, Snap
    <3> QED BY <1>0, <2>1, <2>3, <3>2, MovedSimulated
  <2> QED BY <1>0, <2>1, <2>2, <2>3, QuietSimulated DEF Locked
<1> QED BY <1>2, <1>3, <1>4, <1>5, <1>6

\* The rename is the one change of the current snapshot that its kind allows.
LEMMA PublishSimulated ==
    ASSUME IInv, AllEntitled, NEW p \in Procs, Publish(p)
    PROVE  AllEntitled' /\ Simulated
<1> DEFINE r == [proc[p] EXCEPT !.pc = "clean",
                    !.mine = IF p \in Builders THEN proc[p].next ELSE @]
           m == proc[p].next
<1>0. /\ proc[p] \in Process /\ Entitled(p) /\ WriterSound(p) /\ proc[p].pc = "publish"
      /\ manifest' = m /\ made' = made /\ m \in Manifest /\ manifest \in Manifest
  BY DEF IInv, TypeOK, AllEntitled, PublicationSound, Publish, Process
<1>1. Become(p, r)
  BY DEF Publish
<1>2. /\ r.pc = "clean" /\ r.job = proc[p].job
      /\ r.mine = IF p \in Builders THEN m ELSE proc[p].mine
  BY <1>0 DEF Process
<1> HIDE DEF r
<1>3. proc'[p] = r /\ \A q \in Procs \ {p} : proc'[q] = proc[q]
  BY <1>1 DEF Become, IInv, TypeOK
<1>4. Entitled(p)'
  BY <1>0, <1>2, <1>3, ProcessesAssumption DEF Entitled, Snap
<1>5. AllEntitled'
  BY <1>0, <1>1, <1>4, EntitledKept DEF Locked
<1>6. \A q \in Queries : Snap(proc[q].mine)' = Snap(proc[q].mine)
  BY <1>2, <1>3, ProcessesAssumption DEF Snap, Procs
<1>7. Follows(p)
  BY <1>0 DEF WriterSound
<1>8. /\ manifest.epoch \in Nat /\ m.epoch \in Nat /\ made \in Nat
      /\ manifest.ok \in BOOLEAN /\ m.ok \in BOOLEAN
  BY <1>0 DEF Manifest, IInv, TypeOK
<1>9. Snap(manifest)' = Snap(m) /\ manifest'.ok = m.ok
  BY <1>0 DEF Snap
<1>10. CASE proc[p].job = "phase1"
  <2>1. /\ m.epoch = made /\ manifest.epoch < made /\ m.seq = 1 /\ m.deltas = 0 /\ m.ok
    BY <1>0, <1>7, <1>8, <1>10 DEF Entitled, Follows
  <2>2. Snap(m) = <<made, 1, 0>>
    BY <2>1 DEF Snap
  <2>3. Publications!Rebuild
    BY <1>0, <1>6, <1>8, <1>9, <2>1, <2>2, SnapParts
       DEF Publications!Rebuild, Publications!Epoch
  <2> QED BY <1>5, <2>3 DEF Simulated, Publications!Next
<1>11. CASE proc[p].job = "phase2"
  <2>1. /\ m.epoch = manifest.epoch /\ manifest.seq = 1 /\ m.seq = 2 /\ m.deltas = manifest.deltas
        /\ manifest.ok /\ m.ok
    BY <1>0, <1>7, <1>11 DEF Entitled, Follows
  <2>2. Snap(m) = <<manifest.epoch, 2, manifest.deltas>>
    BY <2>1 DEF Snap
  <2>3. Publications!Complete
    BY <1>0, <1>6, <1>8, <1>9, <2>1, <2>2, SnapParts
       DEF Publications!Complete, Publications!Epoch, Publications!Seq, Publications!Deltas
  <2> QED BY <1>5, <2>3 DEF Simulated, Publications!Next
<1>12. CASE proc[p].job = "delta"
  <2>1. /\ p \in Queries /\ m.epoch = manifest.epoch /\ m.seq = manifest.seq
        /\ m.deltas = manifest.deltas + 1 /\ manifest.epoch # 0
        /\ Snap(proc[p].mine) = Snap(manifest) /\ m.ok = manifest.ok
    BY <1>0, <1>7, <1>12 DEF Entitled, Follows
  <2>2. Snap(m) = <<manifest.epoch, manifest.seq, manifest.deltas + 1>>
    BY <2>1 DEF Snap
  <2>3. Snap(manifest) # <<0, 1, 0>>
    BY <2>1, SnapParts DEF Snap
  <2>4. Publications!Extend
    BY <1>0, <1>6, <1>8, <1>9, <2>1, <2>2, <2>3, SnapParts
       DEF Publications!Extend, Publications!Epoch, Publications!Seq, Publications!Deltas
  <2> QED BY <1>5, <2>4 DEF Simulated, Publications!Next
<1>13. CASE proc[p].job = "stamp"
  <2>1. Snap(m) = Snap(manifest) /\ m.ok = manifest.ok
    BY <1>0, <1>7, <1>13 DEF Entitled, Follows
  <2>2. UNCHANGED Publications!vars
    BY <1>0, <1>6, <1>9, <2>1 DEF Publications!vars
  <2> QED BY <1>5, <2>2 DEF Simulated
<1>14. CASE proc[p].job = "mark"
  <2>1. p \in Queries /\ Snap(m) = Snap(manifest) /\ ~m.ok /\ MayMark(p)
    BY <1>0, <1>7, <1>14 DEF Entitled, Follows
  <2>2. Snap(proc[p].mine) \in {Snap(manifest), <<0, 1, 0>>}
    BY <1>0, <2>1, SnapParts DEF Entitled, MayMark
  <2>3. Publications!Abandon
    BY <1>0, <1>6, <1>8, <1>9, <2>1, <2>2 DEF Publications!Abandon
  <2> QED BY <1>5, <2>3 DEF Simulated, Publications!Next
<1>15. proc[p].job \in {"phase1", "phase2", "delta", "stamp", "mark"}
  BY <1>7 DEF Follows
<1> QED BY <1>10, <1>11, <1>12, <1>13, <1>14, <1>15

LEMMA PowerLossSimulated ==
    ASSUME IInv, AllEntitled, PowerLoss
    PROVE  AllEntitled' /\ Simulated
<1>1. Idle.pc = "idle" /\ Idle.mine = NoManifest
  BY DEF Idle
<1>2. \A p \in Procs : proc'[p].pc = "idle" /\ proc'[p].mine = NoManifest
  BY <1>1 DEF PowerLoss
<1>3. AllEntitled'
  BY <1>2, SnapParts DEF AllEntitled, Entitled, Snap
<1>4. \A q \in Queries : Snap(proc[q].mine)' = <<0, 1, 0>>
  BY <1>2, SnapParts DEF Snap, Procs
<1>5. CASE manifest' = manifest
  BY <1>3, <1>4, <1>5, Rebased, SnapParts DEF PowerLoss
<1>6. CASE manifest' = NoManifest
  <2>1. Snap(manifest)' = <<0, 1, 0>> /\ manifest'.ok = FALSE /\ made' = made
    BY <1>6 DEF Snap, NoManifest, PowerLoss
  <2>2. Publications!Lose
    BY <1>4, <2>1 DEF Publications!Lose
  <2> QED BY <1>3, <2>2 DEF Simulated, Publications!Next
<1> QED BY <1>5, <1>6 DEF PowerLoss

LEMMA NextSimulated ==
    ASSUME IInv, AllEntitled, [Next]_vars
    PROVE  AllEntitled' /\ Simulated
<1>1. CASE UNCHANGED <<manifest, made, proc>>
  BY <1>1 DEF AllEntitled, Entitled, MayMark, Simulated, Publications!vars, Snap
<1>2. ASSUME NEW p \in Procs, Step(p) PROVE AllEntitled' /\ Simulated
  BY <1>2, HolderSimulated, PublishSimulated DEF Step
<1>3. ASSUME NEW b \in Builders, StartBuild(b) \/ BuildStep(b) PROVE AllEntitled' /\ Simulated
  BY <1>2, <1>3, OutsideSimulated, HolderSimulated, BuildSimulated DEF BuildStep, Procs
<1>4. ASSUME NEW q \in Queries, StartQuery(q) \/ QueryStep(q) \/ FindCorrupt(q)
      PROVE  AllEntitled' /\ Simulated
  BY <1>2, <1>4, QuerySimulated, BeginSimulated, OutsideSimulated DEF QueryStep, Procs
<1>5. Tick => UNCHANGED <<manifest, made, proc>>
  BY DEF Tick
<1> QED BY <1>1, <1>3, <1>4, <1>5, OutsideSimulated, PowerLossSimulated DEF Next, vars

\* Every publication is one atomic change of the snapshot it replaces, made by
\* somebody entitled to it (build.rs, whose second phase checks its epoch again
\* under LOCK; fresh.rs `same_index`; snapshot.rs `mark_corrupt`).
THEOREM PublicationsAreAtomic == Spec => Atomic
<1>1. Init => AllEntitled /\ Publications!Init
  <2> SUFFICES ASSUME Init PROVE AllEntitled /\ Publications!Init
    OBVIOUS
  <2>1. Idle.pc = "idle" /\ Idle.mine = NoManifest
    BY DEF Idle
  <2>2. \A p \in Procs : proc[p] = Idle
    BY DEF Init
  <2>3. \A q \in Queries : Snap(proc[q].mine) = <<0, 1, 0>>
    BY <2>1, <2>2, SnapParts DEF Procs
  <2>4. AllEntitled
    BY <2>1, <2>2, SnapParts DEF AllEntitled, Entitled
  <2>5. manifest.ok = FALSE /\ Snap(manifest) = <<0, 1, 0>> /\ made = 0
    BY SnapParts DEF Init, NoManifest
  <2> QED BY <2>3, <2>4, <2>5 DEF Publications!Init
<1>2. (TypeOK /\ PublicationSound) /\ AllEntitled /\ [Next]_vars => AllEntitled' /\ Simulated
  BY NextSimulated DEF IInv
<1> QED BY <1>1, <1>2, TypeCorrect, PublicationIsSound, PTL DEF Spec, Atomic, Publications!Spec, Simulated

-----------------------------------------------------------------------------
(* Readers without LOCK.  GraceSound is the invariant behind NeverRewritten, *)
(* FailsOnlyWhenSuperseded and GracePeriod: the snapshot a query read is     *)
(* never newer than the published one, and while the query is young and few  *)
(* builds were published since, no list of removals reaches its files.       *)

\* Removing entry x takes a file of the snapshot m.
Hits(m, x) == \E f \in Named(m) : Within(f, x)

\* m was published no later than the current snapshot.
Behind(m) ==
    \/ m.epoch = 0
    \/ m.epoch < manifest.epoch
    \/ /\ m.epoch = manifest.epoch /\ m.seq <= manifest.seq
       /\ m.deltas <= manifest.deltas /\ m.skipped <= manifest.skipped

\* The names a writer has still to write.
Writes(p) ==
    proc[p].pc = "write" => \A f \in proc[p].todo :
        \/ proc[p].job = "phase1" /\ f.epoch = proc[p].next.epoch
        \/ /\ proc[p].job = "phase2" /\ manifest.seq = 1
           /\ f \in {File(manifest.epoch, "symbols", 2), File(manifest.epoch, "files", 2)}
        \/ /\ proc[p].job = "delta"
           /\ f \in {File(manifest.epoch, "delta", manifest.deltas + 1),
                     File(manifest.epoch, "skipped", manifest.deltas + 1)}

\* m, read at n, may still be opened once build e is published.
Live(m, n, e) == clock + MaxLag < n + RetireAge /\ e <= m.epoch + RetiredBuilds

\* M retires the directory of m, which keeps it from `clean`'s orphans.
Sheltered(M, m) == m.epoch < M.epoch => \E r \in M.retired : r.name = GenDir(m.epoch)

\* What M retires of m was retired after n, when m was current.
RetiredLate(M, m, n) == \A r \in M.retired : Hits(m, r.name) => n <= r.since + MaxLag

Untouched(p, m) == \A x \in proc[p].due : ~Hits(m, x)

\* The files of m stay while it is live, through the publication at hand too.
Readable(m, n) ==
    /\ RetiredLate(manifest, m, n)
    /\ Live(m, n, manifest.epoch) => Named(m) \subseteq files /\ Sheltered(manifest, m)
    /\ \A p \in Procs :
          /\ proc[p].pc = "publish" =>
                /\ RetiredLate(proc[p].next, m, n)
                /\ Live(m, n, proc[p].next.epoch) => Sheltered(proc[p].next, m) /\ Untouched(p, m)
          /\ proc[p].pc = "clean" /\ Live(m, n, manifest.epoch) => Untouched(p, m)

\* A publication about to be renamed, for a query that reads its predecessor now.
Retires(p) ==
    proc[p].pc = "publish" =>
        /\ proc[p].job # "stamp" => clock <= proc[p].now + MaxLag
        /\ \A r \in proc[p].next.retired :
              Hits(manifest, r.name) => r.since = proc[p].now /\ proc[p].job # "stamp"
        /\ manifest.epoch # 0 /\ proc[p].next.epoch <= manifest.epoch + RetiredBuilds
              => Sheltered(proc[p].next, manifest) /\ Untouched(p, manifest)

Reads(q) ==
    LET m == proc[q].mine
    IN  /\ Behind(m)
        /\ proc[q].pc \in {"open", "retry"} => m.epoch # 0
        /\ proc[q].pc = "open" => proc[q].todo \subseteq Named(m) /\ Readable(m, proc[q].now)
        /\ proc[q].pc = "retry" /\ m.ok /\ proc[q].job # "corrupt" => Snap(manifest) # Snap(m)

GraceSound ==
    /\ \A p \in Procs : proc[p].now <= clock /\ Writes(p) /\ Retires(p)
    /\ \A q \in Queries : Reads(q)

\* What the three properties say of a state.
LEMMA GraceMeans == IInv /\ GraceSound => NeverRewritten /\ FailsOnlyWhenSuperseded /\ GracePeriod
<1> SUFFICES ASSUME IInv, GraceSound
             PROVE  NeverRewritten /\ FailsOnlyWhenSuperseded /\ GracePeriod
  OBVIOUS
<1>0. Queries \subseteq Procs /\ clock \in Nat
  BY DEF Procs, IInv, TypeOK
<1>1. NeverRewritten
  <2>1. ASSUME NEW p \in Procs, proc[p].pc = "write", NEW m \in Manifest, Behind(m),
               NEW f \in proc[p].todo, f \in Named(m)
        PROVE  FALSE
    <3>1. /\ proc[p].next.epoch \in Nat /\ manifest.epoch \in Nat /\ manifest.deltas \in Nat
          /\ manifest.skipped \in Nat /\ manifest.seq \in Nat
          /\ m.epoch \in Nat /\ m.seq \in 1 .. 2 /\ m.deltas \in Nat /\ m.skipped \in Nat
      BY DEF IInv, TypeOK, Process, Manifest
    <3>2. Follows(p) /\ manifest.skipped <= manifest.deltas
      BY <2>1 DEF IInv, PublicationSound, WriterSound, Sound
    <3>3. /\ f.epoch = m.epoch /\ m.epoch # 0 /\ m.epoch <= manifest.epoch
          /\ f.kind = "files" => f.n = m.seq
          /\ f.kind = "skipped" => f.n = m.skipped
          /\ f.kind = "symbols" => m.seq = 2
          /\ f.kind = "delta" => f.n <= m.deltas
      BY <2>1, <3>1 DEF Named, File, Behind
    <3>4. m.epoch = manifest.epoch => /\ m.seq <= manifest.seq /\ m.deltas <= manifest.deltas
                                      /\ m.skipped <= manifest.skipped
      BY <2>1, <3>1, <3>3 DEF Behind
    <3>5. \/ proc[p].job = "phase1" /\ f.epoch = proc[p].next.epoch
          \/ /\ manifest.seq = 1 /\ f.epoch = manifest.epoch
             /\ f.kind = "symbols" \/ (f.kind = "files" /\ f.n = 2)
          \/ /\ f.epoch = manifest.epoch /\ f.n = manifest.deltas + 1
             /\ f.kind \in {"delta", "skipped"}
      BY <2>1 DEF GraceSound, Writes, File
    <3>6. proc[p].job = "phase1" => proc[p].next.epoch > manifest.epoch
      BY <3>2 DEF Follows
    <3> QED BY <3>1, <3>2, <3>3, <3>4, <3>5, <3>6
  <2>2. manifest \in Manifest /\ Behind(manifest)
    BY DEF IInv, TypeOK, Manifest, Behind
  <2>3. \A q \in Queries : proc[q].mine \in Manifest /\ Behind(proc[q].mine)
    BY <1>0 DEF IInv, TypeOK, Process, GraceSound, Reads
  <2> QED BY <2>1, <2>2, <2>3 DEF NeverRewritten
<1>2. FailsOnlyWhenSuperseded
  BY DEF FailsOnlyWhenSuperseded, GraceSound, Reads
<1>3. GracePeriod
  <2> SUFFICES ASSUME NEW q \in Queries, proc[q].pc = "open",
                      clock - proc[q].now + MaxLag < RetireAge,
                      manifest.epoch - proc[q].mine.epoch <= RetiredBuilds
               PROVE  Named(proc[q].mine) \subseteq files
    BY DEF GracePeriod
  <2>1. /\ proc[q].now \in Nat /\ proc[q].mine.epoch \in Nat /\ manifest.epoch \in Nat
        /\ MaxLag \in Nat /\ RetireAge \in Nat /\ RetiredBuilds \in Nat
    BY <1>0, LimitsAssumption DEF IInv, TypeOK, Process, Manifest
  <2>2. Live(proc[q].mine, proc[q].now, manifest.epoch)
    BY <1>0, <2>1 DEF Live
  <2> QED BY <2>2 DEF GraceSound, Reads, Readable
<1> QED BY <1>1, <1>2, <1>3

\* Steps under which removals reach no further: the published snapshot and the
\* clock stay, files are only added, and who moves prepares no removal.
LEMMA MovedGrace ==
    ASSUME IInv, GraceSound, UNCHANGED <<clock, manifest>>, files \subseteq files',
           \A p \in Procs :
              \/ proc'[p] = proc[p]
              \/ /\ proc'[p].pc \notin {"publish", "clean"}
                 /\ proc'[p].now <= clock /\ Writes(p)'
                 /\ p \in Queries => Reads(p)'
    PROVE  GraceSound'
<1>1. ASSUME NEW p \in Procs PROVE (proc[p].now <= clock /\ Writes(p) /\ Retires(p))'
  BY DEF GraceSound, Writes, Retires, Hits, Sheltered, Untouched
<1>2. ASSUME NEW m, NEW n, Readable(m, n) PROVE Readable(m, n)'
  BY <1>2 DEF Readable, RetiredLate, Live, Sheltered, Untouched
<1>3. ASSUME NEW q \in Queries PROVE Reads(q)'
  <2>1. CASE proc'[q] = proc[q]
    <3>1. Reads(q)
      BY DEF GraceSound
    <3> QED BY <1>2, <2>1, <3>1 DEF Reads, Behind
  <2> QED BY <2>1 DEF Procs
<1> QED BY <1>1, <1>3 DEF GraceSound

\* The steps of the process under LOCK that remove files or publish.
LEMMA HolderGrace ==
    ASSUME IInv, GraceSound, NEW p \in Procs, proc[p].pc \in Locked, clock' = clock,
           proc' = [proc EXCEPT ![p] = proc'[p]],
           proc'[p].now <= clock, proc'[p].pc # "write", Retires(p)',
           \A q \in Queries : Reads(q)'
    PROVE  GraceSound'
<1>1. \A q \in Procs \ {p} : proc'[q] = proc[q] /\ proc[q].pc \notin Locked
  BY DEF IInv, TypeOK
<1>2. ASSUME NEW q \in Procs \ {p} PROVE (proc[q].now <= clock /\ Writes(q) /\ Retires(q))'
  <2>1. proc[q].now <= clock
    BY DEF GraceSound
  <2> QED BY <1>1, <2>1 DEF Writes, Retires, Locked
<1>3. Writes(p)'
  BY DEF Writes
<1> QED BY <1>2, <1>3 DEF GraceSound

\* A query that holds LOCK is not opening anything.
LEMMA HolderReads ==
    ASSUME NEW q \in Queries, NEW r, r.pc \in Locked, r = proc'[q], Behind(r.mine)'
    PROVE  Reads(q)'
BY DEF Reads, Locked

LEMMA CleanGrace ==
    ASSUME IInv, GraceSound, NEW p \in Procs, Clean(p)
    PROVE  GraceSound'
<1>1. PICK x \in proc[p].due :
        LET victims == {f \in files : Within(f, x)}
        IN  /\ proc[p].pc = "clean"
            /\ files' = files \ victims
            /\ Become(p, [proc[p] EXCEPT !.due = @ \ {x},
                            !.gone = IF victims = {} THEN @ ELSE @ + 1])
            /\ UNCHANGED <<clock, manifest>>
  BY DEF Clean
<1>2. proc[p] \in Process /\ proc[p].pc \in Locked
  BY <1>1 DEF IInv, TypeOK, Locked
<1>3. /\ proc'[p].pc = "clean" /\ proc'[p].due = proc[p].due \ {x}
      /\ proc'[p].mine = proc[p].mine /\ proc'[p].now = proc[p].now
      /\ \A q \in Procs \ {p} : proc'[q] = proc[q] /\ proc[q].pc \notin Locked
      /\ proc' = [proc EXCEPT ![p] = proc'[p]]
  BY <1>1, <1>2 DEF Become, IInv, TypeOK, Process
<1>4. ASSUME NEW m, NEW n, Readable(m, n) PROVE Readable(m, n)'
  <2>1. RetiredLate(manifest, m, n)'
    BY <1>1, <1>4 DEF Readable, RetiredLate
  <2>0. Live(m, n, manifest.epoch)' => Live(m, n, manifest.epoch)
    BY <1>1 DEF Live
  <2>2. ASSUME Live(m, n, manifest.epoch)' PROVE (Named(m) \subseteq files /\ Sheltered(manifest, m))'
    <3>1. Named(m) \subseteq files /\ Sheltered(manifest, m) /\ ~Hits(m, x)
      BY <1>1, <1>2, <1>4, <2>0, <2>2 DEF Readable, Untouched
    <3> QED BY <1>1, <3>1 DEF Sheltered, Hits
  <2>3. ASSUME NEW o \in Procs
        PROVE  /\ proc'[o].pc # "publish"
               /\ proc'[o].pc = "clean" /\ Live(m, n, manifest.epoch)' => Untouched(o, m)'
    <3>1. CASE o = p
      <4>1. Live(m, n, manifest.epoch) => Untouched(p, m)
        BY <1>1, <1>4 DEF Readable
      <4> QED BY <1>3, <2>0, <3>1, <4>1 DEF Untouched
    <3>2. CASE o # p
      BY <1>3, <3>2 DEF Locked
    <3> QED BY <3>1, <3>2
  <2> QED BY <2>1, <2>2, <2>3 DEF Readable
<1>6. ASSUME NEW q \in Queries PROVE Reads(q)'
  <2>0. q \in Procs /\ Reads(q)
    BY DEF GraceSound, Procs
  <2>1. CASE q = p
    BY <1>1, <1>3, <2>0, <2>1 DEF Reads, Behind
  <2>2. CASE q # p
    <3>1. proc'[q] = proc[q]
      BY <1>3, <2>0, <2>2
    <3> QED BY <1>1, <1>4, <2>0, <3>1 DEF Reads, Behind
  <2> QED BY <2>1, <2>2
<1>5. proc'[p].now <= clock /\ Retires(p)'
  BY <1>3 DEF GraceSound, Retires
<1> QED BY <1>1, <1>2, <1>3, <1>5, <1>6, HolderGrace

LEMMA CleanOrphanGrace ==
    ASSUME IInv, GraceSound, NEW b \in Builders, CleanOrphan(b)
    PROVE  GraceSound'
<1>1. PICK e \in {f.epoch : f \in files} \ ({manifest.epoch} \cup Builds(manifest.retired)) :
        /\ proc[b].pc = "clean"
        /\ files' = {f \in files : f.epoch # e}
        /\ Become(b, [proc[b] EXCEPT !.gone = @ + 1])
        /\ UNCHANGED <<clock, manifest>>
  BY DEF CleanOrphan
<1>2. b \in Procs /\ b \notin Queries /\ proc[b] \in Process /\ proc[b].pc \in Locked
  BY <1>1, ProcessesAssumption DEF IInv, TypeOK, Locked, Procs
<1>3. /\ proc'[b].pc = "clean" /\ proc'[b].due = proc[b].due /\ proc'[b].now = proc[b].now
      /\ \A q \in Procs \ {b} : proc'[q] = proc[q] /\ proc[q].pc \notin Locked
      /\ proc' = [proc EXCEPT ![b] = proc'[b]]
  BY <1>1, <1>2 DEF Become, IInv, TypeOK, Process
<1>4. ASSUME NEW m \in Manifest, NEW n, Readable(m, n), Behind(m), m.epoch # 0
      PROVE  Readable(m, n)'
  <2>1. RetiredLate(manifest, m, n)'
    BY <1>1, <1>4 DEF Readable, RetiredLate
  <2>0. Live(m, n, manifest.epoch)' => Live(m, n, manifest.epoch)
    BY <1>1 DEF Live
  <2>2. ASSUME Live(m, n, manifest.epoch)' PROVE (Named(m) \subseteq files /\ Sheltered(manifest, m))'
    <3>1. Named(m) \subseteq files /\ Sheltered(manifest, m)
      BY <1>4, <2>0, <2>2 DEF Readable
    <3>2. m.epoch \in {manifest.epoch} \cup Builds(manifest.retired)
      <4>1. CASE m.epoch < manifest.epoch
        <5>1. PICK r \in manifest.retired : r.name = GenDir(m.epoch)
          BY <3>1, <4>1 DEF Sheltered
        <5>2. r.name.epoch = m.epoch /\ r.name.kind = "dir"
          BY <5>1 DEF GenDir, File
        <5> QED BY <5>2 DEF Builds
      <4> QED BY <1>4, <4>1 DEF Behind
    <3>3. \A f \in Named(m) : f.epoch = m.epoch
      BY DEF Named, File
    <3>4. m.epoch # e
      BY <3>2
    <3> QED BY <1>1, <3>1, <3>3, <3>4 DEF Sheltered
  <2>3. ASSUME NEW o \in Procs
        PROVE  /\ proc'[o].pc # "publish"
               /\ proc'[o].pc = "clean" /\ Live(m, n, manifest.epoch)' => Untouched(o, m)'
    <3>1. CASE o = b
      <4>1. Live(m, n, manifest.epoch) => Untouched(b, m)
        BY <1>1, <1>2, <1>4 DEF Readable
      <4> QED BY <1>3, <2>0, <3>1, <4>1 DEF Untouched
    <3>2. CASE o # b
      BY <1>3, <3>2 DEF Locked
    <3> QED BY <3>1, <3>2
  <2> QED BY <2>1, <2>2, <2>3 DEF Readable
<1>6. ASSUME NEW q \in Queries PROVE Reads(q)'
  <2>0. q \in Procs /\ Reads(q) /\ proc'[q] = proc[q] /\ proc[q].mine \in Manifest
    BY <1>2, <1>3 DEF GraceSound, Procs, IInv, TypeOK, Process
  <2> QED BY <1>1, <1>4, <2>0 DEF Reads, Behind
<1>5. proc'[b].now <= clock /\ Retires(b)'
  BY <1>2, <1>3 DEF GraceSound, Retires
<1> QED BY <1>1, <1>2, <1>3, <1>5, <1>6, HolderGrace

\* A publication only moves the snapshot forward.
LEMMA PublishForward ==
    ASSUME IInv, NEW p \in Procs, Publish(p), NEW m \in Manifest, Behind(m)
    PROVE  /\ Behind(m)'
           /\ manifest.epoch <= proc[p].next.epoch
           /\ m.epoch # 0 /\ Snap(manifest) # Snap(m) => Snap(manifest)' # Snap(m)
<1> DEFINE k == proc[p].next
<1>0. Follows(p) /\ manifest' = k /\ k \in Manifest /\ manifest \in Manifest
      /\ manifest.skipped <= manifest.deltas
  BY DEF IInv, TypeOK, Process, PublicationSound, WriterSound, Publish, Sound
<1>1. /\ k.epoch \in Nat /\ k.seq \in 1 .. 2 /\ k.deltas \in Nat /\ k.skipped \in Nat
      /\ manifest.epoch \in Nat /\ manifest.seq \in 1 .. 2 /\ manifest.deltas \in Nat
      /\ manifest.skipped \in Nat
      /\ m.epoch \in Nat /\ m.seq \in 1 .. 2 /\ m.deltas \in Nat /\ m.skipped \in Nat
  BY <1>0 DEF Manifest
<1>2. \A a, b : Snap(a) = Snap(b) <=> a.epoch = b.epoch /\ a.seq = b.seq /\ a.deltas = b.deltas
  BY DEF Snap
<1>3. \/ k.epoch > manifest.epoch
      \/ /\ k.epoch = manifest.epoch /\ k.seq >= manifest.seq
         /\ k.deltas >= manifest.deltas /\ k.skipped >= manifest.skipped
  BY <1>0, <1>1, <1>2 DEF Follows
<1> HIDE DEF k
<1>4. Behind(m)'
  BY <1>0, <1>1, <1>3 DEF Behind
<1>5. m.epoch # 0 /\ Snap(manifest) # Snap(m) => Snap(k) # Snap(m)
  BY <1>1, <1>2, <1>3 DEF Behind
<1>6. manifest.epoch <= k.epoch
  BY <1>1, <1>3
<1> QED BY <1>0, <1>4, <1>5, <1>6 DEF k, Snap

LEMMA PublishGrace ==
    ASSUME IInv, GraceSound, NEW p \in Procs, Publish(p)
    PROVE  GraceSound'
<1>1. /\ proc[p] \in Process /\ proc[p].pc = "publish" /\ manifest' = proc[p].next
      /\ Become(p, [proc[p] EXCEPT !.pc = "clean",
                       !.mine = IF p \in Builders THEN proc[p].next ELSE @])
      /\ UNCHANGED <<clock, files>>
      /\ manifest \in Manifest /\ proc[p].next \in Manifest /\ clock \in Nat
  BY DEF Publish, IInv, TypeOK, Process
<1>2. /\ proc'[p].pc = "clean" /\ proc'[p].due = proc[p].due /\ proc'[p].now = proc[p].now
      /\ p \in Queries => proc'[p].mine = proc[p].mine
      /\ \A q \in Procs \ {p} : proc'[q] = proc[q] /\ proc[q].pc \notin Locked
      /\ proc' = [proc EXCEPT ![p] = proc'[p]]
  BY <1>1, ProcessesAssumption DEF Become, IInv, TypeOK, Process, Locked
<1>3. \A q \in Queries : q \in Procs /\ Reads(q) /\ proc[q].mine \in Manifest
  BY DEF GraceSound, Procs, IInv, TypeOK, Process
<1>4. ASSUME NEW m \in Manifest, NEW n, Readable(m, n), Behind(m)
      PROVE  Readable(m, n)'
  <2>1. /\ RetiredLate(proc[p].next, m, n)
        /\ Live(m, n, proc[p].next.epoch) => Sheltered(proc[p].next, m) /\ Untouched(p, m)
    BY <1>1, <1>4 DEF Readable
  <2>2. RetiredLate(manifest, m, n)'
    BY <1>1, <2>1 DEF RetiredLate
  <2>3. Live(m, n, manifest.epoch)' => Live(m, n, proc[p].next.epoch) /\ Live(m, n, manifest.epoch)
    <3>1. manifest.epoch <= proc[p].next.epoch
      BY <1>4, PublishForward
    <3>2. /\ manifest.epoch \in Nat /\ proc[p].next.epoch \in Nat /\ m.epoch \in Nat
          /\ RetiredBuilds \in Nat
      BY <1>1, LimitsAssumption DEF Manifest
    <3> QED BY <1>1, <3>1, <3>2 DEF Live
  <2>4. Live(m, n, manifest.epoch)' => (Named(m) \subseteq files /\ Sheltered(manifest, m))'
    BY <1>1, <1>4, <2>1, <2>3 DEF Readable, Sheltered
  <2>5. ASSUME NEW o \in Procs
        PROVE  /\ proc'[o].pc # "publish"
               /\ proc'[o].pc = "clean" /\ Live(m, n, manifest.epoch)' => Untouched(o, m)'
    <3>1. CASE o = p
      BY <1>2, <2>1, <2>3, <3>1 DEF Untouched
    <3>2. CASE o # p
      BY <1>2, <3>2 DEF Locked
    <3> QED BY <3>1, <3>2
  <2> QED BY <2>2, <2>4, <2>5 DEF Readable
<1>5. ASSUME NEW q \in Queries PROVE Reads(q)'
  <2>0. /\ Behind(proc[q].mine)'
        /\ proc[q].mine.epoch # 0 /\ Snap(manifest) # Snap(proc[q].mine)
              => Snap(manifest)' # Snap(proc[q].mine)
    <3>1. ASSUME NEW m \in Manifest, Behind(m)
          PROVE  /\ Behind(m)'
                 /\ m.epoch # 0 /\ Snap(manifest) # Snap(m) => Snap(manifest)' # Snap(m)
      BY <3>1, PublishForward
    <3>2. proc'[q].mine = proc[q].mine
      BY <1>2, <1>3
    <3> QED BY <1>3, <3>1, <3>2 DEF Reads, Behind
  <2>1. CASE q = p
    BY <1>2, <1>3, <2>0, <2>1 DEF Reads
  <2>2. CASE q # p
    <3>1. proc'[q] = proc[q]
      BY <1>2, <1>3, <2>2
    <3>2. proc[q].pc = "open" => Readable(proc[q].mine, proc[q].now)'
      <4>1. proc[q].pc = "open" => Readable(proc[q].mine, proc[q].now) /\ Behind(proc[q].mine)
        BY <1>3 DEF Reads
      <4> QED BY <1>3, <1>4, <3>1, <4>1
    <3> QED BY <1>3, <2>0, <3>1, <3>2 DEF Reads, Snap
  <2> QED BY <2>1, <2>2
<1>6. proc'[p].now <= clock /\ Retires(p)'
  BY <1>2 DEF GraceSound, Retires
<1> QED BY <1>1, <1>2, <1>5, <1>6, HolderGrace DEF Locked

\* Time, and every process at once.
LEMMA TickGrace ==
    ASSUME IInv, GraceSound, Tick
    PROVE  GraceSound'
<1>1. /\ clock' = clock + 1 /\ UNCHANGED <<lock, manifest, files, torn, made, faults, proc>>
      /\ \A p \in Procs : proc[p].pc = "publish" /\ proc[p].job # "stamp"
                              => clock - proc[p].now < MaxLag
  BY DEF Tick
<1>2. clock \in Nat /\ MaxLag \in Nat /\ \A p \in Procs : proc[p].now \in Nat
  BY LimitsAssumption DEF IInv, TypeOK, Process
<1>3. ASSUME NEW p \in Procs PROVE (proc[p].now <= clock /\ Writes(p) /\ Retires(p))'
  <2>1. proc[p].now <= clock /\ Writes(p) /\ Retires(p)
    BY DEF GraceSound
  <2>2. proc[p].now <= clock' /\ Writes(p)'
    BY <1>1, <1>2, <2>1 DEF Writes
  <2>3. proc[p].pc = "publish" /\ proc[p].job # "stamp" => clock' <= proc[p].now + MaxLag
    BY <1>1, <1>2
  <2>4. Retires(p)'
    BY <1>1, <2>1, <2>3 DEF Retires, Sheltered, Untouched, Hits
  <2> QED BY <1>1, <2>2, <2>4
<1>4. ASSUME NEW m, NEW n \in Nat, NEW e, Live(m, n, e)' PROVE Live(m, n, e)
  <2>1. RetireAge \in Nat
    BY LimitsAssumption
  <2> QED BY <1>1, <1>2, <1>4, <2>1 DEF Live
<1>5. ASSUME NEW m, NEW n \in Nat, Readable(m, n) PROVE Readable(m, n)'
  <2>1. RetiredLate(manifest, m, n)'
    BY <1>1, <1>5 DEF Readable, RetiredLate
  <2>2. \A e : Live(m, n, e)' => Live(m, n, e)
    BY <1>4
  <2>3. Live(m, n, manifest.epoch)' => (Named(m) \subseteq files /\ Sheltered(manifest, m))'
    BY <1>1, <1>5, <2>2 DEF Readable, Sheltered
  <2>4. ASSUME NEW p \in Procs
        PROVE  /\ proc'[p].pc = "publish" =>
                     /\ RetiredLate(proc[p].next, m, n)'
                     /\ Live(m, n, proc[p].next.epoch)'
                            => (Sheltered(proc[p].next, m) /\ Untouched(p, m))'
               /\ proc'[p].pc = "clean" /\ Live(m, n, manifest.epoch)' => Untouched(p, m)'
    BY <1>1, <1>5, <2>2 DEF Readable, Sheltered, Untouched, RetiredLate
  <2> QED BY <2>1, <2>3, <2>4 DEF Readable
<1>6. ASSUME NEW q \in Queries PROVE Reads(q)'
  <2>1. Reads(q) /\ q \in Procs
    BY DEF GraceSound, Procs
  <2>2. proc[q].pc = "open" => Readable(proc[q].mine, proc[q].now)'
    BY <1>1, <1>2, <1>5, <2>1 DEF Reads
  <2> QED BY <1>1, <2>1, <2>2 DEF Reads, Behind
<1> QED BY <1>3, <1>6 DEF GraceSound

LEMMA PowerLossGrace ==
    ASSUME IInv, GraceSound, PowerLoss
    PROVE  GraceSound'
<1>1. Idle.pc = "idle" /\ Idle.now = 0 /\ Idle.mine.epoch = 0
  BY DEF Idle, NoManifest
<1>2. \A p \in Procs : proc'[p] = Idle
  BY DEF PowerLoss
<1>3. clock' \in Nat
  BY DEF PowerLoss, IInv, TypeOK
<1>4. \A p \in Procs : (proc[p].now <= clock /\ Writes(p) /\ Retires(p))'
  BY <1>1, <1>2, <1>3 DEF Writes, Retires
<1>5. \A q \in Queries : Reads(q)'
  BY <1>1, <1>2 DEF Reads, Behind, Procs
<1> QED BY <1>4, <1>5 DEF GraceSound

\* A process about to retire removes no file of a snapshot m that is at most
\* RETIRED_BUILDS builds old and of which nothing is due: neither by age, nor
\* by number, nor as an orphan.
LEMMA RetireShelters ==
    ASSUME IInv, NEW p \in Procs, proc[p].pc = "write", NEW t \in Nat,
           NEW m \in Manifest, m.epoch # 0, Behind(m), Sheltered(manifest, m),
           proc[p].next.epoch <= m.epoch + RetiredBuilds,
           \A r \in Due(manifest.retired, t) : ~Hits(m, r.name)
    PROVE  LET new == Superseded(p)
           IN  /\ \A x \in ToRemove(manifest.retired, new, t) : ~Hits(m, x)
               /\ m.epoch < proc[p].next.epoch =>
                     \E r \in StillRetired(manifest.retired, new, t) : r.name = GenDir(m.epoch)
<1> DEFINE new == Superseded(p)
           keep == Kept(manifest.retired, new, t)
           k == proc[p].next.epoch
<1>1. /\ manifest \in Manifest /\ proc[p].next \in Manifest /\ new \in SUBSET Name
      /\ Follows(p) /\ Sound(manifest) /\ proc[p].next.skipped <= proc[p].next.deltas
  BY SupersededType DEF IInv, TypeOK, Process, PublicationSound, WriterSound
<1>2. /\ m.epoch \in Nat /\ manifest.epoch \in Nat /\ k \in Nat /\ RetiredBuilds \in Nat
      /\ m.epoch <= manifest.epoch
  BY <1>1, LimitsAssumption DEF Manifest, Behind
<1>3. /\ \A r \in keep : r.name \in Name /\ Superfluous(proc[p].next, r.name)
      /\ manifest.retired \in SUBSET [name : Name, since : Nat]
  <2>1. manifest.retired \in SUBSET [name : Name, since : Nat]
    BY <1>1 DEF Manifest
  <2>2. \A r \in manifest.retired : Superfluous(manifest, r.name) /\ r.name \in Name
    BY <1>1, <2>1 DEF Sound
  <2>3. \A r \in manifest.retired : Superfluous(proc[p].next, r.name)
    BY <1>1, <2>2, SuperfluousGrows DEF IInv
  <2>4. \A x \in new : Superfluous(proc[p].next, x)
    BY <1>1, SupersededSuperfluous DEF IInv
  <2> QED BY <1>1, <2>1, <2>2, <2>3, <2>4 DEF Kept
\* Builds is a set of epochs below the next one.
<1>4. Builds(keep) \subseteq {e \in Nat : e < k}
  <2>1. ASSUME NEW r \in keep, r.name.kind = "dir" PROVE r.name.epoch \in Nat /\ r.name.epoch < k
    <3>1. r.name \in Name /\ Superfluous(proc[p].next, r.name)
      BY <1>3
    <3>2. r.name.epoch < k
      BY <2>1, <3>1 DEF Superfluous, File
    <3> QED BY <3>1, <3>2 DEF Name
  <2> HIDE DEF keep, k
  <2> QED BY <2>1 DEF Builds
<1> HIDE DEF k
<1>5. m.epoch \notin Excess(keep)
  <2> SUFFICES ASSUME m.epoch \in Excess(keep) PROVE FALSE
    OBVIOUS
  <2> DEFINE later == {f \in Builds(keep) : f > m.epoch}
             up == m.epoch + 1 .. k - 1
  <2>1. Cardinality(later) >= RetiredBuilds /\ m.epoch \in Builds(keep)
    BY DEF Excess
  <2>2. m.epoch < k
    BY <1>4, <2>1
  <2>3. later \subseteq up
    BY <1>2, <1>4
  <2>4. IsFiniteSet(up) /\ Cardinality(up) = k - 1 - m.epoch
    <3>1. m.epoch + 1 \in Int /\ k - 1 \in Int
      BY <1>2
    <3>2. /\ IsFiniteSet(up)
          /\ Cardinality(up) = IF m.epoch + 1 > k - 1 THEN 0 ELSE (k - 1) - (m.epoch + 1) + 1
      BY <3>1, FS_Interval
    <3> QED BY <1>2, <2>2, <3>2
  <2>5. IsFiniteSet(later) /\ Cardinality(later) <= Cardinality(up)
    BY <2>3, <2>4, FS_Subset
  <2>6. Cardinality(later) \in Nat
    BY <2>5, FS_CardinalityType
  <2>7. k <= m.epoch + RetiredBuilds
    BY DEF k
  <2> HIDE DEF later, up
  <2> QED BY <1>2, <2>1, <2>2, <2>4, <2>5, <2>6, <2>7
<1>6. ASSUME NEW x \in ToRemove(manifest.retired, new, t) PROVE ~Hits(m, x)
  <2>1. CASE \E r \in Due(manifest.retired, t) : x = r.name
    BY <2>1
  <2>2. CASE \E r \in keep : x = r.name /\ x.epoch \in Excess(keep)
    <3>1. ASSUME NEW f \in Named(m), Within(f, x) PROVE x.epoch = m.epoch
      BY <3>1 DEF Within, GenDir, Named, File
    <3> QED BY <1>5, <2>2, <3>1 DEF Hits
  <2> QED BY <2>1, <2>2 DEF ToRemove
<1>7. ASSUME m.epoch < k
      PROVE  \E r \in StillRetired(manifest.retired, new, t) : r.name = GenDir(m.epoch)
  <2>1. \E r \in keep : r.name = GenDir(m.epoch)
    <3>1. CASE m.epoch < manifest.epoch
      <4>1. PICK r \in manifest.retired : r.name = GenDir(m.epoch)
        BY <3>1 DEF Sheltered
      <4>2. Hits(m, r.name)
        <5>1. /\ File(m.epoch, "postings", 1) \in Named(m)
              /\ File(m.epoch, "postings", 1).epoch = m.epoch
          BY DEF Named, File
        <5> QED BY <4>1, <5>1 DEF Hits, Within
      <4> QED BY <4>1, <4>2 DEF Kept
    <3>2. CASE m.epoch = manifest.epoch
      <4>1. proc[p].job = "phase1"
        BY <1>1, <1>2, <1>7, <3>2 DEF Follows, k, Snap
      <4>2. new = {GenDir(manifest.epoch)}
        BY <3>2, <4>1 DEF Superseded
      <4> HIDE DEF new
      <4>3. [name |-> GenDir(manifest.epoch), since |-> t] \in keep
        BY <4>2 DEF Kept
      <4> QED BY <3>2, <4>3
    <3> QED BY <1>2, <3>1, <3>2
  <2>2. PICK r \in keep : r.name = GenDir(m.epoch)
    BY <2>1
  <2>3. r.name.epoch = m.epoch
    BY <2>2 DEF GenDir, File
  <2> QED BY <1>5, <2>2, <2>3 DEF StillRetired
<1> QED BY <1>6, <1>7 DEF k

\* What a publication leaves retired was retired before, or is superseded now.
LEMMA RetiredNow ==
    ASSUME NEW retired, NEW new, NEW t, NEW r \in StillRetired(retired, new, t)
    PROVE  r \in retired \/ (r.since = t /\ r.name \in new)
BY DEF StillRetired, Kept

\* The lists of removals and of retired entries that p prepares spare every
\* live snapshot a query is opening, and the current one.
LEMMA PrepareGrace ==
    ASSUME IInv, GraceSound, NEW p \in Procs, Prepare(p)
    PROVE  GraceSound'
<1> DEFINE t == RetireTime(p)
           mark == proc[p].job = "mark"
           old == IF mark THEN manifest.retired
                  ELSE StillRetired(manifest.retired, Superseded(p), t)
           due == IF mark THEN {}
                  ELSE ToRemove(manifest.retired, Superseded(p), t)
           k == proc[p].next
<1>0. PICK k2 : k2 = proc'[p].next
  OBVIOUS
<1>1. /\ proc[p].pc = "write"
      /\ Become(p, [proc[p] EXCEPT !.pc = "publish", !.now = t,
                                   !.next.retired = old, !.due = due])
      /\ UNCHANGED <<clock, lock, manifest, files, torn, made, faults>>
  BY DEF Prepare
<1>2. /\ proc[p] \in Process /\ manifest \in Manifest /\ k \in Manifest /\ clock \in Nat
      /\ Follows(p) /\ Sound(manifest) /\ t \in Nat /\ t <= clock
      /\ ~(proc[p].job = "stamp") => t = clock
      /\ MaxLag \in Nat /\ RetireAge \in Nat /\ RetiredBuilds \in Nat
  BY <1>1, LimitsAssumption
     DEF IInv, TypeOK, Process, PublicationSound, WriterSound, RetireTime, GraceSound
<1>3. /\ proc'[p].pc = "publish" /\ proc'[p].now = t /\ proc'[p].due = due
      /\ proc'[p].job = proc[p].job /\ proc'[p].mine = proc[p].mine
      /\ k2.epoch = k.epoch /\ k2.retired = old
      /\ \A q \in Procs \ {p} : proc'[q] = proc[q] /\ proc[q].pc \notin Locked
      /\ proc' = [proc EXCEPT ![p] = proc'[p]]
  <2> HIDE DEF t, old, due
  <2> QED BY <1>0, <1>1, <1>2 DEF Become, IInv, TypeOK, Process, Manifest, Locked
<1>4. /\ manifest.epoch \in Nat /\ k.epoch \in Nat /\ manifest.epoch <= k.epoch
      /\ mark => k.epoch = manifest.epoch
      /\ \A r \in manifest.retired : r.since \in Nat /\ ~Hits(manifest, r.name)
  <2>1. manifest.epoch \in Nat /\ k.epoch \in Nat
    BY <1>2 DEF Manifest
  <2>2. manifest.epoch <= k.epoch /\ (mark => k.epoch = manifest.epoch)
    BY <1>2, <2>1 DEF Follows, Snap
  <2>3. ASSUME NEW r \in manifest.retired PROVE r.since \in Nat /\ ~Hits(manifest, r.name)
    <3>1. r.name \in Name /\ r.since \in Nat /\ Superfluous(manifest, r.name)
      BY <1>2 DEF Manifest, Sound
    <3> QED BY <1>2, <3>1, SuperfluousUnnamed DEF Hits
  <2> QED BY <2>1, <2>2, <2>3
\* Both kinds of reader, at once: those of m, of which nothing is due.
<1>5. ASSUME NEW m \in Manifest, m.epoch # 0, Behind(m), Sheltered(manifest, m),
             k.epoch <= m.epoch + RetiredBuilds,
             \A r \in Due(manifest.retired, t) : ~Hits(m, r.name)
      PROVE  Sheltered(k2, m) /\ Untouched(p, m)'
  <2>1. CASE mark
    BY <1>3, <1>4, <1>5, <2>1 DEF Sheltered, Untouched
  <2>2. CASE ~mark
    <3>1. /\ \A x \in due : ~Hits(m, x)
          /\ m.epoch < k.epoch => \E r \in old : r.name = GenDir(m.epoch)
      BY <1>1, <1>2, <1>5, <2>2, RetireShelters
    <3> QED BY <1>3, <3>1 DEF Sheltered, Untouched
  <2> QED BY <2>1, <2>2
<1>6. \A r \in old : \/ r \in manifest.retired
                     \/ r.since = t /\ ~(proc[p].job = "stamp")
  <2>1. proc[p].job = "stamp" => Superseded(p) = {}
    BY DEF Superseded
  <2> QED BY <2>1, RetiredNow
<1> HIDE DEF old, due, t
<1>7. ASSUME NEW m \in Manifest, m.epoch # 0, Behind(m), NEW n \in Nat, n <= clock, Readable(m, n)
      PROVE  Readable(m, n)'
  <2>1. RetiredLate(manifest, m, n)
    BY <1>7 DEF Readable
  <2>2. RetiredLate(k2, m, n)
    <3>1. ASSUME NEW r \in old, Hits(m, r.name) PROVE n <= r.since + MaxLag
      BY <1>2, <1>6, <1>7, <2>1, <3>1 DEF RetiredLate
    <3> QED BY <1>3, <3>1 DEF RetiredLate
  <2>3. ASSUME Live(m, n, k.epoch) PROVE Sheltered(k2, m) /\ Untouched(p, m)'
    <3>1. m.epoch \in Nat
      BY <1>7 DEF Manifest
    <3>2. clock + MaxLag < n + RetireAge /\ k.epoch <= m.epoch + RetiredBuilds
      BY <2>3 DEF Live
    <3>3. Sheltered(manifest, m)
      BY <1>2, <1>4, <1>7, <3>1, <3>2 DEF Readable, Live
    <3>4. ASSUME NEW r \in Due(manifest.retired, t), Hits(m, r.name) PROVE FALSE
      <4>1. r \in manifest.retired /\ t - r.since >= RetireAge
        BY DEF Due
      <4>2. r.since \in Nat /\ n <= r.since + MaxLag
        BY <1>4, <2>1, <3>4, <4>1 DEF RetiredLate
      <4> QED BY <1>2, <1>7, <3>2, <4>1, <4>2
    <3> QED BY <1>5, <1>7, <3>2, <3>3, <3>4
  <2>4. RetiredLate(manifest, m, n)' /\ RetiredLate(k2, m, n)
    BY <1>1, <2>1, <2>2 DEF RetiredLate
  <2>5. Live(m, n, manifest.epoch)' => (Named(m) \subseteq files /\ Sheltered(manifest, m))'
    BY <1>1, <1>7 DEF Readable, Live, Sheltered
  <2>6. Live(m, n, k2.epoch)' => Sheltered(k2, m) /\ Untouched(p, m)'
    BY <1>1, <1>3, <2>3 DEF Live
  <2>7. ASSUME NEW o \in Procs
        PROVE  /\ proc'[o].pc = "publish" =>
                     /\ RetiredLate(proc[o].next, m, n)'
                     /\ Live(m, n, proc[o].next.epoch)'
                            => (Sheltered(proc[o].next, m) /\ Untouched(o, m))'
               /\ proc'[o].pc # "clean"
    <3>1. CASE o = p
      <4>1. /\ RetiredLate(proc[p].next, m, n)'
            /\ Live(m, n, proc[p].next.epoch)' => (Sheltered(proc[p].next, m) /\ Untouched(p, m))'
            /\ proc'[p].pc # "clean"
        BY <1>0, <1>3, <2>4, <2>6 DEF RetiredLate, Sheltered, Live
      <4> QED BY <3>1, <4>1
    <3>2. CASE o # p
      BY <1>3, <3>2 DEF Locked
    <3> QED BY <3>1, <3>2
  <2> QED BY <2>4, <2>5, <2>7 DEF Readable
<1>8. ASSUME NEW q \in Queries PROVE Reads(q)'
  <2>1. /\ q \in Procs /\ Reads(q) /\ proc[q].now <= clock
        /\ proc[q].mine \in Manifest /\ proc[q].now \in Nat
    BY DEF GraceSound, Procs, IInv, TypeOK, Process
  <2>2. CASE q = p
    BY <1>1, <1>3, <2>1, <2>2 DEF Reads, Behind
  <2>3. CASE q # p
    <3>1. proc'[q] = proc[q]
      BY <1>3, <2>1, <2>3
    <3>2. proc[q].pc = "open" => Readable(proc[q].mine, proc[q].now)'
      <4>1. proc[q].pc = "open" => /\ Readable(proc[q].mine, proc[q].now)
                                  /\ Behind(proc[q].mine) /\ proc[q].mine.epoch # 0
        BY <2>1 DEF Reads
      <4>2. \A m \in Manifest : \A n \in Nat :
               m.epoch # 0 /\ Behind(m) /\ n <= clock /\ Readable(m, n) => Readable(m, n)'
        BY <1>7
      <4> QED BY <2>1, <3>1, <4>1, <4>2
    <3> QED BY <1>1, <2>1, <3>1, <3>2 DEF Reads, Behind
  <2> QED BY <2>2, <2>3
<1>9. Retires(p)'
  <2>1. ~(proc[p].job = "stamp") => clock <= t + MaxLag
    BY <1>2
  <2>2. \A r \in old : Hits(manifest, r.name) => r.since = t /\ ~(proc[p].job = "stamp")
    BY <1>4, <1>6
  <2>3. ASSUME manifest.epoch # 0, k.epoch <= manifest.epoch + RetiredBuilds
        PROVE  Sheltered(k2, manifest) /\ Untouched(p, manifest)'
    <3>1. Behind(manifest) /\ Sheltered(manifest, manifest)
      BY <1>2 DEF Behind, Sheltered, Manifest
    <3>2. \A r \in Due(manifest.retired, t) : ~Hits(manifest, r.name)
      BY <1>4 DEF Due
    <3>3. ASSUME NEW m, m = manifest PROVE Sheltered(k2, m) /\ Untouched(p, m)'
      BY <1>2, <1>5, <2>3, <3>1, <3>2, <3>3
    <3> QED BY <1>1, <3>3 DEF Untouched
  <2> QED BY <1>0, <1>1, <1>3, <2>1, <2>2, <2>3 DEF Retires, Sheltered, Untouched
<1>10. proc[p].pc \in Locked /\ proc'[p].now <= clock
  BY <1>1, <1>2, <1>3 DEF Locked
<1> QED BY <1>1, <1>3, <1>8, <1>9, <1>10, HolderGrace

\* One process moves, and prepares no removal.
LEMMA OneGrace ==
    ASSUME IInv, GraceSound, NEW p \in Procs, NEW r, Become(p, r),
           UNCHANGED <<clock, manifest>>, files \subseteq files',
           r.pc \notin {"publish", "clean"}, r.now <= clock,
           Writes(p)', p \in Queries => Reads(p)'
    PROVE  GraceSound'
<1>1. \A q \in Procs : proc'[q] = IF q = p THEN r ELSE proc[q]
  BY DEF Become, IInv, TypeOK
<1> QED BY <1>1, MovedGrace

\* It neither writes nor reads.
LEMMA QuietGrace ==
    ASSUME IInv, GraceSound, NEW p \in Procs, NEW r, Become(p, r),
           UNCHANGED <<clock, manifest, files>>,
           r.pc \notin Locked \cup {"open", "retry"}, r.now <= clock,
           p \in Queries => r.mine \in {NoManifest, proc[p].mine}
    PROVE  GraceSound'
<1>1. proc'[p] = r
  BY DEF Become, IInv, TypeOK
<1>2. Writes(p)'
  BY <1>1 DEF Writes, Locked
<1>3. p \in Queries => Reads(p)'
  BY <1>1 DEF Reads, Behind, GraceSound, NoManifest
<1> QED BY <1>1, <1>2, <1>3, OneGrace DEF Locked

LEMMA IdleParts ==
    /\ Idle.pc = "idle" /\ Idle.now = 0 /\ Idle.mine = NoManifest
    /\ \A pc : LET r == [Idle EXCEPT !.pc = pc]
               IN  r.pc = pc /\ r.now = 0 /\ r.mine = NoManifest
BY DEF Idle

LEMMA FailedGrace ==
    ASSUME IInv, GraceSound, NEW q \in Queries, Become(q, Failed(q)),
           UNCHANGED <<clock, manifest, files>>
    PROVE  GraceSound'
<1>1. /\ Failed(q).pc \notin Locked \cup {"open", "retry"}
      /\ Failed(q).now = 0 /\ Failed(q).mine = NoManifest
  BY IdleParts DEF Failed, Locked
<1>2. q \in Procs /\ 0 <= clock
  BY DEF Procs, IInv, TypeOK
<1> QED BY <1>1, <1>2, QuietGrace

\* The steps of a query outside LOCK that open nothing.
LEMMA QueryQuietGrace ==
    ASSUME IInv, GraceSound, NEW q \in Queries,
           \/ StartQuery(q) \/ Retry(q) \/ Opened(q) \/ Answer(q) \/ Check(q)
           \/ ApplyNothing(q) \/ FindCorrupt(q) \/ MarkNothing(q)
    PROVE  GraceSound'
<1>0. UNCHANGED <<clock, manifest, files>>
  BY DEF StartQuery, Retry, Opened, Answer, Check, ApplyNothing, FindCorrupt, MarkNothing
<1>1. /\ q \in Procs /\ proc[q] \in Process /\ UNCHANGED <<clock, manifest, files>>
      /\ 0 <= clock /\ clock <= clock /\ proc[q].now <= clock
  BY <1>0 DEF Procs, IInv, TypeOK, GraceSound
<1> DEFINE Quiet(r) == /\ Become(q, r) /\ r.pc \notin Locked \cup {"open", "retry"}
                       /\ r.now <= clock /\ r.mine \in {NoManifest, proc[q].mine}
<1>2. ASSUME NEW r, Quiet(r) PROVE GraceSound'
  BY <1>1, <1>2, QuietGrace
<1>3. CASE StartQuery(q)
  <2>1. Quiet([Idle EXCEPT !.pc = "read"])
    BY <1>1, <1>3, IdleParts DEF StartQuery, Locked
  <2> QED BY <1>2, <2>1
<1>4. CASE Answer(q)
  <2>1. Quiet(Idle)
    BY <1>1, <1>4, IdleParts DEF Answer, Locked
  <2> QED BY <1>2, <2>1
<1>5. CASE Retry(q)
  <2> DEFINE r == [proc[q] EXCEPT !.pc = "read", !.tries = @ + 1]
  <2>1. r.pc = "read" /\ r.mine = proc[q].mine /\ r.now = proc[q].now
    BY <1>1 DEF Process
  <2>2. Become(q, r) \/ Become(q, Failed(q))
    BY <1>5 DEF Retry
  <2> HIDE DEF r
  <2>3. CASE Become(q, r)
    BY <1>1, <1>2, <2>1, <2>3 DEF Locked
  <2> QED BY <1>1, <2>2, <2>3, FailedGrace
<1>6. CASE Opened(q)
  <2> DEFINE r == [proc[q] EXCEPT !.pc = "opened", !.job = "none", !.tries = 0]
  <2>1. r.pc = "opened" /\ r.mine = proc[q].mine /\ r.now = proc[q].now /\ Become(q, r)
    BY <1>1, <1>6 DEF Process, Opened
  <2> HIDE DEF r
  <2> QED BY <1>1, <1>2, <2>1 DEF Locked
<1>7. CASE Check(q)
  <2>1. PICK pc \in {"stampLock", "spawn", "deltaLock"} :
          Become(q, [proc[q] EXCEPT !.pc = pc, !.now = clock])
    BY <1>7 DEF Check
  <2> DEFINE r == [proc[q] EXCEPT !.pc = pc, !.now = clock]
  <2>2. r.pc = pc /\ r.mine = proc[q].mine /\ r.now = clock
    BY <1>1 DEF Process
  <2>3. Become(q, r)
    BY <2>1
  <2> HIDE DEF r
  <2> QED BY <1>1, <1>2, <2>2, <2>3 DEF Locked
<1>8. CASE ApplyNothing(q)
  <2> DEFINE r == [Idle EXCEPT !.pc = "read", !.round = proc[q].round + 1]
  <2>1. r.pc = "read" /\ r.mine = NoManifest /\ r.now = 0
    BY DEF Idle
  <2>2. Become(q, r) \/ Become(q, Idle)
    BY <1>8 DEF ApplyNothing
  <2> HIDE DEF r
  <2>3. CASE Become(q, r)
    BY <1>1, <1>2, <2>1, <2>3 DEF Locked
  <2>4. CASE Become(q, Idle)
    BY <1>1, <1>2, <2>4, IdleParts DEF Locked
  <2> QED BY <2>2, <2>3, <2>4
<1>9. CASE FindCorrupt(q)
  <2> DEFINE r == [Idle EXCEPT !.pc = "markLock", !.mine = proc[q].mine]
  <2>1. r.pc = "markLock" /\ r.mine = proc[q].mine /\ r.now = 0 /\ Become(q, r)
    BY <1>9 DEF Idle, FindCorrupt
  <2> HIDE DEF r
  <2> QED BY <1>1, <1>2, <2>1 DEF Locked
<1>10. CASE MarkNothing(q)
  <2>1. Become(q, [Idle EXCEPT !.pc = "spawn"]) \/ Become(q, Idle)
    BY <1>10 DEF MarkNothing
  <2>2. Quiet([Idle EXCEPT !.pc = "spawn"]) \/ Quiet(Idle)
    BY <1>1, <2>1, IdleParts DEF Locked
  <2> QED BY <1>2, <2>2
<1> QED BY <1>3, <1>4, <1>5, <1>6, <1>7, <1>8, <1>9, <1>10

\* A query that reads the manifest now may open it: nothing retired is part of
\* it, and the publication at hand supersedes it only now.
LEMMA CurrentReadable ==
    ASSUME IInv, GraceSound, manifest.epoch # 0
    PROVE  Readable(manifest, clock)
<1>0. /\ manifest \in Manifest /\ clock \in Nat /\ MaxLag \in Nat
      /\ Sound(manifest) /\ NamedOnDisk /\ manifest.epoch \in Nat
  BY LimitsAssumption DEF IInv, TypeOK, PublicationSound, Manifest
<1>1. \A x \in Name : Superfluous(manifest, x) => ~Hits(manifest, x)
  BY <1>0, SuperfluousUnnamed DEF Hits
<1>2. \A r \in manifest.retired : ~Hits(manifest, r.name)
  BY <1>0, <1>1 DEF Sound, Manifest
<1>3. RetiredLate(manifest, manifest, clock)
  BY <1>2 DEF RetiredLate
<1>4. Named(manifest) \subseteq files /\ Sheltered(manifest, manifest)
  BY <1>0 DEF NamedOnDisk, Sheltered
<1>5. ASSUME NEW p \in Procs, proc[p].pc = "publish"
      PROVE  /\ RetiredLate(proc[p].next, manifest, clock)
             /\ Live(manifest, clock, proc[p].next.epoch)
                   => Sheltered(proc[p].next, manifest) /\ Untouched(p, manifest)
  <2>1. Retires(p)
    BY DEF GraceSound
  <2>2. RetiredLate(proc[p].next, manifest, clock)
    BY <1>5, <2>1 DEF Retires, RetiredLate
  <2> QED BY <1>0, <1>5, <2>1, <2>2 DEF Retires, Live
<1>6. ASSUME NEW p \in Procs, proc[p].pc = "clean" PROVE Untouched(p, manifest)
  <2>1. proc[p].due \subseteq Name /\ \A x \in proc[p].due : Superfluous(manifest, x)
    BY <1>6 DEF IInv, TypeOK, Process, PublicationSound, WriterSound
  <2> QED BY <1>1, <2>1 DEF Untouched
<1> QED BY <1>3, <1>4, <1>5, <1>6 DEF Readable

\* A process outside LOCK changes nobody else's reading.
LEMMA ReadableKept ==
    ASSUME IInv, NEW p \in Procs, proc[p].pc \notin Locked, NEW r, r.pc \notin Locked,
           Become(p, r), UNCHANGED <<clock, manifest, files>>,
           NEW m, NEW n, Readable(m, n)
    PROVE  Readable(m, n)'
<1>1. \A q \in Procs : proc'[q] = IF q = p THEN r ELSE proc[q]
  BY DEF Become, IInv, TypeOK
<1>2. \A o \in Procs :
        /\ proc'[o].pc = "publish" =>
              /\ RetiredLate(proc[o].next, m, n)'
              /\ Live(m, n, proc[o].next.epoch)'
                     => (Sheltered(proc[o].next, m) /\ Untouched(o, m))'
        /\ proc'[o].pc = "clean" /\ Live(m, n, manifest.epoch)' => Untouched(o, m)'
  BY <1>1 DEF Readable, RetiredLate, Live, Sheltered, Untouched, Locked
<1>3. RetiredLate(manifest, m, n)'
      /\ (Live(m, n, manifest.epoch)' => (Named(m) \subseteq files /\ Sheltered(manifest, m))')
  BY DEF Readable, RetiredLate, Live, Sheltered
<1> QED BY <1>2, <1>3 DEF Readable

LEMMA ReadGrace ==
    ASSUME IInv, GraceSound, NEW q \in Queries, ReadManifest(q) \/ OpenFile(q) \/ OpenFails(q)
    PROVE  GraceSound'
<1>1. /\ q \in Procs /\ proc[q] \in Process /\ UNCHANGED <<clock, manifest, files>>
      /\ manifest \in Manifest /\ clock \in Nat /\ Reads(q) /\ proc[q].now <= clock
  BY DEF Procs, IInv, TypeOK, GraceSound, ReadManifest, OpenFile, OpenFails
\* What is left to show of the record q becomes.
<1>2. ASSUME NEW r, Become(q, r), r.pc \notin Locked, proc[q].pc \notin Locked, r.now <= clock,
             Behind(r.mine), r.pc \in {"open", "retry"} => r.mine.epoch # 0,
             r.pc = "open" => r.todo \subseteq Named(r.mine) /\ Readable(r.mine, r.now),
             r.pc = "retry" /\ r.mine.ok /\ r.job # "corrupt" => Snap(manifest) # Snap(r.mine)
      PROVE  GraceSound'
  <2>1. proc'[q] = r
    BY <1>1, <1>2 DEF Become, IInv, TypeOK
  <2>2. r.pc = "open" => Readable(r.mine, r.now)'
    BY <1>1, <1>2, ReadableKept
  <2>3. Behind(r.mine)'
    BY <1>1, <1>2 DEF Behind
  <2>4. Reads(q)'
    BY <1>1, <1>2, <2>1, <2>2, <2>3 DEF Reads, Snap
  <2>5. Writes(q)'
    BY <1>2, <2>1 DEF Writes, Locked
  <2> QED BY <1>1, <1>2, <2>4, <2>5, OneGrace DEF Locked
<1>3. CASE ReadManifest(q)
  <2> DEFINE r == [proc[q] EXCEPT !.mine = manifest, !.now = clock,
                              !.pc = IF manifest.ok THEN "open" ELSE "retry",
                              !.todo = IF manifest.ok THEN Named(manifest) ELSE {}]
  <2>1. /\ r.pc = (IF manifest.ok THEN "open" ELSE "retry") /\ r.mine = manifest
        /\ r.now = clock /\ r.todo = IF manifest.ok THEN Named(manifest) ELSE {}
    BY <1>1 DEF Process
  <2>2. proc[q].pc = "read" /\ Become(q, IF manifest.epoch = 0 THEN Failed(q) ELSE r)
    BY <1>3 DEF ReadManifest
  <2> HIDE DEF r
  <2>3. CASE manifest.epoch = 0
    BY <1>1, <2>2, <2>3, FailedGrace
  <2>4. CASE manifest.epoch # 0
    <3>1. Behind(manifest)
      BY <1>1 DEF Behind, Manifest
    <3>2. Readable(manifest, clock)
      BY <2>4, CurrentReadable
    <3>3. r.pc \in {"open", "retry"} /\ r.pc \notin Locked /\ proc[q].pc \notin Locked
      BY <2>1, <2>2 DEF Locked
    <3>4. r.now <= clock /\ Behind(r.mine) /\ r.mine.epoch # 0
      BY <1>1, <2>1, <2>4, <3>1
    <3>5. /\ r.pc = "open" => r.todo \subseteq Named(r.mine) /\ Readable(r.mine, r.now)
          /\ r.pc = "retry" => ~r.mine.ok
      BY <2>1, <3>2
    <3> QED BY <1>2, <2>2, <2>4, <3>3, <3>4, <3>5
  <2> QED BY <2>3, <2>4
<1>4. CASE OpenFile(q)
  <2>1. PICK f \in proc[q].todo : Become(q, [proc[q] EXCEPT !.todo = @ \ {f}])
    BY <1>4 DEF OpenFile
  <2> DEFINE r == [proc[q] EXCEPT !.todo = @ \ {f}]
  <2>2. /\ proc[q].pc = "open" /\ r.pc = "open" /\ r.mine = proc[q].mine
        /\ r.now = proc[q].now /\ r.todo \subseteq proc[q].todo
    BY <1>1, <1>4 DEF Process, OpenFile
  <2>3. Become(q, r)
    BY <2>1
  <2> HIDE DEF r
  <2>4. r.pc \notin Locked /\ proc[q].pc \notin Locked
    BY <2>2 DEF Locked
  <2> QED BY <1>1, <1>2, <2>2, <2>3, <2>4 DEF Reads
<1>5. CASE OpenFails(q)
  <2>1. PICK f \in proc[q].todo :
          /\ f \notin files \ torn /\ f.kind # "skipped" /\ proc[q].pc = "open"
          /\ Become(q, [proc[q] EXCEPT !.pc = "retry", !.todo = {},
                          !.job = IF f \in torn THEN "corrupt" ELSE @])
    BY <1>5 DEF OpenFails
  <2> DEFINE job == IF f \in torn THEN "corrupt" ELSE proc[q].job
             r == [proc[q] EXCEPT !.pc = "retry", !.todo = {}, !.job = job]
  <2>2. r.pc = "retry" /\ r.mine = proc[q].mine /\ r.now = proc[q].now /\ r.job = job
    BY <1>1 DEF Process
  <2>3. Become(q, r)
    BY <2>1
  <2>4. r.job # "corrupt" => Snap(manifest) # Snap(r.mine)
    <3> SUFFICES ASSUME r.job # "corrupt", Snap(manifest) = Snap(proc[q].mine) PROVE FALSE
      BY <2>2
    <3>1. f \notin files /\ f \in Named(proc[q].mine)
      BY <1>1, <2>1, <2>2 DEF Reads
    <3>2. f \in Named(manifest)
      BY <2>1, <3>1 DEF Named, Snap, File
    <3> QED BY <3>1, <3>2 DEF IInv, PublicationSound, NamedOnDisk
  <2> HIDE DEF r, job
  <2>5. r.pc \notin Locked /\ proc[q].pc \notin Locked /\ r.pc # "open"
    BY <2>1, <2>2 DEF Locked
  <2>6. Behind(r.mine) /\ r.mine.epoch # 0 /\ r.now <= clock
    BY <1>1, <2>1, <2>2 DEF Reads
  <2> QED BY <1>2, <2>3, <2>4, <2>5, <2>6
<1> QED BY <1>3, <1>4, <1>5

\* A process takes LOCK to write names that no manifest has had.
LEMMA BeginGrace ==
    ASSUME IInv, GraceSound, NEW p \in Procs, NEW job, NEW m, NEW new, Begin(p, job, m, new),
           UNCHANGED <<clock, manifest, files>>,
           \A f \in new :
              \/ job = "phase1" /\ f.epoch = m.epoch
              \/ /\ job = "phase2" /\ manifest.seq = 1
                 /\ f \in {File(manifest.epoch, "symbols", 2), File(manifest.epoch, "files", 2)}
              \/ /\ job = "delta"
                 /\ f \in {File(manifest.epoch, "delta", manifest.deltas + 1),
                           File(manifest.epoch, "skipped", manifest.deltas + 1)}
    PROVE  GraceSound'
<1> DEFINE r == [proc[p] EXCEPT !.pc = "write", !.job = job, !.next = m, !.todo = new]
<1>1. proc[p] \in Process /\ Become(p, r) /\ proc[p].now <= clock
  BY DEF Begin, IInv, TypeOK, GraceSound
<1>2. /\ r.pc = "write" /\ r.job = job /\ r.next = m /\ r.todo = new
      /\ r.mine = proc[p].mine /\ r.now = proc[p].now
  BY <1>1 DEF Process
<1> HIDE DEF r
<1>3. proc'[p] = r
  BY <1>1 DEF Become, IInv, TypeOK
<1>4. Writes(p)'
  BY <1>2, <1>3 DEF Writes
<1>5. p \in Queries => Reads(p)'
  BY <1>2, <1>3 DEF Reads, Behind, GraceSound
<1> QED BY <1>1, <1>2, <1>4, <1>5, OneGrace

\* Every kind of publication, as it takes LOCK.
LEMMA TakeGrace ==
    ASSUME IInv, GraceSound,
           \/ \E b \in Builders : BuildPhase1(b) \/ BuildPhase2(b)
           \/ \E q \in Queries : ApplyStamp(q) \/ ApplyDelta(q) \/ MarkCorrupt(q)
    PROVE  GraceSound'
<1>0. Builders \subseteq Procs /\ Queries \subseteq Procs
  BY DEF Procs
<1>1. ASSUME NEW b \in Builders, BuildPhase1(b) PROVE GraceSound'
  <2> DEFINE m == [NoManifest EXCEPT !.epoch = made + 1, !.ok = TRUE, !.noIno = manifest.noIno]
  <2>1. Begin(b, "phase1", m, Named(m)) /\ UNCHANGED <<clock, manifest, files>>
    BY <1>1 DEF BuildPhase1
  <2> HIDE DEF m
  <2>2. \A f \in Named(m) : f.epoch = m.epoch
    BY DEF Named, File
  <2> QED BY <1>0, <2>1, <2>2, BeginGrace
<1>2. ASSUME NEW b \in Builders, BuildPhase2(b) PROVE GraceSound'
  <2>1. PICK m : /\ Begin(b, "phase2", m, {File(proc[b].mine.epoch, "symbols", 2),
                                           File(proc[b].mine.epoch, "files", 2)})
                 /\ UNCHANGED <<clock, manifest, files>>
                 /\ proc[b].pc = "parse" /\ manifest.epoch = proc[b].mine.epoch
    BY <1>2 DEF BuildPhase2, StillMine
  <2>2. manifest.seq = 1
    BY <2>1 DEF IInv, PublicationSound, BuildSound
  <2> QED BY <1>0, <2>1, <2>2, BeginGrace
<1>3. ASSUME NEW q \in Queries, ApplyStamp(q) \/ MarkCorrupt(q) PROVE GraceSound'
  <2>1. \E job, m : Begin(q, job, m, {}) /\ UNCHANGED <<clock, manifest, files>>
    BY <1>3 DEF ApplyStamp, MarkCorrupt
  <2> QED BY <1>0, <2>1, BeginGrace
<1>4. ASSUME NEW q \in Queries, ApplyDelta(q) PROVE GraceSound'
  <2>1. PICK m, skips :
          LET n == proc[q].mine.deltas + 1
          IN  Begin(q, "delta", m,
                    {File(manifest.epoch, "delta", n)}
                    \cup (IF skips THEN {File(manifest.epoch, "skipped", n)} ELSE {}))
    BY <1>4 DEF ApplyDelta
  <2>2. UNCHANGED <<clock, manifest, files>> /\ proc[q].mine.deltas = manifest.deltas
    BY <1>4 DEF ApplyDelta, SameIndex, Snap
  <2> DEFINE new == {File(manifest.epoch, "delta", manifest.deltas + 1)}
                    \cup (IF skips THEN {File(manifest.epoch, "skipped", manifest.deltas + 1)} ELSE {})
  <2>3. Begin(q, "delta", m, new)
    BY <2>1, <2>2
  <2>4. \A f \in new : f \in {File(manifest.epoch, "delta", manifest.deltas + 1),
                              File(manifest.epoch, "skipped", manifest.deltas + 1)}
    OBVIOUS
  <2> HIDE DEF new
  <2> QED BY <1>0, <2>2, <2>3, <2>4, BeginGrace
<1> QED BY <1>1, <1>2, <1>3, <1>4

LEMMA WriteGrace ==
    ASSUME IInv, GraceSound, NEW p \in Procs, Write(p)
    PROVE  GraceSound'
<1>1. PICK f \in proc[p].todo :
        /\ proc[p].pc = "write" /\ files' = files \cup {f}
        /\ Become(p, [proc[p] EXCEPT !.todo = @ \ {f}])
        /\ UNCHANGED <<clock, manifest>>
  BY DEF Write
<1> DEFINE r == [proc[p] EXCEPT !.todo = @ \ {f}]
<1>2. proc[p] \in Process /\ proc[p].now <= clock /\ Writes(p)
  BY DEF IInv, TypeOK, GraceSound
<1>3. /\ r.pc = "write" /\ r.job = proc[p].job /\ r.next = proc[p].next
      /\ r.todo \subseteq proc[p].todo /\ r.mine = proc[p].mine /\ r.now = proc[p].now
  BY <1>1, <1>2 DEF Process
<1>4. Become(p, r) /\ proc'[p] = r
  BY <1>1 DEF Become, IInv, TypeOK
<1> HIDE DEF r
<1>5. Writes(p)'
  BY <1>1, <1>2, <1>3, <1>4 DEF Writes
<1>6. p \in Queries => Reads(p)'
  BY <1>1, <1>3, <1>4 DEF Reads, Behind, GraceSound
<1>7. files \subseteq files'
  BY <1>1
<1> QED BY <1>1, <1>2, <1>3, <1>4, <1>5, <1>6, <1>7, OneGrace

\* Processes that end, begin, or let LOCK go.
LEMMA OutsideGrace ==
    ASSUME IInv, GraceSound,
           \/ \E b \in Builders : StartBuild(b) \/ BuildBail(b)
           \/ \E p \in Procs : Crash(p) \/ Release(p)
           \/ \E q \in Queries : SpawnBuild(q)
    PROVE  GraceSound'
<1>0. clock \in Nat /\ 0 <= clock
  BY DEF IInv, TypeOK
<1>1. ASSUME NEW p \in Procs, NEW r, Become(p, r), UNCHANGED <<clock, manifest, files>>,
             r = Idle \/ (\E pc \in {"walk", "spawn"} : r = [Idle EXCEPT !.pc = pc])
      PROVE  GraceSound'
  <2>1. r.pc \notin Locked \cup {"open", "retry"} /\ r.now = 0 /\ r.mine = NoManifest
    BY <1>1, IdleParts DEF Locked
  <2> QED BY <1>0, <1>1, <2>1, QuietGrace
<1>2. ASSUME NEW b \in Builders, StartBuild(b) \/ BuildBail(b) PROVE GraceSound'
  <2>1. \/ Become(b, Idle)
        \/ Become(b, [Idle EXCEPT !.pc = "walk"])
    BY <1>2 DEF StartBuild, BuildBail
  <2>2. b \in Procs /\ UNCHANGED <<clock, manifest, files>>
    BY <1>2 DEF StartBuild, BuildBail, Procs
  <2> QED BY <1>1, <2>1, <2>2
<1>3. ASSUME NEW p \in Procs, Crash(p) PROVE GraceSound'
  BY <1>1, <1>3 DEF Crash
<1>4. ASSUME NEW p \in Procs, Release(p) PROVE GraceSound'
  <2> DEFINE parse == [Idle EXCEPT !.pc = "parse", !.mine = proc[p].mine]
             again == [Idle EXCEPT !.pc = "read", !.round = 2]
  <2>1. /\ parse.pc = "parse" /\ parse.mine = proc[p].mine /\ parse.now = 0
        /\ again.pc = "read" /\ again.mine = NoManifest /\ again.now = 0
    BY DEF Idle
  <2>2. \/ Become(p, parse) \/ Become(p, again)
        \/ Become(p, [Idle EXCEPT !.pc = "spawn"]) \/ Become(p, Idle)
    BY <1>4 DEF Release, Onward
  <2>3. UNCHANGED <<clock, manifest, files>>
    BY <1>4 DEF Release
  <2> HIDE DEF parse, again
  <2>4. CASE Become(p, parse)
    BY <1>0, <2>1, <2>3, <2>4, QuietGrace DEF Locked
  <2>5. CASE Become(p, again)
    BY <1>0, <2>1, <2>3, <2>5, QuietGrace DEF Locked
  <2> QED BY <1>1, <2>2, <2>3, <2>4, <2>5
<1>5. ASSUME NEW q \in Queries, SpawnBuild(q) PROVE GraceSound'
  <2>0. q \in Procs /\ UNCHANGED <<clock, manifest, files>>
    BY <1>5 DEF SpawnBuild, Procs
  <2>1. CASE Become(q, Idle)
    BY <1>1, <2>0, <2>1
  <2>2. CASE ~Become(q, Idle)
    <3>1. PICK b \in Builders :
             proc' = [proc EXCEPT ![q] = Idle, ![b] = [Idle EXCEPT !.pc = "walk"]]
      BY <1>5, <2>2 DEF SpawnBuild
    <3>2. /\ proc'[q] = Idle
          /\ proc'[b].pc = "walk" /\ proc'[b].now = 0 /\ b \in Procs /\ b \notin Queries
          /\ \A p \in Procs \ {q, b} : proc'[p] = proc[p]
      BY <2>0, <3>1, IdleParts, ProcessesAssumption DEF IInv, TypeOK, Procs
    <3>3. \A p \in {q, b} : /\ proc'[p].pc \notin {"publish", "clean"} /\ proc'[p].now <= clock
                            /\ Writes(p)' /\ (p \in Queries => Reads(p)')
      BY <1>0, <3>2, IdleParts DEF Writes, Reads, Behind, NoManifest
    <3> QED BY <2>0, <3>2, <3>3, MovedGrace
  <2> QED BY <2>1, <2>2
<1> QED BY <1>2, <1>3, <1>4, <1>5

LEMMA NextGrace ==
    ASSUME IInv, GraceSound, [Next]_vars
    PROVE  GraceSound'
<1>1. CASE UNCHANGED vars
  <2>1. UNCHANGED <<clock, manifest, files, proc>>
    BY <1>1 DEF vars
  <2> QED BY <2>1, MovedGrace
<1>2. ASSUME NEW p \in Procs, Step(p) PROVE GraceSound'
  BY <1>2, WriteGrace, PrepareGrace, PublishGrace, CleanGrace, OutsideGrace DEF Step
<1>3. ASSUME NEW b \in Builders, StartBuild(b) \/ BuildStep(b) PROVE GraceSound'
  BY <1>2, <1>3, OutsideGrace, CleanOrphanGrace, TakeGrace DEF BuildStep, Procs
<1>4. ASSUME NEW q \in Queries, StartQuery(q) \/ QueryStep(q) \/ FindCorrupt(q)
      PROVE  GraceSound'
  BY <1>2, <1>4, QueryQuietGrace, ReadGrace, TakeGrace, OutsideGrace DEF QueryStep, Procs
<1> QED BY <1>1, <1>3, <1>4, OutsideGrace, PowerLossGrace, TickGrace DEF Next

LEMMA GraceInvariant == Spec => []GraceSound
<1>1. Init => GraceSound
  <2> SUFFICES ASSUME Init PROVE GraceSound
    OBVIOUS
  <2>1. \A p \in Procs : proc[p].pc = "idle" /\ proc[p].now = 0 /\ proc[p].mine.epoch = 0
    BY DEF Init, Idle, NoManifest
  <2>2. clock = 0
    BY DEF Init
  <2> QED BY <2>1, <2>2 DEF GraceSound, Writes, Retires, Reads, Behind, Procs
<1>2. (TypeOK /\ PublicationSound) /\ GraceSound /\ [Next]_vars => GraceSound'
  BY NextGrace DEF IInv
<1> QED BY <1>1, <1>2, TypeCorrect, PublicationIsSound, PTL DEF Spec

\* A query without LOCK never has a file written under it: no writer writes a
\* name that a manifest somebody holds names (snapshot.rs, "never renamed over").
THEOREM NamesAreWrittenOnce == Spec => []NeverRewritten
<1>1. TypeOK /\ PublicationSound /\ GraceSound => NeverRewritten
  BY GraceMeans DEF IInv
<1> QED BY <1>1, TypeCorrect, PublicationIsSound, GraceInvariant, PTL

\* A query fails to open a whole snapshot only once the manifest names another
\* (index.rs `open`, "a component gone, or of another build").
THEOREM OpensUnlessSuperseded == Spec => []FailsOnlyWhenSuperseded
<1>1. TypeOK /\ PublicationSound /\ GraceSound => FailsOnlyWhenSuperseded
  BY GraceMeans DEF IInv
<1> QED BY <1>1, TypeCorrect, PublicationIsSound, GraceInvariant, PTL

\* For RETIRE_MS, less a publication's delay, and RETIRED_BUILDS builds, a query
\* that read its manifest finds every file it names (snapshot.rs `retire`).
THEOREM GraceIsKept == Spec => []GracePeriod
<1>1. TypeOK /\ PublicationSound /\ GraceSound => GracePeriod
  BY GraceMeans DEF IInv
<1> QED BY <1>1, TypeCorrect, PublicationIsSound, GraceInvariant, PTL

-----------------------------------------------------------------------------
(* Nothing leaks.  TidySound follows every file from the snapshot that names *)
(* it to the retired list or the removals at hand, and bounds both: a list   *)
(* holds at most RetiredBuilds builds, an older build's entries fall due no   *)
(* later than its directory, and no publication removes more than one        *)
(* cleaning pass may.                                                        *)

\* The entries one build can leave in a retired list.
Leavings(e) ==
    {GenDir(e), File(e, "files", 1)} \cup {File(e, "skipped", i) : i \in 0 .. DeltaLimit - 1}

\* The retired list of m.
Listed(m) ==
    /\ m.epoch = 0 => m.retired = {}
    /\ IsFiniteSet(Builds(m.retired)) /\ Cardinality(Builds(m.retired)) <= RetiredBuilds
    /\ \A r \in m.retired :
          /\ r.since <= clock /\ r.name \in Leavings(r.name.epoch)
          /\ r.name.epoch # m.epoch =>
                \E s \in m.retired : s.name = GenDir(r.name.epoch) /\ r.since <= s.since

\* Every file is part of m, retired by m, or about to go.
Swept(m, due) ==
    \A f \in files :
        \/ f \in Named(m)
        \/ \E r \in m.retired : Within(f, r.name)
        \/ \E x \in due : Within(f, x)

\* One cleaning pass can remove all of `due` after `gone` removals.
Room(due, gone) ==
    IsFiniteSet(due) /\ (due # {} => gone + Cardinality(due) <= MaxRemovals)

TidyHolder(p) ==
    LET P == proc[p]
    IN  /\ P.pc \in {"write", "publish"} => P.next.deltas <= DeltaLimit
        /\ P.pc = "deltaLock" => P.mine.deltas < DeltaLimit
        /\ P.pc # "clean" => P.gone = 0
        /\ P.pc \in {"publish", "clean"} => Room(P.due, P.gone)
        /\ P.pc = "publish" => Listed(P.next)
        /\ faults = 0 =>
              /\ P.pc = "write" => /\ P.todo \subseteq Named(P.next)
                                   /\ Swept(manifest, Named(P.next))
              /\ P.pc = "publish" => Swept(P.next, P.due)
              /\ P.pc = "clean" => Swept(manifest, P.due)

TidySound ==
    /\ manifest.deltas <= DeltaLimit
    /\ Listed(manifest)
    /\ \A p \in Procs : TidyHolder(p)
    /\ faults = 0 /\ lock = NoProc => Swept(manifest, {})

LEMMA LeastNumber ==
    ASSUME NEW T \in SUBSET Nat, T # {}
    PROVE  \E x \in T : \A y \in T : x <= y
<1> DEFINE R == OpToRel(<, Nat)
<1>1. PICK x \in T : \A y \in T : ~ (<<y, x>> \in R)
  BY NatLessThanWellFounded, WFMin
<1>2. \A y \in T : ~ (y < x)
  BY <1>1 DEF OpToRel
<1> QED BY <1>2

\* Among finitely many epochs, at most k have fewer than k above them.
LEMMA FewNewest ==
    ASSUME NEW B \in SUBSET Nat, IsFiniteSet(B), NEW k \in Nat,
           NEW T \in SUBSET B,
           \A e \in T : ~(Cardinality({f \in B : f > e}) >= k)
    PROVE  IsFiniteSet(T) /\ Cardinality(T) <= k
<1>1. IsFiniteSet(T) /\ Cardinality(T) \in Nat
  BY FS_Subset, FS_CardinalityType
<1>2. CASE T = {}
  BY <1>1, <1>2, FS_EmptySet
<1>3. CASE T # {}
  <2>1. PICK e \in T : \A f \in T : e <= f
    BY <1>3, LeastNumber
  <2> DEFINE up == {f \in B : f > e}
             rest == T \ {e}
  <2>2. rest \subseteq up
    BY <2>1
  <2>3. IsFiniteSet(up) /\ Cardinality(up) \in Nat /\ Cardinality(up) < k
    <3>1. IsFiniteSet(up)
      BY FS_Subset
    <3>2. Cardinality(up) \in Nat
      BY <3>1, FS_CardinalityType
    <3>3. ~(Cardinality(up) >= k)
      OBVIOUS
    <3> HIDE DEF up
    <3> QED BY <3>1, <3>2, <3>3
  <2> HIDE DEF up
  <2>4. Cardinality(rest) <= Cardinality(up)
    BY <2>2, <2>3, FS_Subset
  <2>5. Cardinality(rest) = Cardinality(T) - 1
    BY <1>1, <2>1, FS_RemoveElement
  <2> QED BY <1>1, <2>3, <2>4, <2>5
<1> QED BY <1>2, <1>3

\* The entries that one more than RetiredBuilds builds leave fit in one pass.
LEMMA FewRemovals ==
    ASSUME NEW E \in SUBSET Nat, IsFiniteSet(E), Cardinality(E) <= RetiredBuilds + 1,
           NEW due, \A x \in due : x.epoch \in E /\ x \in Leavings(x.epoch)
    PROVE  Room(due, 0)
<1> DEFINE D == 0 .. DeltaLimit + 1
           P == E \X D
           g == [x \in P |-> IF x[2] = 0 THEN GenDir(x[1])
                             ELSE IF x[2] = 1 THEN File(x[1], "files", 1)
                             ELSE File(x[1], "skipped", x[2] - 2)]
           G == {g[x] : x \in P}
<1>1. /\ RetiredBuilds \in Nat /\ DeltaLimit \in Nat /\ MaxRemovals \in Nat
      /\ (RetiredBuilds + 1) * (DeltaLimit + 2) <= MaxRemovals
  BY LimitsAssumption
<1>2. IsFiniteSet(D) /\ Cardinality(D) = DeltaLimit + 2
  <2>1. IsFiniteSet(D) /\ Cardinality(D) = IF 0 > DeltaLimit + 1 THEN 0 ELSE (DeltaLimit + 1) - 0 + 1
    BY <1>1, FS_Interval
  <2> QED BY <1>1, <2>1
<1>3. Cardinality(E) \in Nat
  BY FS_CardinalityType
<1>4. IsFiniteSet(P) /\ Cardinality(P) = Cardinality(E) * Cardinality(D)
  BY <1>2, FS_Product
<1>5. due \subseteq G
  <2> SUFFICES ASSUME NEW x \in due PROVE x \in G
    OBVIOUS
  <2>1. x.epoch \in E /\ x \in Leavings(x.epoch)
    OBVIOUS
  <2>2. CASE x = GenDir(x.epoch)
    <3>1. <<x.epoch, 0>> \in P
      BY <1>1, <2>1
    <3>2. g[<<x.epoch, 0>>] = GenDir(x.epoch)
      BY <3>1
    <3> QED BY <2>2, <3>1, <3>2
  <2>3. CASE x = File(x.epoch, "files", 1)
    <3>1. <<x.epoch, 1>> \in P
      BY <1>1, <2>1
    <3>2. g[<<x.epoch, 1>>] = File(x.epoch, "files", 1)
      BY <3>1
    <3> QED BY <2>3, <3>1, <3>2
  <2>4. ASSUME NEW i \in 0 .. DeltaLimit - 1, x = File(x.epoch, "skipped", i)
        PROVE  x \in G
    <3>1. <<x.epoch, i + 2>> \in P
      BY <1>1, <2>1
    <3>2. g[<<x.epoch, i + 2>>] = File(x.epoch, "skipped", i)
      <4>1. g[<<x.epoch, i + 2>>] = File(x.epoch, "skipped", (i + 2) - 2)
        BY <3>1
      <4> QED BY <4>1
    <3> QED BY <2>4, <3>1, <3>2
  <2> QED BY <2>1, <2>2, <2>3, <2>4 DEF Leavings
<1>6. IsFiniteSet(G) /\ Cardinality(G) <= Cardinality(P)
  <2>1. g \in Surjection(P, G)
    <3>1. g \in [P -> G]
      OBVIOUS
    <3>2. \A y \in G : \E x \in P : g[x] = y
      OBVIOUS
    <3> HIDE DEF g, P, G
    <3> QED BY <3>1, <3>2 DEF Surjection
  <2> HIDE DEF g, P, G
  <2> QED BY <1>4, <2>1, FS_Surjection
<1>7. IsFiniteSet(due) /\ Cardinality(due) <= Cardinality(G)
  <2> HIDE DEF G
  <2> QED BY <1>5, <1>6, FS_Subset
<1>8. Cardinality(P) <= MaxRemovals
  <2>1. PICK c \in Nat : c = Cardinality(E)
    BY <1>3
  <2>2. PICK d \in Nat : d = DeltaLimit + 2
    BY <1>1
  <2>3. PICK b \in Nat : b = RetiredBuilds + 1
    BY <1>1
  <2>4. (b - c) \in Nat /\ (b - c) * d \in Nat
    BY <2>1, <2>2, <2>3
  <2>5. (b - c) * d = b * d - c * d /\ c * d \in Int /\ b * d \in Int
    OBVIOUS
  <2>6. Cardinality(P) = c * d /\ b * d <= MaxRemovals
    BY <1>1, <1>2, <1>4, <2>1, <2>2, <2>3
  <2> QED BY <1>1, <2>4, <2>5, <2>6
<1>9. Cardinality(due) \in Nat /\ Cardinality(G) \in Nat /\ Cardinality(P) \in Nat
  BY <1>4, <1>6, <1>7, FS_CardinalityType
<1> HIDE DEF P, G
<1> QED BY <1>1, <1>6, <1>7, <1>8, <1>9 DEF Room

\* What `retire` leaves in the list, and what it takes off it.
LEMMA RetireTidy ==
    ASSUME IInv, Listed(manifest), NEW p \in Procs, proc[p].pc = "write",
           proc[p].next.deltas <= DeltaLimit,
           NEW t \in Nat, t <= clock, proc[p].job # "stamp" => t = clock,
           NEW k \in Manifest, k.epoch = proc[p].next.epoch,
           k.retired = StillRetired(manifest.retired, Superseded(p), t)
    PROVE  Listed(k) /\ Room(ToRemove(manifest.retired, Superseded(p), t), 0)
<1> DEFINE M == manifest
           new == Superseded(p)
           keep == Kept(M.retired, new, t)
           E == Builds(M.retired) \cup {M.epoch}
<1>1. /\ M \in Manifest /\ proc[p].next \in Manifest /\ new \in SUBSET Name
      /\ Follows(p) /\ Sound(M) /\ proc[p].next.skipped <= proc[p].next.deltas
      /\ k.epoch # 0 /\ clock \in Nat
  <2>1. TypeOK /\ Sound(M) /\ WriterSound(p)
    BY DEF IInv, PublicationSound
  <2> QED BY <2>1, SupersededType DEF TypeOK, Process, WriterSound
<1>2. /\ M.epoch \in Nat /\ k.epoch \in Nat /\ M.epoch <= k.epoch
      /\ proc[p].job # "phase1" => k.epoch = M.epoch
      /\ DeltaLimit \in Nat /\ RetiredBuilds \in Nat
  <2>1. /\ M.epoch \in Nat /\ k.epoch \in Nat /\ DeltaLimit \in Nat /\ RetiredBuilds \in Nat
        /\ k.epoch = proc[p].next.epoch
    BY <1>1, LimitsAssumption DEF Manifest
  <2>2. Follows(p)
    BY <1>1
  <2> QED BY <2>1, <2>2 DEF Follows, Snap
<1>3. M.retired \in SUBSET [name : Name, since : Nat]
  BY <1>1 DEF Manifest
<1>4. \A r \in M.retired :
         /\ r.name \in Name /\ r.since \in Nat /\ r.since <= clock
         /\ r.name \in Leavings(r.name.epoch)
         /\ r.name.epoch \in E /\ r.name.epoch <= M.epoch
         /\ r.name.epoch # M.epoch =>
               \E s \in M.retired : s.name = GenDir(r.name.epoch) /\ r.since <= s.since
  <2> SUFFICES ASSUME NEW r \in M.retired
               PROVE  /\ r.name \in Name /\ r.since \in Nat /\ r.since <= clock
                      /\ r.name \in Leavings(r.name.epoch)
                      /\ r.name.epoch \in E /\ r.name.epoch <= M.epoch
                      /\ r.name.epoch # M.epoch =>
                            \E s \in M.retired : s.name = GenDir(r.name.epoch) /\ r.since <= s.since
    OBVIOUS
  <2>1. /\ r.since <= clock /\ r.name \in Leavings(r.name.epoch)
        /\ r.name.epoch # M.epoch =>
              \E s \in M.retired : s.name = GenDir(r.name.epoch) /\ r.since <= s.since
    BY DEF Listed
  <2>2. r.name \in Name /\ r.since \in Nat
    BY <1>3
  <2>3. r.name.epoch \in E
    <3>1. CASE r.name.epoch # M.epoch
      <4>1. PICK s \in M.retired : s.name = GenDir(r.name.epoch)
        BY <2>1, <3>1
      <4> QED BY <4>1 DEF Builds, GenDir, File
    <3> QED BY <3>1
  <2>4. r.name.epoch <= M.epoch
    <3>1. Superfluous(M, r.name) /\ r.name.epoch \in Nat
      BY <1>1, <2>2 DEF Sound, Name
    <3> QED BY <1>2, <3>1 DEF Superfluous
  <2> QED BY <2>1, <2>2, <2>3, <2>4
\* What is superseded, and by which job.
<1>5. \A x \in new :
         /\ x.epoch = M.epoch /\ x \in Leavings(x.epoch) /\ proc[p].job # "stamp"
         /\ proc[p].job = "phase1" => x = GenDir(M.epoch)
  <2> SUFFICES ASSUME NEW x \in new
               PROVE  /\ x.epoch = M.epoch /\ x \in Leavings(x.epoch) /\ proc[p].job # "stamp"
                      /\ proc[p].job = "phase1" => x = GenDir(M.epoch)
    OBVIOUS
  <2>1. CASE proc[p].job = "phase1"
    <3>1. x = GenDir(M.epoch)
      BY <2>1 DEF Superseded
    <3>2. x.epoch = M.epoch
      BY <3>1 DEF GenDir, File
    <3> QED BY <2>1, <3>1, <3>2 DEF Leavings
  <2>2. CASE proc[p].job = "phase2"
    <3>1. x = File(M.epoch, "files", 1)
      BY <1>1, <2>2 DEF Superseded, Follows
    <3>2. x.epoch = M.epoch
      BY <3>1 DEF File
    <3> QED BY <2>2, <3>1, <3>2 DEF Leavings
  <2>3. CASE proc[p].job = "delta"
    <3>1. x = File(M.epoch, "skipped", M.skipped) /\ proc[p].next.skipped # M.skipped
      BY <2>3 DEF Superseded
    <3>2. x.epoch = M.epoch
      BY <3>1 DEF File
    <3>3. /\ M.skipped \in Nat /\ M.deltas \in Nat /\ M.skipped <= M.deltas
          /\ proc[p].next.deltas = M.deltas + 1 /\ proc[p].next.deltas <= DeltaLimit
      BY <1>1, <2>3 DEF Manifest, Sound, Follows
    <3>4. M.skipped \in 0 .. DeltaLimit - 1
      BY <1>2, <3>3
    <3> QED BY <2>3, <3>1, <3>2, <3>4 DEF Leavings
  <2> QED BY <2>1, <2>2, <2>3 DEF Superseded
<1>6. \A r \in keep : \/ r \in M.retired /\ r \notin Due(M.retired, t)
                      \/ r.since = t /\ r.name \in new
  BY DEF Kept
<1>7. \A r \in keep : /\ r.name.epoch \in E /\ r.since <= clock
                      /\ r.name \in Leavings(r.name.epoch)
  BY <1>4, <1>5, <1>6
<1>8. IsFiniteSet(Builds(M.retired)) /\ Cardinality(Builds(M.retired)) <= RetiredBuilds
  BY DEF Listed
<1>9. E \in SUBSET Nat /\ IsFiniteSet(E) /\ Cardinality(E) <= RetiredBuilds + 1
  <2>1. Builds(M.retired) \in SUBSET Nat
    <3>1. \A r \in M.retired : r.name.epoch \in Nat
      BY <1>4 DEF Name
    <3> QED BY <3>1 DEF Builds
  <2>2. Cardinality(Builds(M.retired)) \in Nat
    BY <1>8, FS_CardinalityType
  <2>3. /\ IsFiniteSet(E)
        /\ Cardinality(E) = IF M.epoch \in Builds(M.retired) THEN Cardinality(Builds(M.retired))
                            ELSE Cardinality(Builds(M.retired)) + 1
    BY <1>8, FS_AddElement
  <2> QED BY <1>2, <1>8, <2>1, <2>2, <2>3
\* The removals
<1>10. Room(ToRemove(M.retired, new, t), 0)
  <2>1. \A x \in ToRemove(M.retired, new, t) : x.epoch \in E /\ x \in Leavings(x.epoch)
    BY <1>4, <1>7 DEF ToRemove, Due
  <2> HIDE DEF E
  <2> QED BY <1>9, <2>1, FewRemovals
\* The entries of an older build are kept with its directory.
<1>11. \A r \in keep : r.name.epoch # k.epoch =>
           \E s \in keep : s.name = GenDir(r.name.epoch) /\ r.since <= s.since
  <2> SUFFICES ASSUME NEW r \in keep, r.name.epoch # k.epoch
               PROVE  \E s \in keep : s.name = GenDir(r.name.epoch) /\ r.since <= s.since
    OBVIOUS
  <2>1. CASE r \in M.retired /\ r \notin Due(M.retired, t) /\ r.name.epoch # M.epoch
    <3>1. PICK s \in M.retired : s.name = GenDir(r.name.epoch) /\ r.since <= s.since
      BY <1>4, <2>1
    <3>2. s \notin Due(M.retired, t)
      <4>1. ~(t - r.since >= RetireAge) /\ r.since \in Nat /\ s.since \in Nat /\ RetireAge \in Nat
        BY <1>4, <2>1, LimitsAssumption DEF Due
      <4> QED BY <3>1, <4>1 DEF Due
    <3> QED BY <3>1, <3>2 DEF Kept
  <2>2. CASE r.name.epoch = M.epoch
    <3>1. proc[p].job = "phase1"
      BY <1>2, <2>2
    <3>2. M.epoch # 0 => new = {GenDir(M.epoch)}
      BY <3>1 DEF Superseded
    <3>3. M.epoch # 0
      <4>1. M.epoch = 0 => M.retired = {} /\ new = {}
        BY <3>1 DEF Listed, Superseded
      <4> QED BY <1>6, <4>1
    <3>4. [name |-> GenDir(M.epoch), since |-> t] \in keep
      BY <3>2, <3>3 DEF Kept
    <3>5. r.since <= t
      BY <1>1, <1>7, <3>1
    <3> QED BY <2>2, <3>4, <3>5
  <2>3. CASE r.name \in new
    BY <1>5, <2>2, <2>3
  <2> QED BY <1>6, <2>1, <2>2, <2>3
<1>12. \A r \in k.retired : r \in keep /\ r.name.epoch \notin Excess(keep)
  BY DEF StillRetired
<1>13. \A s \in keep : s.name.epoch \notin Excess(keep) => s \in k.retired
  BY DEF StillRetired
<1>14. \A r \in k.retired : r.name.epoch # k.epoch =>
           \E s \in k.retired : s.name = GenDir(r.name.epoch) /\ r.since <= s.since
  <2> SUFFICES ASSUME NEW r \in k.retired, r.name.epoch # k.epoch
               PROVE  \E s \in k.retired : s.name = GenDir(r.name.epoch) /\ r.since <= s.since
    OBVIOUS
  <2>1. PICK s \in keep : s.name = GenDir(r.name.epoch) /\ r.since <= s.since
    BY <1>11, <1>12
  <2>2. s.name.epoch = r.name.epoch
    BY <2>1 DEF GenDir, File
  <2> QED BY <1>12, <1>13, <2>1, <2>2
\* Few builds stay retired.
<1>15. IsFiniteSet(Builds(k.retired)) /\ Cardinality(Builds(k.retired)) <= RetiredBuilds
  <2>1. Builds(keep) \subseteq E
    <3> HIDE DEF E, keep
    <3> QED BY <1>7 DEF Builds
  <2>2. Builds(keep) \in SUBSET Nat /\ IsFiniteSet(Builds(keep))
    <3> HIDE DEF E, keep
    <3> QED BY <1>9, <2>1, FS_Subset
  <2>3. Builds(k.retired) \in SUBSET Builds(keep)
        /\ \A e \in Builds(k.retired) : e \notin Excess(keep)
    <3> HIDE DEF E, keep
    <3> QED BY <1>12 DEF Builds
  <2>4. \A e \in Builds(k.retired) :
           ~(Cardinality({f \in Builds(keep) : f > e}) >= RetiredBuilds)
    <3> HIDE DEF keep
    <3> QED BY <2>3 DEF Excess
  <2> HIDE DEF E, keep
  <2> QED BY <1>2, <2>2, <2>3, <2>4, FewNewest
<1>16. Listed(k)
  <2>1. \A r \in k.retired : r.since <= clock /\ r.name \in Leavings(r.name.epoch)
    BY <1>7, <1>12
  <2> HIDE DEF keep, E
  <2> QED BY <1>1, <1>14, <1>15, <2>1 DEF Listed
<1> QED BY <1>10, <1>16

\* Whatever the published snapshot accounted for is still accounted for.
LEMMA PrepareSwept ==
    ASSUME IInv, NEW p \in Procs, proc[p].pc = "write", NEW t, NEW k, NEW f,
           Named(k) = Named(proc[p].next), NEW due,
           IF proc[p].job = "mark" THEN k.retired = manifest.retired
           ELSE /\ k.retired = StillRetired(manifest.retired, Superseded(p), t)
                /\ due = ToRemove(manifest.retired, Superseded(p), t),
           \/ f \in Named(manifest)
           \/ \E r \in manifest.retired : Within(f, r.name)
           \/ f \in Named(proc[p].next)
    PROVE  \/ f \in Named(k)
           \/ \E r \in k.retired : Within(f, r.name)
           \/ \E x \in due : Within(f, x)
<1> DEFINE M == manifest
           new == Superseded(p)
           keep == Kept(M.retired, new, t)
<1>1. Follows(p) /\ M.epoch \in Nat /\ M.seq \in 1 .. 2
  BY DEF IInv, TypeOK, Manifest, PublicationSound, WriterSound
<1>2. ASSUME ~(proc[p].job = "mark"), NEW r \in keep, Within(f, r.name)
      PROVE  \/ \E s \in k.retired : Within(f, s.name)
             \/ \E x \in due : Within(f, x)
  BY <1>2 DEF StillRetired, ToRemove
<1>3. CASE \E r \in M.retired : Within(f, r.name)
  <2>1. PICK r \in M.retired : Within(f, r.name)
    BY <1>3
  <2>2. CASE ~(proc[p].job = "mark") /\ r \notin Due(M.retired, t)
    <3>1. r \in keep
      BY <2>2 DEF Kept
    <3> HIDE DEF keep
    <3> QED BY <1>2, <2>1, <2>2, <3>1
  <2>3. CASE ~(proc[p].job = "mark") /\ r \in Due(M.retired, t)
    BY <2>1, <2>3 DEF ToRemove
  <2>4. CASE proc[p].job = "mark"
    BY <2>1, <2>4
  <2> QED BY <2>2, <2>3, <2>4
<1>4. CASE f \in Named(M) /\ f \notin Named(proc[p].next)
  <2>1. ~(proc[p].job = "mark") /\ \E x \in new : Within(f, x)
    <3>1. /\ M.epoch # 0 /\ f.epoch = M.epoch
          /\ \/ f = File(M.epoch, "postings", 1)
             \/ f = File(M.epoch, "files", M.seq)
             \/ f = File(M.epoch, "skipped", M.skipped)
             \/ M.seq = 2 /\ f = File(M.epoch, "symbols", 2)
             \/ \E i \in 1 .. M.deltas : f = File(M.epoch, "delta", i)
      BY <1>4 DEF Named, File
    <3>2. CASE proc[p].job = "phase1"
      <4>1. new = {GenDir(M.epoch)}
        BY <3>1, <3>2 DEF Superseded
      <4> QED BY <3>1, <3>2, <4>1 DEF Within
    <3>3. CASE proc[p].job = "phase2"
      <4>1. new = {File(M.epoch, "files", M.seq)}
        BY <3>3 DEF Superseded
      <4>2. f = File(M.epoch, "files", M.seq)
        BY <1>1, <1>4, <3>1, <3>3 DEF Follows, Named
      <4> QED BY <3>3, <4>1, <4>2 DEF Within
    <3>4. CASE proc[p].job = "delta"
      <4>1. /\ proc[p].next.epoch = M.epoch /\ proc[p].next.seq = M.seq
            /\ proc[p].next.deltas = M.deltas + 1 /\ M.deltas \in Nat
        BY <1>1, <3>4 DEF Follows, IInv, TypeOK, Manifest
      <4>2. f = File(M.epoch, "skipped", M.skipped) /\ proc[p].next.skipped # M.skipped
        BY <1>4, <3>1, <4>1 DEF Named
      <4>3. new = {f}
        BY <3>4, <4>2 DEF Superseded
      <4> QED BY <3>4, <4>3 DEF Within
    <3>5. CASE proc[p].job \in {"stamp", "mark"}
      <4>1. Snap(proc[p].next) = Snap(M) /\ proc[p].next.skipped = M.skipped
        BY <1>1, <3>5 DEF Follows
      <4>2. Named(proc[p].next) = Named(M)
        BY <4>1, SnapParts DEF Named, Snap
      <4> QED BY <1>4, <4>2
    <3> QED BY <1>1, <3>2, <3>3, <3>4, <3>5 DEF Follows
  <2>2. PICK x \in new : Within(f, x)
    BY <2>1
  <2>3. [name |-> x, since |-> t] \in keep
    BY DEF Kept
  <2> HIDE DEF keep
  <2> QED BY <1>2, <2>1, <2>2, <2>3
<1> QED BY <1>3, <1>4

\* The retired list depends on the clock alone, and only grows sound.
LEMMA ListedLater ==
    ASSUME NEW m \in Manifest, Listed(m), clock \in Nat, clock' \in Nat, clock <= clock'
    PROVE  Listed(m)'
BY DEF Listed, Manifest

\* A process outside LOCK, before and after.
LEMMA MovedTidy ==
    ASSUME IInv, TypeOK', TidySound, manifest' = manifest, clock <= clock',
           \/ UNCHANGED <<lock, files, faults>>
           \/ faults' # 0,
           \A p \in Procs :
              \/ proc'[p] = proc[p]
              \/ /\ proc'[p].pc \notin Locked /\ proc'[p].gone = 0
                 /\ proc'[p].pc = "deltaLock" => proc'[p].mine.deltas < DeltaLimit
    PROVE  TidySound'
<1>1. clock \in Nat /\ clock' \in Nat /\ manifest \in Manifest
  BY DEF IInv, TypeOK
<1>2. (manifest.deltas <= DeltaLimit /\ Listed(manifest))'
  BY <1>1, ListedLater DEF TidySound
<1>3. ASSUME NEW p \in Procs PROVE TidyHolder(p)'
  <2>1. CASE proc'[p] = proc[p]
    <3>1. TidyHolder(p) /\ proc[p].next \in Manifest
      BY DEF TidySound, IInv, TypeOK, Process
    <3>2. Listed(proc[p].next) => Listed(proc[p].next)'
      BY <1>1, <2>1, <3>1, ListedLater DEF Listed
    <3> QED BY <2>1, <3>1, <3>2 DEF TidyHolder, Swept
  <2>2. CASE proc'[p] # proc[p]
    BY <2>2 DEF TidyHolder, Locked
  <2> QED BY <2>1, <2>2
<1>4. (faults = 0 /\ lock = NoProc => Swept(manifest, {}))'
  BY DEF TidySound, Swept
<1> QED BY <1>2, <1>3, <1>4 DEF TidySound

\* The steps of the process under LOCK.
LEMMA HolderTidy ==
    ASSUME IInv, TypeOK', TidySound, NEW p \in Procs, proc[p].pc \in Locked,
           proc' = [proc EXCEPT ![p] = proc'[p]], UNCHANGED <<clock, faults>>,
           lock' = p \/ Swept(manifest, {})' \/ faults # 0,
           (manifest.deltas <= DeltaLimit /\ Listed(manifest))', TidyHolder(p)'
    PROVE  TidySound'
<1>1. \A q \in Procs \ {p} : proc'[q] = proc[q] /\ proc[q].pc \notin Locked
  BY DEF IInv, TypeOK
<1>2. ASSUME NEW q \in Procs \ {p} PROVE TidyHolder(q)'
  <2>1. TidyHolder(q)
    BY DEF TidySound
  <2> QED BY <1>1, <2>1 DEF TidyHolder, Locked
<1>3. p # NoProc
  BY ProcessesAssumption DEF Procs
<1> QED BY <1>2, <1>3 DEF TidySound

\* A process takes LOCK with the files of the snapshot it will publish.
LEMMA BeginTidy ==
    ASSUME IInv, TypeOK', TidySound, NEW p \in Procs, NEW job,
           NEW m, NEW new, Begin(p, job, m, new),
           UNCHANGED <<clock, manifest, files, faults>>,
           m.deltas <= DeltaLimit, new \subseteq Named(m), proc[p].pc # "clean"
    PROVE  TidySound'
<1>1. /\ proc' = [proc EXCEPT ![p] = [proc[p] EXCEPT !.pc = "write", !.job = job,
                                       !.next = m, !.todo = new]]
      /\ lock = NoProc /\ lock' = p /\ p # NoProc
  BY ProcessesAssumption DEF Begin, Become, Procs
<1>2. /\ \A q \in Procs \ {p} : proc'[q] = proc[q]
      /\ proc'[p].pc = "write" /\ proc'[p].next = m /\ proc'[p].todo = new
      /\ proc'[p].gone = proc[p].gone
  BY <1>1 DEF IInv, TypeOK, Process
<1>3. TidyHolder(p)'
  <2>1. proc[p].gone = 0 /\ (faults = 0 => Swept(manifest, {}))
    BY <1>1 DEF TidySound, TidyHolder
  <2>2. faults = 0 => Swept(manifest, Named(m))'
    BY <2>1 DEF Swept
  <2> QED BY <1>2, <2>1, <2>2 DEF TidyHolder
<1>4. ASSUME NEW q \in Procs \ {p} PROVE TidyHolder(q)'
  <2>1. TidyHolder(q)
    BY DEF TidySound
  <2> QED BY <1>2, <2>1 DEF TidyHolder, Swept, Listed
<1> QED BY <1>1, <1>3, <1>4 DEF TidySound, Listed

LEMMA WriteTidy ==
    ASSUME IInv, TypeOK', TidySound, NEW p \in Procs, Write(p)
    PROVE  TidySound'
<1>1. PICK f \in proc[p].todo :
        /\ proc[p].pc = "write" /\ files' = files \cup {f}
        /\ Become(p, [proc[p] EXCEPT !.todo = @ \ {f}])
        /\ UNCHANGED <<clock, lock, manifest, made, faults>>
  BY DEF Write
<1>2. /\ proc[p] \in Process /\ proc[p].pc \in Locked /\ lock = p
      /\ TidyHolder(p) /\ Listed(manifest) /\ manifest.deltas <= DeltaLimit
  BY <1>1 DEF IInv, TypeOK, Locked, TidySound
<1>3. /\ proc'[p].pc = "write" /\ proc'[p].next = proc[p].next /\ proc'[p].gone = proc[p].gone
      /\ proc'[p].todo = proc[p].todo \ {f}
      /\ proc' = [proc EXCEPT ![p] = proc'[p]]
  BY <1>1, <1>2 DEF Become, IInv, TypeOK, Process
<1>4. faults = 0 => Swept(manifest, Named(proc[p].next))'
  <2> SUFFICES ASSUME faults = 0, NEW g \in files'
               PROVE  \/ g \in Named(manifest)
                      \/ \E r \in manifest.retired : Within(g, r.name)
                      \/ \E x \in Named(proc[p].next) : Within(g, x)
    BY <1>1, <1>3 DEF Swept
  <2>1. CASE g = f
    BY <1>1, <1>2, <2>1 DEF TidyHolder, Within
  <2>2. CASE g \in files
    BY <1>1, <1>2, <2>2 DEF TidyHolder, Swept
  <2> QED BY <1>1, <2>1, <2>2
<1>5. TidyHolder(p)'
  BY <1>1, <1>2, <1>3, <1>4 DEF TidyHolder
<1>6. Listed(manifest)'
  BY <1>1, <1>2 DEF Listed
<1> QED BY <1>1, <1>2, <1>3, <1>5, <1>6, HolderTidy

LEMMA PrepareTidy ==
    ASSUME IInv, TypeOK', GraceSound, TidySound, NEW p \in Procs, Prepare(p)
    PROVE  TidySound'
<1> DEFINE t == RetireTime(p)
           mark == proc[p].job = "mark"
           old == IF mark THEN manifest.retired
                  ELSE StillRetired(manifest.retired, Superseded(p), t)
           due == IF mark THEN {}
                  ELSE ToRemove(manifest.retired, Superseded(p), t)
<1>1. /\ proc[p].pc = "write"
      /\ Become(p, [proc[p] EXCEPT !.pc = "publish", !.now = t,
                                   !.next.retired = old, !.due = due])
      /\ UNCHANGED <<clock, lock, manifest, files, torn, made, faults>>
  BY DEF Prepare
<1>2. /\ proc[p] \in Process /\ proc[p].pc \in Locked /\ lock = p
      /\ TidyHolder(p) /\ Listed(manifest) /\ manifest.deltas <= DeltaLimit
      /\ t \in Nat /\ t <= clock /\ (proc[p].job # "stamp" => t = clock)
  BY <1>1 DEF IInv, TypeOK, Process, Locked, TidySound, RetireTime, GraceSound
<1>k. PICK k, d : k = proc'[p].next /\ d = due
  OBVIOUS
<1>3. /\ proc'[p].pc = "publish" /\ proc'[p].due = due /\ proc'[p].gone = proc[p].gone
      /\ k \in Manifest /\ k.retired = old /\ k.epoch = proc[p].next.epoch
      /\ k.seq = proc[p].next.seq /\ k.deltas = proc[p].next.deltas
      /\ k.skipped = proc[p].next.skipped
      /\ proc' = [proc EXCEPT ![p] = proc'[p]]
  <2>1. proc'[p] \in Process
    BY DEF TypeOK
  <2> HIDE DEF t, old, due
  <2> QED BY <1>k, <1>1, <1>2, <2>1 DEF Become, IInv, TypeOK, Process, Manifest
<1>4. Named(k) = Named(proc[p].next)
  BY <1>3 DEF Named
<1>5. Listed(k) /\ Room(due, 0)
  <2>1. CASE mark
    <3>1. Room({}, 0)
      BY FS_EmptySet DEF Room
    <3>2. k.epoch = manifest.epoch /\ k.retired = manifest.retired
      <4>1. Follows(p)
        BY <1>1 DEF IInv, PublicationSound, WriterSound
      <4> QED BY <1>3, <2>1, <4>1, SnapParts DEF Follows
    <3>3. Listed(k)
      BY <1>2, <3>2 DEF Listed
    <3> QED BY <2>1, <3>1, <3>3
  <2>2. CASE ~mark
    <3>1. k.retired = StillRetired(manifest.retired, Superseded(p), t)
      BY <1>3, <2>2
    <3>2. proc[p].next.deltas <= DeltaLimit
      BY <1>1, <1>2 DEF TidyHolder
    <3> HIDE DEF t
    <3> QED BY <1>1, <1>2, <1>3, <2>2, <3>1, <3>2, RetireTidy
  <2> QED BY <2>1, <2>2
<1>6. faults = 0 => Swept(k, due)
  <2> SUFFICES ASSUME faults = 0, NEW f \in files
               PROVE  \/ f \in Named(k)
                      \/ \E r \in k.retired : Within(f, r.name)
                      \/ \E x \in due : Within(f, x)
    BY DEF Swept
  <2>1. \/ f \in Named(manifest)
        \/ \E r \in manifest.retired : Within(f, r.name)
        \/ f \in Named(proc[p].next)
    <3>1. \/ f \in Named(manifest)
          \/ \E r \in manifest.retired : Within(f, r.name)
          \/ \E x \in Named(proc[p].next) : Within(f, x)
      BY <1>1, <1>2 DEF TidyHolder, Swept
    <3>2. ASSUME NEW x \in Named(proc[p].next), Within(f, x) PROVE f = x
      BY <3>2 DEF Named, File, Within, GenDir
    <3> QED BY <3>1, <3>2
  <2>2. IF mark THEN k.retired = manifest.retired
        ELSE /\ k.retired = StillRetired(manifest.retired, Superseded(p), t)
             /\ due = ToRemove(manifest.retired, Superseded(p), t)
    BY <1>3
  <2> HIDE DEF t, old, due
  <2> QED BY <1>1, <1>4, <2>1, <2>2, PrepareSwept
<1> HIDE DEF due, old, t
<1>7. TidyHolder(p)'
  <2>1. Listed(k)' /\ proc'[p].next = k /\ proc[p].gone = 0
    BY <1>k, <1>1, <1>2, <1>5 DEF Listed, TidyHolder
  <2>2. faults = 0 => Swept(k, d)'
    BY <1>k, <1>1, <1>6 DEF Swept
  <2>3. k.deltas <= DeltaLimit
    BY <1>1, <1>2, <1>3 DEF TidyHolder
  <2>4. proc'[p].due = d
    BY <1>k, <1>3
  <2>5. (faults = 0 => Swept(proc[p].next, proc[p].due))' /\ Listed(proc[p].next)'
    BY <1>1, <2>1, <2>2, <2>4 DEF Swept, Listed
  <2> QED BY <1>3, <1>5, <2>1, <2>3, <2>5 DEF TidyHolder
<1>8. (manifest.deltas <= DeltaLimit /\ Listed(manifest))' /\ lock' = p
  BY <1>1, <1>2 DEF Listed
<1> QED BY <1>1, <1>2, <1>3, <1>7, <1>8, HolderTidy

LEMMA PublishTidy ==
    ASSUME IInv, TypeOK', TidySound, NEW p \in Procs, Publish(p)
    PROVE  TidySound'
<1>1. /\ proc[p].pc = "publish" /\ manifest' = proc[p].next
      /\ Become(p, [proc[p] EXCEPT !.pc = "clean",
                       !.mine = IF p \in Builders THEN proc[p].next ELSE @])
      /\ UNCHANGED <<clock, lock, files, torn, made, faults>>
  BY DEF Publish
<1>2. /\ proc[p] \in Process /\ proc[p].pc \in Locked /\ lock = p /\ TidyHolder(p)
  BY <1>1 DEF IInv, TypeOK, Locked, TidySound
<1>3. /\ proc'[p].pc = "clean" /\ proc'[p].due = proc[p].due /\ proc'[p].gone = proc[p].gone
      /\ proc' = [proc EXCEPT ![p] = proc'[p]]
  BY <1>1, <1>2 DEF Become, IInv, TypeOK, Process
<1>4. (manifest.deltas <= DeltaLimit /\ Listed(manifest))'
  BY <1>1, <1>2 DEF TidyHolder, Listed
<1>5. TidyHolder(p)'
  BY <1>1, <1>2, <1>3 DEF TidyHolder, Swept
<1> QED BY <1>1, <1>2, <1>3, <1>4, <1>5, HolderTidy

LEMMA CleanTidy ==
    ASSUME IInv, TypeOK', TidySound, NEW p \in Procs, Clean(p)
    PROVE  TidySound'
<1>1. PICK x \in proc[p].due :
        LET victims == {f \in files : Within(f, x)}
        IN  /\ proc[p].pc = "clean" /\ files' = files \ victims
            /\ Become(p, [proc[p] EXCEPT !.due = @ \ {x},
                            !.gone = IF victims = {} THEN @ ELSE @ + 1])
            /\ UNCHANGED <<clock, lock, manifest, made, faults>>
  BY DEF Clean
<1> DEFINE victims == {f \in files : Within(f, x)}
           gone == IF victims = {} THEN proc[p].gone ELSE proc[p].gone + 1
           rest == proc[p].due \ {x}
<1>d. PICK d : d = rest
  OBVIOUS
<1>2. /\ proc[p] \in Process /\ proc[p].pc \in Locked /\ lock = p /\ TidyHolder(p)
      /\ Listed(manifest) /\ manifest.deltas <= DeltaLimit
  BY <1>1 DEF IInv, TypeOK, Locked, TidySound
<1>3. /\ proc'[p].pc = "clean" /\ proc'[p].due = rest /\ proc'[p].gone = gone
      /\ proc' = [proc EXCEPT ![p] = proc'[p]]
  <2>1. Become(p, [proc[p] EXCEPT !.due = rest, !.gone = gone])
    BY <1>1
  <2>2. proc' = [proc EXCEPT ![p] = [proc[p] EXCEPT !.due = rest, !.gone = gone]]
    BY <2>1 DEF Become
  <2> HIDE DEF rest, gone
  <2>3. proc'[p] = [proc[p] EXCEPT !.due = rest, !.gone = gone]
        /\ proc' = [proc EXCEPT ![p] = proc'[p]]
    BY <2>2 DEF IInv, TypeOK
  <2>4. proc[p].pc = "clean"
    BY <1>1
  <2> QED BY <1>2, <2>3, <2>4 DEF Process
<1>4. Room(rest, gone)
  <2>1. /\ IsFiniteSet(proc[p].due) /\ proc[p].gone + Cardinality(proc[p].due) <= MaxRemovals
        /\ proc[p].gone \in Nat /\ MaxRemovals \in Nat
    BY <1>1, <1>2, LimitsAssumption DEF TidyHolder, Room, Process
  <2>2. Cardinality(proc[p].due) \in Nat
    BY <2>1, FS_CardinalityType
  <2>3. IsFiniteSet(rest) /\ Cardinality(rest) = Cardinality(proc[p].due) - 1
    BY <2>1, FS_RemoveElement
  <2>4. gone <= proc[p].gone + 1 /\ gone \in Nat
    BY <2>1
  <2> HIDE DEF gone, rest
  <2> QED BY <2>1, <2>2, <2>3, <2>4 DEF Room
<1>5. faults = 0 => Swept(manifest, d)'
  <2>1. ASSUME faults = 0, NEW f \in files, ~Within(f, x)
        PROVE  \/ f \in Named(manifest)
               \/ \E r \in manifest.retired : Within(f, r.name)
               \/ \E y \in d : Within(f, y)
    <3>1. Swept(manifest, proc[p].due)
      BY <1>1, <1>2, <2>1 DEF TidyHolder
    <3> QED BY <1>d, <2>1, <3>1 DEF Swept
  <2>2. ASSUME NEW f \in files' PROVE f \in files /\ ~Within(f, x)
    BY <1>1
  <2>3. manifest' = manifest /\ faults' = faults
    BY <1>1
  <2> QED BY <2>1, <2>2, <2>3 DEF Swept
<1> HIDE DEF rest, gone
<1>6. TidyHolder(p)'
  <2>0. proc'[p].due = d /\ faults' = faults
    BY <1>d, <1>1, <1>3
  <2>1. (faults = 0 => Swept(manifest, proc[p].due))'
    BY <1>5, <2>0 DEF Swept
  <2> QED BY <1>3, <1>4, <2>1 DEF TidyHolder
<1>7. (manifest.deltas <= DeltaLimit /\ Listed(manifest))'
  BY <1>1, <1>2 DEF Listed
<1> QED BY <1>1, <1>2, <1>3, <1>6, <1>7, HolderTidy

LEMMA CleanOrphanTidy ==
    ASSUME IInv, TypeOK', TidySound, NEW b \in Builders, CleanOrphan(b)
    PROVE  TidySound'
<1>1. /\ proc[b].pc = "clean" /\ proc[b].due = {} /\ files' \subseteq files
      /\ Become(b, [proc[b] EXCEPT !.gone = @ + 1])
      /\ UNCHANGED <<clock, lock, manifest, made, faults>>
  BY DEF CleanOrphan
<1>2. /\ b \in Procs /\ proc[b] \in Process /\ proc[b].pc \in Locked /\ lock = b
      /\ TidyHolder(b) /\ Listed(manifest) /\ manifest.deltas <= DeltaLimit
  BY <1>1 DEF IInv, TypeOK, Locked, TidySound, Procs
<1>3. /\ proc'[b].pc = "clean" /\ proc'[b].due = {}
      /\ proc' = [proc EXCEPT ![b] = proc'[b]]
  BY <1>1, <1>2 DEF Become, IInv, TypeOK, Process
<1>4. TidyHolder(b)'
  <2>1. Room(proc[b].due, proc[b].gone)'
    BY <1>3, FS_EmptySet DEF Room
  <2>2. (faults = 0 => Swept(manifest, proc[b].due))'
    BY <1>1, <1>2, <1>3 DEF Swept, TidyHolder
  <2> QED BY <1>3, <2>1, <2>2 DEF TidyHolder
<1>5. (manifest.deltas <= DeltaLimit /\ Listed(manifest))'
  BY <1>1, <1>2 DEF Listed
<1> QED BY <1>1, <1>2, <1>3, <1>4, <1>5, HolderTidy

\* The pass ends with everything removed that was due: it never stops for want
\* of removals.
LEMMA ReleaseTidy ==
    ASSUME IInv, TypeOK', TidySound, NEW p \in Procs, Release(p)
    PROVE  TidySound'
<1>1. /\ proc[p].pc = "clean" /\ (proc[p].due = {} \/ proc[p].gone >= MaxRemovals)
      /\ lock' = NoProc /\ (Become(p, Onward(p)) \/ Become(p, Idle))
      /\ UNCHANGED <<clock, manifest, files, torn, made, faults>>
  BY DEF Release
<1>2. /\ proc[p] \in Process /\ proc[p].pc \in Locked /\ lock = p /\ TidyHolder(p)
      /\ Listed(manifest) /\ manifest.deltas <= DeltaLimit
  BY <1>1 DEF IInv, TypeOK, Locked, TidySound
<1>3. proc[p].due = {}
  <2> SUFFICES ASSUME proc[p].due # {} PROVE FALSE
    OBVIOUS
  <2>1. /\ IsFiniteSet(proc[p].due) /\ proc[p].gone + Cardinality(proc[p].due) <= MaxRemovals
        /\ proc[p].gone \in Nat /\ MaxRemovals \in Nat /\ proc[p].gone >= MaxRemovals
    BY <1>1, <1>2, LimitsAssumption DEF TidyHolder, Room, Process
  <2>2. Cardinality(proc[p].due) \in Nat /\ Cardinality(proc[p].due) # 0
    BY <2>1, FS_CardinalityType, FS_EmptySet
  <2> QED BY <2>1, <2>2
<1>4. faults = 0 => Swept(manifest, {})'
  BY <1>1, <1>2, <1>3 DEF TidyHolder, Swept
<1>5. /\ proc'[p].pc \in {"idle", "parse", "read", "spawn"} /\ proc'[p].gone = 0
      /\ proc' = [proc EXCEPT ![p] = proc'[p]]
  <2>1. Idle.pc = "idle" /\ Idle.gone = 0
    BY DEF Idle
  <2>2. Onward(p).pc \in {"idle", "parse", "read", "spawn"} /\ Onward(p).gone = 0
    BY <2>1 DEF Onward, Idle
  <2> QED BY <1>1, <2>1, <2>2 DEF Become, IInv, TypeOK
<1>6. TidyHolder(p)'
  BY <1>5 DEF TidyHolder
<1>7. (manifest.deltas <= DeltaLimit /\ Listed(manifest))'
  BY <1>1, <1>2 DEF Listed
<1> QED BY <1>1, <1>2, <1>4, <1>5, <1>6, <1>7, HolderTidy

\* One process outside LOCK moves on.
LEMMA QuietTidy ==
    ASSUME IInv, TypeOK', TidySound, NEW p \in Procs, NEW r, Become(p, r),
           r.pc \notin Locked, r.gone = 0,
           r.pc = "deltaLock" => r.mine.deltas < DeltaLimit,
           UNCHANGED <<clock, manifest>>, UNCHANGED <<lock, files, faults>> \/ faults' # 0
    PROVE  TidySound'
<1>1. \A q \in Procs : proc'[q] = IF q = p THEN r ELSE proc[q]
  BY DEF Become, IInv, TypeOK
<1>2. clock <= clock'
  BY DEF IInv, TypeOK
<1> QED BY <1>1, <1>2, MovedTidy

LEMMA QueryQuietTidy ==
    ASSUME IInv, TypeOK', TidySound, NEW q \in Queries,
           \/ StartQuery(q) \/ ReadManifest(q) \/ OpenFile(q) \/ OpenFails(q)
           \/ Retry(q) \/ Opened(q) \/ Answer(q) \/ Check(q)
           \/ ApplyNothing(q) \/ FindCorrupt(q) \/ MarkNothing(q)
    PROVE  TidySound'
<1>1. /\ q \in Procs /\ proc[q] \in Process /\ faults \in Nat
      /\ proc[q].pc # "clean" => proc[q].gone = 0
  BY DEF Procs, IInv, TypeOK, TidySound, TidyHolder
<1>2. Idle.pc = "idle" /\ Idle.gone = 0
  BY DEF Idle
<1>3. Failed(q).pc \in {"idle", "markLock", "spawn"} /\ Failed(q).gone = 0
  BY DEF Failed, Idle
<1>4. CASE StartQuery(q)
  <2>1. [Idle EXCEPT !.pc = "read"].pc = "read" /\ [Idle EXCEPT !.pc = "read"].gone = 0
    BY DEF Idle
  <2> QED BY <1>1, <1>4, <2>1, QuietTidy DEF StartQuery, Locked
<1>5. CASE ReadManifest(q)
  <2> DEFINE r == [proc[q] EXCEPT !.mine = manifest, !.now = clock,
                              !.pc = IF manifest.ok THEN "open" ELSE "retry",
                              !.todo = IF manifest.ok THEN Named(manifest) ELSE {}]
  <2>1. proc[q].pc = "read" /\ UNCHANGED <<clock, lock, manifest, files, torn, made, faults>>
        /\ (Become(q, Failed(q)) \/ Become(q, r))
    BY <1>5 DEF ReadManifest
  <2>2. r.pc \in {"open", "retry"} /\ r.gone = 0
    BY <1>1, <2>1 DEF Process
  <2> HIDE DEF r
  <2> QED BY <1>1, <1>3, <2>1, <2>2, QuietTidy DEF Locked
<1>6. CASE OpenFile(q)
  <2>1. PICK f \in proc[q].todo : Become(q, [proc[q] EXCEPT !.todo = @ \ {f}])
    BY <1>6 DEF OpenFile
  <2> DEFINE r == [proc[q] EXCEPT !.todo = @ \ {f}]
  <2>2. proc[q].pc = "open" /\ UNCHANGED <<clock, lock, manifest, files, torn, made, faults>>
    BY <1>6 DEF OpenFile
  <2>3. r.pc = "open" /\ r.gone = 0
    BY <1>1, <2>2 DEF Process
  <2>4. Become(q, r)
    BY <2>1
  <2> HIDE DEF r
  <2> QED BY <1>1, <2>2, <2>3, <2>4, QuietTidy DEF Locked
<1>7. CASE OpenFails(q)
  <2>1. PICK f \in proc[q].todo :
          Become(q, [proc[q] EXCEPT !.pc = "retry", !.todo = {},
                        !.job = IF f \in torn THEN "corrupt" ELSE @])
    BY <1>7 DEF OpenFails
  <2> DEFINE r == [proc[q] EXCEPT !.pc = "retry", !.todo = {},
                        !.job = IF f \in torn THEN "corrupt" ELSE @]
  <2>2. proc[q].pc = "open" /\ UNCHANGED <<clock, lock, manifest, files, torn, made, faults>>
    BY <1>7 DEF OpenFails
  <2>3. r.pc = "retry" /\ r.gone = 0
    BY <1>1, <2>2 DEF Process
  <2>4. Become(q, r)
    BY <2>1
  <2> HIDE DEF r
  <2> QED BY <1>1, <2>2, <2>3, <2>4, QuietTidy DEF Locked
<1>8. CASE Retry(q)
  <2> DEFINE r == [proc[q] EXCEPT !.pc = "read", !.tries = @ + 1]
  <2>1. proc[q].pc = "retry" /\ UNCHANGED <<clock, lock, manifest, files, torn, made, faults>>
        /\ (Become(q, Failed(q)) \/ Become(q, r))
    BY <1>8 DEF Retry
  <2>2. r.pc = "read" /\ r.gone = 0
    BY <1>1, <2>1 DEF Process
  <2> HIDE DEF r
  <2> QED BY <1>1, <1>3, <2>1, <2>2, QuietTidy DEF Locked
<1>9. CASE Opened(q)
  <2> DEFINE r == [proc[q] EXCEPT !.pc = "opened", !.job = "none", !.tries = 0]
  <2>1. proc[q].pc = "open" /\ UNCHANGED <<clock, lock, manifest, files, torn, made, faults>>
        /\ Become(q, r)
    BY <1>9 DEF Opened
  <2>2. r.pc = "opened" /\ r.gone = 0
    BY <1>1, <2>1 DEF Process
  <2> HIDE DEF r
  <2> QED BY <1>1, <2>1, <2>2, QuietTidy DEF Locked
<1>10. CASE Answer(q)
  BY <1>1, <1>2, <1>10, QuietTidy DEF Answer, Locked
<1>11. CASE Check(q)
  <2>1. PICK pc \in {"stampLock", "spawn"}
                 \cup {x \in {"deltaLock"} : proc[q].mine.deltas < DeltaLimit} :
          Become(q, [proc[q] EXCEPT !.pc = pc, !.now = clock])
    BY <1>11 DEF Check
  <2> DEFINE r == [proc[q] EXCEPT !.pc = pc, !.now = clock]
  <2>2. proc[q].pc = "opened" /\ UNCHANGED <<clock, lock, manifest, files, torn, made, faults>>
    BY <1>11 DEF Check
  <2>3. r.pc = pc /\ r.gone = 0 /\ r.mine = proc[q].mine
    BY <1>1, <2>2 DEF Process
  <2>4. Become(q, r)
    BY <2>1
  <2>5. pc \notin Locked /\ (pc = "deltaLock" => proc[q].mine.deltas < DeltaLimit)
    BY DEF Locked
  <2> HIDE DEF r
  <2> QED BY <1>1, <2>2, <2>3, <2>4, <2>5, QuietTidy
<1>12. CASE ApplyNothing(q)
  <2> DEFINE r == [Idle EXCEPT !.pc = "read", !.round = proc[q].round + 1]
  <2>1. UNCHANGED <<clock, lock, manifest, files, torn, made, faults>>
        /\ (Become(q, Idle) \/ Become(q, r))
    BY <1>12 DEF ApplyNothing
  <2>2. r.pc = "read" /\ r.gone = 0
    BY DEF Idle
  <2> HIDE DEF r
  <2> QED BY <1>1, <1>2, <2>1, <2>2, QuietTidy DEF Locked
<1>13. CASE FindCorrupt(q)
  <2> DEFINE r == [Idle EXCEPT !.pc = "markLock", !.mine = proc[q].mine]
  <2>1. UNCHANGED <<clock, manifest>> /\ Become(q, r) /\ faults' # 0
    BY <1>1, <1>13 DEF FindCorrupt
  <2>2. r.pc = "markLock" /\ r.gone = 0
    BY DEF Idle
  <2> HIDE DEF r
  <2> QED BY <1>1, <2>1, <2>2, QuietTidy DEF Locked
<1>14. CASE MarkNothing(q)
  <2>1. UNCHANGED <<clock, lock, manifest, files, torn, made, faults>>
        /\ (Become(q, Idle) \/ Become(q, [Idle EXCEPT !.pc = "spawn"]))
    BY <1>14 DEF MarkNothing
  <2>2. [Idle EXCEPT !.pc = "spawn"].pc = "spawn" /\ [Idle EXCEPT !.pc = "spawn"].gone = 0
    BY DEF Idle
  <2> QED BY <1>1, <1>2, <2>1, <2>2, QuietTidy DEF Locked
<1> QED BY <1>4, <1>5, <1>6, <1>7, <1>8, <1>9, <1>10, <1>11, <1>12, <1>13, <1>14

\* A writer takes LOCK.
LEMMA TakeTidy ==
    ASSUME IInv, TypeOK', TidySound, NEW p \in Procs,
           \/ p \in Builders /\ (BuildPhase1(p) \/ BuildPhase2(p))
           \/ p \in Queries /\ (ApplyStamp(p) \/ ApplyDelta(p) \/ MarkCorrupt(p))
    PROVE  TidySound'
<1>1. /\ proc[p] \in Process /\ manifest \in Manifest /\ made \in Nat /\ TidyHolder(p)
      /\ manifest.deltas <= DeltaLimit /\ DeltaLimit \in Nat
  BY LimitsAssumption DEF IInv, TypeOK, TidySound
<1>2. CASE BuildPhase1(p)
  <2> DEFINE m == [NoManifest EXCEPT !.epoch = made + 1, !.ok = TRUE,
                                     !.noIno = manifest.noIno]
  <2>1. Begin(p, "phase1", m, Named(m)) /\ UNCHANGED <<clock, manifest, files, faults>>
        /\ proc[p].pc = "walk"
    BY <1>2 DEF BuildPhase1
  <2>2. m.deltas <= DeltaLimit
    BY <1>1 DEF NoManifest
  <2> HIDE DEF m
  <2> QED BY <2>1, <2>2, BeginTidy
<1>3. CASE p \in Builders /\ BuildPhase2(p)
  <2> DEFINE e == proc[p].mine.epoch
             m == [proc[p].mine EXCEPT !.seq = 2, !.deltas = manifest.deltas,
                                       !.skipped = manifest.skipped]
             new == {File(e, "symbols", 2), File(e, "files", 2)}
  <2>1. Begin(p, "phase2", m, new) /\ UNCHANGED <<clock, manifest, files, faults>>
        /\ proc[p].pc = "parse"
    BY <1>3 DEF BuildPhase2
  <2>2. m.deltas = manifest.deltas /\ m.epoch = e /\ m.seq = 2
    BY <1>1 DEF Process, Manifest
  <2>3. e # 0
    <3>1. BuildSound(p)
      BY <1>3 DEF IInv, PublicationSound
    <3> QED BY <1>1, <2>1, <3>1 DEF BuildSound, Claims, Claim
  <2> HIDE DEF m, e
  <2>4. new \subseteq Named(m)
    BY <2>2, <2>3 DEF Named
  <2> HIDE DEF new
  <2> QED BY <1>1, <2>1, <2>2, <2>4, BeginTidy
<1>4. CASE ApplyStamp(p)
  <2>1. PICK found \in InodeChecks :
           Begin(p, "stamp", [manifest EXCEPT !.noIno = @ \/ found], {})
    BY <1>4 DEF ApplyStamp
  <2> DEFINE m == [manifest EXCEPT !.noIno = @ \/ found]
  <2>2. Begin(p, "stamp", m, {}) /\ UNCHANGED <<clock, manifest, files, faults>>
        /\ proc[p].pc = "stampLock"
    BY <1>4, <2>1 DEF ApplyStamp
  <2>3. m.deltas = manifest.deltas
    BY <1>1 DEF Manifest
  <2> HIDE DEF m
  <2> QED BY <1>1, <2>2, <2>3, BeginTidy
<1>5. CASE ApplyDelta(p)
  <2> DEFINE n == proc[p].mine.deltas + 1
  <2>1. PICK found \in InodeChecks, skips \in BOOLEAN :
              Begin(p, "delta",
                    [manifest EXCEPT !.deltas = n, !.noIno = @ \/ found,
                                     !.skipped = IF skips THEN n ELSE @],
                    {File(manifest.epoch, "delta", n)}
                    \cup (IF skips THEN {File(manifest.epoch, "skipped", n)} ELSE {}))
    BY <1>5 DEF ApplyDelta
  <2> DEFINE m == [manifest EXCEPT !.deltas = n, !.noIno = @ \/ found,
                                   !.skipped = IF skips THEN n ELSE @]
             new == {File(manifest.epoch, "delta", n)}
                    \cup (IF skips THEN {File(manifest.epoch, "skipped", n)} ELSE {})
  <2>2. Begin(p, "delta", m, new) /\ UNCHANGED <<clock, manifest, files, faults>>
        /\ proc[p].pc = "deltaLock" /\ manifest.epoch # 0
    BY <1>5, <2>1 DEF ApplyDelta, SameIndex
  <2>3. n \in Nat /\ n >= 1 /\ n <= DeltaLimit
    BY <1>1, <2>2 DEF TidyHolder, Process, Manifest
  <2> HIDE DEF n
  <2>4. /\ m.deltas = n /\ m.epoch = manifest.epoch
        /\ skips => m.skipped = n
    BY <1>1 DEF Manifest
  <2> HIDE DEF m
  <2>5. File(manifest.epoch, "delta", n) \in Named(m)
    BY <2>2, <2>3, <2>4 DEF Named
  <2>6. skips => File(manifest.epoch, "skipped", n) \in Named(m)
    BY <2>2, <2>4 DEF Named
  <2>7. new \subseteq Named(m)
    BY <2>5, <2>6
  <2> HIDE DEF new
  <2> QED BY <2>2, <2>3, <2>4, <2>7, BeginTidy
<1>6. CASE MarkCorrupt(p)
  <2> DEFINE m == [manifest EXCEPT !.ok = FALSE]
  <2>1. Begin(p, "mark", m, {}) /\ UNCHANGED <<clock, manifest, files, faults>>
        /\ proc[p].pc = "markLock"
    BY <1>6 DEF MarkCorrupt
  <2>2. m.deltas = manifest.deltas
    BY <1>1 DEF Manifest
  <2> HIDE DEF m
  <2> QED BY <1>1, <2>1, <2>2, BeginTidy
<1> QED BY <1>2, <1>3, <1>4, <1>5, <1>6

\* Builds that start or bail, queries that ask for one, and the environment.
LEMMA OutsideTidy ==
    ASSUME IInv, TypeOK', TidySound,
           \/ UNCHANGED vars
           \/ \E b \in Builders : StartBuild(b) \/ BuildBail(b)
           \/ \E q \in Queries : SpawnBuild(q)
           \/ \E p \in Procs : Crash(p)
           \/ PowerLoss \/ Tick
    PROVE  TidySound'
<1>1. faults \in Nat /\ clock \in Nat /\ Idle.pc = "idle" /\ Idle.gone = 0
      /\ [Idle EXCEPT !.pc = "walk"].pc = "walk" /\ [Idle EXCEPT !.pc = "walk"].gone = 0
  BY DEF IInv, TypeOK, Idle
<1>2. CASE UNCHANGED vars
  <2>1. UNCHANGED <<clock, manifest, lock, files, faults, proc>>
    BY <1>2 DEF vars
  <2>2. clock <= clock'
    BY <1>1, <2>1
  <2> QED BY <2>1, <2>2, MovedTidy
<1>3. ASSUME NEW b \in Builders, StartBuild(b) \/ BuildBail(b) PROVE TidySound'
  BY <1>1, <1>3, QuietTidy DEF StartBuild, BuildBail, Procs, Locked
<1>4. ASSUME NEW q \in Queries, SpawnBuild(q) PROVE TidySound'
  <2>1. /\ UNCHANGED <<clock, manifest, lock, files, faults>>
        /\ \/ proc' = [proc EXCEPT ![q] = Idle]
           \/ \E b \in Builders :
                 proc' = [proc EXCEPT ![q] = Idle, ![b] = [Idle EXCEPT !.pc = "walk"]]
    BY <1>4 DEF SpawnBuild, Become
  <2>2. \A p \in Procs : proc'[p] \in {proc[p], Idle, [Idle EXCEPT !.pc = "walk"]}
    BY <2>1 DEF IInv, TypeOK, Procs
  <2>3. clock <= clock'
    BY <1>1, <2>1
  <2> QED BY <1>1, <2>1, <2>2, <2>3, MovedTidy DEF Locked
<1>5. ASSUME NEW p \in Procs, Crash(p) PROVE TidySound'
  BY <1>1, <1>5, QuietTidy DEF Crash, Locked
<1>6. CASE PowerLoss
  <2>1. /\ faults' # 0 /\ clock' = clock /\ manifest' \in {manifest, NoManifest}
        /\ \A p \in Procs : proc'[p] = Idle
    BY <1>1, <1>6 DEF PowerLoss
  <2>2. manifest' = manifest => TidySound'
    <3>1. clock <= clock'
      BY <1>1, <2>1
    <3> QED BY <1>1, <2>1, <3>1, MovedTidy DEF Locked
  <2>3. manifest' = NoManifest => TidySound'
    <3>1. NoManifest.deltas = 0 /\ NoManifest.retired = {} /\ DeltaLimit \in Nat /\ RetiredBuilds \in Nat
      BY LimitsAssumption DEF NoManifest
    <3>2. Builds({}) = {} /\ IsFiniteSet({}) /\ Cardinality({}) = 0
      BY FS_EmptySet DEF Builds
    <3>3. manifest' = NoManifest => (manifest.deltas <= DeltaLimit /\ Listed(manifest))'
      BY <3>1, <3>2 DEF Listed
    <3>4. \A p \in Procs : TidyHolder(p)'
      BY <1>1, <2>1 DEF TidyHolder
    <3> QED BY <2>1, <3>3, <3>4 DEF TidySound
  <2> QED BY <2>1, <2>2, <2>3
<1>7. CASE Tick
  <2>1. UNCHANGED <<manifest, lock, files, faults, proc>> /\ clock <= clock'
    BY <1>1, <1>7 DEF Tick
  <2> QED BY <2>1, MovedTidy
<1> QED BY <1>2, <1>3, <1>4, <1>5, <1>6, <1>7

LEMMA NextTidy ==
    ASSUME IInv, TypeOK', GraceSound, TidySound, [Next]_vars
    PROVE  TidySound'
<1>1. ASSUME NEW p \in Procs, Step(p) PROVE TidySound'
  BY <1>1, WriteTidy, PrepareTidy, PublishTidy, CleanTidy, ReleaseTidy DEF Step
<1>2. ASSUME NEW b \in Builders, StartBuild(b) \/ BuildStep(b) PROVE TidySound'
  BY <1>1, <1>2, OutsideTidy, CleanOrphanTidy, TakeTidy DEF BuildStep, Procs
<1>3. ASSUME NEW q \in Queries, StartQuery(q) \/ QueryStep(q) \/ FindCorrupt(q)
      PROVE  TidySound'
  BY <1>1, <1>3, QueryQuietTidy, TakeTidy, OutsideTidy DEF QueryStep, Procs
<1> QED BY <1>2, <1>3, OutsideTidy DEF Next

\* What the invariant says between publications.
LEMMA TidyMeans ==
    ASSUME IInv, TidySound
    PROVE  NothingLeaks
<1> SUFFICES ASSUME lock = NoProc, faults = 0
             PROVE  /\ \A f \in files :
                          \/ f \in Named(manifest)
                          \/ \E r \in manifest.retired : Within(f, r.name)
                    /\ Cardinality({f.epoch : f \in files}) <= RetiredBuilds + 1
  BY DEF NothingLeaks
<1> DEFINE B == Builds(manifest.retired)
           E == B \cup {manifest.epoch}
           F == {f.epoch : f \in files}
<1>1. \A f \in files : \/ f \in Named(manifest)
                       \/ \E r \in manifest.retired : Within(f, r.name)
  BY DEF TidySound, Swept
<1>2. F \subseteq E
  <2> SUFFICES ASSUME NEW f \in files PROVE f.epoch \in E
    OBVIOUS
  <2>1. CASE f \in Named(manifest)
    BY <2>1 DEF Named, File
  <2>2. ASSUME NEW r \in manifest.retired, Within(f, r.name) PROVE f.epoch \in E
    <3>1. r.name.epoch = f.epoch
      BY <2>2 DEF Within, GenDir, File
    <3>2. CASE r.name.epoch # manifest.epoch
      <4>1. PICK s \in manifest.retired : s.name = GenDir(r.name.epoch)
        BY <3>2 DEF TidySound, Listed
      <4> QED BY <3>1, <4>1 DEF Builds, GenDir, File
    <3> QED BY <3>1, <3>2
  <2> QED BY <1>1, <2>1, <2>2
<1>3. IsFiniteSet(B) /\ Cardinality(B) <= RetiredBuilds /\ RetiredBuilds \in Nat
  BY LimitsAssumption DEF TidySound, Listed
<1>4. Cardinality(B) \in Nat
  BY <1>3, FS_CardinalityType
<1> HIDE DEF B, F
<1>5. IsFiniteSet(E) /\ Cardinality(E) <= RetiredBuilds + 1
  BY <1>3, <1>4, FS_AddElement
<1> HIDE DEF E
<1>6. IsFiniteSet(F) /\ Cardinality(F) <= Cardinality(E)
  BY <1>2, <1>5, FS_Subset
<1>7. Cardinality(F) \in Nat /\ Cardinality(E) \in Nat
  BY <1>5, <1>6, FS_CardinalityType
<1>8. Cardinality(F) <= RetiredBuilds + 1
  BY <1>3, <1>5, <1>6, <1>7
<1> QED BY <1>1, <1>8 DEF F

\* Without faults every file on disk is named or waits in the retired list, and
\* at most RETIRED_BUILDS superseded builds take up space (snapshot.rs `retire`
\* and `clean`): no publication lets more fall due than one pass removes.
THEOREM NothingIsLeftBehind == Spec => []NothingLeaks
<1>1. Init => TidySound
  <2> SUFFICES ASSUME Init PROVE TidySound
    OBVIOUS
  <2>1. \A p \in Procs : proc[p].pc = "idle" /\ proc[p].gone = 0
    BY DEF Init, Idle
  <2>2. manifest.deltas = 0 /\ manifest.retired = {} /\ files = {}
    BY DEF Init, NoManifest
  <2>3. Builds({}) = {} /\ IsFiniteSet({}) /\ Cardinality({}) = 0
    BY FS_EmptySet DEF Builds
  <2>4. DeltaLimit \in Nat /\ RetiredBuilds \in Nat
    BY LimitsAssumption
  <2> QED BY <2>1, <2>2, <2>3, <2>4 DEF TidySound, TidyHolder, Listed, Swept
<1>2. (TypeOK /\ PublicationSound) /\ GraceSound /\ TypeOK' /\ TidySound /\ [Next]_vars => TidySound'
  BY NextTidy DEF IInv
<1>3. TypeOK /\ PublicationSound /\ TidySound => NothingLeaks
  BY TidyMeans DEF IInv
<1> QED BY <1>1, <1>2, <1>3, TypeCorrect, PublicationIsSound, GraceInvariant, PTL DEF Spec

=============================================================================
