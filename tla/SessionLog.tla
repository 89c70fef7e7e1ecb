----------------------------- MODULE SessionLog -----------------------------
(***************************************************************************)
(* The session memory (session.rs, session_store.rs): one log of records   *)
(* per session below `session/`, read without a lock when a run starts and *)
(* appended to under the directory's `.lock` after its answer is written.  *)
(* A run marks implicit context its session has printed before instead of  *)
(* printing it again.                                                      *)
(*                                                                         *)
(* The tree is one file with one block of context: its content is a        *)
(* version number and its mtime is in seconds, as greeg keeps it.  A record *)
(* keeps the mtime of the context it printed (0: none); its query tokens,  *)
(* its file names and what they bias (the focus set, the loop hint) change *)
(* no state and are left out, and so are the ownership and mode checks of  *)
(* private.rs.  Sizes are in units a few of which fill a log.              *)
(***************************************************************************)
EXTENDS Naturals, Sequences, SequencesExt, FiniteSets

CONSTANTS
    Procs,          \* processes; each runs greeg any number of times
    NoProc,
    Keys,           \* sessions: the names of their logs
    Sizes,          \* the bytes a record may take
    MaxRecords,     \* MAX_RECORDS
    MaxBytes,       \* MAX_BYTES
    MaxRecordBytes, \* MAX_RECORD_BYTES
    MaxAge,         \* MAX_AGE_SECS
    Seeded,         \* how many records each log starts with; 0: there is none
    MaxRuns,        \* bound: runs started
    MaxEdits,       \* bound: edits of the file
    MaxTime         \* bound: the clock

ASSUME BoundsAssumption ==
    /\ MaxRecords \in Nat \ {0, 1} /\ MaxAge \in Nat \ {0}
    /\ MaxRecordBytes \in Nat \ {0} /\ MaxBytes \in Nat
    /\ MaxRecordBytes * 2 <= MaxBytes
    /\ Sizes \subseteq Nat \ {0}
    /\ {MaxRuns, MaxEdits, MaxTime} \subseteq Nat
    /\ Keys # {} /\ Seeded \in [Keys -> 0 .. MaxRecords]
    /\ \A k \in Keys : Seeded[k] <= MaxBytes
ASSUME NoProcAssumption == NoProc \notin Procs

VARIABLES
    clock,    \* seconds
    file,     \* the file of the tree: its content and its mtime
    log,      \* each session's log: whole lines, bytes of an unfinished one, mtime
    lock,     \* who holds `.lock`
    proc,     \* each process's run
    runs,     \* runs started: numbers the records
    printed,  \* history: the context each session has printed
    acked     \* history: the records whose append returned Ok, in order

vars == <<clock, file, log, lock, proc, runs, printed, acked>>

Record == [id : Nat, t : Nat, size : Nat, shown : Nat, whole : BOOLEAN]

NoLog == [lines |-> <<>>, tail |-> 0, mtime |-> 0]

Idle == [pc |-> "idle", key |-> CHOOSE k \in Keys : TRUE, id |-> 0,
         known |-> {}, mtime |-> 0, context |-> 0, seen |-> FALSE,
         record |-> [id |-> 0, t |-> 0, size |-> 1, shown |-> 0, whole |-> TRUE],
         fresh |-> FALSE, expired |-> {}]

Become(p, r) == proc' = [proc EXCEPT ![p] = r]

SeedRecord(i) == [id |-> i, t |-> 1, size |-> 1, shown |-> 0, whole |-> TRUE]
Seeds(k) == [i \in 1 .. Seeded[k] |-> SeedRecord(i)]

Init ==
    /\ clock = 1
    /\ file = [content |-> 1, mtime |-> 1]
    /\ log = [k \in Keys |-> IF Seeded[k] = 0 THEN NoLog
                          ELSE [lines |-> Seeds(k), tail |-> 0, mtime |-> 1]]
    /\ lock = NoProc
    /\ proc = [p \in Procs |-> Idle]
    /\ runs = MaxRecords
    /\ printed = [k \in Keys |-> {}]
    /\ acked = [k \in Keys |-> Seeds(k)]

-----------------------------------------------------------------------------
(* Reading a log.                                                          *)

Bytes(lines) == FoldLeft(LAMBDA n, r : n + r.size, 0, lines)

Newest(lines, n) == SubSeq(lines, Len(lines) - n + 1, Len(lines))

Capped(lines) == IF Len(lines) > MaxRecords THEN Newest(lines, MaxRecords) ELSE lines

\* A line that parses and is neither future-dated nor too old.
Usable(r, now) == r.whole /\ r.t <= now /\ now - r.t < MaxAge

Usables(lines, now) ==
    FoldLeft(LAMBDA u, r : IF Usable(r, now) THEN Append(u, r) ELSE u, <<>>, lines)

\* Mutant of Load: an unfinished last line is left where it is.
LoadTornTail(k, now) ==
    LET records == Capped(Usables(log[k].lines, now))
    IN  [records |-> records, bytes |-> Bytes(log[k].lines) + log[k].tail,
         compact |-> Len(records) < Len(log[k].lines)]

\* Store::load: what a log holds at `now`, and whether the next append has to
\* rewrite it.  A log past its limit counts as empty.
Load(k, now) ==
    LET bytes   == Bytes(log[k].lines) + log[k].tail
        records == Capped(Usables(log[k].lines, now))
    IN  IF bytes > MaxBytes
        THEN [records |-> <<>>, bytes |-> 0, compact |-> TRUE]
        ELSE [records |-> records, bytes |-> bytes,
              compact |-> log[k].tail > 0 \/ Len(records) < Len(log[k].lines)]

-----------------------------------------------------------------------------
(* A run: open the session, search, shape, print.                          *)

\* Session::open: the log is read once, without the lock.
Open(p, k) ==
    /\ proc[p].pc = "idle"
    /\ runs < MaxRecords + MaxRuns
    /\ runs' = runs + 1
    /\ Become(p, [Idle EXCEPT !.pc = "opened", !.key = k, !.id = runs + 1,
                  !.known = {r.shown : r \in ToSet(Load(k, clock).records)} \ {0}])
    /\ UNCHANGED <<clock, file, log, lock, printed, acked>>

\* The search of the file ends with the mtime it keeps.
Search(p) ==
    /\ proc[p].pc = "opened"
    /\ Become(p, [proc[p] EXCEPT !.pc = "searched", !.mtime = file.mtime])
    /\ UNCHANGED <<clock, file, log, lock, runs, printed, acked>>

\* The context is read when the answer is shaped; `dedup` then drops what the
\* log says was printed of a file with this mtime, unless it was asked for.
Covered(p) == proc[p].mtime \in proc[p].known

Shape(p) ==
    /\ proc[p].pc = "searched"
    /\ \E implicit \in BOOLEAN :
           Become(p, [proc[p] EXCEPT !.pc = "shaped", !.context = file.content,
                                     !.seen = implicit /\ Covered(p)])
    /\ UNCHANGED <<clock, file, log, lock, runs, printed, acked>>

Showing == [mtime : Nat, context : Nat]

\* `emit`: what is printed is recorded only afterwards.
Emit(p) ==
    /\ proc[p].pc = "shaped"
    /\ Become(p, [proc[p] EXCEPT !.pc = "emitted"])
    /\ printed' = [printed EXCEPT ![proc[p].key] =
            IF proc[p].seen THEN @
            ELSE @ \cup {[mtime |-> proc[p].mtime, context |-> proc[p].context]}]
    /\ UNCHANGED <<clock, file, log, lock, runs, acked>>

-----------------------------------------------------------------------------
(* The record of a run.                                                    *)

\* Session::record_parts makes the record and reads the clock `append` goes
\* by, both before it waits for the lock.  A record that is too long is refused.
MakeRecord(p) ==
    /\ proc[p].pc = "emitted"
    /\ \E size \in Sizes :
           LET r == [id |-> proc[p].id, t |-> clock, size |-> size, whole |-> TRUE,
                     shown |-> IF proc[p].seen THEN 0 ELSE proc[p].mtime]
           IN  Become(p, IF size > MaxRecordBytes THEN Idle
                         ELSE [proc[p] EXCEPT !.pc = "waiting", !.record = r])
    /\ UNCHANGED <<clock, file, log, lock, runs, printed, acked>>

TakeLock(p) ==
    /\ proc[p].pc = "waiting"
    /\ lock = NoProc
    /\ lock' = p
    /\ Become(p, [proc[p] EXCEPT !.pc = "locked"])
    /\ UNCHANGED <<clock, file, log, runs, printed, acked>>

\* Waiting is bounded (50 ms); the record is then lost.
GiveUp(p) ==
    /\ proc[p].pc = "waiting"
    /\ lock # NoProc
    /\ Become(p, Idle)
    /\ UNCHANGED <<clock, file, log, lock, runs, printed, acked>>

\* `append` goes by the log as it is under the lock, at the time it was called.
Loaded(p) == Load(proc[p].key, proc[p].record.t)

Compacts(p) ==
    \/ Loaded(p).compact
    \/ Len(Loaded(p).records) >= MaxRecords
    \/ Loaded(p).bytes + proc[p].record.size > MaxBytes

\* How many of the newest records a rewrite keeps.
Keep(p) == IF Len(Loaded(p).records) >= MaxRecords THEN MaxRecords \div 2
           ELSE MaxRecords - 1
ByteTarget(p) == IF Loaded(p).bytes + proc[p].record.size > MaxBytes
                 THEN MaxBytes \div 2 ELSE MaxBytes

Kept(p) ==
    LET old  == Loaded(p).records
        fits == {n \in 0 .. Len(old) : n <= Keep(p)
                     /\ Bytes(Newest(old, n)) + proc[p].record.size <= ByteTarget(p)}
    IN  Newest(old, CHOOSE n \in fits : \A m \in fits : m <= n)

\* Written: the lock is dropped, and a run that found the log new or empty
\* goes on to prune.
Acknowledge(p, fresh) ==
    /\ acked' = [acked EXCEPT ![proc[p].key] = Append(@, proc[p].record)]
    /\ lock' = NoProc
    /\ Become(p, IF fresh THEN [proc[p] EXCEPT !.pc = "prune"] ELSE Idle)

\* A rewrite publishes a whole new file with one rename.
Rewrite(p) ==
    /\ proc[p].pc = "locked"
    /\ Compacts(p)
    /\ log' = [log EXCEPT ![proc[p].key] =
                   [lines |-> Append(Kept(p), proc[p].record), tail |-> 0, mtime |-> clock]]
    /\ Acknowledge(p, Loaded(p).bytes = 0)
    /\ UNCHANGED <<clock, file, runs, printed>>

\* Otherwise the line goes to the end of the file, and a reader may see a
\* part of it.
BeginLine(p) ==
    /\ proc[p].pc = "locked"
    /\ ~Compacts(p)
    /\ log' = [log EXCEPT ![proc[p].key].tail = @ + 1, ![proc[p].key].mtime = clock]
    /\ Become(p, [proc[p] EXCEPT !.pc = "writing", !.fresh = Loaded(p).bytes = 0])
    /\ UNCHANGED <<clock, file, lock, runs, printed, acked>>

\* What was left unfinished before this line makes it one that does not parse.
EndLine(p) ==
    /\ proc[p].pc = "writing"
    /\ LET k    == proc[p].key
           line == [proc[p].record EXCEPT !.whole = log[k].tail = 1]
       IN  log' = [log EXCEPT ![k] = [lines |-> Append(@.lines, line), tail |-> 0,
                                      mtime |-> clock]]
    /\ Acknowledge(p, proc[p].fresh)
    /\ UNCHANGED <<clock, file, runs, printed>>

-----------------------------------------------------------------------------
(* Pruning the logs of other sessions.                                     *)

Old(k) == log[k] # NoLog /\ clock - log[k].mtime >= MaxAge

\* The directory is listed without the lock.
ListExpired(p) ==
    /\ proc[p].pc = "prune"
    /\ LET expired == {k \in Keys \ {proc[p].key} : Old(k)}
       IN  Become(p, IF expired = {} THEN Idle
                     ELSE [proc[p] EXCEPT !.pc = "pruning", !.expired = expired])
    /\ UNCHANGED <<clock, file, log, lock, runs, printed, acked>>

\* Mutant of StillOld: what was listed is removed.
NotLookedAtAgain(k) == log[k] # NoLog

\* Each log is looked at again under the lock.
StillOld(k) == Old(k)

PruneOne(p, k) ==
    /\ proc[p].pc = "pruning"
    /\ k \in proc[p].expired
    /\ lock = NoProc
    /\ log' = IF StillOld(k) THEN [log EXCEPT ![k] = NoLog] ELSE log
    /\ Become(p, IF proc[p].expired = {k} THEN Idle
                 ELSE [proc[p] EXCEPT !.expired = @ \ {k}])
    /\ UNCHANGED <<clock, file, lock, runs, printed, acked>>

\* A busy lock ends the sweep.
PruneBusy(p) ==
    /\ proc[p].pc = "pruning"
    /\ lock # NoProc
    /\ Become(p, Idle)
    /\ UNCHANGED <<clock, file, log, lock, runs, printed, acked>>

-----------------------------------------------------------------------------
(* What happens around the runs.                                           *)

\* A run ends at any point: killed, its output or its write failing.  What it
\* wrote of a line stays; the kernel, or Drop, releases its lock.
Stop(p) ==
    /\ proc[p].pc # "idle"
    /\ lock' = IF lock = p THEN NoProc ELSE lock
    /\ Become(p, Idle)
    /\ UNCHANGED <<clock, file, log, runs, printed, acked>>

Edit ==
    /\ file.content <= MaxEdits
    /\ file' = [content |-> file.content + 1, mtime |-> clock]
    /\ UNCHANGED <<clock, log, lock, proc, runs, printed, acked>>

Tick ==
    /\ clock < MaxTime
    /\ clock' = clock + 1
    /\ UNCHANGED <<file, log, lock, proc, runs, printed, acked>>

Run(p) ==
    \/ \E k \in Keys : Open(p, k)
    \/ Search(p) \/ Shape(p) \/ Emit(p)
    \/ MakeRecord(p) \/ TakeLock(p) \/ GiveUp(p)
    \/ Rewrite(p) \/ BeginLine(p) \/ EndLine(p)
    \/ ListExpired(p) \/ (\E k \in Keys : PruneOne(p, k)) \/ PruneBusy(p)
    \/ Stop(p)

Next == (\E p \in Procs : Run(p)) \/ Edit \/ Tick

Spec == Init /\ [][Next]_vars

-----------------------------------------------------------------------------
(* Properties.                                                             *)

Process ==
    [pc : {"idle", "opened", "searched", "shaped", "emitted", "waiting", "locked", "writing",
           "prune", "pruning"},
     key : Keys, id : Nat, known : SUBSET Nat, mtime : Nat, context : Nat, seen : BOOLEAN,
     record : Record, fresh : BOOLEAN, expired : SUBSET Keys]

\* Every variable keeps its type, and a process is past TakeLock exactly
\* while it holds the lock.
TypeOK ==
    /\ clock \in Nat /\ runs \in Nat
    /\ file \in [content : Nat, mtime : Nat]
    /\ log \in [Keys -> [lines : Seq(Record), tail : Nat, mtime : Nat]]
    /\ lock \in Procs \cup {NoProc}
    /\ proc \in [Procs -> Process]
    /\ printed \in [Keys -> SUBSET Showing]
    /\ acked \in [Keys -> Seq(Record)]
    /\ \A p \in Procs : proc[p].pc \in {"locked", "writing"} <=> lock = p

\* Context is marked "(shown before)" only where a run of the same session
\* has printed context of the file with that mtime: whatever fails or is
\* killed between printing and recording, and whichever session's log it is.
MarkedWasPrinted ==
    \A p \in Procs : proc[p].seen =>
        \E e \in printed[proc[p].key] : e.mtime = proc[p].mtime

\* shape.rs:30 says of such a hit that its context "was already shown earlier
\* in this session": this context, not what a file with that mtime once held.
SeenWasShown ==
    \A p \in Procs : proc[p].seen =>
        [mtime |-> proc[p].mtime, context |-> proc[p].context] \in printed[proc[p].key]

\* The log never outgrows the limits its readers go by, so that no read ever
\* discards it as a whole.
Bounded ==
    \A k \in Keys : /\ Len(log[k].lines) <= MaxRecords
                    /\ Bytes(log[k].lines) + log[k].tail <= MaxBytes

InLog(k, r) == \E i \in DOMAIN log[k].lines : log[k].lines[i] = r

Expired(r) == clock - r.t >= MaxAge

\* The i-th record of a session has been pushed out by newer ones: half the
\* records, or half the bytes, a log may hold.
PushedOut(k, i) ==
    \/ Len(acked[k]) - i > MaxRecords \div 2
    \/ Bytes(Newest(acked[k], Len(acked[k]) - i + 1)) > MaxBytes \div 2

\* A record was appended by a process whose clock reading, its own record's
\* time, is older than it.
DatedAhead(k, i) ==
    \E j \in i + 1 .. Len(acked[k]) : acked[k][j].t < acked[k][i].t

\* A record whose append returned Ok stays in its log until it is a day old or
\* newer ones have pushed it out: no writer, rewrite, failed write or sweep
\* loses it.  (The exception is what AcknowledgedIsKept is about.)
Remembered ==
    \A k \in Keys : \A i \in DOMAIN acked[k] :
        \/ InLog(k, acked[k][i])
        \/ Expired(acked[k][i])
        \/ PushedOut(k, i)
        \/ DatedAhead(k, i)

\* The same without the exception: the test
\* concurrent_writers_compact_without_losing_new_records (session_store.rs).
AcknowledgedIsKept ==
    \A k \in Keys : \A i \in DOMAIN acked[k] :
        \/ InLog(k, acked[k][i])
        \/ Expired(acked[k][i])
        \/ PushedOut(k, i)

\* A sweep removes no log that still holds a record younger than a day,
\* though another session may write it between the listing and the removal.
PruneOnlyExpired ==
    [][\A k \in Keys : log[k] # NoLog /\ log'[k] = NoLog =>
            \A i \in DOMAIN log[k].lines : Expired(log[k].lines[i])]_vars
=============================================================================
