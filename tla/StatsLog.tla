------------------------------ MODULE StatsLog ------------------------------
(***************************************************************************)
(* The statistics log (greeg: stats.rs, private.rs): processes append one  *)
(* record each to events.jsonl, whoever finds it over its limit renames it *)
(* to events.1.jsonl under a lock, `stats clear` unlinks both, and a reader*)
(* takes both generations and pairs runs with the hook records they came   *)
(* from.                                                                   *)
(*                                                                         *)
(* A file is a sequence of lines; a write that fails half-way leaves a     *)
(* piece that the next record is joined to.  Who writes what, and when, is *)
(* the composing module's (see Record).                                    *)
(***************************************************************************)
EXTENDS Naturals, Sequences, SequencesExt, Functions

CONSTANTS
    Writers,     \* processes that append
    Limit,       \* ROTATE_BYTES, in records
    Window,      \* PAIR_WINDOW_MS, in ticks
    MaxTime,     \* bound: ticks
    MaxFaults,   \* bound: torn writes and lock timeouts
    MaxReads,    \* bound: reports read
    MaxClears    \* bound: `stats clear`

VARIABLES
    current,     \* the inode of events.jsonl, or None
    older,       \* the inode of events.1.jsonl, or None
    data,        \* by inode, its lines
    lock,        \* the writer that holds .lock, or NoOne
    writer,      \* by writer, what it is doing
    now, rotations, faults,
    acked,       \* history: records whose write succeeded, with the rotations at their open
    cleared,     \* history: inodes `clear` removed
    reader, clearing, clears, reads

log == <<current, older, data, lock, writer, now, rotations, faults, acked, cleared,
         reader, clearing, clears, reads>>

None == 0
NoOne == "none"

WritersAssumption == NoOne \notin Writers
LimitsAssumption == {Limit, Window, MaxTime, MaxFaults, MaxReads, MaxClears} \subseteq Nat

\* A record of a hook or a run: `id` is pair_id, `by` what made it unique.
Hook(id, by, ts) == [kind |-> "hook", id |-> id, by |-> by, ts |-> ts]
Run(id, by, ts) == [kind |-> "run", id |-> id, by |-> by, ts |-> ts]
Piece == [kind |-> "piece", id |-> "", by |-> "", ts |-> 0]

Quiet == [pc |-> "idle", rec |-> Piece, fd |-> None, rot |-> 0]
NotReading == [pc |-> "idle", first |-> <<>>, rot |-> 0, before |-> {}, got |-> <<>>]

LogInit ==
    /\ current = None /\ older = None /\ data = <<>> /\ lock = NoOne
    /\ writer = [w \in Writers |-> Quiet]
    /\ now = 0 /\ rotations = 0 /\ faults = 0 /\ acked = {} /\ cleared = {}
    /\ reader = NotReading /\ clearing = "idle" /\ clears = 0 /\ reads = 0

Fails == faults < MaxFaults /\ faults' = faults + 1

-----------------------------------------------------------------------------
(* append_in *)

Idle(w) == writer[w].pc = "idle"

\* record_hook and record_run: the time is taken before anything is opened.
Record(w, rec) ==
    /\ Idle(w)
    /\ writer' = [writer EXCEPT ![w] = [Quiet EXCEPT !.pc = "create", !.rec = rec]]
    /\ UNCHANGED <<current, older, data, lock, now, rotations, faults, acked, cleared, reader,
                   clearing, clears, reads>>

Step(w, pc) == writer' = [writer EXCEPT ![w].pc = pc]
Stop(w) == writer' = [writer EXCEPT ![w] = Quiet]

\* PrivateDir::file with O_CREAT: a new file, or else the one that is there.
Create(w) ==
    /\ writer[w].pc \in {"create", "recreate"}
    /\ IF current = None
       THEN /\ data' = Append(data, <<>>) /\ current' = Len(data) + 1
            /\ writer' = [writer EXCEPT ![w].fd = Len(data) + 1, ![w].rot = rotations,
                             ![w].pc = IF @ = "create" THEN "size" ELSE "check"]
       ELSE /\ Step(w, IF writer[w].pc = "create" THEN "open" ELSE "reopen")
            /\ UNCHANGED <<data, current>>
    /\ UNCHANGED <<older, lock, now, rotations, faults, acked, cleared, reader, clearing, clears, reads>>

Freed(w) == IF lock = w THEN NoOne ELSE lock

(* Mutant: the file is opened anew for each record. *)
OpenTruncate(w) ==
    /\ writer[w].pc \in {"open", "reopen"} /\ current # None
    /\ writer' = [writer EXCEPT ![w].fd = current, ![w].rot = rotations,
                     ![w].pc = IF @ = "open" THEN "size" ELSE "check"]
    /\ data' = [data EXCEPT ![current] = <<>>]
    /\ UNCHANGED <<current, older, lock, now, rotations, faults, acked, cleared, reader,
                   clearing, clears, reads>>

\* It may be gone again; the record is then dropped.
Open(w) ==
    /\ writer[w].pc \in {"open", "reopen"}
    /\ IF current = None THEN Stop(w) /\ lock' = Freed(w)
       ELSE /\ writer' = [writer EXCEPT ![w].fd = current, ![w].rot = rotations,
                             ![w].pc = IF @ = "open" THEN "size" ELSE "check"]
            /\ UNCHANGED lock
    /\ UNCHANGED <<current, older, data, now, rotations, faults, acked, cleared, reader,
                   clearing, clears, reads>>

Over(i) == i # None /\ Len(data[i]) > Limit

Linked(i) == i \in {current, older}

\* `private` refuses a file that lost its name since it was opened; the lock
\* is given up before the write.
Size(w) ==
    /\ writer[w].pc \in {"size", "check"}
    /\ IF ~Linked(writer[w].fd) THEN Stop(w)
       ELSE Step(w, IF writer[w].pc = "size" /\ Over(writer[w].fd) THEN "lock" ELSE "write")
    /\ lock' = Freed(w)
    /\ UNCHANGED <<current, older, data, now, rotations, faults, acked, cleared, reader,
                   clearing, clears, reads>>

Lock(w) ==
    /\ writer[w].pc = "lock"
    /\ \/ lock = NoOne /\ lock' = w /\ Step(w, "again") /\ UNCHANGED faults
       \* 50 ms pass
       \/ lock # NoOne /\ Fails /\ Stop(w) /\ UNCHANGED lock
    /\ UNCHANGED <<current, older, data, now, rotations, acked, cleared, reader, clearing, clears, reads>>

\* The size is looked at again under the lock; opening creates what is missing.
Again(w) ==
    /\ writer[w].pc = "again"
    /\ IF current = None
       THEN data' = Append(data, <<>>) /\ current' = Len(data) + 1 ELSE UNCHANGED <<data, current>>
    /\ Step(w, IF Over(current) THEN "rename" ELSE "recreate")
    /\ UNCHANGED <<older, lock, now, rotations, faults, acked, cleared, reader, clearing, clears, reads>>

Rename(w) ==
    /\ writer[w].pc = "rename"
    /\ IF current = None THEN Stop(w) /\ lock' = NoOne /\ UNCHANGED <<current, older, rotations>>
       ELSE /\ older' = current /\ current' = None /\ rotations' = rotations + 1
            /\ Step(w, "recreate") /\ UNCHANGED lock
    /\ UNCHANGED <<data, now, faults, acked, cleared, reader, clearing, clears, reads>>

Joined(lines) == lines # <<>> /\ Last(lines).kind = "piece"

\* One write; what follows a piece is on the piece's line and cannot be read.
Written(lines, rec) ==
    IF ~Joined(lines) THEN Append(lines, rec)
    ELSE Front(lines) \o <<IF rec = Piece THEN Piece ELSE [rec EXCEPT !.kind = "joined"]>>

Write(w) ==
    /\ writer[w].pc = "write"
    /\ LET e == writer[w] IN
         \/ /\ data' = [data EXCEPT ![e.fd] = Written(@, e.rec)]
            /\ acked' = acked \cup {[rec |-> e.rec, fd |-> e.fd, rot |-> e.rot,
                                      joined |-> Joined(data[e.fd])]}
            /\ UNCHANGED faults
         \* the disk is full: some of it is written, and an error
         \/ /\ Fails /\ data' = [data EXCEPT ![e.fd] = Written(@, Piece)] /\ UNCHANGED acked
    /\ Stop(w)
    /\ UNCHANGED <<current, older, lock, now, rotations, cleared, reader, clearing, clears, reads>>

\* A process is killed; its lock is released.
Killed(w) ==
    /\ ~Idle(w) /\ Fails /\ Stop(w) /\ lock' = Freed(w)
    /\ UNCHANGED <<current, older, data, now, rotations, acked, cleared, reader, clearing, clears, reads>>

-----------------------------------------------------------------------------
(* clear *)

\* The current generation first.
ClearCurrent ==
    /\ clearing = "idle" /\ clears < MaxClears
    /\ clearing' = "older" /\ clears' = clears + 1
    /\ cleared' = cleared \cup ({current} \ {None})
    /\ current' = None
    /\ UNCHANGED <<older, data, lock, writer, now, rotations, faults, acked, reader, reads>>

ClearOlder ==
    /\ clearing = "older"
    /\ clearing' = "idle"
    /\ cleared' = cleared \cup ({older} \ {None})
    /\ older' = None
    /\ UNCHANGED <<current, data, lock, writer, now, rotations, faults, acked, reader, clears, reads>>

-----------------------------------------------------------------------------
(* load_generations, and pair_runs on what it read *)

\* What is in a file; lines that cannot be read are no events (see OfKind).
Lines(i) == IF i = None THEN <<>> ELSE data[i]
Readable(r) == r.kind \in {"hook", "run"}

\* What a reader that starts now should get: acknowledged and still there.
There == {a \in acked : ~a.joined /\ Linked(a.fd)}

Generation(k) == IF k = 1 THEN older ELSE current

ReadOlder ==
    /\ reader.pc = "idle" /\ reads < MaxReads
    /\ reader' = [NotReading EXCEPT !.pc = "second", !.first = Lines(Generation(1)),
                                    !.rot = rotations, !.before = There]
    /\ reads' = reads + 1
    /\ UNCHANGED <<current, older, data, lock, writer, now, rotations, faults, acked, cleared,
                   clearing, clears>>

ReadCurrent ==
    /\ reader.pc = "second"
    /\ reader' = [reader EXCEPT !.pc = "done", !.got = reader.first \o Lines(Generation(2))]
    /\ UNCHANGED <<current, older, data, lock, writer, now, rotations, faults, acked, cleared,
                   clearing, clears, reads>>

\* The events that are hooks, and the runs in the order they are paired in.
OfKind(events, kind) == {i \in DOMAIN events : events[i].kind = kind}
Before(events, i, j) == \/ events[i].ts < events[j].ts
                        \/ events[i].ts = events[j].ts /\ i < j

Fits(h, r) == h.id = r.id /\ h.ts <= r.ts /\ r.ts - h.ts <= Window

Best(events, hooks) == CHOOSE i \in hooks : \A j \in hooks : i = j \/ Before(events, j, i)

\* pair_runs: by run, the hook it takes, or None; runs take in turn.
Pairs(events) ==
    LET runs == OfKind(events, "run")
        pair[r \in runs] ==
            LET free == {h \in OfKind(events, "hook") :
                           /\ Fits(events[h], events[r])
                           /\ \A q \in runs : Before(events, q, r) => pair[q] # h}
            IN  IF free = {} THEN None ELSE Best(events, free)
    IN  pair

-----------------------------------------------------------------------------

Tick ==
    /\ now < MaxTime /\ now' = now + 1
    /\ UNCHANGED <<current, older, data, lock, writer, rotations, faults, acked, cleared, reader,
                   clearing, clears, reads>>

LogNext ==
    \/ \E w \in Writers : \/ Create(w) \/ Open(w) \/ Size(w) \/ Lock(w)
                            \/ Again(w) \/ Rename(w) \/ Write(w)
    \/ ClearCurrent \/ ClearOlder \/ ReadOlder \/ ReadCurrent \/ Tick

-----------------------------------------------------------------------------

(* Rotation loses nothing it should keep: a record whose write succeeded can
   be read until two rotations have gone by since its file was opened, a
   `clear` took its file, or it landed on the line of a torn write. *)
Kept ==
    \A a \in acked :
        \/ a.joined \/ a.fd \in cleared \/ rotations - a.rot >= 2
        \/ Linked(a.fd) /\ Contains(data[a.fd], a.rec)

(* However many writers find the log over its limit at once, one of them
   rotates: what it makes the older generation is a full one, never the file
   the winner has just begun (but for a `clear` in between). *)
RotatedFull == older # None /\ clears = 0 => Over(older)

(* A reader that takes no lock gets no record twice, whatever rotates between
   its two files, and misses only what a rotation or a `clear` took away. *)
ReadOnce ==
    reader.pc = "done" =>
        /\ \A i, j \in DOMAIN reader.got :
              Readable(reader.got[i]) /\ Readable(reader.got[j]) /\ reader.got[i] = reader.got[j]
              => i = j
        /\ \A a \in reader.before : \/ rotations > reader.rot \/ a.fd \in cleared
                                    \/ Contains(reader.got, a.rec)

(* A run is paired with the hook record it came from when both were read, the
   run came within the window and no other event of the same command fell
   between them, even if earlier hooks were left without a run. *)
OwnHook ==
    reader.pc = "done" =>
        LET e == reader.got
            pair == Pairs(e)
        IN  \A r \in OfKind(e, "run") : \A h \in OfKind(e, "hook") :
               (/\ e[h].by = e[r].by /\ Fits(e[h], e[r])
                /\ \A k \in DOMAIN e :
                      (Readable(e[k]) /\ e[k].id = e[r].id /\ e[h].ts <= e[k].ts /\ e[k].ts <= e[r].ts)
                      => k \in {h, r})
               => pair[r] = h

=============================================================================
