---------------------------- MODULE OrderedStream ----------------------------
(***************************************************************************)
(* A streamed answer (greeg-query: ordered.rs `run`, and the walk that     *)
(* feeds it, lib.rs `scan_streamed`).                                      *)
(*                                                                         *)
(* A walk sends batches of files through a bounded channel.  Workers claim *)
(* a batch each, read its files, and put the outcome into `done`; the      *)
(* writer, on the calling thread, takes the outcomes in walk order and     *)
(* emits them.  `claimed` and `emitted` keep the workers near the writer.  *)
(*                                                                         *)
(* Three locks and two condition variables: the source's mutex, held while *)
(* a worker receives from the channel; the state's mutex; `room`, on which *)
(* workers wait to claim, and `ready`, on which the writer waits.  A        *)
(* critical section that takes no other lock is one step.                  *)
(***************************************************************************)
EXTENDS Integers, FiniteSets

CONSTANTS
    Workers,
    NoWorker,
    Batches,      \* batches the walk finds
    QueueCap,     \* the channel's bound
    Window,       \* window.div_ceil(CHUNK)
    Panics        \* where a panic may strike: {"work"}, {"work", "emit"}, ...

ASSUME WorkersAssumption ==
    IsFiniteSet(Workers) /\ Workers # {} /\ NoWorker \notin Workers

ASSUME BoundsAssumption ==
    /\ Batches \in Nat /\ QueueCap \in Nat \ {0} /\ Window \in Nat
    /\ Panics \subseteq {"init", "work", "emit"}

VARIABLES
    walk,      \* [pc, sent]: the walk's thread, and the batches it sent
    source,    \* [holder, next]: the source's mutex, and `src.1`
    state,     \* the worker that holds the state's mutex across another lock
    claimed, emitted, total, stop,     \* the fields of State
    done,      \* ... and its map, chunk -> [part, ok]
    stopped,   \* the flag the walk polls
    worker,    \* [pc, part, id]: each worker's thread
    writer     \* [pc, c, part, ok, result]: the calling thread

vars == <<walk, source, state, claimed, emitted, total, stop, done, stopped,
          worker, writer>>

Unknown == -1

\* Every worker can hold a chunk while the writer waits for another.
Ahead ==
    LET perWorker == Cardinality(Workers) + 1
    IN  IF Window > perWorker THEN Window ELSE perWorker

Init ==
    /\ walk = [pc |-> "walk", sent |-> 0]
    /\ source = [holder |-> NoWorker, next |-> 0]
    /\ state = NoWorker
    /\ claimed = 0 /\ emitted = 0 /\ total = Unknown /\ stop = FALSE
    /\ done = {}
    /\ stopped = FALSE
    /\ worker = [w \in Workers |-> [pc |-> "init", part |-> 0, id |-> 0]]
    /\ writer = [pc |-> "look", c |-> 0, part |-> 0, ok |-> TRUE, result |-> "none"]

\* room.notify_all(): the waiters go back to their loop's condition.
RoomWoken ==
    [w \in Workers |-> [worker[w] EXCEPT !.pc = IF @ = "room" THEN "claim" ELSE @]]

\* ready.notify_one(): only the writer waits on it.
ReadyWoken == [writer EXCEPT !.pc = IF @ = "ready" THEN "look" ELSE @]

-----------------------------------------------------------------------------
(* The walk *)

\* It looks at `stopped` at each entry, and hands over a full batch.
WalkOn ==
    /\ walk.pc = "walk"
    /\ walk' = [walk EXCEPT !.pc = IF stopped \/ walk.sent = Batches THEN "closed"
                                   ELSE "send"]
    /\ UNCHANGED <<source, state, claimed, emitted, total, stop, done, stopped,
                   worker, writer>>

WalkSend ==
    /\ walk.pc = "send"
    /\ walk.sent - source.next < QueueCap
    /\ walk' = [pc |-> "walk", sent |-> walk.sent + 1]
    /\ UNCHANGED <<source, state, claimed, emitted, total, stop, done, stopped,
                   worker, writer>>

\* The receiver is dropped when `run` returns.
WalkSendFails ==
    /\ walk.pc = "send" /\ writer.pc = "returned"
    /\ walk' = [walk EXCEPT !.pc = "closed"]
    /\ UNCHANGED <<source, state, claimed, emitted, total, stop, done, stopped,
                   worker, writer>>

-----------------------------------------------------------------------------
(* A worker *)

Go(w, pc) == worker' = [worker EXCEPT ![w].pc = pc]

WorkerInit(w) ==
    /\ worker[w].pc = "init"
    /\ \E pc \in {"claim"} \cup (IF "init" \in Panics THEN {"dead"} ELSE {}) : Go(w, pc)
    /\ UNCHANGED <<walk, source, state, claimed, emitted, total, stop, done,
                   stopped, writer>>

RoomForOneMore == claimed <= emitted + Ahead

Room == claimed < emitted + Ahead

Ending == stop \/ total # Unknown

Claim(w) ==
    /\ worker[w].pc = "claim" /\ state = NoWorker
    /\ \/ Ending /\ Go(w, "exit") /\ UNCHANGED claimed
       \/ ~Ending /\ ~Room /\ Go(w, "room") /\ UNCHANGED claimed
       \/ ~Ending /\ Room /\ Go(w, "lock") /\ claimed' = claimed + 1
    /\ UNCHANGED <<walk, source, state, emitted, total, stop, done, stopped, writer>>

Lock(w) ==
    /\ worker[w].pc = "lock" /\ source.holder = NoWorker
    /\ source' = [source EXCEPT !.holder = w]
    /\ Go(w, "receive")
    /\ UNCHANGED <<walk, state, claimed, emitted, total, stop, done, stopped, writer>>

\* A batch, numbered while the source is held; or the walk's end.
Receive(w) ==
    /\ worker[w].pc = "receive"
    /\ \/ /\ source.next < walk.sent
          /\ source' = [holder |-> NoWorker, next |-> source.next + 1]
          /\ worker' = [worker EXCEPT ![w] = [pc |-> "work", part |-> source.next,
                                              id |-> source.next]]
       \/ /\ source.next = walk.sent /\ walk.pc = "closed"
          /\ source' = [source EXCEPT !.holder = NoWorker]
          /\ Go(w, "empty")
    /\ UNCHANGED <<walk, state, claimed, emitted, total, stop, done, stopped, writer>>

\* An empty part: the source is asked for its count with the state held.
Empty(w) ==
    /\ worker[w].pc = "empty" /\ state = NoWorker
    /\ state' = w
    /\ Go(w, "count")
    /\ UNCHANGED <<walk, source, claimed, emitted, total, stop, done, stopped, writer>>

Count(w) ==
    /\ worker[w].pc = "count" /\ source.holder = NoWorker
    /\ total' = source.next
    /\ state' = NoWorker
    /\ writer' = ReadyWoken
    /\ worker' = [RoomWoken EXCEPT ![w].pc = "exit"]
    /\ UNCHANGED <<walk, source, claimed, emitted, stop, done, stopped>>

NumberedByArrival(w) ==
    writer.c + Cardinality(done) + (IF writer.pc = "emit" THEN 1 ELSE 0)

\* The number a worker's outcome goes under.
Number(w) == worker[w].id

\* The batch is read; a panic in `work` is caught and becomes its outcome.
Put(w) ==
    /\ worker[w].pc = "work" /\ state = NoWorker
    /\ \E ok \in {TRUE} \cup (IF "work" \in Panics THEN {FALSE} ELSE {}) :
          /\ done' = done \cup {[id |-> Number(w), part |-> worker[w].part, ok |-> ok]}
          /\ stop' = (stop \/ ~ok)
          /\ writer' = IF Number(w) = emitted \/ ~ok THEN ReadyWoken ELSE writer
    /\ Go(w, "claim")
    /\ UNCHANGED <<walk, source, state, claimed, emitted, total, stopped>>

-----------------------------------------------------------------------------
(* The writer *)

ExhaustedEarly == total # Unknown

Exhausted == total # Unknown /\ writer.c >= total

Look ==
    /\ writer.pc = "look" /\ state = NoWorker
    /\ \/ \E d \in done :
             /\ d.id = writer.c
             /\ done' = done \ {d}
             /\ writer' = [writer EXCEPT !.pc = "emit", !.part = d.part, !.ok = d.ok]
       \/ /\ \A d \in done : d.id # writer.c
          /\ writer' = [writer EXCEPT !.pc =
                          IF Exhausted THEN "finish" ELSE "ready"]
          /\ UNCHANGED done
    /\ UNCHANGED <<walk, source, state, claimed, emitted, total, stop, stopped, worker>>

\* Hand the files of the next batch over.
Emit ==
    /\ writer.pc = "emit" /\ writer.ok
    /\ \/ /\ writer' = [writer EXCEPT !.pc = "advance", !.c = @ + 1]
          /\ UNCHANGED stopped
       \/ /\ writer' = [writer EXCEPT !.pc = "finish", !.result = "error"]
          /\ stopped' = TRUE
       \/ /\ "emit" \in Panics
          /\ writer' = [writer EXCEPT !.pc = "join", !.result = "panic"]
          /\ UNCHANGED stopped
    /\ UNCHANGED <<walk, source, state, claimed, emitted, total, stop, done, worker>>

Advance ==
    /\ writer.pc = "advance" /\ state = NoWorker
    /\ emitted' = writer.c
    /\ worker' = RoomWoken
    /\ writer' = [writer EXCEPT !.pc = "look"]
    /\ UNCHANGED <<walk, source, state, claimed, total, stop, done, stopped>>

\* resume_unwind of a worker's panic, once the batches before it are written.
Resume ==
    /\ writer.pc = "emit" /\ ~writer.ok /\ state = NoWorker
    /\ stopped' = TRUE
    /\ stop' = TRUE
    /\ worker' = RoomWoken
    /\ writer' = [writer EXCEPT !.pc = "join", !.result = "panic"]
    /\ UNCHANGED <<walk, source, state, claimed, emitted, total, done>>

FinishUnannounced ==
    /\ writer.pc = "finish" /\ state = NoWorker
    /\ stop' = TRUE
    /\ UNCHANGED worker
    /\ writer' = [writer EXCEPT !.pc = "join",
                                !.result = IF @ = "none" THEN "ok" ELSE @]
    /\ UNCHANGED <<walk, source, state, claimed, emitted, total, done, stopped>>

Finish ==
    /\ writer.pc = "finish" /\ state = NoWorker
    /\ stop' = TRUE
    /\ worker' = RoomWoken
    /\ writer' = [writer EXCEPT !.pc = "join",
                                !.result = IF @ = "none" THEN "ok" ELSE @]
    /\ UNCHANGED <<walk, source, state, claimed, emitted, total, done, stopped>>

\* The scope ends when its threads do; a dead one makes it panic.
Join ==
    /\ writer.pc = "join"
    /\ \A w \in Workers : worker[w].pc \in {"exit", "dead"}
    /\ writer' = [writer EXCEPT !.pc = "returned",
                     !.result = IF \E w \in Workers : worker[w].pc = "dead"
                                THEN "panic" ELSE @]
    /\ UNCHANGED <<walk, source, state, claimed, emitted, total, stop, done,
                   stopped, worker>>

WorkerStep(w) ==
    \/ WorkerInit(w) \/ Claim(w) \/ Lock(w) \/ Receive(w)
    \/ Empty(w) \/ Count(w) \/ Put(w)
WalkStep == WalkOn \/ WalkSend \/ WalkSendFails
WriterStep == Look \/ Emit \/ Advance \/ Resume \/ Finish \/ Join

Next == WalkStep \/ WriterStep \/ \E w \in Workers : WorkerStep(w)

Spec == Init /\ [][Next]_vars

\* The operating system runs every thread that can go on.  A mutex is not
\* fair, but each is held for a bounded time and finitely often.
Fairness ==
    /\ WF_vars(WalkStep) /\ WF_vars(WriterStep)
    /\ \A w \in Workers : WF_vars(WorkerStep(w))

FairSpec == Spec /\ Fairness

-----------------------------------------------------------------------------
(* Properties *)

WorkerStates ==
    [pc : {"init", "claim", "room", "lock", "receive", "work", "empty",
           "count", "exit", "dead"},
     part : Nat, id : Nat]

WriterStates ==
    [pc : {"look", "ready", "emit", "advance", "finish", "join", "returned"},
     c : Nat, part : Nat, ok : BOOLEAN,
     result : {"none", "ok", "error", "panic"}]

TypeOK ==
    /\ walk \in [pc : {"walk", "send", "closed"}, sent : Nat]
    /\ source \in [holder : Workers \cup {NoWorker}, next : Nat]
    /\ state \in Workers \cup {NoWorker}
    /\ claimed \in Nat /\ emitted \in Nat
    /\ total \in Nat \cup {Unknown}
    /\ stop \in BOOLEAN /\ stopped \in BOOLEAN
    /\ done \subseteq [id : Nat, part : Nat, ok : BOOLEAN]
    /\ worker \in [Workers -> WorkerStates]
    /\ writer \in WriterStates
    /\ \A w \in Workers : worker[w].pc = "receive" <=> source.holder = w
    /\ \A w \in Workers : worker[w].pc = "count" <=> state = w

\* Results reach the writer in the order of the walk, none skipped and none
\* written twice, whichever worker read them.
InOrder == writer.pc = "emit" => writer.part = writer.c

\* Workers stay at most Ahead chunks from the next one to write: that many
\* results are held at most, however slow the reader of the output is.
BoundedLead ==
    /\ source.next <= emitted + Ahead
    /\ \A d \in done : d.id \in emitted .. emitted + Ahead - 1

\* The invariant SearchProofs proves: claims cover the chunks taken, and
\* each chunk from the writer's on is with one worker or in `done` once.
Taking == {w \in Workers : worker[w].pc \in {"lock", "receive"}}
Working == {w \in Workers : worker[w].pc = "work"}
Unwritten == IF writer.pc = "emit" THEN writer.c + 1 ELSE writer.c

ChunksSound ==
    /\ source.next + Cardinality(Taking) <= claimed
    /\ claimed <= emitted + Ahead
    /\ writer.c = IF writer.pc = "advance" THEN emitted + 1 ELSE emitted
    /\ Unwritten <= source.next
    /\ \A w \in Working :
          /\ worker[w].id \in Unwritten .. source.next - 1
          /\ worker[w].part = worker[w].id
          /\ \A v \in Working \ {w} : worker[v].id # worker[w].id
          /\ \A d \in done : d.id # worker[w].id
    /\ \A d \in done :
          /\ d.id \in Unwritten .. source.next - 1
          /\ d.part = d.id
          /\ \A e \in done \ {d} : e.id # d.id
    /\ InOrder

\* "ok" means that every batch of the walk was read and written.
OkIsComplete ==
    writer.result = "ok" /\ writer.pc = "returned"
        => walk.pc = "closed" /\ writer.c = walk.sent

\* The call returns, and the walk's thread ends, whatever panics.
AlwaysReturns == <>(writer.pc = "returned" /\ walk.pc = "closed")

\* The call returns, whether the walk ends, a read panics or the output fails,
\* and the walk's thread ends too.  Excepted are a panic in `emit` itself, and
\* one in `init` on every worker, which leaves nobody to read.
EmitPanicked == writer.pc = "join" /\ writer.result = "panic" /\ ~stopped
NoWorkerLeft == \A w \in Workers : worker[w].pc = "dead"
Returns == <>(\/ writer.pc = "returned" /\ walk.pc = "closed"
              \/ EmitPanicked
              \/ NoWorkerLeft)

=============================================================================
