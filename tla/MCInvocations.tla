---------------------------- MODULE MCInvocations ----------------------------
(* Runs of greeg: what one of them answers, whatever fails under it          *)
(* (Answer), and the session logs that several of them share (SessionLog).   *)
(* One moves in each behaviour.  One session has a log that is nearly full,  *)
(* the other has none yet.                                                   *)
EXTENDS SessionLog, TLC

CONSTANTS s1, s2, Kinds, Climbs, N

VARIABLES
    part,
    req, image, pc, rung, try, mapped, lost, failed, noted, fate, pending, spawned, panicked, got,
    handed, buf, writing, committed, out, exit

A == INSTANCE Answer

answering == <<req, image, pc, rung, try, mapped, lost, failed, noted, fate, pending, spawned, panicked,
               got, handed, buf, writing, committed, out, exit>>
parts == <<part, vars, answering>>

ASSUME ReqAssumption == A!RequestAssumption

MCSeeded == [k \in Keys |-> IF k = s1 THEN 3 ELSE 0]

Symmetry == Permutations(Procs)

-----------------------------------------------------------------------------
PartsInit ==
    /\ part \in {"answer", "session"} /\ Init
    /\ IF part = "session" THEN req = (CHOOSE r \in A!Requests : TRUE) ELSE TRUE
    /\ A!Init

Program == part = "answer" /\ A!ProgramSteps /\ UNCHANGED <<part, vars>>

PartsNext ==
    \/ Program
    \/ part = "answer" /\ (A!BlockFails \/ A!SigbusReruns \/ A!SigbusEnds) /\ UNCHANGED <<part, vars>>
    \/ part = "session" /\ Next /\ UNCHANGED <<part, answering>>

PartsSpec == PartsInit /\ [][PartsNext]_parts /\ WF_parts(Program)

(* What is on stdout is always the beginning of the true answer, also where  *)
(* a fault makes the run start again, and a run that ends with 0 or 1 wrote  *)
(* all of it (commit.rs, outcome.rs).                                        *)
OutputIsAnswer == part = "answer" => A!OutIsPrefix /\ A!OkIsComplete

(* A run that said it rebuilds the index leaves no query a snapshot that     *)
(* failed, and a rebuild started behind it (lib.rs `mark_corrupt`, main.rs   *)
(* `flush_pending_build`).                                                   *)
PromiseKept == part = "answer" => A!PromiseKept

(* Every run ends: each recovery happens at most once (commit.rs).           *)
Terminates == part = "answer" => A!Terminates

(* The session log loses no record before it is old or pushed out, what it   *)
(* marks as shown a run of that session printed, and it never outgrows what  *)
(* its readers accept (session_store.rs).                                    *)
LogTrue == Remembered /\ MarkedWasPrinted /\ Bounded
=============================================================================
