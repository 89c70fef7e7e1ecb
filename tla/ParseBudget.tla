----------------------------- MODULE ParseBudget -----------------------------
(***************************************************************************)
(* The parses of a build's second phase (greeg-index: build.rs `phase2`,   *)
(* `ParseBudget`).  A pool of threads parses every file with a grammar.  A  *)
(* parse of a large file waits on a condition variable until its share of  *)
(* a byte budget is free; a small file does not ask.                       *)
(*                                                                         *)
(* The mutex is held for one comparison and one assignment and never over  *)
(* another wait, so each critical section is one step.  What a parse finds  *)
(* is left out.                                                            *)
(***************************************************************************)
EXTENDS Naturals, FiniteSets, FiniteSetsExt

CONSTANTS
    Threads,
    Files, NoFile,
    Size,        \* of each file, in bytes
    Total,       \* PARSE_BYTES_IN_FLIGHT
    Unmetered    \* PARSE_UNMETERED

\* What the constants may be.
Assumption ==
    /\ Threads # {} /\ IsFiniteSet(Threads)
    /\ IsFiniteSet(Files) /\ NoFile \notin Files /\ Size \in [Files -> Nat]
    /\ Total \in Nat /\ Unmetered \in Nat \ {0} /\ Unmetered <= Total

VARIABLES
    todo,     \* the files no thread has taken
    left,     \* `left`: the bytes of budget that are free
    thread    \* [pc, file, held]

vars == <<todo, left, thread>>

Resting == [pc |-> "rest", file |-> NoFile, held |-> 0]

Init ==
    /\ todo = Files
    /\ left = Total
    /\ thread = [t \in Threads |-> Resting]

\* A thread of the pool takes the next file, in whatever order it is handed out.
Take(t, f) ==
    /\ thread[t].pc = "rest"
    /\ f \in todo
    /\ todo' = todo \ {f}
    /\ thread' = [thread EXCEPT ![t] = [pc |-> "ask", file |-> f, held |-> 0]]
    /\ UNCHANGED left

ParseUnasked(t) ==
    /\ thread[t].pc = "ask"
    /\ Size[thread[t].file] < Unmetered
    /\ thread' = [thread EXCEPT ![t].pc = "parse"]
    /\ UNCHANGED <<todo, left>>

\* Mutant of Need: a file past the budget asks for more than there is.
AllOfIt(f) == Size[f]

\* A file past the budget takes all of it.
Need(f) == IF Size[f] < Total THEN Size[f] ELSE Total

\* The share is free: it is taken while the mutex is held.
Acquire(t) ==
    /\ thread[t].pc = "ask"
    /\ Size[thread[t].file] >= Unmetered
    /\ left >= Need(thread[t].file)
    /\ left' = left - Need(thread[t].file)
    /\ thread' = [thread EXCEPT ![t].pc = "parse", ![t].held = Need(thread[t].file)]
    /\ UNCHANGED todo

\* It is not: the thread waits, and looks again whenever it is woken.
Wait(t) ==
    /\ thread[t].pc = "ask"
    /\ Size[thread[t].file] >= Unmetered
    /\ left < Need(thread[t].file)
    /\ thread' = [thread EXCEPT ![t].pc = "wait"]
    /\ UNCHANGED <<todo, left>>

\* A condition variable may wake a thread for nothing.
WakeSpuriously(t) ==
    /\ thread[t].pc = "wait"
    /\ thread' = [thread EXCEPT ![t].pc = "ask"]
    /\ UNCHANGED <<todo, left>>

\* Mutant of Woken: a woken thread does not look at the budget again.
WokenToParse(u) ==
    IF thread[u].pc = "wait"
    THEN [thread[u] EXCEPT !.pc = "parse", !.held = Need(thread[u].file)] ELSE thread[u]

\* Everyone who waits, when a share is given back.
Woken(u) == IF thread[u].pc = "wait" THEN [thread[u] EXCEPT !.pc = "ask"] ELSE thread[u]

\* A parse is over, with a panic or without: Held gives back what it holds and
\* wakes everyone.  A panic ends the closure, not the pool's thread.
Release(t) ==
    /\ thread[t].pc = "parse"
    /\ thread[t].held > 0
    /\ left' = left + thread[t].held
    /\ thread' = [u \in Threads |-> IF u = t THEN Resting ELSE Woken(u)]
    /\ UNCHANGED todo

EndUnasked(t) ==
    /\ thread[t].pc = "parse"
    /\ thread[t].held = 0
    /\ thread' = [thread EXCEPT ![t] = Resting]
    /\ UNCHANGED <<todo, left>>

Step(t) ==
    \/ \E f \in Files : Take(t, f)
    \/ ParseUnasked(t) \/ Acquire(t) \/ Wait(t)
    \/ Release(t) \/ EndUnasked(t)

Finished == todo = {} /\ \A t \in Threads : thread[t].pc = "rest"

\* The build goes on to resolve what was parsed.
Done == Finished /\ UNCHANGED vars

Next == (\E t \in Threads : Step(t) \/ WakeSpuriously(t)) \/ Done

Spec == Init /\ [][Next]_vars

\* Each thread of the pool runs.  The mutex is not fair: a thread that asks may
\* find the budget taken again each time, so weak fairness is all there is.
FairSpec == Spec /\ \A t \in Threads : WF_vars(Step(t))

-----------------------------------------------------------------------------
\* Every variable keeps its type: what is left is never negative.
TypeOK ==
    /\ todo \subseteq Files
    /\ left \in 0 .. Total
    /\ thread \in [Threads -> [pc : {"rest", "ask", "wait", "parse"},
                               file : Files \cup {NoFile}, held : 0 .. Total]]

Parsing == {t \in Threads : thread[t].pc = "parse"
                /\ Size[thread[t].file] >= Unmetered}
Held(S) == MapThenSumSet(LAMBDA t : thread[t].held, S)

\* The budget is never lent twice or lost, whatever order threads ask, wait,
\* wake and finish in: metered parses hold what is not left, and a file past
\* the budget parses with no other metered file.
WithinBudget ==
    /\ TypeOK
    /\ left + Held(Parsing) = Total
    /\ \A t, u \in Parsing : Size[thread[t].file] >= Total => u = t

\* Every file is parsed: no thread waits for a share that never comes.
Finishes == <>Finished
=============================================================================
