---------------------------- MODULE Publications ----------------------------
(***************************************************************************)
(* What publishing promises: the index has one current snapshot, and every *)
(* publication is an atomic change of it, made by somebody entitled to it. *)
(***************************************************************************)
EXTENDS Integers

CONSTANTS Queries, NoSnapshot

VARIABLES
    current,  \* <<epoch, seq, deltas>> published last, or NoSnapshot
    usable,   \* queries may answer from it
    handed,   \* the last epoch handed to a build
    base      \* the snapshot each query works from

vars == <<current, usable, handed, base>>

Epoch == current[1]
Seq == current[2]
Deltas == current[3]

Init ==
    /\ current = NoSnapshot
    /\ usable = FALSE
    /\ handed = 0
    /\ base = [q \in Queries |-> NoSnapshot]

\* A build takes an epoch of its own, newer than any.
HandOut ==
    /\ handed' = handed + 1
    /\ UNCHANGED <<current, usable, base>>

\* It replaces whatever is current, without deltas.
Rebuild ==
    /\ Epoch < handed
    /\ current' = <<handed, 1, 0>>
    /\ usable' = TRUE
    /\ UNCHANGED <<handed, base>>

\* The same build's symbols are added once, to a snapshot still usable, and
\* keep the deltas published meanwhile.
Complete ==
    /\ usable /\ Seq = 1
    /\ current' = <<Epoch, 2, Deltas>>
    /\ UNCHANGED <<usable, handed, base>>

\* A delta extends exactly the snapshot it was computed from.
Extend ==
    /\ \E q \in Queries : base[q] = current
    /\ current # NoSnapshot
    /\ current' = <<Epoch, Seq, Deltas + 1>>
    /\ UNCHANGED <<usable, handed, base>>

\* Only a query that worked from the snapshot, or from none, abandons it.
Abandon ==
    /\ \E q \in Queries : base[q] \in {current, NoSnapshot}
    /\ usable' = FALSE
    /\ UNCHANGED <<current, handed, base>>

\* A power loss forgets what was not durable.
Lose ==
    /\ current' = NoSnapshot
    /\ usable' = FALSE
    /\ base' = [q \in Queries |-> NoSnapshot]
    /\ UNCHANGED handed

\* Queries start from the current snapshot, and end.
Rebase ==
    /\ base' \in [Queries -> {NoSnapshot, current} \cup {base[q] : q \in Queries}]
    /\ \A q \in Queries : base'[q] \in {NoSnapshot, current, base[q]}
    /\ UNCHANGED <<current, usable, handed>>

Next ==
    \/ HandOut \/ Rebuild \/ Complete \/ Extend \/ Abandon \/ Lose \/ Rebase

Spec == Init /\ [][Next]_vars

=============================================================================
