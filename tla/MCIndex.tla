------------------------------- MODULE MCIndex -------------------------------
(* An index directory: the locks its builders, queries and purgers meet at   *)
(* and what a purge leaves (IndexDirectory), and the files they publish      *)
(* under them (Snapshot).  Each takes the other's lock for granted, so one   *)
(* moves in each behaviour.                                                  *)
EXTENDS IndexDirectory, TLC

CONSTANTS
    Publishers, Readers, Alone, NoProc, RetireAge, RetiredBuilds, OpenAttempts, MaxRemovals, DeltaLimit, InodeChecks,
    MaxEpoch, MaxTime, MaxFaults, MaxEvents, MaxLag

VARIABLES
    part,
    clock, held, manifest, files, torn, made, faults, running

S == INSTANCE Snapshot WITH Builders <- Publishers, Queries <- Readers, lock <- held, proc <- running

ASSUME PublishersAssumption == S!ProcessesAssumption /\ S!LimitsAssumption

publishing == <<clock, held, manifest, files, torn, made, faults, running>>
parts == <<part, vars, publishing>>

Symmetry == Permutations(Builders) \cup Permutations(Queries) \cup Permutations(Purgers)

PartsInit ==
    /\ part \in {"directory", "aging", "racing"} /\ Init /\ S!Init
    /\ part # "directory" => lock = 0

\* Superseded files grow old, or a process dies on the way, beside one reader; two
\* readers race while one build, and neither, happens.
Aging == \A q \in Readers \ {Alone} : running'[q] = running[q]
Racing == clock' = clock /\ faults' = faults /\ made' <= 1

PartsNext ==
    \/ part = "directory" /\ Next /\ UNCHANGED <<part, publishing>>
    \/ part = "aging" /\ S!Next /\ Aging /\ UNCHANGED <<part, vars>>
    \/ part = "racing" /\ S!Next /\ Racing /\ UNCHANGED <<part, vars>>

PartsSpec == PartsInit /\ [][PartsNext]_parts

(* An index nobody republished never looks missing: a query fails to open a  *)
(* whole snapshot only once the manifest names another, and one that read    *)
(* its manifest less than RETIRE_MS ago opens every file it names, unless    *)
(* more than RETIRED_BUILDS builds were published since (index.rs `open`, "a *)
(* component gone, or of another build"; snapshot.rs RETIRE_MS).             *)
SnapshotsOpen == S!FailsOnlyWhenSuperseded /\ S!GracePeriod

(* No writer writes a name that somebody may open through a manifest it read *)
(* (snapshot.rs, "never renamed over").                                      *)
NeverRewritten == S!NeverRewritten
=============================================================================
