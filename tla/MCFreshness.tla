----------------------------- MODULE MCFreshness -----------------------------
(* A root with a file and a directory, which has one too.  Queries check an  *)
(* index of all of it, while users do anything; or a builder makes the first *)
(* one, and users change the one file that is there, inodes staying.         *)
EXTENDS Freshness, TLC

CONSTANTS root, dir, a, x, q1, b

VARIABLE part

MCParent == [e \in Entries \ {Root} |-> IF e = x THEN dir ELSE root]

Checks(step) == part = "check" /\ step /\ UNCHANGED part
Builds(step) ==
    /\ part = "build" /\ step /\ UNCHANGED part
    /\ \A e \in {x, dir} : tree'[e] = tree[e]
    /\ tree'[root].stamp.ino = tree[root].stamp.ino

PartsInit ==
    \/ part = "check" /\ TRUE \in Indexed /\ Start(TRUE)
    \/ part = "build" /\ FALSE \in Indexed /\ Start(FALSE) /\ ~tree[dir].there

PartsNext ==
    \/ Checks(User \/ Tick \/ \E q \in Queries : QueryStep(q) \/ ReadStep(q))
    \/ Builds(Next)

PartsSpec ==
    /\ PartsInit /\ [][PartsNext]_<<part, vars>>
    /\ WF_<<part, vars>>(Builds(Tick))
    /\ \A q \in Queries : /\ WF_<<part, vars>>(Builds(QueryStep(q) \/ ReadStep(q)))
                          /\ SF_<<part, vars>>(Builds(ToRead(q)))
    /\ \A p \in Builders : WF_<<part, vars>>(Builds(BuildStep(p) \/ ReadStep(p)))

(* Once users stop, the index becomes exact and stays so, whatever was in    *)
(* doubt (build.rs `settle`).                                                *)
BecomesExact == part = "build" => Settles
=============================================================================
