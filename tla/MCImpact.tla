------------------------------ MODULE MCImpact ------------------------------
EXTENDS Impact, TLC
F(u, i, d) == [uses |-> u, imports |-> i, defines |-> d]
Def1 == F({}, {}, TRUE)
Reexport == F({}, {2}, FALSE)
MCTrees == {(2 :> Def1) @@ (3 :> Reexport) @@ (4 :> F({"call"}, im, FALSE)) @@ (5 :> F(u, {2}, FALSE)) :
                im \in {{}, {3}, {1}}, u \in {{"member"}, {"call"}}}
MCContents == {Def1, Reexport, F({"type", "member"}, {3}, FALSE)}
=============================================================================
