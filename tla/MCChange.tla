------------------------------ MODULE MCChange ------------------------------
(* A file with two overloads of one name; only the second's body changes. *)
EXTENDS Change
Fn(sig, body) == [in |-> "", kind |-> "fn", name |-> "f", sig |-> sig, body |-> body]
Overloads == {<<Fn("s", "b"), Fn("t", x)>> : x \in {"b", "c"}}
=============================================================================
