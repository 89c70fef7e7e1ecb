----------------------------- MODULE MCSnapshot -----------------------------
(* Snapshot for TLC: a builder and a query that supersedes it between its    *)
(* phases, with a fault and a tick of the clock.                             *)
EXTENDS Snapshot
=============================================================================
