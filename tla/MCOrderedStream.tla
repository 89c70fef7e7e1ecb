--------------------------- MODULE MCOrderedStream ---------------------------
(* OrderedStream for TLC: with three workers the smallest lead is four      *)
(* chunks, which five batches exceed.                                       *)
EXTENDS OrderedStream
=============================================================================
