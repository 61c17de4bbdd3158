---------------------------- MODULE MCBatchLoader ----------------------------
(***************************************************************************)
(* Two sales, one of them missing, with and without a filter.              *)
(***************************************************************************)
EXTENDS BatchLoader

CONSTANTS a, b, live
=============================================================================
