---------------------------- MODULE MC_OptimizeAll ----------------------------
(* Output counts below one round, at exactly one round, with a remainder *)
(* and for a large wallet: 0, 99, 100, 250, 300, 599 and 1000 give 0, 0,  *)
(* 1, 2, 3, 5 and 10 rounds.                                               *)
EXTENDS OptimizeAll

MC_OutputCounts == {0, 99, 100, 250, 300, 599, 1000}
=============================================================================
