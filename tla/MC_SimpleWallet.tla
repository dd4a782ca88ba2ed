--------------------------- MODULE MC_SimpleWallet ---------------------------
(* Model-checking instance of SimpleWallet: a chain of up to two blocks    *)
(* above genesis, so that "reset 2" can be tried while the node is at 1,  *)
(* and two resets, so that a reset can follow a reset.                    *)
EXTENDS SimpleWallet

MC_MaxHeight == 2
MC_MaxResets == 2
=============================================================================
