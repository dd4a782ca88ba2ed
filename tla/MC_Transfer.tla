------------------------------ MODULE MC_Transfer ------------------------------
(* Two plain destinations and one alias give single and multi-address     *)
(* transfers, with and without an alias to merge; one message is enough   *)
(* for it to be attached or missing; the fees lie below, at and above     *)
(* MINIMUM_FEE.                                                            *)
EXTENDS Transfer

CONSTANTS d1, d2, al1, m1

MC_Dests == {d1, d2}
MC_Aliases == {al1}
MC_Msgs == {m1}
MC_Fees == {50, 100, 200}
=============================================================================
