---------------------------- MODULE MC_SignMessage ----------------------------
(* A three-byte signature over bytes 0..2, with up to two bytes read past  *)
(* it: enough for a zero inside the signature and for none.               *)
EXTENDS SignMessage

MC_SigLen == 3
MC_MaxByte == 2
MC_JunkLen == 2
=============================================================================
