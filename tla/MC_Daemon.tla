------------------------------- MODULE MC_Daemon -------------------------------
(* A small daemon: a chain of at most 2 blocks above the genesis, with the *)
(* checkpoint at 1; set_log gets a documented level (4), the first one out *)
(* of range (5) and the largest uint16_t (65535); rollback_chain gets a    *)
(* height below the checkpoint, one it can roll back to, and one above    *)
(* any chain: 3 stands for 4294967295, what lexical_cast<uint32_t> makes  *)
(* of "-1"; rollbackTo treats every height above the top alike.           *)
EXTENDS Daemon

MC_MaxHeight == 2
MC_Checkpoint == 1
MC_SetLogInputs == {4, 5, 65535}
MC_RollbackInputs == {0, 1, 3}
MC_LogLevelArgs == {-2, 2, 7}
=============================================================================
