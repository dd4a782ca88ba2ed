----------------------------- MODULE MC_WalletText -----------------------------
(* Urls of up to 6 symbols reach every branch of parseUrlAddress: a scheme *)
(* ("://" takes 3), a host, a ':' with a port and a '/'.  An address of 2 *)
(* symbols stands for the 99 of a Lithe address and an accepted length of *)
(* 1 for the 98 of line 348, so records of 5 tokens hold a record in the  *)
(* format, "OA RA c c SEP", and one the code accepts, "OA RA c SEP".      *)
EXTENDS WalletText

MC_UrlLen == 6
MC_RecordLen == 5
MC_MaxRecords == 1
MC_AddressLen == 2
MC_AcceptedLen == 1
=============================================================================
