----------------------------- MODULE OptimizeAll -----------------------------
(***************************************************************************)
(* The "optimize" and "optimize_all" console commands of lithe-wallet      *)
(* (src/SimpleWallet/SimpleWallet.cpp, lines 1493-1617).  Each sends       *)
(* transactions to self that combine unlocked outputs; optimize_all       *)
(* announces a number of rounds, one per 100 unlocked outputs, then runs a *)
(* loop of sends.  A send is sendTransaction, the wait for its result and *)
(* storeWallet: an invalid id, a send error or a failed store ends the     *)
(* command (a failed store after the transaction went out), while an      *)
(* exception from sendTransaction is caught inside the loop and the next  *)
(* round is tried.                                                         *)
(***************************************************************************)
EXTENDS Naturals

CONSTANT
    OutputCounts    \* values getNumUnlockedOutputs may return

ASSUME OptimizeAssumption == OutputCounts \subseteq Nat

(* Outputs combined per round (lines 1562-1563).                          *)
OutputsPerRound == 100

VARIABLES
    opc,        \* "Idle" at the console, "Loop" inside optimize_all
    rounds,     \* transactions the command announced (1 for optimize)
    a,          \* the loop counter of line 1565
    sent,       \* optimisation transactions sent by the current command
    failed      \* the current command ended on an error

vars == <<opc, rounds, a, sent, failed>>

-----------------------------------------------------------------------------
(* Lines 1562-1563: remainder and rounds.                                 *)
Rounds(n) == (n - (n % OutputsPerRound)) \div OutputsPerRound

(* The outcome of one send: "ok", "invalid" (WALLET_LEGACY_INVALID_       *)
(* TRANSACTION_ID), "error" (sent.wait reports an error), "store" (the   *)
(* wallet cannot be stored) or "thrown" (an exception from inside the      *)
(* try block, caught at lines 1605-1614).                                 *)
SendOutcomes == {"ok", "invalid", "error", "store", "thrown"}

(* The outcomes in which the transaction was sent: storeWallet runs only  *)
(* after sent.wait reported success.                                      *)
SentOutcomes == {"ok", "store"}

Init ==
    /\ opc = "Idle"
    /\ rounds = 0
    /\ a = 0
    /\ sent = 0
    /\ failed = FALSE

(* optimize_outputs, lines 1493-1548: one send; every outcome returns to  *)
(* the console.                                                           *)
optimize_outputs ==
    /\ opc = "Idle"
    /\ \E o \in SendOutcomes :
          /\ sent' = IF o \in SentOutcomes THEN 1 ELSE 0
          /\ failed' = (o # "ok")
    /\ rounds' = 1
    /\ UNCHANGED <<opc, a>>

(* optimize_all_outputs, lines 1552-1565: count the unlocked outputs (an *)
(* exception leaves the count at 0), announce the rounds, start the loop *)
(* at a = 1.                                                             *)
optimize_all_start ==
    /\ opc = "Idle"
    /\ \E n \in OutputCounts \cup {0} : rounds' = Rounds(n)
    /\ a' = 1
    /\ sent' = 0
    /\ failed' = FALSE
    /\ opc' = "Loop"

(* Variant of optimize_all_round for mutation testing: the loop counter  *)
(* is not advanced after a send.                                          *)
optimize_all_round_noIncrement ==
    /\ opc = "Loop"
    /\ a < rounds
    /\ \E o \in SendOutcomes :
          /\ sent' = IF o \in SentOutcomes THEN sent + 1 ELSE sent
          /\ IF o \in {"ok", "thrown"}
                THEN UNCHANGED <<a, opc, failed>>
                ELSE /\ opc' = "Idle"
                     /\ failed' = TRUE
                     /\ UNCHANGED a
    /\ UNCHANGED rounds

(* One iteration of the loop of lines 1565-1615: a success or a caught   *)
(* exception goes on with a + 1; the other failures return.              *)
optimize_all_round ==
    /\ opc = "Loop"
    /\ a < rounds
    /\ \E o \in SendOutcomes :
          /\ sent' = IF o \in SentOutcomes THEN sent + 1 ELSE sent
          /\ IF o \in {"ok", "thrown"}
                THEN /\ a' = a + 1
                     /\ UNCHANGED <<opc, failed>>
                ELSE /\ opc' = "Idle"
                     /\ failed' = TRUE
                     /\ UNCHANGED a
    /\ UNCHANGED rounds

(* The loop condition a < rounds fails: the command returns true.         *)
optimize_all_end ==
    /\ opc = "Loop"
    /\ ~(a < rounds)
    /\ opc' = "Idle"
    /\ UNCHANGED <<rounds, a, sent, failed>>

Next ==
    \/ optimize_outputs
    \/ optimize_all_start
    \/ optimize_all_round
    \/ optimize_all_end

Spec == Init /\ [][Next]_vars

-----------------------------------------------------------------------------
(* optimize_all never sends more optimisation transactions than the      *)
(* rounds it announced ("Total Optimization Rounds").                     *)
SentWithinRounds == sent <= rounds

(* When optimize_all returns without an error, it has sent one            *)
(* transaction for each round it announced.                               *)
AllRoundsSent ==
    [][opc = "Loop" /\ opc' = "Idle" /\ ~failed' => sent' = rounds]_vars

=============================================================================
