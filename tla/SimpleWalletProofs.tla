------------------------- MODULE SimpleWalletProofs -------------------------
(***************************************************************************)
(* Proofs about SimpleWallet for every value of MaxHeight and MaxResets.   *)
(*                                                                         *)
(* TypeOK is not inductive on its own: reset_restart increments epoch,     *)
(* and the bound epoch < MaxResets is checked one step earlier, by         *)
(* reset_clear.  IInv adds that fact.                                      *)
(***************************************************************************)
EXTENDS SimpleWallet, TLAPS

(* The bound on epoch carried from reset_clear to reset_restart.          *)
RestartBound == pc = "ResetRestart" => epoch < MaxResets

IInv ==
    /\ TypeOK
    /\ RestartBound

(* Whatever argument reset is given, the height it resynchronises from    *)
(* lies in 0..MaxHeight + 1.                                               *)
LEMMA ParsedHeightType ==
    \A a \in ResetArgs : ParsedHeight(a) \in 0..MaxHeight + 1
BY BoundsAssumption DEF ResetArgs, ParsedHeight, ParseOk

(* The initial states satisfy the inductive invariant.                    *)
LEMMA InitIInv == Init => IInv
<1> SUFFICES ASSUME Init PROVE IInv
    OBVIOUS
<1>1. resetArg \in ResetArgs
    <2>1. resetArg \in [kind : {"none", "bad"}, val : {0}]
        BY DEF Init
    <2>2. QED
        BY <2>1 DEF ResetArgs
<1>2. /\ pc \in PcValues
      /\ retPc \in {"Run", "Console"}
      /\ wallet \in {"none", "ready", "shutdown"}
    BY DEF Init, PcValues, Terminated
<1>3. /\ roundEpoch \in 0..MaxResets
      /\ epoch \in 0..MaxResets
      /\ lastDoneEpoch \in 0..MaxResets
      /\ resetFrom \in 0..MaxHeight + 1
    BY BoundsAssumption DEF Init
<1>4. TypeOK
    BY <1>1, <1>2, <1>3 DEF Init, TypeOK
<1>5. QED
    BY <1>4 DEF Init, IInv, RestartBound

(* Every step of the specification preserves the inductive invariant.     *)
LEMMA NextIInv == IInv /\ [Next]_vars => IInv'
<1> SUFFICES ASSUME IInv, [Next]_vars PROVE IInv'
    OBVIOUS
<1> USE BoundsAssumption
<1> USE DEF IInv, TypeOK, RestartBound, PcValues, Terminated, Heights
<1>1. CASE init_fail
    BY <1>1 DEF init_fail
<1>2. CASE new_wallet
    BY <1>2 DEF new_wallet, InitModes
<1>3. CASE tryToOpenWallet
    BY <1>3 DEF tryToOpenWallet
<1>4. CASE addObservers
    BY <1>4 DEF addObservers
<1>5. CASE process_command
    BY <1>5 DEF process_command
<1>6. CASE run
    BY <1>6 DEF run
<1>7. CASE reset_restart
    <2>1. CASE ResetAccepted(resetArg)
               /\ RestartSynchroniser(ParsedHeight(resetArg))
               /\ pc' = "ResetWait"
        <3>1. ParsedHeight(resetArg) \in 0..MaxHeight + 1
            BY ParsedHeightType
        <3>2. epoch + 1 \in 0..MaxResets
            BY <1>7 DEF reset_restart
        <3>3. QED
            BY <1>7, <2>1, <3>1, <3>2 DEF reset_restart, RestartSynchroniser
    <2>2. CASE UNCHANGED <<epoch, roundRunning, needSync, resetFrom>>
               /\ pc' \in {retPc, "ResetWait"}
        BY <1>7, <2>2 DEF reset_restart
    <2>3. QED
        BY <1>7, <2>1, <2>2 DEF reset_restart
<1>8. CASE reset_wait
    BY <1>8 DEF reset_wait
<1>9. CASE deinit
    BY <1>9 DEF deinit
<1>10. CASE exit
    BY <1>10 DEF exit
<1>11. ASSUME NEW a \in ResetArgs, reset_clear(a)
       PROVE IInv'
    BY <1>11 DEF reset_clear
<1>12. CASE syncRoundStart
    BY <1>12 DEF syncRoundStart
<1>13. CASE synchronizationCompleted
    BY <1>13 DEF synchronizationCompleted
<1>14. CASE nodeUpdated
    BY <1>14 DEF nodeUpdated
<1>15. CASE UNCHANGED vars
    BY <1>15 DEF vars
<1>16. QED
    BY <1>1, <1>2, <1>3, <1>4, <1>5, <1>6, <1>7, <1>8, <1>9, <1>10, <1>11,
       <1>12, <1>13, <1>14, <1>15
       DEF Next, MainStep, UserStep, WalletStep

(* The inductive invariant holds in every reachable state.                *)
THEOREM IInvHolds == Spec => []IInv
BY InitIInv, NextIInv, PTL DEF Spec

(* Every variable of the session holds a value of its kind (TypeOK).      *)
THEOREM TypeCorrect == Spec => []TypeOK
BY IInvHolds, PTL DEF IInv

=============================================================================
