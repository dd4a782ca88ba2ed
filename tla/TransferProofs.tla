--------------------------- MODULE TransferProofs ---------------------------
(***************************************************************************)
(* Proofs that transfer sends what the user typed and confirmed, for      *)
(* every set of destinations, aliases, messages and fees.  SentAsRequested *)
(* is not inductive: it speaks of the last transaction sent, and a send   *)
(* keeps it only if, at that moment, cmd.dsts holds every destination     *)
(* requested and the messages were built from it.  That in turn holds    *)
(* only because, while aliases are being resolved, every requested        *)
(* destination is in cmd.dsts, still to resolve, or resolved and waiting  *)
(* to be merged, and because a transfer starts with nothing left over     *)
(* from the one before.  TInv states these facts.                         *)
(***************************************************************************)
EXTENDS Transfer, TLAPS

(* At the prompt no resolved alias is left from an earlier transfer.      *)
IdleClear == tpc = "Idle" => aliasDsts = {}

(* While aliases are resolved, each requested destination is a plain      *)
(* destination in cmd.dsts, an alias still to resolve, or a resolved     *)
(* alias not merged yet.                                                  *)
ResolvePartition ==
    tpc = "Resolve" => requested = dsts \cup toResolve \cup aliasDsts

(* From the merge until the send, cmd.dsts is what was requested and the  *)
(* messages are attached to all of it.                                    *)
Prepared ==
    tpc \in {"Confirm", "Send"} =>
        /\ dsts = requested
        /\ messages = MessagesFor(dsts, msgs)

(* Between the confirmation and the send, the user has confirmed the      *)
(* destinations that are sent.                                            *)
SendConfirmed == tpc = "Send" => confirmed /\ shownDsts = dsts

TInv ==
    /\ TypeOK
    /\ IdleClear
    /\ ResolvePartition
    /\ Prepared
    /\ SendConfirmed
    /\ SentAsRequested

(* The messages built from typed destinations and messages are pairs of a *)
(* message and an address.                                                *)
LEMMA MessagesForType ==
    ASSUME NEW ds \in SUBSET (Dests \cup Aliases), NEW ms \in SUBSET Msgs
    PROVE  MessagesFor(ds, ms) \subseteq Msgs \X (Dests \cup Aliases)
BY DEF MessagesFor

(* The transaction sent is never the placeholder NoTx: its fee is at      *)
(* least MINIMUM_FEE.                                                     *)
LEMMA SentTxNotNoTx == SentTx # NoTx
<1>1. SentTx.fee # NoTx.fee
    BY DEF SentTx, NoTx, MinimumFee
<1>2. QED
    BY <1>1

LEMMA InitTInv == Init => TInv
<1> SUFFICES ASSUME Init PROVE TInv
    OBVIOUS
<1>1. lastTx.fee \in Nat /\ lastTx = NoTx
    BY DEF Init, NoTx
<1>2. QED
    BY ZenonT(60), <1>1 DEF Init, TInv, TypeOK, Tpcs, IdleClear,
       ResolvePartition, Prepared, SendConfirmed, SentAsRequested

(* Every way transfer returns leaves a state TInv allows, whatever it was *)
(* doing before, as long as the last transaction is kept.                 *)
LEMMA ClearTInv ==
    ASSUME TInv, ClearCmd, UNCHANGED <<inflight, lastTx>>
    PROVE  TInv'
BY ZenonT(60) DEF ClearCmd, TInv, TypeOK, Tpcs, IdleClear, ResolvePartition, Prepared,
       SendConfirmed, SentAsRequested

LEMMA NextTInv == TInv /\ [Next]_vars => TInv'
<1> SUFFICES ASSUME TInv, [Next]_vars PROVE TInv'
    OBVIOUS
<1> USE TransferAssumption
<1> USE DEF TInv, TypeOK, Tpcs, IdleClear, ResolvePartition, Prepared,
            SendConfirmed, SentAsRequested
<1>1. CASE transfer_parse
    BY ZenonT(60), <1>1 DEF transfer_parse
<1>2. CASE resolve_alias
    <2>1. PICK al \in toResolve :
              \/ /\ toResolve' = toResolve \ {al}
                 /\ aliasDsts' = aliasDsts \cup {al}
                 /\ UNCHANGED <<tpc, fee, dsts, requested, msgs, messages,
                                confirmed, shownDsts, shownFee, observer,
                                result>>
              \/ ClearCmd
        BY <1>2 DEF resolve_alias
    <2>2. UNCHANGED <<inflight, lastTx>> /\ tpc = "Resolve"
        BY <1>2 DEF resolve_alias
    <2>3. CASE ClearCmd
        BY <2>2, <2>3, ClearTInv
    <2>4. CASE ~ClearCmd
        BY <2>1, <2>2, <2>4
    <2>5. QED
        BY <2>3, <2>4
<1>3. CASE transfer_prepare
    <2>1. tpc = "Resolve" /\ toResolve = {} /\ UNCHANGED <<inflight, lastTx>>
        BY <1>3 DEF transfer_prepare
    <2>2. CASE ClearCmd
        BY <2>1, <2>2, ClearTInv
    <2>3. CASE ~ClearCmd
        <3>1. /\ dsts' = dsts \cup aliasDsts
              /\ messages' = MessagesFor(dsts', msgs)
              /\ observer' = TRUE
              /\ tpc' = "Confirm"
              /\ UNCHANGED <<fee, requested, toResolve, aliasDsts, msgs,
                             confirmed, shownDsts, shownFee, result>>
            BY <1>3, <2>3 DEF transfer_prepare
        <3>2. dsts' = requested'
            BY <2>1, <3>1
        <3>3. messages' \subseteq Msgs \X (Dests \cup Aliases)
            BY <3>1, MessagesForType
        <3>4. QED
            BY ZenonT(60), <2>1, <3>1, <3>2, <3>3
    <2>4. QED
        BY <2>2, <2>3
<1>4. CASE confirm_transaction
    <2>1. tpc = "Confirm" /\ UNCHANGED <<inflight, lastTx>>
        BY <1>4 DEF confirm_transaction
    <2>2. CASE ClearCmd
        BY <2>1, <2>2, ClearTInv
    <2>3. CASE ~ClearCmd
        BY ZenonT(60), <1>4, <2>1, <2>3 DEF confirm_transaction
    <2>4. QED
        BY <2>2, <2>3
<1>5. CASE transfer_send
    <2>1. tpc = "Send" /\ lastTx' = SentTx
        BY <1>5 DEF transfer_send
    <2>2. SentAsRequested'
        BY <2>1, SentTxNotNoTx DEF SentTx
    <2>3. lastTx'.fee \in Nat
        BY <2>1 DEF SentTx, MinimumFee
    <2>4. CASE ClearCmd
        <3>1. IdleClear' /\ ResolvePartition' /\ Prepared' /\ SendConfirmed'
            BY <2>4 DEF ClearCmd
        <3>2. inflight' \in BOOLEAN
            BY ZenonT(60), <1>5 DEF transfer_send
        <3>3. TypeOK'
            BY ZenonT(60), <2>3, <2>4, <3>2 DEF ClearCmd
        <3>4. QED
            BY <2>2, <3>1, <3>3
    <2>5. CASE ~ClearCmd
        BY ZenonT(60), <1>5, <2>1, <2>2, <2>3, <2>5 DEF transfer_send
    <2>6. QED
        BY <2>4, <2>5
<1>6. CASE transfer_wait
    <2>1. tpc = "Wait" /\ UNCHANGED <<inflight, lastTx>>
        BY <1>6 DEF transfer_wait
    <2>2. CASE ClearCmd
        BY <2>1, <2>2, ClearTInv
    <2>3. CASE ~ClearCmd
        BY ZenonT(60), <1>6, <2>1, <2>3 DEF transfer_wait
    <2>4. QED
        BY <2>2, <2>3
<1>7. CASE transfer_store
    BY <1>7, ClearTInv DEF transfer_store
<1>8. CASE wallet_send_completed
    BY <1>8, ZenonT(60) DEF wallet_send_completed
<1>9. CASE UNCHANGED vars
    BY <1>9 DEF vars
<1>10. QED
    BY <1>1, <1>2, <1>3, <1>4, <1>5, <1>6, <1>7, <1>8, <1>9
       DEF Next, ConsoleStep

THEOREM TInvHolds == Spec => []TInv
BY InitTInv, NextTInv, PTL DEF Spec

(* Every variable of the transfer model stays within its type, for every  *)
(* set of destinations, aliases, messages and fees.                       *)
THEOREM TypeCorrect == Spec => []TypeOK
BY TInvHolds, PTL DEF TInv

(* Every transaction transfer hands to sendTransaction goes to exactly   *)
(* the destinations the user typed, aliases resolved and merged, and     *)
(* carries every message for every one of them (SentAsRequested).         *)
THEOREM SentAsRequestedHolds == Spec => []SentAsRequested
BY TInvHolds, PTL DEF TInv

(* A step that hands a transaction to sendTransaction is a transfer_send, *)
(* taken only after the user confirmed the destinations it sends to.      *)
LEMMA StepConfirmed ==
    TInv /\ [Next]_vars
        => [lastTx' # lastTx => confirmed /\ lastTx'.dsts = shownDsts]_vars
<1> SUFFICES ASSUME TInv, [Next]_vars, lastTx' # lastTx
             PROVE  confirmed /\ lastTx'.dsts = shownDsts
    OBVIOUS
<1>1. transfer_send
    <2>1. ~UNCHANGED vars
        BY DEF vars
    <2>2. ~(resolve_alias \/ transfer_prepare \/ confirm_transaction
            \/ transfer_wait \/ transfer_store \/ wallet_send_completed
            \/ transfer_parse)
        BY DEF resolve_alias, transfer_prepare, confirm_transaction,
               transfer_wait, transfer_store, wallet_send_completed,
               transfer_parse
    <2>3. QED
        BY <2>1, <2>2 DEF Next, ConsoleStep
<1>2. tpc = "Send" /\ lastTx' = SentTx
    BY <1>1 DEF transfer_send
<1>3. confirmed /\ shownDsts = dsts
    BY ZenonT(60), <1>2 DEF TInv, SendConfirmed
<1>4. QED
    BY <1>2, <1>3 DEF SentTx

(* No transaction is handed to sendTransaction unless the user confirmed *)
(* it with a valid wallet password, and it goes to the destinations       *)
(* confirmTransaction showed (SentAsConfirmed).                           *)
THEOREM SentAsConfirmedHolds == Spec => SentAsConfirmed
<1>1. Spec => []TInv /\ [][Next]_vars
    BY TInvHolds, PTL DEF Spec
<1>2. QED
    BY <1>1, StepConfirmed, PTL DEF SentAsConfirmed

=============================================================================
