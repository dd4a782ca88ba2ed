------------------------------- MODULE Transfer -------------------------------
(***************************************************************************)
(* The "transfer" console command of lithe-wallet                          *)
(* (src/SimpleWallet/SimpleWallet.cpp, lines 1669-1846) and the wallet     *)
(* thread that completes the send.  transfer parses its arguments,         *)
(* resolves each alias, asks the user to confirm the alias addresses and *)
(* merges them into the destinations, attaches every message to every     *)
(* destination, registers a SendCompleteResultObserver, asks the user to *)
(* confirm the transaction (with the wallet password), raises the fee to  *)
(* MINIMUM_FEE, sends, waits for the completion and stores the wallet.   *)
(* WalletLegacy reports the completion from its own thread through the    *)
(* observer; sent.wait blocks until the observer holds it.               *)
(*                                                                         *)
(* An address is a model value: a plain destination, or an alias that   *)
(* stands for the address it resolves to.  TransferCommand::parseArguments *)
(* is not in the repository: its result is any set of destinations,      *)
(* aliases, messages and a fee from Fees.                                 *)
(***************************************************************************)
EXTENDS Naturals

CONSTANTS
    Dests,      \* plain destination addresses
    Aliases,    \* aliases, each standing for the address it resolves to
    Msgs,       \* messages a transfer may carry
    Fees        \* fees parseArguments may give

ASSUME TransferAssumption ==
    /\ Fees \subseteq Nat
    /\ Dests \cap Aliases = {}

(* CryptoNoteConfig.h, lines 39 and 56.                                   *)
MinimumFee == 100
MinimumMixin == 4

VARIABLES
    tpc,        \* where transfer is: "Idle" at the console prompt, or a step
    fee,        \* cmd.fee
    dsts,       \* cmd.dsts: the destinations the transaction goes to
    requested,  \* the plain destinations and aliases the user typed
    toResolve,  \* aliases not resolved yet
    aliasDsts,  \* cmd.aliases: resolved alias addresses, not merged yet
    msgs,       \* cmd.messages
    messages,   \* the TransactionMessages, <<message, address>> pairs
    confirmed,  \* the user answered y and the password validated
    shownDsts,  \* the destinations confirmTransaction printed
    shownFee,   \* the fee confirmTransaction printed
    observer,   \* the SendCompleteResultObserver is registered
    result,     \* what the observer holds: "none", "ok" or "error"
    inflight,   \* the wallet has accepted a send it has not completed
    lastTx      \* the last transaction handed to sendTransaction

vars == <<tpc, fee, dsts, requested, toResolve, aliasDsts, msgs, messages,
          confirmed, shownDsts, shownFee, observer, result, inflight, lastTx>>

-----------------------------------------------------------------------------
Tpcs == {"Idle", "Resolve", "Confirm", "Send", "Wait", "Store"}

NoTx == [dsts |-> {}, fee |-> 0, mixin |-> 0, messages |-> {}, msgs |-> {},
         requested |-> {}]

(* Variant of MessagesFor for mutation testing: the fields of the pair are *)
(* swapped.                                                               *)
MessagesFor_swapped(ds, ms) == {<<d, m>> : m \in ms, d \in ds}

(* Lines 1771-1776: one TransactionMessage per destination and message.  *)
MessagesFor(ds, ms) == {<<m, d>> : m \in ms, d \in ds}

(* transfer returns: the command's locals, the observer among them (its  *)
(* IWalletRemoveObserverGuard), are gone.                                 *)
ClearCmd ==
    /\ tpc' = "Idle"
    /\ fee' = 0
    /\ dsts' = {}
    /\ requested' = {}
    /\ toResolve' = {}
    /\ aliasDsts' = {}
    /\ msgs' = {}
    /\ messages' = {}
    /\ confirmed' = FALSE
    /\ shownDsts' = {}
    /\ shownFee' = 0
    /\ observer' = FALSE
    /\ result' = "none"

Init ==
    /\ tpc = "Idle"
    /\ fee = 0
    /\ dsts = {}
    /\ requested = {}
    /\ toResolve = {}
    /\ aliasDsts = {}
    /\ msgs = {}
    /\ messages = {}
    /\ confirmed = FALSE
    /\ shownDsts = {}
    /\ shownFee = 0
    /\ observer = FALSE
    /\ result = "none"
    /\ inflight = FALSE
    /\ lastTx = NoTx

-----------------------------------------------------------------------------
(* Lines 1730-1735: parseArguments; when it fails transfer returns with   *)
(* nothing changed, a stutter.  It gives at least one destination.        *)
transfer_parse ==
    /\ tpc = "Idle"
    /\ \E ds \in SUBSET Dests, as \in SUBSET Aliases, ms \in SUBSET Msgs,
          f \in Fees :
          /\ ds \cup as # {}
          /\ dsts' = ds
          /\ requested' = ds \cup as
          /\ toResolve' = as
          /\ msgs' = ms
          /\ fee' = f
    /\ tpc' = "Resolve"
    /\ UNCHANGED <<aliasDsts, messages, confirmed, shownDsts, shownFee,
                   observer, result, inflight, lastTx>>

(* Lines 1737-1756: resolveAlias and parseAccountAddressString for one    *)
(* alias; an exception from either returns.                               *)
resolve_alias ==
    /\ tpc = "Resolve"
    /\ \E al \in toResolve :
          \/ /\ toResolve' = toResolve \ {al}
             /\ aliasDsts' = aliasDsts \cup {al}
             /\ UNCHANGED <<tpc, fee, dsts, requested, msgs, messages,
                            confirmed, shownDsts, shownFee, observer, result>>
          \/ ClearCmd
    /\ UNCHANGED <<inflight, lastTx>>

(* Variant of transfer_prepare for mutation testing: the messages are    *)
(* built from the destinations before the alias addresses are merged.    *)
transfer_prepare_messagesFirst ==
    /\ tpc = "Resolve"
    /\ toResolve = {}
    /\ \/ /\ dsts' = dsts \cup aliasDsts
          /\ messages' = MessagesFor(dsts, msgs)
          /\ observer' = TRUE
          /\ tpc' = "Confirm"
          /\ UNCHANGED <<fee, requested, toResolve, aliasDsts, msgs, confirmed,
                         shownDsts, shownFee, result>>
       \/ aliasDsts # {} /\ ClearCmd
    /\ UNCHANGED <<inflight, lastTx>>

(* Lines 1758-1788: with aliases, askAliasesTransfersConfirmation (lines *)
(* 363-379, asked until y or n); n returns, y merges the alias addresses *)
(* into cmd.dsts.  Then every message is attached to every destination   *)
(* and the observer is registered (removeGuard, line 1788).              *)
transfer_prepare ==
    /\ tpc = "Resolve"
    /\ toResolve = {}
    /\ \/ /\ dsts' = dsts \cup aliasDsts
          /\ messages' = MessagesFor(dsts', msgs)
          /\ observer' = TRUE
          /\ tpc' = "Confirm"
          /\ UNCHANGED <<fee, requested, toResolve, aliasDsts, msgs, confirmed,
                         shownDsts, shownFee, result>>
       \/ aliasDsts # {} /\ ClearCmd
    /\ UNCHANGED <<inflight, lastTx>>

(* Variant of confirm_transaction for mutation testing: a y goes on even *)
(* when the password does not validate.                                   *)
confirm_transaction_noPassword ==
    /\ tpc = "Confirm"
    /\ \/ \E pwdOk \in BOOLEAN :
             /\ confirmed' = pwdOk
             /\ shownDsts' = dsts
             /\ shownFee' = fee
             /\ tpc' = "Send"
             /\ UNCHANGED <<fee, dsts, requested, toResolve, aliasDsts, msgs,
                            messages, observer, result>>
       \/ ClearCmd
    /\ UNCHANGED <<inflight, lastTx>>

(* confirmTransaction, lines 1669-1728, called at line 1790: it prints   *)
(* cmd.fee and asks until the answer is y with a valid password (a wrong *)
(* password or another answer asks again, a stutter) or n, which cancels *)
(* the transaction (lines 1792-1795).                                     *)
confirm_transaction ==
    /\ tpc = "Confirm"
    /\ \/ /\ confirmed' = TRUE
          /\ shownDsts' = dsts
          /\ shownFee' = fee
          /\ tpc' = "Send"
          /\ UNCHANGED <<fee, dsts, requested, toResolve, aliasDsts, msgs,
                         messages, observer, result>>
       \/ ClearCmd
    /\ UNCHANGED <<inflight, lastTx>>

(* Lines 1797-1811: the mixin is set to MINIMUM_MIXIN, the fee raised to *)
(* MINIMUM_FEE, and sendTransaction called.  An invalid id returns, as   *)
(* does an exception (caught at lines 1834-1843); otherwise the wallet    *)
(* has the send in flight.                                                *)
SentTx ==
    [dsts |-> dsts, fee |-> IF fee < MinimumFee THEN MinimumFee ELSE fee,
     mixin |-> MinimumMixin, messages |-> messages, msgs |-> msgs,
     requested |-> requested]

(* Variant of transfer_send for mutation testing: the observer is        *)
(* removed as soon as the transaction is handed over, before sent.wait.   *)
transfer_send_removeEarly ==
    /\ tpc = "Send"
    /\ lastTx' = SentTx
    /\ \/ /\ inflight' = TRUE
          /\ tpc' = "Wait"
          /\ observer' = FALSE
          /\ UNCHANGED <<fee, dsts, requested, toResolve, aliasDsts, msgs,
                         messages, confirmed, shownDsts, shownFee, result>>
       \/ ClearCmd /\ UNCHANGED inflight

transfer_send ==
    /\ tpc = "Send"
    /\ lastTx' = SentTx
    /\ \/ /\ inflight' = TRUE
          /\ tpc' = "Wait"
          /\ UNCHANGED <<fee, dsts, requested, toResolve, aliasDsts, msgs,
                         messages, confirmed, shownDsts, shownFee, observer,
                         result>>
       \/ ClearCmd /\ UNCHANGED inflight

(* WalletLegacy's thread completes the send and notifies its observers;   *)
(* when none is registered the notification is lost.                     *)
wallet_send_completed ==
    /\ inflight
    /\ inflight' = FALSE
    /\ \E r \in {"ok", "error"} : result' = IF observer THEN r ELSE result
    /\ UNCHANGED <<tpc, fee, dsts, requested, toResolve, aliasDsts, msgs,
                   messages, confirmed, shownDsts, shownFee, observer, lastTx>>

(* Lines 1813-1820: sent.wait(tx) blocks until the observer holds the    *)
(* result, the observer is removed, and an error returns.                 *)
transfer_wait ==
    /\ tpc = "Wait"
    /\ result # "none"
    /\ \/ /\ result = "ok"
          /\ observer' = FALSE
          /\ tpc' = "Store"
          /\ UNCHANGED <<fee, dsts, requested, toResolve, aliasDsts, msgs,
                         messages, confirmed, shownDsts, shownFee, result>>
       \/ /\ result = "error"
          /\ ClearCmd
    /\ UNCHANGED <<inflight, lastTx>>

(* Lines 1822-1833: getTransaction, the id is printed and storeWallet    *)
(* called; a failure to store is printed.  Either way transfer returns.   *)
transfer_store ==
    /\ tpc = "Store"
    /\ ClearCmd
    /\ UNCHANGED <<inflight, lastTx>>

ConsoleStep ==
    \/ transfer_parse \/ resolve_alias \/ transfer_prepare
    \/ confirm_transaction \/ transfer_send \/ transfer_wait \/ transfer_store

Next == ConsoleStep \/ wallet_send_completed

(* The console thread runs the command to its end once the user has      *)
(* answered; WalletLegacy completes every send it accepted.  Nothing is   *)
(* owed by the user, who may never type a command or an answer.           *)
Fairness ==
    /\ WF_vars(transfer_send)
    /\ WF_vars(transfer_wait)
    /\ WF_vars(transfer_store)
    /\ WF_vars(wallet_send_completed)

Spec == Init /\ [][Next]_vars /\ Fairness

-----------------------------------------------------------------------------
(* Every variable holds a value of its kind.                              *)
TypeOK ==
    /\ tpc \in Tpcs
    /\ fee \in Fees \cup {0}
    /\ dsts \subseteq Dests \cup Aliases
    /\ requested \subseteq Dests \cup Aliases
    /\ toResolve \subseteq Aliases
    /\ aliasDsts \subseteq Aliases
    /\ msgs \subseteq Msgs
    /\ messages \subseteq Msgs \X (Dests \cup Aliases)
    /\ confirmed \in BOOLEAN
    /\ shownDsts \subseteq Dests \cup Aliases
    /\ shownFee \in Fees \cup {0}
    /\ observer \in BOOLEAN
    /\ result \in {"none", "ok", "error"}
    /\ inflight \in BOOLEAN
    /\ lastTx.fee \in Nat

(* Every transaction transfer hands to sendTransaction goes to exactly   *)
(* the destinations the user typed, with each alias replaced by its      *)
(* address, and carries every message for every one of them, the alias  *)
(* addresses included: the messages are built only after the merge.     *)
SentAsRequested ==
    lastTx # NoTx =>
        /\ lastTx.dsts = lastTx.requested
        /\ lastTx.messages = MessagesFor(lastTx.dsts, lastTx.msgs)

(* A transaction is handed to sendTransaction only after the user has    *)
(* confirmed it with a valid wallet password, and it goes to the          *)
(* destinations confirmTransaction showed, the alias addresses included. *)
SentAsConfirmed ==
    [][lastTx' # lastTx => confirmed /\ lastTx'.dsts = shownDsts]_vars

(* A transfer that has handed its transaction over returns to the        *)
(* console: sent.wait is woken, because the observer is registered       *)
(* before sendTransaction and removed only after the wait.               *)
TransferReturns == tpc = "Wait" ~> tpc = "Idle"

(* The fee the user confirmed is the fee of the transaction sent.         *)
ConfirmedFeeIsSent == [][lastTx' # lastTx => lastTx'.fee = shownFee]_vars

=============================================================================
