---------------------------- MODULE SimpleWallet ----------------------------
(***************************************************************************)
(* The console session of lithe-wallet (src/SimpleWallet/SimpleWallet.cpp, *)
(* class simple_wallet) together with the two threads it talks to:        *)
(*                                                                         *)
(*  - the main thread: init(), process_command(), run(), the console       *)
(*    commands that touch shared state (reset, exit) and deinit();         *)
(*  - the wallet's synchroniser thread (WalletLegacy, outside this         *)
(*    repository's src/): it runs synchronisation rounds and calls         *)
(*    simple_wallet::synchronizationCompleted at the end of each round     *)
(*    on the observers registered at that moment;                         *)
(*  - the node (NodeRpcProxy): its height changes and each change asks the *)
(*    synchroniser for another round.                                      *)
(*                                                                         *)
(* The shared state is m_walletSynchronized, guarded by                    *)
(* m_walletSynchronizedMutex and waited on through m_walletSynchronizedCV. *)
(* A wait "while (!flag) cv.wait(lock)" is modelled as an action whose     *)
(* guard is the flag: the predicate is re-checked under the mutex, so no   *)
(* wake-up is lost and a spurious one changes nothing.                     *)
(*                                                                         *)
(* Wallet contents, keys, files and console output are abstracted away:   *)
(* a load or a store is an outcome, success or failure.                    *)
(***************************************************************************)
EXTENDS Naturals

CONSTANTS
    MaxHeight,   \* the node's local height saturates here (a bound)
    MaxResets    \* bound on the number of resynchronisations (epochs)

ASSUME BoundsAssumption ==
    /\ MaxHeight \in Nat \ {0}
    /\ MaxResets \in Nat

VARIABLES
    pc,                  \* where the main thread is
    retPc,               \* where reset() returns to: process_command or console
    resetArg,            \* the argument of the reset command being run
    args,                \* command-line options that steer init()
    wallet,              \* m_wallet: "none", "ready" (initialised) or "shutdown"
    observing,           \* simple_wallet is a registered observer of m_wallet
    walletSynchronized,  \* m_walletSynchronized
    roundRunning,        \* a synchronisation round is in progress
    roundEpoch,          \* the epoch in which the running round was started
    epoch,               \* number of restarts of the synchroniser by reset()
    lastDoneEpoch,       \* history: epoch of the last round that completed
    needSync,            \* a round has been requested and not yet started
    localHeight,         \* m_node->getLastLocalBlockHeight()
    resetFrom            \* height the last accepted reset resynchronises from

vars == <<pc, retPc, resetArg, args, wallet, observing, walletSynchronized,
          roundRunning, roundEpoch, epoch, lastDoneEpoch,
          needSync, localHeight, resetFrom>>

-----------------------------------------------------------------------------
Heights == 0..MaxHeight

(* The argument of "reset": none, text that is not a number, or a number. *)
ResetArgs ==
    [kind : {"none", "bad"}, val : {0}] \cup
    [kind : {"num"}, val : 0..MaxHeight + 1]

(* The options init() reads: --generate-new-wallet, --wallet-file and     *)
(* --exit-after-generate (each given or not).                              *)
Args == [generate : BOOLEAN, walletFile : BOOLEAN, exitAfterGenerate : BOOLEAN]

(* The program has exited: main() returned or std::exit was called.       *)
Terminated == {"Closed", "Failed", "Exited", "Crashed"}
Alive == pc \notin Terminated

PcValues == {"Init", "Observe", "Command", "Run", "Console", "ResetRestart",
             "ResetWait", "Deinit"} \cup Terminated

(* Which kind of wallet init() sets up.  With neither option the user is  *)
(* asked: [G]enerate, [O]pen, [S]eed or [I]mport (lines 543-592); the     *)
(* 'e' answer at line 565 can never be reached.  When both options are    *)
(* given, the check at line 594 also requires m_import_new, which only    *)
(* the menu sets, so it never fires and line 606 picks "generate".        *)
InitModes(a) ==
    IF a.generate THEN {"generate"}
    ELSE IF a.walletFile THEN {"open"}
    ELSE {"generate", "import", "open"}

-----------------------------------------------------------------------------
(* simple_wallet's constructor: m_walletSynchronized(false), no wallet.   *)
Init ==
    /\ pc = "Init"
    /\ retPc = "Console"
    /\ resetArg = [kind |-> "none", val |-> 0]
    /\ args \in Args
    /\ wallet = "none"
    /\ observing = FALSE
    /\ walletSynchronized = FALSE
    /\ roundRunning = FALSE
    /\ roundEpoch = 0
    /\ epoch = 0
    /\ lastDoneEpoch = 0
    /\ needSync = FALSE
    /\ localHeight \in Heights
    /\ resetFrom = 0

(* init() returns false before any wallet exists: both --daemon-address   *)
(* and host/port, the wallet to create already exists, the password      *)
(* cannot be read, NodeRpcProxy::init fails, or the address file exists. *)
init_fail ==
    /\ pc = "Init"
    /\ pc' = "Failed"
    /\ UNCHANGED <<retPc, resetArg, args, wallet, observing, walletSynchronized,
                   roundRunning, roundEpoch, epoch,
                   lastDoneEpoch, needSync, localHeight, resetFrom>>

(* init() -> new_wallet(), for a generated wallet or one imported from    *)
(* keys or a seed: observers are added first (lines 835-836), then the    *)
(* wallet is initialised, which starts synchronisation, and stored.  On   *)
(* an init or store error new_wallet returns false and main() returns 1;  *)
(* with --exit-after-generate it calls std::exit(0).                      *)
new_wallet ==
    /\ pc = "Init"
    /\ \E m \in InitModes(args) \cap {"generate", "import"} :
          \/ /\ pc' = "Failed"
             /\ UNCHANGED <<wallet, observing, needSync>>
          \/ /\ wallet' = "ready"
             /\ observing' = TRUE
             /\ needSync' = TRUE
             /\ pc' = IF args.exitAfterGenerate THEN "Exited" ELSE "Command"
    /\ UNCHANGED <<retPc, resetArg, args, walletSynchronized,
                   roundRunning, roundEpoch, epoch, lastDoneEpoch, localHeight,
                   resetFrom>>

(* init() -> tryToOpenWalletOrLoadKeysOrThrow for an existing wallet.     *)
(* With --exit-after-generate no WalletLegacy is created (line 726) and   *)
(* the open dereferences the null m_wallet as soon as a wallet or keys    *)
(* file exists; otherwise it throws "not found" and init returns false.   *)
(* Without it the wallet is created and loaded (directly or from legacy  *)
(* keys, then stored); its initCompleted starts synchronisation, but      *)
(* simple_wallet is not an observer yet.                                  *)
tryToOpenWallet ==
    /\ pc = "Init"
    /\ "open" \in InitModes(args)
    /\ IF args.exitAfterGenerate
          THEN /\ pc' \in {"Crashed", "Failed"}
               /\ UNCHANGED <<wallet, needSync>>
          ELSE \/ /\ pc' = "Failed"
                  /\ UNCHANGED <<wallet, needSync>>
               \/ /\ wallet' = "ready"
                  /\ needSync' = TRUE
                  /\ pc' = "Observe"
    /\ UNCHANGED <<retPc, resetArg, args, observing, walletSynchronized,
                   roundRunning, roundEpoch, epoch,
                   lastDoneEpoch, localHeight, resetFrom>>

(* init(), lines 739-743: only now is simple_wallet added as an observer. *)
addObservers ==
    /\ pc = "Observe"
    /\ observing' = TRUE
    /\ pc' = "Command"
    /\ UNCHANGED <<retPc, resetArg, args, wallet, walletSynchronized,
                   roundRunning, roundEpoch, epoch,
                   lastDoneEpoch, needSync, localHeight, resetFrom>>

(* main(), lines 2061-2063, when no --command was given (a given command  *)
(* that is "reset" is reset_clear from "Command"; other commands do not   *)
(* touch the modelled state).                                             *)
process_command ==
    /\ pc = "Command"
    /\ pc' = "Run"
    /\ UNCHANGED <<retPc, resetArg, args, wallet, observing, walletSynchronized,
                   roundRunning, roundEpoch, epoch,
                   lastDoneEpoch, needSync, localHeight, resetFrom>>

(* run(): wait for m_walletSynchronized, then start the console.          *)
run ==
    /\ pc = "Run"
    /\ walletSynchronized
    /\ pc' = "Console"
    /\ UNCHANGED <<retPc, resetArg, args, wallet, observing, walletSynchronized,
                   roundRunning, roundEpoch, epoch,
                   lastDoneEpoch, needSync, localHeight, resetFrom>>

(* reset(), lines 999-1002: clear the flag under the mutex.               *)
reset_clear(a) ==
    /\ pc \in {"Command", "Console"}
    /\ epoch < MaxResets
    /\ walletSynchronized' = FALSE
    /\ resetArg' = a
    /\ retPc' = IF pc = "Command" THEN "Run" ELSE "Console"
    /\ pc' = "ResetRestart"
    /\ UNCHANGED <<args, wallet, observing, roundRunning, roundEpoch, epoch,
                   lastDoneEpoch, needSync, localHeight, resetFrom>>

(* The tests of lines 1012 and 1017: "ok <= getLastLocalBlockHeight()"   *)
(* compares the parse result (a bool, 0 or 1), not the height.  A number  *)
(* is accepted whenever the chain has one block; it is refused only when  *)
(* the local height is 0.  Text that is not a number passes neither test. *)
ParseOk(a) == a.kind = "num"
ParsedHeight(a) == IF ParseOk(a) THEN a.val ELSE 0
ResetAccepted(a) ==
    \/ a.kind = "none"
    \/ ParseOk(a) /\ 1 <= localHeight
ResetRefused(a) == ParseOk(a) /\ 1 > localHeight

(* Variants of RestartSynchroniser for mutation testing: the restart       *)
(* requests no new round; it starts one block late.                       *)
RestartSynchroniser_no_request(h) ==
    /\ epoch' = epoch + 1
    /\ roundRunning' = FALSE
    /\ resetFrom' = h
    /\ UNCHANGED needSync

RestartSynchroniser_late(h) ==
    /\ epoch' = epoch + 1
    /\ roundRunning' = FALSE
    /\ needSync' = TRUE
    /\ resetFrom' = h + 1

(* m_wallet->syncAll(true, h) then m_wallet->reset(h) (lines 1006-1007,   *)
(* 1014-1015): WalletLegacy::reset shuts the synchroniser down, stopping a *)
(* round in progress, and re-initialises it, which requests a new round.  *)
RestartSynchroniser(h) ==
    /\ epoch' = epoch + 1
    /\ roundRunning' = FALSE
    /\ needSync' = TRUE
    /\ resetFrom' = h

(* reset(), lines 1004-1022, after the flag is cleared.  An accepted reset *)
(* restarts the synchroniser and waits; a refused one returns false at     *)
(* once, leaving the flag clear; an argument that does not parse restarts  *)
(* nothing and still goes on to wait for the flag.                         *)
reset_restart ==
    /\ pc = "ResetRestart"
    /\ \/ /\ ResetAccepted(resetArg)
          /\ RestartSynchroniser(ParsedHeight(resetArg))
          /\ pc' = "ResetWait"
       \/ /\ ResetRefused(resetArg)
          /\ pc' = retPc
          /\ UNCHANGED <<epoch, roundRunning, needSync, resetFrom>>
       \/ /\ ~ResetAccepted(resetArg)
          /\ ~ResetRefused(resetArg)
          /\ pc' = "ResetWait"
          /\ UNCHANGED <<epoch, roundRunning, needSync, resetFrom>>
    /\ UNCHANGED <<retPc, resetArg, args, wallet, observing, walletSynchronized,
                   roundEpoch, lastDoneEpoch, localHeight>>

(* reset(), lines 1024-1031: wait for m_walletSynchronized, return true.  *)
reset_wait ==
    /\ pc = "ResetWait"
    /\ walletSynchronized
    /\ pc' = retPc
    /\ UNCHANGED <<retPc, resetArg, args, wallet, observing, walletSynchronized,
                   roundRunning, roundEpoch, epoch,
                   lastDoneEpoch, needSync, localHeight, resetFrom>>

(* The "exit" command, or Ctrl-C through stop(): requestStop ends the     *)
(* console loop and run() returns.                                        *)
exit ==
    /\ pc = "Console"
    /\ pc' = "Deinit"
    /\ UNCHANGED <<retPc, resetArg, args, wallet, observing, walletSynchronized,
                   roundRunning, roundEpoch, epoch,
                   lastDoneEpoch, needSync, localHeight, resetFrom>>

(* deinit(): remove the observers, then close_wallet() stores the wallet, *)
(* removes the observer again and shuts the wallet (and its synchroniser) *)
(* down; main() then returns whether or not the store succeeded.          *)
deinit ==
    /\ pc = "Deinit"
    /\ observing' = FALSE
    /\ wallet' = "shutdown"
    /\ roundRunning' = FALSE
    /\ needSync' = FALSE
    /\ pc' = "Closed"
    /\ UNCHANGED <<retPc, resetArg, args, walletSynchronized,
                   roundEpoch, epoch, lastDoneEpoch, localHeight, resetFrom>>

-----------------------------------------------------------------------------
(* The synchroniser thread starts a requested round.                      *)
syncRoundStart ==
    /\ Alive
    /\ wallet = "ready"
    /\ needSync
    /\ ~roundRunning
    /\ roundRunning' = TRUE
    /\ roundEpoch' = epoch
    /\ needSync' = FALSE
    /\ UNCHANGED <<pc, retPc, resetArg, args, wallet, observing,
                   walletSynchronized, epoch, lastDoneEpoch,
                   localHeight, resetFrom>>

(* A round ends and the wallet notifies its observers: if simple_wallet   *)
(* is one, synchronizationCompleted sets m_walletSynchronized and         *)
(* notifies the condition variable (lines 1145-1149).  If it is not, the  *)
(* notification is not delivered to it.                                   *)
synchronizationCompleted ==
    /\ Alive
    /\ roundRunning
    /\ roundRunning' = FALSE
    /\ lastDoneEpoch' = roundEpoch
    /\ IF observing THEN walletSynchronized' = TRUE
                     ELSE UNCHANGED walletSynchronized
    /\ UNCHANGED <<pc, retPc, resetArg, args, wallet, observing, roundEpoch,
                   epoch, needSync, localHeight, resetFrom>>

(* The node reports a new local height (or a change of the pool), which   *)
(* asks the synchroniser for a round.  Heights above MaxHeight are        *)
(* represented by MaxHeight.                                              *)
nodeUpdated ==
    /\ localHeight' = IF localHeight < MaxHeight THEN localHeight + 1
                      ELSE localHeight
    /\ needSync' = TRUE
    /\ UNCHANGED <<pc, retPc, resetArg, args, wallet, observing,
                   walletSynchronized, roundRunning,
                   roundEpoch, epoch, lastDoneEpoch, resetFrom>>

-----------------------------------------------------------------------------
(* The steps main() takes on its own, without waiting for the user.       *)
MainStep ==
    \/ init_fail \/ new_wallet \/ tryToOpenWallet \/ addObservers
    \/ process_command \/ run \/ reset_restart \/ reset_wait \/ deinit

(* The commands a user types.                                             *)
UserStep == exit \/ \E a \in ResetArgs : reset_clear(a)

WalletStep == syncRoundStart \/ synchronizationCompleted

Next == MainStep \/ UserStep \/ WalletStep \/ nodeUpdated

(* The main thread and the synchroniser thread keep running while they    *)
(* can; the user need not type anything and the node need not change.    *)
Fairness ==
    /\ WF_vars(MainStep)
    /\ WF_vars(syncRoundStart)
    /\ WF_vars(synchronizationCompleted)

Spec == Init /\ [][Next]_vars /\ Fairness

-----------------------------------------------------------------------------
(* Every variable holds a value of its kind.                              *)
TypeOK ==
    /\ pc \in PcValues
    /\ retPc \in {"Run", "Console"}
    /\ resetArg \in ResetArgs
    /\ args \in Args
    /\ wallet \in {"none", "ready", "shutdown"}
    /\ observing \in BOOLEAN
    /\ walletSynchronized \in BOOLEAN
    /\ roundRunning \in BOOLEAN
    /\ roundEpoch \in 0..MaxResets
    /\ epoch \in 0..MaxResets
    /\ lastDoneEpoch \in 0..MaxResets
    /\ needSync \in BOOLEAN
    /\ localHeight \in Heights
    /\ resetFrom \in 0..MaxHeight + 1

(* A reset with no argument or with a number that was accepted returns:   *)
(* the rescan it starts completes and wakes the wait at lines 1024-1027,   *)
(* whether or not the node's chain changes meanwhile.                      *)
RescanReturns ==
    (pc = "ResetWait" /\ resetArg.kind # "bad") ~> (pc # "ResetWait")

(* Every reset command that goes on to wait returns, whatever its         *)
(* argument: the console is never left blocked in the wait.               *)
ResetReturns == (pc = "ResetWait") ~> (pc # "ResetWait")

(* reset() returns only once the resynchronisation it started has          *)
(* completed (the wait at lines 1024-1027 and the message "Reset has       *)
(* successfully been completed").                                          *)
ResetWaitsForRescan ==
    [][pc = "ResetWait" /\ pc' # "ResetWait" => lastDoneEpoch = epoch]_vars

(* "reset <height>" resynchronises only from a height the chain has        *)
(* reached; higher heights get "That block hasn't been passed through the  *)
(* Blockchain yet" (lines 1017-1020).                                      *)
ResetWithinChain == resetFrom <= localHeight

(* Once the wallet is opened, run() eventually starts the console, even   *)
(* when the node's chain does not change.                                  *)
RunReachesConsole == (pc = "Run") ~> (pc = "Console")

=============================================================================
