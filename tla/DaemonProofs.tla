---------------------------- MODULE DaemonProofs ----------------------------
(***************************************************************************)
(* Proofs about Daemon for every value of its constants.                   *)
(*                                                                         *)
(* NoCommandAfterDeinit is not inductive: a step of the main thread could *)
(* deinitialise the core under a running command unless one knows where   *)
(* main can be while the console thread runs.  IInv says it: a command    *)
(* runs only on a running console thread, a running console thread means *)
(* main is between its start and the join, and in that stretch the core  *)
(* and the p2p server are initialised.  The same facts, with the miner    *)
(* and the chain above the checkpoint, give the refinement of             *)
(* DaemonService.                                                          *)
(***************************************************************************)
EXTENDS Daemon, TLAPS

(* Where main() is while the console thread can run.                      *)
ConsolePcs == {"Loop", "StopConsole", "JoinConsole"}

(* A command runs only on a running console thread.                       *)
CmdOnConsole == cmd # "idle" => console = "running"

(* The console thread runs only between start_console and join_console.   *)
ConsoleWithinMain == console = "running" => mpc \in ConsolePcs

(* The miner runs only from a command until ccore.deinit.                 *)
MiningWithinMain ==
    mining => mpc \in ConsolePcs \cup {"RpcStop", "CoreDeinit"}

(* From a successful init until the matching deinit each component is     *)
(* initialised.                                                           *)
ComponentsInited ==
    /\ mpc \in ConsolePcs \cup {"RpcInit", "StartConsole", "RpcStop",
                                 "CoreDeinit"} => core = "inited"
    /\ mpc \in ConsolePcs \cup {"CoreInit", "RpcInit", "StartConsole",
                                 "RpcStop", "CoreDeinit", "P2pDeinit"}
           => p2p = "inited"

(* rollbackTo never takes the chain below the checkpoint.                 *)
ChainAboveCheckpoint == height \in Checkpoint..MaxHeight

IInv ==
    /\ TypeOK
    /\ CmdOnConsole
    /\ ConsoleWithinMain
    /\ MiningWithinMain
    /\ ComponentsInited
    /\ ChainAboveCheckpoint

(* The height rollback_chain leaves lies between the checkpoint and the   *)
(* height it started from.                                                *)
LEMMA RollbackBounds ==
    ASSUME NEW h \in Nat, NEW g \in Checkpoint..MaxHeight
    PROVE  (IF h < Checkpoint \/ h >= g THEN g ELSE h) \in Checkpoint..g
BY DaemonAssumption

(* The facts about the constants that the proofs use, one per kind of    *)
(* input, so that each proof cites only what it needs.                   *)
LEMMA HeightConsts == MaxHeight \in Nat /\ Checkpoint \in 0..MaxHeight
BY DaemonAssumption

LEMMA InputsNat == SetLogInputs \subseteq Nat /\ RollbackInputs \subseteq Nat
BY DaemonAssumption

(* Every command a user may type is a command of the model with a        *)
(* natural-number argument.                                               *)
LEMMA CommandInputsTyped ==
    ASSUME NEW ci \in CommandInputs
    PROVE  ci[1] \in Commands /\ ci[2] \in Nat
<1>1. CASE ci \in {"set_log"} \X SetLogInputs
    BY <1>1, InputsNat DEF Commands
<1>2. CASE ci \in {"rollback_chain"} \X RollbackInputs
    BY <1>2, InputsNat DEF Commands
<1>3. CASE ci \in {"start_mining"} \X {0, 1}
    BY <1>3 DEF Commands
<1>4. CASE ci \in {"exit", "rollback_bad", "stop_mining", "show_hr", "hide_hr",
                    "query"} \X {0}
    BY <1>4 DEF Commands
<1>5. QED
    BY <1>1, <1>2, <1>3, <1>4 DEF CommandInputs

(* The initial states satisfy the inductive invariant.                    *)
LEMMA InitIInv == Init => IInv
<1> SUFFICES ASSUME Init PROVE IInv
    OBVIOUS
<1>1. logLevel \in StartLevels \cup FATAL..TRACE
    BY DEF Init
<1>2. height \in Checkpoint..MaxHeight /\ height \in 0..MaxHeight
    BY HeightConsts DEF Init
<1>3. TypeOK
    BY <1>1, <1>2 DEF Init, TypeOK, MainPcs
<1>4. QED
    BY <1>2, <1>3 DEF Init, IInv, CmdOnConsole, ConsoleWithinMain,
                      MiningWithinMain, ComponentsInited, ChainAboveCheckpoint,
                      ConsolePcs

(* Every step of the specification preserves the inductive invariant.     *)
LEMMA NextIInv == IInv /\ [Next]_vars => IInv'
<1> SUFFICES ASSUME IInv, [Next]_vars PROVE IInv'
    OBVIOUS
<1> USE HeightConsts
<1> USE DEF IInv, TypeOK, MainPcs, Returned, CmdOnConsole, ConsoleWithinMain,
            MiningWithinMain, ComponentsInited, ChainAboveCheckpoint,
            ConsolePcs
<1>1. CASE main_start
    BY <1>1 DEF main_start
<1>2. CASE p2p_init
    BY <1>2 DEF p2p_init
<1>3. CASE core_init
    BY <1>3 DEF core_init
<1>4. CASE rpc_init
    BY <1>4 DEF rpc_init
<1>5. CASE start_console
    BY <1>5 DEF start_console
<1>6. CASE p2p_run
    BY <1>6 DEF p2p_run
<1>7. CASE stop_console
    BY <1>7 DEF stop_console
<1>8. CASE join_console
    BY <1>8 DEF join_console
<1>9. CASE rpc_stop
    BY <1>9 DEF rpc_stop
<1>10. CASE core_deinit
    BY <1>10 DEF core_deinit
<1>11. CASE p2p_deinit
    BY <1>11 DEF p2p_deinit
<1>12. CASE cmd_run
    <2>1. cmd' = "idle" /\ cmdArg' = 0
        BY <1>12 DEF cmd_run
    <2>2. logLevel' \in StartLevels \cup FATAL..TRACE
        BY <1>12 DEF cmd_run, SetLog, FATAL, TRACE
    <2>3. height' \in Checkpoint..height
        <3>1. CASE cmd = "rollback_chain"
            BY <1>12, <3>1, RollbackBounds DEF cmd_run, RollbackTo
        <3>2. CASE cmd # "rollback_chain"
            BY <1>12, <3>2 DEF cmd_run
        <3>3. QED
            BY <3>1, <3>2
    <2>4. mining' => mining \/ console = "running"
        BY <1>12 DEF cmd_run, StartMining
    <2>5. UNCHANGED <<mpc, noConsole, p2p, core, rpc>>
        BY <1>12 DEF cmd_run
    <2>6. console' \in {console, "stopped"}
        BY <1>12 DEF cmd_run
    <2>7. /\ stopSignal' \in BOOLEAN /\ consoleStop' \in BOOLEAN
          /\ mining' \in BOOLEAN /\ showHr' \in BOOLEAN
        BY <1>12 DEF cmd_run, StartMining
    <2>8. TypeOK'
        BY <2>1, <2>2, <2>3, <2>5, <2>6, <2>7
    <2>9. (CmdOnConsole /\ ConsoleWithinMain /\ MiningWithinMain)'
        BY <1>12, <2>1, <2>4, <2>5, <2>6
    <2>10. QED
        BY <2>3, <2>5, <2>8, <2>9
<1>13. CASE console_exit
    BY <1>13 DEF console_exit
<1>14. CASE signal
    BY <1>14 DEF signal
<1>15. ASSUME NEW ci \in CommandInputs, cmd_begin(ci[1], ci[2])
       PROVE IInv'
    <2>1. ci[1] \in Commands /\ ci[2] \in Nat
        BY CommandInputsTyped
    <2>2. QED
        BY <1>15, <2>1 DEF cmd_begin
<1>16. CASE block_added
    BY <1>16 DEF block_added
<1>17. CASE UNCHANGED vars
    BY <1>17 DEF vars
<1>18. QED
    BY <1>1, <1>2, <1>3, <1>4, <1>5, <1>6, <1>7, <1>8, <1>9, <1>10, <1>11,
       <1>12, <1>13, <1>14, <1>15, <1>16, <1>17
       DEF Next, MainStep, ConsoleStep, UserStep

(* The inductive invariant holds in every reachable state.                *)
THEOREM IInvHolds == Spec => []IInv
BY InitIInv, NextIInv, PTL DEF Spec

(* Every variable of the daemon model holds a value of its kind (TypeOK). *)
THEOREM TypeCorrect == Spec => []TypeOK
BY IInvHolds, PTL DEF IInv

(* No console command runs on a deinitialised core or p2p server:         *)
(* stop_handling joins the console thread before the teardown             *)
(* (NoCommandAfterDeinit).                                                *)
THEOREM CommandsBeforeDeinit == Spec => []NoCommandAfterDeinit
<1>1. IInv => NoCommandAfterDeinit
    BY DEF IInv, CmdOnConsole, ConsoleWithinMain, ComponentsInited,
           ConsolePcs, NoCommandAfterDeinit
<1>2. QED
    BY <1>1, IInvHolds, PTL

-----------------------------------------------------------------------------
(* Refinement: Daemon implements the safety part of DaemonService under   *)
(* the mapping PhaseOf, cmd # "idle", stopSignal and height.              *)

(* The initial states of the daemon are initial states of the service.    *)
LEMMA InitRefines == Init => Service!AInit
BY HeightConsts DEF Init, PhaseOf, Service!AInit

(* Every step of the daemon is a step of the service or leaves the        *)
(* service's state alone: the steps of main() inside one phase and those *)
(* of the console that only change the stop flag of the handler are      *)
(* stutters; join_console is the teardown, and it waits for the running  *)
(* command (the service's ~busy).                                         *)
LEMMA NextRefines == IInv /\ [Next]_vars => [Service!ANext]_Service!avars
<1> SUFFICES ASSUME IInv, [Next]_vars PROVE [Service!ANext]_Service!avars
    OBVIOUS
<1> USE HeightConsts
<1> USE DEF IInv, TypeOK, MainPcs, Returned, CmdOnConsole, ConsoleWithinMain,
            MiningWithinMain, ComponentsInited, ChainAboveCheckpoint,
            ConsolePcs, PhaseOf, Service!avars
<1>1. CASE main_start
    BY <1>1 DEF main_start, Service!ANext, Service!Quit
<1>2. CASE p2p_init
    BY <1>2 DEF p2p_init, Service!ANext, Service!Quit
<1>3. CASE core_init
    BY <1>3 DEF core_init, Service!ANext, Service!Quit
<1>4. CASE rpc_init
    BY <1>4 DEF rpc_init, Service!ANext, Service!Quit
<1>5. CASE start_console
    BY <1>5 DEF start_console, Service!ANext, Service!Serve
<1>6. CASE p2p_run
    BY <1>6 DEF p2p_run, Service!ANext, Service!Stop
<1>7. CASE stop_console
    BY <1>7 DEF stop_console
<1>8. CASE join_console
    BY <1>8 DEF join_console, Service!ANext, Service!Teardown
<1>9. CASE rpc_stop
    BY <1>9 DEF rpc_stop
<1>10. CASE core_deinit
    BY <1>10 DEF core_deinit
<1>11. CASE p2p_deinit
    BY <1>11 DEF p2p_deinit, Service!ANext, Service!Finish
<1>12. CASE cmd_run
    <2>1. height' \in Checkpoint..height
        <3>1. CASE cmd = "rollback_chain"
            BY <1>12, <3>1, RollbackBounds DEF cmd_run, RollbackTo
        <3>2. CASE cmd # "rollback_chain"
            BY <1>12, <3>2 DEF cmd_run
        <3>3. QED
            BY <3>1, <3>2
    <2>2. stopSignal' \in {stopSignal, TRUE}
        BY <1>12 DEF cmd_run
    <2>3. Service!EndCmd
        BY <1>12, <2>1, <2>2 DEF cmd_run, Service!EndCmd
    <2>4. QED
        BY <2>3 DEF Service!ANext
<1>13. CASE console_exit
    BY <1>13 DEF console_exit
<1>14. CASE signal
    BY <1>14 DEF signal, Service!ANext, Service!RequestStop
<1>15. ASSUME NEW ci \in CommandInputs, cmd_begin(ci[1], ci[2])
       PROVE [Service!ANext]_Service!avars
    <2>1. ci[1] \in Commands
        BY CommandInputsTyped
    <2>2. Service!BeginCmd
        BY <1>15, <2>1 DEF cmd_begin, Commands, Service!BeginCmd
    <2>3. QED
        BY <2>2 DEF Service!ANext
<1>16. CASE block_added
    BY <1>16 DEF block_added, Service!ANext, Service!Grow
<1>17. CASE UNCHANGED vars
    BY <1>17 DEF vars
<1>18. QED
    BY <1>1, <1>2, <1>3, <1>4, <1>5, <1>6, <1>7, <1>8, <1>9, <1>10, <1>11,
       <1>12, <1>13, <1>14, <1>15, <1>16, <1>17
       DEF Next, MainStep, ConsoleStep, UserStep

(* Daemon implements the safety part of DaemonService: it serves only     *)
(* after a successful startup, runs one console command at a time and   *)
(* only while serving or stopping, tears down only with no command       *)
(* running, and never rolls the chain below the checkpoint.  The         *)
(* fairness of ImplementsService is checked by TLC.                      *)
THEOREM RefinesService == Spec => Service!SafeSpec
<1>1. Spec => []IInv /\ [][Next]_vars
    BY IInvHolds, PTL DEF Spec
<1>2. Spec => Service!AInit
    BY InitRefines DEF Spec
<1>3. QED
    BY <1>1, <1>2, NextRefines, PTL DEF Service!SafeSpec

====
