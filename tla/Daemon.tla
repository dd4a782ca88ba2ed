-------------------------------- MODULE Daemon --------------------------------
(***************************************************************************)
(* The lithe daemon process (src/Daemon/Daemon.cpp, main) and its console  *)
(* (src/Daemon/DaemonCommandsHandler.cpp).  Three threads touch the        *)
(* components:                                                             *)
(*                                                                         *)
(*  - the main thread: it parses options, initialises the p2p server, the *)
(*    core and the RPC server in that order, starts the console, runs the *)
(*    p2p loop until a stop signal, and then stops and deinitialises       *)
(*    everything in reverse order;                                         *)
(*  - the console thread (ConsoleHandler, started by start_handling): it   *)
(*    runs one command at a time until a stop is requested;                *)
(*  - the signal handler (Ctrl-C): stop_handling and sendStopSignal.       *)
(*                                                                         *)
(* The p2p server also delivers blocks to the core while its loop runs.   *)
(* The core's chain is its height; rollbackTo is modelled from spec.md     *)
(* (the core is not in this repository's src/).                           *)
(***************************************************************************)
EXTENDS Integers

CONSTANTS
    MaxHeight,      \* bound on the chain height
    Checkpoint,     \* the checkpoint height rollbackTo never goes below
    SetLogInputs,   \* values of the set_log argument (parsed as uint16_t)
    RollbackInputs, \* heights given to rollback_chain (parsed as uint32_t)
    LogLevelArgs    \* values of --log-level (an int, never range-checked)

ASSUME DaemonAssumption ==
    /\ MaxHeight \in Nat \ {0}
    /\ Checkpoint \in 0..MaxHeight
    /\ SetLogInputs \subseteq {v \in Nat : v < 65536}   \* uint16_t values
    /\ RollbackInputs \subseteq Nat
    /\ LogLevelArgs \subseteq Int

(* Logging::Level: FATAL = 0, ERROR = 1, ..., TRACE = 5.                  *)
FATAL == 0
ERROR == 1
TRACE == 5

(* Line 175: the configured level is ERROR plus --log-level, cast to      *)
(* Logging::Level without a range check.                                  *)
StartLevels == {ERROR + v : v \in LogLevelArgs}

VARIABLES
    mpc,            \* where the main thread is
    noConsole,      \* --no-console was given (arg_console)
    p2p,            \* p2psrv: "none", "inited" or "deinited"
    core,           \* ccore: "none", "inited" or "deinited"
    rpc,            \* rpcServer: "none", "running" or "stopped"
    stopSignal,     \* p2psrv.sendStopSignal() has been called
    console,        \* the console thread: "off", "running" or "stopped"
    consoleStop,    \* m_consoleHandler.requestStop() has been called
    cmd,            \* the command the console thread is executing, or "idle"
    cmdArg,         \* the argument of that command
    logLevel,       \* the log manager's maximum level
    mining,         \* the miner is running
    showHr,         \* the miner prints its hash rate
    height          \* the core's chain height

vars == <<mpc, noConsole, p2p, core, rpc, stopSignal, console, consoleStop,
          cmd, cmdArg, logLevel, mining, showHr, height>>

-----------------------------------------------------------------------------
(* Where main() has returned: 0 after a clean stop, 1 on an error.        *)
Returned == {"Ret0", "Ret1"}

MainPcs == {"Start", "P2pInit", "CoreInit", "RpcInit", "StartConsole", "Loop",
            "StopConsole", "JoinConsole", "RpcStop", "CoreDeinit",
            "P2pDeinit"} \cup Returned

(* The commands that change what the model records.  Other commands only *)
(* read the core and print: status and the print commands.              *)
Commands == {"exit", "set_log", "rollback_chain", "rollback_bad",
             "start_mining", "stop_mining", "show_hr", "hide_hr", "query"}

Init ==
    /\ mpc = "Start"
    /\ noConsole \in BOOLEAN
    /\ p2p = "none"
    /\ core = "none"
    /\ rpc = "none"
    /\ stopSignal = FALSE
    /\ console = "off"
    /\ consoleStop = FALSE
    /\ cmd = "idle"
    /\ cmdArg = 0
    /\ logLevel \in StartLevels
    /\ mining = FALSE
    /\ showHr = FALSE
    /\ height \in Checkpoint..MaxHeight

-----------------------------------------------------------------------------
(* Main thread.                                                            *)

(* Lines 93-239: options, --help, --print-genesis-tx, --version and       *)
(* --os-version return before anything is created; a bad genesis or a    *)
(* missing data directory returns 1.  Otherwise the objects are built.   *)
main_start ==
    /\ mpc = "Start"
    /\ mpc' \in {"Ret0", "Ret1", "P2pInit"}
    /\ UNCHANGED <<noConsole, p2p, core, rpc, stopSignal, console, consoleStop,
                   cmd, cmdArg, logLevel, mining, showHr, height>>

(* Lines 250-264: p2psrv.init; on failure main returns 1.                 *)
p2p_init ==
    /\ mpc = "P2pInit"
    /\ \/ mpc' = "Ret1" /\ UNCHANGED p2p
       \/ mpc' = "CoreInit" /\ p2p' = "inited"
    /\ UNCHANGED <<noConsole, core, rpc, stopSignal, console, consoleStop,
                   cmd, cmdArg, logLevel, mining, showHr, height>>

(* Lines 266-281: ccore.init; on failure main returns 1 without          *)
(* deinitialising the p2p server.                                        *)
core_init ==
    /\ mpc = "CoreInit"
    /\ \/ mpc' = "Ret1" /\ UNCHANGED core
       \/ mpc' = "RpcInit" /\ core' = "inited"
    /\ UNCHANGED <<noConsole, p2p, rpc, stopSignal, console, consoleStop,
                   cmd, cmdArg, logLevel, mining, showHr, height>>

(* Lines 283-324: a bad --fee-address returns 1 with the p2p server and  *)
(* the core still initialised; otherwise the view key is set and the RPC *)
(* server started.                                                       *)
rpc_init ==
    /\ mpc = "RpcInit"
    /\ \/ mpc' = "Ret1" /\ UNCHANGED rpc
       \/ mpc' = "StartConsole" /\ rpc' = "running"
    /\ UNCHANGED <<noConsole, p2p, core, stopSignal, console, consoleStop,
                   cmd, cmdArg, logLevel, mining, showHr, height>>

(* Lines 326-336: the console thread starts unless --no-console; then the *)
(* signal handler is installed.                                           *)
start_console ==
    /\ mpc = "StartConsole"
    /\ console' = IF noConsole THEN "off" ELSE "running"
    /\ mpc' = "Loop"
    /\ UNCHANGED <<noConsole, p2p, core, rpc, stopSignal, consoleStop,
                   cmd, cmdArg, logLevel, mining, showHr, height>>

(* Variant of p2p_run for mutation testing: the loop returns without a   *)
(* stop signal.                                                           *)
p2p_run_early ==
    /\ mpc = "Loop"
    /\ mpc' = "StopConsole"
    /\ UNCHANGED <<noConsole, p2p, core, rpc, stopSignal, console, consoleStop,
                   cmd, cmdArg, logLevel, mining, showHr, height>>

(* Lines 338-346: p2psrv.run() returns once the stop signal is sent.      *)
p2p_run ==
    /\ mpc = "Loop"
    /\ stopSignal
    /\ mpc' = "StopConsole"
    /\ UNCHANGED <<noConsole, p2p, core, rpc, stopSignal, console, consoleStop,
                   cmd, cmdArg, logLevel, mining, showHr, height>>

(* Line 348, dch.stop_handling(): requestStop, ...                        *)
stop_console ==
    /\ mpc = "StopConsole"
    /\ consoleStop' = TRUE
    /\ mpc' = "JoinConsole"
    /\ UNCHANGED <<noConsole, p2p, core, rpc, stopSignal, console,
                   cmd, cmdArg, logLevel, mining, showHr, height>>

(* Variant of join_console for mutation testing: stop_handling does not  *)
(* wait for the console thread.                                           *)
join_console_nowait ==
    /\ mpc = "JoinConsole"
    /\ mpc' = "RpcStop"
    /\ UNCHANGED <<noConsole, p2p, core, rpc, stopSignal, console, consoleStop,
                   cmd, cmdArg, logLevel, mining, showHr, height>>

(* Variant of join_console for mutation testing: it waits for a console *)
(* thread to have stopped, even when none was started.                    *)
join_console_stopped_only ==
    /\ mpc = "JoinConsole"
    /\ console = "stopped"
    /\ mpc' = "RpcStop"
    /\ UNCHANGED <<noConsole, p2p, core, rpc, stopSignal, console, consoleStop,
                   cmd, cmdArg, logLevel, mining, showHr, height>>

(* ... then wait for the console thread to end (line 348).                *)
join_console ==
    /\ mpc = "JoinConsole"
    /\ console # "running"
    /\ mpc' = "RpcStop"
    /\ UNCHANGED <<noConsole, p2p, core, rpc, stopSignal, console, consoleStop,
                   cmd, cmdArg, logLevel, mining, showHr, height>>

(* Lines 350-355: rpcServer.stop().                                       *)
rpc_stop ==
    /\ mpc = "RpcStop"
    /\ rpc' = "stopped"
    /\ mpc' = "CoreDeinit"
    /\ UNCHANGED <<noConsole, p2p, core, stopSignal, console, consoleStop,
                   cmd, cmdArg, logLevel, mining, showHr, height>>

(* Lines 357-362: ccore.deinit(), which also stops the miner.             *)
core_deinit ==
    /\ mpc = "CoreDeinit"
    /\ core' = "deinited"
    /\ mining' = FALSE
    /\ mpc' = "P2pDeinit"
    /\ UNCHANGED <<noConsole, p2p, rpc, stopSignal, console, consoleStop,
                   cmd, cmdArg, logLevel, showHr, height>>

(* Lines 363-383: p2psrv.deinit(), the links are cleared, main returns 0. *)
p2p_deinit ==
    /\ mpc = "P2pDeinit"
    /\ p2p' = "deinited"
    /\ mpc' = "Ret0"
    /\ UNCHANGED <<noConsole, core, rpc, stopSignal, console, consoleStop,
                   cmd, cmdArg, logLevel, mining, showHr, height>>

-----------------------------------------------------------------------------
(* Signal handler, lines 333-336: stop_handling and sendStopSignal.  It is *)
(* installed once the console is started and stays until main returns.    *)
signal ==
    /\ mpc \notin {"Start", "P2pInit", "CoreInit", "RpcInit", "StartConsole"}
    /\ mpc \notin Returned
    /\ consoleStop' = TRUE
    /\ stopSignal' = TRUE
    /\ UNCHANGED <<mpc, noConsole, p2p, core, rpc, console, cmd, cmdArg,
                   logLevel, mining, showHr, height>>

-----------------------------------------------------------------------------
(* Console thread.                                                         *)

(* Variant of SetLog for mutation testing: the range check is dropped.    *)
SetLog_unchecked(v) == logLevel' = (v + 1) % 65536

(* set_log, lines 258-280: the level is the argument plus one, computed  *)
(* in a uint16_t, and is applied only when it is not above TRACE.         *)
SetLog(v) ==
    LET l == (v + 1) % 65536
    IN  logLevel' = IF l > TRACE THEN logLevel ELSE l

(* core::rollback_chain_to (spec.md, Blockchain Store): heights below the *)
(* checkpoint are refused, heights at or above the top are a no-op.       *)
RollbackTo(h) ==
    height' = IF h < Checkpoint \/ h >= height THEN height ELSE h

(* start_mining, lines 444-464: an address that does not parse changes   *)
(* nothing; otherwise the miner is started with at least one thread.     *)
StartMining(addrOk) == mining' = (mining \/ addrOk)

(* The console reads a command and runs it (ConsoleHandler, outside src/, *)
(* between two stop checks).  Only one command runs at a time.            *)
cmd_begin(c, v) ==
    /\ console = "running"
    /\ ~consoleStop
    /\ cmd = "idle"
    /\ cmd' = c
    /\ cmdArg' = v
    /\ UNCHANGED <<mpc, noConsole, p2p, core, rpc, stopSignal, console,
                   consoleStop, logLevel, mining, showHr, height>>

(* The handler of the command runs to its end.  exit (lines 152-156)      *)
(* stops the console and the p2p loop; rollback_chain (lines 303-320)     *)
(* casts its argument with boost::lexical_cast<uint32_t>, which throws on *)
(* text that is not a number: what ConsoleHandler does with the exception *)
(* is outside src/, so the loop either goes on or the thread ends.        *)
(* show_hr and hide_hr are lines 187-199.                                 *)
cmd_run ==
    /\ cmd # "idle"
    /\ cmd' = "idle"
    /\ cmdArg' = 0
    /\ \/ /\ cmd = "exit"
          /\ consoleStop' = TRUE
          /\ stopSignal' = TRUE
          /\ UNCHANGED <<console, logLevel, mining, showHr, height>>
       \/ /\ cmd = "set_log"
          /\ SetLog(cmdArg)
          /\ UNCHANGED <<stopSignal, console, consoleStop, mining, showHr, height>>
       \/ /\ cmd = "rollback_chain"
          /\ RollbackTo(cmdArg)
          /\ UNCHANGED <<stopSignal, console, consoleStop, logLevel, mining, showHr>>
       \/ /\ cmd = "rollback_bad"
          /\ console' \in {"running", "stopped"}
          /\ UNCHANGED <<stopSignal, consoleStop, logLevel, mining, showHr, height>>
       \/ /\ cmd = "start_mining"
          /\ StartMining(cmdArg = 1)
          /\ UNCHANGED <<stopSignal, console, consoleStop, logLevel, showHr, height>>
       \/ /\ cmd = "stop_mining"
          /\ mining' = FALSE
          /\ UNCHANGED <<stopSignal, console, consoleStop, logLevel, showHr, height>>
       \/ /\ cmd = "show_hr"
          /\ showHr' = (showHr \/ mining)
          /\ UNCHANGED <<stopSignal, console, consoleStop, logLevel, mining, height>>
       \/ /\ cmd = "hide_hr"
          /\ showHr' = FALSE
          /\ UNCHANGED <<stopSignal, console, consoleStop, logLevel, mining, height>>
       \/ /\ cmd = "query"
          /\ UNCHANGED <<stopSignal, console, consoleStop, logLevel, mining, showHr, height>>
    /\ UNCHANGED <<mpc, noConsole, p2p, core, rpc>>

(* The console loop sees the stop request between commands and ends.     *)
console_exit ==
    /\ console = "running"
    /\ consoleStop
    /\ cmd = "idle"
    /\ console' = "stopped"
    /\ UNCHANGED <<mpc, noConsole, p2p, core, rpc, stopSignal, consoleStop,
                   cmd, cmdArg, logLevel, mining, showHr, height>>

(* The arguments a user may type: set_log values, rollback heights, and  *)
(* for start_mining whether the address parses (1) or not (0).            *)
CommandInputs ==
    ({"set_log"} \X SetLogInputs) \cup ({"rollback_chain"} \X RollbackInputs)
    \cup ({"start_mining"} \X {0, 1})
    \cup ({"exit", "rollback_bad", "stop_mining", "show_hr", "hide_hr",
           "query"} \X {0})

-----------------------------------------------------------------------------
(* The core gains a block, from a peer while the p2p loop runs or from    *)
(* the miner (spec.md, Blockchain Store addBlock).                        *)
block_added ==
    /\ core = "inited"
    /\ mpc = "Loop" \/ mining
    /\ height < MaxHeight
    /\ height' = height + 1
    /\ UNCHANGED <<mpc, noConsole, p2p, core, rpc, stopSignal, console,
                   consoleStop, cmd, cmdArg, logLevel, mining, showHr>>

MainStep ==
    \/ main_start \/ p2p_init \/ core_init \/ rpc_init \/ start_console
    \/ p2p_run \/ stop_console \/ join_console \/ rpc_stop \/ core_deinit
    \/ p2p_deinit

ConsoleStep == cmd_run \/ console_exit

UserStep == signal \/ \E ci \in CommandInputs : cmd_begin(ci[1], ci[2])

Next == MainStep \/ ConsoleStep \/ UserStep \/ block_added

(* The main and console threads run while they can; the user, the peers   *)
(* and the miner owe nothing.                                             *)
Fairness == WF_vars(MainStep) /\ WF_vars(ConsoleStep)

Spec == Init /\ [][Next]_vars /\ Fairness

-----------------------------------------------------------------------------
(* Every variable holds a value of its kind.                              *)
TypeOK ==
    /\ mpc \in MainPcs
    /\ noConsole \in BOOLEAN
    /\ p2p \in {"none", "inited", "deinited"}
    /\ core \in {"none", "inited", "deinited"}
    /\ rpc \in {"none", "running", "stopped"}
    /\ stopSignal \in BOOLEAN
    /\ console \in {"off", "running", "stopped"}
    /\ consoleStop \in BOOLEAN
    /\ cmd \in Commands \cup {"idle"}
    /\ cmdArg \in Nat
    /\ logLevel \in StartLevels \cup FATAL..TRACE
    /\ mining \in BOOLEAN
    /\ showHr \in BOOLEAN
    /\ height \in 0..MaxHeight

(* A console command never runs on a core or p2p server that main() has  *)
(* already deinitialised: stop_handling joins the console thread before   *)
(* rpcServer.stop, ccore.deinit and p2psrv.deinit, whichever of exit,     *)
(* Ctrl-C or both stopped the daemon.                                     *)
NoCommandAfterDeinit ==
    cmd # "idle" => core = "inited" /\ p2p = "inited"

(* Once a stop is requested (the exit command or Ctrl-C), main() returns  *)
(* 0: the p2p loop ends, the console thread finishes its command and      *)
(* ends, and every component is shut down.                                *)
StopTerminates == stopSignal ~> (mpc = "Ret0")

-----------------------------------------------------------------------------
(* Refinement of DaemonService: the phase of the daemon is read off where *)
(* the main thread is; a command is busy while the console thread runs a  *)
(* handler; the stop request is sendStopSignal.                           *)
PhaseOf ==
    CASE mpc \in {"Start", "P2pInit", "CoreInit", "RpcInit", "StartConsole"}
            -> "starting"
      [] mpc = "Loop" -> "serving"
      [] mpc \in {"StopConsole", "JoinConsole"} -> "stopping"
      [] mpc \in {"RpcStop", "CoreDeinit", "P2pDeinit"} -> "teardown"
      [] mpc = "Ret0" -> "down"
      [] mpc = "Ret1" -> "failed"

Service == INSTANCE DaemonService
               WITH phase <- PhaseOf, busy <- (cmd # "idle"),
                    stopReq <- stopSignal, chain <- height

(* The daemon implements its service specification, fairness included:   *)
(* main(), the console thread and the signal handler together serve      *)
(* commands only between startup and teardown, tear down only when no    *)
(* handler runs, keep the chain at or above the checkpoint, and go down   *)
(* once stopped.                                                          *)
ImplementsService == Service!ASpec

=============================================================================
