---------------------------- MODULE DaemonService ----------------------------
(***************************************************************************)
(* What the lithe daemon promises, without its threads: it starts (or      *)
(* fails to), serves console commands and blocks until a stop is          *)
(* requested, then tears its components down, and is down.  A command    *)
(* runs only while the daemon serves or is stopping, the teardown starts  *)
(* only when no command runs, and the chain never drops below the         *)
(* checkpoint.  Daemon refines this specification.                        *)
(***************************************************************************)
EXTENDS Naturals

CONSTANTS
    MaxHeight,      \* bound on the chain height
    Checkpoint      \* the checkpoint height

VARIABLES
    phase,          \* "starting", "serving", "stopping", "teardown", "down" or "failed"
    busy,           \* a console command is running
    stopReq,        \* a stop has been requested
    chain           \* the chain height

avars == <<phase, busy, stopReq, chain>>

Phases == {"starting", "serving", "stopping", "teardown", "down", "failed"}

AInit ==
    /\ phase = "starting"
    /\ busy = FALSE
    /\ stopReq = FALSE
    /\ chain \in Checkpoint..MaxHeight

(* Startup ends: the daemon serves, or it returns without serving (an    *)
(* error, or --help and the like).                                        *)
Serve ==
    /\ phase = "starting"
    /\ phase' = "serving"
    /\ UNCHANGED <<busy, stopReq, chain>>

Quit ==
    /\ phase = "starting"
    /\ phase' \in {"down", "failed"}
    /\ UNCHANGED <<busy, stopReq, chain>>

(* A stop is requested from outside (Ctrl-C).                             *)
RequestStop ==
    /\ phase \in {"serving", "stopping", "teardown"}
    /\ stopReq' = TRUE
    /\ UNCHANGED <<phase, busy, chain>>

(* A console command starts, one at a time.                               *)
BeginCmd ==
    /\ phase \in {"serving", "stopping"}
    /\ ~busy
    /\ busy' = TRUE
    /\ UNCHANGED <<phase, stopReq, chain>>

(* The command ends; it may have requested a stop or rolled the chain    *)
(* back, never below the checkpoint.                                       *)
EndCmd ==
    /\ busy
    /\ busy' = FALSE
    /\ stopReq' \in {stopReq, TRUE}
    /\ chain' \in Checkpoint..chain
    /\ UNCHANGED phase

(* The chain grows while the core runs.                                   *)
Grow ==
    /\ phase \in {"serving", "stopping", "teardown"}
    /\ chain < MaxHeight
    /\ chain' = chain + 1
    /\ UNCHANGED <<phase, busy, stopReq>>

(* Serving ends once a stop has been requested.                           *)
Stop ==
    /\ phase = "serving"
    /\ stopReq
    /\ phase' = "stopping"
    /\ UNCHANGED <<busy, stopReq, chain>>

(* The components are torn down only when no command runs.                *)
Teardown ==
    /\ phase = "stopping"
    /\ ~busy
    /\ phase' = "teardown"
    /\ UNCHANGED <<busy, stopReq, chain>>

Finish ==
    /\ phase = "teardown"
    /\ phase' = "down"
    /\ UNCHANGED <<busy, stopReq, chain>>

ANext ==
    \/ Serve \/ Quit \/ RequestStop \/ BeginCmd \/ EndCmd \/ Grow
    \/ Stop \/ Teardown \/ Finish

(* The safety part, which TLAPS proves Daemon implements.                 *)
SafeSpec == AInit /\ [][ANext]_avars

(* A command that runs ends, and once stopping the daemon goes down.      *)
ASpec ==
    /\ SafeSpec
    /\ WF_avars(EndCmd)
    /\ WF_avars(Stop)
    /\ WF_avars(Teardown)
    /\ WF_avars(Finish)

=============================================================================
