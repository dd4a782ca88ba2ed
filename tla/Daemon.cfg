CONSTANTS
    MaxHeight <- MC_MaxHeight
    Checkpoint <- MC_Checkpoint
    SetLogInputs <- MC_SetLogInputs
    RollbackInputs <- MC_RollbackInputs
    LogLevelArgs <- MC_LogLevelArgs
SPECIFICATION Spec
CHECK_DEADLOCK FALSE
INVARIANTS
    TypeOK
    NoCommandAfterDeinit
PROPERTIES
    StopTerminates
    ImplementsService
