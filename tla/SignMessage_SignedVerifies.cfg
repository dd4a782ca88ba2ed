CONSTANTS
    SigLen <- MC_SigLen
    MaxByte <- MC_MaxByte
    JunkLen <- MC_JunkLen
SPECIFICATION Spec
CHECK_DEADLOCK FALSE
INVARIANTS SignedVerifies
