CONSTANTS
    MaxHeight <- MC_MaxHeight
    MaxResets <- MC_MaxResets
SPECIFICATION Spec
INVARIANT
    ResetWithinChain
