CONSTANTS
    OutputCounts <- MC_OutputCounts
SPECIFICATION Spec
PROPERTY
    AllRoundsSent
