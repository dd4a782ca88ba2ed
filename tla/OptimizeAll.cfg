CONSTANTS
    OutputCounts <- MC_OutputCounts
SPECIFICATION Spec
INVARIANT
    SentWithinRounds
