CONSTANTS
    d1 = d1
    d2 = d2
    al1 = al1
    m1 = m1
    Dests <- MC_Dests
    Aliases <- MC_Aliases
    Msgs <- MC_Msgs
    Fees <- MC_Fees
SPECIFICATION Spec
\* The console can only stop inside sent.wait, which has no timeout; that
\* is what TransferReturns reports, so it is not also reported as a deadlock.
CHECK_DEADLOCK FALSE
INVARIANTS
    TypeOK
    SentAsRequested
PROPERTIES
    SentAsConfirmed
    TransferReturns
