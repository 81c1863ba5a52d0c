SPECIFICATION FairSpec
CONSTANTS
    Sinks = {"inline", "raw", "receipt"}
    Makes = {"straw", "foreign"}
    Strict = TRUE
    Body = 4
    InitialCredit = 2
    FrameData = 2
    MaxBody = 4
    PartSize = 3
    MaxFaults = 2
    MaxForeign = 5
    MaxStoreFaults = 1
    Interrupts = TRUE
INVARIANT SuccessIsWhole
INVARIANT RejectedOnlyAfterLoss
INVARIANT InFlightWithinCredit
PROPERTY ResponseArrives
CHECK_DEADLOCK FALSE
