SPECIFICATION FairSpec
CONSTANTS
    Controls = {c1}
    Receipts = {i1, i2}
    Requests = {r1, r2}
    PartCount = 2
    Populations <- UsedOrCreated
    MaxFaults = 1
    MaxCrashes = 1
INVARIANTS DeliveredIsDeclared IdempotentCreate
PROPERTIES ClaimIsKept TransitionsAreLegal CleanupCatchesUp
CHECK_DEADLOCK FALSE
