SPECIFICATION FairSpec
CONSTANTS
    Nobody = Nobody
    Controls = {c1, c2}
    Requests = {r1}
    Runs <- AllRuns
    MaxUpsets = 1
INVARIANTS CancelFindsEntry
PROPERTIES OthersRecordsAreKept LostOwnershipEndsRequest OrphansExpire
CHECK_DEADLOCK FALSE
