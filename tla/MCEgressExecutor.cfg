CONSTANTS
    Requests = {r1, r2}
    Addresses = {"a1", "a2"}
    Answers <- AllAnswers
    Asks <- AllAsks
    MaxChanges = 2
SPECIFICATION Spec
SYMMETRY RequestSymmetry
CHECK_DEADLOCK FALSE
INVARIANTS
    OwnPolicyHolds
    ReplayedAsAllowed
