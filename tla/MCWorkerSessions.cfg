SPECIFICATION SessionsFairSpec
CONSTANTS
    Controls = {c1, c2}
    Workers = {w1}
    FailureCount = 2
    MaxSessions = 5
    MaxUpsets = 2
    MaxFailures = 2
INVARIANTS NewestRegistrationWins
PROPERTIES WorkerReturns
