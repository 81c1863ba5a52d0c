SPECIFICATION FairSpec
CONSTANTS
    Controls = {c1, c2}
    Mutations = {o1, o2}
    Workers = {w1}
    HistoryLimit = 2
    MaxCrashes = 1
INVARIANTS
    ActiveIsDurable
PROPERTIES
    NoSilentOverwrite
    CachesConverge
