SPECIFICATION RoutingSpec
CONSTANTS
    Evaluations = {q1, q2}
    RequestSet <- MCRequestSet
    RuleLists <- MCRuleLists
    Pools <- MCPools
    Executors = {1, 2}
    Claims <- MCClaims
    Reports <- MCReports
    OldPins = {0, 2}
    MaxChanges = 1
SYMMETRY Symmetry
INVARIANTS SessionStays
PROPERTIES RoutedAsPromised
CHECK_DEADLOCK FALSE
