\* A pooled and an unpooled run, silent workers, the reaper and the dispatcher fair.
SPECIFICATION FairSpec
CONSTANTS
    r1 = r1
    r2 = r2
    w1 = w1
    w2 = w2
    s1 = s1
    s2 = s2
    None = None
    Runs = {r1, r2}
    Pooled = {r1}
    Workers = {w1, w2}
    Slots = {s1, s2}
    Host <- HostSpread
    Suitable <- SuitsAll
    Rank <- RankEqual
    MaxLimit = 1
    MaxCopies = 1
    BatchSize = 2
    CancelRoutes = {"batch"}
    Outcomes = {"PASSED"}
    Faults = {"silence"}
PROPERTIES
    OverdueRunEnds
    DispatchedRunLeavesQueue
    LostRunnerIsNoticed
