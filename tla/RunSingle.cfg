\* One pooled run, two workers, every delivery fault: the interleavings of one run's life.
SPECIFICATION Spec
CONSTANTS
    r1 = r1
    r2 = r2
    w1 = w1
    w2 = w2
    s1 = s1
    s2 = s2
    None = None
    Runs = {r1}
    Pooled = {r1}
    Workers = {w1, w2}
    Slots = {s1, s2}
    Host <- HostSpread
    Suitable <- SuitsAll
    Rank <- RankMixed
    MaxLimit = 1
    MaxCopies = 2
    BatchSize = 2
    CancelRoutes = {"single", "batch"}
    Outcomes = {"PASSED", "FAILED", "CANCELED", "TIMED_OUT"}
    Faults = {"crash", "network", "redeliver", "dispatcher", "silence", "slow_prepare"}
INVARIANTS
    TypeOK
    LeaseFollowsRun
    StartedRunIsBound
    OneHostPerRun
    ResultMatchesStatus
PROPERTIES
    LateCallsKeepTheTable
    KeepsLifecycle
