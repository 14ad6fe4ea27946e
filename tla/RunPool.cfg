\* Two pooled runs compete for slots while an administrator edits the pool.
SPECIFICATION Spec
CONSTANTS
    r1 = r1
    r2 = r2
    w1 = w1
    w2 = w2
    s1 = s1
    s2 = s2
    None = None
    Runs = {r1, r2}
    Pooled = {r1, r2}
    Workers = {w1, w2}
    Slots = {s1, s2}
    Host <- HostSpread
    Suitable <- SuitsAll
    Rank <- RankEqual
    MaxLimit = 2
    MaxCopies = 2
    BatchSize = 2
    CancelRoutes = {}
    Outcomes = {"PASSED"}
    Faults = {"admin", "dispatcher"}
SYMMETRY RunSymmetry
PROPERTIES
    GrantsRespectLimit
