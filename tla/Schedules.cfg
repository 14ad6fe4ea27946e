\* Two scheduler processes and a client, three ticks, a misfire after one.
SPECIFICATION FairSpec
CONSTANTS
    k1 = k1
    steady = steady
    flaky = flaky
    None = None
    Keys = {k1}
    Sweepers = {steady, flaky}
    Reliable = {steady}
    MaxTime = 2
    Grace = 0
    Periods = {1}
    Quotas <- EditedQuota
INVARIANTS
    TypeOK
    FiringsAgreeWithRuns
    NextFollowsFirings
    ActivationEarned
PROPERTIES
    AdmissionsRespectQuota
    ScheduleCatchesUp
