\* A paused schedule is resumed after its package was deprecated.
SPECIFICATION Spec
CONSTANTS
    k1 = k1
    steady = steady
    flaky = flaky
    None = None
    Keys = {k1}
    Sweepers = {steady, flaky}
    Reliable = {steady}
    MaxTime = 1
    Grace = 0
    Periods = {1}
    Quotas <- FixedQuota
INVARIANT
    NoScheduleOnDeprecated
