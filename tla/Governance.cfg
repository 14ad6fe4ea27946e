\* One change request, two candidate snapshots, two runs, three users.
SPECIFICATION Spec
CONSTANTS
    k1 = k1
    k2 = k2
    tester = tester
    reviewer = reviewer
    admin = admin
    None = None
    Keys = {k1, k2}
    Users = {tester, reviewer, admin}
    Editors = {tester, admin}
    Approvers = {reviewer, admin}
    Admins = {admin}
    MaxRevision = 2
    Outcomes = {"PASSED"}
SYMMETRY KeySymmetry
CHECK_DEADLOCK FALSE
INVARIANTS
    TypeOK
    BaselinesFollowRequest
    ReleaseEarned
    ValidationWasReported
PROPERTIES
    ReleaseIsFinal
    ReviewedContentIsFrozen
