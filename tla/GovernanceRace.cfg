\* An edit falls between the two transactions of a validation request.
SPECIFICATION Spec
CONSTANTS
    k1 = k1
    k2 = k2
    tester = tester
    reviewer = reviewer
    admin = admin
    None = None
    Keys = {k1}
    Users = {tester, reviewer, admin}
    Editors = {tester, admin}
    Approvers = {reviewer, admin}
    Admins = {admin}
    MaxRevision = 2
    Outcomes = {"PASSED", "FAILED"}
CHECK_DEADLOCK FALSE
INVARIANT
    SubmittedIsValidated
