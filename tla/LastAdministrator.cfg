\* Two administrators edit each other's accounts at the same time.
SPECIFICATION Spec
CONSTANTS
    None = None
    Users = {u1, u2}
    Callers = {c1, c2}
    Editors = 2
INVARIANT
    AdministratorRemains
