\* A run ends while its user changes the address.
SPECIFICATION Spec
CONSTANTS
    None = None
    Runs = {r1}
    Tests = {t1}
    Addresses = {a1, a2}
    Dispatchers = {w1}
    MaxAttempts = 1
INVARIANT
    NoMailToOldAddress
