SPECIFICATION Spec
CONSTANTS
    Requests = {r1, r2, r3, r4, r5}
    Emails = {e1, e2, e3}
    Names = {n1}
    Passwords = {p1, p2}
    Unset = unset
SYMMETRY Symmetry
INVARIANTS
    RegistrationHolds
    LoginsAreJust
PROPERTY OwnersOnly
CHECK_DEADLOCK FALSE
