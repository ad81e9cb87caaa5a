CONSTANTS
    u1 = u1
    u2 = u2
    u3 = u3
    e1 = e1
    e2 = e2
    Users <- MCUsers
    Registered <- MCRegistered
    Emails = {e1, e2}
    Tabs = {t1, t2}
    NoOne = NoOne
    NoEmail = NoEmail
    MaxRequests = 3
    MaxPending = 2
SPECIFICATION SessionSpec
INVARIANTS
    SessionTypeOK
    TokensMatch
    ShownIsAuthenticated
    PagesHaveUsers
    EmailsUnique
SYMMETRY MCSymmetry
CHECK_DEADLOCK FALSE
