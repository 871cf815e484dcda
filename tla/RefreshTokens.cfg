CONSTANTS
    u1 = u1
    u2 = u2
    r1 = r1
    r2 = r2
    Users = {u1, u2}
    Requests = {r1, r2}
    Lifetime = 1
    MaxTokens = 3
    Horizon = 1
    MaxAborts = 1
    Tabs = {u1, u2}
    Slots = {r1, r2}
    MaxIssued = 2
SYMMETRY Symmetric
SPECIFICATION SessionsSpec
INVARIANTS TypeOK ChainIntegrity OneCurrentUnlessRaced ReplayKillsFamily
INVARIANTS BrowserTypeOK NoFalseTheft LogoutEnds
PROPERTIES OverIsFinal
