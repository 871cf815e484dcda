CONSTANTS
    u1 = u1
    r1 = r1
    r2 = r2
    Users = {u1}
    Requests = {r1, r2}
    Lifetime = 1
    MaxTokens = 3
    Horizon = 0
    MaxAborts = 0
SPECIFICATION Spec
INVARIANT SingleUse
