SPECIFICATION MCSpec
CONSTANTS
    u1 = u1
    u2 = u2
    k1 = k1
    t1 = t1
    h1 = h1
    h2 = h2
    root = root
    c1 = c1
    c2 = c2
    c3 = c3
    Attempts = {h1, h2}
    Limit = 2
    Window = 1
    Lockout = 2
    Users = {u1, u2}
    Keys = {k1}
    Tokens = {t1}
    Handlers = {h1, h2}
    Names = {root}
    Posts <- MCPosts
    Requests <- MCRequests
    Certs = {c1, c2, c3}
    Clients = {c1, c2, c3}
    PoolSize = 2
SYMMETRY MCSym
INVARIANTS AuthTypeOK
INVARIANTS LimitPerWindow RetryAfterHonoured
INVARIANTS NothingBeyondSigning AuthorityIsCurrent OneAccountPerEmail
INVARIANTS RevocableBySerial QueueMovesUnlessExhausted
CHECK_DEADLOCK FALSE
