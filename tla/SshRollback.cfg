CONSTANTS
    t1 = t1
    t2 = t2
    p1 = p1
    p2 = p2
    c1 = c1
    Threads = {t1, t2}
    Calls = {c1}
    Policies = {p1, p2}
    Daemon = "ssh"
    MaxFailures = 0
    MaxCrashes = 0
    MaxLosses = 1
SPECIFICATION ApiSpec
INVARIANT RollbackLeavesCurrent
