CONSTANTS
    t1 = t1
    t2 = t2
    p1 = p1
    p2 = p2
    c1 = c1
    c2 = c2
    Threads = {t1, t2}
    Calls = {c1, c2}
    Policies = {p1, p2}
    Daemon = "ssh"
    MaxFailures = 1
    MaxCrashes = 1
    MaxLosses = 1
SPECIFICATION ApiSpec
SYMMETRY Symmetric
INVARIANTS ApiTypeOK HistoryFollowsFile
