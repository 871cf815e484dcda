CONSTANTS
    t1 = t1
    t2 = t2
    p1 = p1
    p2 = p2
    Threads = {t1, t2}
    Policies = {p1, p2}
    Daemon = "ssh"
    MaxFailures = 3
    MaxCrashes = 2
SPECIFICATION Spec
SYMMETRY Symmetric
INVARIANTS TypeOK DaemonFollowsFile AllOrNothing
