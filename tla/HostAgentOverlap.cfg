CONSTANTS
    t1 = t1
    t2 = t2
    p1 = p1
    p2 = p2
    Threads = {t1, t2}
    Policies = {p1, p2}
    Daemon = "ssh"
    MaxFailures = 1
    MaxCrashes = 0
SPECIFICATION Spec
INVARIANT ConfigPreserved
