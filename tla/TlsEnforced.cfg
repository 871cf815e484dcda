CONSTANTS
    c1 = c1
    good = good
    wide = wide
    Calls = {c1}
    Settings = {good, wide}
    Tls13Only = {good}
    AdmitX25519 = {wide}
    AdmitPrime256v1 = {wide}
    Accepted = {good, wide}
    MaxRows = 2
    MaxProbes = 1
    MaxFaults = 0
    MaxRestarts = 1
SPECIFICATION Spec
INVARIANT EnforcedNow
