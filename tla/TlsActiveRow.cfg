CONSTANTS
    c1 = c1
    c2 = c2
    good = good
    Calls = {c1, c2}
    Settings = {good}
    Tls13Only = {good}
    AdmitX25519 = {}
    AdmitPrime256v1 = {}
    Accepted = {good}
    MaxRows = 3
    MaxProbes = 0
    MaxFaults = 0
    MaxRestarts = 0
SPECIFICATION Spec
INVARIANT OneActiveRow
