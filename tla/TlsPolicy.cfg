CONSTANTS
    c1 = c1
    c2 = c2
    good = good
    refused = refused
    wide = wide
    Calls = {c1, c2}
    Settings = {good, refused, wide}
    Tls13Only = {good, refused}
    AdmitX25519 = {wide}
    AdmitPrime256v1 = {}
    Accepted = {good, wide}
    MaxRows = 2
    MaxProbes = 2
    MaxFaults = 1
    MaxRestarts = 1
SPECIFICATION Spec
SYMMETRY Symmetric
INVARIANTS TypeOK ActiveRow FileInForce NewestEvidence
