CONSTANTS
    c1 = c1
    Client <- OneClient
    Modes = {"gateway"}
    Profiles = {"dns_like"}
    Seqs = {80, 81, 82, 83}
    Markers = 3
    Index = {0, 1, 2, 3, 4}
    Size = 2
    Probe = 2
    MaxLosses = 0
    MaxRestarts = 0
SPECIFICATION Spec
INVARIANTS
    DnsRoundTrip
