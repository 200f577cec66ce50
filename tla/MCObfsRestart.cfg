CONSTANTS
    c1 = c1
    Client <- OneClient
    Modes = {"gateway"}
    Profiles = {"dtls_record"}
    Seqs = {0}
    Markers = 3
    Index = {0, 1, 2, 3, 4}
    Size = 2
    Probe = 2
    MaxLosses = 0
    MaxRestarts = 1
SPECIFICATION Spec
INVARIANTS
    FailureMeansOther
