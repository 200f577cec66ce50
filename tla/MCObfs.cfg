CONSTANTS
    c1 = c1
    Client <- OneClient
    Modes <- BothModes
    Profiles = {"game_enet", "game_kcp"}
    Seqs = {59}
    Markers = 2
    Index = {0, 1, 2, 3}
    Size = 2
    Probe = 2
    MaxLosses = 1
    MaxRestarts = 1
SPECIFICATION Spec
INVARIANTS
    ExactPresets
    OverheadBound
PROPERTIES
    HandshakesComplete
