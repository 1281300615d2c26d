SPECIFICATION WebSpec
CONSTANTS
    g1 = g1
    g2 = g2
    Gateway = {g1, g2}
    None = None
    Field = {"v", "i", "note"}
    Name = {"v", "i"}
    Folded <- NoCase
    Barred = {}
    Reports <- TwoKinds
    MaxColumns = 1
    Batch = 2
    MaxRow = 2
    MaxTime = 1
    Filter = {None, g1}
    Limits = {NoLimit, 9}
    NoLimit = NoLimit
    DefaultLimit = 2
    MaxLimit = 3
    Harmonic = {"v", "i"}
INVARIANTS
    WebTypeOK
    PollersMissNothing
    GivenRowsStay
    
PROPERTIES
    KnownKindsRecorded
    LiveGoesOn
