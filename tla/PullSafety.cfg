SPECIFICATION Spec
CONSTANTS
    NoTunnel = NoTunnel
    NoReading = NoReading
    Tunnel = {t1, t2}
    Batch = 2
    MaxRow = 3
    MaxFile = 1
SYMMETRY TunnelSymmetry
INVARIANTS
    TypeOK
    NoSkip
    StoredIsBeginning
    CursorBacked
    OneOutstanding
    NoRepull
PROPERTIES
    PageByPage
    CopiesHistory
