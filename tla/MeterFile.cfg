SPECIFICATION Spec
CONSTANTS
    tunnel = tunnel
    record = record
    stray = stray
    names = names
    others = others
    Process = {tunnel, record, stray}
    Kind = {names, others}
    KindOf <- TwoKinds
    NoTable = NoTable
    Limit = 2
    MaxRow = 4
    MaxTime = 2
INVARIANTS
    TypeOK
    SchemaFixed
    EveryRowOnce
    LosesOneAtMost
PROPERTIES
    CopiesRows
