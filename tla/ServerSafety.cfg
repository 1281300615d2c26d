SPECIFICATION Spec
CONSTANTS
    g1 = g1
    g2 = g2
    Gateway = {g1, g2}
    None = None
    Field = {"v", "V", "i", "f", "Idx", "note"}
    Name = {"v", "V", "i", "f", "Idx"}
    Folded <- FoldCase
    Barred = {"Idx"}
    Reports <- FiveNames
    MaxColumns = 2
    Batch = 2
    MaxRow = 2
    MaxTime = 2
INVARIANTS
    TypeOK
    
PROPERTIES
    RecordsBatches
    RunsToldApart
