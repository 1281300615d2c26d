SPECIFICATION Spec
CONSTANTS
    g1 = g1
    g2 = g2
    Gateway = {g1}
    None = None
    Field = {"v", "note"}
    Name = {"v"}
    Folded <- FoldCase
    Barred = {}
    Reports <- NotesOnly
    MaxColumns = 1
    Batch = 2
    MaxRow = 2
    MaxTime = 1
PROPERTIES
    BadFieldsDropped
