SPECIFICATION Spec
CONSTANTS
    g1 = g1
    g2 = g2
    Gateway = {g1, g2}
    None = None
    Field = {"v", "V", "i", "note"}
    Name = {"v", "V", "i"}
    Folded <- FoldCase
    Barred = {}
    Reports <- TwoCases
    MaxColumns = 3
    Batch = 1
    MaxRow = 1
    MaxTime = 1
PROPERTIES
    KindsShareFile
