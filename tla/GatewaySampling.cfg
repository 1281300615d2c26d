SPECIFICATION Spec
CONSTANTS
    InitialBackoff = 1
    MaxBackoff = 3
    Id <- Ids
    MaxLineSize = 2
    Chunk = 4
    MaxInFlight = 2
    MaxDue = 2
PROPERTIES
    SamplesDuringOutage
