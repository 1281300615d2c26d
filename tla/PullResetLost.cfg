SPECIFICATION Spec
CONSTANTS
    NoTunnel = NoTunnel
    NoReading = NoReading
    Tunnel = {t1}
    Batch = 2
    MaxRow = 3
    MaxFile = 1
PROPERTIES
    RecreatedFileIsPulled
