SPECIFICATION Spec
CONSTANTS
    NoTunnel = NoTunnel
    NoReading = NoReading
    Tunnel = {t1}
    Batch = 1
    MaxRow = 2
    MaxFile = 1
PROPERTIES
    EveryReadingDelivered
    NeverStalled
    ResetPullsEverything
