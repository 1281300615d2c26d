SPECIFICATION Spec
CONSTANTS
    Kinds = {"umg605-pro", "dummy"}
    HarmonicCount = 25
    MaxFloats = 62
    Failed = Failed
    Exception = Exception
    MaxCalls = 2
    MaxMissing = 1
INVARIANTS
    TypeOK
    RightRegisters
    OneLateAnswerPerCall
PROPERTIES
    SourceSpec
    CallsReturn
CHECK_DEADLOCK FALSE
