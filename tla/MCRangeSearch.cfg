SPECIFICATION Spec
CONSTANTS
    MaxIp = 4
    MaxCount = 4
CHECK_DEADLOCK FALSE
INVARIANTS
    TypeOK
    InBounds
    Verdict
PROPERTIES
    SearchEnds
