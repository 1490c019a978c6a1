CONSTANTS
    MaxEvent = 1
    MaxImage = 1
    WithFace = {1}
    Limit = 1
    MaxFaults = 0
SPECIFICATION Spec
PROPERTY RetentionSparesPinned
CHECK_DEADLOCK FALSE
