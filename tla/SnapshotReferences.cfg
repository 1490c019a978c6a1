CONSTANTS
    MaxEvent = 2
    MaxImage = 3
    WithFace = {2}
    Limit = 2
    MaxFaults = 1
SPECIFICATION Spec
INVARIANT NothingLeftBehind
PROPERTY ReplacedIsNotShown
PROPERTY ClearedOnlyMissing
PROPERTY EventReferencesHeal
CHECK_DEADLOCK FALSE
