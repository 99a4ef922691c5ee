SPECIFICATION ClientSpec
CONSTANTS
    MaxArgs = 2
    MaxTries = 2
    MaxChanges = 1
INVARIANTS
    ArgumentsReach
    EffectsNeedDoubt
PROPERTIES
    CallEnds
CHECK_DEADLOCK FALSE
