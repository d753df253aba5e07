SPECIFICATION Spec
CONSTANTS
    Address = {a1, a2, a3}
    Wild = Wild
    Device = {d1, d2}
    MaxRefused = 1
INVARIANTS
    UndefinedHasAReason
    LeaksAreKnown
PROPERTIES
    MisreadsNeedALeak
CHECK_DEADLOCK FALSE
