SPECIFICATION Spec
CONSTANTS
    quad1 = quad1
    quad2 = quad2
    name1 = name1
    Id = {d1, d2, d3}
    Text <- MCText
    Heard <- MCHeard
    Block = {b1, b2, b3, b4}
    MaxRows = 3
SYMMETRY Symmetric
INVARIANTS
    VerdictsAreOfLastRows
    EntriesAreLive
    OnlyTakenOverIdsLeak
PROPERTIES
    JudgesByLastAnswer
