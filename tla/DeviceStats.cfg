SPECIFICATION Spec
CONSTANTS
    Device = {d1}
    Mac = {m1, m2}
    NoMac = NoMac
    MaxPolls = 4
SYMMETRY Symmetric
INVARIANTS
    IInv
    HistoryIsRunLengthCoded
    FirstPollMarksTheStart
    ReportIsOnRecord
PROPERTIES
    RecordsStay
