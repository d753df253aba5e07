SPECIFICATION Spec
CONSTANTS
    File <- Files
    Missing = Missing
    Option = {"-c", "none", "unknown"}
    Burst = 3
    MaxReloads = 2
INVARIANTS
    IInv
    ServesWithAllRequired
    NothingFreedIsRead
PROPERTIES
    RepairsTakeEffect
