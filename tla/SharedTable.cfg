\* One block more than there are entries; an answer from a host that is not
\* a device.
SPECIFICATION Spec
CONSTANTS
    Address = {a1, a2}
    Device = {a1}
    Mac = {m1, m2}
    Block = {b1, b2, b3}
    None = None
INVARIANTS
    PointersAreLive
    OneOwner
    WalksSeeOneTable
PROPERTIES
    KeepsStream
