SPECIFICATION Spec
CONSTANTS
    a1 = a1
    a2 = a2
    m1 = m1
    m2 = m2
    t1 = t1
    t2 = t2
    bad = bad
    None = None
    Address = {a1, a2}
    Mac = {m1, m2}
    Text = {t1, t2, bad}
    Resolve <- MCResolve
    Orders <- BothOrders
    Own <- MCOwn
    Traffic <- MCTraffic
    QueueLimit = 2
INVARIANTS
    IInv
PROPERTIES
    ListensToReplies
    AnswersArrive
    AskableGetAsked
