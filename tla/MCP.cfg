SPECIFICATION Spec
CONSTANTS
    k1 = k1
    k2 = k2
    t1 = t1
    t2 = t2
    open = open
    Calls = {k1}
    Lists = {"l1"}
    Pinned = {t1}
    ToolOf <- MCToolOf
    InRoom = 1
    OutRoom = 1
    MaxScans = 2
    MaxChanges = 1
CHECK_DEADLOCK FALSE
INVARIANTS
    TrustIsCurrent
    OneOutcome
PROPERTIES
    WrittenUnderTrust
    EveryCallAnswered
    MainReturns
