SPECIFICATION WFairSpec
CONSTANTS
    m1 = m1
    Msgs = {m1}
    MaxDeliveries = 3
    MaxRetries = 3
INVARIANTS
    WTypeOK
    AckedTried
PROPERTIES
    NoDispatchAfterStop
    StopTerminates
    TriedWhileServing
