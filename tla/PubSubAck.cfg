SPECIFICATION WSpec
CONSTANTS
    m1 = m1
    Msgs = {m1}
    MaxDeliveries = 3
    MaxRetries = 3
INVARIANT AckedSucceeded
