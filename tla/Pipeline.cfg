SPECIFICATION NSpec
CONSTANTS
    n1 = n1
    n2 = n2
    t = t
    padded = padded
    blanks = blanks
    Files = {n1, n2}
    Names = {n1, n2}
    NameOf <- MCNameOf
    TraceIds = {t, padded, blanks}
    Strip <- MCStrip
    Tenants = {acme}
    Blank = Blank
    MaxCopies = 2
INVARIANTS
    NTypeOK
    NilMeansIngested
    DirectAtMostOnce
    EventFaithful
    NeverRejected
