SPECIFICATION Spec
CONSTANTS
    f1 = f1
    f2 = f2
    f3 = f3
    c1 = c1
    c2 = c2
    n1 = n1
    n2 = n2
    Files = {f1, f2, f3}
    Names = {n1, n2}
    Calls = {c1, c2}
    NameOf <- MCNameOf
    CallOf <- MCCallOf
    Absent = Absent
    Torn = Torn
    DBType = "SQL"
    StorageType = "LOCAL"
INVARIANT
    CompletedStored
PROPERTY
    FailFast
