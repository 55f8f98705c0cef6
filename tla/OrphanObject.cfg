SPECIFICATION Spec
CONSTANTS
    f1 = f1
    f2 = f2
    f3 = f3
    c1 = c1
    c2 = c2
    n1 = n1
    n2 = n2
    Files = {f1}
    Names = {n1}
    Calls = {c1}
    NameOf <- MCNameOf1
    CallOf <- MCCallOf1
    Absent = Absent
    Torn = Torn
    DBType = "SQL"
    StorageType = "GCS"
INVARIANT NoOrphan
