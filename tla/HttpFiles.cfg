SPECIFICATION HSpec
CONSTANTS
    f1 = f1
    f2 = f2
    c1 = c1
    c2 = c2
    n1 = n1
    l1 = l1
    Files = {f1, f2}
    Names = {n1}
    Calls = {c1, c2}
    NameOf <- MCNameOf
    CallOf <- MCCallOf
    Absent = Absent
    Torn = Torn
    DBType = "SQL"
    StorageType = "GCS"
    Lists = {l1}
    Limits <- MCLimits
    Filters <- MCFilters
    UploadTags = {"client"}
    MaxLimit = 2
    MinLimit = 1
    DefaultLimit = 2
SYMMETRY MCSwap
INVARIANTS
    HTypeOK
    ListedStored
    ContentOpen
    ReadYourUploads
    PageBounded
PROPERTIES
    HttpImplementsUpload
