SPECIFICATION SFairSpec
CONSTANTS
    f1 = f1
    n1 = n1
    Files = {f1}
    Names = {n1}
    NameOf <- MCNameOf
    Window = 2
    MaxChunks = 3
    NotStored = NotStored
PROPERTY
    PumpExits
