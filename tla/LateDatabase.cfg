SPECIFICATION ISpec
CONSTANTS
    p1 = p1
    p2 = p2
    Procs = {p1}
    None = None
    Configs <- ComposeConfigs
    Migrations = 2
    MaxRetries = 5
INVARIANT
    LateDatabaseTolerated
