SPECIFICATION IFairSpec
CONSTANTS
    p1 = p1
    p2 = p2
    Procs = {p1, p2}
    None = None
    Configs <- MCConfigs
    Migrations = 2
    MaxRetries = 5
INVARIANTS
    ITypeOK
    ReadyMigrated
    NoPoolLeak
PROPERTIES
    MainSettles
    PipelineOptional
