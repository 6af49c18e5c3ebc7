CONSTANTS
    NotFound = NotFound
    Garbage = Garbage
    SIGFPE = SIGFPE
    MemTables <- MCMemTables
    Probes <- MCProbes
    Configs <- MCConfigs
    RandCounters <- MCRandCounters
SPECIFICATION Spec
INVARIANT ReadBack
CHECK_DEADLOCK FALSE
