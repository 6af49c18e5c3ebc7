CONSTANTS
    NotFound = NotFound
    Garbage = Garbage
    Dies = Dies
    r1 = r1
    Key <- MCKey
    Reader <- MCReader0
    MemMax = 0
    MaxPuts = 4
SPECIFICATION FairSpecH
PROPERTY
    FullMemtableFlushed
CHECK_DEADLOCK FALSE
