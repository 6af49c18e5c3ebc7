CONSTANTS
    NotFound = NotFound
    Garbage = Garbage
    Dies = Dies
    r1 = r1
    Key <- MCKey
    Reader <- MCReader1
    MemMax = 1
    MaxPuts = 4
SPECIFICATION Spec
PROPERTY
    SavedFilesIntact
