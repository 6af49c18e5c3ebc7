CONSTANTS
    NotFound = NotFound
    Garbage = Garbage
    Dies = Dies
    r1 = r1
    Key <- MCKey
    Reader <- MCReader1
    MemMax = 0
    MaxPuts = 4
SPECIFICATION SpecH
PROPERTY
    GetLinearizable
