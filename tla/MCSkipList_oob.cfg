CONSTANTS
    Nil = Nil
    NotFound = NotFound
    v1 = v1
    v2 = v2
    Key <- MCKey
    Val <- MCVal
    MaxLevel = 2
    MaxNodes = 3
SPECIFICATION Spec
INVARIANT NoOutOfRangeAccess
