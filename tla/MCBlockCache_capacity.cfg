CONSTANTS
    Keys <- MCKeys
    Sizes <- MCSizes
    SSTBlock <- MCSSTBlock
    MaxCapacity = 16384
    MinBlockSize = 4096
    MaxBlockSize = 8192
    MaxBlockCount = 3
    MinUtilPct = 50
SPECIFICATION Spec
INVARIANT WithinCapacity
