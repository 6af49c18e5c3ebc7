CONSTANTS
    s1 = s1
    s2 = s2
    s3 = s3
    v1 = v1
    v2 = v2
    v3 = v3
    v4 = v4
    Server <- MCServer2
    Value <- MCValue
    MaxTerm = 1
    MaxShutdown = 1
    RingSize = 4
    Nil = Nil
    NoValue = NoValue
    Garbage = Garbage
SPECIFICATION Spec
SYMMETRY Symmetry2
CONSTRAINT NextIndexConstraint
INVARIANT ReplicatorReadsLog
CHECK_DEADLOCK FALSE
