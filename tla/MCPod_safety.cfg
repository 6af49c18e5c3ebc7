CONSTANTS
    s1 = s1
    s2 = s2
    s3 = s3
    v1 = v1
    v2 = v2
    v3 = v3
    v4 = v4
    Server <- MCServer2
    Value <- MCValue2
    MaxTerm = 2
    MaxShutdown = 1
    RingSize = 4
    Nil = Nil
    NoValue = NoValue
    Garbage = Garbage
SPECIFICATION Spec
CONSTRAINT NextIndexConstraint
SYMMETRY Symmetry2
INVARIANT LeaderHasQuorumTerm
 
PROPERTY SavedCommitFinal
CHECK_DEADLOCK FALSE
