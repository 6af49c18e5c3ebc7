------------------------------- MODULE MCPod -------------------------------
(* Model-checking instance of Pod: three Pods, a small ring and bounds.   *)
EXTENDS Pod, TLC

CONSTANTS s1, s2, s3, v1, v2, v3, v4

MCServer == {s1, s2, s3}
MCServer2 == {s1, s2}
MCValue == {v1}
MCValue2 == {v1, v2}
MCValue4 == {v1, v2, v3, v4}

\* nextindex_ falls by one per rejected Append and has no lower bound in
\* the code; the model stops exploring below this floor.
NextIndexFloor == -2
NextIndexConstraint ==
    \A n \in Server : \A p \in Peers(n) : nextIndex[n][p] >= NextIndexFloor

Symmetry == Permutations(MCServer) \cup Permutations(MCValue2)
Symmetry2 == Permutations(MCServer2) \cup Permutations(MCValue2)
=============================================================================
