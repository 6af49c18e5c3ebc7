----------------------------- MODULE MCSkipList -----------------------------
EXTENDS SkipList

CONSTANTS v1, v2

MCKey == 1..3
MCVal == {v1, v2}

=============================================================================
