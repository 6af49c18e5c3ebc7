---------------------------- MODULE MCEngineFiles ----------------------------
EXTENDS Engine

CONSTANTS r1

MCKey == 1..2

MCReader1 == {r1}

=============================================================================
