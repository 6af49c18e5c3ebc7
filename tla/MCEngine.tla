------------------------------ MODULE MCEngine ------------------------------
EXTENDS EngineKV

CONSTANTS r1

MCKey == 1..2

MCReader1 == {r1}
MCReader0 == {}

=============================================================================
