--------------------------- MODULE MCConcurrentLRU ---------------------------
EXTENDS ConcurrentLRU
=============================================================================
