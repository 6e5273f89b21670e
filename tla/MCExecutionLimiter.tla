------------------------- MODULE MCExecutionLimiter -------------------------
EXTENDS ExecutionLimiter

CONSTANTS w1, w2, w3, w4, w5
=============================================================================
