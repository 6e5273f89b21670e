--------------------------- MODULE MCJobLifecycle ---------------------------
EXTENDS JobLifecycle

CONSTANTS j1, j2, w1, w2

MCSymmetry == Permutations({j1, j2}) \cup Permutations({w1, w2})
=============================================================================
