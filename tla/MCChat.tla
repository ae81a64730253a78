-------------------------------- MODULE MCChat -------------------------------
EXTENDS Chat, TLC

CONSTANTS in1, in2, out, camp, w1, w2

Symmetry == Permutations({in1, in2}) \union Permutations({w1, w2})
==============================================================================
