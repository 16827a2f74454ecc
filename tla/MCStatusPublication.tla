-------------------------- MODULE MCStatusPublication --------------------------
EXTENDS StatusPublication, TLC
Symmetry == Permutations(Credential)
Zero == [k \in Credential |-> 0]
=============================================================================
