---------------------------- MODULE MCLifecycleKit ----------------------------
EXTENDS LifecycleKit, TLC
Symmetry == Permutations(Challenge) \cup Permutations(Call)
=============================================================================
