---------------------------- MODULE MCHolderSession ----------------------------
EXTENDS HolderSession, TLC
Symmetry ==
  Permutations(Key) \cup Permutations(Serial) \cup Permutations(Pass)
    \cup Permutations(Remote)
=============================================================================
