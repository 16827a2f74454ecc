------------------------- MODULE MCAuthorityRecovery -------------------------
EXTENDS AuthorityRecovery, TLC
Symmetry == Permutations(Task) \cup Permutations(Key) \cup Permutations(Issuer)
=============================================================================
