--------------------------- MODULE MCSignedVerifier ---------------------------
EXTENDS SignedVerifier, TLC
Symmetry == Permutations(Call) \cup Permutations(Challenge) \cup Permutations(Credential)
Always   == [k \in Credential |-> 0]
UntilTwo == [k \in Credential |-> 2]
=============================================================================
