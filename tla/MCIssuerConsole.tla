--------------------------- MODULE MCIssuerConsole ---------------------------
EXTENDS IssuerConsole, TLC
Symmetry == Permutations(Token) \cup Permutations(Command) \cup Permutations(Operator)
              \cup Permutations(Enrollment) \cup Permutations(Credential)
=============================================================================
