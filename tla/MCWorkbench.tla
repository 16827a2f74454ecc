----------------------------- MODULE MCWorkbench -----------------------------
EXTENDS Workbench, TLC
Symmetry == Permutations(Tab) \cup Permutations(Session) \cup Permutations(Challenge)
=============================================================================
