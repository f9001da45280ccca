--------------------------- MODULE MCProfileWizard ---------------------------
EXTENDS ProfileWizard, TLC
ModelSymmetry == Permutations(Tasks)
=============================================================================
