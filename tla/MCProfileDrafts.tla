--------------------------- MODULE MCProfileDrafts ---------------------------
EXTENDS ProfileDrafts, TLC
ModelSymmetry == Permutations(Requests)
=============================================================================
