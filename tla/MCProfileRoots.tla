--------------------------- MODULE MCProfileRoots ---------------------------
EXTENDS ProfileRoots, MCProfileView, TLC

CONSTANTS home, g1, o1, o2, c1, c2, c3, x, y

MCCreators == [o \in Owners |-> IF o = o1 THEN {c1, c2} ELSE {c3}]
Symmetry == Permutations(Requests) \cup Permutations({c1, c2}) \cup Permutations(Channels)
=============================================================================
