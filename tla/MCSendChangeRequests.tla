------------------------ MODULE MCSendChangeRequests ------------------------
EXTENDS SendChangeRequests, MCOperations, TLC
ModelSymmetry == Permutations(Requests) \cup Permutations(Sends) \cup Permutations(Clicks)
=============================================================================
