SPECIFICATION WindFairSpec
CONSTANTS
    Recipients = {p1, p2}
    Kicks = {k1}
    MaxFaults = 1
    MaxCommands = 2
INVARIANTS KeepsakeHasHistory FarewellOnce NobodyLeftOut ErasureWasDue
PROPERTY FinalSequenceCompletes
