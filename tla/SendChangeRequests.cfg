SPECIFICATION ChangesSpec
CONSTANTS
    Requests = {q1, q2}
    Sends = {s1}
    Clicks = {c1, c2}
    MaxFaults = 2
INVARIANTS DecisionMatchesEffect PendingHasButtons
PROPERTY DecisionFinal
SYMMETRY ModelSymmetry
