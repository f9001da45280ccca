SPECIFICATION Spec
CONSTANTS
    Events = {"e1", "e2"}
    MainEvents = {"e2"}
    BadCurrency = {"e2"}
    Hooks = {h1, h2}
    Commands = {c1}
    Phases = {0, 3}
    Modes = {"offline"}
    BatchLimit = 2
    MaxSends = 2
    MaxFaults = 2
    MaxEdits = 1
SYMMETRY MCSymmetry
CONSTRAINT MCOneQuestion
INVARIANTS AnnouncedOnce PostedWasAnnounced
PROPERTY ImplementsDelivery
