SPECIFICATION Spec
CONSTANTS
    Links = {site, cash}
    Payment = {cash}
    Offered = {"domme", "submissive"}
    LinkCap = 1
    None = None
    Requests = {r1, r2}
    MaxDrafts = 2
    MaxRevision = 4
    MaxEdits = 7
    MaxImports = 1
    MaxSecrets = 2
INVARIANTS HistoryIsLinear PublishedIsAllowed AnsweredSecretIsLive DraftsWithinLimits
PROPERTY ImplementsStore
SYMMETRY ModelSymmetry
CHECK_DEADLOCK FALSE
