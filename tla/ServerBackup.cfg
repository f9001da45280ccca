SPECIFICATION FairSpec
CONSTANTS
    Structures <- MCStructures
    Founded <- MCFounded
    Moderators = {mod1, mod2}
    Clicks = {k1, k2}
    RequiredApprovals = 2
    MaxApprovals = 1
    MaxEdits = 1
    MaxSetbacks = 1
INVARIANTS ApprovedIsPromoted RejectedIsKeptOut
PROPERTY PromptReachable
CHECK_DEADLOCK FALSE
