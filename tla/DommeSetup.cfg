SPECIFICATION Spec
CONSTANTS
    Users = {u1, u2}
    Creators = {c1, c2}
    Tasks = {t1, t2}
    Nobody = Nobody
    Nothing = Nothing
    MaxSecrets = 2
    MaxTasks = 5
SYMMETRY MCSymmetry
INVARIANTS DeliveriesReachTheirOwner RotatedStaysDead
CHECK_DEADLOCK FALSE
