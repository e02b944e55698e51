SPECIFICATION Spec
CONSTANTS
    t1 = t1
    t2 = t2
    Requests = {r1, r2, r3}
    Users = {student}
    Tasks = {t1}
    Admins = {}
    Catalogued = {}
    MaxTries = 2
    MaxTime = 4
    HintMax = 2
    Refill = 2
    WaitMayExpire = FALSE
    AgentMayFail = FALSE
INVARIANT CreditIsFair
SYMMETRY RequestSymmetry
CHECK_DEADLOCK FALSE
