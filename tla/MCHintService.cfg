SPECIFICATION FairSpec
CONSTANTS
    t1 = t1
    t2 = t2
    Requests = {r1, r2}
    Users = {admin, student}
    Tasks = {t1, t2}
    Admins = {admin}
    Catalogued <- FirstTaskOnly
    MaxTries = 2
    MaxTime = 1
    HintMax = 1
    Refill = 2
    WaitMayExpire = TRUE
    AgentMayFail = TRUE
INVARIANTS TypeOK RowsHangOnLastWrongAttempt ChargedForHints PaidHintIsShownAgain
PROPERTY EveryHintRequestAnswered
CHECK_DEADLOCK FALSE
