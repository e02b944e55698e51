SPECIFICATION FairSpec
CONSTANTS
    Cids = {c1, c2}
    Users = {u1}
    Tasks = {t1, t2}
    KnownTasks = {t1}
    MaxFlows = 2
    GatewayMayExpire = FALSE
    UpdateMayExpire = TRUE
    RecommendMayExpire = FALSE
    FaultyParts = {"agents"}
    MaxFaults = 1
PROPERTIES EveryRequestAnswered NoSubmissionLost
CHECK_DEADLOCK FALSE
