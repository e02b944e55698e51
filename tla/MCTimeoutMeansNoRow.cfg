SPECIFICATION Spec
CONSTANTS
    Cids = {c1, c2}
    Users = {u1}
    Tasks = {t1}
    KnownTasks = {t1}
    MaxFlows = 2
    GatewayMayExpire = FALSE
    UpdateMayExpire = TRUE
    RecommendMayExpire = FALSE
    FaultyParts = {}
    MaxFaults = 0
INVARIANT TimeoutMeansNoRow
CHECK_DEADLOCK FALSE
