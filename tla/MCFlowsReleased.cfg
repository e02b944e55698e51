SPECIFICATION FairSpec
CONSTANTS
    Cids = {c1, c2}
    Users = {u1}
    Tasks = {t1}
    KnownTasks = {t1}
    MaxFlows = 1
    GatewayMayExpire = FALSE
    UpdateMayExpire = TRUE
    RecommendMayExpire = TRUE
    FaultyParts = {"coordinator", "agents"}
    MaxFaults = 1
PROPERTIES EveryFlowReleased EveryAttemptProcessed
INVARIANT FlowLimit
CHECK_DEADLOCK FALSE
