SPECIFICATION Spec
CONSTANTS
    Cids = {c1, c2}
    Users = {u1, u2}
    Tasks = {t1, t2}
    KnownTasks = {t1}
    MaxFlows = 2
    GatewayMayExpire = TRUE
    UpdateMayExpire = TRUE
    RecommendMayExpire = TRUE
    FaultyParts = {"coordinator", "agents"}
    MaxFaults = 1
INVARIANTS TypeOK AnswerConcernsOwnTask AnswerIsOwnUnlessSettled RowsAsAnswered MasteryBeforeRecommendation
CHECK_DEADLOCK FALSE
PROPERTY ImplementsService
SYMMETRY Symmetry
