SPECIFICATION Spec
CONSTANTS
    Users = {u1}
    Tasks = {"select", "joins"}
    Difficulty <- MCDifficulty
    ModuleOf <- MCModuleOf
    Evaluable = {1, 3}
    JoinConcepts = {"inner_join"}
    Practised = {"inner_join"}
    BadgeXp <- MCBadgeXp
    StreakGoal = 2
    MaxAttempts = 3
    MaxDay = 3
    MaxRedeliveries = 1
    MayFail = TRUE
CHECK_DEADLOCK FALSE
INVARIANTS TypeOK BalanceIsHonest SolvedTaskPaysNoMore StreaksAreTrue
