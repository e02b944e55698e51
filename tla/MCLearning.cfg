SPECIFICATION FairSpec
CONSTANTS
    Order <- MCOrder
    Tier <- MCTier
    Prerequisite <- MCPrerequisite
    AllPrereqs <- MCAllPrereqs
    ModuleOf <- MCModuleOf
    Tasks <- MCTasks
    TaskRank <- MCTaskRank
    Primary <- MCPrimary
    TaskConcepts <- MCTaskConcepts
    Users = {"ana", "ivan"}
    Learners = {"ana"}
    ErrorTypes = {"row_mismatch", "timeout"}
    MechanicalErrors = {"timeout"}
    AllowTailTruncate = TRUE
    MaxWrong = 1
    MaxTrouble = 1
CHECK_DEADLOCK FALSE
INVARIANTS TypeOK MasteryIsAccounted EngineHoldsOwnFactsOnly AllMasteredIsTrue
PROPERTIES OfferIsWorkable DiligentStudentFinishes
