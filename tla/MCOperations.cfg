SPECIFICATION Spec
CONSTANTS
    Cells = {1, 2, 3}
    ConceptOf <- TwoConcepts
    Count <- Matrix
    ByHand = {3}
    Retries = 2
    Budget = 2
    RegenBudget = 2
    Parts = {1, 2}
    MaxJobs = 3
    MaxAstray = 1
    Generated = {"t1", "t2"}
    Handmade = {"m"}
    Deactivate = {"t1"}
    DirectApprove = {}
    DescriptionFix = {"t1"}
    Skip = {}
    Passed = {"t1"}
    Editions = {1, 2}
    FirstEdition = 1
    Answer <- Rows
    EmptyResult = "none"
    Claimed = "claimed"
    PlanGates = {1}
    MaxReseeds = 1
    Names = {"admin", "demo", "ana"}
    AdminName = "admin"
    Demo = {"demo"}
    Sentinel = {"demo"}
    AlsoUser = {"ana"}
    MaxUsers = 2
    MaxAttempts = 2
    MaxScripts = 1
INVARIANTS PhantomsAreFound ImportUndoesNothing PurgesAreWhole ExportNamesEveryone
CHECK_DEADLOCK FALSE
