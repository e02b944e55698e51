SPECIFICATION Spec
CONSTANTS
    Evaluator = "evaluator"
    Sweep = "sweep"
    Route = "route"
    Runners = {"evaluator", "sweep", "route"}
    Queries <- MCQueries
    Effect <- MCEffect
    Output <- MCOutput
    Writes = {"insert", "delete and commit", "delete as writer"}
    Commits = {"delete and commit"}
    TakesRole = {"delete as writer"}
    Contents <- MCContents
    MaxKept = 2
    Broken = {"broken"}
    Endless = {"endless"}
    Blank = {"blank"}
    Explains = {"explain"}
    Ordered = {"sorted", "descending"}
    Seeded <- MCSeeded
    Plan <- MCPlan
    Submissions <- MCSubmissions
    RunQueries = {"insert"}
    MaxBloat = 1
    MaxSandboxFaults = 1
    Tasks <- MCTasks
    Concept <- MCConcept
    ExpectedQuery <- MCExpectedQuery
    ExpectedResult <- MCExpectedResult
CHECK_DEADLOCK FALSE
INVARIANT DisturbanceIsNoAttempt
