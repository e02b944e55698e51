SPECIFICATION RecordsSpec
CONSTANTS
    Writers = {"w1", "w2", "w3", "w4"}
    Pairs = {"p1", "p2"}
    MaxRetries = 3
    Students = {"ana", "ivan"}
    Exercises = {1, 2, 3}
    Subjects = {"joins", "select", "windows"}
    PrimaryOf <- OwnConcept
    SubjectsOf <- AllConcepts
    Grade <- Difficulties
    Members = {1, 2}
    Staff = {3}
    Gains = {0, 1}
    PageSizes = {1, 2}
    LimitMax = 2
    Week = 0
    MaxNow = 2
    MaxMade = 3
INVARIANTS TypeOK DenseNumbers FailureNeedsRace PageAgrees WalkMissesNothing
CHECK_DEADLOCK FALSE
