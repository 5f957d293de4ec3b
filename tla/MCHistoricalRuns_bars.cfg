SPECIFICATION FairSpec
CONSTANTS
    Clients = {c1}
    Steppers = {t1, t2}
    Nobody = Nobody
    NumBars = 2
    MaxSteps = 3
    MaxCrashes = 1
INVARIANTS
    StepsTakeTurns
    BarsInOrder
    CompletedIsCovered
PROPERTIES
    AuditTrail
    StepEnds
    RunReachesVerdict
