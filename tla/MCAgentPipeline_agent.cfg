SPECIFICATION FairSpec
CONSTANTS
    Scale = 3
    NoTarget = NoTarget
    NumAnalysts = 1
    NoThreshold = NoThreshold
    Thresholds = {2}
    Confidences = {2}
    Prices = {2, 3}
    Books <- SmallBooks
INVARIANTS
    TypeOK
    OrderFollowsDecision
    OrderIsAdvised
    AuditIsTrue
PROPERTY
    DecisionEnds
CHECK_DEADLOCK FALSE
