SPECIFICATION FairSpec
CONSTANTS
    ManualWorkers = {}
    ScheduledWorkers = {}
    EventWorkers = {n1}
    NoWorker = NoWorker
    Clients = {c1}
    Events = {e1}
    NoEvent = NoEvent
    MaxSteps = 1
    MaxSlot = 0
    MaxCrashes = 0
PROPERTY
    EventStepEnds
CHECK_DEADLOCK FALSE
