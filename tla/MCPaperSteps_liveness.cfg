SPECIFICATION FairSpec
CONSTANTS
    ManualWorkers = {m1}
    ScheduledWorkers = {s1}
    EventWorkers = {}
    NoWorker = NoWorker
    Clients = {c1}
    Events = {}
    NoEvent = NoEvent
    MaxSteps = 2
    MaxSlot = 1
    MaxCrashes = 0
PROPERTY
    StepEnds
