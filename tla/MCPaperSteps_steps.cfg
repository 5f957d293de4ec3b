SPECIFICATION Spec
CONSTANTS
    ManualWorkers = {m1}
    ScheduledWorkers = {s1}
    EventWorkers = {n1, n2}
    NoWorker = NoWorker
    Clients = {c1}
    Events = {e1}
    NoEvent = NoEvent
    MaxSteps = 2
    MaxSlot = 1
    MaxCrashes = 1
INVARIANTS
    TypeOK
    OneRunningStep
    SlotOnce
    OrderNeedsRiskCheck
    CompletedIsAudited
    EventOnce
    TriggeredIsServed
PROPERTIES
    LedgerSpec
SYMMETRY Symmetry
