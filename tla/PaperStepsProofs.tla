--------------------------- MODULE PaperStepsProofs ---------------------------
(***************************************************************************)
(* Proofs about PaperSteps, for every number of workers, clients, events,  *)
(* steps, slots and crashes.                                               *)
(***************************************************************************)
EXTENDS PaperSteps, TLAPS

\* The worker has a running step in its hands.  (An event worker that fails may
\* or may not have one, and will not write it.)
Owns(w) ==
    \/ pc[w] \in InStep
    \/ pc[w] \in {"failing", "failing_experiment"} /\ w \notin EventWorkers

\* The worker has committed the decision of its event and not yet a step.
Preparing(w) == w \in EventWorkers /\ pc[w] \in {"validate", "lock", "check", "insert"}

\* The advisory lock belongs to the transaction that creates a step.
LockInv == \A w \in Workers : pc[w] \in {"check", "insert"} => lock = w

\* What CheckSteps saw is still true when the step is inserted.
ReadyInv == \A w \in Workers : pc[w] = "insert" => ~AlreadyRunning(w)

\* A step in hand is running, and in the hands of one worker only.
OwnerInv ==
    /\ \A w \in Workers : Owns(w) => cur[w] \in Steps /\ status[cur[w]] = "RUNNING"
    /\ \A v, w \in Workers : Owns(v) /\ Owns(w) => v = w

\* There is nothing before the step is inserted.
RowInv ==
    \A s \in Steps :
        status[s] = "NONE" => /\ trigger[s] = "NONE" /\ riskCheck[s] = "NONE"
                              /\ order[s] = "NONE" /\ submissions[s] = 0
                              /\ cause[s] = NoEvent

\* What exists of a step at each point of its run.
PhaseInv ==
    \A w \in Workers :
        /\ pc[w] \in InStep => order[cur[w]] = "NONE"
        /\ pc[w] \in {"artifacts", "broker"} => submissions[cur[w]] = 0
        /\ pc[w] \in {"broker", "record"} => riskCheck[cur[w]] = "EXEC"
        /\ pc[w] = "record" => submissions[cur[w]] = 1 /\ reply[w] \in BrokerStatus

\* An event has a decision row before it has a step, and one worker to create it.
EventInv ==
    /\ \A w \in Workers : pc[w] = "decide" => w \in EventWorkers
    /\ \A w \in EventWorkers : pc[w] # "idle" => news[w] \in Events
    /\ \A w \in Workers : Preparing(w) => decision[news[w]] # "NONE"
    /\ \A v, w \in Workers : Preparing(v) /\ Preparing(w) /\ news[v] = news[w] => v = w
    /\ \A s \in Steps : trigger[s] = "EVENT" =>
           /\ cause[s] \in Events
           /\ decision[cause[s]] # "NONE"
           /\ \A w \in Workers : Preparing(w) => news[w] # cause[s]

\* The worker still has to end what the committed decision began.
Serving(w) ==
    w \in EventWorkers /\ (Preparing(w) \/ pc[w] \in {"failing", "failing_experiment"})

\* A decision that is TRIGGERED has its step or its worker, until a crash.
ServedInv ==
    /\ \A w \in Workers : w \notin EventWorkers => news[w] = NoEvent
    /\ \A w \in EventWorkers : pc[w] \in InStep => cause[cur[w]] = news[w]
    /\ \A e \in Events :
           decision[e] = "TRIGGERED" /\ crashes = 0 =>
               \/ \E s \in Steps : cause[s] = e
               \/ \E w \in EventWorkers : Serving(w) /\ news[w] = e

IInv ==
    /\ TypeOK
    /\ LockInv
    /\ ReadyInv
    /\ OwnerInv
    /\ RowInv
    /\ PhaseInv
    /\ EventInv
    /\ ServedInv
    /\ OneRunningStep
    /\ SlotOnce
    /\ EventOnce
    /\ OrderNeedsRiskCheck
    /\ CompletedIsAudited

-----------------------------------------------------------------------------

USE DEF vars, stepVars, worldVars, inputVars, workVars, Goto, Return

(***************************************************************************)
(* Types                                                                   *)
(***************************************************************************)

\* A worker that is done, or refused, keeps its local variables typed.
LEMMA ReturnTypes ==
    ASSUME NEW w \in Workers, WorkTypeOK, Return(w)
    PROVE  WorkTypeOK'
  BY DEF WorkTypeOK, Locations, NoStep, NoSlot

LEMMA RefuseTypes ==
    ASSUME NEW w \in Workers, WorkTypeOK, Refuse(w)
    PROVE  WorkTypeOK'
  BY ReturnTypes DEF Refuse, WorkTypeOK, Locations

\* Every step keeps the types.
LEMMA TypeStep == IInv /\ [Next]_vars => TypeOK'
<1> SUFFICES ASSUME IInv, [Next]_vars PROVE TypeOK'
  OBVIOUS
<1> USE DEF IInv, TypeOK
<1>1. ASSUME NEW w \in Workers,
             \/ Request(w) \/ Tick(w) \/ \E e \in Events : SelectEvent(w, e)
             \/ InsertDecision(w) \/ ArtifactsFail(w) \/ RecordFails(w)
      PROVE  TypeOK'
  BY <1>1 DEF WorkTypeOK, StepsTypeOK, Locations, DecisionStatus, Slots, NoSlot, Request, Tick,
              SelectEvent, InsertDecision, ArtifactsFail, RecordFails
<1>2. ASSUME NEW w \in Workers,
             \/ DecisionConflict(w) \/ ReadStatus(w) \/ RefuseConfiguration(w)
             \/ AcquireLock(w) \/ CheckSteps(w) \/ OutOfSteps(w) \/ FailEventDecision(w)
      PROVE  TypeOK'
  <2>1. WorkTypeOK'
    BY <1>2, ReturnTypes, RefuseTypes DEF WorkTypeOK, Locations, DecisionConflict, ReadStatus,
        RefuseConfiguration, AcquireLock, CheckSteps, OutOfSteps, FailEventDecision
  <2>2. StepsTypeOK' /\ decision' \in [Events -> DecisionStatus] /\ lock' \in Workers \cup {NoWorker}
    BY <1>2 DEF StepsTypeOK, DecisionStatus, DecisionConflict, ReadStatus,
        RefuseConfiguration, AcquireLock, CheckSteps, OutOfSteps, FailEventDecision
  <2> QED
    BY <1>2, <2>1, <2>2 DEF DecisionConflict, ReadStatus, RefuseConfiguration, AcquireLock,
        CheckSteps, OutOfSteps, FailEventDecision
<1>3. ASSUME NEW w \in Workers, InsertStep(w) PROVE TypeOK'
  BY <1>3 DEF InsertStep, WorkTypeOK, StepsTypeOK, Locations, StepStatus, TriggerType, TriggerOf
<1>4. ASSUME NEW w \in Workers, HoldStep(w) \/ ApproveOrder(w) PROVE TypeOK'
  BY <1>4, ReturnTypes DEF HoldStep, ApproveOrder, MarkEventDecisionTriggered, WorkTypeOK,
      StepsTypeOK, Locations, StepStatus, RiskChecks, DecisionStatus
<1>5. ASSUME NEW w \in Workers, PlaceOrder(w) PROVE TypeOK'
  <2>1. WorkTypeOK'
    BY <1>5 DEF PlaceOrder, WorkTypeOK, Locations
  <2>2. StepsTypeOK'
    BY <1>5 DEF PlaceOrder, StepsTypeOK, OwnerInv, Owns, InStep
  <2> QED
    BY <1>5, <2>1, <2>2 DEF PlaceOrder
<1>6. ASSUME NEW w \in Workers, PlaceOrderRaises(w) PROVE TypeOK'
  BY <1>6 DEF PlaceOrderRaises, WorkTypeOK, StepsTypeOK, Locations
<1>7. ASSUME NEW w \in Workers, RecordOrder(w) PROVE TypeOK'
  <2>1. MapOrderStatus(reply[w]) \in OrderStatus
    BY <1>7 DEF RecordOrder, PhaseInv, BrokerStatus, MapOrderStatus, OrderStatus
  <2>2. WorkTypeOK'
    BY <1>7, ReturnTypes DEF RecordOrder
  <2>3. StepsTypeOK'
    BY <1>7, <2>1 DEF RecordOrder, StepsTypeOK, StepStatus
  <2> QED
    BY <1>7, <2>2, <2>3 DEF RecordOrder, ExperimentStatus
<1>8. ASSUME NEW w \in Workers, PersistFailure(w) PROVE TypeOK'
  BY <1>8, ReturnTypes DEF PersistFailure, StepsTypeOK, StepStatus, ExperimentStatus
<1>9. ASSUME NEW c \in Clients, CommitLifecycle(c) \/ \E a \in LifecycleActions : ReadLifecycle(c, a)
      PROVE  TypeOK'
  BY <1>9 DEF CommitLifecycle, ReadLifecycle, TargetStatuses, LifecycleActions, ExperimentStatus,
      WorkTypeOK, StepsTypeOK
<1>10. CASE AdvanceSlot
  BY <1>10, Bounds DEF AdvanceSlot, Slots, NoSlot, WorkTypeOK, StepsTypeOK
<1>11. CASE Crash
  BY <1>11, Bounds DEF Crash, WorkTypeOK, StepsTypeOK, Locations, NoStep, NoSlot
<1>12. CASE UNCHANGED vars
  BY <1>12 DEF WorkTypeOK, StepsTypeOK
<1> QED
  BY <1>1, <1>2, <1>3, <1>4, <1>5, <1>6, <1>7, <1>8, <1>9, <1>10, <1>11, <1>12 DEF Next, Proceed

-----------------------------------------------------------------------------
(***************************************************************************)
(* The lock and the check under it                                         *)
(***************************************************************************)

\* Nobody but the holder moves to, or leaves, the transaction under the lock.
LEMMA LockStep == IInv /\ [Next]_vars => LockInv'
<1> SUFFICES ASSUME IInv, [Next]_vars PROVE LockInv'
  OBVIOUS
<1> USE DEF IInv, TypeOK, WorkTypeOK, LockInv
<1>1. ASSUME NEW w \in Workers, AcquireLock(w) PROVE LockInv'
  <2>1. NoWorker \notin Workers
    BY DisjointWorkers DEF Workers
  <2> QED
    BY <1>1, <2>1 DEF AcquireLock, Refuse
<1>2. ASSUME NEW w \in Workers, CheckSteps(w) \/ OutOfSteps(w) PROVE LockInv'
  BY <1>2 DEF CheckSteps, OutOfSteps, Refuse
<1>3. ASSUME NEW w \in Workers, InsertStep(w) PROVE LockInv'
  BY <1>3 DEF InsertStep
<1>4. ASSUME NEW w \in Workers,
             \/ Request(w) \/ Tick(w) \/ \E e \in Events : SelectEvent(w, e)
             \/ InsertDecision(w) \/ DecisionConflict(w)
             \/ ReadStatus(w) \/ RefuseConfiguration(w)
             \/ HoldStep(w) \/ ApproveOrder(w) \/ ArtifactsFail(w)
             \/ PlaceOrder(w) \/ PlaceOrderRaises(w) \/ RecordOrder(w) \/ RecordFails(w)
             \/ PersistFailure(w) \/ FailEventDecision(w)
      PROVE  LockInv'
  BY <1>4 DEF Request, Tick, SelectEvent, InsertDecision, DecisionConflict, ReadStatus,
      RefuseConfiguration, HoldStep, ApproveOrder, ArtifactsFail, PlaceOrder,
      PlaceOrderRaises, RecordOrder, RecordFails, PersistFailure, FailEventDecision, Refuse
<1>5. CASE Crash
  BY <1>5 DEF Crash
<1>6. CASE AdvanceSlot \/ UNCHANGED vars
  BY <1>6 DEF AdvanceSlot
<1>7. ASSUME NEW c \in Clients, CommitLifecycle(c) \/ \E a \in LifecycleActions : ReadLifecycle(c, a)
      PROVE  LockInv'
  BY <1>7 DEF CommitLifecycle, ReadLifecycle
<1> QED
  BY <1>1, <1>2, <1>3, <1>4, <1>5, <1>6, <1>7 DEF Next, Proceed

\* Only InsertStep makes a step RUNNING or takes a slot, and it needs the lock.
LEMMA ReadyStep == IInv /\ [Next]_vars => ReadyInv'
<1> SUFFICES ASSUME IInv, [Next]_vars, NEW v \in Workers, pc'[v] = "insert"
             PROVE  ~AlreadyRunning(v)'
  BY DEF ReadyInv
<1> USE DEF IInv, TypeOK, WorkTypeOK, StepsTypeOK, ReadyInv, AlreadyRunning, HasRunningStep,
        HasStepForScheduledSlot
<1>1. ASSUME NEW w \in Workers, CheckSteps(w) PROVE ~AlreadyRunning(v)'
  BY <1>1 DEF CheckSteps, Refuse
<1>2. ASSUME NEW w \in Workers, InsertStep(w) PROVE ~AlreadyRunning(v)'
  BY <1>2 DEF InsertStep, LockInv
<1>3. ASSUME NEW w \in Workers,
             HoldStep(w) \/ RecordOrder(w) \/ PersistFailure(w)
      PROVE  ~AlreadyRunning(v)'
  BY <1>3 DEF HoldStep, RecordOrder, PersistFailure
<1>4. ASSUME NEW w \in Workers,
             \/ Request(w) \/ Tick(w) \/ \E e \in Events : SelectEvent(w, e)
             \/ InsertDecision(w) \/ DecisionConflict(w)
             \/ ReadStatus(w) \/ RefuseConfiguration(w) \/ AcquireLock(w) \/ OutOfSteps(w)
             \/ ApproveOrder(w) \/ ArtifactsFail(w)
             \/ PlaceOrder(w) \/ PlaceOrderRaises(w) \/ RecordFails(w)
             \/ FailEventDecision(w)
      PROVE  ~AlreadyRunning(v)'
  BY <1>4 DEF Request, Tick, SelectEvent, InsertDecision, DecisionConflict, ReadStatus,
      RefuseConfiguration, AcquireLock, OutOfSteps, ApproveOrder, ArtifactsFail, PlaceOrder,
      PlaceOrderRaises, RecordFails, FailEventDecision, Refuse
<1>5. CASE Crash
  BY <1>5 DEF Crash
<1>6. CASE AdvanceSlot \/ UNCHANGED vars
  BY <1>6 DEF AdvanceSlot
<1>7. ASSUME NEW c \in Clients, CommitLifecycle(c) \/ \E a \in LifecycleActions : ReadLifecycle(c, a)
      PROVE  ~AlreadyRunning(v)'
  BY <1>7 DEF CommitLifecycle, ReadLifecycle
<1> QED
  BY <1>1, <1>2, <1>3, <1>4, <1>5, <1>6, <1>7 DEF Next, Proceed

-----------------------------------------------------------------------------
(***************************************************************************)
(* Whose step it is, and what there is of it                               *)
(***************************************************************************)

\* A step comes into hands when it is inserted and leaves them when it is closed.
LEMMA OwnerStep == IInv /\ [Next]_vars => OwnerInv'
<1> SUFFICES ASSUME IInv, [Next]_vars PROVE OwnerInv'
  OBVIOUS
<1> USE DEF IInv, TypeOK, WorkTypeOK, StepsTypeOK, OwnerInv, Owns, InStep
<1>1. ASSUME NEW w \in Workers, InsertStep(w) PROVE OwnerInv'
  <2>1. PICK s \in Steps : /\ status' = [status EXCEPT ![s] = "RUNNING"]
                           /\ cur' = [cur EXCEPT ![w] = s]
    BY <1>1 DEF InsertStep
  <2>2. \A v \in Workers : ~Owns(v)
    BY <1>1 DEF InsertStep, ReadyInv, AlreadyRunning, HasRunningStep
  <2> QED
    BY <1>1, <2>1, <2>2 DEF InsertStep
<1>2. ASSUME NEW w \in Workers, HoldStep(w) \/ RecordOrder(w) \/ PersistFailure(w)
      PROVE  OwnerInv'
  <2>1. Owns(w) /\ ~Owns(w)'
    BY <1>2 DEF HoldStep, RecordOrder, PersistFailure
  <2>2. \A v \in Workers : ~Owns(v)'
    BY <1>2, <2>1 DEF HoldStep, RecordOrder, PersistFailure
  <2> QED
    BY <2>2
<1>3. ASSUME NEW w \in Workers,
             \/ ApproveOrder(w) \/ ArtifactsFail(w)
             \/ PlaceOrder(w) \/ PlaceOrderRaises(w) \/ RecordFails(w)
      PROVE  OwnerInv'
  BY <1>3 DEF ApproveOrder, ArtifactsFail, PlaceOrder, PlaceOrderRaises, RecordFails
<1>4. ASSUME NEW w \in Workers,
             \/ ReadStatus(w) \/ RefuseConfiguration(w) \/ AcquireLock(w) \/ CheckSteps(w)
             \/ OutOfSteps(w)
      PROVE  OwnerInv'
  BY <1>4 DEF ReadStatus, RefuseConfiguration, AcquireLock, CheckSteps, OutOfSteps, Refuse
<1>5. ASSUME NEW w \in Workers,
             \/ Request(w) \/ Tick(w) \/ \E e \in Events : SelectEvent(w, e)
             \/ InsertDecision(w) \/ DecisionConflict(w) \/ FailEventDecision(w)
      PROVE  OwnerInv'
  BY <1>5 DEF Request, Tick, SelectEvent, InsertDecision, DecisionConflict, FailEventDecision
<1>6. CASE Crash
  BY <1>6 DEF Crash
<1>7. CASE AdvanceSlot \/ UNCHANGED vars
  BY <1>7 DEF AdvanceSlot
<1>8. ASSUME NEW c \in Clients, CommitLifecycle(c) \/ \E a \in LifecycleActions : ReadLifecycle(c, a)
      PROVE  OwnerInv'
  BY <1>8 DEF CommitLifecycle, ReadLifecycle
<1> QED
  BY <1>1, <1>2, <1>3, <1>4, <1>5, <1>6, <1>7, <1>8 DEF Next, Proceed

\* The rows of a step are written only while a worker has it in hand.
LEMMA RowStep == IInv /\ [Next]_vars => RowInv'
<1> SUFFICES ASSUME IInv, [Next]_vars PROVE RowInv'
  OBVIOUS
<1> USE DEF IInv, TypeOK, WorkTypeOK, StepsTypeOK, RowInv
<1>1. ASSUME NEW w \in Workers, InsertStep(w) PROVE RowInv'
  BY <1>1 DEF InsertStep
<1>2. ASSUME NEW w \in Workers,
             \/ HoldStep(w) \/ ApproveOrder(w) \/ PlaceOrder(w) \/ PlaceOrderRaises(w)
             \/ RecordOrder(w) \/ PersistFailure(w)
      PROVE  RowInv'
  <2>1. cur[w] \in Steps /\ status[cur[w]] # "NONE"
    BY <1>2 DEF OwnerInv, Owns, InStep, HoldStep, ApproveOrder, PlaceOrder, PlaceOrderRaises,
        RecordOrder, PersistFailure
  <2> QED
    BY <1>2, <2>1 DEF HoldStep, ApproveOrder, PlaceOrder, PlaceOrderRaises, RecordOrder,
        PersistFailure
<1>3. ASSUME UNCHANGED <<stepVars, submissions>> PROVE RowInv'
  BY <1>3
<1> QED
  BY <1>1, <1>2, <1>3 DEF Next, Proceed, Request, Tick, SelectEvent, InsertDecision,
      DecisionConflict, ReadStatus, RefuseConfiguration, AcquireLock, CheckSteps, OutOfSteps,
      ArtifactsFail, RecordFails, FailEventDecision, CommitLifecycle, ReadLifecycle,
      AdvanceSlot, Crash

\* The run of a step: risk check, order at the broker, order row.
LEMMA PhaseStep == IInv /\ [Next]_vars => PhaseInv'
<1> SUFFICES ASSUME IInv, [Next]_vars PROVE PhaseInv'
  OBVIOUS
<1> USE DEF IInv, TypeOK, WorkTypeOK, StepsTypeOK, PhaseInv, InStep
<1>1. ASSUME NEW w \in Workers, InsertStep(w) PROVE PhaseInv'
  <2>1. \A v \in Workers : ~Owns(v)
    BY <1>1 DEF InsertStep, ReadyInv, AlreadyRunning, HasRunningStep, OwnerInv
  <2>2. PICK s \in Steps : IsNextSequenceNumber(s) /\ cur' = [cur EXCEPT ![w] = s]
    BY <1>1 DEF InsertStep
  <2>3. s >= s
    BY DEF Steps
  <2>4. status[s] = "NONE"
    BY <2>2, <2>3 DEF IsNextSequenceNumber
  <2> QED
    BY <1>1, <2>1, <2>2, <2>4 DEF InsertStep, Owns, RowInv
<1>2. ASSUME NEW w \in Workers,
             \/ HoldStep(w) \/ ApproveOrder(w) \/ ArtifactsFail(w)
             \/ PlaceOrder(w) \/ PlaceOrderRaises(w) \/ RecordOrder(w) \/ RecordFails(w)
      PROVE  PhaseInv'
  <2>1. Owns(w) /\ cur[w] \in Steps /\ \A v \in Workers : Owns(v) => v = w
    BY <1>2 DEF OwnerInv, Owns, HoldStep, ApproveOrder, ArtifactsFail, PlaceOrder,
        PlaceOrderRaises, RecordOrder, RecordFails
  <2> QED
    BY <1>2, <2>1 DEF Owns, HoldStep, ApproveOrder, ArtifactsFail, PlaceOrder,
        PlaceOrderRaises, RecordOrder, RecordFails
<1>3. ASSUME NEW w \in Workers,
             \/ ReadStatus(w) \/ RefuseConfiguration(w) \/ AcquireLock(w) \/ CheckSteps(w)
             \/ OutOfSteps(w) \/ PersistFailure(w) \/ FailEventDecision(w)
      PROVE  PhaseInv'
  BY <1>3 DEF ReadStatus, RefuseConfiguration, AcquireLock, CheckSteps, OutOfSteps,
      PersistFailure, FailEventDecision, Refuse
<1>4. ASSUME NEW w \in Workers,
             \/ Request(w) \/ Tick(w) \/ \E e \in Events : SelectEvent(w, e)
             \/ InsertDecision(w) \/ DecisionConflict(w)
      PROVE  PhaseInv'
  BY <1>4 DEF Request, Tick, SelectEvent, InsertDecision, DecisionConflict
<1>5. CASE Crash
  BY <1>5 DEF Crash
<1>6. CASE AdvanceSlot \/ UNCHANGED vars
  BY <1>6 DEF AdvanceSlot
<1>7. ASSUME NEW c \in Clients, CommitLifecycle(c) \/ \E a \in LifecycleActions : ReadLifecycle(c, a)
      PROVE  PhaseInv'
  BY <1>7 DEF CommitLifecycle, ReadLifecycle
<1> QED
  BY <1>1, <1>2, <1>3, <1>4, <1>5, <1>6, <1>7 DEF Next, Proceed

-----------------------------------------------------------------------------
(***************************************************************************)
(* Events, and the safety properties                                       *)
(***************************************************************************)

\* A step of the system that starts no preparation and removes no decision row.
EventsKept ==
    /\ UNCHANGED <<trigger, cause>>
    /\ \A w \in Workers : pc'[w] = "decide" => w \in EventWorkers
    /\ \A w \in EventWorkers : pc'[w] # "idle" => news'[w] \in Events
    /\ \A w \in Workers : Preparing(w)' => Preparing(w) /\ news'[w] = news[w]
    /\ \A e \in Events : decision[e] # "NONE" => decision'[e] # "NONE"

LEMMA KeptEvents == IInv /\ EventsKept => EventInv'
<1> SUFFICES ASSUME IInv, EventsKept PROVE EventInv'
  OBVIOUS
<1>1. \A w \in EventWorkers : w \in Workers
  BY DEF Workers
<1> QED
  BY <1>1 DEF IInv, EventInv, EventsKept, Preparing

\* A decision row never goes away, and its worker is the only one to use it.
LEMMA EventStep == IInv /\ [Next]_vars => EventInv'
<1> SUFFICES ASSUME IInv, [Next]_vars PROVE EventInv'
  OBVIOUS
<1> USE DEF IInv, TypeOK, WorkTypeOK, StepsTypeOK, EventInv, Preparing
<1>1. ASSUME NEW w \in Workers, InsertStep(w) PROVE EventInv'
  <2>1. TriggerOf(w) = "EVENT" <=> w \in EventWorkers
    BY DisjointWorkers DEF TriggerOf, Workers
  <2>2. PICK s \in Steps : /\ trigger' = [trigger EXCEPT ![s] = TriggerOf(w)]
                           /\ cause' = [cause EXCEPT ![s] = news[w]]
    BY <1>1 DEF InsertStep
  <2>3. pc' = [pc EXCEPT ![w] = "artifacts"] /\ pc[w] = "insert" /\ UNCHANGED <<news, decision>>
    BY <1>1 DEF InsertStep
  <2>4. \A v \in Workers : Preparing(v)' => Preparing(v) /\ v # w
    BY <2>3
  <2>5. ASSUME NEW t \in Steps, trigger'[t] = "EVENT"
        PROVE  /\ cause'[t] \in Events
               /\ decision[cause'[t]] # "NONE"
               /\ \A v \in Workers : Preparing(v)' => news[v] # cause'[t]
    <3>1. CASE t = s
      BY <3>1, <2>1, <2>2, <2>3, <2>4, <2>5
    <3>2. CASE t # s
      BY <3>2, <2>2, <2>4, <2>5
    <3> QED
      BY <3>1, <3>2
  <2> QED
    BY <2>3, <2>4, <2>5
<1>2. ASSUME NEW w \in Workers, InsertDecision(w) PROVE EventInv'
  BY <1>2 DEF InsertDecision, DecisionStatus
<1>3. ASSUME NEW w \in Workers, HoldStep(w) \/ ApproveOrder(w) \/ FailEventDecision(w)
      PROVE  EventsKept
  BY <1>3 DEF EventsKept, HoldStep, ApproveOrder, FailEventDecision, MarkEventDecisionTriggered,
      Workers
<1>4. ASSUME NEW w \in Workers,
             \/ DecisionConflict(w) \/ ReadStatus(w) \/ RefuseConfiguration(w)
             \/ AcquireLock(w) \/ CheckSteps(w) \/ OutOfSteps(w)
      PROVE  EventsKept
  BY <1>4 DEF EventsKept, DecisionConflict, ReadStatus, RefuseConfiguration, AcquireLock,
      CheckSteps, OutOfSteps, Refuse, Workers
<1>5. ASSUME NEW w \in Workers,
             \/ ArtifactsFail(w) \/ PlaceOrder(w) \/ PlaceOrderRaises(w)
             \/ RecordOrder(w) \/ RecordFails(w) \/ PersistFailure(w)
      PROVE  EventsKept
  BY <1>5 DEF EventsKept, ArtifactsFail, PlaceOrder, PlaceOrderRaises, RecordOrder,
      RecordFails, PersistFailure, Workers
<1>6. ASSUME NEW w \in Workers,
             Request(w) \/ Tick(w) \/ \E e \in Events : SelectEvent(w, e)
      PROVE  EventsKept
  <2>1. w \notin EventWorkers \/ pc'[w] = "decide"
    BY <1>6, DisjointWorkers DEF Request, Tick, SelectEvent
  <2> QED
    BY <1>6, <2>1 DEF EventsKept, Request, Tick, SelectEvent, Workers
<1>7. CASE Crash
  BY <1>7 DEF EventsKept, Crash, Workers
<1>8. CASE AdvanceSlot \/ UNCHANGED vars
  BY <1>8 DEF EventsKept, AdvanceSlot
<1>9. ASSUME NEW c \in Clients, CommitLifecycle(c) \/ \E a \in LifecycleActions : ReadLifecycle(c, a)
      PROVE  EventsKept
  BY <1>9 DEF EventsKept, CommitLifecycle, ReadLifecycle
<1> QED
  BY <1>1, <1>2, <1>3, <1>4, <1>5, <1>6, <1>7, <1>8, <1>9, KeptEvents DEF Next, Proceed

\* The decision passes from the worker to the step, or is failed.
LEMMA ServedStep == IInv /\ [Next]_vars => ServedInv'
<1> SUFFICES ASSUME IInv, [Next]_vars PROVE ServedInv'
  OBVIOUS
<1> USE DEF IInv, TypeOK, WorkTypeOK, StepsTypeOK, ServedInv, Serving, Preparing
<1>0. EventWorkers \subseteq Workers /\ NoEvent \notin Events
  BY DisjointWorkers DEF Workers
<1>1. ASSUME NEW w \in Workers, InsertStep(w) PROVE ServedInv'
  <2>1. PICK s \in Steps : /\ IsNextSequenceNumber(s)
                           /\ cause' = [cause EXCEPT ![s] = news[w]]
                           /\ cur' = [cur EXCEPT ![w] = s]
    BY <1>1 DEF InsertStep
  <2>2. s >= s
    BY DEF Steps
  <2>3. status[s] = "NONE" /\ cause[s] = NoEvent
    BY <2>1, <2>2 DEF IsNextSequenceNumber, RowInv
  <2>4. \A v \in EventWorkers : pc[v] \in InStep => cur[v] # s
    BY <1>0, <2>3 DEF OwnerInv, Owns
  <2>5. pc[w] = "insert" /\ pc' = [pc EXCEPT ![w] = "artifacts"] /\ UNCHANGED <<news, decision, crashes>>
    BY <1>1 DEF InsertStep
  <2>6. \A v \in EventWorkers : pc'[v] \in InStep => cause'[cur'[v]] = news'[v]
    BY <1>0, <2>1, <2>4, <2>5 DEF InStep, OwnerInv, Owns
  <2>7. ASSUME NEW e \in Events, decision'[e] = "TRIGGERED", crashes' = 0
        PROVE  \/ \E t \in Steps : cause'[t] = e
               \/ \E v \in EventWorkers : Serving(v)' /\ news'[v] = e
    <3>1. CASE \E t \in Steps : cause[t] = e
      BY <1>0, <2>1, <2>3, <3>1
    <3>2. CASE \E v \in EventWorkers : Serving(v) /\ news[v] = e
      BY <1>0, <2>1, <2>5, <3>2
    <3> QED
      BY <2>5, <2>7, <3>1, <3>2
  <2> QED
    BY <2>5, <2>6, <2>7
<1>2. ASSUME NEW w \in Workers, HoldStep(w) \/ ApproveOrder(w) PROVE ServedInv'
  <2>1. cur[w] \in Steps
    BY <1>2 DEF OwnerInv, Owns, InStep, HoldStep, ApproveOrder
  <2> QED
    BY <1>0, <1>2, <2>1 DEF HoldStep, ApproveOrder, MarkEventDecisionTriggered, InStep
<1>3. ASSUME NEW w \in Workers, InsertDecision(w) \/ FailEventDecision(w) PROVE ServedInv'
  BY <1>0, <1>3 DEF InsertDecision, FailEventDecision, InStep, EventInv
<1>4. ASSUME NEW w \in Workers,
             \/ DecisionConflict(w) \/ ReadStatus(w) \/ RefuseConfiguration(w)
             \/ AcquireLock(w) \/ CheckSteps(w) \/ OutOfSteps(w)
      PROVE  ServedInv'
  BY <1>0, <1>4 DEF DecisionConflict, ReadStatus, RefuseConfiguration, AcquireLock,
      CheckSteps, OutOfSteps, Refuse, InStep
<1>5. ASSUME NEW w \in Workers,
             \/ ArtifactsFail(w) \/ PlaceOrder(w) \/ PlaceOrderRaises(w)
             \/ RecordOrder(w) \/ RecordFails(w) \/ PersistFailure(w)
      PROVE  ServedInv'
  BY <1>0, <1>5 DEF ArtifactsFail, PlaceOrder, PlaceOrderRaises, RecordOrder, RecordFails,
      PersistFailure, InStep
<1>6. ASSUME NEW w \in Workers,
             Request(w) \/ Tick(w) \/ \E e \in Events : SelectEvent(w, e)
      PROVE  ServedInv'
  BY <1>0, <1>6 DEF Request, Tick, SelectEvent, InStep
<1>7. CASE Crash
  BY <1>0, <1>7, Bounds DEF Crash, InStep
<1>8. CASE AdvanceSlot \/ UNCHANGED vars
  BY <1>8 DEF AdvanceSlot, InStep
<1>9. ASSUME NEW c \in Clients, CommitLifecycle(c) \/ \E a \in LifecycleActions : ReadLifecycle(c, a)
      PROVE  ServedInv'
  BY <1>9 DEF CommitLifecycle, ReadLifecycle, InStep
<1> QED
  BY <1>1, <1>2, <1>3, <1>4, <1>5, <1>6, <1>7, <1>8, <1>9 DEF Next, Proceed

\* Only InsertStep adds a running step, a slot or the step of an event.
LEMMA UniqueStep == IInv /\ [Next]_vars => OneRunningStep' /\ SlotOnce' /\ EventOnce'
<1> SUFFICES ASSUME IInv, [Next]_vars
             PROVE  OneRunningStep' /\ SlotOnce' /\ EventOnce'
  OBVIOUS
<1> USE DEF IInv, TypeOK, WorkTypeOK, StepsTypeOK, OneRunningStep, SlotOnce, EventOnce
<1>1. ASSUME NEW w \in Workers, InsertStep(w)
      PROVE  OneRunningStep' /\ SlotOnce' /\ EventOnce'
  <2>1. PICK s \in Steps : /\ status' = [status EXCEPT ![s] = "RUNNING"]
                           /\ trigger' = [trigger EXCEPT ![s] = TriggerOf(w)]
                           /\ scheduledFor' = [scheduledFor EXCEPT ![s] = due[w]]
                           /\ cause' = [cause EXCEPT ![s] = news[w]]
    BY <1>1 DEF InsertStep
  <2>2. ~AlreadyRunning(w)
    BY <1>1 DEF InsertStep, ReadyInv
  <2>3. OneRunningStep'
    BY <2>1, <2>2 DEF AlreadyRunning, HasRunningStep
  <2>4. SlotOnce'
    <3>1. TriggerOf(w) = "SCHEDULED" => w \in ScheduledWorkers
      BY DEF TriggerOf
    <3> QED
      BY <2>1, <2>2, <3>1 DEF AlreadyRunning, HasStepForScheduledSlot
  <2>5. EventOnce'
    <3>1. TriggerOf(w) = "EVENT" => w \in EventWorkers
      BY DEF TriggerOf, Workers
    <3> QED
      BY <1>1, <2>1, <3>1 DEF InsertStep, EventInv, Preparing
  <2> QED
    BY <2>3, <2>4, <2>5
<1>2. ASSUME NEW w \in Workers, HoldStep(w) \/ RecordOrder(w) \/ PersistFailure(w)
      PROVE  OneRunningStep' /\ SlotOnce' /\ EventOnce'
  BY <1>2 DEF HoldStep, RecordOrder, PersistFailure
<1>3. ASSUME UNCHANGED <<status, trigger, scheduledFor, cause>>
      PROVE  OneRunningStep' /\ SlotOnce' /\ EventOnce'
  BY <1>3
<1> QED
  BY <1>1, <1>2, <1>3 DEF Next, Proceed, Request, Tick, SelectEvent, InsertDecision,
      DecisionConflict, ReadStatus, RefuseConfiguration, AcquireLock, CheckSteps, OutOfSteps,
      ApproveOrder, ArtifactsFail, PlaceOrder, PlaceOrderRaises, RecordFails,
      FailEventDecision, CommitLifecycle, ReadLifecycle, AdvanceSlot, Crash

\* Risk check, then one order, then the order row, then the outcome.
LEMMA AuditStep == IInv /\ [Next]_vars => OrderNeedsRiskCheck' /\ CompletedIsAudited'
<1> SUFFICES ASSUME IInv, [Next]_vars
             PROVE  OrderNeedsRiskCheck' /\ CompletedIsAudited'
  OBVIOUS
<1> USE DEF IInv, TypeOK, WorkTypeOK, StepsTypeOK, OrderNeedsRiskCheck, CompletedIsAudited
<1>1. ASSUME NEW w \in Workers,
             \/ HoldStep(w) \/ ApproveOrder(w) \/ PlaceOrder(w) \/ PlaceOrderRaises(w)
             \/ RecordOrder(w) \/ PersistFailure(w)
      PROVE  OrderNeedsRiskCheck' /\ CompletedIsAudited'
  <2>1. cur[w] \in Steps /\ status[cur[w]] = "RUNNING"
    BY <1>1 DEF OwnerInv, Owns, InStep, HoldStep, ApproveOrder, PlaceOrder, PlaceOrderRaises,
        RecordOrder, PersistFailure
  <2>2. CASE HoldStep(w) \/ ApproveOrder(w)
    BY <2>1, <2>2 DEF HoldStep, ApproveOrder, PhaseInv, InStep
  <2>3. CASE PlaceOrder(w) \/ PlaceOrderRaises(w)
    BY <2>1, <2>3 DEF PlaceOrder, PlaceOrderRaises, PhaseInv, InStep
  <2>4. CASE RecordOrder(w)
    BY <2>1, <2>4 DEF RecordOrder, PhaseInv, InStep, MapOrderStatus, ControlledOrderFailure,
        BrokerStatus
  <2>5. CASE PersistFailure(w)
    BY <2>1, <2>5 DEF PersistFailure
  <2> QED
    BY <1>1, <2>2, <2>3, <2>4, <2>5
<1>2. ASSUME NEW w \in Workers, InsertStep(w)
      PROVE  OrderNeedsRiskCheck' /\ CompletedIsAudited'
  BY <1>2 DEF InsertStep
<1>3. ASSUME UNCHANGED <<stepVars, submissions>>
      PROVE  OrderNeedsRiskCheck' /\ CompletedIsAudited'
  BY <1>3
<1> QED
  BY <1>1, <1>2, <1>3 DEF Next, Proceed, Request, Tick, SelectEvent, InsertDecision,
      DecisionConflict, ReadStatus, RefuseConfiguration, AcquireLock, CheckSteps, OutOfSteps,
      ArtifactsFail, RecordFails, FailEventDecision, CommitLifecycle, ReadLifecycle,
      AdvanceSlot, Crash

-----------------------------------------------------------------------------
(***************************************************************************)
(* Theorems                                                                *)
(***************************************************************************)

LEMMA InitInv == Init => IInv
<1> SUFFICES ASSUME Init PROVE IInv
  OBVIOUS
<1> USE DEF Init, IInv
<1>1. TypeOK
  BY Bounds DEF TypeOK, StepsTypeOK, WorkTypeOK, ExperimentStatus, StepStatus, TriggerType,
      RiskChecks, OrderStatus, DecisionStatus, Locations, NoStep, NoSlot
<1>2. LockInv /\ ReadyInv /\ OwnerInv /\ RowInv /\ PhaseInv
  BY DEF LockInv, ReadyInv, OwnerInv, Owns, RowInv, PhaseInv, InStep
<1>3. EventInv /\ ServedInv
  BY DEF EventInv, ServedInv, Serving, Preparing, InStep, Workers
<1>4. OneRunningStep /\ SlotOnce /\ EventOnce /\ OrderNeedsRiskCheck /\ CompletedIsAudited
  BY DEF OneRunningStep, SlotOnce, EventOnce, OrderNeedsRiskCheck, CompletedIsAudited
<1> QED
  BY <1>1, <1>2, <1>3, <1>4

LEMMA NextInv == IInv /\ [Next]_vars => IInv'
  BY TypeStep, LockStep, ReadyStep, OwnerStep, RowStep, PhaseStep, EventStep, ServedStep,
     UniqueStep, AuditStep DEF IInv

\* The inductive invariant holds in every reachable state.
THEOREM Inductive == Spec => []IInv
  BY InitInv, NextInv, PTL DEF Spec

\* Every variable keeps its type.
THEOREM TypeCorrect == Spec => []TypeOK
<1>1. IInv => TypeOK
  BY DEF IInv
<1> QED
  BY <1>1, Inductive, PTL

\* BR-013: whatever threads ask for steps, and whenever the backend crashes, an
\* experiment has one running step at most.
THEOREM NoConcurrentSteps == Spec => []OneRunningStep
<1>1. IInv => OneRunningStep
  BY DEF IInv
<1> QED
  BY <1>1, Inductive, PTL

\* A scheduled slot never gets a second step.
THEOREM SlotsRunOnce == Spec => []SlotOnce
<1>1. IInv => SlotOnce
  BY DEF IInv
<1> QED
  BY <1>1, Inductive, PTL

\* BR-027C: an event never gets a second step.
THEOREM EventsRunOnce == Spec => []EventOnce
<1>1. IInv => EventOnce
  BY DEF IInv
<1> QED
  BY <1>1, Inductive, PTL

\* BR-039: one order at most for a step, and only after its risk check.
THEOREM OrdersAreChecked == Spec => []OrderNeedsRiskCheck
<1>1. IInv => OrderNeedsRiskCheck
  BY DEF IInv
<1> QED
  BY <1>1, Inductive, PTL

\* BR-014: a completed step has the artifacts its risk check calls for.
THEOREM CompletedStepsAreAudited == Spec => []CompletedIsAudited
<1>1. IInv => CompletedIsAudited
  BY DEF IInv
<1> QED
  BY <1>1, Inductive, PTL

\* Without a crash no event decision is left TRIGGERED and forgotten.
THEOREM DecisionsAreServed == Spec => []TriggeredIsServed
<1>1. IInv => TriggeredIsServed
  BY DEF IInv, ServedInv, Serving, TriggeredIsServed
<1> QED
  BY <1>1, Inductive, PTL

\* Only the commit that fails a running step fails the experiment.
THEOREM FailuresHaveSteps == Spec => FailureHasStep
<1> DEFINE A == expStatus # "FAILED" /\ expStatus' = "FAILED" =>
                    \E s \in Steps : status[s] = "RUNNING" /\ status'[s] = "FAILED"
<1>1. IInv /\ [Next]_vars => [A]_vars
  <2> SUFFICES ASSUME IInv, [Next]_vars, expStatus # "FAILED", expStatus' = "FAILED"
               PROVE  \E s \in Steps : status[s] = "RUNNING" /\ status'[s] = "FAILED"
    BY DEF A
  <2>1. ASSUME NEW w \in Workers, RecordOrder(w) \/ PersistFailure(w)
        PROVE  \E s \in Steps : status[s] = "RUNNING" /\ status'[s] = "FAILED"
    <3>1. cur[w] \in Steps /\ status[cur[w]] = "RUNNING"
      BY <2>1 DEF IInv, OwnerInv, Owns, InStep, RecordOrder, PersistFailure
    <3>2. status' = [status EXCEPT ![cur[w]] = "FAILED"]
      BY <2>1 DEF RecordOrder, PersistFailure
    <3> QED
      BY <3>1, <3>2 DEF IInv, TypeOK, StepsTypeOK
  <2>2. ASSUME NEW c \in Clients, CommitLifecycle(c) PROVE FALSE
    BY <2>2 DEF CommitLifecycle, TargetStatuses, IInv, TypeOK, LifecycleActions
  <2>3. ASSUME UNCHANGED expStatus PROVE FALSE
    BY <2>3
  <2> QED
    BY <2>1, <2>2, <2>3 DEF Next, Proceed, Request, Tick, SelectEvent, InsertDecision,
        DecisionConflict, ReadStatus, RefuseConfiguration, AcquireLock, CheckSteps, InsertStep,
        OutOfSteps, HoldStep, ApproveOrder, ArtifactsFail, PlaceOrder, PlaceOrderRaises,
        RecordFails, FailEventDecision, ReadLifecycle, AdvanceSlot, Crash
<1> QED
  BY <1>1, Inductive, PTL DEF Spec, FailureHasStep

\* The steps of the experiment implement the audit ledger.
THEOREM ImplementsLedger == Spec => LedgerSpec
<1>1. Init => Ledger!Init
  BY DEF Init, Ledger!Init, Steps, Ledger!Numbers
<1>2. IInv /\ [Next]_vars => [Ledger!Next]_status
  <2> SUFFICES ASSUME IInv, [Next]_vars PROVE Ledger!Next \/ UNCHANGED status
    OBVIOUS
  <2> USE DEF Steps, Ledger!Numbers
  <2>1. ASSUME NEW w \in Workers, InsertStep(w) PROVE Ledger!Next
    <3>1. PICK s \in Steps : /\ IsNextSequenceNumber(s)
                             /\ status' = [status EXCEPT ![s] = "RUNNING"]
      BY <2>1 DEF InsertStep
    <3>2. ~HasRunningStep
      BY <2>1 DEF InsertStep, IInv, ReadyInv, AlreadyRunning
    <3>3. Ledger!Open(s)
      BY <3>1, <3>2 DEF Ledger!Open, IsNextSequenceNumber, HasRunningStep
    <3> QED
      BY <3>3 DEF Ledger!Next
  <2>2. ASSUME NEW w \in Workers, HoldStep(w) \/ RecordOrder(w) \/ PersistFailure(w)
        PROVE  Ledger!Next
    <3>1. cur[w] \in Steps /\ status[cur[w]] = "RUNNING"
      BY <2>2 DEF IInv, OwnerInv, Owns, InStep, HoldStep, RecordOrder, PersistFailure
    <3>2. Ledger!Close(cur[w])
      BY <2>2, <3>1 DEF Ledger!Close, HoldStep, RecordOrder, PersistFailure
    <3> QED
      BY <3>1, <3>2 DEF Ledger!Next
  <2>3. ASSUME UNCHANGED status PROVE Ledger!Next \/ UNCHANGED status
    BY <2>3
  <2> QED
    BY <2>1, <2>2, <2>3 DEF Next, Proceed, Request, Tick, SelectEvent, InsertDecision,
        DecisionConflict, ReadStatus, RefuseConfiguration, AcquireLock, CheckSteps,
        OutOfSteps, ApproveOrder, ArtifactsFail, PlaceOrder, PlaceOrderRaises,
        RecordFails, FailEventDecision, CommitLifecycle, ReadLifecycle, AdvanceSlot, Crash
<1> QED
  BY <1>1, <1>2, Inductive, PTL DEF Spec, LedgerSpec, Ledger!Spec

=============================================================================
