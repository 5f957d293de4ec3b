------------------------------ MODULE PaperSteps ------------------------------
(***************************************************************************)
(* The execution steps of one paper-trading experiment: every thread that  *)
(* may create a step, the transactions a step is made of, the orders it    *)
(* sends to the broker, the event decisions of the news scanner, the       *)
(* lifecycle requests of the user, and crashes of the backend.             *)
(*                                                                         *)
(* One action is one database transaction (READ COMMITTED, so a later one  *)
(* may act on what an earlier one read), or one broker call.               *)
(*                                                                         *)
(* PaperTradingStepRunner   modules/execution/paper_step_runner.py         *)
(* EventScannerService      modules/events/service.py                      *)
(* ExperimentService        modules/experiments/service.py                 *)
(* scheduler jobs           modules/scheduler/jobs.py                      *)
(***************************************************************************)
EXTENDS Naturals, StatusMachine

CONSTANTS
    ManualWorkers,      \* request threads of POST /experiments/{id}/run-next-step
    ScheduledWorkers,   \* runs of the paper-trading scheduler job
    EventWorkers,       \* runs of the event scanner job, one per backend process
    NoWorker,           \* nobody holds the advisory lock
    Clients,            \* request threads of the lifecycle routes
    Events,             \* relevant news events
    NoEvent,
    MaxSteps,           \* bound on the steps of the experiment
    MaxSlot,            \* bound on the scheduled slots that come due
    MaxCrashes          \* bound on the crashes of the backend

ASSUME DisjointWorkers ==
    /\ ManualWorkers \cap ScheduledWorkers = {}
    /\ ManualWorkers \cap EventWorkers = {}
    /\ ScheduledWorkers \cap EventWorkers = {}
    /\ NoWorker \notin ManualWorkers \cup ScheduledWorkers \cup EventWorkers
    /\ NoEvent \notin Events

ASSUME Bounds == MaxSteps \in Nat /\ MaxSlot \in Nat /\ MaxCrashes \in Nat

Workers == ManualWorkers \cup ScheduledWorkers \cup EventWorkers
Steps == 1..MaxSteps            \* sequence numbers
NoStep == 0
Slots == 1..MaxSlot
NoSlot == 0

StepStatus == {"NONE", "RUNNING", "COMPLETED", "FAILED"}
TriggerType == {"NONE", "MANUAL", "SCHEDULED", "EVENT"}
RiskChecks == {"NONE", "HOLD", "EXEC"}
OrderStatus == {"NONE", "SUBMITTED", "FILLED", "REJECTED", "CANCELLED", "FAILED"}
BrokerStatus == {"open", "filled", "rejected", "canceled", "unknown"}
DecisionStatus == {"NONE", "TRIGGERED", "FAILED"}

\* Where a worker is: before a transaction, or between two of them.
Locations ==
    {"idle", "decide", "validate", "lock", "check", "insert", "artifacts",
     "broker", "record", "failing", "failing_experiment"}

InStep == {"artifacts", "broker", "record"}

VARIABLES
    expStatus,      \* experiments.status
    status,         \* execution_steps.status, "NONE" for no row
    trigger,        \* execution_steps.trigger_type
    scheduledFor,   \* execution_steps.scheduled_for of a SCHEDULED step
    riskCheck,      \* risk_checks.final_action: HOLD, or EXEC for BUY and SELL
    order,          \* orders.status, "NONE" for no row
    decision,       \* event_decisions.status, "NONE" for no row
    lock,           \* who holds pg_try_advisory_xact_lock(experiment_id)
    slot,           \* the latest slot that is due
    submissions,    \* orders the broker accepted for the step
    cause,          \* the event a step was created for (history variable)
    crashes,        \* crashes so far
    pending,        \* per client: the validated action not yet committed
    pc,             \* per worker: where it is
    cur,            \* per worker: execution_step_id
    due,            \* per worker: scheduled_for
    news,           \* per worker: event_id
    reply,          \* per worker: status in the broker's answer
    loaded          \* per worker: experiment.status _run_broker_execution loaded

stepVars == <<status, trigger, scheduledFor, riskCheck, order, cause>>
worldVars == <<slot, crashes>>
inputVars == <<due, news>>
workVars == <<cur, due, news, reply, loaded>>
vars == <<expStatus, stepVars, decision, lock, worldVars, submissions, pending, pc, workVars>>

-----------------------------------------------------------------------------
(***************************************************************************)
(* Types and initial state                                                 *)
(***************************************************************************)

StepsTypeOK ==
    /\ status \in [Steps -> StepStatus]
    /\ trigger \in [Steps -> TriggerType]
    /\ scheduledFor \in [Steps -> Slots \cup {NoSlot}]
    /\ riskCheck \in [Steps -> RiskChecks]
    /\ order \in [Steps -> OrderStatus]
    /\ submissions \in [Steps -> Nat]
    /\ cause \in [Steps -> Events \cup {NoEvent}]

WorkTypeOK ==
    /\ pc \in [Workers -> Locations]
    /\ cur \in [Workers -> Steps \cup {NoStep}]
    /\ due \in [Workers -> Slots \cup {NoSlot}]
    /\ news \in [Workers -> Events \cup {NoEvent}]
    /\ reply \in [Workers -> BrokerStatus \cup {"none"}]
    /\ loaded \in [Workers -> ExperimentStatus \cup {"none"}]

TypeOK ==
    /\ StepsTypeOK
    /\ WorkTypeOK
    /\ expStatus \in ExperimentStatus
    /\ pending \in [Clients -> LifecycleActions \cup {"none"}]
    /\ decision \in [Events -> DecisionStatus]
    /\ lock \in Workers \cup {NoWorker}
    /\ slot \in Slots \cup {NoSlot}
    /\ crashes \in 0..MaxCrashes

\* The experiment has just been created: create_experiment commits it CREATED.
Init ==
    /\ expStatus = "CREATED"
    /\ status = [s \in Steps |-> "NONE"]
    /\ trigger = [s \in Steps |-> "NONE"]
    /\ scheduledFor = [s \in Steps |-> NoSlot]
    /\ riskCheck = [s \in Steps |-> "NONE"]
    /\ order = [s \in Steps |-> "NONE"]
    /\ submissions = [s \in Steps |-> 0]
    /\ cause = [s \in Steps |-> NoEvent]
    /\ decision = [e \in Events |-> "NONE"]
    /\ lock = NoWorker
    /\ slot = NoSlot
    /\ crashes = 0
    /\ pending = [c \in Clients |-> "none"]
    /\ pc = [w \in Workers |-> "idle"]
    /\ cur = [w \in Workers |-> NoStep]
    /\ due = [w \in Workers |-> NoSlot]
    /\ news = [w \in Workers |-> NoEvent]
    /\ reply = [w \in Workers |-> "none"]
    /\ loaded = [w \in Workers |-> "none"]

-----------------------------------------------------------------------------
(***************************************************************************)
(* Helpers                                                                 *)
(***************************************************************************)

Goto(w, l) == pc' = [pc EXCEPT ![w] = l]

\* The thread is done and forgets its local variables.
Return(w) ==
    /\ pc' = [pc EXCEPT ![w] = "idle"]
    /\ cur' = [cur EXCEPT ![w] = NoStep]
    /\ due' = [due EXCEPT ![w] = NoSlot]
    /\ news' = [news EXCEPT ![w] = NoEvent]
    /\ reply' = [reply EXCEPT ![w] = "none"]
    /\ loaded' = [loaded EXCEPT ![w] = "none"]

\* A refusal: run_next_step re-raises it and the route or the scheduler job
\* carries on; _trigger_once catches it and fails the decision.
Refuse(w) ==
    \/ w \notin EventWorkers /\ Return(w)
    \/ w \in EventWorkers /\ Goto(w, "failing") /\ UNCHANGED workVars

HasRunningStep == \E s \in Steps : status[s] = "RUNNING"

HasStepForScheduledSlot(t) ==
    \E s \in Steps : trigger[s] = "SCHEDULED" /\ scheduledFor[s] = t

\* Mutant of IsNextSequenceNumber: any number that is free will do.
IsFreeSequenceNumber(s) == status[s] = "NONE"

\* s is max_sequence_number + 1.
IsNextSequenceNumber(s) == \A t \in Steps : status[t] = "NONE" <=> t >= s

TriggerOf(w) ==
    IF w \in ManualWorkers THEN "MANUAL"
    ELSE IF w \in ScheduledWorkers THEN "SCHEDULED" ELSE "EVENT"

\* Mutant of MapOrderStatus: the broker's word is stored as it is.
StoreBrokerStatus(s) == s

\* orders.status for the broker's answer; "open" is accepted, new, pending_new
\* or partially_filled.
MapOrderStatus(s) ==
    [open |-> "SUBMITTED", filled |-> "FILLED", rejected |-> "REJECTED",
     canceled |-> "CANCELLED", unknown |-> "FAILED"][s]

\* Mutant of ControlledOrderFailure: a rejection is an outcome like any other.
OnlyUnknownStatusFails(s) == s = "unknown"

\* _controlled_order_failure is not None.
ControlledOrderFailure(s) == s \in {"rejected", "unknown"}

-----------------------------------------------------------------------------
(***************************************************************************)
(* How a step is asked for                                                 *)
(***************************************************************************)

\* POST run-next-step.
Request(w) ==
    /\ w \in ManualWorkers
    /\ pc[w] = "idle"
    /\ Goto(w, "validate")
    /\ UNCHANGED <<expStatus, stepVars, decision, lock, worldVars, submissions,
                   pending, workVars>>

\* trigger_due_paper_trading_experiments computes the due slot and lists the
\* RUNNING experiments; this experiment's turn comes later.
Tick(w) ==
    /\ w \in ScheduledWorkers
    /\ pc[w] = "idle"
    /\ slot # NoSlot
    /\ expStatus = "RUNNING"
    /\ due' = [due EXCEPT ![w] = slot]
    /\ Goto(w, "validate")
    /\ UNCHANGED <<expStatus, stepVars, decision, lock, worldVars, submissions,
                   pending, cur, news, reply, loaded>>

\* scan_once has listed the experiment as RUNNING, and _trigger_once finds no
\* decision for the event.
SelectEvent(w, e) ==
    /\ w \in EventWorkers
    /\ pc[w] = "idle"
    /\ expStatus = "RUNNING"
    /\ decision[e] = "NONE"
    /\ news' = [news EXCEPT ![w] = e]
    /\ Goto(w, "decide")
    /\ UNCHANGED <<expStatus, stepVars, decision, lock, worldVars, submissions,
                   pending, cur, due, reply, loaded>>

\* Mutant of InsertDecision: no unique constraint on (event_id, experiment_id).
InsertDecisionUnconstrained(w) ==
    /\ pc[w] = "decide"
    /\ decision' = [decision EXCEPT ![news[w]] = "TRIGGERED"]
    /\ Goto(w, "validate")
    /\ UNCHANGED <<expStatus, stepVars, lock, worldVars, submissions, pending, workVars>>

\* _trigger_once commits the decision as TRIGGERED before it runs the step.
InsertDecision(w) ==
    /\ pc[w] = "decide"
    /\ decision[news[w]] = "NONE"
    /\ decision' = [decision EXCEPT ![news[w]] = "TRIGGERED"]
    /\ Goto(w, "validate")
    /\ UNCHANGED <<expStatus, stepVars, lock, worldVars, submissions, pending, workVars>>

\* Another scan was first: the unique constraint on (event_id, experiment_id)
\* raises out of _trigger_once and ends the scan.
DecisionConflict(w) ==
    /\ pc[w] = "decide"
    /\ decision[news[w]] # "NONE"
    /\ Return(w)
    /\ UNCHANGED <<expStatus, stepVars, decision, lock, worldVars, submissions, pending>>

-----------------------------------------------------------------------------
(***************************************************************************)
(* _validate_and_create_step                                               *)
(***************************************************************************)

\* The status is read before the advisory lock is asked for.
ReadStatus(w) ==
    /\ pc[w] = "validate"
    /\ \/ /\ expStatus = "RUNNING"
          /\ Goto(w, "lock")
          /\ UNCHANGED workVars
       \/ /\ expStatus # "RUNNING"         \* InvalidStatusAppError
          /\ Refuse(w)
    /\ UNCHANGED <<expStatus, stepVars, decision, lock, worldVars, submissions, pending>>

\* No broker credentials, no strategy configuration, or an experiment this
\* trigger does not support: InvalidExperimentConfigurationAppError.
RefuseConfiguration(w) ==
    /\ pc[w] = "validate"
    /\ Refuse(w)
    /\ UNCHANGED <<expStatus, stepVars, decision, lock, worldVars, submissions, pending>>

\* pg_try_advisory_xact_lock does not wait.
AcquireLock(w) ==
    /\ pc[w] = "lock"
    /\ \/ /\ lock = NoWorker
          /\ lock' = w
          /\ Goto(w, "check")
          /\ UNCHANGED workVars
       \/ /\ lock # NoWorker
          /\ Refuse(w)
          /\ UNCHANGED lock
    /\ UNCHANGED <<expStatus, stepVars, decision, worldVars, submissions, pending>>

\* Mutants of AlreadyRunning: one of its two checks is missing.
AlreadyScheduledOnly(w) == w \in ScheduledWorkers /\ HasStepForScheduledSlot(due[w])
AlreadyRunningOnly(w) == w \in Workers /\ HasRunningStep

\* has_running_step and, for the scheduler, has_step_for_scheduled_slot.
AlreadyRunning(w) ==
    HasRunningStep \/ (w \in ScheduledWorkers /\ HasStepForScheduledSlot(due[w]))

CheckSteps(w) ==
    /\ pc[w] = "check"
    /\ \/ /\ ~AlreadyRunning(w)
          /\ Goto(w, "insert")
          /\ UNCHANGED <<lock, workVars>>
       \/ /\ AlreadyRunning(w)
          /\ lock' = NoWorker               \* the rollback ends the transaction
          /\ Refuse(w)
    /\ UNCHANGED <<expStatus, stepVars, decision, worldVars, submissions, pending>>

\* The commit that makes the step visible also releases the lock.
InsertStep(w) ==
    /\ pc[w] = "insert"
    /\ \E s \in Steps :
          /\ IsNextSequenceNumber(s)
          /\ status' = [status EXCEPT ![s] = "RUNNING"]
          /\ trigger' = [trigger EXCEPT ![s] = TriggerOf(w)]
          /\ scheduledFor' = [scheduledFor EXCEPT ![s] = due[w]]
          /\ cause' = [cause EXCEPT ![s] = news[w]]
          /\ cur' = [cur EXCEPT ![w] = s]
    /\ lock' = NoWorker
    /\ Goto(w, "artifacts")
    /\ UNCHANGED <<expStatus, riskCheck, order, decision, worldVars, submissions,
                   pending, inputVars, reply, loaded>>

\* Bound: the experiment has MaxSteps steps already; stands for no code.
OutOfSteps(w) ==
    /\ pc[w] = "insert"
    /\ \A s \in Steps : status[s] # "NONE"
    /\ lock' = NoWorker
    /\ Refuse(w)
    /\ UNCHANGED <<expStatus, stepVars, decision, worldVars, submissions, pending>>

-----------------------------------------------------------------------------
(***************************************************************************)
(* _run_step_artifacts and _run_broker_execution                           *)
(***************************************************************************)

\* _mark_event_decision_triggered, part of the transaction of the artifacts.
MarkEventDecisionTriggered(w) ==
    decision' = [e \in Events |-> IF e = news[w] THEN "TRIGGERED" ELSE decision[e]]

\* The risk check ends in HOLD: artifacts, snapshot, metrics and the COMPLETED
\* step are one commit.
HoldStep(w) ==
    /\ pc[w] = "artifacts"
    /\ riskCheck' = [riskCheck EXCEPT ![cur[w]] = "HOLD"]
    /\ status' = [status EXCEPT ![cur[w]] = "COMPLETED"]
    /\ MarkEventDecisionTriggered(w)
    /\ Return(w)
    /\ UNCHANGED <<expStatus, trigger, scheduledFor, order, cause, lock, worldVars,
                   submissions, pending>>

\* The risk check allows a BUY or a SELL: it is committed, and the broker is
\* called in a new transaction, which begins by loading the experiment.
ApproveOrder(w) ==
    /\ pc[w] = "artifacts"
    /\ riskCheck' = [riskCheck EXCEPT ![cur[w]] = "EXEC"]
    /\ MarkEventDecisionTriggered(w)
    /\ Goto(w, "broker")
    /\ UNCHANGED <<expStatus, status, trigger, scheduledFor, order, cause, lock,
                   worldVars, submissions, pending, workVars>>

\* Market data, agent or database error: nothing of the transaction is kept.
\* A wrong agent configuration also fails the experiment.
ArtifactsFail(w) ==
    /\ pc[w] = "artifacts"
    /\ \E l \in {"failing", "failing_experiment"} : Goto(w, l)
    /\ UNCHANGED <<expStatus, stepVars, decision, lock, worldVars, submissions,
                   pending, workVars>>

\* place_order: the broker has the order and answers with its status.
PlaceOrder(w) ==
    /\ pc[w] = "broker"
    /\ submissions' = [submissions EXCEPT ![cur[w]] = @ + 1]
    /\ \E b \in BrokerStatus : reply' = [reply EXCEPT ![w] = b]
    /\ loaded' = [loaded EXCEPT ![w] = expStatus]
    /\ Goto(w, "record")
    /\ UNCHANGED <<expStatus, stepVars, decision, lock, worldVars, pending, cur, inputVars>>

\* Mutant of PlaceOrderRaises: the call is retried.
PlaceOrderRetries(w) ==
    /\ pc[w] = "broker"
    /\ submissions' = [submissions EXCEPT ![cur[w]] = @ + 1]
    /\ submissions[cur[w]] < 2
    /\ UNCHANGED <<expStatus, stepVars, decision, lock, worldVars, pending, pc, workVars>>

\* place_order raises: the broker refused the request, or it took the order
\* and the answer was lost or malformed.
PlaceOrderRaises(w) ==
    /\ pc[w] = "broker"
    /\ \/ UNCHANGED submissions
       \/ submissions' = [submissions EXCEPT ![cur[w]] = @ + 1]
    /\ Goto(w, "failing")
    /\ UNCHANGED <<expStatus, stepVars, decision, lock, worldVars, pending, workVars>>

\* The order, the fills it brought, the snapshot and the outcome of the step are
\* one commit.  Only a changed column is written: an experiment that was loaded
\* FAILED keeps the status it has by now.
RecordOrder(w) ==
    /\ pc[w] = "record"
    /\ order' = [order EXCEPT ![cur[w]] = MapOrderStatus(reply[w])]
    /\ \/ /\ ControlledOrderFailure(reply[w])
          /\ status' = [status EXCEPT ![cur[w]] = "FAILED"]
          /\ expStatus' = IF loaded[w] = "FAILED" THEN expStatus ELSE "FAILED"
       \/ /\ ~ControlledOrderFailure(reply[w])
          /\ status' = [status EXCEPT ![cur[w]] = "COMPLETED"]
          /\ UNCHANGED expStatus
    /\ Return(w)
    /\ UNCHANGED <<trigger, scheduledFor, riskCheck, cause, decision, lock, worldVars,
                   submissions, pending>>

\* The commit fails after the broker took the order: the row is rolled back.
RecordFails(w) ==
    /\ pc[w] = "record"
    /\ Goto(w, "failing")
    /\ UNCHANGED <<expStatus, stepVars, decision, lock, worldVars, submissions,
                   pending, workVars>>

\* Mutant of PersistFailure: the experiment is failed, the step forgotten.
PersistFailureKeepsStep(w) ==
    /\ pc[w] \in {"failing", "failing_experiment"}
    /\ w \notin EventWorkers
    /\ expStatus' = IF pc[w] = "failing_experiment" THEN "FAILED" ELSE expStatus
    /\ Return(w)
    /\ UNCHANGED <<stepVars, decision, lock, worldVars, submissions, pending>>

\* run_next_step catches the exception: _persist_failure.
PersistFailure(w) ==
    /\ pc[w] \in {"failing", "failing_experiment"}
    /\ w \notin EventWorkers
    /\ status' = [status EXCEPT ![cur[w]] = "FAILED"]
    /\ expStatus' = IF pc[w] = "failing_experiment" THEN "FAILED" ELSE expStatus
    /\ Return(w)
    /\ UNCHANGED <<trigger, scheduledFor, riskCheck, order, cause, decision, lock,
                   worldVars, submissions, pending>>

\* Mutant of FailEventDecision: the exception is swallowed.
ForgetEventDecision(w) ==
    /\ pc[w] \in {"failing", "failing_experiment"}
    /\ w \in EventWorkers
    /\ Return(w)
    /\ UNCHANGED <<expStatus, stepVars, decision, lock, worldVars, submissions, pending>>

\* run_event_step has no handler: the exception reaches _trigger_once, which
\* fails the decision and leaves the step and the experiment as they are.
FailEventDecision(w) ==
    /\ pc[w] \in {"failing", "failing_experiment"}
    /\ w \in EventWorkers
    /\ decision' = [decision EXCEPT ![news[w]] = "FAILED"]
    /\ Return(w)
    /\ UNCHANGED <<expStatus, stepVars, lock, worldVars, submissions, pending>>

-----------------------------------------------------------------------------
(***************************************************************************)
(* Lifecycle requests, the clock and crashes                               *)
(***************************************************************************)

\* apply_lifecycle_action loads the experiment and validates the transition.
ReadLifecycle(c, a) ==
    /\ pending[c] = "none"
    /\ ValidTransition(a, expStatus)
    /\ pending' = [pending EXCEPT ![c] = a]
    /\ UNCHANGED <<expStatus, stepVars, decision, lock, worldVars, submissions, pc, workVars>>

\* It commits the target status over whatever the row holds by now.
CommitLifecycle(c) ==
    /\ pending[c] # "none"
    /\ expStatus' = TargetStatuses[pending[c]]
    /\ pending' = [pending EXCEPT ![c] = "none"]
    /\ UNCHANGED <<stepVars, decision, lock, worldVars, submissions, pc, workVars>>

\* The next slot comes due.
AdvanceSlot ==
    /\ slot < MaxSlot
    /\ slot' = slot + 1
    /\ UNCHANGED <<expStatus, stepVars, decision, lock, crashes, submissions, pending,
                   pc, workVars>>

\* The process dies: threads and open transactions are gone, commits stay.
\* scheduler.shutdown(wait=False) at the end of the lifespan does the same.
Crash ==
    /\ crashes < MaxCrashes
    /\ crashes' = crashes + 1
    /\ lock' = NoWorker
    /\ pending' = [c \in Clients |-> "none"]
    /\ pc' = [w \in Workers |-> "idle"]
    /\ cur' = [w \in Workers |-> NoStep]
    /\ due' = [w \in Workers |-> NoSlot]
    /\ news' = [w \in Workers |-> NoEvent]
    /\ reply' = [w \in Workers |-> "none"]
    /\ loaded' = [w \in Workers |-> "none"]
    /\ UNCHANGED <<expStatus, stepVars, decision, slot, submissions>>

-----------------------------------------------------------------------------

\* What a worker does once it has been asked for a step.
Proceed(w) ==
    \/ InsertDecision(w) \/ DecisionConflict(w)
    \/ ReadStatus(w) \/ RefuseConfiguration(w)
    \/ AcquireLock(w) \/ CheckSteps(w) \/ InsertStep(w) \/ OutOfSteps(w)
    \/ HoldStep(w) \/ ApproveOrder(w) \/ ArtifactsFail(w)
    \/ PlaceOrder(w) \/ PlaceOrderRaises(w) \/ RecordOrder(w) \/ RecordFails(w)
    \/ PersistFailure(w) \/ FailEventDecision(w)

Next ==
    \/ \E w \in Workers :
          Request(w) \/ Tick(w) \/ Proceed(w) \/ \E e \in Events : SelectEvent(w, e)
    \/ \E c \in Clients : CommitLifecycle(c) \/ \E a \in LifecycleActions : ReadLifecycle(c, a)
    \/ AdvanceSlot
    \/ Crash

Spec == Init /\ [][Next]_vars

\* A thread that has started goes on; nothing obliges a user, the clock or the
\* news to ask for another step.
Fairness == \A w \in Workers : WF_vars(Proceed(w))

FairSpec == Spec /\ Fairness

-----------------------------------------------------------------------------
(***************************************************************************)
(* Properties                                                              *)
(***************************************************************************)

\* BR-013: the experiment never has two running steps, whatever requests, job
\* runs and crashes interleave (the advisory lock and has_running_step).
OneRunningStep ==
    \A s, t \in Steps : status[s] = "RUNNING" /\ status[t] = "RUNNING" => s = t

\* A scheduled slot gets one step at most, however often the job finds it due
\* (M29: duplicate due slots do not create duplicate execution steps).
SlotOnce ==
    \A s, t \in Steps :
        /\ trigger[s] = "SCHEDULED" /\ trigger[t] = "SCHEDULED"
        /\ scheduledFor[s] = scheduledFor[t]
        => s = t

\* BR-027C: an event triggers one EVENT step at most, over all scans, retries
\* and crashes, because the decision row is committed before the step runs.
EventOnce ==
    \A s, t \in Steps :
        trigger[s] = "EVENT" /\ trigger[t] = "EVENT" /\ cause[s] = cause[t] => s = t

\* BR-039: the broker gets one order at most for a step, and only after a risk
\* check that allows it was committed; an order row stands for a real order.
OrderNeedsRiskCheck ==
    \A s \in Steps :
        /\ submissions[s] <= 1
        /\ submissions[s] > 0 => riskCheck[s] = "EXEC"
        /\ order[s] # "NONE" => submissions[s] = 1

\* BR-014: a COMPLETED step has its risk check, and its order exactly when the
\* risk check asked for one; the order did not end rejected or failed.
CompletedIsAudited ==
    \A s \in Steps :
        status[s] = "COMPLETED" =>
            \/ riskCheck[s] = "HOLD" /\ submissions[s] = 0
            \/ riskCheck[s] = "EXEC" /\ order[s] \in {"SUBMITTED", "FILLED", "CANCELLED"}

\* While the backend does not crash, a TRIGGERED decision is never abandoned: the
\* event has its step, or a scan is still on its way to creating it.
TriggeredIsServed ==
    \A e \in Events :
        decision[e] = "TRIGGERED" /\ crashes = 0 =>
            \/ \E s \in Steps : cause[s] = e
            \/ \E w \in EventWorkers : news[w] = e

\* Only a step fails an experiment, and in the commit that fails the step
\* (BR-009: the error must be visible).
FailureHasStep ==
    [][ expStatus # "FAILED" /\ expStatus' = "FAILED" =>
            \E s \in Steps : status[s] = "RUNNING" /\ status'[s] = "FAILED" ]_vars

\* The steps are an audit ledger: opened one at a time under consecutive
\* numbers, closed once and never touched again (BR-011, BR-013).
Ledger == INSTANCE StepLedger WITH ledger <- status
LedgerSpec == Ledger!Spec

\* While the backend does not crash, every manual and scheduled step ends.
StepEnds ==
    \A s \in Steps :
        status[s] = "RUNNING" /\ trigger[s] # "EVENT" ~> status[s] # "RUNNING"

-----------------------------------------------------------------------------
(***************************************************************************)
(* Rules of the documents that the code does not keep (README.md)          *)
(***************************************************************************)

\* The same of event steps: a RUNNING step that never ends blocks every later
\* one (service-contracts.md, run_next_step).
EventStepEnds ==
    \A s \in Steps : status[s] = "RUNNING" /\ trigger[s] = "EVENT" ~> status[s] # "RUNNING"

\* "Experiment must be RUNNING to execute the next step": a step is created
\* only while the experiment runs.
StepsOnlyWhileRunning ==
    [][ \A s \in Steps :
            status[s] = "NONE" /\ status'[s] = "RUNNING" => expStatus = "RUNNING" ]_vars

\* BR-007: only the listed transitions of the experiment's status happen.
LegalTransitions ==
    [][ expStatus' # expStatus => <<expStatus, expStatus'>> \in AllowedTransitions ]_vars

=============================================================================
