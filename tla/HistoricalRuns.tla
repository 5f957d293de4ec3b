---------------------------- MODULE HistoricalRuns ----------------------------
(***************************************************************************)
(* The steps of one historical experiment over the bars of its date range. *)
(* Two kinds of thread make them: the full run, a background task that the *)
(* start request launches, and the step runner behind manual requests and  *)
(* the historical scheduler job.  The step runner takes an advisory lock   *)
(* and refuses to overlap; the full run does neither and never looks at the*)
(* experiment's status again.                                              *)
(*                                                                         *)
(* One action is one database transaction, or the part of a step runner's  *)
(* transaction up to its next read.                                        *)
(*                                                                         *)
(* Historical*Orchestrator     modules/execution/orchestrator.py           *)
(* HistoricalStepRunner        modules/execution/step_runner.py            *)
(* ExperimentService           modules/experiments/service.py              *)
(***************************************************************************)
EXTENDS Naturals, FiniteSetsExt, StatusMachine

CONSTANTS
    Clients,        \* request threads of the lifecycle routes, each with the
                    \* background task its start request launches
    Steppers,       \* threads in HistoricalStepRunner.run_next_step; none for
                    \* opening range breakout, which it refuses
    Nobody,         \* holds no advisory lock
    NumBars,        \* bars load_range returns for the date range
    MaxSteps,       \* bound on the steps
    MaxCrashes      \* bound on the crashes of the backend

ASSUME HistoricalAssumption ==
    /\ Clients \cap Steppers = {}
    /\ Nobody \notin Clients \cup Steppers
    /\ NumBars \in Nat /\ MaxSteps \in Nat /\ MaxCrashes \in Nat

Threads == Clients \cup Steppers
Steps == 1..MaxSteps
NoStep == 0

StepStatus == {"NONE", "RUNNING", "COMPLETED", "FAILED"}

\* MANUAL stands for SCHEDULED too: the step runner treats both alike.
TriggerType == {"NONE", "HISTORICAL", "MANUAL"}

Locations ==
    {"idle", "status", "lock", "check", "load", "read", "insert", "work",
     "final", "complete", "failing"}

VARIABLES
    expStatus,      \* experiments.status
    status,         \* execution_steps.status by sequence number, "NONE" for no row
    trigger,        \* execution_steps.trigger_type
    bar,            \* execution_steps.scheduled_for: the bar of the step
    lock,           \* who holds pg_try_advisory_xact_lock(experiment_id)
    pending,        \* per client: the validated action not yet committed
    pc,             \* per thread: where it is
    cur,            \* per thread: the step it would fail
    number,         \* per thread: sequence_number
    next,           \* per thread: the bar it will make a step for
    crashes,        \* crashes so far
    mixed           \* a full run was not alone: another thread worked at the same
                    \* time, or steps existed already (history)

rowVars == <<status, trigger, bar>>
threadVars == <<pc, cur, number, next>>
vars == <<expStatus, rowVars, lock, pending, threadVars, crashes, mixed>>

-----------------------------------------------------------------------------

TypeOK ==
    /\ expStatus \in ExperimentStatus
    /\ status \in [Steps -> StepStatus]
    /\ trigger \in [Steps -> TriggerType]
    /\ bar \in [Steps -> 0..NumBars]
    /\ lock \in Steppers \cup {Nobody}
    /\ pending \in [Clients -> LifecycleActions \cup {"none"}]
    /\ pc \in [Threads -> Locations]
    /\ cur \in [Threads -> Steps \cup {NoStep}]
    /\ number \in [Threads -> Nat]
    /\ next \in [Threads -> Nat]
    /\ crashes \in 0..MaxCrashes
    /\ mixed \in BOOLEAN

Init ==
    /\ expStatus = "CREATED"
    /\ status = [s \in Steps |-> "NONE"]
    /\ trigger = [s \in Steps |-> "NONE"]
    /\ bar = [s \in Steps |-> 0]
    /\ lock = Nobody
    /\ pending = [c \in Clients |-> "none"]
    /\ pc = [t \in Threads |-> "idle"]
    /\ cur = [t \in Threads |-> NoStep]
    /\ number = [t \in Threads |-> 0]
    /\ next = [t \in Threads |-> 0]
    /\ crashes = 0
    /\ mixed = FALSE

Goto(t, l) == pc' = [pc EXCEPT ![t] = l]

\* The end of a transaction releases the advisory lock it has taken.
Release(t) == lock' = IF lock = t THEN Nobody ELSE lock

\* The thread is done and forgets its local variables.
Return(t) ==
    /\ pc' = [pc EXCEPT ![t] = "idle"]
    /\ cur' = [cur EXCEPT ![t] = NoStep]
    /\ number' = [number EXCEPT ![t] = 0]
    /\ next' = [next EXCEPT ![t] = 0]

Active(t) == pc[t] # "idle"

\* max_sequence_number
MaxSequenceNumber == Max({0} \cup {s \in Steps : status[s] # "NONE"})

HasRunningStep == \E s \in Steps : status[s] = "RUNNING"

-----------------------------------------------------------------------------
(***************************************************************************)
(* Lifecycle requests                                                      *)
(***************************************************************************)

\* apply_lifecycle_action loads the experiment and validates the transition.
ReadLifecycle(c, a) ==
    /\ pending[c] = "none"
    /\ ValidTransition(a, expStatus)
    /\ pending' = [pending EXCEPT ![c] = a]
    /\ UNCHANGED <<expStatus, rowVars, lock, threadVars, crashes, mixed>>

\* It commits the target status over whatever the row holds by now.
CommitLifecycle(c) ==
    /\ pending[c] \in LifecycleActions \ {"start"}
    /\ expStatus' = TargetStatuses[pending[c]]
    /\ pending' = [pending EXCEPT ![c] = "none"]
    /\ UNCHANGED <<rowVars, lock, threadVars, crashes, mixed>>

\* start_experiment adds the full run as a background task of the request.
CommitStart(c) ==
    /\ pending[c] = "start"
    /\ expStatus' = "RUNNING"
    /\ pending' = [pending EXCEPT ![c] = "none"]
    /\ next' = [next EXCEPT ![c] = 1]
    /\ Goto(c, "load")
    /\ mixed' = (mixed \/ (\E t \in Threads : Active(t)) \/ MaxSequenceNumber > 0)
    /\ UNCHANGED <<rowVars, lock, cur, number, crashes>>

-----------------------------------------------------------------------------
(***************************************************************************)
(* HistoricalStepRunner._select_bar_and_create_step up to load_range       *)
(***************************************************************************)

\* A manual request, or this experiment's turn in the scheduler job.
Ask(t) ==
    /\ t \in Steppers
    /\ pc[t] = "idle"
    /\ Goto(t, "status")
    /\ mixed' = (mixed \/ \E c \in Clients : Active(c))
    /\ UNCHANGED <<expStatus, rowVars, lock, pending, cur, number, next, crashes>>

\* The status is read before the advisory lock is asked for.
ReadStatus(t) ==
    /\ pc[t] = "status"
    /\ \/ expStatus = "RUNNING" /\ Goto(t, "lock") /\ UNCHANGED <<cur, number, next>>
       \/ expStatus # "RUNNING" /\ Return(t)        \* InvalidStatusAppError
    /\ UNCHANGED <<expStatus, rowVars, lock, pending, crashes, mixed>>

\* pg_try_advisory_xact_lock does not wait.
AcquireLock(t) ==
    /\ pc[t] = "lock"
    /\ \/ /\ lock = Nobody
          /\ lock' = t
          /\ Goto(t, "check")
          /\ UNCHANGED <<cur, number, next>>
       \/ lock # Nobody /\ Return(t) /\ UNCHANGED lock
    /\ UNCHANGED <<expStatus, rowVars, pending, crashes, mixed>>

\* Mutant of CheckRunning: the lock alone must do.
NoCheckRunning(t) ==
    /\ pc[t] = "check"
    /\ Goto(t, "load")
    /\ UNCHANGED <<expStatus, rowVars, lock, pending, cur, number, next, crashes, mixed>>

\* has_running_step
CheckRunning(t) ==
    /\ pc[t] = "check"
    /\ \/ ~HasRunningStep /\ Goto(t, "load") /\ UNCHANGED <<lock, cur, number, next>>
       \/ HasRunningStep /\ Release(t) /\ Return(t)
    /\ UNCHANGED <<expStatus, rowVars, pending, crashes, mixed>>

-----------------------------------------------------------------------------
(***************************************************************************)
(* The bars, and a step for one of them                                    *)
(***************************************************************************)

\* load_range reads a file or asks the market data service.
LoadBars(t) ==
    /\ pc[t] = "load"
    /\ Goto(t, "read")
    /\ UNCHANGED <<expStatus, rowVars, lock, pending, cur, number, next, crashes, mixed>>

\* Mutant of NextBar: a bar whose step has failed is taken again.
NextBarNotCompleted(t) ==
    IF t \in Steppers
    THEN Cardinality({s \in Steps : status[s] = "COMPLETED"}) + 1
    ELSE next[t]

\* A run takes the next bar of its loop, a step runner the one after the
\* steps that exist.
NextBar(t) == IF t \in Steppers THEN MaxSequenceNumber + 1 ELSE next[t]

\* There is a bar number b.
IsBar(b) == b <= NumBars

\* Both number the step after the steps that exist.
ReadMax(t) ==
    /\ pc[t] = "read"
    /\ IsBar(NextBar(t))
    /\ next' = [next EXCEPT ![t] = NextBar(t)]
    /\ number' = [number EXCEPT ![t] = MaxSequenceNumber + 1]
    /\ Goto(t, "insert")
    /\ UNCHANGED <<expStatus, rowVars, lock, pending, cur, crashes, mixed>>

\* Mutant of InsertStep: no unique constraint, the row is simply written.
InsertStepUnconstrained(t) ==
    /\ pc[t] = "insert"
    /\ number[t] \in Steps
    /\ status' = [status EXCEPT ![number[t]] = "RUNNING"]
    /\ trigger' = [trigger EXCEPT ![number[t]] = IF t \in Steppers THEN "MANUAL" ELSE "HISTORICAL"]
    /\ bar' = [bar EXCEPT ![number[t]] = next[t]]
    /\ cur' = [cur EXCEPT ![t] = number[t]]
    /\ Release(t)
    /\ Goto(t, "work")
    /\ UNCHANGED <<expStatus, pending, number, next, crashes, mixed>>

\* The commit that makes the step visible.  When the number was taken in
\* between, the unique constraint raises (Raises).
InsertStep(t) ==
    /\ pc[t] = "insert"
    /\ number[t] \in Steps
    /\ status[number[t]] = "NONE"
    /\ status' = [status EXCEPT ![number[t]] = "RUNNING"]
    /\ trigger' = [trigger EXCEPT ![number[t]] = IF t \in Steppers THEN "MANUAL" ELSE "HISTORICAL"]
    /\ bar' = [bar EXCEPT ![number[t]] = next[t]]
    /\ cur' = [cur EXCEPT ![t] = number[t]]
    /\ Release(t)
    /\ Goto(t, "work")
    /\ UNCHANGED <<expStatus, pending, number, next, crashes, mixed>>

\* The artifacts, the portfolio and the COMPLETED step are one commit.  A step
\* runner then asks whether the bar was the last one.
RunStep(t) ==
    /\ pc[t] = "work"
    /\ status' = [status EXCEPT ![cur[t]] = "COMPLETED"]
    /\ cur' = [cur EXCEPT ![t] = NoStep]
    /\ IF t \in Steppers
       THEN Goto(t, "final") /\ UNCHANGED next
       ELSE Goto(t, "read") /\ next' = [next EXCEPT ![t] = @ + 1]
    /\ UNCHANGED <<expStatus, trigger, bar, lock, pending, number, crashes, mixed>>

-----------------------------------------------------------------------------
(***************************************************************************)
(* The end                                                                 *)
(***************************************************************************)

\* Mutant of IsFinalBar: the number of the step is taken for its index.
IsFinalIndex(t) == number[t] + 1 >= NumBars

\* _is_final_bar
IsFinalBar(t) == number[t] >= NumBars

CheckFinal(t) ==
    /\ pc[t] = "final"
    /\ IF IsFinalBar(t) THEN Goto(t, "complete") /\ UNCHANGED <<cur, number, next>>
                        ELSE Return(t)
    /\ UNCHANGED <<expStatus, rowVars, lock, pending, crashes, mixed>>

\* No bar is left for a step runner; it completes the experiment in the same
\* transaction.
NoBarLeft(t) ==
    /\ t \in Steppers
    /\ pc[t] = "read"
    /\ ~IsBar(NextBar(t))
    /\ expStatus' = "COMPLETED"
    /\ Release(t)
    /\ Return(t)
    /\ UNCHANGED <<rowVars, pending, crashes, mixed>>

\* The loop of a full run is over, and it completes the experiment.
RunEnds(c) ==
    /\ c \in Clients
    /\ pc[c] = "read"
    /\ ~IsBar(NextBar(c))
    /\ expStatus' = "COMPLETED"
    /\ Return(c)
    /\ UNCHANGED <<rowVars, lock, pending, crashes, mixed>>

\* _complete_experiment of a step runner.
Complete(t) ==
    /\ pc[t] = "complete"
    /\ expStatus' = "COMPLETED"
    /\ Return(t)
    /\ UNCHANGED <<rowVars, lock, pending, crashes, mixed>>

\* An exception: market data, an unknown number of bars, the unique constraint,
\* missing state, the database.  The open transaction is rolled back.
Raises(t) ==
    /\ pc[t] \in {"load", "read", "insert", "work", "final", "complete"}
    /\ Goto(t, "failing")
    /\ Release(t)
    /\ UNCHANGED <<expStatus, rowVars, pending, cur, number, next, crashes, mixed>>

\* Mutant of PersistFailure: the experiment fails, its step is forgotten.
PersistFailureKeepsStep(t) ==
    /\ pc[t] = "failing"
    /\ expStatus' = "FAILED"
    /\ Return(t)
    /\ UNCHANGED <<rowVars, lock, pending, crashes, mixed>>

\* Mutant of PersistFailure: the step fails, the experiment goes on.
PersistFailureOfStepOnly(t) ==
    /\ pc[t] = "failing"
    /\ status' = [s \in Steps |-> IF s = cur[t] THEN "FAILED" ELSE status[s]]
    /\ Return(t)
    /\ UNCHANGED <<expStatus, trigger, bar, lock, pending, crashes, mixed>>

\* The step, if there is one, and the experiment fail in one commit.
PersistFailure(t) ==
    /\ pc[t] = "failing"
    /\ status' = [s \in Steps |-> IF s = cur[t] THEN "FAILED" ELSE status[s]]
    /\ expStatus' = "FAILED"
    /\ Return(t)
    /\ UNCHANGED <<trigger, bar, lock, pending, crashes, mixed>>

\* The process dies: threads, background tasks and open transactions are gone,
\* and nothing restarts a run.
Crash ==
    /\ crashes < MaxCrashes
    /\ crashes' = crashes + 1
    /\ lock' = Nobody
    /\ pending' = [c \in Clients |-> "none"]
    /\ pc' = [t \in Threads |-> "idle"]
    /\ cur' = [t \in Threads |-> NoStep]
    /\ number' = [t \in Threads |-> 0]
    /\ next' = [t \in Threads |-> 0]
    /\ UNCHANGED <<expStatus, rowVars, mixed>>

-----------------------------------------------------------------------------

\* What a thread does once it has started.
Proceed(t) ==
    \/ ReadStatus(t) \/ AcquireLock(t) \/ CheckRunning(t)
    \/ LoadBars(t) \/ ReadMax(t) \/ InsertStep(t) \/ RunStep(t)
    \/ CheckFinal(t) \/ NoBarLeft(t) \/ RunEnds(t) \/ Complete(t)
    \/ Raises(t) \/ PersistFailure(t)

Next ==
    \/ \E t \in Threads : Ask(t) \/ Proceed(t)
    \/ \E c \in Clients :
          CommitStart(c) \/ CommitLifecycle(c) \/ \E a \in LifecycleActions : ReadLifecycle(c, a)
    \/ Crash

Spec == Init /\ [][Next]_vars

\* A thread that has started goes on; nothing obliges a user to ask.
Fairness == \A t \in Threads : WF_vars(Proceed(t))

FairSpec == Spec /\ Fairness

-----------------------------------------------------------------------------
(***************************************************************************)
(* Properties                                                              *)
(***************************************************************************)

\* BR-013: two steps run at a time only when one of them belongs to a full run
\* that another thread overlapped; step runners never overlap each other, not
\* after crashes either.
StepsTakeTurns ==
    \A s, t \in Steps :
        status[s] = "RUNNING" /\ status[t] = "RUNNING" /\ s # t =>
            mixed /\ "HISTORICAL" \in {trigger[s], trigger[t]}

\* Every bar gets one step and in order, whoever makes the steps, also when step
\* runners continue where a run has crashed or failed.
BarsInOrder ==
    ~mixed => \A s \in Steps : status[s] # "NONE" => bar[s] = s

\* The experiment is COMPLETED only when every bar of its range has been through
\* a step that has ended.
CompletedIsCovered ==
    ~mixed /\ expStatus = "COMPLETED" =>
        \A b \in 1..NumBars :
            \E s \in Steps : bar[s] = b /\ status[s] \in {"COMPLETED", "FAILED"}

\* BR-011, BR-014: the rows are an audit trail.  Numbers have no gaps, and a step
\* that has ended is never touched again, whatever overlaps.
AuditTrail ==
    [][ /\ \A s \in Steps : status'[s] # "NONE" => \A r \in 1..s : status'[r] # "NONE"
        /\ \A s \in Steps :
              status[s] \in {"COMPLETED", "FAILED"} =>
                  /\ status'[s] = status[s]
                  /\ bar'[s] = bar[s] ]_vars

\* While the backend does not crash, every step ends.
StepEnds ==
    \A s \in Steps : status[s] = "RUNNING" ~> (status[s] # "RUNNING" \/ crashes > 0)

\* While the backend does not crash, a started run reaches a verdict on the
\* experiment, whatever fails and whoever interferes.
RunReachesVerdict ==
    \A c \in Clients :
        pc[c] = "load" ~> (expStatus \in {"COMPLETED", "FAILED"} \/ crashes > 0)

-----------------------------------------------------------------------------
(***************************************************************************)
(* Rules of the documents that the code does not keep (README.md)          *)
(***************************************************************************)

\* BR-013 without the exception above.
OneRunningStep ==
    \A s, t \in Steps : status[s] = "RUNNING" /\ status[t] = "RUNNING" => s = t

\* "stop a running or paused experiment permanently".
StopIsPermanent == [][ expStatus = "STOPPED" => expStatus' = "STOPPED" ]_vars

\* "After all steps are processed, backend marks the experiment as COMPLETED":
\* no step runs in a COMPLETED experiment.
CompletedIsQuiet == expStatus = "COMPLETED" => ~HasRunningStep

=============================================================================
