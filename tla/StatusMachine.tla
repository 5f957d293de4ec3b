---------------------------- MODULE StatusMachine ----------------------------
(***************************************************************************)
(* The lifecycle of an experiment: the statuses it may have, the four user *)
(* actions that move it and the transitions the business rules allow.      *)
(* backend/app/modules/experiments/status_machine.py                       *)
(***************************************************************************)

ExperimentStatus ==
    {"CREATED", "RUNNING", "PAUSED", "STOPPED", "COMPLETED", "FAILED"}

LifecycleActions == {"start", "pause", "resume", "stop"}

\* The statuses validate_transition accepts for each action.
LifecycleTransitions ==
    [start  |-> {"CREATED"},
     pause  |-> {"RUNNING"},
     resume |-> {"PAUSED"},
     stop   |-> {"RUNNING", "PAUSED"}]

\* The status validate_transition returns for each action.
TargetStatuses ==
    [start |-> "RUNNING", pause |-> "PAUSED", resume |-> "RUNNING", stop |-> "STOPPED"]

\* validate_transition does not raise InvalidStatusAppError.
ValidTransition(action, current) == current \in LifecycleTransitions[action]

\* BR-007, docs/02_domain/03_business-rules.md: what the status of an
\* experiment may become.
AllowedTransitions ==
    {<<"CREATED", "RUNNING">>, <<"RUNNING", "PAUSED">>, <<"PAUSED", "RUNNING">>,
     <<"RUNNING", "STOPPED">>, <<"PAUSED", "STOPPED">>,
     <<"RUNNING", "COMPLETED">>, <<"RUNNING", "FAILED">>}

=============================================================================
