-------------------------- MODULE HistoricalRunsProofs --------------------------
(***************************************************************************)
(* The rows of a historical experiment, for any number of bars, clients,   *)
(* step runners and crashes.                                               *)
(***************************************************************************)
EXTENDS HistoricalRuns, TLAPS

\* What the number of the last row says: rows have the numbers 1..n.
RowsAre(n) ==
    n \in 0..MaxSteps /\ \A s \in Steps : status[s] # "NONE" <=> s <= n

Ended(s) == status[s] \in {"COMPLETED", "FAILED"}

\* A thread owns the RUNNING step it would fail, and the number it is about to
\* insert is at most one after the last row.
OwnerInv ==
    /\ \A t \in Threads :
          /\ cur[t] # NoStep => status[cur[t]] = "RUNNING" /\ pc[t] \in {"work", "failing"}
          /\ pc[t] = "work" => cur[t] # NoStep
          /\ pc[t] = "insert" =>
                /\ number[t] >= 1 /\ \A r \in Steps : r < number[t] => status[r] # "NONE"
                /\ IsBar(next[t])
    /\ \A t, u \in Threads : cur[t] # NoStep /\ cur[t] = cur[u] => t = u

\* Clients are never where only step runners go, and a client has started at most
\* one run.
ClientInv ==
    \A c \in Clients :
        /\ pc[c] \in {"idle", "load", "read", "insert", "work", "failing"}
        /\ Active(c) => expStatus # "CREATED" /\ pending[c] # "start"

\* Only the holder of the lock is between the check and the insert.
LockInv ==
    \A t \in Steppers : pc[t] \in {"check", "load", "read", "insert"} => lock = t

\* A run that is not mixed is alone.
AloneInv ==
    ~mixed => \A c \in Clients : Active(c) => \A t \in Threads \ {c} : ~Active(t)

\* Whoever is about to insert a step knows of no RUNNING one, but for the steps
\* of a full run that overlaps a step runner.
QuietInv ==
    \A t \in Threads :
        pc[t] \in {"load", "read", "insert"} /\ (t \in Steppers \/ ~mixed) =>
            \A s \in Steps : status[s] = "RUNNING" => mixed /\ trigger[s] = "HISTORICAL"

\* A run that is alone is at the bar after the last row's, and so is a step runner
\* when it inserts.
BarInv ==
    ~mixed =>
        /\ \A t \in Threads : pc[t] = "insert" => next[t] = number[t]
        /\ \A c \in Clients :
              /\ pc[c] \in {"load", "read", "insert"} => RowsAre(next[c] - 1)
              /\ pc[c] = "work" => RowsAre(next[c])

\* Behind a step runner all steps have ended.
BehindInv ==
    ~mixed => \A t \in Steppers :
        /\ pc[t] = "work" => number[t] = cur[t] /\ \A s \in Steps : s < number[t] => Ended(s)
        /\ pc[t] \in {"final", "complete"} =>
              number[t] \in Steps /\ \A s \in Steps : s <= number[t] => Ended(s)
        /\ pc[t] = "complete" => NumBars <= number[t]

IInv ==
    /\ TypeOK
    /\ \E n \in 0..MaxSteps : RowsAre(n)
    /\ OwnerInv
    /\ ClientInv
    /\ LockInv
    /\ AloneInv
    /\ QuietInv
    /\ BarInv
    /\ BehindInv
    /\ StepsTakeTurns
    /\ BarsInOrder
    /\ CompletedIsCovered

-----------------------------------------------------------------------------

USE DEF Goto, Return, Active, rowVars, threadVars

(***************************************************************************)
(* The number of the last row                                              *)
(***************************************************************************)

LEMMA StepNumbers ==
    /\ Steps \subseteq Nat \ {0} /\ NoStep \notin Steps /\ NoStep = 0
    /\ \A s \in Steps : s \in Nat /\ 1 <= s /\ s <= MaxSteps
  BY HistoricalAssumption DEF Steps, NoStep

\* max_sequence_number is the n of RowsAre.
LEMMA MaxIsLast ==
    ASSUME NEW n, RowsAre(n)
    PROVE  MaxSequenceNumber = n
  <1> DEFINE S == {0} \cup {s \in Steps : status[s] # "NONE"}
  <1>1. n \in Nat /\ n <= MaxSteps
    BY HistoricalAssumption DEF RowsAre
  <1>2. n \in S
    BY <1>1 DEF RowsAre, Steps
  <1>3. \A s \in S : s \in Nat /\ n >= s
    BY <1>1, StepNumbers DEF RowsAre
  <1> HIDE DEF S
  <1>4. \A x \in S : (\A y \in S : x >= y) => x = n
    BY <1>1, <1>2, <1>3
  <1>5. Max(S) = n
    BY <1>2, <1>3, <1>4 DEF Max
  <1> QED
    BY <1>5 DEF MaxSequenceNumber, S

\* The rows determine the number.
LEMMA RowsDetermine ==
    ASSUME NEW m, NEW n, RowsAre(m), RowsAre(n)
    PROVE  m = n
  BY MaxIsLast

-----------------------------------------------------------------------------
(***************************************************************************)
(* What a step of a thread does                                            *)
(***************************************************************************)

Moves(t) == Ask(t) \/ Proceed(t)

\* To the other threads: nothing.
LEMMA OthersStay ==
    ASSUME TypeOK, NEW t \in Threads, Moves(t)
    PROVE  /\ \A u \in Threads \ {t} :
                 /\ pc'[u] = pc[u] /\ cur'[u] = cur[u]
                 /\ number'[u] = number[u] /\ next'[u] = next[u]
           /\ pending' = pending /\ crashes' = crashes
  <1> USE DEF TypeOK
  <1>1. CASE Ask(t) \/ ReadStatus(t) \/ AcquireLock(t) \/ CheckRunning(t) \/ LoadBars(t)
    BY <1>1 DEF Ask, ReadStatus, AcquireLock, CheckRunning, LoadBars
  <1>2. CASE ReadMax(t) \/ InsertStep(t)
    BY <1>2 DEF ReadMax, InsertStep
  <1>3. CASE RunStep(t)
    BY <1>3 DEF RunStep
  <1>4. CASE CheckFinal(t) \/ NoBarLeft(t) \/ RunEnds(t) \/ Complete(t) \/ Raises(t)
             \/ PersistFailure(t)
    BY <1>4 DEF CheckFinal, NoBarLeft, RunEnds, Complete, Raises, PersistFailure
  <1> QED
    BY <1>1, <1>2, <1>3, <1>4 DEF Moves, Proceed

\* To the history: only a step runner that is asked while a run is active mixes.
LEMMA MixedStays ==
    ASSUME TypeOK, NEW t \in Threads, Moves(t)
    PROVE  /\ mixed => mixed'
           /\ ~Ask(t) => mixed' = mixed
           /\ Ask(t) /\ ~mixed' => t \in Steppers /\ \A c \in Clients : ~Active(c)
  <1> USE DEF TypeOK
  <1>1. CASE Ask(t)
    BY <1>1 DEF Ask
  <1>2. CASE Proceed(t)
    <2>1. mixed' = mixed
      BY <1>2 DEF Proceed, ReadStatus, AcquireLock, CheckRunning, LoadBars, ReadMax, InsertStep,
                  RunStep, CheckFinal, NoBarLeft, RunEnds, Complete, Raises, PersistFailure
    <2>2. Ask(t) => mixed' = (mixed \/ \E c \in Clients : pc[c] # "idle") /\ t \in Steppers
      BY DEF Ask
    <2> QED
      BY <2>1, <2>2
  <1> QED
    BY <1>1, <1>2 DEF Moves

\* To the rows: a new one, or the end of the thread's own.
LEMMA RowEffects ==
    ASSUME TypeOK, OwnerInv, NEW t \in Threads, Moves(t)
    PROVE  /\ ~InsertStep(t) => trigger' = trigger /\ bar' = bar
           /\ InsertStep(t) =>
                 /\ pc[t] = "insert" /\ number[t] \in Steps /\ status[number[t]] = "NONE"
                 /\ cur'[t] = number[t] /\ number'[t] = number[t] /\ next'[t] = next[t]
                 /\ pc'[t] = "work"
                 /\ status'[number[t]] = "RUNNING" /\ bar'[number[t]] = next[t]
                 /\ trigger'[number[t]] = (IF t \in Steppers THEN "MANUAL" ELSE "HISTORICAL")
           /\ \A s \in Steps :
                 /\ InsertStep(t) /\ s # number[t] =>
                       status'[s] = status[s] /\ trigger'[s] = trigger[s] /\ bar'[s] = bar[s]
                 /\ ~InsertStep(t) => \/ status'[s] = status[s]
                                      \/ /\ status[s] = "RUNNING" /\ s = cur[t]
                                         /\ Ended(s)' /\ cur'[t] = NoStep
  <1> USE DEF TypeOK
  <1>1. CASE InsertStep(t)
    BY <1>1 DEF InsertStep
  <1>2. CASE RunStep(t)
    <2>1. cur[t] \in Steps /\ status[cur[t]] = "RUNNING"
      BY <1>2 DEF OwnerInv, RunStep
    <2>2. /\ status' = [status EXCEPT ![cur[t]] = "COMPLETED"]
          /\ trigger' = trigger /\ bar' = bar
          /\ cur' = [cur EXCEPT ![t] = NoStep] /\ pc[t] = "work"
      BY <1>2 DEF RunStep
    <2> QED
      BY <2>1, <2>2 DEF Ended, InsertStep
  <1>3. CASE PersistFailure(t)
    <2>1. \A s \in Steps : s = cur[t] => status[s] = "RUNNING"
      BY StepNumbers DEF OwnerInv
    <2> QED
      BY <1>3, <2>1 DEF PersistFailure, Ended, InsertStep
  <1>4. CASE ~InsertStep(t) /\ ~RunStep(t) /\ ~PersistFailure(t)
    <2>1. status' = status /\ trigger' = trigger /\ bar' = bar
      BY <1>4 DEF Moves, Proceed, Ask, ReadStatus, AcquireLock, CheckRunning, LoadBars, ReadMax,
                  CheckFinal, NoBarLeft, RunEnds, Complete, Raises
    <2> QED
      BY <1>4, <2>1
  <1> QED
    BY <1>1, <1>2, <1>3, <1>4

\* Rows that exist stay, and those that have ended stay what they are.
LEMMA RowsStay ==
    ASSUME TypeOK, OwnerInv, NEW t \in Threads, Moves(t), NEW s \in Steps
    PROVE  /\ status[s] # "NONE" =>
                 status'[s] # "NONE" /\ bar'[s] = bar[s] /\ trigger'[s] = trigger[s]
           /\ Ended(s) => status'[s] = status[s]
           /\ status'[s] = "RUNNING" => status[s] = "RUNNING" \/ (InsertStep(t) /\ s = number[t])
           /\ status[s] = "RUNNING" /\ s # cur[t] => status'[s] = "RUNNING"
           /\ ~InsertStep(t) /\ status[s] = "NONE" => status'[s] = "NONE"
  BY RowEffects DEF Ended

\* The rows are numbered 1 to n, before and after.
LEMMA RowCount ==
    ASSUME TypeOK, OwnerInv, NEW t \in Threads, Moves(t), NEW n, RowsAre(n)
    PROVE  /\ ~InsertStep(t) => RowsAre(n)'
           /\ InsertStep(t) => number[t] = n + 1 /\ RowsAre(number[t])'
  <1>1. n \in Nat /\ n <= MaxSteps /\ \A s \in Steps : status[s] # "NONE" <=> s <= n
    BY HistoricalAssumption DEF RowsAre
  <1>2. CASE ~InsertStep(t)
    <2>1. \A s \in Steps : status'[s] # "NONE" <=> status[s] # "NONE"
      BY <1>2, RowsStay
    <2> QED
      BY <1>1, <1>2, <2>1 DEF RowsAre
  <1>3. CASE InsertStep(t)
    <2> DEFINE k == number[t]
    <2>1. /\ k \in Steps /\ status[k] = "NONE" /\ status'[k] = "RUNNING"
          /\ \A s \in Steps : s # k => status'[s] = status[s]
          /\ \A r \in Steps : r < k => status[r] # "NONE"
      BY <1>3, RowEffects DEF OwnerInv
    <2> HIDE DEF k
    <2>2. k \in Nat /\ 1 <= k /\ k <= MaxSteps /\ k > n
      BY <1>1, <2>1, StepNumbers
    <2>3. k = n + 1
      <3> SUFFICES ASSUME k > n + 1 PROVE FALSE
        BY <1>1, <2>2
      <3>1. n + 1 \in Steps
        BY <1>1, <2>2, HistoricalAssumption DEF Steps
      <3>2. status[n + 1] # "NONE"
        BY <2>1, <3>1
      <3> QED
        BY <1>1, <3>1, <3>2
    <2>4. \A s \in Steps : status'[s] # "NONE" <=> s <= k
      BY <1>1, <2>1, <2>2, <2>3, StepNumbers
    <2>5. k \in 0..MaxSteps
      BY <2>2, HistoricalAssumption
    <2>6. RowsAre(k)'
      BY <1>3, <2>4, <2>5, RowEffects DEF RowsAre, k
    <2> QED
      BY <1>3, <2>3, <2>6, RowEffects DEF k, RowsAre
  <1> QED
    BY <1>2, <1>3

-----------------------------------------------------------------------------
(***************************************************************************)
(* Types                                                                   *)
(***************************************************************************)

LEMMA MoveTypes ==
    ASSUME TypeOK, OwnerInv, ClientInv, \E n \in 0..MaxSteps : RowsAre(n),
           NEW t \in Threads, Moves(t)
    PROVE  TypeOK'
  <1> USE DEF TypeOK
  <1>0. /\ NoStep \in Nat /\ 0 \in Nat /\ 0 \in 0..NumBars
        /\ \A s \in Steps : s \in Nat
    BY StepNumbers, HistoricalAssumption
  <1>1. CASE Ask(t)
    BY <1>1 DEF Ask, Locations
  <1>2. CASE ReadStatus(t) \/ LoadBars(t)
    BY <1>0, <1>2 DEF ReadStatus, LoadBars, Locations
  <1>3. CASE AcquireLock(t) \/ CheckRunning(t)
    <2>1. t \in Steppers
      BY <1>3 DEF AcquireLock, CheckRunning, Threads, ClientInv
    <2>2. CASE AcquireLock(t)
      BY <1>0, <2>1, <2>2 DEF AcquireLock, Locations
    <2>3. CASE CheckRunning(t)
      <3>1. CASE HasRunningStep
        BY <1>0, <2>1, <2>3, <3>1 DEF CheckRunning, Release, Locations
      <3>2. CASE ~HasRunningStep
        BY <1>0, <2>1, <2>3, <3>2 DEF CheckRunning, Locations
      <3> QED
        BY <3>1, <3>2
    <2> QED
      BY <1>3, <2>2, <2>3
  <1>4. CASE ReadMax(t)
    <2>1. MaxSequenceNumber \in Nat
      <3>1. PICK n \in 0..MaxSteps : RowsAre(n)
        OBVIOUS
      <3>2. MaxSequenceNumber = n
        BY <3>1, MaxIsLast
      <3> QED
        BY <3>2, HistoricalAssumption
    <2>2. NextBar(t) \in Nat
      BY <2>1 DEF NextBar
    <2> QED
      BY <1>4, <2>1, <2>2 DEF ReadMax, Locations
  <1>5. CASE InsertStep(t)
    <2>1. next[t] \in 0..NumBars
      BY <1>5, HistoricalAssumption DEF InsertStep, OwnerInv, IsBar
    <2>2. number[t] \in Steps
      BY <1>5 DEF InsertStep
    <2>3. status' \in [Steps -> StepStatus] /\ trigger' \in [Steps -> TriggerType]
      BY <1>5 DEF InsertStep, StepStatus, TriggerType
    <2>4. bar' \in [Steps -> 0..NumBars]
      BY <1>5, <2>1 DEF InsertStep
    <2>5. cur' \in [Threads -> Steps \cup {NoStep}]
      BY <1>5, <2>2 DEF InsertStep
    <2> QED
      BY <1>5, <2>3, <2>4, <2>5 DEF InsertStep, Release, Locations
  <1>6. CASE RunStep(t)
    <2>1. status' \in [Steps -> StepStatus] /\ cur' \in [Threads -> Steps \cup {NoStep}]
      BY <1>6 DEF RunStep, StepStatus
    <2>2. pc' \in [Threads -> Locations] /\ next' \in [Threads -> Nat]
      BY <1>6 DEF RunStep, Locations
    <2> QED
      BY <1>6, <2>1, <2>2 DEF RunStep
  <1>7. CASE CheckFinal(t)
    BY <1>0, <1>7 DEF CheckFinal, Locations
  <1>8. CASE NoBarLeft(t) \/ RunEnds(t) \/ Complete(t)
    BY <1>0, <1>8 DEF NoBarLeft, RunEnds, Complete, Release, Locations, ExperimentStatus
  <1>9. CASE Raises(t)
    BY <1>9 DEF Raises, Release, Locations
  <1>10. CASE PersistFailure(t)
    <2>1. status' \in [Steps -> StepStatus]
      BY <1>10 DEF PersistFailure, StepStatus
    <2> QED
      BY <1>0, <1>10, <2>1 DEF PersistFailure, Locations, ExperimentStatus
  <1> QED
    BY <1>1, <1>2, <1>3, <1>4, <1>5, <1>6, <1>7, <1>8, <1>9, <1>10 DEF Moves, Proceed

-----------------------------------------------------------------------------
(***************************************************************************)
(* Where a thread comes from                                               *)
(***************************************************************************)

LEMMA WaysIn ==
    ASSUME TypeOK, ClientInv, NEW t \in Threads, Moves(t)
    PROVE  /\ Active(t)' => Active(t) \/ Ask(t)
           /\ pc'[t] = "check" => AcquireLock(t)
           /\ pc'[t] = "load" => CheckRunning(t)
           /\ pc'[t] = "read" => LoadBars(t) \/ (RunStep(t) /\ t \in Clients)
           /\ pc'[t] = "insert" => ReadMax(t)
           /\ pc'[t] = "work" => InsertStep(t)
           /\ pc'[t] = "final" => RunStep(t) /\ t \in Steppers
           /\ pc'[t] = "complete" => CheckFinal(t) /\ IsFinalBar(t)
           /\ pc'[t] = "failing" => Raises(t)
           /\ pc'[t] = "status" => Ask(t)
           /\ pc'[t] = "lock" => ReadStatus(t)
  <1> USE DEF TypeOK
  <1>1. CASE Ask(t)
    BY <1>1 DEF Ask
  <1>2. CASE ReadStatus(t)
    BY <1>2 DEF ReadStatus
  <1>3. CASE AcquireLock(t)
    BY <1>3 DEF AcquireLock
  <1>4. CASE CheckRunning(t)
    BY <1>4 DEF CheckRunning
  <1>5. CASE LoadBars(t)
    BY <1>5 DEF LoadBars
  <1>6. CASE ReadMax(t)
    BY <1>6 DEF ReadMax
  <1>7. CASE InsertStep(t)
    BY <1>7 DEF InsertStep
  <1>8. CASE RunStep(t)
    BY <1>8 DEF RunStep, Threads
  <1>9. CASE CheckFinal(t)
    BY <1>9 DEF CheckFinal
  <1>10. CASE NoBarLeft(t) \/ RunEnds(t) \/ Complete(t) \/ PersistFailure(t)
    BY <1>10 DEF NoBarLeft, RunEnds, Complete, PersistFailure
  <1>11. CASE Raises(t)
    BY <1>11 DEF Raises
  <1> QED
    BY <1>1, <1>2, <1>3, <1>4, <1>5, <1>6, <1>7, <1>8, <1>9, <1>10, <1>11 DEF Moves, Proceed

\* Only a step runner is where the lock counts, and the lock is taken and given
\* back by whoever moves.
LEMMA LockMoves ==
    ASSUME TypeOK, ClientInv, LockInv, NEW t \in Threads, Moves(t)
    PROVE  /\ \/ lock' = lock
              \/ AcquireLock(t) /\ lock = Nobody /\ lock' = t
              \/ lock = t /\ lock' = Nobody /\ pc'[t] \notin {"check", "load", "read", "insert"}
           /\ pc'[t] \in {"load", "read", "insert"} /\ t \in Steppers =>
                 lock' = lock /\ pc[t] \in {"check", "load", "read", "insert"}
           /\ pc'[t] = "check" => AcquireLock(t) /\ lock' = t
  <1> USE DEF TypeOK
  <1>1. CASE Ask(t)
    BY <1>1 DEF Ask
  <1>2. CASE ReadStatus(t)
    BY <1>2 DEF ReadStatus
  <1>3. CASE AcquireLock(t)
    BY <1>3 DEF AcquireLock
  <1>4. CASE CheckRunning(t)
    BY <1>4 DEF CheckRunning, Release
  <1>5. CASE LoadBars(t) \/ ReadMax(t)
    BY <1>5 DEF LoadBars, ReadMax
  <1>6. CASE InsertStep(t)
    BY <1>6 DEF InsertStep, Release
  <1>7. CASE RunStep(t)
    <2>1. t \in Steppers \/ t \in Clients
      BY DEF Threads
    <2> QED
      BY <1>7, <2>1 DEF RunStep
  <1>8. CASE CheckFinal(t) \/ RunEnds(t) \/ Complete(t) \/ PersistFailure(t)
    BY <1>8 DEF CheckFinal, RunEnds, Complete, PersistFailure
  <1>9. CASE NoBarLeft(t) \/ Raises(t)
    BY <1>9 DEF NoBarLeft, Raises, Release
  <1> QED
    BY <1>1, <1>2, <1>3, <1>4, <1>5, <1>6, <1>7, <1>8, <1>9 DEF Moves, Proceed

\* A step runner and a client differ.
LEMMA Apart ==
    ASSUME NEW c \in Clients, NEW t \in Steppers
    PROVE  c # t /\ c # Nobody /\ t # Nobody /\ c \notin Steppers /\ t \notin Clients
  BY HistoricalAssumption

-----------------------------------------------------------------------------
(***************************************************************************)
(* A move keeps each part of the invariant                                 *)
(***************************************************************************)

LEMMA MoveLock ==
    ASSUME TypeOK, ClientInv, LockInv, NEW t \in Threads, Moves(t)
    PROVE  LockInv'
  <1> SUFFICES ASSUME NEW u \in Steppers, pc'[u] \in {"check", "load", "read", "insert"}
               PROVE  lock' = u
    BY DEF LockInv
  <1>1. CASE u = t
    BY <1>1, LockMoves DEF LockInv
  <1>2. CASE u # t
    <2>1. pc'[u] = pc[u]
      BY <1>2, OthersStay DEF Threads
    <2>2. lock = u
      BY <2>1 DEF LockInv
    <2> QED
      BY <1>2, <2>2, LockMoves, HistoricalAssumption DEF Threads
  <1> QED
    BY <1>1, <1>2

LEMMA MoveAlone ==
    ASSUME TypeOK, ClientInv, AloneInv, NEW t \in Threads, Moves(t)
    PROVE  AloneInv'
  <1> SUFFICES ASSUME ~mixed', NEW c \in Clients, pc'[c] # "idle",
                      NEW u \in Threads \ {c}, pc'[u] # "idle"
               PROVE  FALSE
    BY DEF AloneInv
  <1>1. ~mixed /\ c \in Threads
    BY MixedStays DEF Threads
  <1>2. Ask(t) => t \in Steppers /\ t # c /\ pc[c] = "idle" /\ pc'[c] = pc[c]
    BY <1>1, MixedStays, OthersStay, Apart
  <1>3. ~Ask(t)
    BY <1>2
  <1>4. pc[c] # "idle" /\ pc[u] # "idle"
    BY <1>1, <1>3, WaysIn, OthersStay
  <1> QED
    BY <1>1, <1>4 DEF AloneInv

\* A verdict never makes the experiment CREATED again.
LEMMA StatusMoves ==
    ASSUME NEW t \in Threads, Moves(t)
    PROVE  /\ expStatus' # expStatus => expStatus' \in {"COMPLETED", "FAILED"}
           /\ expStatus' = "COMPLETED" =>
                 expStatus = "COMPLETED" \/ NoBarLeft(t) \/ RunEnds(t) \/ Complete(t)
  <1>1. CASE NoBarLeft(t) \/ RunEnds(t) \/ Complete(t)
    BY <1>1 DEF NoBarLeft, RunEnds, Complete
  <1>2. CASE PersistFailure(t)
    BY <1>2 DEF PersistFailure
  <1>3. CASE ~NoBarLeft(t) /\ ~RunEnds(t) /\ ~Complete(t) /\ ~PersistFailure(t)
    BY <1>3 DEF Moves, Proceed, Ask, ReadStatus, AcquireLock, CheckRunning, LoadBars, ReadMax,
                InsertStep, RunStep, CheckFinal, Raises
  <1> QED
    BY <1>1, <1>2, <1>3

LEMMA MoveClient ==
    ASSUME TypeOK, TypeOK', ClientInv, NEW t \in Threads, Moves(t)
    PROVE  ClientInv'
  <1> SUFFICES ASSUME NEW c \in Clients
               PROVE  /\ pc'[c] \in {"idle", "load", "read", "insert", "work", "failing"}
                      /\ pc'[c] # "idle" => expStatus' # "CREATED" /\ pending'[c] # "start"
    BY DEF ClientInv
  <1>1. c \in Threads /\ c \notin Steppers /\ pending' = pending
    BY OthersStay, HistoricalAssumption DEF Threads
  <1>2. expStatus # "CREATED" => expStatus' # "CREATED"
    BY StatusMoves
  <1>3. pc[c] \in {"idle", "load", "read", "insert", "work", "failing"}
    BY DEF ClientInv
  <1>4. CASE c # t
    <2>1. pc'[c] = pc[c]
      BY <1>1, <1>4, OthersStay
    <2> QED
      BY <1>1, <1>2, <2>1 DEF ClientInv
  <1>5. CASE c = t
    <2>1. ~Ask(t)
      BY <1>1, <1>5 DEF Ask
    <2>2. pc'[c] # "idle" => pc[c] # "idle"
      BY <1>5, <2>1, WaysIn
    <2>3. pc'[c] \in Locations
      BY <1>1 DEF TypeOK
    <2>4. pc'[c] \notin {"status", "lock", "check", "final", "complete"}
      BY <1>1, <1>3, <1>5, <2>1, WaysIn DEF ReadStatus, AcquireLock, CheckFinal
    <2>5. pc'[c] \in {"idle", "load", "read", "insert", "work", "failing"}
      BY <2>3, <2>4 DEF Locations
    <2> QED
      BY <1>1, <1>2, <2>2, <2>5 DEF ClientInv
  <1> QED
    BY <1>4, <1>5

LEMMA MoveOwner ==
    ASSUME TypeOK, OwnerInv, ClientInv, \E n \in 0..MaxSteps : RowsAre(n),
           NEW t \in Threads, Moves(t)
    PROVE  OwnerInv'
  <1>1. \/ cur'[t] = NoStep
        \/ InsertStep(t) /\ cur'[t] = number[t] /\ status[number[t]] = "NONE"
        \/ Raises(t) /\ cur'[t] = cur[t] /\ status' = status
    <2> USE DEF TypeOK
    <2>1. CASE InsertStep(t) \/ RunStep(t)
      BY <2>1 DEF InsertStep, RunStep
    <2>2. CASE Raises(t)
      BY <2>2 DEF Raises
    <2>3. CASE ReadStatus(t) \/ AcquireLock(t) \/ CheckRunning(t) \/ LoadBars(t) \/ ReadMax(t)
      BY <2>3 DEF ReadStatus, AcquireLock, CheckRunning, LoadBars, ReadMax, OwnerInv
    <2>4. CASE Ask(t)
      BY <2>4 DEF Ask, OwnerInv
    <2>5. CASE CheckFinal(t) \/ NoBarLeft(t) \/ RunEnds(t) \/ Complete(t) \/ PersistFailure(t)
      BY <2>5 DEF CheckFinal, NoBarLeft, RunEnds, Complete, PersistFailure, OwnerInv
    <2> QED
      BY <2>1, <2>2, <2>3, <2>4, <2>5 DEF Moves, Proceed
  <1>2. \A u \in Threads : cur[u] # NoStep => cur[u] \in Steps
    BY DEF TypeOK
  <1>3. ASSUME NEW u \in Threads \ {t}
        PROVE  /\ cur'[u] # NoStep => status'[cur'[u]] = "RUNNING" /\ pc'[u] \in {"work", "failing"}
               /\ pc'[u] = "work" => cur'[u] # NoStep
               /\ pc'[u] = "insert" =>
                    /\ number'[u] >= 1 /\ \A r \in Steps : r < number'[u] => status'[r] # "NONE"
                    /\ IsBar(next[u])'
    <2>1. /\ pc'[u] = pc[u] /\ cur'[u] = cur[u] /\ number'[u] = number[u] /\ next'[u] = next[u]
          /\ u \in Threads /\ u # t
      BY <1>3, OthersStay
    <2>2. cur[u] # NoStep => cur[u] # cur[t] /\ cur[u] \in Steps /\ status[cur[u]] = "RUNNING"
      BY <1>2, <2>1 DEF OwnerInv
    <2>3. cur[u] # NoStep => status'[cur[u]] = "RUNNING"
      BY <2>2, RowsStay
    <2>4. \A r \in Steps : status[r] # "NONE" => status'[r] # "NONE"
      BY RowsStay
    <2> QED
      BY <2>1, <2>3, <2>4 DEF OwnerInv, IsBar
  <1>4. cur'[t] # NoStep => status'[cur'[t]] = "RUNNING" /\ pc'[t] \in {"work", "failing"}
    <2>1. CASE InsertStep(t)
      BY <1>1, <2>1, RowEffects
    <2>2. CASE Raises(t)
      BY <1>1, <2>2 DEF OwnerInv, Raises, TypeOK
    <2> QED
      BY <1>1, <2>1, <2>2
  <1>5. pc'[t] = "work" => cur'[t] # NoStep
    BY WaysIn, RowEffects, StepNumbers
  <1>6. pc'[t] = "insert" =>
           /\ number'[t] >= 1 /\ \A r \in Steps : r < number'[t] => status'[r] # "NONE"
           /\ IsBar(next[t])'
    <2> SUFFICES ASSUME pc'[t] = "insert"
                 PROVE  /\ number'[t] >= 1 /\ \A r \in Steps : r < number'[t] => status'[r] # "NONE"
                        /\ IsBar(next[t])'
      OBVIOUS
    <2>1. PICK n \in 0..MaxSteps : RowsAre(n)
      OBVIOUS
    <2>2. ReadMax(t) /\ MaxSequenceNumber = n /\ n \in Nat
      BY <2>1, WaysIn, MaxIsLast, HistoricalAssumption
    <2>3. /\ number'[t] = n + 1 /\ next'[t] = NextBar(t) /\ IsBar(NextBar(t))
          /\ status' = status
      BY <2>2 DEF ReadMax, TypeOK
    <2>4. \A r \in Steps : r < n + 1 => status[r] # "NONE"
      BY <2>1, <2>2, StepNumbers DEF RowsAre
    <2> QED
      BY <2>2, <2>3, <2>4 DEF IsBar
  <1>7. ASSUME NEW u \in Threads \ {t}, cur'[t] # NoStep
        PROVE  cur'[u] # cur'[t]
    <2>1. cur'[u] = cur[u] /\ (cur[u] # NoStep => cur[u] # cur[t] /\ status[cur[u]] = "RUNNING")
      BY <1>7, OthersStay DEF OwnerInv
    <2> QED
      BY <1>1, <1>7, <2>1
  <1>8. \A u, v \in Threads \ {t} : cur'[u] # NoStep /\ cur'[u] = cur'[v] => u = v
    BY OthersStay DEF OwnerInv
  <1>9. \A u, v \in Threads : cur'[u] # NoStep /\ cur'[u] = cur'[v] => u = v
    BY <1>7, <1>8
  <1>10. ASSUME NEW u \in Threads
         PROVE  /\ cur'[u] # NoStep => status'[cur'[u]] = "RUNNING" /\ pc'[u] \in {"work", "failing"}
                /\ pc'[u] = "work" => cur'[u] # NoStep
                /\ pc'[u] = "insert" =>
                     /\ number'[u] >= 1 /\ \A r \in Steps : r < number'[u] => status'[r] # "NONE"
                     /\ IsBar(next[u])'
    <2>1. CASE u = t
      BY <1>4, <1>5, <1>6, <2>1
    <2>2. CASE u # t
      BY <1>3, <2>2
    <2> QED
      BY <2>1, <2>2
  <1> QED
    BY <1>9, <1>10 DEF OwnerInv

\* A step appears while another is RUNNING only in an overlap with a full run.
LEMMA MoveTurns ==
    ASSUME TypeOK, OwnerInv, QuietInv, StepsTakeTurns, NEW t \in Threads, Moves(t)
    PROVE  StepsTakeTurns'
  <1>1. \A s \in Steps : /\ status'[s] = "RUNNING" => status[s] = "RUNNING" \/ (InsertStep(t) /\ s = number[t])
                         /\ status[s] = "RUNNING" => trigger'[s] = trigger[s]
    BY RowsStay
  <1>2. mixed => mixed'
    BY MixedStays
  <1>3. InsertStep(t) =>
           /\ t \in Steppers \/ trigger'[number[t]] = "HISTORICAL"
           /\ \A s \in Steps : status[s] = "RUNNING" /\ (t \in Steppers \/ ~mixed) =>
                 mixed /\ trigger[s] = "HISTORICAL"
    BY RowEffects DEF QuietInv
  <1> SUFFICES ASSUME NEW s \in Steps, NEW r \in Steps,
                      status'[s] = "RUNNING", status'[r] = "RUNNING", s # r
               PROVE  mixed' /\ "HISTORICAL" \in {trigger'[s], trigger'[r]}
    BY DEF StepsTakeTurns
  <1>4. CASE status[s] = "RUNNING" /\ status[r] = "RUNNING"
    BY <1>1, <1>2, <1>4 DEF StepsTakeTurns
  <1>5. CASE status[s] # "RUNNING"
    BY <1>1, <1>2, <1>3, <1>5
  <1>6. CASE status[r] # "RUNNING"
    BY <1>1, <1>2, <1>3, <1>6
  <1> QED
    BY <1>4, <1>5, <1>6

LEMMA MoveQuiet ==
    ASSUME TypeOK, OwnerInv, ClientInv, LockInv, AloneInv, QuietInv, StepsTakeTurns,
           NEW t \in Threads, Moves(t)
    PROVE  QuietInv'
  <1> SUFFICES ASSUME NEW u \in Threads, pc'[u] \in {"load", "read", "insert"},
                      u \in Steppers \/ ~mixed', NEW s \in Steps, status'[s] = "RUNNING"
               PROVE  mixed' /\ trigger'[s] = "HISTORICAL"
    BY DEF QuietInv
  <1>1. (mixed => mixed') /\ (u \in Steppers \/ ~mixed)
    BY MixedStays
  <1>2. \/ status[s] = "RUNNING" /\ trigger'[s] = trigger[s]
        \/ InsertStep(t) /\ s = number[t]
    BY RowsStay
  <1>3. status[s] = "RUNNING" /\ pc[u] \in {"load", "read", "insert"} => mixed /\ trigger[s] = "HISTORICAL"
    BY <1>1 DEF QuietInv
  <1>4. CASE u # t
    <2>1. pc[u] = pc'[u]
      BY <1>4, OthersStay
    <2>2. CASE InsertStep(t) /\ s = number[t]
      <3>1. /\ pc[t] = "insert"
            /\ trigger'[s] = (IF t \in Steppers THEN "MANUAL" ELSE "HISTORICAL")
        BY <2>2, RowEffects
      <3>2. ~(u \in Steppers /\ t \in Steppers)
        BY <1>4, <2>1, <3>1 DEF LockInv
      <3>3. mixed
        <4>1. CASE u \in Clients
          BY <1>4, <2>1, <3>1, <4>1 DEF AloneInv
        <4>2. CASE t \in Clients
          BY <1>4, <2>1, <3>1, <4>2 DEF AloneInv
        <4> QED
          BY <3>2, <4>1, <4>2 DEF Threads
      <3> QED
        BY <1>1, <3>1, <3>2, <3>3
    <2> QED
      BY <1>1, <1>2, <1>3, <2>1, <2>2
  <1>5. CASE u = t
    <2>1. ~InsertStep(t)
      BY <1>5, RowEffects
    <2>2. CASE pc'[t] = "load"
      <3>1. CheckRunning(t) /\ status' = status /\ ~HasRunningStep
        BY <2>2, WaysIn DEF CheckRunning, TypeOK
      <3> QED
        BY <3>1 DEF HasRunningStep
    <2>3. CASE pc[t] \in {"load", "read"}
      BY <1>1, <1>2, <1>3, <1>5, <2>1, <2>3
    <2>4. CASE pc'[t] = "read" /\ RunStep(t)
      <3>1. /\ cur[t] \in Steps /\ status[cur[t]] = "RUNNING" /\ status'[cur[t]] = "COMPLETED"
        BY <2>4 DEF RunStep, OwnerInv, TypeOK
      <3>2. t \notin Steppers
        BY <2>4 DEF RunStep, TypeOK
      <3>3. ~mixed /\ status[s] = "RUNNING"
        BY <1>1, <1>2, <1>5, <2>1, <3>2
      <3> QED
        BY <3>1, <3>3 DEF StepsTakeTurns
    <2>5. pc'[t] = "load" \/ pc[t] \in {"load", "read"} \/ (pc'[t] = "read" /\ RunStep(t))
      BY <1>5, WaysIn DEF LoadBars, ReadMax
    <2> QED
      BY <2>2, <2>3, <2>4, <2>5
  <1> QED
    BY <1>4, <1>5

LEMMA MoveBar ==
    ASSUME TypeOK, OwnerInv, ClientInv, AloneInv, BarInv, \E n \in 0..MaxSteps : RowsAre(n),
           NEW t \in Threads, Moves(t)
    PROVE  BarInv'
  <1> SUFFICES ASSUME ~mixed'
               PROVE  /\ \A u \in Threads : pc'[u] = "insert" => next'[u] = number'[u]
                      /\ \A c \in Clients :
                            /\ pc'[c] \in {"load", "read", "insert"} => RowsAre(next[c] - 1)'
                            /\ pc'[c] = "work" => RowsAre(next[c])'
    BY DEF BarInv
  <1>1. ~mixed
    BY MixedStays
  <1>2. ASSUME NEW u \in Threads, pc'[u] = "insert"
        PROVE  next'[u] = number'[u]
    <2>1. CASE u # t
      BY <1>1, <1>2, <2>1, OthersStay DEF BarInv
    <2>2. CASE u = t
      <3>1. /\ ReadMax(t) /\ pc[t] = "read"
            /\ next'[t] = NextBar(t) /\ number'[t] = MaxSequenceNumber + 1
        BY <1>2, <2>2, WaysIn DEF ReadMax, TypeOK
      <3>2. CASE t \in Steppers
        BY <2>2, <3>1, <3>2 DEF NextBar
      <3>3. CASE t \notin Steppers
        <4>1. t \in Clients /\ next[t] \in Nat
          BY <3>3 DEF Threads, TypeOK
        <4>2. RowsAre(next[t] - 1)
          BY <1>1, <3>1, <4>1 DEF BarInv
        <4>3. MaxSequenceNumber = next[t] - 1
          BY <4>2, MaxIsLast
        <4> QED
          BY <2>2, <3>1, <3>3, <4>1, <4>3 DEF NextBar
      <3> QED
        BY <3>2, <3>3
    <2> QED
      BY <2>1, <2>2
  <1>3. ASSUME NEW c \in Clients
        PROVE  /\ pc'[c] \in {"load", "read", "insert"} => RowsAre(next[c] - 1)'
               /\ pc'[c] = "work" => RowsAre(next[c])'
    <2>0. PICK n \in 0..MaxSteps : RowsAre(n)
      OBVIOUS
    <2>1. n \in Nat /\ c \in Threads /\ c \notin Steppers /\ next[c] \in Nat
      BY HistoricalAssumption DEF Threads, TypeOK
    <2>2. /\ pc[c] \in {"load", "read", "insert"} => next[c] - 1 = n
          /\ pc[c] = "work" => next[c] = n
      BY <1>1, <2>0, RowsDetermine DEF BarInv
    <2>3. ~InsertStep(t) => RowsAre(n)'
      BY <2>0, RowCount
    <2>4. CASE c # t
      <3>1. pc'[c] = pc[c] /\ next'[c] = next[c]
        BY <2>1, <2>4, OthersStay
      <3>2. pc[c] # "idle" => ~InsertStep(t)
        BY <1>1, <2>4, RowEffects DEF AloneInv
      <3> QED
        BY <2>2, <2>3, <3>1, <3>2 DEF RowsAre
    <2>5. CASE c = t
      <3>1. CASE pc'[t] = "load"
        <4>1. pc[t] = "check"
          BY <3>1, WaysIn DEF CheckRunning
        <4> QED
          BY <2>5, <4>1 DEF ClientInv
      <3>2. CASE pc'[t] = "read" /\ LoadBars(t)
        <4>1. pc[t] = "load" /\ next'[t] = next[t] /\ ~InsertStep(t)
          BY <3>2 DEF LoadBars, InsertStep
        <4> QED
          BY <2>2, <2>3, <2>5, <3>2, <4>1 DEF RowsAre
      <3>3. CASE pc'[t] = "read" /\ RunStep(t)
        <4>1. pc[t] = "work" /\ next'[t] = next[t] + 1 /\ ~InsertStep(t)
          BY <2>1, <2>5, <3>3 DEF RunStep, InsertStep, TypeOK
        <4>2. next'[t] - 1 = n
          BY <2>1, <2>2, <2>5, <4>1
        <4> QED
          BY <2>3, <2>5, <3>3, <4>1, <4>2 DEF RowsAre
      <3>4. CASE pc'[t] = "insert"
        <4>1. ReadMax(t)
          BY <3>4, WaysIn
        <4>2. pc[t] = "read" /\ next'[t] = next[t] /\ ~InsertStep(t)
          BY <2>1, <2>5, <4>1 DEF ReadMax, NextBar, InsertStep, TypeOK
        <4> QED
          BY <2>2, <2>3, <2>5, <3>4, <4>2 DEF RowsAre
      <3>5. CASE pc'[t] = "work"
        <4>1. InsertStep(t)
          BY <3>5, WaysIn
        <4>2. RowsAre(number[t])' /\ number'[t] = number[t] /\ next'[t] = next[t] /\ pc[t] = "insert"
          BY <2>0, <4>1, RowCount, RowEffects
        <4>3. next[t] = number[t]
          BY <1>1, <4>2 DEF BarInv
        <4> QED
          BY <2>5, <3>5, <4>2, <4>3 DEF RowsAre
      <3>6. pc'[t] = "read" => LoadBars(t) \/ RunStep(t)
        BY WaysIn
      <3> QED
        BY <2>5, <3>1, <3>2, <3>3, <3>4, <3>5, <3>6
    <2> QED
      BY <2>4, <2>5
  <1> QED
    BY <1>2, <1>3

LEMMA MoveBehind ==
    ASSUME TypeOK, OwnerInv, ClientInv, QuietInv, BehindInv, NEW t \in Threads, Moves(t)
    PROVE  BehindInv'
  <1> SUFFICES ASSUME ~mixed', NEW u \in Steppers
               PROVE  /\ pc'[u] = "work" =>
                            number'[u] = cur'[u] /\ \A s \in Steps : s < number'[u] => Ended(s)'
                      /\ pc'[u] \in {"final", "complete"} =>
                            number'[u] \in Steps /\ \A s \in Steps : s <= number'[u] => Ended(s)'
                      /\ pc'[u] = "complete" => NumBars <= number'[u]
    BY DEF BehindInv
  <1>1. ~mixed /\ u \in Threads
    BY MixedStays DEF Threads
  <1>2. \A s \in Steps : Ended(s) => Ended(s)'
    BY RowsStay DEF Ended
  <1>3. CASE u # t
    <2>1. pc'[u] = pc[u] /\ cur'[u] = cur[u] /\ number'[u] = number[u]
      BY <1>1, <1>3, OthersStay
    <2> QED
      BY <1>1, <1>2, <2>1 DEF BehindInv
  <1>4. CASE u = t
    <2>1. ASSUME pc'[t] = "work"
          PROVE  number'[t] = cur'[t] /\ \A s \in Steps : s < number'[t] => Ended(s)'
      <3>1. InsertStep(t) /\ pc[t] = "insert" /\ number'[t] = number[t] /\ cur'[t] = number[t]
        BY <2>1, WaysIn, RowEffects
      <3>2. \A s \in Steps : s < number[t] => status[s] # "NONE"
        BY <3>1 DEF OwnerInv
      <3>3. \A s \in Steps : status[s] # "RUNNING"
        BY <1>1, <3>1 DEF QuietInv
      <3>4. \A s \in Steps : status[s] \in StepStatus
        BY DEF TypeOK
      <3>5. \A s \in Steps : s < number[t] => Ended(s)
        BY <3>2, <3>3, <3>4 DEF StepStatus, Ended
      <3> QED
        BY <1>2, <3>1, <3>5
    <2>2. ASSUME pc'[t] = "final"
          PROVE  number'[t] \in Steps /\ \A s \in Steps : s <= number'[t] => Ended(s)'
      <3>1. RunStep(t)
        BY <2>2, WaysIn
      <3>2. /\ cur[t] \in Steps /\ status'[cur[t]] = "COMPLETED" /\ number' = number
            /\ pc[t] = "work"
        BY <3>1 DEF RunStep, OwnerInv, TypeOK
      <3>3. number[t] = cur[t] /\ \A s \in Steps : s < number[t] => Ended(s)
        BY <1>1, <1>4, <3>2 DEF BehindInv
      <3>4. \A r, s \in Steps : s <= r => s < r \/ s = r
        BY StepNumbers
      <3>5. \A s \in Steps : s <= number[t] => s < number[t] \/ s = number[t]
        BY <3>2, <3>3, <3>4
      <3>6. status'[number[t]] \in {"COMPLETED", "FAILED"}
        BY <3>2, <3>3
      <3>7. \A s \in Steps : s < number[t] => Ended(s)'
        BY <1>2, <3>3
      <3> QED
        BY <3>2, <3>3, <3>5, <3>6, <3>7 DEF Ended
    <2>3. ASSUME pc'[t] = "complete"
          PROVE  /\ number'[t] \in Steps /\ \A s \in Steps : s <= number'[t] => Ended(s)'
                 /\ NumBars <= number'[t]
      <3>1. CheckFinal(t) /\ IsFinalBar(t)
        BY <2>3, WaysIn
      <3>2. pc[t] = "final" /\ number'[t] = number[t]
        BY <2>3, <3>1 DEF CheckFinal, TypeOK
      <3>3. NumBars <= number[t]
        BY <3>1, HistoricalAssumption DEF IsFinalBar, TypeOK
      <3> QED
        BY <1>1, <1>2, <1>4, <3>2, <3>3 DEF BehindInv
    <2> QED
      BY <1>4, <2>1, <2>2, <2>3
  <1> QED
    BY <1>3, <1>4

LEMMA MoveInOrder ==
    ASSUME TypeOK, OwnerInv, BarInv, BarsInOrder, NEW t \in Threads, Moves(t)
    PROVE  BarsInOrder'
  <1> SUFFICES ASSUME ~mixed', NEW s \in Steps, status'[s] # "NONE"
               PROVE  bar'[s] = s
    BY DEF BarsInOrder
  <1>1. ~mixed
    BY MixedStays
  <1>2. CASE status[s] # "NONE"
    BY <1>1, <1>2, RowsStay DEF BarsInOrder
  <1>3. CASE status[s] = "NONE"
    <2>1. InsertStep(t) /\ s = number[t]
      BY <1>3, RowsStay, RowEffects
    <2>2. bar'[s] = next[t] /\ next[t] = number[t]
      BY <1>1, <2>1, RowEffects DEF BarInv
    <2> QED
      BY <2>1, <2>2
  <1> QED
    BY <1>2, <1>3

\* The experiment is completed behind the last bar.
LEMMA MoveCovered ==
    ASSUME TypeOK, OwnerInv, ClientInv, QuietInv, BarInv, BehindInv, BarsInOrder, CompletedIsCovered,
           \E n \in 0..MaxSteps : RowsAre(n), NEW t \in Threads, Moves(t)
    PROVE  CompletedIsCovered'
  <1> SUFFICES ASSUME ~mixed', expStatus' = "COMPLETED", NEW b \in 1..NumBars
               PROVE  \E s \in Steps : bar'[s] = b /\ status'[s] \in {"COMPLETED", "FAILED"}
    BY DEF CompletedIsCovered
  <1>1. ~mixed
    BY MixedStays
  <1>2. \A s \in Steps : Ended(s) => status'[s] = status[s] /\ bar'[s] = bar[s]
    BY RowsStay DEF Ended
  <1>3. CASE expStatus = "COMPLETED"
    <2>1. PICK s \in Steps : bar[s] = b /\ Ended(s)
      BY <1>1, <1>3 DEF CompletedIsCovered, Ended
    <2> QED
      BY <1>2, <2>1 DEF Ended
  <1>4. CASE b \in Steps /\ Ended(b)
    <2>1. bar[b] = b
      BY <1>1, <1>4 DEF BarsInOrder, Ended
    <2> QED
      BY <1>2, <1>4, <2>1 DEF Ended
  <1>5. CASE NoBarLeft(t) \/ RunEnds(t)
    <2>1. PICK n \in 0..MaxSteps : RowsAre(n)
      OBVIOUS
    <2>2. MaxSequenceNumber = n /\ n \in Nat /\ n <= MaxSteps
      BY <2>1, MaxIsLast, HistoricalAssumption
    <2>3. pc[t] = "read" /\ ~(NextBar(t) <= NumBars)
      BY <1>5 DEF NoBarLeft, RunEnds, IsBar
    <2>4. NextBar(t) = n + 1
      <3>1. CASE t \in Steppers
        BY <2>2, <3>1 DEF NextBar
      <3>2. CASE t \notin Steppers
        <4>1. t \in Clients /\ next[t] \in Nat
          BY <3>2 DEF Threads, TypeOK
        <4>2. RowsAre(next[t] - 1)
          BY <1>1, <2>3, <4>1 DEF BarInv
        <4>3. next[t] - 1 = n
          BY <2>1, <4>2, RowsDetermine
        <4> QED
          BY <2>2, <3>2, <4>1, <4>3 DEF NextBar
      <3> QED
        BY <3>1, <3>2
    <2>5. b \in Nat /\ 1 <= b /\ b <= n /\ b <= MaxSteps
      BY <2>2, <2>3, <2>4, HistoricalAssumption
    <2>6. b \in Steps /\ status[b] # "NONE"
      BY <2>1, <2>5, HistoricalAssumption DEF Steps, RowsAre
    <2>7. status[b] # "RUNNING" /\ status[b] \in StepStatus
      BY <1>1, <2>3, <2>6 DEF QuietInv, TypeOK
    <2> QED
      BY <1>4, <2>6, <2>7 DEF Ended, StepStatus
  <1>6. CASE Complete(t)
    <2>1. pc[t] = "complete" /\ t \in Steppers
      BY <1>6 DEF Complete, ClientInv, Threads
    <2>2. /\ NumBars <= number[t] /\ number[t] \in Steps
          /\ \A s \in Steps : s <= number[t] => Ended(s)
      BY <1>1, <2>1 DEF BehindInv
    <2>3. b \in Steps /\ b <= number[t]
      BY <2>2, StepNumbers, HistoricalAssumption DEF Steps
    <2> QED
      BY <1>4, <2>2, <2>3
  <1> QED
    BY <1>3, <1>5, <1>6, StatusMoves

LEMMA MoveInv ==
    ASSUME IInv, NEW t \in Threads, Moves(t)
    PROVE  IInv'
  <1>1. /\ TypeOK /\ OwnerInv /\ ClientInv /\ LockInv /\ AloneInv /\ QuietInv /\ BarInv
        /\ BehindInv /\ StepsTakeTurns /\ BarsInOrder /\ CompletedIsCovered
    BY DEF IInv
  <1>2. PICK n \in 0..MaxSteps : RowsAre(n)
    BY DEF IInv
  <1>3. \E m \in 0..MaxSteps : RowsAre(m)
    BY <1>2
  <1>4. TypeOK'
    BY <1>1, <1>3, MoveTypes
  <1>5. (\E m \in 0..MaxSteps : RowsAre(m))'
    <2>1. CASE ~InsertStep(t)
      BY <1>1, <1>2, <2>1, RowCount
    <2>2. CASE InsertStep(t)
      <3>1. RowsAre(number[t])'
        BY <1>1, <1>2, <2>2, RowCount
      <3> QED
        BY <3>1 DEF RowsAre
    <2> QED
      BY <2>1, <2>2
  <1>6. OwnerInv' /\ ClientInv' /\ LockInv' /\ AloneInv'
    BY <1>1, <1>3, <1>4, MoveOwner, MoveClient, MoveLock, MoveAlone
  <1>7. QuietInv' /\ StepsTakeTurns'
    BY <1>1, MoveQuiet, MoveTurns
  <1>8. BarInv' /\ BehindInv'
    BY <1>1, <1>3, MoveBar, MoveBehind
  <1>9. BarsInOrder' /\ CompletedIsCovered'
    BY <1>1, <1>3, MoveInOrder, MoveCovered
  <1> QED
    BY <1>4, <1>5, <1>6, <1>7, <1>8, <1>9 DEF IInv

-----------------------------------------------------------------------------
(***************************************************************************)
(* Requests, crashes                                                       *)
(***************************************************************************)

\* Neither a request that is read nor one that commits another status than
\* RUNNING touches threads or rows.
LEMMA RequestInv ==
    ASSUME IInv, NEW c \in Clients,
           CommitLifecycle(c) \/ \E a \in LifecycleActions : ReadLifecycle(c, a)
    PROVE  IInv'
  <1> USE DEF IInv
  <1>1. /\ status' = status /\ trigger' = trigger /\ bar' = bar /\ lock' = lock
        /\ pc' = pc /\ cur' = cur /\ number' = number /\ next' = next
        /\ crashes' = crashes /\ mixed' = mixed
    BY DEF CommitLifecycle, ReadLifecycle
  <1>2. /\ expStatus' = expStatus \/ expStatus' \in {"RUNNING", "PAUSED", "STOPPED"}
        /\ pending' \in [Clients -> LifecycleActions \cup {"none"}]
        /\ \A d \in Clients : pending'[d] = "start" => pending[d] = "start" \/ expStatus' = "CREATED"
    <2>1. CASE CommitLifecycle(c)
      BY <2>1 DEF CommitLifecycle, TypeOK, TargetStatuses, LifecycleActions
    <2>2. ASSUME NEW a \in LifecycleActions, ReadLifecycle(c, a)
          PROVE  /\ expStatus' = expStatus
                 /\ pending' \in [Clients -> LifecycleActions \cup {"none"}]
                 /\ \A d \in Clients :
                       pending'[d] = "start" => pending[d] = "start" \/ expStatus' = "CREATED"
      BY <2>2 DEF ReadLifecycle, TypeOK, ValidTransition, LifecycleTransitions
    <2> QED
      BY <2>1, <2>2
  <1>3. TypeOK'
    BY <1>1, <1>2 DEF TypeOK, ExperimentStatus
  <1>4. (\E n \in 0..MaxSteps : RowsAre(n))'
    BY <1>1 DEF RowsAre
  <1>5. OwnerInv' /\ LockInv' /\ AloneInv' /\ QuietInv'
    BY <1>1 DEF OwnerInv, LockInv, AloneInv, QuietInv, IsBar
  <1>6. BarInv' /\ BehindInv' /\ StepsTakeTurns' /\ BarsInOrder'
    BY <1>1 DEF BarInv, BehindInv, StepsTakeTurns, BarsInOrder, RowsAre, Ended
  <1>7. ClientInv'
    BY <1>1, <1>2 DEF ClientInv
  <1>8. CompletedIsCovered'
    BY <1>1, <1>2 DEF CompletedIsCovered
  <1> QED
    BY <1>3, <1>4, <1>5, <1>6, <1>7, <1>8

\* A full run starts alone and before any step, or it is mixed.
LEMMA StartInv ==
    ASSUME IInv, NEW c \in Clients, CommitStart(c)
    PROVE  IInv'
  <1> USE DEF IInv
  <1>1. /\ status' = status /\ trigger' = trigger /\ bar' = bar /\ lock' = lock
        /\ cur' = cur /\ number' = number /\ crashes' = crashes
        /\ expStatus' = "RUNNING" /\ pending[c] = "start" /\ c \in Threads
        /\ mixed' = (mixed \/ (\E t \in Threads : pc[t] # "idle") \/ MaxSequenceNumber > 0)
    BY DEF CommitStart, Threads
  <1>2. /\ pc' = [pc EXCEPT ![c] = "load"] /\ next' = [next EXCEPT ![c] = 1]
        /\ pending' = [pending EXCEPT ![c] = "none"]
    BY DEF CommitStart
  <1>3. /\ pc'[c] = "load" /\ next'[c] = 1 /\ pending'[c] = "none"
        /\ \A t \in Threads \ {c} : pc'[t] = pc[t] /\ next'[t] = next[t]
        /\ \A d \in Clients \ {c} : pending'[d] = pending[d]
    BY <1>1, <1>2 DEF TypeOK
  <1>4. pc[c] = "idle"
    BY <1>1 DEF ClientInv
  <1>5. TypeOK'
    <2>1. pc' \in [Threads -> Locations] /\ next' \in [Threads -> Nat]
      BY <1>2 DEF TypeOK, Locations
    <2>2. pending' \in [Clients -> LifecycleActions \cup {"none"}]
      BY <1>2 DEF TypeOK
    <2>3. mixed' \in BOOLEAN /\ expStatus' \in ExperimentStatus
      BY <1>1 DEF ExperimentStatus
    <2> QED
      BY <1>1, <2>1, <2>2, <2>3 DEF TypeOK
  <1>6. (\E n \in 0..MaxSteps : RowsAre(n))'
    BY <1>1 DEF RowsAre
  <1>7. cur[c] = NoStep
    BY <1>1, <1>4 DEF OwnerInv
  <1>8. OwnerInv'
    <2>1. \A t \in Threads : pc'[t] # pc[t] => t = c
      BY <1>3
    <2>2. ASSUME NEW t \in Threads
          PROVE  /\ cur'[t] # NoStep => status'[cur'[t]] = "RUNNING" /\ pc'[t] \in {"work", "failing"}
                 /\ pc'[t] = "work" => cur'[t] # NoStep
                 /\ pc'[t] = "insert" =>
                       /\ number'[t] >= 1 /\ \A r \in Steps : r < number'[t] => status'[r] # "NONE"
                       /\ IsBar(next[t])'
      <3>1. CASE t = c
        BY <1>1, <1>3, <1>7, <3>1
      <3>2. CASE t # c
        BY <1>1, <1>3, <3>2 DEF OwnerInv, IsBar
      <3> QED
        BY <3>1, <3>2
    <2>3. \A t, u \in Threads : cur'[t] # NoStep /\ cur'[t] = cur'[u] => t = u
      BY <1>1 DEF OwnerInv
    <2> QED
      BY <2>2, <2>3 DEF OwnerInv
  <1>9. ClientInv'
    <2> SUFFICES ASSUME NEW d \in Clients
                 PROVE  /\ pc'[d] \in {"idle", "load", "read", "insert", "work", "failing"}
                        /\ pc'[d] # "idle" => expStatus' # "CREATED" /\ pending'[d] # "start"
      BY DEF ClientInv
    <2>1. CASE d = c
      BY <1>1, <1>3, <2>1
    <2>2. CASE d # c
      BY <1>1, <1>3, <2>2 DEF ClientInv, Threads
    <2> QED
      BY <2>1, <2>2
  <1>10. LockInv'
    BY <1>1, <1>3, Apart DEF LockInv, Threads
  <1>11. ~mixed' => ~mixed /\ (\A t \in Threads : pc[t] = "idle") /\ ~(MaxSequenceNumber > 0)
    BY <1>1
  <1>12. AloneInv'
    BY <1>1, <1>3, <1>11 DEF AloneInv, Threads
  <1>13. ~mixed' => RowsAre(0) /\ \A s \in Steps : status[s] = "NONE"
    <2>1. PICK n \in 0..MaxSteps : RowsAre(n)
      OBVIOUS
    <2>2. MaxSequenceNumber = n /\ n \in Nat
      BY <2>1, MaxIsLast, HistoricalAssumption
    <2>3. ~mixed' => n = 0
      BY <1>11, <2>2
    <2> QED
      BY <2>1, <2>3, StepNumbers DEF RowsAre
  <1>14. QuietInv'
    <2> SUFFICES ASSUME NEW t \in Threads, pc'[t] \in {"load", "read", "insert"},
                        t \in Steppers \/ ~mixed', NEW s \in Steps, status[s] = "RUNNING"
                 PROVE  mixed' /\ trigger[s] = "HISTORICAL"
      BY <1>1 DEF QuietInv
    <2>1. mixed'
      BY <1>13
    <2>2. t # c /\ t \in Steppers /\ pc[t] = pc'[t]
      BY <1>3, <2>1, Apart
    <2> QED
      BY <2>1, <2>2 DEF QuietInv
  <1>15. BarInv'
    <2> SUFFICES ASSUME ~mixed'
                 PROVE  /\ \A t \in Threads : pc'[t] = "insert" => next'[t] = number'[t]
                        /\ \A d \in Clients :
                              /\ pc'[d] \in {"load", "read", "insert"} => RowsAre(next[d] - 1)'
                              /\ pc'[d] = "work" => RowsAre(next[d])'
      BY DEF BarInv
    <2>1. \A t \in Threads : t # c => pc'[t] = "idle"
      BY <1>3, <1>11
    <2>2. RowsAre(0)'
      BY <1>1, <1>13 DEF RowsAre
    <2>3. RowsAre(next[c] - 1)'
      BY <1>3, <2>2 DEF RowsAre
    <2> QED
      BY <1>3, <2>1, <2>3 DEF Threads
  <1>16. BehindInv'
    BY <1>1, <1>3, Apart DEF BehindInv, Ended, Threads
  <1>17. StepsTakeTurns' /\ BarsInOrder' /\ CompletedIsCovered'
    BY <1>1 DEF StepsTakeTurns, BarsInOrder, CompletedIsCovered
  <1> QED
    BY <1>5, <1>6, <1>8, <1>9, <1>10, <1>12, <1>14, <1>15, <1>16, <1>17

LEMMA CrashInv ==
    ASSUME IInv, Crash
    PROVE  IInv'
  <1> USE DEF IInv, Crash
  <1>1. TypeOK'
    BY HistoricalAssumption DEF TypeOK, Locations
  <1>2. (\E n \in 0..MaxSteps : RowsAre(n))'
    BY DEF RowsAre
  <1>3. OwnerInv' /\ LockInv' /\ AloneInv' /\ QuietInv'
    BY DEF OwnerInv, LockInv, AloneInv, QuietInv, Threads
  <1>4. ClientInv' /\ BarInv' /\ BehindInv'
    BY DEF ClientInv, BarInv, BehindInv, Threads
  <1>5. StepsTakeTurns' /\ BarsInOrder' /\ CompletedIsCovered'
    BY DEF StepsTakeTurns, BarsInOrder, CompletedIsCovered
  <1> QED
    BY <1>1, <1>2, <1>3, <1>4, <1>5

LEMMA StutterInv ==
    ASSUME IInv, UNCHANGED vars
    PROVE  IInv'
  <1> USE DEF IInv, vars
  <1>1. TypeOK' /\ (\E n \in 0..MaxSteps : RowsAre(n))'
    BY DEF TypeOK, RowsAre
  <1>2. OwnerInv' /\ ClientInv' /\ LockInv' /\ AloneInv' /\ QuietInv'
    BY DEF OwnerInv, ClientInv, LockInv, AloneInv, QuietInv, IsBar
  <1>3. BarInv' /\ BehindInv' /\ StepsTakeTurns' /\ BarsInOrder' /\ CompletedIsCovered'
    BY DEF BarInv, BehindInv, StepsTakeTurns, BarsInOrder, CompletedIsCovered, RowsAre, Ended
  <1> QED
    BY <1>1, <1>2, <1>3

-----------------------------------------------------------------------------
(***************************************************************************)
(* The theorems                                                            *)
(***************************************************************************)

LEMMA InitInv == Init => IInv
  <1> SUFFICES ASSUME Init PROVE IInv
    OBVIOUS
  <1> USE DEF Init
  <1>1. TypeOK
    <2>1. /\ expStatus \in ExperimentStatus /\ status \in [Steps -> StepStatus]
          /\ trigger \in [Steps -> TriggerType]
      BY DEF ExperimentStatus, StepStatus, TriggerType
    <2>2. bar \in [Steps -> 0..NumBars] /\ crashes \in 0..MaxCrashes
      BY HistoricalAssumption
    <2>3. /\ pending \in [Clients -> LifecycleActions \cup {"none"}]
          /\ pc \in [Threads -> Locations] /\ cur \in [Threads -> Steps \cup {NoStep}]
          /\ number \in [Threads -> Nat] /\ next \in [Threads -> Nat]
      BY DEF Locations
    <2> QED
      BY <2>1, <2>2, <2>3 DEF TypeOK
  <1>2. \E n \in 0..MaxSteps : RowsAre(n)
    <2>1. RowsAre(0) /\ 0 \in 0..MaxSteps
      BY StepNumbers, HistoricalAssumption DEF RowsAre
    <2> QED
      BY <2>1
  <1>3. OwnerInv /\ ClientInv /\ LockInv /\ AloneInv /\ QuietInv /\ BarInv /\ BehindInv
    BY DEF OwnerInv, ClientInv, LockInv, AloneInv, QuietInv, BarInv, BehindInv, Threads
  <1>4. StepsTakeTurns /\ BarsInOrder /\ CompletedIsCovered
    BY DEF StepsTakeTurns, BarsInOrder, CompletedIsCovered
  <1> QED
    BY <1>1, <1>2, <1>3, <1>4 DEF IInv

LEMMA NextInv == IInv /\ [Next]_vars => IInv'
  <1> SUFFICES ASSUME IInv, [Next]_vars PROVE IInv'
    OBVIOUS
  <1>1. ASSUME NEW t \in Threads, Ask(t) \/ Proceed(t) PROVE IInv'
    BY <1>1, MoveInv DEF Moves
  <1>2. ASSUME NEW c \in Clients, CommitStart(c) PROVE IInv'
    BY <1>2, StartInv
  <1>3. ASSUME NEW c \in Clients,
               CommitLifecycle(c) \/ \E a \in LifecycleActions : ReadLifecycle(c, a)
        PROVE  IInv'
    BY <1>3, RequestInv
  <1>4. CASE Crash
    BY <1>4, CrashInv
  <1>5. CASE UNCHANGED vars
    BY <1>5, StutterInv
  <1> QED
    BY <1>1, <1>2, <1>3, <1>4, <1>5 DEF Next

LEMMA Invariance == Spec => []IInv
  <1>1. Init => IInv
    BY InitInv
  <1>2. IInv /\ [Next]_vars => IInv'
    BY NextInv
  <1> QED
    BY <1>1, <1>2, PTL DEF Spec

\* Type correctness.
THEOREM TypeCorrect == Spec => []TypeOK
  <1>1. IInv => TypeOK
    BY DEF IInv
  <1> QED
    BY <1>1, Invariance, PTL

\* BR-013, as far as the code keeps it: the advisory lock and has_running_step
\* keep the steps of step runners apart, after any number of crashes, and only a
\* full run that is not alone overlaps another step.
THEOREM RunnersTakeTurns == Spec => []StepsTakeTurns
  <1>1. IInv => StepsTakeTurns
    BY DEF IInv
  <1> QED
    BY <1>1, Invariance, PTL

\* A run that is alone, and the step runners that continue it, give the bars one
\* step each, in order.
THEOREM BarsStayInOrder == Spec => []BarsInOrder
  <1>1. IInv => BarsInOrder
    BY DEF IInv
  <1> QED
    BY <1>1, Invariance, PTL

\* COMPLETED says that every bar of the date range has been through a step.
THEOREM CompletionCovers == Spec => []CompletedIsCovered
  <1>1. IInv => CompletedIsCovered
    BY DEF IInv
  <1> QED
    BY <1>1, Invariance, PTL

\* BR-011, BR-014: the numbers of the steps have no gaps, and no step that has
\* ended is touched again, whatever overlaps.
THEOREM RowsAreAnAuditTrail == Spec => AuditTrail
  <1> DEFINE Kept ==
        /\ \A s \in Steps : status'[s] # "NONE" => \A r \in 1..s : status'[r] # "NONE"
        /\ \A s \in Steps :
              status[s] \in {"COMPLETED", "FAILED"} =>
                  /\ status'[s] = status[s]
                  /\ bar'[s] = bar[s]
  <1>1. IInv /\ [Next]_vars => [Kept]_vars
    <2> SUFFICES ASSUME IInv, [Next]_vars PROVE Kept
      OBVIOUS
    <2>0. IInv'
      BY NextInv
    <2>1. \A s \in Steps : status'[s] # "NONE" => \A r \in 1..s : status'[r] # "NONE"
      <3>1. PICK n : n \in 0..MaxSteps /\ \A s \in Steps : status'[s] # "NONE" <=> s <= n
        BY <2>0 DEF IInv, RowsAre
      <3>2. \A s \in Steps : \A r \in 1..s : r \in Steps /\ (s <= n => r <= n)
        BY <3>1, HistoricalAssumption DEF Steps
      <3> QED
        BY <3>1, <3>2
    <2>2. ASSUME NEW s \in Steps, status[s] \in {"COMPLETED", "FAILED"}
          PROVE  status'[s] = status[s] /\ bar'[s] = bar[s]
      <3>1. ASSUME NEW t \in Threads, Moves(t)
            PROVE  status'[s] = status[s] /\ bar'[s] = bar[s]
        BY <2>2, <3>1, RowsStay DEF IInv, Ended
      <3>2. CASE \A t \in Threads : ~Moves(t)
        <4>1. status' = status /\ bar' = bar
          BY <3>2 DEF Next, Moves, CommitStart, CommitLifecycle, ReadLifecycle, Crash, vars
        <4> QED
          BY <4>1
      <3> QED
        BY <3>1, <3>2
    <2> QED
      BY <2>1, <2>2
  <1> QED
    BY <1>1, Invariance, PTL DEF Spec, AuditTrail

=============================================================================
