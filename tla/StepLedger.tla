------------------------------ MODULE StepLedger ------------------------------
(***************************************************************************)
(* What the execution steps of one experiment promise, whoever runs them:  *)
(* an audit ledger.  A step is opened under the next sequence number, only *)
(* when no other step is running, and closed once, for good (BR-011,       *)
(* BR-013, ADR-008-execution-step-as-audit-unit.md).  The step runners of  *)
(* the backend are shown to implement it.                                  *)
(***************************************************************************)
EXTENDS Naturals

CONSTANT MaxSteps           \* the ledger has room for this many steps

VARIABLE ledger             \* ledger[n] is the state of step number n

Numbers == 1..MaxSteps

LedgerStatus == {"NONE", "RUNNING", "COMPLETED", "FAILED"}

TypeOK == ledger \in [Numbers -> LedgerStatus]

Init == ledger = [n \in Numbers |-> "NONE"]

\* A step starts: it takes the first free number, and nothing else is running.
Open(n) ==
    /\ \A m \in Numbers : ledger[m] # "RUNNING"
    /\ \A m \in Numbers : ledger[m] = "NONE" <=> m >= n
    /\ ledger' = [ledger EXCEPT ![n] = "RUNNING"]

\* The running step ends.
Close(n) ==
    /\ ledger[n] = "RUNNING"
    /\ \E outcome \in {"COMPLETED", "FAILED"} :
           ledger' = [ledger EXCEPT ![n] = outcome]

Next == \E n \in Numbers : Open(n) \/ Close(n)

Spec == Init /\ [][Next]_ledger

=============================================================================
