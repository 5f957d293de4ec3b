----------------------------- MODULE MCPaperSteps -----------------------------
(***************************************************************************)
(* PaperSteps on small instances.  Threads of one kind are interchangeable.*)
(***************************************************************************)
EXTENDS PaperSteps, TLC

Symmetry ==
    Permutations(ManualWorkers) \cup Permutations(ScheduledWorkers)
        \cup Permutations(EventWorkers) \cup Permutations(Events)

=============================================================================
