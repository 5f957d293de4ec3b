--------------------------- MODULE MCHistoricalRuns ---------------------------
(***************************************************************************)
(* HistoricalRuns on small instances.  Threads of one kind are             *)
(* interchangeable.                                                        *)
(***************************************************************************)
EXTENDS HistoricalRuns, TLC

Symmetry == Permutations(Clients) \cup Permutations(Steppers)

=============================================================================
