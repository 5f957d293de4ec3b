----------------------------- MODULE MCNewsEvents -----------------------------
(***************************************************************************)
(* NewsEvents on small instances: every experiment trades the one symbol.  *)
(***************************************************************************)
EXTENDS NewsEvents, TLC

OneSymbol == [x \in Experiments |-> CHOOSE s \in Symbols : TRUE]

Perms == Permutations(Scanners) \cup Permutations(Articles)

=============================================================================
