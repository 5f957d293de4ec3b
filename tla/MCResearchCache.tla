---------------------------- MODULE MCResearchCache ----------------------------
(***************************************************************************)
(* ResearchCache on small instances: the first provider has a dataset that *)
(* expires and one that never does, the second one that expires.           *)
(***************************************************************************)
EXTENDS ResearchCache

SmallTtl == [d \in Datasets |-> IF d = 2 THEN Forever ELSE 1]

=============================================================================
