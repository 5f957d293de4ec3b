--------------------------- MODULE MCAgentPipeline ---------------------------
(***************************************************************************)
(* AgentPipeline on small instances: no position, a small one, all in; the *)
(* stored value may be older than the price of the bar.                    *)
(***************************************************************************)
EXTENDS AgentPipeline

SmallBooks ==
    {[cash |-> 5, position |-> 0, price |-> 2, value |-> 5],
     [cash |-> 5, position |-> 1, price |-> 2, value |-> 7],
     [cash |-> 0, position |-> 2, price |-> 3, value |-> 6]}

=============================================================================
