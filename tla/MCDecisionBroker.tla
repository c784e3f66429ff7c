------------------------- MODULE MCDecisionBroker -------------------------
(* A small instance of DecisionBroker: an operation asked for with the scope of
   a task or of the worktree, and a tool call of the host. *)
EXTENDS DecisionBroker, TLC

CONSTANTS narrow, wide, call, drop, push

Effects == (narrow :> drop) @@ (wide :> drop) @@ (call :> push)
BrokerSymmetry == Permutations(Task) \cup Permutations(Decision)
===========================================================================
