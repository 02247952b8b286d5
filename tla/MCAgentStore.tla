---------------------------- MODULE MCAgentStore ----------------------------
(* TLC instances of the AgentRun store. *)
EXTENDS AgentStore, TLC

Identities == Permutations(Worker) \cup Permutations(Run)
                \cup Permutations(Backend) \cup Permutations(CancelOp)
=============================================================================
