------------------------------ MODULE MCAgentRuns ------------------------------
(* AgentRuns on small instances: run and request ids are interchangeable.    *)
EXTENDS AgentRuns, TLC, FiniteSets

Symmetry == Permutations(Runs) \cup Permutations(Edits)

(* One run at a time: a worker takes no run of an agent that has one.        *)
OneAtATime == Cardinality({r \in Runs : work[r].pc # "idle"} \cup queue) <= 1
=============================================================================
