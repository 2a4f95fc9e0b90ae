--------------------------- MODULE MCKnowledgeLibrary ---------------------------
(* KnowledgeLibrary on small instances: ids are interchangeable.             *)
EXTENDS KnowledgeLibrary, TLC

Symmetry == Permutations(Files) \cup Permutations(Reqs) \cup Permutations(Tasks)
=============================================================================
