------------------------------ MODULE RunLifecycle ------------------------------
(***************************************************************************)
(* What agent_run_state.py promises of one agent_execution row: the states *)
(* it goes through, whoever drives it.  AgentRuns implements it.           *)
(***************************************************************************)
CONSTANT Runs
VARIABLE status

States   == {"none", "queued", "running", "succeeded", "failed", "skipped"}
Terminal == {"succeeded", "failed", "skipped"}

Edge == {<<"none", "queued">>, <<"queued", "running">>}
        \cup {<<"running", end>> : end \in Terminal}

Init == status = [r \in Runs |-> "none"]

Move(r) == \E to \in States : /\ <<status[r], to>> \in Edge
                              /\ status' = [status EXCEPT ![r] = to]

Next == \E r \in Runs : Move(r)

Spec == Init /\ [][Next]_status
=============================================================================
