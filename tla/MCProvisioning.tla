----------------------------- MODULE MCProvisioning -----------------------------
(* Provisioning on small instances: the ids are interchangeable.             *)
EXTENDS Provisioning, TLC

Symmetry == Permutations(Jobs) \cup Permutations(Hooks) \cup Permutations(Recs)

(* Bound of the re-creation run: create, destroy, create again, and nothing  *)
(* of the third job beyond its row.                                          *)
Recreation ==
    /\ \A j \in Jobs : jobs[j].kind \in {"create", "destroy"}
    /\ \A j \in Jobs : jobs[j].kind = "destroy" => jobs[j].target # Nobody
    /\ Cardinality({j \in Jobs : jobs[j].kind = "destroy"}) <= 1
    /\ Cardinality({j \in Jobs : worker[j].pc # "none"}) <= 1

(* Bound of the teardown run, once a workflow runs: the slug is created,     *)
(* destroyed and created again, with no other suspension or asked domain.    *)
Untouched ==
    /\ \A j \in Jobs : jobs[j].kind \in {"create", "destroy"}
    /\ \A s \in Slugs : /\ tenant[s].domain # "asked"
                        /\ tenant[s].by # Nobody =>
                               tenant[s].active = ~\E j \in Jobs : Exists(j) /\ jobs[j].target = tenant[s].by
\* CREATE workflows do not fail, and a pass over a CREATE job ends before the
\* destruction or stays in its poll until the job is gone.
CreatesSucceed ==
    /\ \A r \in DOMAIN runs : runs[r].kind = "create" => runs[r].end \in {"running", "success"}
    /\ \A c \in Recs : rec[c].pc # "free" /\ jobs[rec[c].job].kind = "create" =>
           \/ \A j \in Jobs : jobs[j].kind = "create"
           \/ rec[c].pc = "answered" /\ \E j \in Jobs : jobs[j].row = "none"
Lifecycles ==
    /\ runs # <<>> => Untouched /\ CreatesSucceed
    /\ Cardinality({j \in Jobs : jobs[j].kind = "destroy"}) <= 1
    /\ Cardinality({j \in Jobs : worker[j].pc # "none"}) <= 1
    \* the last tenancy has webhooks only
    /\ Len(runs) = 2 /\ (\A j \in Jobs : jobs[j].row # "none") => \A c \in Recs : rec[c].pc = "free"
=============================================================================
