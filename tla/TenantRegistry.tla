----------------------------- MODULE TenantRegistry -----------------------------
(***************************************************************************)
(* What tenant_registry promises to whoever reads it: a slug is vacant or   *)
(* held by one tenancy, in service or suspended; a tenancy that ended, or   *)
(* was never committed, does not come back. Provisioning, which writes the  *)
(* rows by jobs, and TenantRouting, which reads them by id, implement it.   *)
(***************************************************************************)
CONSTANTS
    Slugs,
    Tenancies,  \* what tells one row of a slug from the next
    Vacant      \* no row

VARIABLES
    holder,     \* holder[s]: the tenancy of slug s
    serving,    \* serving[s]: is_active
    spent       \* the tenancies there have been

Init ==
    /\ holder \in [Slugs -> Tenancies \cup {Vacant}]
    /\ \A s, t \in Slugs : holder[s] = holder[t] /\ holder[s] # Vacant => s = t
    /\ serving = [s \in Slugs |-> holder[s] # Vacant]
    /\ spent = {holder[s] : s \in Slugs} \ {Vacant}

(* create_tenant: a row of its own, active by default *)
Open(s, t) ==
    /\ holder[s] = Vacant /\ t \notin spent
    /\ holder' = [holder EXCEPT ![s] = t]
    /\ serving' = [serving EXCEPT ![s] = TRUE]
    /\ spent' = spent \cup {t}

(* ... rolled back *)
Lapse(t) ==
    /\ t \notin spent /\ spent' = spent \cup {t}
    /\ UNCHANGED <<holder, serving>>

(* suspend_tenant, resume_tenant, destroy_tenant *)
Switch(s) ==
    /\ holder[s] # Vacant
    /\ serving' = [serving EXCEPT ![s] = ~@]
    /\ UNCHANGED <<holder, spent>>

(* The end of a DESTROY job *)
Close(s) ==
    /\ holder[s] # Vacant
    /\ holder' = [holder EXCEPT ![s] = Vacant]
    /\ serving' = [serving EXCEPT ![s] = FALSE]
    /\ UNCHANGED spent

Next ==
    \/ \E s \in Slugs, t \in Tenancies : Open(s, t)
    \/ \E t \in Tenancies : Lapse(t)
    \/ \E s \in Slugs : Switch(s) \/ Close(s)

Spec == Init /\ [][Next]_<<holder, serving, spent>>
=================================================================================
