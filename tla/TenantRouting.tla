----------------------------- MODULE TenantRouting -----------------------------
(***************************************************************************)
(* How a request finds its tenant and the tenant's database:               *)
(*   api/middleware/tenant_resolver.py     the resolver and its two caches, *)
(*   config/tenant_connection_manager.py   the engines, one per slug,       *)
(*   workers/tenant_context_propagation.py the same on a Celery worker,     *)
(*   services/console_service.py, api/v1/console.py   the operator's        *)
(*       mutations of tenant_registry, which flush, clear the caches of     *)
(*       their own process and commit later,                                *)
(*   services/provisioning_workflow.py     the webhooks that write or       *)
(*       delete the registry row and clear nothing.                         *)
(*                                                                         *)
(* A context is what the code copies from a registry row: slug, id and the *)
(* database it points to. Time is abstract: a cache entry may expire at any *)
(* moment after it was stored.                                              *)
(***************************************************************************)
EXTENDS Naturals

CONSTANTS
    Slugs,       \* tenant slugs
    Hosts,       \* host names requests arrive with
    LabelOf,     \* LabelOf[h]: the slug h is the platform address of, or None
    Pods,        \* API processes
    Workers,     \* Celery worker processes
    Reqs,        \* requests and tasks in flight
    Databases,   \* what db_host / db_name / secret of a row point to
    Start,       \* Start[s]: the database of s at the start, None: s has no row
    MaxId,       \* bound on the rows ever created (ids of tenants)
    MaxEdits,    \* bound on the mutations of the registry
    None         \* no slug, no context, no database

ASSUME RoutingAssumption ==
    /\ Slugs # {} /\ Hosts # {} /\ Databases # {}
    /\ LabelOf \in [Hosts -> Slugs \cup {None}]
    /\ Pods \cap Workers = {}
    /\ None \notin Slugs \cup Hosts \cup Databases
    /\ Start \in [Slugs -> Databases \cup {None}]
    /\ \A s, t \in Slugs : Start[s] # None /\ Start[t] # None => s = t
    /\ MaxId \in Nat \ {0} /\ MaxEdits \in Nat

VARIABLES
    registry,    \* registry[s]: the committed row of s in tenant_registry
    pending,     \* pending[s]: the row flushed by an open console transaction
    ids,         \* rows created so far
    edits,       \* mutations so far
    slugCache,   \* slugCache[p][s]: _REGISTRY_CACHE of process p
    hostCache,   \* hostCache[p][h]: _HOST_CACHE of API process p
    pools,       \* pools[p][s]: the database of the engine p holds for s
    req,         \* req[r]: a request or task in flight
    settled      \* history: processes started since the registry last changed

rVars == <<registry, pending, ids, edits, slugCache, hostCache, pools, req, settled>>

Processes == Pods \cup Workers
Ids == 1..MaxId

NoRow == [id |-> 0, active |-> FALSE, db |-> None, domain |-> None]
Row == [id : Ids, active : BOOLEAN, db : Databases, domain : Hosts \cup {None}]
NoTxn == [by |-> None, row |-> NoRow]
Txn == [by : Pods, row : Row]

Context == [slug : Slugs, id : Ids, db : Databases]
Default == [slug |-> None, id |-> 0, db |-> None]     \* DEFAULT_TENANT_CONTEXT
NoContext == [slug |-> None, id |-> 0, db |-> "?"]    \* a lookup found no tenant
Missing == [slug |-> None, id |-> 0, db |-> "miss"]   \* no entry in a cache

Idle == [pc |-> "idle", proc |-> None, host |-> None, named |-> None, tid |-> 0,
         ctx |-> NoContext]

(* tenant_resolver._row_to_context *)
RowContext(s) == [slug |-> s, id |-> registry[s].id, db |-> registry[s].db]

RoutingInit ==
    /\ registry = [s \in Slugs |-> IF Start[s] = None THEN NoRow
                     ELSE [id |-> 1, active |-> TRUE, db |-> Start[s], domain |-> None]]
    /\ ids = IF \A s \in Slugs : Start[s] = None THEN 0 ELSE 1
    /\ pending = [s \in Slugs |-> NoTxn]
    /\ edits = 0
    /\ slugCache = [p \in Processes |-> [s \in Slugs |-> Missing]]
    /\ hostCache = [p \in Pods |-> [h \in Hosts |-> Missing]]
    /\ pools = [p \in Processes |-> [s \in Slugs |-> None]]
    /\ req = [r \in Reqs |-> Idle]
    /\ settled = Processes

-------------------------------------------------------------------------------
(* The registry's writers *)

Exists(s) == registry[s].id # 0
Active(s) == Exists(s) /\ registry[s].active

CommitRow(s, row) ==
    /\ registry' = [registry EXCEPT ![s] = row]
    /\ settled' = {}

Edit == edits < MaxEdits /\ edits' = edits + 1

DomainFree(s, h) ==
    \A t \in Slugs \ {s} : registry[t].domain # h /\ pending[t].row.domain # h

(* clear_tenant_cache: of the process that runs it, and of no other *)
ClearCaches(p) ==
    /\ slugCache' = [slugCache EXCEPT ![p] = [s \in Slugs |-> Missing]]
    /\ hostCache' = [hostCache EXCEPT ![p] = [h \in Hosts |-> Missing]]

(* What the console may assign to a row: suspend_tenant and destroy_tenant,  *)
(* resume_tenant, update_tenant_db_config, update_tenant (custom_domain).    *)
Assignments(s) ==
    {[registry[s] EXCEPT !.active = FALSE], [registry[s] EXCEPT !.active = TRUE]}
        \cup {[registry[s] EXCEPT !.db = d] : d \in Databases}
        \cup {[registry[s] EXCEPT !.domain = h] : h \in {g \in Hosts : DomainFree(s, g)}}

(* A console request handled by p: read the row, assign, flush, clear the   *)
(* caches. The row lock of the flushed UPDATE keeps other writers out.      *)
ConsoleFlush(p, s) ==
    /\ Exists(s) /\ pending[s] = NoTxn
    /\ \E row \in Assignments(s) \ {registry[s]} :
          pending' = [pending EXCEPT ![s] = [by |-> p, row |-> row]]
    /\ Edit
    /\ ClearCaches(p)
    /\ UNCHANGED <<registry, ids, pools, req, settled>>

(* ... and the commit of get_db_session when the handler has returned *)
ConsoleCommit(s) ==
    /\ pending[s] # NoTxn
    /\ CommitRow(s, pending[s].row)
    /\ pending' = [pending EXCEPT ![s] = NoTxn]
    /\ UNCHANGED <<ids, edits, slugCache, hostCache, pools, req>>

ConsoleRollback(s) ==
    /\ pending[s] # NoTxn
    /\ pending' = [pending EXCEPT ![s] = NoTxn]
    /\ UNCHANGED <<registry, ids, edits, slugCache, hostCache, pools, req, settled>>

(* create_tenant: a new row, active by default; no cache is cleared *)
CreateTenant(s) ==
    /\ ~Exists(s) /\ ids < MaxId
    /\ ids' = ids + 1
    /\ \E d \in Databases, h \in Hosts \cup {None} :
          /\ h # None => DomainFree(s, h)
          /\ CommitRow(s, [id |-> ids + 1, active |-> TRUE, db |-> d, domain |-> h])
    /\ Edit
    /\ UNCHANGED <<pending, slugCache, hostCache, pools, req>>

(* ingest_event, phase ingress: the webhook's custom_domain *)
IngressWebhook(s) ==
    /\ Exists(s) /\ pending[s] = NoTxn
    /\ \E h \in {g \in Hosts : DomainFree(s, g)} :
          /\ registry[s].domain # h
          /\ CommitRow(s, [registry[s] EXCEPT !.domain = h])
    /\ Edit
    /\ UNCHANGED <<pending, ids, slugCache, hostCache, pools, req>>

(* mutant: the row loses its id and keeps the rest *)
TeardownEmptiesRow(s) ==
    /\ Exists(s) /\ pending[s] = NoTxn
    /\ CommitRow(s, [registry[s] EXCEPT !.id = 0])
    /\ Edit
    /\ UNCHANGED <<pending, ids, slugCache, hostCache, pools, req>>

(* mutant: an open console transaction is not waited for *)
TeardownUnlocked(s) ==
    /\ Exists(s)
    /\ CommitRow(s, NoRow)
    /\ Edit
    /\ UNCHANGED <<pending, ids, slugCache, hostCache, pools, req>>

(* ingest_event, last phase of a DESTROY job: the row is deleted *)
TeardownWebhook(s) ==
    /\ Exists(s) /\ pending[s] = NoTxn
    /\ CommitRow(s, NoRow)
    /\ Edit
    /\ UNCHANGED <<pending, ids, slugCache, hostCache, pools, req>>

-------------------------------------------------------------------------------
(* A request: host, then slug or tid, then a session *)

Step(r, changes) == req' = [req EXCEPT ![r] = changes]

(* Answer 404 (tenant_not_found), or the process went away *)
Refused(r) == Step(r, Idle)

(* What a request no longer needs is forgotten, to keep the states few *)
Resolved(r, ctx) == Step(r, [Idle EXCEPT !.pc = "resolved", !.proc = req[r].proc, !.ctx = ctx])
NoHostTenant(r) == Step(r, [req[r] EXCEPT !.pc = "slug", !.host = None, !.ctx = NoContext])
Loaded(r, ctx) == Step(r, [Idle EXCEPT !.pc = "slugRead", !.proc = req[r].proc, !.ctx = ctx])

Arrive(r, p) ==
    /\ req[r] = Idle /\ p \in Pods
    /\ \E h \in Hosts, s \in Slugs \cup {None}, i \in 0..ids :
          /\ s # None => i = 0          \* the tid is read when no slug is named
          /\ Step(r, [Idle EXCEPT !.pc = "host", !.proc = p, !.host = h, !.named = s, !.tid = i])
    /\ UNCHANGED <<registry, pending, ids, edits, slugCache, hostCache, pools, settled>>

(* The row a host selects: the owner of the custom domain before the tenant *)
(* whose address it is, among the active ones.                              *)
HostTenant(h) ==
    LET owners == {s \in Slugs : Active(s) /\ registry[s].domain = h}
        named  == {s \in Slugs : Active(s) /\ LabelOf[h] = s}
    IN  IF owners # {} THEN RowContext(CHOOSE s \in owners : TRUE)
        ELSE IF named # {} THEN RowContext(CHOOSE s \in named : TRUE)
        ELSE NoContext

(* _tenant_from_host_registry up to the read. A failed read is not cached.  *)
LookupHost(r) ==
    LET q == req[r]
        entry == hostCache[q.proc][q.host]
    IN  /\ q.pc = "host"
        /\ \/ /\ entry \in Context
              /\ Resolved(r, entry)
           \/ /\ entry = NoContext
              /\ NoHostTenant(r)
           \/ /\ entry = Missing
              /\ \/ Step(r, [q EXCEPT !.pc = "hostRead", !.ctx = HostTenant(q.host)])
                 \/ NoHostTenant(r)
        /\ UNCHANGED <<registry, pending, ids, edits, slugCache, hostCache, pools, settled>>

(* ... and the store of what was read, tenant or not *)
StoreHost(r) ==
    LET q == req[r] IN
    /\ q.pc = "hostRead"
    /\ hostCache' = [hostCache EXCEPT ![q.proc][q.host] = q.ctx]
    /\ IF q.ctx = NoContext
         THEN /\ NoHostTenant(r)
              /\ UNCHANGED slugCache
         ELSE /\ Resolved(r, q.ctx)
              /\ slugCache' = [slugCache EXCEPT ![q.proc][q.ctx.slug] = q.ctx]
    /\ UNCHANGED <<registry, pending, ids, edits, pools, settled>>

(* mutant *)
LoadAnySlug(s) == IF Exists(s) THEN RowContext(s) ELSE NoContext

(* _load_tenant_from_db and _load_tenant_by_id: the active row, or nothing; *)
(* a failed read is nothing as well                                         *)
LoadBySlug(s) == IF Active(s) THEN RowContext(s) ELSE NoContext
LoadById(i) ==
    LET rows == {s \in Slugs : Active(s) /\ registry[s].id = i}
    IN  IF rows = {} THEN NoContext ELSE RowContext(CHOOSE s \in rows : TRUE)

(* _resolve_context after the host: the slug named by the request, through  *)
(* its cache; else the tid of the token, past the cache; else the default.  *)
LookupSlug(r) ==
    LET q == req[r] IN
    /\ q.pc = "slug"
    /\ \/ /\ q.named # None
          /\ slugCache[q.proc][q.named] # Missing
          /\ Resolved(r, slugCache[q.proc][q.named])
       \/ /\ q.named # None
          /\ slugCache[q.proc][q.named] = Missing
          /\ Loaded(r, LoadBySlug(q.named)) \/ Loaded(r, NoContext)
       \/ /\ q.named = None /\ q.tid # 0
          /\ Loaded(r, LoadById(q.tid)) \/ Loaded(r, NoContext)
       \/ /\ q.named = None /\ q.tid = 0
          /\ Resolved(r, Default)
    /\ UNCHANGED <<registry, pending, ids, edits, slugCache, hostCache, pools, settled>>

(* ... a tenant is cached under its slug, anything else is a 404. A task of *)
(* a worker goes on with the default context instead.                       *)
StoreSlug(r) ==
    LET q == req[r] IN
    /\ q.pc = "slugRead"
    /\ IF q.ctx = NoContext
         THEN /\ IF q.proc \in Workers THEN Resolved(r, Default) ELSE Refused(r)
              /\ UNCHANGED slugCache
         ELSE /\ slugCache' = [slugCache EXCEPT ![q.proc][q.ctx.slug] = q.ctx]
              /\ Resolved(r, q.ctx)
    /\ UNCHANGED <<registry, pending, ids, edits, hostCache, pools, settled>>

(* task_prerun: the slug of the message's header, on a worker *)
TaskStart(r, w) ==
    /\ req[r] = Idle /\ w \in Workers
    /\ \E s \in Slugs :
          Step(r, [Idle EXCEPT !.pc = "slug", !.proc = w, !.named = s])
    /\ UNCHANGED <<registry, pending, ids, edits, slugCache, hostCache, pools, settled>>

(* session_for: the engine of the slug, built from the context on first use; *)
(* the session ends with the request. A data plane that cannot be opened is  *)
(* answered like an unknown tenant.                                          *)
OpenSession(r) ==
    LET q == req[r] IN
    /\ q.pc = "resolved"
    /\ Step(r, Idle)
    /\ IF q.ctx # Default /\ pools[q.proc][q.ctx.slug] = None
         THEN pools' = pools \/ pools' = [pools EXCEPT ![q.proc][q.ctx.slug] = q.ctx.db]
         ELSE UNCHANGED pools
    /\ UNCHANGED <<registry, pending, ids, edits, slugCache, hostCache, settled>>

-------------------------------------------------------------------------------
(* Time and processes *)

(* expires_at passes: the entry is dropped when it is next looked at *)
ExpireSlug(p, s) ==
    /\ slugCache[p][s] # Missing
    /\ slugCache' = [slugCache EXCEPT ![p][s] = Missing]
    /\ UNCHANGED <<registry, pending, ids, edits, hostCache, pools, req, settled>>

(* mutant: "no tenant" is cached without a time *)
ExpireTenantHost(p, h) ==
    /\ hostCache[p][h] \in Context
    /\ hostCache' = [hostCache EXCEPT ![p][h] = Missing]
    /\ UNCHANGED <<registry, pending, ids, edits, slugCache, pools, req, settled>>

ExpireHost(p, h) ==
    /\ hostCache[p][h] # Missing
    /\ hostCache' = [hostCache EXCEPT ![p][h] = Missing]
    /\ UNCHANGED <<registry, pending, ids, edits, slugCache, pools, req, settled>>

(* mutant: the caches live outside the process *)
RestartWarm(p) ==
    /\ pools' = [pools EXCEPT ![p] = [s \in Slugs |-> None]]
    /\ req' = [r \in Reqs |-> IF req[r].proc = p THEN Idle ELSE req[r]]
    /\ pending' = [s \in Slugs |-> IF pending[s].by = p THEN NoTxn ELSE pending[s]]
    /\ settled' = settled \cup {p}
    /\ UNCHANGED <<registry, ids, edits, slugCache, hostCache>>

(* A process is replaced: its caches, engines and requests go with it, and  *)
(* an open console transaction of it is rolled back.                        *)
Restart(p) ==
    /\ slugCache' = [slugCache EXCEPT ![p] = [s \in Slugs |-> Missing]]
    /\ hostCache' = [q \in Pods |-> IF q = p THEN [h \in Hosts |-> Missing] ELSE hostCache[q]]
    /\ pools' = [pools EXCEPT ![p] = [s \in Slugs |-> None]]
    /\ req' = [r \in Reqs |-> IF req[r].proc = p THEN Idle ELSE req[r]]
    /\ pending' = [s \in Slugs |-> IF pending[s].by = p THEN NoTxn ELSE pending[s]]
    /\ settled' = settled \cup {p}
    /\ UNCHANGED <<registry, ids, edits>>

Serve(r) ==
    LookupHost(r) \/ StoreHost(r) \/ LookupSlug(r) \/ StoreSlug(r) \/ OpenSession(r)

RoutingNext ==
    \/ \E s \in Slugs :
          \/ \E p \in Pods : ConsoleFlush(p, s)
          \/ ConsoleCommit(s) \/ ConsoleRollback(s)
          \/ CreateTenant(s) \/ IngressWebhook(s) \/ TeardownWebhook(s)
    \/ \E r \in Reqs :
          \/ \E p \in Pods : Arrive(r, p)
          \/ \E w \in Workers : TaskStart(r, w)
          \/ Serve(r)
    \/ \E p \in Processes :
          \/ \E s \in Slugs : ExpireSlug(p, s)
          \/ Restart(p)
    \/ \E p \in Pods, h \in Hosts : ExpireHost(p, h)

RoutingSpec == RoutingInit /\ [][RoutingNext]_rVars

(* Requests make progress while their process lives, open console           *)
(* transactions end, and time passes for every cache entry.                 *)
RoutingLive ==
    /\ RoutingSpec
    /\ \A r \in Reqs : WF_rVars(Serve(r))
    /\ \A s \in Slugs : WF_rVars(ConsoleCommit(s) \/ ConsoleRollback(s))
    /\ \A p \in Processes, s \in Slugs : WF_rVars(ExpireSlug(p, s))
    /\ \A p \in Pods, h \in Hosts : WF_rVars(ExpireHost(p, h))

-------------------------------------------------------------------------------
RoutingTypeOK ==
    /\ registry \in [Slugs -> Row \cup {NoRow}]
    /\ pending \in [Slugs -> Txn \cup {NoTxn}]
    /\ ids \in 0..MaxId /\ edits \in 0..MaxEdits
    /\ slugCache \in [Processes -> [Slugs -> Context \cup {Missing}]]
    /\ hostCache \in [Pods -> [Hosts -> Context \cup {NoContext, Missing}]]
    /\ pools \in [Processes -> [Slugs -> Databases \cup {None}]]
    /\ settled \subseteq Processes

(* A process started after the registry last changed uses the database the  *)
(* registry names, for every tenant it has an engine for: restarting the    *)
(* processes is what makes a new db-config take effect (the banner that     *)
(* api/v1/console.py:1021 speaks of).                                        *)
RestartRefreshes ==
    \A p \in settled, s \in Slugs :
        pools[p][s] # None => pools[p][s] = registry[s].db

(* A tenant that is suspended or deleted for good is in the end served by no *)
(* process: the caches that no one clears expire, and are not filled again   *)
(* from each other (tenant_resolver.py:54, "60s TTL is short enough that     *)
(* suspending a tenant takes effect quickly").                               *)
SuspensionTakesEffect ==
    \A s \in Slugs :
        <>[]~Active(s) =>
            <>[](\A p \in Processes : slugCache[p][s] = Missing
                    /\ \A h \in Hosts : p \in Pods => hostCache[p][h].slug # s)

(* A tenant that stays active is in the end not hidden by the negative       *)
(* answers that were cached for its address before it existed or while it    *)
(* was suspended (tenant_resolver.py:76).                                    *)
AddressOpens ==
    \A s \in Slugs, h \in Hosts :
        LabelOf[h] = s /\ <>[]Active(s) =>
            <>[](\A p \in Pods : hostCache[p][h] # NoContext)

(* What a reader may conclude from a row: it is of the tenancy of its id,    *)
(* also when a console transaction is open across a deletion and a creation  *)
(* of its slug, and no id is of two tenants (tenant_resolver.py, by tid).     *)
Registry == INSTANCE TenantRegistry WITH
    Tenancies <- Ids, Vacant <- 0, spent <- 1..ids,
    holder <- [s \in Slugs |-> registry[s].id], serving <- [s \in Slugs |-> registry[s].active]
RowsKeepRegistry == Registry!Spec

(* api/v1/console.py:1013 says of a db-config change: "All writes go through *)
(* one transaction and end with clear_tenant_cache so the resolver rebuilds  *)
(* the engine on the next request": the engine a session is taken from is    *)
(* that of its context.                                                      *)
EngineFollowsConfig ==
    \A r \in Reqs :
        LET q == req[r] IN
        q.pc = "resolved" /\ q.ctx # Default =>
            pools[q.proc][q.ctx.slug] \in {None, q.ctx.db}

(* api/middleware/tenant_resolver.py:107 says of clear_tenant_cache that the *)
(* resolver "needs to see the change immediately rather than after the 60s   *)
(* TTL. The console calls this on every mutation": what the process of the   *)
(* console has cached when its mutation commits is what it committed.        *)
CommitShownAtOnce ==
    [][\A s \in Slugs :
          pending[s] # NoTxn /\ registry'[s] # registry[s] =>
              slugCache'[pending[s].by][s] \in {Missing, IF Active(s)' THEN RowContext(s)' ELSE Missing}]_rVars

===============================================================================
