-------------------------- MODULE TenantRoutingProofs --------------------------
(***************************************************************************)
(* For any number of tenants, hosts, processes and requests: the types, and  *)
(* that a process started after the registry last changed uses the databases *)
(* the registry names.                                                       *)
(***************************************************************************)
EXTENDS TenantRouting, TLAPS

Phases == {"idle", "host", "hostRead", "slug", "slugRead", "resolved"}
Request == [pc : Phases, proc : Processes \cup {None}, host : Hosts \cup {None},
            named : Slugs \cup {None}, tid : 0..MaxId, ctx : Context \cup {NoContext, Default}]

(* What a request holds where its next step reads it.                        *)
RequestOK(q) ==
    /\ q \in Request
    /\ q.pc # "idle" => q.proc \in Processes
    /\ q.pc \in {"host", "hostRead"} => q.proc \in Pods /\ q.host \in Hosts
    /\ q.pc \in {"hostRead", "slugRead"} => q.ctx \in Context \cup {NoContext}
    /\ q.pc = "resolved" => q.ctx \in Context \cup {Default}

RoutingTypes == RoutingTypeOK /\ req \in [Reqs -> Request] /\ \A r \in Reqs : RequestOK(req[r])

(* A context that says of its tenant what the registry says.                 *)
Fresh(ctx) == ctx.slug \in Slugs => ctx.db = registry[ctx.slug].db

(* All that a process has in its caches, its requests and its engines is.    *)
CachesFresh(p) ==
    /\ \A s \in Slugs : Fresh(slugCache[p][s])
    /\ p \in Pods => \A h \in Hosts : Fresh(hostCache[p][h])
RequestsFresh(p) == \A r \in Reqs : req[r].proc = p => Fresh(req[r].ctx)
EnginesFresh(p) == \A s \in Slugs : pools[p][s] # None => pools[p][s] = registry[s].db

RoutingInv ==
    /\ RoutingTypes
    /\ \A p \in settled : CachesFresh(p) /\ RequestsFresh(p) /\ EnginesFresh(p)

-------------------------------------------------------------------------------
LEMMA Contexts ==
    /\ Fresh(NoContext) /\ Fresh(Missing) /\ Fresh(Default)
    /\ \A ctx \in Context : ctx # NoContext /\ ctx # Missing /\ ctx # Default
    /\ RequestOK(Idle)
BY RoutingAssumption DEF Fresh, NoContext, Missing, Default, Context, RequestOK, Request, Idle, Phases

LEMMA Rows ==
    ASSUME RoutingTypeOK, NEW s \in Slugs, Exists(s)
    PROVE  registry[s] \in Row /\ RowContext(s) \in Context /\ Fresh(RowContext(s))
BY DEF RoutingTypeOK, Exists, NoRow, Row, RowContext, Context, Fresh

LEMMA Lookups ==
    ASSUME RoutingTypeOK
    PROVE  /\ \A s \in Slugs : LoadBySlug(s) \in Context \cup {NoContext} /\ Fresh(LoadBySlug(s))
           /\ \A i : LoadById(i) \in Context \cup {NoContext} /\ Fresh(LoadById(i))
           /\ \A h : HostTenant(h) \in Context \cup {NoContext} /\ Fresh(HostTenant(h))
<1>1. \A s \in Slugs : Active(s) => RowContext(s) \in Context /\ Fresh(RowContext(s))
    BY Rows DEF Active
<1>2. \A S \in SUBSET {s \in Slugs : Active(s)} : S # {} =>
          RowContext(CHOOSE s \in S : TRUE) \in Context /\ Fresh(RowContext(CHOOSE s \in S : TRUE))
    BY <1>1
<1>3. \A s \in Slugs : LoadBySlug(s) \in Context \cup {NoContext} /\ Fresh(LoadBySlug(s))
    BY <1>1, Contexts DEF LoadBySlug
<1>4. ASSUME NEW i PROVE LoadById(i) \in Context \cup {NoContext} /\ Fresh(LoadById(i))
  <2> DEFINE S == {s \in Slugs : Active(s) /\ registry[s].id = i}
  <2>1. S \in SUBSET {s \in Slugs : Active(s)}
    OBVIOUS
  <2>2. LoadById(i) = IF S = {} THEN NoContext ELSE RowContext(CHOOSE s \in S : TRUE)
    BY DEF LoadById
  <2> HIDE DEF S
  <2> QED
    BY <1>2, <2>1, <2>2, Contexts
<1>5. ASSUME NEW h PROVE HostTenant(h) \in Context \cup {NoContext} /\ Fresh(HostTenant(h))
  <2> DEFINE S == {s \in Slugs : Active(s) /\ registry[s].domain = h}
             T == {s \in Slugs : Active(s) /\ LabelOf[h] = s}
  <2>1. S \in SUBSET {s \in Slugs : Active(s)} /\ T \in SUBSET {s \in Slugs : Active(s)}
    OBVIOUS
  <2>2. HostTenant(h) = IF S # {} THEN RowContext(CHOOSE s \in S : TRUE)
                        ELSE IF T # {} THEN RowContext(CHOOSE s \in T : TRUE)
                        ELSE NoContext
    BY DEF HostTenant
  <2> HIDE DEF S, T
  <2> QED
    BY <1>2, <2>1, <2>2, Contexts
<1> QED
    BY <1>3, <1>4, <1>5

LEMMA RoutingInitInv == RoutingInit => RoutingInv
<1> SUFFICES ASSUME RoutingInit PROVE RoutingInv
    OBVIOUS
<1>1. registry \in [Slugs -> Row \cup {NoRow}] /\ ids \in 0..MaxId
    BY RoutingAssumption DEF RoutingInit, Row, Ids, NoRow
<1>2. RoutingTypeOK
    BY <1>1, RoutingAssumption DEF RoutingInit, RoutingTypeOK
<1>3. RoutingTypes
    BY <1>2, Contexts DEF RoutingInit, RoutingTypes, RequestOK
<1>4. \A p \in settled : CachesFresh(p) /\ RequestsFresh(p) /\ EnginesFresh(p)
    BY Contexts DEF RoutingInit, CachesFresh, RequestsFresh, EnginesFresh, Processes, Idle
<1> QED
    BY <1>3, <1>4 DEF RoutingInv

-------------------------------------------------------------------------------
(* A change of the registry: no process is settled after it.                 *)
LEMMA CommitInv ==
    ASSUME RoutingInv, NEW s \in Slugs, NEW row \in Row \cup {NoRow}, CommitRow(s, row),
           pending' \in [Slugs -> Txn \cup {NoTxn}], ids' \in 0..MaxId, edits' \in 0..MaxEdits,
           UNCHANGED <<slugCache, hostCache, pools, req>>
    PROVE  RoutingInv'
BY DEF RoutingInv, RoutingTypes, RoutingTypeOK, CommitRow

(* A step of one request, with what it stores and opens.                     *)
LEMMA StepInv ==
    ASSUME RoutingInv, NEW r \in Reqs, NEW q, RequestOK(q), Step(r, q),
           q.proc \in settled => Fresh(q.ctx),
           slugCache' \in [Processes -> [Slugs -> Context \cup {Missing}]],
           hostCache' \in [Pods -> [Hosts -> Context \cup {NoContext, Missing}]],
           pools' \in [Processes -> [Slugs -> Databases \cup {None}]],
           \A p \in settled, s \in Slugs : Fresh(slugCache'[p][s]),
           \A p \in settled, h \in Hosts : p \in Pods => Fresh(hostCache'[p][h]),
           \A p \in settled, s \in Slugs : pools'[p][s] # None => pools'[p][s] = registry[s].db,
           UNCHANGED <<registry, pending, ids, edits, settled>>
    PROVE  RoutingInv'
<1>1. req' \in [Reqs -> Request] /\ \A t \in Reqs : req'[t] = IF t = r THEN q ELSE req[t]
    BY DEF RoutingInv, RoutingTypes, Step, RequestOK
<1>2. RoutingTypes'
    BY <1>1 DEF RoutingInv, RoutingTypes, RoutingTypeOK
<1>3. \A ctx : Fresh(ctx)' <=> (ctx.slug \in Slugs => ctx.db = registry[ctx.slug].db)
    BY DEF Fresh
<1>4. \A p \in settled : CachesFresh(p)'
    BY DEF CachesFresh, Fresh
<1>5. \A p \in settled : RequestsFresh(p)'
    BY <1>1 DEF RoutingInv, RequestsFresh, Fresh
<1>6. \A p \in settled : EnginesFresh(p)'
    BY DEF EnginesFresh
<1> QED
    BY <1>2, <1>4, <1>5, <1>6 DEF RoutingInv

(* Entries that are dropped or are of processes not settled; what requests   *)
(* and engines hold stays.                                                   *)
LEMMA CachesInv ==
    ASSUME RoutingInv,
           slugCache' \in [Processes -> [Slugs -> Context \cup {Missing}]],
           hostCache' \in [Pods -> [Hosts -> Context \cup {NoContext, Missing}]],
           pending' \in [Slugs -> Txn \cup {NoTxn}], edits' \in 0..MaxEdits,
           \A p \in Processes, s \in Slugs : slugCache'[p][s] \in {slugCache[p][s], Missing},
           \A p \in Pods, h \in Hosts : hostCache'[p][h] \in {hostCache[p][h], Missing},
           UNCHANGED <<registry, ids, pools, req, settled>>
    PROVE  RoutingInv'
<1>1. RoutingTypes' /\ settled \subseteq Processes
    BY DEF RoutingInv, RoutingTypes, RoutingTypeOK
<1>2. \A p \in settled : CachesFresh(p)'
    BY <1>1, Contexts DEF RoutingInv, CachesFresh, Fresh
<1>3. \A p \in settled : RequestsFresh(p)' /\ EnginesFresh(p)'
    BY DEF RoutingInv, RequestsFresh, EnginesFresh, Fresh
<1> QED
    BY <1>1, <1>2, <1>3 DEF RoutingInv

LEMMA ConsoleInv ==
    ASSUME RoutingInv, NEW s \in Slugs,
           (\E p \in Pods : ConsoleFlush(p, s)) \/ ConsoleCommit(s) \/ ConsoleRollback(s)
    PROVE  RoutingInv'
<1>1. RoutingTypeOK
    BY DEF RoutingInv, RoutingTypes
<1>2. ASSUME NEW p \in Pods, ConsoleFlush(p, s) PROVE RoutingInv'
  <2>1. registry[s] \in Row
    BY <1>1, <1>2, Rows DEF ConsoleFlush
  <2>2. Assignments(s) \subseteq Row
    BY <2>1 DEF Assignments, Row
  <2>3. pending' \in [Slugs -> Txn \cup {NoTxn}] /\ edits' \in 0..MaxEdits
    BY <1>1, <1>2, <2>2, RoutingAssumption DEF ConsoleFlush, RoutingTypeOK, Txn, Edit
  <2>4. /\ slugCache' = [slugCache EXCEPT ![p] = [t \in Slugs |-> Missing]]
        /\ hostCache' = [hostCache EXCEPT ![p] = [h \in Hosts |-> Missing]]
        /\ UNCHANGED <<registry, ids, pools, req, settled>>
    BY <1>2 DEF ConsoleFlush, ClearCaches
  <2>5. slugCache' \in [Processes -> [Slugs -> Context \cup {Missing}]]
    BY <1>1, <2>4 DEF RoutingTypeOK
  <2>6. hostCache' \in [Pods -> [Hosts -> Context \cup {NoContext, Missing}]]
    BY <1>1, <2>4 DEF RoutingTypeOK
  <2>7. /\ \A q \in Processes, t \in Slugs : slugCache'[q][t] \in {slugCache[q][t], Missing}
        /\ \A q \in Pods, h \in Hosts : hostCache'[q][h] \in {hostCache[q][h], Missing}
    BY <1>1, <2>4 DEF RoutingTypeOK
  <2> QED
    BY <2>3, <2>4, <2>5, <2>6, <2>7, CachesInv
<1>3. CASE ConsoleCommit(s)
  <2>1. pending[s].row \in Row
    BY <1>1, <1>3 DEF ConsoleCommit, RoutingTypeOK, Txn
  <2>2. pending' \in [Slugs -> Txn \cup {NoTxn}] /\ ids' \in 0..MaxId /\ edits' \in 0..MaxEdits
    BY <1>1, <1>3 DEF ConsoleCommit, RoutingTypeOK
  <2> QED
    BY <1>3, <2>1, <2>2, CommitInv DEF ConsoleCommit
<1>4. CASE ConsoleRollback(s)
  <2>1. pending' \in [Slugs -> Txn \cup {NoTxn}] /\ edits' \in 0..MaxEdits
    BY <1>1, <1>4 DEF ConsoleRollback, RoutingTypeOK
  <2>2. UNCHANGED <<registry, ids, slugCache, hostCache, pools, req, settled>>
    BY <1>4 DEF ConsoleRollback
  <2> QED
    BY <1>1, <2>1, <2>2, CachesInv DEF RoutingTypeOK
<1> QED
    BY <1>2, <1>3, <1>4

LEMMA WebhookInv ==
    ASSUME RoutingInv, NEW s \in Slugs, CreateTenant(s) \/ IngressWebhook(s) \/ TeardownWebhook(s)
    PROVE  RoutingInv'
<1>1. RoutingTypeOK /\ pending \in [Slugs -> Txn \cup {NoTxn}] /\ ids \in 0..MaxId
    BY DEF RoutingInv, RoutingTypes, RoutingTypeOK
<1>2. edits' \in 0..MaxEdits /\ UNCHANGED <<pending, slugCache, hostCache, pools, req>>
    BY <1>1, RoutingAssumption
    DEF CreateTenant, IngressWebhook, TeardownWebhook, Edit, RoutingTypeOK
<1>3. CASE CreateTenant(s)
  <2>1. ids + 1 \in Ids /\ ids' \in 0..MaxId
    BY <1>1, <1>3, RoutingAssumption DEF CreateTenant, Ids
  <2>2. PICK row \in Row : CommitRow(s, row)
    BY <1>3, <2>1 DEF CreateTenant, Row
  <2> QED
    BY <1>1, <1>2, <2>1, <2>2, CommitInv
<1>4. CASE IngressWebhook(s)
  <2>1. registry[s] \in Row /\ ids' = ids
    BY <1>1, <1>4, Rows DEF IngressWebhook
  <2>2. PICK row \in Row : CommitRow(s, row)
    BY <1>4, <2>1 DEF IngressWebhook, Row
  <2> QED
    BY <1>1, <1>2, <2>1, <2>2, CommitInv
<1>5. CASE TeardownWebhook(s)
    BY <1>1, <1>2, <1>5, CommitInv DEF TeardownWebhook
<1> QED
    BY <1>3, <1>4, <1>5

-------------------------------------------------------------------------------
(* The caches and engines as they are are those of a step that leaves them.  *)
LEMMA Unchanged ==
    ASSUME RoutingInv
    PROVE  /\ slugCache \in [Processes -> [Slugs -> Context \cup {Missing}]]
           /\ hostCache \in [Pods -> [Hosts -> Context \cup {NoContext, Missing}]]
           /\ pools \in [Processes -> [Slugs -> Databases \cup {None}]]
           /\ \A p \in settled, s \in Slugs : Fresh(slugCache[p][s])
           /\ \A p \in settled, h \in Hosts : p \in Pods => Fresh(hostCache[p][h])
           /\ \A p \in settled, s \in Slugs : pools[p][s] # None => pools[p][s] = registry[s].db
           /\ \A r \in Reqs : req[r].proc \in settled => Fresh(req[r].ctx)
           /\ \A r \in Reqs : RequestOK(req[r])
           /\ ids \in 0..MaxId /\ MaxId \in Nat
           /\ RoutingTypeOK
BY RoutingAssumption DEF RoutingInv, RoutingTypes, RoutingTypeOK, CachesFresh, RequestsFresh, EnginesFresh

(* A step that only moves a request on.                                      *)
LEMMA MoveInv ==
    ASSUME RoutingInv, NEW r \in Reqs, NEW q, RequestOK(q), Step(r, q),
           q.proc \in settled => Fresh(q.ctx),
           UNCHANGED <<registry, pending, ids, edits, slugCache, hostCache, pools, settled>>
    PROVE  RoutingInv'
BY Unchanged, StepInv

(* What the requests of Resolved, NoHostTenant and Loaded are.               *)
LEMMA Moves ==
    ASSUME RoutingInv, NEW r \in Reqs, req[r].pc # "idle", NEW ctx
    PROVE  /\ LET q == [Idle EXCEPT !.pc = "resolved", !.proc = req[r].proc, !.ctx = ctx]
              IN  q.proc = req[r].proc /\ q.ctx = ctx /\ (ctx \in Context \cup {Default} => RequestOK(q))
           /\ LET q == [Idle EXCEPT !.pc = "slugRead", !.proc = req[r].proc, !.ctx = ctx]
              IN  q.proc = req[r].proc /\ q.ctx = ctx /\ (ctx \in Context \cup {NoContext} => RequestOK(q))
           /\ LET q == [req[r] EXCEPT !.pc = "slug", !.host = None, !.ctx = NoContext]
              IN  q.proc = req[r].proc /\ q.ctx = NoContext /\ RequestOK(q)
<1>1. RequestOK(req[r]) /\ req[r].proc \in Processes /\ 0 \in 0..MaxId
    BY Unchanged, RoutingAssumption DEF RequestOK
<1>2. LET q == [Idle EXCEPT !.pc = "resolved", !.proc = req[r].proc, !.ctx = ctx]
      IN  q.proc = req[r].proc /\ q.ctx = ctx /\ (ctx \in Context \cup {Default} => RequestOK(q))
    BY <1>1 DEF RequestOK, Request, Idle, Phases
<1>3. LET q == [Idle EXCEPT !.pc = "slugRead", !.proc = req[r].proc, !.ctx = ctx]
      IN  q.proc = req[r].proc /\ q.ctx = ctx /\ (ctx \in Context \cup {NoContext} => RequestOK(q))
    BY <1>1 DEF RequestOK, Request, Idle, Phases
<1>4. LET q == [req[r] EXCEPT !.pc = "slug", !.host = None, !.ctx = NoContext]
      IN  q.proc = req[r].proc /\ q.ctx = NoContext /\ RequestOK(q)
    BY <1>1 DEF RequestOK, Request, Phases
<1> QED
    BY <1>2, <1>3, <1>4

LEMMA BeginInv ==
    ASSUME RoutingInv, NEW r \in Reqs,
           (\E p \in Pods : Arrive(r, p)) \/ (\E w \in Workers : TaskStart(r, w))
    PROVE  RoutingInv'
<1>1. ASSUME NEW p \in Pods, Arrive(r, p) PROVE RoutingInv'
  <2>1. PICK h \in Hosts, s \in Slugs \cup {None}, i \in 0..ids :
            Step(r, [Idle EXCEPT !.pc = "host", !.proc = p, !.host = h, !.named = s, !.tid = i])
    BY <1>1 DEF Arrive
  <2> DEFINE q == [Idle EXCEPT !.pc = "host", !.proc = p, !.host = h, !.named = s, !.tid = i]
  <2>2. i \in 0..MaxId
    BY Unchanged
  <2>3. RequestOK(q) /\ q.ctx = NoContext
    BY <2>2 DEF RequestOK, Request, Idle, Phases, Processes
  <2> HIDE DEF q
  <2> QED
    BY <1>1, <2>1, <2>3, Contexts, MoveInv DEF Arrive, q
<1>2. ASSUME NEW w \in Workers, TaskStart(r, w) PROVE RoutingInv'
  <2>1. PICK s \in Slugs : Step(r, [Idle EXCEPT !.pc = "slug", !.proc = w, !.named = s])
    BY <1>2 DEF TaskStart
  <2> DEFINE q == [Idle EXCEPT !.pc = "slug", !.proc = w, !.named = s]
  <2>2. 0 \in 0..MaxId /\ w \in Processes
    BY RoutingAssumption DEF Processes
  <2>3. RequestOK(q) /\ q.ctx = NoContext
    BY <2>2 DEF RequestOK, Request, Idle, Phases
  <2>4. Step(r, q)
    BY <2>1
  <2>5. UNCHANGED <<registry, pending, ids, edits, slugCache, hostCache, pools, settled>>
    BY <1>2 DEF TaskStart
  <2> HIDE DEF q
  <2> QED
    BY <2>3, <2>4, <2>5, Contexts, MoveInv
<1> QED
    BY <1>1, <1>2

LEMMA ResolvedInv ==
    ASSUME RoutingInv, NEW r \in Reqs, req[r].pc # "idle",
           NEW ctx \in Context \cup {Default}, req[r].proc \in settled => Fresh(ctx), Resolved(r, ctx),
           UNCHANGED <<registry, pending, ids, edits, slugCache, hostCache, pools, settled>>
    PROVE  RoutingInv'
<1> DEFINE q == [Idle EXCEPT !.pc = "resolved", !.proc = req[r].proc, !.ctx = ctx]
<1>1. RequestOK(q) /\ q.proc = req[r].proc /\ q.ctx = ctx /\ Step(r, q)
    BY Moves DEF Resolved
<1> HIDE DEF q
<1> QED
    BY <1>1, MoveInv

LEMMA LoadedInv ==
    ASSUME RoutingInv, NEW r \in Reqs, req[r].pc # "idle",
           NEW ctx \in Context \cup {NoContext}, Fresh(ctx), Loaded(r, ctx),
           UNCHANGED <<registry, pending, ids, edits, slugCache, hostCache, pools, settled>>
    PROVE  RoutingInv'
<1> DEFINE q == [Idle EXCEPT !.pc = "slugRead", !.proc = req[r].proc, !.ctx = ctx]
<1>1. RequestOK(q) /\ q.ctx = ctx /\ Step(r, q)
    BY Moves DEF Loaded
<1> HIDE DEF q
<1> QED
    BY <1>1, MoveInv

LEMMA HostInv == ASSUME RoutingInv, NEW r \in Reqs, LookupHost(r) PROVE RoutingInv'
<1> DEFINE entry == hostCache[req[r].proc][req[r].host]
<1>0. /\ UNCHANGED <<registry, pending, ids, edits, slugCache, hostCache, pools, settled>>
      /\ req[r].pc = "host" /\ RequestOK(req[r]) /\ req[r].proc \in Pods /\ req[r].host \in Hosts
    BY Unchanged DEF LookupHost, RequestOK
<1>1. CASE entry \in Context /\ Resolved(r, entry)
    BY <1>0, <1>1, Unchanged, ResolvedInv
<1>2. CASE NoHostTenant(r)
  <2> DEFINE q == [req[r] EXCEPT !.pc = "slug", !.host = None, !.ctx = NoContext]
  <2>1. RequestOK(q) /\ q.ctx = NoContext /\ Step(r, q)
    BY <1>0, <1>2, Moves DEF NoHostTenant
  <2> HIDE DEF q
  <2> QED
    BY <1>0, <2>1, Contexts, MoveInv
<1>3. CASE Step(r, [req[r] EXCEPT !.pc = "hostRead", !.ctx = HostTenant(req[r].host)])
  <2> DEFINE ctx == HostTenant(req[r].host)
             q == [req[r] EXCEPT !.pc = "hostRead", !.ctx = ctx]
  <2>1. ctx \in Context \cup {NoContext} /\ Fresh(ctx)
    BY Unchanged, Lookups
  <2> HIDE DEF ctx
  <2>2. RequestOK(q) /\ q.ctx = ctx
    BY <1>0, <2>1 DEF RequestOK, Request, Phases, Processes
  <2>3. Step(r, q)
    BY <1>3 DEF ctx
  <2> HIDE DEF q
  <2> QED
    BY <1>0, <2>1, <2>2, <2>3, MoveInv
<1> QED
    BY <1>1, <1>2, <1>3 DEF LookupHost

LEMMA SlugInv == ASSUME RoutingInv, NEW r \in Reqs, LookupSlug(r) PROVE RoutingInv'
<1> DEFINE named == req[r].named
           entry == slugCache[req[r].proc][named]
<1>0. /\ UNCHANGED <<registry, pending, ids, edits, slugCache, hostCache, pools, settled>>
      /\ req[r].pc = "slug" /\ req[r].proc \in Processes /\ named \in Slugs \cup {None}
      /\ req[r].pc # "idle"
    BY Unchanged DEF LookupSlug, RequestOK, Request
<1>1. CASE named # None /\ entry # Missing /\ Resolved(r, entry)
  <2>1. named \in Slugs
    BY <1>0, <1>1
  <2>2. entry \in Context /\ (req[r].proc \in settled => Fresh(entry))
    BY <1>0, <1>1, <2>1, Unchanged
  <2> HIDE DEF named, entry
  <2> QED
    BY <1>0, <1>1, <2>2, ResolvedInv
<1>2. CASE Loaded(r, NoContext)
    BY <1>0, <1>2, Contexts, LoadedInv
<1>3. CASE named # None /\ Loaded(r, LoadBySlug(named))
  <2>1. LoadBySlug(named) \in Context \cup {NoContext} /\ Fresh(LoadBySlug(named))
    BY <1>0, <1>3, Unchanged, Lookups
  <2> QED
    BY <1>0, <1>3, <2>1, LoadedInv
<1>4. CASE Loaded(r, LoadById(req[r].tid))
  <2>1. LoadById(req[r].tid) \in Context \cup {NoContext} /\ Fresh(LoadById(req[r].tid))
    BY Unchanged, Lookups
  <2> QED
    BY <1>0, <1>4, <2>1, LoadedInv
<1>5. CASE Resolved(r, Default)
    BY <1>0, <1>5, Contexts, ResolvedInv
<1> QED
    BY <1>1, <1>2, <1>3, <1>4, <1>5 DEF LookupSlug

LEMMA StoreHostInv == ASSUME RoutingInv, NEW r \in Reqs, StoreHost(r) PROVE RoutingInv'
<1> DEFINE q == req[r]
           slug == [q EXCEPT !.pc = "slug", !.host = None, !.ctx = NoContext]
           done == [Idle EXCEPT !.pc = "resolved", !.proc = q.proc, !.ctx = q.ctx]
<1>0. /\ UNCHANGED <<registry, pending, ids, edits, pools, settled>>
      /\ q.pc = "hostRead" /\ q.pc # "idle" /\ q.proc \in Pods /\ q.host \in Hosts
      /\ q.ctx \in Context \cup {NoContext} /\ (q.proc \in settled => Fresh(q.ctx))
      /\ hostCache' = [hostCache EXCEPT ![q.proc][q.host] = q.ctx]
    BY Unchanged DEF StoreHost, RequestOK
<1>1. /\ slug.proc = q.proc /\ slug.ctx = NoContext /\ RequestOK(slug)
      /\ done.proc = q.proc /\ done.ctx = q.ctx /\ (q.ctx \in Context => RequestOK(done))
    BY <1>0, Moves
<1>2. /\ hostCache' \in [Pods -> [Hosts -> Context \cup {NoContext, Missing}]]
      /\ \A p \in Pods, h \in Hosts :
            hostCache'[p][h] = IF p = q.proc /\ h = q.host THEN q.ctx ELSE hostCache[p][h]
    BY <1>0, Unchanged
<1>3. \A p \in settled, h \in Hosts : p \in Pods => Fresh(hostCache'[p][h])
    BY <1>0, <1>2, Unchanged
<1>4. CASE q.ctx = NoContext
  <2>1. slugCache' = slugCache /\ Step(r, slug)
    BY <1>4 DEF StoreHost, NoHostTenant
  <2> HIDE DEF slug, done
  <2> QED
    BY <1>0, <1>1, <1>2, <1>3, <2>1, Unchanged, Contexts, StepInv
<1>5. CASE q.ctx # NoContext
  <2>1. /\ slugCache' = [slugCache EXCEPT ![q.proc][q.ctx.slug] = q.ctx] /\ Step(r, done)
        /\ q.ctx \in Context /\ q.ctx.slug \in Slugs /\ q.proc \in Processes
    BY <1>0, <1>5 DEF StoreHost, Resolved, Context, Processes
  <2>2. /\ slugCache' \in [Processes -> [Slugs -> Context \cup {Missing}]]
        /\ \A p \in Processes, s \in Slugs :
              slugCache'[p][s] = IF p = q.proc /\ s = q.ctx.slug THEN q.ctx ELSE slugCache[p][s]
    BY <2>1, Unchanged
  <2>3. \A p \in settled, s \in Slugs : Fresh(slugCache'[p][s])
    BY <1>0, <2>2, Unchanged DEF RoutingTypeOK
  <2> HIDE DEF slug, done
  <2> QED
    BY <1>0, <1>1, <1>2, <1>3, <2>1, <2>2, <2>3, Unchanged, StepInv
<1> QED
    BY <1>4, <1>5

LEMMA StoreSlugInv == ASSUME RoutingInv, NEW r \in Reqs, StoreSlug(r) PROVE RoutingInv'
<1> DEFINE q == req[r]
           done == [Idle EXCEPT !.pc = "resolved", !.proc = q.proc, !.ctx = q.ctx]
<1>0. /\ UNCHANGED <<registry, pending, ids, edits, hostCache, pools, settled>>
      /\ q.pc # "idle" /\ q.proc \in Processes
      /\ q.ctx \in Context \cup {NoContext} /\ (q.proc \in settled => Fresh(q.ctx))
    BY Unchanged DEF StoreSlug, RequestOK
<1>1. CASE q.ctx = NoContext /\ Resolved(r, Default) /\ slugCache' = slugCache
    BY <1>0, <1>1, Contexts, ResolvedInv
<1>2. CASE q.ctx = NoContext /\ Refused(r) /\ slugCache' = slugCache
  <2>1. Step(r, Idle) /\ Idle.ctx = NoContext
    BY <1>2 DEF Refused, Idle
  <2> QED
    BY <1>0, <1>2, <2>1, Contexts, MoveInv
<1>3. CASE q.ctx # NoContext
  <2>1. /\ slugCache' = [slugCache EXCEPT ![q.proc][q.ctx.slug] = q.ctx] /\ Step(r, done)
        /\ q.ctx \in Context /\ q.ctx.slug \in Slugs
    BY <1>0, <1>3 DEF StoreSlug, Resolved, Context
  <2>2. done.proc = q.proc /\ done.ctx = q.ctx /\ RequestOK(done)
    BY <1>0, <2>1, Moves
  <2>3. /\ slugCache' \in [Processes -> [Slugs -> Context \cup {Missing}]]
        /\ \A p \in Processes, s \in Slugs :
              slugCache'[p][s] = IF p = q.proc /\ s = q.ctx.slug THEN q.ctx ELSE slugCache[p][s]
    BY <1>0, <2>1, Unchanged
  <2>4. \A p \in settled, s \in Slugs : Fresh(slugCache'[p][s])
    BY <1>0, <2>3, Unchanged DEF RoutingTypeOK
  <2> HIDE DEF done
  <2> QED
    BY <1>0, <2>1, <2>2, <2>3, <2>4, Unchanged, StepInv
<1> QED
    BY <1>1, <1>2, <1>3 DEF StoreSlug

LEMMA SessionInv == ASSUME RoutingInv, NEW r \in Reqs, OpenSession(r) PROVE RoutingInv'
<1> DEFINE q == req[r]
<1>0. /\ UNCHANGED <<registry, pending, ids, edits, slugCache, hostCache, settled>>
      /\ Step(r, Idle) /\ Idle.ctx = NoContext /\ q.proc \in Processes
      /\ q.ctx \in Context \cup {Default} /\ (q.proc \in settled => Fresh(q.ctx))
    BY Unchanged DEF OpenSession, RequestOK, Idle
<1>1. CASE pools' = pools
    BY <1>0, <1>1, Contexts, MoveInv
<1>2. CASE q.ctx # Default /\ pools' = [pools EXCEPT ![q.proc][q.ctx.slug] = q.ctx.db]
  <2>1. q.ctx.slug \in Slugs /\ q.ctx.db \in Databases
    BY <1>0, <1>2 DEF Context
  <2>2. /\ pools' \in [Processes -> [Slugs -> Databases \cup {None}]]
        /\ \A p \in Processes, s \in Slugs :
              pools'[p][s] = IF p = q.proc /\ s = q.ctx.slug THEN q.ctx.db ELSE pools[p][s]
    BY <1>0, <1>2, <2>1, Unchanged
  <2>3. \A p \in settled, s \in Slugs : pools'[p][s] # None => pools'[p][s] = registry[s].db
    BY <1>0, <2>1, <2>2, Unchanged DEF RoutingTypeOK, Fresh
  <2> QED
    BY <1>0, <2>2, <2>3, Unchanged, Contexts, StepInv
<1> QED
    BY <1>1, <1>2 DEF OpenSession

-------------------------------------------------------------------------------
LEMMA ExpireInv ==
    ASSUME RoutingInv,
           \/ \E p \in Processes, s \in Slugs : ExpireSlug(p, s)
           \/ \E p \in Pods, h \in Hosts : ExpireHost(p, h)
    PROVE  RoutingInv'
<1>1. RoutingTypeOK /\ pending \in [Slugs -> Txn \cup {NoTxn}] /\ edits \in 0..MaxEdits
    BY DEF RoutingInv, RoutingTypes, RoutingTypeOK
<1>2. ASSUME NEW p \in Processes, NEW s \in Slugs, ExpireSlug(p, s) PROVE RoutingInv'
  <2>1. /\ slugCache' \in [Processes -> [Slugs -> Context \cup {Missing}]]
        /\ \A q \in Processes, t \in Slugs : slugCache'[q][t] \in {slugCache[q][t], Missing}
    BY <1>1, <1>2 DEF ExpireSlug, RoutingTypeOK
  <2>2. UNCHANGED <<registry, pending, ids, edits, hostCache, pools, req, settled>>
    BY <1>2 DEF ExpireSlug
  <2> QED
    BY <1>1, <2>1, <2>2, Unchanged, CachesInv
<1>3. ASSUME NEW p \in Pods, NEW h \in Hosts, ExpireHost(p, h) PROVE RoutingInv'
  <2>1. /\ hostCache' \in [Pods -> [Hosts -> Context \cup {NoContext, Missing}]]
        /\ \A q \in Pods, g \in Hosts : hostCache'[q][g] \in {hostCache[q][g], Missing}
    BY <1>1, <1>3 DEF ExpireHost, RoutingTypeOK
  <2>2. UNCHANGED <<registry, pending, ids, edits, slugCache, pools, req, settled>>
    BY <1>3 DEF ExpireHost
  <2> QED
    BY <1>1, <2>1, <2>2, Unchanged, CachesInv
<1> QED
    BY <1>2, <1>3

(* A process that starts has nothing, and is settled.                        *)
LEMMA RestartInv == ASSUME RoutingInv, NEW p \in Processes, Restart(p) PROVE RoutingInv'
<1>1. RoutingTypeOK /\ req \in [Reqs -> Request] /\ \A r \in Reqs : RequestOK(req[r])
    BY DEF RoutingInv, RoutingTypes
<1>2. /\ slugCache' = [slugCache EXCEPT ![p] = [s \in Slugs |-> Missing]]
      /\ hostCache' = [q \in Pods |-> IF q = p THEN [h \in Hosts |-> Missing] ELSE hostCache[q]]
      /\ pools' = [pools EXCEPT ![p] = [s \in Slugs |-> None]]
      /\ req' = [r \in Reqs |-> IF req[r].proc = p THEN Idle ELSE req[r]]
      /\ settled' = settled \cup {p}
      /\ UNCHANGED <<registry, ids, edits>>
    BY DEF Restart
<1>3. pending' \in [Slugs -> Txn \cup {NoTxn}]
    BY <1>1 DEF Restart, RoutingTypeOK
<1>4. /\ slugCache' \in [Processes -> [Slugs -> Context \cup {Missing}]]
      /\ hostCache' \in [Pods -> [Hosts -> Context \cup {NoContext, Missing}]]
      /\ pools' \in [Processes -> [Slugs -> Databases \cup {None}]]
    BY <1>1, <1>2 DEF RoutingTypeOK
<1>5. RoutingTypeOK'
    BY <1>1, <1>2, <1>3, <1>4 DEF RoutingTypeOK
<1>6. RoutingTypes'
    BY <1>1, <1>2, <1>5, Contexts DEF RoutingTypes, RequestOK
<1>7. \A q \in settled' : CachesFresh(q)'
  <2> SUFFICES ASSUME NEW q \in settled' PROVE CachesFresh(q)'
    OBVIOUS
  <2>1. CASE q = p
    BY <1>1, <1>2, <2>1, Contexts DEF CachesFresh, Fresh, RoutingTypeOK
  <2>2. CASE q # p
    BY <1>1, <1>2, <2>2, Contexts DEF RoutingInv, CachesFresh, Fresh, RoutingTypeOK
  <2> QED
    BY <2>1, <2>2
<1>8. \A q \in settled' : RequestsFresh(q)'
  <2>1. Idle.ctx = NoContext
    BY DEF Idle
  <2> QED
    BY <1>2, <2>1, Contexts DEF RoutingInv, RequestsFresh, Fresh
<1>9. \A q \in settled' : EnginesFresh(q)'
    BY <1>1, <1>2 DEF RoutingInv, EnginesFresh, RoutingTypeOK
<1> QED
    BY <1>6, <1>7, <1>8, <1>9 DEF RoutingInv

LEMMA RoutingNextInv == ASSUME RoutingInv, [RoutingNext]_rVars PROVE RoutingInv'
<1>1. CASE UNCHANGED rVars
    BY <1>1 DEF rVars, RoutingInv, RoutingTypes, RoutingTypeOK, CachesFresh, RequestsFresh, EnginesFresh, Fresh
<1> QED
    BY <1>1, ConsoleInv, WebhookInv, BeginInv, HostInv, SlugInv, StoreHostInv, StoreSlugInv, SessionInv,
       ExpireInv, RestartInv
    DEF RoutingNext, Serve

(* Registry, caches, engines and requests are well formed                    *)
(* (TenantRouting!RoutingTypeOK).                                            *)
THEOREM RoutingTypesHold == RoutingSpec => []RoutingTypeOK
<1>1. RoutingInv => RoutingTypeOK
    BY DEF RoutingInv, RoutingTypes
<1> QED
    BY <1>1, RoutingInitInv, RoutingNextInv, PTL DEF RoutingSpec

(* A process started after the registry last changed uses the databases the  *)
(* registry names: what it caches, holds for a request and connects to says  *)
(* of each tenant what the registry says.                                    *)
THEOREM RestartAlwaysRefreshes == RoutingSpec => []RestartRefreshes
<1>1. RoutingInv => RestartRefreshes
    BY DEF RoutingInv, EnginesFresh, RestartRefreshes
<1> QED
    BY <1>1, RoutingInitInv, RoutingNextInv, PTL DEF RoutingSpec
-------------------------------------------------------------------------------
(* The registry as TenantRegistry sees it. An open console transaction holds *)
(* the row it read: whoever would replace that row waits for it.             *)
Holder  == [s \in Slugs |-> registry[s].id]
Serving == [s \in Slugs |-> registry[s].active]
View    == <<Holder, Serving, 1..ids>>

RowIsHeld ==
    \A s \in Slugs : pending[s] # NoTxn => Exists(s) /\ pending[s].row.id = registry[s].id

LEMMA OneRow ==
    ASSUME RoutingTypeOK, NEW s \in Slugs, NEW row, CommitRow(s, row)
    PROVE  Holder' = [Holder EXCEPT ![s] = row.id] /\ Serving' = [Serving EXCEPT ![s] = row.active]
BY DEF Holder, Serving, CommitRow, RoutingTypeOK

LEMMA SameTenancy ==
    ASSUME RoutingTypeOK, NEW s \in Slugs, NEW row \in Row, CommitRow(s, row), ids' = ids,
           Exists(s), row.id = registry[s].id
    PROVE  Registry!Next \/ UNCHANGED View
<1>1. /\ Holder' = [Holder EXCEPT ![s] = row.id] /\ Serving' = [Serving EXCEPT ![s] = row.active]
      /\ row.active \in BOOLEAN /\ registry[s].active \in BOOLEAN
    BY OneRow, Rows DEF Row
<1>2. Holder' = Holder /\ Holder[s] # 0
    BY <1>1 DEF Holder, Exists
<1>3. CASE row.active = registry[s].active
  <2>1. Serving' = Serving
    BY <1>1, <1>3 DEF Serving
  <2> QED
    BY <1>2, <2>1 DEF View
<1>4. CASE row.active # registry[s].active
  <2>1. row.active = ~registry[s].active
    BY <1>1, <1>4
  <2>2. Serving' = [Serving EXCEPT ![s] = ~Serving[s]]
    BY <1>1, <2>1 DEF Serving
  <2>3. Registry!Switch(s)
    BY <1>2, <2>2 DEF Registry!Switch, Holder, Serving
  <2> QED
    BY <2>3 DEF Registry!Next
<1> QED
    BY <1>3, <1>4

LEMMA CreateRefines ==
    ASSUME RoutingTypeOK, NEW s \in Slugs, CreateTenant(s)
    PROVE  Registry!Next
<1>1. ids \in Nat /\ ids + 1 \in Ids /\ Holder[s] = 0
    BY RoutingAssumption DEF RoutingTypeOK, CreateTenant, Exists, Holder, Ids
<1>2. PICK i \in Ids : i = ids + 1
    BY <1>1
<1>3. PICK row : CommitRow(s, row) /\ row.id = i /\ row.active = TRUE
    BY <1>2 DEF CreateTenant
<1>4. Holder' = [Holder EXCEPT ![s] = i] /\ Serving' = [Serving EXCEPT ![s] = TRUE]
    BY <1>3, OneRow
<1>5. i \notin 1..ids /\ 1..ids' = 1..ids \cup {i}
    BY <1>1, <1>2 DEF CreateTenant
<1>6. Registry!Open(s, i)
    BY <1>1, <1>4, <1>5 DEF Registry!Open, Holder, Serving
<1> QED
    BY <1>6 DEF Registry!Next

LEMMA DeleteRefines ==
    ASSUME RoutingTypeOK, NEW s \in Slugs, TeardownWebhook(s)
    PROVE  Registry!Next
<1>1. Holder' = [Holder EXCEPT ![s] = 0] /\ Serving' = [Serving EXCEPT ![s] = FALSE]
    BY OneRow DEF TeardownWebhook, NoRow
<1>2. Holder[s] # 0 /\ ids' = ids
    BY DEF TeardownWebhook, Exists, Holder
<1>3. Registry!Close(s)
    BY <1>1, <1>2 DEF Registry!Close, Holder, Serving
<1> QED
    BY <1>3 DEF Registry!Next

LEMMA RowStep ==
    ASSUME RoutingTypeOK, RowIsHeld, [RoutingNext]_rVars
    PROVE  Registry!Next \/ UNCHANGED View
<1> DEFINE Goal == Registry!Next \/ UNCHANGED View
<1>1. ASSUME UNCHANGED <<registry, ids>> PROVE Goal
    BY <1>1 DEF View, Holder, Serving
<1>2. ASSUME NEW s \in Slugs, ConsoleCommit(s) PROVE Goal
  <2>1. pending[s].row \in Row
    BY <1>2 DEF ConsoleCommit, RoutingTypeOK, Txn
  <2> QED
    BY <1>2, <2>1, SameTenancy DEF ConsoleCommit, RowIsHeld
<1>3. ASSUME NEW s \in Slugs, IngressWebhook(s) PROVE Goal
  <2>1. registry[s] \in Row
    BY <1>3, Rows DEF IngressWebhook
  <2>2. PICK row \in Row : CommitRow(s, row) /\ row.id = registry[s].id
    BY <1>3, <2>1 DEF IngressWebhook, Row
  <2> QED
    BY <1>3, <2>2, SameTenancy DEF IngressWebhook
<1>4. ASSUME NEW s \in Slugs, CreateTenant(s) \/ TeardownWebhook(s) PROVE Goal
    BY <1>4, CreateRefines, DeleteRefines
<1>5. ASSUME NEW s \in Slugs, (\E p \in Pods : ConsoleFlush(p, s)) \/ ConsoleRollback(s) PROVE Goal
    BY <1>1, <1>5 DEF ConsoleFlush, ConsoleRollback
<1>6. ASSUME NEW r \in Reqs, (\E p \in Pods : Arrive(r, p)) \/ (\E w \in Workers : TaskStart(r, w)) \/ Serve(r)
      PROVE  Goal
    BY <1>1, <1>6 DEF Arrive, TaskStart, Serve, LookupHost, StoreHost, LookupSlug, StoreSlug, OpenSession
<1>7. ASSUME NEW p \in Processes, (\E s \in Slugs : ExpireSlug(p, s)) \/ Restart(p) PROVE Goal
    BY <1>1, <1>7 DEF ExpireSlug, Restart
<1>8. ASSUME NEW p \in Pods, NEW h \in Hosts, ExpireHost(p, h) PROVE Goal
    BY <1>1, <1>8 DEF ExpireHost
<1>9. CASE UNCHANGED rVars
    BY <1>1, <1>9 DEF rVars
<1>10. ASSUME NEW s \in Slugs,
              \/ \E p \in Pods : ConsoleFlush(p, s)
              \/ ConsoleCommit(s) \/ ConsoleRollback(s)
              \/ CreateTenant(s) \/ IngressWebhook(s) \/ TeardownWebhook(s)
       PROVE  Goal
    BY <1>2, <1>3, <1>4, <1>5, <1>10
<1> QED
    BY <1>6, <1>7, <1>8, <1>9, <1>10 DEF RoutingNext

(* Only the writers of the registry touch a row or an open transaction.      *)
LEMMA HeldStep ==
    ASSUME RoutingTypeOK, RowIsHeld, [RoutingNext]_rVars
    PROVE  RowIsHeld'
<1> DEFINE Goal == RowIsHeld'
<1>1. ASSUME UNCHANGED <<registry, pending>> PROVE Goal
    BY <1>1 DEF RowIsHeld, Exists
<1>2. ASSUME NEW s \in Slugs, NEW p \in Pods, ConsoleFlush(p, s) PROVE Goal
  <2>1. registry[s] \in Row
    BY <1>2, Rows DEF ConsoleFlush
  <2>2. \A row \in Assignments(s) : row.id = registry[s].id
    BY <2>1 DEF Assignments, Row
  <2>3. \A t \in Slugs \ {s} : pending'[t] = pending[t]
    BY <1>2 DEF ConsoleFlush, RoutingTypeOK
  <2>4. pending'[s].row.id = registry[s].id
    BY <1>2, <2>2 DEF ConsoleFlush, RoutingTypeOK
  <2> QED
    BY <1>2, <2>3, <2>4 DEF ConsoleFlush, RowIsHeld, Exists
<1>3. ASSUME NEW s \in Slugs, ConsoleCommit(s) \/ ConsoleRollback(s) PROVE Goal
  <2>1. pending' = [pending EXCEPT ![s] = NoTxn]
    BY <1>3 DEF ConsoleCommit, ConsoleRollback
  <2>2. \A t \in Slugs \ {s} : registry'[t] = registry[t]
    BY <1>3 DEF ConsoleCommit, ConsoleRollback, CommitRow, RoutingTypeOK
  <2> QED
    BY <2>1, <2>2 DEF RowIsHeld, Exists, RoutingTypeOK
<1>4. ASSUME NEW s \in Slugs, CreateTenant(s) \/ IngressWebhook(s) \/ TeardownWebhook(s) PROVE Goal
  <2>1. pending' = pending /\ pending[s] = NoTxn
    BY <1>4 DEF CreateTenant, IngressWebhook, TeardownWebhook, RowIsHeld
  <2>2. \A t \in Slugs \ {s} : registry'[t] = registry[t]
    BY <1>4 DEF CreateTenant, IngressWebhook, TeardownWebhook, CommitRow, RoutingTypeOK
  <2> QED
    BY <2>1, <2>2 DEF RowIsHeld, Exists
<1>6. ASSUME NEW r \in Reqs, (\E p \in Pods : Arrive(r, p)) \/ (\E w \in Workers : TaskStart(r, w)) \/ Serve(r)
      PROVE  Goal
    BY <1>1, <1>6 DEF Arrive, TaskStart, Serve, LookupHost, StoreHost, LookupSlug, StoreSlug, OpenSession
<1>7. ASSUME NEW p \in Processes, NEW s \in Slugs, ExpireSlug(p, s) PROVE Goal
    BY <1>1, <1>7 DEF ExpireSlug
<1>8. ASSUME NEW p \in Processes, Restart(p) PROVE Goal
  <2>1. registry' = registry /\ \A s \in Slugs : pending'[s] \in {NoTxn, pending[s]}
    BY <1>8 DEF Restart
  <2> QED
    BY <2>1 DEF RowIsHeld, Exists
<1>9. ASSUME NEW p \in Pods, NEW h \in Hosts, ExpireHost(p, h) PROVE Goal
    BY <1>1, <1>9 DEF ExpireHost
<1>10. CASE UNCHANGED rVars
    BY <1>1, <1>10 DEF rVars
<1>11. ASSUME NEW s \in Slugs,
              \/ \E p \in Pods : ConsoleFlush(p, s)
              \/ ConsoleCommit(s) \/ ConsoleRollback(s)
              \/ CreateTenant(s) \/ IngressWebhook(s) \/ TeardownWebhook(s)
       PROVE  Goal
    BY <1>2, <1>3, <1>4, <1>11
<1> QED
    BY <1>6, <1>7, <1>8, <1>9, <1>10, <1>11 DEF RoutingNext

LEMMA RowInit == RoutingInit => Registry!Init /\ RowIsHeld
<1> SUFFICES ASSUME RoutingInit PROVE Registry!Init /\ RowIsHeld
    OBVIOUS
<1>1. \A s \in Slugs : /\ pending[s] = NoTxn
                       /\ registry[s].id = IF Start[s] = None THEN 0 ELSE 1
                       /\ registry[s].active = (Start[s] # None)
    BY DEF RoutingInit, NoRow
<1>2. Holder \in [Slugs -> Ids \cup {0}]
    BY <1>1, RoutingAssumption DEF Holder, Ids
<1>3. \A s, t \in Slugs : Holder[s] = Holder[t] /\ Holder[s] # 0 => s = t
    BY <1>1, RoutingAssumption DEF Holder
<1>4. Serving = [s \in Slugs |-> Holder[s] # 0]
    BY <1>1 DEF Holder, Serving
<1>5. 1..ids = {Holder[s] : s \in Slugs} \ {0}
  <2>1. CASE \A s \in Slugs : Start[s] = None
    <3>1. ids = 0 /\ \A s \in Slugs : Holder[s] = 0
        BY <1>1, <2>1 DEF Holder, RoutingInit
    <3>2. {Holder[s] : s \in Slugs} \ {0} = {} /\ 1..ids = {}
        BY <3>1
    <3> QED
        BY <3>2
  <2>2. CASE \E s \in Slugs : Start[s] # None
    <3>1. /\ ids = 1 /\ \A s \in Slugs : Holder[s] \in {0, 1}
          /\ \E s \in Slugs : Holder[s] = 1
        BY <1>1, <2>2 DEF Holder, RoutingInit
    <3>2. {Holder[s] : s \in Slugs} \ {0} = {1} /\ 1..ids = {1}
        BY <3>1
    <3> QED
        BY <3>2
  <2> QED
    BY <2>1, <2>2
<1>6. Registry!Init
    BY <1>2, <1>3, <1>4, <1>5 DEF Registry!Init, Holder, Serving
<1> QED
    BY <1>1, <1>6 DEF RowIsHeld

(* What a process reads of tenant_registry is what TenantRegistry says: a    *)
(* console transaction that is open across other writers commits onto the    *)
(* tenancy it read, and an id names one tenancy for ever                     *)
(* (TenantRouting!RowsKeepRegistry).                                         *)
THEOREM RowsImplementRegistry == RoutingSpec => RowsKeepRegistry
<1> DEFINE Inv == RoutingInv /\ RowIsHeld
<1>1. RoutingInit => Inv /\ Registry!Init
    BY RoutingInitInv, RowInit
<1>2. Inv /\ [RoutingNext]_rVars => Inv'
    BY RoutingNextInv, HeldStep DEF RoutingInv, RoutingTypes
<1>3. Inv /\ [RoutingNext]_rVars => Registry!Next \/ UNCHANGED View
    BY RowStep DEF RoutingInv, RoutingTypes
<1>4. Inv /\ [RoutingNext]_rVars =>
          [Registry!Next]_<<[s \in Slugs |-> registry[s].id], [s \in Slugs |-> registry[s].active], 1..ids>>
    BY <1>3 DEF View, Holder, Serving
<1> HIDE DEF Inv
<1> QED
    BY <1>1, <1>2, <1>4, PTL DEF RoutingSpec, RowsKeepRegistry, Registry!Spec

===============================================================================
