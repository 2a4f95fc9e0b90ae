------------------------------ MODULE Provisioning ------------------------------
(***************************************************************************)
(* Tenant provisioning of the internal Console: the registry row and the   *)
(* provisioning_jobs rows (console_service.py), the Celery tasks that      *)
(* dispatch and reconcile GitHub Actions runs (provisioning_worker.py) and *)
(* the phase webhooks (provisioning_workflow.py).                          *)
(*                                                                         *)
(* Every handler reads a row into its session, awaits, and commits later:  *)
(* each of those points is a step.  A commit writes only the columns whose *)
(* value differs from the one read (SQLAlchemy's net changes, no version   *)
(* column), under READ COMMITTED.  GitHub is external: its runs advance by *)
(* themselves and its webhooks may be lost, repeated and reordered.        *)
(***************************************************************************)
EXTENDS Naturals, Sequences, FiniteSets

CONSTANTS
    Slugs,        \* tenant slugs
    Jobs,         \* ids of provisioning_jobs rows; an id is used once
    Hooks,        \* webhook requests that may be in flight at once
    Recs,         \* reconcile tasks that may be scheduled or in flight at once
    Ops,          \* operators acting on a failed job at once
    Nobody,       \* "no tenant_registry row" / "no job"
    NumPhases,    \* phases of a workflow; the last one is "report"
    Ingress,      \* the phase whose success carries the custom_domain
    MaxRuns,      \* bound: GitHub runs created
    MaxAttempts   \* RECONCILE_MAX_ATTEMPTS: retries of one reconcile task

ASSUME PhasesAssumption == /\ NumPhases \in Nat \ {0}
                           /\ Ingress \in 1..NumPhases
ASSUME BoundsAssumption == MaxRuns \in Nat /\ MaxAttempts \in Nat
ASSUME NobodyAssumption == Nobody \notin Jobs

VARIABLES
    tenant,   \* tenant_registry, one row per slug; by = Nobody: no row
    jobs,     \* provisioning_jobs
    events,   \* provisioning_job_events as the set of (phase, status) per job
    runs,     \* GitHub Actions runs, oldest first
    net,      \* webhooks GitHub has sent
    worker,   \* the provision / destroy task of each job
    hook,     \* ingest_event requests in flight
    rec,      \* reconcile tasks
    op        \* rerun / mark-operational requests in flight

dbVars  == <<tenant, jobs, events>>
ghVars  == <<runs, net>>
vars    == <<tenant, jobs, events, runs, net, worker, hook, rec, op>>

-----------------------------------------------------------------------------
(* Types.  An uncommitted row ("open") is visible to its own request only;  *)
(* a "wiped" one was deleted or rolled back.  target is a history field: the *)
(* registry row that was there when the job was requested.                   *)

Phase       == 1..NumPhases
Report      == NumPhases
Kinds       == {"create", "destroy", "suspend", "resume"}
Status      == {"pending", "running", "success", "failed", "manually_completed"}
EventStatus == {"started", "succeeded", "failed"}
Conclusions == {"success", "failure", "skipped"}
NoRun       == 0                       \* external_run_id is NULL

JobRow  == [row : {"none", "open", "live", "wiped"}, slug : Slugs \cup {Nobody},
            kind : Kinds, status : Status, done : BOOLEAN, run : Nat,
            phase : 0..NumPhases, target : Jobs \cup {Nobody}]
Run     == [kind : Kinds, job : Jobs, pos : 0..NumPhases,
            end : Conclusions \cup {"running"}]
Webhook == [job : Jobs, phase : Phase, status : EventStatus]

\* custom_domain: none, asked for by an operator, or reported by a workflow
Domains  == {"none", "asked", "reported"}
NoTenant == [by |-> Nobody, active |-> FALSE, domain |-> "none"]
NewJob   == [row |-> "none", slug |-> Nobody, kind |-> "create", status |-> "pending",
             done |-> FALSE, run |-> NoRun, phase |-> 0, target |-> Nobody]
IdleTask == [pc |-> "none", status |-> "pending", run |-> NoRun]
IdleHook == [pc |-> "idle"]
IdleRec  == [pc |-> "free"]
IdleOp   == [pc |-> "idle"]

TenantRow  == [by : Jobs \cup {Nobody}, active : BOOLEAN, domain : Domains]
TaskState  == [pc : {"none", "queued", "post", "lookup", "save", "fail"},
               status : Status, run : Nat]
HookState  == {IdleHook} \cup [pc : {"read", "wiping"}, job : Jobs, phase : Phase, event : EventStatus,
                               status : Status, at : 0..NumPhases]
RecState   == {IdleRec} \cup [pc : {"waiting", "read", "answered", "wiping", "exhausted"}, job : Jobs,
                              status : Status, run : Nat, answer : Conclusions,
                              tries : 0..MaxAttempts]
OpState    == {IdleOp} \cup [pc : {"rerun", "mark"}, job : Jobs, done : BOOLEAN]
EventSet   == SUBSET (Phase \X EventStatus)

TypeOK ==
    /\ tenant \in [Slugs -> TenantRow]
    /\ jobs   \in [Jobs -> JobRow]
    /\ events \in [Jobs -> EventSet]
    /\ runs   \in Seq(Run)
    /\ net    \in SUBSET Webhook
    /\ worker \in [Jobs -> TaskState]
    /\ hook   \in [Hooks -> HookState]
    /\ rec    \in [Recs -> RecState]
    /\ op     \in [Ops -> OpState]

Init ==
    /\ tenant = [s \in Slugs |-> NoTenant]
    /\ jobs   = [j \in Jobs |-> NewJob]
    /\ events = [j \in Jobs |-> {}]
    /\ runs   = <<>>
    /\ net    = {}
    /\ worker = [j \in Jobs |-> IdleTask]
    /\ hook   = [h \in Hooks |-> IdleHook]
    /\ rec    = [c \in Recs |-> IdleRec]
    /\ op     = [o \in Ops |-> IdleOp]

-----------------------------------------------------------------------------
(* Database.                                                                *)

ExistsSoftDelete(j) == jobs[j].row \in {"live", "wiped"}            \* mutant
Exists(j)   == jobs[j].row = "live"
Finished    == {"success", "failed"}

\* A column after a commit: what this session read, what it assigned and what
\* the row holds now.  An assignment that changes nothing is not written.
ColumnFullRow(read, assigned, now) == assigned                     \* mutant
Column(read, assigned, now) == IF assigned = read THEN now ELSE assigned

\* An open request holds the tenant row it inserted or updated (suspended_at is
\* always new), so every other writer of a row that is there waits for its commit.
UnlockedAlways(s) == TRUE                                          \* mutant
Unlocked(s) == \A j \in Jobs : jobs[j].row = "open" => jobs[j].slug # s

\* DELETE FROM provisioning_jobs: the committed jobs of the slug but this one.
Wipe(j, row) ==
    jobs' = [i \in Jobs |-> IF i = j THEN row
                            ELSE IF jobs[i].row = "live" /\ jobs[i].slug = row.slug
                                 THEN [jobs[i] EXCEPT !.row = "wiped"]
                                 ELSE jobs[i]]

\* The transaction of a DESTROY job that succeeds: DELETE FROM tenant_registry,
\* then Wipe, then the commit of the job.  A first DELETE that matches the row
\* waits for its writer and keeps it, and the slug with it, until the commit: no
\* CREATE of the slug is inserted in between and the three are one step.
TeardownKeepsRow(j, row) == UNCHANGED tenant /\ Wipe(j, row)       \* mutant
Teardown(j, row) ==
    /\ tenant[row.slug].by # Nobody /\ Unlocked(row.slug)
    /\ tenant' = [tenant EXCEPT ![row.slug] = NoTenant]
    /\ Wipe(j, row)

\* One that matches nothing, for an earlier success removed the row, locks nothing
\* and waits for nobody; a CREATE may commit before the second DELETE reads.
NoRowToDelete(j) == jobs[j].kind = "destroy" /\ tenant[jobs[j].slug].by = Nobody

\* ON DELETE CASCADE: the events of the rows that are gone, with new ones of j.
EventsNoCascade(j, new) == events' = [events EXCEPT ![j] = @ \cup new]  \* mutant
EventsAfter(j, new) ==
    events' = [i \in Jobs |-> IF jobs'[i].row = "wiped" THEN {}
                              ELSE IF i = j THEN events[i] \cup new ELSE events[i]]

-----------------------------------------------------------------------------
(* Console requests.  The row is flushed, the task is handed to the broker  *)
(* and only then does get_db_session commit.                                *)

Flush(j, s, kind) ==
    /\ jobs[j].row = "none" /\ Unlocked(s)
    /\ jobs' = [jobs EXCEPT ![j].row = "open", ![j].slug = s, ![j].kind = kind,
                            ![j].target = tenant[s].by]
    /\ \E pc \in {"queued", "none"} :          \* "none": the broker refused it
           worker' = [worker EXCEPT ![j].pc = pc]
    /\ UNCHANGED <<tenant, events, ghVars, hook, rec, op>>

CreateTenant(j, s)  == tenant[s].by = Nobody /\ Flush(j, s, "create")
DestroyTenant(j, s) == tenant[s].by # Nobody /\ Flush(j, s, "destroy")

\* custom_domain is a field of the body of create_tenant.
Asked == {"none", "asked"}
CommitRequest(j, domain) ==
    /\ jobs[j].row = "open"
    /\ domain # "none" => jobs[j].kind = "create"
    /\ jobs' = [jobs EXCEPT ![j].row = "live"]
    /\ tenant' = [tenant EXCEPT ![jobs[j].slug] =
                     IF jobs[j].kind = "create"
                     THEN [by |-> j, active |-> TRUE, domain |-> domain]
                     ELSE [@ EXCEPT !.active = FALSE]]
    /\ UNCHANGED <<events, ghVars, worker, hook, rec, op>>

\* The request fails after the task was sent, or the process dies.
RollbackRequest(j) ==
    /\ jobs[j].row = "open"
    /\ jobs' = [jobs EXCEPT ![j].row = "wiped"]
    /\ UNCHANGED <<tenant, events, ghVars, worker, hook, rec, op>>

\* suspend_tenant / resume_tenant: done at once, recorded as a finished job.
SetActive(j, s, active) ==
    /\ jobs[j].row = "none" /\ tenant[s].by # Nobody /\ Unlocked(s)
    /\ tenant' = [tenant EXCEPT ![s].active = active]
    /\ jobs' = [jobs EXCEPT ![j] =
                   [@ EXCEPT !.row = "live", !.slug = s, !.status = "success", !.done = TRUE,
                             !.kind = IF active THEN "resume" ELSE "suspend"]]
    /\ UNCHANGED <<events, ghVars, worker, hook, rec, op>>

\* update_tenant: the fields of TenantUpdate that anything else here touches,
\* custom_domain (set or cleared) and is_active; no job records it.
UpdateTenant(s) ==
    /\ tenant[s].by # Nobody /\ Unlocked(s)
    /\ \/ \E domain \in Asked \ {tenant[s].domain} :
              tenant' = [tenant EXCEPT ![s].domain = domain]
       \/ tenant' = [tenant EXCEPT ![s].active = ~@]
    /\ UNCHANGED <<jobs, events, ghVars, worker, hook, rec, op>>

-----------------------------------------------------------------------------
(* The dispatch task.  Celery acknowledges early: a crash loses it.         *)

TaskStart(j) ==
    /\ worker[j].pc = "queued"
    /\ worker' = [worker EXCEPT ![j] =
                     IF Exists(j) THEN [@ EXCEPT !.pc = "post", !.status = jobs[j].status]
                     ELSE IdleTask]                                \* job_not_found
    /\ UNCHANGED <<dbVars, ghVars, hook, rec, op>>

\* The POST of workflow_dispatch.  An answer lost on the way is an exception
\* although the run exists; a missing GH token fails before any POST.
Dispatch(j) ==
    /\ worker[j].pc = "post"
    /\ \E created \in BOOLEAN, ok \in BOOLEAN :
           /\ ok => created
           /\ created => Len(runs) < MaxRuns
           /\ runs' = IF created
                      THEN Append(runs, [kind |-> jobs[j].kind, job |-> j,
                                         pos |-> 0, end |-> "running"])
                      ELSE runs
           /\ worker' = [worker EXCEPT ![j].pc = IF ok THEN "lookup" ELSE "fail"]
    /\ UNCHANGED <<dbVars, net, hook, rec, op>>

\* _lookup_run: runs[0] of the workflow's dispatch runs.
RunsOf(kind) == {r \in DOMAIN runs : runs[r].kind = kind}

LookupRun(j) ==
    /\ worker[j].pc = "lookup"
    /\ \/ \E r \in RunsOf(jobs[j].kind) :
              /\ \A q \in RunsOf(jobs[j].kind) : q <= r
              /\ worker' = [worker EXCEPT ![j].pc = "save", ![j].run = r]
       \/ worker' = [worker EXCEPT ![j].pc = "save"]        \* no listing answered 2xx
       \/ worker' = [worker EXCEPT ![j].pc = "fail"]        \* the request raised
    /\ UNCHANGED <<dbVars, ghVars, hook, rec, op>>

\* The task's commit: an UPDATE of a row deleted meanwhile is a StaleDataError,
\* and Celery queues the task again.
TaskCommitBlind(j, row) ==                                         \* mutant
    jobs' = [jobs EXCEPT ![j] = row] /\ worker' = [worker EXCEPT ![j] = IdleTask]
TaskCommit(j, row) ==
    IF Exists(j) THEN jobs' = [jobs EXCEPT ![j] = row] /\ worker' = [worker EXCEPT ![j] = IdleTask]
    ELSE UNCHANGED jobs /\ worker' = [worker EXCEPT ![j] = [IdleTask EXCEPT !.pc = "queued"]]

\* apply_async of a reconcile task; the broker may refuse it.
Schedule(j) ==
    \/ UNCHANGED rec
    \/ \E c \in Recs : /\ rec[c].pc = "free"
                       /\ rec' = [rec EXCEPT ![c] =
                               [pc |-> "waiting", job |-> j, status |-> "pending",
                                run |-> NoRun, answer |-> "failure", tries |-> 0]]

SaveRun(j) ==
    LET read == worker[j].status
        assigned == IF read = "pending" THEN "running" ELSE read
    IN
    /\ worker[j].pc = "save"
    /\ TaskCommit(j, [jobs[j] EXCEPT !.status = Column(read, assigned, @),
                                     !.run = Column(NoRun, worker[j].run, @)])
    /\ IF Exists(j) THEN Schedule(j) ELSE UNCHANGED rec
    /\ UNCHANGED <<tenant, events, ghVars, hook, op>>

DispatchFailed(j) ==
    /\ worker[j].pc = "fail"
    /\ TaskCommit(j, [jobs[j] EXCEPT !.status = Column(worker[j].status, "failed", @),
                                     !.done = TRUE])
    /\ UNCHANGED <<tenant, events, ghVars, hook, rec, op>>

TaskCrash(j) ==
    /\ worker[j].pc \in {"post", "lookup", "save", "fail"}
    /\ worker' = [worker EXCEPT ![j] = IdleTask]
    /\ UNCHANGED <<dbVars, ghVars, hook, rec, op>>

-----------------------------------------------------------------------------
(* GitHub Actions (external).                                               *)

Running(r) == r \in DOMAIN runs /\ runs[r].end = "running"
Send(r, phase, status) ==
    net' = net \cup {[job |-> runs[r].job, phase |-> phase, status |-> status]}

PhaseStarts(r) ==
    /\ Running(r) /\ runs[r].pos < NumPhases
    /\ Send(r, runs[r].pos + 1, "started") /\ net' # net
    /\ UNCHANGED <<dbVars, runs, worker, hook, rec, op>>

PhaseSucceeds(r) ==
    /\ Running(r) /\ runs[r].pos < NumPhases
    /\ runs' = [runs EXCEPT ![r].pos = @ + 1]
    /\ Send(r, runs[r].pos + 1, "succeeded")
    /\ UNCHANGED <<dbVars, worker, hook, rec, op>>

PhaseFails(r) ==
    /\ Running(r) /\ runs[r].pos < NumPhases
    /\ runs' = [runs EXCEPT ![r].end = "failure"]
    /\ Send(r, runs[r].pos + 1, "failed")
    /\ UNCHANGED <<dbVars, worker, hook, rec, op>>

\* The run completes; a cancelled or skipped one says nothing by webhook.
RunCompletes(r) ==
    /\ Running(r)
    /\ \E c \in Conclusions :
           /\ (c = "success") = (runs[r].pos = NumPhases)
           /\ runs' = [runs EXCEPT ![r].end = c]
    /\ UNCHANGED <<dbVars, net, worker, hook, rec, op>>

-----------------------------------------------------------------------------
(* ingest_event.                                                            *)

WebhookArrives(h, m) ==
    /\ hook[h].pc = "idle" /\ Exists(m.job)
    /\ hook' = [hook EXCEPT ![h] = [pc |-> "read", job |-> m.job, phase |-> m.phase,
                                    event |-> m.status, status |-> jobs[m.job].status,
                                    at |-> jobs[m.job].phase]]
    /\ UNCHANGED <<dbVars, ghVars, worker, rec, op>>

\* The status ingest_event assigns, from the one it read.
StatusAfter(k) ==
    CASE k.event = "succeeded" /\ k.phase = Report -> "success"
      [] k.event = "failed"                        -> "failed"
      [] k.status = "pending"                      -> "running"
      [] OTHER                                     -> k.status

\* _next_phase: the pointer only moves forward from the phase read.
NextPhaseAfter(k) == IF k.event = "succeeded" /\ k.phase >= k.at THEN k.phase + 1 ELSE k.at  \* mutant
NextPhase(k) == IF k.event = "succeeded" /\ k.phase >= k.at THEN k.phase ELSE k.at

Ends(k) == k.event = "failed" \/ (k.event = "succeeded" /\ k.phase = Report)

HookRow(k) ==
    [jobs[k.job] EXCEPT !.status = Column(k.status, StatusAfter(k), @),
                        !.phase  = Column(k.at, NextPhase(k), @),
                        !.done   = @ \/ Ends(k)]

\* The success of a DESTROY job.
Offboards(k) == jobs[k.job].kind = "destroy" /\ k.event = "succeeded" /\ k.phase = Report

WebhookCommits(h) ==
    LET k == hook[h]
        row == HookRow(k)
        \* only the create workflow's payload carries a custom_domain
        domain == /\ k.event = "succeeded" /\ k.phase = Ingress
                  /\ row.kind = "create" /\ tenant[row.slug].by # Nobody
    IN
    /\ k.pc = "read" /\ Exists(k.job)
    /\ IF Offboards(k)
       THEN Teardown(k.job, row)
       ELSE /\ jobs' = [jobs EXCEPT ![k.job] = row]
            /\ IF domain
               THEN Unlocked(row.slug) /\ tenant' = [tenant EXCEPT ![row.slug].domain = "reported"]
               ELSE UNCHANGED tenant
    /\ EventsAfter(k.job, {<<k.phase, k.event>>})
    /\ hook' = [hook EXCEPT ![h] = IdleHook]
    /\ UNCHANGED <<ghVars, worker, rec, op>>

WebhookFindsNoRow(h) ==
    /\ hook[h].pc = "read" /\ Offboards(hook[h]) /\ NoRowToDelete(hook[h].job)
    /\ hook' = [hook EXCEPT ![h].pc = "wiping"]
    /\ UNCHANGED <<dbVars, ghVars, worker, rec, op>>

WebhookWipes(h) ==
    LET k == hook[h] IN
    /\ k.pc = "wiping" /\ Exists(k.job)
    /\ Wipe(k.job, HookRow(k))
    /\ EventsAfter(k.job, {<<k.phase, k.event>>})
    /\ hook' = [hook EXCEPT ![h] = IdleHook]
    /\ UNCHANGED <<tenant, ghVars, worker, rec, op>>

\* The row was deleted since it was read, or the process dies: rolled back.
WebhookAborts(h) ==
    /\ hook[h].pc # "idle"
    /\ hook' = [hook EXCEPT ![h] = IdleHook]
    /\ UNCHANGED <<dbVars, ghVars, worker, rec, op>>

-----------------------------------------------------------------------------
(* The reconciler.                                                          *)

\* raise self.retry, until max_retries.
RetryForgotten(c) == rec' = [rec EXCEPT ![c] = IdleRec]            \* mutant
Retry(c) ==
    LET k == rec[c]
    IN  rec' = [rec EXCEPT ![c] = IF k.tries < MaxAttempts
                                  THEN [k EXCEPT !.pc = "waiting", !.tries = k.tries + 1]
                                  ELSE [k EXCEPT !.pc = "exhausted"]]

ReconcileStart(c) ==
    LET j == rec[c].job IN
    /\ rec[c].pc = "waiting"
    /\ IF ~Exists(j) \/ jobs[j].status \in Finished
       THEN rec' = [rec EXCEPT ![c] = IdleRec]
       ELSE IF jobs[j].run = NoRun THEN Retry(c)
       ELSE rec' = [rec EXCEPT ![c].pc = "read", ![c].status = jobs[j].status,
                               ![c].run = jobs[j].run]
    /\ UNCHANGED <<dbVars, ghVars, worker, hook, op>>

\* _gh_job_state_to_event over the run's jobs: what the Jobs API shows of a run
\* as (phase, event status) pairs.  A phase after a failed one is "skipped".
Synthesized(r) ==
    {<<p, "succeeded">> : p \in 1..runs[r].pos}
    \cup (IF runs[r].pos = NumPhases THEN {}
          ELSE {<<runs[r].pos + 1, IF runs[r].end = "running" THEN "started" ELSE "failed">>}
               \cup (IF runs[r].end = "running" THEN {}
                     ELSE {<<p, "succeeded">> : p \in (runs[r].pos + 2)..NumPhases}))

\* GET of the run: an error, an unfinished run or an unknown conclusion is a
\* retry; the events synthesized for an unfinished run are committed.
PollRetry(c) ==
    LET k == rec[c] IN
    /\ k.pc = "read"
    /\ \/ UNCHANGED events
       \/ /\ runs[k.run].end = "running" /\ Exists(k.job)
          /\ events' = [events EXCEPT ![k.job] = @ \cup Synthesized(k.run)]
    /\ Retry(c)
    /\ UNCHANGED <<tenant, jobs, ghVars, worker, hook, op>>

PollAnswers(c) ==
    /\ rec[c].pc = "read"
    /\ runs[rec[c].run].end \in {"success", "failure"}
    /\ rec' = [rec EXCEPT ![c].pc = "answered", ![c].answer = runs[rec[c].run].end]
    /\ UNCHANGED <<dbVars, ghVars, worker, hook, op>>

VerdictCompleted(k) == "success"                                   \* mutant
Verdict(k) == IF k.answer = "success" THEN "success" ELSE "failed"

RecRow(k) == [jobs[k.job] EXCEPT !.status = Column(k.status, Verdict(k), @), !.done = TRUE]

ReconcileCommits(c) ==
    LET k == rec[c] IN
    /\ k.pc = "answered" /\ Exists(k.job)
    /\ IF jobs[k.job].kind = "destroy" /\ Verdict(k) = "success"
       THEN Teardown(k.job, RecRow(k))
       ELSE jobs' = [jobs EXCEPT ![k.job] = RecRow(k)] /\ UNCHANGED tenant
    /\ \E seen \in {{}, Synthesized(k.run)} : EventsAfter(k.job, seen)
    /\ rec' = [rec EXCEPT ![c] = IdleRec]
    /\ UNCHANGED <<ghVars, worker, hook, op>>

ReconcileFindsNoRow(c) ==
    /\ rec[c].pc = "answered" /\ Verdict(rec[c]) = "success" /\ NoRowToDelete(rec[c].job)
    /\ rec' = [rec EXCEPT ![c].pc = "wiping"]
    /\ UNCHANGED <<dbVars, ghVars, worker, hook, op>>

ReconcileWipes(c) ==
    LET k == rec[c] IN
    /\ k.pc = "wiping" /\ Exists(k.job)
    /\ Wipe(k.job, RecRow(k))
    /\ \E seen \in {{}, Synthesized(k.run)} : EventsAfter(k.job, seen)
    /\ rec' = [rec EXCEPT ![c] = IdleRec]
    /\ UNCHANGED <<tenant, ghVars, worker, hook, op>>

\* StaleDataError or any exception in the task: retried.
ReconcileAborts(c) ==
    /\ rec[c].pc \in {"answered", "wiping"} /\ ~Exists(rec[c].job)
    /\ Retry(c)
    /\ UNCHANGED <<dbVars, ghVars, worker, hook, op>>

\* The worker process dies between two points of the task, which is lost.
ReconcileCrash(c) ==
    /\ rec[c].pc \in {"read", "answered", "wiping"}
    /\ rec' = [rec EXCEPT ![c] = IdleRec]
    /\ UNCHANGED <<dbVars, ghVars, worker, hook, op>>

-----------------------------------------------------------------------------
(* Operator actions on a failed job.                                        *)

\* rerun_job: the POST re-runs the failed jobs of the linked run.
RerunPosts(o, j) ==
    /\ op[o].pc = "idle" /\ Exists(j) /\ jobs[j].status = "failed" /\ jobs[j].run # NoRun
    /\ runs[jobs[j].run].end \in {"failure", "skipped"}
    /\ runs' = [runs EXCEPT ![jobs[j].run].end = "running"]
    /\ op' = [op EXCEPT ![o] = [pc |-> "rerun", job |-> j, done |-> jobs[j].done]]
    /\ UNCHANGED <<dbVars, net, worker, hook, rec>>

RerunCommits(o) ==
    LET k == op[o] IN
    /\ k.pc = "rerun" /\ Exists(k.job)
    /\ jobs' = [jobs EXCEPT ![k.job].status = "pending",
                            ![k.job].done = Column(k.done, FALSE, @)]
    /\ Schedule(k.job)
    /\ op' = [op EXCEPT ![o] = IdleOp]
    /\ UNCHANGED <<tenant, events, ghVars, worker, hook>>

MarkReads(o, j) ==
    /\ op[o].pc = "idle" /\ Exists(j) /\ jobs[j].status = "failed"
    /\ op' = [op EXCEPT ![o] = [pc |-> "mark", job |-> j, done |-> jobs[j].done]]
    /\ UNCHANGED <<dbVars, ghVars, worker, hook, rec>>

MarkCommits(o) ==
    LET k == op[o] IN
    /\ k.pc = "mark" /\ Exists(k.job)
    /\ jobs' = [jobs EXCEPT ![k.job].status = "manually_completed",
                            ![k.job].done = Column(k.done, TRUE, @)]
    /\ events' = [events EXCEPT ![k.job] = @ \cup {<<Report, "succeeded">>}]
    /\ op' = [op EXCEPT ![o] = IdleOp]
    /\ UNCHANGED <<tenant, ghVars, worker, hook, rec>>

OpAborts(o) ==
    /\ op[o].pc # "idle"
    /\ op' = [op EXCEPT ![o] = IdleOp]
    /\ UNCHANGED <<dbVars, ghVars, worker, hook, rec>>

-----------------------------------------------------------------------------
Answers(j) == RollbackRequest(j) \/ \E domain \in Asked : CommitRequest(j, domain)

Requests == \/ \E j \in Jobs : \/ \E s \in Slugs : \/ CreateTenant(j, s)
                                                   \/ DestroyTenant(j, s)
                                                   \/ \E b \in BOOLEAN : SetActive(j, s, b)
                               \/ Answers(j)
            \/ \E s \in Slugs : UpdateTenant(s)

Task(j)     == TaskStart(j) \/ Dispatch(j) \/ LookupRun(j) \/ SaveRun(j) \/ DispatchFailed(j)

GitHub(r)   == PhaseStarts(r) \/ PhaseSucceeds(r) \/ PhaseFails(r) \/ RunCompletes(r)

Webhooks    == \E h \in Hooks : \/ \E m \in net : WebhookArrives(h, m)
                                \/ WebhookCommits(h)
                                \/ WebhookFindsNoRow(h)
                                \/ WebhookWipes(h)
                                \/ WebhookAborts(h)

Reconcile(c) == \/ ReconcileStart(c) \/ PollRetry(c) \/ PollAnswers(c)
                \/ ReconcileCommits(c) \/ ReconcileFindsNoRow(c) \/ ReconcileWipes(c)
                \/ ReconcileAborts(c)

Operators   == \E o \in Ops : \/ \E j \in Jobs : RerunPosts(o, j) \/ MarkReads(o, j)
                              \/ RerunCommits(o) \/ MarkCommits(o) \/ OpAborts(o)

\* A Celery worker process dies; its task is lost (no acks_late).
Crashes == (\E j \in Jobs : TaskCrash(j)) \/ (\E c \in Recs : ReconcileCrash(c))

Steps == \/ Requests
         \/ \E j \in Jobs : Task(j)
         \/ \E r \in 1..MaxRuns : GitHub(r)
         \/ Webhooks
         \/ \E c \in Recs : Reconcile(c)
         \/ Operators

Next == Steps \/ Crashes

Spec == Init /\ [][Next]_vars

\* No worker process dies; Celery runs what is queued and a started run of a
\* workflow goes on to its end; an open request commits or rolls back.  New requests,
\* webhooks and operators owe nothing.
LiveSpec == /\ Init /\ [][Steps]_vars
            /\ \A j \in Jobs : WF_vars(Task(j)) /\ WF_vars(Answers(j))
            /\ \A c \in Recs : WF_vars(Reconcile(c))
            /\ \A r \in 1..MaxRuns : WF_vars(GitHub(r))

-----------------------------------------------------------------------------
(* Properties.                                                              *)

\* Whoever writes the final status, and however its columns interleave with a
\* rerun that clears completed_at, a finished job carries its completion time.
FinishedIsDated ==
    \A j \in Jobs : Exists(j) /\ jobs[j].status \in Finished => jobs[j].done

\* Creation and teardown keep the registry and the jobs table in step: a CREATE
\* job is there only as long as its row, and a row is always of a CREATE job of
\* its slug, whose own row may be gone before it.
RegistryMatchesCreateJob ==
    /\ \A s \in Slugs : tenant[s].by # Nobody =>
           LET j == tenant[s].by
           IN jobs[j].row \in {"live", "wiped"} /\ jobs[j].kind = "create" /\ jobs[j].slug = s
    /\ \A j \in Jobs : Exists(j) /\ jobs[j].kind = "create" => tenant[jobs[j].slug].by = j

\* ... in the one way the code leaves open: a DESTROY success that came again
\* found no row to delete, and a CREATE of the slug committed before it wiped.
Wiping(s) == \/ \E h \in Hooks : hook[h].pc = "wiping" /\ jobs[hook[h].job].slug = s
             \/ \E c \in Recs : rec[c].pc = "wiping" /\ jobs[rec[c].job].slug = s
CreateJobGoesWithRow ==
    [][\A j \in Jobs : /\ Exists(j) /\ jobs[j].kind = "create" /\ jobs'[j].row = "wiped"
                         => tenant'[jobs[j].slug].by # j \/ Wiping(jobs[j].slug)]_vars
RegistryKeepsCreateJob == []RegistryMatchesCreateJob /\ CreateJobGoesWithRow

\* A rolled-back or deleted job never comes back through a session that read it
\* before (the worker, webhook, reconciler and operator all write by id).
WipedStaysWiped ==
    [][\A j \in Jobs : jobs[j].row = "wiped" => jobs'[j] = jobs[j]]_vars

\* The event rows of a job go with it: a webhook or a reconcile pass in flight
\* across the teardown leaves none behind.
EventsBelongToRows ==
    \A j \in Jobs : events[j] # {} => Exists(j)

\* GitHub said so: the job's own report webhook was sent, or the run that the
\* job is linked to concluded with success.
Evidence(j) ==
    \/ [job |-> j, phase |-> Report, status |-> "succeeded"] \in net
    \/ jobs[j].run # NoRun /\ runs[jobs[j].run].end = "success"

\* No job that runs a workflow is marked SUCCESS on anything less.
SuccessHasEvidence ==
    \A j \in Jobs : /\ Exists(j) /\ jobs[j].status = "success"
                     /\ jobs[j].kind \in {"create", "destroy"}
                     => Evidence(j)

\* A registry row is only ever removed for a DESTROY job of that slug whose
\* workflow GitHub reported done.
TeardownHasEvidence ==
    [][\A s \in Slugs : tenant[s].by # Nobody /\ tenant'[s].by = Nobody =>
          \E j \in Jobs : /\ Exists(j) /\ jobs[j].kind = "destroy" /\ jobs[j].slug = s
                           /\ Evidence(j)]_vars

\* A custom_domain that a workflow wrote into a registry row was reported for the
\* CREATE job of that very row, also when the slug was destroyed and created again
\* meanwhile, and the report is shown as long as the job is.
DomainOfItsTenant ==
    \A s \in Slugs : tenant[s].domain = "reported" /\ Exists(tenant[s].by) =>
        <<Ingress, "succeeded">> \in events[tenant[s].by]

\* Both, for the rows that creations, teardowns and the sessions that overlap
\* them leave behind: no event without its job, no reported domain without its event.
RowsInStep == EventsBelongToRows /\ DomainOfItsTenant

\* The reconciler makes up for lost webhooks: a linked, unfinished job with a
\* reconcile task scheduled is decided, deleted, or its retries run out.
Undecided(j) == Exists(j) /\ jobs[j].status \in {"pending", "running"} /\ jobs[j].run # NoRun
ReconcilerDecides ==
    \A c \in Recs, j \in Jobs :
        (Undecided(j) /\ rec[c].pc = "waiting" /\ rec[c].job = j)
        ~> (~Undecided(j) \/ rec[c].pc = "exhausted")

\* The registry that everything else reads: whatever requests, tasks, webhooks,
\* the reconciler and operators do to jobs, a slug is held by one tenancy at a
\* time, known by the CREATE job that made its row, and none comes back.
Spent == {j \in Jobs : jobs[j].kind = "create" /\ jobs[j].row \in {"live", "wiped"}}
Registry == INSTANCE TenantRegistry WITH
    Tenancies <- Jobs, Vacant <- Nobody, spent <- Spent,
    holder <- [s \in Slugs |-> tenant[s].by], serving <- [s \in Slugs |-> tenant[s].active]
JobsKeepRegistry == Registry!Spec

(* What the comments and docstrings say and the code does not do.           *)

\* provisioning_worker.py:258 "Mark RUNNING here only if the webhook hasn't
\* already raced ahead": the task's own commit never overwrites a later status.
TaskRespectsWebhook ==
    [][\A j \in Jobs : worker[j].pc = "save" /\ worker'[j].pc = "none" /\ Exists(j) =>
          jobs'[j].status = jobs[j].status \/ jobs[j].status = "pending"]_vars

\* provisioning_worker.py:455 "the task short-circuits if the job is already
\* terminal": a pass that read the operator's sign-off does not undo it.
ManualSignOffKept ==
    [][\A c \in Recs : /\ rec[c].pc = "answered" /\ rec[c].status = "manually_completed"
                       /\ jobs[rec[c].job].status = "manually_completed"
                       => jobs'[rec[c].job].status = "manually_completed"]_vars

\* provisioning_worker.py:163 "Find the workflow run whose
\* inputs.dispatch_token matches": a job is linked to its own run.
LinkedToOwnRun ==
    \A j \in Jobs : Exists(j) /\ jobs[j].run # NoRun => runs[jobs[j].run].job = j

\* provisioning_workflow.py:284 "the platform row is the last thing tying the slug
\* to the tenant": a teardown removes the row of the tenant whose database the
\* workflow dropped, not one created afterwards for the same slug.
TeardownOfItsTarget ==
    [][\A s \in Slugs : tenant[s].by # Nobody /\ tenant'[s].by = Nobody =>
          \E j \in Jobs : /\ Exists(j) /\ jobs[j].kind = "destroy"
                           /\ jobs[j].target = tenant[s].by]_vars

\* provisioning_workflow.py:264 "the BE never accepts custom_domain from an
\* operator's PATCH": the domain of a row changes only as a workflow reports it.
DomainFromWorkflowOnly ==
    [][\A s \in Slugs : /\ tenant[s].by # Nobody /\ tenant'[s].by = tenant[s].by
                          /\ tenant'[s].domain # tenant[s].domain
                          => tenant'[s].domain = "reported"]_vars

\* provisioning_workflow.py:297 "wipe historical provisioning_jobs for this slug":
\* the CREATE job of a row that stays is not history.
OnlyHistoryIsWiped ==
    [][\A s \in Slugs : tenant'[s].by # Nobody /\ Exists(tenant'[s].by)
          => jobs'[tenant'[s].by].row # "wiped"]_vars

\* provisioning_workflow.py:218 "advances current_phase forward (never back)".
PhaseNeverBack ==
    [][\A j \in Jobs : jobs'[j].phase >= jobs[j].phase]_vars

\* console_service.py:486 "an operator can re-dispatch from the Console (or a
\* Celery beat reaper will pick it up)": a pending DESTROY job leaves PENDING.
PendingIsPickedUp ==
    \A j \in Jobs : (Exists(j) /\ jobs[j].kind = "destroy" /\ jobs[j].status = "pending")
                     ~> (~Exists(j) \/ jobs[j].status # "pending")

\* provisioning_worker.py:486 "skipped / cancelled / etc. count as failure for
\* UI purposes": a phase shown as succeeded did succeed in some run of the job.
NoSkippedShownAsSuccess ==
    \A j \in Jobs, p \in Phase :
        <<p, "succeeded">> \in events[j] =>
            \/ \E r \in DOMAIN runs : runs[r].job = j /\ runs[r].pos >= p
            \/ jobs[j].status = "manually_completed"
=============================================================================
