# A TLA+ model of sky-backend

sky-backend is a multi-tenant FastAPI service with Celery workers, PostgreSQL
(SQLAlchemy), Redis and a set of external systems: GitHub Actions (which builds
and tears down tenants), an AI service, blob storage, Auth0. This directory
models the parts whose correctness depends on what runs at the same time, on
messages that get lost or arrive twice, and on processes that die between two
steps. Each specification is translated from the source, TLC checks it on small
instances, and the TLA+ proof system (tlapm) proves the main results for every
value of the constants.

Source paths below are relative to the repository's own `src/` package (the
services are in `services/`, the Celery tasks in `workers/`, and so on).
Modules, configurations and properties are set in `code`.

## 1. Inventory

### How the components interact

- **Requests** are handled by FastAPI coroutines. One request has one
  SQLAlchemy session; `get_db_session` (`config/database.py`) commits when the
  handler has returned and rolls back when it raised. Some services commit in the
  middle of a request. Between two `await`s other requests run, in this process or
  in another.
- **Tasks** are handed to Celery with `delay()` or `apply_async()`, often
  *before* the request that sends them commits. The broker may refuse a message
  (most callers log that and go on). Celery acknowledges before it executes, so
  a worker that dies takes its task with it. Tasks have time limits.
- **Beats** are periodic tasks (insight agents every minute, older agents every
  five, the sweep of orphaned agents every fifteen, demo cleanup daily).
- **Rows** are shared by all of these. Isolation is READ COMMITTED, no table has
  a version column, sessions keep what they loaded (`expire_on_commit=False`),
  and a commit writes only the columns whose value differs from the one loaded.
  Few handlers lock the row they decide on.
- **Webhooks** from GitHub come repeated, late, out of order, or not at all.
- **Redis** may fail between two commands; where it does, limits and replays are
  skipped.

This is why the same hazard returns in all the modules: a handler decides on the
row it read, awaits something, and writes a part of the row it now finds.

### Components with state of their own

"Module" names the module that models the component; what is left out of a
component that is modelled in part is in its note in `PROJECT.json` and in
section 6.

| Component | State and operations | What is hard | What makes it correct | Module |
|---|---|---|---|---|
| **Tenant provisioning** (`services/console_service.py`, `workers/provisioning_worker.py`, `services/provisioning_workflow.py`) | `tenant_registry`, `provisioning_jobs`, their events, GitHub's runs; create, destroy, dispatch, webhooks, reconciliation, rerun, manual sign-off | three writers of one job row (task, webhook, reconciler) plus the operator; teardown deletes rows other sessions hold; webhooks of an earlier life of a slug | registry and jobs stay in step but for the gap between a teardown's two DELETEs; success and teardown only on GitHub's word; a deleted job stays deleted; a job is decided even without webhooks | `Provisioning` |
| The job's event stream (`api/v1/console_provisioning.py`) | a page that replays rows, then subscribes to Redis | an event between the replay and the subscription; messages published before the commit | every committed event is shown | `ProvisioningStream` |
| **Insight agent runs** (`workers/insight_agent_worker.py`, `services/agent_run_service.py`, `services/insight_agent_service.py`) | `agents`, `agent_executions`, `widget.data`; beat, claim, AI call, comparison, three reports; owner requests | the worker holds its copy of the agent across an AI call of minutes; runs of one agent overlap; workers die | a run follows its life cycle; error only for real failures; a report does not undo the owner's edits | `AgentRuns`, `RunLifecycle` |
| Legacy scheduled agents (`workers/agent_worker.py`, `services/agent_service.py`) | `agents` of the older kind, the queue, retries | lost schedules, stale commits, dead workers | an active agent is executed | `ScheduledAgents` |
| Agent revocation (`services/agent_revocation_service.py`, `services/space_service.py`, `services/crew_service.py`) | members, places, agents; removal, deletion, deactivation, the sweep | an agent created or resumed while a removal is in flight | no agent goes on in a place its creator is out of | `AgentScopes` |
| **Knowledge library** (`services/knowledge_service.py`, `services/quota_service.py`, `workers/knowledge_worker.py`) | files, chunks, blobs, quota; upload, confirm, approve, reprocess, delete; two tasks | indexing takes minutes while the file is deleted or reprocessed; a unique index; messages sent before the commit | a ready file is searchable; nothing is indexed without approval; the quota counts what is there; processing ends | `KnowledgeLibrary` |
| Tenant resolver and engines (`api/middleware/tenant_resolver.py`, `config/tenant_connection_manager.py`) | the registry row, caches by slug and host per process, engine pools | a cached context against suspension, teardown or a new database | a suspended tenant is refused within the cache's lifetime; an active one is not hidden; a restart uses the registry's database | `TenantRouting` |
| Sessions and tokens (`services/auth_service.py`, `core/token_blocklist.py`) | refresh tokens by family, the revocation marker | two refreshes of one token in flight (the code has a TODO about it), a sign-out beside a refresh | a device signed out stays so; nobody is logged out by a failed refresh | `AccountSessions` |
| MFA, password reset, invitations (`services/mfa_service.py`, `services/password_reset_service.py`, `services/invite_service.py`) | columns of one `users` row written by a dozen requests | stale copies of the row | used links stay gone; MFA stays on | `AccountCredentials` |
| Support tickets (`services/ticket_service.py`) | the ticket, its timeline, the on-call hook | two requests on one ticket | the timeline tells the status; an escalation is stamped | `Tickets` |
| Change requests (`services/change_request_service.py`) | one row decided once | accept and dismiss in flight together | the decision is of one decider | `ChangeRequests` |
| Permission grants (`services/permission_grant_service.py`) | live and revoked rows | two grants in flight | a second live row only by a race | `PermissionGrants` |
| Rate limit and idempotency (`api/middleware/`) | Redis counters and stored answers | Redis fails or the process dies between two commands | the limit holds; a stored answer is replayed | `RequestGate` |
| Plans (`services/pricing_service.py`, `workers/pricing_worker.py`) | slots taken, monthly queries | counters bumped apart from the rows they count, some of which never took a slot; the turn of the month | slots are those of the units that took one, each difference accounted for; no query of last month is charged | `PlanLimits` |
| Demo (`services/demo_service.py`, `workers/demo_cleanup_worker.py`) | guests, sandboxes, expiries | cleanup against extension and return; extensions against each other | a sandbox shares its owner's expiry, but for the overlap named; what expired is reaped | `DemoSandbox` |
| Data access (`services/permission_service.py`, parts of `space_service.py` and `crew_service.py`) | permission rows, the tables a space and a crew link | requests of several statements with a commit between | the tables linked are those set | `DataAccess` |
| Connection sync (`services/connection_service.py`) | the connection row, its catalogue | a synchronisation of minutes beside the edits of users and a deletion | user texts are lost only to a race | `ConnectionSync` |
| Threads (`api/v1/ai.py`, `services/message_service.py`, `repositories/message.py`) | messages, comments, the stamp of the answer that took a comment in | comments posted while an answer is being made | a comment is taken in once, and passed over only while asked | `Conversations` |
| Chats of a page (`services/chat_session_service.py`) | chats, their numbers | two requests on one page | a page keeps a chat; titles differ; up to a race | `ChatSessions` |
| Canonical pages (`services/page_service.py`, `repositories/page.py`) | pages of a crew or space, an advisory lock, a partial unique index | entering, creating and deleting at once; stamps older than the commit | members meet on one page | `SharedRooms` |

### Components without behaviour worth a state machine

Console dashboards and telemetry, the Auth0 client, knowledge queries, the AI
pipeline's prompts, settings, metrics, notifications, the insight feed, file
extraction, voice, cache warming, widgets and templates, the role tables, and the
row and message schemas. They read, forward to external systems, or keep records
one request at a time. `PROJECT.json` lists each with its reason.

## 2. Modules

| Module | Role |
|---|---|
| `TenantRegistry` | abstract: what a reader of `tenant_registry` may take it for |
| `Provisioning`, `MCProvisioning`, `ProvisioningProofs` | tenant provisioning: registry, jobs, dispatch tasks, webhooks, reconciler, operators, and GitHub as the environment; implements `TenantRegistry` |
| `RunLifecycle` | abstract: what `core/agent_run_state.py` promises of one run |
| `AgentRuns`, `MCAgentRuns`, `AgentRunsProofs` | insight agents: beat, task, reports, owner requests; implements `RunLifecycle` |
| `KnowledgeLibrary`, `MCKnowledgeLibrary`, `KnowledgeLibraryProofs` | files of one scope, quota, requests, indexing and cleanup tasks |
| `TenantRouting`, `MCTenantRouting`, `TenantRoutingProofs` | the registry row with the caches and engines of every process; implements `TenantRegistry` too |
| `MCBackground` | what goes on by itself: `ProvisioningStream`, `ScheduledAgents`, `AgentScopes`, `DemoSandbox` under one configuration |
| `MCWorkspace` | the requests of a workspace: `AccountSessions`, `AccountCredentials`, `Tickets`, `ChangeRequests`, `PermissionGrants`, `RequestGate`, `PlanLimits`, `DataAccess`, `ConnectionSync`, `Conversations`, `ChatSessions`, `SharedRooms` under one configuration |
| `AccountProofs` | theorems about `AccountSessions` and `AccountCredentials` |
| `RequestsProofs` | theorems about `ChangeRequests`, `PermissionGrants`, `DataAccess`, `ConnectionSync`, `RequestGate`, `PlanLimits` |
| `WorkspaceProofs` | theorems about `Tickets`, `Conversations`, `ChatSessions`, `SharedRooms`, and about `MCWorkspace` as a whole |
| `BackgroundProofs` | theorems about `ProvisioningStream`, `ScheduledAgents`, `AgentScopes`, `DemoSandbox`, and about `MCBackground` as a whole |

`AgentRuns` composes with `RunLifecycle` by refinement, and both models of the
registry with `TenantRegistry`: `Provisioning` writes the rows by jobs, and there a
tenancy is the CREATE job that made the row; `TenantRouting` reads them by id, and
there a tenancy is the id. That both are the same five actions (`Open`, `Lapse`,
`Switch`, `Close`, or nothing) is what lets one stand for the other's registry: the
mutations `TenantRouting` gives itself are those that `Provisioning` makes. The
components that
`MCWorkspace` and `MCBackground` put together share no row: in a behaviour one of
them moves, and the variable `part` says which, so that each is checked alone and
in full although they share a run. Components that do share rows are in one module
(tasks, webhooks, reconciler and operators; sessions and their marker; the
permission, the space's links and the crew's). `TenantRouting` has the registry
row with the mutations `Provisioning` gives it (created, given a domain, torn
down) and those of the console.

One idea is common to all of them. `Column(read, assigned, now)` (`Provisioning`,
`AgentRuns`), `Committed` (`AccountCredentials`), `WriteChanged` (`Tickets`) and
`Write` (`ScheduledAgents`) say what a row holds after a commit: a column is what
it is *now* when the session assigned what it had read, else what was assigned. It
is SQLAlchemy's "net changes": the reason why a lost update here is per column and
depends on what the handler read.

Operators marked `mutant` are not part of the specifications. Each is a small
slip in the definition that follows it (a dropped guard, an off-by-one, a missing
reset) and is used to test that a property would notice it. Properties under
"not so", or whose comment quotes the code and which no run lists, are those of
section 5.

### 2.1 `Provisioning`

**State.** `tenant[s]` is the `tenant_registry` row of a slug: the CREATE job it
came from, `is_active`, and its `custom_domain`: none, asked for by an operator (in
the body of create_tenant or update_tenant), or reported by a workflow. `jobs[j]` is a
`provisioning_jobs` row; its `row` says whether it exists ("open": flushed and not
committed, "live", "wiped": deleted or rolled back). `events[j]` is the set of
(phase, status) pairs of the job's event rows. `runs` are GitHub's runs, oldest
first, and `net` the webhooks sent. `worker`, `hook`, `rec` and `op` hold the
dispatch tasks, webhook requests, reconcile tasks and operator requests in
flight, each with the columns it has read. `jobs[j].target` is a history field:
the registry row there was when the job was requested.

| Code | Action |
|---|---|
| `create_tenant`, `destroy_tenant` | `CreateTenant`, `DestroyTenant` (flush and `delay()`), then `CommitRequest` or `RollbackRequest` |
| `suspend_tenant`, `resume_tenant` | `SetActive` |
| `update_tenant`: custom_domain and is_active, which no job records | `UpdateTenant` |
| `_provision_async`, `_destroy_async` | `TaskStart`, `Dispatch`, `LookupRun`, `SaveRun` or `DispatchFailed`; `TaskCrash` |
| `_lookup_run` | `LookupRun`: the newest run of the workflow, or none |
| `ingest_event` | `WebhookArrives`, `WebhookCommits` (`StatusAfter`, `NextPhase`, the domain, the teardown), `WebhookAborts` |
| the DELETEs at the end of `ingest_event` and `_reconcile_async` | `Teardown`; `NoRowToDelete` with `WebhookFindsNoRow`, `WebhookWipes`, `ReconcileFindsNoRow`, `ReconcileWipes`; `Wipe`, `EventsAfter` (the cascade) |
| `_reconcile_async`, `_gh_job_state_to_event` | `ReconcileStart`, `PollRetry`, `PollAnswers`, `ReconcileCommits`, `ReconcileAborts`; `Synthesized`, `Verdict`, `Retry`; `ReconcileCrash` |
| `rerun_job`, `mark_job_operational` | `RerunPosts`/`RerunCommits`, `MarkReads`/`MarkCommits`, `OpAborts` |
| GitHub Actions (external) | `PhaseStarts`, `PhaseSucceeds`, `PhaseFails`, `RunCompletes` |

**The teardown is two statements.** A DESTROY success runs DELETE tenant_registry and
then DELETE provisioning_jobs, both by slug, under READ COMMITTED. When the first
matches the row it waits for a request that holds it and then holds the row, and with
it the unique slug, until the commit: no CREATE of the slug can be inserted in between,
and `Teardown` is one step. When it matches nothing, because an earlier success has
removed the row already (webhooks repeat, and the reconciler polls beside them), it
locks nothing and waits for nobody. That case is two steps, and whatever commits
between them is what the second DELETE finds.

Abstracted: names, log text, payload fields other than phase and status, the
number of phases (a parameter; the last is the report), times (a finished job has
a `completed_at` or not). A webhook once sent stays in `net`: it may be delivered
any number of times, in any order, or never. The webhooks of a run carry the id
of the job that dispatched it.

### 2.2 `AgentRuns` and `RunLifecycle`

**State.** `agent[a]` has the status, the failure counter, `next_execution_at`
(none, later, due, together with what it was computed from) and the schedule.
`runs[r]` is an `agent_executions` row, with the order of its claim (`started_at`)
and its result hash. `work[r]` is the task with the copy of the agent it read at
the claim; `edit[e]` a request with the copy it read. `queue` is the broker, `beat`
what the current tick still has to enqueue, `source` what the query would return
now, `widget` what the dashboard shows. `tally` is history: failed runs in all and
in a row.

| Code | Action |
|---|---|
| `schedule_insight_agents` | `BeatSelects`, `BeatEnqueues`; `BeatDies` |
| `execute_insight_run` | `Claim`, `AiAnswers` or `AiFails`, `Compare`; `WorkerDies` |
| `report_success`, `report_skip`, `report_failure` | `ReportSuccess`, `ReportSkip`, `ReportFailure` with `Transition`, `Recovered`, `Struck`, `Exhausted`, `Projections` |
| `core/agent_run_state.transition` | `Transition` over `Transitions` |
| `pause`, `resume`, `run_now`, `update`, `delete` of an agent, the revocation's pause | `EditReads` (`Accepts`), `EditCommits` (`Assigned`, `EditRow`), `EditAborts` |
| time, the data behind the query | `TimePasses`, `SourceChanges` |

`RunLifecycle` is the abstract specification: one row moves from none to queued
to running to one of three ends and never elsewhere. `AgentRuns!RunsFollowLifecycle`
instantiates it with `status <- [r \in Runs |-> runs[r].status]`.

### 2.3 `KnowledgeLibrary`

**State.** `file[f]` (status, soft deletion), `chunks[f]` (whether there are any
rows), `blob[f]`, `quota` (`files_count` of the scope; an integer, since the code
subtracts without a floor), the requests `req[q]` and the task messages `task[t]`.
History: `approved` (files an owner or admin confirmed or approved) and `redeleted`
(deletions committed of a file that was deleted already).

| Code | Action |
|---|---|
| `request_upload_url` with `check_and_lock`, `add_usage` | `RequestUpload`, `RequestCommits` |
| `confirm_upload`, `approve_upload` | `RequestReads`, `ApprovalWrites` (the UPDATE takes the row lock, then `delay()`), `RequestCommits` |
| `reprocess_file` | `RequestReads`, `ReprocessWrites`, `RequestCommits`, `ReprocessSends` |
| `delete_file` with `remove_usage` | `RequestReads`, `DeleteWrites`, `RequestCommits` |
| any failure of a request | `RequestAborts` |
| `process_file_for_context` | `ProcessStarts`, `ProcessEmbeds` or `ProcessFails`, `ProcessClears`, `ProcessUpdates`, `ProcessCommits` or `ProcessRefused`, `ProcessRecordsError`; `Retry` |
| `delete_file_and_chunks` | `CleanRuns` |
| a worker that dies | `TaskDies` |
| the browser's PUT to the signed URL | `BrowserPuts` |

Row locks are explicit (`Locked`, `QuotaLocked`) because they order the commits.
`Duplicates` is the unique index on (file, chunk index) as a task meets it: chunks
that were committed since the task's own DELETE, or two segments that both start
at 0 (`MultiPage`). The file's bytes, text, and the byte part of the quota, which
moves with the file count, are left out. `Lossy` and `Aborts` switch on a broker
that refuses messages and requests that fail after they sent their task.

### 2.4 `TenantRouting`

**State.** `registry[s]` is the row of a slug (id, active, domain, database),
`pending[s]` the open transaction of a console mutation, `slugCache[p]` and
`hostCache[p]` the two caches of a process with their negative answers, `pools[p]`
its engines, `req[r]` a request on its way through the middleware.

| Code | Action |
|---|---|
| `update_tenant`, `suspend_tenant`, `resume_tenant`, `destroy_tenant`, `update_tenant_db_config` | `ConsoleFlush` (which clears the caches of its own process, before the commit), `ConsoleCommit`, `ConsoleRollback` |
| `create_tenant`; the ingress and report webhooks | `CreateTenant`, `IngressWebhook`, `TeardownWebhook` |
| `tenant_resolver_middleware`, `_resolve_context` | `Arrive`, `LookupHost`, `StoreHost`, `LookupSlug`, `StoreSlug` (`HostTenant`, `LoadBySlug`, `LoadById`) |
| `_set_tenant_from_headers` of a task | `TaskStart` |
| `session_for` | `OpenSession` |
| expiry of an entry, a new process | `ExpireSlug`, `ExpireHost`, `Restart` |

### 2.5 `ProvisioningStream`

`event[e]` is an event row (flushed, committed, undone), `page` a console page's
stream, `inbox` its unread Redis messages, `seen` what it has shown. `EventFlushes`
is `ingest_event` up to its publish (which comes before the commit and may be
lost), `EventCommits`/`EventUndone` the end of its request, `Replays` and
`Subscribes` the two halves of a connection, `ShowsMessage`, `IdleEnds` (the
first idle heartbeat ends the stream, and the browser connects and replays again) and `Breaks` the loop
of `event_gen`.

### 2.6 `ScheduledAgents` and `AgentScopes`

`ScheduledAgents`: `agent` is the row, `messages[n]` the broker's messages of
attempt n, `exec[w]` an execution with the copy it loaded, `healing` a beat that
read the agent as one without a schedule.

| Code | Action |
|---|---|
| `_schedule_agents_async` | `Beat` (the due ones), `BeatHeals` (the orphans), `BeatDies` |
| `_execute_agent_async` and the retries of `execute_agent` | `ExecStarts`, then `ExecSkips`, `ExecAnswers`, `ExecUnanswered` or `ExecFails`; `ExecDies` |
| run now, pause, resume, update, the revocation | `RunNow`, `PauseAgent`, `ResumeAgent`, `UpdateAgent`, `RevokeAgent` |

`AgentScopes` is about one user: `crewed` are the places (a space, a crew in it) he
is a member of, `places` those not deleted, `robots[a]` the agents he created,
`removal` a removal in flight with the agents it selected, `sweep` the sweep.
`RemovalLoads`/`RemovalCommits` are `remove_space_member`, its crew counterpart and
`delete_user` (`InScope` is `_agent_is_in_scope`), `SweepLoads`, `SweepChecks`
(`HasAccess`), `SweepEnds`, `SweepCommits`, `SweepFails` are `periodic_sweep` and
its task; `CreateRobot`, `ResumeRobot`, `PauseRobot`, `DeleteRobot`, `AddMember`,
`DeletePlace`, `RestoreUser` the requests beside them.

### 2.7 `DemoSandbox`

`guest[v]` is a visitor's account, `sandbox[i]` the expiry of the space account i
owns, `trashed` the spaces with `deleted_at`, `today` the clock. History: `caught`
are owners extended while a cleanup was reaping their space, `crossed` those whose
extension found the space at the expiry it was to write, put there by an extension it
overlapped. `SignsUp` chooses
among the three ways of `signup` (fresh, joining a sibling's sandbox, returning),
`Mints`, `Returns` and `DropsGuest` are their writes; `ExtensionLoads` (the SELECT of
the user), `ExtensionFindsSpace` (that of the space) and `ExtensionCommits` are
`extend_demo_user`: the commit omits an expiry that is the one read (`Writes`), so that
it may write the account only; `ReapReads`, `ReapDeletes` and
`ReapCommits` the three statements of `cleanup_expired_demo_spaces`; `Trash` is
`delete_space`.

### 2.8 The account: `AccountSessions`, `AccountCredentials`

`AccountSessions`: `issued` refresh tokens, their `family`, the `live` ones, the
revocation `marker` in Redis (second resolution), `call[c]` a refresh or log-out in
flight. `Login`, `RefreshReads`, `RotationCommits`, `RefreshAborts`, `ReuseCommits`
(reuse detection), `Logout`, `MarkWrites`, `RevokeDevice`, `RevokeAll`. History:
`ended` families, refreshes that were under way then (`crossed`) and their tokens
(`late`), and `forks` (two rotations of one token).

`AccountCredentials`: `row` is one `users` row (invitation, reset link, MFA state,
secret, recovery codes, existence and deletion), `ask[a]` a request with its copy.
`Kinds` are the requests that write the row; `Accepts` is what each tests on its
copy, `Assigned` what each assigns, `Committed` what a commit leaves. `Loads`,
`LoadsCode`, `Commits`, `CommitsCode`, `Aborts`, `LinkExpires`.

### 2.9 Rows decided under copies: `Tickets`, `ChangeRequests`, `PermissionGrants`

`Tickets`: `ticket`, its `timeline`, `act[s]` a request of a member of staff with
its copy. `TicketLoads`, `TicketCommits` (`Allowed`, `NewRow`, `NewEvents`), `Posts`
(the on-call hook, after the commit), `TicketAborts`. `ChangeRequests`:
`ChangeOpens`, `DecisionReads`, `DecisionCommits`, `DecisionDies`.
`PermissionGrants`: `GrantLooks`/`GrantCommits`, `RevokeLooks`/`RevokeCommits`,
`GrantAborts`.

### 2.10 Counters: `RequestGate`, `PlanLimits`

`RequestGate`: `hits` and `timed` are the Redis counters of the two windows,
`answer` whether an answer is stored under the idempotency key, `req[c]` where a
request is on its way through both middlewares (`Counts`, `SetsTime`, `LimitsFail`,
`Looks`, `LookFails`, `Succeeds`, `Refuses`, `Raises`, `Stores`, `ReqDies`);
`WindowEnds` and `AnswerExpires` are Redis' time.

`PlanLimits`: slots (`ChecksSlot`, `InsertsUnit`, `TakesSlot`, `LoadsUnit`,
`DeletesUnit`, `ReleasesSlot`, `SetTier`, `CallDies`; `Turns` is the order of the
steps of each endpoint) and the monthly count (`ReadsPeriod`, `CountsQuery`;
`SweepStarts`, which takes the time, `SweepReads` and `Sweeps` of the worker;
`MeteringFails`, `MonthEnds`). The units are all the rows that the endpoints of a plan
may delete, and some of these never took a slot: insight agents are `agents` too
(services/insight_agent_service.py:136 inserts without check or slot), as are the agents
of a demo, and the creator of a space is a member. `InsertsFree` makes them, `free` is
which they are; DELETE of an agent (api/v1/agents.py:346) has no filter and releases a
slot for them. `UnitVanishes` is a unit that goes with its author, widget or space and
releases none. History: `unpaid` counts the slots released for units that never took
one, `lost` the slots nobody released, `mishaps` says whether a call died between insert
and bump, or took or released a slot out of turn.

### 2.11 Data: `DataAccess`, `ConnectionSync`

`DataAccess` is one connection and one space with a crew: `grant[p]` the permission
rows, `attached` and `links` the space's, `crewAttached` and `crewLinks` the crew's,
`editing[q]` a request between its statements. A link is a record of its table and
of the request that made it, so that a deletion of rows read earlier spares rows
made since.

| Code | Action |
|---|---|
| `create_connection_permission` (three transactions) | `GrantReads`, `GrantCommitted`, `GrantAttaches` |
| `update_permission` | `NarrowLocks` (the UPDATE takes the row lock), `ClearBegins`, `SetLevel` |
| `delete_permission` | `RevokeBegins` |
| `_sync_space_tables`, commit | `TablesRead`, `LinksCommit` |
| `sync_connection`'s linking | `SyncReads`, `SyncChecks` |
| `add_space_connection`, `add_space_table` and their opposites | `Attach`, `LinkTable`, `UnlinkTable` |
| `set_crew_data_access` | `CrewBegins`, `CrewDrops`, `CrewFrees`, `CrewCommits` |
| failures | `EditFails` |
| `get_authorized_tables` | `SpaceReads`, `CrewReads` (read by the properties) |

`ConnectionSync`: `conn` is the connection's status, error and existence,
`catalogue` its metadata row with the text each table has (a text is named for the
request that wrote it; `Unlisted` and `Blank` are a table not listed and one without
a text), `curating[q]` a request with the catalogue it saw, what the connector
found, and whether its copy is current (history).

| Code | Action |
|---|---|
| `sync_connection` | `SyncAsks`, `SyncAnswers` (the connector; `Selected` is the connection's own filter), `SyncCommits` (`Merged`, `InsertFails`), `SyncFails` |
| `get_metadata`, then `update_metadata` of a user's list | `EditOpens`, `EditSaves` |
| `test_connection` | `TestReads`, `TestAnswers` |
| `delete_connection` | `Deletes` |

### 2.12 Talk and pages: `Conversations`, `ChatSessions`, `SharedRooms`

`Conversations`: `thread` is the messages by `created_at`, `shown` the committed
ones, `stamp[c]` the answer that took a comment in, `turn[a]` a question in flight:
streamed (`StreamStarts`, or `StreamStartsBare` when list_pending_comments raises and
the question goes on without the discussion, ai.py:956), handed in by the client (`PromptPreviewed`,
`AskWithBundle`) or an agent's daily answer (`DailyRunStarts`); then `TurnInserted`
and `TurnCommits` or `TurnEndsEarly`; `PostComment`/`CommentCommits`,
`ConversationDeleted`.

`ChatSessions`: `chats` of a page with number, title and archived flag, `visit[v]` a
request in flight: `DefaultLooks`, `DefaultNumbered`, `ChatInserted`, `DeleteLooks`,
`ChatDeleted`, `ChatArchived`.

`SharedRooms`: `room[p]` is a page (not committed, live, deleted; canonical; its
`created_at` stamp, which is that of its INSERT and may be older than the commit),
`entering` the holder of the advisory lock, `entry[e]` a request. `EnsureReads`
takes the lock and reads the default page, `EnsureCommits` promotes or creates;
`CreateOpens`/`CreateCommits` is `create_page`; `DeleteReads`, `DeleteChecks`,
`DeleteCommits` is `delete_page`. `Taken` is the partial unique index of the
migration. `Legacy` is a page there before the flag was.

## 3. What is checked

Passing runs (distinct states are for two workers on a small machine):

| Run (`*.cfg`) | Instance | Shows |
|---|---|---|
| `ProvisioningJob` | one job, two webhooks, a reconcile task with a retry and an operator in flight; 1.65 million states | `FinishedIsDated`: however the columns of dispatch task, webhooks, reconciler, rerun and sign-off interleave, a finished job has its completion time. `SuccessHasEvidence`: success only on the job's own report webhook or its linked run. `TypeOK` |
| `ProvisioningTeardown` | three jobs of one slug (create, destroy, create), a webhook and a reconcile task; 601 thousand states | `RegistryKeepsCreateJob`: a CREATE job is there only with its registry row, a row is of a CREATE job of its slug, and the job goes before the row only when a DESTROY success that found no row wipes. `RowsInStep` (`EventsBelongToRows` and `DomainOfItsTenant`: a domain *reported* by a workflow is of the row's own job, whatever operators ask for), `WipedStaysWiped`, `TeardownHasEvidence`. `JobsKeepRegistry`: refinement of `TenantRegistry` |
| `ProvisioningLive` | one job, two phases, a webhook, one reconcile task with a retry; 107 thousand states | `ReconcilerDecides`: with every webhook lost a linked job is decided or the retries run out |
| `AgentRuns` | one agent, two overlapping runs, one request in flight, budget 1; 233 thousand states | `ErrorIsEarned`: whatever increments are lost, no agent is put in error for fewer failures than the budget. `RunsFollowLifecycle`: refinement of `RunLifecycle`. `TypeOK` |
| `AgentRunsLive` | one run, one request, two schedules of which one ends, two results; 69 thousand states | `ReportKeepsEdits`: a report does not reactivate a paused or ended agent and keeps a new schedule. `RunsEnd`: a claimed run gets its outcome |
| `KnowledgeLibrary` | two files, two requests, two tasks, limit 1, lossy broker; 1.75 million states | `ReadyHasChunks`, `IndexedIsApproved`, `QuotaHolds` (`QuotaCountsFiles` and `LimitHolds`), `TypeOK` |
| `KnowledgeLive` | one file, two requests, two tasks, a retry; 124 thousand states | `ProcessingEnds`: a file in processing becomes ready, gets an error or is deleted |
| `TenantRouting` | one tenant with its platform address and another host, an API process and a worker, two databases, two mutations, one request; 389 thousand states | `SuspensionTakesEffect`: a tenant suspended for good is in the end in no cache. `AddressOpens`: negative answers do not hide an active tenant for good. `RestartRefreshes`: a process started after the last change uses the database the registry names. `RowsKeepRegistry`: refinement of `TenantRegistry`, with console transactions open across webhooks. `RoutingTypeOK` |
| `Workspace` | twelve components, one at a time; 578 thousand states | `DeviceStaysSignedOut`, `OneLiveUnlessForked` (sessions); `AccountKept` (`SessionKept`; `UsedLinksGone` and `MfaStaysOn`); `DecisionIsWhole`; `TwiceOnlyByRace`; `LimitsHold` (`AdmittedWithinLimit`, `AnswerReplayed`, `SlotsCounted`, `OverByRaceOnly`, `NeverOvercharged`); `DataKept` (`AccessIsSet`, `TextsKept`); `DiscussionsHold` (`StatusIsTold`, `EscalationIsStamped`, `StampIsAnswer`, `PassedOnlyWhileAsked`, `TakenAgainOnlyByOverlap`, `EmptiedOnlyByRace`, `SameTitleOnlyByRace`, `MembersConverge`); `WorkspaceTypeOK` |
| `Background` | four components, one at a time, the demo under two bounds; 105 thousand states | `CaughtUp`: a committed event is shown. `ActiveIsExecutedHere`: an active agent whose schedule was lost is executed. `OrphanIsLate`, `OrphanStops`: an agent whose creator left stops. `SandboxesKept`: a sandbox shares its owner's expiry, but after an extension that found it at the expiry it was to write, put there by one it overlapped. `ExpiredIsReaped`: what expired is deleted. `BackgroundTypeOK` |

Every property above has a mutant in `PROJECT.json`: a change of one definition
that a plausible bug would make, under which TLC finds the property violated.

Many of these properties say *what exactly* a race can do, in the form "X, unless
two requests of that kind were in flight together": `OneLiveUnlessForked`,
`TwiceOnlyByRace`, `RegistryKeepsCreateJob`, `SandboxesKept`, `OverByRaceOnly`, `PassedOnlyWhileAsked`, `EmptiedOnlyByRace`,
`SameTitleOnlyByRace`, `TextsKept`. The plain X is what the code's comment says, and
is in section 5. The difference between the two is what a maintainer needs to know:
the guard works for requests that follow one another and for every other kind of
request beside it.

**Bounds, and why they are enough.** Ids are used once, so the sizes of `Jobs`,
`Runs` and `Files` bound the length of a behaviour, and those of `Hooks`, `Recs`,
`Ops`, `Edits`, `Reqs` and `Tasks` the number of handlers that overlap. The hazards
listed are between two handlers of one row, or between one handler and a deletion,
and every such pair is in one of the runs: two webhooks with the reconciler, the
dispatch task and an operator (`ProvisioningJob`), each of webhook, reconciler and
task with a teardown (`ProvisioningTeardown`), two runs with a request
(`AgentRuns`), two requests with two tasks (`KnowledgeLibrary`). `MaxRuns` bounds
what GitHub creates, `MaxAttempts` and `Retries` stand for larger numbers in the
code (only "none left" and "some left" make a difference), `NumPhases` 1 makes the
report the only phase and is 2 where phases matter. `Budget` 1 stands for the
code's 3: two failures in a row exceed it.

In `Workspace` two requests of a component are in flight (three on a catalogue,
since a race of a synchronisation needs a save that a third has read; four on
the chats and rooms of a page, since a deletion beside a deletion needs two chats
created before), with: four refresh tokens (a login, two rotations of it and a
second login), two times of the clock (equal and later), two links minted, three
requests on a ticket, four grants, a minute limit of one and an hour limit of two
with three arrivals (a request over each), ceilings 1 and 2 with three units (with a slot or without), three
months with two queries each, two tables, two comments and two questions. In
`Background`: two events, one worker with two messages and two requests, two agents
with three requests, and the demo twice: two visitors with one extension at a time and
the trash, and one visitor with two overlapping extensions, over three days (valid,
expired, reaped). Larger instances of single components were run while writing and held:
`AgentScopes` with four requests (62 thousand states), `ConnectionSync` with four
requests (123 thousand), `DataAccess` with three editors (443 thousand),
`AccountCredentials` with three links (597 thousand), `ChatSessions` with five
visitors under symmetry (18 thousand), `ScheduledAgents` with two workers.

Three limits of the instances should be known. `ProvisioningTeardown` reaches a
re-creation of the slug and every order of the two DELETEs against it, at the price of
the constraint `Lifecycles` (`MCProvisioning`): one DESTROY job and one dispatch task at
a time, workflows of CREATE jobs do not fail, the last tenancy has webhooks only, and
once a workflow runs nobody but the destruction suspends the tenant and no domain is
asked for. The states cut off hold nothing the proofs leave open: every property of the
run is a theorem for any number of jobs, hooks and passes and without the constraint
(section 4), and `RowsInStep` was also run on the instance of `ProvisioningJob`, which
has no constraint and mixes asked and reported domains: it holds. `AgentRuns` has a single result, so that the
comparison with an earlier different result is reached by `AgentRunsLive` only, for
one run. `KnowledgeLibrary` has no retries (a task that fails once is gone);
`KnowledgeLive` has one.

`CHECK_DEADLOCK FALSE` is in every configuration because ids and requests are finite
and are used up: at the end of a behaviour nothing is left to do, and in the code too
nothing happens when nobody asks for anything.

**Fairness.** The specifications used for liveness assume no more than this:

- `Provisioning` (`LiveSpec`, without crashes: a process that dies loses its task,
  and the code has nothing that restarts it): weak fairness of each dispatch and
  reconcile task and of the commit or rollback of an open request, since Celery and
  the event loop run what they have started; and of each GitHub run, which ends. New
  requests, webhooks and operators owe nothing: `ReconcilerDecides` must hold with no
  webhook at all.
- `AgentRuns` (`LiveSpec`, without deaths): weak fairness of each task. The AI call
  has a client timeout, so it ends. A task never waits for another.
- `KnowledgeLibrary` (`LiveSpec`, without deaths): strong fairness of each request's
  and each task's own steps, because these wait for row locks that others take and
  release: PostgreSQL queues those who wait for a row, so a waiter is not overtaken
  for ever. Weak fairness would let a lock change hands so that the guard is never
  continuously true. `ProcessingEnds` is checked with a broker that accepts messages
  and one page per file; section 5 shows what happens without each of these.
- `TenantRouting` (`RoutingLive`): weak fairness of a request in a live process, of
  the end of an open console transaction, and of the expiry of each cache entry, which
  is a comparison with the clock. Nothing is assumed of restarts or of new requests.
- `ProvisioningStream`: weak fairness of the generator's own loop. Nothing is assumed
  of the publisher: `CaughtUp` holds with every message lost.
- `ScheduledAgents`: weak fairness of the beat, of a due time coming, and of workers
  taking and finishing messages; strong fairness of the healing step, which a death
  between its SELECT and its UPDATE may interrupt, but not each time. Workers may die at
  any time.
- `AgentScopes`: weak fairness of the sweep's start, of each check and of its end,
  strong fairness of its commit: a sweep may fail, but not always.
- `DemoSandbox`: weak fairness of the cleanup's reading and deleting, strong of its
  commit, for the same reason.

## 4. What is proved

All proofs are checked by tlapm with no omitted step. They hold for every value of
the constants that meets the assumptions named in each module, which TLC evaluates
on every run. The numbers of slugs, jobs, hooks, agents, runs, files, requests,
tokens, tables and tasks need not even be finite, but where a property counts them
or takes the last of them: the staff on a ticket, the visitors and entrants of a
page, the clients of the gate, the callers on a plan and the files of a scope are
finite sets, as those of any moment of the program are. The bounds of the models
(`MaxGrants`, `MaxUnits`, `MaxQueue` and the like) are any natural numbers.

| Theorem | States | Argument |
|---|---|---|
| `ProvisioningProofs!TypeCorrect` | `Spec => []TypeOK` | `TypeInv` = `TypeOK` and `RunsLinked`. The types alone are not inductive: the reconciler reads `runs[k.run]`, so every run a job, a task or a pass refers to must exist |
| `RunsAlwaysLinked` | `Spec => []RunsLinked` | the other half |
| `FinishedAlwaysDated` | `Spec => []FinishedIsDated` | `TypeInv` and that a row not yet committed is still pending |
| `WipedRowsStayWiped` | `Spec => WipedStaysWiped` | the lemma `NextRow`: every step moves each row's `row` field forward only |
| `RegistryAlwaysMatches` | `Spec => RegistryKeepsCreateJob` | `RegistryInv` adds `OpenRequests`: an uncommitted request holds its slug alone, an uncommitted CREATE finds no registry row and an uncommitted DESTROY finds one. Without it the step `CommitRequest` could put a row over another. A step that touches the registry is a request's, or tears the row down with its jobs (`TearsDown`), or wipes jobs after a DELETE that found no row (`WipesOnly`); the last is the one that takes a CREATE job from under a row (`CreateJobGoes`) |
| `EventsAlwaysBelongToRows`, `DomainAlwaysOfItsTenant`, `RowsAlwaysInStep` | `Spec => []RowsInStep` and its halves | `DomainInv` with `RegistryInv`: the two need each other, since a reported domain is justified by an event and the event by its row; where the CREATE job was wiped before its row, the row is all that is left, and nothing is claimed of the events (`Shown`) |
| `SuccessAlwaysHasEvidence` | `Spec => []SuccessHasEvidence` | `EvidenceInv`: a row nobody has committed has no run (`FreshRows`), the run is linked once (`TaskUnlinked`), a webhook being handled was sent (`HooksWereSent`), and a pass polls the run of its job, whose success it was answered is still so, also between the two DELETEs (`PollsItsRun`). A stale session may write SUCCESS late, but only on evidence that is never taken back |
| `TeardownAlwaysHasEvidence` | `Spec => TeardownHasEvidence` | `TypeInv` and `EvidenceInv` in the step that removes the row |
| `JobsImplementRegistry` | `Spec => JobsKeepRegistry` | refinement of `TenantRegistry`; needs `RegistryInv` (an uncommitted CREATE finds its slug vacant, an uncommitted DESTROY finds it held) and `VacantIsIdle` (a slug without a row is not in service), which the abstract steps themselves preserve. Only the commits and rollbacks of requests, `UpdateTenant` and the two teardowns are steps there; a wipe without a row leaves the registry alone (`WipeRefines`) |
| `AgentRunsProofs!TypeCorrect` | `Spec => []TypeOK` | |
| `ErrorAlwaysEarned` | `Spec => []ErrorIsEarned` | `Counted`: the counter of an agent *and every copy of it a task or request holds, however old,* is at most the number of its failed runs. The stale copies are what the invariant is about: a report writes a copy's counter plus one |
| `ReportsKeepEdits` | `Spec => ReportKeepsEdits` | `CommitKeeps`: whatever the copy was, `Commit` leaves status and schedule as they are, or makes the status "error" |
| `RunsImplementLifecycle` | `Spec => RunsFollowLifecycle` | refinement; needs `Working` (a task is at work only on a running run) |
| `KnowledgeLibraryProofs!TypeCorrect` | `Spec => []TypeOK` | `Inv` = `TypeOK`, `Asked`, `OneUpload`, `Gated`, `DeletedExists` |
| `IndexedAlwaysApproved` | `Spec => []IndexedIsApproved` | `Gated`: a file past the gate, and one that a task in flight will index, was approved; `Asked`: so was the file of every reprocess request in flight |
| `ReadyAlwaysHasChunks` | `ASSUME ~Aborts PROVE Spec => []ReadyHasChunks` | `Covered` (a cleanup task exists only for a file that is deleted or about to be) and `Kept`. The assumption is needed: section 5, "a deletion rolled back" |
| `QuotaAlwaysCounts`, `LimitAlwaysHolds`, `QuotaAlwaysHolds` | `ASSUME IsFiniteSet(Files) PROVE Spec => []QuotaHolds` and its halves | `Inv` and the cardinality of the live files with one added or taken away; `Checked`: at most one upload holds the quota row, and as long as it does there is room for it |
| `AccountProofs!SessionsTypes` | `SessionsSpec => []SessionsTypeOK` | with `DeviceStaysSignedOut` in `SessionsInv` |
| `SignedOutStays` | `SessionsSpec => []DeviceStaysSignedOut` | `Overtaken`: a refresh that will rotate a token of an ended family was under way when it ended |
| `SessionIsKept` | `SessionsSpec => SessionKept`, a part of `AccountKept` | a rotation adds the token it replaces one by, so only steps that end a family empty it |
| `OneLiveProved` | `SessionsSpec => []OneLiveUnlessForked` | `SessionsInv` and the cardinality of a family's live tokens against the rotations of a token that was no longer live: a rotation replaces one token, or adds one to both counts |
| `CredentialsTypes` | `CredentialsSpec => []CredentialsTypeOK` | `CredentialsInv`: every copy in flight holds only links minted so far, and knows no more of MFA than the row |
| `LinksStayGone`, `MfaIsForGood`, `CredentialsAreKept` | `CredentialsSpec => CredentialsKept` and its halves | the same invariant: a commit of changed columns either leaves a link alone, clears it or writes a fresh one |
| `RequestsProofs!DecidedWhole` | `ChangesSpec => []DecisionIsWhole` | status, decider and time are written together because both decisions start from the same pending row |
| `GrantedOnceUnlessRaced` | `GrantsSpec => []TwiceOnlyByRace` | `GrantsInv`: a grant that saw none and whose row is still the newest finds none (`SawNone`), and two rows that did not race are one (`OneUnraced`) |
| `DataTypes` | `DataSpec => []DataTypeOK` | |
| `AccessIsKept` | `DataSpec => AccessKept` | `DataInv`: `OneHolder` (the row lock of a permission orders the requests that narrow it), `ListKnown` (a request about to link knows exactly the rows it will leave unless another kind was committed), `NothingLeft`, `CrewKnown` |
| `CataloguesTypes` | `CataloguesSpec => []CataloguesTypeOK` | no catalogue outlives its connection |
| `TextsAreKept` | `CataloguesSpec => TextsKept` | `CurrentCopy`: what a request whose copy is current saw is the catalogue |
| `GateAlwaysKeeps` | `GateSpec => []GateKeeps` | `GateInv`: a window has let past no more than it counted, and a request with a stored answer has it still and has not reached the endpoint |
| `PlanAlwaysHolds` | `SlotsSpec /\ MeterSpec => []PlanHolds` | `SlotsInv`: slots taken and owed, with the slots released for units that never took one (`unpaid`) and the units gone without a release (`lost`) on their sides of the balance, and the sum that the ceiling bounds: slots taken with those that requests past the check will take. A request that passes the check is itself one of those the ceiling is passed by. `MeterInv`: period and clock readings are of the past |
| `WorkspaceProofs!TimelineTells` | `TicketsSpec => []TicketHolds` | `TicketsInv`: what a request read is older than what it will write, an escalation told is stamped, and the posts made with those under way are no more than the escalations told. |
| `CommentsKept` | `ThreadSpec => []ThreadHolds` | `ThreadInv`: `Knows` says of every question in flight what it has read: each comment it knew of is in its bundle, stamped, or passed over by an answer it may not have known, and no question it knew took in what it takes in |
| `ChatsRaceOnly` | `ChatsSpec => []ChatsHold` | `Endures`, over *every set* of deletions in flight: as long as no two of them raced, a chat is left that each of them has seen. Of the single deletion it is not inductive: the next one may be of the chat the last one relied on. `ChatsShape` (a title is the number after all those seen) for the titles |
| `AlwaysConverge` | `RoomsSpec => []MembersConverge` | `RoomsInv`: one holder of the lock (`HoldsLock`), no other canonical page while it decides (`NoOther`), at most one canonical live page (`OneCanonical`, which `EnsureCommits` keeps and `Taken` guards), and who is in is on it or on a page deleted since (`Led`). Finiteness gives the oldest page its existence |
| `WorkspaceTypes` | `WorkspaceSpec => []WorkspaceTypeOK` | thirteen lemmas (`SessionsWithin` to `RoomsWithin`): a behaviour of the composition is, seen through the variables of one part, a behaviour of that part. With them every theorem above is one of the workspace. The types of the gate and the plan need counting: `GateCounted` (what a window counted, with those about to count, is no more than what arrived), `SlotsBounded`, `MeterBounded` |
| `DiscussionsAlwaysHold`, `LimitsAlwaysHold`, `AccountIsKept`, `DataIsKept` | `WorkspaceSpec => []DiscussionsHold`, and so on | the same projections and the theorems of the parts |
| `BackgroundProofs!ScopesTypes` | `ScopesSpec => []ScopesTypeOK` | |
| `OrphansAreLate` | `ScopesSpec => []OrphanIsLate` | `Covered`: what a removal in flight has not picked was started since it began |
| `SandboxesAreKept` | `SandboxesSpec => []SandboxesKept` | what a signup, an extension and the cleanup hold of the rows they read is what those rows are or were (`SignupsKnow`, `ExtensionsKnow`, `ReapsWhole`); an extension that no other has overlapped finds the sandbox still at the expiry it read, or gone (`Read`), and only the others may cross; a sandbox has one owner (`Numbered`, `OwnersKept`, `MembersOwnNone`) |
| `StreamTypes`, `SchedulesTypes`, `SandboxesTypes` | the types of `ProvisioningStream`, `ScheduledAgents` and `DemoSandbox` | only a page that follows a job has messages; what a run has loaded is the copy of an active agent, by the WHERE of its start; every number is of an account, and no expiry is beyond the days (the bound of the clock) |
| `BackgroundTypes`, `BackgroundKeeps` | `BackgroundSpec => []BackgroundTypeOK`, and `OrphanIsLate` with `SandboxesKept` | `BackgroundInv`: the invariants of the four parts together; a step is of one part and leaves the variables of the others |
| `TenantRoutingProofs!RoutingTypesHold` | `RoutingSpec => []RoutingTypeOK` | |
| `RestartAlwaysRefreshes` | `RoutingSpec => []RestartRefreshes` | `RoutingInv`: caches, engines and the contexts of requests of a process started since the registry last changed all say what the registry says. The engines alone are not inductive: an engine is made from a context, and that from a cache |
| `RowsImplementRegistry` | `RoutingSpec => RowsKeepRegistry` | refinement of `TenantRegistry`; needs `RowIsHeld`: an open console transaction holds the very tenancy it read, because whoever would delete or replace its row waits for it |

**Only model-checked.** The liveness properties, since the prover does not treat
fairness: `ReconcilerDecides`, `RunsEnd`, `ProcessingEnds`, `SuspensionTakesEffect`,
`AddressOpens`, `CaughtUp`, `ActiveIsExecutedHere`, `OrphanStops`, `ExpiredIsReaped`.
Every other property of a passing run is the statement of a theorem. The choices over
data that the models make (`AgentRuns!Previous`, the lists of a synchronisation) are
proved about as far as the theorems need.

**Assumptions that matter.** `ReadyAlwaysHasChunks` assumes `~Aborts` and the
theorems on the quota a finite set of files, in the theorem itself. `Start` of
`TenantRouting` names at most one tenant at the beginning: ids are given in order from
there. No theorem assumes fairness, or that a queue, a broker or Redis works.
## 5. Where the code differs from what it says

Every item below is a statement in a comment or docstring, written as a property in
the module, for which TLC prints a behaviour that breaks it. The first two are among
the project's runs. The others are run by hand: either with a configuration of this
directory, for example `tlc -config BugSkippedGreen.cfg MCProvisioning`, or by putting
the property under INVARIANT or PROPERTY of the configuration named.

### Runs

- **`ManualSignOffKept`** (`BugManualSignOffLost`). The reconciler's comment at
  workers/provisioning_worker.py:455 says "the task short-circuits if the job is
  already terminal", but the test lists only SUCCESS and FAILED: a pass over a
  manually_completed job goes on and writes the run's failure over the operator's
  sign-off.
- **`ManualNeverFires`** (`BugManualFires`). The docstring of
  _compute_next_execution at services/agent_service.py:105 says "`once` and `manual`
  return None so the agent never auto-fires", but the beat takes every active agent
  without a next run for one that lost its schedule, gives it one of 24 hours, and
  enqueues it when it comes due.

### Provisioning, agents, knowledge

- **`TeardownOfItsTarget`** (`BugTeardownOfRecreated`). The comment at
  services/provisioning_workflow.py:282 says "The offboard workflow already dropped
  the RDS DB, the AWS secret, and the K8s namespace by this point; the platform row
  is the last thing tying the slug to the tenant", but a report webhook of a DESTROY
  job delivered again after the slug was created anew deletes the new tenant's
  registry row and jobs: the DELETE is by slug and nothing checks that the job is
  already finished.
- **`DomainFromWorkflowOnly`** (with `ProvisioningTeardown.cfg`, as its only property
  and without the constraint). The comment at services/provisioning_workflow.py:264
  says "the BE never accepts custom_domain from an operator's PATCH", but
  update_tenant (services/console_service.py:349-367) sets whatever field the body
  holds, custom_domain with it, and create_tenant (:263) takes it from the request.
- **`OnlyHistoryIsWiped`** (with `ProvisioningTeardown.cfg`, as its only property). The
  comment at services/provisioning_workflow.py:297 says "Also wipe historical
  provisioning_jobs for this slug", but a DESTROY success that comes again finds no
  registry row and waits for nobody: a CREATE that commits before the second DELETE
  loses its job, and its registry row stays without one.
  `RegistryKeepsCreateJob` says that nothing else does this.
- **`BudgetStopsAgent`** (`BugBudgetOverlap`). core/agent_run_state.py:29 says "the
  4th consecutive failure flips the agent to 'error'", but report_failure adds one
  to the copy of the agent loaded before the AI call (execute_insight_run reads it
  at insight_agent_worker.py:401): of two overlapping runs that fail, one increment
  is lost and the agent stays active with its budget spent.
- **`DeletedHasNoChunks`** (`BugDeletedIndexed`). delete_file_and_chunks' docstring
  at workers/knowledge_worker.py:254 says "Remove chunks and blob on file
  deletion.", but _process tests deleted_at only before the download and updates the
  file by id: a task in flight inserts the chunks of a deleted file after the
  cleanup, and nothing removes them.
- **`ProcessingEnds`** (`BugMultiPage`). The module docstring at
  workers/knowledge_worker.py:3 says "PDF/TXT/DOCX/CSV parsing + chunking +
  embedding", but _chunk_text numbers the chunks of every page from 0 while
  (file_id, chunk_index) is unique (models/knowledge.py:93): a PDF with two pages of
  text fails at the commit, and since the session was not rolled back the UPDATE to
  error fails as well.
- **`TaskRespectsWebhook`** (as PROPERTY with `BugManualSignOffLost.cfg`). The
  comment at workers/provisioning_worker.py:258 says "Mark RUNNING here only if the
  webhook hasn't already raced ahead", but the check reads the status loaded before
  the dispatch and the run lookup (the session never refreshes the row), so a job
  that webhooks finished meanwhile is written back to RUNNING.
- **`LinkedToOwnRun`** (`BugWrongRunLinked`). _lookup_run's docstring at
  workers/provisioning_worker.py:163 says "Find the workflow run whose
  inputs.dispatch_token matches", but the function returns runs[0], the newest
  dispatch of the workflow: two jobs dispatched together link one run, and the
  reconciler then decides one job by the other's run.
- **`PendingIsPickedUp`** (`BugPendingForever`). The comment at
  services/console_service.py:486 says "the job row is already PENDING and an
  operator can re-dispatch from the Console (or a Celery beat reaper will pick it
  up)", but rerun_job refuses a job that is not FAILED and no beat task selects
  pending jobs: after a lost dispatch the DESTROY job stays PENDING.
- **`PhaseNeverBack`** (PROPERTY in `BugSkippedGreen.cfg` with
  `Hooks = {h1, h2}` and `Recs = {}`). ingest_event's docstring at
  services/provisioning_workflow.py:218 says a succeeded phase advances
  "ProvisioningJob.current_phase forward (never back)", but the new value is
  computed from the phase read at the start of the request: of two webhooks handled
  at once the later commit may write the earlier phase.
- **`NoSkippedShownAsSuccess`** (`BugSkippedGreen`). The comment at
  workers/provisioning_worker.py:486 says "skipped / cancelled / etc. count as
  failure for UI purposes", but _gh_job_state_to_event returns SUCCEEDED for a
  skipped phase: after a failed phase all later ones are shown as succeeded.
- **`NoRunAfterBudget`** (with `BugEndedRevived.cfg` and `Runs = {r1, r2}`).
  core/agent_run_state.py:25 says "the agent is flipped to status='error' and no
  further runs are scheduled until an admin resumes it", but pause accepts an agent
  in error and run_now makes a paused agent active and due: a run is enqueued
  without a resume and with the counter still spent.
- **`EndedStaysEnded`** (`BugEndedRevived`). services/insight_agent_service.py:210
  says "Ended agents cannot be resumed", but the status is tested on the row the
  request read: a pause, resume or run_now in flight with a delete, or a
  report_failure of a run in flight that writes 'error', takes an ended agent out of
  'ended', after which it can be resumed.
- **`NextFollowsSchedule`** (as INVARIANT with `BugActiveUnscheduled.cfg`). The
  comment at services/insight_agent_service.py:178 says "schedule change recomputes
  next_execution_at from now", but a report of a run that was executing then
  overwrites it with the projection of the schedule its task read before the change.
- **`ActiveIsScheduled`** (`BugActiveUnscheduled`). The comment at
  services/agent_run_service.py:141 says the report will "project the next run from
  the agent's schedule", but it projects from the schedule and ends_at read before
  the run: past the replaced ends_at it writes NULL, and the active agent, whose
  schedule has no end any more, never runs again.
- **`SuccessResetsFailures`** (with `BugBudgetOverlap.cfg`). report_success's
  docstring at services/agent_run_service.py:108 says "Record a successful run +
  reset the agent's failure counter", but assigning 0 to a copy that was read as 0
  writes no column: an increment committed by an overlapping run stays.
- **`PausedNotPickedUp`** (as PROPERTY with `BugActiveUnscheduled.cfg`). The comment
  at services/insight_agent_service.py:199 says "worker won't pick it up", but claim
  does not look at the agent: a run that was queued before the pause is executed.
- **`RunNowIsActive`** (as INVARIANT with `BugEndedRevived.cfg`). The comment at
  services/insight_agent_service.py:234 says "Ensure the agent is active so beat
  picks it up", but only a paused agent is made active: one in error gets
  next_execution_at = now and stays in error, which the beat's query excludes.
- **`QueuedIsPickedUp`** (with `BugRunningForever.cfg` and `SPECIFICATION
  LiveSpec`). list_queued's docstring at services/agent_run_service.py:224 says it
  is "used by the worker pick-up loop", but no code calls it: a run whose delay()
  the broker refused, which schedule_insight_agents only logs, stays queued.
- **`RunsEnd`** (`BugRunningForever`). core/agent_run_state.py:18 says "running ->
  failed (AI service errored / worker timeout)", but Celery's time limits stop the
  event loop or the process and the handler at insight_agent_worker.py:404 runs in
  neither case; no other code ends a running run.
- **`SkipMeansUnchanged`** (with `BugBudgetOverlap.cfg`, three runs and `Data = {d1,
  d2}`). The comment at workers/insight_agent_worker.py:273 says "Only when the data
  actually changed — skip writes on delta_kind='none'", but the hash compared is
  that of the run that started last, while the widget shows the run that committed
  last: with overlapping runs a run is skipped and the widget keeps an older result.
- **`SuccessRefreshesWidget`** (as PROPERTY with `BugBudgetOverlap.cfg` and
  `Unanswered = {d1}`). The docstring at workers/insight_agent_worker.py:162 says it
  "writes the new result back to widget.data so the dashboard reflects fresh data",
  but a changed result with an empty answer is not written, and its hash makes the
  following equal results skip.
- **`WithinLimit`** (with `BugDeletedIndexed.cfg`, three files and one
  task). check_and_lock's docstring at
  services/quota_service.py:46 says "Assert quota is not exceeded.", but delete_file
  tests deleted_at on the row it read and decrements files_count unconditionally:
  two deletions of one file in flight decrement it twice, and the scope then holds
  more live files than its limit.
- **`ReadyHasChunks`** (with `BugDeletedIndexed.cfg` and `Aborts = TRUE`).
  delete_file_and_chunks' docstring at workers/knowledge_worker.py:254 says "Remove
  chunks and blob on file deletion.", but the message is sent before the commit and
  the task does not test deleted_at: when the request fails afterwards the file is
  not deleted, is still ready, and has lost chunks and blob.
- **`ParkedIsNotIndexed`** (with `BugDeletedIndexed.cfg`). The comment at
  services/knowledge_service.py:246 says an editor's upload "parks the file in
  `pending_approval` until an Owner or Admin reviews it", but confirm_upload tests
  pending on the row it read: of two confirms in flight the editor's may commit
  after the admin's was processed, and parks a file that is already indexed.
- **`ProcessingEnds`** (with `KnowledgeLive.cfg` and `Lossy = TRUE`).
  approve_upload's docstring at services/knowledge_service.py:278 says "Owner /
  Admin approves an uploaded file and triggers processing.", but an error of delay()
  is swallowed and processing is committed: no task runs, reprocess_file refuses the
  file, and no beat task looks for it.

### Routing

With `TenantRouting.cfg`:

- **`EngineFollowsConfig`** (INVARIANT). The docstring of update_tenant_db_config at
  api/v1/console.py:1013 says "All writes go through one transaction and end with
  ``clear_tenant_cache`` so the resolver rebuilds the engine on the next request",
  but session_for takes the engine kept under the slug in _pools and nothing removes
  it: that process stays on the old database until it is restarted.
- **`CommitShownAtOnce`** (PROPERTY). api/middleware/tenant_resolver.py:107 says the
  resolver "needs to see the change immediately rather than after the 60s TTL", but
  the caches are cleared before the request commits: a lookup in between caches the
  row as it was, for a minute; so do all other processes.
- Read in the code: the
  platform host of a suspended tenant falls through to the default context when the
  request names no other.

### The account

With `Workspace.cfg`:

- **`EndedIsEnded`** (INVARIANT). services/auth_service.py:836: "that device's rotated
  tokens all die", but a refresh that has read its token adds a live one to the
  family after the UPDATE. The TODO at :674 describes the other half of this: two
  refreshes in flight both rotate, and the family forks (`OneLiveUnlessForked` counts
  exactly these).
- **`MarkerNeverBack`** (PROPERTY). api/v1/auth.py:576: the old access token "stops
  being accepted immediately", but two sign-outs may write the marker out of order and
  the older time stays.
- **`SingleUse`** (PROPERTY). services/password_reset_service.py:118: "cleared so it
  cannot be replayed", but two requests that both loaded the row both set a password.
- **`SpentStaysSpent`** (PROPERTY, `Codes = {k1, k2}`). services/mfa_service.py:243:
  "single-use", but the codes are one column: of two logins with different codes the
  later commit restores the earlier's.
- **`OldCodesVoid`** (PROPERTY). services/mfa_service.py:290: "invalidating the old",
  but a login in flight writes its copy of the old batch back.
- Read in the code: disable_mfa (api/v1/mfa.py:63) is called by nothing; an invite
  revived for a deleted user keeps MFA and the reset link.

### Tickets, requests, grants

With `Workspace.cfg`:

- **`TimelineEndsInStatus`** (INVARIANT). The timeline is read in the order of
  created_at (services/ticket_service.py:166), but an event's time is that of its
  transaction's start: of two updates the one that began first may commit last.
- **`EscalatedByEscalate`** (INVARIANT). The report to the on-call channel is made
  "ONLY on escalate" (services/ticket_service.py:336), but update sets the status
  escalated too, with neither stamp nor report.
- **`EscalatedOnce`** (INVARIANT). services/ticket_service.py:297 refuses an escalated
  ticket, on the copy read: two escalations in flight both post to the hook.
- **`DecidedOnce`** (PROPERTY). services/change_request_service.py:141: "Cannot accept
  a change request in another state", tested on the row read: dismiss overwrites
  accept. What was announced as accepted is dismissed.
- **`OneGrant`** (INVARIANT). services/permission_grant_service.py:46: "Idempotent", but
  there is no unique index on live rows: two grants in flight insert two, and
  _get_live's scalar_one_or_none then fails in every later grant and revoke.

### The gate and the plans

With `Workspace.cfg`:

- **`CounterIsTimed`** (INVARIANT). api/middleware/rate_limit.py:98-101 increments and
  then sets the time to live. A failure in between leaves a counter that never ends,
  and "Please try again later" (:111) never comes true. The buckets of
  rate_limit/core.py do both in one Lua script.
- **`CalledOnce`** (PROPERTY). rate_limit.py:164: "we must never call it twice on the
  same request", but the handler of the exception of the idempotency middleware calls
  the endpoint again.
- **`SlotFollowsInsert`** (PROPERTY). api/v1/agents.py:285: "if anything between here
  and the bump fails, the row is gone ... and the counter stays consistent", but
  create_agent commits before the bump.
- **`EveryQueryCounted`** (PROPERTY). services/pricing_service.py:439: "so we don't race
  two concurrent requests", but at the turn of the month two requests that read the
  old period each set the count to one.
- Read in the code: set_tier clears the alerts and a tenant over a threshold is not
  alerted again; the roll-over writes last_threshold_alerted from a stale copy.

### Data and connections

With `Workspace.cfg`:

- **`RevokedStaysUnlinked`** (PROPERTY). services/permission_service.py:243: "clean up
  SpaceTable entries so they don't linger without permission", but a synchronisation
  in flight that read the permission links its tables again.
- **`PermissionOnce`** (INVARIANT). permission_service.py:122: "Permission already
  exists" is a test on the rows read; there is no unique index. Which of two rows
  get_authorized_tables takes is open.
- **`CrewWithinSpace`** (INVARIANT). permission_service.py:695: "CrewTable rows are a
  subset of the space's tables by construction", but the space's tables may be
  narrowed or unlinked afterwards and the crew keeps its rows.
- **`ReplacesWhole`** (PROPERTY). services/crew_service.py:244: "Fully REPLACES the
  crew's rows", but rows of another request committed since it read stay.
- **`SyncKeepsEdits`** (PROPERTY). services/connection_service.py:488: fresh data is
  merged "without losing user edits", but the edits are those loaded before the
  connector was asked: a text saved during a synchronisation is overwritten. So is,
  in update_metadata, a text saved since a user's list was opened. Texts of tables
  listed without a schema are lost by every synchronisation (:493-500 against
  :527-530).
- **`SuccessIsHealthy`** (PROPERTY). A synchronisation that succeeds writes
  `error=None` (:594), but BaseRepository.update drops None: a connection that failed
  once never is healthy again (:903).
- Read in the code: with ENCRYPTION_KEY set, `connection.config.get("selected_tables")`
  (:522) reads the encrypted dict, so the filter does not apply; automatic links use
  the unfiltered tables; a table missing from one synchronisation loses its text for
  good; a synchronisation of a connection deleted meanwhile answers "Sync completed
  successfully"; of two first synchronisations the second fails on the unique index,
  and so does its UPDATE of the error; update_metadata replaces the list though called
  "Partial metadata update"; remove_space_connection leaves the space's tables and the
  crew's rows; a table unlinked by hand is linked again by the next synchronisation;
  CrewTable's docstring (models/crew.py:126) "inherits ALL tables" contradicts
  get_authorized_tables, which denies.

### Threads, chats, pages

With `Workspace.cfg`:

- **`CommentsReachAPrompt`** (INVARIANT). api/v1/ai.py:933: "Bring the team's unanswered
  comments into the question", but a comment posted while an answer is being made is
  older than the answer and no later question takes it in.
- **`StampedWasAsked`** (INVARIANT). models/conversation.py:180: "when a comment was
  bundled into an Ask-AI call", but ask_ai_with_bundle stamps the comments pending when
  it is called, and the prompt is the one previewed earlier.
- **`PageKeepsAChat`** (INVARIANT). services/chat_session_service.py:182: "A page must
  always keep at least one chat", but two deletions of two chats each see the other.
- **`TitlesDiffer`** (INVARIANT). chat_session_service.py:112: "'Chat N' titles never
  collide", but two requests read the same maximum.
- **`NumbersGrow`** (INVARIANT). repositories/chat_session.py:64: "numbers are never
  reused after a delete", but the number of the last chat is, once it is deleted.
- **`CanonicalStays`** (INVARIANT). models/page.py:73: "The canonical page cannot be
  deleted", but delete_page tests the flag on the row read while an entry promotes it.
- **`CanonicalIsOldest`** (INVARIANT). services/page_service.py:157: the shared page is
  the oldest, but one stamped earlier may be committed after.
- Read in the code: the engine's error event is forwarded and the turn still saved; a
  failed save of a turn is only logged; an unknown conversation_id silently opens a new
  thread (ai.py:865); ensure_agent_conversation may create two; toggle_reaction loses
  concurrent reactions; archiving the last chat is not refused; is_active is one column
  of a page shared by its members, so that another member's switch deactivates mine
  (repositories/page.py:61); get_user_page_or_404, switch_page and get_page_members
  lack the space branch of get_page.

### What goes on by itself

With `Background.cfg`:

- **`ShownIsKept`** (INVARIANT). services/provisioning_workflow.py:217: "Every payload
  appends one ProvisioningJobEvent row", but the message is published before the
  commit: a rollback leaves an event on the page that is no row. The comments on the
  heartbeat at console_provisioning.py:195 and :206 say that it keeps the connection
  open; the read it cancels ends the subscription, and the next read the stream. The
  browser connects again and replays, which is what makes `CaughtUp` hold.
- **`PausedStays`** (PROPERTY). workers/agent_worker.py:861 writes a run's outcome; an
  exception sets the status to "error" over a pause.
- **`DeactivatedStops`** (PROPERTY). services/user_service.py:428: "The 15-min periodic
  sweep catches any miss", but the sweep looks at memberships, which a deactivated
  user keeps.
- **`DeletedStaysEnded`** (INVARIANT). services/crew_service.py:561: "ended keeps the
  worker from ever picking them up again", but resume_agent accepts an ended agent, and
  an agent can be created for a deleted place.
- **`NoneReapedMidExtension`** (INVARIANT). api/v1/demo.py:150: "so the cleanup cron
  doesn't reap the Space mid-extension", but a cleanup that selected it deletes it.
- **`NoneDropped`** (PROPERTY). services/demo_service.py:1483: the account of a return is
  one whose "Space was already cleaned up by the cron"; a member who joined a sibling's
  sandbox is dropped as well.
- **`NoneJoinsTrash`** (PROPERTY). demo_service.py:247: "The deleted_at filter on Space is
  implicit"; nothing applies it.
- **`ExpireTogether`** (INVARIANT). demo_service.py:274: "so the whole org's sandbox
  expires together", but an extension is of one account.
- **`NeverShrinks`** (PROPERTY, two `Admins`). demo.py:122: "re-clicking doesn't shrink
  the window", but of two extensions the shorter may commit last.
- Read in the code: agents of reaped demo spaces stay active; organisation agents that
  list a space are never swept (agent_revocation_service.py:67 says "or a crew within
  it"); `status_reason` is no column; one foreign key failure rolls back the whole
  cleanup; two provisions create two demo spaces.

## 6. Not modelled

- Whole components: see the inventory and the notes in `PROJECT.json`. The largest is
  the AI pipeline (`services/ai_service.py`): process_query commits its row as
  "processing" and a process that dies leaves it so, as does execute_pipeline; there is
  no second actor on that row, and what remains is prompt assembly and parsing. The
  handlers of `api/v1/console.py` beside those of `TenantRouting` read or forward;
  `services/rbac_service.py` is decision tables over rows read once per request, with
  fallbacks that differ between get_effective_permissions and assert_permission.
- In modelled components: the log fetch of a job; the hand-off codes of single
  sign-on; the token buckets of `rate_limit/core.py` (one Lua script each); permissions
  of users and hidden columns; several connections or spaces; the deletion cascade of
  a connection; the personal demo space; plan alerts; forks, pins, reactions and
  transfers of messages; switching the active page. Tasks that nothing enqueues
  (`workers/sync_worker.py`, `ai_worker.build_dashboard_job`).
- Signatures, tokens and roles of requests: a request in the model is one the handler
  accepted. The roles that matter (an approver of a file) are parameters, and access
  that is lost in the middle of a request and changes what it does is an action
  (`StreamStartsBare`).
- Time: durations are not compared, except days in `DemoSandbox`, months in
  `PlanLimits` and the marker's seconds in `AccountSessions`. "Later" becomes "due" at
  any moment, a retry happens at any moment, a time limit strikes at any moment.
- Database failures other than a rollback of the whole transaction, and failures of
  the database itself.

## 7. Plan

Done: the three systems where most actors share rows, with their proofs; routing; the
account, requests, counters, data and pages; the periodic work. In order of what would
add most now:

1. **A file's life cycle** above `KnowledgeLibrary`, with refinement checked and proved
   as for `RunLifecycle` and `TenantRegistry`.
2. **The statements of section 5 that hold of part of the code**, as theorems with the
   race they exclude as a hypothesis.
3. **Active pages and workspaces** (`is_active` shared by members), and **the
   permissions of users** beside those of spaces.
4. **The pipeline's row** with its process deaths and the kill switch, if a reaper for
   it is written.

The runs stay few: what is added takes its place in `MCWorkspace` or `MCBackground`.
