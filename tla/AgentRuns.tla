------------------------------- MODULE AgentRuns -------------------------------
(***************************************************************************)
(* Insight agents: the beat that enqueues due agents, the worker that      *)
(* executes a run (insight_agent_worker.py), the run service that records  *)
(* its outcome on the run and on its agent (agent_run_service.py), and the *)
(* requests of the owner (insight_agent_service.py).                       *)
(*                                                                         *)
(* The worker loads the agent row before it calls the AI service and       *)
(* assigns to that copy afterwards (expire_on_commit is off, nothing       *)
(* refreshes it); a commit writes the columns that differ from the copy.   *)
(* A request reads the row and commits later.                              *)
(***************************************************************************)
EXTENDS Naturals

CONSTANTS
    Agents,      \* ids of agents rows with monitor_type 'insight'
    Runs,        \* ids of agent_executions rows; an id is used once
    Edits,       \* requests and sweeps on agents that may be in flight at once
    Schedules,   \* values of schedule_jsonb
    Ending,      \* those with an ends_at, whose next projection may be past it
    Data,        \* results of an agent's query
    Unanswered,  \* those the AI service returns with an empty answer
    NoData,      \* result_hash IS NULL
    Budget       \* len(BACKOFF_SCHEDULE)

ASSUME SchedulesAssumption == Ending \subseteq Schedules /\ "now" \notin Schedules
                              /\ "backoff" \notin Schedules
ASSUME BudgetAssumption    == Budget \in Nat
ASSUME DataAssumption      == Unanswered \subseteq Data /\ NoData \notin Data /\ Data # {}

VARIABLES
    agent,     \* agents
    runs,      \* agent_executions
    clock,     \* the last started_at that a claim has written
    queue,     \* execute_insight_run messages at the broker
    beat,      \* agents the current tick selected and has still to enqueue
    work,      \* the execute_insight_run task of each run
    edit,      \* owner requests and revocations in flight
    source,    \* what an agent's query would return now
    widget,    \* widget.data
    tally      \* history: failed runs of an agent, in all and in a row

vars == <<agent, runs, clock, queue, beat, work, edit, source, widget, tally>>

-----------------------------------------------------------------------------
(* next_execution_at, with what it was computed from.                       *)
NextRun == [at : {"none", "later", "due"}, of : Schedules \cup {"now", "backoff"}]
NoNext  == [at |-> "none", of |-> "now"]
Now     == [at |-> "due", of |-> "now"]
Later(why) == [at |-> "later", of |-> why]

AgentRow == [status : {"absent", "active", "paused", "error", "ended"}, failures : Nat,
             next : NextRun, sched : Schedules]
RunRow   == [status : {"none", "queued", "running", "succeeded", "failed", "skipped"},
             agent : Agents, claimed : Nat, hash : Data \cup {NoData}]
Delta    == {"first_run", "material", "none"}
NoWork   == [pc |-> "idle"]
WorkState == [pc : {"asking", "answered", "compared", "failed"}, read : AgentRow,
              data : Data \cup {NoData}, delta : Delta] \cup {NoWork}
Requests == {"pause", "resume", "run_now", "delete", "update", "revoke"}
NoEdit   == [kind |-> "idle"]
EditState == [kind : Requests, agent : Agents, read : AgentRow, sched : Schedules] \cup {NoEdit}

TypeOK ==
    /\ agent  \in [Agents -> AgentRow]
    /\ runs   \in [Runs -> RunRow]
    /\ clock  \in Nat
    /\ queue  \in SUBSET Runs
    /\ beat   \in SUBSET Agents
    /\ work   \in [Runs -> WorkState]
    /\ edit   \in [Edits -> EditState]
    /\ source \in [Agents -> Data]
    /\ widget \in [Agents -> Data \cup {NoData}]
    /\ tally  \in [Agents -> [failed : Nat, streak : Nat]]

NewAgent(s) == [status |-> "absent", failures |-> 0, next |-> NoNext, sched |-> s]

Init ==
    \E a \in Agents, s \in Schedules, d \in Data :
        /\ agent  = [x \in Agents |-> NewAgent(s)]
        /\ runs   = [r \in Runs |-> [status |-> "none", agent |-> a, claimed |-> 0, hash |-> NoData]]
        /\ clock  = 0
        /\ queue  = {}
        /\ beat   = {}
        /\ work   = [r \in Runs |-> NoWork]
        /\ edit   = [e \in Edits |-> NoEdit]
        /\ source = [x \in Agents |-> d]
        /\ widget = [x \in Agents |-> NoData]
        /\ tally  = [x \in Agents |-> [failed |-> 0, streak |-> 0]]

-----------------------------------------------------------------------------
(* Rows.                                                                    *)

\* A column after a commit: an assignment equal to what was read is not written.
Column(read, assigned, now) == IF assigned = read THEN now ELSE assigned

\* next_execution_at: two computed times always differ, two NULLs do not.
NextColumn(read, assigned, now) ==
    IF read.at = "none" /\ assigned.at = "none" THEN now ELSE assigned

CommitUnread(read, to, now) == to                                  \* mutant
Commit(read, to, now) ==
    [status   |-> Column(read.status, to.status, now.status),
     failures |-> Column(read.failures, to.failures, now.failures),
     next     |-> NextColumn(read.next, to.next, now.next),
     sched    |-> Column(read.sched, to.sched, now.sched)]

-----------------------------------------------------------------------------
(* The run state machine.                                                   *)

Transitions == {<<"queued", "claim", "running">>, <<"running", "report_success", "succeeded">>,
                <<"running", "report_failure", "failed">>, <<"running", "report_skip", "skipped">>}

\* transition(): the run moves along the table, or IllegalTransition is raised.
TransitionUnsaved(r, event, fields) == runs[r].status \in {"queued", "running"} /\    \* mutant
    runs' = [runs EXCEPT ![r] = [fields EXCEPT !.status =
                IF event = "claim" THEN runs[r].status
                ELSE (CHOOSE t \in Transitions : t[2] = event)[3]]]
Transition(r, event, fields) ==
    \E t \in Transitions : /\ t[1] = runs[r].status /\ t[2] = event
                           /\ runs' = [runs EXCEPT ![r] = [fields EXCEPT !.status = t[3]]]

ExhaustedEarly(failures) == failures >= Budget                     \* mutant
Exhausted(failures) == failures > Budget

\* _project_next_run_from_schedule.
Projections(s) == {Later(s)} \cup (IF s \in Ending THEN {NoNext} ELSE {})

-----------------------------------------------------------------------------
(* The beat, every minute.                                                  *)

BeatSelects ==
    LET due == {a \in Agents : agent[a].status = "active" /\ agent[a].next.at = "due"} IN
    /\ beat = {} /\ due # {}
    /\ beat' = due
    /\ UNCHANGED <<agent, runs, clock, queue, work, edit, source, widget, tally>>

\* enqueue commits the run, then delay() sends it; the broker may refuse.
BeatEnqueues(a, r) ==
    /\ a \in beat /\ runs[r].status = "none"
    /\ beat' = beat \ {a}
    /\ runs' = [runs EXCEPT ![r].status = "queued", ![r].agent = a]
    /\ queue' \in {queue, queue \cup {r}}
    /\ UNCHANGED <<agent, clock, work, edit, source, widget, tally>>

BeatDies ==
    /\ beat # {} /\ beat' = {}
    /\ UNCHANGED <<agent, runs, clock, queue, work, edit, source, widget, tally>>

-----------------------------------------------------------------------------
(* execute_insight_run.                                                     *)

Claim(r) ==
    /\ r \in queue
    /\ queue' = queue \ {r}
    /\ clock' = clock + 1
    /\ Transition(r, "claim", [runs[r] EXCEPT !.claimed = clock + 1])
    /\ work' = [work EXCEPT ![r] = [pc |-> "asking", read |-> agent[runs[r].agent],
                                    data |-> NoData, delta |-> "none"]]
    /\ UNCHANGED <<agent, beat, edit, source, widget, tally>>

AiAnswers(r) ==
    /\ work[r].pc = "asking"
    /\ work' = [work EXCEPT ![r].pc = "answered", ![r].data = source[runs[r].agent]]
    /\ UNCHANGED <<agent, runs, clock, queue, beat, edit, source, widget, tally>>

AiFails(r) ==
    /\ work[r].pc = "asking"
    /\ work' = [work EXCEPT ![r].pc = "failed"]
    /\ UNCHANGED <<agent, runs, clock, queue, beat, edit, source, widget, tally>>

\* prev_hash: of the agent's other runs with a hash, the one that started last.
Hashed(r) == {q \in Runs \ {r} : runs[q].agent = runs[r].agent /\ runs[q].hash # NoData}
PreviousFirst(r) == {q \in Hashed(r) : \A p \in Hashed(r) : runs[p].claimed >= runs[q].claimed} \* mutant
Previous(r) == {q \in Hashed(r) : \A p \in Hashed(r) : runs[p].claimed <= runs[q].claimed}

Compare(r) ==
    /\ work[r].pc = "answered"
    /\ \E delta \in Delta :
           /\ (delta = "first_run") = (Previous(r) = {})
           /\ (delta = "none") = (\E q \in Previous(r) : runs[q].hash = work[r].data)
           /\ work' = [work EXCEPT ![r].pc = "compared", ![r].delta = delta]
    /\ UNCHANGED <<agent, runs, clock, queue, beat, edit, source, widget, tally>>

\* The agent's columns that an outcome assigns, from the copy the task holds.
RecoveredNull(read, next) == [read EXCEPT !.failures = NoData, !.next = next] \* mutant
Recovered(read, next) == [read EXCEPT !.failures = 0, !.next = next]
Struck(read) ==
    IF Exhausted(read.failures + 1)
    THEN [read EXCEPT !.failures = read.failures + 1, !.status = "error", !.next = NoNext]
    ELSE [read EXCEPT !.failures = read.failures + 1, !.next = Later("backoff")]

ReportSuccess(r) ==
    LET a == runs[r].agent
        read == work[r].read
    IN
    /\ work[r].pc = "compared" /\ work[r].delta # "none"
    /\ Transition(r, "report_success", [runs[r] EXCEPT !.hash = work[r].data])
    /\ \E next \in Projections(read.sched) :
           agent' = [agent EXCEPT ![a] = Commit(read, Recovered(read, next), @)]
    /\ widget' = IF work[r].data \in Unanswered THEN widget
                 ELSE [widget EXCEPT ![a] = work[r].data]
    /\ tally' = [tally EXCEPT ![a].streak = 0]
    /\ work' = [work EXCEPT ![r] = NoWork]
    /\ UNCHANGED <<clock, queue, beat, edit, source>>

ReportSkip(r) ==
    LET a == runs[r].agent
        read == work[r].read
    IN
    /\ work[r].pc = "compared" /\ work[r].delta = "none"
    /\ Transition(r, "report_skip", runs[r])
    /\ \E next \in Projections(read.sched) :
           agent' = [agent EXCEPT ![a] = Commit(read, Recovered(read, next), @)]
    /\ tally' = [tally EXCEPT ![a].streak = 0]
    /\ work' = [work EXCEPT ![r] = NoWork]
    /\ UNCHANGED <<clock, queue, beat, edit, source, widget>>

ReportFailureLost(r) ==                                            \* mutant
    /\ work[r].pc = "failed"
    /\ work' = [work EXCEPT ![r] = NoWork]
    /\ UNCHANGED <<agent, runs, clock, queue, beat, edit, source, widget, tally>>
ReportFailure(r) ==
    LET a == runs[r].agent
        read == work[r].read
    IN
    /\ work[r].pc = "failed"
    /\ Transition(r, "report_failure", runs[r])
    /\ agent' = [agent EXCEPT ![a] = Commit(read, Struck(read), @)]
    /\ tally' = [tally EXCEPT ![a].failed = @ + 1, ![a].streak = @ + 1]
    /\ work' = [work EXCEPT ![r] = NoWork]
    /\ UNCHANGED <<clock, queue, beat, edit, source, widget>>

\* The process dies, a report raises, or Celery's time limit interrupts the
\* event loop: nothing is written after the claim.
WorkerDies(r) ==
    /\ work[r].pc # "idle"
    /\ work' = [work EXCEPT ![r] = NoWork]
    /\ UNCHANGED <<agent, runs, clock, queue, beat, edit, source, widget, tally>>

-----------------------------------------------------------------------------
(* Requests on an agent, and the revocation that pauses an active one.      *)

Create(a, s) ==
    /\ agent[a].status = "absent"
    /\ agent' = [agent EXCEPT ![a] = [status |-> "active", failures |-> 0,
                                      next |-> Later(s), sched |-> s]]
    /\ UNCHANGED <<runs, clock, queue, beat, work, edit, source, widget, tally>>

Accepts(kind, row) ==
    CASE kind \in {"pause", "resume", "run_now"} -> row.status \notin {"absent", "ended"}
      [] kind = "revoke"                         -> row.status = "active"
      [] OTHER                                   -> row.status # "absent"

EditReads(e, a, kind, s) ==
    /\ edit[e].kind = "idle" /\ Accepts(kind, agent[a])
    /\ (kind # "update" => s = agent[a].sched)
    /\ edit' = [edit EXCEPT ![e] = [kind |-> kind, agent |-> a, read |-> agent[a], sched |-> s]]
    /\ UNCHANGED <<agent, runs, clock, queue, beat, work, source, widget, tally>>

Assigned(k) ==
    CASE k.kind = "pause"   -> [k.read EXCEPT !.status = "paused", !.next = NoNext]
      [] k.kind = "resume"  -> [k.read EXCEPT !.status = "active", !.failures = 0, !.next = Now]
      [] k.kind = "run_now" -> [k.read EXCEPT !.next = Now,
                                   !.status = IF k.read.status = "paused" THEN "active" ELSE @]
      [] k.kind = "delete"  -> [k.read EXCEPT !.status = "ended", !.next = NoNext]
      [] k.kind = "update"  -> [k.read EXCEPT !.sched = k.sched, !.next = Later(k.sched)]
      [] OTHER              -> [k.read EXCEPT !.status = "paused"]

\* The columns the request's UPDATE names: next_execution_at only if assigned.
EditRow(k, now) ==
    IF k.kind = "revoke" THEN [now EXCEPT !.status = Column(k.read.status, "paused", @)]
    ELSE Commit(k.read, Assigned(k), now)

EditCommits(e) ==
    LET k == edit[e] IN
    /\ k.kind # "idle"
    /\ agent' = [agent EXCEPT ![k.agent] = EditRow(k, @)]
    /\ edit' = [edit EXCEPT ![e] = NoEdit]
    /\ tally' = IF k.kind = "resume" THEN [tally EXCEPT ![k.agent].streak = 0] ELSE tally
    /\ UNCHANGED <<runs, clock, queue, beat, work, source, widget>>

EditAborts(e) ==
    /\ edit[e].kind # "idle"
    /\ edit' = [edit EXCEPT ![e] = NoEdit]
    /\ UNCHANGED <<agent, runs, clock, queue, beat, work, source, widget, tally>>

-----------------------------------------------------------------------------
(* The world.                                                               *)

TimePasses(a) ==
    /\ agent[a].next.at = "later"
    /\ agent' = [agent EXCEPT ![a].next.at = "due"]
    /\ UNCHANGED <<runs, clock, queue, beat, work, edit, source, widget, tally>>

SourceChanges(a) ==
    /\ \E d \in Data \ {source[a]} : source' = [source EXCEPT ![a] = d]
    /\ UNCHANGED <<agent, runs, clock, queue, beat, work, edit, widget, tally>>

-----------------------------------------------------------------------------
Beat == BeatSelects \/ \E a \in Agents, r \in Runs : BeatEnqueues(a, r)

Execute(r) == \/ Claim(r) \/ AiAnswers(r) \/ AiFails(r) \/ Compare(r)
              \/ ReportSuccess(r) \/ ReportSkip(r) \/ ReportFailure(r)

Owner == \/ \E a \in Agents, s \in Schedules : Create(a, s)
         \/ \E e \in Edits : \/ \E a \in Agents, kind \in Requests, s \in Schedules :
                                    EditReads(e, a, kind, s)
                             \/ EditCommits(e) \/ EditAborts(e)

World == \E a \in Agents : TimePasses(a) \/ SourceChanges(a)

Deaths == BeatDies \/ \E r \in Runs : WorkerDies(r)

Steps == Beat \/ (\E r \in Runs : Execute(r)) \/ Owner \/ World

Next == Steps \/ Deaths

Spec == Init /\ [][Next]_vars

\* Celery delivers what is at the broker and runs it to its end.
Fairness == \A r \in Runs : WF_vars(Execute(r))

LiveSpec    == Init /\ [][Steps]_vars /\ Fairness
TimeoutSpec == Spec /\ Fairness

-----------------------------------------------------------------------------
(* Properties.                                                              *)

\* The run rows go through the life agent_run_state.py promises, also when
\* workers die and several runs of one agent overlap.
Lifecycle == INSTANCE RunLifecycle WITH status <- [r \in Runs |-> runs[r].status]
RunsFollowLifecycle == Lifecycle!Spec

\* However stale the counter a task added one to, an agent is only ever put in
\* error after more failed runs than the backoff schedule has entries.
ErrorIsEarned ==
    \A a \in Agents : agent[a].status = "error" => tally[a].failed > Budget

\* The outcome of a run never undoes what the owner did while it was executing:
\* a pause or a deletion is not turned back to active, a new schedule is kept.
ReportKeepsEdits ==
    [][\A r \in Runs :
          LET a == runs[r].agent IN
          work[r].pc \in {"compared", "failed"} /\ work'[r].pc = "idle" =>
              /\ agent[a].status \in {"paused", "ended"} => agent'[a].status # "active"
              /\ agent'[a].sched = agent[a].sched]_vars

\* A claimed run gets its outcome.
RunsEnd == \A r \in Runs : runs[r].status = "running"
                            ~> runs[r].status \in {"succeeded", "failed", "skipped"}

(* What the comments and docstrings say and the code does not do.           *)

\* agent_run_state.py:29 "the 4th consecutive failure flips the agent to
\* 'error'": with the budget spent in a row the agent is no longer active.
BudgetStopsAgent ==
    \A a \in Agents : tally[a].streak > Budget => agent[a].status # "active"

\* agent_run_state.py:25 "no further runs are scheduled until an admin resumes
\* it": no run is enqueued after the budget was spent, until a resume.
NoRunAfterBudget ==
    [][\A r \in Runs : runs[r].status = "none" /\ runs'[r].status = "queued" =>
          tally[runs'[r].agent].streak <= Budget]_vars

\* insight_agent_service.py:210 "Ended agents cannot be resumed": an ended
\* agent stays ended.
EndedStaysEnded ==
    [][\A a \in Agents : agent[a].status = "ended" => agent'[a].status = "ended"]_vars

\* insight_agent_service.py:178 "schedule change recomputes next_execution_at
\* from now": the next run of an active agent is not computed from a schedule
\* that was replaced.
NextFollowsSchedule ==
    \A a \in Agents : agent[a].status = "active" /\ agent[a].next.at # "none" =>
        agent[a].next.of \in {agent[a].sched, "now", "backoff"}

\* agent_run_service.py:141 "project the next run from the agent's schedule": an
\* active agent whose schedule has no end has a next run.
ActiveIsScheduled ==
    \A a \in Agents : agent[a].status = "active" /\ agent[a].sched \notin Ending =>
        agent[a].next.at # "none"

\* agent_run_service.py:108 "Record a successful run + reset the agent's failure
\* counter".
SuccessResetsFailures ==
    [][\A r \in Runs : runs[r].status = "running" /\ runs'[r].status = "succeeded" =>
          agent'[runs[r].agent].failures = 0]_vars

\* insight_agent_worker.py:163 "new result back to widget.data so the dashboard
\* reflects fresh data": a run that succeeds leaves its result in the widget.
SuccessRefreshesWidget ==
    [][\A r \in Runs : runs[r].status = "running" /\ runs'[r].status = "succeeded" =>
          widget'[runs[r].agent] = work[r].data]_vars

\* insight_agent_worker.py:273 "Only when the data actually changed - skip
\* writes on delta_kind='none'": a run that skips leaves a widget that shows what
\* that run saw.
SkipMeansUnchanged ==
    [][\A r \in Runs : runs[r].status = "running" /\ runs'[r].status = "skipped" =>
          widget[runs[r].agent] = work[r].data]_vars

\* insight_agent_service.py:199 "worker won't pick it up": no run of a paused
\* agent is claimed.
PausedNotPickedUp ==
    [][\A r \in Runs : runs[r].status = "queued" /\ runs'[r].status = "running" =>
          agent[runs[r].agent].status # "paused"]_vars

\* insight_agent_service.py:234 "Ensure the agent is active so beat picks it up":
\* an agent that was told to run now is one that the beat selects.
RunNowIsActive ==
    \A a \in Agents : agent[a].next = Now => agent[a].status = "active"

\* agent_run_service.py:224 "Return queued runs in FIFO order - used by the
\* worker pick-up loop": a queued run is picked up.
QueuedIsPickedUp == \A r \in Runs : runs[r].status = "queued" ~> runs[r].status # "queued"
=============================================================================
