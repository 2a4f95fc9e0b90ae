---------------------------- MODULE AgentRunsProofs ----------------------------
(***************************************************************************)
(* For any agents, runs, requests in flight, schedules and retry budget:   *)
(* the types, that error is earned, that a report keeps what the owner did *)
(* during the run, and that the runs implement RunLifecycle.               *)
(***************************************************************************)
EXTENDS AgentRuns, TLAPS

-----------------------------------------------------------------------------
(* The inductive invariant.                                                 *)

(* A task is at work only on a running run.                                 *)
Working == \A r \in Runs : work[r].pc # "idle" => runs[r].status = "running"

(* What a row, or a copy of it, says is covered by n failed runs.           *)
Within(row, n) == row.failures <= n /\ (row.status = "error" => n > Budget)

(* The counter of an agent, and every copy of it that a task or a request   *)
(* holds, however old, is at most the number of its failed runs.            *)
Counted ==
    /\ \A a \in Agents : Within(agent[a], tally[a].failed)
    /\ \A r \in Runs : work[r].pc # "idle" => Within(work[r].read, tally[runs[r].agent].failed)
    /\ \A e \in Edits : edit[e].kind # "idle" => Within(edit[e].read, tally[edit[e].agent].failed)

Inv == TypeOK /\ Working /\ Counted

-----------------------------------------------------------------------------
(* Rows and copies.                                                         *)

(* The state, one row at a time.                                            *)
LEMMA Rows ==
    ASSUME TypeOK
    PROVE  /\ \A a \in Agents : agent[a] \in AgentRow
           /\ \A a \in Agents : tally[a].failed \in Nat /\ tally[a].streak \in Nat
           /\ \A a \in Agents : tally[a] \in [failed : Nat, streak : Nat]
           /\ \A r \in Runs : runs[r] \in RunRow /\ runs[r].agent \in Agents
           /\ \A r \in Runs : work[r].pc # "idle" =>
                  /\ work[r] \in [pc : {"asking", "answered", "compared", "failed"},
                                  read : AgentRow, data : Data \cup {NoData}, delta : Delta]
                  /\ work[r].read \in AgentRow /\ work[r].data \in Data \cup {NoData}
           /\ \A e \in Edits : edit[e].kind # "idle" =>
                  /\ edit[e].kind \in Requests /\ edit[e].agent \in Agents
                  /\ edit[e].read \in AgentRow /\ edit[e].sched \in Schedules
<1>1. \A r \in Runs : runs[r] \in RunRow /\ runs[r].agent \in Agents
    BY DEF TypeOK, RunRow
<1>2. \A r \in Runs : work[r] \in WorkState
    BY DEF TypeOK
<1>3. \A e \in Edits : edit[e] \in EditState
    BY DEF TypeOK
<1>4. \A a \in Agents : agent[a] \in AgentRow /\ tally[a] \in [failed : Nat, streak : Nat]
    BY DEF TypeOK
<1> QED
    BY <1>1, <1>2, <1>3, <1>4 DEF WorkState, NoWork, EditState, NoEdit

(* next_execution_at values are well formed.                                *)
LEMMA NextRuns ==
    /\ NoNext \in NextRun /\ Now \in NextRun /\ Later("backoff") \in NextRun
    /\ \A s \in Schedules : Later(s) \in NextRun /\ Projections(s) \subseteq NextRun
BY DEF NoNext, Now, Later, NextRun, Projections

(* A commit mixes columns of what was assigned and of what is stored now.   *)
LEMMA CommitRow ==
    ASSUME NEW read \in AgentRow, NEW to \in AgentRow, NEW now \in AgentRow, NEW n \in Nat,
           Within(to, n), Within(now, n)
    PROVE  Commit(read, to, now) \in AgentRow /\ Within(Commit(read, to, now), n)
<1> DEFINE row == Commit(read, to, now)
<1>1. /\ row.status \in {to.status, now.status} /\ row.failures \in {to.failures, now.failures}
      /\ row.next \in {to.next, now.next} /\ row.sched \in {to.sched, now.sched}
    BY DEF Commit, Column, NextColumn
<1>2. row = [status |-> row.status, failures |-> row.failures,
             next |-> row.next, sched |-> row.sched]
    BY DEF Commit
<1> HIDE DEF row
<1>3. row \in AgentRow
    BY <1>1, <1>2 DEF AgentRow
<1>4. Within(row, n)
    BY <1>1 DEF Within
<1> QED
    BY <1>3, <1>4 DEF row

(* More failed runs cover no less.                                          *)
LEMMA WithinMore ==
    ASSUME NEW row \in AgentRow, NEW n \in Nat, NEW m \in Nat, n <= m, Within(row, n)
    PROVE  Within(row, m)
BY BudgetAssumption DEF Within, AgentRow

(* Initially nothing has failed.                                            *)
LEMMA InitInv == Init => Inv
<1> SUFFICES ASSUME Init PROVE Inv
    OBVIOUS
<1>1. PICK a \in Agents, s \in Schedules, d \in Data :
        /\ agent  = [x \in Agents |-> NewAgent(s)]
        /\ runs   = [r \in Runs |-> [status |-> "none", agent |-> a, claimed |-> 0, hash |-> NoData]]
        /\ clock  = 0 /\ queue = {} /\ beat = {}
        /\ work   = [r \in Runs |-> NoWork]
        /\ edit   = [e \in Edits |-> NoEdit]
        /\ source = [x \in Agents |-> d]
        /\ widget = [x \in Agents |-> NoData]
        /\ tally  = [x \in Agents |-> [failed |-> 0, streak |-> 0]]
    BY DEF Init
<1>2. NewAgent(s) \in AgentRow /\ Within(NewAgent(s), 0)
    BY BudgetAssumption, NextRuns DEF NewAgent, AgentRow, Within
<1>3. TypeOK
    BY <1>1, <1>2 DEF TypeOK, RunRow, WorkState, EditState
<1>4. Working
    BY <1>1 DEF Working, NoWork
<1>5. Counted
    BY <1>1, <1>2 DEF Counted, NoWork, NoEdit
<1> QED
    BY <1>3, <1>4, <1>5 DEF Inv

-----------------------------------------------------------------------------
(* Steps that write no agent.                                               *)

LEMMA BeatInv ==
    ASSUME Inv, BeatSelects \/ BeatDies
    PROVE  Inv'
<1>1. beat' \in SUBSET Agents /\ UNCHANGED <<agent, runs, clock, queue, work, edit, source, widget, tally>>
    BY DEF BeatSelects, BeatDies
<1> QED
    BY <1>1 DEF Inv, TypeOK, Working, Counted, Within

LEMMA EnqueueInv ==
    ASSUME Inv, NEW a \in Agents, NEW r \in Runs, BeatEnqueues(a, r)
    PROVE  Inv'
<1> DEFINE row == [runs[r] EXCEPT !.status = "queued", !.agent = a]
<1>1. row \in RunRow
    BY Rows DEF Inv, RunRow
<1>2. runs' = [runs EXCEPT ![r] = row]
    BY DEF BeatEnqueues, Inv, TypeOK
<1>3. queue' \in SUBSET Runs /\ beat' \in SUBSET Agents
    BY DEF BeatEnqueues, Inv, TypeOK
<1>4. UNCHANGED <<agent, clock, work, edit, source, widget, tally>>
    BY DEF BeatEnqueues
<1>5. work[r].pc = "idle"
    BY DEF BeatEnqueues, Inv, Working
<1> HIDE DEF row
<1>6. TypeOK'
    BY <1>1, <1>2, <1>3, <1>4 DEF Inv, TypeOK
<1>7. Working'
    BY <1>2, <1>4, <1>5 DEF Inv, TypeOK, Working
<1>8. Counted'
    BY <1>2, <1>4, <1>5 DEF Inv, TypeOK, Counted, Within
<1> QED
    BY <1>6, <1>7, <1>8 DEF Inv

LEMMA ClaimInv ==
    ASSUME Inv, NEW r \in Runs, Claim(r)
    PROVE  Inv'
<1> DEFINE fields == [runs[r] EXCEPT !.claimed = clock + 1]
           row == [fields EXCEPT !.status = "running"]
           task == [pc |-> "asking", read |-> agent[runs[r].agent], data |-> NoData, delta |-> "none"]
<1>1. row \in RunRow /\ row.status = "running" /\ row.agent = runs[r].agent
    <2>1. runs[r] \in RunRow /\ clock + 1 \in Nat
        BY Rows DEF Inv, TypeOK
    <2>2. fields \in RunRow /\ fields.agent = runs[r].agent
        BY <2>1 DEF RunRow
    <2> HIDE DEF fields
    <2> QED
        BY <2>2 DEF RunRow
<1>2. runs' = [runs EXCEPT ![r] = row]
    <2>1. Transition(r, "claim", fields)
        BY DEF Claim
    <2> HIDE DEF fields
    <2>2. PICK t \in Transitions : t[2] = "claim" /\ runs' = [runs EXCEPT ![r] = [fields EXCEPT !.status = t[3]]]
        BY <2>1 DEF Transition
    <2>3. t[3] = "running"
        BY <2>2 DEF Transitions
    <2> QED
        BY <2>2, <2>3
<1>3. task \in WorkState /\ task.pc # "idle" /\ task.read = agent[runs[r].agent]
    BY Rows DEF Inv, WorkState, Delta
<1>4. work' = [work EXCEPT ![r] = task]
    BY DEF Claim
<1>5. queue' \in SUBSET Runs /\ clock' \in Nat
    BY DEF Claim, Inv, TypeOK
<1>6. UNCHANGED <<agent, beat, edit, source, widget, tally>>
    BY DEF Claim
<1> HIDE DEF row, task, fields
<1>7. TypeOK'
    BY <1>1, <1>2, <1>3, <1>4, <1>5, <1>6 DEF Inv, TypeOK
<1>8. Working'
    BY <1>1, <1>2, <1>3, <1>4 DEF Inv, TypeOK, Working
<1>9. Counted'
    <2>1. Within(task.read, tally[runs[r].agent].failed)
        BY <1>3, Rows DEF Inv, Counted
    <2> QED
        BY <1>1, <1>2, <1>3, <1>4, <1>6, <2>1 DEF Inv, TypeOK, Counted, Within
<1> QED
    BY <1>7, <1>8, <1>9 DEF Inv

(* The AI call and the comparison only advance the task.                    *)
LEMMA AskInv ==
    ASSUME Inv, NEW r \in Runs, AiAnswers(r) \/ AiFails(r) \/ Compare(r)
    PROVE  Inv'
<1>1. PICK task \in WorkState :
          work' = [work EXCEPT ![r] = task] /\ task.pc # "idle" /\ task.read = work[r].read
    <2>1. /\ work[r].pc # "idle"
          /\ work[r] \in [pc : {"asking", "answered", "compared", "failed"},
                          read : AgentRow, data : Data \cup {NoData}, delta : Delta]
        BY Rows DEF Inv, AiAnswers, AiFails, Compare
    <2>2. CASE AiAnswers(r)
        <3> DEFINE task == [work[r] EXCEPT !.pc = "answered", !.data = source[runs[r].agent]]
        <3>1. task \in WorkState /\ task.pc # "idle" /\ task.read = work[r].read
            BY <2>1, Rows DEF WorkState, Inv, TypeOK
        <3>2. work' = [work EXCEPT ![r] = task]
            BY <2>2 DEF AiAnswers, Inv, TypeOK
        <3> QED
            BY <3>1, <3>2
    <2>3. CASE AiFails(r)
        <3> DEFINE task == [work[r] EXCEPT !.pc = "failed"]
        <3>1. task \in WorkState /\ task.pc # "idle" /\ task.read = work[r].read
            BY <2>1 DEF WorkState
        <3>2. work' = [work EXCEPT ![r] = task]
            BY <2>3 DEF AiFails, Inv, TypeOK
        <3> QED
            BY <3>1, <3>2
    <2>4. CASE Compare(r)
        <3>1. PICK delta \in Delta : work' = [work EXCEPT ![r].pc = "compared", ![r].delta = delta]
            BY <2>4 DEF Compare
        <3> DEFINE task == [work[r] EXCEPT !.pc = "compared", !.delta = delta]
        <3>2. task \in WorkState /\ task.pc # "idle" /\ task.read = work[r].read
            BY <2>1 DEF WorkState
        <3>3. work' = [work EXCEPT ![r] = task]
            BY <3>1 DEF Inv, TypeOK
        <3> QED
            BY <3>2, <3>3
    <2> QED
        BY <2>2, <2>3, <2>4
<1>2. UNCHANGED <<agent, runs, clock, queue, beat, edit, source, widget, tally>>
    BY DEF AiAnswers, AiFails, Compare
<1>3. work[r].pc # "idle"
    BY DEF AiAnswers, AiFails, Compare
<1>4. TypeOK'
    BY <1>1, <1>2 DEF Inv, TypeOK
<1>5. Working'
    BY <1>1, <1>2, <1>3 DEF Inv, TypeOK, Working
<1>6. Counted'
    BY <1>1, <1>2, <1>3 DEF Inv, TypeOK, Counted, Within
<1> QED
    BY <1>4, <1>5, <1>6 DEF Inv

LEMMA DieInv ==
    ASSUME Inv, NEW r \in Runs, WorkerDies(r)
    PROVE  Inv'
<1>1. work' = [work EXCEPT ![r] = NoWork]
    BY DEF WorkerDies
<1>2. NoWork \in WorkState /\ NoWork.pc = "idle"
    BY DEF WorkState, NoWork
<1>3. UNCHANGED <<agent, runs, clock, queue, beat, edit, source, widget, tally>>
    BY DEF WorkerDies
<1>4. TypeOK'
    BY <1>1, <1>2, <1>3 DEF Inv, TypeOK
<1>5. Working'
    BY <1>1, <1>2, <1>3 DEF Inv, TypeOK, Working
<1>6. Counted'
    BY <1>1, <1>2, <1>3 DEF Inv, TypeOK, Counted, Within
<1> QED
    BY <1>4, <1>5, <1>6 DEF Inv

-----------------------------------------------------------------------------
(* Reports.                                                                 *)

(* A report moves a running run on, and commits a row that the failed runs, *)
(* its own included, cover.                                                 *)
LEMMA ReportInv ==
    ASSUME Inv, NEW r \in Runs, work[r].pc # "idle",
           NEW row \in RunRow, row.agent = runs[r].agent, runs' = [runs EXCEPT ![r] = row],
           NEW to \in AgentRow, NEW n \in [failed : Nat, streak : Nat],
           tally[runs[r].agent].failed <= n.failed, Within(to, n.failed),
           agent' = [agent EXCEPT ![runs[r].agent] = Commit(work[r].read, to, @)],
           tally' = [tally EXCEPT ![runs[r].agent] = n],
           work' = [work EXCEPT ![r] = NoWork],
           widget' \in [Agents -> Data \cup {NoData}],
           UNCHANGED <<clock, queue, beat, edit, source>>
    PROVE  Inv'
<1> DEFINE a == runs[r].agent
           new == Commit(work[r].read, to, agent[a])
<1>1. a \in Agents /\ agent[a] \in AgentRow /\ work[r].read \in AgentRow /\ tally[a].failed \in Nat
    BY Rows DEF Inv
<1>2. Within(agent[a], n.failed)
    BY <1>1, WithinMore DEF Inv, Counted
<1>3. new \in AgentRow /\ Within(new, n.failed)
    BY <1>1, <1>2, CommitRow
<1>4. agent' = [agent EXCEPT ![a] = new] /\ tally' = [tally EXCEPT ![a] = n]
    OBVIOUS
<1>5. NoWork \in WorkState /\ NoWork.pc = "idle"
    BY DEF WorkState, NoWork
<1> HIDE DEF new
<1>6. TypeOK'
    <2>1. agent' \in [Agents -> AgentRow]
        BY <1>1, <1>3, <1>4 DEF Inv, TypeOK
    <2>2. runs' \in [Runs -> RunRow]
        BY DEF Inv, TypeOK
    <2>3. work' \in [Runs -> WorkState]
        BY <1>5 DEF Inv, TypeOK
    <2>4. tally' \in [Agents -> [failed : Nat, streak : Nat]]
        BY <1>1, <1>4 DEF Inv, TypeOK
    <2> QED
        BY <2>1, <2>2, <2>3, <2>4 DEF Inv, TypeOK
<1>7. Working'
    BY <1>5 DEF Inv, TypeOK, Working
<1>8. \A x \in Agents : tally[x].failed \in Nat /\ tally'[x].failed \in Nat
                         /\ tally[x].failed <= tally'[x].failed
    BY <1>1, <1>4, Rows DEF Inv, TypeOK
<1>9. ASSUME NEW x \in Agents PROVE Within(agent'[x], tally'[x].failed)
    <2>1. CASE x = a
        BY <1>1, <1>3, <1>4, <2>1 DEF Inv, TypeOK
    <2>2. CASE x # a
        BY <1>1, <1>4, <2>2 DEF Inv, TypeOK, Counted
    <2> QED
        BY <2>1, <2>2
<1>10. ASSUME NEW q \in Runs, work'[q].pc # "idle"
       PROVE  Within(work'[q].read, tally'[runs'[q].agent].failed)
    <2>1. q # r /\ work'[q] = work[q] /\ runs'[q] = runs[q] /\ work[q].pc # "idle"
        BY <1>5, <1>10 DEF Inv, TypeOK
    <2>2. Within(work[q].read, tally[runs[q].agent].failed)
        BY <2>1 DEF Inv, Counted
    <2>3. work[q].read \in AgentRow /\ runs[q].agent \in Agents
        BY <2>1, Rows DEF Inv
    <2>4. Within(work[q].read, tally'[runs[q].agent].failed)
        BY <1>8, <2>2, <2>3, WithinMore
    <2> QED
        BY <2>1, <2>4
<1>11. ASSUME NEW e \in Edits, edit'[e].kind # "idle"
       PROVE  Within(edit'[e].read, tally'[edit'[e].agent].failed)
    <2>1. edit[e].read \in AgentRow /\ edit[e].agent \in Agents
          /\ Within(edit[e].read, tally[edit[e].agent].failed)
        BY <1>11, Rows DEF Inv, Counted
    <2> QED
        BY <1>8, <2>1, WithinMore
<1>12. Counted'
    BY <1>9, <1>10, <1>11 DEF Counted, Within
<1> QED
    BY <1>6, <1>7, <1>12 DEF Inv

(* What a report does to its run.                                           *)
LEMMA TransitionRow ==
    ASSUME NEW r \in Runs, NEW fields \in RunRow,
           NEW event \in {"report_success", "report_skip", "report_failure"},
           Transition(r, event, fields)
    PROVE  \E end \in {"succeeded", "failed", "skipped"} :
               /\ runs[r].status = "running"
               /\ runs' = [runs EXCEPT ![r] = [fields EXCEPT !.status = end]]
               /\ [fields EXCEPT !.status = end] \in RunRow
               /\ [fields EXCEPT !.status = end].agent = fields.agent
<1>1. PICK t \in Transitions : /\ t[1] = runs[r].status /\ t[2] = event
                               /\ runs' = [runs EXCEPT ![r] = [fields EXCEPT !.status = t[3]]]
    BY DEF Transition
<1>2. t[1] = "running" /\ t[3] \in {"succeeded", "failed", "skipped"}
    BY <1>1 DEF Transitions
<1>3. [fields EXCEPT !.status = t[3]] \in RunRow
      /\ [fields EXCEPT !.status = t[3]].agent = fields.agent
    BY <1>2 DEF RunRow
<1> QED
    BY <1>1, <1>2, <1>3

(* What a report assigns on the agent.                                      *)
LEMMA ReportRow ==
    ASSUME NEW read \in AgentRow
    PROVE  /\ \A next \in Projections(read.sched) :
                  /\ Recovered(read, next) \in AgentRow
                  /\ Recovered(read, next).failures = 0
                  /\ Recovered(read, next).status = read.status
                  /\ Recovered(read, next).sched = read.sched
           /\ Struck(read) \in AgentRow
           /\ Struck(read).failures = read.failures + 1
           /\ Struck(read).status \in {read.status, "error"}
           /\ Struck(read).status = "error" => read.status = "error" \/ read.failures + 1 > Budget
           /\ Struck(read).sched = read.sched
<1>1. read.sched \in Schedules /\ read.failures \in Nat /\ read.failures + 1 \in Nat
    BY DEF AgentRow
<1>2. Projections(read.sched) \subseteq NextRun
    BY <1>1, NextRuns
<1>3. \A next \in NextRun :
          /\ Recovered(read, next) \in AgentRow
          /\ Recovered(read, next).failures = 0
          /\ Recovered(read, next).status = read.status
          /\ Recovered(read, next).sched = read.sched
    BY DEF Recovered, AgentRow
<1>4. Later("backoff") \in NextRun /\ NoNext \in NextRun
    BY NextRuns
<1>5. CASE Exhausted(read.failures + 1)
    <2>1. Struck(read) = [read EXCEPT !.failures = read.failures + 1, !.status = "error", !.next = NoNext]
        BY <1>5 DEF Struck
    <2>2. read.failures + 1 > Budget
        BY <1>5 DEF Exhausted
    <2>3. Struck(read) \in AgentRow /\ Struck(read).failures = read.failures + 1
          /\ Struck(read).status = "error" /\ Struck(read).sched = read.sched
        BY <1>1, <1>4, <2>1 DEF AgentRow
    <2> QED
        BY <1>2, <1>3, <2>2, <2>3
<1>6. CASE ~Exhausted(read.failures + 1)
    <2>1. Struck(read) = [read EXCEPT !.failures = read.failures + 1, !.next = Later("backoff")]
        BY <1>6 DEF Struck
    <2>2. Struck(read) \in AgentRow /\ Struck(read).failures = read.failures + 1
          /\ Struck(read).status = read.status /\ Struck(read).sched = read.sched
        BY <1>1, <1>4, <2>1 DEF AgentRow
    <2> QED
        BY <1>2, <1>3, <2>2
<1> QED
    BY <1>5, <1>6

LEMMA SuccessInv ==
    ASSUME Inv, NEW r \in Runs, ReportSuccess(r) \/ ReportSkip(r)
    PROVE  Inv'
<1> DEFINE a == runs[r].agent
           read == work[r].read
           n == [tally[a] EXCEPT !.streak = 0]
<1>1. work[r].pc # "idle" /\ read \in AgentRow /\ a \in Agents /\ work[r].data \in Data \cup {NoData}
    BY Rows DEF Inv, ReportSuccess, ReportSkip
<1>2. PICK next \in Projections(read.sched) :
          agent' = [agent EXCEPT ![a] = Commit(read, Recovered(read, next), @)]
    BY DEF ReportSuccess, ReportSkip
<1>3. n \in [failed : Nat, streak : Nat] /\ n.failed = tally[a].failed /\ tally[a].failed <= n.failed
    BY <1>1, Rows DEF Inv
<1>4. tally' = [tally EXCEPT ![a] = n]
    BY <1>1 DEF ReportSuccess, ReportSkip, Inv, TypeOK
<1>5. Recovered(read, next) \in AgentRow /\ Within(Recovered(read, next), n.failed)
    <2>1. Within(read, tally[a].failed)
        BY <1>1 DEF Inv, Counted
    <2>2. Recovered(read, next) \in AgentRow /\ Recovered(read, next).failures = 0
          /\ Recovered(read, next).status = read.status
        BY <1>1, ReportRow
    <2> QED
        BY <1>1, <1>3, <2>1, <2>2, Rows DEF Inv, Within
<1>6. PICK row \in RunRow : row.agent = a /\ runs' = [runs EXCEPT ![r] = row]
    <2>1. runs[r] \in RunRow /\ [runs[r] EXCEPT !.hash = work[r].data] \in RunRow
          /\ [runs[r] EXCEPT !.hash = work[r].data].agent = a
        BY <1>1, Rows DEF Inv, RunRow
    <2>2. \/ Transition(r, "report_success", [runs[r] EXCEPT !.hash = work[r].data])
          \/ Transition(r, "report_skip", runs[r])
        BY DEF ReportSuccess, ReportSkip
    <2>3. CASE Transition(r, "report_skip", runs[r])
        BY <2>1, <2>3, TransitionRow
    <2>4. CASE Transition(r, "report_success", [runs[r] EXCEPT !.hash = work[r].data])
        <3> DEFINE fields == [runs[r] EXCEPT !.hash = work[r].data]
        <3>1. fields \in RunRow /\ fields.agent = a /\ Transition(r, "report_success", fields)
            BY <2>1, <2>4
        <3> HIDE DEF fields
        <3>2. PICK end \in {"succeeded", "failed", "skipped"} :
                  /\ runs' = [runs EXCEPT ![r] = [fields EXCEPT !.status = end]]
                  /\ [fields EXCEPT !.status = end] \in RunRow
                  /\ [fields EXCEPT !.status = end].agent = fields.agent
            BY <3>1, TransitionRow
        <3> QED
            BY <3>1, <3>2
    <2> QED
        BY <2>2, <2>3, <2>4
<1>7. widget' \in [Agents -> Data \cup {NoData}]
    BY <1>1 DEF ReportSuccess, ReportSkip, Inv, TypeOK
<1>8. work' = [work EXCEPT ![r] = NoWork] /\ UNCHANGED <<clock, queue, beat, edit, source>>
    BY DEF ReportSuccess, ReportSkip
<1> HIDE DEF n
<1> QED
    BY <1>1, <1>2, <1>3, <1>4, <1>5, <1>6, <1>7, <1>8, ReportInv

LEMMA FailureInv ==
    ASSUME Inv, NEW r \in Runs, ReportFailure(r)
    PROVE  Inv'
<1> DEFINE a == runs[r].agent
           read == work[r].read
           n == [failed |-> tally[a].failed + 1, streak |-> tally[a].streak + 1]
<1>1. work[r].pc # "idle" /\ read \in AgentRow /\ a \in Agents
    BY Rows DEF Inv, ReportFailure
<1>2. agent' = [agent EXCEPT ![a] = Commit(read, Struck(read), @)]
    BY DEF ReportFailure
<1>3. n \in [failed : Nat, streak : Nat] /\ n.failed = tally[a].failed + 1
      /\ tally[a].failed <= n.failed /\ tally[a].failed \in Nat
    BY <1>1, Rows DEF Inv
<1>4. tally' = [tally EXCEPT ![a] = n]
    BY <1>1, Rows DEF ReportFailure, Inv, TypeOK
<1>5. Struck(read) \in AgentRow /\ Within(Struck(read), n.failed)
    <2>1. Within(read, tally[a].failed)
        BY <1>1 DEF Inv, Counted
    <2>2. read.failures \in Nat /\ Budget \in Nat
        BY <1>1, BudgetAssumption DEF AgentRow
    <2> QED
        BY <1>1, <1>3, <2>1, <2>2, ReportRow DEF Within
<1>6. PICK row \in RunRow : row.agent = a /\ runs' = [runs EXCEPT ![r] = row]
    <2>1. runs[r] \in RunRow /\ Transition(r, "report_failure", runs[r])
        BY Rows DEF Inv, ReportFailure
    <2> QED
        BY <2>1, TransitionRow
<1>7. widget' \in [Agents -> Data \cup {NoData}] /\ work' = [work EXCEPT ![r] = NoWork]
      /\ UNCHANGED <<clock, queue, beat, edit, source>>
    BY DEF ReportFailure, Inv, TypeOK
<1> HIDE DEF n
<1> QED
    BY <1>1, <1>2, <1>3, <1>4, <1>5, <1>6, <1>7, ReportInv

-----------------------------------------------------------------------------
(* Requests and the world.                                                  *)

LEMMA CreateInv ==
    ASSUME Inv, NEW a \in Agents, NEW s \in Schedules, Create(a, s)
    PROVE  Inv'
<1> DEFINE row == [status |-> "active", failures |-> 0, next |-> Later(s), sched |-> s]
<1>1. row \in AgentRow /\ row.failures = 0 /\ row.status = "active"
    BY NextRuns DEF AgentRow
<1>2. agent' = [agent EXCEPT ![a] = row]
    BY DEF Create
<1>3. UNCHANGED <<runs, clock, queue, beat, work, edit, source, widget, tally>>
    BY DEF Create
<1> HIDE DEF row
<1>4. TypeOK'
    BY <1>1, <1>2, <1>3 DEF Inv, TypeOK
<1>5. Working'
    BY <1>3 DEF Inv, Working
<1>6. Counted'
    BY <1>1, <1>2, <1>3, Rows DEF Inv, TypeOK, Counted, Within
<1> QED
    BY <1>4, <1>5, <1>6 DEF Inv

LEMMA EditReadsInv ==
    ASSUME Inv, NEW e \in Edits, NEW a \in Agents, NEW kind \in Requests, NEW s \in Schedules,
           EditReads(e, a, kind, s)
    PROVE  Inv'
<1> DEFINE k == [kind |-> kind, agent |-> a, read |-> agent[a], sched |-> s]
<1>1. k \in EditState /\ k.agent = a /\ k.read = agent[a]
    BY Rows DEF Inv, EditState
<1>2. edit' = [edit EXCEPT ![e] = k]
    BY DEF EditReads
<1>3. UNCHANGED <<agent, runs, clock, queue, beat, work, source, widget, tally>>
    BY DEF EditReads
<1> HIDE DEF k
<1>4. TypeOK'
    BY <1>1, <1>2, <1>3 DEF Inv, TypeOK
<1>5. Working'
    BY <1>3 DEF Inv, Working
<1>6. Counted'
    BY <1>1, <1>2, <1>3 DEF Inv, TypeOK, Counted, Within
<1> QED
    BY <1>4, <1>5, <1>6 DEF Inv

(* What a request writes is covered by what it read and what is stored.     *)
LEMMA EditRowOK ==
    ASSUME TypeOK, NEW e \in Edits, edit[e].kind # "idle", NEW now \in AgentRow, NEW n \in Nat,
           Within(edit[e].read, n), Within(now, n)
    PROVE  EditRow(edit[e], now) \in AgentRow /\ Within(EditRow(edit[e], now), n)
<1> DEFINE k == edit[e]
<1>1. k.kind \in Requests /\ k.read \in AgentRow /\ k.sched \in Schedules
    BY Rows
<1>2. CASE k.kind = "revoke"
    <2>1. EditRow(k, now) = [now EXCEPT !.status = Column(k.read.status, "paused", now.status)]
        BY <1>2 DEF EditRow
    <2>2. Column(k.read.status, "paused", now.status) \in {"paused", now.status}
        BY DEF Column
    <2> QED
        BY <2>1, <2>2 DEF AgentRow, Within
<1>3. CASE k.kind # "revoke"
    <2>1. EditRow(k, now) = Commit(k.read, Assigned(k), now)
        BY <1>3 DEF EditRow
    <2>2. Assigned(k) \in AgentRow /\ Within(Assigned(k), n)
        <3>1. Now \in NextRun /\ NoNext \in NextRun /\ Later(k.sched) \in NextRun
            BY <1>1, NextRuns
        <3>2. CASE k.kind = "pause"
            <4>1. Assigned(k) = [k.read EXCEPT !.status = "paused", !.next = NoNext]
                BY <3>2 DEF Assigned
            <4> QED
                BY <1>1, <3>1, <4>1 DEF AgentRow, Within
        <3>3. CASE k.kind = "resume"
            <4>1. Assigned(k) = [k.read EXCEPT !.status = "active", !.failures = 0, !.next = Now]
                BY <3>3 DEF Assigned
            <4>2. ASSUME NEW row \in AgentRow
                  PROVE  LET new == [row EXCEPT !.status = "active", !.failures = 0, !.next = Now]
                         IN  new \in AgentRow /\ new.failures = 0 /\ new.status = "active"
                BY <3>1 DEF AgentRow
            <4>3. Assigned(k) \in AgentRow /\ Assigned(k).failures = 0
                  /\ Assigned(k).status = "active"
                BY <1>1, <4>1, <4>2
            <4> QED
                BY <4>3 DEF Within
        <3>4. CASE k.kind = "run_now"
            <4>1. PICK st \in {k.read.status, "active"} :
                      Assigned(k) = [k.read EXCEPT !.next = Now, !.status = st]
                BY <3>4 DEF Assigned
            <4> QED
                BY <1>1, <3>1, <4>1 DEF AgentRow, Within
        <3>5. CASE k.kind = "delete"
            <4>1. Assigned(k) = [k.read EXCEPT !.status = "ended", !.next = NoNext]
                BY <3>5 DEF Assigned
            <4> QED
                BY <1>1, <3>1, <4>1 DEF AgentRow, Within
        <3>6. CASE k.kind = "update"
            <4>1. Assigned(k) = [k.read EXCEPT !.sched = k.sched, !.next = Later(k.sched)]
                BY <3>6 DEF Assigned
            <4> QED
                BY <1>1, <3>1, <4>1 DEF AgentRow, Within
        <3> QED
            BY <1>1, <1>3, <3>2, <3>3, <3>4, <3>5, <3>6 DEF Requests
    <2> QED
        BY <1>1, <2>1, <2>2, CommitRow
<1> QED
    BY <1>2, <1>3

LEMMA EditCommitsInv ==
    ASSUME Inv, NEW e \in Edits, EditCommits(e)
    PROVE  Inv'
<1> DEFINE k == edit[e]
           a == k.agent
           new == EditRow(k, agent[a])
<1>1. k.kind # "idle" /\ a \in Agents /\ agent[a] \in AgentRow /\ tally[a].failed \in Nat
    BY Rows DEF Inv, EditCommits
<1>2. new \in AgentRow /\ Within(new, tally[a].failed)
    BY <1>1, EditRowOK DEF Inv, Counted
<1>3. agent' = [agent EXCEPT ![a] = new]
    BY DEF EditCommits
<1>4. edit' = [edit EXCEPT ![e] = NoEdit]
    BY DEF EditCommits
<1>5. NoEdit \in EditState /\ NoEdit.kind = "idle"
    BY DEF NoEdit, EditState
<1>6. tally' \in [Agents -> [failed : Nat, streak : Nat]]
      /\ \A x \in Agents : tally'[x].failed = tally[x].failed
    <2>1. CASE k.kind = "resume"
        <3> DEFINE n == [tally[a] EXCEPT !.streak = 0]
        <3>1. n \in [failed : Nat, streak : Nat] /\ n.failed = tally[a].failed
            BY <1>1, Rows DEF Inv
        <3>2. tally' = [tally EXCEPT ![a] = n]
            BY <1>1, <2>1 DEF EditCommits, Inv, TypeOK
        <3> HIDE DEF n
        <3> QED
            BY <1>1, <3>1, <3>2 DEF Inv, TypeOK
    <2>2. CASE k.kind # "resume"
        BY <2>2 DEF EditCommits, Inv, TypeOK
    <2> QED
        BY <2>1, <2>2
<1>7. UNCHANGED <<runs, clock, queue, beat, work, source, widget>>
    BY DEF EditCommits
<1> HIDE DEF new, k, a
<1>8. TypeOK'
    BY <1>1, <1>2, <1>3, <1>4, <1>5, <1>6, <1>7 DEF Inv, TypeOK
<1>9. Working'
    BY <1>7 DEF Inv, Working
<1>10. Counted'
    <2>1. ASSUME NEW x \in Agents PROVE Within(agent'[x], tally[x].failed)
        BY <1>1, <1>2, <1>3, <2>1 DEF Inv, TypeOK, Counted
    <2>2. ASSUME NEW r \in Runs, work[r].pc # "idle"
          PROVE  Within(work[r].read, tally[runs[r].agent].failed) /\ runs[r].agent \in Agents
        BY <2>2, Rows DEF Inv, Counted
    <2>3. ASSUME NEW f \in Edits, edit'[f].kind # "idle"
          PROVE  Within(edit'[f].read, tally[edit'[f].agent].failed) /\ edit'[f].agent \in Agents
        <3>1. edit'[f] = edit[f]
            BY <1>4, <1>5, <2>3 DEF Inv, TypeOK
        <3> QED
            BY <2>3, <3>1, Rows DEF Inv, Counted
    <2> QED
        BY <1>6, <1>7, <2>1, <2>2, <2>3 DEF Counted, Within
<1> QED
    BY <1>8, <1>9, <1>10 DEF Inv

LEMMA EditAbortsInv ==
    ASSUME Inv, NEW e \in Edits, EditAborts(e)
    PROVE  Inv'
<1>1. edit' = [edit EXCEPT ![e] = NoEdit] /\ NoEdit \in EditState /\ NoEdit.kind = "idle"
    BY DEF EditAborts, NoEdit, EditState
<1>2. UNCHANGED <<agent, runs, clock, queue, beat, work, source, widget, tally>>
    BY DEF EditAborts
<1>3. TypeOK'
    BY <1>1, <1>2 DEF Inv, TypeOK
<1>4. Working'
    BY <1>2 DEF Inv, Working
<1>5. Counted'
    BY <1>1, <1>2 DEF Inv, TypeOK, Counted, Within
<1> QED
    BY <1>3, <1>4, <1>5 DEF Inv

LEMMA WorldInv ==
    ASSUME Inv, NEW a \in Agents, TimePasses(a) \/ SourceChanges(a)
    PROVE  Inv'
<1>1. CASE TimePasses(a)
    <2> DEFINE next == [agent[a].next EXCEPT !.at = "due"]
               row == [agent[a] EXCEPT !.next = next]
    <2>1. agent[a] \in AgentRow /\ agent[a].next \in NextRun
        BY Rows DEF Inv, AgentRow
    <2>2. next \in NextRun
        BY <2>1 DEF NextRun
    <2>3. agent' = [agent EXCEPT ![a] = row]
        BY <1>1, <2>1 DEF TimePasses, Inv, TypeOK, AgentRow
    <2> HIDE DEF next
    <2>4. row \in AgentRow /\ row.failures = agent[a].failures /\ row.status = agent[a].status
        BY <2>1, <2>2 DEF AgentRow
    <2>5. UNCHANGED <<runs, clock, queue, beat, work, edit, source, widget, tally>>
        BY <1>1 DEF TimePasses
    <2> HIDE DEF row
    <2>6. TypeOK'
        BY <2>3, <2>4, <2>5 DEF Inv, TypeOK
    <2>7. Working'
        BY <2>5 DEF Inv, Working
    <2>8. Counted'
        BY <2>3, <2>4, <2>5 DEF Inv, TypeOK, Counted, Within
    <2> QED
        BY <2>6, <2>7, <2>8 DEF Inv
<1>2. CASE SourceChanges(a)
    <2>1. source' \in [Agents -> Data]
          /\ UNCHANGED <<agent, runs, clock, queue, beat, work, edit, widget, tally>>
        BY <1>2 DEF SourceChanges, Inv, TypeOK
    <2> QED
        BY <2>1 DEF Inv, TypeOK, Working, Counted, Within
<1> QED
    BY <1>1, <1>2

-----------------------------------------------------------------------------
(* The theorems.                                                            *)

LEMMA NextInv == Inv /\ [Next]_vars => Inv'
<1> SUFFICES ASSUME Inv, [Next]_vars PROVE Inv'
    OBVIOUS
<1>1. CASE Beat
    BY <1>1, BeatInv, EnqueueInv DEF Beat
<1>2. CASE \E r \in Runs : Execute(r)
    BY <1>2, ClaimInv, AskInv, SuccessInv, FailureInv DEF Execute
<1>3. CASE Owner
    BY <1>3, CreateInv, EditReadsInv, EditCommitsInv, EditAbortsInv DEF Owner
<1>4. CASE World
    BY <1>4, WorldInv DEF World
<1>5. CASE Deaths
    BY <1>5, BeatInv, DieInv DEF Deaths
<1>6. CASE UNCHANGED vars
    BY <1>6 DEF vars, Inv, TypeOK, Working, Counted, Within
<1> QED
    BY <1>1, <1>2, <1>3, <1>4, <1>5, <1>6 DEF Next, Steps

LEMMA Invariant == Spec => []Inv
<1> QED
    BY InitInv, NextInv, PTL DEF Spec

(* Every column, copy and message of the run service keeps its type.        *)
THEOREM TypeCorrect == Spec => []TypeOK
<1>1. Inv => TypeOK
    BY DEF Inv
<1> QED
    BY <1>1, Invariant, PTL

(* An agent in error has more failed runs than the backoff schedule has     *)
(* entries, whatever copies of its counter overlapping runs add one to.     *)
THEOREM ErrorAlwaysEarned == Spec => []ErrorIsEarned
<1>1. Inv => ErrorIsEarned
    BY DEF Inv, Counted, Within, ErrorIsEarned
<1> QED
    BY <1>1, Invariant, PTL

(* A row that keeps the status and schedule it was read with, or goes to    *)
(* error, leaves both alone where they changed meanwhile.                   *)
LEMMA CommitKeeps ==
    ASSUME NEW read, NEW to, NEW now,
           to.status \in {read.status, "error"}, to.sched = read.sched
    PROVE  /\ Commit(read, to, now).status \in {now.status, "error"}
           /\ Commit(read, to, now).sched = now.sched
BY DEF Commit, Column

(* A report changes the owner's status only to error, and no schedule.      *)
LEMMA ReportKeeps ==
    ASSUME TypeOK, NEW r \in Runs, ReportSuccess(r) \/ ReportSkip(r) \/ ReportFailure(r)
    PROVE  /\ agent'[runs[r].agent].status \in {agent[runs[r].agent].status, "error"}
           /\ agent'[runs[r].agent].sched = agent[runs[r].agent].sched
<1> DEFINE a == runs[r].agent
           read == work[r].read
<1>1. read \in AgentRow /\ a \in Agents
    BY Rows DEF ReportSuccess, ReportSkip, ReportFailure
<1>2. PICK to \in AgentRow : /\ agent' = [agent EXCEPT ![a] = Commit(read, to, @)]
                             /\ to.status \in {read.status, "error"} /\ to.sched = read.sched
    BY <1>1, ReportRow DEF ReportSuccess, ReportSkip, ReportFailure
<1>3. agent'[a] = Commit(read, to, agent[a])
    BY <1>1, <1>2 DEF TypeOK
<1> QED
    BY <1>2, <1>3, CommitKeeps

(* The outcome of a run never undoes a pause, a deletion or a new schedule  *)
(* of its agent, however long the run took.                                 *)
THEOREM ReportsKeepEdits == Spec => ReportKeepsEdits
<1> DEFINE Kept(r) ==
        work[r].pc \in {"compared", "failed"} /\ work'[r].pc = "idle" =>
            /\ agent[runs[r].agent].status \in {"paused", "ended"} =>
                   agent'[runs[r].agent].status # "active"
            /\ agent'[runs[r].agent].sched = agent[runs[r].agent].sched
<1>1. ASSUME TypeOK, [Next]_vars, NEW r \in Runs
      PROVE  Kept(r)
    <2> SUFFICES ASSUME work[r].pc \in {"compared", "failed"}, work'[r].pc = "idle"
                 PROVE  /\ agent[runs[r].agent].status \in {"paused", "ended"} =>
                               agent'[runs[r].agent].status # "active"
                        /\ agent'[runs[r].agent].sched = agent[runs[r].agent].sched
        OBVIOUS
    <2>1. work[r].pc # "idle" /\ runs[r].agent \in Agents
        BY <1>1, Rows
    <2>2. work'[r] # work[r]
        BY <2>1
    <2>3. ASSUME NEW q \in Runs, Execute(q) \/ WorkerDies(q), q # r PROVE FALSE
        <3>1. \E w : work' = [work EXCEPT ![q] = w]
            BY <1>1, <2>3 DEF Execute, Claim, AiAnswers, AiFails, Compare, ReportSuccess,
               ReportSkip, ReportFailure, WorkerDies, TypeOK
        <3> QED
            BY <1>1, <2>2, <2>3, <3>1 DEF TypeOK
    <2>4. CASE Execute(r) \/ WorkerDies(r)
        <3>1. CASE ReportSuccess(r) \/ ReportSkip(r) \/ ReportFailure(r)
            BY <1>1, <3>1, ReportKeeps
        <3>2. CASE WorkerDies(r)
            BY <3>2 DEF WorkerDies
        <3>3. CASE Claim(r) \/ AiAnswers(r) \/ AiFails(r) \/ Compare(r)
            BY <1>1, <3>3, <2>1 DEF Claim, AiAnswers, AiFails, Compare, TypeOK
        <3> QED
            BY <2>4, <3>1, <3>2, <3>3 DEF Execute
    <2>5. CASE Beat \/ Owner \/ World \/ BeatDies \/ UNCHANGED vars
        BY <2>2, <2>5 DEF Beat, BeatSelects, BeatEnqueues, Owner, Create, EditReads, EditCommits,
           EditAborts, World, TimePasses, SourceChanges, BeatDies, vars
    <2> QED
        BY <1>1, <2>3, <2>4, <2>5 DEF Next, Steps, Deaths
<1>2. TypeOK /\ [Next]_vars => [\A r \in Runs : Kept(r)]_vars
    BY <1>1
<1> QED
    BY <1>2, TypeCorrect, PTL DEF Spec, ReportKeepsEdits

(* A step that keeps or moves one run along the table is a step of the      *)
(* lifecycle.                                                               *)
LEMMA MoveRun ==
    ASSUME TypeOK, NEW r \in Runs, NEW row,
           runs' = [runs EXCEPT ![r] = row], <<runs[r].status, row.status>> \in Lifecycle!Edge
    PROVE  Lifecycle!Next
<1> DEFINE old == [q \in Runs |-> runs[q].status]
           new == [q \in Runs |-> runs'[q].status]
<1>1. new = [old EXCEPT ![r] = row.status]
    BY DEF TypeOK
<1>2. row.status \in Lifecycle!States /\ <<old[r], row.status>> \in Lifecycle!Edge
    BY DEF Lifecycle!Edge, Lifecycle!States, Lifecycle!Terminal
<1>3. Lifecycle!Move(r)
    BY <1>1, <1>2 DEF Lifecycle!Move
<1> QED
    BY <1>3 DEF Lifecycle!Next

(* The run rows that the beat and the workers write are a behaviour of the  *)
(* run state machine.                                                       *)
THEOREM RunsImplementLifecycle == Spec => RunsFollowLifecycle
<1>1. Init => Lifecycle!Init
    BY DEF Init, Lifecycle!Init
<1>2. TypeOK /\ [Next]_vars => [Lifecycle!Next]_([r \in Runs |-> runs[r].status])
    <2> SUFFICES ASSUME TypeOK, [Next]_vars
                 PROVE  Lifecycle!Next \/ runs' = runs
        OBVIOUS
    <2>1. ASSUME NEW a \in Agents, NEW r \in Runs, BeatEnqueues(a, r) PROVE Lifecycle!Next
        <3> DEFINE row == [runs[r] EXCEPT !.status = "queued", !.agent = a]
        <3>1. runs' = [runs EXCEPT ![r] = row] /\ runs[r].status = "none" /\ row.status = "queued"
            BY <2>1, Rows DEF BeatEnqueues, TypeOK, RunRow
        <3> HIDE DEF row
        <3> QED
            BY <3>1, MoveRun DEF Lifecycle!Edge
    <2>2. ASSUME NEW r \in Runs, NEW event, NEW fields \in RunRow, Transition(r, event, fields)
          PROVE  Lifecycle!Next
        <3>1. PICK t \in Transitions : /\ t[1] = runs[r].status
                                       /\ runs' = [runs EXCEPT ![r] = [fields EXCEPT !.status = t[3]]]
            BY <2>2 DEF Transition
        <3> DEFINE row == [fields EXCEPT !.status = t[3]]
        <3>2. runs' = [runs EXCEPT ![r] = row] /\ row.status = t[3]
            BY <3>1 DEF RunRow
        <3>3. <<t[1], t[3]>> \in Lifecycle!Edge
            BY DEF Transitions, Lifecycle!Edge, Lifecycle!Terminal
        <3> HIDE DEF row
        <3> QED
            BY <3>1, <3>2, <3>3, MoveRun
    <2>3. ASSUME NEW r \in Runs, Claim(r) PROVE Lifecycle!Next
        <3>1. [runs[r] EXCEPT !.claimed = clock + 1] \in RunRow
            <4>1. clock + 1 \in Nat /\ runs[r] \in RunRow
                BY Rows DEF TypeOK
            <4> QED
                BY <4>1 DEF RunRow
        <3> QED
            BY <2>2, <2>3, <3>1 DEF Claim
    <2>4. ASSUME NEW r \in Runs, ReportSuccess(r) PROVE Lifecycle!Next
        <3>1. [runs[r] EXCEPT !.hash = work[r].data] \in RunRow
            BY <2>4, Rows DEF ReportSuccess, RunRow
        <3> QED
            BY <2>2, <2>4, <3>1 DEF ReportSuccess
    <2>5. ASSUME NEW r \in Runs, ReportSkip(r) \/ ReportFailure(r) PROVE Lifecycle!Next
        BY <2>2, <2>5, Rows DEF ReportSkip, ReportFailure
    <2>6. CASE Beat
        BY <2>1, <2>6 DEF Beat, BeatSelects
    <2>7. CASE \E r \in Runs : Execute(r)
        BY <2>3, <2>4, <2>5, <2>7 DEF Execute, AiAnswers, AiFails, Compare
    <2>8. CASE Owner \/ World \/ Deaths \/ UNCHANGED vars
        BY <2>8 DEF Owner, Create, EditReads, EditCommits, EditAborts, World, TimePasses,
           SourceChanges, Deaths, BeatDies, WorkerDies, vars
    <2> QED
        BY <2>6, <2>7, <2>8 DEF Next, Steps
<1> QED
    BY <1>1, <1>2, TypeCorrect, PTL DEF Spec, RunsFollowLifecycle, Lifecycle!Spec
=============================================================================
