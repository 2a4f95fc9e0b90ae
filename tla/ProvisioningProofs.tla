--------------------------- MODULE ProvisioningProofs ---------------------------
(***************************************************************************)
(* For any slugs, jobs, requests in flight and bounds: the types, the      *)
(* references between rows, tasks and runs, and the invariants of a        *)
(* finished job, of the registry, of the events and of the custom domains,  *)
(* and the evidence behind a success and behind a teardown.                *)
(***************************************************************************)
EXTENDS Provisioning, SequenceTheorems, TLAPS

-----------------------------------------------------------------------------
(* Types and references.                                                    *)

(* Every run id that the database, a task or a reconcile pass holds is the  *)
(* id of a run that GitHub has: external_run_id never dangles.              *)
RunsLinked ==
    /\ \A j \in Jobs : jobs[j].run <= Len(runs) /\ worker[j].run <= Len(runs)
    /\ \A c \in Recs : rec[c].pc \in {"read", "answered", "wiping"} => rec[c].run \in 1..Len(runs)

TypeInv == TypeOK /\ RunsLinked

(* Initially nothing exists.                                                *)
LEMMA InitType == Init => TypeInv
<1> SUFFICES ASSUME Init PROVE TypeInv
    OBVIOUS
<1> USE PhasesAssumption, BoundsAssumption, NobodyAssumption
<1>1. runs \in Seq(Run) /\ Len(runs) = 0
    BY DEF Init
<1>2. TypeOK
    BY <1>1 DEF Init, TypeOK, NoTenant, Domains, NewJob, IdleTask, IdleHook, IdleRec, IdleOp, JobRow,
       TenantRow, TaskState, HookState, RecState, OpState, EventSet, Kinds, Status, NoRun
<1>3. RunsLinked
    BY <1>1 DEF Init, RunsLinked, NewJob, IdleTask, IdleRec, NoRun
<1> QED
    BY <1>2, <1>3 DEF TypeInv

(* The rows of the state, one by one.                                       *)
LEMMA Rows ==
    ASSUME TypeInv
    PROVE  /\ \A j \in Jobs : jobs[j] \in JobRow /\ worker[j] \in TaskState /\ events[j] \in EventSet
           /\ \A s \in Slugs : tenant[s] \in TenantRow
           /\ \A h \in Hooks : hook[h] \in HookState
           /\ \A c \in Recs : rec[c] \in RecState
           /\ \A o \in Ops : op[o] \in OpState
           /\ Len(runs) \in Nat /\ DOMAIN runs = 1..Len(runs)
           /\ \A r \in 1..Len(runs) : runs[r] \in Run
BY DEF TypeInv, TypeOK

(* Console requests and the tasks' bookkeeping.                             *)
LEMMA FlushType ==
    ASSUME TypeInv, NEW j \in Jobs, NEW s \in Slugs, NEW kind \in {"create", "destroy"},
           Flush(j, s, kind)
    PROVE  TypeInv'
<1>1. PICK pc \in {"queued", "none"} : worker' = [worker EXCEPT ![j].pc = pc]
    BY DEF Flush
<1> DEFINE row  == [jobs[j] EXCEPT !.row = "open", !.slug = s, !.kind = kind,
                                   !.target = tenant[s].by]
           task == [worker[j] EXCEPT !.pc = pc]
<1>2. row \in JobRow /\ row.run = jobs[j].run
  <2>1. jobs[j] \in JobRow /\ tenant[s].by \in Jobs \cup {Nobody} /\ kind \in Kinds
    BY Rows DEF TenantRow, Kinds
  <2> QED
    BY <2>1 DEF JobRow
<1>3. jobs' = [jobs EXCEPT ![j] = row]
    BY DEF Flush, TypeInv, TypeOK
<1>4. task \in TaskState /\ task.run = worker[j].run
    BY Rows DEF TaskState
<1>5. worker' = [worker EXCEPT ![j] = task]
    BY <1>1 DEF TypeInv, TypeOK
<1>6. UNCHANGED <<tenant, events, runs, net, hook, rec, op>>
    BY DEF Flush, ghVars
<1> HIDE DEF row, task
<1>7. TypeOK'
    BY <1>2, <1>3, <1>4, <1>5, <1>6 DEF TypeInv, TypeOK
<1>8. RunsLinked'
    BY <1>2, <1>3, <1>4, <1>5, <1>6 DEF TypeInv, TypeOK, RunsLinked
<1> QED
    BY <1>7, <1>8 DEF TypeInv

LEMMA CommitRequestType ==
    ASSUME TypeInv, NEW j \in Jobs, NEW d \in Asked, CommitRequest(j, d)
    PROVE  TypeInv'
<1> DEFINE row == [jobs[j] EXCEPT !.row = "live"]
           s == jobs[j].slug
           new == IF jobs[j].kind = "create" THEN [by |-> j, active |-> TRUE, domain |-> d]
                  ELSE [tenant[s] EXCEPT !.active = FALSE]
<1>1. row \in JobRow /\ row.run = jobs[j].run
    BY Rows DEF JobRow
<1>2. jobs' = [jobs EXCEPT ![j] = row]
    BY DEF CommitRequest, TypeInv, TypeOK
<1>3. tenant' = [tenant EXCEPT ![s] = new]
    BY DEF CommitRequest
<1>4. s \in Slugs => new \in TenantRow
    BY Rows DEF TenantRow, Asked, Domains
<1>5. UNCHANGED <<events, runs, net, worker, hook, rec, op>>
    BY DEF CommitRequest, ghVars
<1> HIDE DEF row, new, s
<1>6. TypeOK'
    BY <1>1, <1>2, <1>3, <1>4, <1>5 DEF TypeInv, TypeOK
<1>7. RunsLinked'
    BY <1>1, <1>2, <1>5 DEF TypeInv, TypeOK, RunsLinked
<1> QED
    BY <1>6, <1>7 DEF TypeInv

LEMMA RollbackRequestType ==
    ASSUME TypeInv, NEW j \in Jobs, RollbackRequest(j)
    PROVE  TypeInv'
<1> DEFINE row == [jobs[j] EXCEPT !.row = "wiped"]
<1>1. row \in JobRow /\ row.run = jobs[j].run
    BY Rows DEF JobRow
<1>2. jobs' = [jobs EXCEPT ![j] = row]
    BY DEF RollbackRequest, TypeInv, TypeOK
<1>3. UNCHANGED <<tenant, events, runs, net, worker, hook, rec, op>>
    BY DEF RollbackRequest, ghVars
<1> HIDE DEF row
<1>4. TypeOK'
    BY <1>1, <1>2, <1>3 DEF TypeInv, TypeOK
<1>5. RunsLinked'
    BY <1>1, <1>2, <1>3 DEF TypeInv, TypeOK, RunsLinked
<1> QED
    BY <1>4, <1>5 DEF TypeInv

LEMMA SetActiveType ==
    ASSUME TypeInv, NEW j \in Jobs, NEW s \in Slugs, NEW b \in BOOLEAN, SetActive(j, s, b)
    PROVE  TypeInv'
<1> DEFINE row == [jobs[j] EXCEPT !.row = "live", !.slug = s, !.status = "success",
                                  !.done = TRUE, !.kind = IF b THEN "resume" ELSE "suspend"]
           new == [tenant[s] EXCEPT !.active = b]
<1>1. row \in JobRow /\ row.run = jobs[j].run
    BY Rows DEF JobRow, Kinds, Status
<1>2. jobs' = [jobs EXCEPT ![j] = row]
    BY DEF SetActive
<1>3. new \in TenantRow
    BY Rows DEF TenantRow
<1>4. tenant' = [tenant EXCEPT ![s] = new]
    BY DEF SetActive, TypeInv, TypeOK
<1>5. UNCHANGED <<events, runs, net, worker, hook, rec, op>>
    BY DEF SetActive, ghVars
<1> HIDE DEF row, new
<1>6. TypeOK'
    BY <1>1, <1>2, <1>3, <1>4, <1>5 DEF TypeInv, TypeOK
<1>7. RunsLinked'
    BY <1>1, <1>2, <1>5 DEF TypeInv, TypeOK, RunsLinked
<1> QED
    BY <1>6, <1>7 DEF TypeInv

LEMMA UpdateTenantType ==
    ASSUME TypeInv, NEW s \in Slugs, UpdateTenant(s)
    PROVE  TypeInv'
<1>1. \A d \in Asked : [tenant[s] EXCEPT !.domain = d] \in TenantRow
    BY Rows DEF TenantRow, Asked, Domains
<1>2. [tenant[s] EXCEPT !.active = ~@] \in TenantRow
    BY Rows DEF TenantRow
<1>3. \/ \E d \in Asked : tenant' = [tenant EXCEPT ![s] = [tenant[s] EXCEPT !.domain = d]]
      \/ tenant' = [tenant EXCEPT ![s] = [tenant[s] EXCEPT !.active = ~@]]
    BY DEF UpdateTenant, TypeInv, TypeOK
<1>4. tenant' \in [Slugs -> TenantRow]
    BY <1>1, <1>2, <1>3 DEF TypeInv, TypeOK
<1>5. UNCHANGED <<jobs, events, runs, net, worker, hook, rec, op>>
    BY DEF UpdateTenant, ghVars
<1> QED
    BY <1>4, <1>5 DEF TypeInv, TypeOK, RunsLinked

-----------------------------------------------------------------------------
(* The dispatch task.                                                       *)

(* A step that changes nothing but the state of one task.                   *)
LEMMA PutTask ==
    ASSUME TypeInv, NEW j \in Jobs, NEW task \in TaskState, task.run <= Len(runs),
           worker' = [worker EXCEPT ![j] = task],
           UNCHANGED <<tenant, jobs, events, runs, net, hook, rec, op>>
    PROVE  TypeInv'
<1>1. TypeOK'
    BY DEF TypeInv, TypeOK
<1>2. RunsLinked'
    BY DEF TypeInv, TypeOK, RunsLinked
<1> QED
    BY <1>1, <1>2 DEF TypeInv

LEMMA IdleTaskType == TypeInv => IdleTask \in TaskState /\ IdleTask.run = 0 /\ IdleTask.run <= Len(runs)
BY Rows DEF IdleTask, TaskState, Status, NoRun

LEMMA TaskStartType ==
    ASSUME TypeInv, NEW j \in Jobs, TaskStart(j)
    PROVE  TypeInv'
<1> DEFINE task == IF Exists(j) THEN [worker[j] EXCEPT !.pc = "post", !.status = jobs[j].status]
                   ELSE IdleTask
<1>1. task \in TaskState /\ task.run <= Len(runs)
    BY Rows, IdleTaskType DEF TaskState, JobRow, TypeInv, RunsLinked
<1>2. worker' = [worker EXCEPT ![j] = task]
    BY DEF TaskStart, TypeInv, TypeOK
<1>3. UNCHANGED <<tenant, jobs, events, runs, net, hook, rec, op>>
    BY DEF TaskStart, dbVars, ghVars
<1> HIDE DEF task
<1> QED
    BY <1>1, <1>2, <1>3, PutTask

LEMMA TaskCrashType ==
    ASSUME TypeInv, NEW j \in Jobs, TaskCrash(j)
    PROVE  TypeInv'
<1>1. worker' = [worker EXCEPT ![j] = IdleTask]
    BY DEF TaskCrash
<1>2. UNCHANGED <<tenant, jobs, events, runs, net, hook, rec, op>>
    BY DEF TaskCrash, dbVars, ghVars
<1> QED
    BY <1>1, <1>2, IdleTaskType, PutTask

LEMMA LookupRunType ==
    ASSUME TypeInv, NEW j \in Jobs, LookupRun(j)
    PROVE  TypeInv'
<1>1. UNCHANGED <<tenant, jobs, events, runs, net, hook, rec, op>>
    BY DEF LookupRun, dbVars, ghVars
<1>2. ASSUME NEW r \in RunsOf(jobs[j].kind),
             worker' = [worker EXCEPT ![j].pc = "save", ![j].run = r]
      PROVE  TypeInv'
    <2> DEFINE task == [worker[j] EXCEPT !.pc = "save", !.run = r]
    <2>1. r \in 1..Len(runs)
        BY Rows DEF RunsOf
    <2>2. r \in Nat /\ r <= Len(runs)
        BY <2>1, Rows
    <2>3. task \in TaskState /\ task.run = r
        BY <2>2, Rows DEF TaskState
    <2>4. worker' = [worker EXCEPT ![j] = task]
        BY <1>2 DEF TypeInv, TypeOK
    <2> HIDE DEF task
    <2> QED
        BY <1>1, <2>2, <2>3, <2>4, PutTask
<1>3. ASSUME NEW pc \in {"save", "fail"}, worker' = [worker EXCEPT ![j].pc = pc]
      PROVE  TypeInv'
    <2> DEFINE task == [worker[j] EXCEPT !.pc = pc]
    <2>1. task \in TaskState /\ task.run <= Len(runs)
        BY Rows DEF TaskState, TypeInv, RunsLinked
    <2>2. worker' = [worker EXCEPT ![j] = task]
        BY <1>3 DEF TypeInv, TypeOK
    <2> HIDE DEF task
    <2> QED
        BY <1>1, <2>1, <2>2, PutTask
<1> QED
    BY <1>2, <1>3 DEF LookupRun

LEMMA DispatchType ==
    ASSUME TypeInv, NEW j \in Jobs, Dispatch(j)
    PROVE  TypeInv'
<1>1. PICK created \in BOOLEAN, ok \in BOOLEAN :
          /\ runs' = IF created THEN Append(runs, [kind |-> jobs[j].kind, job |-> j,
                                                   pos |-> 0, end |-> "running"])
                     ELSE runs
          /\ worker' = [worker EXCEPT ![j].pc = IF ok THEN "lookup" ELSE "fail"]
    BY DEF Dispatch
<1> DEFINE task == [worker[j] EXCEPT !.pc = IF ok THEN "lookup" ELSE "fail"]
           new == [kind |-> jobs[j].kind, job |-> j, pos |-> 0, end |-> "running"]
<1>2. task \in TaskState /\ task.run = worker[j].run
    BY Rows DEF TaskState
<1>3. worker' = [worker EXCEPT ![j] = task]
    BY <1>1 DEF TypeInv, TypeOK
<1>4. new \in Run
    BY Rows, PhasesAssumption DEF JobRow, Run
<1>5. runs' \in Seq(Run) /\ Len(runs') \in Nat /\ Len(runs') >= Len(runs)
    <2>1. runs' = Append(runs, new) \/ runs' = runs
        BY <1>1
    <2> HIDE DEF new
    <2>2. runs \in Seq(Run)
        BY DEF TypeInv, TypeOK
    <2> QED
        BY <1>4, <2>1, <2>2, AppendProperties
<1>6. UNCHANGED <<tenant, jobs, events, net, hook, rec, op>>
    BY DEF Dispatch, dbVars
<1> HIDE DEF task, new
<1>7. TypeOK'
    BY <1>2, <1>3, <1>5, <1>6 DEF TypeInv, TypeOK
<1>8. \A i \in Jobs : worker'[i].run = worker[i].run
    BY <1>2, <1>3 DEF TypeInv, TypeOK
<1>9. \A i \in Jobs : worker[i].run \in Nat /\ jobs[i].run \in Nat
    BY Rows DEF JobRow, TaskState
<1>10. \A c \in Recs : rec[c].pc \in {"read", "answered"} => rec[c].run \in Nat
    BY Rows DEF TypeInv, RunsLinked
<1>11. RunsLinked'
    BY <1>5, <1>6, <1>8, <1>9, <1>10, Rows DEF TypeInv, RunsLinked
<1> QED
    BY <1>7, <1>11 DEF TypeInv

(* Scheduling a reconcile task fills a free slot.                            *)
LEMMA ScheduleType ==
    ASSUME TypeInv, NEW j \in Jobs, Schedule(j)
    PROVE  /\ rec' \in [Recs -> RecState]
           /\ \A c \in Recs : rec'[c] = rec[c] \/ rec'[c].pc = "waiting"
<1>1. CASE UNCHANGED rec
    BY <1>1 DEF TypeInv, TypeOK
<1>2. ASSUME NEW c \in Recs,
             rec' = [rec EXCEPT ![c] = [pc |-> "waiting", job |-> j, status |-> "pending",
                                        run |-> NoRun, answer |-> "failure", tries |-> 0]]
      PROVE  /\ rec' \in [Recs -> RecState]
             /\ \A d \in Recs : rec'[d] = rec[d] \/ rec'[d].pc = "waiting"
    <2> DEFINE new == [pc |-> "waiting", job |-> j, status |-> "pending",
                       run |-> NoRun, answer |-> "failure", tries |-> 0]
    <2>1. new \in RecState /\ new.pc = "waiting"
        BY BoundsAssumption DEF RecState, Status, Conclusions, NoRun
    <2> HIDE DEF new
    <2>2. rec' = [rec EXCEPT ![c] = new]
        BY <1>2 DEF new
    <2> QED
        BY <2>1, <2>2 DEF TypeInv, TypeOK
<1> QED
    BY <1>1, <1>2 DEF Schedule

(* The task's commit writes a row of the right type, or queues the task again. *)
LEMMA TaskCommitType ==
    ASSUME TypeInv, NEW j \in Jobs, NEW row \in JobRow, row.run <= Len(runs),
           TaskCommit(j, row)
    PROVE  /\ jobs' \in [Jobs -> JobRow] /\ worker' \in [Jobs -> TaskState]
           /\ \A i \in Jobs : jobs'[i].run <= Len(runs) /\ worker'[i].run <= Len(runs)
<1> DEFINE again == [IdleTask EXCEPT !.pc = "queued"]
<1>1. again \in TaskState /\ again.run = 0
    BY DEF IdleTask, TaskState, Status, NoRun
<1>2. jobs' = [jobs EXCEPT ![j] = row] \/ jobs' = jobs
    BY DEF TaskCommit
<1>3. worker' = [worker EXCEPT ![j] = IdleTask] \/ worker' = [worker EXCEPT ![j] = again]
    BY DEF TaskCommit
<1> HIDE DEF again
<1> QED
    BY <1>1, <1>2, <1>3, Rows, IdleTaskType DEF TypeInv, TypeOK, RunsLinked

LEMMA SaveRunType ==
    ASSUME TypeInv, NEW j \in Jobs, SaveRun(j)
    PROVE  TypeInv'
<1> DEFINE read == worker[j].status
           assigned == IF read = "pending" THEN "running" ELSE read
           row == [jobs[j] EXCEPT !.status = Column(read, assigned, @),
                                  !.run = Column(NoRun, worker[j].run, @)]
<1>1. row \in JobRow /\ row.run <= Len(runs)
    <2>1. Column(read, assigned, jobs[j].status) \in Status
        BY Rows DEF Column, JobRow, TaskState, Status
    <2>2. /\ Column(NoRun, worker[j].run, jobs[j].run) \in Nat
          /\ Column(NoRun, worker[j].run, jobs[j].run) <= Len(runs)
        BY Rows DEF Column, JobRow, TaskState, TypeInv, RunsLinked
    <2> QED
        BY <2>1, <2>2, Rows DEF JobRow
<1>2. TaskCommit(j, row)
    BY DEF SaveRun
<1>3. Schedule(j) \/ UNCHANGED rec
    BY DEF SaveRun
<1>4. UNCHANGED <<tenant, events, runs, net, hook, op>>
    BY DEF SaveRun, ghVars
<1> HIDE DEF row
<1>5. /\ jobs' \in [Jobs -> JobRow] /\ worker' \in [Jobs -> TaskState]
      /\ \A i \in Jobs : jobs'[i].run <= Len(runs) /\ worker'[i].run <= Len(runs)
    BY <1>1, <1>2, TaskCommitType
<1>6. /\ rec' \in [Recs -> RecState]
      /\ \A c \in Recs : rec'[c] = rec[c] \/ rec'[c].pc = "waiting"
    BY <1>3, ScheduleType DEF TypeInv, TypeOK
<1>7. TypeOK'
    BY <1>4, <1>5, <1>6 DEF TypeInv, TypeOK
<1>8. RunsLinked'
    BY <1>4, <1>5, <1>6 DEF TypeInv, RunsLinked
<1> QED
    BY <1>7, <1>8 DEF TypeInv

LEMMA DispatchFailedType ==
    ASSUME TypeInv, NEW j \in Jobs, DispatchFailed(j)
    PROVE  TypeInv'
<1> DEFINE row == [jobs[j] EXCEPT !.status = Column(worker[j].status, "failed", @),
                                  !.done = TRUE]
<1>1. row \in JobRow /\ row.run <= Len(runs)
    <2>1. Column(worker[j].status, "failed", jobs[j].status) \in Status
        BY Rows DEF Column, JobRow, TaskState, Status
    <2> QED
        BY <2>1, Rows DEF JobRow, TypeInv, RunsLinked
<1>2. TaskCommit(j, row)
    BY DEF DispatchFailed
<1>3. UNCHANGED <<tenant, events, runs, net, hook, rec, op>>
    BY DEF DispatchFailed, ghVars
<1> HIDE DEF row
<1>4. /\ jobs' \in [Jobs -> JobRow] /\ worker' \in [Jobs -> TaskState]
      /\ \A i \in Jobs : jobs'[i].run <= Len(runs) /\ worker'[i].run <= Len(runs)
    BY <1>1, <1>2, TaskCommitType
<1>5. TypeOK'
    BY <1>3, <1>4 DEF TypeInv, TypeOK
<1>6. RunsLinked'
    BY <1>3, <1>4 DEF TypeInv, RunsLinked
<1> QED
    BY <1>5, <1>6 DEF TypeInv

-----------------------------------------------------------------------------
(* GitHub: runs are only ever added to and updated in place.                *)

LEMMA PutRun ==
    ASSUME TypeInv, NEW r \in 1..Len(runs), NEW run \in Run, NEW sent \in SUBSET Webhook,
           runs' = [runs EXCEPT ![r] = run], net' = net \cup sent,
           UNCHANGED <<tenant, jobs, events, worker, hook, rec>>, op' \in [Ops -> OpState]
    PROVE  TypeInv'
<1>1. runs \in Seq(Run)
    BY DEF TypeInv, TypeOK
<1>2. runs' \in Seq(Run) /\ Len(runs') = Len(runs)
    BY <1>1, ExceptSeq
<1>3. TypeOK'
    BY <1>2 DEF TypeInv, TypeOK
<1>4. RunsLinked'
    BY <1>2 DEF TypeInv, RunsLinked
<1> QED
    BY <1>3, <1>4 DEF TypeInv

LEMMA SendType ==
    ASSUME TypeInv, NEW r \in 1..Len(runs), runs[r].pos < NumPhases,
           NEW status \in EventStatus, Send(r, runs[r].pos + 1, status)
    PROVE  \E sent \in SUBSET Webhook : net' = net \cup sent
<1>1. [job |-> runs[r].job, phase |-> runs[r].pos + 1, status |-> status] \in Webhook
    BY Rows, PhasesAssumption DEF Run, Webhook, Phase
<1> QED
    BY <1>1 DEF Send

LEMMA GitHubType ==
    ASSUME TypeInv, NEW r \in 1..MaxRuns, GitHub(r)
    PROVE  TypeInv'
<1>1. r \in 1..Len(runs)
    BY Rows DEF GitHub, PhaseStarts, PhaseSucceeds, PhaseFails, RunCompletes, Running
<1>2. runs[r] \in Run /\ op \in [Ops -> OpState]
    BY <1>1, Rows DEF TypeInv, TypeOK
<1>3. CASE PhaseStarts(r)
    <2>1. UNCHANGED <<tenant, jobs, events, runs, worker, hook, rec, op>>
        BY <1>3 DEF PhaseStarts, dbVars
    <2>2. \E sent \in SUBSET Webhook : net' = net \cup sent
        BY <1>1, <1>3, SendType DEF PhaseStarts, EventStatus
    <2>3. TypeOK'
        BY <2>1, <2>2 DEF TypeInv, TypeOK
    <2> QED
        BY <2>1, <2>3 DEF TypeInv, RunsLinked
<1>4. CASE PhaseSucceeds(r)
    <2> DEFINE run == [runs[r] EXCEPT !.pos = @ + 1]
    <2>1. run \in Run
        BY <1>2, <1>4, PhasesAssumption DEF Run, PhaseSucceeds
    <2>2. runs' = [runs EXCEPT ![r] = run]
        BY <1>4 DEF PhaseSucceeds, TypeInv, TypeOK
    <2>3. \E sent \in SUBSET Webhook : net' = net \cup sent
        BY <1>1, <1>4, SendType DEF PhaseSucceeds, EventStatus
    <2>4. UNCHANGED <<tenant, jobs, events, worker, hook, rec, op>>
        BY <1>4 DEF PhaseSucceeds, dbVars
    <2> HIDE DEF run
    <2> QED
        BY <1>1, <1>2, <2>1, <2>2, <2>3, <2>4, PutRun
<1>5. CASE PhaseFails(r)
    <2> DEFINE run == [runs[r] EXCEPT !.end = "failure"]
    <2>1. run \in Run
        BY <1>2 DEF Run, Conclusions
    <2>2. runs' = [runs EXCEPT ![r] = run]
        BY <1>5 DEF PhaseFails, TypeInv, TypeOK
    <2>3. \E sent \in SUBSET Webhook : net' = net \cup sent
        BY <1>1, <1>5, SendType DEF PhaseFails, EventStatus
    <2>4. UNCHANGED <<tenant, jobs, events, worker, hook, rec, op>>
        BY <1>5 DEF PhaseFails, dbVars
    <2> HIDE DEF run
    <2> QED
        BY <1>1, <1>2, <2>1, <2>2, <2>3, <2>4, PutRun
<1>6. CASE RunCompletes(r)
    <2>1. PICK c \in Conclusions : runs' = [runs EXCEPT ![r].end = c]
        BY <1>6 DEF RunCompletes
    <2> DEFINE run == [runs[r] EXCEPT !.end = c]
    <2>2. run \in Run
        BY <1>2 DEF Run
    <2>3. runs' = [runs EXCEPT ![r] = run]
        BY <2>1 DEF TypeInv, TypeOK
    <2>4. UNCHANGED <<tenant, jobs, events, net, worker, hook, rec, op>>
        BY <1>6 DEF RunCompletes, dbVars
    <2>5. {} \in SUBSET Webhook /\ net' = net \cup {}
        BY <2>4
    <2> HIDE DEF run
    <2> QED
        BY <1>1, <1>2, <2>2, <2>3, <2>4, <2>5, PutRun
<1> QED
    BY <1>3, <1>4, <1>5, <1>6 DEF GitHub

-----------------------------------------------------------------------------
(* Webhooks, reconcile passes and operators.                                *)

(* The teardown's two DELETEs keep every row's type and change no run id but *)
(* that of the finished job's row.                                           *)
LEMMA WipeType ==
    ASSUME TypeInv, NEW j \in Jobs, NEW row \in JobRow, row.run <= Len(runs), Wipe(j, row)
    PROVE  jobs' \in [Jobs -> JobRow] /\ \A i \in Jobs : jobs'[i].run <= Len(runs)
<1>1. \A i \in Jobs : [jobs[i] EXCEPT !.row = "wiped"] \in JobRow
                      /\ [jobs[i] EXCEPT !.row = "wiped"].run = jobs[i].run
    BY Rows DEF JobRow
<1>2. \A i \in Jobs : jobs'[i] \in {row, jobs[i], [jobs[i] EXCEPT !.row = "wiped"]}
    BY DEF Wipe
<1>3. \A i \in Jobs : jobs'[i] \in JobRow /\ jobs'[i].run <= Len(runs)
    BY <1>1, <1>2, Rows DEF TypeInv, RunsLinked
<1>4. jobs' = [i \in Jobs |-> jobs'[i]]
    BY DEF Wipe
<1> QED
    BY <1>3, <1>4

LEMMA TeardownType ==
    ASSUME TypeInv, NEW j \in Jobs, NEW row \in JobRow, row.run <= Len(runs),
           Teardown(j, row)
    PROVE  /\ tenant' \in [Slugs -> TenantRow] /\ jobs' \in [Jobs -> JobRow]
           /\ \A i \in Jobs : jobs'[i].run <= Len(runs)
<1>1. NoTenant \in TenantRow
    BY DEF NoTenant, TenantRow, Domains
<1>2. tenant' \in [Slugs -> TenantRow]
    BY <1>1 DEF Teardown, TypeInv, TypeOK
<1> QED
    BY <1>2, WipeType DEF Teardown

LEMMA EventsAfterType ==
    ASSUME TypeInv, NEW j \in Jobs, NEW new \in EventSet, EventsAfter(j, new)
    PROVE  events' \in [Jobs -> EventSet]
<1>1. \A i \in Jobs : {} \in EventSet /\ events[i] \in EventSet /\ events[i] \cup new \in EventSet
    BY Rows DEF EventSet
<1> QED
    BY <1>1 DEF EventsAfter

(* What the Jobs API shows of a run are events of that run's phases.        *)
LEMMA SynthesizedType ==
    ASSUME TypeInv, NEW r \in 1..Len(runs)
    PROVE  Synthesized(r) \in EventSet
<1>1. runs[r] \in Run
    BY Rows
<1>2. runs[r].pos \in 0..NumPhases
    BY <1>1 DEF Run
<1>3. \A p \in 1..runs[r].pos : p \in Phase
    BY <1>2, PhasesAssumption DEF Phase
<1>4. runs[r].pos # NumPhases => runs[r].pos + 1 \in Phase
    BY <1>2, PhasesAssumption DEF Phase
<1>5. \A p \in (runs[r].pos + 2)..NumPhases : p \in Phase
    BY <1>2, PhasesAssumption DEF Phase
<1> QED
    BY <1>3, <1>4, <1>5 DEF Synthesized, EventSet, EventStatus

LEMMA WebhookArrivesType ==
    ASSUME TypeInv, NEW h \in Hooks, NEW m \in net, WebhookArrives(h, m)
    PROVE  TypeInv'
<1> DEFINE new == [pc |-> "read", job |-> m.job, phase |-> m.phase, event |-> m.status,
                   status |-> jobs[m.job].status, at |-> jobs[m.job].phase]
<1>1. m \in Webhook
    BY DEF TypeInv, TypeOK
<1>2. new \in HookState
    BY <1>1, Rows DEF Webhook, HookState, JobRow
<1>3. hook' = [hook EXCEPT ![h] = new]
    BY DEF WebhookArrives
<1>4. UNCHANGED <<tenant, jobs, events, runs, net, worker, rec, op>>
    BY DEF WebhookArrives, dbVars, ghVars
<1> HIDE DEF new
<1>5. TypeOK'
    BY <1>2, <1>3, <1>4 DEF TypeInv, TypeOK
<1> QED
    BY <1>4, <1>5 DEF TypeInv, RunsLinked

LEMMA WebhookAbortsType ==
    ASSUME TypeInv, NEW h \in Hooks, WebhookAborts(h)
    PROVE  TypeInv'
<1>1. UNCHANGED <<tenant, jobs, events, runs, net, worker, rec, op>>
    BY DEF WebhookAborts, dbVars, ghVars
<1>2. IdleHook \in HookState /\ hook' = [hook EXCEPT ![h] = IdleHook]
    BY DEF WebhookAborts, HookState
<1>3. TypeOK'
    BY <1>1, <1>2 DEF TypeInv, TypeOK
<1> QED
    BY <1>1, <1>3 DEF TypeInv, RunsLinked

(* A webhook in flight has a job, and what it assigns is a row.             *)
LEMMA HookRowType ==
    ASSUME TypeInv, NEW h \in Hooks, hook[h].pc # "idle"
    PROVE  /\ hook[h].job \in Jobs /\ hook[h].phase \in Phase /\ hook[h].event \in EventStatus
           /\ HookRow(hook[h]) \in JobRow
           /\ HookRow(hook[h]).run = jobs[hook[h].job].run
           /\ HookRow(hook[h]).slug = jobs[hook[h].job].slug
<1> DEFINE k == hook[h]
<1>1. /\ k.job \in Jobs /\ k.phase \in Phase /\ k.event \in EventStatus
      /\ k.status \in Status /\ k.at \in 0..NumPhases
    BY Rows DEF HookState, IdleHook
<1>2. StatusAfter(k) \in Status /\ NextPhase(k) \in 0..NumPhases
    BY <1>1, PhasesAssumption DEF StatusAfter, NextPhase, Status, Phase
<1>3. jobs[k.job] \in JobRow
    BY <1>1, Rows
<1>4. /\ Column(k.status, StatusAfter(k), jobs[k.job].status) \in Status
      /\ Column(k.at, NextPhase(k), jobs[k.job].phase) \in 0..NumPhases
    BY <1>2, <1>3 DEF Column, JobRow
<1>5. (jobs[k.job].done \/ Ends(k)) \in BOOLEAN
    BY <1>3 DEF JobRow, Ends
<1> QED
    BY <1>1, <1>3, <1>4, <1>5 DEF HookRow, JobRow

LEMMA WebhookCommitsType ==
    ASSUME TypeInv, NEW h \in Hooks, WebhookCommits(h)
    PROVE  TypeInv'
<1> DEFINE k == hook[h]
           row == HookRow(k)
           linked == \A i \in Jobs : jobs'[i].run <= Len(runs)
<1>1. k.pc = "read"
    BY DEF WebhookCommits
<1>2. /\ k.job \in Jobs /\ k.phase \in Phase /\ k.event \in EventStatus
      /\ row \in JobRow /\ row.run <= Len(runs)
    BY <1>1, HookRowType DEF TypeInv, RunsLinked
<1>3. ASSUME jobs' = [jobs EXCEPT ![k.job] = row]
      PROVE  jobs' \in [Jobs -> JobRow] /\ linked
    BY <1>2, <1>3 DEF TypeInv, TypeOK, RunsLinked
<1>4. ASSUME tenant' = [tenant EXCEPT ![row.slug].domain = "reported"] \/ UNCHANGED tenant
      PROVE  tenant' \in [Slugs -> TenantRow]
    <2>1. \A s \in Slugs : [tenant[s] EXCEPT !.domain = "reported"] \in TenantRow
        BY Rows DEF TenantRow, Domains
    <2> QED
        BY <1>4, <2>1 DEF TypeInv, TypeOK
<1>5. tenant' \in [Slugs -> TenantRow] /\ jobs' \in [Jobs -> JobRow] /\ linked
    <2>1. \/ Teardown(k.job, row)
          \/ /\ jobs' = [jobs EXCEPT ![k.job] = row]
             /\ tenant' = [tenant EXCEPT ![row.slug].domain = "reported"] \/ UNCHANGED tenant
        BY DEF WebhookCommits
    <2>2. CASE Teardown(k.job, row)
        BY <1>2, <2>2, TeardownType
    <2> QED
        BY <1>3, <1>4, <2>1, <2>2
<1>6. EventsAfter(k.job, {<<k.phase, k.event>>})
    BY DEF WebhookCommits
<1>7. events' \in [Jobs -> EventSet]
    BY <1>2, <1>6, EventsAfterType DEF EventSet
<1>8. IdleHook \in HookState /\ hook' = [hook EXCEPT ![h] = IdleHook]
    BY DEF WebhookCommits, HookState
<1>9. UNCHANGED <<runs, net, worker, rec, op>>
    BY DEF WebhookCommits, ghVars
<1> HIDE DEF row, k
<1>10. TypeOK'
    BY <1>5, <1>7, <1>8, <1>9 DEF TypeInv, TypeOK
<1> QED
    BY <1>5, <1>9, <1>10 DEF TypeInv, RunsLinked

(* The first DELETE that finds no row, and the second after it.             *)
LEMMA WebhookFindsType ==
    ASSUME TypeInv, NEW h \in Hooks, WebhookFindsNoRow(h)
    PROVE  TypeInv'
<1> DEFINE new == [hook[h] EXCEPT !.pc = "wiping"]
<1>1. new \in HookState
    BY Rows DEF WebhookFindsNoRow, HookState, IdleHook
<1>2. hook' = [hook EXCEPT ![h] = new]
    BY DEF WebhookFindsNoRow, TypeInv, TypeOK
<1>3. UNCHANGED <<tenant, jobs, events, runs, net, worker, rec, op>>
    BY DEF WebhookFindsNoRow, dbVars, ghVars
<1> HIDE DEF new
<1>4. TypeOK'
    BY <1>1, <1>2, <1>3 DEF TypeInv, TypeOK
<1> QED
    BY <1>3, <1>4 DEF TypeInv, RunsLinked

LEMMA WebhookWipesType ==
    ASSUME TypeInv, NEW h \in Hooks, WebhookWipes(h)
    PROVE  TypeInv'
<1> DEFINE k == hook[h]
           row == HookRow(k)
<1>1. /\ k.job \in Jobs /\ {<<k.phase, k.event>>} \in EventSet
      /\ row \in JobRow /\ row.run <= Len(runs)
    BY HookRowType DEF WebhookWipes, TypeInv, RunsLinked, EventSet
<1>2. Wipe(k.job, row) /\ EventsAfter(k.job, {<<k.phase, k.event>>})
    BY DEF WebhookWipes
<1>3. /\ IdleHook \in HookState /\ hook' = [hook EXCEPT ![h] = IdleHook]
      /\ UNCHANGED <<tenant, runs, net, worker, rec, op>>
    BY DEF WebhookWipes, HookState, ghVars
<1> HIDE DEF row, k
<1>4. jobs' \in [Jobs -> JobRow] /\ \A i \in Jobs : jobs'[i].run <= Len(runs)
    BY <1>1, <1>2, WipeType
<1>5. events' \in [Jobs -> EventSet]
    BY <1>1, <1>2, EventsAfterType
<1>6. TypeOK'
    BY <1>3, <1>4, <1>5 DEF TypeInv, TypeOK
<1> QED
    BY <1>3, <1>4, <1>6 DEF TypeInv, RunsLinked

(* Reconcile tasks.                                                         *)
LEMMA PutRec ==
    ASSUME TypeInv, NEW c \in Recs, NEW new \in RecState,
           new.pc \in {"read", "answered", "wiping"} => new.run \in 1..Len(runs),
           rec' = [rec EXCEPT ![c] = new], events' \in [Jobs -> EventSet],
           UNCHANGED <<tenant, jobs, runs, net, worker, hook, op>>
    PROVE  TypeInv'
<1>1. TypeOK'
    BY DEF TypeInv, TypeOK
<1>2. RunsLinked'
    BY DEF TypeInv, TypeOK, RunsLinked
<1> QED
    BY <1>1, <1>2 DEF TypeInv

LEMMA IdleRecType == IdleRec \in RecState /\ IdleRec.pc = "free"
BY DEF IdleRec, RecState

(* A task that is not idle has a job and its snapshot of it.                *)
LEMMA BusyRec ==
    ASSUME TypeInv, NEW c \in Recs, rec[c].pc # "free"
    PROVE  rec[c] \in [pc : {"waiting", "read", "answered", "wiping", "exhausted"}, job : Jobs,
                       status : Status, run : Nat, answer : Conclusions, tries : 0..MaxAttempts]
BY Rows DEF RecState, IdleRec

LEMMA RetryType ==
    ASSUME TypeInv, NEW c \in Recs, rec[c].pc # "free", Retry(c),
           events' \in [Jobs -> EventSet],
           UNCHANGED <<tenant, jobs, runs, net, worker, hook, op>>
    PROVE  TypeInv'
<1>1. CASE rec[c].tries < MaxAttempts
    <2> DEFINE new == [rec[c] EXCEPT !.pc = "waiting", !.tries = @ + 1]
    <2>1. rec[c].tries + 1 \in 0..MaxAttempts
        BY <1>1, BusyRec, BoundsAssumption
    <2>2. new \in RecState /\ new.pc = "waiting"
        BY <2>1, BusyRec DEF RecState
    <2>3. rec' = [rec EXCEPT ![c] = IF rec[c].tries < MaxAttempts THEN new
                                    ELSE [rec[c] EXCEPT !.pc = "exhausted"]]
        BY Zenon DEF Retry
    <2>4. rec' = [rec EXCEPT ![c] = new]
        BY <1>1, <2>3, Zenon
    <2> HIDE DEF new
    <2> QED
        BY <2>2, <2>4, PutRec
<1>2. CASE ~(rec[c].tries < MaxAttempts)
    <2> DEFINE new == [rec[c] EXCEPT !.pc = "exhausted"]
    <2>1. new \in RecState /\ new.pc = "exhausted"
        BY BusyRec DEF RecState
    <2>2. rec' = [rec EXCEPT ![c] = new]
        BY <1>2 DEF Retry, TypeInv, TypeOK
    <2> HIDE DEF new
    <2> QED
        BY <2>1, <2>2, PutRec
<1> QED
    BY <1>1, <1>2

LEMMA ReconcileStartType ==
    ASSUME TypeInv, NEW c \in Recs, ReconcileStart(c)
    PROVE  TypeInv'
<1> DEFINE j == rec[c].job
           new == [rec[c] EXCEPT !.pc = "read", !.status = jobs[j].status, !.run = jobs[j].run]
<1>1. rec[c].pc = "waiting"
    BY DEF ReconcileStart
<1>2. /\ UNCHANGED <<tenant, jobs, runs, net, worker, hook, op>>
      /\ events' \in [Jobs -> EventSet]
    BY DEF ReconcileStart, dbVars, ghVars, TypeInv, TypeOK
<1>3. j \in Jobs /\ jobs[j] \in JobRow /\ jobs[j].run \in 0..Len(runs)
    BY <1>1, BusyRec, Rows DEF JobRow, TypeInv, RunsLinked
<1>4. CASE rec' = [rec EXCEPT ![c] = IdleRec]
    BY <1>2, <1>4, IdleRecType, PutRec
<1>5. CASE Retry(c)
    BY <1>1, <1>2, <1>5, RetryType
<1>6. CASE /\ jobs[j].run # NoRun
           /\ rec' = [rec EXCEPT ![c].pc = "read", ![c].status = jobs[j].status,
                                 ![c].run = jobs[j].run]
    <2>1. new \in RecState /\ new.run = jobs[j].run
        BY <1>1, <1>3, BusyRec DEF RecState, JobRow
    <2>2. rec' = [rec EXCEPT ![c] = new]
        BY <1>6 DEF TypeInv, TypeOK
    <2>3. new.run \in 1..Len(runs)
        BY <1>3, <1>6, <2>1, Rows DEF NoRun
    <2> HIDE DEF new
    <2> QED
        BY <1>2, <2>1, <2>2, <2>3, PutRec
<1> QED
    BY <1>4, <1>5, <1>6 DEF ReconcileStart

LEMMA PollRetryType ==
    ASSUME TypeInv, NEW c \in Recs, PollRetry(c)
    PROVE  TypeInv'
<1>1. rec[c].pc = "read" /\ Retry(c)
    BY DEF PollRetry
<1>2. rec[c].run \in 1..Len(runs)
    BY <1>1 DEF TypeInv, RunsLinked
<1>3. events' \in [Jobs -> EventSet]
    <2>1. \A S \in EventSet : S \cup Synthesized(rec[c].run) \in EventSet
        BY <1>2, SynthesizedType DEF EventSet
    <2>2. \/ events' = events
          \/ events' = [events EXCEPT ![rec[c].job] = @ \cup Synthesized(rec[c].run)]
        BY DEF PollRetry
    <2> QED
        BY <2>1, <2>2, Rows DEF TypeInv, TypeOK
<1>4. UNCHANGED <<tenant, jobs, runs, net, worker, hook, op>>
    BY DEF PollRetry, ghVars
<1> QED
    BY <1>1, <1>3, <1>4, RetryType

LEMMA PollAnswersType ==
    ASSUME TypeInv, NEW c \in Recs, PollAnswers(c)
    PROVE  TypeInv'
<1> DEFINE answer == runs[rec[c].run].end
           new == [rec[c] EXCEPT !.pc = "answered", !.answer = answer]
<1>1. rec[c].pc = "read" /\ answer \in {"success", "failure"}
    BY DEF PollAnswers
<1>2. rec[c].run \in 1..Len(runs)
    BY <1>1 DEF TypeInv, RunsLinked
<1>3. new \in RecState /\ new.run = rec[c].run
    <2> HIDE DEF answer
    <2> QED
        BY <1>1, BusyRec DEF RecState, Conclusions
<1>4. rec' = [rec EXCEPT ![c] = new]
    BY DEF PollAnswers, TypeInv, TypeOK
<1>5. /\ UNCHANGED <<tenant, jobs, runs, net, worker, hook, op>>
      /\ events' \in [Jobs -> EventSet]
    BY DEF PollAnswers, dbVars, ghVars, TypeInv, TypeOK
<1> HIDE DEF new
<1> QED
    BY <1>2, <1>3, <1>4, <1>5, PutRec

LEMMA RecRowType ==
    ASSUME TypeInv, NEW c \in Recs, rec[c].pc \in {"answered", "wiping"}
    PROVE  /\ rec[c].job \in Jobs /\ rec[c].run \in 1..Len(runs)
           /\ RecRow(rec[c]) \in JobRow /\ RecRow(rec[c]).run <= Len(runs)
           /\ RecRow(rec[c]).slug = jobs[rec[c].job].slug
<1> DEFINE k == rec[c]
<1>1. k.job \in Jobs /\ k.status \in Status /\ k.run \in 1..Len(runs)
    BY BusyRec DEF TypeInv, RunsLinked
<1>2. Column(k.status, Verdict(k), jobs[k.job].status) \in Status
    BY <1>1, Rows DEF Column, Verdict, JobRow, Status
<1>3. jobs[k.job] \in JobRow /\ jobs[k.job].run <= Len(runs)
    BY <1>1, Rows DEF TypeInv, RunsLinked
<1> HIDE DEF k
<1>4. /\ RecRow(k) \in JobRow /\ RecRow(k).run <= Len(runs)
      /\ RecRow(k).slug = jobs[k.job].slug
    BY <1>2, <1>3 DEF RecRow, JobRow
<1> QED
    BY <1>1, <1>4 DEF k

LEMMA ReconcileCommitsType ==
    ASSUME TypeInv, NEW c \in Recs, ReconcileCommits(c) \/ ReconcileWipes(c)
    PROVE  TypeInv'
<1> DEFINE k == rec[c]
           row == RecRow(k)
<1>1. /\ k.job \in Jobs /\ k.run \in 1..Len(runs)
      /\ row \in JobRow /\ row.run <= Len(runs)
    BY RecRowType DEF ReconcileCommits, ReconcileWipes
<1>2. \/ Teardown(k.job, row)
      \/ Wipe(k.job, row) /\ UNCHANGED tenant
      \/ jobs' = [jobs EXCEPT ![k.job] = row] /\ UNCHANGED tenant
    BY DEF ReconcileCommits, ReconcileWipes
<1>3. PICK seen \in {{}, Synthesized(k.run)} : EventsAfter(k.job, seen)
    BY DEF ReconcileCommits, ReconcileWipes
<1>4. rec' = [rec EXCEPT ![c] = IdleRec] /\ UNCHANGED <<runs, net, worker, hook, op>>
    BY DEF ReconcileCommits, ReconcileWipes, ghVars
<1> HIDE DEF row, k
<1>5. /\ tenant' \in [Slugs -> TenantRow] /\ jobs' \in [Jobs -> JobRow]
      /\ \A i \in Jobs : jobs'[i].run <= Len(runs)
    <2>1. CASE Teardown(k.job, row)
        BY <1>1, <2>1, TeardownType
    <2>2. CASE Wipe(k.job, row) /\ UNCHANGED tenant
        BY <1>1, <2>2, WipeType DEF TypeInv, TypeOK
    <2>3. CASE jobs' = [jobs EXCEPT ![k.job] = row] /\ UNCHANGED tenant
        BY <1>1, <2>3 DEF TypeInv, TypeOK, RunsLinked
    <2> QED
        BY <1>2, <2>1, <2>2, <2>3
<1>6. events' \in [Jobs -> EventSet]
    <2>1. seen \in EventSet
        BY <1>1, SynthesizedType DEF EventSet
    <2> QED
        BY <1>1, <1>3, <2>1, EventsAfterType
<1>7. TypeOK'
    BY <1>4, <1>5, <1>6, IdleRecType DEF TypeInv, TypeOK
<1>8. RunsLinked'
    BY <1>4, <1>5, IdleRecType DEF TypeInv, TypeOK, RunsLinked
<1> QED
    BY <1>7, <1>8 DEF TypeInv

LEMMA ReconcileFindsType ==
    ASSUME TypeInv, NEW c \in Recs, ReconcileFindsNoRow(c)
    PROVE  TypeInv'
<1> DEFINE new == [rec[c] EXCEPT !.pc = "wiping"]
<1>1. rec[c].pc = "answered"
    BY DEF ReconcileFindsNoRow
<1>2. new \in RecState /\ new.run = rec[c].run /\ rec[c].run \in 1..Len(runs)
    BY <1>1, BusyRec DEF RecState, TypeInv, RunsLinked
<1>3. rec' = [rec EXCEPT ![c] = new]
    BY DEF ReconcileFindsNoRow, TypeInv, TypeOK
<1>4. /\ UNCHANGED <<tenant, jobs, runs, net, worker, hook, op>>
      /\ events' \in [Jobs -> EventSet]
    BY DEF ReconcileFindsNoRow, dbVars, ghVars, TypeInv, TypeOK
<1> HIDE DEF new
<1> QED
    BY <1>2, <1>3, <1>4, PutRec

LEMMA ReconcileAbortsType ==
    ASSUME TypeInv, NEW c \in Recs, ReconcileAborts(c)
    PROVE  TypeInv'
<1>1. rec[c].pc # "free" /\ Retry(c)
    BY DEF ReconcileAborts
<1>2. /\ UNCHANGED <<tenant, jobs, runs, net, worker, hook, op>>
      /\ events' \in [Jobs -> EventSet]
    BY DEF ReconcileAborts, dbVars, ghVars, TypeInv, TypeOK
<1> QED
    BY <1>1, <1>2, RetryType

LEMMA ReconcileCrashType ==
    ASSUME TypeInv, NEW c \in Recs, ReconcileCrash(c)
    PROVE  TypeInv'
<1>1. /\ rec' = [rec EXCEPT ![c] = IdleRec]
      /\ UNCHANGED <<tenant, jobs, runs, net, worker, hook, op>>
      /\ events' \in [Jobs -> EventSet]
    BY DEF ReconcileCrash, dbVars, ghVars, TypeInv, TypeOK
<1> QED
    BY <1>1, IdleRecType, PutRec

(* Operators.                                                               *)
LEMMA IdleOpType == IdleOp \in OpState
BY DEF OpState

LEMMA BusyOp ==
    ASSUME TypeInv, NEW o \in Ops, op[o].pc # "idle"
    PROVE  op[o].job \in Jobs /\ op[o].done \in BOOLEAN
BY Rows DEF OpState, IdleOp

LEMMA PutOp ==
    ASSUME TypeInv, NEW o \in Ops, NEW new \in OpState, op' = [op EXCEPT ![o] = new],
           UNCHANGED <<tenant, jobs, events, runs, net, worker, hook, rec>>
    PROVE  TypeInv'
<1>1. TypeOK'
    BY DEF TypeInv, TypeOK
<1> QED
    BY <1>1 DEF TypeInv, RunsLinked

LEMMA RerunPostsType ==
    ASSUME TypeInv, NEW o \in Ops, NEW j \in Jobs, RerunPosts(o, j)
    PROVE  TypeInv'
<1> DEFINE r == jobs[j].run
           run == [runs[r] EXCEPT !.end = "running"]
           new == [pc |-> "rerun", job |-> j, done |-> jobs[j].done]
<1>1. r \in 1..Len(runs)
    BY Rows DEF RerunPosts, JobRow, NoRun, TypeInv, RunsLinked
<1>2. run \in Run
    BY <1>1, Rows DEF Run
<1>3. runs' = [runs EXCEPT ![r] = run]
    BY DEF RerunPosts, TypeInv, TypeOK
<1>4. new \in OpState
    BY Rows DEF OpState, JobRow
<1>5. op' \in [Ops -> OpState]
    <2>1. op' = [op EXCEPT ![o] = new]
        BY DEF RerunPosts
    <2> HIDE DEF new
    <2> QED
        BY <1>4, <2>1 DEF TypeInv, TypeOK
<1>6. /\ UNCHANGED <<tenant, jobs, events, worker, hook, rec>>
      /\ {} \in SUBSET Webhook /\ net' = net \cup {}
    BY DEF RerunPosts, dbVars
<1> HIDE DEF r, run
<1> QED
    BY <1>1, <1>2, <1>3, <1>5, <1>6, PutRun

LEMMA RerunCommitsType ==
    ASSUME TypeInv, NEW o \in Ops, RerunCommits(o)
    PROVE  TypeInv'
<1> DEFINE k == op[o]
           row == [jobs[k.job] EXCEPT !.status = "pending", !.done = Column(k.done, FALSE, @)]
<1>1. k.job \in Jobs /\ k.done \in BOOLEAN
    BY BusyOp DEF RerunCommits
<1>2. row \in JobRow /\ row.run = jobs[k.job].run
    <2>1. jobs[k.job] \in JobRow
        BY <1>1, Rows
    <2>2. Column(k.done, FALSE, jobs[k.job].done) \in BOOLEAN
        BY <2>1 DEF Column, JobRow
    <2> HIDE DEF k
    <2> QED
        BY <2>1, <2>2 DEF JobRow, Status
<1>3. jobs' = [jobs EXCEPT ![k.job] = row]
    BY DEF RerunCommits, TypeInv, TypeOK
<1>4. op' = [op EXCEPT ![o] = IdleOp] /\ Schedule(k.job)
    BY DEF RerunCommits
<1>5. UNCHANGED <<tenant, events, runs, net, worker, hook>>
    BY DEF RerunCommits, ghVars
<1>6. /\ rec' \in [Recs -> RecState]
      /\ \A c \in Recs : rec'[c] = rec[c] \/ rec'[c].pc = "waiting"
    BY <1>1, <1>4, ScheduleType
<1> HIDE DEF row, k
<1>7. TypeOK'
    BY <1>1, <1>2, <1>3, <1>4, <1>5, <1>6, IdleOpType DEF TypeInv, TypeOK
<1>8. RunsLinked'
    BY <1>1, <1>2, <1>3, <1>5, <1>6 DEF TypeInv, TypeOK, RunsLinked
<1> QED
    BY <1>7, <1>8 DEF TypeInv

LEMMA MarkReadsType ==
    ASSUME TypeInv, NEW o \in Ops, NEW j \in Jobs, MarkReads(o, j)
    PROVE  TypeInv'
<1> DEFINE new == [pc |-> "mark", job |-> j, done |-> jobs[j].done]
<1>1. new \in OpState
    BY Rows DEF OpState, JobRow
<1>2. op' = [op EXCEPT ![o] = new] /\ UNCHANGED <<tenant, jobs, events, runs, net, worker, hook, rec>>
    BY DEF MarkReads, dbVars, ghVars
<1> HIDE DEF new
<1> QED
    BY <1>1, <1>2, PutOp

LEMMA MarkCommitsType ==
    ASSUME TypeInv, NEW o \in Ops, MarkCommits(o)
    PROVE  TypeInv'
<1> DEFINE k == op[o]
           row == [jobs[k.job] EXCEPT !.status = "manually_completed",
                                      !.done = Column(k.done, TRUE, @)]
<1>1. k.job \in Jobs /\ k.done \in BOOLEAN
    BY BusyOp DEF MarkCommits
<1>2. row \in JobRow /\ row.run = jobs[k.job].run
    <2>1. jobs[k.job] \in JobRow
        BY <1>1, Rows
    <2>2. Column(k.done, TRUE, jobs[k.job].done) \in BOOLEAN
        BY <2>1 DEF Column, JobRow
    <2> HIDE DEF k
    <2> QED
        BY <2>1, <2>2 DEF JobRow, Status
<1>3. jobs' = [jobs EXCEPT ![k.job] = row]
    BY DEF MarkCommits, TypeInv, TypeOK
<1>4. events' \in [Jobs -> EventSet]
    <2>1. \A S \in EventSet : S \cup {<<Report, "succeeded">>} \in EventSet
        BY PhasesAssumption DEF EventSet, Report, Phase, EventStatus
    <2>2. events' = [events EXCEPT ![k.job] = @ \cup {<<Report, "succeeded">>}]
        BY DEF MarkCommits
    <2> QED
        BY <1>1, <2>1, <2>2 DEF TypeInv, TypeOK
<1>5. op' = [op EXCEPT ![o] = IdleOp] /\ UNCHANGED <<tenant, runs, net, worker, hook, rec>>
    BY DEF MarkCommits, ghVars
<1> HIDE DEF row, k
<1>6. TypeOK'
    BY <1>1, <1>2, <1>3, <1>4, <1>5, IdleOpType DEF TypeInv, TypeOK
<1>7. RunsLinked'
    BY <1>1, <1>2, <1>3, <1>5 DEF TypeInv, TypeOK, RunsLinked
<1> QED
    BY <1>6, <1>7 DEF TypeInv

LEMMA OpAbortsType ==
    ASSUME TypeInv, NEW o \in Ops, OpAborts(o)
    PROVE  TypeInv'
<1>1. op' = [op EXCEPT ![o] = IdleOp] /\ UNCHANGED <<tenant, jobs, events, runs, net, worker, hook, rec>>
    BY DEF OpAborts, dbVars, ghVars
<1> QED
    BY <1>1, IdleOpType, PutOp

(* Every step of the system, and so every behaviour.                        *)
LEMMA NextType == TypeInv /\ [Next]_vars => TypeInv'
<1> SUFFICES ASSUME TypeInv, [Next]_vars PROVE TypeInv'
    OBVIOUS
<1>1. CASE Requests
    BY <1>1, FlushType, CommitRequestType, RollbackRequestType, SetActiveType, UpdateTenantType
       DEF Requests, Answers, CreateTenant, DestroyTenant
<1>2. ASSUME NEW j \in Jobs, Task(j) PROVE TypeInv'
    BY <1>2, TaskStartType, DispatchType, LookupRunType, SaveRunType, DispatchFailedType DEF Task
<1>3. ASSUME NEW r \in 1..MaxRuns, GitHub(r) PROVE TypeInv'
    BY <1>3, GitHubType
<1>4. CASE Webhooks
    BY <1>4, WebhookArrivesType, WebhookCommitsType, WebhookFindsType, WebhookWipesType,
       WebhookAbortsType DEF Webhooks
<1>5. ASSUME NEW c \in Recs, Reconcile(c) PROVE TypeInv'
    BY <1>5, ReconcileStartType, PollRetryType, PollAnswersType, ReconcileCommitsType,
       ReconcileFindsType, ReconcileAbortsType DEF Reconcile
<1>6. CASE Operators
    BY <1>6, RerunPostsType, RerunCommitsType, MarkReadsType, MarkCommitsType, OpAbortsType
       DEF Operators
<1>7. CASE Crashes
    BY <1>7, TaskCrashType, ReconcileCrashType DEF Crashes
<1>8. CASE UNCHANGED vars
    BY <1>8 DEF vars, TypeInv, TypeOK, RunsLinked
<1> QED
    BY <1>1, <1>2, <1>3, <1>4, <1>5, <1>6, <1>7, <1>8 DEF Next, Steps

(* Type correctness, for every instance.                                    *)
THEOREM TypeCorrect == Spec => []TypeOK
<1>1. Spec => []TypeInv
    BY InitType, NextType, PTL DEF Spec
<1>2. TypeInv => TypeOK
    BY DEF TypeInv
<1> QED
    BY <1>1, <1>2, PTL

(* No dangling external_run_id: the reference of a job, of a dispatch task   *)
(* and of a reconcile pass is to a run that GitHub has.                      *)
THEOREM RunsAlwaysLinked == Spec => []RunsLinked
<1>1. Spec => []TypeInv
    BY InitType, NextType, PTL DEF Spec
<1>2. TypeInv => RunsLinked
    BY DEF TypeInv
<1> QED
    BY <1>1, <1>2, PTL

-----------------------------------------------------------------------------
(* The life of a row.                                                       *)

(* What one step of the system may do to a row: it is inserted, recorded as *)
(* done at once, committed, rolled back or deleted, or a commit writes its  *)
(* columns; a commit that leaves a new final status leaves completed_at set. *)
Dated(old, new) ==
    new.status \in Finished => new.done \/ (new.status = old.status /\ new.done = old.done)
RowStep(old, new) ==
    \/ new = old
    \/ old.row = "none" /\ new.row = "open" /\ new.status = old.status
    \/ old.row = "none" /\ new.row = "live" /\ new.done
    \/ old.row = "open" /\ new.row = "live" /\ new.status = old.status
    \/ old.row \in {"open", "live"} /\ new.row = "wiped"
    \/ old.row = "live" /\ new.row = "live" /\ Dated(old, new)

RowSteps == \A j \in Jobs : RowStep(jobs[j], jobs'[j])

LEMMA OneRow ==
    ASSUME TypeInv, NEW j \in Jobs, NEW row, RowStep(jobs[j], row),
           jobs' = [jobs EXCEPT ![j] = row]
    PROVE  RowSteps
BY DEF RowSteps, RowStep, TypeInv, TypeOK

LEMMA RequestRow ==
    ASSUME TypeInv, Requests
    PROVE  RowSteps
<1> USE DEF RowSteps, RowStep, TypeInv, TypeOK
<1>1. ASSUME NEW j \in Jobs, NEW s \in Slugs, NEW kind \in Kinds, Flush(j, s, kind)
      PROVE  RowSteps
    BY <1>1, Rows DEF Flush, JobRow
<1>2. ASSUME NEW j \in Jobs, NEW d, CommitRequest(j, d) PROVE RowSteps
    BY <1>2, Rows DEF CommitRequest, JobRow
<1>3. ASSUME NEW j \in Jobs, RollbackRequest(j) PROVE RowSteps
    BY <1>3, Rows DEF RollbackRequest, JobRow
<1>4. ASSUME NEW j \in Jobs, NEW s \in Slugs, NEW b \in BOOLEAN, SetActive(j, s, b)
      PROVE  RowSteps
    BY <1>4, Rows DEF SetActive, JobRow
<1>5. ASSUME NEW s \in Slugs, UpdateTenant(s) PROVE RowSteps
    BY <1>5 DEF UpdateTenant
<1> QED
    BY <1>1, <1>2, <1>3, <1>4, <1>5 DEF Requests, Answers, CreateTenant, DestroyTenant, Kinds

LEMMA TaskRow ==
    ASSUME TypeInv, NEW j \in Jobs, SaveRun(j) \/ DispatchFailed(j)
    PROVE  RowSteps
<1>1. CASE SaveRun(j)
    <2> DEFINE read == worker[j].status
               status == Column(read, IF read = "pending" THEN "running" ELSE read, jobs[j].status)
               row == [jobs[j] EXCEPT !.status = status,
                                      !.run = Column(NoRun, worker[j].run, jobs[j].run)]
    <2>1. status \in {"running", jobs[j].status}
        BY DEF Column
    <2>2. row.status = status /\ row.done = jobs[j].done /\ row.row = jobs[j].row
        BY Rows DEF JobRow
    <2>3. Dated(jobs[j], row)
        BY <2>1, <2>2 DEF Dated, Finished
    <2>4. TaskCommit(j, row)
        BY <1>1 DEF SaveRun
    <2> HIDE DEF row, status
    <2>5. CASE Exists(j)
        BY <2>2, <2>3, <2>4, <2>5, OneRow DEF TaskCommit, RowStep, Exists
    <2>6. CASE ~Exists(j)
        BY <2>4, <2>6 DEF TaskCommit, RowSteps, RowStep
    <2> QED
        BY <2>5, <2>6
<1>2. CASE DispatchFailed(j)
    <2> DEFINE status == Column(worker[j].status, "failed", jobs[j].status)
               row == [jobs[j] EXCEPT !.status = status, !.done = TRUE]
    <2>1. row.done /\ row.row = jobs[j].row
        BY Rows DEF JobRow
    <2>2. TaskCommit(j, row)
        BY <1>2 DEF DispatchFailed
    <2> HIDE DEF row
    <2>3. CASE Exists(j)
        BY <2>1, <2>2, <2>3, OneRow DEF TaskCommit, RowStep, Exists, Dated
    <2>4. CASE ~Exists(j)
        BY <2>2, <2>4 DEF TaskCommit, RowSteps, RowStep
    <2> QED
        BY <2>3, <2>4
<1> QED
    BY <1>1, <1>2

LEMMA WipeRow ==
    ASSUME TypeInv, NEW j \in Jobs, NEW row, Wipe(j, row), RowStep(jobs[j], row)
    PROVE  RowSteps
<1>1. jobs' = [i \in Jobs |-> IF i = j THEN row
                              ELSE IF jobs[i].row = "live" /\ jobs[i].slug = row.slug
                                   THEN [jobs[i] EXCEPT !.row = "wiped"]
                                   ELSE jobs[i]]
    BY DEF Wipe
<1> QED
    BY <1>1, Rows DEF RowSteps, RowStep, JobRow

LEMMA WebhookRow ==
    ASSUME TypeInv, NEW h \in Hooks, WebhookCommits(h) \/ WebhookWipes(h)
    PROVE  RowSteps
<1> DEFINE k == hook[h]
           row == HookRow(k)
           status == Column(k.status, StatusAfter(k), jobs[k.job].status)
<1>1. k.pc # "idle" /\ Exists(k.job)
    BY DEF WebhookCommits, WebhookWipes
<1>2. k.job \in Jobs /\ k.event \in EventStatus
    BY <1>1, Rows DEF HookState, IdleHook
<1>3. /\ row.status = status /\ row.row = jobs[k.job].row
      /\ row.done = (jobs[k.job].done \/ Ends(k))
    BY <1>2, Rows DEF HookRow, JobRow
<1>4. Ends(k) \/ status \in {"running", jobs[k.job].status}
    BY DEF Column, StatusAfter, Ends
<1>5. Dated(jobs[k.job], row)
    <2>1. jobs[k.job].done \in BOOLEAN
        BY <1>2, Rows DEF JobRow
    <2>2. CASE Ends(k)
        BY <1>3, <2>2 DEF Dated
    <2>3. CASE ~Ends(k)
        <3>1. row.done = jobs[k.job].done
            BY <1>3, <2>1, <2>3
        <3> QED
            BY <1>3, <1>4, <2>3, <3>1 DEF Dated, Finished
    <2> QED
        BY <2>2, <2>3
<1>6. RowStep(jobs[k.job], row)
    BY <1>1, <1>3, <1>5 DEF RowStep, Exists
<1>7. Wipe(k.job, row) \/ jobs' = [jobs EXCEPT ![k.job] = row]
    BY DEF WebhookCommits, WebhookWipes, Teardown
<1> HIDE DEF row, k
<1> QED
    BY <1>2, <1>6, <1>7, WipeRow, OneRow

LEMMA ReconcileRow ==
    ASSUME TypeInv, NEW c \in Recs, ReconcileCommits(c) \/ ReconcileWipes(c)
    PROVE  RowSteps
<1> DEFINE k == rec[c]
           row == RecRow(k)
<1>1. k.job \in Jobs /\ Exists(k.job)
    BY BusyRec DEF ReconcileCommits, ReconcileWipes
<1>2. row.done /\ row.row = jobs[k.job].row
    BY <1>1, Rows DEF RecRow, JobRow
<1>3. RowStep(jobs[k.job], row)
    BY <1>1, <1>2 DEF RowStep, Exists, Dated
<1>4. Wipe(k.job, row) \/ jobs' = [jobs EXCEPT ![k.job] = row]
    BY DEF ReconcileCommits, ReconcileWipes, Teardown
<1> HIDE DEF row, k
<1> QED
    BY <1>1, <1>3, <1>4, WipeRow, OneRow

LEMMA OperatorRow ==
    ASSUME TypeInv, NEW o \in Ops, RerunCommits(o) \/ MarkCommits(o)
    PROVE  RowSteps
<1> DEFINE k == op[o]
<1>1. k.job \in Jobs /\ Exists(k.job)
    BY BusyOp DEF RerunCommits, MarkCommits
<1>a. PICK status \in {"pending", "manually_completed"} : \E done :
          jobs' = [jobs EXCEPT ![k.job].status = status, ![k.job].done = done]
    BY DEF RerunCommits, MarkCommits
<1>2. PICK done : jobs' = [jobs EXCEPT ![k.job].status = status, ![k.job].done = done]
    BY <1>a
<1> DEFINE row == [jobs[k.job] EXCEPT !.status = status, !.done = done]
<1>3. row.status = status /\ row.row = jobs[k.job].row
    BY <1>1, Rows DEF JobRow
<1>4. RowStep(jobs[k.job], row)
    BY <1>1, <1>2, <1>3 DEF RowStep, Exists, Dated, Finished
<1>5. jobs' = [jobs EXCEPT ![k.job] = row]
    BY <1>1, <1>2 DEF TypeInv, TypeOK
<1> HIDE DEF row, k
<1> QED
    BY <1>1, <1>4, <1>5, OneRow

LEMMA NextRow == TypeInv /\ [Next]_vars => RowSteps
<1> SUFFICES ASSUME TypeInv, [Next]_vars PROVE RowSteps
    OBVIOUS
<1>0. ASSUME UNCHANGED jobs PROVE RowSteps
    BY <1>0 DEF RowSteps, RowStep
<1>1. CASE Requests
    BY <1>1, RequestRow
<1>2. ASSUME NEW j \in Jobs, Task(j) PROVE RowSteps
    BY <1>0, <1>2, TaskRow DEF Task, TaskStart, Dispatch, LookupRun, dbVars
<1>3. ASSUME NEW r \in 1..MaxRuns, GitHub(r) PROVE RowSteps
    BY <1>0, <1>3 DEF GitHub, PhaseStarts, PhaseSucceeds, PhaseFails, RunCompletes, dbVars
<1>4. CASE Webhooks
    BY <1>0, <1>4, WebhookRow DEF Webhooks, WebhookArrives, WebhookFindsNoRow, WebhookAborts, dbVars
<1>5. ASSUME NEW c \in Recs, Reconcile(c) PROVE RowSteps
    BY <1>0, <1>5, ReconcileRow
       DEF Reconcile, ReconcileStart, PollRetry, PollAnswers, ReconcileFindsNoRow, ReconcileAborts, dbVars
<1>6. CASE Operators
    BY <1>0, <1>6, OperatorRow DEF Operators, RerunPosts, MarkReads, OpAborts, dbVars
<1>7. CASE Crashes
    BY <1>0, <1>7 DEF Crashes, TaskCrash, ReconcileCrash, dbVars
<1>8. CASE UNCHANGED vars
    BY <1>0, <1>8 DEF vars
<1> QED
    BY <1>1, <1>2, <1>3, <1>4, <1>5, <1>6, <1>7, <1>8 DEF Next, Steps

(* A finished job has its completion time, whichever of the dispatch task,   *)
(* the webhooks, the reconciler and the operators wrote its columns last and *)
(* however stale the row they had read was.                                  *)
FreshIsPending == \A j \in Jobs : jobs[j].row \in {"none", "open"} => jobs[j].status = "pending"

THEOREM FinishedAlwaysDated == Spec => []FinishedIsDated
<1> DEFINE Inv == TypeInv /\ FreshIsPending /\ FinishedIsDated
<1>1. Init => Inv
    <2> SUFFICES ASSUME Init PROVE FreshIsPending /\ FinishedIsDated
        BY InitType
    <2>1. \A j \in Jobs : jobs[j] = NewJob
        BY DEF Init
    <2> QED
        BY <2>1 DEF FreshIsPending, FinishedIsDated, Exists, NewJob
<1>2. Inv /\ [Next]_vars => Inv'
    <2> SUFFICES ASSUME Inv, [Next]_vars PROVE Inv'
        OBVIOUS
    <2>1. TypeInv'
        BY NextType
    <2>2. RowSteps
        BY NextRow
    <2>3. FreshIsPending'
        BY <2>2 DEF RowSteps, RowStep, FreshIsPending
    <2>4. ASSUME NEW j \in Jobs, jobs'[j].row = "live", jobs'[j].status \in Finished
          PROVE  jobs'[j].done
        BY <2>2, <2>4 DEF RowSteps, RowStep, Dated, FreshIsPending, FinishedIsDated, Exists, Finished
    <2>5. FinishedIsDated'
        BY <2>4 DEF FinishedIsDated, Exists, Finished
    <2> QED
        BY <2>1, <2>3, <2>5
<1>3. Inv => FinishedIsDated
    OBVIOUS
<1> QED
    BY <1>1, <1>2, <1>3, PTL DEF Spec

(* No session that read a row before it was deleted or rolled back writes it *)
(* back: not the worker, a webhook, the reconciler or an operator.           *)
THEOREM WipedRowsStayWiped == Spec => WipedStaysWiped
<1>1. Spec => []TypeInv
    BY InitType, NextType, PTL DEF Spec
<1>2. TypeInv /\ [Next]_vars => [\A j \in Jobs : jobs[j].row = "wiped" => jobs'[j] = jobs[j]]_vars
    BY NextRow DEF RowSteps, RowStep
<1> QED
    BY <1>1, <1>2, PTL DEF Spec, WipedStaysWiped

-----------------------------------------------------------------------------
(* The registry and the jobs table.                                         *)

(* What makes RegistryMatchesCreateJob inductive: an open request holds its *)
(* slug alone, an open CREATE finds no registry row, an open DESTROY one.   *)
OpenRequests ==
    /\ \A j \in Jobs : jobs[j].row # "none" => jobs[j].slug \in Slugs
    /\ \A j \in Jobs : jobs[j].row = "open" =>
           \/ jobs[j].kind = "create" /\ tenant[jobs[j].slug].by = Nobody
           \/ jobs[j].kind = "destroy" /\ tenant[jobs[j].slug].by # Nobody
    /\ \A i, j \in Jobs : jobs[i].row = "open" /\ jobs[j].row = "open" /\ jobs[i].slug = jobs[j].slug
                              => i = j
RegistryInv == OpenRequests /\ RegistryMatchesCreateJob

(* A step that changes no row's existence, slug or kind, no CREATE job of a *)
(* registry row and none that is active.                                    *)
SameRegistry ==
    /\ \A j \in Jobs : /\ jobs'[j].row = jobs[j].row /\ jobs'[j].slug = jobs[j].slug
                       /\ jobs'[j].kind = jobs[j].kind
    /\ \A s \in Slugs : tenant'[s].by = tenant[s].by /\ tenant'[s].active = tenant[s].active

(* A DESTROY job of the slug ends, with the registry row or without one.    *)
TearsDown(j, row) ==
    /\ Teardown(j, row) /\ Exists(j)
    /\ row.row = "live" /\ row.slug = jobs[j].slug /\ row.kind = "destroy" /\ jobs[j].kind = "destroy"
WipesOnly(j, row) ==
    /\ Wipe(j, row) /\ UNCHANGED tenant /\ Exists(j) /\ Wiping(row.slug)
    /\ row.row = "live" /\ row.slug = jobs[j].slug /\ row.kind = jobs[j].kind

LEMMA SameRegistryKeeps ==
    ASSUME TypeInv, RegistryInv, SameRegistry
    PROVE  RegistryInv'
<1>1. OpenRequests'
    BY DEF RegistryInv, OpenRequests, SameRegistry
<1>2. \A j \in Jobs : jobs'[j].row = "live" <=> jobs[j].row = "live"
    BY DEF SameRegistry, Exists
<1>3. \A s \in Slugs : tenant[s].by \in Jobs \cup {Nobody}
    BY Rows DEF TenantRow
<1>4. RegistryMatchesCreateJob'
    <2>1. ASSUME NEW s \in Slugs, tenant'[s].by # Nobody
          PROVE  /\ jobs'[tenant'[s].by].row \in {"live", "wiped"}
                 /\ jobs'[tenant'[s].by].kind = "create" /\ jobs'[tenant'[s].by].slug = s
        <3> DEFINE i == tenant[s].by
        <3>1. tenant'[s].by = i /\ i \in Jobs /\ i # Nobody
            BY <1>3, <2>1 DEF SameRegistry
        <3>2. jobs[i].row \in {"live", "wiped"} /\ jobs[i].kind = "create" /\ jobs[i].slug = s
            BY <3>1 DEF RegistryInv, RegistryMatchesCreateJob
        <3> HIDE DEF i
        <3> QED
            BY <3>1, <3>2 DEF SameRegistry
    <2>2. ASSUME NEW j \in Jobs, jobs'[j].row = "live", jobs'[j].kind = "create"
          PROVE  tenant'[jobs'[j].slug].by = j
        <3>1. Exists(j) /\ jobs[j].kind = "create" /\ jobs'[j].slug = jobs[j].slug
            BY <1>2, <2>2 DEF SameRegistry, Exists
        <3>2. jobs[j].slug \in Slugs
            BY <3>1 DEF Exists, RegistryInv, OpenRequests
        <3>3. tenant[jobs[j].slug].by = j
            BY <3>1 DEF RegistryInv, RegistryMatchesCreateJob
        <3> QED
            BY <3>1, <3>2, <3>3 DEF SameRegistry
    <2> QED
        BY <2>1, <2>2 DEF RegistryMatchesCreateJob, Exists
<1> QED
    BY <1>1, <1>4 DEF RegistryInv

LEMMA FlushRegistry ==
    ASSUME TypeInv, RegistryInv, NEW j \in Jobs, NEW s \in Slugs, NEW kind \in {"create", "destroy"},
           Flush(j, s, kind), (kind = "create") <=> (tenant[s].by = Nobody)
    PROVE  RegistryInv'
<1>1. /\ jobs[j].row = "none" /\ UNCHANGED tenant
      /\ \A i \in Jobs : jobs[i].row = "open" => jobs[i].slug # s
    BY DEF Flush, Unlocked
<1>2. /\ jobs'[j].row = "open" /\ jobs'[j].slug = s /\ jobs'[j].kind = kind
      /\ \A i \in Jobs \ {j} : jobs'[i] = jobs[i]
    BY Rows DEF Flush, JobRow, TypeInv, TypeOK
<1>3. OpenRequests'
    BY <1>1, <1>2 DEF RegistryInv, OpenRequests
<1>4. RegistryMatchesCreateJob'
    <2>1. \A i \in Jobs : jobs'[i].row = "live" <=> jobs[i].row = "live"
        BY <1>1, <1>2
    <2>2. \A i \in Jobs : jobs[i].row # "none" => i # j
        BY <1>1
    <2>3. \A t \in Slugs : tenant[t].by \in Jobs \cup {Nobody}
        BY Rows DEF TenantRow
    <2>4. \A t \in Slugs : tenant[t].by # Nobody =>
              /\ jobs'[tenant[t].by].row \in {"live", "wiped"} /\ jobs'[tenant[t].by].kind = "create"
              /\ jobs'[tenant[t].by].slug = t
        BY <1>2, <2>2, <2>3 DEF RegistryInv, RegistryMatchesCreateJob
    <2>5. \A i \in Jobs : jobs'[i].row = "live" /\ jobs'[i].kind = "create" => tenant[jobs'[i].slug].by = i
        BY <1>2, <2>1, <2>2 DEF RegistryInv, RegistryMatchesCreateJob, Exists
    <2> QED
        BY <1>1, <2>4, <2>5 DEF RegistryMatchesCreateJob, Exists
<1> QED
    BY <1>3, <1>4 DEF RegistryInv

LEMMA CommitRegistry ==
    ASSUME TypeInv, RegistryInv, NEW j \in Jobs, NEW d, CommitRequest(j, d)
    PROVE  RegistryInv'
<1> DEFINE s == jobs[j].slug
<1>1. jobs[j].row = "open" /\ s \in Slugs
    BY DEF CommitRequest, RegistryInv, OpenRequests
<1>2. /\ jobs'[j].row = "live" /\ jobs'[j].slug = s /\ jobs'[j].kind = jobs[j].kind
      /\ \A i \in Jobs \ {j} : jobs'[i] = jobs[i]
    BY Rows DEF CommitRequest, JobRow, TypeInv, TypeOK
<1>3. /\ tenant'[s].by = IF jobs[j].kind = "create" THEN j ELSE tenant[s].by
      /\ \A t \in Slugs \ {s} : tenant'[t] = tenant[t]
    BY <1>1, Rows DEF CommitRequest, TenantRow, TypeInv, TypeOK
<1>4. \A i \in Jobs \ {j} : jobs[i].row = "open" => jobs[i].slug # s
    BY <1>1 DEF RegistryInv, OpenRequests
<1>5. \A t \in Slugs : tenant[t].by \in Jobs \cup {Nobody}
    BY Rows DEF TenantRow
<1> HIDE DEF s
<1>6. OpenRequests'
    BY <1>1, <1>2, <1>3, <1>4 DEF RegistryInv, OpenRequests
<1>7. ASSUME NEW t \in Slugs, tenant'[t].by # Nobody
      PROVE  /\ jobs'[tenant'[t].by].row \in {"live", "wiped"} /\ jobs'[tenant'[t].by].kind = "create"
             /\ jobs'[tenant'[t].by].slug = t
    <2>1. CASE t = s /\ jobs[j].kind = "create"
        BY <1>2, <1>3, <2>1 DEF Exists
    <2>2. CASE ~(t = s /\ jobs[j].kind = "create")
        <3> DEFINE i == tenant[t].by
        <3>1. tenant'[t].by = i /\ i \in Jobs
            BY <1>3, <1>5, <1>7, <2>2
        <3>2. jobs[i].row \in {"live", "wiped"} /\ jobs[i].kind = "create" /\ jobs[i].slug = t
            BY <1>7, <3>1 DEF RegistryInv, RegistryMatchesCreateJob
        <3>3. i # j
            BY <1>1, <3>2
        <3> HIDE DEF i
        <3> QED
            BY <1>2, <3>1, <3>2, <3>3
    <2> QED
        BY <2>1, <2>2
<1>8. ASSUME NEW i \in Jobs, jobs'[i].row = "live", jobs'[i].kind = "create"
      PROVE  tenant'[jobs'[i].slug].by = i
    <2>1. CASE i = j
        BY <1>2, <1>3, <1>8, <2>1
    <2>2. CASE i # j
        <3>1. Exists(i) /\ jobs[i].kind = "create" /\ jobs'[i].slug = jobs[i].slug
            BY <1>2, <1>8, <2>2 DEF Exists
        <3>2. tenant[jobs[i].slug].by = i /\ jobs[i].slug \in Slugs
            BY <3>1 DEF RegistryInv, RegistryMatchesCreateJob, OpenRequests, Exists
        <3>3. jobs[j].kind = "create" => tenant[s].by = Nobody
            BY <1>1 DEF RegistryInv, OpenRequests, s
        <3> QED
            BY <1>3, <3>1, <3>2, <3>3, NobodyAssumption
    <2> QED
        BY <2>1, <2>2
<1> QED
    BY <1>6, <1>7, <1>8 DEF RegistryInv, RegistryMatchesCreateJob, Exists

LEMMA TeardownRegistry ==
    ASSUME TypeInv, RegistryInv, NEW j \in Jobs, NEW row, TearsDown(j, row)
    PROVE  RegistryInv'
<1> DEFINE s == row.slug
<1>0. /\ Teardown(j, row) /\ Exists(j)
      /\ row.row = "live" /\ s = jobs[j].slug /\ row.kind = "destroy" /\ jobs[j].kind = "destroy"
    BY DEF TearsDown
<1>1. s \in Slugs
    BY <1>0 DEF RegistryInv, OpenRequests, Exists
<1>2. /\ tenant'[s].by = Nobody
      /\ \A t \in Slugs \ {s} : tenant'[t] = tenant[t]
    BY <1>0, <1>1 DEF Teardown, NoTenant, TypeInv, TypeOK
<1>3. /\ jobs'[j] = row
      /\ \A i \in Jobs \ {j} : jobs[i].row = "live" /\ jobs[i].slug = s =>
             jobs'[i] = [jobs[i] EXCEPT !.row = "wiped"]
      /\ \A i \in Jobs \ {j} : ~(jobs[i].row = "live" /\ jobs[i].slug = s) => jobs'[i] = jobs[i]
    BY <1>0 DEF Teardown, Wipe
<1>4. \A i \in Jobs \ {j} : jobs[i].row = "live" /\ jobs[i].slug = s =>
          jobs'[i].row = "wiped" /\ jobs'[i].slug = jobs[i].slug
    BY <1>3, Rows DEF JobRow
<1>5. \A i \in Jobs : jobs[i].row = "open" => jobs[i].slug # s
    BY <1>0 DEF Teardown, Unlocked
<1>6. \A t \in Slugs : tenant[t].by \in Jobs \cup {Nobody}
    BY Rows DEF TenantRow
<1>7. jobs'[j].row = "live" /\ jobs'[j].slug = s /\ jobs'[j].kind = "destroy" /\ jobs[j].row = "live"
    BY <1>0, <1>3 DEF Exists
<1> HIDE DEF s
<1>8. OpenRequests'
    BY <1>1, <1>2, <1>3, <1>4, <1>5, <1>7 DEF RegistryInv, OpenRequests
<1>9. ASSUME NEW t \in Slugs, tenant'[t].by # Nobody
      PROVE  /\ jobs'[tenant'[t].by].row \in {"live", "wiped"} /\ jobs'[tenant'[t].by].kind = "create"
             /\ jobs'[tenant'[t].by].slug = t
    <2> DEFINE i == tenant[t].by
    <2>1. t # s /\ tenant'[t].by = i /\ i \in Jobs
        BY <1>2, <1>6, <1>9
    <2>2. jobs[i].row \in {"live", "wiped"} /\ jobs[i].kind = "create" /\ jobs[i].slug = t
        BY <1>9, <2>1 DEF RegistryInv, RegistryMatchesCreateJob
    <2>3. i # j
        BY <1>0, <2>2
    <2> HIDE DEF i
    <2> QED
        BY <1>3, <2>1, <2>2, <2>3
<1>10. ASSUME NEW i \in Jobs, jobs'[i].row = "live", jobs'[i].kind = "create"
       PROVE  tenant'[jobs'[i].slug].by = i
    <2>1. i # j
        BY <1>7, <1>10
    <2>2. ~(jobs[i].row = "live" /\ jobs[i].slug = s)
        BY <1>4, <1>10, <2>1
    <2>3. Exists(i) /\ jobs[i].kind = "create" /\ jobs'[i] = jobs[i] /\ jobs[i].slug # s
        BY <1>3, <1>10, <2>1, <2>2 DEF Exists
    <2>4. tenant[jobs[i].slug].by = i /\ jobs[i].slug \in Slugs
        BY <2>3 DEF RegistryInv, RegistryMatchesCreateJob, OpenRequests, Exists
    <2> QED
        BY <1>2, <2>3, <2>4
<1> QED
    BY <1>8, <1>9, <1>10 DEF RegistryInv, RegistryMatchesCreateJob, Exists

(* The jobs go and the registry row, if there is one by now, stays.         *)
LEMMA WipeRegistry ==
    ASSUME TypeInv, RegistryInv, NEW j \in Jobs, NEW row, WipesOnly(j, row)
    PROVE  RegistryInv'
<1>0. /\ Wipe(j, row) /\ UNCHANGED tenant /\ jobs[j].row = "live"
      /\ row.row = "live" /\ row.slug = jobs[j].slug /\ row.kind = jobs[j].kind
    BY DEF WipesOnly, Exists
<1>1. \A i \in Jobs :
        /\ jobs'[i].slug = jobs[i].slug /\ jobs'[i].kind = jobs[i].kind
        /\ jobs'[i].row = jobs[i].row \/ (jobs[i].row = "live" /\ jobs'[i].row = "wiped")
    BY <1>0, Rows DEF Wipe, JobRow
<1>2. OpenRequests'
    BY <1>0, <1>1 DEF RegistryInv, OpenRequests
<1>3. \A s \in Slugs : tenant[s].by \in Jobs \cup {Nobody}
    BY Rows DEF TenantRow
<1>4. \A s \in Slugs : tenant[s].by # Nobody =>
        /\ jobs'[tenant[s].by].row \in {"live", "wiped"} /\ jobs'[tenant[s].by].kind = "create"
        /\ jobs'[tenant[s].by].slug = s
    BY <1>1, <1>3 DEF RegistryInv, RegistryMatchesCreateJob
<1>5. \A i \in Jobs : jobs'[i].row = "live" /\ jobs'[i].kind = "create" => tenant[jobs'[i].slug].by = i
    BY <1>1 DEF RegistryInv, RegistryMatchesCreateJob, Exists
<1> QED
    BY <1>0, <1>2, <1>4, <1>5 DEF RegistryInv, RegistryMatchesCreateJob, Exists

LEMMA RequestRegistry ==
    ASSUME TypeInv, RegistryInv, Requests
    PROVE  RegistryInv'
<1>1. ASSUME NEW j \in Jobs, RollbackRequest(j) PROVE RegistryInv'
    <2>1. /\ jobs[j].row = "open" /\ jobs'[j].row = "wiped" /\ jobs'[j].slug = jobs[j].slug
          /\ \A i \in Jobs \ {j} : jobs'[i] = jobs[i]
          /\ UNCHANGED tenant
        BY <1>1, Rows DEF RollbackRequest, JobRow, TypeInv, TypeOK
    <2>2. OpenRequests'
        BY <2>1 DEF RegistryInv, OpenRequests
    <2>3. \A s \in Slugs : tenant[s].by \in Jobs \cup {Nobody}
        BY Rows DEF TenantRow
    <2>4. RegistryMatchesCreateJob'
      <3>1. \A s \in Slugs : tenant[s].by # Nobody =>
                /\ jobs'[tenant[s].by].row \in {"live", "wiped"} /\ jobs'[tenant[s].by].kind = "create"
                /\ jobs'[tenant[s].by].slug = s
        BY <2>1, <2>3 DEF RegistryInv, RegistryMatchesCreateJob
      <3>2. \A i \in Jobs : jobs'[i].row = "live" /\ jobs'[i].kind = "create" =>
                tenant[jobs'[i].slug].by = i
        BY <2>1 DEF RegistryInv, RegistryMatchesCreateJob, Exists
      <3> QED
        BY <2>1, <3>1, <3>2 DEF RegistryMatchesCreateJob, Exists
    <2> QED
        BY <2>2, <2>4 DEF RegistryInv
<1>2. ASSUME NEW j \in Jobs, NEW s \in Slugs, NEW b \in BOOLEAN, SetActive(j, s, b)
      PROVE  RegistryInv'
    <2>1. /\ jobs[j].row = "none" /\ jobs'[j].row = "live" /\ jobs'[j].slug = s
          /\ jobs'[j].kind \in {"resume", "suspend"}
          /\ \A i \in Jobs \ {j} : jobs'[i] = jobs[i]
        BY <1>2, Rows DEF SetActive, JobRow, TypeInv, TypeOK
    <2>2. \A t \in Slugs : tenant'[t].by = tenant[t].by
        BY <1>2, Rows DEF SetActive, TenantRow, TypeInv, TypeOK
    <2>3. OpenRequests'
        BY <2>1, <2>2 DEF RegistryInv, OpenRequests
    <2>4. \A t \in Slugs : tenant[t].by \in Jobs \cup {Nobody}
        BY Rows DEF TenantRow
    <2>5. RegistryMatchesCreateJob'
        <3>1. \A t \in Slugs : tenant'[t].by # Nobody =>
                  /\ jobs'[tenant'[t].by].row \in {"live", "wiped"}
                  /\ jobs'[tenant'[t].by].kind = "create" /\ jobs'[tenant'[t].by].slug = t
            BY <2>1, <2>2, <2>4 DEF RegistryInv, RegistryMatchesCreateJob, Exists
        <3>2. \A i \in Jobs : jobs'[i].row = "live" /\ jobs'[i].kind = "create" =>
                  tenant'[jobs'[i].slug].by = i
            BY <2>1, <2>2 DEF RegistryInv, OpenRequests, RegistryMatchesCreateJob, Exists
        <3> QED
            BY <3>1, <3>2 DEF RegistryMatchesCreateJob, Exists
    <2> QED
        BY <2>3, <2>5 DEF RegistryInv
<1>3. ASSUME NEW s \in Slugs, UpdateTenant(s) PROVE RegistryInv'
    <2>1. /\ \A t \in Slugs : tenant'[t].by = tenant[t].by
          /\ UNCHANGED jobs
        BY <1>3, Rows DEF UpdateTenant, TenantRow, TypeInv, TypeOK
    <2>2. OpenRequests'
        BY <2>1 DEF RegistryInv, OpenRequests
    <2>3. RegistryMatchesCreateJob'
        BY <2>1 DEF RegistryInv, OpenRequests, RegistryMatchesCreateJob, Exists
    <2> QED
        BY <2>2, <2>3 DEF RegistryInv
<1> QED
    BY <1>1, <1>2, <1>3, FlushRegistry, CommitRegistry DEF Requests, Answers, CreateTenant, DestroyTenant

(* A request takes no row away that is committed.                           *)
LEMMA RequestsTakeNone ==
    ASSUME TypeInv, Requests
    PROVE  \A j \in Jobs : jobs[j].row = "live" => jobs'[j].row = "live"
<1> USE DEF TypeInv, TypeOK
<1>1. ASSUME NEW j \in Jobs, NEW s \in Slugs, NEW kind, Flush(j, s, kind)
      PROVE  \A i \in Jobs : jobs[i].row = "live" => jobs'[i].row = "live"
    BY <1>1 DEF Flush
<1>2. ASSUME NEW j \in Jobs, NEW s \in Slugs, NEW b \in BOOLEAN, SetActive(j, s, b)
      PROVE  \A i \in Jobs : jobs[i].row = "live" => jobs'[i].row = "live"
    BY <1>2 DEF SetActive
<1>3. ASSUME NEW j \in Jobs, Answers(j)
      PROVE  \A i \in Jobs : jobs[i].row = "live" => jobs'[i].row = "live"
    BY <1>3 DEF Answers, RollbackRequest, CommitRequest
<1>4. ASSUME NEW s \in Slugs, UpdateTenant(s)
      PROVE  \A i \in Jobs : jobs[i].row = "live" => jobs'[i].row = "live"
    BY <1>4 DEF UpdateTenant
<1> QED
    BY <1>1, <1>2, <1>3, <1>4 DEF Requests, CreateTenant, DestroyTenant

LEMMA TaskKeeps ==
    ASSUME TypeInv, NEW j \in Jobs, SaveRun(j) \/ DispatchFailed(j)
    PROVE  SameRegistry
<1>1. UNCHANGED tenant
    BY DEF SaveRun, DispatchFailed
<1>2. PICK row : /\ \/ \E status, run : row = [jobs[j] EXCEPT !.status = status, !.run = run]
                    \/ \E status, done : row = [jobs[j] EXCEPT !.status = status, !.done = done]
                 /\ jobs' = [jobs EXCEPT ![j] = row] \/ UNCHANGED jobs
    BY DEF SaveRun, DispatchFailed, TaskCommit
<1>3. row.row = jobs[j].row /\ row.slug = jobs[j].slug /\ row.kind = jobs[j].kind
    BY <1>2, Rows DEF JobRow
<1>4. jobs' = [jobs EXCEPT ![j] = row] \/ UNCHANGED jobs
    BY <1>2
<1> QED
    BY <1>1, <1>3, <1>4 DEF SameRegistry, TypeInv, TypeOK

LEMMA WebhookKeeps ==
    ASSUME TypeInv, NEW h \in Hooks, WebhookCommits(h) \/ WebhookWipes(h)
    PROVE  SameRegistry \/ \E j \in Jobs : \E row : TearsDown(j, row) \/ WipesOnly(j, row)
<1> DEFINE k == hook[h]
           row == HookRow(k)
<1>1. k.job \in Jobs /\ Exists(k.job)
    BY Rows DEF WebhookCommits, WebhookWipes, HookState, IdleHook
<1>2. /\ row.row = jobs[k.job].row /\ row.slug = jobs[k.job].slug /\ row.kind = jobs[k.job].kind
    BY <1>1, Rows DEF HookRow, JobRow
<1>3. \/ jobs[k.job].kind = "destroy" /\ Teardown(k.job, row)
      \/ Wipe(k.job, row) /\ UNCHANGED tenant /\ k.pc = "wiping"
      \/ /\ jobs' = [jobs EXCEPT ![k.job] = row]
         /\ tenant' = [tenant EXCEPT ![row.slug].domain = "reported"] \/ UNCHANGED tenant
    BY DEF WebhookCommits, WebhookWipes, Offboards
<1>4. k.pc = "wiping" => Wiping(row.slug)
    BY <1>2 DEF Wiping
<1> HIDE DEF row, k
<1>5. CASE jobs[k.job].kind = "destroy" /\ Teardown(k.job, row)
    BY <1>1, <1>2, <1>5 DEF Exists, TearsDown
<1>6. CASE Wipe(k.job, row) /\ UNCHANGED tenant /\ k.pc = "wiping"
    BY <1>1, <1>2, <1>4, <1>6 DEF Exists, WipesOnly
<1>7. CASE /\ jobs' = [jobs EXCEPT ![k.job] = row]
           /\ tenant' = [tenant EXCEPT ![row.slug].domain = "reported"] \/ UNCHANGED tenant
    <2>1. \A s \in Slugs : tenant'[s].by = tenant[s].by /\ tenant'[s].active = tenant[s].active
        BY <1>7, Rows DEF TenantRow, TypeInv, TypeOK
    <2> QED
        BY <1>1, <1>2, <1>7, <2>1 DEF SameRegistry, TypeInv, TypeOK
<1> QED
    BY <1>3, <1>5, <1>6, <1>7

LEMMA ReconcileKeeps ==
    ASSUME TypeInv, NEW c \in Recs, ReconcileCommits(c) \/ ReconcileWipes(c)
    PROVE  SameRegistry \/ \E j \in Jobs : \E row : TearsDown(j, row) \/ WipesOnly(j, row)
<1> DEFINE k == rec[c]
           row == RecRow(k)
<1>1. k.job \in Jobs /\ Exists(k.job)
    BY BusyRec DEF ReconcileCommits, ReconcileWipes
<1>2. /\ row.row = jobs[k.job].row /\ row.slug = jobs[k.job].slug /\ row.kind = jobs[k.job].kind
    BY <1>1, Rows DEF RecRow, JobRow
<1>3. \/ jobs[k.job].kind = "destroy" /\ Teardown(k.job, row)
      \/ Wipe(k.job, row) /\ UNCHANGED tenant /\ k.pc = "wiping"
      \/ jobs' = [jobs EXCEPT ![k.job] = row] /\ UNCHANGED tenant
    BY DEF ReconcileCommits, ReconcileWipes
<1>4. k.pc = "wiping" => Wiping(row.slug)
    BY <1>2 DEF Wiping
<1> HIDE DEF row, k
<1>5. CASE jobs[k.job].kind = "destroy" /\ Teardown(k.job, row)
    BY <1>1, <1>2, <1>5 DEF Exists, TearsDown
<1>6. CASE Wipe(k.job, row) /\ UNCHANGED tenant /\ k.pc = "wiping"
    BY <1>1, <1>2, <1>4, <1>6 DEF Exists, WipesOnly
<1>7. CASE jobs' = [jobs EXCEPT ![k.job] = row] /\ UNCHANGED tenant
    BY <1>1, <1>2, <1>7 DEF SameRegistry, TypeInv, TypeOK
<1> QED
    BY <1>3, <1>5, <1>6, <1>7

LEMMA OperatorKeeps ==
    ASSUME TypeInv, NEW o \in Ops, RerunCommits(o) \/ MarkCommits(o)
    PROVE  SameRegistry
<1> DEFINE k == op[o]
<1>1. k.job \in Jobs
    BY BusyOp DEF RerunCommits, MarkCommits
<1>2. UNCHANGED tenant
    BY DEF RerunCommits, MarkCommits
<1>3. PICK status, done : jobs' = [jobs EXCEPT ![k.job].status = status, ![k.job].done = done]
    BY DEF RerunCommits, MarkCommits
<1> HIDE DEF k
<1> QED
    BY <1>1, <1>2, <1>3, Rows DEF SameRegistry, JobRow, TypeInv, TypeOK

(* Only requests and teardowns touch the registry and the jobs of a slug.   *)
LEMMA NextKeeps ==
    ASSUME TypeInv, [Next]_vars
    PROVE  Requests \/ SameRegistry \/ \E j \in Jobs : \E row : TearsDown(j, row) \/ WipesOnly(j, row)
<1> DEFINE Goal == SameRegistry \/ \E j \in Jobs : \E row : TearsDown(j, row) \/ WipesOnly(j, row)
<1>0. ASSUME UNCHANGED <<tenant, jobs>> PROVE Goal
    BY <1>0 DEF SameRegistry
<1>2. ASSUME NEW j \in Jobs, Task(j) PROVE Goal
    BY <1>0, <1>2, TaskKeeps DEF Task, TaskStart, Dispatch, LookupRun, dbVars
<1>3. ASSUME NEW r \in 1..MaxRuns, GitHub(r) PROVE Goal
    BY <1>0, <1>3 DEF GitHub, PhaseStarts, PhaseSucceeds, PhaseFails, RunCompletes, dbVars
<1>4. CASE Webhooks
    BY <1>0, <1>4, WebhookKeeps DEF Webhooks, WebhookArrives, WebhookFindsNoRow, WebhookAborts, dbVars
<1>5. ASSUME NEW c \in Recs, Reconcile(c) PROVE Goal
    BY <1>0, <1>5, ReconcileKeeps
       DEF Reconcile, ReconcileStart, PollRetry, PollAnswers, ReconcileFindsNoRow, ReconcileAborts, dbVars
<1>6. CASE Operators
    BY <1>0, <1>6, OperatorKeeps DEF Operators, RerunPosts, MarkReads, OpAborts, dbVars
<1>7. CASE Crashes
    BY <1>0, <1>7 DEF Crashes, TaskCrash, ReconcileCrash, dbVars
<1>8. CASE UNCHANGED vars
    BY <1>0, <1>8 DEF vars
<1> QED
    BY <1>2, <1>3, <1>4, <1>5, <1>6, <1>7, <1>8 DEF Next, Steps

LEMMA NextRegistry == TypeInv /\ RegistryInv /\ [Next]_vars => RegistryInv'
BY NextKeeps, RequestRegistry, SameRegistryKeeps, TeardownRegistry, WipeRegistry

LEMMA InitRegistry == Init => TypeInv /\ RegistryInv
<1> SUFFICES ASSUME Init PROVE RegistryInv
    BY InitType
<1>1. /\ \A j \in Jobs : jobs[j] = NewJob
      /\ \A s \in Slugs : tenant[s] = NoTenant
    BY DEF Init
<1> QED
    BY <1>1 DEF RegistryInv, OpenRequests, RegistryMatchesCreateJob, Exists, NewJob, NoTenant

(* What takes a CREATE job away: the teardown takes its registry row too, or *)
(* a second DELETE comes after a first one that found no row.                *)
LEMMA CreateJobGoes ==
    ASSUME TypeInv, RegistryInv, [Next]_vars, NEW j \in Jobs,
           Exists(j), jobs'[j].row = "wiped"
    PROVE  tenant'[jobs[j].slug].by # j \/ Wiping(jobs[j].slug)
<1>1. ~Requests
    BY RequestsTakeNone DEF Exists
<1>2. ~SameRegistry
    BY DEF SameRegistry, Exists
<1>3. PICK i \in Jobs : \E row : TearsDown(i, row) \/ WipesOnly(i, row)
    BY <1>1, <1>2, NextKeeps
<1>4. PICK row : TearsDown(i, row) \/ WipesOnly(i, row)
    BY <1>3
<1>5. Wipe(i, row) /\ row.row = "live"
    BY <1>4 DEF TearsDown, WipesOnly, Teardown
<1>6. jobs[j].slug = row.slug
    BY <1>5 DEF Wipe, Exists
<1>7. CASE TearsDown(i, row)
  <2>1. row.slug \in Slugs
    BY <1>6 DEF RegistryInv, OpenRequests, Exists
  <2>2. tenant'[row.slug].by = Nobody
    BY <1>7, <2>1 DEF TearsDown, Teardown, NoTenant, TypeInv, TypeOK
  <2> QED
    BY <1>6, <2>2, NobodyAssumption
<1>8. CASE WipesOnly(i, row)
    BY <1>6, <1>8 DEF WipesOnly
<1> QED
    BY <1>4, <1>7, <1>8

(* Through every creation, suspension, teardown and re-creation, also those  *)
(* that overlap: a CREATE job is there only with its registry row, a row is   *)
(* of a CREATE job of its slug, and the job goes before its row only by the   *)
(* DESTROY success that found none (offboarding in ingest_event and           *)
(* _reconcile_async).                                                        *)
THEOREM RegistryAlwaysMatches == Spec => RegistryKeepsCreateJob
<1>1. TypeInv /\ RegistryInv /\ [Next]_vars => (TypeInv /\ RegistryInv)'
    BY NextType, NextRegistry
<1>2. RegistryInv => RegistryMatchesCreateJob
    BY DEF RegistryInv
<1>3. TypeInv /\ RegistryInv /\ [Next]_vars =>
        [\A j \in Jobs : /\ Exists(j) /\ jobs[j].kind = "create" /\ jobs'[j].row = "wiped"
                           => tenant'[jobs[j].slug].by # j \/ Wiping(jobs[j].slug)]_vars
    BY CreateJobGoes
<1> QED
    BY InitRegistry, <1>1, <1>2, <1>3, PTL DEF Spec, RegistryKeepsCreateJob, CreateJobGoesWithRow

-----------------------------------------------------------------------------
(* The registry as TenantRegistry sees it.                                  *)
Holder  == [s \in Slugs |-> tenant[s].by]
Serving == [s \in Slugs |-> tenant[s].active]
View    == <<Holder, Serving, Spent>>

LEMMA SameView == ASSUME SameRegistry PROVE UNCHANGED View
BY DEF SameRegistry, View, Holder, Serving, Spent

(* A step that writes one registry row and adds new to the jobs that count. *)
LEMMA OneTenant ==
    ASSUME TypeInv, NEW s \in Slugs, NEW row \in TenantRow, tenant' = [tenant EXCEPT ![s] = row]
    PROVE  Holder' = [Holder EXCEPT ![s] = row.by] /\ Serving' = [Serving EXCEPT ![s] = row.active]
BY DEF Holder, Serving, TypeInv, TypeOK

LEMMA SwitchRefines ==
    ASSUME TypeInv, NEW s \in Slugs, NEW b \in BOOLEAN, tenant[s].by # Nobody, Spent' = Spent,
           tenant' = [tenant EXCEPT ![s].active = b]
    PROVE  Registry!Next \/ UNCHANGED View
<1>1. /\ \A t \in Slugs : tenant'[t].by = tenant[t].by
      /\ tenant'[s].active = b /\ tenant[s].active \in BOOLEAN
      /\ \A t \in Slugs \ {s} : tenant'[t].active = tenant[t].active
    BY Rows DEF TenantRow, TypeInv, TypeOK
<1>2. Holder' = Holder /\ Holder[s] # Nobody
    BY <1>1 DEF Holder
<1>3. CASE b = tenant[s].active
  <2>1. Serving' = Serving
    BY <1>1, <1>3 DEF Serving
  <2> QED
    BY <1>2, <2>1 DEF View
<1>4. CASE b # tenant[s].active
  <2>1. b = ~tenant[s].active
    BY <1>1, <1>4
  <2>2. Serving' = [Serving EXCEPT ![s] = ~Serving[s]]
    BY <1>1, <2>1 DEF Serving
  <2>3. Registry!Switch(s)
    BY <1>2, <2>2 DEF Registry!Switch, Holder, Serving
  <2> QED
    BY <2>3 DEF Registry!Next
<1> QED
    BY <1>3, <1>4

LEMMA RequestRefines ==
    ASSUME TypeInv, RegistryInv, Requests
    PROVE  Registry!Next \/ UNCHANGED View
<1>1. ASSUME NEW j \in Jobs, NEW s \in Slugs, NEW kind \in Kinds, Flush(j, s, kind)
      PROVE  UNCHANGED View
  <2>1. /\ jobs[j].row = "none" /\ jobs'[j].row = "open" /\ UNCHANGED tenant
        /\ \A i \in Jobs \ {j} : jobs'[i] = jobs[i]
    BY <1>1, Rows DEF Flush, JobRow, TypeInv, TypeOK
  <2>2. Spent' = Spent
    BY <2>1 DEF Spent
  <2> QED
    BY <2>1, <2>2 DEF View, Holder, Serving
<1>2. ASSUME NEW j \in Jobs, NEW d \in Asked, CommitRequest(j, d) PROVE Registry!Next \/ UNCHANGED View
  <2> DEFINE s == jobs[j].slug
  <2>1. jobs[j].row = "open" /\ s \in Slugs
    BY <1>2 DEF CommitRequest, RegistryInv, OpenRequests
  <2>2. /\ jobs'[j].row = "live" /\ jobs'[j].kind = jobs[j].kind
        /\ \A i \in Jobs \ {j} : jobs'[i] = jobs[i]
    BY <1>2, Rows DEF CommitRequest, JobRow, TypeInv, TypeOK
  <2>3. CASE jobs[j].kind = "create"
    <3>1. tenant[s].by = Nobody
        BY <2>1, <2>3 DEF RegistryInv, OpenRequests
    <3>2. tenant' = [tenant EXCEPT ![s] = [by |-> j, active |-> TRUE, domain |-> d]]
        BY <1>2, <2>3 DEF CommitRequest
    <3>3. [by |-> j, active |-> TRUE, domain |-> d] \in TenantRow
        BY <1>2 DEF TenantRow, Asked, Domains
    <3>4. Holder' = [Holder EXCEPT ![s] = j] /\ Serving' = [Serving EXCEPT ![s] = TRUE]
        BY <2>1, <3>2, <3>3, OneTenant
    <3>5. j \notin Spent /\ Spent' = Spent \cup {j}
        BY <2>1, <2>2, <2>3 DEF Spent
    <3>6. Holder[s] = Nobody
        BY <2>1, <3>1 DEF Holder
    <3>7. Registry!Open(s, j)
        BY <3>4, <3>5, <3>6 DEF Registry!Open, Holder, Serving
    <3> QED
        BY <2>1, <3>7 DEF Registry!Next
  <2>4. CASE jobs[j].kind # "create"
    <3>1. tenant[s].by # Nobody
        BY <2>1, <2>4 DEF RegistryInv, OpenRequests
    <3>2. tenant' = [tenant EXCEPT ![s].active = FALSE]
        BY <1>2, <2>4 DEF CommitRequest
    <3>3. Spent' = Spent
        BY <2>2, <2>4 DEF Spent
    <3> QED
        BY <2>1, <3>1, <3>2, <3>3, SwitchRefines
  <2> QED
    BY <2>3, <2>4
<1>3. ASSUME NEW j \in Jobs, RollbackRequest(j) PROVE Registry!Next \/ UNCHANGED View
  <2>1. /\ jobs[j].row = "open" /\ jobs'[j].row = "wiped" /\ jobs'[j].kind = jobs[j].kind
        /\ \A i \in Jobs \ {j} : jobs'[i] = jobs[i]
        /\ UNCHANGED tenant
    BY <1>3, Rows DEF RollbackRequest, JobRow, TypeInv, TypeOK
  <2>2. Holder' = Holder /\ Serving' = Serving
    BY <2>1 DEF Holder, Serving
  <2>3. CASE jobs[j].kind = "create"
    <3>1. j \notin Spent /\ Spent' = Spent \cup {j}
        BY <2>1, <2>3 DEF Spent
    <3>2. Registry!Lapse(j)
        BY <2>2, <3>1 DEF Registry!Lapse, Holder, Serving
    <3> QED
        BY <3>2 DEF Registry!Next
  <2>4. CASE jobs[j].kind # "create"
    <3>1. Spent' = Spent
        BY <2>1, <2>4 DEF Spent
    <3> QED
        BY <2>2, <3>1 DEF View
  <2> QED
    BY <2>3, <2>4
<1>4. ASSUME NEW j \in Jobs, NEW s \in Slugs, NEW b \in BOOLEAN, SetActive(j, s, b)
      PROVE  Registry!Next \/ UNCHANGED View
  <2>1. /\ jobs[j].row = "none" /\ jobs'[j].kind \in {"resume", "suspend"}
        /\ \A i \in Jobs \ {j} : jobs'[i] = jobs[i]
    BY <1>4, Rows DEF SetActive, JobRow, TypeInv, TypeOK
  <2>2. Spent' = Spent
    BY <2>1 DEF Spent
  <2> QED
    BY <1>4, <2>2, SwitchRefines DEF SetActive
<1>5. ASSUME NEW s \in Slugs, UpdateTenant(s) PROVE Registry!Next \/ UNCHANGED View
  <2>1. tenant[s].by # Nobody /\ Spent' = Spent /\ tenant[s].active \in BOOLEAN
    BY <1>5, Rows DEF UpdateTenant, Spent, TenantRow
  <2>2. CASE \E d \in Asked : tenant' = [tenant EXCEPT ![s].domain = d]
    <3>1. \A t \in Slugs : tenant'[t].by = tenant[t].by /\ tenant'[t].active = tenant[t].active
        BY <2>2, Rows DEF TenantRow, TypeInv, TypeOK
    <3> QED
        BY <2>1, <3>1 DEF View, Holder, Serving
  <2>3. CASE tenant' = [tenant EXCEPT ![s].active = ~@]
    <3> DEFINE b == ~tenant[s].active
    <3>1. b \in BOOLEAN
        OBVIOUS
    <3>2. tenant' = [tenant EXCEPT ![s] = [tenant[s] EXCEPT !.active = b]]
        BY <2>3, Zenon
    <3> HIDE DEF b
    <3>3. tenant' = [tenant EXCEPT ![s].active = b]
        BY <3>2
    <3> QED
        BY <2>1, <3>1, <3>3, SwitchRefines
  <2> QED
    BY <1>5, <2>2, <2>3 DEF UpdateTenant
<1> QED
    BY <1>1, <1>2, <1>3, <1>4, <1>5 DEF Requests, Answers, CreateTenant, DestroyTenant, Kinds

(* A job that is deleted counts as it did.                                  *)
LEMMA WipeSpent ==
    ASSUME TypeInv, NEW j \in Jobs, NEW row, Wipe(j, row), Exists(j),
           row.row = "live", row.kind = jobs[j].kind
    PROVE  Spent' = Spent
<1>1. \A i \in Jobs : (jobs'[i].row \in {"live", "wiped"} <=> jobs[i].row \in {"live", "wiped"})
                      /\ jobs'[i].kind = jobs[i].kind
    BY Rows DEF Wipe, Exists, JobRow
<1> QED
    BY <1>1 DEF Spent

LEMMA TeardownRefines ==
    ASSUME TypeInv, RegistryInv, NEW j \in Jobs, NEW row, TearsDown(j, row)
    PROVE  Registry!Next
<1> DEFINE s == row.slug
<1>1. s \in Slugs /\ tenant[s].by # Nobody /\ tenant' = [tenant EXCEPT ![s] = NoTenant]
    BY DEF TearsDown, Teardown, RegistryInv, OpenRequests, Exists
<1>2. NoTenant \in TenantRow /\ NoTenant.by = Nobody /\ NoTenant.active = FALSE
    BY DEF NoTenant, TenantRow, Domains
<1>3. Holder' = [Holder EXCEPT ![s] = Nobody] /\ Serving' = [Serving EXCEPT ![s] = FALSE]
    BY <1>1, <1>2, OneTenant
<1>4. Spent' = Spent
    BY WipeSpent DEF TearsDown, Teardown
<1>5. Holder[s] # Nobody
    BY <1>1 DEF Holder
<1>6. Registry!Close(s)
    BY <1>3, <1>4, <1>5 DEF Registry!Close, Holder, Serving
<1> QED
    BY <1>1, <1>6 DEF Registry!Next

LEMMA WipeRefines ==
    ASSUME TypeInv, NEW j \in Jobs, NEW row, WipesOnly(j, row)
    PROVE  UNCHANGED View
BY WipeSpent DEF WipesOnly, View, Holder, Serving

(* Whoever reads tenant_registry may take it for TenantRegistry: every        *)
(* action of requests, tasks, webhooks, reconciler and operators is one of   *)
(* its five, or leaves it alone.                                             *)
THEOREM JobsImplementRegistry == Spec => JobsKeepRegistry
<1> DEFINE Inv == TypeInv /\ RegistryInv
<1>1. Init => Registry!Init
  <2> SUFFICES ASSUME Init PROVE Registry!Init
    OBVIOUS
  <2>1. /\ \A s \in Slugs : tenant[s].by = Nobody /\ tenant[s].active = FALSE
        /\ \A j \in Jobs : jobs[j].row = "none"
    BY DEF Init, NoTenant, NewJob
  <2>2. Spent = {}
    BY <2>1 DEF Spent
  <2> QED
    BY <2>1, <2>2 DEF Registry!Init
<1>2. Inv /\ [Next]_vars => Inv'
    BY NextType, NextRegistry
<1>3. Inv /\ [Next]_vars => [Registry!Next]_View
    BY NextKeeps, RequestRefines, SameView, TeardownRefines, WipeRefines
<1> QED
    BY InitRegistry, <1>1, <1>2, <1>3, PTL
    DEF Spec, JobsKeepRegistry, Registry!Spec, View, Holder, Serving

-----------------------------------------------------------------------------
(* Event rows and custom domains.                                           *)

Told == <<Ingress, "succeeded">>

(* Events go with their row; a row of the registry with a custom_domain that *)
(* a workflow reported has a CREATE job, and as long as that is there, its   *)
(* own ingress phase is shown to have reported it.                           *)
Shown(j) == j \in Jobs /\ (jobs[j].row = "wiped" \/ Told \in events[j])
DomainInv ==
    /\ EventsBelongToRows
    /\ \A s \in Slugs : tenant[s].domain = "reported" => Shown(tenant[s].by)

(* Steps that delete no row, drop no event and report no custom_domain.     *)
LEMMA GrowDomains ==
    ASSUME DomainInv,
           \A i \in Jobs : Exists(i) => jobs'[i].row = "live",
           \A i \in Jobs : jobs[i].row = "wiped" => jobs'[i].row = "wiped",
           \A i \in Jobs : events[i] \subseteq events'[i],
           \A i \in Jobs : events'[i] # {} => events[i] # {} \/ jobs'[i].row = "live",
           \A s \in Slugs : tenant'[s].domain = "reported" =>
               tenant[s].domain = "reported" /\ tenant'[s].by = tenant[s].by
    PROVE  DomainInv'
<1>1. EventsBelongToRows'
    BY DEF DomainInv, EventsBelongToRows, Exists
<1>2. ASSUME NEW s \in Slugs, tenant'[s].domain = "reported"
      PROVE  Shown(tenant[s].by)' /\ tenant'[s].by = tenant[s].by
    BY <1>2 DEF DomainInv, Shown, Told
<1> QED
    BY <1>1, <1>2 DEF DomainInv, Shown, Told

(* What a commit of j makes of the other rows.                              *)
LEMMA CommitRows ==
    ASSUME TypeInv, NEW j \in Jobs, NEW row, row.row = "live",
           Wipe(j, row) \/ jobs' = [jobs EXCEPT ![j] = row]
    PROVE  /\ jobs'[j].row = "live"
           /\ \A i \in Jobs \ {j} : jobs'[i] = jobs[i] \/ jobs'[i].row = "wiped"
<1>1. \A i \in Jobs : [jobs[i] EXCEPT !.row = "wiped"].row = "wiped"
    BY Rows DEF JobRow
<1> QED
    BY <1>1 DEF Wipe, TypeInv, TypeOK

(* A commit that records events of j, and may tear its slug down or write   *)
(* the custom_domain of its registry row.                                   *)
LEMMA CommitDomains ==
    ASSUME TypeInv, DomainInv, NEW j \in Jobs, Exists(j),
           NEW new, EventsAfter(j, new), jobs'[j].row = "live",
           \A i \in Jobs \ {j} : jobs'[i] = jobs[i] \/ jobs'[i].row = "wiped",
           \A s \in Slugs : tenant'[s].domain = "reported" =>
               /\ tenant'[s].by = tenant[s].by
               /\ tenant[s].domain = "reported" \/ (tenant[s].by = j /\ Told \in new)
    PROVE  DomainInv'
<1>1. \A i \in Jobs : events'[i] = IF jobs'[i].row = "wiped" THEN {}
                                   ELSE IF i = j THEN events[i] \cup new ELSE events[i]
    BY DEF EventsAfter
<1>2. EventsBelongToRows'
    BY <1>1 DEF DomainInv, EventsBelongToRows, Exists
<1>3. ASSUME NEW i \in Jobs, Shown(i) \/ (i = j /\ Told \in new)
      PROVE  jobs'[i].row = "wiped" \/ Told \in events'[i]
    <2>1. CASE i = j
        BY <1>1, <1>3, <2>1 DEF Shown, Exists
    <2>2. CASE i # j
        BY <1>1, <1>3, <2>2 DEF Shown
    <2> QED
        BY <2>1, <2>2
<1>4. ASSUME NEW s \in Slugs, tenant'[s].domain = "reported"
      PROVE  Shown(tenant[s].by)' /\ tenant'[s].by = tenant[s].by
    <2>1. PICK i : i = tenant[s].by
        OBVIOUS
    <2>2. i \in Jobs /\ (Shown(i) \/ (i = j /\ Told \in new))
        BY <1>4, <2>1 DEF DomainInv, Shown
    <2>3. jobs'[i].row = "wiped" \/ Told \in events'[i]
        BY <1>3, <2>2
    <2> QED
        BY <1>4, <2>1, <2>2, <2>3 DEF Shown, Told
<1> QED
    BY <1>2, <1>4 DEF DomainInv, Shown, Told

LEMMA RequestDomains ==
    ASSUME TypeInv, RegistryInv, DomainInv, Requests
    PROVE  DomainInv'
<1>1. UNCHANGED events
    <2>1. ASSUME NEW j \in Jobs, NEW s \in Slugs, NEW kind, Flush(j, s, kind) PROVE UNCHANGED events
        BY <2>1 DEF Flush
    <2>2. ASSUME NEW j \in Jobs, NEW s \in Slugs, NEW b \in BOOLEAN, SetActive(j, s, b)
          PROVE  UNCHANGED events
        BY <2>2 DEF SetActive
    <2>3. ASSUME NEW j \in Jobs, Answers(j) PROVE UNCHANGED events
        BY <2>3 DEF Answers, CommitRequest, RollbackRequest
    <2>4. ASSUME NEW s \in Slugs, UpdateTenant(s) PROVE UNCHANGED events
        BY <2>4 DEF UpdateTenant
    <2> QED
        BY <2>1, <2>2, <2>3, <2>4 DEF Requests, CreateTenant, DestroyTenant
<1>2. \A i \in Jobs : Exists(i) => jobs'[i].row = "live"
    BY RequestsTakeNone DEF Exists
<1>3. \A i \in Jobs : jobs[i].row = "wiped" => jobs'[i].row = "wiped"
    BY RequestRow DEF RowSteps, RowStep
<1>4. \A s \in Slugs : tenant'[s].domain = "reported" =>
          tenant[s].domain = "reported" /\ tenant'[s].by = tenant[s].by
    <2>0. ASSUME UNCHANGED tenant, NEW s \in Slugs, tenant'[s].domain = "reported"
          PROVE  tenant[s].domain = "reported" /\ tenant'[s].by = tenant[s].by
        BY <2>0
    <2>1. ASSUME NEW i \in Jobs, NEW d \in Asked, CommitRequest(i, d),
                 NEW s \in Slugs, tenant'[s].domain = "reported"
          PROVE  tenant[s].domain = "reported" /\ tenant'[s].by = tenant[s].by
        BY <2>1, Rows DEF CommitRequest, Asked, TenantRow, TypeInv, TypeOK
    <2>2. ASSUME NEW i \in Jobs, NEW t \in Slugs, NEW b \in BOOLEAN, SetActive(i, t, b),
                 NEW s \in Slugs, tenant'[s].domain = "reported"
          PROVE  tenant[s].domain = "reported" /\ tenant'[s].by = tenant[s].by
        BY <2>2, Rows DEF SetActive, TenantRow, TypeInv, TypeOK
    <2>3. ASSUME NEW t \in Slugs, UpdateTenant(t), NEW s \in Slugs, tenant'[s].domain = "reported"
          PROVE  tenant[s].domain = "reported" /\ tenant'[s].by = tenant[s].by
        <3>1. CASE \E d \in Asked : tenant' = [tenant EXCEPT ![t].domain = d]
            BY <2>3, <3>1, Rows DEF Asked, TenantRow, TypeInv, TypeOK
        <3>2. CASE tenant' = [tenant EXCEPT ![t].active = ~@]
            <4>1. tenant'[s].domain = tenant[s].domain /\ tenant'[s].by = tenant[s].by
                BY <3>2, Rows DEF TenantRow, TypeInv, TypeOK
            <4> QED
                BY <2>3, <4>1
        <3> QED
            BY <2>3, <3>1, <3>2 DEF UpdateTenant
    <2>4. ASSUME NEW i \in Jobs, RollbackRequest(i) \/ \E s \in Slugs, kind \in Kinds : Flush(i, s, kind)
          PROVE  UNCHANGED tenant
        BY <2>4 DEF Flush, RollbackRequest
    <2> QED
        BY <2>0, <2>1, <2>2, <2>3, <2>4 DEF Requests, CreateTenant, DestroyTenant, Answers, Kinds
<1> QED
    BY <1>1, <1>2, <1>3, <1>4, GrowDomains

LEMMA WebhookDomains ==
    ASSUME TypeInv, RegistryInv, DomainInv, NEW h \in Hooks, WebhookCommits(h) \/ WebhookWipes(h)
    PROVE  DomainInv'
<1> DEFINE k == hook[h]
           row == HookRow(k)
           new == {<<k.phase, k.event>>}
<1>1. k.job \in Jobs /\ Exists(k.job)
    BY Rows DEF WebhookCommits, WebhookWipes, HookState, IdleHook
<1>2. row.row = "live" /\ row.slug = jobs[k.job].slug /\ row.kind = jobs[k.job].kind
    BY <1>1, Rows DEF HookRow, JobRow, Exists
<1>3. jobs[k.job].slug \in Slugs
    BY <1>1 DEF RegistryInv, OpenRequests, Exists
<1>4. \/ Teardown(k.job, row)
      \/ /\ Wipe(k.job, row) \/ jobs' = [jobs EXCEPT ![k.job] = row]
         /\ \/ UNCHANGED tenant
            \/ /\ k.event = "succeeded" /\ k.phase = Ingress /\ row.kind = "create"
               /\ tenant' = [tenant EXCEPT ![row.slug].domain = "reported"]
    BY DEF WebhookCommits, WebhookWipes
<1>5. EventsAfter(k.job, new)
    BY DEF WebhookCommits, WebhookWipes
<1> HIDE DEF k, row, new
<1>6. ASSUME k.event = "succeeded", k.phase = Ingress, row.kind = "create",
             tenant' = [tenant EXCEPT ![row.slug].domain = "reported"],
             NEW s \in Slugs, tenant'[s].domain = "reported"
      PROVE  /\ tenant'[s].by = tenant[s].by
             /\ tenant[s].domain = "reported" \/ (tenant[s].by = k.job /\ Told \in new)
    <2>1. Told \in new
        BY <1>6 DEF Told, new
    <2>2. tenant[row.slug].by = k.job
        BY <1>1, <1>2, <1>6 DEF RegistryInv, RegistryMatchesCreateJob
    <2>3. tenant'[s].by = tenant[s].by /\ (tenant[s].domain = "reported" \/ s = row.slug)
        BY <1>6, Rows DEF TenantRow, TypeInv, TypeOK
    <2> QED
        BY <2>1, <2>2, <2>3
<1>7. ASSUME Teardown(k.job, row), NEW s \in Slugs, tenant'[s].domain = "reported"
      PROVE  tenant'[s] = tenant[s]
    BY <1>7 DEF Teardown, NoTenant, TypeInv, TypeOK
<1>8. Wipe(k.job, row) \/ jobs' = [jobs EXCEPT ![k.job] = row]
    BY <1>4 DEF Teardown
<1>9. \A s \in Slugs : tenant'[s].domain = "reported" =>
          /\ tenant'[s].by = tenant[s].by
          /\ tenant[s].domain = "reported" \/ (tenant[s].by = k.job /\ Told \in new)
    BY <1>4, <1>6, <1>7
<1> QED
    BY <1>1, <1>2, <1>5, <1>8, <1>9, CommitRows, CommitDomains

LEMMA ReconcileDomains ==
    ASSUME TypeInv, DomainInv, NEW c \in Recs, ReconcileCommits(c) \/ ReconcileWipes(c)
    PROVE  DomainInv'
<1> DEFINE k == rec[c]
           row == RecRow(k)
<1>1. k.job \in Jobs /\ Exists(k.job)
    BY BusyRec DEF ReconcileCommits, ReconcileWipes
<1>2. row.row = "live"
    BY <1>1, Rows DEF RecRow, JobRow, Exists
<1>3. /\ Wipe(k.job, row) \/ jobs' = [jobs EXCEPT ![k.job] = row]
      /\ UNCHANGED tenant \/ tenant' = [tenant EXCEPT ![row.slug] = NoTenant]
    BY DEF ReconcileCommits, ReconcileWipes, Teardown
<1>4. PICK new : EventsAfter(k.job, new)
    BY DEF ReconcileCommits, ReconcileWipes
<1> HIDE DEF k, row
<1>5. \A s \in Slugs : tenant'[s].domain = "reported" => tenant'[s] = tenant[s]
    BY <1>3 DEF NoTenant, TypeInv, TypeOK
<1> QED
    BY <1>1, <1>2, <1>3, <1>4, <1>5, CommitRows, CommitDomains

(* Columns of one row that say nothing of its existence.                    *)
LEMMA SameRows ==
    ASSUME TypeInv, NEW j \in Jobs, NEW row, row.row = jobs[j].row,
           jobs' = [jobs EXCEPT ![j] = row] \/ UNCHANGED jobs
    PROVE  \A i \in Jobs : jobs'[i].row = jobs[i].row
BY DEF TypeInv, TypeOK

LEMMA TaskDomains ==
    ASSUME TypeInv, DomainInv, NEW j \in Jobs, SaveRun(j) \/ DispatchFailed(j)
    PROVE  DomainInv'
<1>1. UNCHANGED <<tenant, events>>
    BY DEF SaveRun, DispatchFailed
<1>2. PICK row : /\ \/ \E status, run : row = [jobs[j] EXCEPT !.status = status, !.run = run]
                    \/ \E status, done : row = [jobs[j] EXCEPT !.status = status, !.done = done]
                 /\ jobs' = [jobs EXCEPT ![j] = row] \/ UNCHANGED jobs
    BY DEF SaveRun, DispatchFailed, TaskCommit
<1>3. row.row = jobs[j].row
    BY <1>2, Rows DEF JobRow
<1>4. \A i \in Jobs : jobs'[i].row = jobs[i].row
    BY <1>2, <1>3, SameRows
<1> QED
    BY <1>1, <1>4, GrowDomains DEF Exists

LEMMA PollDomains ==
    ASSUME TypeInv, DomainInv, NEW c \in Recs, PollRetry(c)
    PROVE  DomainInv'
<1>1. UNCHANGED <<tenant, jobs>>
    BY DEF PollRetry
<1>2. rec[c].job \in Jobs
    BY BusyRec DEF PollRetry
<1>3. \/ UNCHANGED events
      \/ /\ Exists(rec[c].job)
         /\ events' = [events EXCEPT ![rec[c].job] = @ \cup Synthesized(rec[c].run)]
    BY DEF PollRetry
<1>4. \A i \in Jobs : events[i] \subseteq events'[i] /\ (events'[i] # {} => events[i] # {} \/ Exists(i))
    BY <1>2, <1>3 DEF TypeInv, TypeOK
<1> QED
    BY <1>1, <1>4, GrowDomains DEF Exists

LEMMA OperatorDomains ==
    ASSUME TypeInv, DomainInv, NEW o \in Ops, RerunCommits(o) \/ MarkCommits(o)
    PROVE  DomainInv'
<1> DEFINE k == op[o]
<1>1. k.job \in Jobs /\ Exists(k.job)
    BY BusyOp DEF RerunCommits, MarkCommits
<1>2. UNCHANGED tenant
    BY DEF RerunCommits, MarkCommits
<1>3. PICK status, done : jobs' = [jobs EXCEPT ![k.job].status = status, ![k.job].done = done]
    BY DEF RerunCommits, MarkCommits
<1>4. UNCHANGED events \/ events' = [events EXCEPT ![k.job] = @ \cup {<<Report, "succeeded">>}]
    BY DEF RerunCommits, MarkCommits
<1> HIDE DEF k
<1>5. \A i \in Jobs : jobs'[i].row = jobs[i].row
    BY <1>1, <1>3, Rows DEF JobRow, TypeInv, TypeOK
<1>6. \A i \in Jobs : events[i] \subseteq events'[i] /\ (events'[i] # {} => events[i] # {} \/ Exists(i))
    BY <1>1, <1>4 DEF TypeInv, TypeOK
<1> QED
    BY <1>2, <1>5, <1>6, GrowDomains DEF Exists

LEMMA NextDomains == TypeInv /\ RegistryInv /\ DomainInv /\ [Next]_vars => DomainInv'
<1> SUFFICES ASSUME TypeInv, RegistryInv, DomainInv, [Next]_vars PROVE DomainInv'
    OBVIOUS
<1>0. ASSUME UNCHANGED dbVars PROVE DomainInv'
    BY <1>0, GrowDomains DEF dbVars, Exists
<1>1. CASE Requests
    BY <1>1, RequestDomains
<1>2. ASSUME NEW j \in Jobs, Task(j) PROVE DomainInv'
    BY <1>0, <1>2, TaskDomains DEF Task, TaskStart, Dispatch, LookupRun
<1>3. ASSUME NEW r \in 1..MaxRuns, GitHub(r) PROVE DomainInv'
    BY <1>0, <1>3 DEF GitHub, PhaseStarts, PhaseSucceeds, PhaseFails, RunCompletes
<1>4. CASE Webhooks
    BY <1>0, <1>4, WebhookDomains DEF Webhooks, WebhookArrives, WebhookFindsNoRow, WebhookAborts
<1>5. ASSUME NEW c \in Recs, Reconcile(c) PROVE DomainInv'
    BY <1>0, <1>5, PollDomains, ReconcileDomains
       DEF Reconcile, ReconcileStart, PollAnswers, ReconcileFindsNoRow, ReconcileAborts
<1>6. CASE Operators
    BY <1>0, <1>6, OperatorDomains DEF Operators, RerunPosts, MarkReads, OpAborts
<1>7. CASE Crashes
    BY <1>0, <1>7 DEF Crashes, TaskCrash, ReconcileCrash
<1>8. CASE UNCHANGED vars
    BY <1>0, <1>8 DEF vars, dbVars
<1> QED
    BY <1>1, <1>2, <1>3, <1>4, <1>5, <1>6, <1>7, <1>8 DEF Next, Steps

LEMMA DomainsHold == Spec => [](EventsBelongToRows /\ DomainOfItsTenant)
<1> DEFINE Inv == TypeInv /\ RegistryInv /\ DomainInv
<1>1. Init => Inv
    <2> SUFFICES ASSUME Init PROVE RegistryInv /\ DomainInv
        BY InitType
    <2>1. /\ \A j \in Jobs : jobs[j] = NewJob /\ events[j] = {}
          /\ \A s \in Slugs : tenant[s] = NoTenant
        BY DEF Init
    <2>2. RegistryInv
        BY <2>1 DEF RegistryInv, OpenRequests, RegistryMatchesCreateJob, Exists, NewJob, NoTenant
    <2> QED
        BY <2>1, <2>2 DEF DomainInv, EventsBelongToRows, Shown, NoTenant
<1>2. Inv /\ [Next]_vars => Inv'
    BY NextType, NextRegistry, NextDomains
<1>3. Inv => EventsBelongToRows /\ DomainOfItsTenant
    BY DEF DomainInv, DomainOfItsTenant, Shown, Told, Exists
<1> QED
    BY <1>1, <1>2, <1>3, PTL DEF Spec

(* No event row outlives its job: what a webhook or a reconcile pass in     *)
(* flight across a teardown records is rolled back or cascaded away         *)
(* (ingest_event, _reconcile_async).                                        *)
THEOREM EventsAlwaysBelongToRows == Spec => []EventsBelongToRows
BY DomainsHold, PTL

(* A late webhook of an earlier CREATE of the slug never names the domain   *)
(* of the tenant created after it, whatever operators ask for themselves    *)
(* (ingest_event, create_tenant, update_tenant).                            *)
THEOREM DomainAlwaysOfItsTenant == Spec => []DomainOfItsTenant
BY DomainsHold, PTL

(* Rows that belong together stay together: no event of a deleted job, no    *)
(* domain reported to another life of the slug (provisioning_workflow.py     *)
(* :256-316, the cascade of provisioning_job_events).                        *)
THEOREM RowsAlwaysInStep == Spec => []RowsInStep
<1>1. EventsBelongToRows /\ DomainOfItsTenant => RowsInStep
    BY DEF RowsInStep
<1> QED
    BY <1>1, DomainsHold, PTL

-----------------------------------------------------------------------------
(* What a final status rests on.                                            *)

(* A row that no one but its request sees is pending and has no run; the    *)
(* dispatch task runs before the run is linked, and only once; a webhook    *)
(* request in flight was sent; a reconcile pass polls the run of its job,   *)
(* and a success it was answered is still the run's conclusion.             *)
FreshRows ==
    \A j \in Jobs : jobs[j].row \in {"none", "open"} =>
        jobs[j].status = "pending" /\ jobs[j].run = NoRun
TaskUnlinked ==
    \A j \in Jobs : worker[j].pc # "none" /\ Exists(j) => jobs[j].run = NoRun
HooksWereSent ==
    \A h \in Hooks : hook[h].pc # "idle" =>
        [job |-> hook[h].job, phase |-> hook[h].phase, status |-> hook[h].event] \in net
PollsItsRun ==
    \A c \in Recs : rec[c].pc \in {"read", "answered", "wiping"} =>
        /\ jobs[rec[c].job].run = rec[c].run /\ rec[c].run # NoRun
        /\ rec[c].pc # "read" /\ rec[c].answer = "success" => runs[rec[c].run].end = "success"

LinkInv     == FreshRows /\ TaskUnlinked /\ HooksWereSent /\ PollsItsRun
EvidenceInv == LinkInv /\ SuccessHasEvidence

(* GitHub takes nothing back: a webhook stays sent, a run keeps its id and a *)
(* successful run is never re-run.                                          *)
GitHubSteps ==
    /\ net \subseteq net'
    /\ Len(runs) <= Len(runs')
    /\ \A r \in 1..Len(runs) : runs[r].end = "success" => runs'[r].end = "success"

LEMMA NextGitHub == TypeInv /\ [Next]_vars => GitHubSteps
<1> SUFFICES ASSUME TypeInv, [Next]_vars PROVE GitHubSteps
    OBVIOUS
<1> runs \in Seq(Run) /\ Len(runs) \in Nat
    BY DEF TypeInv, TypeOK
<1>0. ASSUME UNCHANGED ghVars PROVE GitHubSteps
    BY <1>0 DEF ghVars, GitHubSteps
<1>1. CASE Requests
    <2>1. ASSUME NEW j \in Jobs, NEW s \in Slugs, NEW kind, Flush(j, s, kind) PROVE UNCHANGED ghVars
        BY <2>1 DEF Flush
    <2>2. ASSUME NEW j \in Jobs, NEW s \in Slugs, NEW b \in BOOLEAN, SetActive(j, s, b)
          PROVE  UNCHANGED ghVars
        BY <2>2 DEF SetActive
    <2>3. ASSUME NEW j \in Jobs, Answers(j) PROVE UNCHANGED ghVars
        BY <2>3 DEF Answers, CommitRequest, RollbackRequest
    <2>4. ASSUME NEW s \in Slugs, UpdateTenant(s) PROVE UNCHANGED ghVars
        BY <2>4 DEF UpdateTenant
    <2> QED
        BY <1>0, <1>1, <2>1, <2>2, <2>3, <2>4 DEF Requests, CreateTenant, DestroyTenant
<1>2. ASSUME NEW j \in Jobs, Task(j) PROVE GitHubSteps
    <2>1. CASE Dispatch(j)
        <3> DEFINE new == [kind |-> jobs[j].kind, job |-> j, pos |-> 0, end |-> "running"]
        <3>1. runs' = Append(runs, new) \/ runs' = runs
            BY <2>1 DEF Dispatch
        <3>2. UNCHANGED net
            BY <2>1 DEF Dispatch
        <3>3. new \in Run
            BY <1>2, Rows, PhasesAssumption DEF JobRow, Run
        <3> HIDE DEF new
        <3>4. Len(runs) <= Len(runs') /\ \A r \in 1..Len(runs) : runs'[r] = runs[r]
            BY <3>1, <3>3, AppendProperties
        <3> QED
            BY <3>2, <3>4 DEF GitHubSteps
    <2> QED
        BY <1>0, <1>2, <2>1 DEF Task, TaskStart, LookupRun, SaveRun, DispatchFailed
<1>3. ASSUME NEW r \in 1..MaxRuns, GitHub(r) PROVE GitHubSteps
    <2>1. r \in 1..Len(runs) /\ runs[r].end = "running"
        BY <1>3, Rows DEF GitHub, PhaseStarts, PhaseSucceeds, PhaseFails, RunCompletes, Running
    <2>2. net \subseteq net'
        BY <1>3 DEF GitHub, PhaseStarts, PhaseSucceeds, PhaseFails, RunCompletes, Send
    <2>3. \E run : runs' = [runs EXCEPT ![r] = run]
        BY <1>3 DEF GitHub, PhaseStarts, PhaseSucceeds, PhaseFails, RunCompletes
    <2>4. Len(runs') = Len(runs) /\ \A q \in 1..Len(runs) : q # r => runs'[q] = runs[q]
        BY <2>3, Rows
    <2> QED
        BY <2>1, <2>2, <2>4 DEF GitHubSteps
<1>4. CASE Webhooks
    BY <1>0, <1>4 DEF Webhooks, WebhookArrives, WebhookCommits, WebhookFindsNoRow, WebhookWipes,
       WebhookAborts
<1>5. ASSUME NEW c \in Recs, Reconcile(c) PROVE GitHubSteps
    BY <1>0, <1>5 DEF Reconcile, ReconcileStart, PollRetry, PollAnswers, ReconcileCommits,
       ReconcileFindsNoRow, ReconcileWipes, ReconcileAborts
<1>6. CASE Operators
    <2>1. ASSUME NEW o \in Ops, NEW j \in Jobs, RerunPosts(o, j) PROVE GitHubSteps
        <3> DEFINE r == jobs[j].run
        <3>1. r \in 1..Len(runs) /\ runs[r].end # "success"
            BY <2>1, Rows DEF RerunPosts, JobRow, NoRun, TypeInv, RunsLinked
        <3>2. runs' = [runs EXCEPT ![r].end = "running"] /\ net' = net
            BY <2>1 DEF RerunPosts
        <3> HIDE DEF r
        <3>3. Len(runs') = Len(runs) /\ \A q \in 1..Len(runs) : q # r => runs'[q] = runs[q]
            BY <3>2, Rows
        <3> QED
            BY <3>1, <3>2, <3>3 DEF GitHubSteps
    <2> QED
        BY <1>0, <1>6, <2>1 DEF Operators, RerunCommits, MarkReads, MarkCommits, OpAborts
<1>7. CASE Crashes
    BY <1>0, <1>7 DEF Crashes, TaskCrash, ReconcileCrash
<1>8. CASE UNCHANGED vars
    BY <1>0, <1>8 DEF vars, ghVars
<1> QED
    BY <1>1, <1>2, <1>3, <1>4, <1>5, <1>6, <1>7, <1>8 DEF Next, Steps

(* What a step may do to the references of a job: the dispatch task's last   *)
(* commit links the run and ends the task, nothing else writes the run, and  *)
(* a task is only queued by the request that inserts the job.               *)
LinkStep(j) ==
    /\ jobs'[j].run = jobs[j].run \/ (Exists(j) /\ worker[j].pc # "none" /\ worker'[j].pc = "none")
    /\ worker'[j].pc # "none" => worker[j].pc # "none" \/ jobs'[j].row = "open"
LinkSteps == \A j \in Jobs : LinkStep(j)

LEMMA RequestLinks == TypeInv /\ Requests => LinkSteps
<1> SUFFICES ASSUME TypeInv, Requests PROVE LinkSteps
    OBVIOUS
<1> USE DEF LinkSteps, LinkStep, TypeInv, TypeOK
<1>1. ASSUME NEW j \in Jobs, NEW s \in Slugs, NEW kind \in Kinds, Flush(j, s, kind)
      PROVE  LinkSteps
    BY <1>1, Rows DEF Flush, JobRow, TaskState
<1>2. ASSUME NEW j \in Jobs, NEW d, CommitRequest(j, d) PROVE LinkSteps
    BY <1>2, Rows DEF CommitRequest, JobRow
<1>3. ASSUME NEW j \in Jobs, RollbackRequest(j) PROVE LinkSteps
    BY <1>3, Rows DEF RollbackRequest, JobRow
<1>4. ASSUME NEW j \in Jobs, NEW s \in Slugs, NEW b \in BOOLEAN, SetActive(j, s, b)
      PROVE  LinkSteps
    BY <1>4, Rows DEF SetActive, JobRow
<1>5. ASSUME NEW s \in Slugs, UpdateTenant(s) PROVE LinkSteps
    BY <1>5 DEF UpdateTenant
<1> QED
    BY <1>1, <1>2, <1>3, <1>4, <1>5 DEF Requests, Answers, CreateTenant, DestroyTenant, Kinds

LEMMA CommitLinks ==
    ASSUME TypeInv, NEW j \in Jobs, NEW row, TaskCommit(j, row), worker[j].pc # "none",
           Exists(j) => row.run = jobs[j].run \/ worker[j].pc = "save"
    PROVE  LinkSteps
<1>1. CASE Exists(j)
    <2>1. jobs' = [jobs EXCEPT ![j] = row] /\ worker' = [worker EXCEPT ![j] = IdleTask]
        BY <1>1 DEF TaskCommit
    <2> QED
        BY <1>1, <2>1 DEF LinkSteps, LinkStep, TypeInv, TypeOK, IdleTask
<1>2. CASE ~Exists(j)
    <2>1. jobs' = jobs /\ worker' = [worker EXCEPT ![j] = [IdleTask EXCEPT !.pc = "queued"]]
        BY <1>2 DEF TaskCommit
    <2> QED
        BY <2>1 DEF LinkSteps, LinkStep, TypeInv, TypeOK
<1> QED
    BY <1>1, <1>2

LEMMA TaskLinks ==
    ASSUME TypeInv, NEW j \in Jobs, Task(j)
    PROVE  LinkSteps
<1>1. CASE SaveRun(j)
    <2>1. \E row : TaskCommit(j, row)
        BY <1>1 DEF SaveRun
    <2>2. worker[j].pc = "save"
        BY <1>1 DEF SaveRun
    <2> QED
        BY <2>1, <2>2, CommitLinks
<1>2. CASE DispatchFailed(j)
    <2> DEFINE row == [jobs[j] EXCEPT !.status = Column(worker[j].status, "failed", @),
                                      !.done = TRUE]
    <2>1. TaskCommit(j, row) /\ worker[j].pc = "fail"
        BY <1>2 DEF DispatchFailed
    <2>2. row.run = jobs[j].run
        BY Rows DEF JobRow
    <2> HIDE DEF row
    <2> QED
        BY <2>1, <2>2, CommitLinks
<1>3. CASE TaskStart(j) \/ Dispatch(j) \/ LookupRun(j)
    <2>1. UNCHANGED jobs /\ worker[j].pc # "none" /\ \A i \in Jobs : i # j => worker'[i] = worker[i]
        BY <1>3 DEF TaskStart, Dispatch, LookupRun, dbVars, TypeInv, TypeOK
    <2> QED
        BY <2>1 DEF LinkSteps, LinkStep
<1> QED
    BY <1>1, <1>2, <1>3 DEF Task

LEMMA PutLinks ==
    ASSUME TypeInv, NEW j \in Jobs, NEW row, row.run = jobs[j].run,
           Wipe(j, row) \/ jobs' = [jobs EXCEPT ![j] = row], UNCHANGED worker
    PROVE  LinkSteps
<1>1. CASE Wipe(j, row)
    <2>1. jobs' = [i \in Jobs |-> IF i = j THEN row
                                  ELSE IF jobs[i].row = "live" /\ jobs[i].slug = row.slug
                                       THEN [jobs[i] EXCEPT !.row = "wiped"]
                                       ELSE jobs[i]]
        BY <1>1 DEF Wipe
    <2> QED
        BY <2>1, Rows DEF LinkSteps, LinkStep, JobRow
<1>2. CASE jobs' = [jobs EXCEPT ![j] = row]
    BY <1>2 DEF LinkSteps, LinkStep, TypeInv, TypeOK
<1> QED
    BY <1>1, <1>2

LEMMA NextLinks == TypeInv /\ [Next]_vars => LinkSteps
<1> SUFFICES ASSUME TypeInv, [Next]_vars PROVE LinkSteps
    OBVIOUS
<1>0. ASSUME UNCHANGED <<jobs, worker>> PROVE LinkSteps
    BY <1>0 DEF LinkSteps, LinkStep
<1>1. CASE Requests
    BY <1>1, RequestLinks
<1>2. ASSUME NEW j \in Jobs, Task(j) PROVE LinkSteps
    BY <1>2, TaskLinks
<1>3. ASSUME NEW r \in 1..MaxRuns, GitHub(r) PROVE LinkSteps
    BY <1>0, <1>3 DEF GitHub, PhaseStarts, PhaseSucceeds, PhaseFails, RunCompletes, dbVars
<1>4. CASE Webhooks
    <2>1. ASSUME NEW h \in Hooks, WebhookCommits(h) \/ WebhookWipes(h) PROVE LinkSteps
        <3>1. hook[h].pc # "idle"
            BY <2>1 DEF WebhookCommits, WebhookWipes
        <3>2. hook[h].job \in Jobs /\ HookRow(hook[h]).run = jobs[hook[h].job].run
            BY <3>1, HookRowType
        <3>3. /\ \/ Wipe(hook[h].job, HookRow(hook[h]))
                 \/ jobs' = [jobs EXCEPT ![hook[h].job] = HookRow(hook[h])]
              /\ UNCHANGED worker
            BY <2>1 DEF WebhookCommits, WebhookWipes, Teardown
        <3> QED
            BY <3>2, <3>3, PutLinks
    <2> QED
        BY <1>0, <1>4, <2>1 DEF Webhooks, WebhookArrives, WebhookFindsNoRow, WebhookAborts, dbVars
<1>5. ASSUME NEW c \in Recs, Reconcile(c) PROVE LinkSteps
    <2>1. CASE ReconcileCommits(c) \/ ReconcileWipes(c)
        <3> DEFINE k == rec[c]
                   row == RecRow(k)
        <3>1. k.job \in Jobs
            BY <2>1, BusyRec DEF ReconcileCommits, ReconcileWipes
        <3>2. row.run = jobs[k.job].run
            BY <3>1, Rows DEF RecRow, JobRow
        <3>3. (Wipe(k.job, row) \/ jobs' = [jobs EXCEPT ![k.job] = row]) /\ UNCHANGED worker
            BY <2>1 DEF ReconcileCommits, ReconcileWipes, Teardown
        <3> HIDE DEF row, k
        <3> QED
            BY <3>1, <3>2, <3>3, PutLinks
    <2> QED
        BY <1>0, <1>5, <2>1
           DEF Reconcile, ReconcileStart, PollRetry, PollAnswers, ReconcileFindsNoRow,
               ReconcileAborts, dbVars
<1>6. CASE Operators
    <2>1. ASSUME NEW o \in Ops, RerunCommits(o) \/ MarkCommits(o) PROVE LinkSteps
        <3> DEFINE k == op[o]
        <3>1. k.job \in Jobs /\ UNCHANGED worker
            BY <2>1, BusyOp DEF RerunCommits, MarkCommits
        <3>2. \E status, done : jobs' = [jobs EXCEPT ![k.job].status = status, ![k.job].done = done]
            BY <2>1 DEF RerunCommits, MarkCommits
        <3> HIDE DEF k
        <3>3. \A j \in Jobs : jobs'[j].run = jobs[j].run
            BY <3>1, <3>2, Rows DEF TypeInv, TypeOK, JobRow
        <3> QED
            BY <3>1, <3>3 DEF LinkSteps, LinkStep
    <2> QED
        BY <1>0, <1>6, <2>1 DEF Operators, RerunPosts, MarkReads, OpAborts, dbVars
<1>7. CASE Crashes
    <2>1. ASSUME NEW j \in Jobs, TaskCrash(j) PROVE LinkSteps
        BY <2>1 DEF TaskCrash, LinkSteps, LinkStep, IdleTask, dbVars, TypeInv, TypeOK
    <2> QED
        BY <1>0, <1>7, <2>1 DEF Crashes, ReconcileCrash, dbVars
<1>8. CASE UNCHANGED vars
    BY <1>0, <1>8 DEF vars
<1> QED
    BY <1>1, <1>2, <1>3, <1>4, <1>5, <1>6, <1>7, <1>8 DEF Next, Steps

(* The references, step by step.                                            *)
LEMMA NextFreshRows ==
    ASSUME TypeInv, TypeInv', LinkInv, LinkSteps, RowSteps
    PROVE  FreshRows' /\ TaskUnlinked'
<1> USE DEF LinkInv, LinkSteps, LinkStep, RowSteps, RowStep, Exists
<1>1. FreshRows'
    BY DEF FreshRows
<1>2. TaskUnlinked'
    BY DEF FreshRows, TaskUnlinked
<1> QED
    BY <1>1, <1>2

LEMMA NextHooks ==
    ASSUME TypeInv, HooksWereSent, [Next]_vars
    PROVE  HooksWereSent'
<1>1. net \subseteq net'
    BY NextGitHub DEF GitHubSteps
<1>0. ASSUME UNCHANGED hook PROVE HooksWereSent'
    BY <1>0, <1>1 DEF HooksWereSent
<1>2. CASE Webhooks
    <2>1. ASSUME NEW h \in Hooks, NEW m \in net, WebhookArrives(h, m) PROVE HooksWereSent'
        <3>1. m \in Webhook
            BY DEF TypeInv, TypeOK
        <3>2. m = [job |-> m.job, phase |-> m.phase, status |-> m.status]
            BY <3>1 DEF Webhook
        <3>3. hook' = [hook EXCEPT ![h] = [pc |-> "read", job |-> m.job, phase |-> m.phase,
                                    event |-> m.status, status |-> jobs[m.job].status,
                                    at |-> jobs[m.job].phase]]
            BY <2>1 DEF WebhookArrives
        <3>4. hook'[h].job = m.job /\ hook'[h].phase = m.phase /\ hook'[h].event = m.status
            BY <3>3 DEF TypeInv, TypeOK
        <3>5. \A g \in Hooks : g # h => hook'[g] = hook[g]
            BY <3>3 DEF TypeInv, TypeOK
        <3> QED
            BY <1>1, <3>2, <3>4, <3>5 DEF HooksWereSent
    <2>2. ASSUME NEW h \in Hooks, WebhookCommits(h) \/ WebhookWipes(h) \/ WebhookAborts(h)
          PROVE  HooksWereSent'
        <3>1. hook' = [hook EXCEPT ![h] = IdleHook]
            BY <2>2 DEF WebhookCommits, WebhookWipes, WebhookAborts
        <3> QED
            BY <1>1, <3>1 DEF HooksWereSent, IdleHook, TypeInv, TypeOK
    <2>3. ASSUME NEW h \in Hooks, WebhookFindsNoRow(h) PROVE HooksWereSent'
        <3> DEFINE k == hook[h]
        <3>1. k.pc # "idle" /\ hook' = [hook EXCEPT ![h].pc = "wiping"]
            BY <2>3 DEF WebhookFindsNoRow
        <3>2. k \in [pc : {"read", "wiping"}, job : Jobs, phase : Phase, event : EventStatus,
                     status : Status, at : 0..NumPhases]
            BY <3>1, Rows DEF HookState, IdleHook
        <3>3. hook'[h] = [k EXCEPT !.pc = "wiping"] /\ \A g \in Hooks : g # h => hook'[g] = hook[g]
            BY <3>1 DEF TypeInv, TypeOK
        <3> HIDE DEF k
        <3>4. hook'[h].job = k.job /\ hook'[h].phase = k.phase /\ hook'[h].event = k.event
            BY <3>2, <3>3
        <3>5. [job |-> k.job, phase |-> k.phase, status |-> k.event] \in net
            BY <3>1 DEF k, HooksWereSent
        <3> QED
            BY <1>1, <3>3, <3>4, <3>5 DEF HooksWereSent
    <2> QED
        BY <1>2, <2>1, <2>2, <2>3 DEF Webhooks
<1>3. CASE Requests
    <2>1. ASSUME NEW j \in Jobs, NEW s \in Slugs, NEW kind, Flush(j, s, kind) PROVE UNCHANGED hook
        BY <2>1 DEF Flush
    <2>2. ASSUME NEW j \in Jobs, NEW s \in Slugs, NEW b \in BOOLEAN, SetActive(j, s, b)
          PROVE  UNCHANGED hook
        BY <2>2 DEF SetActive
    <2>3. ASSUME NEW j \in Jobs, Answers(j) PROVE UNCHANGED hook
        BY <2>3 DEF Answers, CommitRequest, RollbackRequest
    <2>4. ASSUME NEW s \in Slugs, UpdateTenant(s) PROVE UNCHANGED hook
        BY <2>4 DEF UpdateTenant
    <2> QED
        BY <1>0, <1>3, <2>1, <2>2, <2>3, <2>4 DEF Requests, CreateTenant, DestroyTenant
<1>4. ASSUME NEW j \in Jobs, Task(j) PROVE HooksWereSent'
    BY <1>0, <1>4 DEF Task, TaskStart, Dispatch, LookupRun, SaveRun, DispatchFailed
<1>5. ASSUME NEW r \in 1..MaxRuns, GitHub(r) PROVE HooksWereSent'
    BY <1>0, <1>5 DEF GitHub, PhaseStarts, PhaseSucceeds, PhaseFails, RunCompletes
<1>6. ASSUME NEW c \in Recs, Reconcile(c) PROVE HooksWereSent'
    BY <1>0, <1>6 DEF Reconcile, ReconcileStart, PollRetry, PollAnswers, ReconcileCommits,
       ReconcileFindsNoRow, ReconcileWipes, ReconcileAborts
<1>7. CASE Operators
    BY <1>0, <1>7 DEF Operators, RerunPosts, RerunCommits, MarkReads, MarkCommits, OpAborts
<1>8. CASE Crashes
    BY <1>0, <1>8 DEF Crashes, TaskCrash, ReconcileCrash
<1>9. CASE UNCHANGED vars
    BY <1>0, <1>9 DEF vars
<1> QED
    BY <1>2, <1>3, <1>4, <1>5, <1>6, <1>7, <1>8, <1>9 DEF Next, Steps

(* A reconcile pass reads its job's run when it starts and the run's         *)
(* conclusion when it is answered; every other step leaves both alone.       *)
PollStep(c) ==
    \/ rec'[c] = rec[c]
    \/ rec'[c].pc \notin {"read", "answered", "wiping"}
    \/ /\ rec'[c].pc = "read" /\ rec'[c].job = rec[c].job /\ rec[c].job \in Jobs
       /\ rec'[c].run = jobs[rec[c].job].run
       /\ rec'[c].run # NoRun /\ UNCHANGED <<jobs, worker>>
    \/ /\ rec[c].pc = "read" /\ rec'[c].job = rec[c].job /\ rec'[c].run = rec[c].run
       /\ rec'[c].answer = runs[rec[c].run].end
    \/ /\ rec[c].pc = "answered" /\ rec'[c].job = rec[c].job /\ rec'[c].run = rec[c].run
       /\ rec'[c].answer = rec[c].answer
PollSteps == \A c \in Recs : PollStep(c)

LEMMA PutPoll ==
    ASSUME TypeInv, NEW c \in Recs, NEW new, new.pc \notin {"read", "answered", "wiping"},
           rec' = [rec EXCEPT ![c] = new]
    PROVE  PollSteps
BY DEF PollSteps, PollStep, TypeInv, TypeOK

LEMMA RetryPoll ==
    ASSUME TypeInv, NEW c \in Recs, rec[c].pc # "free", Retry(c)
    PROVE  PollSteps
<1> DEFINE again == [rec[c] EXCEPT !.pc = "waiting", !.tries = @ + 1]
           spent == [rec[c] EXCEPT !.pc = "exhausted"]
<1>1. again.pc = "waiting" /\ spent.pc = "exhausted"
    BY BusyRec
<1>2. rec' = [rec EXCEPT ![c] = IF rec[c].tries < MaxAttempts THEN again ELSE spent]
    BY Zenon DEF Retry
<1> HIDE DEF again, spent
<1> QED
    BY <1>1, <1>2 DEF PollSteps, PollStep, TypeInv, TypeOK

LEMMA ReconcilePolls ==
    ASSUME TypeInv, NEW c \in Recs, Reconcile(c)
    PROVE  PollSteps
<1>1. CASE ReconcileStart(c)
    <2> DEFINE j == rec[c].job
    <2>1. rec[c].pc = "waiting" /\ UNCHANGED <<jobs, worker>>
        BY <1>1 DEF ReconcileStart, dbVars
    <2>2. CASE rec' = [rec EXCEPT ![c] = IdleRec]
        BY <2>2, PutPoll, IdleRecType
    <2>3. CASE Retry(c)
        BY <2>1, <2>3, RetryPoll
    <2>4. CASE /\ jobs[j].run # NoRun
               /\ rec' = [rec EXCEPT ![c].pc = "read", ![c].status = jobs[j].status,
                                     ![c].run = jobs[j].run]
        <3>1. j \in Jobs
            BY <2>1, BusyRec
        <3>2. rec'[c] = [rec[c] EXCEPT !.pc = "read", !.status = jobs[j].status, !.run = jobs[j].run]
            BY <2>4 DEF TypeInv, TypeOK
        <3>3. \A d \in Recs : d # c => rec'[d] = rec[d]
            BY <2>4 DEF TypeInv, TypeOK
        <3>4. rec'[c].pc = "read" /\ rec'[c].job = j /\ rec'[c].run = jobs[j].run
            BY <2>1, <3>2, BusyRec
        <3> QED
            BY <2>1, <2>4, <3>1, <3>3, <3>4 DEF PollSteps, PollStep
    <2> QED
        BY <1>1, <2>2, <2>3, <2>4 DEF ReconcileStart
<1>2. CASE PollRetry(c) \/ ReconcileAborts(c)
    BY <1>2, RetryPoll DEF PollRetry, ReconcileAborts
<1>3. CASE PollAnswers(c)
    <2> DEFINE answer == runs[rec[c].run].end
    <2>1. rec[c].pc = "read" /\ rec' = [rec EXCEPT ![c].pc = "answered", ![c].answer = answer]
        BY <1>3 DEF PollAnswers
    <2>2. answer = runs[rec[c].run].end
        OBVIOUS
    <2> HIDE DEF answer
    <2>3. rec'[c] = [rec[c] EXCEPT !.pc = "answered", !.answer = answer]
        BY <2>1 DEF TypeInv, TypeOK
    <2>4. \A d \in Recs : d # c => rec'[d] = rec[d]
        BY <2>1 DEF TypeInv, TypeOK
    <2>5. "job" \in DOMAIN rec[c] /\ "run" \in DOMAIN rec[c] /\ "answer" \in DOMAIN rec[c]
        BY <2>1, BusyRec
    <2>6. rec'[c].job = rec[c].job /\ rec'[c].run = rec[c].run /\ rec'[c].answer = answer
        BY <2>3, <2>5
    <2> QED
        BY <2>1, <2>2, <2>4, <2>6 DEF PollSteps, PollStep
<1>4. CASE ReconcileCommits(c) \/ ReconcileWipes(c)
    BY <1>4, PutPoll, IdleRecType DEF ReconcileCommits, ReconcileWipes
<1>5. CASE ReconcileFindsNoRow(c)
    <2>1. rec[c].pc = "answered" /\ rec' = [rec EXCEPT ![c].pc = "wiping"]
        BY <1>5 DEF ReconcileFindsNoRow
    <2>2. rec'[c] = [rec[c] EXCEPT !.pc = "wiping"] /\ \A d \in Recs : d # c => rec'[d] = rec[d]
        BY <2>1 DEF TypeInv, TypeOK
    <2>3. rec'[c].job = rec[c].job /\ rec'[c].run = rec[c].run /\ rec'[c].answer = rec[c].answer
        BY <2>1, <2>2, BusyRec
    <2> QED
        BY <2>1, <2>2, <2>3 DEF PollSteps, PollStep
<1> QED
    BY <1>1, <1>2, <1>3, <1>4, <1>5 DEF Reconcile

LEMMA NextPolls == TypeInv /\ [Next]_vars => PollSteps
<1> SUFFICES ASSUME TypeInv, [Next]_vars PROVE PollSteps
    OBVIOUS
<1>0. ASSUME UNCHANGED rec PROVE PollSteps
    BY <1>0 DEF PollSteps, PollStep
<1>1. ASSUME NEW j \in Jobs, Schedule(j) PROVE PollSteps
    BY <1>1, ScheduleType DEF PollSteps, PollStep
<1>2. CASE Requests
    <2>1. ASSUME NEW j \in Jobs, NEW s \in Slugs, NEW kind, Flush(j, s, kind) PROVE UNCHANGED rec
        BY <2>1 DEF Flush
    <2>2. ASSUME NEW j \in Jobs, NEW s \in Slugs, NEW b \in BOOLEAN, SetActive(j, s, b)
          PROVE  UNCHANGED rec
        BY <2>2 DEF SetActive
    <2>3. ASSUME NEW j \in Jobs, Answers(j) PROVE UNCHANGED rec
        BY <2>3 DEF Answers, CommitRequest, RollbackRequest
    <2>4. ASSUME NEW s \in Slugs, UpdateTenant(s) PROVE UNCHANGED rec
        BY <2>4 DEF UpdateTenant
    <2> QED
        BY <1>0, <1>2, <2>1, <2>2, <2>3, <2>4 DEF Requests, CreateTenant, DestroyTenant
<1>3. ASSUME NEW j \in Jobs, Task(j) PROVE PollSteps
    BY <1>0, <1>1, <1>3 DEF Task, TaskStart, Dispatch, LookupRun, SaveRun, DispatchFailed
<1>4. ASSUME NEW r \in 1..MaxRuns, GitHub(r) PROVE PollSteps
    BY <1>0, <1>4 DEF GitHub, PhaseStarts, PhaseSucceeds, PhaseFails, RunCompletes
<1>5. CASE Webhooks
    BY <1>0, <1>5 DEF Webhooks, WebhookArrives, WebhookCommits, WebhookFindsNoRow, WebhookWipes,
       WebhookAborts
<1>6. ASSUME NEW c \in Recs, Reconcile(c) PROVE PollSteps
    BY <1>6, ReconcilePolls
<1>7. CASE Operators
    <2>1. ASSUME NEW o \in Ops, RerunCommits(o) PROVE PollSteps
        <3>1. op[o].job \in Jobs /\ Schedule(op[o].job)
            BY <2>1, BusyOp DEF RerunCommits
        <3> QED
            BY <1>1, <3>1
    <2> QED
        BY <1>0, <1>7, <2>1 DEF Operators, RerunPosts, MarkReads, MarkCommits, OpAborts
<1>8. CASE Crashes
    BY <1>0, <1>8, PutPoll, IdleRecType DEF Crashes, TaskCrash, ReconcileCrash
<1>9. CASE UNCHANGED vars
    BY <1>0, <1>9 DEF vars
<1> QED
    BY <1>2, <1>3, <1>4, <1>5, <1>6, <1>7, <1>8, <1>9 DEF Next, Steps

LEMMA NextPollsItsRun ==
    ASSUME TypeInv, LinkInv, PollSteps, LinkSteps, GitHubSteps
    PROVE  PollsItsRun'
<1> SUFFICES ASSUME NEW c \in Recs, rec'[c].pc \in {"read", "answered", "wiping"}
             PROVE  /\ jobs'[rec'[c].job].run = rec'[c].run /\ rec'[c].run # NoRun
                    /\ rec'[c].pc # "read" /\ rec'[c].answer = "success"
                           => runs'[rec'[c].run].end = "success"
    BY DEF PollsItsRun
<1>1. ASSUME rec[c].pc \in {"read", "answered", "wiping"}
      PROVE  /\ jobs'[rec[c].job].run = rec[c].run /\ rec[c].run # NoRun
             /\ rec[c].run \in 1..Len(runs)
    <2>1. rec[c].job \in Jobs
        BY <1>1, BusyRec
    <2>2. jobs[rec[c].job].run = rec[c].run /\ rec[c].run # NoRun
        BY <1>1 DEF LinkInv, PollsItsRun
    <2>3. jobs'[rec[c].job].run = jobs[rec[c].job].run
        BY <2>1, <2>2 DEF LinkInv, TaskUnlinked, LinkSteps, LinkStep
    <2> QED
        BY <1>1, <2>2, <2>3 DEF TypeInv, RunsLinked
<1>2. CASE rec'[c] = rec[c]
    BY <1>1, <1>2 DEF GitHubSteps, LinkInv, PollsItsRun
<1>3. CASE /\ rec'[c].pc = "read" /\ rec'[c].job = rec[c].job /\ rec[c].job \in Jobs
           /\ rec'[c].run = jobs[rec[c].job].run
           /\ rec'[c].run # NoRun /\ UNCHANGED <<jobs, worker>>
    BY <1>3
<1>4. CASE /\ rec[c].pc = "read" /\ rec'[c].job = rec[c].job /\ rec'[c].run = rec[c].run
           /\ rec'[c].answer = runs[rec[c].run].end
    BY <1>1, <1>4 DEF GitHubSteps
<1>5. CASE /\ rec[c].pc = "answered" /\ rec'[c].job = rec[c].job /\ rec'[c].run = rec[c].run
           /\ rec'[c].answer = rec[c].answer
    BY <1>1, <1>5 DEF GitHubSteps, LinkInv, PollsItsRun
<1> QED
    BY <1>2, <1>3, <1>4, <1>5 DEF PollSteps, PollStep

(* Whoever leaves a SUCCESS in a row of a workflow has the evidence when it  *)
(* commits.                                                                 *)
Proven == \A j \in Jobs : /\ jobs'[j].row = "live" /\ jobs'[j].status = "success"
                          /\ jobs'[j].kind \in {"create", "destroy"}
                          => Evidence(j)

LEMMA PutEvidence ==
    ASSUME TypeInv, SuccessHasEvidence, NEW j \in Jobs, NEW row,
           Exists(j), row.kind = jobs[j].kind,
           row.status = "success" => jobs[j].status = "success" \/ Evidence(j),
           Wipe(j, row) \/ jobs' = [jobs EXCEPT ![j] = row]
    PROVE  Proven
<1> SUFFICES ASSUME NEW i \in Jobs, jobs'[i].row = "live", jobs'[i].status = "success",
                    jobs'[i].kind \in {"create", "destroy"}
             PROVE  Evidence(i)
    BY DEF Proven
<1>1. CASE i = j
    <2>1. jobs'[j] = row
        BY DEF Wipe, TypeInv, TypeOK
    <2> QED
        BY <1>1, <2>1 DEF SuccessHasEvidence
<1>2. CASE i # j
    <2>1. jobs'[i] = jobs[i] \/ jobs'[i] = [jobs[i] EXCEPT !.row = "wiped"]
        BY <1>2 DEF Wipe, TypeInv, TypeOK
    <2>2. jobs'[i] = jobs[i]
        BY <2>1, Rows DEF JobRow
    <2> QED
        BY <2>2 DEF SuccessHasEvidence, Exists
<1> QED
    BY <1>1, <1>2

LEMMA RequestEvidence ==
    ASSUME TypeInv, FreshRows, SuccessHasEvidence, Requests
    PROVE  Proven
<1> USE DEF Proven, FreshRows, SuccessHasEvidence, Exists, TypeInv, TypeOK
<1>1. ASSUME NEW j \in Jobs, NEW s \in Slugs, NEW kind \in Kinds, Flush(j, s, kind)
      PROVE  Proven
    BY <1>1, Rows DEF Flush, JobRow
<1>2. ASSUME NEW j \in Jobs, NEW d, CommitRequest(j, d) PROVE Proven
    BY <1>2, Rows DEF CommitRequest, JobRow
<1>3. ASSUME NEW j \in Jobs, RollbackRequest(j) PROVE Proven
    BY <1>3, Rows DEF RollbackRequest, JobRow
<1>4. ASSUME NEW j \in Jobs, NEW s \in Slugs, NEW b \in BOOLEAN, SetActive(j, s, b)
      PROVE  Proven
    BY <1>4, Rows DEF SetActive, JobRow
<1>5. ASSUME NEW s \in Slugs, UpdateTenant(s) PROVE Proven
    BY <1>5 DEF UpdateTenant
<1> QED
    BY <1>1, <1>2, <1>3, <1>4, <1>5 DEF Requests, Answers, CreateTenant, DestroyTenant, Kinds

LEMMA TaskEvidence ==
    ASSUME TypeInv, SuccessHasEvidence, NEW j \in Jobs, SaveRun(j) \/ DispatchFailed(j)
    PROVE  Proven
<1>0. ASSUME UNCHANGED jobs PROVE Proven
    BY <1>0 DEF Proven, SuccessHasEvidence, Exists
<1>1. PICK status, done, run :
          /\ TaskCommit(j, [jobs[j] EXCEPT !.status = status, !.done = done, !.run = run])
          /\ status \in {"running", "failed", jobs[j].status}
    <2>1. CASE SaveRun(j)
        <3> DEFINE read == worker[j].status
                   status == Column(read, IF read = "pending" THEN "running" ELSE read, jobs[j].status)
                   run == Column(NoRun, worker[j].run, jobs[j].run)
        <3>1. TaskCommit(j, [jobs[j] EXCEPT !.status = status, !.run = run])
            BY <2>1 DEF SaveRun
        <3>2. status \in {"running", jobs[j].status}
            BY DEF Column
        <3> HIDE DEF status, run
        <3>3. [jobs[j] EXCEPT !.status = status, !.run = run]
                = [jobs[j] EXCEPT !.status = status, !.done = jobs[j].done, !.run = run]
            BY Rows DEF JobRow
        <3> QED
            BY <3>1, <3>2, <3>3
    <2>2. CASE DispatchFailed(j)
        <3> DEFINE status == Column(worker[j].status, "failed", jobs[j].status)
        <3>1. TaskCommit(j, [jobs[j] EXCEPT !.status = status, !.done = TRUE])
            BY <2>2 DEF DispatchFailed
        <3>2. status \in {"failed", jobs[j].status}
            BY DEF Column
        <3> HIDE DEF status
        <3>3. [jobs[j] EXCEPT !.status = status, !.done = TRUE]
                = [jobs[j] EXCEPT !.status = status, !.done = TRUE, !.run = jobs[j].run]
            BY Rows DEF JobRow
        <3> QED
            BY <3>1, <3>2, <3>3
    <2> QED
        BY <2>1, <2>2
<1> DEFINE row == [jobs[j] EXCEPT !.status = status, !.done = done, !.run = run]
<1>2. row.kind = jobs[j].kind /\ row.status = status
    BY Rows DEF JobRow
<1>3. TaskCommit(j, row)
    BY <1>1
<1> HIDE DEF row
<1>4. CASE Exists(j)
    BY <1>1, <1>2, <1>3, <1>4, PutEvidence DEF TaskCommit
<1>5. CASE ~Exists(j)
    BY <1>0, <1>3, <1>5 DEF TaskCommit
<1> QED
    BY <1>4, <1>5

LEMMA WebhookEvidence ==
    ASSUME TypeInv, HooksWereSent, SuccessHasEvidence, NEW h \in Hooks,
           WebhookCommits(h) \/ WebhookWipes(h)
    PROVE  Proven
<1> DEFINE k == hook[h]
           row == HookRow(k)
<1>1. k.pc # "idle" /\ Exists(k.job)
    BY DEF WebhookCommits, WebhookWipes
<1>2. k.job \in Jobs /\ [job |-> k.job, phase |-> k.phase, status |-> k.event] \in net
    BY <1>1, HookRowType DEF HooksWereSent
<1>3. /\ row.kind = jobs[k.job].kind
      /\ row.status = Column(k.status, StatusAfter(k), jobs[k.job].status)
    BY <1>2, Rows DEF HookRow, JobRow
<1>4. row.status = "success" => jobs[k.job].status = "success" \/ Evidence(k.job)
    <2> HIDE DEF row
    <2>1. StatusAfter(k) = "success" =>
              (k.event = "succeeded" /\ k.phase = Report) \/ StatusAfter(k) = k.status
        BY DEF StatusAfter
    <2>2. k.event = "succeeded" /\ k.phase = Report => Evidence(k.job)
        BY <1>2 DEF Evidence
    <2> QED
        BY <1>3, <2>1, <2>2 DEF Column
<1>5. Wipe(k.job, row) \/ jobs' = [jobs EXCEPT ![k.job] = row]
    BY DEF WebhookCommits, WebhookWipes, Teardown
<1> HIDE DEF row, k
<1> QED
    BY <1>1, <1>2, <1>3, <1>4, <1>5, PutEvidence

LEMMA AnsweredEvidence ==
    ASSUME TypeInv, PollsItsRun, NEW c \in Recs, rec[c].pc \in {"answered", "wiping"},
           rec[c].answer = "success"
    PROVE  Evidence(rec[c].job)
BY DEF PollsItsRun, Evidence

LEMMA ReconcileEvidence ==
    ASSUME TypeInv, PollsItsRun, SuccessHasEvidence, NEW c \in Recs,
           ReconcileCommits(c) \/ ReconcileWipes(c)
    PROVE  Proven
<1> DEFINE k == rec[c]
           row == RecRow(k)
<1>1. k.job \in Jobs /\ Exists(k.job)
    BY BusyRec DEF ReconcileCommits, ReconcileWipes
<1>2. /\ row.kind = jobs[k.job].kind
      /\ row.status = Column(k.status, Verdict(k), jobs[k.job].status)
    BY <1>1, Rows DEF RecRow, JobRow
<1>3. row.status = "success" => jobs[k.job].status = "success" \/ Evidence(k.job)
    BY <1>2, AnsweredEvidence DEF ReconcileCommits, ReconcileWipes, Column, Verdict
<1>4. Wipe(k.job, row) \/ jobs' = [jobs EXCEPT ![k.job] = row]
    BY DEF ReconcileCommits, ReconcileWipes, Teardown
<1> HIDE DEF row, k
<1> QED
    BY <1>1, <1>2, <1>3, <1>4, PutEvidence

LEMMA OperatorEvidence ==
    ASSUME TypeInv, SuccessHasEvidence, NEW o \in Ops, RerunCommits(o) \/ MarkCommits(o)
    PROVE  Proven
<1> DEFINE k == op[o]
<1>1. k.job \in Jobs /\ Exists(k.job)
    BY BusyOp DEF RerunCommits, MarkCommits
<1>2. PICK status \in {"pending", "manually_completed"} : \E done :
          jobs' = [jobs EXCEPT ![k.job].status = status, ![k.job].done = done]
    BY DEF RerunCommits, MarkCommits
<1>3. PICK done : jobs' = [jobs EXCEPT ![k.job].status = status, ![k.job].done = done]
    BY <1>2
<1> DEFINE row == [jobs[k.job] EXCEPT !.status = status, !.done = done]
<1>4. row.kind = jobs[k.job].kind /\ row.status = status
    BY <1>1, Rows DEF JobRow
<1>5. jobs' = [jobs EXCEPT ![k.job] = row]
    BY <1>1, <1>3 DEF TypeInv, TypeOK
<1> HIDE DEF row, k
<1> QED
    BY <1>1, <1>2, <1>4, <1>5, PutEvidence

LEMMA NextProven == TypeInv /\ EvidenceInv /\ [Next]_vars => Proven
<1> SUFFICES ASSUME TypeInv, EvidenceInv, [Next]_vars PROVE Proven
    OBVIOUS
<1> USE DEF EvidenceInv, LinkInv
<1>0. ASSUME UNCHANGED jobs PROVE Proven
    BY <1>0 DEF Proven, SuccessHasEvidence, Exists
<1>1. CASE Requests
    BY <1>1, RequestEvidence
<1>2. ASSUME NEW j \in Jobs, Task(j) PROVE Proven
    BY <1>0, <1>2, TaskEvidence DEF Task, TaskStart, Dispatch, LookupRun, dbVars
<1>3. ASSUME NEW r \in 1..MaxRuns, GitHub(r) PROVE Proven
    BY <1>0, <1>3 DEF GitHub, PhaseStarts, PhaseSucceeds, PhaseFails, RunCompletes, dbVars
<1>4. CASE Webhooks
    BY <1>0, <1>4, WebhookEvidence
       DEF Webhooks, WebhookArrives, WebhookFindsNoRow, WebhookAborts, dbVars
<1>5. ASSUME NEW c \in Recs, Reconcile(c) PROVE Proven
    BY <1>0, <1>5, ReconcileEvidence
       DEF Reconcile, ReconcileStart, PollRetry, PollAnswers, ReconcileFindsNoRow, ReconcileAborts, dbVars
<1>6. CASE Operators
    BY <1>0, <1>6, OperatorEvidence DEF Operators, RerunPosts, MarkReads, OpAborts, dbVars
<1>7. CASE Crashes
    BY <1>0, <1>7 DEF Crashes, TaskCrash, ReconcileCrash, dbVars
<1>8. CASE UNCHANGED vars
    BY <1>0, <1>8 DEF vars
<1> QED
    BY <1>1, <1>2, <1>3, <1>4, <1>5, <1>6, <1>7, <1>8 DEF Next, Steps

LEMMA EvidenceHolds == Spec => [](TypeInv /\ EvidenceInv)
<1> DEFINE Inv == TypeInv /\ EvidenceInv
<1>1. Init => Inv
    <2> SUFFICES ASSUME Init PROVE EvidenceInv
        BY InitType
    <2>1. /\ \A j \in Jobs : jobs[j] = NewJob /\ worker[j] = IdleTask
          /\ \A h \in Hooks : hook[h] = IdleHook
          /\ \A c \in Recs : rec[c] = IdleRec
        BY DEF Init
    <2> QED
        BY <2>1 DEF EvidenceInv, LinkInv, FreshRows, TaskUnlinked, HooksWereSent, PollsItsRun,
           SuccessHasEvidence, Exists, NewJob, IdleTask, IdleHook, IdleRec, NoRun
<1>2. Inv /\ [Next]_vars => Inv'
    <2> SUFFICES ASSUME Inv, [Next]_vars PROVE Inv'
        OBVIOUS
    <2>1. TypeInv'
        BY NextType
    <2>2. RowSteps /\ LinkSteps /\ PollSteps /\ GitHubSteps /\ Proven
        BY NextRow, NextLinks, NextPolls, NextGitHub, NextProven
    <2>3. LinkInv'
        BY <2>1, <2>2, NextFreshRows, NextHooks, NextPollsItsRun DEF EvidenceInv, LinkInv
    <2>4. ASSUME NEW j \in Jobs, jobs'[j].row = "live", jobs'[j].status = "success",
                 jobs'[j].kind \in {"create", "destroy"}
          PROVE  Evidence(j)'
        <3>1. Evidence(j)
            BY <2>2, <2>4 DEF Proven
        <3>2. CASE [job |-> j, phase |-> Report, status |-> "succeeded"] \in net
            BY <2>2, <3>2 DEF Evidence, GitHubSteps
        <3>3. CASE jobs[j].run # NoRun /\ runs[jobs[j].run].end = "success"
            <4>1. jobs[j].run \in 1..Len(runs)
                BY <3>3, Rows DEF JobRow, NoRun, TypeInv, RunsLinked
            <4>2. jobs'[j].run = jobs[j].run
                BY <2>2, <3>3 DEF EvidenceInv, LinkInv, TaskUnlinked, LinkSteps, LinkStep
            <4> QED
                BY <2>2, <3>3, <4>1, <4>2 DEF Evidence, GitHubSteps
        <3> QED
            BY <3>1, <3>2, <3>3 DEF Evidence
    <2>5. SuccessHasEvidence'
        BY <2>4 DEF SuccessHasEvidence, Exists
    <2> QED
        BY <2>1, <2>3, <2>5 DEF EvidenceInv
<1> QED
    BY <1>1, <1>2, PTL DEF Spec

(* Whatever the order of webhooks, reconcile passes, reruns and sign-offs,   *)
(* a workflow's job is SUCCESS only if GitHub said so (ingest_event,         *)
(* _reconcile_async, provisioning_worker.py:446).                           *)
THEOREM SuccessAlwaysHasEvidence == Spec => []SuccessHasEvidence
<1>1. TypeInv /\ EvidenceInv => SuccessHasEvidence
    BY DEF EvidenceInv
<1> QED
    BY <1>1, EvidenceHolds, PTL

(* A registry row goes only in the commit of a DESTROY job of its slug whose *)
(* workflow GitHub reported done (ingest_event, provisioning_workflow.py:273, *)
(* and _reconcile_async): no other step removes one.                        *)
RemovedWithEvidence ==
    \A s \in Slugs : tenant[s].by # Nobody /\ tenant'[s].by = Nobody =>
        \E j \in Jobs : /\ Exists(j) /\ jobs[j].kind = "destroy" /\ jobs[j].slug = s
                         /\ Evidence(j)

LEMMA TeardownRemoves ==
    ASSUME TypeInv, NEW j \in Jobs, NEW row, Teardown(j, row), Exists(j), Evidence(j),
           jobs[j].kind = "destroy", row.slug = jobs[j].slug
    PROVE  RemovedWithEvidence
<1>1. tenant' = [tenant EXCEPT ![row.slug] = NoTenant]
    BY DEF Teardown
<1>2. \A s \in Slugs : s # row.slug => tenant'[s] = tenant[s]
    BY <1>1 DEF TypeInv, TypeOK
<1> QED
    BY <1>2 DEF RemovedWithEvidence

LEMMA NextRemoves == TypeInv /\ EvidenceInv /\ [Next]_vars => RemovedWithEvidence
<1> SUFFICES ASSUME TypeInv, EvidenceInv, [Next]_vars PROVE RemovedWithEvidence
    OBVIOUS
<1> USE DEF EvidenceInv, LinkInv
<1>0. ASSUME UNCHANGED tenant PROVE RemovedWithEvidence
    BY <1>0 DEF RemovedWithEvidence
<1>1. CASE Requests
    <2>1. ASSUME NEW j \in Jobs, NEW s \in Slugs, NEW kind, Flush(j, s, kind) PROVE UNCHANGED tenant
        BY <2>1 DEF Flush
    <2>2. ASSUME NEW j \in Jobs, NEW s \in Slugs, NEW b \in BOOLEAN, SetActive(j, s, b)
          PROVE  RemovedWithEvidence
        BY <2>2, Rows DEF SetActive, RemovedWithEvidence, TenantRow, TypeInv, TypeOK
    <2>3. ASSUME NEW j \in Jobs, NEW d, CommitRequest(j, d) PROVE RemovedWithEvidence
        BY <2>3, Rows, NobodyAssumption
           DEF CommitRequest, RemovedWithEvidence, TenantRow, TypeInv, TypeOK
    <2>4. ASSUME NEW j \in Jobs, RollbackRequest(j) PROVE UNCHANGED tenant
        BY <2>4 DEF RollbackRequest
    <2>5. ASSUME NEW t \in Slugs, UpdateTenant(t) PROVE RemovedWithEvidence
        BY <2>5, Rows DEF UpdateTenant, RemovedWithEvidence, TenantRow, TypeInv, TypeOK
    <2> QED
        BY <1>0, <1>1, <2>1, <2>2, <2>3, <2>4, <2>5 DEF Requests, Answers, CreateTenant, DestroyTenant
<1>2. ASSUME NEW j \in Jobs, Task(j) PROVE RemovedWithEvidence
    BY <1>0, <1>2 DEF Task, TaskStart, Dispatch, LookupRun, SaveRun, DispatchFailed, dbVars
<1>3. ASSUME NEW r \in 1..MaxRuns, GitHub(r) PROVE RemovedWithEvidence
    BY <1>0, <1>3 DEF GitHub, PhaseStarts, PhaseSucceeds, PhaseFails, RunCompletes, dbVars
<1>4. CASE Webhooks
    <2>1. ASSUME NEW h \in Hooks, WebhookCommits(h) PROVE RemovedWithEvidence
        <3> DEFINE k == hook[h]
                   row == HookRow(k)
        <3>1. k.pc = "read" /\ Exists(k.job)
            BY <2>1 DEF WebhookCommits
        <3>2. /\ k.job \in Jobs /\ row.slug = jobs[k.job].slug
              /\ [job |-> k.job, phase |-> k.phase, status |-> k.event] \in net
            BY <3>1, HookRowType DEF HooksWereSent
        <3>3. \/ Teardown(k.job, row) /\ Offboards(k)
              \/ tenant' = [tenant EXCEPT ![row.slug].domain = "reported"]
              \/ UNCHANGED tenant
            BY <2>1 DEF WebhookCommits
        <3>4. CASE Teardown(k.job, row) /\ Offboards(k)
            <4>1. Evidence(k.job) /\ jobs[k.job].kind = "destroy"
                BY <3>2, <3>4 DEF Evidence, Offboards
            <4> HIDE DEF k, row
            <4> QED
                BY <3>1, <3>2, <3>4, <4>1, TeardownRemoves
        <3>5. CASE tenant' = [tenant EXCEPT ![row.slug].domain = "reported"]
            <4> HIDE DEF k, row
            <4> QED
                BY <3>5, Rows DEF RemovedWithEvidence, TenantRow, TypeInv, TypeOK
        <3> QED
            BY <1>0, <3>3, <3>4, <3>5
    <2> QED
        BY <1>0, <1>4, <2>1
           DEF Webhooks, WebhookArrives, WebhookFindsNoRow, WebhookWipes, WebhookAborts, dbVars
<1>5. ASSUME NEW c \in Recs, Reconcile(c) PROVE RemovedWithEvidence
    <2>1. CASE ReconcileCommits(c)
        <3> DEFINE k == rec[c]
                   row == RecRow(k)
        <3>1. k.pc = "answered" /\ k.job \in Jobs /\ Exists(k.job)
            BY <2>1, BusyRec DEF ReconcileCommits
        <3>2. row.slug = jobs[k.job].slug
            BY <3>1, RecRowType
        <3>3. \/ Teardown(k.job, row) /\ jobs[k.job].kind = "destroy" /\ Verdict(k) = "success"
              \/ UNCHANGED tenant
            BY <2>1 DEF ReconcileCommits
        <3>4. Verdict(k) = "success" => Evidence(k.job)
            BY <3>1, AnsweredEvidence DEF Verdict
        <3> HIDE DEF k, row
        <3> QED
            BY <1>0, <3>1, <3>2, <3>3, <3>4, TeardownRemoves
    <2> QED
        BY <1>0, <1>5, <2>1
           DEF Reconcile, ReconcileStart, PollRetry, PollAnswers, ReconcileFindsNoRow,
               ReconcileWipes, ReconcileAborts, dbVars
<1>6. CASE Operators
    BY <1>0, <1>6 DEF Operators, RerunPosts, RerunCommits, MarkReads, MarkCommits, OpAborts, dbVars
<1>7. CASE Crashes
    BY <1>0, <1>7 DEF Crashes, TaskCrash, ReconcileCrash, dbVars
<1>8. CASE UNCHANGED vars
    BY <1>0, <1>8 DEF vars
<1> QED
    BY <1>1, <1>2, <1>3, <1>4, <1>5, <1>6, <1>7, <1>8 DEF Next, Steps

(* The registry loses no tenant to a late, repeated or stale report: the job *)
(* that removed the row is a DESTROY job of that slug with its evidence      *)
(* (provisioning_workflow.py:273, provisioning_worker.py:446).              *)
THEOREM TeardownAlwaysHasEvidence == Spec => TeardownHasEvidence
<1>1. TypeInv /\ EvidenceInv /\ [Next]_vars =>
          [\A s \in Slugs : tenant[s].by # Nobody /\ tenant'[s].by = Nobody =>
               \E j \in Jobs : /\ Exists(j) /\ jobs[j].kind = "destroy" /\ jobs[j].slug = s
                                /\ Evidence(j)]_vars
    BY NextRemoves DEF RemovedWithEvidence
<1> QED
    BY <1>1, EvidenceHolds, PTL DEF Spec, TeardownHasEvidence
=============================================================================
