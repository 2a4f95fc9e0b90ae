---------------------------- MODULE ScheduledAgents ----------------------------
(***************************************************************************)
(* One agent of the older scheduler: the five-minute beat, the task that    *)
(* executes the agent and the requests of its owner (workers/agent_worker.py, *)
(* services/agent_service.py, api/v1/agents.py). The connections, prompts   *)
(* and findings of a run are left out: a run skips, answers or fails.       *)
(*                                                                         *)
(* A run loads the agent in one step and commits in a later one; the        *)
(* requests load and commit at once. Celery drops the message it hands to   *)
(* a worker that dies.                                                      *)
(***************************************************************************)
EXTENDS Naturals

CONSTANTS
    Workers,     \* executions in flight
    MaxQueue,    \* bound on the messages at the broker
    MaxCommands  \* bound on the requests of the owner

ASSUME QueueAssumption == MaxQueue \in Nat /\ MaxCommands \in Nat

VARIABLES
    agent,       \* the row
    messages,    \* messages[n]: those of attempt n at the broker
    exec,        \* exec[w]: an execution in flight, the row it loaded
    healing,     \* a beat has read the agent as one without a schedule
    commands,    \* requests of the owner so far
    fired        \* history: a beat has enqueued the agent while it had no schedule

lVars == <<agent, messages, exec, healing, commands, fired>>

MaxFailures == 3   \* MAX_CONSECUTIVE_FAILURES; more count as three
MaxRetries == 2

(* freq: on a schedule, or one that has none: manual, once; next_execution_at *)
(* is NULL, in the future or past                                            *)
Agent == [status : {"active", "paused", "error"}, freq : {"scheduled", "manual"},
          next : {"none", "ahead", "due"}, fails : 0..MaxFailures]
NoExec == [attempt |-> MaxRetries + 1]
(* The columns a run may write *)
Loaded == [c \in {"status", "next", "fails"} |-> agent[c]]
Copy == [status : {"active"}, next : {"none", "ahead", "due"}, fails : 0..MaxFailures]

(* _compute_next_execution, at creation and resume *)
FirstRun(freq) == IF freq = "manual" THEN "none" ELSE "ahead"

SchedulesInit ==
    /\ agent \in {[status |-> "active", freq |-> f, next |-> FirstRun(f), fails |-> 0] :
                    f \in {"scheduled", "manual"}}
    /\ messages = [n \in 0..MaxRetries |-> 0]
    /\ exec = [w \in Workers |-> NoExec]
    /\ healing = FALSE /\ commands = 0 /\ fired = FALSE

Room == messages[0] < MaxQueue
Sends(n) == messages' = [messages EXCEPT ![n] = IF @ < MaxQueue THEN @ + 1 ELSE @]

(* mutant: NULL <= now is not true, and the agent is not seen *)
BeatSeesDue ==
    /\ agent.status = "active" /\ ~healing
    /\ agent.next = "due"
    /\ Sends(0) /\ fired' = (fired \/ agent.freq = "manual") /\ healing' = FALSE
    /\ UNCHANGED <<agent, exec, commands>>

(* schedule_agents: the agent is due, and is enqueued, its schedule left as  *)
(* it is; or it is active without a schedule, and is to be given one         *)
Beat ==
    /\ agent.status = "active" /\ ~healing
    /\ agent.next # "ahead"
    /\ healing' = (agent.next = "none")
    /\ IF agent.next = "due" THEN Sends(0) /\ fired' = (fired \/ agent.freq = "manual")
       ELSE UNCHANGED <<messages, fired>>
    /\ UNCHANGED <<agent, exec, commands>>

(* ... its commit: one column, whatever the agent is by now *)
BeatHeals ==
    /\ healing
    /\ healing' = FALSE
    /\ agent' = [agent EXCEPT !.next = "ahead"]
    /\ UNCHANGED <<messages, exec, commands, fired>>

BeatDies ==
    /\ healing
    /\ healing' = FALSE
    /\ UNCHANGED <<agent, messages, exec, commands, fired>>

(* The time of the next run comes *)
ComesDue ==
    /\ agent.next = "ahead"
    /\ agent' = [agent EXCEPT !.next = "due"]
    /\ UNCHANGED <<messages, exec, healing, commands, fired>>

-------------------------------------------------------------------------------
(* The requests of the owner *)
Commands ==
    /\ commands < MaxCommands
    /\ commands' = commands + 1
    /\ UNCHANGED <<exec, healing, fired>>

RunNow == Commands /\ Sends(0) /\ UNCHANGED agent

PauseAgent ==
    /\ Commands
    /\ agent' = [agent EXCEPT !.status = "paused", !.next = "none"]
    /\ UNCHANGED messages

(* A resume, which keeps the count of failures *)
ResumeAgent ==
    /\ Commands
    /\ agent' = [agent EXCEPT !.status = "active", !.next = FirstRun(agent.freq)]
    /\ UNCHANGED messages

(* update_agent: another frequency, the next run as it was *)
UpdateAgent(f) ==
    /\ Commands
    /\ f # agent.freq
    /\ agent' = [agent EXCEPT !.freq = f]
    /\ UNCHANGED messages

(* A revocation pauses an active agent and leaves its next run *)
RevokeAgent ==
    /\ Commands
    /\ agent.status = "active"
    /\ agent' = [agent EXCEPT !.status = "paused"]
    /\ UNCHANGED messages

-------------------------------------------------------------------------------
(* mutant: the status is not looked at *)
ExecStartsAnyway(w, n) ==
    /\ exec[w] = NoExec
    /\ messages[n] > 0
    /\ messages' = [messages EXCEPT ![n] = @ - 1]
    /\ exec' = [exec EXCEPT ![w] = [attempt |-> n, copy |-> Loaded]]
    /\ UNCHANGED <<agent, healing, commands, fired>>

(* execute_agent takes a message; an agent that is not active is skipped     *)
ExecStarts(w, n) ==
    /\ exec[w] = NoExec
    /\ messages[n] > 0
    /\ messages' = [messages EXCEPT ![n] = @ - 1]
    /\ exec' = IF agent.status = "active" THEN [exec EXCEPT ![w] = [attempt |-> n, copy |-> Loaded]]
               ELSE exec
    /\ UNCHANGED <<agent, healing, commands, fired>>

Running(w) == exec[w] # NoExec
ExecEnds(w) == exec' = [exec EXCEPT ![w] = NoExec] /\ UNCHANGED <<healing, commands, fired>>

(* A commit writes the columns of new the run has changed; a new time of the *)
(* next run differs from every earlier one                                   *)
Write(w, new) ==
    LET copy == exec[w].copy IN
    agent' = [c \in DOMAIN agent |->
                IF c \in DOMAIN new /\ (new[c] # copy[c] \/ (c = "next" /\ new[c] = "ahead"))
                THEN new[c] ELSE agent[c]]

(* The L1 check finds nothing new: the run only moves the schedule on *)
ExecSkips(w) ==
    /\ Running(w)
    /\ Write(w, [exec[w].copy EXCEPT !.next = "ahead"])
    /\ ExecEnds(w) /\ UNCHANGED messages

(* An answer resets the failures *)
ExecAnswers(w) ==
    /\ Running(w)
    /\ Write(w, [exec[w].copy EXCEPT !.fails = 0, !.next = "ahead"])
    /\ ExecEnds(w) /\ UNCHANGED messages

(* No answer, or an error of the orchestrator: the third in a row pauses     *)
ExecUnanswered(w) ==
    LET fails == IF exec[w].copy.fails < MaxFailures THEN exec[w].copy.fails + 1 ELSE MaxFailures IN
    /\ Running(w)
    /\ Write(w, IF fails >= MaxFailures
                THEN [exec[w].copy EXCEPT !.fails = fails, !.status = "paused", !.next = "none"]
                ELSE [exec[w].copy EXCEPT !.fails = fails, !.next = "ahead"])
    /\ ExecEnds(w) /\ UNCHANGED messages

(* An exception sets the status, unless its commit fails too, and the task   *)
(* is sent again                                                             *)
ExecFails(w) ==
    LET n == exec[w].attempt IN
    /\ Running(w)
    /\ \E saved \in BOOLEAN : agent' = IF saved THEN [agent EXCEPT !.status = "error"] ELSE agent
    /\ IF n < MaxRetries THEN Sends(n + 1) ELSE UNCHANGED messages
    /\ ExecEnds(w)

(* The worker is killed, or its message is: nothing is written              *)
ExecDies(w) ==
    /\ Running(w)
    /\ ExecEnds(w) /\ UNCHANGED <<agent, messages>>

ExecFinishes(w) ==
    ExecSkips(w) \/ ExecAnswers(w) \/ ExecUnanswered(w) \/ ExecFails(w) \/ ExecDies(w)

SchedulesNext ==
    \/ Beat \/ BeatHeals \/ BeatDies \/ ComesDue
    \/ RunNow \/ PauseAgent \/ ResumeAgent \/ RevokeAgent
    \/ \E f \in {"scheduled", "manual"} : UpdateAgent(f)
    \/ \E w \in Workers : (\E n \in 0..MaxRetries : ExecStarts(w, n)) \/ ExecFinishes(w)

AnyStarts == \E w \in Workers, n \in 0..MaxRetries : ExecStarts(w, n)
AnyFinishes == \E w \in Workers : ExecFinishes(w)

(* Beat, time and some worker go on, and not every beat dies before its      *)
(* commit; whether a run answers, fails or dies is free                      *)
SchedulesFairness ==
    /\ WF_lVars(Beat) /\ SF_lVars(BeatHeals) /\ WF_lVars(ComesDue)
    /\ WF_lVars(AnyStarts) /\ WF_lVars(AnyFinishes)

SchedulesSpec == SchedulesInit /\ [][SchedulesNext]_lVars /\ SchedulesFairness

-------------------------------------------------------------------------------
SchedulesTypeOK ==
    /\ agent \in Agent
    /\ messages \in [0..MaxRetries -> 0..MaxQueue]
    /\ \A w \in Workers : exec[w] = NoExec \/ exec[w] \in [attempt : 0..MaxRetries, copy : Copy]
    /\ healing \in BOOLEAN /\ commands \in 0..MaxCommands /\ fired \in BOOLEAN

(* "an active agent whose schedule was lost is invisible to the plain        *)
(* comparison and stops for good" (agent_worker.py:902): not any more. An    *)
(* active agent is executed, or stops being active, whatever its schedule    *)
(* was left as by stale runs, updates and dead workers.                      *)
ExecutedOrNot == agent.status # "active" \/ \E w \in Workers : Running(w)
ActiveIsExecuted == agent.status = "active" ~> ExecutedOrNot

(* "`once` and `manual` return None so the agent never auto-fires"           *)
(* (agent_service.py:105): the beat enqueues no such agent.                   *)
ManualNeverFires == ~fired

(* An agent paused by its owner stays so until he resumes it.                *)
PausedStays == [][agent.status = "paused" /\ agent'.status # "paused" => ResumeAgent]_lVars

===============================================================================
