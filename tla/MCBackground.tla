------------------------------ MODULE MCBackground ------------------------------
(***************************************************************************)
(* What goes on by itself, under TLC: the event stream of a job, the older   *)
(* scheduler, the sweep of orphaned agents and the cleanup of the demo. In a *)
(* behaviour one of them moves, and part says which.                         *)
(***************************************************************************)
EXTENDS ProvisioningStream, ScheduledAgents, AgentScopes, DemoSandbox

VARIABLE part
bVars == <<part, eVars, lVars, scVars, dVars>>

Parts == {"stream", "schedules", "scopes", "sandboxes", "extensions"}

(* The demo has two bounds: several visitors, who may go to the trash, and   *)
(* one extension at a time, to the day after the last; or one visitor and    *)
(* overlapping extensions                                                    *)
OneExtension == \A x \in Admins : extending'[x] # NoExtension =>
                    x = (CHOOSE y \in Admins : TRUE) /\ extending'[x].until <= MaxDay + 1
OneVisitor == /\ \A v \in Visitors : signing'[v] # NoSignup => v = CHOOSE u \in Visitors : TRUE
              /\ trashed' = {}

(* Only the part that moves starts in more than one way *)
BackgroundInit ==
    /\ part \in Parts
    /\ StreamInit /\ SchedulesInit /\ ScopesInit /\ SandboxesInit
    /\ part # "schedules" => agent.freq = "scheduled"
    /\ part # "scopes" => \A a \in Agents : robots[a].scope = "crew"

BackgroundNext ==
    \/ part = "stream" /\ StreamNext
          /\ UNCHANGED <<part, lVars, scVars, dVars>>
    \/ part = "schedules" /\ SchedulesNext
          /\ UNCHANGED <<part, eVars, scVars, dVars>>
    \/ part = "scopes" /\ ScopesNext
          /\ UNCHANGED <<part, eVars, lVars, dVars>>
    \/ part = "sandboxes" /\ SandboxesNext /\ OneExtension
          /\ UNCHANGED <<part, eVars, lVars, scVars>>
    \/ part = "extensions" /\ SandboxesNext /\ OneVisitor
          /\ UNCHANGED <<part, eVars, lVars, scVars>>

(* The fairness of each part, which asks nothing of the others               *)
Stream == part = "stream"
Schedules == part = "schedules"
Memberships == part = "scopes"
Sandboxes == part \in {"sandboxes", "extensions"}
BackgroundFairness ==
    /\ WF_eVars(Stream /\ Replays) /\ WF_eVars(Stream /\ Subscribes) /\ WF_eVars(Stream /\ IdleEnds)
    /\ WF_eVars(Stream /\ \E e \in JobEvents : ShowsMessage(e))
    /\ WF_lVars(Schedules /\ Beat) /\ SF_lVars(Schedules /\ BeatHeals)
    /\ WF_lVars(Schedules /\ ComesDue)
    /\ WF_lVars(Schedules /\ AnyStarts) /\ WF_lVars(Schedules /\ AnyFinishes)
    /\ WF_scVars(Memberships /\ SweepLoads) /\ WF_scVars(Memberships /\ AnyCheck)
    /\ WF_scVars(Memberships /\ AnyEnd) /\ SF_scVars(Memberships /\ SweepCommits)
    /\ WF_dVars(Sandboxes /\ ReapReads) /\ WF_dVars(Sandboxes /\ ReapDeletes)
    /\ SF_dVars(Sandboxes /\ ReapCommits)

BackgroundSpec == BackgroundInit /\ [][BackgroundNext]_bVars /\ BackgroundFairness

BackgroundTypeOK ==
    /\ part \in Parts
    /\ StreamTypeOK /\ SchedulesTypeOK /\ ScopesTypeOK /\ SandboxesTypeOK

(* ActiveIsExecuted, where the schedules move: an active agent whose         *)
(* schedule was lost to stale runs, updates or dead workers is executed, or  *)
(* stops being active (agent_worker.py:902).                                 *)
ActiveIsExecutedHere == Schedules /\ agent.status = "active" ~> ExecutedOrNot

===============================================================================
