------------------------------ MODULE AgentScopes ------------------------------
(***************************************************************************)
(* The agents of one user and his membership of a space and of a crew in it: *)
(* a removal pauses the agents he created there, and a sweep pauses what the *)
(* removals missed (services/agent_revocation_service.py, its worker, and    *)
(* the requests of services/space_service.py, crew_service.py and            *)
(* user_service.py that call it).                                           *)
(*                                                                         *)
(* A removal selects agents in one step and commits in a later one; a sweep  *)
(* reads the membership for each agent it loaded in between. One removal is  *)
(* in flight at a time: a second finds the row gone.                        *)
(***************************************************************************)
EXTENDS Naturals, FiniteSets

CONSTANTS
    Agents,
    MaxAsks   \* bound on the requests

ASSUME AsksAssumption == MaxAsks \in Nat

VARIABLES
    crewed,      \* the rows of the user in space_members and crew_members
    places,    \* the places not deleted
    enabled,     \* the user is not deactivated
    robots,      \* robots[a]: the row of an agent he created
    removal,     \* the removal in flight, the agents it selected
    sweep,       \* the sweep in flight
    asks,     \* requests so far
    late         \* history: agents started after the removal that covers them looked

scVars == <<crewed, places, enabled, robots, removal, sweep, asks, late>>

Places == {"space", "crew"}
(* listed: an agent of the organization with the space among its space_ids *)
Scopes == Places \cup {"listed", "personal"}
Robot == [scope : Scopes, status : {"none", "active", "paused", "ended", "gone"}]
NoRemoval == [from |-> "none"]
NoSweep == [todo |-> {}, out |-> {}, on |-> FALSE]

ScopesInit ==
    /\ crewed = Places /\ places = Places /\ enabled = TRUE
    /\ robots \in [Agents -> {r \in Robot : r.status = "none"}]
    /\ removal = NoRemoval /\ sweep = NoSweep
    /\ asks = 0 /\ late = {}

Active == {a \in Agents : robots[a].status = "active"}
SetStatus(S, status) ==
    robots' = [a \in Agents |-> IF a \in S THEN [robots[a] EXCEPT !.status = status] ELSE robots[a]]

(* The requests that take one step *)
Asks ==
    /\ asks < MaxAsks
    /\ asks' = asks + 1
    /\ UNCHANGED sweep

Started(a) ==
    /\ SetStatus({a}, "active")
    /\ late' = late \cup {a}
    /\ removal' = IF removal = NoRemoval THEN removal ELSE [removal EXCEPT !.since = @ \cup {a}]
    /\ UNCHANGED <<crewed, places, enabled>>

(* A role elsewhere, or at the platform, is enough to create an agent here *)
CreateRobot(a) == Asks /\ enabled /\ robots[a].status = "none" /\ Started(a)

(* By anyone the scope permits; whatever its status was *)
ResumeRobot(a) == Asks /\ robots[a].status \in {"paused", "ended"} /\ Started(a)

PauseRobot(a) ==
    /\ Asks
    /\ robots[a].status \in {"active", "ended"}
    /\ SetStatus({a}, "paused")
    /\ UNCHANGED <<crewed, places, enabled, removal, late>>

DeleteRobot(a) ==
    /\ Asks
    /\ robots[a].status \notin {"none", "gone"}
    /\ SetStatus({a}, "gone")
    /\ UNCHANGED <<crewed, places, enabled, removal, late>>

AddMember(p) ==
    /\ Asks
    /\ p \in places \ crewed
    /\ crewed' = crewed \cup {p}
    /\ UNCHANGED <<places, enabled, robots, removal, late>>

(* The place is marked deleted and its agents are ended; the rows of members *)
(* and, in a space, the crews stay                                           *)
DeletePlace(p) ==
    /\ Asks
    /\ p \in places
    /\ places' = places \ {p}
    /\ SetStatus({a \in Agents : robots[a].scope = p /\ robots[a].status \notin {"none", "gone"}}, "ended")
    /\ UNCHANGED <<crewed, enabled, removal, late>>

RestoreUser ==
    /\ Asks
    /\ ~enabled /\ enabled' = TRUE
    /\ UNCHANGED <<crewed, places, robots, removal, late>>

-------------------------------------------------------------------------------
(* mutant: the crew's id is not matched *)
InSpaceOnly(from, scope) == from = "user" \/ (from = "space" /\ scope \in {"space", "listed"})

(* _agent_is_in_scope *)
InScope(from, scope) ==
    CASE from = "user"  -> TRUE
      [] from = "space" -> scope \in {"space", "listed"}
      [] from = "crew"  -> scope = "crew"

(* remove_space_member, remove_crew_member, delete_user: the member's row is *)
(* found and deleted, and _pause_matching selects                            *)
RemovalLoads(from) ==
    /\ Asks
    /\ removal = NoRemoval
    /\ IF from = "user" THEN enabled ELSE from \in crewed \cap places
    /\ removal' = [from |-> from, picked |-> {a \in Active : InScope(from, robots[a].scope)}, since |-> {}]
    /\ UNCHANGED <<crewed, places, enabled, robots, late>>

(* ... and flushes and commits; a row that is gone fails the flush and, its  *)
(* exception caught, the commit                                              *)
RemovalCommits ==
    /\ removal # NoRemoval
    /\ \A a \in removal.picked : robots[a].status # "gone"
    /\ SetStatus(removal.picked, "paused")
    /\ crewed' = crewed \ {removal.from}
    /\ enabled' = (enabled /\ removal.from # "user")
    /\ late' = {a \in late : robots[a].scope # removal.from} \cup removal.since
    /\ removal' = NoRemoval
    /\ UNCHANGED <<places, sweep, asks>>

RemovalAborts ==
    /\ removal # NoRemoval
    /\ removal' = NoRemoval
    /\ UNCHANGED <<crewed, places, enabled, robots, sweep, asks, late>>

-------------------------------------------------------------------------------
(* periodic_sweep, every fifteen minutes *)
SweepLoads ==
    /\ ~sweep.on
    /\ Active # {}
    /\ sweep' = [todo |-> Active, out |-> {}, on |-> TRUE]
    /\ UNCHANGED <<crewed, places, enabled, robots, removal, asks, late>>

(* mutant: membership of the space is enough for its crews *)
StillInSpace(scope) == scope \in Places => "space" \in crewed

(* _creator_still_has_access *)
HasAccess(scope) == scope \in Places => scope \in crewed

SweepChecks(a) ==
    /\ a \in sweep.todo
    /\ sweep' = [sweep EXCEPT !.todo = @ \ {a},
                              !.out = IF HasAccess(robots[a].scope) THEN @ ELSE @ \cup {a}]
    /\ UNCHANGED <<crewed, places, enabled, robots, removal, asks, late>>

SweepEnds ==
    /\ sweep.on /\ sweep.todo = {}
    /\ sweep' = NoSweep
    /\ UNCHANGED <<crewed, places, enabled, removal, asks, late>>

SweepCommits ==
    /\ \A a \in sweep.out : robots[a].status # "gone"
    /\ SetStatus(sweep.out, "paused")
    /\ SweepEnds

(* A row that is gone, or another failure, leaves it all to the next sweep; a *)
(* worker that dies earlier has written as little                            *)
SweepFails == SweepEnds /\ UNCHANGED robots

ScopesNext ==
    \/ \E a \in Agents : CreateRobot(a) \/ ResumeRobot(a) \/ PauseRobot(a) \/ DeleteRobot(a)
                         \/ SweepChecks(a)
    \/ \E p \in Places : AddMember(p) \/ DeletePlace(p)
    \/ RestoreUser
    \/ \E from \in Places \cup {"user"} : RemovalLoads(from)
    \/ RemovalCommits \/ RemovalAborts
    \/ SweepLoads \/ SweepCommits \/ SweepFails

AnyCheck == \E a \in Agents : SweepChecks(a)
AnyEnd == SweepCommits \/ SweepFails

(* The beat starts a sweep again and again, and not each of them fails *)
ScopesFairness ==
    /\ WF_scVars(SweepLoads) /\ WF_scVars(AnyCheck) /\ WF_scVars(AnyEnd) /\ SF_scVars(SweepCommits)

ScopesSpec == ScopesInit /\ [][ScopesNext]_scVars /\ ScopesFairness

-------------------------------------------------------------------------------
ScopesTypeOK ==
    /\ crewed \subseteq Places /\ places \subseteq Places /\ enabled \in BOOLEAN
    /\ robots \in [Agents -> Robot]
    /\ removal = NoRemoval \/ removal \in [from : Places \cup {"user"}, picked : SUBSET Agents, since : SUBSET Agents]
    /\ sweep \in [todo : SUBSET Agents, out : SUBSET Agents, on : BOOLEAN]
    /\ asks \in 0..MaxAsks /\ late \subseteq Agents

Orphan(a) == robots[a].status = "active" /\ robots[a].scope \in Places \ crewed

(* "every agent they created that runs against that scope must STOP"         *)
(* (agent_revocation_service.py:5): an agent of a place its creator is out   *)
(* of works only if it was started after the removal had looked.             *)
OrphanIsLate == \A a \in Agents : Orphan(a) => a \in late

(* "for safety: re-checks every active agent and pauses any whose creator no *)
(* longer belongs" (:16): no agent stays orphaned.                            *)
OrphanStops == \A a \in Agents : Orphan(a) ~> ~Orphan(a)

(* "failures here are logged but do NOT roll back the user deletion. The     *)
(* 15-min periodic sweep catches any miss" (user_service.py:428): no agent of *)
(* a deactivated user goes on.                                               *)
DeactivatedStops == \A a \in Agents : ~enabled /\ a \in Active ~> enabled \/ a \notin Active

(* "ended keeps the worker from ever picking them up again"                  *)
(* (crew_service.py:561): no agent of a deleted place works.                  *)
DeletedStaysEnded == \A a \in Active : robots[a].scope \in Places => robots[a].scope \in places

===============================================================================
