---------------------------- MODULE ChangeRequests ----------------------------
(***************************************************************************)
(* A change request of a widget: opened once, then accepted or dismissed by *)
(* requests that overlap (services/change_request_service.py). The messages *)
(* to the viewers of the page are best effort and left out.                 *)
(***************************************************************************)
EXTENDS Naturals

CONSTANTS
    Owners,      \* users who may decide, one request of each in flight
    None

VARIABLES
    change,      \* the row, or None
    deciding,    \* deciding[u]: the request of u in flight
    decisions    \* history: what was decided, by whom

chVars == <<change, deciding, decisions>>

Decisions == {"accepted", "dismissed"}
Pending == [status |-> "pending", by |-> None]
Change == [status : Decisions \cup {"pending"}, by : Owners \cup {None}]

ChangesInit ==
    /\ change = None
    /\ deciding = [u \in Owners |-> "idle"]
    /\ decisions = {}

(* create *)
ChangeOpens ==
    /\ change = None
    /\ change' = Pending
    /\ UNCHANGED <<deciding, decisions>>

(* accept, dismiss: the status is tested on the row as read *)
DecisionReads(u, d) ==
    /\ deciding[u] = "idle"
    /\ change # None /\ change.status = "pending"
    /\ deciding' = [deciding EXCEPT ![u] = d]
    /\ UNCHANGED <<change, decisions>>

(* mutant: the first to decide is kept as the resolver *)
DecisionKeepsFirst(u) ==
    /\ deciding[u] \in Decisions
    /\ change' = [status |-> deciding[u], by |-> IF change.by = None THEN u ELSE change.by]
    /\ decisions' = decisions \cup {[status |-> deciding[u], by |-> u]}
    /\ deciding' = [deciding EXCEPT ![u] = "idle"]

(* ... and written, all three columns, whatever the row holds by now *)
DecisionCommits(u) ==
    /\ deciding[u] \in Decisions
    /\ change' = [status |-> deciding[u], by |-> u]
    /\ decisions' = decisions \cup {[status |-> deciding[u], by |-> u]}
    /\ deciding' = [deciding EXCEPT ![u] = "idle"]

(* The request dies or is refused: only the owner of the widget may decide   *)
DecisionDies(u) ==
    /\ deciding[u] # "idle"
    /\ deciding' = [deciding EXCEPT ![u] = "idle"]
    /\ UNCHANGED <<change, decisions>>

ChangesNext ==
    \/ ChangeOpens
    \/ \E u \in Owners :
          \/ \E d \in Decisions : DecisionReads(u, d)
          \/ DecisionCommits(u) \/ DecisionDies(u)

ChangesSpec == ChangesInit /\ [][ChangesNext]_chVars

-------------------------------------------------------------------------------
ChangesTypeOK ==
    /\ change \in Change \cup {None}
    /\ decisions \subseteq [status : Decisions, by : Owners]
    /\ deciding \in [Owners -> Decisions \cup {"idle"}]

(* What the row says was decided by whom is one decision: requests in flight *)
(* together never leave the status of one and the name of the other.         *)
DecisionIsWhole == change # None /\ change # Pending => change \in decisions

(* "Cannot accept a change request in another state"                         *)
(* (change_request_service.py:141): what is decided is not decided again.    *)
DecidedOnce == [][change \notin {None, Pending} => change' = change]_chVars

===============================================================================
