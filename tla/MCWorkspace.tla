------------------------------ MODULE MCWorkspace ------------------------------
(***************************************************************************)
(* The requests of a workspace under TLC: the account of a user, a ticket,  *)
(* a change request, the grants of a permission, the gate of the API, the   *)
(* counters of a plan, the access of a space and a crew to data, the        *)
(* catalogue of a connection, a thread, the chats of a page and the page    *)
(* itself. They share no state and no property relates two of them: in a    *)
(* behaviour one of them moves, and part says which.                        *)
(***************************************************************************)
EXTENDS AccountSessions, AccountCredentials, Tickets, ChangeRequests, PermissionGrants,
        RequestGate, PlanLimits, DataAccess, ConnectionSync, Conversations, ChatSessions,
        SharedRooms, TLC

CONSTANTS MinuteLimit, HourLimit

Limits == [minute |-> MinuteLimit, hour |-> HourLimit]

VARIABLE part
wVars == <<part, sVars, cVars, tVars, chVars, gVars, qVars, slotVars, meterVars, dVars, vVars, mVars, kVars, rVars>>

Parts == {"sessions", "credentials", "tickets", "changes", "grants", "gate", "slots", "meter", "data",
          "catalogue", "thread", "chats", "room"}

(* Only the part that moves starts in more than one way *)
WorkspaceInit ==
    /\ part \in Parts
    /\ SessionsInit /\ CredentialsInit
    /\ TicketsInit /\ ChangesInit /\ GrantsInit /\ GateInit /\ SlotsInit /\ MeterInit /\ DataInit
    /\ ThreadInit /\ ChatsInit /\ CataloguesInit /\ RoomsInit
    /\ part # "credentials" => row = NoRowYet
    /\ part # "slots" => \A n \in Ceilings : ceiling <= n
    /\ part # "data" => ~attached /\ links = {}
    /\ part # "catalogue" => catalogue = NoCatalogue
    /\ part # "room" => kind = "crew" /\ LiveRooms = {}

WorkspaceNext ==
    \/ part = "sessions" /\ SessionsNext
          /\ UNCHANGED <<part, cVars, tVars, chVars, gVars, qVars, slotVars, meterVars,
                         dVars, kVars, vVars, mVars, rVars>>
    \/ part = "credentials" /\ CredentialsNext
          /\ UNCHANGED <<part, sVars, tVars, chVars, gVars, qVars, slotVars, meterVars,
                         dVars, kVars, vVars, mVars, rVars>>
    \/ part = "tickets" /\ TicketsNext
          /\ UNCHANGED <<part, sVars, cVars, chVars, gVars, qVars, slotVars, meterVars,
                         dVars, kVars, vVars, mVars, rVars>>
    \/ part = "changes" /\ ChangesNext
          /\ UNCHANGED <<part, sVars, cVars, tVars, gVars, qVars, slotVars, meterVars,
                         dVars, kVars, vVars, mVars, rVars>>
    \/ part = "grants" /\ GrantsNext
          /\ UNCHANGED <<part, sVars, cVars, tVars, chVars, qVars, slotVars, meterVars,
                         dVars, kVars, vVars, mVars, rVars>>
    \/ part = "gate" /\ GateNext
          /\ UNCHANGED <<part, sVars, cVars, tVars, chVars, gVars, slotVars, meterVars,
                         dVars, kVars, vVars, mVars, rVars>>
    \/ part = "slots" /\ SlotsNext
          /\ UNCHANGED <<part, sVars, cVars, tVars, chVars, gVars, qVars, meterVars,
                         dVars, kVars, vVars, mVars, rVars>>
    \/ part = "meter" /\ MeterNext
          /\ UNCHANGED <<part, sVars, cVars, tVars, chVars, gVars, qVars, slotVars,
                         dVars, kVars, vVars, mVars, rVars>>
    \/ part = "data" /\ DataNext
          /\ UNCHANGED <<part, sVars, cVars, tVars, chVars, gVars, qVars, slotVars,
                         meterVars, kVars, vVars, mVars, rVars>>
    \/ part = "catalogue" /\ CataloguesNext
          /\ UNCHANGED <<part, sVars, cVars, tVars, chVars, gVars, qVars, slotVars,
                         meterVars, dVars, vVars, mVars, rVars>>
    \/ part = "thread" /\ ThreadNext
          /\ UNCHANGED <<part, sVars, cVars, tVars, chVars, gVars, qVars, slotVars,
                         meterVars, dVars, kVars, mVars, rVars>>
    \/ part = "chats" /\ ChatsNext
          /\ UNCHANGED <<part, sVars, cVars, tVars, chVars, gVars, qVars, slotVars,
                         meterVars, dVars, kVars, vVars, rVars>>
    \/ part = "room" /\ RoomsNext
          /\ UNCHANGED <<part, sVars, cVars, tVars, chVars, gVars, qVars, slotVars,
                         meterVars, dVars, kVars, vVars, mVars>>

WorkspaceSpec == WorkspaceInit /\ [][WorkspaceNext]_wVars

Symmetric == Permutations(Calls) \cup Permutations(Askers) \cup Permutations(Codes)


WorkspaceTypeOK ==
    /\ part \in Parts
    /\ SessionsTypeOK /\ CredentialsTypeOK
    /\ TicketsTypeOK /\ ChangesTypeOK /\ GrantsTypeOK /\ GateTypeOK /\ PlanTypeOK
    /\ DataTypeOK /\ CataloguesTypeOK /\ ThreadTypeOK /\ ChatsTypeOK /\ RoomsTypeOK

(* What the desk and the team share: the timeline of a ticket goes with its  *)
(* status (Tickets), the comments of a thread with its answers               *)
(* (Conversations), the chats of a page with their checks (ChatSessions),    *)
(* and its members meet on one page (SharedRooms)                            *)
DiscussionsHold == TicketHolds /\ ThreadHolds /\ ChatsHold /\ MembersConverge

(* What is counted holds to its limit: the windows of the API's gate and its *)
(* stored answers (RequestGate), the slots and queries of a plan (PlanLimits)*)
LimitsHold == GateKeeps /\ PlanHolds

(* What a user has stays: the live token of a device but for a sign-out      *)
(* (AccountSessions), used links gone and MFA on (AccountCredentials)        *)
AccountKept == SessionKept /\ CredentialsKept

(* ... the access to tables a request set but for another that overlaps it   *)
(* (DataAccess), the texts written about tables (ConnectionSync)             *)
DataKept == AccessKept /\ TextsKept

===============================================================================
