--------------------------- MODULE PermissionGrants ---------------------------
(***************************************************************************)
(* The grants of one delegable permission to one user                       *)
(* (services/permission_grant_service.py, api/v1/permission_grants.py).     *)
(* A request looks for the live grant in one step and commits in a later    *)
(* one; no index keeps the live grant unique                                *)
(* (models/user_permission_grant.py:62).                                    *)
(***************************************************************************)
EXTENDS Naturals, FiniteSets

CONSTANTS
    Granters,    \* requests in flight
    MaxGrants    \* bound on the grants ever inserted

ASSUME GrantsAssumption == MaxGrants \in Nat

VARIABLES
    granted,     \* rows inserted so far
    standing,    \* the rows whose revoked_at is NULL
    asked,       \* asked[g]: a request in flight
    races        \* history: inserts committed beside a live grant

gVars == <<granted, standing, asked, races>>

NoGrant == [op |-> "none", row |-> 0]

GrantsInit ==
    /\ granted = 0 /\ standing = {} /\ races = {}
    /\ asked = [g \in Granters |-> NoGrant]

(* mutant: the test for a live grant is left out *)
GrantBlindly(g) ==
    /\ asked[g] = NoGrant
    /\ asked' = [asked EXCEPT ![g] = [op |-> "insert", row |-> granted]]
    /\ UNCHANGED <<granted, standing, races>>

(* grant: a live one is the answer. With two, _get_live raises: no change.   *)
GrantLooks(g) ==
    /\ asked[g] = NoGrant
    /\ standing = {}
    /\ asked' = [asked EXCEPT ![g] = [op |-> "insert", row |-> granted]]
    /\ UNCHANGED <<granted, standing, races>>

(* A race: another grant was inserted since this request looked *)
GrantCommits(g) ==
    /\ asked[g].op = "insert" /\ granted < MaxGrants
    /\ granted' = granted + 1
    /\ standing' = standing \cup {granted + 1}
    /\ races' = IF granted > asked[g].row THEN races \cup {granted + 1} ELSE races
    /\ asked' = [asked EXCEPT ![g] = NoGrant]

(* revoke: none is a 404, two raise; one is revoked at the commit *)
RevokeLooks(g) ==
    /\ asked[g] = NoGrant
    /\ \E r \in standing : standing = {r} /\ asked' = [asked EXCEPT ![g] = [op |-> "revoke", row |-> r]]
    /\ UNCHANGED <<granted, standing, races>>

RevokeCommits(g) ==
    /\ asked[g].op = "revoke"
    /\ standing' = standing \ {asked[g].row}
    /\ asked' = [asked EXCEPT ![g] = NoGrant]
    /\ UNCHANGED <<granted, races>>

GrantAborts(g) ==
    /\ asked[g] # NoGrant
    /\ asked' = [asked EXCEPT ![g] = NoGrant]
    /\ UNCHANGED <<granted, standing, races>>

GrantsNext ==
    \E g \in Granters :
        \/ GrantLooks(g) \/ GrantCommits(g) \/ RevokeLooks(g) \/ RevokeCommits(g) \/ GrantAborts(g)

GrantsSpec == GrantsInit /\ [][GrantsNext]_gVars

-------------------------------------------------------------------------------
GrantsTypeOK ==
    /\ granted \in 0..MaxGrants /\ standing \subseteq 1..granted /\ races \subseteq 1..granted
    /\ asked \in [Granters -> [op : {"none", "insert", "revoke"}, row : 0..granted]]

(* A second live grant is there only when two grants were in flight          *)
(* together: every live one but one raced.                                   *)
TwiceOnlyByRace == Cardinality(standing \ races) <= 1

(* "Idempotent - if a live grant already exists, return it"                  *)
(* (permission_grant_service.py:46): there is one live grant.                *)
OneGrant == Cardinality(standing) <= 1

===============================================================================
