---------------------------- MODULE AccountSessions ----------------------------
(***************************************************************************)
(* The refresh tokens of one account and the marker that voids its access   *)
(* tokens:                                                                 *)
(*   services/auth_service.py    _issue_session, refresh_access_token and   *)
(*       its reuse detection, logout, revoke_all_tokens,                    *)
(*       revoke_device_session,                                             *)
(*   core/token_blocklist.py     the marker of the account in Redis,        *)
(*   api/v1/auth.py              the order of the two in a request.         *)
(*                                                                         *)
(* A login opens a family (a device); a refresh revokes the token presented *)
(* and inserts the next one of the family. A request reads in one step and  *)
(* commits in a later one.                                                  *)
(***************************************************************************)
EXTENDS Naturals, FiniteSets

CONSTANTS
    Calls,       \* requests in flight
    MaxTokens,   \* bound on the refresh tokens ever issued
    MaxTime      \* bound on the clock, in the seconds of iat and of the marker

ASSUME SessionsAssumption == MaxTokens \in Nat \ {0} /\ MaxTime \in Nat \ {0}

VARIABLES
    issued,      \* refresh tokens issued so far: rows 1..issued of refresh_tokens
    family,      \* family[i]: family_id, the first token of the login
    live,        \* the rows whose is_active is set
    marker,      \* auth:revoke_before of the account in Redis, 0: none
    clock,       \* seconds
    call,        \* call[c]: a request in flight
    ended,       \* history: families signed out, or ended by the reuse detection
    crossed,     \* history: rotations in flight when their family ended
    late,        \* history: tokens inserted by one of these, or rotated from such a token
    forks        \* history: tokens rotated from one no longer active

sVars == <<issued, family, live, marker, clock, call, ended, crossed, late, forks>>

Tokens == 1..MaxTokens
Time == 1..MaxTime

NoCall == [pc |-> "idle", tok |-> 0, at |-> 0]
Call == [pc : {"rotate", "reuse", "mark"}, tok : Tokens, at : Time]

Issued == 1..issued
Family(f) == {i \in Issued : family[i] = f}
LiveIn(f) == live \cap Family(f)

SessionsInit ==
    /\ issued = 0 /\ family = [i \in Tokens |-> 0] /\ live = {}
    /\ marker = 0 /\ clock = 1
    /\ call = [c \in Calls |-> NoCall]
    /\ ended = {} /\ crossed = {} /\ late = {} /\ forks = {}

(* The families of F end; their rotations in flight are overtaken.           *)
End(F) ==
    /\ ended' = ended \cup F
    /\ crossed' = crossed \cup {c \in Calls : call[c].pc = "rotate" /\ family[call[c].tok] \in F}

-------------------------------------------------------------------------------
(* _issue_session: every way to log in ends here *)
Login ==
    /\ issued < MaxTokens
    /\ issued' = issued + 1
    /\ family' = [family EXCEPT ![issued + 1] = issued + 1]
    /\ live' = live \cup {issued + 1}
    /\ UNCHANGED <<marker, clock, call, ended, crossed, late, forks>>

(* refresh_access_token up to the first write: the token is read and found   *)
(* active or revoked. A 401 for an expired token or a removed user changes   *)
(* nothing.                                                                  *)
RefreshReads(c, i) ==
    /\ call[c] = NoCall
    /\ call' = [call EXCEPT ![c] =
                  [pc |-> IF i \in live THEN "rotate" ELSE "reuse", tok |-> i, at |-> clock]]
    /\ UNCHANGED <<issued, family, live, marker, clock, ended, crossed, late, forks>>

(* What a rotation of token i by request c records of the new token          *)
RotationHistory(c, i) ==
    /\ late' = IF c \in crossed \/ i \in late THEN late \cup {issued + 1} ELSE late
    /\ forks' = IF i \in live THEN forks ELSE forks \cup {issued + 1}
    /\ crossed' = crossed \ {c}

(* mutant: the token presented stays active *)
RotationKeepsOld(c) ==
    LET i == call[c].tok IN
    /\ call[c].pc = "rotate" /\ issued < MaxTokens
    /\ issued' = issued + 1
    /\ family' = [family EXCEPT ![issued + 1] = family[i]]
    /\ live' = live \cup {issued + 1}
    /\ RotationHistory(c, i)
    /\ call' = [call EXCEPT ![c] = NoCall]
    /\ UNCHANGED <<marker, clock, ended>>

(* mutant: the family is not carried over *)
RotationDropsFamily(c) ==
    LET i == call[c].tok IN
    /\ call[c].pc = "rotate" /\ issued < MaxTokens
    /\ issued' = issued + 1
    /\ live' = (live \ {i}) \cup {issued + 1}
    /\ RotationHistory(c, i)
    /\ call' = [call EXCEPT ![c] = NoCall]
    /\ UNCHANGED <<family, marker, clock, ended>>

(* ... the rotation: the old token revoked and the new one inserted, in one  *)
(* commit; nothing looks whether the old one is still active.                *)
RotationCommits(c) ==
    LET i == call[c].tok IN
    /\ call[c].pc = "rotate" /\ issued < MaxTokens
    /\ issued' = issued + 1
    /\ family' = [family EXCEPT ![issued + 1] = family[i]]
    /\ live' = (live \ {i}) \cup {issued + 1}
    /\ RotationHistory(c, i)
    /\ call' = [call EXCEPT ![c] = NoCall]
    /\ UNCHANGED <<marker, clock, ended>>

(* mutant: the revocation is committed before the insert *)
RefreshAbortsHalfway(c) ==
    /\ call[c].pc \in {"rotate", "reuse"}
    /\ live' = live \ {call[c].tok}
    /\ call' = [call EXCEPT ![c] = NoCall]
    /\ crossed' = crossed \ {c}
    /\ UNCHANGED <<issued, family, marker, clock, ended, late, forks>>

(* The request dies, or its commit fails *)
RefreshAborts(c) ==
    /\ call[c].pc \in {"rotate", "reuse"}
    /\ call' = [call EXCEPT ![c] = NoCall]
    /\ crossed' = crossed \ {c}
    /\ UNCHANGED <<issued, family, live, marker, clock, ended, late, forks>>

(* _revoke_token_family: the live tokens of the family are revoked; the      *)
(* marker takes the time this request began with.                            *)
ReuseCommits(c) ==
    /\ call[c].pc = "reuse"
    /\ live' = live \ LiveIn(family[call[c].tok])
    /\ End({family[call[c].tok]})
    /\ call' = [call EXCEPT ![c].pc = "mark"]
    /\ UNCHANGED <<issued, family, marker, clock, late, forks>>

(* logout: the token presented is revoked, whatever its state; it ends the   *)
(* family when no other token of it is live.                                 *)
Logout(c, i) ==
    /\ call[c] = NoCall
    /\ live' = live \ {i}
    /\ End(IF LiveIn(family[i]) \subseteq {i} THEN {family[i]} ELSE {})
    /\ call' = [call EXCEPT ![c] = [pc |-> "mark", tok |-> i, at |-> clock]]
    /\ UNCHANGED <<issued, family, marker, clock, late, forks>>

(* revoke_user_tokens: the marker is set, or Redis cannot be reached *)
MarkWrites(c) ==
    /\ call[c].pc = "mark"
    /\ marker' \in {marker, call[c].at}
    /\ call' = [call EXCEPT ![c] = NoCall]
    /\ UNCHANGED <<issued, family, live, clock, ended, crossed, late, forks>>

(* mutant: only the row named is revoked *)
RevokeOneToken(i) ==
    /\ LiveIn(family[i]) # {}
    /\ live' = live \ {i}
    /\ End({family[i]})
    /\ UNCHANGED <<issued, family, marker, clock, call, late, forks>>

(* revoke_device_session, named by any token of the device's family *)
RevokeDevice(i) ==
    /\ LiveIn(family[i]) # {}
    /\ live' = live \ LiveIn(family[i])
    /\ End({family[i]})
    /\ UNCHANGED <<issued, family, marker, clock, call, late, forks>>

(* revoke_all_tokens *)
RevokeAll ==
    /\ live' = {}
    /\ End({family[i] : i \in Issued})
    /\ UNCHANGED <<issued, family, marker, clock, call, late, forks>>

Tick ==
    /\ clock < MaxTime
    /\ clock' = clock + 1
    /\ UNCHANGED <<issued, family, live, marker, call, ended, crossed, late, forks>>

SessionsNext ==
    \/ Login \/ RevokeAll \/ Tick
    \/ \E i \in Issued : RevokeDevice(i)
    \/ \E c \in Calls :
          \/ \E i \in Issued : RefreshReads(c, i) \/ Logout(c, i)
          \/ RotationCommits(c) \/ RefreshAborts(c) \/ ReuseCommits(c) \/ MarkWrites(c)

SessionsSpec == SessionsInit /\ [][SessionsNext]_sVars

-------------------------------------------------------------------------------
(* Every token issued belongs to a family opened by an earlier login, and a  *)
(* request in flight is about a token issued.                                *)
SessionsTypeOK ==
    /\ issued \in 0..MaxTokens
    /\ family \in [Tokens -> 0..MaxTokens] /\ \A i \in Issued : family[i] \in 1..i
    /\ live \subseteq Issued
    /\ marker \in 0..MaxTime /\ clock \in Time
    /\ call \in [Calls -> Call \cup {NoCall}]
    /\ \A c \in Calls : call[c] # NoCall => call[c].tok \in Issued
    /\ ended \subseteq Issued /\ crossed \subseteq Calls
    /\ late \subseteq Issued /\ forks \subseteq Issued

(* Signing a device out, signing all out or a replayed token ends the whole  *)
(* lineage (auth_service.py:745): a token of it is live afterwards only if   *)
(* it comes from a refresh that had read its own token before.               *)
DeviceStaysSignedOut == \A i \in live : family[i] \in ended => i \in late

(* Rotation keeps one live token per device: a second one exists only when   *)
(* two refreshes with one token overlapped (the TODO at auth_service.py:674).*)
OneLiveUnlessForked ==
    \A f \in Issued : Cardinality(LiveIn(f)) <= 1 + Cardinality(forks \cap Family(f))

(* A device loses its session only by being signed out or by the reuse       *)
(* detection: no refresh that fails halfway leaves it without a live token.  *)
SessionKept ==
    [][\A f \in Issued : LiveIn(f) # {} /\ LiveIn(f)' = {} => f \in ended']_sVars

(* auth_service.py:836 says of revoke_device_session that "that device's     *)
(* rotated tokens all die": a family that has ended has no live token.       *)
EndedIsEnded == \A i \in live : family[i] \notin ended

(* api/v1/auth.py:576 says of a logout that "the old access token keeps its  *)
(* JWT shape but stops being accepted immediately": what the marker voids    *)
(* stays void.                                                               *)
MarkerNeverBack == [][marker' >= marker]_sVars

===============================================================================
