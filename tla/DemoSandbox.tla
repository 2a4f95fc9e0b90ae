------------------------------ MODULE DemoSandbox ------------------------------
(***************************************************************************)
(* The public demo of one company: its visitors sign up, join the sandbox of *)
(* a colleague or return, an admin extends a visitor, and the daily cleanup  *)
(* reaps what has expired (services/demo_service.py, api/v1/demo.py,          *)
(* workers/demo_cleanup_worker.py). The seeded content is left out.          *)
(*                                                                         *)
(* A signup loads in one step and commits in a later one; an extension loads  *)
(* the account, then the sandbox, and commits; the cleanup reads the          *)
(* sandboxes, deletes them and reads the accounts, and commits.               *)
(* A visitor has one signup in flight: users.email is unique.               *)
(***************************************************************************)
EXTENDS Naturals, FiniteSets

CONSTANTS
    Visitors,
    Admins,      \* extensions in flight
    MaxGuests,   \* bound on the accounts
    MaxDay       \* bound on the days

ASSUME BoundsAssumption == MaxGuests \in Nat /\ MaxDay \in Nat \ {0}

Ttl == 1         \* DEMO_TTL_DAYS, the least a visitor gets
Days == {1, 2}   \* what an extension may add

VARIABLES
    guest,       \* guest[v]: the account of a visitor, the sandbox he is a member of
    sandbox,     \* sandbox[i]: demo_expires_at of the space of account i, 0: none
    trashed,     \* the sandboxes with deleted_at set
    guests,      \* accounts so far
    signing,     \* signing[v]: a signup in flight
    extending,   \* extending[x]: an extension in flight
    reaping,     \* the cleanup in flight
    today,
    caught,      \* history: accounts extended while a cleanup had read their sandbox
    crossed      \* history: accounts extended without their sandbox, by overlapping extensions

dVars == <<guest, sandbox, trashed, guests, signing, extending, reaping, today, caught, crossed>>

Ids == 1..MaxGuests
Until == 0..(MaxDay + 2)
NoGuest == [id |-> 0, until |-> 0, of |-> 0, joined |-> FALSE]
Guest == [id : 1..MaxGuests, until : Until, of : 0..MaxGuests, joined : BOOLEAN] \cup {NoGuest}
NoSignup == [kind |-> "none"]
NoExtension == [step |-> "none", id |-> 0]
NoReaping == [step |-> "none", at |-> 0, ids |-> {}, users |-> {}]

SandboxesInit ==
    /\ guest = [v \in Visitors |-> NoGuest]
    /\ sandbox = [i \in Ids |-> 0] /\ trashed = {} /\ guests = 0
    /\ signing = [v \in Visitors |-> NoSignup]
    /\ extending = [x \in Admins |-> NoExtension]
    /\ reaping = NoReaping /\ today = 1 /\ caught = {} /\ crossed = {}

Exists(i) == sandbox[i] # 0
(* A row the cleanup has deleted and not committed is locked *)
Locked(i) == reaping.step = "users" /\ i \in reaping.ids

DayPasses ==
    /\ today < MaxDay
    /\ today' = today + 1
    /\ UNCHANGED <<guest, sandbox, trashed, guests, signing, extending, reaping, caught, crossed>>

-------------------------------------------------------------------------------
(* _find_sibling_demo_space: the oldest that has not expired; deleted_at is  *)
(* not looked at                                                             *)
Siblings == {i \in Ids : sandbox[i] > today /\ \E v \in Visitors : guest[v].id = i}
Oldest(S) == CHOOSE i \in S : \A j \in S : i <= j

(* signup: an email that is known returns, one of a known domain joins *)
SignsUp(v) ==
    /\ signing[v] = NoSignup
    /\ signing' = [signing EXCEPT ![v] =
          IF guest[v] # NoGuest
          THEN [kind |-> IF Exists(guest[v].id) THEN "return" ELSE "drop", of |-> guest[v].id, until |-> 0]
          ELSE IF Siblings # {}
          THEN [kind |-> "join", of |-> Oldest(Siblings), until |-> sandbox[Oldest(Siblings)]]
          ELSE [kind |-> "fresh", of |-> 0, until |-> today + Ttl]]
    /\ UNCHANGED <<guest, sandbox, trashed, guests, extending, reaping, today, caught, crossed>>

Answered(v) == signing' = [signing EXCEPT ![v] = NoSignup] /\ UNCHANGED <<trashed, extending, reaping, today, caught, crossed>>

(* A fresh account and its sandbox; or a member of a sibling that still      *)
(* exists, with the expiry it had                                            *)
Mints(v) ==
    LET s == signing[v]
        i == guests + 1
    IN  /\ s.kind \in {"fresh", "join"}
        /\ guests < MaxGuests
        /\ s.kind = "join" => Exists(s.of) /\ ~Locked(s.of)
        /\ guests' = i
        /\ guest' = [guest EXCEPT ![v] =
              [id |-> i, until |-> s.until, joined |-> s.kind = "join", of |-> IF s.kind = "join" THEN s.of ELSE i]]
        /\ sandbox' = IF s.kind = "fresh" THEN [sandbox EXCEPT ![i] = s.until] ELSE sandbox
        /\ Answered(v)

(* Deleting accounts cascades to their sandboxes, deleting sandboxes to the  *)
(* members' rows                                                             *)
Gone(ids, users) ==
    /\ sandbox' = [i \in Ids |-> IF i \in ids \cup users THEN 0 ELSE sandbox[i]]
    /\ guest' = [v \in Visitors |->
                   CASE guest[v].id \in users -> NoGuest
                     [] guest[v].id \notin users /\ guest[v].of \in ids \cup users -> [guest[v] EXCEPT !.of = 0]
                     [] OTHER -> guest[v]]

(* _issue_returning: the owner of a sandbox gets it again; an account that   *)
(* owns none is deleted                                                      *)
Returns(v) ==
    /\ signing[v].kind = "return"
    /\ Answered(v) /\ UNCHANGED <<guest, sandbox, guests>>

DropsGuest(v) ==
    /\ signing[v].kind = "drop"
    /\ Gone({}, {signing[v].of})
    /\ Answered(v) /\ UNCHANGED guests

SignupFails(v) ==
    /\ signing[v] # NoSignup
    /\ Answered(v) /\ UNCHANGED <<guest, sandbox, guests>>

(* delete_space marks the space *)
Trash(i) ==
    /\ Exists(i) /\ i \notin trashed
    /\ trashed' = trashed \cup {i}
    /\ UNCHANGED <<guest, sandbox, guests, signing, extending, reaping, today, caught, crossed>>

-------------------------------------------------------------------------------
(* extend_demo_user: max(now, current_ttl) + days, for the account and then  *)
(* for the sandbox it owns                                                   *)
ExtensionLoads(x, v, days) ==
    LET base == IF guest[v].until > today THEN guest[v].until ELSE today IN
    /\ extending[x] = NoExtension
    /\ guest[v] # NoGuest
    /\ base + days <= MaxDay + 2
    /\ extending' = [extending EXCEPT ![x] =
          [step |-> "account", id |-> guest[v].id, until |-> base + days, read |-> 0, alone |-> TRUE]]
    /\ UNCHANGED <<guest, sandbox, trashed, guests, signing, reaping, today, caught, crossed>>

(* The second SELECT may find what another extension has committed meanwhile *)
ExtensionFindsSpace(x) ==
    /\ extending[x].step = "account"
    /\ extending' = [extending EXCEPT ![x].step = "sandbox", ![x].read = sandbox[extending[x].id]]
    /\ UNCHANGED <<guest, sandbox, trashed, guests, signing, reaping, today, caught, crossed>>

(* Its commit is seen by the other extensions of the account *)
Done(x) ==
    extending' = [y \in Admins |->
        IF y = x THEN NoExtension
        ELSE IF extending[y] # NoExtension /\ extending[y].id = extending[x].id
             THEN [extending[y] EXCEPT !.alone = FALSE]
        ELSE extending[y]]

(* An expiry that is the one read is not written *)
Writes(e) == e.read \notin {0, e.until}

(* mutant: the sandbox keeps its own expiry *)
ExtendsAccount(x) ==
    LET e == extending[x] IN
    /\ e.step = "sandbox"
    /\ \E v \in Visitors : guest[v].id = e.id /\ guest' = [guest EXCEPT ![v].until = e.until]
    /\ Done(x)
    /\ UNCHANGED <<sandbox, trashed, guests, signing, reaping, today, caught, crossed>>

(* A row that is gone fails the commit *)
ExtensionCommits(x) ==
    LET e == extending[x] IN
    /\ e.step = "sandbox"
    /\ \E v \in Visitors : guest[v].id = e.id /\ guest' = [guest EXCEPT ![v].until = e.until]
    /\ Writes(e) => Exists(e.id) /\ ~Locked(e.id)
    /\ sandbox' = IF Writes(e) THEN [sandbox EXCEPT ![e.id] = e.until] ELSE sandbox
    /\ caught' = IF e.id \in reaping.ids THEN caught \cup {e.id} ELSE caught
    /\ crossed' = CASE Writes(e) -> crossed \ {e.id}
                     [] e.read = e.until /\ ~e.alone -> crossed \cup {e.id}
                     [] OTHER -> crossed
    /\ Done(x)
    /\ UNCHANGED <<trashed, guests, signing, reaping, today>>

ExtensionFails(x) ==
    /\ extending[x] # NoExtension
    /\ extending' = [extending EXCEPT ![x] = NoExtension]
    /\ UNCHANGED <<guest, sandbox, trashed, guests, signing, reaping, today, caught, crossed>>

-------------------------------------------------------------------------------
Expired(at) == {i \in Ids : sandbox[i] # 0 /\ sandbox[i] < at}
ExpiredGuests(at) == {guest[v].id : v \in {u \in Visitors : guest[u] # NoGuest /\ guest[u].until < at}}

Reap == UNCHANGED <<trashed, guests, signing, extending, today, caught, crossed>>

(* cleanup_expired_demo_spaces *)
ReapReads ==
    /\ reaping.step = "none"
    /\ Expired(today) \cup ExpiredGuests(today) # {}
    /\ reaping' = [step |-> "spaces", at |-> today, ids |-> Expired(today), users |-> {}]
    /\ UNCHANGED <<guest, sandbox>> /\ Reap

(* mutant: no sandbox has expired, and the accounts are not looked at *)
ReapsSpacesOnly ==
    /\ reaping.step = "spaces"
    /\ reaping' = [reaping EXCEPT !.step = "users",
                                  !.users = IF reaping.ids = {} THEN {} ELSE ExpiredGuests(reaping.at)]
    /\ UNCHANGED <<guest, sandbox>> /\ Reap

(* It deletes them, by the ids it read, and reads the accounts *)
ReapDeletes ==
    /\ reaping.step = "spaces"
    /\ reaping' = [reaping EXCEPT !.step = "users", !.users = ExpiredGuests(reaping.at)]
    /\ UNCHANGED <<guest, sandbox>> /\ Reap

ReapCommits ==
    /\ reaping.step = "users"
    /\ Gone(reaping.ids, reaping.users)
    /\ reaping' = NoReaping /\ Reap

(* A deadlock with an extension, another row that refers to the sandbox, or  *)
(* a worker that dies                                                        *)
ReapFails ==
    /\ reaping.step = "users"
    /\ reaping' = NoReaping
    /\ UNCHANGED <<guest, sandbox>> /\ Reap

SandboxesNext ==
    \/ DayPasses
    \/ \E v \in Visitors : SignsUp(v) \/ Mints(v) \/ Returns(v) \/ DropsGuest(v) \/ SignupFails(v)
    \/ \E i \in Ids : Trash(i)
    \/ \E x \in Admins :
          \/ \E v \in Visitors, n \in Days : ExtensionLoads(x, v, n)
          \/ ExtensionFindsSpace(x) \/ ExtensionCommits(x) \/ ExtensionFails(x)
    \/ ReapReads \/ ReapDeletes \/ ReapCommits \/ ReapFails

(* The beat starts the cleanup every day, and not each of them fails *)
SandboxesFairness == WF_dVars(ReapReads) /\ WF_dVars(ReapDeletes) /\ SF_dVars(ReapCommits)

SandboxesSpec == SandboxesInit /\ [][SandboxesNext]_dVars /\ SandboxesFairness

-------------------------------------------------------------------------------
SandboxesTypeOK ==
    /\ guest \in [Visitors -> Guest]
    /\ sandbox \in [Ids -> Until] /\ trashed \subseteq Ids /\ guests \in 0..MaxGuests
    /\ \A v \in Visitors : signing[v] = NoSignup
          \/ signing[v] \in [kind : {"fresh", "join", "return", "drop"}, of : 0..MaxGuests, until : Until]
    /\ \A x \in Admins : extending[x] = NoExtension
          \/ extending[x] \in [step : {"account", "sandbox"}, id : Ids, until : Until, read : Until,
                               alone : BOOLEAN]
    /\ reaping \in [step : {"none", "spaces", "users"}, at : 0..MaxDay, ids : SUBSET Ids, users : SUBSET Ids]
    /\ today \in 1..MaxDay /\ caught \subseteq Ids /\ crossed \subseteq Ids

(* "The Space the user owns shares the TTL" (demo.py:149): whatever extends,  *)
(* reaps and signs up together, a sandbox has the expiry of its owner's       *)
(* account, but after an extension that found the sandbox at the expiry it    *)
(* was about to write, put there by another one of the account that it        *)
(* overlapped; and an owner whose account has not expired is without his      *)
(* sandbox only after such a one, or if he was extended while a cleanup was   *)
(* reaping it.                                                                *)
SandboxesKept ==
    \A v \in Visitors : guest[v] # NoGuest /\ ~guest[v].joined =>
        IF Exists(guest[v].id) THEN sandbox[guest[v].id] = guest[v].until \/ guest[v].id \in crossed
        ELSE guest[v].until >= today => guest[v].id \in caught \cup crossed

(* "Deletes demo Spaces (and their guest Users) past their TTL"              *)
(* (demo_service.py:2002): an expired sandbox, and an expired account, is    *)
(* deleted unless it is extended.                                            *)
Stale == Expired(today) \cup ExpiredGuests(today)
ExpiredIsReaped == \A i \in Ids : i \in Stale ~> i \notin Stale

(* The sandbox is extended "so the cleanup cron doesn't reap the Space       *)
(* mid-extension" (demo.py:150).                                              *)
NoneReapedMidExtension == caught = {}

(* The account deleted for a return is one whose "Space was already cleaned  *)
(* up by the cron" (demo_service.py:1483).                                    *)
NoneDropped == [][\A v \in Visitors : guest[v].of # 0 /\ DropsGuest(v) => guest'[v] # NoGuest]_dVars

(* "The deleted_at filter on Space is implicit" (demo_service.py:247): nobody *)
(* joins a sandbox that was deleted.                                          *)
NoneJoinsTrash ==
    [][\A v \in Visitors : Mints(v) /\ guest'[v].joined => guest'[v].of \notin trashed]_dVars

(* "so the whole org's sandbox expires together" (demo_service.py:274).      *)
ExpireTogether ==
    \A v \in Visitors : guest[v].of # 0 => guest[v].until = sandbox[guest[v].of]

(* "re-clicking doesn't shrink the window" (demo.py:122).                     *)
NeverShrinks ==
    [][\A v \in Visitors : guest'[v].id = guest[v].id => guest'[v].until >= guest[v].until]_dVars

===============================================================================
