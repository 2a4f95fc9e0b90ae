---------------------------- MODULE BackgroundProofs ----------------------------
(***************************************************************************)
(* Of the work that goes on by itself, for any number of agents, requests,   *)
(* visitors and days: a removal leaves no agent of its place working but one *)
(* started after it looked, and a sandbox has the expiry of its owner. The   *)
(* event stream, the scheduled agents and the sandboxes are well formed, and *)
(* what holds of each part holds of the composition.                         *)
(***************************************************************************)
EXTENDS MCBackground, WellFoundedInduction, TLAPS

(* What a removal in flight has not picked was started since.                *)
Covered ==
    removal # NoRemoval =>
        \A a \in Active : robots[a].scope = removal.from => a \in removal.picked \cup removal.since

ScopesInv == ScopesTypeOK /\ OrphanIsLate /\ Covered

-------------------------------------------------------------------------------
LEMMA Statuses ==
    ASSUME ScopesTypeOK, NEW S \in SUBSET Agents,
           NEW s \in {"none", "active", "paused", "ended", "gone"}, SetStatus(S, s)
    PROVE  /\ robots' \in [Agents -> Robot]
           /\ \A a \in Agents : robots'[a].scope = robots[a].scope
           /\ \A a \in Agents : robots'[a].status = IF a \in S THEN s ELSE robots[a].status
           /\ \A a \in Agents : robots[a].scope \in Scopes
BY DEF ScopesTypeOK, SetStatus, Robot

LEMMA RemovalFields ==
    ASSUME ScopesTypeOK, removal # NoRemoval
    PROVE  removal \in [from : Places \cup {"user"}, picked : SUBSET Agents, since : SUBSET Agents]
BY DEF ScopesTypeOK

(* A step that starts no agent and leaves the removal and the rows of        *)
(* members in place, or adds to these.                                       *)
LEMMA NothingStarts ==
    ASSUME ScopesInv, ScopesTypeOK',
           crewed \subseteq crewed', late' = late, removal' = removal,
           \A a \in Agents : robots'[a].scope = robots[a].scope,
           \A a \in Agents : robots'[a].status = "active" => robots[a].status = "active"
    PROVE  ScopesInv'
<1>1. OrphanIsLate'
    BY DEF ScopesInv, OrphanIsLate, Orphan
<1>2. Covered'
    BY DEF ScopesInv, Covered, Active
<1> QED
    BY <1>1, <1>2 DEF ScopesInv

(* ... a step of a sweep or a request that sets the status of some agents.   *)
LEMMA StatusInv ==
    ASSUME ScopesInv, NEW S \in SUBSET Agents, NEW s \in {"paused", "ended", "gone"}, SetStatus(S, s),
           crewed' = crewed, places' \subseteq places, enabled' = enabled, late' = late, removal' = removal,
           sweep' \in [todo : SUBSET Agents, out : SUBSET Agents, on : BOOLEAN], asks' \in 0..MaxAsks
    PROVE  ScopesInv'
<1>1. ScopesTypeOK
    BY DEF ScopesInv
<1>2. ScopesTypeOK'
    BY <1>1, Statuses DEF ScopesTypeOK
<1> QED
    BY <1>1, <1>2, Statuses, NothingStarts

LEMMA AskInv == ASSUME ScopesTypeOK, Asks PROVE asks' \in 0..MaxAsks /\ sweep' = sweep
BY AsksAssumption DEF ScopesTypeOK, Asks

LEMMA StartInv ==
    ASSUME ScopesInv, NEW a \in Agents, Asks, Started(a) PROVE ScopesInv'
<1>1. ScopesTypeOK /\ asks' \in 0..MaxAsks /\ sweep' = sweep
    BY AskInv DEF ScopesInv
<1>2. /\ robots' \in [Agents -> Robot]
      /\ \A b \in Agents : robots'[b].scope = robots[b].scope
      /\ \A b \in Agents : b # a => robots'[b].status = robots[b].status
    BY <1>1, Statuses DEF Started
<1>3. /\ removal = NoRemoval => removal' = NoRemoval
      /\ removal # NoRemoval =>
            /\ removal' \in [from : Places \cup {"user"}, picked : SUBSET Agents, since : SUBSET Agents]
            /\ removal'.from = removal.from /\ removal'.picked = removal.picked
            /\ removal'.since = removal.since \cup {a}
    BY <1>1, RemovalFields DEF Started
<1>4. ScopesTypeOK'
    BY <1>1, <1>2, <1>3 DEF Started, ScopesTypeOK
<1>5. OrphanIsLate'
    BY <1>2 DEF Started, ScopesInv, OrphanIsLate, Orphan
<1>6. Covered'
    BY <1>2, <1>3 DEF ScopesInv, Covered, Active
<1> QED
    BY <1>4, <1>5, <1>6 DEF ScopesInv

LEMMA CommitInv == ASSUME ScopesInv, RemovalCommits PROVE ScopesInv'
<1>1. /\ ScopesTypeOK
      /\ removal \in [from : Places \cup {"user"}, picked : SUBSET Agents, since : SUBSET Agents]
    BY RemovalFields DEF ScopesInv, RemovalCommits
<1>2. /\ robots' \in [Agents -> Robot]
      /\ \A a \in Agents : robots'[a].scope = robots[a].scope
      /\ \A a \in Agents :
            robots'[a].status = IF a \in removal.picked THEN "paused" ELSE robots[a].status
    BY <1>1, Statuses DEF RemovalCommits
<1>3. ScopesTypeOK'
    BY <1>1, <1>2 DEF RemovalCommits, ScopesTypeOK
<1>4. OrphanIsLate'
  <2> SUFFICES ASSUME NEW a \in Agents, robots[a].status = "active", a \notin removal.picked,
                      robots[a].scope \in Places \ crewed'
               PROVE  a \in late'
    BY <1>2 DEF OrphanIsLate, Orphan
  <2>1. CASE robots[a].scope = removal.from
    BY <2>1 DEF RemovalCommits, ScopesInv, Covered, Active
  <2>2. CASE robots[a].scope # removal.from
    <3>1. robots[a].scope \notin crewed
        BY <2>2 DEF RemovalCommits
    <3> QED
        BY <2>2, <3>1 DEF RemovalCommits, ScopesInv, OrphanIsLate, Orphan
  <2> QED
    BY <2>1, <2>2
<1>5. Covered'
    BY DEF RemovalCommits, Covered
<1> QED
    BY <1>3, <1>4, <1>5 DEF ScopesInv

LEMMA LoadInv ==
    ASSUME ScopesInv, NEW from \in Places \cup {"user"}, RemovalLoads(from) PROVE ScopesInv'
<1>1. ScopesTypeOK /\ asks' \in 0..MaxAsks /\ sweep' = sweep
    BY AskInv DEF ScopesInv, RemovalLoads
<1>2. ScopesTypeOK'
    BY <1>1 DEF RemovalLoads, ScopesTypeOK, Active
<1>3. OrphanIsLate'
    BY DEF RemovalLoads, ScopesInv, OrphanIsLate, Orphan
<1>4. Covered'
  <2>1. InScope("space", "space") /\ InScope("crew", "crew") /\ \A p : InScope("user", p)
    BY DEF InScope
  <2>2. \A a \in Active : robots[a].scope = from => InScope(from, robots[a].scope)
    BY <2>1 DEF Places
  <2> QED
    BY <2>2 DEF RemovalLoads, Covered, Active
<1> QED
    BY <1>2, <1>3, <1>4 DEF ScopesInv

LEMMA ScopesNextInv == ASSUME ScopesInv, [ScopesNext]_scVars PROVE ScopesInv'
<1>0. ScopesTypeOK
    BY DEF ScopesInv
<1>1. CASE UNCHANGED scVars
    BY <1>1 DEF scVars, ScopesInv, ScopesTypeOK, OrphanIsLate, Orphan, Covered, Active
<1>2. ASSUME NEW a \in Agents, CreateRobot(a) \/ ResumeRobot(a) PROVE ScopesInv'
    BY <1>2, StartInv DEF CreateRobot, ResumeRobot
<1>3. ASSUME NEW a \in Agents, PauseRobot(a) \/ DeleteRobot(a) PROVE ScopesInv'
    BY <1>0, <1>3, AskInv, StatusInv DEF PauseRobot, DeleteRobot, ScopesTypeOK
<1>4. ASSUME NEW a \in Agents, SweepChecks(a) PROVE ScopesInv'
  <2>1. ScopesTypeOK'
    BY <1>0, <1>4 DEF SweepChecks, ScopesTypeOK
  <2> QED
    BY <1>4, <2>1, NothingStarts DEF SweepChecks
<1>5. ASSUME NEW p \in Places, AddMember(p) PROVE ScopesInv'
  <2>1. ScopesTypeOK'
    BY <1>0, <1>5, AskInv DEF AddMember, ScopesTypeOK
  <2> QED
    BY <1>5, <2>1, NothingStarts DEF AddMember
<1>6. ASSUME NEW p \in Places, DeletePlace(p) PROVE ScopesInv'
  <2> DEFINE S == {a \in Agents : robots[a].scope = p /\ robots[a].status \notin {"none", "gone"}}
  <2>1. S \in SUBSET Agents /\ SetStatus(S, "ended")
    BY <1>6 DEF DeletePlace
  <2>2. places' \subseteq places /\ UNCHANGED <<crewed, enabled, removal, late>>
    BY <1>6 DEF DeletePlace
  <2>3. asks' \in 0..MaxAsks /\ sweep' \in [todo : SUBSET Agents, out : SUBSET Agents, on : BOOLEAN]
    BY <1>0, <1>6, AskInv DEF DeletePlace, ScopesTypeOK
  <2> HIDE DEF S
  <2> QED
    BY <2>1, <2>2, <2>3, StatusInv
<1>7. CASE RestoreUser
  <2>1. ScopesTypeOK'
    BY <1>0, <1>7, AskInv DEF RestoreUser, ScopesTypeOK
  <2> QED
    BY <1>7, <2>1, NothingStarts DEF RestoreUser
<1>8. CASE RemovalAborts
    BY <1>0, <1>8 DEF RemovalAborts, ScopesInv, ScopesTypeOK, OrphanIsLate, Orphan, Covered
<1>9. CASE SweepLoads
  <2>1. ScopesTypeOK'
    BY <1>0, <1>9 DEF SweepLoads, ScopesTypeOK, Active
  <2> QED
    BY <1>9, <2>1, NothingStarts DEF SweepLoads
<1>10. CASE SweepCommits
    BY <1>0, <1>10, StatusInv DEF SweepCommits, SweepEnds, NoSweep, ScopesTypeOK
<1>11. CASE SweepFails
  <2>1. ScopesTypeOK'
    BY <1>0, <1>11 DEF SweepFails, SweepEnds, NoSweep, ScopesTypeOK
  <2> QED
    BY <1>11, <2>1, NothingStarts DEF SweepFails, SweepEnds
<1> QED
    BY <1>1, <1>2, <1>3, <1>4, <1>5, <1>6, <1>7, <1>8, <1>9, <1>10, <1>11, LoadInv, CommitInv DEF ScopesNext

LEMMA ScopesInitInv == ScopesInit => ScopesInv
BY AsksAssumption DEF ScopesInit, ScopesInv, ScopesTypeOK, OrphanIsLate, Orphan, Covered, NoSweep, Places

-------------------------------------------------------------------------------
(* Memberships, agents, removal and sweep are well formed, whatever overlaps *)
(* (AgentScopes!ScopesTypeOK).                                               *)
THEOREM ScopesTypes == ScopesSpec => []ScopesTypeOK
<1>1. ScopesInv => ScopesTypeOK
    BY DEF ScopesInv
<1> QED
    BY <1>1, ScopesInitInv, ScopesNextInv, PTL DEF ScopesSpec

(* An agent of a place its creator is out of works only if it was started    *)
(* after the removal had looked.                                             *)
THEOREM OrphansAreLate == ScopesSpec => []OrphanIsLate
<1>1. ScopesInv => OrphanIsLate
    BY DEF ScopesInv
<1> QED
    BY <1>1, ScopesInitInv, ScopesNextInv, PTL DEF ScopesSpec

-------------------------------------------------------------------------------
(* The demo. An owner without his sandbox was extended while it was reaped,  *)
(* or extended without it by overlapping extensions: otherwise account and   *)
(* sandbox go together.                                                      *)
Owner(v) == guest[v] # NoGuest /\ ~guest[v].joined

(* Accounts have numbers of their own, and so have their sandboxes.          *)
Numbered ==
    /\ guest = [v \in Visitors |-> guest[v]] /\ sandbox = [i \in Ids |-> sandbox[i]]
    /\ guests \in 0..MaxGuests /\ today \in Nat
    /\ \A v \in Visitors : guest[v] # NoGuest =>
          /\ guest[v] = [id |-> guest[v].id, until |-> guest[v].until,
                         of |-> guest[v].of, joined |-> guest[v].joined]
          /\ guest[v].id \in 1..guests /\ guest[v].until \in Nat
          /\ \A u \in Visitors : guest[u].id = guest[v].id => u = v
    /\ \A i \in Ids : sandbox[i] \in Nat /\ (Exists(i) => i <= guests)

(* A fresh sandbox has an expiry, and only a visitor without account gets one *)
SignupsKnow ==
    /\ signing = [v \in Visitors |-> signing[v]]
    /\ \A v \in Visitors : signing[v].kind = "fresh" => signing[v].until # 0
    /\ \A v \in Visitors : signing[v].kind \in {"fresh", "join"} =>
          guest[v] = NoGuest /\ signing[v].until \in Nat

(* An extension that found no sandbox will find none; what it read stays     *)
(* until another extension of the account commits or the sandbox goes.       *)
Read(e) ==
    e.step = "sandbox" => /\ e.read = 0 => ~Exists(e.id)
                          /\ e.alone => sandbox[e.id] \in {e.read, 0}

Knows(e) ==
    /\ e = [step |-> e.step, id |-> e.id, until |-> e.until, read |-> e.read, alone |-> e.alone]
    /\ e.id \in 1..guests /\ e.until \in Nat \ {0}
    /\ Read(e)

ExtensionsKnow ==
    /\ extending = [x \in Admins |-> extending[x]]
    /\ \A x \in Admins : extending[x] # NoExtension => Knows(extending[x])

(* What a cleanup is about to delete of an owner it deletes all, unless he   *)
(* was extended since it read, or before without his sandbox.                *)
Apart == caught \cup crossed

ReapsWhole ==
    /\ reaping.ids \subseteq 1..guests
    /\ reaping.step \notin {"spaces", "users"} => reaping.ids = {}
    /\ \A v \in Visitors : Owner(v) /\ guest[v].id \in reaping.ids /\ guest[v].id \notin Apart =>
          /\ reaping.step = "spaces" => guest[v].until < reaping.at
          /\ reaping.step = "users" => guest[v].id \in reaping.users

OwnersKept ==
    \A v \in Visitors : Owner(v) =>
        IF Exists(guest[v].id) THEN sandbox[guest[v].id] = guest[v].until \/ guest[v].id \in crossed
        ELSE guest[v].id \in Apart

(* A member's account owns nothing.                                          *)
MembersOwnNone == \A v \in Visitors : guest[v] # NoGuest /\ guest[v].joined => ~Exists(guest[v].id)

SandboxesInv ==
    /\ Numbered /\ SignupsKnow /\ ExtensionsKnow /\ ReapsWhole
    /\ OwnersKept /\ MembersOwnNone

LEMMA SandboxesInitInv == SandboxesInit => SandboxesInv
BY BoundsAssumption DEF SandboxesInit, SandboxesInv, Numbered, SignupsKnow, ExtensionsKnow, ReapsWhole,
    OwnersKept, MembersOwnNone, Owner, Exists, Ids, NoSignup, NoReaping

(* A signup that is over, with no new account.                               *)
LEMMA SignupOver ==
    ASSUME SandboxesInv,
           signing' = signing \/ (\E v \in Visitors : signing' = [signing EXCEPT ![v] = NoSignup]),
           \A u \in Visitors : guest[u] = NoGuest => guest'[u] = NoGuest
    PROVE  SignupsKnow'
<1>1. \A u \in Visitors : signing'[u] = signing[u] \/ signing'[u].kind = "none"
    BY DEF SandboxesInv, SignupsKnow, NoSignup
<1>2. signing' = [u \in Visitors |-> signing'[u]]
    BY DEF SandboxesInv, SignupsKnow
<1> QED
    BY <1>1, <1>2 DEF SandboxesInv, SignupsKnow

(* A step that leaves accounts, sandboxes and the cleanup alone.             *)
LEMMA RowsAlone ==
    ASSUME SandboxesInv, SignupsKnow', ExtensionsKnow', today' \in Nat,
           UNCHANGED <<guest, sandbox, guests, reaping, caught, crossed>>
    PROVE  SandboxesInv'
BY DEF SandboxesInv, Numbered, ReapsWhole, OwnersKept, MembersOwnNone, Owner, Exists, Ids, Apart

LEMMA GoneInv ==
    ASSUME SandboxesInv, NEW ids \in SUBSET (1..guests), NEW users, Gone(ids, users),
           \A u \in Visitors : Owner(u) /\ guest[u].id \in ids \ users => guest[u].id \in Apart,
           signing' = signing \/ (\E v \in Visitors : signing' = [signing EXCEPT ![v] = NoSignup]),
           reaping' = reaping \/ reaping' = NoReaping,
           UNCHANGED <<guests, today, extending, caught, crossed>>
    PROVE  SandboxesInv'
<1>1. /\ Numbered /\ NoGuest.id = 0 /\ NoGuest.of = 0 /\ ~NoGuest.joined
      /\ \A i \in Ids : sandbox'[i] = IF i \in ids \cup users THEN 0 ELSE sandbox[i]
      /\ guests \in Nat /\ 1..guests \subseteq Ids
    BY BoundsAssumption DEF SandboxesInv, Gone, NoGuest, Numbered, Ids
<1>2. \A u \in Visitors :
        \/ guest'[u] = NoGuest /\ guest[u].id \in users
        \/ /\ guest'[u] = guest[u] \/ guest'[u] = [guest[u] EXCEPT !.of = 0]
           /\ guest[u].id \notin users
    BY <1>1 DEF Gone
<1>3. \A u \in Visitors : guest[u] = NoGuest => guest'[u] = NoGuest
    BY <1>1, <1>2 DEF NoGuest
<1>4. \A u \in Visitors : guest'[u] # NoGuest =>
          /\ guest[u] # NoGuest /\ guest[u].id \notin users
          /\ guest'[u].id = guest[u].id /\ guest'[u].until = guest[u].until
          /\ guest'[u].joined = guest[u].joined
          /\ guest'[u] = [id |-> guest'[u].id, until |-> guest'[u].until,
                          of |-> guest'[u].of, joined |-> guest'[u].joined]
  <2> SUFFICES ASSUME NEW u \in Visitors, guest'[u] # NoGuest
               PROVE  /\ guest[u] # NoGuest /\ guest[u].id \notin users
                      /\ guest'[u].id = guest[u].id /\ guest'[u].until = guest[u].until
                      /\ guest'[u].joined = guest[u].joined
                      /\ guest'[u] = [id |-> guest'[u].id, until |-> guest'[u].until,
                                      of |-> guest'[u].of, joined |-> guest'[u].joined]
    OBVIOUS
  <2>1. guest[u] # NoGuest /\ guest[u].id \notin users
    BY <1>2, <1>3
  <2>2. guest[u] = [id |-> guest[u].id, until |-> guest[u].until,
                    of |-> guest[u].of, joined |-> guest[u].joined]
    BY <1>1, <2>1 DEF Numbered
  <2>3. guest'[u] = guest[u] \/ guest'[u] = [guest[u] EXCEPT !.of = 0]
    BY <1>2, <2>1
  <2> QED
    BY <2>1, <2>2, <2>3
<1>5. \A i \in Ids : Exists(i)' => Exists(i)
    BY <1>1 DEF Exists
<1>6. Numbered'
  <2>1. guest' = [u \in Visitors |-> guest'[u]] /\ sandbox' = [i \in Ids |-> sandbox'[i]]
    BY DEF Gone
  <2>2. \A u \in Visitors : guest'[u].id # 0 => guest'[u] # NoGuest
    BY <1>1
  <2>3. \A u, w \in Visitors : guest'[u] # NoGuest /\ guest'[w].id = guest'[u].id => w = u
    <3> SUFFICES ASSUME NEW u \in Visitors, NEW w \in Visitors, guest'[u] # NoGuest,
                        guest'[w].id = guest'[u].id
                 PROVE  w = u
        OBVIOUS
    <3>1. guest'[u].id \in 1..guests
        BY <1>1, <1>4 DEF Numbered
    <3>2. guest'[w] # NoGuest
        BY <1>1, <3>1
    <3>3. guest[w].id = guest[u].id /\ guest[u] # NoGuest
        BY <1>4, <3>2
    <3> QED
        BY <1>1, <3>3 DEF Numbered
  <2>4. \A i \in Ids : sandbox'[i] \in Nat /\ (Exists(i)' => i <= guests)
    BY <1>1, <1>5 DEF Numbered
  <2> QED
    BY <1>1, <1>4, <2>1, <2>3, <2>4 DEF Numbered, Ids
<1>7. SignupsKnow'
    BY <1>3, SignupOver
<1>8. ExtensionsKnow'
    BY <1>1, <1>5 DEF SandboxesInv, ExtensionsKnow, Knows, Read, Exists
<1>9. ReapsWhole'
  <2>1. NoReaping.ids = {} /\ NoReaping.step = "none"
    BY DEF NoReaping
  <2> QED
    BY <1>4, <2>1 DEF SandboxesInv, ReapsWhole, Owner, Apart
<1>10. OwnersKept'
  <2> SUFFICES ASSUME NEW u \in Visitors, Owner(u)'
               PROVE  IF sandbox'[guest'[u].id] # 0
                      THEN sandbox'[guest'[u].id] = guest'[u].until \/ guest'[u].id \in crossed
                      ELSE guest'[u].id \in Apart
    BY DEF OwnersKept, Exists, Apart
  <2>1. Owner(u) /\ guest'[u].id = guest[u].id /\ guest'[u].until = guest[u].until
        /\ guest[u].id \notin users /\ guest[u].id \in Ids
    BY <1>1, <1>4 DEF Owner, Numbered
  <2>2. CASE guest[u].id \in ids
    <3>1. sandbox'[guest[u].id] = 0
        BY <1>1, <2>1, <2>2
    <3> QED
        BY <2>1, <2>2, <3>1 DEF Exists
  <2>3. CASE guest[u].id \notin ids
    <3>1. sandbox'[guest[u].id] = sandbox[guest[u].id]
        BY <1>1, <2>1, <2>3
    <3> QED
        BY <2>1, <3>1 DEF SandboxesInv, OwnersKept, Exists
  <2> QED
    BY <2>2, <2>3
<1>11. MembersOwnNone'
    BY <1>1, <1>4, <1>5 DEF SandboxesInv, MembersOwnNone, Numbered
<1> QED
    BY <1>6, <1>7, <1>8, <1>9, <1>10, <1>11 DEF SandboxesInv

-------------------------------------------------------------------------------
(* The least of a set of natural numbers. *)
LEMMA OldestIn == ASSUME NEW S \in SUBSET Nat, S # {} PROVE Oldest(S) \in S
<1>1. PICK i \in S : \A j \in S : ~(j < i)
  <2>1. IsWellFoundedOn(OpToRel(<, Nat), Nat)
    BY NatLessThanWellFounded
  <2>2. PICK i \in S : \A j \in S : ~(<<j, i>> \in OpToRel(<, Nat))
    BY <2>1, WFMin
  <2> QED
    BY <2>2 DEF OpToRel
<1>2. i \in S /\ \A j \in S : i <= j
    BY <1>1
<1> QED
    BY <1>2 DEF Oldest

LEMMA SignsUpInv == ASSUME SandboxesInv, NEW v \in Visitors, SignsUp(v) PROVE SandboxesInv'
<1>1. \A u \in Visitors : u # v => signing'[u] = signing[u]
    BY DEF SignsUp, SandboxesInv, SignupsKnow
<1>3. today + Ttl \in Nat \ {0}
    BY DEF SandboxesInv, Numbered, Ttl
<1>2. /\ signing'[v].kind = "fresh" => signing'[v].until # 0
      /\ signing'[v].kind \in {"fresh", "join"} => guest[v] = NoGuest /\ signing'[v].until \in Nat
  <2>1. CASE guest[v] # NoGuest
    BY <2>1 DEF SignsUp, SandboxesInv, SignupsKnow
  <2>2. CASE guest[v] = NoGuest /\ Siblings # {}
    <3>1. Oldest(Siblings) \in Ids
        BY <2>2, OldestIn, BoundsAssumption DEF Siblings, Ids
    <3>2. sandbox[Oldest(Siblings)] \in Nat
        BY <3>1 DEF SandboxesInv, Numbered
    <3>3. signing'[v] = [kind |-> "join", of |-> Oldest(Siblings), until |-> sandbox[Oldest(Siblings)]]
        BY <2>2 DEF SignsUp, SandboxesInv, SignupsKnow
    <3> QED
        BY <2>2, <3>2, <3>3
  <2>3. CASE guest[v] = NoGuest /\ Siblings = {}
    <3>1. signing'[v] = [kind |-> "fresh", of |-> 0, until |-> today + Ttl]
        BY <2>3 DEF SignsUp, SandboxesInv, SignupsKnow
    <3> QED
        BY <1>3, <2>3, <3>1
  <2> QED
    BY <2>1, <2>2, <2>3
<1>4. signing' = [u \in Visitors |-> signing'[u]]
    BY DEF SignsUp, SandboxesInv, SignupsKnow
<1>5. SignupsKnow'
    BY <1>1, <1>2, <1>4 DEF SignsUp, SandboxesInv, SignupsKnow
<1>6. ExtensionsKnow' /\ today' \in Nat
    BY DEF SignsUp, SandboxesInv, ExtensionsKnow, Knows, Read, Exists, Numbered
<1> QED
    BY <1>5, <1>6, RowsAlone DEF SignsUp

LEMMA MintsInv == ASSUME SandboxesInv, NEW v \in Visitors, Mints(v) PROVE SandboxesInv'
<1> DEFINE s == signing[v]
           i == guests + 1
           joined == s.kind = "join"
<1>1. /\ Numbered /\ guest[v] = NoGuest /\ i \in Ids /\ i \notin 1..guests /\ guests \in Nat
      /\ guests' = i /\ NoGuest.id = 0
      /\ s.until \in Nat /\ (s.kind = "fresh" => s.until # 0)
      /\ joined \in BOOLEAN /\ (~joined <=> s.kind = "fresh")
    BY BoundsAssumption DEF Mints, SandboxesInv, SignupsKnow, Numbered, Ids, NoGuest
<1>2. PICK g : /\ guest' = [guest EXCEPT ![v] = g]
               /\ g = [id |-> i, until |-> s.until, joined |-> joined, of |-> IF joined THEN s.of ELSE i]
    BY DEF Mints
<1>3. g.id = i /\ g.until = s.until /\ g.joined = joined
      /\ g = [id |-> g.id, until |-> g.until, of |-> g.of, joined |-> g.joined]
    BY <1>2
<1>4. sandbox' = IF joined THEN sandbox ELSE [sandbox EXCEPT ![i] = s.until]
    BY <1>1 DEF Mints
<1> HIDE DEF joined
<1>5. /\ \A u \in Visitors : guest'[u] = IF u = v THEN g ELSE guest[u]
      /\ guest' = [u \in Visitors |-> guest'[u]]
      /\ \A k \in Ids : sandbox'[k] = IF k = i /\ ~joined THEN s.until ELSE sandbox[k]
      /\ sandbox' = [k \in Ids |-> sandbox'[k]]
    BY <1>1, <1>2, <1>4 DEF Numbered
<1> HIDE DEF s, i
<1>6. sandbox[i] = 0
    BY <1>1 DEF Numbered, Exists, Ids
<1>7. \A u \in Visitors \ {v} : guest[u].id # i
    BY <1>1 DEF Numbered, Ids
<1>8. Numbered'
  <2>1. i \in 0..MaxGuests /\ 1..i = (1..guests) \cup {i} /\ today' \in Nat
    BY <1>1 DEF Mints, Answered, Numbered, Ids, i
  <2>2. \A k \in Ids : sandbox'[k] \in Nat /\ (sandbox'[k] # 0 => k <= i)
    BY <1>1, <1>5 DEF Numbered, Exists, Ids, i
  <2>3. \A u, w \in Visitors : guest'[u] # NoGuest /\ guest'[w].id = guest'[u].id => w = u
    BY <1>1, <1>3, <1>5, <1>7 DEF Numbered
  <2> QED
    BY <1>1, <1>3, <1>5, <2>1, <2>2, <2>3 DEF Numbered, Exists
<1>9. SignupsKnow'
    BY <1>5 DEF Mints, Answered, SandboxesInv, SignupsKnow, NoSignup
<1>10. ExtensionsKnow'
  <2>1. extending' = extending
    BY DEF Mints, Answered
  <2>2. \A x \in Admins : extending[x] # NoExtension => extending[x].id # i /\ extending[x].id \in 1..i
                                                        /\ extending[x].id \in Ids
    BY <1>1, BoundsAssumption DEF SandboxesInv, ExtensionsKnow, Knows, Numbered, Ids, i
  <2> QED
    BY <1>1, <1>5, <2>1, <2>2 DEF SandboxesInv, ExtensionsKnow, Knows, Read, Exists
<1>11. ReapsWhole'
  <2>1. reaping' = reaping /\ Apart' = Apart /\ i \notin reaping.ids /\ reaping.ids \subseteq 1..i
    BY <1>1 DEF Mints, Answered, SandboxesInv, ReapsWhole, Apart, i
  <2> QED
    BY <1>1, <1>3, <1>5, <2>1 DEF SandboxesInv, ReapsWhole, Owner
<1>12. OwnersKept'
  <2> SUFFICES ASSUME NEW u \in Visitors, Owner(u)'
               PROVE  IF sandbox'[guest'[u].id] # 0
                      THEN sandbox'[guest'[u].id] = guest'[u].until \/ guest'[u].id \in crossed'
                      ELSE guest'[u].id \in Apart'
    BY DEF OwnersKept, Exists
  <2>1. CASE u = v
    BY <1>1, <1>3, <1>5, <2>1 DEF Owner, joined, s
  <2>2. CASE u # v
    <3>1. guest'[u] = guest[u] /\ guest[u].id \in Ids /\ guest[u].id # i /\ Owner(u)
        BY <1>1, <1>5, <1>7, <2>2, BoundsAssumption DEF Owner, Numbered, Ids
    <3>2. sandbox'[guest[u].id] = sandbox[guest[u].id] /\ crossed' = crossed /\ Apart' = Apart
        BY <1>5, <3>1 DEF Mints, Answered, Apart
    <3> QED
        BY <3>1, <3>2 DEF SandboxesInv, OwnersKept, Exists
  <2> QED
    BY <2>1, <2>2
<1>13. MembersOwnNone'
  <2>1. \A u \in Visitors \ {v} : guest[u] # NoGuest => guest[u].id \in Ids
    BY <1>1, BoundsAssumption DEF Numbered, Ids
  <2> QED
    BY <1>1, <1>3, <1>5, <1>6, <1>7, <2>1 DEF SandboxesInv, MembersOwnNone, Exists
<1> QED
    BY <1>8, <1>9, <1>10, <1>11, <1>12, <1>13 DEF SandboxesInv

(* What a step of an extension leaves to the others.                         *)
LEMMA ExtensionsAlone ==
    ASSUME SandboxesInv, NEW x \in Admins, NEW e, e = NoExtension \/ Knows(e),
           extending' = [extending EXCEPT ![x] = e],
           UNCHANGED <<guest, sandbox, guests, signing, reaping, today, caught, crossed>>
    PROVE  SandboxesInv'
<1>1. /\ extending' = [y \in Admins |-> extending'[y]]
      /\ \A y \in Admins : extending'[y] = IF y = x THEN e ELSE extending[y]
    BY DEF SandboxesInv, ExtensionsKnow
<1>2. \A y \in Admins : extending'[y] # NoExtension => Knows(extending'[y])
    BY <1>1 DEF SandboxesInv, ExtensionsKnow
<1>3. ExtensionsKnow'
    BY <1>1, <1>2 DEF ExtensionsKnow, Knows, Read, Exists
<1>4. SignupsKnow' /\ today' \in Nat
    BY DEF SandboxesInv, SignupsKnow, Numbered
<1> QED
    BY <1>3, <1>4, RowsAlone

LEMMA LoadsInv ==
    ASSUME SandboxesInv, NEW x \in Admins, NEW v \in Visitors, NEW n \in Days, ExtensionLoads(x, v, n)
    PROVE  SandboxesInv'
<1> DEFINE base == IF guest[v].until > today THEN guest[v].until ELSE today
<1>1. /\ guest[v].id \in 1..guests /\ base + n \in Nat \ {0}
    BY DEF ExtensionLoads, SandboxesInv, Numbered, Days
<1>2. PICK e : /\ extending' = [extending EXCEPT ![x] = e]
               /\ e = [step |-> "account", id |-> guest[v].id, until |-> base + n, read |-> 0, alone |-> TRUE]
    BY DEF ExtensionLoads
<1> HIDE DEF base
<1>3. Knows(e)
    BY <1>1, <1>2 DEF Knows, Read
<1> QED
    BY <1>2, <1>3, ExtensionsAlone DEF ExtensionLoads

(* What the sandbox is found to be, it is now.                               *)
LEMMA FindsSpaceInv ==
    ASSUME SandboxesInv, NEW x \in Admins, ExtensionFindsSpace(x) PROVE SandboxesInv'
<1> DEFINE f == extending[x]
<1>1. Knows(f)
    BY DEF ExtensionFindsSpace, SandboxesInv, ExtensionsKnow, NoExtension
<1>2. PICK e : /\ extending' = [extending EXCEPT ![x] = e]
               /\ e = [f EXCEPT !.step = "sandbox", !.read = sandbox[f.id]]
    BY DEF ExtensionFindsSpace
<1> HIDE DEF f
<1>3. e = [step |-> "sandbox", id |-> f.id, until |-> f.until, read |-> sandbox[f.id], alone |-> f.alone]
    BY <1>1, <1>2 DEF Knows
<1>4. Knows(e)
    BY <1>1, <1>3 DEF Knows, Read, Exists
<1> QED
    BY <1>2, <1>4, ExtensionsAlone DEF ExtensionFindsSpace

(* The account gets the expiry, and so does the sandbox unless there is none *)
(* or another extension has put the same one there.                          *)
LEMMA ExtendsInv ==
    ASSUME SandboxesInv, NEW x \in Admins, ExtensionCommits(x) PROVE SandboxesInv'
<1> DEFINE e == extending[x]
<1>1. PICK v \in Visitors : guest[v].id = e.id /\ guest' = [guest EXCEPT ![v].until = e.until]
    BY DEF ExtensionCommits
<1>2. /\ Numbered /\ e # NoExtension /\ e.id \in 1..guests /\ e.id \in Ids /\ NoGuest.id = 0
      /\ e.until \in Nat \ {0}
      /\ e.read = 0 => ~Exists(e.id)
      /\ e.alone => sandbox[e.id] \in {e.read, 0}
    BY BoundsAssumption DEF ExtensionCommits, SandboxesInv, ExtensionsKnow, Knows, Read, Numbered, Ids,
        NoGuest, NoExtension
<1>3. guest[v] # NoGuest
    BY <1>1, <1>2
<1>4. /\ \A u \in Visitors : guest'[u] = IF u = v THEN [guest[v] EXCEPT !.until = e.until] ELSE guest[u]
      /\ guest' = [u \in Visitors |-> guest'[u]]
    BY <1>1, <1>2 DEF Numbered
<1>5. /\ \A i \in Ids : sandbox'[i] = IF i = e.id /\ Writes(e) THEN e.until ELSE sandbox[i]
      /\ sandbox' = [i \in Ids |-> sandbox'[i]]
      /\ Writes(e) => Exists(e.id)
    BY <1>2 DEF ExtensionCommits, Numbered
<1>6. /\ caught' = IF e.id \in reaping.ids THEN caught \cup {e.id} ELSE caught
      /\ crossed' = CASE Writes(e) -> crossed \ {e.id}
                       [] e.read = e.until /\ ~e.alone -> crossed \cup {e.id}
                       [] OTHER -> crossed
      /\ UNCHANGED <<trashed, guests, signing, reaping, today>>
    BY DEF ExtensionCommits
<1>7. /\ extending' = [y \in Admins |-> extending'[y]]
      /\ \A y \in Admins :
            \/ extending'[y] = NoExtension
            \/ extending[y] # NoExtension /\ extending'[y] = extending[y] /\ extending[y].id # e.id
            \/ extending[y] # NoExtension /\ extending'[y] = [extending[y] EXCEPT !.alone = FALSE]
    BY DEF ExtensionCommits, Done
<1>8. /\ Writes(e) <=> e.read # 0 /\ e.read # e.until
      /\ ~Exists(e.id) => sandbox[e.id] = 0
    BY DEF Writes, Exists
<1> HIDE DEF e
<1>9. /\ guest[v] = [id |-> guest[v].id, until |-> guest[v].until, of |-> guest[v].of, joined |-> guest[v].joined]
      /\ guest'[v] = [id |-> guest[v].id, until |-> e.until, of |-> guest[v].of, joined |-> guest[v].joined]
    BY <1>2, <1>3, <1>4 DEF Numbered
<1>10. guest'[v].id = e.id /\ guest'[v].until = e.until /\ guest'[v].joined = guest[v].joined
       /\ guest'[v] # NoGuest
    BY <1>1, <1>2, <1>9
<1>11. \A u \in Visitors \ {v} : guest'[u] = guest[u] /\ guest[u].id # e.id
    BY <1>1, <1>2, <1>3, <1>4 DEF Numbered
<1>12. \A i \in Ids : Exists(i)' <=> Exists(i)
    BY <1>2, <1>5 DEF Exists
<1>13. Numbered'
  <2>1. \A i \in Ids : sandbox'[i] \in Nat
    BY <1>2, <1>5 DEF Numbered
  <2>2. \A u, w \in Visitors : guest'[u] # NoGuest /\ guest'[w].id = guest'[u].id => w = u
    BY <1>2, <1>10, <1>11 DEF Numbered
  <2> QED
    BY <1>2, <1>4, <1>5, <1>6, <1>9, <1>10, <1>11, <1>12, <2>1, <2>2 DEF Numbered
<1>14. SignupsKnow'
    BY <1>3, <1>6, <1>11 DEF SandboxesInv, SignupsKnow
<1>15. ExtensionsKnow'
  <2> SUFFICES ASSUME NEW y \in Admins, extending'[y] # NoExtension PROVE Knows(extending[y])'
    BY <1>7 DEF ExtensionsKnow
  <2>1. Knows(extending[y]) /\ extending[y].id \in Ids
    BY <1>2, <1>7, BoundsAssumption DEF SandboxesInv, ExtensionsKnow, Knows, Numbered, Ids
  <2>2. CASE extending'[y] = extending[y] /\ extending[y].id # e.id
    BY <1>5, <1>6, <2>1, <2>2 DEF Knows, Read, Exists
  <2>3. CASE extending'[y] = [extending[y] EXCEPT !.alone = FALSE]
    <3>1. extending'[y] = [step |-> extending[y].step, id |-> extending[y].id, until |-> extending[y].until,
                           read |-> extending[y].read, alone |-> FALSE]
        BY <2>1, <2>3 DEF Knows
    <3>2. sandbox'[extending[y].id] = 0 <=> sandbox[extending[y].id] = 0
        BY <1>12, <2>1 DEF Exists
    <3> QED
        BY <1>6, <2>1, <3>1, <3>2 DEF Knows, Read, Exists
  <2> QED
    BY <1>7, <2>2, <2>3
<1>16. /\ e.id \in reaping.ids => e.id \in caught'
       /\ \A i \in Apart : i # e.id => i \in Apart'
       /\ \A i : i # e.id => (i \in crossed => i \in crossed')
       /\ ~Writes(e) => Apart \subseteq Apart'
    BY <1>6 DEF Apart
<1>17. ReapsWhole'
    BY <1>6, <1>10, <1>11, <1>16 DEF SandboxesInv, ReapsWhole, Owner, Apart
<1>18. OwnersKept'
  <2> SUFFICES ASSUME NEW u \in Visitors, Owner(u)'
               PROVE  IF sandbox'[guest'[u].id] # 0
                      THEN sandbox'[guest'[u].id] = guest'[u].until \/ guest'[u].id \in crossed'
                      ELSE guest'[u].id \in Apart'
    BY DEF OwnersKept, Exists
  <2>1. CASE u = v
    <3>1. Owner(v) /\ guest[v].id = e.id
        BY <1>1, <1>3, <1>10, <2>1 DEF Owner, e
    <3>2. CASE Writes(e)
        BY <1>2, <1>5, <1>10, <2>1, <3>2
    <3>3. CASE ~Writes(e) /\ ~Exists(e.id)
        BY <1>2, <1>5, <1>8, <1>10, <1>16, <2>1, <3>1, <3>3 DEF SandboxesInv, OwnersKept
    <3>4. CASE ~Writes(e) /\ Exists(e.id)
      <4>1. e.read = e.until
        BY <1>2, <1>8, <3>4
      <4>2. CASE e.alone
        BY <1>2, <1>5, <1>10, <2>1, <3>4, <4>1, <4>2 DEF Exists
      <4>3. CASE ~e.alone
        BY <1>5, <1>6, <1>10, <2>1, <3>4, <4>1, <4>3, <1>2 DEF Exists
      <4> QED
        BY <4>2, <4>3
    <3> QED
        BY <3>2, <3>3, <3>4
  <2>2. CASE u # v
    <3>1. guest'[u] = guest[u] /\ guest[u].id \in Ids /\ guest[u].id # e.id /\ Owner(u)
        BY <1>2, <1>11, <2>2, BoundsAssumption DEF Owner, Numbered, Ids
    <3>2. sandbox'[guest[u].id] = sandbox[guest[u].id]
        BY <1>5, <3>1
    <3> QED
        BY <1>16, <3>1, <3>2 DEF SandboxesInv, OwnersKept, Exists
  <2> QED
    BY <2>1, <2>2
<1>19. MembersOwnNone'
  <2>1. \A u \in Visitors : guest[u] # NoGuest => guest[u].id \in Ids
    BY <1>2, BoundsAssumption DEF Numbered, Ids
  <2>2. \A u \in Visitors : guest'[u] # NoGuest /\ guest'[u].joined =>
            guest[u] # NoGuest /\ guest[u].joined /\ guest'[u].id = guest[u].id
    BY <1>1, <1>3, <1>10, <1>11 DEF e
  <2> QED
    BY <1>12, <2>1, <2>2 DEF SandboxesInv, MembersOwnNone
<1> QED
    BY <1>13, <1>14, <1>15, <1>17, <1>18, <1>19 DEF SandboxesInv

(* The cleanup reads; accounts and sandboxes stay.                           *)
LEMMA ReadsInv == ASSUME SandboxesInv, ReapReads \/ ReapDeletes PROVE SandboxesInv'
<1>1. /\ Numbered /\ UNCHANGED <<guest, sandbox, guests, signing, extending, today, caught, crossed>>
      /\ \A v \in Visitors : guest[v] # NoGuest => guest[v].id \in 1..guests /\ guest[v].id \in Ids
    BY BoundsAssumption DEF SandboxesInv, ReapReads, ReapDeletes, Reap, Numbered, Ids
<1>2. /\ Numbered' /\ SignupsKnow' /\ ExtensionsKnow' /\ OwnersKept' /\ MembersOwnNone'
    BY <1>1 DEF SandboxesInv, Numbered, SignupsKnow, ExtensionsKnow, Knows, Read, OwnersKept, MembersOwnNone,
        Owner, Exists, Apart
<1>3. ReapsWhole'
  <2>1. CASE ReapReads
    <3>1. /\ reaping'.step = "spaces" /\ reaping'.ids = Expired(today) /\ reaping'.at = today
        BY <2>1 DEF ReapReads
    <3>2. Expired(today) \subseteq 1..guests
        BY <1>1 DEF Expired, Numbered, Exists, Ids
    <3>3. \A v \in Visitors : Owner(v) /\ guest[v].id \in Expired(today) /\ guest[v].id \notin Apart =>
             guest[v].until < today
        BY DEF SandboxesInv, OwnersKept, Expired, Exists, Apart
    <3> QED
        BY <1>1, <3>1, <3>2, <3>3 DEF ReapsWhole, Owner, Apart
  <2>2. CASE ReapDeletes
    <3>1. /\ reaping.step = "spaces"
          /\ reaping' = [reaping EXCEPT !.step = "users", !.users = ExpiredGuests(reaping.at)]
        BY <2>2 DEF ReapDeletes
    <3>2. \A v \in Visitors : Owner(v) /\ guest[v].until < reaping.at => guest[v].id \in ExpiredGuests(reaping.at)
        BY DEF Owner, ExpiredGuests
    <3> QED
        BY <1>1, <3>1, <3>2 DEF SandboxesInv, ReapsWhole, Owner, Apart
  <2> QED
    BY <2>1, <2>2
<1> QED
    BY <1>2, <1>3 DEF SandboxesInv

LEMMA SandboxesNextInv == ASSUME SandboxesInv, [SandboxesNext]_dVars PROVE SandboxesInv'
<1>0. Numbered /\ SignupsKnow /\ ExtensionsKnow /\ today \in Nat
    BY DEF SandboxesInv, Numbered
<1>1. ASSUME UNCHANGED dVars \/ DayPasses \/ (\E i \in Ids : Trash(i)) PROVE SandboxesInv'
  <2>1. UNCHANGED <<guest, sandbox, guests, signing, extending, reaping, caught, crossed>> /\ today' \in Nat
    BY <1>0, <1>1 DEF dVars, DayPasses, Trash
  <2>2. SignupsKnow' /\ ExtensionsKnow'
    BY <1>0, <2>1 DEF SignupsKnow, ExtensionsKnow, Knows, Read, Exists
  <2> QED
    BY <2>1, <2>2, RowsAlone
<1>2. ASSUME NEW v \in Visitors, Returns(v) \/ SignupFails(v) PROVE SandboxesInv'
  <2>1. /\ UNCHANGED <<guest, sandbox, guests, extending, reaping, today, caught, crossed>>
        /\ signing' = [signing EXCEPT ![v] = NoSignup]
    BY <1>2 DEF Returns, SignupFails, Answered
  <2>2. SignupsKnow'
    BY <2>1, SignupOver
  <2>3. ExtensionsKnow'
    BY <1>0, <2>1 DEF ExtensionsKnow, Knows, Read, Exists
  <2> QED
    BY <1>0, <2>1, <2>2, <2>3, RowsAlone
<1>3. ASSUME NEW v \in Visitors, DropsGuest(v) PROVE SandboxesInv'
  <2>1. /\ Gone({}, {signing[v].of}) /\ signing' = [signing EXCEPT ![v] = NoSignup]
        /\ UNCHANGED <<guests, extending, reaping, today, caught, crossed>>
    BY <1>3 DEF DropsGuest, Answered
  <2> DEFINE ids == {}
             users == {signing[v].of}
  <2>2. ids \in SUBSET (1..guests) /\ Gone(ids, users)
    BY <2>1
  <2>3. \A u \in Visitors : Owner(u) /\ guest[u].id \in ids \ users => guest[u].id \in Apart
    OBVIOUS
  <2> HIDE DEF ids, users
  <2> QED
    BY <2>1, <2>2, <2>3, GoneInv
<1>4. ASSUME NEW x \in Admins, ExtensionFails(x) PROVE SandboxesInv'
    BY <1>4, ExtensionsAlone DEF ExtensionFails
<1>5. CASE ReapCommits
  <2>1. /\ reaping.ids \subseteq 1..guests /\ Gone(reaping.ids, reaping.users)
        /\ reaping' = NoReaping /\ UNCHANGED <<guests, signing, extending, today, caught, crossed>>
        /\ \A v \in Visitors : Owner(v) /\ guest[v].id \in reaping.ids \ reaping.users => guest[v].id \in Apart
    BY <1>5 DEF ReapCommits, Reap, SandboxesInv, ReapsWhole
  <2> QED
    BY <2>1, GoneInv
<1>6. CASE ReapFails
  <2>1. UNCHANGED <<guest, sandbox, guests, signing, extending, today, caught, crossed>> /\ reaping' = NoReaping
    BY <1>6 DEF ReapFails, Reap
  <2> QED
    BY <2>1 DEF SandboxesInv, Numbered, SignupsKnow, ExtensionsKnow, Knows, Read, ReapsWhole, OwnersKept,
        MembersOwnNone, NoReaping, Owner, Exists, Apart
<1> QED
    BY <1>1, <1>2, <1>3, <1>4, <1>5, <1>6, SignsUpInv, MintsInv, LoadsInv, FindsSpaceInv,
        ExtendsInv, ReadsInv
    DEF SandboxesNext

(* A sandbox has the expiry of its owner's account, whatever extends, reaps  *)
(* and signs up together, but where extensions of the account overlapped     *)
(* (DemoSandbox!SandboxesKept).                                              *)
THEOREM SandboxesAreKept == SandboxesSpec => []SandboxesKept
<1>1. SandboxesInv => SandboxesKept
    BY DEF SandboxesInv, OwnersKept, SandboxesKept, Owner, Apart
<1> QED
    BY <1>1, SandboxesInitInv, SandboxesNextInv, PTL DEF SandboxesSpec

-------------------------------------------------------------------------------
(* The stream of a job.                                                      *)
LEMMA StreamInitTypes == StreamInit => StreamTypeOK
BY DEF StreamInit, StreamTypeOK

LEMMA StreamNextTypes == ASSUME StreamTypeOK, [StreamNext]_eVars PROVE StreamTypeOK'
<1>1. CASE UNCHANGED eVars
    BY <1>1 DEF eVars, StreamTypeOK
<1>2. ASSUME NEW e \in JobEvents, EventFlushes(e) \/ EventCommits(e) \/ EventUndone(e) \/ ShowsMessage(e)
      PROVE  StreamTypeOK'
    BY <1>2 DEF StreamTypeOK, EventFlushes, EventCommits, EventUndone, ShowsMessage
<1>3. CASE Replays \/ Subscribes
    BY <1>3 DEF StreamTypeOK, Replays, Subscribes, Committed
<1>4. CASE IdleEnds \/ Breaks
    BY <1>4 DEF StreamTypeOK, IdleEnds, Breaks, StreamEnds
<1> QED
    BY <1>1, <1>2, <1>3, <1>4 DEF StreamNext

-------------------------------------------------------------------------------
(* The older scheduler: what a run has loaded is the copy of an active agent. *)
SchedulesInv == SchedulesTypeOK /\ exec = [w \in Workers |-> exec[w]]

LEMMA SchedulesInitInv == ASSUME SchedulesInit PROVE SchedulesInv
<1>1. PICK f \in {"scheduled", "manual"} :
          agent = [status |-> "active", freq |-> f, next |-> FirstRun(f), fails |-> 0]
    BY DEF SchedulesInit
<1>2. FirstRun(f) \in {"none", "ahead"} /\ 0 \in 0..MaxFailures
    BY DEF FirstRun, MaxFailures
<1>3. agent \in Agent
    BY <1>1, <1>2 DEF Agent
<1>4. /\ messages = [n \in 0..MaxRetries |-> 0] /\ exec = [w \in Workers |-> NoExec]
      /\ healing = FALSE /\ commands = 0 /\ fired = FALSE
    BY DEF SchedulesInit
<1>5. 0 \in 0..MaxQueue /\ 0 \in 0..MaxCommands
    BY QueueAssumption
<1>6. messages \in [0..MaxRetries -> 0..MaxQueue] /\ \A w \in Workers : exec[w] = NoExec
    BY <1>4, <1>5
<1>7. SchedulesTypeOK
    BY <1>3, <1>4, <1>5, <1>6, Zenon DEF SchedulesTypeOK
<1> QED
    BY <1>4, <1>7 DEF SchedulesInv

LEMMA SendsTypes ==
    ASSUME SchedulesTypeOK, NEW n \in 0..MaxRetries, Sends(n)
    PROVE  messages' \in [0..MaxRetries -> 0..MaxQueue]
BY QueueAssumption DEF SchedulesTypeOK, Sends

(* What a run loads, and what it writes back. *)
LEMMA LoadedTypes == ASSUME agent \in Agent, agent.status = "active" PROVE Loaded \in Copy
BY DEF Agent, Copy, Loaded

LEMMA WriteTypes ==
    ASSUME agent \in Agent, NEW w,
           NEW new \in [status : {"active", "paused"}, next : {"none", "ahead", "due"}, fails : 0..MaxFailures],
           Write(w, new)
    PROVE  agent' \in Agent
BY DEF Agent, Write

Written == [status : {"active", "paused"}, next : {"none", "ahead", "due"}, fails : 0..MaxFailures]

LEMMA FinishInv ==
    ASSUME SchedulesInv, NEW w \in Workers, agent' \in Agent, ExecEnds(w),
           messages' \in [0..MaxRetries -> 0..MaxQueue]
    PROVE  SchedulesInv'
<1>1. /\ exec' = [v \in Workers |-> exec'[v]]
      /\ \A v \in Workers : exec'[v] = exec[v] \/ exec'[v] = NoExec
    BY DEF ExecEnds, SchedulesInv
<1> QED
    BY <1>1 DEF ExecEnds, SchedulesInv, SchedulesTypeOK

LEMMA ExecInv == ASSUME SchedulesInv, NEW w \in Workers, ExecFinishes(w) PROVE SchedulesInv'
<1> DEFINE copy == exec[w].copy
<1>1. /\ SchedulesTypeOK /\ ExecEnds(w) /\ agent \in Agent
      /\ exec[w] \in [attempt : 0..MaxRetries, copy : Copy]
    BY DEF SchedulesInv, SchedulesTypeOK, ExecFinishes, ExecSkips, ExecAnswers, ExecUnanswered, ExecFails,
        ExecDies, Running
<1>2. copy \in Copy /\ copy \in Written
    BY <1>1 DEF Copy, Written
<1> HIDE DEF copy
<1>3. CASE ExecSkips(w)
  <2>1. [copy EXCEPT !.next = "ahead"] \in Written
    BY <1>2 DEF Written
  <2>2. agent' \in Agent
    BY <1>1, <1>3, <2>1, WriteTypes DEF ExecSkips, copy, Written
  <2> QED
    BY <1>1, <1>3, <2>2, FinishInv DEF ExecSkips, SchedulesTypeOK
<1>4. CASE ExecAnswers(w)
  <2>0. 0 \in 0..MaxFailures
    BY DEF MaxFailures
  <2>1. [copy EXCEPT !.fails = 0, !.next = "ahead"] \in Written
    BY <1>2, <2>0 DEF Written
  <2>2. agent' \in Agent
    BY <1>1, <1>4, <2>1, WriteTypes DEF ExecAnswers, copy, Written
  <2> QED
    BY <1>1, <1>4, <2>2, FinishInv DEF ExecAnswers, SchedulesTypeOK
<1>5. CASE ExecUnanswered(w)
  <2> DEFINE fails == IF copy.fails < MaxFailures THEN copy.fails + 1 ELSE MaxFailures
             new == IF fails >= MaxFailures
                    THEN [copy EXCEPT !.fails = fails, !.status = "paused", !.next = "none"]
                    ELSE [copy EXCEPT !.fails = fails, !.next = "ahead"]
  <2>1. fails \in 0..MaxFailures
    BY <1>2 DEF Written, MaxFailures
  <2>2. Write(w, new)
    BY <1>5 DEF ExecUnanswered, copy
  <2>3. new \in Written
    <3> HIDE DEF fails
    <3>1. [copy EXCEPT !.fails = fails, !.status = "paused", !.next = "none"] \in Written
        BY <1>2, <2>1 DEF Written
    <3>2. [copy EXCEPT !.fails = fails, !.next = "ahead"] \in Written
        BY <1>2, <2>1 DEF Written
    <3> QED
        BY <3>1, <3>2
  <2> HIDE DEF new
  <2>4. agent' \in Agent
    BY <1>1, <2>2, <2>3, WriteTypes DEF Written
  <2> QED
    BY <1>1, <1>5, <2>4, FinishInv DEF ExecUnanswered, SchedulesTypeOK
<1>6. CASE ExecFails(w)
  <2>1. agent' \in Agent
    BY <1>1, <1>6 DEF ExecFails, Agent
  <2>2. messages' \in [0..MaxRetries -> 0..MaxQueue]
    <3>1. exec[w].attempt \in 0..MaxRetries
        BY <1>1
    <3>2. CASE exec[w].attempt < MaxRetries
        <4>1. exec[w].attempt + 1 \in 0..MaxRetries
            BY <3>1, <3>2 DEF MaxRetries
        <4> QED
            BY <1>1, <1>6, <3>2, <4>1, SendsTypes DEF ExecFails
    <3> QED
        BY <1>1, <1>6, <3>2 DEF ExecFails, SchedulesTypeOK
  <2> QED
    BY <1>1, <2>1, <2>2, FinishInv
<1>7. CASE ExecDies(w)
    BY <1>1, <1>7, FinishInv DEF ExecDies, SchedulesTypeOK
<1> QED
    BY <1>3, <1>4, <1>5, <1>6, <1>7 DEF ExecFinishes

LEMMA StartsInv ==
    ASSUME SchedulesInv, NEW w \in Workers, NEW n \in 0..MaxRetries, ExecStarts(w, n)
    PROVE  SchedulesInv'
<1>1. messages' \in [0..MaxRetries -> 0..MaxQueue]
    BY QueueAssumption DEF SchedulesInv, SchedulesTypeOK, ExecStarts
<1>2. CASE agent.status = "active"
  <2> DEFINE new == [attempt |-> n, copy |-> Loaded]
  <2>1. Loaded \in Copy
    BY <1>2, LoadedTypes DEF SchedulesInv, SchedulesTypeOK
  <2>2. new \in [attempt : 0..MaxRetries, copy : Copy]
    BY <2>1
  <2>3. exec' = [exec EXCEPT ![w] = new]
    BY <1>2 DEF ExecStarts
  <2> HIDE DEF new
  <2>4. /\ exec' = [v \in Workers |-> exec'[v]]
        /\ \A v \in Workers : exec'[v] = exec[v] \/ exec'[v] = new
    BY <2>3 DEF SchedulesInv
  <2> QED
    BY <1>1, <2>2, <2>4 DEF ExecStarts, SchedulesInv, SchedulesTypeOK
<1> QED
    BY <1>1, <1>2 DEF ExecStarts, SchedulesInv, SchedulesTypeOK

LEMMA SchedulesNextInv == ASSUME SchedulesInv, [SchedulesNext]_lVars PROVE SchedulesInv'
<1>0. SchedulesTypeOK /\ agent \in Agent
    BY DEF SchedulesInv, SchedulesTypeOK
<1>1. CASE UNCHANGED lVars
    BY <1>1 DEF lVars, SchedulesInv, SchedulesTypeOK
<1>2. CASE Beat
  <2>1. messages' \in [0..MaxRetries -> 0..MaxQueue]
    <3>1. 0 \in 0..MaxRetries
        BY DEF MaxRetries
    <3> QED
        BY <1>0, <1>2, <3>1, SendsTypes DEF Beat, SchedulesTypeOK
  <2>2. healing' \in BOOLEAN
    BY <1>2 DEF Beat
  <2>3. fired' \in BOOLEAN
    BY <1>0, <1>2, Zenon DEF Beat, SchedulesTypeOK
  <2> QED
    BY <1>2, <2>1, <2>2, <2>3 DEF Beat, SchedulesInv, SchedulesTypeOK
<1>3. CASE BeatHeals \/ BeatDies \/ ComesDue
  <2>1. agent' \in Agent
    BY <1>0, <1>3 DEF BeatHeals, BeatDies, ComesDue, Agent
  <2> QED
    BY <1>3, <2>1 DEF BeatHeals, BeatDies, ComesDue, SchedulesInv, SchedulesTypeOK
<1>4. ASSUME Commands, agent' \in Agent, messages' \in [0..MaxRetries -> 0..MaxQueue]
      PROVE  SchedulesInv'
    BY <1>4, QueueAssumption DEF Commands, SchedulesInv, SchedulesTypeOK
<1>5. CASE RunNow
  <2>1. 0 \in 0..MaxRetries
    BY DEF MaxRetries
  <2> QED
    BY <1>0, <1>4, <1>5, <2>1, SendsTypes DEF RunNow
<1>6. CASE PauseAgent \/ ResumeAgent \/ RevokeAgent \/ \E f \in {"scheduled", "manual"} : UpdateAgent(f)
  <2>1. Commands /\ UNCHANGED messages
    BY <1>6 DEF PauseAgent, ResumeAgent, RevokeAgent, UpdateAgent
  <2>2. FirstRun(agent.freq) \in {"none", "ahead"}
    BY DEF FirstRun
  <2>3. agent' \in Agent
    BY <1>0, <1>6, <2>2 DEF PauseAgent, ResumeAgent, RevokeAgent, UpdateAgent, Agent
  <2> QED
    BY <1>0, <1>4, <2>1, <2>3 DEF SchedulesTypeOK
<1> QED
    BY <1>1, <1>2, <1>3, <1>5, <1>6, StartsInv, ExecInv DEF SchedulesNext

-------------------------------------------------------------------------------
(* The demo once more: its numbers and expiries stay in their ranges.        *)
SandboxesShape == SandboxesInv /\ SandboxesTypeOK

Signup == [kind : {"fresh", "join", "return", "drop"}, of : 0..MaxGuests, until : Until]
Account == [id : 1..MaxGuests, until : Until, of : 0..MaxGuests, joined : BOOLEAN]

LEMMA SandboxesInitShape == ASSUME SandboxesInit PROVE SandboxesShape
<1>1. /\ NoReaping \in [step : {"none", "spaces", "users"}, at : 0..MaxDay, ids : SUBSET Ids, users : SUBSET Ids]
      /\ 0 \in Until /\ 1 \in 1..MaxDay /\ 0 \in 0..MaxGuests /\ NoGuest \in Guest
    BY BoundsAssumption DEF NoReaping, Until, Guest
<1>2. SandboxesTypeOK
    BY <1>1 DEF SandboxesInit, SandboxesTypeOK
<1> QED
    BY <1>2, SandboxesInitInv DEF SandboxesShape

LEMMA GoneTypes ==
    ASSUME SandboxesTypeOK, NEW ids, NEW users, Gone(ids, users)
    PROVE  guest' \in [Visitors -> Guest] /\ sandbox' \in [Ids -> Until]
<1>1. 0 \in Until /\ NoGuest \in Guest
    BY BoundsAssumption DEF Until, Guest
<1>2. \A v \in Visitors : [guest[v] EXCEPT !.of = 0] \in Guest
  <2> SUFFICES ASSUME NEW v \in Visitors PROVE [guest[v] EXCEPT !.of = 0] \in Guest
    OBVIOUS
  <2>1. guest[v] \in Account \/ guest[v] = NoGuest
    BY DEF SandboxesTypeOK, Guest, Account
  <2>2. CASE guest[v] \in Account
    <3>1. 0 \in 0..MaxGuests
        BY BoundsAssumption
    <3>2. [guest[v] EXCEPT !.of = 0] \in Account
        BY <2>2, <3>1 DEF Account
    <3> QED
        BY <3>2 DEF Guest, Account
  <2>3. CASE guest[v] = NoGuest
    <3>1. [NoGuest EXCEPT !.of = 0] = NoGuest
        BY DEF NoGuest
    <3> QED
        BY <1>1, <2>3, <3>1
  <2> QED
    BY <2>1, <2>2, <2>3
<1>3. sandbox' \in [Ids -> Until]
    BY <1>1 DEF Gone, SandboxesTypeOK
<1>4. guest' = [v \in Visitors |-> guest'[v]]
    BY DEF Gone
<1>5. \A v \in Visitors : guest'[v] \in Guest
    BY <1>1, <1>2 DEF Gone, SandboxesTypeOK
<1> QED
    BY <1>3, <1>4, <1>5

LEMMA SignupTypes ==
    ASSUME SandboxesShape, NEW v \in Visitors,
           NEW s, s \in Signup \/ s = NoSignup, signing' = [signing EXCEPT ![v] = s]
    PROVE  \A u \in Visitors : signing'[u] = NoSignup \/ signing'[u] \in Signup
BY DEF SandboxesShape, SandboxesInv, SignupsKnow, SandboxesTypeOK, Signup

LEMMA SignsUpTypes ==
    ASSUME SandboxesShape, NEW v \in Visitors, SignsUp(v)
    PROVE  SandboxesTypeOK'
<1>1. SandboxesTypeOK /\ Numbered
    BY DEF SandboxesShape, SandboxesInv
<1>2. PICK s : /\ signing' = [signing EXCEPT ![v] = s]
               /\ s = IF guest[v] # NoGuest
                      THEN [kind |-> IF Exists(guest[v].id) THEN "return" ELSE "drop",
                            of |-> guest[v].id, until |-> 0]
                      ELSE IF Siblings # {}
                      THEN [kind |-> "join", of |-> Oldest(Siblings), until |-> sandbox[Oldest(Siblings)]]
                      ELSE [kind |-> "fresh", of |-> 0, until |-> today + Ttl]
    BY DEF SignsUp
<1>3. s \in Signup
  <2>0. 0 \in Until /\ 0 \in 0..MaxGuests /\ Ids \subseteq 0..MaxGuests
    BY BoundsAssumption DEF Until, Ids
  <2>1. CASE guest[v] # NoGuest
    <3>1. guest[v].id \in 0..MaxGuests
        BY <1>1, <2>1, BoundsAssumption DEF SandboxesTypeOK, Guest
    <3> QED
        BY <1>2, <2>0, <2>1, <3>1 DEF Signup
  <2>2. CASE guest[v] = NoGuest /\ Siblings # {}
    <3>1. Oldest(Siblings) \in Ids
        BY <2>2, OldestIn, BoundsAssumption DEF Siblings, Ids
    <3>2. sandbox[Oldest(Siblings)] \in Until
        BY <1>1, <3>1 DEF SandboxesTypeOK
    <3> QED
        BY <1>2, <2>0, <2>2, <3>1, <3>2 DEF Signup
  <2>3. CASE guest[v] = NoGuest /\ Siblings = {}
    <3>1. today + Ttl \in Until
        BY <1>1, BoundsAssumption DEF SandboxesTypeOK, Until, Ttl
    <3> QED
        BY <1>2, <2>0, <2>3, <3>1 DEF Signup
  <2> QED
    BY <2>1, <2>2, <2>3
<1>4. \A u \in Visitors : signing'[u] = NoSignup \/ signing'[u] \in Signup
    BY <1>2, <1>3, SignupTypes
<1> QED
    BY <1>1, <1>4 DEF SignsUp, SandboxesTypeOK, Signup

LEMMA AnsweredTypes ==
    ASSUME SandboxesShape, NEW v \in Visitors, Answered(v), today' = today,
           guest' \in [Visitors -> Guest], sandbox' \in [Ids -> Until], guests' \in 0..MaxGuests
    PROVE  SandboxesTypeOK'
<1>1. \A u \in Visitors : signing'[u] = NoSignup \/ signing'[u] \in Signup
    BY SignupTypes DEF Answered
<1> QED
    BY <1>1 DEF Answered, SandboxesShape, SandboxesTypeOK, Signup

LEMMA MintsTypes ==
    ASSUME SandboxesShape, NEW v \in Visitors, Mints(v) PROVE SandboxesTypeOK'
<1> DEFINE s == signing[v]
           i == guests + 1
           joined == s.kind = "join"
<1>1. /\ SandboxesTypeOK /\ s \in Signup /\ i \in 1..MaxGuests /\ i \in 0..MaxGuests /\ i \in Ids
      /\ guests' = i /\ today' = today /\ Answered(v)
    BY BoundsAssumption DEF Mints, Answered, SandboxesShape, SandboxesTypeOK, NoSignup, Signup, Ids
<1>2. PICK g : /\ guest' = [guest EXCEPT ![v] = g]
               /\ g = [id |-> i, until |-> s.until, joined |-> joined, of |-> IF joined THEN s.of ELSE i]
    BY DEF Mints
<1>3. joined \in BOOLEAN
    OBVIOUS
<1>4. s.until \in Until /\ s.of \in 0..MaxGuests
    BY <1>1 DEF Signup
<1>5. sandbox' = sandbox \/ sandbox' = [sandbox EXCEPT ![i] = s.until]
    BY DEF Mints
<1> HIDE DEF s, i, joined
<1>6. g \in Guest
    BY <1>1, <1>2, <1>3, <1>4 DEF Guest
<1>7. guest' \in [Visitors -> Guest]
    BY <1>1, <1>2, <1>6 DEF SandboxesTypeOK
<1>8. sandbox' \in [Ids -> Until]
    BY <1>1, <1>4, <1>5 DEF SandboxesTypeOK
<1> QED
    BY <1>1, <1>7, <1>8, AnsweredTypes

Extension ==
    [step : {"account", "sandbox"}, id : Ids, until : Until, read : Until, alone : BOOLEAN]

LEMMA ExtensionTypes ==
    ASSUME SandboxesShape, NEW x \in Admins,
           NEW e, e \in Extension \/ e = NoExtension, extending' = [extending EXCEPT ![x] = e]
    PROVE  \A y \in Admins : extending'[y] = NoExtension \/ extending'[y] \in Extension
BY DEF SandboxesShape, SandboxesInv, ExtensionsKnow, SandboxesTypeOK, Extension

LEMMA LoadsTypes ==
    ASSUME SandboxesShape, NEW x \in Admins, NEW v \in Visitors, NEW n \in Days, ExtensionLoads(x, v, n)
    PROVE  SandboxesTypeOK'
<1> DEFINE base == IF guest[v].until > today THEN guest[v].until ELSE today
<1>1. SandboxesTypeOK /\ guest[v] \in Account /\ today \in 1..MaxDay
    BY DEF ExtensionLoads, SandboxesShape, SandboxesTypeOK, Guest, Account
<1>2. guest[v].id \in Ids /\ guest[v].until \in Until
    BY <1>1 DEF Account, Ids
<1>3. base + n \in Until
  <2>1. base + n <= MaxDay + 2
    BY DEF ExtensionLoads
  <2>2. base \in Nat
    BY <1>1, <1>2, BoundsAssumption DEF Until
  <2> QED
    BY <2>1, <2>2, BoundsAssumption DEF Until, Days
<1>4. 0 \in Until
    BY BoundsAssumption DEF Until
<1>5. PICK e : /\ extending' = [extending EXCEPT ![x] = e]
               /\ e = [step |-> "account", id |-> guest[v].id, until |-> base + n, read |-> 0, alone |-> TRUE]
    BY DEF ExtensionLoads
<1> HIDE DEF base
<1>6. e \in Extension
    BY <1>2, <1>3, <1>4, <1>5 DEF Extension
<1>7. \A y \in Admins : extending'[y] = NoExtension \/ extending'[y] \in Extension
    BY <1>5, <1>6, ExtensionTypes
<1> QED
    BY <1>1, <1>7 DEF ExtensionLoads, SandboxesTypeOK, Extension

LEMMA FindsTypes ==
    ASSUME SandboxesShape, NEW x \in Admins, ExtensionFindsSpace(x) PROVE SandboxesTypeOK'
<1> DEFINE f == extending[x]
<1>1. SandboxesTypeOK /\ f \in Extension
    BY DEF ExtensionFindsSpace, SandboxesShape, SandboxesTypeOK, Extension, NoExtension
<1>2. PICK e : /\ extending' = [extending EXCEPT ![x] = e]
               /\ e = [f EXCEPT !.step = "sandbox", !.read = sandbox[f.id]]
    BY DEF ExtensionFindsSpace
<1> HIDE DEF f
<1>3. sandbox[f.id] \in Until
    BY <1>1 DEF SandboxesTypeOK, Extension
<1>4. e \in Extension
    BY <1>1, <1>2, <1>3 DEF Extension
<1>5. \A y \in Admins : extending'[y] = NoExtension \/ extending'[y] \in Extension
    BY <1>2, <1>4, ExtensionTypes
<1> QED
    BY <1>1, <1>5 DEF ExtensionFindsSpace, SandboxesTypeOK, Extension

LEMMA ExtendsTypes ==
    ASSUME SandboxesShape, NEW x \in Admins, ExtensionCommits(x) PROVE SandboxesTypeOK'
<1> DEFINE e == extending[x]
<1>1. SandboxesTypeOK /\ e \in Extension
    BY DEF ExtensionCommits, SandboxesShape, SandboxesTypeOK, Extension, NoExtension
<1>2. e.id \in Ids /\ e.until \in Until
    BY <1>1 DEF Extension
<1>3. PICK v \in Visitors : guest[v].id = e.id /\ guest' = [guest EXCEPT ![v].until = e.until]
    BY DEF ExtensionCommits
<1>4. sandbox' \in [Ids -> Until]
    BY <1>1, <1>2 DEF ExtensionCommits, SandboxesTypeOK
<1>5. caught' \subseteq Ids /\ crossed' \subseteq Ids
    BY <1>1, <1>2 DEF ExtensionCommits, SandboxesTypeOK
<1>6. \A y \in Admins : extending'[y] = NoExtension \/ extending'[y] \in Extension
  <2>1. \A f \in Extension : [f EXCEPT !.alone = FALSE] \in Extension
    BY DEF Extension
  <2> QED
    BY <1>1, <2>1 DEF ExtensionCommits, Done, SandboxesTypeOK, Extension
<1>7. UNCHANGED <<trashed, guests, signing, reaping, today>>
    BY DEF ExtensionCommits
<1> HIDE DEF e
<1>8. guest[v] \in Account
  <2>1. e.id # 0
    BY <1>2, BoundsAssumption DEF Ids
  <2> QED
    BY <1>1, <1>3, <2>1 DEF SandboxesTypeOK, Guest, Account, NoGuest
<1>9. [guest[v] EXCEPT !.until = e.until] \in Guest
    BY <1>2, <1>8 DEF Account, Guest
<1>10. guest' \in [Visitors -> Guest]
    BY <1>1, <1>3, <1>9 DEF SandboxesTypeOK
<1> QED
    BY <1>1, <1>4, <1>5, <1>6, <1>7, <1>10 DEF SandboxesTypeOK, Extension

LEMMA ReapTypes ==
    ASSUME SandboxesShape, ReapReads \/ ReapDeletes PROVE SandboxesTypeOK'
<1> DEFINE Reaping == [step : {"none", "spaces", "users"}, at : 0..MaxDay, ids : SUBSET Ids, users : SUBSET Ids]
<1>1. /\ SandboxesTypeOK /\ UNCHANGED <<guest, sandbox, trashed, guests, signing, extending, today, caught, crossed>>
      /\ today \in 0..MaxDay /\ reaping \in Reaping
    BY BoundsAssumption DEF SandboxesShape, SandboxesTypeOK, ReapReads, ReapDeletes, Reap
<1>2. reaping' \in Reaping
  <2>1. Expired(today) \in SUBSET Ids
    BY DEF Expired
  <2>2. CASE ReapReads
    BY <1>1, <2>1, <2>2 DEF ReapReads
  <2>3. ExpiredGuests(reaping.at) \in SUBSET Ids
    BY <1>1 DEF ExpiredGuests, SandboxesTypeOK, Guest, Ids
  <2>4. CASE ReapDeletes
    BY <1>1, <2>3, <2>4 DEF ReapDeletes
  <2> QED
    BY <2>2, <2>4
<1> QED
    BY <1>1, <1>2 DEF SandboxesTypeOK

LEMMA SandboxesNextShape == ASSUME SandboxesShape, [SandboxesNext]_dVars PROVE SandboxesShape'
<1>0. SandboxesInv /\ SandboxesTypeOK
    BY DEF SandboxesShape
<1>1. ASSUME UNCHANGED dVars \/ DayPasses \/ (\E i \in Ids : Trash(i)) PROVE SandboxesTypeOK'
  <2>1. today' \in 1..MaxDay /\ trashed' \subseteq Ids
    BY <1>0, <1>1, BoundsAssumption DEF dVars, DayPasses, Trash, SandboxesTypeOK
  <2>2. UNCHANGED <<guest, sandbox, guests, signing, extending, reaping, caught, crossed>>
    BY <1>1 DEF dVars, DayPasses, Trash
  <2> QED
    BY <1>0, <2>1, <2>2 DEF SandboxesTypeOK
<1>2. ASSUME NEW v \in Visitors, Returns(v) \/ SignupFails(v) \/ DropsGuest(v) PROVE SandboxesTypeOK'
  <2>1. guest' \in [Visitors -> Guest] /\ sandbox' \in [Ids -> Until]
    BY <1>0, <1>2, GoneTypes DEF Returns, SignupFails, DropsGuest, SandboxesTypeOK
  <2>2. Answered(v) /\ UNCHANGED <<guests, today>>
    BY <1>2 DEF Returns, SignupFails, DropsGuest, Answered
  <2> QED
    BY <1>0, <2>1, <2>2, AnsweredTypes DEF SandboxesTypeOK
<1>3. ASSUME NEW x \in Admins, ExtensionFails(x) PROVE SandboxesTypeOK'
  <2>1. \A y \in Admins : extending'[y] = NoExtension \/ extending'[y] \in Extension
    BY <1>3, ExtensionTypes DEF ExtensionFails
  <2> QED
    BY <1>0, <1>3, <2>1 DEF ExtensionFails, SandboxesTypeOK, Extension
<1>4. ASSUME ReapCommits \/ ReapFails PROVE SandboxesTypeOK'
  <2>1. guest' \in [Visitors -> Guest] /\ sandbox' \in [Ids -> Until]
    BY <1>0, <1>4, GoneTypes DEF ReapCommits, ReapFails, SandboxesTypeOK
  <2>2. NoReaping \in [step : {"none", "spaces", "users"}, at : 0..MaxDay, ids : SUBSET Ids, users : SUBSET Ids]
    BY BoundsAssumption DEF NoReaping
  <2>3. reaping' = NoReaping /\ UNCHANGED <<trashed, guests, signing, extending, today, caught, crossed>>
    BY <1>4 DEF ReapCommits, ReapFails, Reap
  <2> QED
    BY <1>0, <2>1, <2>2, <2>3 DEF SandboxesTypeOK
<1>5. SandboxesTypeOK'
    BY <1>0, <1>1, <1>2, <1>3, <1>4, SignsUpTypes, MintsTypes, LoadsTypes, FindsTypes, ExtendsTypes,
        ReapTypes
    DEF SandboxesNext, SandboxesShape
<1> QED
    BY <1>0, <1>5, SandboxesNextInv DEF SandboxesShape

-------------------------------------------------------------------------------
(* In the composition one part moves: a step of it is a step or a stutter of *)
(* every part.                                                               *)
LEMMA BackgroundStep ==
    ASSUME [BackgroundNext]_bVars
    PROVE  /\ [StreamNext]_eVars /\ [SchedulesNext]_lVars /\ [ScopesNext]_scVars /\ [SandboxesNext]_dVars
           /\ part' = part
BY DEF BackgroundNext, bVars

(* What the parts keep, together. *)
BackgroundInv ==
    part \in Parts /\ StreamTypeOK /\ SchedulesInv /\ ScopesInv /\ SandboxesShape

LEMMA BackgroundInitInv == BackgroundInit => BackgroundInv
BY StreamInitTypes, SchedulesInitInv, ScopesInitInv, SandboxesInitShape DEF BackgroundInit, BackgroundInv

LEMMA BackgroundNextInv == BackgroundInv /\ [BackgroundNext]_bVars => BackgroundInv'
BY BackgroundStep, StreamNextTypes, SchedulesNextInv, ScopesNextInv, SandboxesNextShape DEF BackgroundInv

(* The event stream is well formed: only a page that follows a job has       *)
(* messages waiting (ProvisioningStream!StreamTypeOK).                       *)
THEOREM StreamTypes == StreamSpec => []StreamTypeOK
BY StreamInitTypes, StreamNextTypes, PTL DEF StreamSpec

(* The row of an agent, the messages of its attempts and the runs in flight  *)
(* are well formed; what a run has loaded is the copy of an active agent     *)
(* (ScheduledAgents!SchedulesTypeOK).                                        *)
THEOREM SchedulesTypes == SchedulesSpec => []SchedulesTypeOK
<1>1. SchedulesInv => SchedulesTypeOK
    BY DEF SchedulesInv
<1> QED
    BY <1>1, SchedulesInitInv, SchedulesNextInv, PTL DEF SchedulesSpec

(* Accounts, sandboxes, signups, extensions and the cleanup are well formed: *)
(* every number is of an account and every expiry within the days            *)
(* (DemoSandbox!SandboxesTypeOK).                                            *)
THEOREM SandboxesTypes == SandboxesSpec => []SandboxesTypeOK
<1>1. SandboxesShape => SandboxesTypeOK
    BY DEF SandboxesShape
<1> QED
    BY <1>1, SandboxesInitShape, SandboxesNextShape, PTL DEF SandboxesSpec

(* The composition keeps the state of every part well formed                 *)
(* (MCBackground!BackgroundTypeOK) ...                                       *)
THEOREM BackgroundTypes == BackgroundSpec => []BackgroundTypeOK
<1>1. BackgroundInv => BackgroundTypeOK
    BY DEF BackgroundInv, BackgroundTypeOK, SchedulesInv, ScopesInv, SandboxesShape
<1> QED
    BY <1>1, BackgroundInitInv, BackgroundNextInv, PTL DEF BackgroundSpec

(* ... and what the parts promise of orphaned agents and of sandboxes, the   *)
(* other invariants checked there (ScopeSuspension!OrphanIsLate,             *)
(* DemoSandbox!SandboxesKept).                                               *)
THEOREM BackgroundKeeps == BackgroundSpec => [](OrphanIsLate /\ SandboxesKept)
<1>1. BackgroundInv => OrphanIsLate /\ SandboxesKept
    BY DEF BackgroundInv, ScopesInv, SandboxesShape, SandboxesInv, OwnersKept, SandboxesKept, Owner, Apart
<1> QED
    BY <1>1, BackgroundInitInv, BackgroundNextInv, PTL DEF BackgroundSpec

===============================================================================
