------------------------------ MODULE DataAccess ------------------------------
(***************************************************************************)
(* Which tables of one connection a space and one of its crews may read:    *)
(* the permission rows and the space's tables (services/permission_service, *)
(* services/space_service), the crew's grant (services/crew_service) and    *)
(* the synchronisation that links what it finds                             *)
(* (services/connection_service). The connection's owner, the owner of the  *)
(* space and a crew's administrator act at once, each over several          *)
(* statements. Table names carry their schema, so the unique indexes on     *)
(* space_tables and crew_tables apply; a permission row of a space has      *)
(* NULLs in its unique constraint, which therefore never does.              *)
(***************************************************************************)
EXTENDS Naturals, FiniteSets

CONSTANTS
    Tables,      \* the tables the connection has
    Editors,     \* the requests, each made once
    Seed         \* the permission row and links there were before them

ASSUME SeedAssumption == Seed \notin Editors

VARIABLES
    grant,       \* grant[p]: the connection_permissions row that p inserted
    attached,    \* the space_connections row
    links,       \* space_tables rows: [table, by]
    crewAttached,\* who inserted the crew_connections row; at most one
    crewLinks,   \* crew_tables rows: [table, by]
    editing      \* editing[q]: a request

dVars == <<grant, attached, links, crewAttached, crewLinks, editing>>

Makers == Editors \cup {Seed}
Rows == [table : Tables, by : Makers]
Named(rows) == {r.table : r \in rows}
By(q, names) == {[table |-> t, by |-> q] : t \in names}

NoGrantRow == [row |-> "none", full |-> FALSE, access |-> {}]

(* A request that has not begun: its operation, the row it is about, what it *)
(* asks for, the rows to insert and to delete, and what it saw. alone is     *)
(* history: nothing was committed beside it that could disturb it.           *)
NotMade == [pc |-> "new", op |-> "none", target |-> Seed, full |-> FALSE, access |-> {},
            adds |-> {}, drops |-> {}, freed |-> {}, alone |-> TRUE]

DataInit ==
    /\ \E a \in SUBSET Tables, there \in BOOLEAN :
          /\ grant = [p \in Makers |->
                IF p = Seed /\ there THEN [row |-> "live", full |-> FALSE, access |-> a] ELSE NoGrantRow]
          /\ links = By(Seed, a)
          /\ attached = there
    /\ crewAttached = {} /\ crewLinks = {}
    /\ editing = [q \in Editors |-> NotMade]

LiveRows == {p \in Makers : grant[p].row = "live"}

(* get_authorized_tables for a space, with the first row it happens to find, *)
(* and for a crew: the crew's rows only                                      *)
SpaceReads ==
    LET Seen(access) == access \cup Named(links)
    IN  IF LiveRows = {} THEN {Seen({})}
        ELSE {IF grant[p].full THEN Tables ELSE Seen(grant[p].access) : p \in LiveRows}
CrewReads == Named(crewLinks)

Set(q, pc, field, value) == [editing EXCEPT ![q].pc = pc, ![q][field] = value]

(* A commit of q disturbs the others, except one change of a permission row  *)
(* another, and a grant to the crew whatever is not one.                     *)
Crewish(q) == editing[q].op = "crew"
Disturbed(q) ==
    [r \in Editors \ {q} |->
        [editing[r] EXCEPT !.alone =
            @ /\ (\/ editing[r].op = "narrow" /\ editing[q].op = "narrow"
                     /\ editing[r].target = editing[q].target
                  \/ Crewish(r) # Crewish(q))]]
AfterCommit(q, pc) ==
    [r \in Editors |-> IF r = q THEN [editing[q] EXCEPT !.pc = pc] ELSE Disturbed(q)[r]]

(* A request begins with what it asks for *)
Begins(q, op, pc, target, full, access) ==
    /\ editing[q] = NotMade
    /\ editing' = [editing EXCEPT ![q] =
          [NotMade EXCEPT !.op = op, !.pc = pc, !.target = target, !.full = full, !.access = access]]

(* A request of one statement begins and ends in a step *)
Makes(q, op) ==
    /\ editing[q] = NotMade
    /\ editing' = [r \in Editors |->
          IF r = q THEN [NotMade EXCEPT !.op = op, !.pc = "done"]
          ELSE [editing[r] EXCEPT !.alone = @ /\ Crewish(r)]]

-------------------------------------------------------------------------------
(* Permissions of the space *)

(* create_connection_permission: three transactions, for the row, for the    *)
(* space's connection and for the tables; it refuses when it finds a row.    *)
GrantReads(q) ==
    /\ LiveRows = {}
    /\ \E full \in BOOLEAN, access \in SUBSET Tables : Begins(q, "grant", "inserted", q, full, access)
    /\ UNCHANGED <<grant, attached, links, crewAttached, crewLinks>>

GrantCommitted(q) ==
    /\ editing[q].pc = "inserted"
    /\ grant' = [grant EXCEPT ![q] =
          [row |-> "live", full |-> editing[q].full, access |-> editing[q].access]]
    /\ editing' = AfterCommit(q, "attaching")
    /\ UNCHANGED <<attached, links, crewAttached, crewLinks>>

GrantAttaches(q) ==
    /\ editing[q].pc = "attaching"
    /\ attached' = TRUE
    /\ editing' = AfterCommit(q, IF editing[q].access = {} THEN "done" ELSE "reading")
    /\ UNCHANGED <<grant, links, crewAttached, crewLinks>>

(* The UPDATE of a row holds its lock to the end of the request *)
LockedRow(p) ==
    \E r \in Editors : /\ editing[r].op = "narrow" /\ editing[r].target = p
                       /\ editing[r].pc \in {"reading", "linking"}

(* mutant: the tables are read before the row is updated *)
NarrowUnlocked(q) ==
    /\ \E p \in LiveRows, access \in SUBSET Tables : Begins(q, "narrow", "reading", p, FALSE, access)
    /\ UNCHANGED <<grant, attached, links, crewAttached, crewLinks>>

(* update_permission with a list of tables: UPDATE first, then the tables *)
NarrowLocks(q) ==
    /\ \E p \in LiveRows, access \in SUBSET Tables :
          ~LockedRow(p) /\ Begins(q, "narrow", "reading", p, FALSE, access)
    /\ UNCHANGED <<grant, attached, links, crewAttached, crewLinks>>

(* update_permission with null for the list: BaseRepository.update drops the *)
(* None, so nothing is updated or locked, and the tables are unlinked.       *)
ClearBegins(q) ==
    /\ \E p \in LiveRows : Begins(q, "clear", "reading", p, FALSE, {})
    /\ UNCHANGED <<grant, attached, links, crewAttached, crewLinks>>

(* update_permission with a level alone *)
SetLevel(q) ==
    /\ Makes(q, "level")
    /\ \E p \in LiveRows : ~LockedRow(p) /\ grant' = [grant EXCEPT ![p].full = ~@]
    /\ UNCHANGED <<attached, links, crewAttached, crewLinks>>

(* delete_permission: the tables first, then the row *)
RevokeBegins(q) ==
    /\ \E p \in LiveRows : Begins(q, "revoke", "reading", p, FALSE, {})
    /\ UNCHANGED <<grant, attached, links, crewAttached, crewLinks>>

(* _sync_space_tables: the rows that are there against those asked for *)
TablesRead(q) ==
    /\ editing[q].pc = "reading"
    /\ editing' = [editing EXCEPT ![q].pc = "linking",
          ![q].adds = editing[q].access \ Named(links),
          ![q].drops = {r \in links : r.table \notin editing[q].access}]
    /\ UNCHANGED <<grant, attached, links, crewAttached, crewLinks>>

(* sync_connection: for a space that has the connection, the tables found,   *)
(* or those of a restricted permission                                       *)
SyncReads(q) ==
    /\ attached
    /\ \/ LiveRows = {} /\ Begins(q, "sync", "checking", Seed, FALSE, Tables)
       \/ \E p \in LiveRows :
             LET wide == grant[p].full \/ grant[p].access = {}
             IN  Begins(q, "sync", "checking", p, FALSE, IF wide THEN Tables ELSE grant[p].access)
    /\ UNCHANGED <<grant, attached, links, crewAttached, crewLinks>>

SyncChecks(q) ==
    /\ editing[q].pc = "checking"
    /\ editing' = Set(q, "linking", "adds", editing[q].access \ Named(links))
    /\ UNCHANGED <<grant, attached, links, crewAttached, crewLinks>>

(* The commit: a table that was linked meanwhile fails it as a whole *)
LinksCommit(q) ==
    /\ editing[q].pc = "linking"
    /\ editing[q].op = "revoke" => ~LockedRow(editing[q].target)
    /\ editing[q].adds \cap Named(links \ editing[q].drops) = {}
    /\ links' = (links \ editing[q].drops) \cup By(q, editing[q].adds)
    /\ grant' =
          CASE editing[q].op = "narrow" -> [grant EXCEPT ![editing[q].target].access = editing[q].access]
            [] editing[q].op = "revoke" -> [grant EXCEPT ![editing[q].target].row = "gone"]
            [] OTHER -> grant
    /\ editing' = AfterCommit(q, "done")
    /\ UNCHANGED <<attached, crewAttached, crewLinks>>

-------------------------------------------------------------------------------
(* The space and its connection *)

(* add_space_connection, remove_space_connection *)
Attach(q) ==
    /\ Makes(q, "attach") /\ attached' = ~attached
    /\ UNCHANGED <<grant, links, crewAttached, crewLinks>>

(* add_space_table, remove_space_table: a table that is linked already, or   *)
(* meanwhile, is a success without effect                                    *)
LinkTable(q) ==
    /\ Makes(q, "link")
    /\ \E t \in Tables \ Named(links) : links' = links \cup By(q, {t})
    /\ UNCHANGED <<grant, attached, crewAttached, crewLinks>>

UnlinkTable(q) ==
    /\ Makes(q, "unlink")
    /\ \E r \in links : links' = links \ {r}
    /\ UNCHANGED <<grant, attached, crewAttached, crewLinks>>

-------------------------------------------------------------------------------
(* The crew's grant: set_crew_data_access, and create_crew for a new one.    *)
(* A DELETE sees the rows of its start and waits for who deletes them too.   *)
CrewBegins(q) ==
    /\ editing[q] = NotMade
    /\ \E full \in BOOLEAN, access \in SUBSET Tables :
          /\ access # {} => full
          /\ editing' = [editing EXCEPT ![q] =
                [NotMade EXCEPT !.op = "crew", !.pc = "dropping", !.full = full,
                                !.access = access, !.drops = crewLinks]]
    /\ UNCHANGED <<grant, attached, links, crewAttached, crewLinks>>

Dropping(r) == editing[r].pc \in {"freeing", "crewing"}
CrewDrops(q) ==
    /\ editing[q].pc = "dropping"
    /\ \A r \in Editors \ {q} : Dropping(r) => editing[r].drops \cap editing[q].drops = {}
    /\ editing' = [editing EXCEPT ![q].pc = "freeing",
          ![q].drops = @ \cap crewLinks, ![q].freed = crewAttached]
    /\ UNCHANGED <<grant, attached, links, crewAttached, crewLinks>>

(* _grant_crew_data_access: only a connection of the space, and of its       *)
(* tables those it links, or any when it links none                          *)
CrewFrees(q) ==
    /\ editing[q].pc = "freeing"
    /\ \A r \in Editors \ {q} : editing[r].pc = "crewing" => editing[r].freed \cap editing[q].freed = {}
    /\ editing' = [editing EXCEPT ![q].pc = "crewing",
          ![q].freed = @ \cap crewAttached,
          ![q].full = @ /\ attached,
          ![q].adds = {t \in editing[q].access : attached /\ (links = {} \/ t \in Named(links))}]
    /\ UNCHANGED <<grant, attached, links, crewAttached, crewLinks>>

(* The primary key of crew_connections and the index on crew_tables *)
CrewCommits(q) ==
    /\ editing[q].pc = "crewing"
    /\ editing[q].full => crewAttached \subseteq editing[q].freed
    /\ editing[q].adds \cap Named(crewLinks \ editing[q].drops) = {}
    /\ crewLinks' = (crewLinks \ editing[q].drops) \cup By(q, editing[q].adds)
    /\ crewAttached' = (crewAttached \ editing[q].freed) \cup (IF editing[q].full THEN {q} ELSE {})
    /\ editing' = AfterCommit(q, "done")
    /\ UNCHANGED <<grant, attached, links>>

(* A request that fails, by itself or on a unique index, loses what it has   *)
(* not committed                                                             *)
EditFails(q) ==
    /\ editing[q].pc \notin {"new", "done"}
    /\ editing' = [editing EXCEPT ![q].pc = "done"]
    /\ UNCHANGED <<grant, attached, links, crewAttached, crewLinks>>

DataNext ==
    \E q \in Editors :
        \/ GrantReads(q) \/ GrantCommitted(q) \/ GrantAttaches(q)
        \/ NarrowLocks(q) \/ ClearBegins(q) \/ SetLevel(q) \/ RevokeBegins(q)
        \/ TablesRead(q) \/ LinksCommit(q) \/ SyncReads(q) \/ SyncChecks(q)
        \/ Attach(q) \/ LinkTable(q) \/ UnlinkTable(q)
        \/ CrewBegins(q) \/ CrewDrops(q) \/ CrewFrees(q) \/ CrewCommits(q) \/ EditFails(q)

DataSpec == DataInit /\ [][DataNext]_dVars

-------------------------------------------------------------------------------
GrantRow == [row : {"none", "live", "gone"}, full : BOOLEAN, access : SUBSET Tables]
Edit == [pc : {"new", "inserted", "attaching", "reading", "checking", "linking",
               "dropping", "freeing", "crewing", "done"},
         op : {"none", "grant", "narrow", "clear", "level", "revoke", "sync",
               "attach", "link", "unlink", "crew"},
         target : Makers, full : BOOLEAN, access : SUBSET Tables,
         adds : SUBSET Tables, drops : SUBSET Rows, freed : SUBSET Editors, alone : BOOLEAN]

DataTypeOK ==
    /\ grant \in [Makers -> GrantRow]
    /\ attached \in BOOLEAN /\ links \subseteq Rows /\ crewLinks \subseteq Rows
    /\ crewAttached \subseteq Editors /\ \A p, q \in crewAttached : p = q
    /\ editing \in [Editors -> Edit]

Completes(q) == editing[q].pc \in {"linking", "crewing"} /\ editing'[q].pc = "done" /\ editing[q].alone

(* However requests overlap, one that no other kind was committed beside     *)
(* leaves what it was asked for: a list of tables is what the space links,   *)
(* whichever lists were set for that permission at the same time             *)
(* (permission_service.py:208); after a revocation that leaves no permission *)
(* the space reads nothing (permission_service.py:243); a crew is left with  *)
(* no table beyond those asked for (crew_service.py:244).                    *)
AccessIsSet ==
    \A q \in Editors : Completes(q) /\ (links' # links \/ grant' # grant \/ crewLinks' # crewLinks) =>
        /\ editing[q].op = "narrow" => Named(links') = grant'[editing[q].target].access
        /\ editing[q].op = "revoke" /\ LiveRows' = {} => SpaceReads' = {{}}
        /\ editing[q].op = "crew" => CrewReads' \subseteq editing[q].access
AccessKept == [][AccessIsSet]_dVars

-------------------------------------------------------------------------------
(* What the code says and does not do; section 5 of the README *)

(* "clean up SpaceTable entries so they don't linger without permission"     *)
(* (permission_service.py:243): once revoked, nothing is linked but by hand. *)
RevokedStaysUnlinked ==
    [][(\E p \in Makers : grant[p].row = "gone") /\ LiveRows \cup LiveRows' = {} /\ links = {} =>
        links' = {} \/ \E q \in Editors : editing[q] = NotMade /\ editing'[q].op = "link"]_dVars

(* "Permission already exists" (permission_service.py:122): one row at most. *)
PermissionOnce == Cardinality(LiveRows) <= 1

(* "CrewTable rows are a subset of the space's tables by construction"       *)
(* (permission_service.py:695).                                              *)
CrewWithinSpace == Named(crewLinks) \subseteq Named(links) \/ links = {}

(* "Fully REPLACES the crew's rows" (crew_service.py:244).                   *)
ReplacesWhole ==
    [][\A q \in Editors :
          editing[q].pc = "crewing" /\ editing'[q].pc = "done" /\ crewLinks' # crewLinks =>
          Named(crewLinks') \subseteq editing[q].access]_dVars

===============================================================================
