------------------------------ MODULE SharedRooms ------------------------------
(***************************************************************************)
(* The shared page of a crew or of a space (services/page_service): every   *)
(* member who enters is led to one canonical page, created on the first     *)
(* entry, or chosen among the pages there were before there was such a      *)
(* thing. Entries take an advisory lock; creations and deletions of other   *)
(* pages do not. A page is named by the request that creates it.            *)
(***************************************************************************)
EXTENDS Naturals, FiniteSets

CONSTANTS
    Entrants,    \* the requests, each made once
    Legacy       \* a page from before canonical pages

ASSUME LegacyAssumption == Legacy \notin Entrants /\ IsFiniteSet(Entrants)

VARIABLES
    kind,        \* whose page it is: a crew's or a space's
    room,        \* room[p]: a pages row
    entering,    \* the request that holds the advisory lock, if any
    entry        \* entry[e]: a request

rVars == <<kind, room, entering, entry>>

Rooms == Entrants \cup {Legacy}
NoRoom == [row |-> "none", canonical |-> FALSE, stamp |-> 0]
NotCome == [pc |-> "new", page |-> Legacy]

RoomsInit ==
    /\ kind \in {"crew", "space"}
    /\ room \in {[p \in Rooms |-> NoRoom],
                 [p \in Rooms |-> IF p = Legacy THEN [NoRoom EXCEPT !.row = "live"] ELSE NoRoom]}
    /\ entering = {}
    /\ entry = [e \in Entrants |-> NotCome]

LiveRooms == {p \in Rooms : room[p].row = "live"}

(* get_default_crew_page: the canonical page first, then the oldest          *)
Precedes(p, q) ==
    \/ room[p].canonical /\ ~room[q].canonical
    \/ room[p].canonical = room[q].canonical /\ room[p].stamp <= room[q].stamp
Default == {p \in LiveRooms : \A q \in LiveRooms : Precedes(p, q)}

(* created_at is taken when the row is made, before it is committed          *)
Stamp == Cardinality({p \in Rooms : room[p].stamp > 0}) + 1
Opened(e, canonical) == [room EXCEPT ![e] = [row |-> "open", canonical |-> canonical, stamp |-> Stamp]]

Comes(e, at, page) == entry' = [entry EXCEPT ![e] = [pc |-> at, page |-> page]]
Leaves(e, at) == entry' = [entry EXCEPT ![e].pc = at]

(* The partial unique index: another live page is canonical                  *)
Taken(p) == \E q \in LiveRooms \ {p} : room[q].canonical

-------------------------------------------------------------------------------
(* ensure_default_crew_page, ensure_default_space_page *)

(* mutant: entries do not wait for each other *)
EnsureUnlocked(e) ==
    /\ entry[e] = NotCome
    /\ entering' = entering \cup {e}
    /\ IF Default = {} THEN room' = Opened(e, TRUE) /\ Comes(e, "ensure", e)
       ELSE \E p \in Default : Comes(e, "ensure", p) /\ UNCHANGED room
    /\ UNCHANGED kind

(* Under the lock: the default page is read, or a canonical one made         *)
EnsureReads(e) ==
    /\ entry[e] = NotCome
    /\ entering = {}
    /\ entering' = {e}
    /\ IF Default = {} THEN room' = Opened(e, TRUE) /\ Comes(e, "ensure", e)
       ELSE \E p \in Default : Comes(e, "ensure", p) /\ UNCHANGED room
    /\ UNCHANGED kind

(* It is committed, or promoted if it was not canonical, even if it was      *)
(* deleted meanwhile; the lock goes with the transaction                     *)
EnsureCommits(e) ==
    LET p == entry[e].page
        refused == room[p].row # "deleted" /\ Taken(p)
    IN  /\ entry[e].pc = "ensure"
        /\ room' = IF refused THEN [room EXCEPT ![p].row = IF @ = "open" THEN "none" ELSE @]
                   ELSE [room EXCEPT ![p].canonical = TRUE, ![p].row = IF @ = "open" THEN "live" ELSE @]
        /\ entering' = {}
        /\ Leaves(e, IF refused THEN "refused" ELSE "led")
        /\ UNCHANGED kind

-------------------------------------------------------------------------------
(* create_page, delete_page *)

CreateOpens(e) ==
    /\ entry[e] = NotCome
    /\ room' = Opened(e, FALSE)
    /\ Comes(e, "create", e)
    /\ UNCHANGED <<kind, entering>>

CreateCommits(e) ==
    /\ entry[e].pc = "create"
    /\ room' = [room EXCEPT ![e].row = "live"]
    /\ Leaves(e, "done")
    /\ UNCHANGED <<kind, entering>>

(* The page is read, and refused if it is canonical; a crew's page, too, if  *)
(* it is the default when that is looked for next                            *)
DeleteReads(e) ==
    /\ entry[e] = NotCome
    /\ \E p \in LiveRooms :
          /\ ~room[p].canonical
          /\ Comes(e, IF kind = "crew" THEN "check" ELSE "delete", p)
    /\ UNCHANGED <<kind, room, entering>>

DeleteChecks(e) ==
    /\ entry[e].pc = "check"
    /\ IF Default = {entry[e].page} THEN Leaves(e, "done")
       ELSE Comes(e, "delete", entry[e].page)
    /\ UNCHANGED <<kind, room, entering>>

DeleteCommits(e) ==
    /\ entry[e].pc = "delete"
    /\ room' = [room EXCEPT ![entry[e].page].row = "deleted"]
    /\ Leaves(e, "done")
    /\ UNCHANGED <<kind, entering>>

RoomsNext ==
    \E e \in Entrants :
        \/ EnsureReads(e) \/ EnsureCommits(e) \/ CreateOpens(e) \/ CreateCommits(e)
        \/ DeleteReads(e) \/ DeleteChecks(e) \/ DeleteCommits(e)

RoomsSpec == RoomsInit /\ [][RoomsNext]_rVars

-------------------------------------------------------------------------------
RoomsTypeOK ==
    /\ kind \in {"crew", "space"}
    /\ room \in [Rooms -> [row : {"none", "open", "live", "deleted"}, canonical : BOOLEAN, stamp : Nat]]
    /\ entering \subseteq Entrants
    /\ entry \in [Entrants ->
          [pc : {"new", "ensure", "create", "check", "delete", "led", "refused", "done"}, page : Rooms]]

Entered == {e \in Entrants : entry[e].pc = "led"}

(* Members who enter a crew or a space at once are never refused, and those  *)
(* led to a page that is still there are led to the same one, whatever pages *)
(* are created and deleted meanwhile, also ones stamped before it and        *)
(* committed after (page_service.py:157, repositories/page.py:161)           *)
MembersConverge ==
    /\ \A e \in Entrants : entry[e].pc # "refused"
    /\ \A e, f \in Entered :
          {entry[e].page, entry[f].page} \subseteq LiveRooms => entry[e].page = entry[f].page

(* Not so: "The canonical page cannot be deleted." (models/page.py:73)       *)
CanonicalStays == \A p \in Rooms : room[p].canonical => room[p].row # "deleted"

(* Not so: the shared page is the oldest (page_service.py:157)               *)
CanonicalIsOldest ==
    \A e \in Entered : entry[e].page \in LiveRooms =>
        \A p \in LiveRooms : room[entry[e].page].stamp <= room[p].stamp
===============================================================================
