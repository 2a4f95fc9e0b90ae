----------------------------- MODULE ConnectionSync -----------------------------
(***************************************************************************)
(* The catalogue of one connection (services/connection_service): the row   *)
(* of connection_metadata that lists its tables with the descriptions and   *)
(* tags users gave them. Synchronisations replace the list by what the      *)
(* connector answers and carry the users' texts over; users save a list     *)
(* with one text changed; tests and a deletion run beside them. A session   *)
(* keeps a row as it first read it: the catalogue a synchronisation loads   *)
(* together with the connection is the one it merges after the connector's  *)
(* network call. Linking what was found to spaces is DataAccess's.          *)
(***************************************************************************)
EXTENDS FiniteSets

CONSTANTS
    Assets,       \* the tables of the database behind the connection
    Unqualified,  \* those the connector lists without a schema
    Selected,     \* those that config's selected_tables lets through
    Curators,     \* the requests, each made once
    Unlisted, Blank

ASSUME CatalogueAssumption ==
    /\ Unqualified \subseteq Assets /\ Selected \subseteq Assets
    /\ Unlisted # Blank /\ {Unlisted, Blank} \cap Curators = {}

VARIABLES
    conn,         \* the data_connections row
    catalogue,    \* its connection_metadata row: who wrote the text of a table
    curating      \* curating[q]: a request

kVars == <<conn, catalogue, curating>>

NoCatalogue == [there |-> FALSE, text |-> [t \in Assets |-> Unlisted]]
Catalogue(text) == [there |-> TRUE, text |-> text]

(* saw is the catalogue a request holds, found what the connector answered;  *)
(* current is history: no other request changed the catalogue since it read  *)
NotAsked == [pc |-> "new", saw |-> NoCatalogue, found |-> {}, current |-> TRUE]

(* create_connection commits the row, inactive, and then synchronises it;    *)
(* an older connection has a catalogue                                       *)
CataloguesInit ==
    /\ conn = [row |-> "live", status |-> "inactive", error |-> FALSE]
    /\ catalogue \in {NoCatalogue, Catalogue([t \in Assets |-> Blank])}
    /\ curating = [q \in Curators |-> NotAsked]

Starts(q, at) ==
    /\ curating[q] = NotAsked
    /\ conn.row = "live"
    /\ curating' = [curating EXCEPT ![q] = [NotAsked EXCEPT !.pc = at, !.saw = catalogue]]
    /\ UNCHANGED <<conn, catalogue>>

(* q ends with the catalogue as it is now, or in the place of the old one    *)
Closes(q, text) ==
    /\ catalogue' = text
    /\ curating' = [r \in Curators |->
          IF r = q THEN [curating[q] EXCEPT !.pc = "done"]
          ELSE [curating[r] EXCEPT !.current = @ /\ (text = catalogue \/ curating[r].pc = "new")]]

(* BaseRepository.update leaves out a value that is None: an UPDATE by id    *)
(* that finds no row, and error = None, change nothing                       *)
Marked(status) ==
    IF conn.row = "gone" THEN conn
    ELSE [conn EXCEPT !.status = status, !.error = @ \/ status = "error"]

-------------------------------------------------------------------------------
(* sync_connection *)

SyncAsks(q) == Starts(q, "sync")

(* get_metadata answers; the SELECT of the catalogue then returns the object *)
(* the session has, unless it has none or the row is gone                    *)
SyncAnswers(q) ==
    /\ curating[q].pc = "sync"
    /\ \E found \in SUBSET Assets :
          LET held == curating[q].saw.there /\ catalogue.there
          IN  curating' = [curating EXCEPT
                  ![q].pc = "merge", ![q].found = found \cap Selected,
                  ![q].saw = IF held THEN @ ELSE catalogue,
                  ![q].current = @ \/ ~held]
    /\ UNCHANGED <<conn, catalogue>>

(* mutant: a stored table is looked up by its bare name *)
MergedByName(q) ==
    [t \in Assets |->
        IF t \notin curating[q].found THEN Unlisted
        ELSE IF t \in Unqualified /\ curating[q].saw.text[t] \in Curators
             THEN curating[q].saw.text[t] ELSE Blank]

(* The stored key of a table without a schema is its name, and the key of    *)
(* the answer has the schema "public": its text is not found                 *)
Merged(q) ==
    [t \in Assets |->
        IF t \notin curating[q].found THEN Unlisted
        ELSE IF t \notin Unqualified /\ curating[q].saw.text[t] \in Curators
             THEN curating[q].saw.text[t] ELSE Blank]

(* The INSERT of a first catalogue meets the one of another synchronisation, *)
(* or no connection: then the session has failed, and so does the UPDATE to  *)
(* error that follows                                                        *)
InsertFails(q) == ~curating[q].saw.there /\ (catalogue.there \/ conn.row = "gone")

SyncCommits(q) ==
    /\ curating[q].pc = "merge"
    /\ IF InsertFails(q) THEN Closes(q, catalogue) /\ UNCHANGED conn
       ELSE /\ Closes(q, IF conn.row = "gone" THEN catalogue ELSE Catalogue(Merged(q)))
            /\ conn' = Marked("active")

SyncFails(q) ==
    /\ curating[q].pc = "sync"
    /\ conn' = Marked("error")
    /\ Closes(q, catalogue)

-------------------------------------------------------------------------------
(* The other requests *)

(* A user opens the catalogue and update_metadata saves the list with the    *)
(* text of one table changed; without a catalogue it is not found            *)
EditOpens(q) == catalogue.there /\ Starts(q, "edit")

EditSaves(q) ==
    /\ curating[q].pc = "edit"
    /\ IF ~catalogue.there THEN Closes(q, catalogue)
       ELSE \E t \in Assets :
              /\ curating[q].saw.text[t] # Unlisted
              /\ Closes(q, Catalogue([curating[q].saw.text EXCEPT ![t] = q]))
    /\ UNCHANGED conn

(* test_connection, and its answer or its failure                            *)
TestReads(q) == Starts(q, "test")

TestAnswers(q) ==
    /\ curating[q].pc = "test"
    /\ \E status \in {"active", "error"} : conn' = Marked(status)
    /\ Closes(q, catalogue)

(* delete_connection: the catalogue goes with the row                        *)
Deletes(q) ==
    /\ curating[q] = NotAsked
    /\ conn.row = "live"
    /\ conn' = [conn EXCEPT !.row = "gone"]
    /\ Closes(q, NoCatalogue)

CataloguesNext ==
    \E q \in Curators :
        \/ SyncAsks(q) \/ SyncAnswers(q) \/ SyncCommits(q) \/ SyncFails(q)
        \/ EditOpens(q) \/ EditSaves(q) \/ TestReads(q) \/ TestAnswers(q) \/ Deletes(q)

CataloguesSpec == CataloguesInit /\ [][CataloguesNext]_kVars

-------------------------------------------------------------------------------
Texts == Curators \cup {Unlisted, Blank}
Lists == [there : BOOLEAN, text : [Assets -> Texts]]

(* Types, and two facts of the rows: no catalogue outlives its connection,   *)
(* although syncs that began before the deletion still write                 *)
(* (connection_service.py:394), and a row that is not there lists nothing    *)
CataloguesTypeOK ==
    /\ conn \in [row : {"live", "gone"}, status : {"inactive", "active", "error"}, error : BOOLEAN]
    /\ catalogue \in Lists
    /\ curating \in [Curators ->
          [pc : {"new", "sync", "merge", "edit", "test", "done"},
           saw : Lists, found : SUBSET Assets, current : BOOLEAN]]
    /\ conn.row = "gone" => catalogue = NoCatalogue

(* What users wrote about the tables survives every request that did not     *)
(* race with the writing: a request whose copy of the catalogue is current   *)
(* when it commits (nobody changed the catalogue since it, or its session,   *)
(* read it) takes away no text but those of tables the connector no longer   *)
(* has, or lists without a schema, and the one it replaces itself. So        *)
(* only a text saved between a synchronisation's first read and its commit,  *)
(* or under another user's open list, is lost (connection_service.py:488,    *)
(* :799).                                                                    *)
Spares(q, t) ==
    CASE curating[q].pc = "merge" -> t \in curating[q].found \ Unqualified
      [] curating[q].pc = "edit" -> catalogue'.text[t] # q
      [] OTHER -> TRUE
TextsKept == [][
    \A q \in Curators : \A t \in Assets :
        (/\ curating[q].pc \in {"sync", "merge", "edit", "test"} /\ curating'[q].pc = "done"
         /\ curating[q].current
         /\ catalogue.text[t] \in Curators
         /\ Spares(q, t))
        => catalogue'.text[t] = catalogue.text[t] ]_kVars

(* Not so: fresh data is merged "without losing user edits"                  *)
(* (connection_service.py:488)                                               *)
SyncKeepsEdits == [][
    \A q \in Curators : \A t \in curating[q].found :
        (/\ curating[q].pc = "merge" /\ curating'[q].pc = "done"
         /\ catalogue.text[t] \in Curators /\ catalogue'.there)
        => catalogue'.text[t] = catalogue.text[t] ]_kVars

(* Not so: a synchronisation that succeeds writes status = "active" with     *)
(* error = None (connection_service.py:594), and the connection is healthy   *)
SuccessIsHealthy == [][
    \A q \in Curators :
        (curating[q].pc = "merge" /\ curating'[q].pc = "done" /\ conn'.status = "active")
        => ~conn'.error ]_kVars
===============================================================================
