------------------------------ MODULE ChatSessions ------------------------------
(***************************************************************************)
(* The chats of one page ("Chat 1", "Chat 2", ...), all seen by the members *)
(* of its room (services/chat_session_service.py,                           *)
(* repositories/chat_session.py). A request reads the page's chats in one   *)
(* step and inserts or deletes in a later one; nothing in the database      *)
(* keeps a title or a position unique.                                      *)
(***************************************************************************)
EXTENDS Integers, FiniteSets, FiniteSetsExt

CONSTANTS Visitors    \* the requests, each made once

ASSUME VisitorsAssumption == IsFiniteSet(Visitors)

VARIABLES
    chats,       \* the chats of the page: [by, title, position, archived]
    visit        \* visit[v]: a request

mVars == <<chats, visit>>

(* saw is history: who made the chats that the request read *)
NotVisited == [pc |-> "new", op |-> "none", position |-> 0, target |-> {}, saw |-> {}]

ChatsInit == chats = {} /\ visit = [v \in Visitors |-> NotVisited]

(* list_for_page, and who made a chat *)
Visible == {r \in chats : ~r.archived}
Inserters(rows) == {r.by : r \in rows}

(* max_position_for_page, -1 for a page without chats *)
MaxPosition == IF chats = {} THEN -1 ELSE Max({r.position : r \in chats})

(* create, without a title of the client's *)
NewChat(v) ==
    /\ visit[v] = NotVisited
    /\ visit' = [visit EXCEPT ![v] = [NotVisited EXCEPT !.pc = "numbered", !.op = "create",
                    !.position = MaxPosition + 1, !.saw = Inserters(chats)]]
    /\ UNCHANGED chats

(* ensure_default_session: a page with chats has its default; on one without,*)
(* "Chat 1" is created, with the position that create reads next             *)
DefaultLooks(v) ==
    /\ visit[v] = NotVisited
    /\ Visible = {}
    /\ visit' = [visit EXCEPT ![v] = [NotVisited EXCEPT !.pc = "looked", !.op = "default"]]
    /\ UNCHANGED chats

DefaultNumbered(v) ==
    /\ visit[v].pc = "looked"
    /\ visit' = [visit EXCEPT ![v].pc = "numbered", ![v].position = MaxPosition + 1]
    /\ UNCHANGED chats

ChatInserted(v) ==
    /\ visit[v].pc = "numbered"
    /\ chats' = chats \cup
         {[by |-> v, position |-> visit[v].position, archived |-> FALSE,
           title |-> IF visit[v].op = "default" THEN 1 ELSE visit[v].position + 1]}
    /\ visit' = [visit EXCEPT ![v].pc = "done"]

(* mutant: the chats left are not looked at *)
DeleteAnyChat(v) ==
    /\ visit[v] = NotVisited
    /\ \E r \in chats :
          visit' = [visit EXCEPT ![v] = [NotVisited EXCEPT !.pc = "deleting", !.op = "delete",
                       !.target = {r.by}, !.saw = Inserters(Visible)]]
    /\ UNCHANGED chats

(* delete: refused for the last chat that the list shows *)
DeleteLooks(v) ==
    /\ visit[v] = NotVisited
    /\ \E r \in chats :
          /\ Visible \ {r} # {}
          /\ visit' = [visit EXCEPT ![v] = [NotVisited EXCEPT !.pc = "deleting", !.op = "delete",
                          !.target = {r.by}, !.saw = Inserters(Visible)]]
    /\ UNCHANGED chats

ChatDeleted(v) ==
    /\ visit[v].pc = "deleting"
    /\ chats' = {r \in chats : r.by \notin visit[v].target}
    /\ visit' = [visit EXCEPT ![v].pc = "done"]

(* archive: nothing is asked of the other chats *)
ChatArchived(v) ==
    /\ visit[v] = NotVisited
    /\ \E r \in chats :
          /\ chats' = (chats \ {r}) \cup {[r EXCEPT !.archived = TRUE]}
          /\ visit' = [visit EXCEPT ![v] = [NotVisited EXCEPT !.pc = "done", !.op = "archive",
                          !.target = {r.by}]]

ChatsNext ==
    \E v \in Visitors :
        \/ NewChat(v) \/ DefaultLooks(v) \/ DefaultNumbered(v) \/ ChatInserted(v)
        \/ DeleteLooks(v) \/ ChatDeleted(v) \/ ChatArchived(v)

ChatsSpec == ChatsInit /\ [][ChatsNext]_mVars

-------------------------------------------------------------------------------
ChatsTypeOK ==
    /\ \A r \in chats :
          /\ r.by \in Visitors /\ r.title \in 1..Cardinality(Visitors)
          /\ r.position \in 0..(Cardinality(Visitors) - 1) /\ r.archived \in BOOLEAN
    /\ visit \in [Visitors -> [pc : {"new", "looked", "numbered", "deleting", "done"},
                               op : {"none", "create", "default", "delete", "archive"},
                               position : 0..Cardinality(Visitors),
                               target : SUBSET Visitors, saw : SUBSET Visitors]]

Did(v, op) == visit[v].op = op /\ visit[v].pc = "done"

(* A page where chats were only deleted has none left only when two          *)
(* deletions each saw the chat that the other deleted                        *)
EmptiedOnlyByRace ==
    /\ chats = {}
    /\ \E v \in Visitors : Did(v, "delete")
    /\ \A v \in Visitors : ~Did(v, "archive")
    =>
        \E v, w \in Visitors :
            /\ Did(v, "delete") /\ Did(w, "delete")
            /\ visit[v].target # visit[w].target
            /\ visit[v].target \subseteq visit[w].saw /\ visit[w].target \subseteq visit[v].saw

(* Two chats of the list share a title only when neither request saw the     *)
(* other's chat, the archived ones apart                                     *)
SameTitleOnlyByRace ==
    \A r, s \in Visible : r.by # s.by /\ r.title = s.title => r.by \notin visit[s.by].saw

(* The checks of delete and the numbers of create hold for requests that     *)
(* follow one another (chat_session_service.py:114, :196).                   *)
ChatsHold == EmptiedOnlyByRace /\ SameTitleOnlyByRace

(* "A page must always keep at least one chat" (chat_session_service.py:182) *)
PageKeepsAChat ==
    chats = {} => \A v \in Visitors : ~Did(v, "delete") \/ \E w \in Visitors : Did(w, "archive")

(* "'Chat N' titles never collide" (chat_session_service.py:112)             *)
TitlesDiffer == \A r, s \in Visible : r.title = s.title => r.by = s.by

(* "numbers are never reused after a delete" (repositories/chat_session.py   *)
(* :64): a new chat has a higher number than any chat there was.             *)
NumbersGrow ==
    \A v, w \in Visitors :
        /\ Did(v, "delete") /\ visit[w].op = "create" /\ visit[w].pc = "numbered"
        /\ visit[w].saw \cap visit[v].target = {}
        => \A u \in visit[v].target : visit[w].position > visit[u].position

===============================================================================
