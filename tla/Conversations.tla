----------------------------- MODULE Conversations -----------------------------
(***************************************************************************)
(* One thread of a page, shared by a team: its comments, the questions the  *)
(* AI answers, and the daily answer when the thread is an agent's           *)
(* (services/message_service.py, api/v1/ai.py:684, repositories/message.py, *)
(* services/agent_conversation_service.py). A question takes in the         *)
(* comments nobody answered yet; an answer is minutes away from the read of *)
(* those comments, and its row gets its time when it is inserted, before    *)
(* the commit that shows it.                                                *)
(***************************************************************************)
EXTENDS Naturals, Sequences, SequencesExt

CONSTANTS
    Comments,    \* the comments the team posts
    Asks,        \* the turns in flight, and the answers they save
    Unstamped    \* incorporated_in_message_id is NULL

ASSUME StampAssumption == Unstamped \notin Asks /\ Comments \cap Asks = {}

VARIABLES
    open,        \* the conversation exists
    thread,      \* its comments and answers, by created_at
    shown,       \* the committed ones
    stamp,       \* incorporated_in_message_id of a comment
    turn         \* turn[a]: a turn

storedVars == <<open, thread, shown, stamp>>
vVars == <<open, thread, shown, stamp, turn>>

Messages == Comments \cup Asks

(* prompt: the comments the AI was given; bundle: those the answer is to be  *)
(* stamped on; known is history: what was committed when bundle was read     *)
NoTurn == [pc |-> "new", kind |-> "none", prompt |-> {}, bundle |-> {}, known |-> {}]

ThreadInit ==
    /\ open = TRUE /\ thread = <<>> /\ shown = {}
    /\ stamp = [c \in Comments |-> Unstamped]
    /\ turn = [a \in Asks |-> NoTurn]

Written(m) == m \in ToSet(thread)
Before(m, n) == \E i, j \in DOMAIN thread : i < j /\ thread[i] = m /\ thread[j] = n

(* list_pending_comments: not incorporated, and newer than the last answer   *)
PendingComments ==
    {c \in Comments \cap shown :
        stamp[c] = Unstamped /\ \A a \in Asks \cap shown : Before(a, c)}

(* create: a comment is inserted, and committed later *)
PostComment(c) ==
    /\ open /\ ~Written(c)
    /\ thread' = Append(thread, c)
    /\ UNCHANGED <<open, shown, stamp, turn>>

CommentCommits(c) ==
    /\ Written(c)
    /\ c \notin shown
    /\ shown' = shown \cup {c}
    /\ UNCHANGED <<open, thread, stamp, turn>>

(* The stream reads the pending comments, puts them in the question and      *)
(* asks the AI                                                               *)
StreamStarts(a) ==
    /\ open /\ turn[a] = NoTurn
    /\ turn' = [turn EXCEPT ![a] =
                  [pc |-> "asked", kind |-> "stream", prompt |-> PendingComments, bundle |-> PendingComments,
                   known |-> shown]]
    /\ UNCHANGED storedVars

(* list_pending_comments raises, for the asker has left the crew or the space *)
(* since he was let in: the question goes on without the discussion          *)
StreamStartsBare(a) ==
    /\ open /\ turn[a] = NoTurn
    /\ turn' = [turn EXCEPT ![a] =
                  [pc |-> "asked", kind |-> "bare", prompt |-> {}, bundle |-> {}, known |-> shown]]
    /\ UNCHANGED storedVars

(* preview-prompt: the client builds the prompt and runs the AI itself *)
PromptPreviewed(a) ==
    /\ open /\ turn[a] = NoTurn
    /\ turn' = [turn EXCEPT ![a] =
                  [pc |-> "previewed", kind |-> "bundle", prompt |-> PendingComments, bundle |-> {},
                   known |-> {}]]
    /\ UNCHANGED storedVars

(* ask_ai_with_bundle: the client hands in the answer; pending is read again *)
AskWithBundle(a) ==
    /\ open /\ turn[a].pc = "previewed"
    /\ turn' = [turn EXCEPT ![a].pc = "asked", ![a].bundle = PendingComments, ![a].known = shown]
    /\ UNCHANGED storedVars

(* A run of the agent reads the discussion; its answer stamps nothing *)
DailyRunStarts(a) ==
    /\ open /\ turn[a] = NoTurn
    /\ turn' = [turn EXCEPT ![a] =
                  [pc |-> "asked", kind |-> "daily", prompt |-> Comments \cap shown, bundle |-> {},
                   known |-> shown]]
    /\ UNCHANGED storedVars

(* The AI fails, the client leaves: no turn is saved *)
TurnEndsEarly(a) ==
    /\ turn[a].pc \in {"previewed", "asked"}
    /\ turn' = [turn EXCEPT ![a].pc = "failed"]
    /\ UNCHANGED storedVars

(* The question and its answer are inserted; with the conversation deleted   *)
(* the insert fails, which the stream only logs                              *)
TurnInserted(a) ==
    /\ turn[a].pc = "asked"
    /\ turn' = [turn EXCEPT ![a].pc = IF open THEN "inserted" ELSE "failed"]
    /\ thread' = IF open THEN Append(thread, a) ELSE thread
    /\ UNCHANGED <<open, shown, stamp>>

(* mutant: the comments taken in are not marked *)
CommitUnmarked(a) ==
    /\ turn[a].pc = "inserted"
    /\ shown' = shown \cup {a}
    /\ turn' = [turn EXCEPT ![a].pc = "saved"]
    /\ UNCHANGED <<open, thread, stamp>>

(* mark_incorporated writes the stamp whatever it was, and waits for the     *)
(* turn that holds the rows: the stamps follow the order of the commits      *)
TurnCommits(a) ==
    /\ turn[a].pc = "inserted"
    /\ shown' = shown \cup {a}
    /\ stamp' = [c \in Comments |-> IF c \in turn[a].bundle THEN a ELSE stamp[c]]
    /\ turn' = [turn EXCEPT ![a].pc = "saved"]
    /\ UNCHANGED <<open, thread>>

(* delete: the messages go with the conversation; the delete waits for a     *)
(* transaction that inserted one                                             *)
ConversationDeleted ==
    /\ open
    /\ ToSet(thread) \subseteq shown
    /\ open' = FALSE /\ thread' = <<>> /\ shown' = {}
    /\ stamp' = [c \in Comments |-> Unstamped]
    /\ UNCHANGED turn

ThreadNext ==
    \/ ConversationDeleted
    \/ \E c \in Comments : PostComment(c) \/ CommentCommits(c)
    \/ \E a \in Asks :
          \/ StreamStarts(a) \/ StreamStartsBare(a) \/ PromptPreviewed(a) \/ AskWithBundle(a) \/ DailyRunStarts(a)
          \/ TurnEndsEarly(a) \/ TurnInserted(a) \/ TurnCommits(a)

ThreadSpec == ThreadInit /\ [][ThreadNext]_vVars

-------------------------------------------------------------------------------
ThreadTypeOK ==
    /\ open \in BOOLEAN /\ shown \subseteq ToSet(thread) /\ ToSet(thread) \subseteq Messages
    /\ stamp \in [Comments -> Asks \cup {Unstamped}]
    /\ turn \in [Asks -> [pc : {"new", "previewed", "asked", "inserted", "saved", "failed"},
                          kind : {"none", "stream", "bare", "bundle", "daily"},
                          prompt : SUBSET Comments, bundle : SUBSET Comments,
                          known : SUBSET Messages]]

Answers == Asks \cap shown

(* A stamp names a committed, newer answer that took the comment in *)
StampIsAnswer ==
    \A c \in Comments : stamp[c] # Unstamped =>
        stamp[c] \in Answers /\ Before(c, stamp[c]) /\ c \in turn[stamp[c]].bundle

(* A comment that no question will carry any more, and that none took in, is *)
(* older than an answer that had read the thread before the comment was      *)
(* there, or than one that stamps nothing: an agent's daily answer, or that   *)
(* of a question asked without the discussion                                *)
StampsNothing == {"daily", "bare"}
PassedOver(c) == c \in shown /\ c \notin PendingComments /\ stamp[c] = Unstamped
PassedOnlyWhileAsked ==
    \A c \in Comments : PassedOver(c) =>
        \E a \in Answers : Before(c, a) /\ (c \notin turn[a].known \/ turn[a].kind \in StampsNothing)

(* Two answers took in one comment only when each question was asked before  *)
(* the other was answered                                                    *)
TakenAgainOnlyByOverlap ==
    \A a, b \in Answers : a # b /\ turn[a].bundle \cap turn[b].bundle # {} => a \notin turn[b].known

(* A comment of the team ends in at most the answers asked for beside each   *)
(* other, and is left out of all of them only when it was posted while one   *)
(* was being made: list_pending_comments and mark_incorporated fit together  *)
(* (repositories/message.py:91, :131, api/v1/ai.py:1006).                    *)
ThreadHolds == StampIsAnswer /\ PassedOnlyWhileAsked /\ TakenAgainOnlyByOverlap

(* "Bring the team's unanswered comments into the question" (ai.py:933): in  *)
(* a thread whose answers stamp what they took in, a comment that no question *)
(* will carry any more was in some prompt.                                   *)
CommentsReachAPrompt ==
    \A c \in Comments :
        PassedOver(c) /\ (\A a \in Answers : turn[a].kind \notin StampsNothing)
            => \E a \in Answers : c \in turn[a].prompt

(* "when a comment was bundled into an Ask-AI call, set to the resulting     *)
(* ai_response id" (models/conversation.py:180): a stamped comment was in    *)
(* the prompt that was answered.                                             *)
StampedWasAsked ==
    \A c \in Comments : stamp[c] # Unstamped => c \in turn[stamp[c]].prompt

===============================================================================
