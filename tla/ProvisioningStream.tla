-------------------------- MODULE ProvisioningStream --------------------------
(***************************************************************************)
(* The event stream of one provisioning job: events written by webhooks and *)
(* by the reconciler, published on Redis (services/provisioning_workflow.py) *)
(* and followed by one console page (api/v1/console_provisioning.py).       *)
(*                                                                         *)
(* An event is published after its row is flushed and before its            *)
(* transaction commits; Redis keeps nothing for who is not subscribed, and  *)
(* may fail at any time. The page connects again when its stream ends.      *)
(***************************************************************************)
EXTENDS Naturals

CONSTANT MaxEvents   \* the events of the job

VARIABLES
    event,      \* event[e]: none, flushed, committed, undone
    page,       \* off, replayed, tailing
    inbox,      \* messages of the subscription not read yet
    seen        \* what the page has shown

eVars == <<event, page, inbox, seen>>

JobEvents == 1..MaxEvents
Committed == {e \in JobEvents : event[e] = "committed"}

StreamInit ==
    /\ event = [e \in JobEvents |-> "none"]
    /\ page = "off" /\ inbox = {} /\ seen = {}

(* ingest_event, the synthesis of the reconciler: flush and _publish, whose  *)
(* failure is only logged                                                    *)
EventFlushes(e) ==
    /\ event[e] = "none"
    /\ event' = [event EXCEPT ![e] = "flushed"]
    /\ \E published \in BOOLEAN : inbox' = IF published /\ page = "tailing" THEN inbox \cup {e} ELSE inbox
    /\ UNCHANGED <<page, seen>>

EventCommits(e) ==
    /\ event[e] = "flushed"
    /\ event' = [event EXCEPT ![e] = "committed"]
    /\ UNCHANGED <<page, inbox, seen>>

EventUndone(e) ==
    /\ event[e] = "flushed"
    /\ event' = [event EXCEPT ![e] = "undone"]
    /\ UNCHANGED <<page, inbox, seen>>

-------------------------------------------------------------------------------
(* replay_events: the rows committed so far *)
Replays ==
    /\ page = "off"
    /\ page' = "replayed"
    /\ seen' = seen \cup Committed
    /\ UNCHANGED <<event, inbox>>

(* subscribe_events, when the first message is asked for *)
Subscribes ==
    /\ page = "replayed"
    /\ page' = "tailing"
    /\ UNCHANGED <<event, inbox, seen>>

ShowsMessage(e) ==
    /\ page = "tailing" /\ e \in inbox
    /\ inbox' = inbox \ {e}
    /\ seen' = seen \cup {e}
    /\ UNCHANGED <<event, page>>

StreamEnds ==
    /\ page' = "off" /\ inbox' = {}
    /\ UNCHANGED <<event, seen>>

(* mutant: only a heartbeat is sent *)
KeepsTailing == page = "tailing" /\ inbox = {} /\ UNCHANGED eVars

(* SSE_HEARTBEAT_SECONDS without a message: after the heartbeat the cancelled *)
(* read has ended the subscription, and the next read ends the stream        *)
IdleEnds == page = "tailing" /\ inbox = {} /\ StreamEnds

(* No Redis, an error of the subscription, or the page goes away             *)
Breaks == page # "off" /\ StreamEnds

StreamNext ==
    \/ \E e \in JobEvents : EventFlushes(e) \/ EventCommits(e) \/ EventUndone(e) \/ ShowsMessage(e)
    \/ Replays \/ Subscribes \/ IdleEnds \/ Breaks

(* The page connects again, and the stream, its timeout included, goes on    *)
StreamFairness ==
    /\ WF_eVars(Replays) /\ WF_eVars(Subscribes) /\ WF_eVars(IdleEnds)
    /\ WF_eVars(\E e \in JobEvents : ShowsMessage(e))

StreamSpec == StreamInit /\ [][StreamNext]_eVars /\ StreamFairness

-------------------------------------------------------------------------------
StreamTypeOK ==
    /\ event \in [JobEvents -> {"none", "flushed", "committed", "undone"}]
    /\ page \in {"off", "replayed", "tailing"}
    /\ inbox \subseteq JobEvents /\ seen \subseteq JobEvents
    /\ page # "tailing" => inbox = {}

(* A committed event is shown, also one published while nobody was           *)
(* subscribed, between the replay and the subscription, or not at all: it    *)
(* comes with the replay of the connection after the next pause              *)
(* (console_provisioning.py:182-230).                                        *)
CaughtUp == \A e \in JobEvents : event[e] = "committed" ~> e \in seen

(* "Every payload appends one ProvisioningJobEvent row"                      *)
(* (provisioning_workflow.py:217): what is shown is, or will be, a row.      *)
ShownIsKept == \A e \in seen : event[e] # "undone"

===============================================================================
