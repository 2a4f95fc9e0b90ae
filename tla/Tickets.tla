-------------------------------- MODULE Tickets --------------------------------
(***************************************************************************)
(* A support ticket, its timeline and the report of an escalation           *)
(* (services/ticket_service.py, models/ticket.py).                          *)
(*                                                                         *)
(* A request loads the ticket in one step and commits in a later one. The   *)
(* first event it appends flushes its change of the row, so the row lock    *)
(* makes the order of the flushes that of the commits; the time of an event *)
(* is that of the start of its transaction.                                 *)
(***************************************************************************)
EXTENDS Naturals, Sequences, FiniteSets

CONSTANTS
    Staff,        \* requests in flight
    MaxRequests   \* bound on the requests that ever load the ticket

ASSUME StaffAssumption == IsFiniteSet(Staff) /\ MaxRequests \in Nat

VARIABLES
    ticket,       \* the row
    timeline,     \* ticket_events, in the order of their commits
    began,        \* requests that have loaded the ticket
    act,          \* act[s]: a request in flight
    posts         \* history: reports of the escalation sent to the on-call hook

tVars == <<ticket, timeline, began, act, posts>>

Statuses == {"open", "in_progress", "resolved", "closed", "escalated"}
Ticket == [status : Statuses, assigned : 0..MaxRequests, escalated : 0..MaxRequests]

(* to: the status the event says, "none" for an event about something else   *)
Event == [kind : {"status_changed", "resolved", "assigned", "commented", "escalated", "reopened"},
          to : Statuses \cup {"none"}, at : 1..MaxRequests]
Says(kind, to, at) == [kind |-> kind, to |-> to, at |-> at]

NoAct == [op |-> "none"]
Requests == {[op |-> "update", to |-> s] : s \in Statuses}
                \cup {[op |-> o, to |-> "none"] : o \in {"assign", "comment", "escalate", "reopen"}}

TicketsInit ==
    /\ ticket = [status |-> "open", assigned |-> 0, escalated |-> 0]
    /\ timeline = <<>>
    /\ began = 0
    /\ act = [s \in Staff |-> NoAct]
    /\ posts = 0

(* What a request requires of the ticket it loads; an update to the status   *)
(* the ticket has, and an escalation of an escalated one, change nothing.    *)
Allowed(q) ==
    \/ q.op = "update" /\ q.to # ticket.status
    \/ q.op \in {"assign", "comment"}
    \/ q.op = "escalate" /\ ticket.status # "escalated"
    \/ q.op = "reopen" /\ ticket.status \in {"resolved", "closed"}

(* update, escalate, reopen: the assignments, with the number of the request *)
(* for the assignee and for escalated_at                                     *)
NewRow(q) ==
    CASE q.op = "update" -> [q.copy EXCEPT !.status = q.to]
      [] q.op = "assign" -> [q.copy EXCEPT !.assigned = q.at]
      [] q.op = "escalate" -> [q.copy EXCEPT !.status = "escalated", !.escalated = q.at]
      [] q.op = "reopen" -> [q.copy EXCEPT !.status = "open"]
      [] OTHER -> q.copy

(* mutant: no event for what reopen does *)
EventsButReopen(q) ==
    CASE q.op = "update" -> <<Says("status_changed", q.to, q.at)>>
      [] q.op = "escalate" -> <<Says("escalated", "escalated", q.at)>>
      [] OTHER -> <<>>

(* The events a request appends *)
NewEvents(q) ==
    CASE q.op = "update" ->
            <<Says("status_changed", q.to, q.at)>> \o
                (IF q.to = "resolved" THEN <<Says("resolved", "none", q.at)>> ELSE <<>>)
      [] q.op = "assign" -> <<Says("assigned", "none", q.at)>>
      [] q.op = "comment" -> <<Says("commented", "none", q.at)>>
      [] q.op = "escalate" -> <<Says("escalated", "escalated", q.at)>>
      [] q.op = "reopen" -> <<Says("reopened", "open", q.at)>>

(* mutant: the whole row is written *)
WriteRow(copy, new) == new

(* A commit writes the columns whose value the request changed *)
WriteChanged(copy, new) ==
    LET Col(c) == IF new[c] # copy[c] THEN new[c] ELSE ticket[c]
    IN  [status |-> Col("status"), assigned |-> Col("assigned"), escalated |-> Col("escalated")]

-------------------------------------------------------------------------------
(* _load_or_404 and the checks *)
TicketLoads(s, q) ==
    /\ act[s] = NoAct
    /\ began < MaxRequests
    /\ Allowed(q)
    /\ began' = began + 1
    /\ act' = [act EXCEPT ![s] = [op |-> q.op, to |-> q.to, copy |-> ticket, at |-> began + 1]]
    /\ UNCHANGED <<ticket, timeline, posts>>

TicketCommits(s) ==
    LET q == act[s] IN
    /\ q.op \notin {"none", "post"}
    /\ ticket' = WriteChanged(q.copy, NewRow(q))
    /\ timeline' = timeline \o NewEvents(q)
    /\ act' = [act EXCEPT ![s] = IF q.op = "escalate" THEN [op |-> "post"] ELSE NoAct]
    /\ UNCHANGED <<began, posts>>

(* mutant: sent again until it is acknowledged *)
PostsUntilHeard(s) ==
    /\ act[s].op = "post"
    /\ posts < MaxRequests + 1
    /\ posts' = posts + 1
    /\ act' = act
    /\ UNCHANGED <<ticket, timeline, began>>

(* _post_escalation_webhook, after the commit, once *)
Posts(s) ==
    /\ act[s].op = "post"
    /\ posts' = posts + 1
    /\ act' = [act EXCEPT ![s] = NoAct]
    /\ UNCHANGED <<ticket, timeline, began>>

(* The request dies or is rolled back; a failed report is only logged        *)
TicketAborts(s) ==
    /\ act[s] # NoAct
    /\ act' = [act EXCEPT ![s] = NoAct]
    /\ UNCHANGED <<ticket, timeline, began, posts>>

TicketsNext ==
    \E s \in Staff :
        \/ \E q \in Requests : TicketLoads(s, q)
        \/ TicketCommits(s) \/ Posts(s) \/ TicketAborts(s)

TicketsSpec == TicketsInit /\ [][TicketsNext]_tVars

-------------------------------------------------------------------------------
TicketsTypeOK ==
    /\ ticket \in Ticket
    /\ timeline \in Seq(Event)
    /\ began \in 0..MaxRequests
    /\ \A s \in Staff : act[s].op \in {"none", "post", "update", "assign", "comment", "escalate", "reopen"}

Told(P(_)) == {i \in DOMAIN timeline : P(timeline[i])}
OfStatus(e) == e.to # "none"
Escalation(e) == e.kind = "escalated"

(* "Every mutation appends a row to ticket_events" (ticket_service.py:11):   *)
(* the status of the ticket is the one its last committed event of a change  *)
(* of status says, whatever the copies the requests decided on.              *)
StatusIsTold ==
    LET S == Told(OfStatus) IN
    IF S = {} THEN ticket.status = "open"
    ELSE \E i \in S : (\A j \in S : j <= i) /\ ticket.status = timeline[i].to

(* An escalation in the timeline is for good stamped on the ticket, and the  *)
(* on-call hook hears of no escalation that was not committed.               *)
EscalationIsStamped ==
    /\ Told(Escalation) # {} => ticket.escalated # 0
    /\ posts <= Cardinality(Told(Escalation))

(* Both, of one run: what the timeline tells of a status and of an           *)
(* escalation is what the ticket says (ticket_service.py:11).                *)
TicketHolds == StatusIsTold /\ EscalationIsStamped

(* The timeline is shown by the times of its events (ticket_service.py:166): *)
(* its last event of a change of status says the status.                     *)
TimelineEndsInStatus ==
    \A i \in Told(OfStatus) :
        (\A j \in Told(OfStatus) : timeline[j].at <= timeline[i].at) =>
            ticket.status = timeline[i].to

(* The escalation is reported "ONLY on escalate" (ticket_service.py:336): an *)
(* escalated ticket has been escalated by someone.                           *)
EscalatedByEscalate == ticket.status = "escalated" => ticket.escalated # 0

(* An escalated ticket is not escalated again (ticket_service.py:297).       *)
EscalatedOnce == posts <= 1

===============================================================================
