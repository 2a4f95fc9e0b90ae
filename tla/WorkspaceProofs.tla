--------------------------- MODULE WorkspaceProofs ---------------------------
(***************************************************************************)
(* What a desk and a team share: the timeline of a ticket, the comments of  *)
(* a thread, the chats of a page, and the page its members meet on. Each    *)
(* has its inductive invariant here. Then the workspace as a whole: each of *)
(* its behaviours is one of every component, so that what is proved of a    *)
(* component holds of it.                                                   *)
(***************************************************************************)
EXTENDS MCWorkspace, AccountProofs, RequestsProofs, WellFoundedInduction

(***************************************************************************)
(* Tickets. A request writes what it changed over the row as it is; what it *)
(* read is older than what it writes.                                       *)
(***************************************************************************)

(* What a request in flight has read and checked                             *)
Reads(q, n) ==
    /\ q.op \in {"update", "assign", "comment", "escalate", "reopen"}
    /\ q.copy \in Ticket /\ q.at \in 1..n
    /\ q.copy.assigned < q.at /\ q.copy.escalated < q.at
    /\ q.op = "update" => q.to \in Statuses /\ q.to # q.copy.status
    /\ q.op = "escalate" => q.copy.status # "escalated"
    /\ q.op = "reopen" => q.copy.status \in {"resolved", "closed"}

Reporting == {s \in Staff : act[s].op = "post"}

TicketsInv ==
    /\ ticket \in Ticket /\ timeline \in Seq(Event) /\ began \in 0..MaxRequests /\ posts \in Nat
    /\ ticket.assigned <= began /\ ticket.escalated <= began
    /\ act = [s \in Staff |-> act[s]]
    /\ \A s \in Staff : act[s].op \in {"none", "post"} \/ Reads(act[s], began)
    /\ StatusIsTold
    /\ Told(Escalation) # {} => ticket.escalated # 0
    /\ posts + Cardinality(Reporting) <= Cardinality(Told(Escalation))

LEMMA ReportingCounted ==
    /\ IsFiniteSet(Reporting) /\ Cardinality(Reporting) \in Nat
<1>1. Reporting \in SUBSET Staff
    BY DEF Reporting
<1> QED
    BY <1>1, StaffAssumption, FS_Subset, FS_CardinalityType

LEMMA ToldCounted == ASSUME timeline \in Seq(Event)
    PROVE IsFiniteSet(Told(Escalation)) /\ Cardinality(Told(Escalation)) \in Nat
<1>1. Told(Escalation) \in SUBSET (1..Len(timeline)) /\ Len(timeline) \in Nat
    BY DEF Told
<1>2. IsFiniteSet(1..Len(timeline))
    BY <1>1, FS_Interval
<1> QED
    BY <1>1, <1>2, FS_Subset, FS_CardinalityType

LEMMA TicketsStart == TicketsInit => TicketsInv
<1> SUFFICES ASSUME TicketsInit PROVE TicketsInv
    OBVIOUS
<1>1. ticket \in Ticket /\ ticket.status = "open" /\ ticket.assigned = 0 /\ ticket.escalated = 0
    BY StaffAssumption DEF TicketsInit, Ticket, Statuses
<1>2. Told(OfStatus) = {} /\ Told(Escalation) = {} /\ timeline \in Seq(Event)
    BY DEF TicketsInit, Told
<1>3. Reporting = {}
    BY DEF TicketsInit, Reporting, NoAct
<1>4. Cardinality(Reporting) = 0 /\ Cardinality(Told(Escalation)) = 0
    BY <1>2, <1>3, FS_EmptySet
<1> QED
    BY <1>1, <1>2, <1>4, StaffAssumption DEF TicketsInit, TicketsInv, StatusIsTold, NoAct

(* The row after a commit, and what the events of a request say of it        *)
LEMMA CommitShape ==
    ASSUME TicketsInv, NEW q, Reads(q, began)
    PROVE  LET t == WriteChanged(q.copy, NewRow(q)) IN
           /\ t \in Ticket /\ t.assigned <= began /\ t.escalated <= began
           /\ t.status = IF q.op = "update" THEN q.to ELSE IF q.op = "escalate" THEN "escalated"
                         ELSE IF q.op = "reopen" THEN "open" ELSE ticket.status
           /\ t.escalated = IF q.op = "escalate" THEN q.at ELSE ticket.escalated
<1> DEFINE n == NewRow(q)
<1>1. /\ ticket \in Ticket /\ began \in Nat /\ began <= MaxRequests /\ MaxRequests \in Nat
      /\ ticket.assigned <= began /\ ticket.escalated <= began
      /\ q.at \in 1..MaxRequests /\ q.at <= began
    BY StaffAssumption DEF TicketsInv, Reads
<1>2. /\ n \in Ticket
      /\ n.status = IF q.op = "update" THEN q.to ELSE IF q.op = "escalate" THEN "escalated"
                    ELSE IF q.op = "reopen" THEN "open" ELSE q.copy.status
      /\ n.escalated = IF q.op = "escalate" THEN q.at ELSE q.copy.escalated
      /\ n.assigned = IF q.op = "assign" THEN q.at ELSE q.copy.assigned
  <2>1. q.copy \in Ticket /\ q.at \in 0..MaxRequests
    BY <1>1 DEF Reads
  <2>2. CASE q.op = "update"
    <3>1. n = [q.copy EXCEPT !.status = q.to] /\ q.to \in Statuses
        BY <2>2 DEF NewRow, Reads
    <3> QED
        BY <2>1, <2>2, <3>1 DEF Ticket
  <2>3. CASE q.op = "assign"
    <3>1. n = [q.copy EXCEPT !.assigned = q.at]
        BY <2>3 DEF NewRow
    <3> QED
        BY <2>1, <2>3, <3>1 DEF Ticket
  <2>4. CASE q.op = "comment"
    <3>1. n = q.copy
        BY <2>4 DEF NewRow
    <3> QED
        BY <2>1, <2>4, <3>1 DEF Ticket
  <2>5. CASE q.op = "escalate"
    <3>1. n = [q.copy EXCEPT !.status = "escalated", !.escalated = q.at]
        BY <2>5 DEF NewRow
    <3> QED
        BY <2>1, <2>5, <3>1 DEF Ticket, Statuses
  <2>6. CASE q.op = "reopen"
    <3>1. n = [q.copy EXCEPT !.status = "open"]
        BY <2>6 DEF NewRow
    <3> QED
        BY <2>1, <2>6, <3>1 DEF Ticket, Statuses
  <2> QED
    BY <2>2, <2>3, <2>4, <2>5, <2>6 DEF Reads
<1> HIDE DEF n
<1>3. WriteChanged(q.copy, n) =
        [status |-> IF n.status # q.copy.status THEN n.status ELSE ticket.status,
         assigned |-> IF n.assigned # q.copy.assigned THEN n.assigned ELSE ticket.assigned,
         escalated |-> IF n.escalated # q.copy.escalated THEN n.escalated ELSE ticket.escalated]
    BY DEF WriteChanged
<1>4. q.copy.assigned # q.at /\ q.copy.escalated # q.at
      /\ q.copy.assigned \in Nat /\ q.copy.escalated \in Nat
    BY <1>1 DEF Reads, Ticket
<1>5. CASE q.op = "update"
    BY <1>1, <1>2, <1>3, <1>4, <1>5 DEF n, Reads, Ticket
<1>6. CASE q.op = "assign"
    BY <1>1, <1>2, <1>3, <1>4, <1>6 DEF n, Reads, Ticket
<1>7. CASE q.op = "comment"
    BY <1>1, <1>2, <1>3, <1>4, <1>7 DEF n, Reads, Ticket
<1>8. CASE q.op = "escalate"
    BY <1>1, <1>2, <1>3, <1>4, <1>8 DEF n, Reads, Ticket, Statuses
<1>9. CASE q.op = "reopen"
    BY <1>1, <1>2, <1>3, <1>4, <1>9 DEF n, Reads, Ticket, Statuses
<1> QED
    BY <1>5, <1>6, <1>7, <1>8, <1>9 DEF Reads

(* What the events a request appends say                                     *)
LEMMA EventsShape ==
    ASSUME NEW q, Reads(q, began), began \in 0..MaxRequests
    PROVE  /\ NewEvents(q) \in Seq(Event) /\ Len(NewEvents(q)) \in {1, 2}
           /\ q.op \in {"update", "escalate", "reopen"} =>
                NewEvents(q)[1].to = IF q.op = "update" THEN q.to
                                     ELSE IF q.op = "escalate" THEN "escalated" ELSE "open"
           /\ q.op \in {"assign", "comment"} => NewEvents(q)[1].to = "none"
           /\ Len(NewEvents(q)) = 2 => NewEvents(q)[2].to = "none" /\ NewEvents(q)[2].kind = "resolved"
           /\ NewEvents(q)[1].kind = "escalated" <=> q.op = "escalate"
<1>1. q.at \in 1..MaxRequests
    BY StaffAssumption DEF Reads
<1>2. ASSUME NEW what \in {"status_changed", "resolved", "assigned", "commented", "escalated", "reopened"},
             NEW to \in Statuses \cup {"none"}
      PROVE  Says(what, to, q.at) \in Event /\ Says(what, to, q.at).to = to
             /\ Says(what, to, q.at).kind = what
    BY <1>1 DEF Says, Event
<1>3. CASE q.op = "update"
  <2>1. q.to \in Statuses
    BY <1>3 DEF Reads
  <2> DEFINE e == Says("status_changed", q.to, q.at)  f == Says("resolved", "none", q.at)
  <2>2. /\ e \in Event /\ e.to = q.to /\ e.kind = "status_changed"
        /\ f \in Event /\ f.to = "none" /\ f.kind = "resolved"
    BY <1>2, <2>1
  <2>3. NewEvents(q) = <<e>> \o (IF q.to = "resolved" THEN <<f>> ELSE <<>>)
    BY <1>3 DEF NewEvents
  <2> HIDE DEF e, f
  <2>4. CASE q.to = "resolved"
    <3>1. NewEvents(q) = <<e>> \o <<f>>
        BY <2>3, <2>4
    <3>2. <<e>> \in Seq(Event) /\ <<f>> \in Seq(Event)
        BY <2>2
    <3>3. NewEvents(q) \in Seq(Event) /\ Len(NewEvents(q)) = 2
          /\ NewEvents(q)[1] = e /\ NewEvents(q)[2] = f
        BY <3>1, <3>2
    <3> QED
        BY <1>3, <2>2, <3>3
  <2>5. CASE q.to # "resolved"
    <3>1. NewEvents(q) = <<e>>
        BY <2>2, <2>3, <2>5
    <3> QED
        BY <1>3, <2>2, <3>1
  <2> QED
    BY <2>4, <2>5
<1>4. CASE q.op = "assign"
    BY <1>2, <1>4 DEF NewEvents
<1>5. CASE q.op = "comment"
    BY <1>2, <1>5 DEF NewEvents
<1>6. CASE q.op = "escalate"
    BY <1>2, <1>6 DEF NewEvents, Statuses
<1>7. CASE q.op = "reopen"
    BY <1>2, <1>7 DEF NewEvents, Statuses
<1> QED
    BY <1>3, <1>4, <1>5, <1>6, <1>7 DEF Reads

(* The steps that write no row                                               *)
LEMMA TicketIdles ==
    ASSUME TicketsInv, NEW s \in Staff, NEW q, act' = [act EXCEPT ![s] = q],
           q.op = "none" \/ Reads(q, began'),
           UNCHANGED <<ticket, timeline>>, began' \in began..MaxRequests,
           posts' = posts \/ (posts' = posts + 1 /\ act[s].op = "post")
    PROVE  TicketsInv'
<1>1. \A d \in Staff : act'[d] = IF d = s THEN q ELSE act[d]
    BY DEF TicketsInv
<1>2. began \in Nat /\ began' \in 0..MaxRequests /\ began <= began'
      /\ MaxRequests \in Nat /\ ticket.assigned \in Nat /\ ticket.escalated \in Nat
    BY StaffAssumption DEF TicketsInv, Ticket
<1>3. ASSUME NEW d \in Staff PROVE act'[d].op \in {"none", "post"} \/ Reads(act'[d], began')
  <2>1. CASE d = s
    BY <1>1, <2>1
  <2>2. CASE d # s
    <3>1. act'[d] = act[d]
        BY <1>1, <2>2
    <3>2. Reads(act[d], began) => Reads(act'[d], began')
        BY <1>2, <3>1 DEF Reads
    <3> QED
        BY <3>1, <3>2 DEF TicketsInv
  <2> QED
    BY <2>1, <2>2
<1>4. posts' + Cardinality(Reporting') <= Cardinality(Told(Escalation)) /\ posts' \in Nat
  <2>1. Reporting \ {s} = Reporting' \ {s} /\ s \notin Reporting' /\ (s \in Reporting <=> act[s].op = "post")
    BY <1>1 DEF Reporting, Reads
  <2> DEFINE B == Reporting'
  <2> HIDE DEF B
  <2>2. /\ Cardinality(Reporting) \in Nat /\ Cardinality(B) \in Nat
        /\ Cardinality(B) = Cardinality(Reporting) - (IF s \in Reporting THEN 1 ELSE 0)
    BY <2>1, ReportingCounted, OneMoved DEF B
  <2>3. Cardinality(Told(Escalation)) \in Nat /\ posts \in Nat
        /\ posts + Cardinality(Reporting) <= Cardinality(Told(Escalation))
    BY ToldCounted DEF TicketsInv
  <2> QED
    BY <2>1, <2>2, <2>3 DEF B
<1>5. Told(Escalation)' = Told(Escalation) /\ StatusIsTold'
    BY DEF Told, TicketsInv, StatusIsTold
<1> QED
    BY <1>1, <1>2, <1>3, <1>4, <1>5 DEF TicketsInv

LEMMA TicketsStep == ASSUME TicketsInv, [TicketsNext]_tVars PROVE TicketsInv'
<1>1. CASE UNCHANGED tVars
  <2>1. \A s \in Staff : act'[s] = act[s] /\ (Reads(act[s], began) => Reads(act[s], began'))
    BY <1>1 DEF tVars, Reads
  <2>2. StatusIsTold' /\ Told(Escalation)' = Told(Escalation) /\ Reporting' = Reporting
    BY <1>1 DEF tVars, TicketsInv, StatusIsTold, Told, Reporting
  <2> QED
    BY <1>1, <2>1, <2>2 DEF tVars, TicketsInv
<1>2. ASSUME NEW s \in Staff, NEW q \in Requests, TicketLoads(s, q) PROVE TicketsInv'
  <2> DEFINE p == [op |-> q.op, to |-> q.to, copy |-> ticket, at |-> began + 1]
  <2>1. began \in Nat /\ MaxRequests \in Nat /\ began < MaxRequests /\ began' = began + 1
        /\ ticket \in Ticket /\ ticket.assigned <= began /\ ticket.escalated <= began
        /\ ticket.assigned \in Nat /\ ticket.escalated \in Nat
    BY <1>2, StaffAssumption DEF TicketLoads, TicketsInv, Ticket
  <2>2. q.op \in {"update", "assign", "comment", "escalate", "reopen"} /\ Allowed(q)
        /\ (q.op = "update" => q.to \in Statuses)
    BY <1>2 DEF TicketLoads, Requests
  <2>3. Reads(p, began')
    BY <2>1, <2>2 DEF Reads, Allowed
  <2>4. act' = [act EXCEPT ![s] = p] /\ UNCHANGED <<ticket, timeline, posts>>
    BY <1>2 DEF TicketLoads
  <2> HIDE DEF p
  <2>5. began' \in began..MaxRequests /\ UNCHANGED <<ticket, timeline>> /\ posts' = posts
    BY <2>1, <2>4
  <2> QED
    BY <2>3, <2>4, <2>5, TicketIdles
<1>3. ASSUME NEW s \in Staff, Posts(s) PROVE TicketsInv'
  <2>1. began' \in began..MaxRequests /\ NoAct.op = "none"
    BY <1>3, StaffAssumption DEF Posts, TicketsInv, NoAct
  <2> QED
    BY <1>3, <2>1, TicketIdles DEF Posts
<1>4. ASSUME NEW s \in Staff, TicketAborts(s) PROVE TicketsInv'
  <2>1. began' \in began..MaxRequests /\ NoAct.op = "none"
    BY <1>4, StaffAssumption DEF TicketAborts, TicketsInv, NoAct
  <2> QED
    BY <1>4, <2>1, TicketIdles DEF TicketAborts
<1>5. ASSUME NEW s \in Staff, TicketCommits(s) PROVE TicketsInv'
  <2> DEFINE q == act[s]
             n == NewEvents(q)
             l == Len(timeline)
             p == IF q.op = "escalate" THEN [op |-> "post"] ELSE NoAct
  <2>1. Reads(q, began) /\ timeline \in Seq(Event) /\ l \in Nat /\ began \in 0..MaxRequests
    BY <1>5 DEF TicketCommits, TicketsInv
  <2>2. /\ ticket' = WriteChanged(q.copy, NewRow(q)) /\ timeline' = timeline \o n
        /\ act' = [act EXCEPT ![s] = p] /\ UNCHANGED <<began, posts>>
    BY <1>5 DEF TicketCommits
  <2>3. /\ ticket' \in Ticket /\ ticket'.assigned <= began /\ ticket'.escalated <= began
        /\ ticket'.status = IF q.op = "update" THEN q.to ELSE IF q.op = "escalate" THEN "escalated"
                            ELSE IF q.op = "reopen" THEN "open" ELSE ticket.status
        /\ ticket'.escalated = IF q.op = "escalate" THEN q.at ELSE ticket.escalated
    BY <2>1, <2>2, CommitShape
  <2>4. /\ n \in Seq(Event) /\ Len(n) \in {1, 2}
        /\ q.op \in {"update", "escalate", "reopen"} =>
                n[1].to = IF q.op = "update" THEN q.to
                          ELSE IF q.op = "escalate" THEN "escalated" ELSE "open"
        /\ q.op \in {"assign", "comment"} => n[1].to = "none"
        /\ Len(n) = 2 => n[2].to = "none" /\ n[2].kind = "resolved"
        /\ n[1].kind = "escalated" <=> q.op = "escalate"
    BY <2>1, EventsShape
  <2> HIDE DEF n
  <2>5. /\ timeline' \in Seq(Event) /\ Len(timeline') = l + Len(n) /\ Len(timeline') \in Nat
        /\ \A i \in 1..l : timeline'[i] = timeline[i]
        /\ timeline'[l + 1] = n[1] /\ (Len(n) = 2 => timeline'[l + 2] = n[2])
    BY <2>1, <2>2, <2>4
  <2>11. /\ \A i \in 1..Len(timeline') : i \in 1..l \/ i = l + 1 \/ (i = l + 2 /\ Len(n) = 2)
         /\ 1..l \subseteq 1..Len(timeline') /\ l + 1 \in 1..Len(timeline') /\ l + 1 \notin 1..l
    <3> DEFINE m == Len(n)
    <3>1. m \in {1, 2} /\ Len(timeline') = l + m /\ l \in Nat
        BY <2>1, <2>4, <2>5
    <3> HIDE DEF m, l
    <3>2. \A i \in 1..(l + m) : i \in 1..l \/ i = l + 1 \/ (i = l + 2 /\ m = 2)
        BY <3>1
    <3>3. 1..l \subseteq 1..(l + m) /\ l + 1 \in 1..(l + m) /\ l + 1 \notin 1..l
        BY <3>1
    <3> QED
        BY <3>1, <3>2, <3>3 DEF m
  <2>6. StatusIsTold'
    <3> DEFINE S == Told(OfStatus)
               T == {i \in 1..Len(timeline') : timeline'[i].to # "none"}
    <3>1. S = {i \in 1..l : timeline[i].to # "none"} /\ Told(OfStatus)' = T
        BY <2>1, <2>5 DEF Told, OfStatus
    <3>2. CASE q.op \in {"assign", "comment"}
      <4>1. \A i \in 1..Len(timeline') : i \in T <=> i \in S
        BY <2>4, <2>5, <2>11, <3>1, <3>2
      <4>3. T \subseteq 1..Len(timeline') /\ S \subseteq 1..Len(timeline')
        BY <2>5, <2>11, <3>1
      <4>4. T = S
        BY <4>1, <4>3
      <4>5. ticket'.status = ticket.status
        BY <2>3, <3>2
      <4>2. \A i \in S : timeline'[i].to = timeline[i].to
        BY <2>5, <3>1
      <4> QED
        BY <3>1, <4>2, <4>4, <4>5 DEF TicketsInv, StatusIsTold
    <3>3. CASE q.op \in {"update", "escalate", "reopen"}
      <4>1. ticket'.status = n[1].to /\ n[1].to # "none"
        BY <2>1, <2>3, <2>4, <3>3 DEF Reads, Statuses
      <4>2. l + 1 \in T /\ \A j \in T : j <= l + 1
        BY <2>4, <2>5, <2>11, <3>3, <4>1
      <4> QED
        BY <2>5, <3>1, <4>1, <4>2 DEF StatusIsTold
    <3> QED
        BY <2>1, <3>2, <3>3 DEF Reads
  <2>7. /\ Cardinality(Told(Escalation)) \in Nat /\ Cardinality(Told(Escalation)') \in Nat
        /\ Cardinality(Told(Escalation)') = Cardinality(Told(Escalation))
                                              + (IF q.op = "escalate" THEN 1 ELSE 0)
        /\ q.op # "escalate" => Told(Escalation)' = Told(Escalation)
    <3> DEFINE S == Told(Escalation)
               T == {i \in 1..Len(timeline') : timeline'[i].kind = "escalated"}
    <3>1. S = {i \in 1..l : timeline[i].kind = "escalated"} /\ Told(Escalation)' = T
        BY <2>1, <2>5 DEF Told, Escalation
    <3>2. T = IF q.op = "escalate" THEN S \cup {l + 1} ELSE S
      <4> DEFINE U == IF q.op = "escalate" THEN S \cup {l + 1} ELSE S
      <4>1. \A i \in 1..Len(timeline') : i \in T <=> i \in U
        BY <2>4, <2>5, <2>11, <3>1
      <4>2. T \subseteq 1..Len(timeline') /\ U \subseteq 1..Len(timeline')
        BY <2>5, <2>11, <3>1
      <4> QED
        BY <4>1, <4>2
    <3>3. l + 1 \notin S
        BY <2>1, <3>1
    <3>4. IsFiniteSet(S) /\ Cardinality(S) \in Nat
        BY <2>1, ToldCounted
    <3> HIDE DEF S, T
    <3>5. Cardinality(S \cup {l + 1}) = Cardinality(S) + 1
        BY <3>3, <3>4, FS_AddElement
    <3> QED
        BY <3>1, <3>2, <3>4, <3>5 DEF S
  <2>8. /\ act' = [d \in Staff |-> act'[d]]
        /\ \A d \in Staff : act'[d].op \in {"none", "post"} \/ Reads(act'[d], began')
    <3>1. p.op \in {"none", "post"}
        BY DEF NoAct
    <3> HIDE DEF p
    <3>2. \A d \in Staff : act'[d] = IF d = s THEN p ELSE act[d]
        BY <2>2 DEF TicketsInv
    <3>3. \A d \in Staff : Reads(act[d], began) => Reads(act[d], began')
        BY <2>2 DEF Reads
    <3> QED
        BY <2>2, <3>1, <3>2, <3>3 DEF TicketsInv
  <2>9. posts' + Cardinality(Reporting') <= Cardinality(Told(Escalation)')
    <3>1. (p.op = "post") <=> q.op = "escalate"
        BY DEF NoAct
    <3> HIDE DEF p
    <3>2. \A d \in Staff : act'[d] = IF d = s THEN p ELSE act[d]
        BY <2>2 DEF TicketsInv
    <3> DEFINE B == Reporting'
    <3>3. Reporting \ {s} = B \ {s} /\ s \notin Reporting /\ (s \in B <=> q.op = "escalate")
        BY <2>1, <3>1, <3>2 DEF Reporting, Reads
    <3> HIDE DEF B
    <3>4. /\ Cardinality(Reporting) \in Nat /\ Cardinality(B) \in Nat
          /\ Cardinality(B) = Cardinality(Reporting) + (IF q.op = "escalate" THEN 1 ELSE 0)
        BY <3>3, ReportingCounted, OneMoved
    <3>5. posts + Cardinality(Reporting) <= Cardinality(Told(Escalation)) /\ posts \in Nat /\ posts' = posts
        BY <2>2 DEF TicketsInv
    <3> QED
        BY <2>7, <3>4, <3>5 DEF B
  <2>10. Told(Escalation)' # {} => ticket'.escalated # 0
    BY <2>1, <2>3, <2>7 DEF TicketsInv, Reads
  <2> QED
    BY <2>2, <2>3, <2>5, <2>6, <2>8, <2>9, <2>10 DEF TicketsInv
<1> QED
    BY <1>1, <1>2, <1>3, <1>4, <1>5 DEF TicketsNext

(* The timeline of a ticket tells its status and its escalations, and the    *)
(* on-call hook hears of no other, however many requests are in flight.      *)
THEOREM TimelineTells == TicketsSpec => []TicketHolds
<1>1. TicketsInv => TicketHolds
  <2> SUFFICES ASSUME TicketsInv PROVE TicketHolds
    OBVIOUS
  <2>1. Cardinality(Told(Escalation)) \in Nat /\ Cardinality(Reporting) \in Nat
    BY ToldCounted, ReportingCounted DEF TicketsInv
  <2> QED
    BY <2>1 DEF TicketsInv, TicketHolds, EscalationIsStamped
<1> QED
    BY <1>1, TicketsStart, TicketsStep, PTL DEF TicketsSpec

(* The ticket, its timeline and the requests on it are well formed, no       *)
(* request is dated after the last one that began (Tickets!TicketsTypeOK).   *)
THEOREM TicketsTypes == TicketsSpec => []TicketsTypeOK
<1>1. TicketsInv => TicketsTypeOK
    BY DEF TicketsInv, TicketsTypeOK, Reads
<1> QED
    BY <1>1, TicketsStart, TicketsStep, PTL DEF TicketsSpec

(***************************************************************************)
(* A thread. What a question read when it was asked: the comments it takes  *)
(* in, and why it leaves out the others.                                    *)
(***************************************************************************)

Turn == [pc : {"new", "previewed", "asked", "inserted", "saved", "failed"},
         kind : {"none", "stream", "bare", "bundle", "daily"},
         prompt : SUBSET Comments, bundle : SUBSET Comments, known : SUBSET Messages]

(* A comment older than an answer that does not count for it                 *)
Excused(c) == \E a \in Answers : Before(c, a) /\ (c \notin turn[a].known \/ turn[a].kind \in StampsNothing)

(* A turn whose question is asked: what it read                              *)
Knows(a) ==
    /\ turn[a].bundle \subseteq shown /\ turn[a].known \subseteq shown
    /\ turn[a].kind \notin StampsNothing =>
          \A c \in Comments \cap turn[a].known :
              c \in turn[a].bundle \/ stamp[c] # Unstamped \/ Excused(c)
    /\ \A b \in Asks \cap turn[a].known : turn[b].bundle \cap turn[a].bundle = {}

ThreadInv ==
    /\ open \in BOOLEAN /\ thread \in Seq(Messages) /\ turn \in [Asks -> Turn]
    /\ stamp \in [Comments -> Asks \cup {Unstamped}]
    /\ shown \subseteq ToSet(thread)
    /\ \A i, j \in DOMAIN thread : thread[i] = thread[j] => i = j
    /\ ~open => thread = <<>> /\ \A a \in Asks : turn[a].pc # "inserted"
    /\ \A a \in Asks :
          /\ Written(a) <=> open /\ turn[a].pc \in {"inserted", "saved"}
          /\ a \in shown <=> open /\ turn[a].pc = "saved"
          /\ open /\ turn[a].pc \in {"asked", "inserted", "saved"} => Knows(a)
          /\ open /\ turn[a].pc \in {"inserted", "saved"} => \A c \in turn[a].bundle : Before(c, a)
          /\ open /\ turn[a].pc = "saved" => \A c \in turn[a].bundle : stamp[c] # Unstamped
    /\ StampIsAnswer

(* The order of a thread whose messages differ                               *)
LEMMA ThreadOrder ==
    ASSUME thread \in Seq(Messages), \A i, j \in DOMAIN thread : thread[i] = thread[j] => i = j
    PROVE  /\ \A m, n : Before(m, n) => Written(m) /\ Written(n)
           /\ \A m, n : Written(m) /\ Written(n) /\ m # n => Before(m, n) \/ Before(n, m)
<1>1. DOMAIN thread = 1..Len(thread) /\ Len(thread) \in Nat
    OBVIOUS
<1>2. \A m : Written(m) <=> \E i \in DOMAIN thread : thread[i] = m
    BY DEF Written, ToSet
<1> QED
    BY <1>1, <1>2 DEF Before

(* A message is put at the end of a thread                                   *)
LEMMA ThreadGrows ==
    ASSUME NEW m \in Messages, thread \in Seq(Messages), ~Written(m), thread' = Append(thread, m),
           \A i, j \in DOMAIN thread : thread[i] = thread[j] => i = j
    PROVE  /\ thread' \in Seq(Messages)
           /\ \A i, j \in DOMAIN thread' : thread'[i] = thread'[j] => i = j
           /\ \A n : Written(n)' <=> Written(n) \/ n = m
           /\ \A n, o : Before(n, o) => Before(n, o)'
           /\ \A n : Written(n) => Before(n, m)'
           /\ ToSet(thread') = ToSet(thread) \cup {m}
<1> DEFINE l == Len(thread)
<1>1. /\ l \in Nat /\ DOMAIN thread = 1..l /\ DOMAIN thread' = 1..(l + 1)
      /\ \A i \in 1..l : thread'[i] = thread[i]
      /\ thread'[l + 1] = m /\ thread' \in Seq(Messages)
    OBVIOUS
<1> HIDE DEF l
<1>2. \A i \in 1..(l + 1) : i \in 1..l \/ i = l + 1
    BY <1>1
<1>3. 1..l \subseteq 1..(l + 1) /\ l + 1 \in 1..(l + 1) /\ \A i \in 1..l : i < l + 1
    BY <1>1
<1>4. \A n : Written(n) <=> \E i \in 1..l : thread[i] = n
    BY <1>1 DEF Written, ToSet
<1>5. \A n : Written(n)' <=> \E i \in 1..(l + 1) : thread'[i] = n
    BY <1>1 DEF Written, ToSet
<1>6. \A n : Written(n)' <=> Written(n) \/ n = m
    BY <1>1, <1>2, <1>3, <1>4, <1>5
<1>7. \A i, j \in 1..(l + 1) : thread'[i] = thread'[j] => i = j
    BY <1>1, <1>2, <1>4
<1>8. ASSUME NEW n, NEW o, Before(n, o) PROVE Before(n, o)'
    BY <1>1, <1>3, <1>8 DEF Before
<1>9. ASSUME NEW n, Written(n) PROVE Before(n, m)'
    BY <1>1, <1>3, <1>4, <1>9 DEF Before
<1>10. ToSet(thread') = ToSet(thread) \cup {m}
    BY <1>6 DEF Written
<1> QED
    BY <1>1, <1>6, <1>7, <1>8, <1>9, <1>10

(* What the reads of a turn rest on: a comment that is there is pending,     *)
(* taken in, or passed over for a reason                                     *)
LEMMA Accounted ==
    ASSUME ThreadInv, open
    PROVE  /\ \A c \in Comments \cap shown :
                c \in PendingComments \/ stamp[c] # Unstamped \/ Excused(c)
           /\ \A b \in Asks \cap shown : turn[b].bundle \cap PendingComments = {}
           /\ PendingComments \subseteq shown
<1>1. \A b \in Asks \cap shown : turn[b].pc = "saved" /\ Knows(b)
    BY DEF ThreadInv
<1>2. ASSUME NEW c \in Comments \cap shown, c \notin PendingComments, stamp[c] = Unstamped
      PROVE  Excused(c)
  <2>1. PICK a \in Asks \cap shown : ~Before(a, c)
    BY <1>2 DEF PendingComments
  <2>2. Before(c, a)
    <3>1. Written(a) /\ Written(c) /\ a # c
        BY StampAssumption DEF ThreadInv, Written
    <3> QED
        BY <2>1, <3>1, ThreadOrder DEF ThreadInv
  <2>3. c \notin turn[a].bundle
    BY <1>1, <1>2 DEF ThreadInv
  <2>4. turn[a].kind \in StampsNothing \/ c \notin turn[a].known \/ Excused(c)
    BY <1>1, <1>2, <2>3 DEF Knows
  <2> QED
    BY <2>2, <2>4 DEF Excused, Answers
<1>3. \A b \in Asks \cap shown : turn[b].bundle \cap PendingComments = {}
    BY <1>1 DEF ThreadInv, PendingComments
<1> QED
    BY <1>2, <1>3 DEF PendingComments

(* What a turn read stays true while threads, stamps and answers grow        *)
LEMMA KnowsKept ==
    ASSUME NEW a \in Asks, Knows(a), shown \subseteq shown', shown \subseteq Messages,
           \A b \in Asks : b = a \/ b \in shown =>
                turn'[b].bundle = turn[b].bundle /\ turn'[b].known = turn[b].known
                /\ turn'[b].kind = turn[b].kind,
           \A c, b : Before(c, b) => Before(c, b)',
           \A c \in Comments : stamp[c] # Unstamped => stamp'[c] # Unstamped
    PROVE  Knows(a)'
<1>1. \A c : Excused(c) => Excused(c)'
    BY DEF Excused, Answers
<1> QED
    BY <1>1 DEF Knows

(* A step of one turn before its answer is inserted                          *)
LEMMA TurnMoves ==
    ASSUME ThreadInv, NEW a \in Asks, NEW r \in Turn, turn' = [turn EXCEPT ![a] = r],
           UNCHANGED storedVars, turn[a].pc \in {"new", "previewed", "asked"},
           r.pc \in {"previewed", "failed"}
           \/ (/\ r.pc = "asked" /\ r.bundle \subseteq shown /\ r.known \subseteq shown
               /\ open /\ r.kind \notin StampsNothing =>
                    \A c \in Comments \cap r.known :
                        c \in r.bundle \/ stamp[c] # Unstamped \/ Excused(c)
               /\ open => \A b \in Asks \cap r.known : turn[b].bundle \cap r.bundle = {})
    PROVE  ThreadInv'
<1>1. /\ turn' \in [Asks -> Turn] /\ turn'[a] = r
      /\ \A b \in Asks : b # a => turn'[b] = turn[b]
    BY DEF ThreadInv
<1>2. a \notin shown /\ ~Written(a)
    BY DEF ThreadInv
<1>3. \A b \in Asks \cap shown : turn'[b] = turn[b]
    BY <1>1, <1>2
<1>4. (\A m, n : Before(m, n)' <=> Before(m, n)) /\ (\A m : Written(m)' <=> Written(m))
    BY DEF storedVars, Before, Written
<1>5. \A c : Excused(c)' <=> Excused(c)
    BY <1>3, <1>4 DEF Excused, Answers, storedVars
<1>6. StampIsAnswer'
    BY <1>3, <1>4 DEF ThreadInv, StampIsAnswer, Answers, storedVars
<1>7. ASSUME NEW b \in Asks, open, turn'[b].pc \in {"asked", "inserted", "saved"} PROVE Knows(b)'
  <2>1. CASE b = a
    <3>1. r.pc = "asked"
        BY <1>1, <1>7, <2>1
    <3>2. \A d \in Asks \cap r.known : turn'[d].bundle \cap r.bundle = {}
        BY <1>3, <1>7, <3>1
    <3> QED
        BY <1>1, <1>5, <1>7, <2>1, <3>1, <3>2 DEF Knows, storedVars
  <2>2. CASE b # a
    <3>1. turn'[b] = turn[b] /\ Knows(b)
        BY <1>1, <1>7, <2>2 DEF ThreadInv
    <3>2. \A d \in Asks : d = b \/ d \in shown => turn'[d] = turn[d]
        BY <1>3, <3>1
    <3>3. shown \subseteq Messages /\ shown' = shown /\ stamp' = stamp
        BY DEF ThreadInv, ToSet, storedVars
    <3> QED
        BY <1>4, <3>1, <3>2, <3>3, KnowsKept
  <2> QED
    BY <2>1, <2>2
<1>8. ASSUME NEW b \in Asks
      PROVE  /\ Written(b)' <=> open /\ turn'[b].pc \in {"inserted", "saved"}
             /\ b \in shown <=> open /\ turn'[b].pc = "saved"
             /\ open /\ turn'[b].pc \in {"inserted", "saved"} => \A c \in turn'[b].bundle : Before(c, b)'
             /\ open /\ turn'[b].pc = "saved" => \A c \in turn'[b].bundle : stamp[c] # Unstamped
             /\ ~open => turn'[b].pc # "inserted"
  <2>1. CASE b = a
    BY <1>1, <1>2, <1>4, <2>1
  <2>2. CASE b # a
    BY <1>1, <1>4, <2>2 DEF ThreadInv
  <2> QED
    BY <2>1, <2>2
<1> QED
    BY <1>1, <1>6, <1>7, <1>8 DEF ThreadInv, storedVars

LEMMA ThreadStarts == ThreadInit => ThreadInv
<1> SUFFICES ASSUME ThreadInit PROVE ThreadInv
    OBVIOUS
<1>1. thread = <<>> /\ ToSet(thread) = {} /\ DOMAIN thread = {}
    BY DEF ThreadInit, ToSet
<1>2. NoTurn \in Turn /\ NoTurn.pc = "new"
    BY DEF NoTurn, Turn
<1> QED
    BY <1>1, <1>2 DEF ThreadInit, ThreadInv, StampIsAnswer, Written

LEMMA ThreadStep == ASSUME ThreadInv, [ThreadNext]_vVars PROVE ThreadInv'
<1>0. shown \subseteq Messages /\ shown \subseteq ToSet(thread) /\ Comments \subseteq Messages
      /\ Asks \subseteq Messages /\ thread \in Seq(Messages)
    BY DEF ThreadInv, ToSet, Messages
<1>1. CASE UNCHANGED vVars
  <2>1. (\A m, n : Before(m, n)' <=> Before(m, n)) /\ (\A m : Written(m)' <=> Written(m))
    BY <1>1 DEF vVars, Before, Written
  <2>2. \A a \in Asks : Knows(a) => Knows(a)'
    BY <1>0, <1>1, <2>1, KnowsKept DEF vVars
  <2>3. StampIsAnswer'
    BY <1>1, <2>1 DEF ThreadInv, StampIsAnswer, Answers, vVars
  <2> QED
    BY <1>1, <2>1, <2>2, <2>3 DEF ThreadInv, vVars
<1>2. CASE ConversationDeleted
  <2>1. /\ ToSet(thread') = {} /\ DOMAIN thread' = {} /\ thread' \in Seq(Messages) /\ thread' = <<>>
        /\ open' = FALSE /\ shown' = {} /\ stamp' = [c \in Comments |-> Unstamped] /\ turn' = turn
    BY <1>2 DEF ConversationDeleted, ToSet
  <2>2. \A a \in Asks : turn[a].pc # "inserted"
    BY <1>2 DEF ConversationDeleted, ThreadInv, Written
  <2>3. StampIsAnswer'
    BY <2>1 DEF StampIsAnswer
  <2> QED
    BY <2>1, <2>2, <2>3 DEF ThreadInv, Written
<1>3. ASSUME NEW c \in Comments, PostComment(c) PROVE ThreadInv'
  <2>1. /\ thread' \in Seq(Messages)
        /\ \A i, j \in DOMAIN thread' : thread'[i] = thread'[j] => i = j
        /\ \A n : Written(n)' <=> Written(n) \/ n = c
        /\ \A n, o : Before(n, o) => Before(n, o)'
        /\ ToSet(thread') = ToSet(thread) \cup {c}
    BY <1>0, <1>3, ThreadGrows DEF PostComment, ThreadInv
  <2>2. open /\ open' = open /\ shown' = shown /\ stamp' = stamp /\ turn' = turn
    BY <1>3 DEF PostComment
  <2>3. \A a \in Asks : Knows(a) => Knows(a)'
    BY <1>0, <2>1, <2>2, KnowsKept
  <2>4. StampIsAnswer'
    BY <2>1, <2>2 DEF ThreadInv, StampIsAnswer, Answers
  <2>5. \A a \in Asks : a # c
    BY StampAssumption
  <2> QED
    BY <1>0, <2>1, <2>2, <2>3, <2>4, <2>5 DEF ThreadInv
<1>4. ASSUME NEW c \in Comments, CommentCommits(c) PROVE ThreadInv'
  <2>1. /\ open' = open /\ thread' = thread /\ stamp' = stamp /\ turn' = turn
        /\ shown' = shown \cup {c} /\ c \in ToSet(thread)
    BY <1>4 DEF CommentCommits, Written
  <2>2. (\A m, n : Before(m, n)' <=> Before(m, n)) /\ (\A m : Written(m)' <=> Written(m))
    BY <2>1 DEF Before, Written
  <2>3. \A a \in Asks : Knows(a) => Knows(a)'
    BY <1>0, <2>1, <2>2, KnowsKept
  <2>4. StampIsAnswer'
    BY <2>1, <2>2 DEF ThreadInv, StampIsAnswer, Answers
  <2>5. \A a \in Asks : a # c
    BY StampAssumption
  <2> QED
    BY <1>0, <2>1, <2>2, <2>3, <2>4, <2>5 DEF ThreadInv
<1>5. ASSUME NEW a \in Asks, StreamStarts(a) \/ StreamStartsBare(a) \/ PromptPreviewed(a)
                                \/ AskWithBundle(a) \/ DailyRunStarts(a)
      PROVE  ThreadInv'
  <2>1. open /\ UNCHANGED storedVars /\ turn[a].pc \in {"new", "previewed"} /\ turn[a] \in Turn
    BY <1>5 DEF StreamStarts, StreamStartsBare, PromptPreviewed, AskWithBundle, DailyRunStarts, NoTurn, ThreadInv
  <2>2. PendingComments \in SUBSET Comments /\ shown \in SUBSET Messages
        /\ Comments \cap shown \in SUBSET Comments
    BY <1>0 DEF PendingComments
  <2>3. CASE StreamStarts(a)
    <3> DEFINE r == [pc |-> "asked", kind |-> "stream", prompt |-> PendingComments,
                     bundle |-> PendingComments, known |-> shown]
    <3>1. turn' = [turn EXCEPT ![a] = r]
        BY <2>3 DEF StreamStarts
    <3>2. r \in Turn /\ r.pc = "asked" /\ r.bundle = PendingComments /\ r.known = shown
        BY <2>2 DEF Turn
    <3> HIDE DEF r
    <3> QED
        BY <2>1, <3>1, <3>2, Accounted, TurnMoves
  <2>4. CASE PromptPreviewed(a)
    <3> DEFINE r == [pc |-> "previewed", kind |-> "bundle", prompt |-> PendingComments,
                     bundle |-> {}, known |-> {}]
    <3>1. turn' = [turn EXCEPT ![a] = r]
        BY <2>4 DEF PromptPreviewed
    <3>2. r \in Turn /\ r.pc = "previewed"
        BY <2>2 DEF Turn
    <3> HIDE DEF r
    <3> QED
        BY <2>1, <3>1, <3>2, TurnMoves
  <2>5. CASE AskWithBundle(a)
    <3> DEFINE r == [turn[a] EXCEPT !.pc = "asked", !.bundle = PendingComments, !.known = shown]
    <3>1. turn' = [turn EXCEPT ![a] = r]
        BY <2>5 DEF AskWithBundle, ThreadInv
    <3>2. r \in Turn /\ r.pc = "asked" /\ r.bundle = PendingComments /\ r.known = shown
        BY <2>1, <2>2 DEF Turn
    <3> HIDE DEF r
    <3> QED
        BY <2>1, <3>1, <3>2, Accounted, TurnMoves
  <2>6. CASE DailyRunStarts(a)
    <3> DEFINE r == [pc |-> "asked", kind |-> "daily", prompt |-> Comments \cap shown,
                     bundle |-> {}, known |-> shown]
    <3>1. turn' = [turn EXCEPT ![a] = r]
        BY <2>6 DEF DailyRunStarts
    <3>2. r \in Turn /\ r.pc = "asked" /\ r.bundle = {} /\ r.known = shown /\ r.kind \in StampsNothing
        BY <2>2 DEF Turn, StampsNothing
    <3> HIDE DEF r
    <3> QED
        BY <2>1, <3>1, <3>2, TurnMoves
  <2>7. CASE StreamStartsBare(a)
    <3> DEFINE r == [pc |-> "asked", kind |-> "bare", prompt |-> {}, bundle |-> {}, known |-> shown]
    <3>1. turn' = [turn EXCEPT ![a] = r]
        BY <2>7 DEF StreamStartsBare
    <3>2. r \in Turn /\ r.pc = "asked" /\ r.bundle = {} /\ r.known = shown /\ r.kind \in StampsNothing
        BY <2>2 DEF Turn, StampsNothing
    <3> HIDE DEF r
    <3> QED
        BY <2>1, <3>1, <3>2, TurnMoves
  <2> QED
    BY <1>5, <2>3, <2>4, <2>5, <2>6, <2>7
<1>6. ASSUME NEW a \in Asks, TurnEndsEarly(a) PROVE ThreadInv'
  <2> DEFINE r == [turn[a] EXCEPT !.pc = "failed"]
  <2>1. turn' = [turn EXCEPT ![a] = r] /\ UNCHANGED storedVars /\ turn[a] \in Turn
        /\ turn[a].pc \in {"previewed", "asked"}
    BY <1>6 DEF TurnEndsEarly, ThreadInv
  <2>2. r \in Turn /\ r.pc = "failed"
    BY <2>1 DEF Turn
  <2> HIDE DEF r
  <2> QED
    BY <2>1, <2>2, TurnMoves
<1>7. ASSUME NEW a \in Asks, TurnInserted(a), ~open PROVE ThreadInv'
  <2> DEFINE r == [turn[a] EXCEPT !.pc = "failed"]
  <2>1. turn' = [turn EXCEPT ![a] = r] /\ UNCHANGED storedVars /\ turn[a] \in Turn
        /\ turn[a].pc = "asked"
    BY <1>7 DEF TurnInserted, ThreadInv, storedVars
  <2>2. r \in Turn /\ r.pc = "failed"
    BY <2>1 DEF Turn
  <2> HIDE DEF r
  <2> QED
    BY <2>1, <2>2, TurnMoves
<1>8. ASSUME NEW a \in Asks, TurnInserted(a), open PROVE ThreadInv'
  <2> DEFINE r == [turn[a] EXCEPT !.pc = "inserted"]
  <2>1. turn' = [turn EXCEPT ![a] = r] /\ turn[a] \in Turn /\ turn[a].pc = "asked"
        /\ thread' = Append(thread, a) /\ open' = open /\ shown' = shown /\ stamp' = stamp
    BY <1>8 DEF TurnInserted, ThreadInv
  <2>2. r \in Turn /\ r.pc = "inserted" /\ r.bundle = turn[a].bundle /\ r.known = turn[a].known
        /\ r.kind = turn[a].kind
    BY <2>1 DEF Turn
  <2> HIDE DEF r
  <2>3. turn' \in [Asks -> Turn] /\ turn'[a] = r /\ \A b \in Asks : b # a => turn'[b] = turn[b]
    BY <2>1, <2>2 DEF ThreadInv
  <2>4. ~Written(a) /\ a \notin shown /\ Knows(a)
    BY <1>8, <2>1 DEF ThreadInv
  <2>5. /\ thread' \in Seq(Messages)
        /\ \A i, j \in DOMAIN thread' : thread'[i] = thread'[j] => i = j
        /\ \A n : Written(n)' <=> Written(n) \/ n = a
        /\ \A n, o : Before(n, o) => Before(n, o)'
        /\ \A n : Written(n) => Before(n, a)'
        /\ ToSet(thread') = ToSet(thread) \cup {a}
    BY <1>0, <2>1, <2>4, ThreadGrows DEF ThreadInv
  <2>6. ASSUME NEW b \in Asks, Knows(b) PROVE Knows(b)'
    <3>1. \A d \in Asks : turn'[d].bundle = turn[d].bundle /\ turn'[d].known = turn[d].known
                          /\ turn'[d].kind = turn[d].kind
        BY <2>2, <2>3
    <3> QED
        BY <1>0, <2>1, <2>5, <2>6, <3>1, KnowsKept
  <2>7. StampIsAnswer'
    <3>1. \A d \in Answers : turn'[d] = turn[d]
        BY <2>3, <2>4 DEF Answers
    <3> QED
        BY <2>1, <2>5, <3>1 DEF ThreadInv, StampIsAnswer, Answers
  <2>8. ASSUME NEW b \in Asks
        PROVE  /\ Written(b)' <=> turn'[b].pc \in {"inserted", "saved"}
               /\ b \in shown <=> turn'[b].pc = "saved"
               /\ turn'[b].pc \in {"asked", "inserted", "saved"} => Knows(b)'
               /\ turn'[b].pc \in {"inserted", "saved"} => \A c \in turn'[b].bundle : Before(c, b)'
               /\ turn'[b].pc = "saved" => \A c \in turn'[b].bundle : stamp[c] # Unstamped
    <3>1. CASE b = a
      <4>1. \A c \in turn[a].bundle : Written(c)
        BY <1>0, <2>4 DEF Knows, Written
      <4> QED
        BY <2>2, <2>3, <2>4, <2>5, <2>6, <3>1, <4>1
    <3>2. CASE b # a
        BY <1>8, <2>3, <2>5, <2>6, <3>2 DEF ThreadInv
    <3> QED
        BY <3>1, <3>2
  <2> QED
    BY <1>0, <1>8, <2>1, <2>3, <2>5, <2>7, <2>8 DEF ThreadInv
<1>9. ASSUME NEW a \in Asks, TurnCommits(a) PROVE ThreadInv'
  <2> DEFINE r == [turn[a] EXCEPT !.pc = "saved"]
  <2>1. /\ turn' = [turn EXCEPT ![a] = r] /\ turn[a] \in Turn /\ turn[a].pc = "inserted"
        /\ thread' = thread /\ open' = open /\ shown' = shown \cup {a} /\ open
        /\ stamp' = [c \in Comments |-> IF c \in turn[a].bundle THEN a ELSE stamp[c]]
    BY <1>9 DEF TurnCommits, ThreadInv
  <2>2. r \in Turn /\ r.pc = "saved" /\ r.bundle = turn[a].bundle /\ r.known = turn[a].known
        /\ r.kind = turn[a].kind
    BY <2>1 DEF Turn
  <2> HIDE DEF r
  <2>3. turn' \in [Asks -> Turn] /\ turn'[a] = r /\ \A b \in Asks : b # a => turn'[b] = turn[b]
    BY <2>1, <2>2 DEF ThreadInv
  <2>4. \A b \in Asks : turn'[b].bundle = turn[b].bundle /\ turn'[b].known = turn[b].known
                        /\ turn'[b].kind = turn[b].kind
    BY <2>2, <2>3
  <2>5. Written(a) /\ a \in ToSet(thread) /\ \A c \in turn[a].bundle : Before(c, a)
    BY <2>1 DEF ThreadInv, Written
  <2>6. (\A m, n : Before(m, n)' <=> Before(m, n)) /\ (\A m : Written(m)' <=> Written(m))
    BY <2>1 DEF Before, Written
  <2>7. /\ stamp' \in [Comments -> Asks \cup {Unstamped}]
        /\ \A c \in Comments : stamp[c] # Unstamped \/ c \in turn[a].bundle => stamp'[c] # Unstamped
    BY <2>1, StampAssumption DEF ThreadInv
  <2>8. ASSUME NEW b \in Asks, Knows(b) PROVE Knows(b)'
    <3>1. shown \subseteq shown'
        BY <2>1
    <3> QED
        BY <1>0, <2>4, <2>6, <2>7, <2>8, <3>1, KnowsKept
  <2>9. StampIsAnswer'
    <3>1. ASSUME NEW c \in Comments, stamp'[c] # Unstamped
          PROVE  stamp'[c] \in Answers' /\ Before(c, stamp'[c]) /\ c \in turn[stamp'[c]].bundle
      <4>1. CASE c \in turn[a].bundle
        BY <2>1, <2>5, <4>1 DEF Answers
      <4>2. CASE c \notin turn[a].bundle
        BY <2>1, <3>1, <4>2 DEF ThreadInv, StampIsAnswer, Answers
      <4> QED
        BY <4>1, <4>2
    <3>2. \A c, b : Before(c, b) <=> \E i, j \in DOMAIN thread' : i < j /\ thread'[i] = c /\ thread'[j] = b
        BY <2>1 DEF Before
    <3> QED
        BY <2>4, <3>1, <3>2 DEF StampIsAnswer, Before, Answers
  <2>10. ASSUME NEW b \in Asks
        PROVE  /\ Written(b)' <=> turn'[b].pc \in {"inserted", "saved"}
               /\ b \in shown' <=> turn'[b].pc = "saved"
               /\ turn'[b].pc \in {"asked", "inserted", "saved"} => Knows(b)'
               /\ turn'[b].pc \in {"inserted", "saved"} => \A c \in turn'[b].bundle : Before(c, b)'
               /\ turn'[b].pc = "saved" => \A c \in turn'[b].bundle : stamp'[c] # Unstamped
    <3>0. turn[b].bundle \subseteq Comments
        BY DEF ThreadInv, Turn
    <3>1. CASE b = a
      <4>1. Knows(a)
        BY <2>1 DEF ThreadInv
      <4> QED
        BY <2>1, <2>2, <2>3, <2>5, <2>6, <2>7, <2>8, <3>0, <3>1, <4>1
    <3>2. CASE b # a
        BY <2>1, <2>3, <2>6, <2>7, <2>8, <3>0, <3>2 DEF ThreadInv
    <3> QED
        BY <3>1, <3>2
  <2> QED
    BY <1>0, <2>1, <2>3, <2>5, <2>7, <2>9, <2>10 DEF ThreadInv
<1> QED
    BY <1>1, <1>2, <1>3, <1>4, <1>5, <1>6, <1>7, <1>8, <1>9 DEF ThreadNext

(* A comment of the team ends in at most the answers asked for beside each   *)
(* other, and is left out of all of them only when it was posted while one   *)
(* was being made, or an answer that stamps nothing came after it: an agent's *)
(* daily one, or that of a question asked without the discussion.            *)
THEOREM CommentsKept == ThreadSpec => []ThreadHolds
<1>1. ThreadInv => ThreadHolds
  <2> SUFFICES ASSUME ThreadInv PROVE ThreadHolds
    OBVIOUS
  <2>1. CASE ~open
    BY <2>1 DEF ThreadInv, ThreadHolds, PassedOnlyWhileAsked, PassedOver, TakenAgainOnlyByOverlap, Answers, ToSet
  <2>2. CASE open
    <3>1. PassedOnlyWhileAsked
        BY <2>2, Accounted DEF PassedOnlyWhileAsked, PassedOver, Excused
    <3>2. TakenAgainOnlyByOverlap
        BY <2>2 DEF TakenAgainOnlyByOverlap, ThreadInv, Knows, Answers
    <3> QED
        BY <3>1, <3>2 DEF ThreadInv, ThreadHolds
  <2> QED
    BY <2>1, <2>2 DEF ThreadInv
<1> QED
    BY <1>1, ThreadStarts, ThreadStep, PTL DEF ThreadSpec

(* The thread, its comments and the questions in flight are well formed: a   *)
(* message is written once, and shown only where it is written               *)
(* (Conversations!ThreadTypeOK).                                             *)
THEOREM ThreadTypes == ThreadSpec => []ThreadTypeOK
<1>1. ThreadInv => ThreadTypeOK
    BY DEF ThreadInv, ThreadTypeOK, ToSet, Turn
<1> QED
    BY <1>1, ThreadStarts, ThreadStep, PTL DEF ThreadSpec

(***************************************************************************)
(* The chats of a page. Numbers, and what deletions under way would leave.  *)
(***************************************************************************)

(* A bounded set of numbers has a greatest one                               *)
LEMMA Greatest ==
    ASSUME NEW S \in SUBSET Nat, S # {}, NEW b \in Nat, \A x \in S : x <= b
    PROVE  Max(S) \in S /\ \A x \in S : x <= Max(S)
<1> DEFINE T == {n \in Nat : \A x \in S : x <= n}
<1>1. T \in SUBSET Nat /\ T # {}
    OBVIOUS
<1>2. PICK n \in T : \A m \in T : ~(m < n)
  <2>1. IsWellFoundedOn(OpToRel(<, Nat), Nat)
    BY NatLessThanWellFounded
  <2>2. PICK n \in T : \A m \in T : ~(<<m, n>> \in OpToRel(<, Nat))
    BY <1>1, <2>1, WFMin
  <2> QED
    BY <1>1, <2>2 DEF OpToRel
<1>3. n \in S
  <2>1. CASE n = 0
    <3>1. PICK x \in S : TRUE
        OBVIOUS
    <3> QED
        BY <2>1, <3>1
  <2>2. CASE n # 0 /\ n \notin S
    <3>1. n - 1 \in Nat /\ \A x \in S : x <= n - 1
        BY <2>2
    <3> QED
        BY <1>2, <3>1
  <2> QED
    BY <2>1, <2>2
<1>4. \E x \in S : \A y \in S : x >= y
    BY <1>3
<1> QED
    BY <1>4 DEF Max

Request == [pc : {"new", "looked", "numbered", "deleting", "done"},
            op : {"none", "create", "default", "delete", "archive"},
            position : Nat, target : SUBSET Visitors, saw : SUBSET Visitors]

Chat == [by : Visitors, position : Nat, archived : BOOLEAN, title : Nat]

(* The requests that made a chat, and those that were given a number         *)
Made == {v \in Visitors : visit[v].op \in {"create", "default"} /\ visit[v].pc = "done"}
Numbered(v) == visit[v].op \in {"create", "default"} /\ visit[v].pc \in {"numbered", "done"}

RequestsShape ==
    /\ visit \in [Visitors -> Request]
    /\ \A v \in Visitors :
          /\ visit[v].saw \subseteq Made /\ visit[v].target \subseteq Made
          /\ visit[v].pc = "looked" => visit[v].op = "default"
          /\ visit[v].pc = "numbered" => visit[v].op \in {"create", "default"}
          /\ visit[v].pc = "deleting" => visit[v].op = "delete"
          /\ visit[v].op \in {"none", "default"} => visit[v].saw = {}
          /\ visit[v].op = "delete" => \E u \in Made : visit[v].target = {u}
          /\ Numbered(v) => visit[v].position <= Cardinality(Made)
          /\ ~Numbered(v) => visit[v].position = 0

ChatsShape ==
    /\ \A r \in chats :
          /\ r.by \in Made /\ r.archived \in BOOLEAN
          /\ r.position \in Nat /\ r.position < Cardinality(Made)
          /\ r.title = IF visit[r.by].op = "default" THEN 1 ELSE r.position + 1
          /\ r.position = visit[r.by].position
          /\ r \in Chat
    /\ \A r, s \in chats : r.by = s.by => r = s
    /\ \A v \in Visitors, r \in chats :
          visit[v].op = "create" /\ r.by \in visit[v].saw => r.position < visit[v].position

(* The deletions made, and what a set D of those under way would leave       *)
Deleters == {v \in Visitors : Did(v, "delete")}
Race(S) == \E v, w \in S :
    /\ visit[v].target # visit[w].target
    /\ visit[v].target \subseteq visit[w].saw /\ visit[w].target \subseteq visit[v].saw
Chosen(D) == \A v \in D : visit[v].pc = "deleting" /\ visit[v].target \subseteq Inserters(chats)
Left(D) == {r \in chats : \A v \in D : r.by \notin visit[v].target}

(* Without a race a chat is left, one that each deletion under way has seen  *)
Endures ==
    \A D \in SUBSET Visitors :
        Chosen(D) /\ ~Race(Deleters \cup D) /\ Deleters \cup D # {} =>
            Left(D) # {} /\ \A v \in D : visit[v].saw \cap Inserters(Left(D)) # {}

OnlyDeletes ==
    (\A v \in Visitors : ~Did(v, "archive")) =>
        /\ \A r \in chats : ~r.archived
        /\ \A v \in Visitors :
              visit[v].pc = "deleting" /\ ~(visit[v].target \subseteq Inserters(chats)) => Deleters # {}
        /\ Endures

ChatsInv == RequestsShape /\ ChatsShape /\ OnlyDeletes

LEMMA MadeCounted == IsFiniteSet(Made) /\ Cardinality(Made) \in Nat
                     /\ Cardinality(Made) <= Cardinality(Visitors)
<1>1. Made \in SUBSET Visitors
    BY DEF Made
<1> QED
    BY <1>1, VisitorsAssumption, FS_Subset, FS_CardinalityType

(* The number that a page's next chat is given                               *)
LEMMA NextNumber ==
    ASSUME ChatsShape
    PROVE  MaxPosition + 1 \in Nat /\ MaxPosition + 1 <= Cardinality(Made)
           /\ \A r \in chats : r.position < MaxPosition + 1
<1> DEFINE S == {r.position : r \in chats}
<1>1. CASE chats = {}
    BY <1>1, MadeCounted DEF MaxPosition
<1>2. CASE chats # {}
  <2>1. S \in SUBSET Nat /\ S # {} /\ \A x \in S : x < Cardinality(Made)
    BY <1>2 DEF ChatsShape
  <2>2. \A x \in S : x <= Cardinality(Made)
    BY <2>1, MadeCounted
  <2>3. MaxPosition = Max(S)
    BY <1>2 DEF MaxPosition
  <2>4. \A r \in chats : r.position \in S
    OBVIOUS
  <2> HIDE DEF S
  <2>5. Max(S) \in S /\ \A x \in S : x <= Max(S)
    BY <2>1, <2>2, MadeCounted, Greatest
  <2>6. Max(S) \in Nat /\ Max(S) < Cardinality(Made)
    BY <2>1, <2>5
  <2>7. \A r \in chats : r.position <= Max(S) /\ r.position \in Nat
    BY <2>1, <2>4, <2>5
  <2> QED
    BY <2>3, <2>6, <2>7, MadeCounted
<1> QED
    BY <1>1, <1>2

(* A request moves on without a chat being made                              *)
LEMMA RequestMoves ==
    ASSUME RequestsShape, ChatsShape, NEW v \in Visitors, NEW q \in Request,
           visit' = [visit EXCEPT ![v] = q], Made' = Made,
           q.saw \subseteq Made, q.target \subseteq Made,
           q.pc = "looked" => q.op = "default",
           q.pc = "numbered" => q.op \in {"create", "default"},
           q.pc = "deleting" => q.op = "delete",
           q.op \in {"none", "default"} => q.saw = {},
           q.op = "delete" => \E u \in Made : q.target = {u},
           q.op \in {"create", "default"} /\ q.pc \in {"numbered", "done"} => q.position <= Cardinality(Made),
           ~(q.op \in {"create", "default"} /\ q.pc \in {"numbered", "done"}) => q.position = 0
    PROVE  RequestsShape'
<1>1. /\ visit' \in [Visitors -> Request] /\ visit'[v] = q
      /\ \A w \in Visitors : w # v => visit'[w] = visit[w]
    BY DEF RequestsShape
<1>2. \A w \in Visitors : Numbered(w)' <=> visit'[w].op \in {"create", "default"}
                                              /\ visit'[w].pc \in {"numbered", "done"}
    BY DEF Numbered
<1>3. ASSUME NEW w \in Visitors
      PROVE  /\ visit'[w].saw \subseteq Made /\ visit'[w].target \subseteq Made
             /\ visit'[w].pc = "looked" => visit'[w].op = "default"
             /\ visit'[w].pc = "numbered" => visit'[w].op \in {"create", "default"}
             /\ visit'[w].pc = "deleting" => visit'[w].op = "delete"
             /\ visit'[w].op \in {"none", "default"} => visit'[w].saw = {}
             /\ visit'[w].op = "delete" => \E u \in Made : visit'[w].target = {u}
             /\ Numbered(w)' => visit'[w].position <= Cardinality(Made)
             /\ ~Numbered(w)' => visit'[w].position = 0
  <2>1. CASE w = v
    BY <1>1, <1>2, <2>1
  <2>2. CASE w # v
    BY <1>1, <2>2 DEF RequestsShape, Numbered
  <2> QED
    BY <2>1, <2>2
<1> QED
    BY <1>1, <1>3 DEF RequestsShape

(* The chats stay as they are while a request moves on                       *)
LEMMA ChatsStay ==
    ASSUME ChatsShape, chats' \subseteq chats, Made' = Made,
           \A u \in Made : visit'[u] = visit[u],
           \A w \in Visitors, r \in chats :
                visit'[w].op = "create" /\ r.by \in visit'[w].saw => r.position < visit'[w].position
    PROVE  ChatsShape'
BY DEF ChatsShape

LEMMA ShapeStep == ASSUME RequestsShape, ChatsShape, [ChatsNext]_mVars
                   PROVE  RequestsShape' /\ ChatsShape'
<1>0. /\ NotVisited \in Request /\ NotVisited.pc = "new" /\ NotVisited.op = "none"
      /\ NotVisited.position = 0 /\ NotVisited.target = {} /\ NotVisited.saw = {}
    BY DEF NotVisited, Request
<1>1. CASE UNCHANGED mVars
  <2>1. Made' = Made
    BY <1>1 DEF Made, mVars
  <2> QED
    BY <1>1, <2>1 DEF RequestsShape, ChatsShape, Numbered, mVars
<1>2. ASSUME NEW v \in Visitors, NewChat(v) PROVE RequestsShape' /\ ChatsShape'
  <2> DEFINE q == [NotVisited EXCEPT !.pc = "numbered", !.op = "create",
                      !.position = MaxPosition + 1, !.saw = Inserters(chats)]
  <2>1. visit[v] = NotVisited /\ visit' = [visit EXCEPT ![v] = q] /\ chats' = chats
    BY <1>2 DEF NewChat
  <2>2. MaxPosition + 1 \in Nat /\ Inserters(chats) \subseteq Made /\ Made \subseteq Visitors
    BY NextNumber DEF ChatsShape, Inserters, Made
  <2>3. /\ q \in Request /\ q.pc = "numbered" /\ q.op = "create" /\ q.position = MaxPosition + 1
        /\ q.saw = Inserters(chats) /\ q.target = {}
    BY <1>0, <2>2 DEF Request
  <2> HIDE DEF q
  <2>4. visit'[v] = q /\ \A w \in Visitors : w # v => visit'[w] = visit[w]
    BY <2>1 DEF RequestsShape
  <2>5. Made' = Made /\ v \notin Made
    BY <1>0, <2>1, <2>3, <2>4 DEF Made
  <2>6. RequestsShape'
    BY <2>1, <2>2, <2>3, <2>5, NextNumber, RequestMoves
  <2>7. \A w \in Visitors, r \in chats :
            visit'[w].op = "create" /\ r.by \in visit'[w].saw => r.position < visit'[w].position
    BY <2>3, <2>4, NextNumber DEF ChatsShape
  <2>8. \A u \in Made : visit'[u] = visit[u]
    BY <2>4, <2>5 DEF Made
  <2> QED
    BY <2>1, <2>5, <2>6, <2>7, <2>8, ChatsStay
<1>3. ASSUME NEW v \in Visitors, DefaultLooks(v) PROVE RequestsShape' /\ ChatsShape'
  <2> DEFINE q == [NotVisited EXCEPT !.pc = "looked", !.op = "default"]
  <2>1. visit[v] = NotVisited /\ visit' = [visit EXCEPT ![v] = q] /\ chats' = chats
    BY <1>3 DEF DefaultLooks
  <2>3. /\ q \in Request /\ q.pc = "looked" /\ q.op = "default" /\ q.position = 0
        /\ q.saw = {} /\ q.target = {}
    BY <1>0 DEF Request
  <2> HIDE DEF q
  <2>4. visit'[v] = q /\ \A w \in Visitors : w # v => visit'[w] = visit[w]
    BY <2>1 DEF RequestsShape
  <2>5. Made' = Made /\ v \notin Made
    BY <1>0, <2>1, <2>3, <2>4 DEF Made
  <2>6. RequestsShape'
    BY <2>1, <2>3, <2>5, RequestMoves
  <2>7. \A w \in Visitors, r \in chats :
            visit'[w].op = "create" /\ r.by \in visit'[w].saw => r.position < visit'[w].position
    BY <2>3, <2>4 DEF ChatsShape
  <2>8. \A u \in Made : visit'[u] = visit[u]
    BY <2>4, <2>5 DEF Made
  <2> QED
    BY <2>1, <2>5, <2>6, <2>7, <2>8, ChatsStay
<1>4. ASSUME NEW v \in Visitors, DefaultNumbered(v) PROVE RequestsShape' /\ ChatsShape'
  <2> DEFINE q == [visit[v] EXCEPT !.pc = "numbered", !.position = MaxPosition + 1]
  <2>1. visit[v] \in Request /\ visit' = [visit EXCEPT ![v] = q] /\ chats' = chats
        /\ visit[v].pc = "looked" /\ visit[v].op = "default" /\ visit[v].saw = {}
        /\ visit[v].target \subseteq Made
    BY <1>4 DEF DefaultNumbered, RequestsShape
  <2>2. MaxPosition + 1 \in Nat
    BY NextNumber
  <2>3. /\ q \in Request /\ q.pc = "numbered" /\ q.op = "default" /\ q.position = MaxPosition + 1
        /\ q.saw = {} /\ q.target \subseteq Made
    BY <2>1, <2>2 DEF Request
  <2> HIDE DEF q
  <2>4. visit'[v] = q /\ \A w \in Visitors : w # v => visit'[w] = visit[w]
    BY <2>1 DEF RequestsShape
  <2>5. Made' = Made /\ v \notin Made
    BY <2>1, <2>3, <2>4 DEF Made
  <2>6. RequestsShape'
    BY <2>1, <2>2, <2>3, <2>5, NextNumber, RequestMoves
  <2>7. \A w \in Visitors, r \in chats :
            visit'[w].op = "create" /\ r.by \in visit'[w].saw => r.position < visit'[w].position
    BY <2>3, <2>4 DEF ChatsShape
  <2>8. \A u \in Made : visit'[u] = visit[u]
    BY <2>4, <2>5 DEF Made
  <2> QED
    BY <2>1, <2>5, <2>6, <2>7, <2>8, ChatsStay
<1>5. ASSUME NEW v \in Visitors, ChatInserted(v) PROVE RequestsShape' /\ ChatsShape'
  <2> DEFINE q == [visit[v] EXCEPT !.pc = "done"]
             t == [by |-> v, position |-> visit[v].position, archived |-> FALSE,
                   title |-> IF visit[v].op = "default" THEN 1 ELSE visit[v].position + 1]
             M == Made \cup {v}
  <2>1. visit[v] \in Request /\ visit' = [visit EXCEPT ![v] = q] /\ chats' = chats \cup {t}
        /\ visit[v].pc = "numbered" /\ visit[v].op \in {"create", "default"} /\ Numbered(v)
    BY <1>5 DEF ChatInserted, RequestsShape, Numbered
  <2>2. /\ q \in Request /\ q.pc = "done" /\ q.op = visit[v].op /\ q.position = visit[v].position
        /\ q.saw = visit[v].saw /\ q.target = visit[v].target
    BY <2>1 DEF Request
  <2>3. visit[v].position \in Nat /\ visit[v].position <= Cardinality(Made)
    BY <2>1 DEF RequestsShape, Request
  <2>4. /\ t.by = v /\ t.position = visit[v].position /\ t.archived = FALSE
        /\ t.title = (IF visit[v].op = "default" THEN 1 ELSE t.position + 1)
        /\ t \in Chat
    BY <2>3 DEF Chat
  <2> HIDE DEF q, t
  <2>5. visit' \in [Visitors -> Request] /\ visit'[v] = q
        /\ \A w \in Visitors : w # v => visit'[w] = visit[w]
    BY <2>1, <2>2 DEF RequestsShape
  <2>6. Made' = M /\ v \notin Made
    BY <2>1, <2>2, <2>5 DEF Made
  <2>7. Cardinality(M) = Cardinality(Made) + 1 /\ Cardinality(Made) \in Nat
    BY <2>6, MadeCounted, FS_AddElement
  <2>8. Made \subseteq M /\ v \in M
    OBVIOUS
  <2> HIDE DEF M
  <2>9. ASSUME NEW w \in Visitors
        PROVE  /\ visit'[w].saw = visit[w].saw /\ visit'[w].target = visit[w].target
               /\ visit'[w].op = visit[w].op /\ visit'[w].position = visit[w].position
               /\ visit'[w].pc = visit[w].pc \/ (w = v /\ visit'[w].pc = "done")
               /\ Numbered(w)' <=> Numbered(w)
               /\ visit'[w].position \in Nat
    <3>1. CASE w = v
        BY <2>1, <2>2, <2>3, <2>5, <3>1 DEF Numbered
    <3>2. CASE w # v
        BY <2>5, <3>2 DEF Numbered, RequestsShape, Request
    <3> QED
        BY <3>1, <3>2
  <2>10. RequestsShape'
    <3>1. ASSUME NEW w \in Visitors
          PROVE  /\ visit'[w].saw \subseteq M /\ visit'[w].target \subseteq M
                 /\ visit'[w].pc = "looked" => visit'[w].op = "default"
                 /\ visit'[w].pc = "numbered" => visit'[w].op \in {"create", "default"}
                 /\ visit'[w].pc = "deleting" => visit'[w].op = "delete"
                 /\ visit'[w].op \in {"none", "default"} => visit'[w].saw = {}
                 /\ visit'[w].op = "delete" => \E u \in M : visit'[w].target = {u}
                 /\ ~Numbered(w)' => visit'[w].position = 0
        BY <2>8, <2>9 DEF RequestsShape
    <3>2. ASSUME NEW w \in Visitors, Numbered(w)'
          PROVE  visit'[w].position <= Cardinality(M)
      <4>1. visit'[w].position <= Cardinality(Made) /\ visit'[w].position \in Nat
        BY <2>9, <3>2 DEF RequestsShape
      <4> QED
        BY <2>7, <4>1
    <3> QED
        BY <2>5, <2>6, <3>1, <3>2 DEF RequestsShape
  <2>11. ASSUME NEW r \in chats'
         PROVE  /\ r.by \in M /\ r.archived \in BOOLEAN
                /\ r.position \in Nat /\ r.position < Cardinality(M)
                /\ r.title = IF visit'[r.by].op = "default" THEN 1 ELSE r.position + 1
                /\ r.position = visit'[r.by].position
                /\ r \in Chat
    <3>1. CASE r = t
      <4>1. r.position \in Nat /\ r.position < Cardinality(M)
        BY <2>3, <2>4, <2>7, <3>1
      <4>2. /\ visit'[r.by].op = visit[v].op /\ r.by \in M /\ r.archived \in BOOLEAN
            /\ r.position = visit'[r.by].position
        BY <2>2, <2>4, <2>5, <2>8, <3>1
      <4>3. r.title = (IF visit[v].op = "default" THEN 1 ELSE r.position + 1)
            /\ r \in Chat
        BY <2>4, <3>1
      <4> QED
        BY <4>1, <4>2, <4>3
    <3>2. CASE r \in chats
      <4>1. r.by \in Made /\ r.position \in Nat /\ r.position < Cardinality(Made) /\ r.by \in Visitors
        BY <3>2 DEF ChatsShape, Made
      <4>2. r.position < Cardinality(M)
        BY <2>7, <4>1
      <4> QED
        BY <2>8, <2>9, <3>2, <4>1, <4>2 DEF ChatsShape
    <3> QED
        BY <2>1, <3>1, <3>2
  <2>12. \A r \in chats : r.by # v
    BY <2>6 DEF ChatsShape
  <2>13. \A r, s \in chats' : r.by = s.by => r = s
    BY <2>1, <2>4, <2>12 DEF ChatsShape
  <2>14. ASSUME NEW w \in Visitors, NEW r \in chats', visit'[w].op = "create", r.by \in visit'[w].saw
         PROVE  r.position < visit'[w].position
    <3>1. r.by \in visit[w].saw /\ r.by \in Made
        BY <2>9, <2>14 DEF RequestsShape
    <3>2. r \in chats
        BY <2>1, <2>4, <2>6, <3>1
    <3> QED
        BY <2>9, <2>14, <3>1, <3>2 DEF ChatsShape
  <2> QED
    BY <2>6, <2>10, <2>11, <2>13, <2>14 DEF ChatsShape
<1>6. ASSUME NEW v \in Visitors, DeleteLooks(v) PROVE RequestsShape' /\ ChatsShape'
  <2>0. PICK c \in chats :
            visit' = [visit EXCEPT ![v] = [NotVisited EXCEPT !.pc = "deleting", !.op = "delete",
                         !.target = {c.by}, !.saw = Inserters(Visible)]]
    BY <1>6 DEF DeleteLooks
  <2> DEFINE q == [NotVisited EXCEPT !.pc = "deleting", !.op = "delete",
                      !.target = {c.by}, !.saw = Inserters(Visible)]
  <2>1. visit[v] = NotVisited /\ visit' = [visit EXCEPT ![v] = q] /\ chats' = chats
    BY <1>6, <2>0 DEF DeleteLooks
  <2>2. Inserters(Visible) \subseteq Made /\ c.by \in Made /\ Made \subseteq Visitors
    BY DEF ChatsShape, Inserters, Visible, Made
  <2>3. /\ q \in Request /\ q.pc = "deleting" /\ q.op = "delete" /\ q.position = 0
        /\ q.saw = Inserters(Visible) /\ q.target = {c.by}
    BY <1>0, <2>2 DEF Request
  <2> HIDE DEF q
  <2>4. visit'[v] = q /\ \A w \in Visitors : w # v => visit'[w] = visit[w]
    BY <2>1 DEF RequestsShape
  <2>5. Made' = Made /\ v \notin Made
    BY <1>0, <2>1, <2>3, <2>4 DEF Made
  <2>6. RequestsShape'
    BY <2>1, <2>2, <2>3, <2>5, RequestMoves
  <2>7. \A w \in Visitors, r \in chats :
            visit'[w].op = "create" /\ r.by \in visit'[w].saw => r.position < visit'[w].position
    BY <2>3, <2>4 DEF ChatsShape
  <2>8. \A u \in Made : visit'[u] = visit[u]
    BY <2>4, <2>5 DEF Made
  <2> QED
    BY <2>1, <2>5, <2>6, <2>7, <2>8, ChatsStay
<1>7. ASSUME NEW v \in Visitors, ChatDeleted(v) PROVE RequestsShape' /\ ChatsShape'
  <2> DEFINE q == [visit[v] EXCEPT !.pc = "done"]
  <2>1. visit[v] \in Request /\ visit' = [visit EXCEPT ![v] = q] /\ chats' \subseteq chats
        /\ visit[v].pc = "deleting" /\ visit[v].op = "delete"
    BY <1>7 DEF ChatDeleted, RequestsShape
  <2>3. /\ q \in Request /\ q.pc = "done" /\ q.op = "delete" /\ q.position = visit[v].position
        /\ q.saw = visit[v].saw /\ q.target = visit[v].target
    BY <2>1 DEF Request
  <2> HIDE DEF q
  <2>4. visit'[v] = q /\ \A w \in Visitors : w # v => visit'[w] = visit[w]
    BY <2>1 DEF RequestsShape
  <2>5. Made' = Made /\ v \notin Made
    BY <2>1, <2>3, <2>4 DEF Made
  <2>9. /\ q.saw \subseteq Made /\ q.target \subseteq Made /\ q.position = 0
        /\ \E u \in Made : q.target = {u}
    BY <2>1, <2>3 DEF RequestsShape, Numbered
  <2>6. RequestsShape'
    BY <2>1, <2>3, <2>5, <2>9, RequestMoves
  <2>7. \A w \in Visitors, r \in chats :
            visit'[w].op = "create" /\ r.by \in visit'[w].saw => r.position < visit'[w].position
    BY <2>3, <2>4 DEF ChatsShape
  <2>8. \A u \in Made : visit'[u] = visit[u]
    BY <2>4, <2>5 DEF Made
  <2> QED
    BY <2>1, <2>5, <2>6, <2>7, <2>8, ChatsStay
<1>8. ASSUME NEW v \in Visitors, ChatArchived(v) PROVE RequestsShape' /\ ChatsShape'
  <2>0. PICK c \in chats :
            /\ chats' = (chats \ {c}) \cup {[c EXCEPT !.archived = TRUE]}
            /\ visit' = [visit EXCEPT ![v] = [NotVisited EXCEPT !.pc = "done", !.op = "archive",
                            !.target = {c.by}]]
    BY <1>8 DEF ChatArchived
  <2> DEFINE q == [NotVisited EXCEPT !.pc = "done", !.op = "archive", !.target = {c.by}]
             d == [c EXCEPT !.archived = TRUE]
  <2>1. visit[v] = NotVisited /\ visit' = [visit EXCEPT ![v] = q] /\ chats' = (chats \ {c}) \cup {d}
    BY <1>8, <2>0 DEF ChatArchived
  <2>2. c.by \in Made /\ Made \subseteq Visitors
        /\ c \in Chat
    BY DEF ChatsShape, Made
  <2>3. /\ q \in Request /\ q.pc = "done" /\ q.op = "archive" /\ q.position = 0
        /\ q.saw = {} /\ q.target = {c.by}
    BY <1>0, <2>2 DEF Request
  <2>9. /\ d \in Chat
        /\ d.by = c.by /\ d.position = c.position /\ d.archived = TRUE /\ d.title = c.title
    BY <2>2 DEF Chat
  <2> HIDE DEF q, d
  <2>4. visit'[v] = q /\ \A w \in Visitors : w # v => visit'[w] = visit[w]
    BY <2>1 DEF RequestsShape
  <2>5. Made' = Made /\ v \notin Made
    BY <1>0, <2>1, <2>3, <2>4 DEF Made
  <2>6. RequestsShape'
    BY <2>1, <2>2, <2>3, <2>5, RequestMoves
  <2>7. ASSUME NEW r \in chats'
        PROVE  \E s \in chats :
            /\ r.by = s.by /\ r.position = s.position /\ r.title = s.title /\ r.archived \in BOOLEAN
            /\ r \in Chat
    <3>1. CASE r = d
        BY <2>9, <3>1
    <3>2. CASE r \in chats
        BY <3>2 DEF ChatsShape
    <3> QED
        BY <2>1, <3>1, <3>2
  <2>8. \A u \in Made : visit'[u] = visit[u]
    BY <2>4, <2>5 DEF Made
  <2>10. \A r, s \in chats' : r.by = s.by => r = s
    <3>1. \A r \in chats' : r = d \/ (r \in chats /\ r # c)
        BY <2>1
    <3>2. \A r \in chats : r # c => r.by # d.by
        BY <2>9 DEF ChatsShape
    <3> QED
        BY <3>1, <3>2 DEF ChatsShape
  <2>11. \A w \in Visitors, r \in chats' :
            visit'[w].op = "create" /\ r.by \in visit'[w].saw => r.position < visit'[w].position
    BY <2>3, <2>4, <2>7 DEF ChatsShape
  <2>12. ASSUME NEW r \in chats'
         PROVE  /\ r.by \in Made /\ r.position \in Nat /\ r.position < Cardinality(Made)
                /\ r.title = IF visit'[r.by].op = "default" THEN 1 ELSE r.position + 1
                /\ r.position = visit'[r.by].position
    BY <2>7, <2>8 DEF ChatsShape
  <2> QED
    BY <2>5, <2>6, <2>7, <2>10, <2>11, <2>12 DEF ChatsShape
<1> QED
    BY <1>1, <1>2, <1>3, <1>4, <1>5, <1>6, <1>7, <1>8 DEF ChatsNext

(* Steps that neither start nor end a deletion nor take a chat away          *)
LEMMA DeletionsStay ==
    ASSUME RequestsShape, RequestsShape', ChatsShape, OnlyDeletes, chats \subseteq chats',
           \A r \in chats' : r \in chats \/ (r.by \notin Made /\ ~r.archived),
           \A w \in Visitors : visit'[w] = visit[w] \/
                (visit'[w].op \in {"create", "default"} /\ visit[w].op \in {"none", "create", "default"})
    PROVE  OnlyDeletes'
<1> SUFFICES ASSUME \A v \in Visitors : ~Did(v, "archive")'
             PROVE  /\ \A r \in chats' : ~r.archived
                    /\ \A v \in Visitors :
                          visit'[v].pc = "deleting" /\ ~(visit'[v].target \subseteq Inserters(chats')) => Deleters' # {}
                    /\ Endures'
    BY DEF OnlyDeletes, Inserters
<1>1. ASSUME NEW v \in Visitors PROVE ~Did(v, "archive")
    BY DEF Did
<1>2. (\A r \in chats : ~r.archived) /\ Endures
      /\ \A v \in Visitors :
            visit[v].pc = "deleting" /\ ~(visit[v].target \subseteq Inserters(chats)) => Deleters # {}
    BY <1>1 DEF OnlyDeletes
<1>3. \A v \in Visitors : visit'[v].pc = "deleting" \/ visit'[v].op = "delete" \/ visit[v].op = "delete"
                             => visit'[v] = visit[v]
    BY DEF RequestsShape
<1>4. Deleters' = Deleters
    BY <1>3 DEF Deleters, Did
<1>5. \A v \in Visitors : visit[v].target \subseteq Inserters(chats') <=> visit[v].target \subseteq Inserters(chats)
    BY DEF RequestsShape, Inserters
<1>6. ASSUME NEW D \in SUBSET Visitors, Chosen(D)', ~Race(Deleters \cup D)', Deleters \cup D # {}
      PROVE  Left(D)' # {} /\ \A v \in D : visit'[v].saw \cap Inserters(Left(D))' # {}
  <2>1. \A v \in D : visit'[v] = visit[v] /\ visit[v].pc = "deleting"
    BY <1>3, <1>6 DEF Chosen
  <2>2. \A v \in Deleters : visit'[v] = visit[v]
    BY <1>3 DEF Deleters, Did
  <2>3. Chosen(D)
    BY <1>5, <1>6, <2>1 DEF Chosen, Inserters
  <2>4. ~Race(Deleters \cup D)
    BY <1>4, <1>6, <2>1, <2>2 DEF Race
  <2>5. Left(D) # {} /\ \A v \in D : visit[v].saw \cap Inserters(Left(D)) # {}
    BY <1>2, <1>6, <2>3, <2>4 DEF Endures
  <2>6. Left(D) \subseteq Left(D)'
    BY <2>1 DEF Left
  <2> QED
    BY <2>1, <2>5, <2>6 DEF Inserters
<1>7. Endures'
    BY <1>4, <1>6 DEF Endures
<1>8. \A r \in chats' : ~r.archived
    BY <1>2
<1>9. ASSUME NEW v \in Visitors, visit'[v].pc = "deleting", ~(visit'[v].target \subseteq Inserters(chats'))
      PROVE  Deleters' # {}
    BY <1>2, <1>3, <1>4, <1>5, <1>9
<1> QED
    BY <1>7, <1>8, <1>9

(* A deletion finds another chat there                                       *)
LEMMA DeletionStarts ==
    ASSUME RequestsShape, RequestsShape', ChatsShape, OnlyDeletes, NEW v \in Visitors, DeleteLooks(v)
    PROVE  OnlyDeletes'
<1> SUFFICES ASSUME \A w \in Visitors : ~Did(w, "archive")' PROVE OnlyDeletes'
    BY DEF OnlyDeletes
<1>1. PICK c \in chats :
        /\ Visible \ {c} # {}
        /\ visit' = [visit EXCEPT ![v] = [NotVisited EXCEPT !.pc = "deleting", !.op = "delete",
                         !.target = {c.by}, !.saw = Inserters(Visible)]]
    BY DEF DeleteLooks
<1>2. /\ visit[v] = NotVisited /\ visit[v].pc = "new" /\ chats' = chats
      /\ visit'[v].pc = "deleting" /\ visit'[v].op = "delete" /\ visit'[v].target = {c.by}
      /\ visit'[v].saw = Inserters(Visible)
      /\ \A w \in Visitors : w # v => visit'[w] = visit[w]
  <2> DEFINE q == [NotVisited EXCEPT !.pc = "deleting", !.op = "delete",
                      !.target = {c.by}, !.saw = Inserters(Visible)]
  <2>1. visit[v] = NotVisited /\ visit' = [visit EXCEPT ![v] = q] /\ chats' = chats
    BY <1>1 DEF DeleteLooks
  <2>2. NotVisited.pc = "new" /\ q.pc = "deleting" /\ q.op = "delete" /\ q.target = {c.by}
        /\ q.saw = Inserters(Visible)
    BY DEF NotVisited
  <2> HIDE DEF q
  <2> QED
    BY <2>1, <2>2 DEF RequestsShape
<1>3. \A w \in Visitors : ~Did(w, "archive")
    BY <1>2 DEF Did
<1>4. (\A r \in chats : ~r.archived) /\ Endures
      /\ \A w \in Visitors :
            visit[w].pc = "deleting" /\ ~(visit[w].target \subseteq Inserters(chats)) => Deleters # {}
    BY <1>3 DEF OnlyDeletes
<1>5. Deleters' = Deleters /\ v \notin Deleters
    BY <1>2 DEF Deleters, Did
<1>6. visit'[v].saw = Inserters(chats) /\ Visible = chats
    BY <1>2, <1>4 DEF Visible
<1>7. ASSUME NEW D \in SUBSET Visitors, Chosen(D)', ~Race(Deleters \cup D)', Deleters \cup D # {}
      PROVE  Left(D)' # {} /\ \A w \in D : visit'[w].saw \cap Inserters(Left(D))' # {}
  <2> DEFINE E == D \ {v}
             F == Deleters \cup E
  <2>1. F \subseteq Deleters \cup D /\ v \notin F /\ \A w \in F : visit'[w] = visit[w] /\ w \in Visitors
    BY <1>2, <1>5 DEF Deleters
  <2>2. Chosen(E)
    BY <1>2, <1>7 DEF Chosen
  <2>3. ~Race(F)
    <3> HIDE DEF F
    <3>1. \A w, u \in F : w \in Deleters \cup D /\ u \in Deleters \cup D
        BY <2>1
    <3> QED
        BY <1>5, <1>7, <2>1, <3>1 DEF Race
  <2>4. F # {} => Left(E) # {} /\ \A w \in E : visit[w].saw \cap Inserters(Left(E)) # {}
    BY <1>4, <2>2, <2>3 DEF Endures
  <2>5. CASE v \notin D
    <3>1. D = E /\ F # {}
        BY <1>7, <2>5
    <3>2. Left(D)' = Left(E)
        BY <1>2, <2>5 DEF Left
    <3>3. Inserters(Left(D))' = Inserters(Left(E))
        BY <3>2 DEF Inserters
    <3> QED
        BY <1>2, <2>1, <2>4, <3>1, <3>2, <3>3
  <2>6. CASE v \in D
    <3>1. Left(D)' = {r \in Left(E) : r.by # c.by}
        BY <1>2, <2>6 DEF Left
    <3>2. ASSUME NEW w \in E, c.by \in visit[w].saw, c \in Left(E) PROVE FALSE
      <4>1. visit[w].target \subseteq Inserters(chats) /\ visit'[w] = visit[w] /\ w \in D /\ w \in Visitors
        BY <2>1, <2>2 DEF Chosen
      <4>2. visit[w].target # {c.by}
        BY <3>2 DEF Left
      <4> QED
        BY <1>2, <1>6, <1>7, <2>6, <3>2, <4>1, <4>2 DEF Race
    <3>3. \A x \in Inserters(Left(E)) : x # c.by => x \in Inserters(Left(D))'
        BY <3>1 DEF Inserters
    <3>4. c.by \in Inserters(Left(E)) => c \in Left(E)
        BY DEF Inserters, Left, ChatsShape
    <3>5. \A w \in E : visit[w].saw \cap Inserters(Left(D))' # {}
        BY <2>4, <3>2, <3>3, <3>4
    <3>6. Left(D)' # {}
      <4>1. CASE E = {}
        <5>1. PICK d \in chats : d # c
            BY <1>1, <1>6
        <5>2. d \in Left(E) /\ d.by # c.by
            BY <4>1, <5>1 DEF Left, ChatsShape
        <5> QED
            BY <3>1, <5>2
      <4>2. CASE E # {}
        <5>1. PICK w \in E : TRUE
            BY <4>2
        <5> QED
            BY <3>5 DEF Inserters
      <4> QED
        BY <4>1, <4>2
    <3>7. visit'[v].saw \cap Inserters(Left(D))' # {}
      <4>1. PICK d \in Left(D)' : TRUE
        BY <3>6
      <4>2. d \in chats /\ d.by \in Inserters(Left(D))'
        BY <3>1, <4>1 DEF Left, Inserters
      <4> QED
        BY <1>6, <4>2 DEF Inserters
    <3> QED
        BY <2>1, <3>5, <3>6, <3>7
  <2> QED
    BY <2>5, <2>6
<1>8. Endures'
    BY <1>5, <1>7 DEF Endures
<1>9. ASSUME NEW w \in Visitors, visit'[w].pc = "deleting", ~(visit'[w].target \subseteq Inserters(chats))
      PROVE  Deleters' # {}
    BY <1>2, <1>4, <1>5, <1>9 DEF Inserters
<1> QED
    BY <1>2, <1>4, <1>8, <1>9 DEF OnlyDeletes, Inserters

(* A deletion takes its chat, or finds it gone                               *)
LEMMA DeletionEnds ==
    ASSUME RequestsShape, RequestsShape', ChatsShape, OnlyDeletes, NEW v \in Visitors, ChatDeleted(v)
    PROVE  OnlyDeletes'
<1> SUFFICES ASSUME \A w \in Visitors : ~Did(w, "archive")' PROVE OnlyDeletes'
    BY DEF OnlyDeletes
<1>1. /\ visit[v].pc = "deleting" /\ chats' = {r \in chats : r.by \notin visit[v].target}
      /\ visit' = [visit EXCEPT ![v].pc = "done"] /\ visit[v] \in Request /\ visit[v].op = "delete"
    BY DEF ChatDeleted, RequestsShape
<1>2. /\ visit'[v].pc = "done" /\ visit'[v].op = "delete" /\ visit'[v].target = visit[v].target
      /\ visit'[v].saw = visit[v].saw
      /\ \A w \in Visitors : w # v => visit'[w] = visit[w]
    BY <1>1 DEF Request, RequestsShape
<1>3. \A w \in Visitors : ~Did(w, "archive")
    BY <1>1, <1>2 DEF Did
<1>4. (\A r \in chats : ~r.archived) /\ Endures
      /\ \A w \in Visitors :
            visit[w].pc = "deleting" /\ ~(visit[w].target \subseteq Inserters(chats)) => Deleters # {}
    BY <1>3 DEF OnlyDeletes
<1>5. Deleters' = Deleters \cup {v}
    BY <1>1, <1>2 DEF Deleters, Did
<1>6. ASSUME NEW w \in Visitors PROVE visit'[w].target = visit[w].target /\ visit'[w].saw = visit[w].saw
    BY <1>2
<1>7. ASSUME NEW D \in SUBSET Visitors, Chosen(D)', ~Race(Deleters \cup D)', Deleters' \cup D # {}
      PROVE  Left(D)' # {} /\ \A w \in D : visit'[w].saw \cap Inserters(Left(D))' # {}
  <2>1. v \notin D /\ \A w \in D : visit'[w] = visit[w]
    BY <1>2, <1>7 DEF Chosen
  <2>2. Chosen(D)
    BY <1>1, <1>7, <2>1 DEF Chosen, Inserters
  <2>3. ~Race(Deleters \cup (D \cup {v}))
    <3>1. Deleters' \cup D = Deleters \cup (D \cup {v}) /\ Deleters' \cup D \subseteq Visitors
        BY <1>5 DEF Deleters
    <3> QED
        BY <1>6, <1>7, <3>1 DEF Race
  <2>4. CASE visit[v].target \subseteq Inserters(chats)
    <3> DEFINE E == D \cup {v}
    <3>1. Chosen(E) /\ E \in SUBSET Visitors /\ E # {}
        BY <1>1, <2>2, <2>4 DEF Chosen
    <3>2. Left(E) # {} /\ \A w \in E : visit[w].saw \cap Inserters(Left(E)) # {}
        BY <1>4, <2>3, <3>1 DEF Endures
    <3>3. Left(D)' = Left(E)
        BY <1>1, <2>1 DEF Left
    <3>4. Inserters(Left(D))' = Inserters(Left(E))
        BY <3>3 DEF Inserters
    <3> QED
        BY <1>6, <3>2, <3>3, <3>4
  <2>5. CASE ~(visit[v].target \subseteq Inserters(chats))
    <3>1. Deleters # {}
        BY <1>1, <1>4, <2>5
    <3>2. ~Race(Deleters \cup D)
        BY <2>3 DEF Race
    <3>3. Left(D) # {} /\ \A w \in D : visit[w].saw \cap Inserters(Left(D)) # {}
        BY <1>4, <2>2, <3>1, <3>2 DEF Endures
    <3>4. chats' = chats
      <4>1. \E u \in Made : visit[v].target = {u}
        BY <1>1 DEF RequestsShape
      <4> QED
        BY <1>1, <2>5, <4>1 DEF Inserters
    <3>5. Left(D)' = Left(D)
        BY <1>6, <3>4 DEF Left
    <3>6. Inserters(Left(D))' = Inserters(Left(D))
        BY <3>5 DEF Inserters
    <3> QED
        BY <1>6, <3>3, <3>5, <3>6
  <2> QED
    BY <2>4, <2>5
<1>8. Endures'
    BY <1>5, <1>7 DEF Endures
<1>9. (\A r \in chats' : ~r.archived) /\ Deleters' # {}
    BY <1>1, <1>4, <1>5
<1> QED
    BY <1>8, <1>9 DEF OnlyDeletes

LEMMA DeletionsStep == ASSUME ChatsInv, RequestsShape', [ChatsNext]_mVars PROVE OnlyDeletes'
<1>0. RequestsShape /\ ChatsShape /\ OnlyDeletes
    BY DEF ChatsInv
<1>1. CASE UNCHANGED mVars
    BY <1>0, <1>1, DeletionsStay DEF mVars
<1>2. ASSUME NEW v \in Visitors, NewChat(v) \/ DefaultLooks(v) \/ DefaultNumbered(v) PROVE OnlyDeletes'
  <2>1. chats' = chats /\ \A w \in Visitors : w # v => visit'[w] = visit[w]
    BY <1>0, <1>2 DEF NewChat, DefaultLooks, DefaultNumbered, RequestsShape
  <2>2. visit'[v].op \in {"create", "default"} /\ visit[v].op \in {"none", "default"}
    <3>1. CASE NewChat(v) \/ DefaultLooks(v)
      <4>1. visit[v] = NotVisited /\ NotVisited.op = "none"
        BY <3>1 DEF NewChat, DefaultLooks, NotVisited
      <4>2. CASE NewChat(v)
        <5> DEFINE q == [NotVisited EXCEPT !.pc = "numbered", !.op = "create",
                            !.position = MaxPosition + 1, !.saw = Inserters(chats)]
        <5>1. visit'[v] = q
            BY <1>0, <4>2 DEF NewChat, RequestsShape
        <5>2. q.op = "create"
            BY DEF NotVisited
        <5> QED
            BY <4>1, <5>1, <5>2
      <4>3. CASE DefaultLooks(v)
        <5> DEFINE q == [NotVisited EXCEPT !.pc = "looked", !.op = "default"]
        <5>1. visit'[v] = q
            BY <1>0, <4>3 DEF DefaultLooks, RequestsShape
        <5>2. q.op = "default"
            BY DEF NotVisited
        <5> QED
            BY <4>1, <5>1, <5>2
      <4> QED
        BY <3>1, <4>2, <4>3
    <3>2. CASE DefaultNumbered(v)
      <4>1. visit[v].op = "default" /\ visit[v] \in Request
        BY <1>0, <3>2 DEF DefaultNumbered, RequestsShape
      <4> QED
        BY <1>0, <3>2, <4>1 DEF DefaultNumbered, RequestsShape, Request
    <3> QED
        BY <1>2, <3>1, <3>2
  <2> QED
    BY <1>0, <2>1, <2>2, DeletionsStay
<1>3. ASSUME NEW v \in Visitors, ChatInserted(v) PROVE OnlyDeletes'
  <2>1. visit[v].op \in {"create", "default"} /\ visit[v] \in Request /\ v \notin Made
    <3>1. visit[v].pc = "numbered"
        BY <1>3 DEF ChatInserted
    <3>2. visit[v].op \in {"create", "default"} /\ visit[v] \in Request
        BY <1>0, <3>1 DEF RequestsShape
    <3> QED
        BY <3>1, <3>2 DEF Made
  <2>2. visit'[v].op = visit[v].op /\ \A w \in Visitors : w # v => visit'[w] = visit[w]
    BY <1>0, <1>3, <2>1 DEF ChatInserted, RequestsShape, Request
  <2>3. chats \subseteq chats' /\ \A r \in chats' : r \in chats \/ (r.by \notin Made /\ ~r.archived)
    BY <1>3, <2>1 DEF ChatInserted
  <2> QED
    BY <1>0, <2>1, <2>2, <2>3, DeletionsStay
<1>4. ASSUME NEW v \in Visitors, ChatArchived(v) PROVE OnlyDeletes'
  <2>1. Did(v, "archive")'
    BY <1>0, <1>4 DEF ChatArchived, Did, NotVisited, RequestsShape
  <2> QED
    BY <2>1 DEF OnlyDeletes
<1> QED
    BY <1>0, <1>1, <1>2, <1>3, <1>4, DeletionStarts, DeletionEnds DEF ChatsNext

LEMMA ChatsStart == ChatsInit => ChatsInv
<1> SUFFICES ASSUME ChatsInit PROVE ChatsInv
    OBVIOUS
<1>1. \A v \in Visitors : visit[v] = NotVisited
    BY DEF ChatsInit
<1>2. /\ NotVisited \in Request /\ NotVisited.pc = "new" /\ NotVisited.op = "none"
      /\ NotVisited.position = 0 /\ NotVisited.target = {} /\ NotVisited.saw = {}
    BY DEF NotVisited, Request
<1>3. Deleters = {} /\ chats = {}
    BY <1>1, <1>2 DEF Deleters, Did, ChatsInit
<1>4. RequestsShape /\ ChatsShape
    BY <1>1, <1>2, <1>3 DEF RequestsShape, ChatsShape, Numbered, ChatsInit
<1>5. Endures
    BY <1>1, <1>2, <1>3 DEF Endures, Chosen
<1> QED
    BY <1>1, <1>2, <1>3, <1>4, <1>5 DEF ChatsInv, OnlyDeletes

LEMMA ChatsStep == ASSUME ChatsInv, [ChatsNext]_mVars PROVE ChatsInv'
<1>1. RequestsShape' /\ ChatsShape'
    BY ShapeStep DEF ChatsInv
<1> QED
    BY <1>1, DeletionsStep DEF ChatsInv

(* A page loses its last chat to a deletion, and two of its chats get one    *)
(* title, only when two requests each acted on a list without the other.     *)
THEOREM ChatsRaceOnly == ChatsSpec => []ChatsHold
<1>1. ChatsInv => EmptiedOnlyByRace
  <2> SUFFICES ASSUME ChatsInv, chats = {}, Deleters # {}, \A v \in Visitors : ~Did(v, "archive"),
                      ~Race(Deleters)
               PROVE  FALSE
    BY DEF EmptiedOnlyByRace, Deleters, Race
  <2>1. Chosen({}) /\ Left({}) = {} /\ Deleters \cup {} = Deleters
    BY DEF Chosen, Left
  <2> QED
    BY <2>1 DEF ChatsInv, OnlyDeletes, Endures
<1>2. ChatsInv => SameTitleOnlyByRace
  <2> SUFFICES ASSUME ChatsInv, NEW r \in chats, NEW s \in chats, r.by \in visit[s.by].saw,
                      r.title = s.title
               PROVE  FALSE
    BY DEF SameTitleOnlyByRace, Visible
  <2>1. /\ s.by \in Visitors /\ visit[s.by].op = "create" /\ r.position < s.position
        /\ r.position \in Nat /\ s.position \in Nat
    <3>1. s.by \in Made /\ r.position \in Nat /\ s.position \in Nat /\ s.position = visit[s.by].position
        BY DEF ChatsInv, ChatsShape
    <3>2. s.by \in Visitors /\ visit[s.by].op = "create"
        BY <3>1 DEF Made, ChatsInv, RequestsShape
    <3> QED
        BY <3>1, <3>2 DEF ChatsInv, ChatsShape
  <2>2. r.title = 1 \/ r.title = r.position + 1
    BY DEF ChatsInv, ChatsShape
  <2>3. s.title = s.position + 1
    BY <2>1 DEF ChatsInv, ChatsShape
  <2> QED
    BY <2>1, <2>2, <2>3
<1> QED
    BY <1>1, <1>2, ChatsStart, ChatsStep, PTL DEF ChatsSpec, ChatsHold

(* The chats of a page and the visitors on it are well formed, whatever is   *)
(* created, opened and deleted together (ChatSessions!ChatsTypeOK).          *)
THEOREM ChatsTypes == ChatsSpec => []ChatsTypeOK
<1>1. ChatsInv => ChatsTypeOK
  <2> SUFFICES ASSUME ChatsInv PROVE ChatsTypeOK
    OBVIOUS
  <2> DEFINE n == Cardinality(Visitors)
  <2>1. Cardinality(Made) \in Nat /\ Cardinality(Made) <= n /\ n \in Nat /\ Made \subseteq Visitors
    BY MadeCounted, VisitorsAssumption, FS_CardinalityType DEF Made
  <2> HIDE DEF n
  <2>2. ASSUME NEW r \in chats
        PROVE  r.by \in Visitors /\ r.title \in 1..n /\ r.position \in 0..(n - 1) /\ r.archived \in BOOLEAN
    <3>1. r.position \in Nat /\ r.position < Cardinality(Made) /\ r.by \in Made /\ r.archived \in BOOLEAN
          /\ (r.title = 1 \/ r.title = r.position + 1)
        BY DEF ChatsInv, ChatsShape
    <3> QED
        BY <2>1, <3>1
  <2>3. ASSUME NEW v \in Visitors
        PROVE  visit[v].position \in 0..n
    <3>1. visit[v].position \in Nat /\ visit[v].position <= Cardinality(Made)
        BY <2>1 DEF ChatsInv, RequestsShape, Request
    <3> QED
        BY <2>1, <3>1
  <2>4. \A v \in Visitors : visit[v] \in
            [pc : {"new", "looked", "numbered", "deleting", "done"},
             op : {"none", "create", "default", "delete", "archive"},
             position : 0..n, target : SUBSET Visitors, saw : SUBSET Visitors]
    BY <2>3 DEF ChatsInv, RequestsShape, Request
  <2> QED
    BY <2>2, <2>4 DEF ChatsTypeOK, n, ChatsInv, RequestsShape
<1> QED
    BY <1>1, ChatsStart, ChatsStep, PTL DEF ChatsSpec

(***************************************************************************)
(* The shared page: one entry at a time decides, and what it decides on is  *)
(* the only canonical page, whatever is created and deleted beside it.      *)
(***************************************************************************)

HoldsLock == \A e \in Entrants : entry[e].pc = "ensure" => entering = {e}
NoOther == \A e \in Entrants : entry[e].pc = "ensure" =>
                \A q \in LiveRooms : room[q].canonical => q = entry[e].page
OneCanonical == \A p, q \in LiveRooms : room[p].canonical /\ room[q].canonical => p = q
Led == \A e \in Entrants : /\ entry[e].pc # "refused"
                           /\ entry[e].pc = "led" => room[entry[e].page].canonical
OwnRoom == \A e \in Entrants :
    /\ entry[e].pc = "new" => room[e] = NoRoom
    /\ entry[e].pc = "create" => room[e].row = "open" /\ ~room[e].canonical
    /\ entry[e].pc = "ensure" /\ entry[e].page # e => room[entry[e].page].row \in {"live", "deleted"}
    /\ entry[e].pc \in {"check", "delete"} => room[entry[e].page].row \in {"live", "deleted"}
RoomsInv == RoomsTypeOK /\ HoldsLock /\ NoOther /\ OneCanonical /\ Led /\ OwnRoom

Room == [row : {"none", "open", "live", "deleted"}, canonical : BOOLEAN, stamp : Nat]
Entry == [pc : {"new", "ensure", "create", "check", "delete", "led", "refused", "done"}, page : Rooms]

LEMMA RoomsStart == RoomsInit => RoomsInv
<1> SUFFICES ASSUME RoomsInit PROVE RoomsInv
  OBVIOUS
<1>1. \A e \in Entrants : entry[e] = NotCome
  BY DEF RoomsInit
<1>2. \A p \in Rooms : room[p] = NoRoom \/ (p = Legacy /\ room[p] = [NoRoom EXCEPT !.row = "live"])
  BY DEF RoomsInit
<1>3. /\ NoRoom \in Room /\ [NoRoom EXCEPT !.row = "live"] \in Room
      /\ ~NoRoom.canonical /\ ~[NoRoom EXCEPT !.row = "live"].canonical
      /\ NotCome \in Entry
  BY DEF NoRoom, Room, NotCome, Entry, Rooms
<1>4. room \in [Rooms -> Room] /\ \A p \in Rooms : ~room[p].canonical
  <2>1. \E g \in {[p \in Rooms |-> NoRoom],
                  [p \in Rooms |-> IF p = Legacy THEN [NoRoom EXCEPT !.row = "live"] ELSE NoRoom]} : room = g
    BY DEF RoomsInit
  <2> HIDE DEF NoRoom
  <2> QED
    BY <1>2, <1>3, <2>1
<1>5. RoomsTypeOK
  BY <1>3, <1>4 DEF RoomsInit, RoomsTypeOK, Room, Entry
<1>6. OwnRoom
  BY <1>1, <1>2, LegacyAssumption DEF OwnRoom, NotCome, Rooms
<1> QED
  BY <1>1, <1>4, <1>5, <1>6
     DEF RoomsInv, HoldsLock, NoOther, OneCanonical, Led, LiveRooms, NotCome

LEMMA StampIsNat == Stamp \in Nat
<1>1. IsFiniteSet(Rooms)
  BY FS_AddElement, LegacyAssumption DEF Rooms
<1>2. IsFiniteSet({p \in Rooms : room[p].stamp > 0})
  BY <1>1, FS_Subset
<1> QED
  BY <1>2, FS_CardinalityType DEF Stamp

(* A canonical page that is there is the default                             *)
LEMMA CanonicalFirst ==
    ASSUME RoomsTypeOK, OneCanonical, NEW c \in LiveRooms, room[c].canonical
    PROVE  Default = {c}
<1>1. c \in Default
  <2> SUFFICES ASSUME NEW q \in LiveRooms PROVE Precedes(c, q)
    BY DEF Default
  <2>1. CASE q = c
    <3>1. c \in Rooms /\ room[c].stamp \in Nat
      BY DEF RoomsTypeOK, LiveRooms
    <3>2. room[c].stamp <= room[c].stamp
      BY <3>1
    <3> QED
      BY <2>1, <3>2, Zenon DEF Precedes
  <2>2. CASE q # c
    BY <2>2 DEF Precedes, OneCanonical
  <2> QED
    BY <2>1, <2>2
<1>2. ASSUME NEW p \in Default PROVE p = c
  <2>1. p \in LiveRooms /\ Precedes(p, c)
    BY <1>2 DEF Default
  <2>2. room[p].canonical
    BY <2>1 DEF Precedes, RoomsTypeOK, LiveRooms
  <2> QED
    BY <2>1, <2>2 DEF OneCanonical
<1> QED
  BY <1>1, <1>2

(* A row is opened, and its request goes on to commit it                     *)
LEMMA OpenedTyped ==
    ASSUME RoomsInv, NEW e \in Entrants, NEW canonical \in BOOLEAN,
           entry[e] = NotCome, room' = Opened(e, canonical)
    PROVE  /\ room' \in [Rooms -> Room]
           /\ room'[e].row = "open" /\ room'[e].canonical = canonical
           /\ \A p \in Rooms : p # e => room'[p] = room[p]
           /\ room[e] = NoRoom
           /\ LiveRooms' = LiveRooms
<1>1. e \in Rooms /\ room \in [Rooms -> Room] /\ Stamp \in Nat
  BY StampIsNat DEF RoomsInv, RoomsTypeOK, Rooms, Room
<1>2. room[e] = NoRoom
  BY DEF RoomsInv, OwnRoom, NotCome
<1>3. [row |-> "open", canonical |-> canonical, stamp |-> Stamp] \in Room
  BY <1>1 DEF Room
<1>4. /\ room' \in [Rooms -> Room]
      /\ room'[e].row = "open" /\ room'[e].canonical = canonical
      /\ \A p \in Rooms : p # e => room'[p] = room[p]
  BY <1>1, <1>3 DEF Opened
<1>5. LiveRooms' = LiveRooms
  BY <1>2, <1>4 DEF LiveRooms, NoRoom
<1> QED
  BY <1>2, <1>4, <1>5

LEMMA RoomsStep == RoomsInv /\ [RoomsNext]_rVars => RoomsInv'
<1> SUFFICES ASSUME RoomsInv, [RoomsNext]_rVars PROVE RoomsInv'
  OBVIOUS
<1> USE DEF RoomsInv
<1>0. /\ room \in [Rooms -> Room] /\ entry \in [Entrants -> Entry]
      /\ kind \in {"crew", "space"} /\ entering \subseteq Entrants /\ Entrants \subseteq Rooms
  BY DEF RoomsTypeOK, Room, Entry, Rooms
<1>1. ASSUME NEW e \in Entrants, EnsureReads(e) PROVE RoomsInv'
  <2>1. /\ entry[e] = NotCome /\ entering = {} /\ entering' = {e} /\ kind' = kind
        /\ \A f \in Entrants : entry[f].pc # "ensure"
    BY <1>1 DEF EnsureReads, HoldsLock
  <2>2. CASE Default = {}
    <3>1. room' = Opened(e, TRUE) /\ entry' = [entry EXCEPT ![e] = [pc |-> "ensure", page |-> e]]
      BY <1>1, <2>2 DEF EnsureReads, Comes
    <3>2. /\ room' \in [Rooms -> Room]
          /\ room'[e].row = "open" /\ room'[e].canonical = TRUE
          /\ \A p \in Rooms : p # e => room'[p] = room[p]
          /\ room[e] = NoRoom
          /\ LiveRooms' = LiveRooms
      BY <2>1, <3>1, OpenedTyped
    <3>3. \A q \in LiveRooms : ~room[q].canonical
      BY <2>2, CanonicalFirst
    <3>4. e \notin LiveRooms
      BY <3>2 DEF LiveRooms, NoRoom
    <3>5. \A q \in LiveRooms : ~room'[q].canonical
      BY <3>2, <3>3, <3>4 DEF LiveRooms
    <3>6. /\ entry'[e].pc = "ensure" /\ entry'[e].page = e
          /\ entry' \in [Entrants -> Entry]
          /\ \A f \in Entrants : f # e => entry'[f] = entry[f]
      BY <1>0, <3>1 DEF Entry
    <3>7. RoomsTypeOK'
      BY <1>0, <2>1, <3>2, <3>6 DEF RoomsTypeOK, Room, Entry
    <3>8. HoldsLock' /\ NoOther' /\ OneCanonical'
      BY <2>1, <3>2, <3>5, <3>6 DEF HoldsLock, NoOther, OneCanonical
    <3>9. Led'
      BY <1>0, <3>2, <3>6 DEF Led, NoRoom, Entry
    <3>10. OwnRoom'
      BY <1>0, <2>1, <3>2, <3>6 DEF OwnRoom, NoRoom, Entry
    <3> QED
      BY <3>7, <3>8, <3>9, <3>10
  <2>3. CASE Default # {}
    <3>1. PICK p \in Default : entry' = [entry EXCEPT ![e] = [pc |-> "ensure", page |-> p]]
      BY <1>1, <2>3 DEF EnsureReads, Comes
    <3>2. room' = room /\ LiveRooms' = LiveRooms /\ p \in LiveRooms /\ p \in Rooms
      BY <1>1, <2>3 DEF EnsureReads, Default, LiveRooms
    <3>3. \A q \in LiveRooms : room[q].canonical => q = p
      BY <3>1, CanonicalFirst
    <3>4. /\ entry'[e].pc = "ensure" /\ entry'[e].page = p
          /\ entry' \in [Entrants -> Entry]
          /\ \A f \in Entrants : f # e => entry'[f] = entry[f]
      BY <1>0, <3>1, <3>2 DEF Entry
    <3>5. RoomsTypeOK'
      BY <1>0, <2>1, <3>2, <3>4 DEF RoomsTypeOK, Room, Entry
    <3>6. HoldsLock' /\ NoOther' /\ OneCanonical'
      BY <2>1, <3>2, <3>3, <3>4 DEF HoldsLock, NoOther, OneCanonical
    <3>7. Led' /\ OwnRoom'
      BY <3>2, <3>4 DEF Led, OwnRoom, LiveRooms
    <3> QED
      BY <3>5, <3>6, <3>7
  <2> QED
    BY <2>2, <2>3
<1>2. ASSUME NEW e \in Entrants, EnsureCommits(e) PROVE RoomsInv'
  <2> DEFINE p == entry[e].page
             now == IF room[p].row = "open" THEN "live" ELSE room[p].row
  <2>1. /\ entry[e].pc = "ensure" /\ entering = {e} /\ kind' = kind /\ entering' = {} /\ p \in Rooms
        /\ \A f \in Entrants : f # e => entry[f].pc # "ensure"
    BY <1>0, <1>2 DEF EnsureCommits, HoldsLock, Entry
  <2>2. ~Taken(p)
    BY <2>1 DEF Taken, NoOther
  <2>3. /\ room' = [room EXCEPT ![p].canonical = TRUE, ![p].row = now]
        /\ entry' = [entry EXCEPT ![e].pc = "led"]
    BY <1>2, <2>2 DEF EnsureCommits, Leaves
  <2>4. /\ now \in {"none", "live", "deleted"} /\ (now = "live" => room[p].row \in {"open", "live"})
        /\ (room[p].row \in {"live", "deleted"} => now = room[p].row)
    BY <1>0, <2>1 DEF Room
  <2> HIDE DEF p, now
  <2>5. /\ room' \in [Rooms -> Room] /\ room'[p].canonical /\ room'[p].row = now
        /\ \A q \in Rooms : q # p => room'[q] = room[q]
    BY <1>0, <2>1, <2>3, <2>4 DEF Room
  <2>6. /\ entry' \in [Entrants -> Entry]
        /\ entry'[e].pc = "led" /\ entry'[e].page = p
        /\ \A f \in Entrants : f # e => entry'[f] = entry[f]
    BY <1>0, <2>3 DEF Entry, p
  <2>7. RoomsTypeOK'
    BY <1>0, <2>1, <2>5, <2>6 DEF RoomsTypeOK, Room, Entry
  <2>8. HoldsLock' /\ NoOther'
    BY <2>1, <2>6 DEF HoldsLock, NoOther
  <2>9. OneCanonical'
    <3> SUFFICES ASSUME NEW q \in LiveRooms', room'[q].canonical PROVE q = p
      BY DEF OneCanonical
    <3>1. CASE q # p
      BY <2>1, <2>5, <3>1 DEF LiveRooms, NoOther, p
    <3> QED
      BY <3>1
  <2>10. Led'
    <3> SUFFICES ASSUME NEW f \in Entrants
                 PROVE  entry'[f].pc # "refused" /\ (entry'[f].pc = "led" => room'[entry'[f].page].canonical)
      BY DEF Led
    <3>1. CASE f = e
      BY <2>5, <2>6, <3>1
    <3>2. CASE f # e
      <4>1. entry'[f] = entry[f] /\ entry[f].page \in Rooms
        BY <1>0, <2>6, <3>2 DEF Entry
      <4> QED
        BY <2>5, <4>1 DEF Led
    <3> QED
      BY <3>1, <3>2
  <2>11. OwnRoom'
    <3> SUFFICES ASSUME NEW f \in Entrants
                 PROVE  /\ entry'[f].pc = "new" => room'[f] = NoRoom
                        /\ entry'[f].pc = "create" => room'[f].row = "open" /\ ~room'[f].canonical
                        /\ entry'[f].pc = "ensure" /\ entry'[f].page # f
                           => room'[entry'[f].page].row \in {"live", "deleted"}
                        /\ entry'[f].pc \in {"check", "delete"}
                           => room'[entry'[f].page].row \in {"live", "deleted"}
      BY DEF OwnRoom
    <3>1. CASE f = e
      BY <2>6, <3>1
    <3>2. CASE f # e
      <4>1. entry'[f] = entry[f] /\ entry[f].page \in Rooms /\ f \in Rooms
        BY <1>0, <2>6, <3>2 DEF Entry
      <4>2. p = e \/ room[p].row \in {"live", "deleted"}
        BY <2>1 DEF OwnRoom, p
      <4>3. ASSUME entry[f].pc \in {"new", "create"} PROVE room'[f] = room[f]
        BY <2>5, <3>2, <4>1, <4>2, <4>3 DEF OwnRoom, NoRoom
      <4>4. ASSUME room[entry[f].page].row \in {"live", "deleted"}
            PROVE  room'[entry[f].page].row \in {"live", "deleted"}
        BY <2>4, <2>5, <4>1, <4>4
      <4> QED
        BY <2>1, <3>2, <4>1, <4>3, <4>4 DEF OwnRoom
    <3> QED
      BY <3>1, <3>2
  <2> QED
    BY <2>7, <2>8, <2>9, <2>10, <2>11
<1>3. ASSUME NEW e \in Entrants, CreateOpens(e) PROVE RoomsInv'
  <2>1. /\ entry[e] = NotCome /\ entering' = entering /\ kind' = kind /\ room' = Opened(e, FALSE)
        /\ entry' = [entry EXCEPT ![e] = [pc |-> "create", page |-> e]]
    BY <1>3 DEF CreateOpens, Comes
  <2>2. /\ room' \in [Rooms -> Room]
        /\ room'[e].row = "open" /\ room'[e].canonical = FALSE
        /\ \A p \in Rooms : p # e => room'[p] = room[p]
        /\ room[e] = NoRoom
        /\ LiveRooms' = LiveRooms
    BY <2>1, OpenedTyped
  <2>3. /\ entry'[e].pc = "create" /\ entry'[e].page = e
        /\ entry' \in [Entrants -> Entry]
        /\ \A f \in Entrants : f # e => entry'[f] = entry[f]
    BY <1>0, <2>1 DEF Entry
  <2>4. RoomsTypeOK' /\ HoldsLock'
    BY <1>0, <2>1, <2>2, <2>3 DEF RoomsTypeOK, Room, Entry, HoldsLock
  <2>5. NoOther' /\ OneCanonical'
    BY <1>0, <2>2, <2>3 DEF NoOther, OneCanonical, LiveRooms
  <2>6. Led'
    BY <1>0, <2>2, <2>3 DEF Led, NoRoom, Entry
  <2>7. OwnRoom'
    BY <1>0, <2>2, <2>3 DEF OwnRoom, NoRoom, Entry
  <2> QED
    BY <2>4, <2>5, <2>6, <2>7
<1>4. ASSUME NEW e \in Entrants, CreateCommits(e) PROVE RoomsInv'
  <2>1. /\ entry[e].pc = "create" /\ entering' = entering /\ kind' = kind
        /\ room' = [room EXCEPT ![e].row = "live"]
        /\ entry' = [entry EXCEPT ![e].pc = "done"]
        /\ room[e].row = "open" /\ ~room[e].canonical
    BY <1>4 DEF CreateCommits, Leaves, OwnRoom
  <2>2. /\ room' \in [Rooms -> Room] /\ room'[e].row = "live" /\ ~room'[e].canonical
        /\ \A p \in Rooms : p # e => room'[p] = room[p]
    BY <1>0, <2>1 DEF Room
  <2>3. /\ entry' \in [Entrants -> Entry] /\ entry'[e].pc = "done"
        /\ entry'[e].page = entry[e].page
        /\ \A f \in Entrants : f # e => entry'[f] = entry[f]
    BY <1>0, <2>1 DEF Entry
  <2>4. RoomsTypeOK' /\ HoldsLock'
    BY <1>0, <2>1, <2>2, <2>3 DEF RoomsTypeOK, Room, Entry, HoldsLock
  <2>5. \A q \in LiveRooms' : room'[q].canonical => q \in LiveRooms /\ room[q].canonical
    BY <2>2 DEF LiveRooms
  <2>6. NoOther' /\ OneCanonical'
    BY <2>3, <2>5 DEF NoOther, OneCanonical
  <2>7. Led'
    BY <1>0, <2>1, <2>2, <2>3 DEF Led, Entry
  <2>8. OwnRoom'
    BY <1>0, <2>1, <2>2, <2>3 DEF OwnRoom, NoRoom, Entry
  <2> QED
    BY <2>4, <2>6, <2>7, <2>8
<1>5. ASSUME NEW e \in Entrants, DeleteCommits(e) PROVE RoomsInv'
  <2> DEFINE p == entry[e].page
  <2>1. /\ entry[e].pc = "delete" /\ entering' = entering /\ kind' = kind /\ p \in Rooms
        /\ room' = [room EXCEPT ![p].row = "deleted"]
        /\ entry' = [entry EXCEPT ![e].pc = "done"]
        /\ room[p].row \in {"live", "deleted"}
    BY <1>0, <1>5 DEF DeleteCommits, Leaves, OwnRoom, Entry
  <2> HIDE DEF p
  <2>2. /\ room' \in [Rooms -> Room] /\ room'[p].row = "deleted" /\ room'[p].canonical = room[p].canonical
        /\ \A q \in Rooms : q # p => room'[q] = room[q]
    BY <1>0, <2>1 DEF Room
  <2>3. /\ entry' \in [Entrants -> Entry] /\ entry'[e].pc = "done"
        /\ entry'[e].page = entry[e].page
        /\ \A f \in Entrants : f # e => entry'[f] = entry[f]
    BY <1>0, <2>1 DEF Entry
  <2>4. RoomsTypeOK' /\ HoldsLock'
    BY <1>0, <2>1, <2>2, <2>3 DEF RoomsTypeOK, Room, Entry, HoldsLock
  <2>5. \A q \in LiveRooms' : q \in LiveRooms /\ room'[q] = room[q]
    BY <2>2 DEF LiveRooms
  <2>6. NoOther' /\ OneCanonical'
    BY <2>3, <2>5 DEF NoOther, OneCanonical
  <2>7. OwnRoom'
    BY <1>0, <2>1, <2>2, <2>3 DEF OwnRoom, NoRoom, Entry
  <2>8. Led'
    BY <1>0, <2>1, <2>2, <2>3 DEF Led, Entry
  <2> QED
    BY <2>4, <2>6, <2>7, <2>8
<1>6. ASSUME NEW e \in Entrants, DeleteReads(e) \/ DeleteChecks(e) PROVE RoomsInv'
  <2>1. /\ room' = room /\ entering' = entering /\ kind' = kind /\ LiveRooms' = LiveRooms
    BY <1>6 DEF DeleteReads, DeleteChecks, LiveRooms
  <2>2. PICK at \in {"check", "delete", "done"}, p \in Rooms :
           /\ entry' = [entry EXCEPT ![e] = [pc |-> at, page |-> p]]
           /\ at \in {"check", "delete"} => room[p].row \in {"live", "deleted"}
    <3>1. CASE DeleteReads(e)
      <4>1. PICK p \in LiveRooms : Comes(e, IF kind = "crew" THEN "check" ELSE "delete", p)
        BY <3>1 DEF DeleteReads
      <4>2. p \in Rooms /\ room[p].row = "live"
        BY DEF LiveRooms
      <4> QED
        <5>1. PICK at \in {"check", "delete"} : Comes(e, at, p)
          BY <4>1
        <5> QED
          BY <4>2, <5>1 DEF Comes
    <3>2. CASE DeleteChecks(e)
      <4>1. entry[e].page \in Rooms /\ room[entry[e].page].row \in {"live", "deleted"}
        BY <1>0, <3>2 DEF DeleteChecks, OwnRoom, Entry
      <4> QED
        BY <1>0, <3>2, <4>1 DEF DeleteChecks, Comes, Leaves, Entry
    <3> QED
      BY <1>6, <3>1, <3>2
  <2>3. /\ entry' \in [Entrants -> Entry] /\ entry'[e].pc = at /\ entry'[e].page = p
        /\ \A f \in Entrants : f # e => entry'[f] = entry[f]
    BY <1>0, <2>2 DEF Entry
  <2>4. RoomsTypeOK' /\ HoldsLock' /\ OneCanonical'
    BY <1>0, <2>1, <2>3 DEF RoomsTypeOK, Room, Entry, HoldsLock, OneCanonical
  <2>5. NoOther' /\ Led'
    BY <2>1, <2>3 DEF NoOther, Led
  <2>6. OwnRoom'
    BY <2>1, <2>2, <2>3 DEF OwnRoom
  <2> QED
    BY <2>4, <2>5, <2>6
<1>7. CASE UNCHANGED rVars
  BY <1>7 DEF rVars, RoomsTypeOK, HoldsLock, NoOther, OneCanonical, Led, OwnRoom, LiveRooms
<1> QED
  BY <1>1, <1>2, <1>3, <1>4, <1>5, <1>6, <1>7 DEF RoomsNext

(* Members who enter at once are never refused, and those led to a page that *)
(* is still there are led to the same one (page_service.py:157): for any     *)
(* number of entries, creations and deletions in flight together.            *)
THEOREM AlwaysConverge == RoomsSpec => []MembersConverge
<1>1. RoomsInv => MembersConverge
  BY DEF RoomsInv, Led, OneCanonical, MembersConverge, Entered
<1> QED
  BY <1>1, RoomsStart, RoomsStep, PTL DEF RoomsSpec

(* A room, the lock on it and the requests that enter keep their types.      *)
THEOREM RoomsTypes == RoomsSpec => []RoomsTypeOK
<1>1. RoomsInv => RoomsTypeOK
    BY DEF RoomsInv
<1> QED
    BY <1>1, RoomsStart, RoomsStep, PTL DEF RoomsSpec

(***************************************************************************)
(* The workspace. In a step of it one component moves and the others stay:  *)
(* a behaviour of the workspace is one of each component.                   *)
(***************************************************************************)

LEMMA SessionsWithin == WorkspaceSpec => SessionsSpec
<1>1. WorkspaceInit => SessionsInit
    BY DEF WorkspaceInit
<1>2. [WorkspaceNext]_wVars => [SessionsNext]_sVars
    BY DEF WorkspaceNext, wVars
<1> QED
    BY <1>1, <1>2, PTL DEF WorkspaceSpec, SessionsSpec

LEMMA CredentialsWithin == WorkspaceSpec => CredentialsSpec
<1>1. WorkspaceInit => CredentialsInit
    BY DEF WorkspaceInit
<1>2. [WorkspaceNext]_wVars => [CredentialsNext]_cVars
    BY DEF WorkspaceNext, wVars
<1> QED
    BY <1>1, <1>2, PTL DEF WorkspaceSpec, CredentialsSpec

LEMMA TicketsWithin == WorkspaceSpec => TicketsSpec
<1>1. WorkspaceInit => TicketsInit
    BY DEF WorkspaceInit
<1>2. [WorkspaceNext]_wVars => [TicketsNext]_tVars
    BY DEF WorkspaceNext, wVars
<1> QED
    BY <1>1, <1>2, PTL DEF WorkspaceSpec, TicketsSpec

LEMMA ChangesWithin == WorkspaceSpec => ChangesSpec
<1>1. WorkspaceInit => ChangesInit
    BY DEF WorkspaceInit
<1>2. [WorkspaceNext]_wVars => [ChangesNext]_chVars
    BY DEF WorkspaceNext, wVars
<1> QED
    BY <1>1, <1>2, PTL DEF WorkspaceSpec, ChangesSpec

LEMMA GrantsWithin == WorkspaceSpec => GrantsSpec
<1>1. WorkspaceInit => GrantsInit
    BY DEF WorkspaceInit
<1>2. [WorkspaceNext]_wVars => [GrantsNext]_gVars
    BY DEF WorkspaceNext, wVars
<1> QED
    BY <1>1, <1>2, PTL DEF WorkspaceSpec, GrantsSpec

LEMMA GateWithin == WorkspaceSpec => GateSpec
<1>1. WorkspaceInit => GateInit
    BY DEF WorkspaceInit
<1>2. [WorkspaceNext]_wVars => [GateNext]_qVars
    BY DEF WorkspaceNext, wVars
<1> QED
    BY <1>1, <1>2, PTL DEF WorkspaceSpec, GateSpec

LEMMA SlotsWithin == WorkspaceSpec => SlotsSpec
<1>1. WorkspaceInit => SlotsInit
    BY DEF WorkspaceInit
<1>2. [WorkspaceNext]_wVars => [SlotsNext]_slotVars
    BY DEF WorkspaceNext, wVars
<1> QED
    BY <1>1, <1>2, PTL DEF WorkspaceSpec, SlotsSpec

LEMMA MeterWithin == WorkspaceSpec => MeterSpec
<1>1. WorkspaceInit => MeterInit
    BY DEF WorkspaceInit
<1>2. [WorkspaceNext]_wVars => [MeterNext]_meterVars
    BY DEF WorkspaceNext, wVars
<1> QED
    BY <1>1, <1>2, PTL DEF WorkspaceSpec, MeterSpec

LEMMA DataWithin == WorkspaceSpec => DataSpec
<1>1. WorkspaceInit => DataInit
    BY DEF WorkspaceInit
<1>2. [WorkspaceNext]_wVars => [DataNext]_dVars
    BY DEF WorkspaceNext, wVars
<1> QED
    BY <1>1, <1>2, PTL DEF WorkspaceSpec, DataSpec

LEMMA CataloguesWithin == WorkspaceSpec => CataloguesSpec
<1>1. WorkspaceInit => CataloguesInit
    BY DEF WorkspaceInit
<1>2. [WorkspaceNext]_wVars => [CataloguesNext]_kVars
    BY DEF WorkspaceNext, wVars
<1> QED
    BY <1>1, <1>2, PTL DEF WorkspaceSpec, CataloguesSpec

LEMMA ThreadWithin == WorkspaceSpec => ThreadSpec
<1>1. WorkspaceInit => ThreadInit
    BY DEF WorkspaceInit
<1>2. [WorkspaceNext]_wVars => [ThreadNext]_vVars
    BY DEF WorkspaceNext, wVars
<1> QED
    BY <1>1, <1>2, PTL DEF WorkspaceSpec, ThreadSpec

LEMMA ChatsWithin == WorkspaceSpec => ChatsSpec
<1>1. WorkspaceInit => ChatsInit
    BY DEF WorkspaceInit
<1>2. [WorkspaceNext]_wVars => [ChatsNext]_mVars
    BY DEF WorkspaceNext, wVars
<1> QED
    BY <1>1, <1>2, PTL DEF WorkspaceSpec, ChatsSpec

LEMMA RoomsWithin == WorkspaceSpec => RoomsSpec
<1>1. WorkspaceInit => RoomsInit
    BY DEF WorkspaceInit
<1>2. [WorkspaceNext]_wVars => [RoomsNext]_rVars
    BY DEF WorkspaceNext, wVars
<1> QED
    BY <1>1, <1>2, PTL DEF WorkspaceSpec, RoomsSpec

LEMMA PartsStay == WorkspaceSpec => [](part \in Parts)
<1>1. WorkspaceInit => part \in Parts
    BY DEF WorkspaceInit
<1>2. part \in Parts /\ [WorkspaceNext]_wVars => (part \in Parts)'
    BY DEF WorkspaceNext, wVars
<1> QED
    BY <1>1, <1>2, PTL DEF WorkspaceSpec

(* Whatever is in flight in a workspace, each component's state keeps its    *)
(* type and its bounds.                                                      *)
THEOREM WorkspaceTypes == WorkspaceSpec => []WorkspaceTypeOK
<1>1. WorkspaceSpec => /\ []SessionsTypeOK /\ []CredentialsTypeOK /\ []DataTypeOK /\ []CataloguesTypeOK
    BY SessionsWithin, CredentialsWithin, DataWithin, CataloguesWithin,
       SessionsTypes, CredentialsTypes, DataTypes, CataloguesTypes, PTL
<1>2. WorkspaceSpec => /\ []TicketsTypeOK /\ []ThreadTypeOK /\ []ChatsTypeOK /\ []RoomsTypeOK
    BY TicketsWithin, ThreadWithin, ChatsWithin, RoomsWithin,
       TicketsTypes, ThreadTypes, ChatsTypes, RoomsTypes, PTL
<1>3. WorkspaceSpec => /\ []ChangesTypeOK /\ []GrantsTypeOK /\ []GateTypeOK /\ []PlanTypeOK
    BY ChangesWithin, GrantsWithin, GateWithin, SlotsWithin, MeterWithin,
       ChangesTypes, GrantsTypes, GateTypes, PlanTypes, PTL
<1> QED
    BY <1>1, <1>2, <1>3, PartsStay, PTL DEF WorkspaceTypeOK

(* The timeline of a ticket goes with its status, the comments of a thread   *)
(* with its answers, the chats of a page with their checks, and its members  *)
(* meet on one page, for any number of requests in flight.                   *)
THEOREM DiscussionsAlwaysHold == WorkspaceSpec => []DiscussionsHold
    BY TicketsWithin, ThreadWithin, ChatsWithin, RoomsWithin,
       TimelineTells, CommentsKept, ChatsRaceOnly, AlwaysConverge, PTL DEF DiscussionsHold

(* What the workspace counts holds to its limit: the windows of the gate and *)
(* its stored answers, the slots and the queries of a plan.                  *)
THEOREM LimitsAlwaysHold == WorkspaceSpec => []LimitsHold
    BY GateWithin, SlotsWithin, MeterWithin, GateAlwaysKeeps, PlanAlwaysHolds, PTL DEF LimitsHold

(* No refresh, reset, acceptance or confirmation that fails halfway or comes *)
(* late takes a device's session, reopens a used link or switches MFA off.   *)
THEOREM AccountIsKept == WorkspaceSpec => AccountKept
    BY SessionsWithin, CredentialsWithin, SessionIsKept, CredentialsAreKept DEF AccountKept

(* What was decided about a table stays but for an overlapping decision: who *)
(* reads it, and what users wrote about it.                                  *)
THEOREM DataIsKept == WorkspaceSpec => DataKept
    BY DataWithin, CataloguesWithin, AccessIsKept, TextsAreKept DEF DataKept

===============================================================================
