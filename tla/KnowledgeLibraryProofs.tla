------------------------- MODULE KnowledgeLibraryProofs -------------------------
(***************************************************************************)
(* For any files, requests, tasks, limit and number of retries: the types, *)
(* that what is indexed was approved; when no deletion is rolled back      *)
(* after it sent its task, that a ready file has its chunks; and for a     *)
(* finite set of files, that the quota row counts the live files and holds *)
(* them to the limit.                                                      *)
(***************************************************************************)
EXTENDS KnowledgeLibrary, FiniteSetTheorems, TLAPS

-----------------------------------------------------------------------------
(* The inductive invariant.                                                 *)

(* What a request in flight may rely on.                                    *)
Asked ==
    \A q \in Reqs : req[q].pc # "idle" =>
        /\ req[q].pc = "send" => req[q].kind = "reprocess"
        /\ req[q].kind = "upload" => /\ req[q].pc = "holding"
                                     /\ file[req[q].file].status = "none"
        /\ req[q].kind # "upload" => file[req[q].file].status # "none"
        /\ req[q].kind = "approve" => req[q].approver
        /\ req[q].kind = "reprocess" => req[q].file \in approved
        /\ req[q].kind \in {"confirm", "approve"} /\ req[q].pc = "holding" /\ req[q].approver
               => req[q].file \in approved

(* No two uploads create the same row.                                      *)
OneUpload ==
    \A p, q \in Reqs : /\ req[p].pc # "idle" /\ req[p].kind = "upload"
                       /\ req[q].pc # "idle" /\ req[q].file = req[p].file
                       => p = q

(* A file past the gate was approved, and so was one that a task indexes.   *)
Gated ==
    /\ \A f \in Files : chunks[f] \/ file[f].status \in {"processing", "ready", "error"}
                        => f \in approved
    /\ \A t \in Tasks : task[t].pc # "idle" =>
           /\ file[task[t].file].status # "none"
           /\ task[t].kind = "process" => task[t].file \in approved

(* Only a row there is can be deleted.                                      *)
DeletedExists == \A f \in Files : file[f].deleted => file[f].status # "none"

Inv == TypeOK /\ Asked /\ OneUpload /\ Gated /\ DeletedExists

-----------------------------------------------------------------------------
(* The messages before and after a step.                                    *)

Same(u) == task[u].pc # "idle" /\ task'[u].kind = task[u].kind /\ task'[u].file = task[u].file

(* A step that only moves or ends tasks.                                    *)
OnlyMoves ==
    /\ task' \in [Tasks -> TaskState]
    /\ \A u \in Tasks : task'[u].pc # "idle" => Same(u)

(* A step that sends at most a message of this kind about f.                *)
OnlySends(kind, f) ==
    /\ task' \in [Tasks -> TaskState]
    /\ \A u \in Tasks : task'[u].pc # "idle" =>
           Same(u) \/ (task'[u].kind = kind /\ task'[u].file = f)

(* A message at work is a full record.                                      *)
LEMMA TaskFields ==
    ASSUME TypeOK, NEW t \in Tasks, task[t].pc # "idle"
    PROVE  /\ task[t] \in [pc : {"queued", "reading", "embedded", "cleared", "updated", "failed"},
                           kind : {"process", "clean"}, file : Files, tries : 0..Retries,
                           clear : BOOLEAN]
           /\ task[t].file \in Files /\ task[t].kind \in {"process", "clean"}
<1>1. task[t] \in TaskState
    BY DEF TypeOK
<1> QED
    BY <1>1 DEF TaskState, NoTask

LEMMA ReqFields ==
    ASSUME TypeOK, NEW q \in Reqs, req[q].pc # "idle"
    PROVE  /\ req[q] \in [pc : {"read", "holding", "send"}, kind : Kinds, file : Files,
                          approver : BOOLEAN, inline : BOOLEAN]
           /\ req[q].file \in Files /\ req[q].kind \in Kinds /\ req[q].approver \in BOOLEAN
<1>1. req[q] \in ReqState
    BY DEF TypeOK
<1> QED
    BY <1>1 DEF ReqState, NoReq

(* One message is replaced by a later state of it, or by nothing.           *)
LEMMA Moved ==
    ASSUME TypeOK, NEW t \in Tasks, NEW w \in TaskState, task[t].pc # "idle",
           task' = [task EXCEPT ![t] = w],
           w.pc # "idle" => w.kind = task[t].kind /\ w.file = task[t].file
    PROVE  OnlyMoves
<1>1. task \in [Tasks -> TaskState]
    BY DEF TypeOK
<1> QED
    BY <1>1 DEF OnlyMoves, Same

LEMMA Unmoved ==
    ASSUME TypeOK, UNCHANGED task
    PROVE  OnlyMoves
BY DEF OnlyMoves, Same, TypeOK

LEMMA NoTaskState == NoTask \in TaskState /\ NoTask.pc = "idle"
BY DEF TaskState, NoTask

LEMMA NoReqState == NoReq \in ReqState /\ NoReq.pc = "idle"
BY DEF ReqState, NoReq

LEMMA RetryMoves ==
    ASSUME TypeOK, NEW t \in Tasks, task[t].pc # "idle", Retry(t)
    PROVE  OnlyMoves
<1>1. CASE task' = [task EXCEPT ![t] = NoTask]
    BY <1>1, NoTaskState, Moved
<1>2. CASE task[t].tries < Retries
           /\ task' = [task EXCEPT ![t].pc = "queued", ![t].tries = @ + 1, ![t].clear = FALSE]
  <2> DEFINE w == [task[t] EXCEPT !.pc = "queued", !.tries = @ + 1, !.clear = FALSE]
  <2>1. task' = [task EXCEPT ![t] = w]
    BY <1>2 DEF TypeOK
  <2>2. task[t].tries + 1 \in 0..Retries
    BY <1>2, TaskFields, LimitsAssumption
  <2>3. w \in TaskState /\ w.kind = task[t].kind /\ w.file = task[t].file
    BY <2>2, TaskFields DEF TaskState
  <2> HIDE DEF w
  <2> QED
    BY <2>1, <2>3, Moved
<1> QED
    BY <1>1, <1>2 DEF Retry

LEMMA SentSends ==
    ASSUME TypeOK, NEW kind \in {"process", "clean"}, NEW f \in Files,
           Sent(kind, f) \/ Refused
    PROVE  OnlySends(kind, f)
<1>1. CASE Refused
    BY <1>1 DEF Refused, OnlySends, Same, TypeOK
<1>2. CASE Sent(kind, f)
  <2> DEFINE w == [pc |-> "queued", kind |-> kind, file |-> f, tries |-> 0, clear |-> FALSE]
  <2>1. PICK t \in Tasks : task' = [task EXCEPT ![t] = w]
    BY <1>2 DEF Sent
  <2>2. w \in TaskState /\ w.kind = kind /\ w.file = f
    BY LimitsAssumption DEF TaskState
  <2> HIDE DEF w
  <2>3. task \in [Tasks -> TaskState]
    BY DEF TypeOK
  <2> QED
    BY <2>1, <2>2, <2>3 DEF OnlySends, Same
<1> QED
    BY <1>1, <1>2

-----------------------------------------------------------------------------
(* Steps of the tasks.                                                      *)

(* Those that write no row.                                                 *)
LEMMA MoveOnly ==
    ASSUME TypeOK, NEW t \in Tasks,
           \/ ProcessStarts(t) \/ ProcessEmbeds(t) \/ ProcessFails(t) \/ ProcessClears(t)
           \/ ProcessUpdates(t) \/ ProcessRefused(t) \/ TaskDies(t)
    PROVE  OnlyMoves /\ UNCHANGED <<file, chunks, blob, usage, req, approved>>
<1>1. task[t].pc # "idle" /\ UNCHANGED <<file, chunks, blob, usage, req, approved>>
    BY DEF ProcessStarts, ProcessEmbeds, ProcessFails, ProcessClears, ProcessUpdates,
           ProcessRefused, TaskDies, Processing
<1>2. CASE TaskDies(t)
    BY <1>1, <1>2, NoTaskState, Moved DEF TaskDies
<1>3. CASE ProcessRefused(t)
    BY <1>1, <1>3, RetryMoves DEF ProcessRefused
<1>4. CASE ProcessStarts(t)
  <2> DEFINE w == IF Live(task[t].file) THEN [task[t] EXCEPT !.pc = "reading"] ELSE NoTask
  <2>1. task' = [task EXCEPT ![t] = w]
    BY <1>4 DEF ProcessStarts, TypeOK
  <2>2. w \in TaskState /\ (w.pc # "idle" => w.kind = task[t].kind /\ w.file = task[t].file)
    BY <1>1, TaskFields, NoTaskState DEF TaskState
  <2> HIDE DEF w
  <2> QED
    BY <1>1, <2>1, <2>2, Moved
<1>5. CASE ProcessEmbeds(t) \/ ProcessFails(t) \/ ProcessUpdates(t)
  <2>1. PICK pc \in {"embedded", "failed", "updated"} : task' = [task EXCEPT ![t].pc = pc]
    BY <1>5 DEF ProcessEmbeds, ProcessFails, ProcessUpdates
  <2> DEFINE w == [task[t] EXCEPT !.pc = pc]
  <2>2. task' = [task EXCEPT ![t] = w]
    BY <2>1 DEF TypeOK
  <2>3. w \in TaskState /\ w.kind = task[t].kind /\ w.file = task[t].file
    BY <1>1, TaskFields DEF TaskState
  <2> HIDE DEF w
  <2> QED
    BY <1>1, <2>2, <2>3, Moved
<1>6. CASE ProcessClears(t)
  <2> DEFINE w == [task[t] EXCEPT !.pc = "cleared", !.clear = TRUE]
  <2>1. task' = [task EXCEPT ![t] = w]
    BY <1>6 DEF ProcessClears, TypeOK
  <2>2. w \in TaskState /\ w.kind = task[t].kind /\ w.file = task[t].file
    BY <1>1, TaskFields DEF TaskState
  <2> HIDE DEF w
  <2> QED
    BY <1>1, <2>1, <2>2, Moved
<1> QED
    BY <1>2, <1>3, <1>4, <1>5, <1>6

LEMMA MoveInv ==
    ASSUME Inv, OnlyMoves, UNCHANGED <<file, chunks, usage, req, approved>>,
           blob' \in [Files -> BOOLEAN]
    PROVE  Inv'
<1>1. TypeOK'
    BY DEF Inv, TypeOK, OnlyMoves, usage
<1>2. Asked' /\ OneUpload' /\ DeletedExists'
    BY DEF Inv, Asked, OneUpload, DeletedExists
<1>3. Gated'
    BY DEF Inv, Gated, OnlyMoves, Same
<1> QED
    BY <1>1, <1>2, <1>3 DEF Inv

(* What a committing task does to the rows of its file and to the messages. *)
LEMMA CommitEffect ==
    ASSUME Inv, NEW t \in Tasks, ProcessCommits(t)
    PROVE  /\ task[t].file \in Files /\ task[t].pc # "idle" /\ task[t].kind = "process"
           /\ file' = [file EXCEPT ![task[t].file] = [file[task[t].file] EXCEPT !.status = "ready"]]
           /\ chunks' = [chunks EXCEPT ![task[t].file] = TRUE]
           /\ OnlyMoves /\ UNCHANGED <<blob, usage, req, approved>>
<1> DEFINE f == task[t].file
           w(u) == [task[u] EXCEPT !.clear = @ /\ task[u].file # f]
<1>1. /\ task[t].pc # "idle" /\ task[t].kind = "process"
      /\ chunks' = [chunks EXCEPT ![f] = TRUE] /\ UNCHANGED <<blob, usage, req, approved>>
    BY DEF ProcessCommits, Processing
<1>2. f \in Files
    BY <1>1, TaskFields DEF Inv
<1>3. file' = [file EXCEPT ![f] = [file[f] EXCEPT !.status = "ready"]]
    BY DEF ProcessCommits, Inv, TypeOK
<1>4. \A u \in Tasks : task[u].pc # "idle" =>
          w(u) \in TaskState /\ w(u).kind = task[u].kind /\ w(u).file = task[u].file
    BY TaskFields DEF Inv, TaskState
<1> HIDE DEF w
<1>5. task' = [u \in Tasks |-> IF u = t \/ task[u].pc = "idle" THEN
                                   IF u = t THEN NoTask ELSE task[u]
                               ELSE w(u)]
    BY DEF ProcessCommits, w
<1>6. \A u \in Tasks : task[u] \in TaskState
    BY DEF Inv, TypeOK
<1>7. \A u \in Tasks : /\ task'[u] \in TaskState
                       /\ task'[u].pc # "idle" => task[u].pc # "idle" /\ task'[u] = w(u)
  <2> TAKE u \in Tasks
  <2>1. task'[u] = IF u = t \/ task[u].pc = "idle" THEN IF u = t THEN NoTask ELSE task[u]
                   ELSE w(u)
    BY <1>5
  <2>2. CASE u = t
    BY <2>1, <2>2, NoTaskState
  <2>3. CASE u # t /\ task[u].pc = "idle"
    BY <2>1, <2>3, <1>6
  <2>4. CASE u # t /\ task[u].pc # "idle"
    BY <2>1, <2>4, <1>4
  <2> QED
    BY <2>2, <2>3, <2>4
<1>8. task' \in [Tasks -> TaskState]
    BY <1>5, <1>7
<1>9. OnlyMoves
    BY <1>4, <1>7, <1>8 DEF OnlyMoves, Same
<1> QED
    BY <1>1, <1>2, <1>3, <1>9

LEMMA ErrorEffect ==
    ASSUME Inv, NEW t \in Tasks, ProcessRecordsError(t)
    PROVE  /\ task[t].file \in Files /\ task[t].pc # "idle" /\ task[t].kind = "process"
           /\ file' = [file EXCEPT ![task[t].file] = [file[task[t].file] EXCEPT !.status = "error"]]
           /\ OnlyMoves /\ UNCHANGED <<chunks, blob, usage, req, approved>>
<1>1. task[t].pc # "idle" /\ task[t].kind = "process" /\ Retry(t)
    BY DEF ProcessRecordsError, Processing
<1>2. task[t].file \in Files /\ OnlyMoves
    BY <1>1, TaskFields, RetryMoves DEF Inv
<1> QED
    BY <1>1, <1>2 DEF ProcessRecordsError, Inv, TypeOK

(* A task that writes the status of a file that was approved.               *)
LEMMA StatusInv ==
    ASSUME Inv, NEW f \in Files, f \in approved, file[f].status # "none",
           NEW s \in {"ready", "error"}, file' = [file EXCEPT ![f] = [file[f] EXCEPT !.status = s]],
           chunks' = chunks \/ chunks' = [chunks EXCEPT ![f] = TRUE],
           OnlyMoves, UNCHANGED <<blob, usage, req, approved>>
    PROVE  Inv'
<1> DEFINE row == [file[f] EXCEPT !.status = s]
<1>1. row \in FileRow /\ row.status = s /\ row.deleted = file[f].deleted
    BY DEF Inv, TypeOK, FileRow, Status
<1> HIDE DEF row
<1>2. file' = [file EXCEPT ![f] = row]
    BY DEF row
<1>3. TypeOK'
    <2>1. file' \in [Files -> FileRow]
        BY <1>1, <1>2 DEF Inv, TypeOK
    <2>2. chunks' \in [Files -> BOOLEAN]
        BY DEF Inv, TypeOK
    <2> QED
        BY <2>1, <2>2 DEF Inv, TypeOK, OnlyMoves, usage
<1>4. \A g \in Files : /\ file'[g] = IF g = f THEN row ELSE file[g]
                       /\ chunks'[g] => chunks[g] \/ g = f
    BY <1>2 DEF Inv, TypeOK
<1>5. \A g \in Files : (file'[g].status = "none") <=> (file[g].status = "none")
    BY <1>1, <1>4
<1>6. Asked'
    BY <1>5, ReqFields DEF Inv, Asked
<1>7. OneUpload' /\ DeletedExists'
    BY <1>1, <1>4, <1>5 DEF Inv, OneUpload, DeletedExists
<1>8. Gated'
    BY <1>1, <1>4, <1>5, TaskFields DEF Inv, Gated, OnlyMoves, Same
<1> QED
    BY <1>3, <1>6, <1>7, <1>8 DEF Inv

LEMMA CleanEffect ==
    ASSUME Inv, NEW t \in Tasks, CleanRuns(t)
    PROVE  /\ task[t].file \in Files /\ task[t].pc # "idle" /\ task[t].kind = "clean"
           /\ chunks' = chunks \/ chunks' = [chunks EXCEPT ![task[t].file] = FALSE]
           /\ blob' \in [Files -> BOOLEAN]
           /\ OnlyMoves /\ UNCHANGED <<file, usage, req, approved>>
<1>1. task[t].pc # "idle" /\ task[t].kind = "clean"
    BY DEF CleanRuns
<1>2. task[t].file \in Files
    BY <1>1, TaskFields DEF Inv
<1>3. blob' \in [Files -> BOOLEAN]
    BY <1>2 DEF CleanRuns, DeleteBlob, Inv, TypeOK
<1>4. OnlyMoves
    BY <1>1, NoTaskState, Moved, RetryMoves DEF CleanRuns, Inv
<1> QED
    BY <1>1, <1>2, <1>3, <1>4 DEF CleanRuns

LEMMA CleanInv ==
    ASSUME Inv, NEW f \in Files, chunks' = chunks \/ chunks' = [chunks EXCEPT ![f] = FALSE],
           blob' \in [Files -> BOOLEAN],
           OnlyMoves, UNCHANGED <<file, usage, req, approved>>
    PROVE  Inv'
<1>1. \A g \in Files : chunks'[g] => chunks[g]
    BY DEF Inv, TypeOK
<1>2. TypeOK'
    BY DEF Inv, TypeOK, OnlyMoves, usage
<1>3. Asked' /\ OneUpload' /\ DeletedExists'
    BY DEF Inv, Asked, OneUpload, DeletedExists
<1>4. Gated'
    BY <1>1 DEF Inv, Gated, OnlyMoves, Same
<1> QED
    BY <1>2, <1>3, <1>4 DEF Inv

-----------------------------------------------------------------------------
(* Steps of the requests.                                                   *)

(* What the invariant asks of one request in flight.                        *)
Sound(k) ==
    /\ k.pc = "send" => k.kind = "reprocess"
    /\ k.kind = "upload" => k.pc = "holding" /\ file[k.file].status = "none"
    /\ k.kind # "upload" => file[k.file].status # "none"
    /\ k.kind = "approve" => k.approver
    /\ k.kind = "reprocess" => k.file \in approved
    /\ k.kind \in {"confirm", "approve"} /\ k.pc = "holding" /\ k.approver => k.file \in approved'

(* A request that moves, may send a message, and commits nothing.           *)
LEMMA RequestInv ==
    ASSUME Inv, NEW q \in Reqs, NEW k \in ReqState, req' = [req EXCEPT ![q] = k],
           UNCHANGED <<file, chunks, usage>>, approved' \in SUBSET Files,
           approved \subseteq approved', blob' \in [Files -> BOOLEAN],
           k.pc # "idle" => Sound(k),
           k.pc # "idle" => \A p \in Reqs :
               /\ req[p].pc # "idle" /\ p # q /\ req[p].file = k.file
               => k.kind # "upload" /\ req[p].kind # "upload",
           NEW kind \in {"process", "clean"}, NEW f \in Files,
           \/ OnlyMoves
           \/ /\ OnlySends(kind, f) /\ file[f].status # "none"
              /\ kind = "process" => f \in approved'
    PROVE  Inv'
<1>1. \A p \in Reqs : req'[p] = IF p = q THEN k ELSE req[p]
    BY DEF Inv, TypeOK
<1>2. TypeOK'
    BY DEF Inv, TypeOK, OnlyMoves, usage, OnlySends
<1>3. Asked'
    BY <1>1 DEF Inv, Asked, Sound
<1>4. OneUpload'
    BY <1>1 DEF Inv, OneUpload
<1>5. DeletedExists'
    BY DEF Inv, DeletedExists
<1>6. Gated'
    BY DEF Inv, Gated, OnlyMoves, OnlySends, Same
<1> QED
    BY <1>2, <1>3, <1>4, <1>5, <1>6 DEF Inv

LEMMA UploadInv ==
    ASSUME Inv, NEW q \in Reqs, NEW f \in Files, RequestUpload(q, f)
    PROVE  Inv'
<1> DEFINE k == [pc |-> "holding", kind |-> "upload", file |-> f,
                 approver |-> FALSE, inline |-> FALSE]
<1>1. req' = [req EXCEPT ![q] = k] /\ UNCHANGED <<file, chunks, blob, usage, task, approved>>
    BY DEF RequestUpload
<1>2. k \in ReqState
    BY DEF ReqState, Kinds
<1>3. Sound(k) /\ k.file = f
    BY DEF Sound, RequestUpload
<1>4. \A p \in Reqs : req[p].pc # "idle" => req[p].file # k.file
    BY DEF RequestUpload
<1> HIDE DEF k
<1> QED
    BY <1>1, <1>2, <1>3, <1>4, Unmoved, RequestInv DEF Inv, TypeOK

LEMMA ReadsInv ==
    ASSUME Inv, NEW q \in Reqs, NEW f \in Files, NEW kind \in Kinds, NEW approver \in BOOLEAN,
           RequestReads(q, f, kind, approver)
    PROVE  Inv'
<1> DEFINE k == [pc |-> "read", kind |-> kind, file |-> f,
                 approver |-> approver /\ kind \in {"confirm", "approve"}, inline |-> FALSE]
<1>1. req' = [req EXCEPT ![q] = k] /\ UNCHANGED <<file, chunks, blob, usage, task, approved>>
    BY DEF RequestReads
<1>2. k \in ReqState
    BY DEF ReqState
<1>3. file[f].status # "none" /\ kind # "upload" /\ (kind = "approve" => approver)
    BY DEF RequestReads, Accepts, Live
<1>4. kind = "reprocess" => f \in approved
    BY DEF RequestReads, Accepts, Inv, Gated
<1>5. Sound(k) /\ k.file = f /\ k.kind # "upload"
    BY <1>3, <1>4 DEF Sound
<1>6. \A p \in Reqs : req[p].pc # "idle" /\ req[p].file = k.file => req[p].kind # "upload"
    BY <1>3, <1>5 DEF Inv, Asked
<1> HIDE DEF k
<1> QED
    BY <1>1, <1>2, <1>5, <1>6, Unmoved, RequestInv DEF Inv, TypeOK

(* The row is locked, nothing is committed yet.                             *)
LEMMA WritesInv ==
    ASSUME Inv, NEW q \in Reqs, ApprovalWrites(q) \/ ReprocessWrites(q) \/ DeleteWrites(q)
    PROVE  Inv'
<1>1. req[q].pc = "read" /\ req[q].kind # "upload"
    BY DEF ApprovalWrites, ReprocessWrites, DeleteWrites
<1>2. req[q].file \in Files /\ file[req[q].file].status # "none"
    BY <1>1, ReqFields DEF Inv, Asked
<1>3. PICK inline \in BOOLEAN : req' = [req EXCEPT ![q].pc = "holding", ![q].inline = inline]
  <2>1. req[q].inline \in BOOLEAN /\ req[q] = [req[q] EXCEPT !.inline = req[q].inline]
    BY <1>1, ReqFields DEF Inv
  <2>2. CASE req' = [req EXCEPT ![q].pc = "holding"]
    <3>1. [req[q] EXCEPT !.pc = "holding"]
              = [req[q] EXCEPT !.pc = "holding", !.inline = req[q].inline]
      BY <1>1, ReqFields DEF Inv
    <3>2. req' = [req EXCEPT ![q].pc = "holding", ![q].inline = req[q].inline]
      BY <2>2, <3>1
    <3> QED
      BY <2>1, <3>2
  <2>3. CASE req' = [req EXCEPT ![q].pc = "holding", ![q].inline = TRUE]
    BY <2>3
  <2> QED
    BY <2>2, <2>3 DEF ApprovalWrites, ReprocessWrites, DeleteWrites
<1> DEFINE k == [req[q] EXCEPT !.pc = "holding", !.inline = inline]
<1>4. req' = [req EXCEPT ![q] = k]
    BY <1>3 DEF Inv, TypeOK
<1>5. /\ k \in ReqState /\ k.pc = "holding" /\ k.kind = req[q].kind /\ k.file = req[q].file
      /\ k.approver = req[q].approver
    BY <1>1, ReqFields DEF Inv, ReqState
<1>6. blob' \in [Files -> BOOLEAN]
    BY <1>2 DEF ApprovalWrites, ReprocessWrites, DeleteWrites, DeleteBlob, Inv, TypeOK
<1>7. approved' \in SUBSET Files /\ approved \subseteq approved'
    BY <1>2 DEF ApprovalWrites, ReprocessWrites, DeleteWrites, Inv, TypeOK
<1>8. UNCHANGED <<file, chunks, usage>>
    BY DEF ApprovalWrites, ReprocessWrites, DeleteWrites
<1>9. req[q].kind \in {"confirm", "approve"} /\ req[q].approver => req[q].file \in approved'
    BY DEF ApprovalWrites, ReprocessWrites, DeleteWrites
<1>10. PICK kind \in {"process", "clean"} :
          \/ OnlyMoves
          \/ OnlySends(kind, req[q].file) /\ (kind = "process" => req[q].file \in approved')
  <2>1. CASE ApprovalWrites(q)
    <3>1. CASE req[q].approver
      BY <2>1, <3>1, <1>2, SentSends DEF ApprovalWrites, Inv
    <3>2. CASE ~req[q].approver
      BY <2>1, <3>2, Unmoved DEF ApprovalWrites, Inv
    <3> QED
      BY <3>1, <3>2
  <2>2. CASE ReprocessWrites(q)
    BY <2>2, Unmoved DEF ReprocessWrites, Inv
  <2>3. CASE DeleteWrites(q)
    BY <2>3, <1>2, SentSends DEF DeleteWrites, Inv
  <2> QED
    BY <2>1, <2>2, <2>3
<1> HIDE DEF k
<1>11. Sound(k)
    BY <1>1, <1>5, <1>9 DEF Sound, Inv, Asked
<1>12. \A p \in Reqs : req[p].pc # "idle" /\ req[p].file = k.file => req[p].kind # "upload"
    BY <1>2, <1>5 DEF Inv, Asked
<1>13. k.kind # "upload"
    BY <1>1, <1>5
<1> QED
    BY <1>2, <1>4, <1>5, <1>6, <1>7, <1>8, <1>10, <1>11, <1>12, <1>13, RequestInv

(* A request that ends without a commit, or after it.                       *)
LEMMA EndsInv ==
    ASSUME Inv, NEW q \in Reqs, RequestAborts(q) \/ ReprocessSends(q)
    PROVE  Inv'
<1>1. req[q].pc # "idle" /\ req' = [req EXCEPT ![q] = NoReq]
      /\ UNCHANGED <<file, chunks, blob, usage, approved>>
    BY DEF RequestAborts, ReprocessSends
<1>2. req[q].file \in Files
    BY <1>1, ReqFields DEF Inv
<1>3. \/ OnlyMoves
      \/ OnlySends("process", req[q].file) /\ file[req[q].file].status # "none"
         /\ req[q].file \in approved
  <2>1. CASE RequestAborts(q)
    BY <2>1, Unmoved DEF RequestAborts, Inv
  <2>2. CASE ReprocessSends(q)
    <3>1. req[q].kind = "reprocess" /\ req[q].file \in approved
      BY <1>1, <2>2 DEF ReprocessSends, Inv, Asked
    <3>2. file[req[q].file].status # "none"
      BY <1>1, <3>1 DEF Inv, Asked
    <3> QED
      BY <2>2, <1>2, <3>1, <3>2, SentSends DEF ReprocessSends, Inv
  <2> QED
    BY <2>1, <2>2
<1> QED
    BY <1>1, <1>2, <1>3, NoReqState, RequestInv DEF Inv, TypeOK

(* What a commit does to the rows of the file.                              *)
LEMMA RequestEffect ==
    ASSUME Inv, NEW q \in Reqs, RequestCommits(q)
    PROVE  /\ req[q].pc = "holding" /\ req[q].file \in Files
           /\ Written(req[q]) \in FileRow /\ Written(req[q]).status # "none"
           /\ file' = [file EXCEPT ![req[q].file] = Written(req[q])]
           /\ chunks' = [chunks EXCEPT ![req[q].file] = @ /\ ~req[q].inline]
           /\ quota' \in Int /\ redeleted' \in Nat /\ UNCHANGED <<blob, task, approved>>
           /\ Written(req[q]).status \in {"processing", "ready", "error"}
                  => req[q].file \in approved
           /\ Written(req[q]).status = "ready" => req[q].kind = "delete"
           /\ req[q].kind # "upload" /\ file[req[q].file].deleted => Written(req[q]).deleted
           /\ req[q].kind = "delete" => Written(req[q]).deleted
<1> DEFINE k == req[q]
           row == Written(k)
<1>1. /\ k.pc = "holding" /\ file' = [file EXCEPT ![k.file] = row]
      /\ chunks' = [chunks EXCEPT ![k.file] = @ /\ ~k.inline]
      /\ UNCHANGED <<blob, task, approved>>
    BY DEF RequestCommits
<1>2. k.file \in Files /\ k.kind \in Kinds /\ k.approver \in BOOLEAN
    BY <1>1, ReqFields DEF Inv
<1>3. file[k.file] \in FileRow
    BY <1>2 DEF Inv, TypeOK
<1>4. quota' \in Int /\ redeleted' \in Nat
    BY DEF RequestCommits, Inv, TypeOK
<1>5. CASE k.kind = "upload"
    BY <1>1, <1>2, <1>4, <1>5 DEF Written, FileRow, Status
<1>6. CASE k.kind = "confirm"
  <2>1. row = [file[k.file] EXCEPT !.status = IF k.approver THEN "processing"
                                              ELSE "pending_approval"]
    BY <1>6 DEF Written
  <2>2. k.approver => k.file \in approved
    BY <1>1, <1>6 DEF Inv, Asked
  <2> QED
    BY <1>1, <1>2, <1>3, <1>4, <1>6, <2>1, <2>2 DEF FileRow, Status
<1>7. CASE k.kind = "delete"
  <2>1. row = [file[k.file] EXCEPT !.deleted = TRUE]
    BY <1>7 DEF Written
  <2>2. row \in FileRow /\ row.status = file[k.file].status /\ row.deleted
    BY <2>1, <1>3 DEF FileRow
  <2>3. file[k.file].status # "none"
    BY <1>1, <1>7 DEF Inv, Asked
  <2>4. row.status \in {"processing", "ready", "error"} => k.file \in approved
    BY <2>2, <1>2 DEF Inv, Gated
  <2> QED
    BY <1>1, <1>2, <1>4, <1>7, <2>2, <2>3, <2>4
<1>8. CASE k.kind \in {"approve", "reprocess"}
  <2>1. row = [file[k.file] EXCEPT !.status = "processing"]
    BY <1>8 DEF Written
  <2>2. k.file \in approved
    BY <1>1, <1>8 DEF Inv, Asked
  <2> QED
    BY <1>1, <1>2, <1>3, <1>4, <1>8, <2>1, <2>2 DEF FileRow, Status
<1> QED
    BY <1>2, <1>5, <1>6, <1>7, <1>8 DEF Kinds

LEMMA CommitInv ==
    ASSUME Inv, NEW q \in Reqs, RequestCommits(q)
    PROVE  Inv'
<1> DEFINE f == req[q].file
           row == Written(req[q])
           k == IF req[q].kind = "reprocess" THEN [req[q] EXCEPT !.pc = "send"] ELSE NoReq
<1>1. /\ req[q].pc = "holding" /\ f \in Files /\ row \in FileRow /\ row.status # "none"
      /\ file' = [file EXCEPT ![f] = row]
      /\ chunks' = [chunks EXCEPT ![f] = @ /\ ~req[q].inline]
      /\ quota' \in Int /\ redeleted' \in Nat /\ UNCHANGED <<blob, task, approved>>
      /\ row.status \in {"processing", "ready", "error"} => f \in approved
    BY RequestEffect
<1>2. req' = [req EXCEPT ![q] = k]
    BY DEF RequestCommits
<1>3. k \in ReqState
    BY <1>1, ReqFields, NoReqState DEF Inv, ReqState
<1>4. k.pc # "idle" => k.kind = "reprocess" /\ k.pc = "send" /\ k.file = f /\ f \in approved
  <2>1. CASE req[q].kind = "reprocess"
    <3>1. k = [req[q] EXCEPT !.pc = "send"]
      BY <2>1
    <3>2. k.kind = "reprocess" /\ k.pc = "send" /\ k.file = f
      BY <3>1, <2>1, <1>1, ReqFields DEF Inv
    <3>3. f \in approved
      BY <2>1, <1>1 DEF Inv, Asked
    <3> QED
      BY <3>2, <3>3
  <2>2. CASE req[q].kind # "reprocess"
    BY <2>2, NoReqState
  <2> QED
    BY <2>1, <2>2
<1> HIDE DEF k, row
<1>5. \A g \in Files : /\ file'[g] = IF g = f THEN row ELSE file[g]
                       /\ chunks'[g] => chunks[g]
    BY <1>1 DEF Inv, TypeOK
<1>6. \A p \in Reqs : req'[p] = IF p = q THEN k ELSE req[p]
    BY <1>2 DEF Inv, TypeOK
<1>7. TypeOK'
  <2>1. chunks' \in [Files -> BOOLEAN]
    BY <1>1 DEF Inv, TypeOK
  <2> QED
    BY <2>1, <1>1, <1>2, <1>3 DEF Inv, TypeOK
<1>8. \A p \in Reqs : req[p].pc # "idle" /\ p # q /\ req[p].kind = "upload" => req[p].file # f
  <2> SUFFICES ASSUME NEW p \in Reqs, req[p].pc # "idle", p # q, req[p].kind = "upload",
                      req[p].file = f
               PROVE  FALSE
    OBVIOUS
  <2> QED
    BY <1>1 DEF Inv, OneUpload
<1>9. Asked'
  <2> SUFFICES ASSUME NEW p \in Reqs, req'[p].pc # "idle"
               PROVE  /\ req'[p].pc = "send" => req'[p].kind = "reprocess"
                      /\ req'[p].kind = "upload" => /\ req'[p].pc = "holding"
                                                    /\ file'[req'[p].file].status = "none"
                      /\ req'[p].kind # "upload" => file'[req'[p].file].status # "none"
                      /\ req'[p].kind = "approve" => req'[p].approver
                      /\ req'[p].kind = "reprocess" => req'[p].file \in approved'
                      /\ req'[p].kind \in {"confirm", "approve"} /\ req'[p].pc = "holding"
                         /\ req'[p].approver => req'[p].file \in approved'
    BY DEF Asked
  <2>1. CASE p = q
    BY <2>1, <1>1, <1>4, <1>5, <1>6
  <2>2. CASE p # q
    <3>1. req'[p] = req[p] /\ req[p].pc # "idle" /\ req[p].file \in Files
      BY <2>2, <1>6, ReqFields DEF Inv
    <3>2. file'[req[p].file].status = "none" <=> file[req[p].file].status = "none" /\ req[p].file # f
      BY <3>1, <1>1, <1>5
    <3> QED
      BY <2>2, <3>1, <3>2, <1>1, <1>8 DEF Inv, Asked
  <2> QED
    BY <2>1, <2>2
<1>10. OneUpload'
  <2> SUFFICES ASSUME NEW p \in Reqs, NEW r \in Reqs, req'[p].pc # "idle", req'[p].kind = "upload",
                      req'[r].pc # "idle", req'[r].file = req'[p].file
               PROVE  p = r
    BY DEF OneUpload
  <2>1. p # q /\ req'[p] = req[p]
    BY <1>4, <1>6
  <2>2. r # q
    BY <2>1, <1>4, <1>6, <1>8
  <2> QED
    BY <2>1, <2>2, <1>6 DEF Inv, OneUpload
<1>11. DeletedExists'
    BY <1>1, <1>5 DEF Inv, DeletedExists
<1>12. Gated'
    BY <1>1, <1>5, TaskFields DEF Inv, Gated
<1> QED
    BY <1>7, <1>9, <1>10, <1>11, <1>12 DEF Inv

-----------------------------------------------------------------------------
LEMMA InitInv == Init => Inv
BY NoReqState, NoTaskState
   DEF Init, Inv, TypeOK, FileRow, Status, Asked, OneUpload, Gated, DeletedExists

LEMMA PutsInv ==
    ASSUME Inv, NEW f \in Files, BrowserPuts(f)
    PROVE  Inv'
<1>1. blob' \in [Files -> BOOLEAN] /\ UNCHANGED <<file, chunks, usage, req, approved>>
    BY DEF BrowserPuts, Inv, TypeOK
<1>2. OnlyMoves
    BY Unmoved DEF BrowserPuts, Inv
<1> QED
    BY <1>1, <1>2, MoveInv

LEMMA StutterInv ==
    ASSUME Inv, UNCHANGED vars
    PROVE  Inv'
BY DEF vars, Inv, TypeOK, Asked, OneUpload, Gated, DeletedExists

(* One case per action.                                                     *)
LEMMA NextInv ==
    ASSUME Inv, [Next]_vars
    PROVE  Inv'
<1>1. ASSUME NEW q \in Reqs, Request(q) PROVE Inv'
  <2>1. ASSUME NEW f \in Files, RequestUpload(q, f) PROVE Inv'
    BY <2>1, UploadInv
  <2>2. ASSUME NEW f \in Files, NEW kind \in Kinds, NEW approver \in BOOLEAN,
               RequestReads(q, f, kind, approver)
        PROVE Inv'
    BY <2>2, ReadsInv
  <2>3. CASE ApprovalWrites(q) \/ ReprocessWrites(q) \/ DeleteWrites(q)
    BY <2>3, WritesInv
  <2>4. CASE RequestCommits(q)
    BY <2>4, CommitInv
  <2>5. CASE RequestAborts(q) \/ ReprocessSends(q)
    BY <2>5, EndsInv
  <2> QED
    BY <1>1, <2>1, <2>2, <2>3, <2>4, <2>5 DEF Request, Answer
<1>2. ASSUME NEW f \in Files, BrowserPuts(f) PROVE Inv'
    BY <1>2, PutsInv
<1>3. ASSUME NEW t \in Tasks, Process(t) \/ CleanRuns(t) \/ TaskDies(t) PROVE Inv'
  <2>1. CASE \/ ProcessStarts(t) \/ ProcessEmbeds(t) \/ ProcessFails(t) \/ ProcessClears(t)
             \/ ProcessUpdates(t) \/ ProcessRefused(t) \/ TaskDies(t)
    BY <2>1, MoveOnly, MoveInv DEF Inv, TypeOK
  <2>2. CASE ProcessCommits(t)
    BY <2>2, CommitEffect, StatusInv DEF Inv, Gated
  <2>3. CASE ProcessRecordsError(t)
    BY <2>3, ErrorEffect, StatusInv DEF Inv, Gated
  <2>4. CASE CleanRuns(t)
    BY <2>4, CleanEffect, CleanInv
  <2> QED
    BY <1>3, <2>1, <2>2, <2>3, <2>4 DEF Process
<1>4. CASE UNCHANGED vars
    BY <1>4, StutterInv
<1> QED
    BY <1>1, <1>2, <1>3, <1>4 DEF Next, Steps

-----------------------------------------------------------------------------
LEMMA InvHolds == Spec => []Inv
<1>1. Init => Inv
    BY InitInv
<1>2. Inv /\ [Next]_vars => Inv'
    BY NextInv
<1> QED
    BY <1>1, <1>2, PTL DEF Spec

(* The variables keep their types, whatever requests and tasks overlap      *)
(* (knowledge_service.py, knowledge_worker.py).                             *)
THEOREM TypeCorrect == Spec => []TypeOK
<1>1. Inv => TypeOK
    BY DEF Inv
<1> QED
    BY <1>1, InvHolds, PTL

(* Chunks exist only for files an owner or admin confirmed or approved:     *)
(* neither a retry, nor a reprocess, nor a stale confirm gets around the    *)
(* gate of confirm_upload and approve_upload.                               *)
THEOREM IndexedAlwaysApproved == Spec => []IndexedIsApproved
<1>1. Inv => IndexedIsApproved
    BY DEF Inv, Gated, IndexedIsApproved
<1> QED
    BY <1>1, InvHolds, PTL

-----------------------------------------------------------------------------
(* Ready files keep their chunks, when no deletion is rolled back.          *)

(* A deletion of the file was committed, or will be.                        *)
Deleting(f) ==
    \/ file[f].deleted
    \/ \E q \in Reqs : req[q].pc = "holding" /\ req[q].kind = "delete" /\ req[q].file = f

(* A cleanup is only ever about such a file, inline or by a task.           *)
Covered ==
    /\ \A t \in Tasks : task[t].pc # "idle" /\ task[t].kind = "clean" => Deleting(task[t].file)
    /\ \A q \in Reqs : req[q].pc # "idle" /\ req[q].inline => req[q].kind = "delete"

Kept == \A f \in Files : file[f].status = "ready" => chunks[f] \/ Deleting(f)

LEMMA InitKept == Init => Covered /\ Kept
BY DEF Init, Covered, Kept, NoTask, NoReq

(* Steps that leave the rows of files and requests alone.                   *)
LEMMA QuietKept ==
    ASSUME Inv, Covered, Kept, UNCHANGED <<file, req>>, OnlyMoves,
           \A f \in Files : chunks[f] => chunks'[f] \/ Deleting(f)
    PROVE  Covered' /\ Kept'
<1>1. \A f : Deleting(f) <=> Deleting(f)'
    BY DEF Deleting
<1>2. Covered'
    BY <1>1 DEF Covered, OnlyMoves, Same
<1>3. Kept'
    BY <1>1 DEF Kept
<1> QED
    BY <1>2, <1>3

(* A task that writes a status: with its chunks, if it is ready.            *)
LEMMA StatusKept ==
    ASSUME Inv, Covered, Kept, NEW f \in Files, NEW s \in {"ready", "error"},
           file' = [file EXCEPT ![f] = [file[f] EXCEPT !.status = s]],
           \/ s = "ready" /\ chunks' = [chunks EXCEPT ![f] = TRUE]
           \/ s = "error" /\ chunks' = chunks,
           OnlyMoves, UNCHANGED req
    PROVE  Covered' /\ Kept'
<1> DEFINE row == [file[f] EXCEPT !.status = s]
<1>1. row.status = s /\ row.deleted = file[f].deleted
    BY DEF Inv, TypeOK, FileRow
<1> HIDE DEF row
<1>2. \A g \in Files : file'[g] = IF g = f THEN row ELSE file[g]
    BY DEF Inv, TypeOK, row
<1>3. \A g \in Files : Deleting(g) => Deleting(g)'
    BY <1>1, <1>2 DEF Deleting
<1>4. Covered'
    BY <1>3, TaskFields DEF Covered, OnlyMoves, Same, Inv
<1>5. Kept'
    BY <1>1, <1>2, <1>3 DEF Kept, Inv, TypeOK
<1> QED
    BY <1>4, <1>5

(* A request that moves and commits nothing: no deletion is given up.       *)
LEMMA RequestKept ==
    ASSUME Inv, Covered, Kept, NEW q \in Reqs, NEW k \in ReqState, req' = [req EXCEPT ![q] = k],
           UNCHANGED <<file, chunks>>,
           ~(req[q].pc = "holding" /\ req[q].kind = "delete"),
           k.pc # "idle" /\ k.inline => k.kind = "delete",
           NEW kind \in {"process", "clean"}, NEW f \in Files, OnlyMoves \/ OnlySends(kind, f),
           kind = "clean" => k.pc = "holding" /\ k.kind = "delete" /\ k.file = f
    PROVE  Covered' /\ Kept'
<1>1. \A p \in Reqs : req'[p] = IF p = q THEN k ELSE req[p]
    BY DEF Inv, TypeOK
<1>2. \A g : Deleting(g) => Deleting(g)'
    BY <1>1 DEF Deleting
<1>3. kind = "clean" => Deleting(f)'
    BY <1>1 DEF Deleting
<1>4. Covered'
    BY <1>1, <1>2, <1>3 DEF Covered, OnlyMoves, OnlySends, Same
<1>5. Kept'
    BY <1>2 DEF Kept
<1> QED
    BY <1>4, <1>5

LEMMA StartsKept ==
    ASSUME Inv, Covered, Kept, NEW q \in Reqs, NEW f \in Files, NEW kind \in Kinds,
           NEW approver \in BOOLEAN, RequestUpload(q, f) \/ RequestReads(q, f, kind, approver)
    PROVE  Covered' /\ Kept'
<1>1. PICK pc \in {"read", "holding"}, kd \in Kinds, ap \in BOOLEAN :
          req' = [req EXCEPT ![q] = [pc |-> pc, kind |-> kd, file |-> f,
                                     approver |-> ap, inline |-> FALSE]]
    BY DEF RequestUpload, RequestReads, Kinds
<1> DEFINE k == [pc |-> pc, kind |-> kd, file |-> f, approver |-> ap, inline |-> FALSE]
<1>2. req' = [req EXCEPT ![q] = k] /\ k \in ReqState /\ ~k.inline
    BY <1>1 DEF ReqState
<1> HIDE DEF k
<1>3. UNCHANGED <<file, chunks, task>> /\ req[q].pc = "idle"
    BY DEF RequestUpload, RequestReads
<1>4. OnlyMoves
    BY <1>3, Unmoved DEF Inv
<1> QED
    BY <1>2, <1>3, <1>4, RequestKept

LEMMA WritesKept ==
    ASSUME Inv, Covered, Kept, NEW q \in Reqs,
           ApprovalWrites(q) \/ ReprocessWrites(q) \/ DeleteWrites(q)
    PROVE  Covered' /\ Kept'
<1>1. req[q].pc = "read" /\ UNCHANGED <<file, chunks>>
    BY DEF ApprovalWrites, ReprocessWrites, DeleteWrites
<1>2. req[q] \in [pc : {"read", "holding", "send"}, kind : Kinds, file : Files,
                  approver : BOOLEAN, inline : BOOLEAN] /\ req[q].file \in Files
    BY <1>1, ReqFields DEF Inv
<1>3. CASE ApprovalWrites(q) \/ ReprocessWrites(q)
  <2> DEFINE k == [req[q] EXCEPT !.pc = "holding"]
  <2>1. req' = [req EXCEPT ![q] = k]
    BY <1>3 DEF ApprovalWrites, ReprocessWrites, Inv, TypeOK
  <2>2. k \in ReqState /\ k.inline = req[q].inline /\ k.kind = req[q].kind
    BY <1>2 DEF ReqState
  <2>3. OnlyMoves \/ OnlySends("process", req[q].file)
    BY <1>2, <1>3, Unmoved, SentSends DEF ApprovalWrites, ReprocessWrites, Inv
  <2>4. k.pc # "idle" /\ k.inline => k.kind = "delete"
    BY <1>1, <2>2 DEF Covered
  <2> HIDE DEF k
  <2> QED
    BY <1>1, <1>2, <2>1, <2>2, <2>3, <2>4, RequestKept
<1>4. CASE DeleteWrites(q)
  <2>1. PICK inline \in BOOLEAN : req' = [req EXCEPT ![q] = [req[q] EXCEPT !.pc = "holding", !.inline = inline]]
    <3>1. req[q] = [req[q] EXCEPT !.inline = req[q].inline] /\ req[q].inline \in BOOLEAN
      BY <1>2
    <3>2. CASE req' = [req EXCEPT ![q].pc = "holding"]
      BY <3>1, <3>2 DEF Inv, TypeOK
    <3>3. CASE req' = [req EXCEPT ![q].pc = "holding", ![q].inline = TRUE]
      BY <3>3 DEF Inv, TypeOK
    <3> QED
      BY <1>4, <3>2, <3>3 DEF DeleteWrites
  <2> DEFINE k == [req[q] EXCEPT !.pc = "holding", !.inline = inline]
  <2>2. k \in ReqState /\ k.pc = "holding" /\ k.kind = "delete" /\ k.file = req[q].file
    BY <1>2, <1>4 DEF ReqState, DeleteWrites
  <2>3. OnlySends("clean", req[q].file)
    BY <1>2, <1>4, SentSends DEF DeleteWrites, Inv
  <2> HIDE DEF k
  <2>4. req' = [req EXCEPT ![q] = k]
    BY <2>1 DEF k
  <2> QED
    BY <1>1, <1>2, <2>2, <2>3, <2>4, RequestKept
<1> QED
    BY <1>3, <1>4

LEMMA EndsKept ==
    ASSUME ~Aborts, Inv, Covered, Kept, NEW q \in Reqs, RequestAborts(q) \/ ReprocessSends(q)
    PROVE  Covered' /\ Kept'
<1>1. /\ req[q].pc # "idle" /\ req' = [req EXCEPT ![q] = NoReq] /\ UNCHANGED <<file, chunks>>
      /\ ~(req[q].pc = "holding" /\ req[q].kind = "delete")
    BY DEF RequestAborts, ReprocessSends
<1>2. req[q].file \in Files
    BY <1>1, ReqFields DEF Inv
<1>3. OnlyMoves \/ OnlySends("process", req[q].file)
    BY <1>2, Unmoved, SentSends DEF RequestAborts, ReprocessSends, Inv
<1> QED
    BY <1>1, <1>2, <1>3, NoReqState, RequestKept

LEMMA CommitKept ==
    ASSUME Inv, Covered, Kept, NEW q \in Reqs, RequestCommits(q)
    PROVE  Covered' /\ Kept'
<1>0. PICK f \in Files : f = req[q].file
    BY RequestEffect
<1> DEFINE row == Written(req[q])
<1>1. /\ req[q].pc = "holding" /\ f \in Files
      /\ file' = [file EXCEPT ![f] = row]
      /\ chunks' = [chunks EXCEPT ![f] = @ /\ ~req[q].inline]
      /\ UNCHANGED task
      /\ row.status = "ready" => req[q].kind = "delete"
      /\ req[q].kind # "upload" /\ file[f].deleted => row.deleted
      /\ req[q].kind = "delete" => row.deleted
    BY <1>0, RequestEffect
<1>2. PICK k : /\ req' = [req EXCEPT ![q] = k]
               /\ k.pc # "idle" => k.kind = req[q].kind /\ k.inline = req[q].inline
                                   /\ k.kind # "delete"
  <2>1. CASE req[q].kind = "reprocess"
    <3> DEFINE k == [req[q] EXCEPT !.pc = "send"]
    <3>1. req' = [req EXCEPT ![q] = k]
      BY <2>1 DEF RequestCommits
    <3>2. k.kind = req[q].kind /\ k.inline = req[q].inline
      BY <1>1, ReqFields DEF Inv
    <3> HIDE DEF k
    <3> QED
      BY <2>1, <3>1, <3>2
  <2>2. CASE req[q].kind # "reprocess"
    BY <2>2, NoReqState DEF RequestCommits
  <2> QED
    BY <2>1, <2>2
<1> HIDE DEF row
<1>3. \A g \in Files : file'[g] = IF g = f THEN row ELSE file[g]
    BY <1>1 DEF Inv, TypeOK
<1>4. \A p \in Reqs : req'[p] = IF p = q THEN k ELSE req[p]
    BY <1>2 DEF Inv, TypeOK
<1>5. file[f].deleted => req[q].kind # "upload"
    BY <1>0, <1>1 DEF Inv, Asked, DeletedExists
<1>6. \A g \in Files : Deleting(g) => Deleting(g)'
    BY <1>0, <1>1, <1>3, <1>4, <1>5 DEF Deleting
<1>7. \A t \in Tasks : task'[t].pc # "idle" /\ task'[t].kind = "clean" => Deleting(task[t].file)'
    BY <1>1, <1>6, TaskFields DEF Covered, Inv
<1>8. \A p \in Reqs : req'[p].pc # "idle" /\ req'[p].inline => req'[p].kind = "delete"
    <2>1. req[q].inline => req[q].kind = "delete"
      BY <1>1 DEF Covered
    <2> QED
      BY <1>2, <1>4, <2>1 DEF Covered
<1>9. Covered'
    BY <1>7, <1>8 DEF Covered
<1>10. req[q].kind = "delete" => Deleting(f)'
    BY <1>1, <1>3 DEF Deleting
<1>11. req[q].inline => req[q].kind = "delete"
    BY <1>1 DEF Covered
<1>12. \A g \in Files : chunks[g] => chunks'[g] \/ (g = f /\ req[q].kind = "delete")
    BY <1>1, <1>11 DEF Inv, TypeOK
<1>13. Kept'
    BY <1>1, <1>3, <1>6, <1>10, <1>12 DEF Kept
<1> QED
    BY <1>9, <1>13

LEMMA NextKept ==
    ASSUME ~Aborts, Inv, Covered, Kept, [Next]_vars
    PROVE  Covered' /\ Kept'
<1>1. ASSUME NEW q \in Reqs, Request(q) PROVE Covered' /\ Kept'
  <2>1. ASSUME NEW f \in Files, RequestUpload(q, f) PROVE Covered' /\ Kept'
    BY <2>1, StartsKept DEF Kinds
  <2>2. ASSUME NEW f \in Files, NEW kind \in Kinds, NEW approver \in BOOLEAN,
               RequestReads(q, f, kind, approver)
        PROVE Covered' /\ Kept'
    BY <2>2, StartsKept
  <2>3. CASE ApprovalWrites(q) \/ ReprocessWrites(q) \/ DeleteWrites(q)
    BY <2>3, WritesKept
  <2>4. CASE RequestCommits(q)
    BY <2>4, CommitKept
  <2>5. CASE RequestAborts(q) \/ ReprocessSends(q)
    BY <2>5, EndsKept
  <2> QED
    BY <1>1, <2>1, <2>2, <2>3, <2>4, <2>5 DEF Request, Answer
<1>2. ASSUME NEW f \in Files, BrowserPuts(f) PROVE Covered' /\ Kept'
    BY <1>2, Unmoved, QuietKept DEF BrowserPuts, Inv
<1>3. ASSUME NEW t \in Tasks, Process(t) \/ CleanRuns(t) \/ TaskDies(t) PROVE Covered' /\ Kept'
  <2>1. CASE \/ ProcessStarts(t) \/ ProcessEmbeds(t) \/ ProcessFails(t) \/ ProcessClears(t)
             \/ ProcessUpdates(t) \/ ProcessRefused(t) \/ TaskDies(t)
    BY <2>1, MoveOnly, QuietKept DEF Inv
  <2>2. CASE ProcessCommits(t)
    BY <2>2, CommitEffect, StatusKept
  <2>3. CASE ProcessRecordsError(t)
    BY <2>3, ErrorEffect, StatusKept
  <2>4. CASE CleanRuns(t)
    <3>1. Deleting(task[t].file)
      BY <2>4, CleanEffect DEF Covered
    <3>2. \A f \in Files : chunks[f] => chunks'[f] \/ Deleting(f)
      BY <2>4, <3>1, CleanEffect DEF Inv, TypeOK
    <3> QED
      BY <2>4, <3>2, CleanEffect, QuietKept
  <2> QED
    BY <1>3, <2>1, <2>2, <2>3, <2>4 DEF Process
<1>4. CASE UNCHANGED vars
    BY <1>4, Unmoved, QuietKept DEF vars, Inv
<1> QED
    BY <1>1, <1>2, <1>3, <1>4 DEF Next, Steps

(* A live ready file has its chunks, however many tasks index it at once    *)
(* (_process), as long as no delete_file is rolled back after its delay().  *)
THEOREM ReadyAlwaysHasChunks ==
    ASSUME ~Aborts
    PROVE  Spec => []ReadyHasChunks
<1>1. Init => Inv /\ Covered /\ Kept
    BY InitInv, InitKept
<1>2. Inv /\ Covered /\ Kept /\ [Next]_vars => (Inv /\ Covered /\ Kept)'
    BY NextInv, NextKept
<1>3. Inv /\ Covered /\ Kept => ReadyHasChunks
    BY DEF Kept, Deleting, ReadyHasChunks, Live
<1> QED
    BY <1>1, <1>2, <1>3, PTL DEF Spec

-----------------------------------------------------------------------------
(* The quota row counts the live files.                                     *)

(* Steps that make no file live or dead.                                    *)
LEMMA SameCounted ==
    ASSUME QuotaCountsFiles, UNCHANGED usage,
           \A f \in Files : (file'[f].status # "none" /\ ~file'[f].deleted) <=> Live(f)
    PROVE  QuotaCountsFiles'
<1>1. LiveFiles' = LiveFiles
    BY DEF LiveFiles, Live
<1> QED
    BY <1>1 DEF QuotaCountsFiles, usage

(* A task writes the status of a row there is.                              *)
LEMMA StatusCounted ==
    ASSUME Inv, QuotaCountsFiles, NEW f \in Files, file[f].status # "none",
           NEW s \in {"ready", "error"},
           file' = [file EXCEPT ![f] = [file[f] EXCEPT !.status = s]], UNCHANGED usage
    PROVE  QuotaCountsFiles'
<1> DEFINE row == [file[f] EXCEPT !.status = s]
<1>1. row.status = s /\ row.deleted = file[f].deleted
    BY DEF Inv, TypeOK, FileRow
<1> HIDE DEF row
<1>2. \A g \in Files : file'[g] = IF g = f THEN row ELSE file[g]
    BY DEF Inv, TypeOK, row
<1> QED
    BY <1>1, <1>2, SameCounted DEF Live

(* The row a request commits, and what the quota row becomes with it.       *)
LEMMA CommitRow ==
    ASSUME Inv, NEW q \in Reqs, RequestCommits(q)
    PROVE  \E f \in Files, row \in FileRow :
           /\ \A g \in Files : file'[g] = IF g = f THEN row ELSE file[g]
           /\ row.status # "none"
           /\ \/ /\ req[q].kind = "upload" /\ ~Live(f) /\ ~row.deleted
                 /\ quota' = quota + 1 /\ redeleted' = redeleted
              \/ /\ req[q].kind = "delete" /\ Live(f) /\ row.deleted
                 /\ quota' = quota - 1 /\ redeleted' = redeleted
              \/ /\ req[q].kind = "delete" /\ ~Live(f) /\ row.deleted
                 /\ quota' = quota - 1 /\ redeleted' = redeleted + 1
              \/ /\ req[q].kind \notin {"upload", "delete"}
                 /\ file[f].status # "none" /\ row.deleted = file[f].deleted
                 /\ UNCHANGED usage
<1>0. PICK f \in Files : f = req[q].file
    BY RequestEffect
<1>1. PICK row \in FileRow : row = Written(req[q])
    BY RequestEffect
<1>2. /\ req[q].pc = "holding" /\ row.status # "none"
      /\ \A g \in Files : file'[g] = IF g = f THEN row ELSE file[g]
      /\ req[q].kind = "delete" => row.deleted
    BY <1>0, <1>1, RequestEffect DEF Inv, TypeOK
<1>3. req[q].kind \in Kinds
    BY <1>2, ReqFields DEF Inv
<1>4. file[f] \in FileRow
    BY DEF Inv, TypeOK
<1>5. CASE req[q].kind = "upload"
  <2>1. ~row.deleted
    BY <1>1, <1>5 DEF Written
  <2>2. quota' = quota + 1 /\ redeleted' = redeleted
    BY <1>5 DEF RequestCommits
  <2>3. ~Live(f)
    BY <1>0, <1>2, <1>5 DEF Inv, Asked, Live
  <2> QED
    BY <1>2, <1>5, <2>1, <2>2, <2>3
<1>6. CASE req[q].kind = "delete"
  <2>1. quota' = quota - 1
    BY <1>6 DEF RequestCommits
  <2>2. redeleted' = IF file[f].deleted THEN redeleted + 1 ELSE redeleted
    BY <1>0, <1>6 DEF RequestCommits
  <2>3. Live(f) <=> ~file[f].deleted
    BY <1>0, <1>2, <1>6 DEF Inv, Asked, Live
  <2> QED
    BY <1>2, <1>6, <2>1, <2>2, <2>3
<1>7. CASE req[q].kind \in {"confirm", "approve", "reprocess"}
  <2>1. PICK s \in Status : row = [file[f] EXCEPT !.status = s]
    BY <1>0, <1>1, <1>7 DEF Written, Status
  <2>2. row.deleted = file[f].deleted
    BY <2>1, <1>4 DEF FileRow
  <2>3. file[f].status # "none"
    BY <1>0, <1>2, <1>7 DEF Inv, Asked
  <2>4. UNCHANGED usage
    BY <1>7 DEF RequestCommits, usage
  <2> QED
    BY <1>2, <1>7, <2>2, <2>3, <2>4
<1> QED
    BY <1>3, <1>5, <1>6, <1>7 DEF Kinds

LEMMA CommitCounted ==
    ASSUME IsFiniteSet(Files), Inv, QuotaCountsFiles, NEW q \in Reqs, RequestCommits(q)
    PROVE  QuotaCountsFiles'
<1>1. PICK f \in Files, row \in FileRow :
           /\ \A g \in Files : file'[g] = IF g = f THEN row ELSE file[g]
           /\ row.status # "none"
           /\ \/ /\ req[q].kind = "upload" /\ ~Live(f) /\ ~row.deleted
                 /\ quota' = quota + 1 /\ redeleted' = redeleted
              \/ /\ req[q].kind = "delete" /\ Live(f) /\ row.deleted
                 /\ quota' = quota - 1 /\ redeleted' = redeleted
              \/ /\ req[q].kind = "delete" /\ ~Live(f) /\ row.deleted
                 /\ quota' = quota - 1 /\ redeleted' = redeleted + 1
              \/ /\ req[q].kind \notin {"upload", "delete"}
                 /\ file[f].status # "none" /\ row.deleted = file[f].deleted
                 /\ UNCHANGED usage
    BY CommitRow
<1>2. LiveFiles' = {g \in Files : file'[g].status # "none" /\ ~file'[g].deleted}
    BY DEF LiveFiles, Live
<1>3. LiveFiles \subseteq Files /\ IsFiniteSet(LiveFiles)
    BY FS_Subset DEF LiveFiles
<1>4. Cardinality(LiveFiles) \in Nat /\ quota \in Int /\ redeleted \in Nat
    BY <1>3, FS_CardinalityType DEF Inv, TypeOK
<1>5. quota = Cardinality(LiveFiles) - redeleted
    BY DEF QuotaCountsFiles
<1>6. ASSUME ~Live(f), ~row.deleted, quota' = quota + 1, redeleted' = redeleted
      PROVE  QuotaCountsFiles'
  <2>1. LiveFiles' = LiveFiles \cup {f} /\ f \notin LiveFiles
    BY <1>1, <1>2, <1>6 DEF LiveFiles, Live
  <2>2. Cardinality(LiveFiles') = Cardinality(LiveFiles) + 1
    BY <1>3, <2>1, FS_AddElement
  <2> QED
    BY <1>4, <1>5, <1>6, <2>2 DEF QuotaCountsFiles
<1>7. ASSUME Live(f), row.deleted, quota' = quota - 1, redeleted' = redeleted
      PROVE  QuotaCountsFiles'
  <2>1. LiveFiles' = LiveFiles \ {f} /\ f \in LiveFiles
    BY <1>1, <1>2, <1>7 DEF LiveFiles, Live
  <2>2. Cardinality(LiveFiles') = Cardinality(LiveFiles) - 1
    BY <1>3, <2>1, FS_RemoveElement
  <2> QED
    BY <1>4, <1>5, <1>7, <2>2 DEF QuotaCountsFiles
<1>8. ASSUME ~Live(f), row.deleted, quota' = quota - 1, redeleted' = redeleted + 1
      PROVE  QuotaCountsFiles'
  <2>1. LiveFiles' = LiveFiles
    BY <1>1, <1>2, <1>8 DEF LiveFiles, Live
  <2> QED
    BY <1>4, <1>5, <1>8, <2>1 DEF QuotaCountsFiles
<1>9. ASSUME file[f].status # "none", row.deleted = file[f].deleted, UNCHANGED usage
      PROVE  QuotaCountsFiles'
    BY <1>1, <1>9, SameCounted DEF Live
<1> QED
    BY <1>1, <1>6, <1>7, <1>8, <1>9

LEMMA NextCounted ==
    ASSUME IsFiniteSet(Files), Inv, QuotaCountsFiles, [Next]_vars
    PROVE  QuotaCountsFiles'
<1>1. CASE UNCHANGED <<file, usage>>
    BY <1>1, SameCounted DEF Live
<1>2. ASSUME NEW q \in Reqs, Request(q) PROVE QuotaCountsFiles'
  <2>1. CASE RequestCommits(q)
    BY <2>1, CommitCounted
  <2>2. CASE ~RequestCommits(q)
    BY <1>1, <1>2, <2>2
       DEF Request, Answer, RequestUpload, RequestReads, ApprovalWrites, ReprocessWrites,
           DeleteWrites, ReprocessSends, RequestAborts
  <2> QED
    BY <2>1, <2>2
<1>3. ASSUME NEW t \in Tasks, Process(t) \/ CleanRuns(t) \/ TaskDies(t) PROVE QuotaCountsFiles'
  <2>1. CASE ProcessCommits(t)
    <3>1. /\ task[t].file \in Files /\ file[task[t].file].status # "none"
          /\ file' = [file EXCEPT ![task[t].file] = [file[task[t].file] EXCEPT !.status = "ready"]]
          /\ UNCHANGED usage
      BY <2>1, CommitEffect DEF Inv, Gated
    <3> QED
      BY <3>1, StatusCounted
  <2>2. CASE ProcessRecordsError(t)
    <3>1. /\ task[t].file \in Files /\ file[task[t].file].status # "none"
          /\ file' = [file EXCEPT ![task[t].file] = [file[task[t].file] EXCEPT !.status = "error"]]
          /\ UNCHANGED usage
      BY <2>2, ErrorEffect DEF Inv, Gated
    <3> QED
      BY <3>1, StatusCounted
  <2>3. CASE CleanRuns(t)
    BY <1>1, <2>3 DEF CleanRuns
  <2>4. CASE \/ ProcessStarts(t) \/ ProcessEmbeds(t) \/ ProcessFails(t) \/ ProcessClears(t)
             \/ ProcessUpdates(t) \/ ProcessRefused(t) \/ TaskDies(t)
    BY <1>1, <2>4, MoveOnly DEF Inv
  <2> QED
    BY <1>3, <2>1, <2>2, <2>3, <2>4 DEF Process
<1>4. CASE \E f \in Files : BrowserPuts(f)
    BY <1>1, <1>4 DEF BrowserPuts
<1>5. CASE UNCHANGED vars
    BY <1>1, <1>5 DEF vars, usage
<1> QED
    BY <1>2, <1>3, <1>4, <1>5 DEF Next, Steps

LEMMA InitCounted == Init => QuotaCountsFiles
<1> SUFFICES ASSUME Init PROVE QuotaCountsFiles
    OBVIOUS
<1>1. LiveFiles = {}
    BY DEF Init, LiveFiles, Live
<1> QED
    BY <1>1, FS_EmptySet DEF Init, QuotaCountsFiles

(* add_usage, subtract_usage and the soft delete are one transaction each:  *)
(* only a second deletion of a file takes the count off the files.          *)
THEOREM QuotaAlwaysCounts ==
    ASSUME IsFiniteSet(Files)
    PROVE  Spec => []QuotaCountsFiles
<1>1. Init => Inv /\ QuotaCountsFiles
    BY InitInv, InitCounted
<1>2. Inv /\ QuotaCountsFiles /\ [Next]_vars => (Inv /\ QuotaCountsFiles)'
    BY NextInv, NextCounted
<1> QED
    BY <1>1, <1>2, PTL DEF Spec

-----------------------------------------------------------------------------
(* The row lock of check_and_lock.                                          *)

Uploads(q) == req[q].pc = "holding" /\ req[q].kind = "upload"

(* One upload at a time has the lock, and what it checked still holds.      *)
Checked ==
    /\ \A p, q \in Reqs : Uploads(p) /\ Uploads(q) => p = q
    /\ quota <= Limit
    /\ \A q \in Reqs : Uploads(q) => quota < Limit

(* No request takes the lock.                                               *)
LEMMA SameChecked ==
    ASSUME Checked, UNCHANGED usage,
           \A p \in Reqs : req'[p].pc = "holding" /\ req'[p].kind = "upload" => Uploads(p)
    PROVE  Checked'
<1>1. \A p \in Reqs : Uploads(p)' => Uploads(p)
    BY DEF Uploads
<1> QED
    BY <1>1 DEF Checked, usage

LEMMA UploadChecked ==
    ASSUME Inv, Checked, NEW q \in Reqs, NEW f \in Files, RequestUpload(q, f)
    PROVE  Checked'
<1>1. \A p \in Reqs : ~Uploads(p)
    BY DEF RequestUpload, QuotaLocked, Uploads
<1>2. \A p \in Reqs : p # q => req'[p] = req[p]
    BY DEF RequestUpload, Inv, TypeOK
<1>3. \A p \in Reqs : Uploads(p)' => p = q
    BY <1>1, <1>2 DEF Uploads
<1>4. quota < Limit /\ quota' = quota
    BY DEF RequestUpload, usage
<1> QED
    BY <1>3, <1>4 DEF Checked

LEMMA CommitChecked ==
    ASSUME Inv, Checked, NEW q \in Reqs, RequestCommits(q)
    PROVE  Checked'
<1>1. req[q].pc = "holding" /\ quota \in Int
    BY DEF RequestCommits, Inv, TypeOK
<1>2. req[q].kind = "delete" => \A p \in Reqs : ~Uploads(p)
    BY DEF RequestCommits, QuotaLocked, Uploads
<1>3. \A p \in Reqs : req'[p].pc = "holding" /\ req'[p].kind = "upload" => Uploads(p) /\ p # q
  <2>1. \A p \in Reqs : p # q => req'[p] = req[p]
    BY DEF RequestCommits, Inv, TypeOK
  <2>2. req'[q].pc # "holding" \/ req'[q].kind # "upload"
    <3>1. CASE req[q].kind = "reprocess"
      <4>1. req'[q] = [req[q] EXCEPT !.pc = "send"]
        BY <3>1 DEF RequestCommits, Inv, TypeOK
      <4> QED
        BY <4>1, <1>1, ReqFields DEF Inv
    <3>2. CASE req[q].kind # "reprocess"
      BY <3>2, NoReqState DEF RequestCommits, Inv, TypeOK
    <3> QED
      BY <3>1, <3>2
  <2> QED
    BY <2>1, <2>2 DEF Uploads
<1>4. CASE req[q].kind = "upload"
  <2>1. Uploads(q) /\ quota' = quota + 1
    BY <1>1, <1>4 DEF Uploads, RequestCommits
  <2>2. \A p \in Reqs : ~Uploads(p)'
    BY <1>3, <2>1 DEF Checked, Uploads
  <2>3. quota' <= Limit
    BY <1>1, <2>1, LimitsAssumption DEF Checked
  <2> QED
    BY <2>2, <2>3 DEF Checked
<1>5. CASE req[q].kind = "delete"
  <2>1. quota' = quota - 1
    BY <1>5 DEF RequestCommits
  <2>2. \A p \in Reqs : ~Uploads(p)'
    BY <1>2, <1>3, <1>5 DEF Uploads
  <2>3. quota' <= Limit
    BY <1>1, <2>1, LimitsAssumption DEF Checked
  <2> QED
    BY <2>2, <2>3 DEF Checked
<1>6. CASE req[q].kind \notin {"upload", "delete"}
  <2>1. UNCHANGED usage
    BY <1>6 DEF RequestCommits, usage
  <2> QED
    BY <1>3, <2>1, SameChecked
<1> QED
    BY <1>4, <1>5, <1>6

LEMMA NextChecked ==
    ASSUME Inv, Checked, [Next]_vars
    PROVE  Checked'
<1>1. ASSUME NEW q \in Reqs, Request(q) PROVE Checked'
  <2>1. ASSUME NEW f \in Files, RequestUpload(q, f) PROVE Checked'
    BY <2>1, UploadChecked
  <2>2. CASE RequestCommits(q)
    BY <2>2, CommitChecked
  <2>3. ASSUME NEW f \in Files, NEW kind \in Kinds, NEW approver \in BOOLEAN,
               RequestReads(q, f, kind, approver)
        PROVE Checked'
    BY <2>3, SameChecked DEF RequestReads, Uploads, Inv, TypeOK
  <2>4. CASE ApprovalWrites(q) \/ ReprocessWrites(q) \/ DeleteWrites(q)
    <3>1. req[q].pc = "read" /\ req[q].kind # "upload" /\ UNCHANGED usage
      BY <2>4 DEF ApprovalWrites, ReprocessWrites, DeleteWrites
    <3>2. PICK inline \in BOOLEAN : req' = [req EXCEPT ![q] = [req[q] EXCEPT !.pc = "holding", !.inline = inline]]
      <4>1. req[q] = [req[q] EXCEPT !.inline = req[q].inline] /\ req[q].inline \in BOOLEAN
        BY <3>1, ReqFields DEF Inv
      <4>2. CASE req' = [req EXCEPT ![q].pc = "holding"]
        BY <4>1, <4>2 DEF Inv, TypeOK
      <4>3. CASE req' = [req EXCEPT ![q].pc = "holding", ![q].inline = TRUE]
        BY <4>3 DEF Inv, TypeOK
      <4> QED
        BY <2>4, <4>2, <4>3 DEF ApprovalWrites, ReprocessWrites, DeleteWrites
    <3> DEFINE k == [req[q] EXCEPT !.pc = "holding", !.inline = inline]
    <3>3. k.kind = req[q].kind
      BY <3>1, ReqFields DEF Inv
    <3>4. \A p \in Reqs : req'[p] = IF p = q THEN k ELSE req[p]
      BY <3>2 DEF Inv, TypeOK
    <3> HIDE DEF k
    <3> QED
      BY <3>1, <3>3, <3>4, SameChecked DEF Uploads
  <2>5. CASE ReprocessSends(q) \/ RequestAborts(q)
    BY <2>5, NoReqState, SameChecked DEF ReprocessSends, RequestAborts, Uploads, Inv, TypeOK
  <2> QED
    BY <1>1, <2>1, <2>2, <2>3, <2>4, <2>5 DEF Request, Answer
<1>2. CASE UNCHANGED <<req, usage>>
    BY <1>2, SameChecked DEF Uploads
<1>3. ASSUME NEW t \in Tasks, Process(t) \/ CleanRuns(t) \/ TaskDies(t) PROVE Checked'
    BY <1>2, <1>3
       DEF Process, ProcessStarts, ProcessEmbeds, ProcessFails, ProcessClears, ProcessUpdates,
           ProcessCommits, ProcessRefused, ProcessRecordsError, CleanRuns, TaskDies
<1>4. CASE \E f \in Files : BrowserPuts(f)
    BY <1>2, <1>4 DEF BrowserPuts
<1>5. CASE UNCHANGED vars
    BY <1>2, <1>5 DEF vars, usage
<1> QED
    BY <1>1, <1>3, <1>4, <1>5 DEF Next, Steps

(* Uploads that race for the last place never exceed the limit, as long as  *)
(* no file was deleted twice (check_and_lock, request_upload_url).          *)
THEOREM LimitAlwaysHolds ==
    ASSUME IsFiniteSet(Files)
    PROVE  Spec => []LimitHolds
<1>1. Init => Inv /\ QuotaCountsFiles /\ Checked
  <2>1. Init => Checked
    BY LimitsAssumption, NoReqState DEF Init, Checked, Uploads
  <2> QED
    BY <2>1, InitInv, InitCounted
<1>2. Inv /\ QuotaCountsFiles /\ Checked /\ [Next]_vars => (Inv /\ QuotaCountsFiles /\ Checked)'
    BY NextInv, NextCounted, NextChecked
<1>3. Inv /\ QuotaCountsFiles /\ Checked => LimitHolds
  <2> SUFFICES ASSUME Inv, QuotaCountsFiles, Checked, redeleted = 0
               PROVE  Cardinality(LiveFiles) <= Limit
    BY DEF LimitHolds
  <2>1. Cardinality(LiveFiles) \in Nat
    BY FS_Subset, FS_CardinalityType DEF LiveFiles
  <2> QED
    BY <2>1 DEF QuotaCountsFiles, Checked
<1> QED
    BY <1>1, <1>2, <1>3, PTL DEF Spec

(* Both, for any number of files, requests and tasks: what the quota counts  *)
(* and what it allows agree up to a second deletion of a file.               *)
THEOREM QuotaAlwaysHolds ==
    ASSUME IsFiniteSet(Files)
    PROVE  Spec => []QuotaHolds
BY QuotaAlwaysCounts, LimitAlwaysHolds, PTL DEF QuotaHolds
=============================================================================
