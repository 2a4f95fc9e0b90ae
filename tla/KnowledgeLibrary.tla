---------------------------- MODULE KnowledgeLibrary ----------------------------
(***************************************************************************)
(* The knowledge library: files of one scope, uploaded, confirmed,         *)
(* approved, reprocessed and deleted by requests (knowledge_service.py),   *)
(* the quota row of the scope (quota_service.py) and the Celery tasks that *)
(* index a file or clean up after a deletion (knowledge_worker.py).        *)
(*                                                                         *)
(* A request reads the file, then updates it under a row lock it holds     *)
(* until its commit; confirm, approve and delete send their task before    *)
(* that commit, reprocess after it.                                        *)
(***************************************************************************)
EXTENDS Integers, FiniteSets

CONSTANTS
    Files,       \* ids of knowledge_files rows of one scope
    Reqs,        \* requests that may be in flight at once
    Tasks,       \* task messages that may be at the broker or executing at once
    Limit,       \* the scope's "files" limit
    Retries,     \* max_retries of a task
    MultiPage,   \* files whose text comes in several segments (PDF pages)
    Lossy,       \* whether the broker may refuse a message
    Aborts       \* whether a request may fail after it sent its task

ASSUME LimitsAssumption == Limit \in Nat /\ Retries \in Nat
ASSUME FailuresAssumption == Lossy \in BOOLEAN /\ Aborts \in BOOLEAN

VARIABLES
    file,      \* knowledge_files
    chunks,    \* whether a file has rows in knowledge_file_chunks
    blob,      \* whether the storage holds the blob of a file
    quota,     \* files_count of the scope's knowledge_quota_usages row
    redeleted, \* history: deletions committed of a file already deleted
    req,       \* requests in flight
    task,      \* process_file_for_context and delete_file_and_chunks messages
    approved   \* history: files an owner or admin confirmed or approved

usage == <<quota, redeleted>>
vars  == <<file, chunks, blob, quota, redeleted, req, task, approved>>

-----------------------------------------------------------------------------
Status  == {"none", "pending", "pending_approval", "processing", "ready", "error"}
Kinds   == {"upload", "confirm", "approve", "reprocess", "delete"}
FileRow == [status : Status, deleted : BOOLEAN]
NoReq   == [pc |-> "idle"]
ReqState == [pc : {"read", "holding", "send"}, kind : Kinds, file : Files,
             approver : BOOLEAN, inline : BOOLEAN] \cup {NoReq}
NoTask  == [pc |-> "idle"]
TaskState == [pc : {"queued", "reading", "embedded", "cleared", "updated", "failed"},
              kind : {"process", "clean"}, file : Files, tries : 0..Retries,
              clear : BOOLEAN] \cup {NoTask}

TypeOK ==
    /\ file     \in [Files -> FileRow]
    /\ chunks   \in [Files -> BOOLEAN]
    /\ blob     \in [Files -> BOOLEAN]
    /\ quota    \in Int /\ redeleted \in Nat
    /\ req      \in [Reqs -> ReqState]
    /\ task     \in [Tasks -> TaskState]
    /\ approved \in SUBSET Files

Init ==
    /\ file     = [f \in Files |-> [status |-> "none", deleted |-> FALSE]]
    /\ chunks   = [f \in Files |-> FALSE]
    /\ blob     = [f \in Files |-> FALSE]
    /\ quota    = 0 /\ redeleted = 0
    /\ req      = [q \in Reqs |-> NoReq]
    /\ task     = [t \in Tasks |-> NoTask]
    /\ approved = {}

Live(f) == file[f].status # "none" /\ ~file[f].deleted

-----------------------------------------------------------------------------
(* Locks that a transaction holds until it ends.                            *)

Locked(f) ==
    \/ \E q \in Reqs : req[q].pc = "holding" /\ req[q].kind # "upload" /\ req[q].file = f
    \/ \E t \in Tasks : task[t].pc = "updated" /\ task[t].file = f

QuotaUnlocked == FALSE                                             \* mutant
QuotaLocked == \E q \in Reqs : req[q].pc = "holding" /\ req[q].kind = "upload"

\* delay(): the message is at the broker, or the broker refuses it.
Sent(kind, f) ==
    \E t \in Tasks : /\ task[t].pc = "idle"
                     /\ task' = [task EXCEPT ![t] = [pc |-> "queued", kind |-> kind, file |-> f,
                                                     tries |-> 0, clear |-> FALSE]]
Refused == Lossy /\ UNCHANGED task

\* delete_blob: an error of the storage is swallowed.
DeleteBlob(f) ==
    \/ blob[f] /\ blob' = [blob EXCEPT ![f] = FALSE]
    \/ UNCHANGED blob

-----------------------------------------------------------------------------
(* Requests.                                                                *)

\* request_upload_url: check_and_lock and add_usage, before the commit.
RequestUpload(q, f) ==
    /\ req[q].pc = "idle" /\ file[f].status = "none"
    /\ \A p \in Reqs : req[p].pc # "idle" => req[p].file # f
    /\ ~QuotaLocked /\ quota < Limit
    /\ req' = [req EXCEPT ![q] = [pc |-> "holding", kind |-> "upload", file |-> f,
                                  approver |-> FALSE, inline |-> FALSE]]
    /\ UNCHANGED <<file, chunks, blob, usage, task, approved>>

AcceptsAny(kind, f, approver) == kind # "upload" /\ Live(f)        \* mutant
Accepts(kind, f, approver) ==
    /\ Live(f)
    /\ \/ kind = "confirm" /\ file[f].status = "pending"
       \/ kind = "approve" /\ file[f].status = "pending_approval" /\ approver
       \/ kind = "reprocess" /\ file[f].status \in {"error", "ready"}
       \/ kind = "delete"

RequestReads(q, f, kind, approver) ==
    /\ req[q].pc = "idle" /\ Accepts(kind, f, approver)
    /\ req' = [req EXCEPT ![q] = [pc |-> "read", kind |-> kind, file |-> f,
                                  approver |-> approver /\ kind \in {"confirm", "approve"},
                                  inline |-> FALSE]]
    /\ UNCHANGED <<file, chunks, blob, usage, task, approved>>

\* confirm_upload and approve_upload: the UPDATE, then delay().
ApprovalWrites(q) ==
    LET k == req[q] IN
    /\ k.pc = "read" /\ k.kind \in {"confirm", "approve"} /\ ~Locked(k.file)
    /\ req' = [req EXCEPT ![q].pc = "holding"]
    /\ IF k.approver THEN /\ Sent("process", k.file) \/ Refused
                          /\ approved' = approved \cup {k.file}
       ELSE UNCHANGED <<task, approved>>
    /\ UNCHANGED <<file, chunks, blob, usage>>

ReprocessWrites(q) ==
    /\ req[q].pc = "read" /\ req[q].kind = "reprocess" /\ ~Locked(req[q].file)
    /\ req' = [req EXCEPT ![q].pc = "holding"]
    /\ UNCHANGED <<file, chunks, blob, usage, task, approved>>

\* delete_file: the soft delete, then delay(), or the cleanup inline.
DeleteWrites(q) ==
    LET k == req[q] IN
    /\ k.pc = "read" /\ k.kind = "delete" /\ ~Locked(k.file)
    /\ \/ /\ Sent("clean", k.file)
          /\ req' = [req EXCEPT ![q].pc = "holding"]
          /\ UNCHANGED blob
       \/ /\ Refused
          /\ req' = [req EXCEPT ![q].pc = "holding", ![q].inline = TRUE]
          /\ DeleteBlob(k.file)
    /\ UNCHANGED <<file, chunks, usage, approved>>

\* The file row that a request commits.
Written(k) ==
    CASE k.kind = "upload"  -> [status |-> "pending", deleted |-> FALSE]
      [] k.kind = "confirm" -> [file[k.file] EXCEPT !.status = IF k.approver THEN "processing"
                                                               ELSE "pending_approval"]
      [] k.kind = "delete"  -> [file[k.file] EXCEPT !.deleted = TRUE]
      [] OTHER              -> [file[k.file] EXCEPT !.status = "processing"]

RequestCommits(q) ==
    LET k == req[q] IN
    /\ k.pc = "holding" /\ (k.kind = "delete" => ~QuotaLocked)
    /\ file' = [file EXCEPT ![k.file] = Written(k)]
    /\ chunks' = [chunks EXCEPT ![k.file] = @ /\ ~k.inline]
    /\ quota' = CASE k.kind = "upload" -> quota + 1
                  [] k.kind = "delete" -> quota - 1
                  [] OTHER             -> quota
    /\ redeleted' = IF k.kind = "delete" /\ file[k.file].deleted THEN redeleted + 1 ELSE redeleted
    /\ req' = [req EXCEPT ![q] = IF k.kind = "reprocess" THEN [k EXCEPT !.pc = "send"] ELSE NoReq]
    /\ UNCHANGED <<blob, task, approved>>

ReprocessSends(q) ==
    /\ req[q].pc = "send"
    /\ Sent("process", req[q].file) \/ Refused
    /\ req' = [req EXCEPT ![q] = NoReq]
    /\ UNCHANGED <<file, chunks, blob, usage, approved>>

AbortsCounted(q) ==                                                \* mutant
    /\ req[q].pc = "read" \/ (req[q].pc = "holding" /\ (Aborts \/ req[q].kind = "upload"))
    /\ req' = [req EXCEPT ![q] = NoReq]
    /\ quota' = IF req[q].kind = "upload" THEN quota + 1 ELSE quota
    /\ UNCHANGED <<file, chunks, blob, redeleted, task, approved>>

\* A check fails, or the transaction does and is rolled back.
RequestAborts(q) ==
    /\ req[q].pc = "read" \/ (req[q].pc = "holding" /\ (Aborts \/ req[q].kind = "upload"))
    /\ req' = [req EXCEPT ![q] = NoReq]
    /\ UNCHANGED <<file, chunks, blob, usage, task, approved>>

\* The browser puts the content to the signed URL, also late.
BrowserPuts(f) ==
    /\ file[f].status # "none" /\ ~blob[f]
    /\ blob' = [blob EXCEPT ![f] = TRUE]
    /\ UNCHANGED <<file, chunks, usage, req, task, approved>>

-----------------------------------------------------------------------------
(* process_file_for_context.                                                *)

Processing(t, pc) == task[t].pc = pc /\ task[t].kind = "process"

ProcessStarts(t) ==
    /\ Processing(t, "queued")
    /\ task' = [task EXCEPT ![t] = IF Live(task[t].file) THEN [@ EXCEPT !.pc = "reading"] ELSE NoTask]
    /\ UNCHANGED <<file, chunks, blob, usage, req, approved>>

\* The blob is downloaded, split and embedded; each of these may raise.
ProcessEmbeds(t) ==
    /\ Processing(t, "reading") /\ blob[task[t].file]
    /\ task' = [task EXCEPT ![t].pc = "embedded"]
    /\ UNCHANGED <<file, chunks, blob, usage, req, approved>>

ProcessFails(t) ==
    /\ Processing(t, "reading")
    /\ task' = [task EXCEPT ![t].pc = "failed"]
    /\ UNCHANGED <<file, chunks, blob, usage, req, approved>>

ProcessClearsNow(t) ==                                             \* mutant
    /\ Processing(t, "embedded")
    /\ task' = [task EXCEPT ![t].pc = "cleared", ![t].clear = TRUE]
    /\ chunks' = [chunks EXCEPT ![task[t].file] = FALSE]
    /\ UNCHANGED <<file, blob, usage, req, approved>>

\* DELETE of the chunks there are; UPDATE of the file; INSERTs at the commit.
ProcessClears(t) ==
    /\ Processing(t, "embedded")
    /\ task' = [task EXCEPT ![t].pc = "cleared", ![t].clear = TRUE]
    /\ UNCHANGED <<file, chunks, blob, usage, req, approved>>

ProcessUpdates(t) ==
    /\ Processing(t, "cleared") /\ ~Locked(task[t].file)
    /\ task' = [task EXCEPT ![t].pc = "updated"]
    /\ UNCHANGED <<file, chunks, blob, usage, req, approved>>

\* The unique index (file_id, chunk_index): every segment numbers its chunks
\* from 0, and a task does not see the chunks committed since its DELETE.
Duplicates(t) == task[t].file \in MultiPage \/ (chunks[task[t].file] /\ ~task[t].clear)

ProcessCommits(t) ==
    LET f == task[t].file IN
    /\ Processing(t, "updated") /\ ~Duplicates(t)
    /\ file' = [file EXCEPT ![f].status = "ready"]
    /\ chunks' = [chunks EXCEPT ![f] = TRUE]
    /\ task' = [u \in Tasks |-> IF u = t \/ task[u].pc = "idle" THEN
                                    IF u = t THEN NoTask ELSE task[u]
                                ELSE [task[u] EXCEPT !.clear = @ /\ task[u].file # f]]
    /\ UNCHANGED <<blob, usage, req, approved>>

\* self.retry().
RetryOnceMore(t) ==                                                \* mutant
    IF task[t].tries > Retries THEN task' = [task EXCEPT ![t] = NoTask]
    ELSE task' = [task EXCEPT ![t].pc = "queued", ![t].tries = @ + 1, ![t].clear = FALSE]
Retry(t) ==
    \/ /\ task[t].tries < Retries
       /\ task' = [task EXCEPT ![t].pc = "queued", ![t].tries = @ + 1, ![t].clear = FALSE]
    \/ /\ task[t].tries = Retries \/ Lossy
       /\ task' = [task EXCEPT ![t] = NoTask]

\* After the failed flush the session refuses the UPDATE to 'error' as well.
ProcessRefused(t) ==
    /\ Processing(t, "updated") /\ Duplicates(t)
    /\ Retry(t)
    /\ UNCHANGED <<file, chunks, blob, usage, req, approved>>

ProcessErrorLost(t) ==                                             \* mutant
    /\ Processing(t, "failed") /\ Retry(t)
    /\ UNCHANGED <<file, chunks, blob, usage, req, approved>>

ProcessRecordsError(t) ==
    LET f == task[t].file IN
    /\ Processing(t, "failed") /\ ~Locked(f)
    /\ file' = [file EXCEPT ![f].status = "error"]
    /\ Retry(t)
    /\ UNCHANGED <<chunks, blob, usage, req, approved>>

-----------------------------------------------------------------------------
(* delete_file_and_chunks.                                                  *)

CleanRuns(t) ==
    LET f == task[t].file IN
    /\ task[t].pc = "queued" /\ task[t].kind = "clean"
    /\ DeleteBlob(f)
    /\ \/ chunks' = [chunks EXCEPT ![f] = FALSE] /\ task' = [task EXCEPT ![t] = NoTask]
       \/ UNCHANGED chunks /\ Retry(t)
    /\ UNCHANGED <<file, usage, req, approved>>

\* The process dies or is killed at its time limit; the message was acked.
TaskDies(t) ==
    /\ task[t].pc # "idle"
    /\ task' = [task EXCEPT ![t] = NoTask]
    /\ UNCHANGED <<file, chunks, blob, usage, req, approved>>

-----------------------------------------------------------------------------
Process(t) == \/ ProcessStarts(t) \/ ProcessEmbeds(t) \/ ProcessFails(t) \/ ProcessClears(t)
              \/ ProcessUpdates(t) \/ ProcessCommits(t) \/ ProcessRefused(t)
              \/ ProcessRecordsError(t)

Answer(q) == \/ ApprovalWrites(q) \/ ReprocessWrites(q) \/ DeleteWrites(q)
             \/ RequestCommits(q) \/ ReprocessSends(q)

Request(q) == \/ \E f \in Files : RequestUpload(q, f)
              \/ \E f \in Files, kind \in Kinds, approver \in BOOLEAN :
                     RequestReads(q, f, kind, approver)
              \/ Answer(q) \/ RequestAborts(q)

Steps == \/ \E q \in Reqs : Request(q)
         \/ \E f \in Files : BrowserPuts(f)
         \/ \E t \in Tasks : Process(t) \/ CleanRuns(t)

Next == Steps \/ \E t \in Tasks : TaskDies(t)

Spec == Init /\ [][Next]_vars

\* Requests end, Celery runs what is at the broker, PostgreSQL grants a row
\* lock to those that wait for it.
Fairness == /\ \A q \in Reqs : SF_vars(Answer(q))
            /\ \A t \in Tasks : SF_vars(Process(t)) /\ WF_vars(CleanRuns(t))

LiveSpec == Init /\ [][Steps]_vars /\ Fairness

-----------------------------------------------------------------------------
(* Properties.                                                              *)

\* A live file that is 'ready' has its chunks, unless a deletion is under way:
\* overlapping tasks on one file never leave it without.
ReadyHasChunks ==
    \A f \in Files :
        /\ Live(f) /\ file[f].status = "ready"
        /\ \A q \in Reqs : req[q].pc = "holding" => req[q].kind # "delete" \/ req[q].file # f
        => chunks[f]

\* No file is indexed that no owner or admin confirmed or approved, whoever
\* asks for reprocessing and in whatever order.
IndexedIsApproved == \A f \in Files : chunks[f] => f \in approved

\* The quota row counts the live files, less one for every second deletion of
\* a file: however uploads, rollbacks and deletions interleave.
LiveFiles == {f \in Files : Live(f)}
QuotaCountsFiles == quota = Cardinality(LiveFiles) - redeleted

\* As long as no file was deleted twice, uploads that race for the last place
\* never take the scope over its limit.
LimitHolds == redeleted = 0 => Cardinality(LiveFiles) <= Limit

\* Together: the quota of a scope is its files, and within its limit, up to a
\* second deletion of a file (quota_service.py:54, knowledge_service.py:394).
QuotaHolds == QuotaCountsFiles /\ LimitHolds

\* A file in processing gets its result.
ProcessingEnds ==
    \A f \in Files : Live(f) /\ file[f].status = "processing"
                     ~> ~Live(f) \/ file[f].status \in {"ready", "error"}

(* What the comments and docstrings say and the code does not do.           *)

\* quota_service.py:46 "Assert quota is not exceeded.": also when deletions of
\* one file overlap.
WithinLimit == Cardinality(LiveFiles) <= Limit

\* knowledge_worker.py:254 "Remove chunks and blob on file deletion.": once no
\* task of it is left, a deleted file has no chunks.
DeletedHasNoChunks ==
    \A f \in Files :
        /\ file[f].deleted
        /\ \A t \in Tasks : task[t].pc # "idle" => task[t].file # f
        => ~chunks[f]

\* knowledge_service.py:247 "parks the file in `pending_approval` until an Owner
\* or Admin reviews it": a parked file is not indexed.
ParkedIsNotIndexed == \A f \in Files : file[f].status = "pending_approval" => ~chunks[f]
=============================================================================
