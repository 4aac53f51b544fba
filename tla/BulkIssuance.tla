---------------------------- MODULE BulkIssuance ----------------------------
(***************************************************************************)
(* The life of one uploaded file of credentials: issueBulkCredential(),    *)
(* retryBulkCredential(), processInBatches(), the Bull processor,          *)
(* processIssuanceData(), processBulkRow(), completeBulkRow() of the       *)
(* issuance service, guardedRow(), assertRetryable() and completedRow() of *)
(* the coordinator, and the repository calls they make.                    *)
(*                                                                         *)
(* A batch is one call of processInBatches(): the upload itself, or a      *)
(* retry.  It enqueues one job for each row of its payload; a job is the   *)
(* pair of its batch and row, and every await of the handler is a step.    *)
(* Jobs of all replicas interleave freely; the offer budget that delays a  *)
(* dispatch is the subject of IssuanceWorkCoordinator.                     *)
(***************************************************************************)
EXTENDS Naturals, FiniteSets

CONSTANTS
    Row,       \* the rows of the CSV file
    Upload,    \* the batch of issueBulkCredential()
    Retry,     \* the batches of the calls of retryBulkCredential()
    None,      \* no owner
    ChunkSize, \* ISSUANCE_BATCH_SIZE
    MaxFailures \* bound: failures of Redis and the database, and deaths of workers

Batch == {Upload} \cup Retry

ASSUME RowAssumption == IsFiniteSet(Row)
ASSUME BatchAssumption == Upload \notin Retry /\ None \notin Batch
ASSUME ChunkAssumption == ChunkSize \in Nat \ {0}
ASSUME FailuresAssumption == MaxFailures \in Nat

VARIABLES
    file,       \* file_upload.status, "none" before the file is saved
    stored,     \* the rows that exist in file_data
    status,     \* file_data.status of a row: its credential was delivered
    isError,    \* file_data.isError of a row
    offers,     \* offers sent to the agent for a row (history)
    guard,      \* Redis key issuance-row-v1-<row>: the batch whose job owns it
    upload,     \* where issueBulkCredential() is
    outcomeOfUpload, \* fileUpload.status, written by its finally block
    batch,      \* where each batch is
    payload,    \* the rows of a batch
    waiting,    \* the rows of a batch that are still to be enqueued
    completed,  \* Redis set issuance-completed-v1-<batch>
    counted,    \* the rows that were in file_data when it counted the errors (history)
    verdict,    \* the file status computed by the last job of a batch
    notified,   \* whether a batch's completion event was emitted
    pc,         \* where each job is
    sent,       \* the job's bulkContext.dispatched
    result,     \* how the row ended for the job: ok, error (persisted) or thrown
    failures    \* failures so far

fileVars == <<file, upload, outcomeOfUpload>>
rowVars == <<stored, status, isError, offers, guard>>
batchVars == <<batch, payload, waiting, completed, counted, verdict, notified>>
jobVars == <<pc, sent, result>>
vars == <<fileVars, rowVars, batchVars, jobVars, failures>>

FinalStatus == {"completed", "partially_completed"}

(* A job that holds its row's guard. *)
Critical == {"read", "prepare", "dispatched", "persist", "mark", "unguard"}
Running == {"guard"} \cup Critical \cup {"complete", "count", "write", "notify", "interrupt"}
Place == {"none", "queued", "succeeded", "failed"} \cup Running

(* How a row ended for a job. *)
Outcome == {"none", "ok", "error", "thrown"}

Init ==
    /\ file = "none"
    /\ stored = {}
    /\ status = [r \in Row |-> FALSE]
    /\ isError = [r \in Row |-> FALSE]
    /\ offers = [r \in Row |-> 0]
    /\ guard = [r \in Row |-> None]
    /\ upload = "idle"
    /\ outcomeOfUpload = "none"
    /\ batch = [b \in Batch |-> "idle"]
    /\ payload = [b \in Batch |-> {}]
    /\ waiting = [b \in Batch |-> {}]
    /\ completed = [b \in Batch |-> {}]
    /\ counted = [b \in Batch |-> {}]
    /\ verdict = [b \in Batch |-> "none"]
    /\ notified = [b \in Batch |-> FALSE]
    /\ pc = [b \in Batch |-> [r \in Row |-> "none"]]
    /\ sent = [b \in Batch |-> [r \in Row |-> FALSE]]
    /\ result = [b \in Batch |-> [r \in Row |-> "none"]]
    /\ failures = 0

Goto(b, r, s) == pc' = [pc EXCEPT ![b][r] = s]
Finish(b, r, s, x) == Goto(b, r, s) /\ result' = [result EXCEPT ![b][r] = x]
End(b, r, s) == Finish(b, r, s, "none")

(* A step that fails, and one that does not. *)
Fail == failures < MaxFailures /\ failures' = failures + 1
NoFail == UNCHANGED failures

-----------------------------------------------------------------------------
(* Producers. *)

(* processInBatches() starts on a payload, in the background. *)
Start(b, rows) ==
    /\ batch' = [batch EXCEPT ![b] = "enqueueing"]
    /\ payload' = [payload EXCEPT ![b] = rows]
    /\ waiting' = [waiting EXCEPT ![b] = rows]

(* saveFileUploadDetails().  Mutant: the status is left empty. *)
SavesEmptyStatus ==
    /\ upload = "idle"
    /\ upload' = "storing"
    /\ file' = ""
    /\ outcomeOfUpload' = "started"
    /\ UNCHANGED <<rowVars, batchVars, jobVars, failures>>

(* A write that fails ends the upload: without the id of its row the        *)
(* finally block does nothing, and a row that was written stays as it is.   *)
SaveFile ==
    /\ upload = "idle"
    /\ \/ /\ NoFail
          /\ upload' = "storing" /\ file' = "started" /\ outcomeOfUpload' = "started"
       \/ /\ Fail
          /\ upload' = "done" /\ file' \in {"none", "started"} /\ UNCHANGED outcomeOfUpload
    /\ UNCHANGED <<rowVars, batchVars, jobVars>>

(* _storeBulkPayloadInBatch() writes the rows one by one.  Promise.all()    *)
(* gives up at the first failure, but the writes it started go on.          *)
StoreRow(r) ==
    /\ upload = "storing" \/ outcomeOfUpload = "interrupted"
    /\ r \notin stored
    /\ stored' = stored \cup {r}
    /\ UNCHANGED <<fileVars, status, isError, offers, guard, batchVars, jobVars, failures>>

(* With all the rows stored the enqueueing starts; a failure interrupts the *)
(* upload.                                                                  *)
StoreRows ==
    /\ upload = "storing"
    /\ upload' = "finally"
    /\ \/ /\ NoFail
          /\ stored = Row
          /\ Start(Upload, Row)
          /\ UNCHANGED outcomeOfUpload
       \/ /\ Fail
          /\ outcomeOfUpload' = "interrupted"
          /\ UNCHANGED <<batch, payload, waiting>>
    /\ UNCHANGED <<file, rowVars, completed, counted, verdict, notified, jobVars>>

(* The finally block writes the status the method started with, or the     *)
(* interruption, whatever the jobs have written meanwhile.                 *)
Finally ==
    /\ upload = "finally"
    /\ upload' = "done"
    /\ \/ NoFail /\ file' = outcomeOfUpload
       \/ Fail /\ UNCHANGED file
    /\ UNCHANGED <<outcomeOfUpload, rowVars, batchVars, jobVars>>

(* retryBulkCredential() reads the rows that failed or were not issued. *)
OnlyErrors(r) == isError[r]

Failed(r) == isError[r] \/ ~status[r]

RetryRead(b) ==
    /\ batch[b] = "idle" /\ b \in Retry
    /\ file # "none"
    /\ LET rows == {r \in stored : Failed(r)}
       IN  IF rows = {} THEN /\ batch' = [batch EXCEPT ![b] = "refused"]
                             /\ UNCHANGED payload
                        ELSE /\ batch' = [batch EXCEPT ![b] = "assert"]
                             /\ payload' = [payload EXCEPT ![b] = rows]
    /\ UNCHANGED <<fileVars, rowVars, waiting, completed, counted, verdict, notified, jobVars, failures>>

(* assertRetryable(): one MGET of the guards of the rows it read. *)
AssertRetryable(b) ==
    /\ batch[b] = "assert"
    /\ \/ /\ \A r \in payload[b] : guard[r] = None
          /\ Start(b, payload[b])
       \/ /\ \E r \in payload[b] : guard[r] # None
          /\ batch' = [batch EXCEPT ![b] = "refused"]
          /\ UNCHANGED <<payload, waiting>>
    /\ UNCHANGED <<fileVars, rowVars, completed, counted, verdict, notified, jobVars, failures>>

(* One addBulk() of processInBatches(), of a full chunk or of what is left.  *)
(* A failure, after which jobs may be there all the same, ends it with a log *)
(* line.                                                                     *)
Enqueue(b) ==
    /\ batch[b] = "enqueueing"
    /\ \E chunk \in SUBSET waiting[b] :
         /\ Cardinality(chunk) <= ChunkSize
         /\ waiting' = [waiting EXCEPT ![b] = @ \ chunk]
         /\ pc' = [pc EXCEPT ![b] = [r \in Row |-> IF r \in chunk THEN "queued" ELSE pc[b][r]]]
         /\ \/ /\ NoFail
               /\ chunk # {} /\ (chunk = waiting[b] \/ Cardinality(chunk) = ChunkSize)
               /\ batch' = [batch EXCEPT ![b] = IF chunk = waiting[b] THEN "enqueued" ELSE @]
            \/ /\ Fail
               /\ batch' = [batch EXCEPT ![b] = "enqueued"]
    /\ UNCHANGED <<fileVars, rowVars, payload, completed, counted, verdict, notified, sent, result>>

-----------------------------------------------------------------------------
(* A job.  Bull hands it to one handler, once: attempts is 1, the handler   *)
(* discards it, and a stalled job is not replayed.                          *)

Take(b, r) ==
    /\ pc[b][r] = "queued"
    /\ Goto(b, r, "guard")
    /\ UNCHANGED <<fileVars, rowVars, batchVars, sent, result, failures>>

(* bulkRow(): a slot of the local row queue, then SET <key> <owner> NX.  A  *)
(* wait that expires and a guard that is held both throw; so does a lost    *)
(* reply, after the key may have been set.                                  *)
SetGuard(b, r) ==
    /\ pc[b][r] = "guard"
    /\ \/ /\ NoFail
          /\ guard[r] = None
          /\ guard' = [guard EXCEPT ![r] = b]
          /\ Goto(b, r, "read")
       \/ /\ NoFail
          /\ Goto(b, r, "interrupt")
          /\ UNCHANGED guard
       \/ /\ Fail
          /\ guard[r] = None
          /\ guard' = [guard EXCEPT ![r] = b]
          /\ Goto(b, r, "interrupt")
    /\ UNCHANGED <<fileVars, stored, status, isError, offers, batchVars, sent, result>>

(* processBulkRow() reads the row: one that is already issued is skipped. *)
ReadRow(b, r) ==
    /\ pc[b][r] = "read"
    /\ \/ NoFail /\ status[r] /\ Finish(b, r, "unguard", "ok")
       \/ NoFail /\ ~status[r] /\ Goto(b, r, "prepare") /\ UNCHANGED result
       \/ Fail /\ Finish(b, r, "unguard", "thrown")
    /\ UNCHANGED <<fileVars, rowVars, batchVars, sent>>

(* outOfBandCredentialOffer() up to the agent: preparation and admission    *)
(* may fail, with nothing sent; then the offer goes out.                    *)
Dispatch(b, r) ==
    /\ pc[b][r] = "prepare"
    /\ \/ /\ Finish(b, r, "mark", "error")
          /\ UNCHANGED <<sent, offers>>
       \/ /\ sent' = [sent EXCEPT ![b][r] = TRUE]
          /\ offers' = [offers EXCEPT ![r] = @ + 1]
          /\ Goto(b, r, "dispatched")
          /\ UNCHANGED result
    /\ UNCHANGED <<fileVars, stored, status, isError, guard, batchVars, failures>>

(* The agent's answer, the release of the permit, the shortened URL and the *)
(* email: all succeed, or the row fails after its offer was sent.           *)
Deliver(b, r) ==
    /\ pc[b][r] = "dispatched"
    /\ \/ Goto(b, r, "persist") /\ UNCHANGED result
       \/ Finish(b, r, "mark", "error")
    /\ UNCHANGED <<fileVars, rowVars, batchVars, sent, failures>>

(* deleteFileDataByJobId(); its failure is a failure of the row, although   *)
(* the update may have been committed.                                      *)
Persist(b, r) ==
    /\ pc[b][r] = "persist"
    /\ \/ /\ NoFail
          /\ status' = [status EXCEPT ![r] = TRUE]
          /\ Finish(b, r, "mark", "ok")
       \/ /\ Fail
          /\ \/ UNCHANGED status
             \/ status' = [status EXCEPT ![r] = TRUE]
          /\ Finish(b, r, "mark", "error")
    /\ UNCHANGED <<fileVars, stored, isError, offers, guard, batchVars, sent>>

(* updateFileUploadData(); its failure throws. *)
Mark(b, r) ==
    /\ pc[b][r] = "mark"
    /\ \/ /\ NoFail
          /\ isError' = [isError EXCEPT ![r] = result[b][r] = "error"]
          /\ Goto(b, r, "unguard")
          /\ UNCHANGED result
       \/ /\ Fail
          /\ \/ UNCHANGED isError
             \/ isError' = [isError EXCEPT ![r] = result[b][r] = "error"]
          /\ Finish(b, r, "unguard", "thrown")
    /\ UNCHANGED <<fileVars, stored, status, offers, guard, batchVars, sent>>

(* The finally block of guardedRow(): the guard is given back only if the   *)
(* row succeeded or nothing was sent.  RELEASE_ROW deletes the key of its   *)
(* own owner only, and throws if Redis does not answer.                     *)
UnguardAlways(b, r) == TRUE
UnguardOnReturn(b, r) == result[b][r] # "thrown" \/ ~sent[b][r]

MayUnguard(b, r) == result[b][r] = "ok" \/ ~sent[b][r]
Freed(b, r) == [guard EXCEPT ![r] = IF @ = b THEN None ELSE @]

Unguard(b, r) ==
    /\ pc[b][r] = "unguard"
    /\ \/ /\ NoFail
          /\ guard' = IF MayUnguard(b, r) THEN Freed(b, r) ELSE guard
          /\ Goto(b, r, IF result[b][r] = "thrown" THEN "interrupt" ELSE "complete")
       \/ /\ Fail
          /\ MayUnguard(b, r)
          /\ guard' = guard \/ guard' = Freed(b, r)
          /\ Goto(b, r, "interrupt")
    /\ sent' = [sent EXCEPT ![b][r] = FALSE]
    /\ UNCHANGED <<fileVars, stored, status, isError, offers, batchVars, result>>

(* completedRow(): the COMPLETE script.  The job that adds the last row of  *)
(* the batch goes on to finish the batch.  A reply that is lost makes the   *)
(* client send the script again, or throws.                                 *)
Ended(b, r) == IF result[b][r] = "ok" THEN "succeeded" ELSE "failed"

LastEnqueued(b, r) == waiting[b] = {}

Last(b, r) == r \notin completed[b] /\ completed[b] \cup {r} = payload[b]

Complete(b, r) ==
    /\ pc[b][r] = "complete"
    /\ \/ /\ NoFail
          /\ completed' = [completed EXCEPT ![b] = @ \cup {r}]
          /\ IF Last(b, r) THEN Goto(b, r, "count") /\ UNCHANGED result
                           ELSE End(b, r, Ended(b, r))
       \/ /\ Fail
          /\ completed' = [completed EXCEPT ![b] = @ \cup {r}]
          /\ Goto(b, r, "complete") \/ Goto(b, r, "interrupt")
          /\ UNCHANGED result
       \/ /\ Fail
          /\ Goto(b, r, "interrupt")
          /\ UNCHANGED <<completed, result>>
    /\ UNCHANGED <<fileVars, rowVars, batch, payload, waiting, counted, verdict, notified, sent>>

(* countErrorsForFile() decides the final status ... *)
CountErrors(b, r) ==
    /\ pc[b][r] = "count"
    /\ \/ /\ NoFail
          /\ counted' = [counted EXCEPT ![b] = stored]
          /\ verdict' = [verdict EXCEPT ![b] = IF \E x \in stored : Failed(x)
                                               THEN "partially_completed" ELSE "completed"]
          /\ Goto(b, r, "write")
       \/ /\ Fail
          /\ Goto(b, r, "interrupt")
          /\ UNCHANGED <<counted, verdict>>
    /\ UNCHANGED <<fileVars, rowVars, batch, payload, waiting, completed, notified, sent, result>>

(* ... updateFileUploadDetails() writes it ... *)
WriteStatus(b, r) ==
    /\ pc[b][r] = "write"
    /\ \/ /\ NoFail
          /\ file' = verdict[b]
          /\ Goto(b, r, "notify")
       \/ /\ Fail
          /\ \/ UNCHANGED file
             \/ file' = verdict[b]
          /\ Goto(b, r, "interrupt")
    /\ UNCHANGED <<upload, outcomeOfUpload, rowVars, batchVars, sent, result>>

(* ... and the completion event is emitted.  Dropping the cached upload     *)
(* afterwards may still throw.                                              *)
Notify(b, r) ==
    /\ pc[b][r] = "notify"
    /\ notified' = [notified EXCEPT ![b] = TRUE]
    /\ \/ NoFail /\ End(b, r, Ended(b, r))
       \/ Fail /\ b = Upload /\ Goto(b, r, "interrupt") /\ UNCHANGED result
    /\ UNCHANGED <<fileVars, rowVars, batch, payload, waiting, completed, counted, verdict, sent>>

(* The catch block of processIssuanceData(): interruptFileUpload() touches  *)
(* an active file only.  The job fails.                                     *)
OnlyRetries == {"retry"}

Active == {"started", "retry"}

Interrupt(b, r) ==
    /\ pc[b][r] = "interrupt"
    /\ \/ NoFail /\ file' = IF file \in Active THEN "interrupted" ELSE file
       \/ Fail /\ UNCHANGED file
    /\ End(b, r, "failed")
    /\ UNCHANGED <<upload, outcomeOfUpload, rowVars, batchVars, sent>>

(* The worker is killed: what it wrote stays, and the job is not replayed. *)
Die(b, r) ==
    /\ Fail
    /\ pc[b][r] \in Running
    /\ End(b, r, "failed")
    /\ sent' = [sent EXCEPT ![b][r] = FALSE]
    /\ UNCHANGED <<fileVars, rowVars, batchVars>>

(* The operators' recovery of a guarded row whose job has stopped: if an    *)
(* offer exists its delivery is completed by hand, otherwise the guard is   *)
(* cleared so that the row can be retried.                                  *)
Reconcile(r) ==
    /\ guard[r] # None
    /\ pc[guard[r]][r] \in {"succeeded", "failed"}
    /\ guard' = [guard EXCEPT ![r] = None]
    /\ \/ offers[r] = 0 /\ UNCHANGED <<status, isError>>
       \/ /\ offers[r] > 0
          /\ status' = [status EXCEPT ![r] = TRUE]
          /\ isError' = [isError EXCEPT ![r] = FALSE]
    /\ UNCHANGED <<fileVars, stored, offers, batchVars, jobVars, failures>>

(* The steps of a job that do not wait for the agent. *)
JobStep(b, r) ==
    \/ Take(b, r) \/ SetGuard(b, r) \/ ReadRow(b, r) \/ Dispatch(b, r) \/ Persist(b, r)
    \/ Mark(b, r) \/ Unguard(b, r) \/ Complete(b, r) \/ CountErrors(b, r)
    \/ WriteStatus(b, r) \/ Notify(b, r) \/ Interrupt(b, r)

Next ==
    \/ SaveFile \/ StoreRows \/ Finally
    \/ \E b \in Batch : RetryRead(b) \/ AssertRetryable(b) \/ Enqueue(b)
    \/ \E b \in Batch, r \in Row : JobStep(b, r) \/ Deliver(b, r) \/ Die(b, r)
    \/ \E r \in Row : StoreRow(r) \/ Reconcile(r)

(* Bull hands out queued jobs, the event loop runs the handlers and the     *)
(* background enqueueing.  Nothing makes the agent answer: the call has no   *)
(* timeout.                                                                  *)
Fairness ==
    /\ WF_vars(StoreRows) /\ WF_vars(Finally)
    /\ \A r \in Row : WF_vars(StoreRow(r))
    /\ \A b \in Batch : WF_vars(Enqueue(b))
    /\ \A b \in Batch, r \in Row : WF_vars(JobStep(b, r))

Spec == Init /\ [][Next]_vars /\ Fairness
-----------------------------------------------------------------------------
(* Types of the state. *)
TypeOK ==
    /\ file \in {"none", "started", "interrupted"} \cup FinalStatus
    /\ stored \in SUBSET Row
    /\ status \in [Row -> BOOLEAN]
    /\ isError \in [Row -> BOOLEAN]
    /\ offers \in [Row -> Nat]
    /\ guard \in [Row -> Batch \cup {None}]
    /\ upload \in {"idle", "storing", "finally", "done"}
    /\ outcomeOfUpload \in {"none", "started", "interrupted"}
    /\ batch \in [Batch -> {"idle", "assert", "refused", "enqueueing", "enqueued"}]
    /\ payload \in [Batch -> SUBSET Row]
    /\ waiting \in [Batch -> SUBSET Row]
    /\ completed \in [Batch -> SUBSET Row]
    /\ counted \in [Batch -> SUBSET Row]
    /\ verdict \in [Batch -> {"none"} \cup FinalStatus]
    /\ notified \in [Batch -> BOOLEAN]
    /\ pc \in [Batch -> [Row -> Place]]
    /\ sent \in [Batch -> [Row -> BOOLEAN]]
    /\ result \in [Batch -> [Row -> Outcome]]
    /\ failures \in 0..MaxFailures

(* However an upload, its retries, crashes, lost replies and reconciliation *)
(* interleave, no row is offered to its recipient twice.                    *)
OfferedAtMostOnce == \A r \in Row : offers[r] <= 1

(* A row with an offer out that is not recorded as issued is guarded, so no *)
(* later job can mistake it for a row that is still to be issued.           *)
UncertainRowGuarded == \A r \in Row : offers[r] > 0 /\ ~status[r] => guard[r] # None

(* A file that says completed got this from a batch that found every row     *)
(* issued, exactly once: those of its own payload and all others that were   *)
(* in the database, whatever ran between the count and the write.            *)
CompletedMeansIssued ==
    file = "completed" => \E b \in Batch :
        /\ verdict[b] = "completed"
        /\ payload[b] \subseteq counted[b]
        /\ \A r \in counted[b] : status[r] /\ offers[r] = 1

(* The completion event of a batch comes after the outcome of each one of    *)
(* its rows, a success or an error, is in the database.                      *)
NotifiedMeansPersisted ==
    \A b \in Batch : notified[b] => \A r \in payload[b] : status[r] \/ isError[r]

(* Every offer that was sent is answered, and its email sent or refused. *)
AgentAnswers == \A b \in Batch, r \in Row : []<>(pc[b][r] # "dispatched")

(* Without infrastructure failures, and if the agent answers, no saved file   *)
(* is forgotten: its completion is announced, or a row that threw, or a       *)
(* retry, has given it another status.  (Whether that lasts: Finally.)        *)
UploadIsSettled ==
    AgentAnswers =>
        (upload = "storing" ~> notified[Upload] \/ file \in {"interrupted"} \cup FinalStatus)

(* "Final file status is persisted before the completion notification": once *)
(* the event is out the file has a final status.                             *)
NotifiedFileIsFinal == (\E b \in Batch : notified[b]) => file \in FinalStatus
=============================================================================
