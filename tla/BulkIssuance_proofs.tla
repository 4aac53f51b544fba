------------------------ MODULE BulkIssuance_proofs ------------------------
(***************************************************************************)
(* Proofs about BulkIssuance: for any number of rows, retries, failures    *)
(* and deaths of workers, no row is offered twice, an uncertain row stays  *)
(* guarded, a completed file has been issued and a completion event comes  *)
(* after the outcomes it announces.                                        *)
(***************************************************************************)
EXTENDS BulkIssuance, TLAPS

(* An upload that has enqueued nothing; a batch that has jobs, or may. *)
Before == {"idle", "storing"}
Begun == {"enqueueing", "enqueued"}

(* What holds of the job of batch b for row r.  While it holds the guard,   *)
(* a row it has sent no offer for is issued or untouched; what it concluded *)
(* is in the database before it is counted; the last one has counted all.   *)
JobAt(b, r) ==
    /\ pc[b][r] \in Critical => guard[r] = b
    /\ pc[b][r] \in Critical /\ (pc[b][r] = "read" \/ ~sent[b][r]) => status[r] \/ offers[r] = 0
    /\ pc[b][r] = "prepare" => offers[r] = 0
    /\ pc[b][r] \in {"dispatched", "persist"} => offers[r] > 0
    /\ result[b][r] = "ok" => status[r]
    /\ pc[b][r] = "mark" => result[b][r] \in {"ok", "error"}
    /\ pc[b][r] = "unguard" => result[b][r] = "thrown" \/ status[r] \/ isError[r]
    /\ pc[b][r] = "complete" => status[r] \/ isError[r]
    /\ pc[b][r] \in {"count", "write", "notify"} => completed[b] = payload[b]
    /\ pc[b][r] # "none" => batch[b] \in Begun /\ r \in payload[b]

(* What holds of a row. *)
RowAt(r) ==
    /\ status[r] => offers[r] > 0
    /\ offers[r] > 0 /\ ~status[r] => guard[r] # None
    /\ offers[r] <= 1

(* What holds of a batch. *)
BatchAt(b) ==
    /\ b = Upload /\ upload \in Before => batch[b] = "idle"
    /\ batch[b] \notin Begun => waiting[b] = {} /\ verdict[b] = "none" /\ ~notified[b]
    /\ waiting[b] \subseteq payload[b]
    /\ payload[b] \subseteq stored
    /\ \A r \in completed[b] : status[r] \/ isError[r]
    /\ notified[b] \/ verdict[b] # "none" => completed[b] = payload[b]
    /\ verdict[b] = "completed" =>
        payload[b] \subseteq counted[b] /\ \A r \in counted[b] : status[r]

(* The inductive invariant. *)
IInv ==
    /\ TypeOK
    /\ \A b \in Batch : BatchAt(b)
    /\ \A r \in Row : RowAt(r)
    /\ \A b \in Batch, r \in Row : JobAt(b, r)
-----------------------------------------------------------------------------

(* The places of a job, the updates of its variables. *)
LEMMA Places ==
    /\ "guard" \in Place /\ "read" \in Place /\ "prepare" \in Place /\ "dispatched" \in Place
    /\ "persist" \in Place /\ "mark" \in Place /\ "unguard" \in Place /\ "complete" \in Place
    /\ "count" \in Place /\ "write" \in Place /\ "notify" \in Place /\ "interrupt" \in Place
    /\ "none" \in Place /\ "queued" \in Place /\ "succeeded" \in Place /\ "failed" \in Place
BY DEF Place, Running, Critical

LEMMA Pointwise ==
ASSUME NEW S, NEW f \in [Batch -> [Row -> S]], NEW b \in Batch, NEW r \in Row, NEW v \in S
PROVE  /\ [f EXCEPT ![b][r] = v] \in [Batch -> [Row -> S]]
       /\ \A x \in Batch, y \in Row : 
            [f EXCEPT ![b][r] = v][x][y] = IF x = b /\ y = r THEN v ELSE f[x][y]
OBVIOUS

LEMMA GotoType ==
ASSUME TypeOK, NEW b \in Batch, NEW r \in Row, NEW s \in Place, Goto(b, r, s)
PROVE  pc' \in [Batch -> [Row -> Place]]
BY Pointwise DEF Goto, TypeOK

LEMMA FinishType ==
ASSUME TypeOK, NEW b \in Batch, NEW r \in Row, NEW s \in Place, NEW z \in Outcome,
       Finish(b, r, s, z)
PROVE  pc' \in [Batch -> [Row -> Place]] /\ result' \in [Batch -> [Row -> Outcome]]
BY Pointwise DEF Finish, Goto, TypeOK
-----------------------------------------------------------------------------
(* Every action preserves the invariant. *)
LEMMA SaveFileInductive ==
ASSUME IInv, SaveFile
PROVE  IInv'
<1> TypeOK
  BY DEF IInv
<1>1. TypeOK'
  BY FailuresAssumption DEF TypeOK, FinalStatus, Batch, SaveFile, Fail, NoFail, rowVars, batchVars, jobVars
<1>2. ASSUME NEW x \in Batch PROVE BatchAt(x)'
  <2> BatchAt(x)
    BY DEF IInv
  <2> QED
    BY BatchAssumption DEF TypeOK, BatchAt, JobAt, Before, Begun, SaveFile, rowVars,
       batchVars
<1>3. ASSUME NEW y \in Row PROVE RowAt(y)'
  <2> RowAt(y)
    BY DEF IInv
  <2> QED
    BY DEF RowAt, SaveFile, rowVars
<1>4. ASSUME NEW x \in Batch, NEW y \in Row PROVE JobAt(x, y)'
  <2> JobAt(x, y)
    BY DEF IInv
  <2> QED
    BY DEF JobAt, SaveFile, rowVars, batchVars, jobVars
<1> QED
  BY <1>1, <1>2, <1>3, <1>4 DEF IInv

LEMMA StoreRowsInductive ==
ASSUME IInv, StoreRows
PROVE  IInv'
<1> TypeOK
  BY DEF IInv
<1>a. batch[Upload] = "idle"
  BY DEF IInv, BatchAt, Before, Batch, StoreRows
<1>b. /\ batch' \in [Batch -> {"idle", "assert", "refused", "enqueueing", "enqueued"}]
      /\ payload' \in [Batch -> SUBSET Row]
      /\ waiting' \in [Batch -> SUBSET Row]
  <2>1. CASE Start(Upload, Row)
    BY <2>1 DEF TypeOK, Start
  <2>2. CASE UNCHANGED <<batch, payload, waiting>>
    BY <2>2 DEF TypeOK
  <2> QED
    BY <2>1, <2>2 DEF StoreRows
<1>c. ASSUME NEW x \in Batch
      PROVE  \/ batch'[x] = batch[x] /\ payload'[x] = payload[x] /\ waiting'[x] = waiting[x]
             \/ /\ x = Upload /\ stored = Row /\ payload'[x] = Row /\ waiting'[x] = Row
                /\ batch'[x] = "enqueueing"
  BY DEF TypeOK, StoreRows, Start
<1>1. TypeOK'
  <2>1. upload' \in {"idle", "storing", "finally", "done"} /\ failures' \in 0..MaxFailures
    BY FailuresAssumption DEF TypeOK, StoreRows, Fail, NoFail
  <2>2. outcomeOfUpload' \in {"none", "started", "interrupted"}
    BY DEF TypeOK, StoreRows
  <2> QED
    BY <1>b, <2>1, <2>2 DEF TypeOK, StoreRows, rowVars, jobVars
<1>2. ASSUME NEW x \in Batch PROVE BatchAt(x)'
  <2> BatchAt(x)
    BY DEF IInv
  <2>1. upload' \notin Before
    BY DEF StoreRows, Before
  <2> QED
    BY <1>a, <1>c, <2>1 DEF BatchAt, Begun, StoreRows, rowVars
<1>3. ASSUME NEW y \in Row PROVE RowAt(y)'
  <2> RowAt(y)
    BY DEF IInv
  <2> QED
    BY DEF RowAt, StoreRows, rowVars
<1>4. ASSUME NEW x \in Batch, NEW y \in Row PROVE JobAt(x, y)'
  <2> JobAt(x, y)
    BY DEF IInv
  <2>1. pc[x][y] # "none" => batch'[x] = batch[x] /\ payload'[x] = payload[x]
    BY <1>a, <1>c DEF JobAt, Begun
  <2> QED
    BY <2>1 DEF JobAt, Critical, StoreRows, rowVars, jobVars
<1> QED
  BY <1>1, <1>2, <1>3, <1>4 DEF IInv

LEMMA FinallyInductive ==
ASSUME IInv, Finally
PROVE  IInv'
<1> TypeOK
  BY DEF IInv
<1>1. TypeOK'
  BY FailuresAssumption DEF TypeOK, FinalStatus, Batch, Finally, Fail, NoFail, rowVars, batchVars,
     jobVars
<1>2. ASSUME NEW x \in Batch PROVE BatchAt(x)'
  <2> BatchAt(x)
    BY DEF IInv
  <2> QED
    BY BatchAssumption DEF TypeOK, BatchAt, JobAt, Before, Begun, Finally, rowVars,
       batchVars
<1>3. ASSUME NEW y \in Row PROVE RowAt(y)'
  <2> RowAt(y)
    BY DEF IInv
  <2> QED
    BY DEF RowAt, Finally, rowVars
<1>4. ASSUME NEW x \in Batch, NEW y \in Row PROVE JobAt(x, y)'
  <2> JobAt(x, y)
    BY DEF IInv
  <2> QED
    BY DEF JobAt, Finally, rowVars, batchVars, jobVars
<1> QED
  BY <1>1, <1>2, <1>3, <1>4 DEF IInv

LEMMA RetryReadInductive ==
ASSUME IInv, NEW b \in Batch, RetryRead(b)
PROVE  IInv'
<1> TypeOK
  BY DEF IInv
<1>0. BatchAt(b)
  BY DEF IInv
<1>1. TypeOK'
  <2> DEFINE rows == {y \in stored : Failed(y)}
  <2>1. rows \in SUBSET Row
    BY DEF TypeOK
  <2> HIDE DEF rows
  <2>2. CASE rows = {}
    BY <2>1, <2>2 DEF TypeOK, RetryRead, rows, fileVars, rowVars, jobVars
  <2>3. CASE rows # {}
    <3>1. payload' = [payload EXCEPT ![b] = rows]
      BY <2>3 DEF RetryRead, rows
    <3>2. batch' = [batch EXCEPT ![b] = "assert"]
      BY <2>3 DEF RetryRead, rows
    <3> QED
      BY <2>1, <3>1, <3>2 DEF TypeOK, RetryRead, fileVars, rowVars, jobVars
  <2> QED
    BY <2>2, <2>3
<1>2. ASSUME NEW x \in Batch PROVE BatchAt(x)'
  <2> BatchAt(x)
    BY DEF IInv
  <2>1. CASE x # b
    <3>1. batch'[x] = batch[x] /\ payload'[x] = payload[x]
      BY <2>1 DEF TypeOK, RetryRead
    <3> QED
      BY <3>1 DEF BatchAt, RetryRead, fileVars, rowVars
  <2>2. CASE x = b
    <3>1. batch[b] \notin Begun /\ batch'[b] \notin Begun
      BY DEF TypeOK, RetryRead, Begun
    <3>2. payload'[b] \subseteq stored
      <4> DEFINE rows == {y \in stored : Failed(y)}
      <4>1. payload'[b] = payload[b] \/ payload'[b] = rows
        BY DEF TypeOK, RetryRead
      <4> QED
        BY <4>1, <1>0 DEF BatchAt
    <3>3. b # Upload
      BY BatchAssumption DEF RetryRead
    <3> QED
      BY <2>2, <3>1, <3>2, <3>3 DEF BatchAt, RetryRead, Begun, fileVars, rowVars
  <2> QED
    BY <2>1, <2>2
<1>3. ASSUME NEW y \in Row PROVE RowAt(y)'
  <2> RowAt(y)
    BY DEF IInv
  <2> QED
    BY DEF RowAt, RetryRead, rowVars
<1>4. ASSUME NEW x \in Batch, NEW y \in Row PROVE JobAt(x, y)'
  <2> JobAt(x, y) /\ RowAt(y) /\ BatchAt(x)
    BY DEF IInv
  <2> QED
    BY <1>0, BatchAssumption DEF TypeOK, RowAt, JobAt, BatchAt, Begun, Critical, Batch, RetryRead,
       Failed, fileVars, rowVars, jobVars
<1> QED
  BY <1>1, <1>2, <1>3, <1>4 DEF IInv

LEMMA AssertRetryableInductive ==
ASSUME IInv, NEW b \in Batch, AssertRetryable(b)
PROVE  IInv'
<1> TypeOK
  BY DEF IInv
<1>0. BatchAt(b)
  BY DEF IInv
<1>1. TypeOK'
  <2>1. payload[b] \in SUBSET Row
    BY DEF TypeOK
  <2>2. batch' \in [Batch -> {"idle", "assert", "refused", "enqueueing", "enqueued"}]
    BY DEF TypeOK, AssertRetryable, Start
  <2>3. payload' \in [Batch -> SUBSET Row] /\ waiting' \in [Batch -> SUBSET Row]
    BY <2>1 DEF TypeOK, AssertRetryable, Start
  <2> QED
    BY <2>2, <2>3 DEF TypeOK, AssertRetryable, fileVars, rowVars, jobVars
<1>2. ASSUME NEW x \in Batch PROVE BatchAt(x)'
  <2> BatchAt(x)
    BY DEF IInv
  <2>1. x = Upload /\ upload \in Before => x # b /\ batch'[x] = batch[x]
    BY <1>0 DEF TypeOK, BatchAt, AssertRetryable, Start
  <2>2. CASE Start(b, payload[b])
    <3>1. payload' = payload
      BY <2>2 DEF TypeOK, Start
    <3>2. waiting'[x] \in {waiting[x], payload[x]}
      BY <2>2 DEF TypeOK, Start
    <3>3. batch'[x] \notin Begun => x # b /\ batch[x] = batch'[x] /\ waiting'[x] = waiting[x]
      BY <2>2 DEF TypeOK, Start, Begun
    <3> QED
      BY <2>1, <3>1, <3>2, <3>3 DEF BatchAt, AssertRetryable, fileVars, rowVars
  <2>3. CASE batch' = [batch EXCEPT ![b] = "refused"] /\ UNCHANGED <<payload, waiting>>
    <3>1. batch'[x] \notin Begun => batch[x] \notin Begun
      BY <2>3 DEF TypeOK, AssertRetryable, Begun
    <3> QED
      BY <2>1, <2>3, <3>1 DEF BatchAt, AssertRetryable, fileVars, rowVars
  <2> QED
    BY <2>2, <2>3 DEF AssertRetryable
<1>3. ASSUME NEW y \in Row PROVE RowAt(y)'
  <2> RowAt(y)
    BY DEF IInv
  <2> QED
    BY DEF RowAt, AssertRetryable, rowVars
<1>4. ASSUME NEW x \in Batch, NEW y \in Row PROVE JobAt(x, y)'
  <2> JobAt(x, y) /\ RowAt(y) /\ BatchAt(x)
    BY DEF IInv
  <2> QED
    BY <1>0, BatchAssumption DEF TypeOK, RowAt, JobAt, BatchAt, Begun, Critical, Batch,
       AssertRetryable, Start, fileVars, rowVars, jobVars
<1> QED
  BY <1>1, <1>2, <1>3, <1>4 DEF IInv

LEMMA EnqueueInductive ==
ASSUME IInv, NEW b \in Batch, Enqueue(b)
PROVE  IInv'
<1> TypeOK
  BY DEF IInv
<1>0. BatchAt(b)
  BY DEF IInv
<1>1. TypeOK'
  <2>1. PICK chunk \in SUBSET waiting[b] :
          /\ waiting' = [waiting EXCEPT ![b] = @ \ chunk]
          /\ pc' = [pc EXCEPT ![b] = [y \in Row |-> IF y \in chunk THEN "queued" ELSE pc[b][y]]]
    BY DEF Enqueue
  <2>2. waiting[b] \ chunk \in SUBSET Row
    BY DEF TypeOK
  <2>3. waiting' \in [Batch -> SUBSET Row]
    BY <2>1, <2>2 DEF TypeOK
  <2>4. [y \in Row |-> IF y \in chunk THEN "queued" ELSE pc[b][y]] \in [Row -> Place]
    BY Places DEF TypeOK
  <2>5. pc' \in [Batch -> [Row -> Place]]
    BY <2>1, <2>4 DEF TypeOK
  <2>6. batch' \in [Batch -> {"idle", "assert", "refused", "enqueueing", "enqueued"}]
    BY DEF TypeOK, Enqueue
  <2> QED
    BY <2>3, <2>5, <2>6, FailuresAssumption DEF TypeOK, Enqueue, Fail, NoFail, fileVars, rowVars
<1>2. ASSUME NEW x \in Batch PROVE BatchAt(x)'
  <2> BatchAt(x)
    BY DEF IInv
  <2>1. waiting'[x] \subseteq waiting[x]
    <3>1. PICK chunk \in SUBSET waiting[b] : waiting' = [waiting EXCEPT ![b] = @ \ chunk]
      BY DEF Enqueue
    <3> QED
      BY <3>1 DEF TypeOK
  <2>2. batch[x] \in Begun <=> batch'[x] \in Begun
    BY DEF TypeOK, Enqueue, Begun
  <2>3. batch[x] = "idle" => batch'[x] = "idle"
    BY DEF TypeOK, Enqueue
  <2> QED
    BY <2>1, <2>2, <2>3 DEF BatchAt, Enqueue, fileVars, rowVars
<1>3. ASSUME NEW y \in Row PROVE RowAt(y)'
  <2> RowAt(y)
    BY DEF IInv
  <2> QED
    BY DEF RowAt, Enqueue, rowVars
<1>4. ASSUME NEW x \in Batch, NEW y \in Row PROVE JobAt(x, y)'
  <2> JobAt(x, y) /\ RowAt(y) /\ BatchAt(x)
    BY DEF IInv
  <2> QED
    BY <1>0, BatchAssumption DEF TypeOK, RowAt, JobAt, BatchAt, Begun, Critical, Batch, Enqueue,
       Fail, NoFail, fileVars, rowVars
<1> QED
  BY <1>1, <1>2, <1>3, <1>4 DEF IInv

LEMMA TakeInductive ==
ASSUME IInv, NEW b \in Batch, NEW r \in Row, Take(b, r)
PROVE  IInv'
<1> TypeOK
  BY DEF IInv
<1>0. JobAt(b, r) /\ RowAt(r) /\ BatchAt(b)
  BY DEF IInv
<1>1. TypeOK'
  <2>1. pc' \in [Batch -> [Row -> Place]] /\ result' \in [Batch -> [Row -> Outcome]]
    BY Places, GotoType DEF TypeOK, Take
  <2> QED
    BY <2>1, FailuresAssumption DEF TypeOK, FinalStatus, Batch, Take, fileVars, rowVars, batchVars
<1>2. ASSUME NEW x \in Batch PROVE BatchAt(x)'
  <2> BatchAt(x)
    BY DEF IInv
  <2> QED
    BY DEF BatchAt, Take, fileVars, rowVars, batchVars
<1>3. ASSUME NEW y \in Row PROVE RowAt(y)'
  <2> RowAt(y)
    BY DEF IInv
  <2> QED
    BY DEF RowAt, Take, rowVars
<1>4. ASSUME NEW x \in Batch, NEW y \in Row PROVE JobAt(x, y)'
  <2> JobAt(x, y) /\ RowAt(y) /\ BatchAt(x)
    BY DEF IInv
  <2>1. CASE x = b /\ y = r
    BY <2>1, BatchAssumption DEF TypeOK, RowAt, JobAt, BatchAt, Begun, Critical, Take, Goto,
       fileVars, rowVars, batchVars
  <2>2. CASE ~(x = b /\ y = r)
    <3>1. pc'[x][y] = pc[x][y] /\ sent'[x][y] = sent[x][y] /\ result'[x][y] = result[x][y]
      BY <2>2 DEF TypeOK, Take, Goto
    <3> QED
      BY <2>2, <3>1, <1>0, BatchAssumption DEF TypeOK, RowAt, JobAt, BatchAt, Begun, Critical, Take,
         fileVars, rowVars, batchVars
  <2> QED
    BY <2>1, <2>2
<1> QED
  BY <1>1, <1>2, <1>3, <1>4 DEF IInv

LEMMA SetGuardInductive ==
ASSUME IInv, NEW b \in Batch, NEW r \in Row, SetGuard(b, r)
PROVE  IInv'
<1> TypeOK
  BY DEF IInv
<1>0. JobAt(b, r) /\ RowAt(r) /\ BatchAt(b)
  BY DEF IInv
<1>1. TypeOK'
  <2>1. pc' \in [Batch -> [Row -> Place]] /\ result' \in [Batch -> [Row -> Outcome]]
    BY Places, GotoType DEF TypeOK, SetGuard
  <2> QED
    BY <2>1, FailuresAssumption DEF TypeOK, FinalStatus, Batch, SetGuard, Fail, NoFail, fileVars,
       batchVars
<1>2. ASSUME NEW x \in Batch PROVE BatchAt(x)'
  <2> BatchAt(x)
    BY DEF IInv
  <2> QED
    BY DEF BatchAt, SetGuard, fileVars, batchVars
<1>3. ASSUME NEW y \in Row PROVE RowAt(y)'
  <2> RowAt(y)
    BY DEF IInv
  <2> QED
    BY <1>0, BatchAssumption DEF TypeOK, RowAt, JobAt, Critical, SetGuard
<1>4. ASSUME NEW x \in Batch, NEW y \in Row PROVE JobAt(x, y)'
  <2> JobAt(x, y) /\ RowAt(y) /\ BatchAt(x)
    BY DEF IInv
  <2>1. CASE x = b /\ y = r
    BY <2>1, BatchAssumption DEF TypeOK, RowAt, JobAt, BatchAt, Begun, Critical, SetGuard, Goto,
       fileVars, batchVars
  <2>2. CASE ~(x = b /\ y = r)
    <3>1. pc'[x][y] = pc[x][y] /\ sent'[x][y] = sent[x][y] /\ result'[x][y] = result[x][y]
      BY <2>2 DEF TypeOK, SetGuard, Goto
    <3> QED
      BY <2>2, <3>1, <1>0, BatchAssumption DEF TypeOK, RowAt, JobAt, BatchAt, Begun, Critical,
         SetGuard, fileVars, batchVars
  <2> QED
    BY <2>1, <2>2
<1> QED
  BY <1>1, <1>2, <1>3, <1>4 DEF IInv

LEMMA ReadRowInductive ==
ASSUME IInv, NEW b \in Batch, NEW r \in Row, ReadRow(b, r)
PROVE  IInv'
<1> TypeOK
  BY DEF IInv
<1>0. JobAt(b, r) /\ RowAt(r) /\ BatchAt(b)
  BY DEF IInv
<1>1. TypeOK'
  <2>1. pc' \in [Batch -> [Row -> Place]] /\ result' \in [Batch -> [Row -> Outcome]]
    BY Places, GotoType, FinishType DEF Outcome, TypeOK, ReadRow
  <2> QED
    BY <2>1, FailuresAssumption DEF TypeOK, FinalStatus, Batch, ReadRow, Fail, NoFail, fileVars,
       rowVars, batchVars
<1>2. ASSUME NEW x \in Batch PROVE BatchAt(x)'
  <2> BatchAt(x)
    BY DEF IInv
  <2> QED
    BY DEF BatchAt, ReadRow, fileVars, rowVars, batchVars
<1>3. ASSUME NEW y \in Row PROVE RowAt(y)'
  <2> RowAt(y)
    BY DEF IInv
  <2> QED
    BY DEF RowAt, ReadRow, rowVars
<1>4. ASSUME NEW x \in Batch, NEW y \in Row PROVE JobAt(x, y)'
  <2> JobAt(x, y) /\ RowAt(y) /\ BatchAt(x)
    BY DEF IInv
  <2>1. CASE x = b /\ y = r
    BY <2>1, BatchAssumption DEF TypeOK, RowAt, JobAt, BatchAt, Begun, Critical, ReadRow, Goto,
       Finish, fileVars, rowVars, batchVars
  <2>2. CASE ~(x = b /\ y = r)
    <3>1. pc'[x][y] = pc[x][y] /\ sent'[x][y] = sent[x][y] /\ result'[x][y] = result[x][y]
      BY <2>2 DEF TypeOK, ReadRow, Goto, Finish
    <3> QED
      BY <2>2, <3>1, <1>0, BatchAssumption DEF TypeOK, RowAt, JobAt, BatchAt, Begun, Critical,
         ReadRow, fileVars, rowVars, batchVars
  <2> QED
    BY <2>1, <2>2
<1> QED
  BY <1>1, <1>2, <1>3, <1>4 DEF IInv

LEMMA DispatchInductive ==
ASSUME IInv, NEW b \in Batch, NEW r \in Row, Dispatch(b, r)
PROVE  IInv'
<1> TypeOK
  BY DEF IInv
<1>0. JobAt(b, r) /\ RowAt(r) /\ BatchAt(b)
  BY DEF IInv
<1>1. TypeOK'
  <2>1. pc' \in [Batch -> [Row -> Place]] /\ result' \in [Batch -> [Row -> Outcome]]
    BY Places, GotoType, FinishType DEF Outcome, TypeOK, Dispatch
  <2>2. sent' \in [Batch -> [Row -> BOOLEAN]]
    <3>1. sent' = sent \/ sent' = [sent EXCEPT ![b][r] = TRUE]
      BY DEF Dispatch
    <3>2. [sent EXCEPT ![b][r] = TRUE] \in [Batch -> [Row -> BOOLEAN]]
      BY Pointwise DEF TypeOK
    <3> QED
      BY <3>1, <3>2 DEF TypeOK
  <2>3. offers' \in [Row -> Nat]
    <3>1. offers[r] + 1 \in Nat
      BY DEF TypeOK
    <3>2. offers' = offers \/ offers' = [offers EXCEPT ![r] = offers[r] + 1]
      BY DEF Dispatch
    <3> QED
      BY <3>1, <3>2 DEF TypeOK
  <2> QED
    BY <2>1, <2>2, <2>3 DEF TypeOK, Dispatch, fileVars, batchVars
<1>2. ASSUME NEW x \in Batch PROVE BatchAt(x)'
  <2> BatchAt(x)
    BY DEF IInv
  <2> QED
    BY DEF BatchAt, Dispatch, fileVars, batchVars
<1>3. ASSUME NEW y \in Row PROVE RowAt(y)'
  <2> RowAt(y)
    BY DEF IInv
  <2>1. offers[r] = 0 /\ guard[r] = b /\ b # None
    BY <1>0, BatchAssumption DEF JobAt, Critical, Dispatch
  <2>2. offers'[y] = offers[y] \/ (y = r /\ offers'[y] = 1)
    BY <2>1 DEF TypeOK, Dispatch
  <2>3. UNCHANGED <<status, guard>>
    BY DEF Dispatch
  <2> QED
    BY <2>1, <2>2, <2>3 DEF RowAt
<1>4. ASSUME NEW x \in Batch, NEW y \in Row PROVE JobAt(x, y)'
  <2> JobAt(x, y) /\ RowAt(y) /\ BatchAt(x)
    BY DEF IInv
  <2>1. CASE x = b /\ y = r
    BY <2>1, BatchAssumption DEF TypeOK, RowAt, JobAt, BatchAt, Begun, Critical, Dispatch, Goto,
       Finish, fileVars, batchVars
  <2>2. CASE ~(x = b /\ y = r)
    <3>1. pc'[x][y] = pc[x][y] /\ sent'[x][y] = sent[x][y] /\ result'[x][y] = result[x][y]
      BY <2>2 DEF TypeOK, Dispatch, Goto, Finish
    <3> QED
      BY <2>2, <3>1, <1>0, BatchAssumption DEF TypeOK, RowAt, JobAt, BatchAt, Begun, Critical,
         Dispatch, fileVars, batchVars
  <2> QED
    BY <2>1, <2>2
<1> QED
  BY <1>1, <1>2, <1>3, <1>4 DEF IInv

LEMMA DeliverInductive ==
ASSUME IInv, NEW b \in Batch, NEW r \in Row, Deliver(b, r)
PROVE  IInv'
<1> TypeOK
  BY DEF IInv
<1>0. JobAt(b, r) /\ RowAt(r) /\ BatchAt(b)
  BY DEF IInv
<1>1. TypeOK'
  <2>1. pc' \in [Batch -> [Row -> Place]] /\ result' \in [Batch -> [Row -> Outcome]]
    BY Places, GotoType, FinishType DEF Outcome, TypeOK, Deliver
  <2> QED
    BY <2>1, FailuresAssumption DEF TypeOK, FinalStatus, Batch, Deliver, fileVars, rowVars,
       batchVars
<1>2. ASSUME NEW x \in Batch PROVE BatchAt(x)'
  <2> BatchAt(x)
    BY DEF IInv
  <2> QED
    BY DEF BatchAt, Deliver, fileVars, rowVars, batchVars
<1>3. ASSUME NEW y \in Row PROVE RowAt(y)'
  <2> RowAt(y)
    BY DEF IInv
  <2> QED
    BY DEF RowAt, Deliver, rowVars
<1>4. ASSUME NEW x \in Batch, NEW y \in Row PROVE JobAt(x, y)'
  <2> JobAt(x, y) /\ RowAt(y) /\ BatchAt(x)
    BY DEF IInv
  <2>1. CASE x = b /\ y = r
    BY <2>1, BatchAssumption DEF TypeOK, RowAt, JobAt, BatchAt, Begun, Critical, Deliver, Goto,
       Finish, fileVars, rowVars, batchVars
  <2>2. CASE ~(x = b /\ y = r)
    <3>1. pc'[x][y] = pc[x][y] /\ sent'[x][y] = sent[x][y] /\ result'[x][y] = result[x][y]
      BY <2>2 DEF TypeOK, Deliver, Goto, Finish
    <3> QED
      BY <2>2, <3>1, <1>0, BatchAssumption DEF TypeOK, RowAt, JobAt, BatchAt, Begun, Critical,
         Deliver, fileVars, rowVars, batchVars
  <2> QED
    BY <2>1, <2>2
<1> QED
  BY <1>1, <1>2, <1>3, <1>4 DEF IInv

LEMMA PersistInductive ==
ASSUME IInv, NEW b \in Batch, NEW r \in Row, Persist(b, r)
PROVE  IInv'
<1> TypeOK
  BY DEF IInv
<1>0. JobAt(b, r) /\ RowAt(r) /\ BatchAt(b)
  BY DEF IInv
<1>a. status' \in [Row -> BOOLEAN] /\ \A y \in Row : status[y] => status'[y]
  <2>1. status' = status \/ status' = [status EXCEPT ![r] = TRUE]
    BY DEF Persist
  <2> QED
    BY <2>1 DEF TypeOK
<1>1. TypeOK'
  <2>1. pc' \in [Batch -> [Row -> Place]] /\ result' \in [Batch -> [Row -> Outcome]]
    BY Places, FinishType DEF Outcome, Persist
  <2> QED
    BY <1>a, <2>1, FailuresAssumption DEF TypeOK, Persist, Fail, NoFail, fileVars, batchVars
<1>2. ASSUME NEW x \in Batch PROVE BatchAt(x)'
  <2> BatchAt(x)
    BY DEF IInv
  <2>1. counted[x] \subseteq Row /\ completed[x] \subseteq Row
    BY DEF TypeOK
  <2> QED
    BY <1>a, <2>1 DEF BatchAt, Persist, fileVars, batchVars
<1>3. ASSUME NEW y \in Row PROVE RowAt(y)'
  <2> RowAt(y)
    BY DEF IInv
  <2> QED
    BY <1>0, BatchAssumption DEF TypeOK, RowAt, JobAt, Critical, Persist
<1>4. ASSUME NEW x \in Batch, NEW y \in Row PROVE JobAt(x, y)'
  <2> JobAt(x, y) /\ RowAt(y) /\ BatchAt(x)
    BY DEF IInv
  <2>1. CASE x = b /\ y = r
    BY <2>1, BatchAssumption DEF TypeOK, RowAt, JobAt, BatchAt, Begun, Critical, Persist, Finish,
       Goto, fileVars, batchVars
  <2>2. CASE ~(x = b /\ y = r)
    <3>1. pc'[x][y] = pc[x][y] /\ sent'[x][y] = sent[x][y] /\ result'[x][y] = result[x][y]
      BY <2>2 DEF TypeOK, Persist, Finish, Goto
    <3> QED
      BY <2>2, <3>1, <1>0, BatchAssumption DEF TypeOK, RowAt, JobAt, BatchAt, Begun, Critical,
         Persist, fileVars, batchVars
  <2> QED
    BY <2>1, <2>2
<1> QED
  BY <1>1, <1>2, <1>3, <1>4 DEF IInv

LEMMA MarkInductive ==
ASSUME IInv, NEW b \in Batch, NEW r \in Row, Mark(b, r)
PROVE  IInv'
<1> TypeOK
  BY DEF IInv
<1>0. JobAt(b, r) /\ RowAt(r) /\ BatchAt(b)
  BY DEF IInv
<1>1. TypeOK'
  <2>1. pc' \in [Batch -> [Row -> Place]] /\ result' \in [Batch -> [Row -> Outcome]]
    BY Places, GotoType, FinishType DEF Outcome, TypeOK, Mark
  <2>2. isError' \in [Row -> BOOLEAN]
    BY DEF TypeOK, Mark
  <2> QED
    BY <2>1, <2>2, FailuresAssumption DEF TypeOK, Mark, Fail, NoFail, fileVars, batchVars
<1>2. ASSUME NEW x \in Batch PROVE BatchAt(x)'
  <2> BatchAt(x)
    BY DEF IInv
  <2> QED
    BY <1>0, BatchAssumption DEF TypeOK, BatchAt, JobAt, Before, Begun, Mark, fileVars,
       batchVars
<1>3. ASSUME NEW y \in Row PROVE RowAt(y)'
  <2> RowAt(y)
    BY DEF IInv
  <2> QED
    BY DEF RowAt, Mark
<1>4. ASSUME NEW x \in Batch, NEW y \in Row PROVE JobAt(x, y)'
  <2> JobAt(x, y) /\ RowAt(y) /\ BatchAt(x)
    BY DEF IInv
  <2>1. CASE x = b /\ y = r
    <3>1. pc'[b][r] = "unguard" /\ result'[b][r] \in {result[b][r], "thrown"}
      BY DEF TypeOK, Mark, Finish, Goto
    <3>2. result'[b][r] # "thrown" => isError'[r] = (result[b][r] = "error")
      BY DEF TypeOK, Mark, Finish, Goto
    <3>3. result[b][r] \in {"ok", "error"} /\ guard[r] = b
      BY <1>0 DEF JobAt, Critical, Mark
    <3> QED
      BY <2>1, <3>1, <3>2, <3>3 DEF JobAt, Critical, Mark, batchVars
  <2>2. CASE ~(x = b /\ y = r)
    <3>1. pc'[x][y] = pc[x][y] /\ sent'[x][y] = sent[x][y] /\ result'[x][y] = result[x][y]
      BY <2>2 DEF TypeOK, Mark, Goto, Finish
    <3> QED
      BY <2>2, <3>1, <1>0, BatchAssumption DEF TypeOK, RowAt, JobAt, BatchAt, Begun, Critical, Mark,
         fileVars, batchVars
  <2> QED
    BY <2>1, <2>2
<1> QED
  BY <1>1, <1>2, <1>3, <1>4 DEF IInv

LEMMA UnguardInductive ==
ASSUME IInv, NEW b \in Batch, NEW r \in Row, Unguard(b, r)
PROVE  IInv'
<1> TypeOK
  BY DEF IInv
<1>0. JobAt(b, r) /\ RowAt(r) /\ BatchAt(b)
  BY DEF IInv
<1>1. TypeOK'
  <2>1. pc' \in [Batch -> [Row -> Place]]
    BY Places, GotoType DEF Unguard
  <2>2. guard' \in [Row -> Batch \cup {None}]
    BY DEF TypeOK, Unguard, Freed
  <2>3. sent' \in [Batch -> [Row -> BOOLEAN]]
    <3>1. sent' = [sent EXCEPT ![b][r] = FALSE]
      BY DEF Unguard
    <3> QED
      BY <3>1, Pointwise DEF TypeOK
  <2> QED
    BY <2>1, <2>2, <2>3, FailuresAssumption DEF TypeOK, Unguard, Fail, NoFail, fileVars, batchVars
<1>2. ASSUME NEW x \in Batch PROVE BatchAt(x)'
  <2> BatchAt(x)
    BY DEF IInv
  <2> QED
    BY DEF BatchAt, Unguard, fileVars, batchVars
<1>3. ASSUME NEW y \in Row PROVE RowAt(y)'
  <2> RowAt(y)
    BY DEF IInv
  <2> QED
    BY <1>0, BatchAssumption DEF TypeOK, RowAt, JobAt, Critical, Unguard, MayUnguard, Freed
<1>4. ASSUME NEW x \in Batch, NEW y \in Row PROVE JobAt(x, y)'
  <2> JobAt(x, y) /\ RowAt(y) /\ BatchAt(x)
    BY DEF IInv
  <2>1. CASE x = b /\ y = r
    BY <2>1, BatchAssumption DEF TypeOK, RowAt, JobAt, BatchAt, Begun, Critical, Unguard,
       MayUnguard, Freed, Goto, Fail, NoFail, fileVars, batchVars
  <2>2. CASE ~(x = b /\ y = r)
    <3>1. pc'[x][y] = pc[x][y] /\ result'[x][y] = result[x][y]
      BY <2>2 DEF TypeOK, Unguard, Goto
    <3>2. sent'[x][y] = sent[x][y]
      <4>1. sent' = [sent EXCEPT ![b][r] = FALSE]
        BY DEF Unguard
      <4> QED
        BY <2>2, <4>1 DEF TypeOK
    <3>3. pc[x][y] \in Critical => guard'[y] = guard[y]
      BY <2>2, <1>0 DEF TypeOK, JobAt, Critical, Unguard, Freed
    <3> QED
      BY <3>1, <3>2, <3>3 DEF JobAt, Critical, Unguard, batchVars
  <2> QED
    BY <2>1, <2>2
<1> QED
  BY <1>1, <1>2, <1>3, <1>4 DEF IInv

LEMMA CompleteInductive ==
ASSUME IInv, NEW b \in Batch, NEW r \in Row, Complete(b, r)
PROVE  IInv'
<1> TypeOK
  BY DEF IInv
<1>0. JobAt(b, r) /\ RowAt(r) /\ BatchAt(b)
  BY DEF IInv
<1>a. completed' = completed \/ completed' = [completed EXCEPT ![b] = @ \cup {r}]
  BY DEF Complete
<1>b. r \in payload[b] /\ (status[r] \/ isError[r])
  BY <1>0 DEF JobAt, Complete
<1>c. ASSUME NEW x \in Batch, completed[x] = payload[x] PROVE completed'[x] = payload[x]
  <2>1. completed[b] = payload[b] => completed[b] \cup {r} = payload[b]
    BY <1>b
  <2>2. completed'[x] = completed[x] \/ (x = b /\ completed'[x] = completed[b] \cup {r})
    BY <1>a DEF TypeOK
  <2> QED
    BY <1>c, <2>1, <2>2
<1>1. TypeOK'
  <2>1. pc' \in [Batch -> [Row -> Place]] /\ result' \in [Batch -> [Row -> Outcome]]
    BY Places, GotoType, FinishType DEF Outcome, TypeOK, Complete, Ended, End
  <2> QED
    BY <2>1, FailuresAssumption DEF TypeOK, FinalStatus, Batch, Complete, Fail, NoFail, fileVars,
       rowVars
<1>2. ASSUME NEW x \in Batch PROVE BatchAt(x)'
  <2> BatchAt(x)
    BY DEF IInv
  <2>1. completed'[x] \subseteq completed[x] \cup {r}
    BY <1>a DEF TypeOK
  <2> QED
    BY <1>b, <1>c, <2>1 DEF BatchAt, Complete, fileVars, rowVars
<1>3. ASSUME NEW y \in Row PROVE RowAt(y)'
  <2> RowAt(y)
    BY DEF IInv
  <2> QED
    BY DEF RowAt, Complete, rowVars
<1>4. ASSUME NEW x \in Batch, NEW y \in Row PROVE JobAt(x, y)'
  <2> JobAt(x, y) /\ RowAt(y) /\ BatchAt(x)
    BY DEF IInv
  <2>1. CASE x = b /\ y = r
    <3>1. pc'[b][r] \in {"count", "complete", "interrupt", "succeeded", "failed"}
      BY DEF TypeOK, Complete, Ended, End, Finish, Goto
    <3>2. pc'[b][r] = "count" => completed'[b] = payload[b]
      <4>1. pc'[b][r] = "count" => Last(b, r) /\ completed' = [completed EXCEPT ![b] = @ \cup {r}]
        BY DEF TypeOK, Complete, Ended, End, Finish, Goto
      <4> QED
        BY <4>1 DEF TypeOK, Last
    <3>3. result'[b][r] = "ok" => result[b][r] = "ok"
      BY DEF TypeOK, Complete, End, Finish
    <3> QED
      BY <1>0, <1>b, <2>1, <3>1, <3>2, <3>3 DEF JobAt, Critical, Complete, fileVars, rowVars
  <2>2. CASE ~(x = b /\ y = r)
    <3>1. pc'[x][y] = pc[x][y] /\ sent'[x][y] = sent[x][y] /\ result'[x][y] = result[x][y]
      BY <2>2 DEF TypeOK, Complete, Ended, End, Finish, Goto
    <3> QED
      BY <1>c, <3>1 DEF JobAt, Complete, fileVars, rowVars
  <2> QED
    BY <2>1, <2>2
<1> QED
  BY <1>1, <1>2, <1>3, <1>4 DEF IInv

LEMMA CountErrorsInductive ==
ASSUME IInv, NEW b \in Batch, NEW r \in Row, CountErrors(b, r)
PROVE  IInv'
<1> TypeOK
  BY DEF IInv
<1>0. JobAt(b, r) /\ RowAt(r) /\ BatchAt(b)
  BY DEF IInv
<1>1. TypeOK'
  <2>1. pc' \in [Batch -> [Row -> Place]] /\ result' \in [Batch -> [Row -> Outcome]]
    BY Places, GotoType DEF TypeOK, CountErrors
  <2> QED
    BY <2>1, FailuresAssumption DEF TypeOK, FinalStatus, Batch, CountErrors, Fail, NoFail, fileVars,
       rowVars
<1>2. ASSUME NEW x \in Batch PROVE BatchAt(x)'
  <2> BatchAt(x)
    BY DEF IInv
  <2> QED
    BY <1>0, BatchAssumption DEF TypeOK, BatchAt, JobAt, Before, Begun, CountErrors,
       Failed, fileVars, rowVars
<1>3. ASSUME NEW y \in Row PROVE RowAt(y)'
  <2> RowAt(y)
    BY DEF IInv
  <2> QED
    BY DEF RowAt, CountErrors, rowVars
<1>4. ASSUME NEW x \in Batch, NEW y \in Row PROVE JobAt(x, y)'
  <2> JobAt(x, y) /\ RowAt(y) /\ BatchAt(x)
    BY DEF IInv
  <2>1. CASE x = b /\ y = r
    BY <2>1, BatchAssumption DEF TypeOK, RowAt, JobAt, BatchAt, Begun, Critical, CountErrors,
       Failed, Goto, fileVars, rowVars
  <2>2. CASE ~(x = b /\ y = r)
    <3>1. pc'[x][y] = pc[x][y] /\ sent'[x][y] = sent[x][y] /\ result'[x][y] = result[x][y]
      BY <2>2 DEF TypeOK, CountErrors, Goto
    <3> QED
      BY <2>2, <3>1, <1>0, BatchAssumption DEF TypeOK, RowAt, JobAt, BatchAt, Begun, Critical,
         CountErrors, Failed, fileVars, rowVars
  <2> QED
    BY <2>1, <2>2
<1> QED
  BY <1>1, <1>2, <1>3, <1>4 DEF IInv

LEMMA WriteStatusInductive ==
ASSUME IInv, NEW b \in Batch, NEW r \in Row, WriteStatus(b, r)
PROVE  IInv'
<1> TypeOK
  BY DEF IInv
<1>0. JobAt(b, r) /\ RowAt(r) /\ BatchAt(b)
  BY DEF IInv
<1>1. TypeOK'
  <2>1. pc' \in [Batch -> [Row -> Place]] /\ result' \in [Batch -> [Row -> Outcome]]
    BY Places, GotoType DEF TypeOK, WriteStatus
  <2> QED
    BY <2>1, FailuresAssumption DEF TypeOK, FinalStatus, Batch, WriteStatus, Fail, NoFail, rowVars,
       batchVars
<1>2. ASSUME NEW x \in Batch PROVE BatchAt(x)'
  <2> BatchAt(x)
    BY DEF IInv
  <2> QED
    BY DEF BatchAt, WriteStatus, rowVars, batchVars
<1>3. ASSUME NEW y \in Row PROVE RowAt(y)'
  <2> RowAt(y)
    BY DEF IInv
  <2> QED
    BY DEF RowAt, WriteStatus, rowVars
<1>4. ASSUME NEW x \in Batch, NEW y \in Row PROVE JobAt(x, y)'
  <2> JobAt(x, y) /\ RowAt(y) /\ BatchAt(x)
    BY DEF IInv
  <2>1. CASE x = b /\ y = r
    BY <2>1, BatchAssumption DEF TypeOK, RowAt, JobAt, BatchAt, Begun, Critical, WriteStatus, Goto,
       rowVars, batchVars
  <2>2. CASE ~(x = b /\ y = r)
    <3>1. pc'[x][y] = pc[x][y] /\ sent'[x][y] = sent[x][y] /\ result'[x][y] = result[x][y]
      BY <2>2 DEF TypeOK, WriteStatus, Goto
    <3> QED
      BY <2>2, <3>1, <1>0, BatchAssumption DEF TypeOK, RowAt, JobAt, BatchAt, Begun, Critical,
         WriteStatus, rowVars, batchVars
  <2> QED
    BY <2>1, <2>2
<1> QED
  BY <1>1, <1>2, <1>3, <1>4 DEF IInv

LEMMA NotifyInductive ==
ASSUME IInv, NEW b \in Batch, NEW r \in Row, Notify(b, r)
PROVE  IInv'
<1> TypeOK
  BY DEF IInv
<1>0. JobAt(b, r) /\ RowAt(r) /\ BatchAt(b)
  BY DEF IInv
<1>1. TypeOK'
  <2>1. pc' \in [Batch -> [Row -> Place]] /\ result' \in [Batch -> [Row -> Outcome]]
    BY Places, GotoType, FinishType DEF Outcome, TypeOK, Notify, Ended, End
  <2> QED
    BY <2>1, FailuresAssumption DEF TypeOK, FinalStatus, Batch, Notify, Fail, NoFail, fileVars,
       rowVars
<1>2. ASSUME NEW x \in Batch PROVE BatchAt(x)'
  <2> BatchAt(x)
    BY DEF IInv
  <2> QED
    BY <1>0, BatchAssumption DEF TypeOK, BatchAt, JobAt, Before, Begun, Notify, fileVars,
       rowVars
<1>3. ASSUME NEW y \in Row PROVE RowAt(y)'
  <2> RowAt(y)
    BY DEF IInv
  <2> QED
    BY DEF RowAt, Notify, rowVars
<1>4. ASSUME NEW x \in Batch, NEW y \in Row PROVE JobAt(x, y)'
  <2> JobAt(x, y) /\ RowAt(y) /\ BatchAt(x)
    BY DEF IInv
  <2>1. CASE x = b /\ y = r
    BY <2>1, BatchAssumption DEF TypeOK, RowAt, JobAt, BatchAt, Begun, Critical, Notify, Ended,
       Goto, End, Finish, fileVars, rowVars
  <2>2. CASE ~(x = b /\ y = r)
    <3>1. pc'[x][y] = pc[x][y] /\ sent'[x][y] = sent[x][y] /\ result'[x][y] = result[x][y]
      BY <2>2 DEF TypeOK, Notify, Goto, End, Finish
    <3> QED
      BY <2>2, <3>1, <1>0, BatchAssumption DEF TypeOK, RowAt, JobAt, BatchAt, Begun, Critical,
         Notify, fileVars, rowVars
  <2> QED
    BY <2>1, <2>2
<1> QED
  BY <1>1, <1>2, <1>3, <1>4 DEF IInv

LEMMA InterruptInductive ==
ASSUME IInv, NEW b \in Batch, NEW r \in Row, Interrupt(b, r)
PROVE  IInv'
<1> TypeOK
  BY DEF IInv
<1>0. JobAt(b, r) /\ RowAt(r) /\ BatchAt(b)
  BY DEF IInv
<1>1. TypeOK'
  <2>1. pc' \in [Batch -> [Row -> Place]] /\ result' \in [Batch -> [Row -> Outcome]]
    BY Places, FinishType DEF Outcome, Interrupt, End
  <2> QED
    BY <2>1, FailuresAssumption DEF TypeOK, FinalStatus, Batch, Interrupt, Active, Fail, NoFail,
       rowVars, batchVars
<1>2. ASSUME NEW x \in Batch PROVE BatchAt(x)'
  <2> BatchAt(x)
    BY DEF IInv
  <2> QED
    BY DEF BatchAt, Interrupt, rowVars, batchVars
<1>3. ASSUME NEW y \in Row PROVE RowAt(y)'
  <2> RowAt(y)
    BY DEF IInv
  <2> QED
    BY DEF RowAt, Interrupt, rowVars
<1>4. ASSUME NEW x \in Batch, NEW y \in Row PROVE JobAt(x, y)'
  <2> JobAt(x, y) /\ RowAt(y) /\ BatchAt(x)
    BY DEF IInv
  <2>1. CASE x = b /\ y = r
    BY <2>1, BatchAssumption DEF TypeOK, RowAt, JobAt, BatchAt, Begun, Critical, Interrupt, Active,
       End, Finish, Goto, rowVars, batchVars
  <2>2. CASE ~(x = b /\ y = r)
    <3>1. pc'[x][y] = pc[x][y] /\ sent'[x][y] = sent[x][y] /\ result'[x][y] = result[x][y]
      BY <2>2 DEF TypeOK, Interrupt, End, Finish, Goto
    <3> QED
      BY <2>2, <3>1, <1>0, BatchAssumption DEF TypeOK, RowAt, JobAt, BatchAt, Begun, Critical,
         Interrupt, rowVars, batchVars
  <2> QED
    BY <2>1, <2>2
<1> QED
  BY <1>1, <1>2, <1>3, <1>4 DEF IInv

LEMMA DieInductive ==
ASSUME IInv, NEW b \in Batch, NEW r \in Row, Die(b, r)
PROVE  IInv'
<1> TypeOK
  BY DEF IInv
<1>0. JobAt(b, r) /\ RowAt(r) /\ BatchAt(b)
  BY DEF IInv
<1>1. TypeOK'
  <2>1. pc' \in [Batch -> [Row -> Place]] /\ result' \in [Batch -> [Row -> Outcome]]
    BY Places, FinishType DEF Outcome, Die, End
  <2> QED
    BY <2>1, FailuresAssumption DEF TypeOK, FinalStatus, Batch, Die, Fail, fileVars, rowVars,
       batchVars
<1>2. ASSUME NEW x \in Batch PROVE BatchAt(x)'
  <2> BatchAt(x)
    BY DEF IInv
  <2> QED
    BY DEF BatchAt, Die, fileVars, rowVars, batchVars
<1>3. ASSUME NEW y \in Row PROVE RowAt(y)'
  <2> RowAt(y)
    BY DEF IInv
  <2> QED
    BY DEF RowAt, Die, rowVars
<1>4. ASSUME NEW x \in Batch, NEW y \in Row PROVE JobAt(x, y)'
  <2> JobAt(x, y) /\ RowAt(y) /\ BatchAt(x)
    BY DEF IInv
  <2>1. CASE x = b /\ y = r
    <3>1. pc'[b][r] = "failed" /\ result'[b][r] = "none"
      BY DEF TypeOK, Die, End, Finish, Goto
    <3>2. pc[b][r] # "none"
      BY DEF Die, Running, Critical
    <3> QED
      BY <2>1, <3>1, <3>2 DEF JobAt, Critical, Die, fileVars, rowVars, batchVars
  <2>2. CASE ~(x = b /\ y = r)
    <3>1. pc'[x][y] = pc[x][y] /\ sent'[x][y] = sent[x][y] /\ result'[x][y] = result[x][y]
      BY <2>2 DEF TypeOK, Die, End, Finish, Goto, fileVars, rowVars, batchVars
    <3> QED
      BY <2>2, <3>1, <1>0, BatchAssumption DEF TypeOK, RowAt, JobAt, BatchAt, Begun, Critical, Die,
         fileVars, rowVars, batchVars
  <2> QED
    BY <2>1, <2>2
<1> QED
  BY <1>1, <1>2, <1>3, <1>4 DEF IInv

LEMMA StoreRowInductive ==
ASSUME IInv, NEW r \in Row, StoreRow(r)
PROVE  IInv'
<1> TypeOK
  BY DEF IInv
<1>0. RowAt(r)
  BY DEF IInv
<1>1. TypeOK'
  BY FailuresAssumption DEF TypeOK, FinalStatus, Batch, StoreRow, fileVars, batchVars, jobVars
<1>2. ASSUME NEW x \in Batch PROVE BatchAt(x)'
  <2> BatchAt(x)
    BY DEF IInv
  <2> QED
    BY <1>0, BatchAssumption DEF TypeOK, BatchAt, JobAt, Before, Begun, StoreRow,
       fileVars, batchVars
<1>3. ASSUME NEW y \in Row PROVE RowAt(y)'
  <2> RowAt(y)
    BY DEF IInv
  <2> QED
    BY DEF RowAt, StoreRow
<1>4. ASSUME NEW x \in Batch, NEW y \in Row PROVE JobAt(x, y)'
  <2> JobAt(x, y)
    BY DEF IInv
  <2> QED
    BY DEF JobAt, StoreRow, batchVars, jobVars
<1> QED
  BY <1>1, <1>2, <1>3, <1>4 DEF IInv

LEMMA ReconcileInductive ==
ASSUME IInv, NEW r \in Row, Reconcile(r)
PROVE  IInv'
<1> TypeOK
  BY DEF IInv
<1>0. RowAt(r)
  BY DEF IInv
<1>1. TypeOK'
  BY FailuresAssumption DEF TypeOK, FinalStatus, Batch, Reconcile, fileVars, batchVars, jobVars
<1>2. ASSUME NEW x \in Batch PROVE BatchAt(x)'
  <2> BatchAt(x)
    BY DEF IInv
  <2> QED
    BY <1>0, BatchAssumption DEF TypeOK, BatchAt, JobAt, Before, Begun, Reconcile,
       fileVars, batchVars
<1>3. ASSUME NEW y \in Row PROVE RowAt(y)'
  <2> RowAt(y)
    BY DEF IInv
  <2> QED
    BY <1>0, BatchAssumption DEF TypeOK, RowAt, JobAt, Critical, Reconcile
<1>4. ASSUME NEW x \in Batch, NEW y \in Row PROVE JobAt(x, y)'
  <2> JobAt(x, y) /\ RowAt(y) /\ BatchAt(x)
    BY DEF IInv
  <2> QED
    BY <1>0, BatchAssumption DEF TypeOK, RowAt, JobAt, BatchAt, Begun, Critical, Batch, Reconcile,
       fileVars, batchVars, jobVars
<1> QED
  BY <1>1, <1>2, <1>3, <1>4 DEF IInv

LEMMA Initial == Init => IInv
<1> SUFFICES ASSUME Init PROVE IInv
  OBVIOUS
<1>1. TypeOK
  BY Places, FailuresAssumption DEF Init, TypeOK, Outcome
<1>2. \A b \in Batch : BatchAt(b)
  BY DEF Init, BatchAt, Begun
<1>3. \A r \in Row : RowAt(r)
  BY DEF Init, RowAt
<1>4. \A b \in Batch, r \in Row : JobAt(b, r)
  BY DEF Init, JobAt, Critical
<1> QED
  BY <1>1, <1>2, <1>3, <1>4 DEF IInv

LEMMA Unmoved == IInv /\ UNCHANGED vars => IInv'
<1> SUFFICES ASSUME IInv, UNCHANGED vars PROVE IInv'
  OBVIOUS
<1> USE DEF vars, fileVars, rowVars, batchVars, jobVars
<1>1. TypeOK'
  BY DEF IInv, TypeOK
<1>2. \A b \in Batch : BatchAt(b)'
  BY DEF IInv, BatchAt
<1>3. \A r \in Row : RowAt(r)'
  BY DEF IInv, RowAt
<1>4. \A b \in Batch, r \in Row : JobAt(b, r)'
  BY DEF IInv, JobAt
<1> QED
  BY <1>1, <1>2, <1>3, <1>4 DEF IInv

LEMMA JobInductive ==
ASSUME IInv, NEW b \in Batch, NEW r \in Row, JobStep(b, r) \/ Deliver(b, r) \/ Die(b, r)
PROVE  IInv'
BY TakeInductive, SetGuardInductive, ReadRowInductive, DispatchInductive, DeliverInductive,
   PersistInductive, MarkInductive, UnguardInductive, CompleteInductive, CountErrorsInductive,
   WriteStatusInductive, NotifyInductive, InterruptInductive, DieInductive DEF JobStep

LEMMA Inductive == IInv /\ [Next]_vars => IInv'
<1> SUFFICES ASSUME IInv, [Next]_vars PROVE IInv'
  OBVIOUS
<1>1. CASE SaveFile \/ StoreRows \/ Finally
  BY <1>1, SaveFileInductive, StoreRowsInductive, FinallyInductive
<1>2. CASE \E b \in Batch : RetryRead(b) \/ AssertRetryable(b) \/ Enqueue(b)
  BY <1>2, RetryReadInductive, AssertRetryableInductive, EnqueueInductive
<1>3. CASE \E b \in Batch, r \in Row : JobStep(b, r) \/ Deliver(b, r) \/ Die(b, r)
  BY <1>3, JobInductive
<1>4. CASE \E r \in Row : StoreRow(r) \/ Reconcile(r)
  BY <1>4, StoreRowInductive, ReconcileInductive
<1>5. CASE UNCHANGED vars
  BY <1>5, Unmoved
<1> QED
  BY <1>1, <1>2, <1>3, <1>4, <1>5 DEF Next

LEMMA Invariance == Spec => []IInv
BY Initial, Inductive, PTL DEF Spec
-----------------------------------------------------------------------------
(* The state stays within its types, for any numbers of rows, retries and    *)
(* failures.                                                                 *)
THEOREM TypeCorrect == Spec => []TypeOK
<1>1. IInv => TypeOK
  BY DEF IInv
<1> QED
  BY <1>1, Invariance, PTL

(* The row guard of guardedRow() and the read of the row's status under it   *)
(* keep an upload, its retries, crashed workers and recovered rows from      *)
(* offering any row twice.                                                   *)
THEOREM NoDoubleOffer == Spec => []OfferedAtMostOnce
<1>1. IInv => OfferedAtMostOnce
  BY DEF IInv, RowAt, OfferedAtMostOnce
<1> QED
  BY <1>1, Invariance, PTL

(* The finally block of guardedRow() never gives back the guard of a row     *)
(* whose offer went out and is not recorded as issued.                       *)
THEOREM UncertainStaysGuarded == Spec => []UncertainRowGuarded
<1>1. IInv => UncertainRowGuarded
  BY DEF IInv, RowAt, UncertainRowGuarded
<1> QED
  BY <1>1, Invariance, PTL

(* The verdict of a batch is computed once: one job finds itself the last,   *)
(* and no job can after it.  A file that says completed has it from one.     *)
CountAt(b) ==
    \A r \in Row : pc[b][r] = "count" =>
        verdict[b] = "none" /\ \A y \in Row : pc[b][y] = "count" => y = r

VerdictInv ==
    /\ \A b \in Batch : CountAt(b)
    /\ file = "completed" => \E b \in Batch : verdict[b] = "completed"

(* A step that computes no verdict and brings no job to compute one. *)
LEMMA VerdictKept ==
ASSUME VerdictInv, verdict' = verdict,
       file' = "completed" => file = "completed" \/ \E b \in Batch : verdict[b] = "completed",
       \A b \in Batch, r \in Row : pc'[b][r] = "count" => pc[b][r] = "count"
PROVE  VerdictInv'
BY DEF VerdictInv, CountAt

LEMMA VerdictInductive == IInv /\ VerdictInv /\ [Next]_vars => VerdictInv'
<1> SUFFICES ASSUME IInv, VerdictInv, [Next]_vars PROVE VerdictInv'
  OBVIOUS
<1> TypeOK
  BY DEF IInv
<1>1. CASE SaveFile \/ StoreRows \/ Finally
  <2>1. verdict' = verdict /\ pc' = pc
    BY <1>1 DEF SaveFile, StoreRows, Finally, batchVars, jobVars
  <2>2. file' \in {file, "none", "started", outcomeOfUpload}
    BY <1>1 DEF SaveFile, StoreRows, Finally
  <2>3. file' = "completed" => file = "completed"
    BY <2>2 DEF TypeOK
  <2> QED
    BY <2>1, <2>3, VerdictKept
<1>2. ASSUME NEW b \in Batch, RetryRead(b) \/ AssertRetryable(b) PROVE VerdictInv'
  BY <1>2, VerdictKept DEF RetryRead, AssertRetryable, fileVars, jobVars
<1>3. ASSUME NEW b \in Batch, Enqueue(b) PROVE VerdictInv'
  <2>1. \A x \in Batch, y \in Row : pc'[x][y] = "count" => pc[x][y] = "count"
    BY <1>3 DEF TypeOK, Enqueue
  <2> QED
    BY <1>3, <2>1, VerdictKept DEF Enqueue, fileVars
<1>4. ASSUME NEW r \in Row, StoreRow(r) \/ Reconcile(r) PROVE VerdictInv'
  BY <1>4, VerdictKept DEF StoreRow, Reconcile, fileVars, batchVars, jobVars
<1>5. CASE UNCHANGED vars
  BY <1>5, VerdictKept DEF vars, fileVars, batchVars, jobVars
<1>6. ASSUME NEW b \in Batch, NEW r \in Row, JobStep(b, r) \/ Deliver(b, r) \/ Die(b, r),
             ~Complete(b, r), ~CountErrors(b, r)
      PROVE  VerdictInv'
  <2>1. \E s \in Place \ {"count"} : Goto(b, r, s)
    BY <1>6, Places DEF JobStep, Take, SetGuard, ReadRow, Dispatch, Deliver, Persist, Mark, Unguard,
       WriteStatus, Notify, Interrupt, Die, End, Ended, Finish
  <2>2. \A x \in Batch, y \in Row : pc'[x][y] = "count" => pc[x][y] = "count"
    BY <2>1, Pointwise DEF TypeOK, Goto
  <2>3. verdict' = verdict
    BY <1>6 DEF JobStep, Take, SetGuard, ReadRow, Dispatch, Deliver, Persist, Mark, Unguard,
       WriteStatus, Notify, Interrupt, Die, batchVars
  <2>4. file' \in {file, "interrupted", verdict[b]}
    BY <1>6 DEF JobStep, Take, SetGuard, ReadRow, Dispatch, Deliver, Persist, Mark, Unguard,
       WriteStatus, Notify, Interrupt, Die, fileVars
  <2> QED
    BY <2>2, <2>3, <2>4, VerdictKept
<1>7. ASSUME NEW b \in Batch, NEW r \in Row, Complete(b, r) PROVE VerdictInv'
  <2>1. verdict' = verdict /\ file' = file
    BY <1>7 DEF Complete, fileVars
  <2>2. \A x \in Batch, y \in Row : ~(x = b /\ y = r) => pc'[x][y] = pc[x][y]
    BY <1>7 DEF TypeOK, Complete, End, Ended, Finish, Goto
  <2>3. CASE pc'[b][r] # "count"
    BY <2>1, <2>2, <2>3, VerdictKept
  <2>4. CASE pc'[b][r] = "count"
    <3>1. Last(b, r)
      BY <1>7, <2>4 DEF TypeOK, Complete, End, Ended, Finish, Goto
    <3>2. completed[b] # payload[b]
      BY <3>1 DEF Last
    <3>3. verdict[b] = "none" /\ \A y \in Row : pc[b][y] # "count"
      BY <3>2 DEF IInv, BatchAt, JobAt
    <3> QED
      BY <2>1, <2>2, <3>3 DEF VerdictInv, CountAt
  <2> QED
    BY <2>3, <2>4
<1>8. ASSUME NEW b \in Batch, NEW r \in Row, CountErrors(b, r) PROVE VerdictInv'
  <2>1. \A x \in Batch, y \in Row : ~(x = b /\ y = r) => pc'[x][y] = pc[x][y]
    BY <1>8 DEF TypeOK, CountErrors, Goto
  <2>2. pc'[b][r] # "count" /\ file' = file /\ \A x \in Batch : x # b => verdict'[x] = verdict[x]
    BY <1>8 DEF TypeOK, CountErrors, Goto, fileVars
  <2>3. verdict[b] = "none" /\ \A y \in Row : y # r => pc[b][y] # "count"
    BY <1>8 DEF VerdictInv, CountAt, CountErrors
  <2>4. ASSUME NEW x \in Batch PROVE CountAt(x)'
    BY <2>1, <2>2, <2>3 DEF VerdictInv, CountAt
  <2>5. file' = "completed" => \E x \in Batch : verdict'[x] = "completed"
    BY <2>2, <2>3 DEF VerdictInv
  <2> QED
    BY <2>4, <2>5 DEF VerdictInv
<1> QED
  BY <1>1, <1>2, <1>3, <1>4, <1>5, <1>6, <1>7, <1>8 DEF Next

(* The status completed, which completeBulkRow() computes from a count made  *)
(* one await earlier, is true of every row it counted, each offered once.    *)
THEOREM CompletionIsTrue == Spec => []CompletedMeansIssued
<1>1. Init => VerdictInv
  BY DEF Init, VerdictInv, CountAt
<1>2. IInv /\ VerdictInv => CompletedMeansIssued
  <2> SUFFICES ASSUME IInv, VerdictInv, file = "completed"
               PROVE  \E b \in Batch :
                        /\ verdict[b] = "completed"
                        /\ payload[b] \subseteq counted[b]
                        /\ \A r \in counted[b] : status[r] /\ offers[r] = 1
    BY DEF CompletedMeansIssued
  <2>1. PICK b \in Batch : verdict[b] = "completed"
    BY DEF VerdictInv
  <2>2. payload[b] \subseteq counted[b] /\ \A r \in counted[b] : status[r]
    BY <2>1 DEF IInv, BatchAt
  <2>3. counted[b] \subseteq Row /\ \A r \in Row : status[r] => offers[r] = 1
    BY DEF IInv, RowAt, TypeOK
  <2> QED
    BY <2>1, <2>2, <2>3
<1> QED
  BY <1>1, <1>2, VerdictInductive, Invariance, PTL DEF Spec

(* The completion event that completeBulkRow() emits is preceded by the      *)
(* persistent outcome of every row of the batch.                             *)
THEOREM NotificationIsTrue == Spec => []NotifiedMeansPersisted
<1>1. IInv => NotifiedMeansPersisted
  BY DEF IInv, BatchAt, NotifiedMeansPersisted
<1> QED
  BY <1>1, Invariance, PTL
=============================================================================
