----------------------- MODULE ReplicationRefinement -----------------------
(***************************************************************************)
(* ObjectReplication implements RetryQueue, for every value of the         *)
(* constants: each of its steps is a step of the queue's promise or leaves *)
(* the queue alone.  The abstract batch is the union of what the polls     *)
(* still have to settle; that there is one such poll at a time (OnePoll)   *)
(* makes the union behave like the batch of a single worker.               *)
(***************************************************************************)
EXTENDS ReplicationProofs

Pending == UNION {batch[p] : p \in Polls}

\* The statements of the abstract table are those of the detailed one.
LEMMA SameStatements ==
  ASSUME NEW k
  PROVE  /\ RegisterReplicationTask(k) => RQ!RegisterReplicationTask(k)
         /\ UpsertOnFailure(k) => RQ!UpsertOnFailure(k)
         /\ UpdateOnRetryFailure(k) => RQ!UpdateOnRetryFailure(k)
         /\ DeleteOnSuccess(k) => RQ!DeleteOnSuccess(k)
         /\ BecomeDue(k) => RQ!BecomeDue(k)
<1>1. RQ!JoinLine(k) <=> JoinLine(k)
  BY DEF RQ!JoinLine, JoinLine
<1>2. RQ!LeaveLine(k) <=> LeaveLine(k)
  BY DEF RQ!LeaveLine, LeaveLine
<1>3. RQ!HasRow(k) <=> HasRow(k)
  BY DEF RQ!HasRow, HasRow
<1>4. \A r : RQ!OneMoreFailure(r) = OneMoreFailure(r)
  BY DEF RQ!OneMoreFailure, OneMoreFailure
<1>5. RQ!FirstTry = FirstTry /\ RQ!NoRow = NoRow
  BY DEF RQ!FirstTry, FirstTry, RQ!NoRow, NoRow
<1>6. RegisterReplicationTask(k) => RQ!RegisterReplicationTask(k)
  BY <1>1, <1>5 DEF RQ!RegisterReplicationTask, RegisterReplicationTask
<1>7. UpsertOnFailure(k) => RQ!UpsertOnFailure(k)
  BY <1>2, <1>3, <1>4, <1>5 DEF RQ!UpsertOnFailure, UpsertOnFailure
<1>8. UpdateOnRetryFailure(k) => RQ!UpdateOnRetryFailure(k)
  BY <1>2, <1>3, <1>4, <1>5 DEF RQ!UpdateOnRetryFailure, UpdateOnRetryFailure
<1>9. DeleteOnSuccess(k) => RQ!DeleteOnSuccess(k)
  BY <1>2, <1>5 DEF RQ!DeleteOnSuccess, DeleteOnSuccess
<1>10. BecomeDue(k) => RQ!BecomeDue(k)
  BY <1>1 DEF RQ!BecomeDue, BecomeDue
<1> QED
  BY <1>6, <1>7, <1>8, <1>9, <1>10

LEMMA SameBatches == RQ!RetryBatches = RetryBatches
<1>1. \A S : RQ!Cardinality(S) = Cardinality(S)
  BY DEF RQ!Cardinality, Cardinality
<1> QED
  BY <1>1 DEF RQ!RetryBatches, RetryBatches

---------------------------------------------------------------------------
\* A poll past its first line has the whole abstract batch.
LEMMA OnlyBatch ==
  ASSUME TypeOK, WorkerInv, NEW p \in Polls, pc[p] # "idle"
  PROVE  Pending = batch[p] /\ \A q \in Polls : q # p => batch[q] = {}
<1>1. ASSUME NEW q \in Polls, q # p PROVE batch[q] = {}
  BY <1>1 DEF WorkerInv, OnePoll, BatchOfServing
<1> QED
  BY <1>1 DEF Pending

\* Whoever waits for an answer serves its batch.
LEMMA SenderServes ==
  ASSUME TypeOK, WorkerInv, NEW p \in Polls, NEW s \in Slots, req[s].sender = p
  PROVE  pc[p] = "serving" /\ \E key \in Keys : key = current[p] /\ key \in Pending
<1>1. current[p] \in batch[p] /\ current[p] \in Keys
  BY SenderIsCurrent
<1> QED
  BY <1>1 DEF WorkerInv, BatchOfServing, Pending

LEMMA SettledBatch ==
  ASSUME TypeOK, WorkerInv, NEW p \in Polls, pc[p] # "idle", NEW k,
         batch' = [batch EXCEPT ![p] = @ \ {k}]
  PROVE  Pending' = Pending \ {k}
<1>1. \A q \in Polls : q # p => batch'[q] = {}
  BY OnlyBatch DEF TypeOK
<1>2. batch'[p] = batch[p] \ {k}
  BY DEF TypeOK
<1>3. Pending' = batch'[p]
  BY <1>1 DEF Pending
<1> QED
  BY <1>2, <1>3, OnlyBatch

LEMMA DroppedBatch ==
  ASSUME TypeOK, WorkerInv, NEW p \in Polls, pc[p] # "idle",
         batch' = [batch EXCEPT ![p] = {}]
  PROVE  Pending' = {}
<1>1. \A q \in Polls : batch'[q] = {}
  BY OnlyBatch DEF TypeOK
<1> QED
  BY <1>1 DEF Pending

---------------------------------------------------------------------------
LEMMA QueueVarsStay ==
  ASSUME UNCHANGED queueVars PROVE RQ!queueVars' = RQ!queueVars
BY DEF queueVars, RQ!queueVars

LEMMA Stutter ==
  ASSUME UNCHANGED queueVars, UNCHANGED batch, UNCHANGED faults
  PROVE  UNCHANGED RQ!retryVars
BY DEF queueVars, RQ!retryVars

LEMMA OfOneRow ==
  ASSUME NEW k \in Keys,
         \/ RQ!Register(k) \/ RQ!ReportFailure(k) \/ RQ!TimePasses(k)
         \/ RQ!Succeed(k) \/ RQ!Fail(k) \/ RQ!KeepRow(k)
  PROVE  RQ!RetryNext
BY DEF RQ!RetryNext

LEMMA MissingSettles ==
  ASSUME IInv, NEW p \in Polls, NEW k \in Keys, SendMissing(p, k)
  PROVE  RQ!RetryNext
<1>1. pc[p] # "idle" /\ k \in Pending
  BY DEF SendMissing, Pending
<1>2. Pending' = Pending \ {k}
  BY <1>1, SettledBatch DEF IInv, SendMissing, Settle
<1>3. RQ!Fail(k)
  BY <1>1, <1>2, SameStatements DEF RQ!Fail, SendMissing, Pending
<1> QED
  BY <1>3, OfOneRow

LEMMA AnswerSettles ==
  ASSUME IInv, NEW p \in Polls, NEW s \in Slots,
         \/ SendOk(p, s) \/ SendOkRowKept(p, s)
         \/ SendFail(p, s) \/ SendFailRowKept(p, s)
  PROVE  RQ!RetryNext
<1> USE DEF IInv, Settle
<1>1. CASE SendOk(p, s)
  <2>1. PICK key \in Keys :
          pc[p] # "idle" /\ key = current[p] /\ key \in Pending
    BY <1>1, SenderServes DEF SendOk
  <2>2. Pending' = Pending \ {key}
    BY <1>1, <2>1, SettledBatch DEF SendOk
  <2>3. RQ!Succeed(key)
    BY <1>1, <2>1, <2>2, SameStatements DEF RQ!Succeed, SendOk, Pending
  <2> QED BY <2>3, OfOneRow
<1>2. CASE SendOkRowKept(p, s)
  <2>1. PICK key \in Keys :
          pc[p] # "idle" /\ key = current[p] /\ key \in Pending
    BY <1>2, SenderServes DEF SendOkRowKept
  <2>2. Pending' = Pending \ {key}
    BY <1>2, <2>1, SettledBatch DEF SendOkRowKept
  <2>3. RQ!KeepRow(key)
    BY <1>2, <2>1, <2>2, QueueVarsStay DEF RQ!KeepRow, SendOkRowKept, Pending
  <2> QED BY <2>3, OfOneRow
<1>3. CASE SendFail(p, s)
  <2>1. PICK key \in Keys :
          pc[p] # "idle" /\ key = current[p] /\ key \in Pending
    BY <1>3, SenderServes DEF SendFail
  <2>2. Pending' = Pending \ {key}
    BY <1>3, <2>1, SettledBatch DEF SendFail
  <2>3. RQ!Fail(key)
    BY <1>3, <2>1, <2>2, SameStatements DEF RQ!Fail, SendFail, Pending
  <2> QED BY <2>3, OfOneRow
<1>4. CASE SendFailRowKept(p, s)
  <2>1. pc[p] # "idle"
    BY <1>4, SenderServes DEF SendFailRowKept
  <2>2. Pending' = {}
    BY <1>4, <2>1, DroppedBatch DEF SendFailRowKept
  <2>3. RQ!DropBatch
    BY <1>4, <2>2, QueueVarsStay DEF RQ!DropBatch, SendFailRowKept, Pending
  <2> QED BY <2>3 DEF RQ!RetryNext
<1> QED
  BY <1>1, <1>2, <1>3, <1>4

LEMMA MissingDrops ==
  ASSUME IInv, NEW p \in Polls, SendMissingRowKept(p)
  PROVE  RQ!RetryNext
<1>1. pc[p] # "idle"
  BY DEF SendMissingRowKept
<1>2. Pending' = {}
  BY <1>1, DroppedBatch DEF IInv, SendMissingRowKept
<1>3. RQ!DropBatch
  BY <1>2, QueueVarsStay DEF RQ!DropBatch, SendMissingRowKept, Pending
<1> QED
  BY <1>3 DEF RQ!RetryNext

---------------------------------------------------------------------------
LEMMA UploadImplements ==
  ASSUME NEW u \in Uploads,
         \/ PutOpen(u) \/ TusCreate(u) \/ WriteChunk(u) \/ PutClose(u)
         \/ UploadFails(u) \/ MultipartPublish(u) \/ Register(u)
         \/ TusComplete(u) \/ TusRemove(u)
  PROVE  RQ!RetryNext \/ UNCHANGED RQ!retryVars
<1>1. CASE Register(u)
  <2>1. RQ!Register(KeyOf[u])
    BY <1>1, SameStatements DEF RQ!Register, Register, workerVars
  <2> QED BY <2>1, OfOneRow, ReplicationAssumption
<1>2. CASE PutOpen(u) \/ TusCreate(u) \/ WriteChunk(u) \/ PutClose(u)
  BY <1>2, Stutter
     DEF PutOpen, TusCreate, OpenTruncated, WriteChunk, PutClose, workerVars
<1>3. CASE UploadFails(u) \/ MultipartPublish(u) \/ TusComplete(u) \/ TusRemove(u)
  BY <1>3, Stutter
     DEF UploadFails, MultipartPublish, TusComplete, TusRemove, workerVars
<1> QED
  BY <1>1, <1>2, <1>3

LEMMA TusSendImplements ==
  ASSUME NEW u \in Uploads, NEW s \in Slots, TusSendOk(u, s) \/ TusSendFail(u, s)
  PROVE  RQ!RetryNext \/ UNCHANGED RQ!retryVars
<1>1. CASE TusSendFail(u, s)
  <2>1. RQ!ReportFailure(KeyOf[u])
    BY <1>1, SameStatements DEF RQ!ReportFailure, TusSendFail, workerVars
  <2> QED BY <2>1, OfOneRow, ReplicationAssumption
<1>2. CASE TusSendOk(u, s)
  BY <1>2, Stutter DEF TusSendOk, workerVars
<1> QED
  BY <1>1, <1>2

LEMMA FetchImplements ==
  ASSUME IInv, NEW p \in Polls, PollFetch(p)
  PROVE  RQ!RetryNext
<1>1. PICK B \in RetryBatches : B # {} /\ batch' = [batch EXCEPT ![p] = B]
  BY DEF PollFetch
<1>2. pc[p] # "idle" /\ batch[p] = {}
  BY DEF PollFetch, IInv, WorkerInv, BatchOfServing
<1>3. Pending = {} /\ \A q \in Polls : q # p => batch'[q] = {}
  BY <1>1, <1>2, OnlyBatch DEF IInv, TypeOK
<1>4. Pending' = B
  BY <1>1, <1>3 DEF Pending, IInv, TypeOK
<1>5. RQ!Fetch
  BY <1>1, <1>3, <1>4, SameBatches DEF RQ!Fetch, PollFetch, Pending, queueVars
<1> QED
  BY <1>5 DEF RQ!RetryNext

LEMMA PollWaits ==
  ASSUME NEW p \in Polls,
         \/ PollStart(p) \/ PollSkip(p) \/ PollEnd(p)
         \/ \E k \in Keys : SendNext(p, k)
  PROVE  UNCHANGED RQ!retryVars
BY Stutter DEF PollStart, PollSkip, PollEnd, SendNext

LEMMA ReceiverImplements ==
  ASSUME NEW s \in Slots,
         \/ RecvOpen(s) \/ RecvOpenCut(s) \/ RecvWrite(s)
         \/ RecvFinish(s) \/ RecvFail(s)
  PROVE  UNCHANGED RQ!retryVars
BY Stutter DEF RecvOpen, RecvOpenCut, RecvWrite, RecvFinish, RecvFail, workerVars

LEMMA ClockImplements ==
  ASSUME NEW k \in Keys, TimePasses(k)
  PROVE  RQ!RetryNext
<1>1. RQ!TimePasses(k)
  BY SameStatements DEF RQ!TimePasses, TimePasses, workerVars
<1> QED
  BY <1>1, OfOneRow

LEMMA RestartImplements ==
  ASSUME Restart PROVE RQ!RetryNext
<1>1. Pending' = {}
  BY DEF Restart, Pending
<1>2. RQ!DropBatch
  BY <1>1, QueueVarsStay DEF Restart, RQ!DropBatch, Pending
<1> QED BY <1>2 DEF RQ!RetryNext

LEMMA StepImplements ==
  IInv /\ [Next]_vars => RQ!RetryNext \/ UNCHANGED RQ!retryVars
<1> SUFFICES ASSUME IInv, [Next]_vars
             PROVE  RQ!RetryNext \/ UNCHANGED RQ!retryVars
  OBVIOUS
<1>1. ASSUME NEW u \in Uploads,
             \/ PutOpen(u) \/ TusCreate(u) \/ WriteChunk(u) \/ PutClose(u)
             \/ UploadFails(u) \/ MultipartPublish(u) \/ Register(u)
             \/ TusComplete(u) \/ TusRemove(u)
      PROVE  RQ!RetryNext \/ UNCHANGED RQ!retryVars
  BY <1>1, UploadImplements
<1>2. ASSUME NEW u \in Uploads, NEW s \in Slots, TusSendOk(u, s) \/ TusSendFail(u, s)
      PROVE  RQ!RetryNext \/ UNCHANGED RQ!retryVars
  BY <1>2, TusSendImplements
<1>3. ASSUME NEW p \in Polls, PollFetch(p)
      PROVE  RQ!RetryNext
  BY <1>3, FetchImplements
<1>4. ASSUME NEW p \in Polls,
             \/ PollStart(p) \/ PollSkip(p) \/ PollEnd(p)
             \/ \E k \in Keys : SendNext(p, k)
      PROVE  UNCHANGED RQ!retryVars
  BY <1>4, PollWaits
<1>5. ASSUME NEW p \in Polls,
             SendMissingRowKept(p) \/ \E k \in Keys : SendMissing(p, k)
      PROVE  RQ!RetryNext
  BY <1>5, MissingSettles, MissingDrops
<1>6. ASSUME NEW p \in Polls, NEW s \in Slots,
             \/ SendOk(p, s) \/ SendOkRowKept(p, s)
             \/ SendFail(p, s) \/ SendFailRowKept(p, s)
      PROVE  RQ!RetryNext
  BY <1>6, AnswerSettles
<1>7. ASSUME NEW s \in Slots,
             \/ RecvOpen(s) \/ RecvOpenCut(s) \/ RecvWrite(s)
             \/ RecvFinish(s) \/ RecvFail(s)
      PROVE  RQ!RetryNext \/ UNCHANGED RQ!retryVars
  BY <1>7, ReceiverImplements
<1>8. ASSUME NEW k \in Keys, TimePasses(k)
      PROVE  RQ!RetryNext
  BY <1>8, ClockImplements
<1>9. CASE Restart
  BY <1>9, RestartImplements
<1>10. CASE UNCHANGED vars
  BY <1>10, Stutter DEF vars, queueVars
<1> QED
  BY <1>1, <1>2, <1>3, <1>4, <1>5, <1>6, <1>7, <1>8, <1>9, <1>10 DEF Next

(***************************************************************************)
(* The replication of a storage node keeps every promise of its queue: no  *)
(* interleaving of polls, uploads, answers, timeouts, restarts and errors  *)
(* does to the table what RetryQueue does not allow.                       *)
(***************************************************************************)
THEOREM RefinesRetryQueue == Spec => ImplementsRetryQueue
<1>1. Init => RQ!RetryInit
  BY DEF Init, QueueInit, RQ!RetryInit, RQ!QueueInit, NoRow, RQ!NoRow
<1> QED
  BY <1>1, StepImplements, InductiveInvariant, PTL
     DEF Spec, ImplementsRetryQueue, RQ!RetrySafety
=============================================================================
