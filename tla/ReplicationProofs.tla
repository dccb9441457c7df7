------------------------- MODULE ReplicationProofs -------------------------
(***************************************************************************)
(* The safety properties of ObjectReplication, for every value of its      *)
(* constants, from the inductive invariant IInv of ReplicationInvariant.   *)
(***************************************************************************)
EXTENDS ReplicationTypeProofs

(***************************************************************************)
(* What the statements of the table do to its rows: only deleteOnSuccess   *)
(* removes one, and a row that is due is in the table.                     *)
(***************************************************************************)
LEMMA RowsStay ==
  ASSUME QueueTypeOK, DueQueued, NEW k \in Keys,
         \/ RegisterReplicationTask(k) \/ UpsertOnFailure(k)
         \/ UpdateOnRetryFailure(k) \/ BecomeDue(k)
  PROVE  DueQueued' /\ \A j \in Keys : HasRow(j) => HasRow(j)'
<1>1. \A row : OneMoreFailure(row).status # "NONE"
  BY DEF OneMoreFailure
<1>2. FirstTry.status # "NONE"
  BY DEF FirstTry
<1>3. ASSUME NEW j \in Keys, HasRow(j)  PROVE HasRow(j)'
  BY <1>1, <1>2, <1>3 DEF HasRow, QueueTypeOK, RegisterReplicationTask,
     UpsertOnFailure, UpdateOnRetryFailure, BecomeDue
<1>4. CASE JoinLine(k) /\ HasRow(k)'
  BY <1>3, <1>4 DEF DueQueued, JoinLine, QueueTypeOK
<1>5. CASE LeaveLine(k)
  BY <1>3, <1>5 DEF DueQueued, LeaveLine, QueueTypeOK
<1>6. CASE RegisterReplicationTask(k)
  BY <1>2, <1>3, <1>4, <1>6
  DEF RegisterReplicationTask, HasRow, QueueTypeOK
<1>7. CASE BecomeDue(k)
  BY <1>3, <1>4, <1>7 DEF BecomeDue, HasRow
<1> QED
  BY <1>3, <1>5, <1>6, <1>7 DEF UpsertOnFailure, UpdateOnRetryFailure

LEMMA OnlyItsRowGoes ==
  ASSUME QueueTypeOK, DueQueued, NEW k \in Keys, DeleteOnSuccess(k)
  PROVE  DueQueued' /\ \A j \in Keys : HasRow(j) /\ j # k => HasRow(j)'
BY DEF QueueTypeOK, DueQueued, DeleteOnSuccess, LeaveLine, HasRow

LEMMA RowIsThere ==
  ASSUME QueueTypeOK, NEW k \in Keys,
         RegisterReplicationTask(k) \/ UpsertOnFailure(k)
  PROVE  HasRow(k)'
<1>1. \A row : OneMoreFailure(row).status # "NONE"
  BY DEF OneMoreFailure
<1> QED
  BY <1>1 DEF QueueTypeOK, RegisterReplicationTask, UpsertOnFailure, HasRow,
              FirstTry

(***************************************************************************)
(* CountDecidesStatus is kept by every statement.                          *)
(***************************************************************************)
LEMMA StatusKept ==
  ASSUME QueueTypeOK, CountDecidesStatus, NEW k \in Keys,
         \/ RegisterReplicationTask(k) \/ UpsertOnFailure(k)
         \/ UpdateOnRetryFailure(k) \/ DeleteOnSuccess(k) \/ BecomeDue(k)
  PROVE  CountDecidesStatus'
<1> DEFINE Right(row) == row.status # "NONE" =>
             (row.status = "FAILED_PERM" <=> row.retryCount >= MaxRetry)
<1>1. Right(NoRow) /\ Right(FirstTry)
  BY QueueAssumption DEF NoRow, FirstTry
<1>2. \A row \in Row : Right(OneMoreFailure(row))
  BY QueueAssumption DEF OneMoreFailure, Row
<1>3. \A j \in Keys : Right(queue[j]) /\ queue[j] \in Row
  BY DEF CountDecidesStatus, HasRow, QueueTypeOK
<1> HIDE DEF Right
<1>4. \A j \in Keys : Right(queue'[j])
  BY <1>1, <1>2, <1>3 DEF QueueTypeOK, RegisterReplicationTask,
     UpsertOnFailure, UpdateOnRetryFailure, DeleteOnSuccess, BecomeDue
<1> QED
  BY <1>4 DEF Right, CountDecidesStatus, HasRow

(***************************************************************************)
(* How an action changes the requests: it keeps every sender, or it leaves *)
(* one request without its sender.                                         *)
(***************************************************************************)
SameSender(r, q) == /\ q.sender = r.sender
                    /\ q.stage = r.stage \/ (q.stage = "receiving" /\ r.stage = "waiting")
                       \/ (r.stage = "receiving" /\ q.stage \in {"done", "failed"}
                           /\ r.sender # None)
                    /\ q.key = r.key

Freed(q) == \/ q = FreeReq
            \/ q.stage \in {"cut", "receiving"} /\ q.sender = None /\ q.key \in Keys

LEMMA GivenUpFreed ==
  ASSUME NEW r \in Request, NEW arrived \in BOOLEAN,
         r.stage # "free" => r.key \in Keys,
         r.stage \in {"free", "cut"} => r.sender = None
  PROVE  Freed(GivenUp(r, arrived))
BY DEF GivenUp, Freed, FreeReq, Request

LEMMA FreedSender ==
  ASSUME NEW q, Freed(q)
  PROVE  /\ q.sender = None
         /\ q.stage \in {"free", "cut", "receiving"}
         /\ q.stage # "free" => q.key \in Keys
BY DEF Freed, FreeReq

LEMMA SendersKept ==
  ASSUME TypeOK, SenderKnown, OneRequestPerPoll, UNCHANGED current,
         \A s \in Slots : SameSender(req[s], req'[s]) \/ Freed(req'[s])
  PROVE  SenderKnown' /\ OneRequestPerPoll'
<1>0. None \notin Polls /\ None \notin Uploads
  BY ReplicationAssumption
<1>1. SenderKnown'
  <2> SUFFICES ASSUME NEW s \in Slots
      PROVE /\ req'[s].stage \in {"free", "cut"} => req'[s].sender = None
            /\ req'[s].stage \in {"waiting", "done", "failed"} => req'[s].sender # None
            /\ req'[s].stage # "free" => req'[s].key \in Keys
            /\ req'[s].sender \in Polls => req'[s].key = current[req'[s].sender]
            /\ req'[s].sender \in Uploads => req'[s].key = KeyOf[req'[s].sender]
    BY DEF SenderKnown
  <2>1. CASE Freed(req'[s])
    BY <1>0, <2>1, FreedSender
  <2>2. CASE SameSender(req[s], req'[s])
    BY <2>2 DEF SenderKnown, SameSender
  <2> QED  BY <2>1, <2>2
<1>2. OneRequestPerPoll'
  <2> SUFFICES ASSUME NEW s \in Slots, NEW t \in Slots,
                      req'[s].sender = req'[t].sender, req'[s].sender \in Polls
               PROVE  s = t
    BY DEF OneRequestPerPoll
  <2>1. ~Freed(req'[s]) /\ ~Freed(req'[t])
    BY <1>0, FreedSender
  <2> QED  BY <2>1 DEF OneRequestPerPoll, SameSender
<1> QED  BY <1>1, <1>2

(***************************************************************************)
(* A step of an upload, of the secondary or of the clock leaves the worker *)
(* where it is.                                                            *)
(***************************************************************************)
RowsKept == DueQueued' /\ \A j \in Keys : HasRow(j) => HasRow(j)'

LEMMA UnchangedRows ==
  ASSUME TypeOK, DueQueued, UNCHANGED queueVars
  PROVE  RowsKept
BY DEF DueQueued, RowsKept, queueVars, HasRow

LEMMA WorkerUntouched ==
  ASSUME TypeOK, WorkerInv, UNCHANGED workerVars, RowsKept,
         SenderKnown' /\ OneRequestPerPoll'
  PROVE  WorkerInv'
<1>1. BatchRowsQueued'
  BY DEF RowsKept, BatchRowsQueued, WorkerInv, workerVars, TypeOK
<1>2. OnePoll' /\ BatchOfServing'
  BY DEF OnePoll, BatchOfServing, WorkerInv, workerVars
<1> QED  BY <1>1, <1>2 DEF WorkerInv, RowsKept

LEMMA SeenSender ==
  ASSUME NEW r \in Request, NEW k, NEW c
  PROVE  SameSender(r, Sees(r, k, c))
BY DEF SameSender, Sees, Request

LEMMA ReqUnchanged ==
  ASSUME TypeOK, WorkerInv, UNCHANGED <<req, current>>
  PROVE  SenderKnown' /\ OneRequestPerPoll'
BY DEF WorkerInv, SenderKnown, OneRequestPerPoll

LEMMA FileBecomesSenders ==
  ASSUME TypeOK, WorkerInv, UNCHANGED current, NEW k, NEW c, FileBecomes(k, c)
  PROVE  SenderKnown' /\ OneRequestPerPoll'
<1>1. \A s \in Slots : SameSender(req[s], req'[s])
  BY SeenSender DEF FileBecomes, TypeOK
<1> QED  BY <1>1, SendersKept DEF WorkerInv

\* A new request: its sender waits for no other one.
LEMMA NewSender ==
  ASSUME TypeOK, SenderKnown, OneRequestPerPoll,
         NEW from \in Polls \cup Uploads, NEW free \in Slots, NEW k \in Keys,
         NEW c,
         req[free].stage = "free",
         req'[free] = NewReq(from, k, c),
         \A s \in Slots : s # free => SameSender(req[s], req'[s]),
         \A p \in Polls : p # from => current'[p] = current[p],
         from \in Polls => current[from] = None /\ current'[from] = k,
         from \in Uploads => k = KeyOf[from]
  PROVE  SenderKnown' /\ OneRequestPerPoll'
<1>0. None \notin Polls /\ None \notin Uploads /\ None \notin Keys
      /\ Polls \cap Uploads = {}
  BY ReplicationAssumption
<1>1. \A s \in Slots : req[s].sender = from => from \notin Polls
  BY <1>0 DEF SenderKnown
<1>2. SenderKnown'
  <2> SUFFICES ASSUME NEW s \in Slots
      PROVE /\ req'[s].stage \in {"free", "cut"} => req'[s].sender = None
            /\ req'[s].stage \in {"waiting", "done", "failed"} => req'[s].sender # None
            /\ req'[s].stage # "free" => req'[s].key \in Keys
            /\ req'[s].sender \in Polls => req'[s].key = current'[req'[s].sender]
            /\ req'[s].sender \in Uploads => req'[s].key = KeyOf[req'[s].sender]
    BY DEF SenderKnown
  <2>1. CASE s = free
    BY <1>0, <2>1 DEF NewReq
  <2>2. CASE s # free
    BY <1>0, <1>1, <2>2 DEF SameSender, SenderKnown
  <2> QED  BY <2>1, <2>2
<1>3. OneRequestPerPoll'
  <2> SUFFICES ASSUME NEW s \in Slots, NEW t \in Slots,
                      req'[s].sender = req'[t].sender, req'[s].sender \in Polls
               PROVE  s = t
    BY DEF OneRequestPerPoll
  <2> QED  BY <1>1 DEF NewReq, SameSender, OneRequestPerPoll
<1> QED  BY <1>2, <1>3

LEMMA UploadStepWorker ==
  ASSUME TypeOK, WorkerInv, NEW u \in Uploads,
         \/ PutOpen(u) \/ TusCreate(u) \/ WriteChunk(u) \/ PutClose(u)
         \/ UploadFails(u) \/ MultipartPublish(u) \/ Register(u)
         \/ TusComplete(u) \/ TusRemove(u)
  PROVE  WorkerInv'
<1>0. KeyOf[u] \in Keys /\ QueueTypeOK /\ DueQueued
  BY ReplicationAssumption DEF TypeOK, WorkerInv
<1>1. UNCHANGED workerVars
  BY DEF PutOpen, TusCreate, OpenTruncated, WriteChunk, PutClose, UploadFails,
         MultipartPublish, Register, TusComplete, TusRemove
<1>2. RowsKept
  <2>1. CASE Register(u)
    BY <1>0, <2>1, RowsStay DEF Register, RowsKept
  <2>2. CASE UNCHANGED queueVars
    BY <1>0, <2>2, UnchangedRows
  <2> QED
    BY <2>1, <2>2
    DEF PutOpen, TusCreate, OpenTruncated, WriteChunk, PutClose, UploadFails,
        MultipartPublish, TusComplete, TusRemove
<1>3. SenderKnown' /\ OneRequestPerPoll'
  <2>1. CASE \E c : FileBecomes(KeyOf[u], c)
    BY <1>1, <2>1, FileBecomesSenders DEF workerVars
  <2>2. CASE UNCHANGED req
    BY <1>1, <2>2, ReqUnchanged DEF workerVars
  <2>3. CASE TusComplete(u)
    <3>1. PICK c \in Outcomes(u), free \in Slots :
            /\ req[free].stage = "free"
            /\ req' = [s \in Slots |-> IF s = free
                                       THEN NewReq(u, KeyOf[u], c)
                                       ELSE Sees(req[s], KeyOf[u], c)]
      BY <2>3 DEF TusComplete
    <3>2. \A s \in Slots : s # free => SameSender(req[s], req'[s])
      BY <3>1, SeenSender DEF TypeOK
    <3>3. u \notin Polls
      BY ReplicationAssumption
    <3> QED
      BY <1>0, <1>1, <3>1, <3>2, <3>3, NewSender DEF workerVars, WorkerInv
  <2> QED
    BY <2>1, <2>2, <2>3
    DEF PutOpen, TusCreate, OpenTruncated, WriteChunk, PutClose, UploadFails,
        MultipartPublish, Register, TusRemove
<1> QED  BY <1>1, <1>2, <1>3, WorkerUntouched

LEMMA RecvStepWorker ==
  ASSUME TypeOK, WorkerInv, NEW s \in Slots,
         \/ RecvOpen(s) \/ RecvOpenCut(s) \/ RecvWrite(s)
         \/ RecvFinish(s) \/ RecvFail(s)
  PROVE  WorkerInv'
<1>1. UNCHANGED workerVars /\ UNCHANGED queueVars
  BY DEF RecvOpen, RecvOpenCut, RecvWrite, RecvFinish, RecvFail
<1>2. \A t \in Slots : SameSender(req[t], req'[t]) \/ Freed(req'[t])
  <2>0. \A t \in Slots : req[t] \in Request
    BY DEF TypeOK
  <2>1. CASE RecvOpen(s)
    BY <2>0, <2>1 DEF RecvOpen, SameSender, Request
  <2>2. CASE RecvOpenCut(s)
    BY <2>0, <2>2 DEF RecvOpenCut, SameSender, Freed, Request
  <2>3. CASE RecvFinish(s) \/ RecvFail(s)
    <3>1. PICK answer \in {"done", "failed"} : Answered(s, answer)
      BY <2>3 DEF RecvFinish, RecvFail
    <3>2. req[s].stage = "receiving"
      BY <2>3 DEF RecvFinish, RecvFail
    <3>3. req' = [req EXCEPT ![s] =
                    IF req[s].sender = None THEN FreeReq
                    ELSE [req[s] EXCEPT !.stage = answer]]
      BY <3>1 DEF Answered
    <3>4. CASE req[s].sender = None
      BY <2>0, <3>3, <3>4 DEF SameSender, Freed, TypeOK
    <3>5. CASE req[s].sender # None
      <4>1. req' = [req EXCEPT ![s] = [req[s] EXCEPT !.stage = answer]]
        BY <3>3, <3>5
      <4>2. SameSender(req[s], [req[s] EXCEPT !.stage = answer])
        BY <2>0, <3>2, <3>5 DEF SameSender, Request
      <4>3. \A t \in Slots : SameSender(req[t], req[t])
        BY DEF SameSender
      <4> QED  BY <4>1, <4>2, <4>3 DEF TypeOK
    <3> QED  BY <3>4, <3>5
  <2>4. CASE RecvWrite(s)
    BY <2>4 DEF RecvWrite, SameSender
  <2> QED  BY <2>1, <2>2, <2>3, <2>4
<1>3. SenderKnown' /\ OneRequestPerPoll'
  BY <1>1, <1>2, SendersKept DEF workerVars, WorkerInv
<1> QED
  BY <1>1, <1>3, WorkerUntouched, UnchangedRows DEF WorkerInv

LEMMA TusSendStepWorker ==
  ASSUME TypeOK, WorkerInv, NEW u \in Uploads, NEW s \in Slots,
         TusSendOk(u, s) \/ TusSendFail(u, s)
  PROVE  WorkerInv'
<1>0. KeyOf[u] \in Keys /\ QueueTypeOK /\ DueQueued
  BY ReplicationAssumption DEF TypeOK, WorkerInv
<1>1. UNCHANGED workerVars
  BY DEF TusSendOk, TusSendFail
<1>2. RowsKept
  BY <1>0, RowsStay, UnchangedRows DEF TusSendOk, TusSendFail, RowsKept
<1>3. \A t \in Slots : SameSender(req[t], req'[t]) \/ Freed(req'[t])
  <2>1. req' = [req EXCEPT ![s] = FreeReq]
        \/ \E arrived \in BOOLEAN :
             req' = [req EXCEPT ![s] = GivenUp(req[s], arrived)]
    BY DEF TusSendOk, TusSendFail
  <2>2. \A arrived \in BOOLEAN : Freed(GivenUp(req[s], arrived))
    BY GivenUpFreed DEF TypeOK, WorkerInv, SenderKnown
  <2>3. Freed(FreeReq) /\ \A t \in Slots : SameSender(req[t], req[t])
    BY DEF Freed, SameSender
  <2> QED  BY <2>1, <2>2, <2>3 DEF TypeOK
<1>4. SenderKnown' /\ OneRequestPerPoll'
  BY <1>1, <1>3, SendersKept DEF workerVars, WorkerInv
<1> QED  BY <1>1, <1>2, <1>4, WorkerUntouched

(***************************************************************************)
(* The steps of the worker itself.                                         *)
(***************************************************************************)
LEMMA PollStepWorker ==
  ASSUME TypeOK, WorkerInv, NEW p \in Polls,
         \/ PollStart(p) \/ PollSkip(p) \/ PollFetch(p)
         \/ PollEnd(p) \/ SendMissingRowKept(p)
  PROVE  WorkerInv'
<1>1. UNCHANGED <<queueVars, req, current>>
  BY DEF PollStart, PollSkip, PollFetch, PollEnd, SendMissingRowKept
<1>2. DueQueued' /\ \A j \in Keys : HasRow(j) => HasRow(j)'
  BY <1>1, UnchangedRows DEF RowsKept, WorkerInv
<1>3. SenderKnown' /\ OneRequestPerPoll'
  BY <1>1, ReqUnchanged
<1>4. OnePoll'
  BY DEF PollStart, PollSkip, PollFetch, PollEnd, SendMissingRowKept,
         PollOver, OnePoll, WorkerInv, TypeOK
<1>5. BatchOfServing' /\ BatchRowsQueued'
  <2>1. CASE PollFetch(p)
    <3>1. batch[p] = {} /\ current[p] = None
      BY <2>1 DEF PollFetch, WorkerInv, BatchOfServing
    <3>2. PICK B \in RetryBatches : batch' = [batch EXCEPT ![p] = B]
      BY <2>1 DEF PollFetch
    <3>3. \A k \in B : k \in Keys /\ HasRow(k)
      BY <3>2 DEF RetryBatches, WorkerInv, DueQueued, TypeOK, QueueTypeOK
    <3> QED
      BY <1>1, <1>2, <2>1, <3>1, <3>2, <3>3
      DEF PollFetch, WorkerInv, BatchOfServing, BatchRowsQueued, TypeOK
  <2>2. CASE PollStart(p) \/ PollSkip(p) \/ PollEnd(p)
    <3>1. UNCHANGED batch /\ batch[p] = {}
      BY <2>2 DEF PollStart, PollSkip, PollEnd, WorkerInv, BatchOfServing
    <3>2. \A q \in Polls : q # p => pc'[q] = pc[q]
      BY <2>2 DEF PollStart, PollSkip, PollEnd, PollOver, TypeOK
    <3> QED
      BY <1>1, <1>2, <3>1, <3>2
      DEF WorkerInv, BatchOfServing, BatchRowsQueued, TypeOK
  <2>3. CASE SendMissingRowKept(p)
    <3>1. current[p] = None /\ batch' = [batch EXCEPT ![p] = {}]
      BY <2>3 DEF SendMissingRowKept
    <3>2. \A q \in Polls : q # p => pc'[q] = pc[q]
      BY <2>3 DEF SendMissingRowKept, PollOver, TypeOK
    <3> QED
      BY <1>1, <1>2, <3>1, <3>2
      DEF WorkerInv, BatchOfServing, BatchRowsQueued, TypeOK
  <2> QED  BY <2>1, <2>2, <2>3
<1> QED  BY <1>2, <1>3, <1>4, <1>5 DEF WorkerInv

LEMMA SendNextWorker ==
  ASSUME TypeOK, WorkerInv, NEW p \in Polls, NEW k \in Keys, SendNext(p, k)
  PROVE  WorkerInv'
<1>1. UNCHANGED <<queueVars, isWorking, pc, batch>>
  BY DEF SendNext
<1>2. DueQueued' /\ \A j \in Keys : HasRow(j) => HasRow(j)'
  BY <1>1, UnchangedRows DEF RowsKept, WorkerInv
<1>3. PICK s \in Slots : /\ req[s].stage = "free"
                         /\ req' = [req EXCEPT ![s] = NewReq(p, k, disk[k])]
  BY DEF SendNext
<1>4. \A t \in Slots : t # s => SameSender(req[t], req'[t])
  BY <1>3 DEF SameSender, TypeOK
<1>5. SenderKnown' /\ OneRequestPerPoll'
  <2>1. p \notin Uploads
    BY ReplicationAssumption
  <2>2. current[p] = None /\ current' = [current EXCEPT ![p] = k]
    BY DEF SendNext
  <2> QED
    BY <1>3, <1>4, <2>1, <2>2, NewSender DEF TypeOK, WorkerInv
<1>6. OnePoll' /\ BatchOfServing' /\ BatchRowsQueued'
  BY <1>1, <1>2
  DEF SendNext, WorkerInv, OnePoll, BatchOfServing, BatchRowsQueued, TypeOK
<1> QED  BY <1>2, <1>5, <1>6 DEF WorkerInv

(***************************************************************************)
(* A poll settles the row k: its request, if there is one, is over, and    *)
(* the row itself may be gone, but no other.                               *)
(***************************************************************************)
LEMMA SettleWorker ==
  ASSUME TypeOK, WorkerInv, NEW p \in Polls, NEW k \in Keys,
         k \in batch[p], Settle(p, k), UNCHANGED <<isWorking, pc>>,
         DueQueued', \A j \in Keys : HasRow(j) /\ j # k => HasRow(j)',
         \A s \in Slots : \/ Freed(req'[s])
                          \/ req[s].sender # p /\ req'[s] = req[s]
  PROVE  WorkerInv'
<1>0. None \notin Polls /\ None \notin Uploads
  BY ReplicationAssumption
<1>1. pc[p] = "serving"
  BY DEF WorkerInv, BatchOfServing
<1>2. \A q \in Polls : batch[q] # {} => q = p
  BY <1>1 DEF WorkerInv, BatchOfServing, OnePoll
<1>3. \A q \in Polls : q # p => current'[q] = current[q] /\ batch'[q] = batch[q]
  BY DEF Settle, TypeOK
<1>4. OnePoll' /\ BatchOfServing'
  BY <1>3 DEF Settle, WorkerInv, OnePoll, BatchOfServing, TypeOK
<1>5. BatchRowsQueued'
  BY <1>2, <1>3 DEF Settle, WorkerInv, BatchRowsQueued, TypeOK
<1>6. SenderKnown'
  <2> SUFFICES ASSUME NEW s \in Slots
      PROVE /\ req'[s].stage \in {"free", "cut"} => req'[s].sender = None
            /\ req'[s].stage \in {"waiting", "done", "failed"} => req'[s].sender # None
            /\ req'[s].stage # "free" => req'[s].key \in Keys
            /\ req'[s].sender \in Polls => req'[s].key = current'[req'[s].sender]
            /\ req'[s].sender \in Uploads => req'[s].key = KeyOf[req'[s].sender]
    BY DEF SenderKnown
  <2>1. CASE Freed(req'[s])
    BY <1>0, <2>1, FreedSender
  <2>2. CASE req[s].sender # p /\ req'[s] = req[s]
    BY <1>3, <2>2 DEF WorkerInv, SenderKnown
  <2> QED  BY <2>1, <2>2
<1>7. OneRequestPerPoll'
  <2> SUFFICES ASSUME NEW s \in Slots, NEW t \in Slots,
                      req'[s].sender = req'[t].sender, req'[s].sender \in Polls
               PROVE  s = t
    BY DEF OneRequestPerPoll
  <2>1. ~Freed(req'[s]) /\ ~Freed(req'[t])
    BY <1>0, FreedSender
  <2> QED  BY <2>1 DEF WorkerInv, OneRequestPerPoll
<1> QED  BY <1>4, <1>5, <1>6, <1>7 DEF WorkerInv

\* The object a poll waits for, and that it waits for one answer only.
LEMMA SenderIsCurrent ==
  ASSUME TypeOK, WorkerInv, NEW p \in Polls, NEW s \in Slots,
         req[s].sender = p
  PROVE  /\ current[p] = req[s].key /\ current[p] \in Keys
         /\ current[p] \in batch[p]
         /\ \A t \in Slots : t # s => req[t].sender # p
<1>0. None \notin Polls /\ None \notin Keys
  BY ReplicationAssumption
<1>1. current[p] = req[s].key /\ req[s].stage # "free"
  BY <1>0 DEF WorkerInv, SenderKnown
<1> QED
  BY <1>0, <1>1 DEF WorkerInv, SenderKnown, BatchOfServing, OneRequestPerPoll

LEMMA SendMissingWorker ==
  ASSUME TypeOK, WorkerInv, NEW p \in Polls, NEW k \in Keys, SendMissing(p, k)
  PROVE  WorkerInv'
<1>1. DueQueued' /\ \A j \in Keys : HasRow(j) => HasRow(j)'
  BY RowsStay DEF SendMissing, TypeOK, WorkerInv
<1>2. \A s \in Slots : req[s].sender # p /\ req'[s] = req[s]
  <2> TAKE s \in Slots
  <2>1. current[p] = None /\ UNCHANGED req
    BY DEF SendMissing
  <2> QED  BY <2>1, SenderIsCurrent, ReplicationAssumption
<1> QED
  BY <1>1, <1>2, SettleWorker DEF SendMissing

LEMMA SendEndWorker ==
  ASSUME TypeOK, WorkerInv, NEW p \in Polls, NEW s \in Slots,
         SendOk(p, s) \/ SendOkRowKept(p, s) \/ SendFail(p, s)
  PROVE  WorkerInv'
<1> DEFINE k == current[p]
<1>1. req[s].sender = p
  BY DEF SendOk, SendOkRowKept, SendFail
<1>2. k \in Keys /\ k \in batch[p] /\ \A t \in Slots : t # s => req[t].sender # p
  BY <1>1, SenderIsCurrent
<1>3. Settle(p, k) /\ UNCHANGED <<isWorking, pc>>
  BY DEF SendOk, SendOkRowKept, SendFail
<1>4. DueQueued' /\ \A j \in Keys : HasRow(j) /\ j # k => HasRow(j)'
  BY <1>2, RowsStay, OnlyItsRowGoes, UnchangedRows
  DEF SendOk, SendOkRowKept, SendFail, TypeOK, WorkerInv, RowsKept
<1>5. \A t \in Slots : Freed(req'[t]) \/ (req[t].sender # p /\ req'[t] = req[t])
  <2>1. req' = [req EXCEPT ![s] = FreeReq]
        \/ \E arrived \in BOOLEAN :
             req' = [req EXCEPT ![s] = GivenUp(req[s], arrived)]
    BY DEF SendOk, SendOkRowKept, SendFail
  <2>2. \A arrived \in BOOLEAN : Freed(GivenUp(req[s], arrived))
    BY GivenUpFreed DEF TypeOK, WorkerInv, SenderKnown
  <2>3. Freed(FreeReq)
    BY DEF Freed
  <2> QED  BY <1>2, <2>1, <2>2, <2>3 DEF TypeOK
<1> HIDE DEF k
<1> QED  BY <1>2, <1>3, <1>4, <1>5, SettleWorker

LEMMA SendFailRowKeptWorker ==
  ASSUME TypeOK, WorkerInv, NEW p \in Polls, NEW s \in Slots,
         SendFailRowKept(p, s)
  PROVE  WorkerInv'
<1>0. None \notin Polls /\ None \notin Uploads
  BY ReplicationAssumption
<1>1. req[s].sender = p /\ UNCHANGED queueVars
  BY DEF SendFailRowKept
<1>2. \A t \in Slots : t # s => req[t].sender # p
  BY <1>1, SenderIsCurrent
<1>3. DueQueued' /\ \A j \in Keys : HasRow(j) => HasRow(j)'
  BY <1>1, UnchangedRows DEF RowsKept, WorkerInv
<1>4. pc[p] = "serving"
  BY <1>1, SenderIsCurrent DEF WorkerInv, BatchOfServing
<1>5. \A q \in Polls : q # p => pc[q] = "idle"
  BY <1>4 DEF WorkerInv, OnePoll
<1>6. OnePoll' /\ BatchOfServing' /\ BatchRowsQueued'
  BY <1>3, <1>5 DEF SendFailRowKept, PollOver, WorkerInv, OnePoll,
     BatchOfServing, BatchRowsQueued, TypeOK
<1>7. \A t \in Slots : Freed(req'[t]) \/ (req[t].sender # p /\ req'[t] = req[t])
  <2>1. PICK arrived \in BOOLEAN :
          req' = [req EXCEPT ![s] = GivenUp(req[s], arrived)]
    BY DEF SendFailRowKept
  <2>2. Freed(GivenUp(req[s], arrived))
    BY GivenUpFreed DEF TypeOK, WorkerInv, SenderKnown
  <2> QED  BY <1>2, <2>1, <2>2 DEF TypeOK
<1>8. SenderKnown'
  <2> SUFFICES ASSUME NEW t \in Slots
      PROVE /\ req'[t].stage \in {"free", "cut"} => req'[t].sender = None
            /\ req'[t].stage \in {"waiting", "done", "failed"} => req'[t].sender # None
            /\ req'[t].stage # "free" => req'[t].key \in Keys
            /\ req'[t].sender \in Polls => req'[t].key = current'[req'[t].sender]
            /\ req'[t].sender \in Uploads => req'[t].key = KeyOf[req'[t].sender]
    BY DEF SenderKnown
  <2>1. CASE Freed(req'[t])
    BY <1>0, <2>1, FreedSender
  <2>2. CASE req[t].sender # p /\ req'[t] = req[t]
    BY <2>2 DEF SendFailRowKept, WorkerInv, SenderKnown, TypeOK
  <2> QED  BY <1>7, <2>1, <2>2
<1>9. OneRequestPerPoll'
  <2> SUFFICES ASSUME NEW t \in Slots, NEW v \in Slots,
                      req'[t].sender = req'[v].sender, req'[t].sender \in Polls
               PROVE  t = v
    BY DEF OneRequestPerPoll
  <2>1. ~Freed(req'[t]) /\ ~Freed(req'[v])
    BY <1>0, FreedSender
  <2> QED  BY <1>7, <2>1 DEF WorkerInv, OneRequestPerPoll
<1> QED  BY <1>3, <1>6, <1>8, <1>9 DEF WorkerInv

\* After a restart every request is without its sender.
LEMMA RestartFrees ==
  ASSUME TypeOK, WorkerInv, Restart
  PROVE  \A s \in Slots : Freed(req'[s])
<1>1. PICK arrived \in SUBSET Slots :
        req' = [s \in Slots |-> GivenUp(req[s], s \in arrived)]
  BY DEF Restart
<1>2. \A s \in Slots : Freed(GivenUp(req[s], s \in arrived))
  <2> TAKE s \in Slots
  <2>1. (s \in arrived) \in BOOLEAN
    OBVIOUS
  <2> QED  BY <2>1, GivenUpFreed DEF TypeOK, WorkerInv, SenderKnown
<1> QED  BY <1>1, <1>2

LEMMA RestartWorker ==
  ASSUME TypeOK, WorkerInv, Restart
  PROVE  WorkerInv'
<1>1. \A s \in Slots : Freed(req'[s])
  BY RestartFrees
<1>2. SenderKnown' /\ OneRequestPerPoll'
  BY <1>1, FreedSender, ReplicationAssumption
  DEF SenderKnown, OneRequestPerPoll
<1>3. DueQueued'
  BY UnchangedRows DEF Restart, RowsKept, WorkerInv
<1>4. OnePoll' /\ BatchOfServing' /\ BatchRowsQueued'
  BY DEF Restart, OnePoll, BatchOfServing, BatchRowsQueued
<1> QED  BY <1>2, <1>3, <1>4 DEF WorkerInv

LEMMA TimePassesWorker ==
  ASSUME TypeOK, WorkerInv, NEW k \in Keys, TimePasses(k)
  PROVE  WorkerInv'
<1>1. RowsKept
  BY RowsStay DEF TimePasses, RowsKept, TypeOK, WorkerInv
<1> QED
  BY <1>1, WorkerUntouched, ReqUnchanged DEF TimePasses, workerVars

(***************************************************************************)
(* Every step keeps the worker's part of the invariant.                    *)
(***************************************************************************)
LEMMA WorkerStep ==
  ASSUME TypeOK, WorkerInv, [Next]_vars
  PROVE  WorkerInv'
<1>1. CASE UNCHANGED vars
  <2>1. RowsKept
    BY <1>1, UnchangedRows DEF vars, queueVars, WorkerInv
  <2> QED
    BY <1>1, <2>1, WorkerUntouched, ReqUnchanged DEF vars, workerVars
<1> QED
  BY <1>1, UploadStepWorker, TusSendStepWorker, PollStepWorker,
     SendNextWorker, SendMissingWorker, SendEndWorker, SendFailRowKeptWorker,
     RecvStepWorker, TimePassesWorker, RestartWorker
  DEF Next

LEMMA StatusStep ==
  ASSUME TypeOK, WorkerInv, CountDecidesStatus, [Next]_vars
  PROVE  CountDecidesStatus'
<1>0. QueueTypeOK /\ \A u \in Uploads : KeyOf[u] \in Keys
  BY ReplicationAssumption DEF TypeOK
<1>1. CASE UNCHANGED queueVars
  BY <1>1 DEF queueVars, CountDecidesStatus, HasRow
<1>2. ASSUME NEW k \in Keys,
             \/ RegisterReplicationTask(k) \/ UpsertOnFailure(k)
             \/ UpdateOnRetryFailure(k) \/ DeleteOnSuccess(k) \/ BecomeDue(k)
      PROVE  CountDecidesStatus'
  BY <1>0, <1>2, StatusKept
<1>3. CASE \E u \in Uploads :
             \/ PutOpen(u) \/ TusCreate(u) \/ WriteChunk(u) \/ PutClose(u)
             \/ UploadFails(u) \/ MultipartPublish(u) \/ Register(u)
             \/ TusComplete(u) \/ TusRemove(u)
  BY <1>0, <1>1, <1>2, <1>3
  DEF PutOpen, TusCreate, OpenTruncated, WriteChunk, PutClose, UploadFails,
      MultipartPublish, Register, TusComplete, TusRemove
<1>4. CASE \E u \in Uploads, s \in Slots : TusSendOk(u, s) \/ TusSendFail(u, s)
  BY <1>0, <1>1, <1>2, <1>4 DEF TusSendOk, TusSendFail
<1>5. CASE \E p \in Polls :
             \/ PollStart(p) \/ PollSkip(p) \/ PollFetch(p)
             \/ PollEnd(p) \/ SendMissingRowKept(p)
  BY <1>1, <1>5 DEF PollStart, PollSkip, PollFetch, PollEnd, SendMissingRowKept
<1>6. CASE \E p \in Polls, k \in Keys : SendNext(p, k) \/ SendMissing(p, k)
  BY <1>1, <1>2, <1>6 DEF SendNext, SendMissing
<1>7. CASE \E p \in Polls, s \in Slots :
             \/ SendOk(p, s) \/ SendOkRowKept(p, s)
             \/ SendFail(p, s) \/ SendFailRowKept(p, s)
  BY <1>1, <1>2, <1>7, SenderIsCurrent
  DEF SendOk, SendOkRowKept, SendFail, SendFailRowKept
<1>8. CASE \E s \in Slots :
             \/ RecvOpen(s) \/ RecvOpenCut(s) \/ RecvWrite(s)
             \/ RecvFinish(s) \/ RecvFail(s)
  BY <1>1, <1>8 DEF RecvOpen, RecvOpenCut, RecvWrite, RecvFinish, RecvFail
<1>9. CASE Restart \/ \E k \in Keys : TimePasses(k)
  BY <1>1, <1>2, <1>9 DEF Restart, TimePasses
<1>10. CASE UNCHANGED vars
  BY <1>1, <1>10 DEF vars, queueVars
<1> QED
  BY <1>3, <1>4, <1>5, <1>6, <1>7, <1>8, <1>9, <1>10 DEF Next

(***************************************************************************)
(* CopiesExplained: steps that write a file of the primary.                *)
(***************************************************************************)
LEMMA KeyOfRequest ==
  ASSUME TypeOK, WorkerInv
  PROVE  \A s \in Slots :
           /\ req[s] \in Request
           /\ req[s].sender # None => req[s].key \in Keys
           /\ req[s].stage # "free" => req[s].key \in Keys
           /\ req[s].stage = "done" => req[s].sender # None
BY DEF TypeOK, WorkerInv, SenderKnown

LEMMA FileBecomesExplained ==
  ASSUME TypeOK, WorkerInv, CopiesExplained,
         NEW k \in Keys, NEW c, FileBecomes(k, c)
  PROVE  CopiesExplained'
<1>0. \A s \in Slots : req'[s] = Sees(req[s], k, c)
  BY DEF FileBecomes
<1>1. \A s \in Slots :
        /\ req'[s].stage = req[s].stage /\ req'[s].sender = req[s].sender
        /\ req'[s].key = req[s].key
        /\ req'[s].body = IF req[s].sender # None /\ req[s].key = k
                          THEN req[s].body \cup {c} ELSE req[s].body
  <2> TAKE s \in Slots
  <2>1. req[s] \in Request
    BY KeyOfRequest
  <2>2. /\ Sees(req[s], k, c).stage = req[s].stage
        /\ Sees(req[s], k, c).sender = req[s].sender
        /\ Sees(req[s], k, c).key = req[s].key
        /\ Sees(req[s], k, c).body = IF req[s].sender # None /\ req[s].key = k
                                    THEN req[s].body \cup {c} ELSE req[s].body
    BY <2>1 DEF Sees, Request
  <2> QED  BY <1>0, <2>2
<1>2. /\ disk' = [disk EXCEPT ![k] = c] /\ UNCHANGED replica
  BY DEF FileBecomes
<1>3. ASSUME NEW s \in Slots, req'[s].sender # None
      PROVE  disk'[req'[s].key] \in req'[s].body \cup {Absent}
  <2>1. req[s].key \in Keys /\ disk[req[s].key] \in req[s].body \cup {Absent}
    BY <1>1, <1>3, KeyOfRequest DEF CopiesExplained
  <2>2. disk'[req[s].key] = IF req[s].key = k THEN c ELSE disk[req[s].key]
    BY <1>2, <2>1 DEF TypeOK
  <2> QED  BY <1>1, <1>3, <2>1, <2>2
<1>4. ASSUME NEW s \in Slots, req'[s].stage = "done"
      PROVE  replica'[req'[s].key] \in req'[s].body
  <2>1. replica[req[s].key] \in req[s].body
    BY <1>1, <1>4 DEF CopiesExplained
  <2> QED  BY <1>1, <1>2, <2>1
<1>5. ASSUME NEW s \in Slots, NEW t \in Slots, SharesReplica(s, t)'
      PROVE  req'[s].body \cup {Torn} \subseteq req'[t].body
  <2>1. SharesReplica(s, t)
    BY <1>1, <1>5 DEF SharesReplica
  <2>2. req[s].body \cup {Torn} \subseteq req[t].body
    BY <2>1 DEF CopiesExplained
  <2> QED  BY <1>1, <2>1, <2>2 DEF SharesReplica
<1> QED  BY <1>3, <1>4, <1>5 DEF CopiesExplained

(***************************************************************************)
(* Steps that leave both copies alone: nobody reads or writes anything     *)
(* new, and a request may be left without its sender.                      *)
(***************************************************************************)
Calmer(r, q) == \/ q = r
                \/ q.sender = None /\ q.stage # "done"
                   /\ (q.stage = "receiving" =>
                         r.stage = "receiving" /\ q.body = r.body /\ q.key = r.key)

LEMMA GivenUpCalmer ==
  ASSUME NEW r \in Request, NEW arrived \in BOOLEAN,
         r.stage \in {"free", "cut"} => r.sender = None
  PROVE  Calmer(r, GivenUp(r, arrived)) /\ Calmer(r, FreeReq)
BY DEF Calmer, GivenUp, FreeReq, Request

LEMMA CalmExplained ==
  ASSUME TypeOK, WorkerInv, CopiesExplained, UNCHANGED fileVars,
         \A s \in Slots : Calmer(req[s], req'[s])
  PROVE  CopiesExplained'
<1>1. \A s \in Slots : req'[s].sender # None => req'[s] = req[s]
  BY DEF Calmer
<1>2. \A s \in Slots : req'[s].stage = "done" => req'[s] = req[s]
  BY DEF Calmer
<1>3. \A s \in Slots : req'[s].stage = "receiving" =>
        /\ req[s].stage = "receiving"
        /\ req'[s].body = req[s].body /\ req'[s].key = req[s].key
  BY DEF Calmer
<1>4. ASSUME NEW s \in Slots, NEW t \in Slots, SharesReplica(s, t)'
      PROVE  req'[s].body \cup {Torn} \subseteq req'[t].body
  <2>1. SharesReplica(s, t) /\ req'[t] = req[t] /\ req'[s].body = req[s].body
    BY <1>1, <1>3, <1>4 DEF SharesReplica
  <2> QED  BY <2>1 DEF CopiesExplained
<1> QED  BY <1>1, <1>2, <1>4 DEF CopiesExplained, fileVars

\* A new request has seen what the file of k holds, the others stay.
LEMMA SendNextExplained ==
  ASSUME TypeOK, WorkerInv, CopiesExplained,
         NEW p \in Polls, NEW k \in Keys, SendNext(p, k)
  PROVE  CopiesExplained'
<1>1. PICK free \in Slots : /\ req[free].stage = "free"
                            /\ req' = [req EXCEPT ![free] = NewReq(p, k, disk[k])]
  BY DEF SendNext
<1>2. \A s \in Slots : s # free => req'[s] = req[s]
  BY <1>1 DEF TypeOK
<1>3. /\ req'[free].stage = "waiting" /\ req'[free].key = k
      /\ req'[free].body = {disk[k]}
  BY <1>1 DEF NewReq, TypeOK
<1>4. UNCHANGED fileVars
  BY DEF SendNext
<1>5. \A s \in Slots : req'[s].sender # None
        => disk[req'[s].key] \in req'[s].body \cup {Absent}
  BY <1>2, <1>3 DEF CopiesExplained
<1>6. \A s \in Slots : req'[s].stage = "done"
        => replica[req'[s].key] \in req'[s].body
  BY <1>2, <1>3 DEF CopiesExplained
<1>7. \A s, t \in Slots : SharesReplica(s, t)'
        => req'[s].body \cup {Torn} \subseteq req'[t].body
  BY <1>2, <1>3 DEF CopiesExplained, SharesReplica
<1> QED  BY <1>4, <1>5, <1>6, <1>7 DEF CopiesExplained, fileVars

LEMMA TusCompleteExplained ==
  ASSUME TypeOK, WorkerInv, CopiesExplained, NEW u \in Uploads, TusComplete(u)
  PROVE  CopiesExplained'
<1>0. PICK k \in Keys : k = KeyOf[u]
  BY ReplicationAssumption
<1>1. PICK c \in Outcomes(u), free \in Slots :
        /\ req[free].stage = "free"
        /\ disk' = [disk EXCEPT ![k] = c]
        /\ req' = [s \in Slots |-> IF s = free THEN NewReq(u, k, c)
                                               ELSE Sees(req[s], k, c)]
  BY <1>0 DEF TusComplete
<1>2. \A s \in Slots : s # free => req'[s] = Sees(req[s], k, c)
  BY <1>1
<1>3. req'[free] = NewReq(u, k, c)
  BY <1>1
<1>4. UNCHANGED replica
  BY DEF TusComplete
<1>5. \A s \in Slots : s # free =>
        /\ req'[s].stage = req[s].stage /\ req'[s].sender = req[s].sender
        /\ req'[s].key = req[s].key
        /\ req'[s].body = IF req[s].sender # None /\ req[s].key = k
                          THEN req[s].body \cup {c} ELSE req[s].body
  <2> TAKE s \in Slots
  <2> HAVE s # free
  <2>1. req[s] \in Request /\ req'[s] = Sees(req[s], k, c)
    BY <1>2, KeyOfRequest
  <2> QED  BY <2>1 DEF Sees, Request
<1>6. /\ req'[free].stage = "waiting" /\ req'[free].key = k
      /\ req'[free].body = {c}
  BY <1>3 DEF NewReq
<1>7. ASSUME NEW s \in Slots, req'[s].sender # None
      PROVE  disk'[req'[s].key] \in req'[s].body \cup {Absent}
  <2>1. CASE s = free
    BY <1>0, <1>1, <1>6, <2>1 DEF TypeOK
  <2>2. CASE s # free
    <3>1. req[s].key \in Keys /\ disk[req[s].key] \in req[s].body \cup {Absent}
      BY <1>5, <1>7, <2>2, KeyOfRequest DEF CopiesExplained
    <3>2. disk'[req[s].key] = IF req[s].key = k THEN c ELSE disk[req[s].key]
      BY <1>1, <3>1 DEF TypeOK
    <3> QED  BY <1>5, <1>7, <2>2, <3>1, <3>2
  <2> QED  BY <2>1, <2>2
<1>8. ASSUME NEW s \in Slots, req'[s].stage = "done"
      PROVE  replica'[req'[s].key] \in req'[s].body
  <2>1. s # free
    BY <1>6, <1>8
  <2>2. replica[req[s].key] \in req[s].body
    BY <1>5, <1>8, <2>1 DEF CopiesExplained
  <2> QED  BY <1>4, <1>5, <2>1, <2>2
<1>9. ASSUME NEW s \in Slots, NEW t \in Slots, SharesReplica(s, t)'
      PROVE  req'[s].body \cup {Torn} \subseteq req'[t].body
  <2>1. s # free /\ t # free
    BY <1>6, <1>9 DEF SharesReplica
  <2>2. SharesReplica(s, t)
    BY <1>5, <1>9, <2>1 DEF SharesReplica
  <2>3. req[s].body \cup {Torn} \subseteq req[t].body
    BY <2>2 DEF CopiesExplained
  <2> QED  BY <1>5, <2>1, <2>2, <2>3 DEF SharesReplica
<1> QED  BY <1>7, <1>8, <1>9 DEF CopiesExplained

LEMMA TusRemoveExplained ==
  ASSUME TypeOK, WorkerInv, CopiesExplained, NEW u \in Uploads, TusRemove(u)
  PROVE  CopiesExplained'
<1>1. /\ disk' = [disk EXCEPT ![KeyOf[u]] = Absent]
      /\ UNCHANGED <<replica, req>>
  BY DEF TusRemove
<1>2. \A s \in Slots : req[s].sender # None
        => disk'[req[s].key] \in req[s].body \cup {Absent}
  BY <1>1, KeyOfRequest DEF CopiesExplained, TypeOK
<1> QED  BY <1>1, <1>2 DEF CopiesExplained, SharesReplica

(***************************************************************************)
(* CopiesExplained: the steps of the secondary.                            *)
(***************************************************************************)
LEMMA RecvOpenExplained ==
  ASSUME TypeOK, WorkerInv, CopiesExplained, NEW s \in Slots, RecvOpen(s)
  PROVE  CopiesExplained'
<1> DEFINE k == req[s].key
           Both(t) == req[t].stage \in {"receiving", "done"} /\ req[t].key = k
           mine == req[s].body \cup (UNION {req[t].body : t \in Receiving(k)})
                   \cup (IF Receiving(k) = {} THEN {} ELSE {Torn})
<1>0. k \in Keys /\ req[s].stage = "waiting" /\ \A t \in Slots : req[t] \in Request
  BY KeyOfRequest DEF RecvOpen
<1>1. /\ replica' = [replica EXCEPT ![k] = Torn]
      /\ UNCHANGED disk
      /\ req' = [t \in Slots |->
           IF t = s THEN [req[s] EXCEPT !.stage = "receiving", !.body = mine]
           ELSE IF Both(t)
                THEN [req[t] EXCEPT !.body = req[t].body \cup req[s].body \cup {Torn}]
           ELSE req[t]]
  BY DEF RecvOpen
<1>2. /\ \A t \in Receiving(k) : /\ t \in Slots /\ t # s /\ Both(t)
                                 /\ req[t].body \cup {Torn} \subseteq mine
      /\ \A t \in Slots : Both(t) /\ req[t].stage = "receiving" => t \in Receiving(k)
      /\ req[s].body \subseteq mine
  BY <1>0 DEF Receiving
<1>3. ASSUME NEW X, req[s].body \cup {Torn} \subseteq X,
             \A t \in Receiving(k) : req[t].body \subseteq X
      PROVE  mine \subseteq X
  BY <1>3
<1> HIDE DEF mine
<1>4. /\ req'[s].stage = "receiving" /\ req'[s].sender = req[s].sender
      /\ req'[s].key = k /\ req'[s].body = mine
  BY <1>0, <1>1 DEF Request
<1>5. \A t \in Slots : t # s =>
        /\ req'[t].stage = req[t].stage /\ req'[t].sender = req[t].sender
        /\ req'[t].key = req[t].key
        /\ req'[t].body = IF Both(t) THEN req[t].body \cup req[s].body \cup {Torn}
                                     ELSE req[t].body
  BY <1>0, <1>1 DEF Request
<1> HIDE DEF k
<1>6. ASSUME NEW t \in Slots, req'[t].sender # None
      PROVE  disk'[req'[t].key] \in req'[t].body \cup {Absent}
  <2>1. /\ req'[t].sender = req[t].sender /\ req'[t].key = req[t].key
        /\ req[t].body \subseteq req'[t].body
    BY <1>2, <1>4, <1>5 DEF k
  <2> QED  BY <1>1, <1>6, <2>1 DEF CopiesExplained
<1>7. ASSUME NEW t \in Slots, req'[t].stage = "done"
      PROVE  replica'[req'[t].key] \in req'[t].body
  <2>1. /\ t # s /\ req[t].stage = "done" /\ req'[t].key = req[t].key
        /\ req[t].body \subseteq req'[t].body /\ req[t].key \in Keys
        /\ req[t].key = k => Torn \in req'[t].body
    BY <1>4, <1>5, <1>7, KeyOfRequest
  <2>2. replica'[req[t].key] = IF req[t].key = k THEN Torn ELSE replica[req[t].key]
    BY <1>1, <2>1 DEF TypeOK
  <2> QED  BY <2>1, <2>2 DEF CopiesExplained
<1>8. ASSUME NEW a \in Slots, NEW b \in Slots, SharesReplica(a, b)'
      PROVE  req'[a].body \cup {Torn} \subseteq req'[b].body
  <2>1. CASE a = s
    <3>1. b # s /\ Both(b) /\ req[b].sender # None
      BY <1>4, <1>5, <1>8, <2>1 DEF SharesReplica
    <3>2. req'[b].body = req[b].body \cup req[s].body \cup {Torn}
      BY <1>5, <3>1
    <3>3. ASSUME NEW t \in Receiving(k)  PROVE req[t].body \subseteq req[b].body
      <4>1. t \in Slots /\ req[t].stage = "receiving" /\ req[t].key = k
        BY DEF Receiving
      <4>2. t = b \/ SharesReplica(t, b)
        BY <3>1, <4>1 DEF SharesReplica
      <4> QED  BY <4>1, <4>2 DEF CopiesExplained
    <3>4. mine \subseteq req'[b].body
      BY <1>3, <3>2, <3>3
    <3> QED  BY <1>4, <2>1, <3>2, <3>4
  <2>2. CASE b = s
    <3>1. a # s /\ Both(a) /\ req[a].stage = "receiving"
      BY <1>4, <1>5, <1>8, <2>2 DEF SharesReplica
    <3>2. a \in Receiving(k)
      BY <1>2, <3>1
    <3> QED  BY <1>2, <1>4, <1>5, <2>2, <3>1, <3>2
  <2>3. CASE a # s /\ b # s
    <3>1. SharesReplica(a, b)
      BY <1>5, <1>8, <2>3 DEF SharesReplica
    <3>2. req[a].body \cup {Torn} \subseteq req[b].body
      BY <3>1 DEF CopiesExplained
    <3>3. Both(a) => Both(b)
      BY <3>1 DEF SharesReplica
    <3> QED  BY <1>5, <2>3, <3>2, <3>3
  <2> QED  BY <2>1, <2>2, <2>3
<1> QED  BY <1>6, <1>7, <1>8 DEF CopiesExplained

LEMMA RecvOpenCutExplained ==
  ASSUME TypeOK, WorkerInv, CopiesExplained, NEW s \in Slots, RecvOpenCut(s)
  PROVE  CopiesExplained'
<1> DEFINE k == req[s].key
           Both(t) == req[t].stage \in {"receiving", "done"} /\ req[t].key = k
<1>0. k \in Keys /\ \A t \in Slots : req[t] \in Request
  BY KeyOfRequest DEF RecvOpenCut
<1>1. /\ replica' = [replica EXCEPT ![k] = Torn]
      /\ UNCHANGED disk
      /\ req' = [t \in Slots |->
           IF t = s THEN FreeReq
           ELSE IF Both(t) THEN [req[t] EXCEPT !.body = req[t].body \cup {Torn}]
           ELSE req[t]]
  BY DEF RecvOpenCut
<1>2. req'[s].stage = "free" /\ req'[s].sender = None
  BY <1>1 DEF FreeReq
<1>3. \A t \in Slots : t # s =>
        /\ req'[t].stage = req[t].stage /\ req'[t].sender = req[t].sender
        /\ req'[t].key = req[t].key
        /\ req'[t].body = IF Both(t) THEN req[t].body \cup {Torn}
                                     ELSE req[t].body
  BY <1>0, <1>1 DEF Request
<1> HIDE DEF k
<1>4. \A t \in Slots : req'[t].sender # None
        => disk'[req'[t].key] \in req'[t].body \cup {Absent}
  BY <1>1, <1>2, <1>3 DEF CopiesExplained
<1>5. ASSUME NEW t \in Slots, req'[t].stage = "done"
      PROVE  replica'[req'[t].key] \in req'[t].body
  <2>1. /\ t # s /\ req[t].stage = "done" /\ req'[t].key = req[t].key
        /\ req[t].body \subseteq req'[t].body /\ req[t].key \in Keys
        /\ req[t].key = k => Torn \in req'[t].body
    BY <1>2, <1>3, <1>5, KeyOfRequest
  <2>2. replica'[req[t].key] = IF req[t].key = k THEN Torn ELSE replica[req[t].key]
    BY <1>1, <2>1 DEF TypeOK
  <2> QED  BY <2>1, <2>2 DEF CopiesExplained
<1>6. ASSUME NEW a \in Slots, NEW b \in Slots, SharesReplica(a, b)'
      PROVE  req'[a].body \cup {Torn} \subseteq req'[b].body
  <2>1. a # s /\ b # s
    BY <1>2, <1>6 DEF SharesReplica
  <2>2. SharesReplica(a, b)
    BY <1>3, <1>6, <2>1 DEF SharesReplica
  <2>3. req[a].body \cup {Torn} \subseteq req[b].body
    BY <2>2 DEF CopiesExplained
  <2>4. Both(a) => Both(b)
    BY <2>2 DEF SharesReplica
  <2> QED  BY <1>3, <2>1, <2>3, <2>4
<1> QED  BY <1>4, <1>5, <1>6 DEF CopiesExplained

\* Whoever was answered with success shares the replica with a later writer,
\* and has seen what that one may leave there.
LEMMA DoneSharesReplica ==
  ASSUME TypeOK, WorkerInv, CopiesExplained, NEW s \in Slots,
         req[s].stage = "receiving",
         NEW t \in Slots, req[t].stage = "done", req[t].key = req[s].key
  PROVE  req[s].body \cup {Torn} \subseteq req[t].body
<1>1. SharesReplica(s, t)
  BY KeyOfRequest DEF SharesReplica
<1> QED  BY <1>1 DEF CopiesExplained

LEMMA RecvWriteExplained ==
  ASSUME TypeOK, WorkerInv, CopiesExplained, NEW s \in Slots, RecvWrite(s)
  PROVE  CopiesExplained'
<1>1. /\ replica' = [replica EXCEPT ![req[s].key] = Torn]
      /\ UNCHANGED <<disk, req>> /\ req[s].stage = "receiving"
  BY DEF RecvWrite
<1>2. ASSUME NEW t \in Slots, req[t].stage = "done"
      PROVE  replica'[req[t].key] \in req[t].body
  <2>1. req[t].key \in Keys /\ replica[req[t].key] \in req[t].body
    BY <1>2, KeyOfRequest DEF CopiesExplained
  <2>2. replica'[req[t].key] = IF req[t].key = req[s].key THEN Torn
                                                    ELSE replica[req[t].key]
    BY <1>1, <2>1 DEF TypeOK
  <2> QED  BY <1>1, <1>2, <2>1, <2>2, DoneSharesReplica
<1> QED  BY <1>1, <1>2 DEF CopiesExplained, SharesReplica

LEMMA AnsweredExplained ==
  ASSUME TypeOK, WorkerInv, CopiesExplained, NEW s \in Slots,
         RecvFinish(s) \/ RecvFail(s)
  PROVE  CopiesExplained'
<1> DEFINE k == req[s].key
<1>0. /\ k \in Keys /\ req[s].stage = "receiving" /\ UNCHANGED disk
      /\ \A t \in Slots : req[t] \in Request
  BY KeyOfRequest DEF RecvFinish, RecvFail, fileVars
<1>1. \A t \in Slots : t # s => req'[t] = req[t]
  BY DEF RecvFinish, RecvFail, Answered, TypeOK
<1>2. \/ req'[s].sender = None /\ req'[s].stage = "free"
      \/ /\ req[s].sender # None /\ req'[s].sender = req[s].sender
         /\ req'[s].key = k /\ req'[s].body = req[s].body
         /\ \/ req'[s].stage = "failed"
            \/ req'[s].stage = "done" /\ replica'[k] \in req[s].body
  <2>1. PICK answer \in {"done", "failed"} :
          /\ Answered(s, answer)
          /\ answer = "done" => replica'[k] \in req[s].body
    <3>1. CASE RecvFail(s)
      BY <3>1 DEF RecvFail
    <3>2. CASE RecvFinish(s)
      BY <1>0, <3>2 DEF RecvFinish, TypeOK
    <3> QED  BY <3>1, <3>2
  <2>2. req'[s] = IF req[s].sender = None THEN FreeReq
                  ELSE [req[s] EXCEPT !.stage = answer]
    BY <2>1 DEF Answered, TypeOK
  <2>3. CASE req[s].sender = None
    BY <2>2, <2>3 DEF FreeReq
  <2>4. CASE req[s].sender # None
    <3>1. /\ req'[s].stage = answer /\ req'[s].sender = req[s].sender
          /\ req'[s].key = k /\ req'[s].body = req[s].body
      BY <1>0, <2>2, <2>4 DEF Request
    <3>2. answer = "failed" \/ (answer = "done" /\ replica'[k] \in req[s].body)
      BY <2>1
    <3> HIDE DEF k
    <3> QED  BY <2>4, <3>1, <3>2
  <2> QED  BY <2>3, <2>4
<1>3. \/ UNCHANGED replica
      \/ \E c \in req[s].body : replica' = [replica EXCEPT ![k] = c]
  BY DEF RecvFinish, RecvFail, fileVars
<1> HIDE DEF k
<1>4. ASSUME NEW t \in Slots, req'[t].sender # None
      PROVE  disk'[req'[t].key] \in req'[t].body \cup {Absent}
  BY <1>0, <1>1, <1>2, <1>4 DEF CopiesExplained, k
<1>5. ASSUME NEW t \in Slots, req'[t].stage = "done"
      PROVE  replica'[req'[t].key] \in req'[t].body
  <2>1. CASE t = s
    BY <1>2, <1>5, <2>1
  <2>2. CASE t # s
    <3>1. /\ req'[t] = req[t] /\ req[t].key \in Keys
          /\ replica[req[t].key] \in req[t].body
      BY <1>1, <1>5, <2>2, KeyOfRequest DEF CopiesExplained
    <3>2. req[t].key = k => req[s].body \subseteq req[t].body
      BY <1>0, <1>5, <3>1, DoneSharesReplica DEF k
    <3> QED  BY <1>3, <3>1, <3>2 DEF TypeOK
  <2> QED  BY <2>1, <2>2
<1>6. ASSUME NEW a \in Slots, NEW b \in Slots, SharesReplica(a, b)'
      PROVE  req'[a].body \cup {Torn} \subseteq req'[b].body
  <2>1. a # s /\ req'[a] = req[a]
    BY <1>1, <1>2, <1>6 DEF SharesReplica
  <2>2. SharesReplica(a, b) /\ req'[b].body = req[b].body
    BY <1>0, <1>1, <1>2, <1>6, <2>1 DEF SharesReplica, k
  <2> QED  BY <2>1, <2>2 DEF CopiesExplained
<1> QED  BY <1>4, <1>5, <1>6 DEF CopiesExplained

LEMMA UploadStepExplained ==
  ASSUME TypeOK, WorkerInv, CopiesExplained, NEW u \in Uploads,
         \/ PutOpen(u) \/ TusCreate(u) \/ WriteChunk(u) \/ PutClose(u)
         \/ UploadFails(u) \/ MultipartPublish(u) \/ Register(u)
         \/ TusComplete(u) \/ TusRemove(u)
  PROVE  CopiesExplained'
<1>0. KeyOf[u] \in Keys
  BY ReplicationAssumption
<1>1. CASE \E c : FileBecomes(KeyOf[u], c)
  BY <1>0, <1>1, FileBecomesExplained
<1>2. CASE UNCHANGED <<fileVars, req>>
  BY <1>2, CalmExplained DEF Calmer
<1>3. CASE TusComplete(u) \/ TusRemove(u)
  BY <1>3, TusCompleteExplained, TusRemoveExplained
<1> QED
  BY <1>1, <1>2, <1>3
  DEF PutOpen, TusCreate, OpenTruncated, WriteChunk, PutClose, UploadFails,
      MultipartPublish, Register

\* The sender of one request has its answer, or gives up.
LEMMA SendEndExplained ==
  ASSUME TypeOK, WorkerInv, CopiesExplained, UNCHANGED fileVars,
         NEW s \in Slots,
         \/ req' = [req EXCEPT ![s] = FreeReq]
         \/ \E arrived \in BOOLEAN :
              req' = [req EXCEPT ![s] = GivenUp(@, arrived)]
  PROVE  CopiesExplained'
<1>1. \A t \in Slots : req[t] \in Request
                       /\ (req[t].stage \in {"free", "cut"} => req[t].sender = None)
  BY DEF TypeOK, WorkerInv, SenderKnown
<1>2. \A t \in Slots : Calmer(req[t], req[t])
  BY DEF Calmer
<1>3. \A arrived \in BOOLEAN : /\ Calmer(req[s], GivenUp(req[s], arrived))
                               /\ Calmer(req[s], FreeReq)
  BY <1>1, GivenUpCalmer
<1>4. \A t \in Slots : Calmer(req[t], req'[t])
  BY <1>2, <1>3 DEF TypeOK
<1> QED  BY <1>4, CalmExplained

LEMMA RestartExplained ==
  ASSUME TypeOK, WorkerInv, CopiesExplained, Restart
  PROVE  CopiesExplained'
<1>1. PICK arrived \in SUBSET Slots :
        req' = [s \in Slots |-> GivenUp(req[s], s \in arrived)]
  BY DEF Restart
<1>2. \A s \in Slots : Calmer(req[s], GivenUp(req[s], s \in arrived))
  <2> TAKE s \in Slots
  <2>1. (s \in arrived) \in BOOLEAN
    OBVIOUS
  <2> QED  BY <2>1, GivenUpCalmer DEF TypeOK, WorkerInv, SenderKnown
<1>3. \A s \in Slots : Calmer(req[s], req'[s])
  BY <1>1, <1>2
<1> QED  BY <1>3, CalmExplained DEF Restart

LEMMA ExplainedStep ==
  ASSUME TypeOK, WorkerInv, CopiesExplained, [Next]_vars
  PROVE  CopiesExplained'
<1>1. CASE UNCHANGED <<fileVars, req>>
  BY <1>1, CalmExplained DEF Calmer
<1>2. ASSUME NEW s \in Slots,
             \/ \E p \in Polls : \/ SendOk(p, s) \/ SendOkRowKept(p, s)
                                 \/ SendFail(p, s) \/ SendFailRowKept(p, s)
             \/ \E u \in Uploads : TusSendOk(u, s) \/ TusSendFail(u, s)
      PROVE  CopiesExplained'
  BY <1>2, SendEndExplained
  DEF SendOk, SendOkRowKept, SendFail, SendFailRowKept, TusSendOk, TusSendFail
<1>3. CASE \E p \in Polls :
             \/ PollStart(p) \/ PollSkip(p) \/ PollFetch(p)
             \/ PollEnd(p) \/ SendMissingRowKept(p)
  BY <1>1, <1>3 DEF PollStart, PollSkip, PollFetch, PollEnd, SendMissingRowKept
<1>4. CASE \E p \in Polls, k \in Keys : SendNext(p, k) \/ SendMissing(p, k)
  BY <1>1, <1>4, SendNextExplained DEF SendMissing
<1>5. CASE \E k \in Keys : TimePasses(k)
  BY <1>1, <1>5 DEF TimePasses
<1>6. CASE UNCHANGED vars
  BY <1>1, <1>6 DEF vars, fileVars
<1> QED
  BY <1>2, <1>3, <1>4, <1>5, <1>6, UploadStepExplained, RecvOpenExplained,
     RecvOpenCutExplained, RecvWriteExplained, AnsweredExplained,
     RestartExplained
  DEF Next

(***************************************************************************)
(* Rows leave the table on the answer to a send only, and by then there is *)
(* a copy; and a file of the secondary, once there, never goes.            *)
(***************************************************************************)
LEMMA RowsGoBySendOk ==
  ASSUME TypeOK, WorkerInv, [Next]_vars,
         NEW k \in Keys, HasRow(k), ~HasRow(k)'
  PROVE  \E p \in Polls, s \in Slots : SendOk(p, s) /\ current[p] = k
<1>0. QueueTypeOK /\ DueQueued /\ \A u \in Uploads : KeyOf[u] \in Keys
  BY ReplicationAssumption DEF TypeOK, WorkerInv
<1>1. ~UNCHANGED queueVars
  BY DEF queueVars, HasRow
<1>2. ASSUME NEW j \in Keys,
             \/ RegisterReplicationTask(j) \/ UpsertOnFailure(j)
             \/ UpdateOnRetryFailure(j) \/ BecomeDue(j)
      PROVE  FALSE
  BY <1>0, <1>2, RowsStay
<1>3. CASE \E u \in Uploads :
             \/ PutOpen(u) \/ TusCreate(u) \/ WriteChunk(u) \/ PutClose(u)
             \/ UploadFails(u) \/ MultipartPublish(u) \/ Register(u)
             \/ TusComplete(u) \/ TusRemove(u)
  BY <1>0, <1>1, <1>2, <1>3
  DEF PutOpen, TusCreate, OpenTruncated, WriteChunk, PutClose, UploadFails,
      MultipartPublish, Register, TusComplete, TusRemove
<1>4. CASE \E u \in Uploads, s \in Slots : TusSendOk(u, s) \/ TusSendFail(u, s)
  BY <1>0, <1>1, <1>2, <1>4 DEF TusSendOk, TusSendFail
<1>5. CASE \E p \in Polls :
             \/ PollStart(p) \/ PollSkip(p) \/ PollFetch(p)
             \/ PollEnd(p) \/ SendMissingRowKept(p)
  BY <1>1, <1>5 DEF PollStart, PollSkip, PollFetch, PollEnd, SendMissingRowKept
<1>6. CASE \E p \in Polls, j \in Keys : SendNext(p, j) \/ SendMissing(p, j)
  BY <1>1, <1>2, <1>6 DEF SendNext, SendMissing
<1>7. CASE \E p \in Polls, s \in Slots : SendOk(p, s)
  <2>1. PICK p \in Polls, s \in Slots : SendOk(p, s)
    BY <1>7
  <2>2. current[p] \in Keys /\ DeleteOnSuccess(current[p])
    BY <2>1, SenderIsCurrent DEF SendOk
  <2> QED  BY <1>0, <2>1, <2>2, OnlyItsRowGoes
<1>8. CASE \E p \in Polls, s \in Slots :
             SendOkRowKept(p, s) \/ SendFail(p, s) \/ SendFailRowKept(p, s)
  BY <1>1, <1>2, <1>8, SenderIsCurrent
  DEF SendOkRowKept, SendFail, SendFailRowKept
<1>9. CASE \E s \in Slots :
             \/ RecvOpen(s) \/ RecvOpenCut(s) \/ RecvWrite(s)
             \/ RecvFinish(s) \/ RecvFail(s)
  BY <1>1, <1>9 DEF RecvOpen, RecvOpenCut, RecvWrite, RecvFinish, RecvFail
<1>10. CASE Restart \/ (\E j \in Keys : TimePasses(j)) \/ UNCHANGED vars
  BY <1>1, <1>2, <1>10 DEF Restart, TimePasses, vars, queueVars
<1> QED
  BY <1>3, <1>4, <1>5, <1>6, <1>7, <1>8, <1>9, <1>10 DEF Next

LEMMA DoneIsCopied ==
  ASSUME TypeOK, WorkerInv, CopiesExplained,
         NEW s \in Slots, req[s].stage = "done"
  PROVE  /\ req[s].key \in Keys
         /\ replica[req[s].key] \in req[s].body
         /\ replica[req[s].key] # Absent
         /\ disk[req[s].key] \in req[s].body \cup {Absent}
<1>1. req[s] \in Request /\ req[s].key \in Keys /\ req[s].sender # None
  BY KeyOfRequest
<1>2. Absent \notin req[s].body
  BY <1>1, ReplicationAssumption DEF Request
<1> QED  BY <1>1, <1>2 DEF CopiesExplained

LEMMA ReplicaStays ==
  ASSUME TypeOK, [Next]_vars, NEW k \in Keys, replica[k] # Absent
  PROVE  replica'[k] # Absent
<1>0. /\ Absent \notin Uploads /\ Absent # Torn
      /\ \A s \in Slots : Absent \notin req[s].body
  BY ReplicationAssumption DEF TypeOK, Request
<1>1. CASE UNCHANGED replica
  BY <1>1
<1>2. ASSUME NEW s \in Slots,
             RecvOpen(s) \/ RecvOpenCut(s) \/ RecvWrite(s)
             \/ RecvFinish(s) \/ RecvFail(s)
      PROVE  replica'[k] # Absent
  <2>1. \/ UNCHANGED replica
        \/ \E c \in req[s].body \cup {Torn} :
             replica' = [replica EXCEPT ![req[s].key] = c]
    BY <1>2 DEF RecvOpen, RecvOpenCut, RecvWrite, RecvFinish, RecvFail, fileVars
  <2> QED  BY <1>0, <2>1 DEF TypeOK
<1>3. CASE \E u \in Uploads :
             \/ PutOpen(u) \/ TusCreate(u) \/ WriteChunk(u) \/ PutClose(u)
             \/ UploadFails(u) \/ MultipartPublish(u) \/ Register(u)
             \/ TusComplete(u) \/ TusRemove(u)
  BY <1>1, <1>3
  DEF PutOpen, TusCreate, OpenTruncated, WriteChunk, PutClose, UploadFails,
      MultipartPublish, Register, TusComplete, TusRemove, FileBecomes, fileVars
<1>4. CASE \E u \in Uploads, s \in Slots : TusSendOk(u, s) \/ TusSendFail(u, s)
  BY <1>1, <1>4 DEF TusSendOk, TusSendFail, fileVars
<1>5. CASE \E p \in Polls :
             \/ PollStart(p) \/ PollSkip(p) \/ PollFetch(p)
             \/ PollEnd(p) \/ SendMissingRowKept(p)
  BY <1>1, <1>5 DEF PollStart, PollSkip, PollFetch, PollEnd, SendMissingRowKept,
     fileVars
<1>6. CASE \E p \in Polls, j \in Keys : SendNext(p, j) \/ SendMissing(p, j)
  BY <1>1, <1>6 DEF SendNext, SendMissing, fileVars
<1>7. CASE \E p \in Polls, s \in Slots :
             \/ SendOk(p, s) \/ SendOkRowKept(p, s)
             \/ SendFail(p, s) \/ SendFailRowKept(p, s)
  BY <1>1, <1>7
  DEF SendOk, SendOkRowKept, SendFail, SendFailRowKept, fileVars
<1>8. CASE Restart \/ (\E j \in Keys : TimePasses(j)) \/ UNCHANGED vars
  BY <1>1, <1>8 DEF Restart, TimePasses, vars, fileVars
<1> QED
  BY <1>2, <1>3, <1>4, <1>5, <1>6, <1>7, <1>8 DEF Next

\* Who is told that an upload is stored, and when; faults are never undone.
LEMMA NewlyAcked ==
  ASSUME TypeOK, [Next]_vars, NEW u \in Uploads
  PROVE  /\ faults' = 0 => faults = 0
         /\ stage'[u] = "acked" =>
              \/ stage[u] = "acked" \/ Register(u)
              \/ \E s \in Slots : TusSendOk(u, s) \/ TusSendFail(u, s)
              \/ KindOf[u] = "resumable" /\ faults' # 0
<1>0. faults \in Nat
  BY ReplicationAssumption DEF TypeOK
<1>1. CASE \E v \in Uploads :
             \/ PutOpen(v) \/ TusCreate(v) \/ WriteChunk(v) \/ PutClose(v)
             \/ UploadFails(v) \/ MultipartPublish(v) \/ Register(v)
             \/ TusComplete(v) \/ TusRemove(v)
  BY <1>1
  DEF PutOpen, TusCreate, OpenTruncated, WriteChunk, PutClose, UploadFails,
      MultipartPublish, Register, TusComplete, TusRemove, TypeOK, uploadVars
<1>2. CASE \E v \in Uploads, s \in Slots : TusSendOk(v, s) \/ TusSendFail(v, s)
  BY <1>2 DEF TusSendOk, TusSendFail, TypeOK
<1>3. CASE \E p \in Polls :
             \/ PollStart(p) \/ PollSkip(p) \/ PollFetch(p)
             \/ PollEnd(p) \/ SendMissingRowKept(p)
  BY <1>0, <1>3
  DEF PollStart, PollSkip, PollFetch, PollEnd, SendMissingRowKept, uploadVars
<1>4. CASE \E p \in Polls, j \in Keys : SendNext(p, j) \/ SendMissing(p, j)
  BY <1>4 DEF SendNext, SendMissing, uploadVars
<1>5. CASE \E p \in Polls, s \in Slots :
             \/ SendOk(p, s) \/ SendOkRowKept(p, s)
             \/ SendFail(p, s) \/ SendFailRowKept(p, s)
  BY <1>0, <1>5
  DEF SendOk, SendOkRowKept, SendFail, SendFailRowKept, uploadVars
<1>6. CASE \E s \in Slots :
             \/ RecvOpen(s) \/ RecvOpenCut(s) \/ RecvWrite(s)
             \/ RecvFinish(s) \/ RecvFail(s)
  BY <1>6
  DEF RecvOpen, RecvOpenCut, RecvWrite, RecvFinish, RecvFail, uploadVars
<1>7. CASE Restart
  BY <1>0, <1>7 DEF Restart, TypeOK
<1>8. CASE (\E j \in Keys : TimePasses(j)) \/ UNCHANGED vars
  BY <1>8 DEF TimePasses, vars, uploadVars
<1> QED
  BY <1>1, <1>2, <1>3, <1>4, <1>5, <1>6, <1>7, <1>8 DEF Next

LEMMA AckedStep ==
  ASSUME TypeOK, WorkerInv, CopiesExplained, AckedNeverForgotten, [Next]_vars
  PROVE  AckedNeverForgotten'
<1> SUFFICES ASSUME NEW u \in Uploads, stage'[u] = "acked",
                    KindOf[u] = "resumable" => faults' = 0
             PROVE  HasRow(KeyOf[u])' \/ replica'[KeyOf[u]] # Absent
  BY DEF AckedNeverForgotten
<1>0. KeyOf[u] \in Keys /\ QueueTypeOK
  BY ReplicationAssumption DEF TypeOK
<1>1. CASE stage[u] = "acked"
  <2>1. HasRow(KeyOf[u]) \/ replica[KeyOf[u]] # Absent
    BY <1>1, NewlyAcked DEF AckedNeverForgotten
  <2>2. CASE replica[KeyOf[u]] # Absent
    BY <1>0, <2>2, ReplicaStays
  <2>3. CASE HasRow(KeyOf[u]) /\ ~HasRow(KeyOf[u])'
    <3>1. PICK p \in Polls, s \in Slots :
            SendOk(p, s) /\ current[p] = KeyOf[u]
      BY <1>0, <2>3, RowsGoBySendOk
    <3>2. req[s].key = KeyOf[u] /\ req[s].stage = "done"
      BY <3>1, SenderIsCurrent DEF SendOk
    <3> QED  BY <1>0, <3>2, DoneIsCopied, ReplicaStays
  <2> QED  BY <2>1, <2>2, <2>3
<1>2. CASE Register(u) \/ \E s \in Slots : TusSendFail(u, s)
  BY <1>0, <1>2, RowIsThere DEF Register, TusSendFail
<1>3. CASE \E s \in Slots : TusSendOk(u, s)
  <2>1. PICK s \in Slots : TusSendOk(u, s)
    BY <1>3
  <2>2. req[s].stage = "done" /\ req[s].key = KeyOf[u]
    BY <2>1 DEF TusSendOk, WorkerInv, SenderKnown
  <2> QED  BY <1>0, <2>2, DoneIsCopied, ReplicaStays
<1> QED  BY <1>1, <1>2, <1>3, NewlyAcked

(***************************************************************************)
(* The inductive invariant: with it, each step of the uploads, the worker, *)
(* the secondary and the clock, and each restart, is accounted for.        *)
(***************************************************************************)
THEOREM InductiveInvariant == Spec => []IInv
<1>1. Init => WorkerInv /\ CopiesExplained /\ CountDecidesStatus
              /\ AckedNeverForgotten
  <2> SUFFICES ASSUME Init
               PROVE  WorkerInv /\ CopiesExplained /\ CountDecidesStatus
                      /\ AckedNeverForgotten
    OBVIOUS
  <2>1. \A s \in Slots : req[s] = FreeReq
    BY DEF Init
  <2>2. SenderKnown /\ OneRequestPerPoll /\ CopiesExplained
    BY <2>1, ReplicationAssumption
    DEF FreeReq, SenderKnown, OneRequestPerPoll, CopiesExplained, SharesReplica
  <2>3. DueQueued /\ OnePoll /\ BatchOfServing /\ BatchRowsQueued
    BY DEF Init, QueueInit, DueQueued, OnePoll, BatchOfServing, BatchRowsQueued
  <2>4. CountDecidesStatus /\ AckedNeverForgotten
    BY DEF Init, QueueInit, NoRow, HasRow, CountDecidesStatus,
           AckedNeverForgotten
  <2> QED  BY <2>2, <2>3, <2>4 DEF WorkerInv
<1>2. TypeOK /\ WorkerInv /\ CopiesExplained /\ CountDecidesStatus
      /\ AckedNeverForgotten /\ [Next]_vars
      => WorkerInv' /\ CopiesExplained' /\ CountDecidesStatus'
         /\ AckedNeverForgotten'
  BY WorkerStep, ExplainedStep, StatusStep, AckedStep
<1> QED  BY <1>1, <1>2, TypeCorrect, PTL DEF Spec, IInv

(***************************************************************************)
(* replicationWorker.ts: between the fetch of a batch and the statement    *)
(* that settles a row of it, no interleaving takes that row away.          *)
(***************************************************************************)
THEOREM BatchSafe == Spec => []BatchRowsQueued
<1>1. IInv => BatchRowsQueued
  BY DEF IInv, WorkerInv
<1> QED  BY <1>1, InductiveInvariant, PTL

\* A failure counted on a row that was given up leaves it given up, and no
\* other statement but a registration touches its status.
LEMMA GivenUpRowStays ==
  ASSUME QueueTypeOK, CountDecidesStatus, NEW j \in Keys, NEW k \in Keys,
         \/ UpsertOnFailure(j) \/ UpdateOnRetryFailure(j)
         \/ DeleteOnSuccess(j) \/ BecomeDue(j),
         queue[k].status = "FAILED_PERM"
  PROVE  queue'[k].status # "RETRYABLE"
<1>1. HasRow(k) /\ queue[k] \in Row
  BY DEF HasRow, QueueTypeOK
<1>2. OneMoreFailure(queue[k]).status = "FAILED_PERM"
  BY <1>1, QueueAssumption DEF CountDecidesStatus, OneMoreFailure, Row
<1> QED
  BY <1>1, <1>2 DEF QueueTypeOK, UpsertOnFailure, UpdateOnRetryFailure,
     DeleteOnSuccess, BecomeDue, NoRow

LEMMA ReviverRegisters ==
  ASSUME IInv, [Next]_vars, NEW k \in Keys,
         queue[k].status = "FAILED_PERM", queue'[k].status = "RETRYABLE"
  PROVE  \E u \in Uploads : KeyOf[u] = k /\ Register(u)
<1>0. QueueTypeOK /\ CountDecidesStatus /\ \A u \in Uploads : KeyOf[u] \in Keys
  BY ReplicationAssumption DEF IInv, TypeOK
<1>1. ~UNCHANGED queue
  OBVIOUS
<1>2. \A j \in Keys : ~(\/ UpsertOnFailure(j) \/ UpdateOnRetryFailure(j)
                        \/ DeleteOnSuccess(j) \/ BecomeDue(j))
  BY <1>0, GivenUpRowStays
<1>3. ASSUME NEW u \in Uploads,
             \/ PutOpen(u) \/ TusCreate(u) \/ WriteChunk(u) \/ PutClose(u)
             \/ UploadFails(u) \/ MultipartPublish(u) \/ Register(u)
             \/ TusComplete(u) \/ TusRemove(u)
      PROVE  Register(u) /\ KeyOf[u] = k
  <2>1. Register(u)
    BY <1>1, <1>3
    DEF PutOpen, TusCreate, OpenTruncated, WriteChunk, PutClose, UploadFails,
        MultipartPublish, TusComplete, TusRemove, queueVars
  <2>2. KeyOf[u] = k
    BY <1>0, <2>1 DEF Register, RegisterReplicationTask, QueueTypeOK
  <2> QED  BY <2>1, <2>2
<1>4. \A u \in Uploads, s \in Slots : ~TusSendOk(u, s) /\ ~TusSendFail(u, s)
  BY <1>0, <1>1, <1>2 DEF TusSendOk, TusSendFail, queueVars
<1>5. \A p \in Polls : ~(\/ PollStart(p) \/ PollSkip(p) \/ PollFetch(p)
                         \/ PollEnd(p) \/ SendMissingRowKept(p))
  BY <1>1 DEF PollStart, PollSkip, PollFetch, PollEnd, SendMissingRowKept,
     queueVars
<1>6. \A p \in Polls, j \in Keys : ~SendNext(p, j) /\ ~SendMissing(p, j)
  BY <1>1, <1>2 DEF SendNext, SendMissing, queueVars
<1>7. ASSUME NEW p \in Polls, NEW s \in Slots,
             \/ SendOk(p, s) \/ SendOkRowKept(p, s)
             \/ SendFail(p, s) \/ SendFailRowKept(p, s)
      PROVE  FALSE
  <2>1. current[p] \in Keys
    BY <1>7, SenderIsCurrent
    DEF SendOk, SendOkRowKept, SendFail, SendFailRowKept, IInv
  <2> QED
    BY <1>1, <1>2, <1>7, <2>1
    DEF SendOk, SendOkRowKept, SendFail, SendFailRowKept, queueVars
<1>8. \A s \in Slots : ~(\/ RecvOpen(s) \/ RecvOpenCut(s) \/ RecvWrite(s)
                         \/ RecvFinish(s) \/ RecvFail(s))
  BY <1>1 DEF RecvOpen, RecvOpenCut, RecvWrite, RecvFinish, RecvFail, queueVars
<1>9. ~Restart /\ \A j \in Keys : ~TimePasses(j)
  BY <1>1, <1>2 DEF Restart, TimePasses, queueVars
<1>10. ~UNCHANGED vars
  BY <1>1 DEF vars
<1> QED
  BY <1>3, <1>4, <1>5, <1>6, <1>7, <1>8, <1>9, <1>10 DEF Next

(***************************************************************************)
(* replicationQueue.ts: a row that was given up is tried again only when   *)
(* its object is registered by a new upload, in whatever order the worker  *)
(* and the resumable uploads report failures of the same row.              *)
(***************************************************************************)
THEOREM GivenUpStays == Spec => GivenUpForGood
<1>1. ASSUME IInv, [Next]_vars, NEW k \in Keys,
             queue[k].status = "FAILED_PERM", queue'[k].status = "RETRYABLE"
      PROVE  \E u \in Uploads : /\ KeyOf[u] = k
                               /\ stage[u] = "stored" /\ stage'[u] = "acked"
  <2>1. PICK u \in Uploads : KeyOf[u] = k /\ Register(u)
    BY <1>1, ReviverRegisters
  <2> QED  BY <1>1, <2>1 DEF Register, IInv, TypeOK
<1>2. IInv /\ [Next]_vars =>
        [\A k \in Keys :
           queue[k].status = "FAILED_PERM" /\ queue'[k].status = "RETRYABLE"
             => \E u \in Uploads :
                  /\ KeyOf[u] = k
                  /\ stage[u] = "stored" /\ stage'[u] = "acked"]_vars
  BY <1>1
<1> QED  BY <1>2, InductiveInvariant, PTL DEF Spec, GivenUpForGood

(***************************************************************************)
(* receiveReplication.ts: an answer of success is only sent when the       *)
(* replica holds what the request saw of the primary's file, whoever else  *)
(* writes the same replica.                                                *)
(***************************************************************************)
THEOREM CopiesAreExplained == Spec => []CopiesExplained
<1>1. IInv => CopiesExplained
  BY DEF IInv
<1> QED  BY <1>1, InductiveInvariant, PTL

(***************************************************************************)
(* objectService.ts, multipart.ts, eventHandler.ts: a stored upload is in  *)
(* the queue, or a copy of its object was written.                         *)
(***************************************************************************)
THEOREM AckedSafe == Spec => []AckedNeverForgotten
<1>1. IInv => AckedNeverForgotten
  BY DEF IInv
<1> QED  BY <1>1, InductiveInvariant, PTL

(***************************************************************************)
(* deleteOnSuccess: a task leaves the table only on the answer to the      *)
(* worker's request for its object, with equal copies unless someone wrote *)
(* one of them during the request.                                         *)
(***************************************************************************)
THEOREM RemovalsAreBacked == Spec => RowRemovalIsBacked
<1>1. IInv /\ [Next]_vars =>
        [\A k \in Keys : (HasRow(k) /\ ~HasRow(k)') => RemovalIsBacked(k)]_vars
  <2> SUFFICES ASSUME IInv, [Next]_vars,
                      NEW k \in Keys, HasRow(k), ~HasRow(k)'
               PROVE  RemovalIsBacked(k)
    OBVIOUS
  <2>1. PICK p \in Polls, s \in Slots : SendOk(p, s) /\ current[p] = k
    BY RowsGoBySendOk DEF IInv
  <2>2. /\ req[s].stage = "done" /\ req[s].key = k /\ req[s].sender \in Polls
    BY <2>1, SenderIsCurrent DEF SendOk, IInv
  <2>3. replica[k] \in req[s].body /\ disk[k] \in req[s].body \cup {Absent}
    BY <2>2, DoneIsCopied DEF IInv
  <2> QED  BY <2>2, <2>3 DEF RemovalIsBacked
<1> QED  BY <1>1, InductiveInvariant, PTL DEF Spec, RowRemovalIsBacked

---------------------------------------------------------------------------
(***************************************************************************)
(* Who waits has a request.  This is the safe half of EveryRowSettles; the *)
(* other half is that every request ends.                                  *)
(***************************************************************************)
SendingIsResumable ==
  \A u \in Uploads : stage[u] = "sending" => KindOf[u] = "resumable"

WaitInv == IInv /\ SendingIsResumable /\ NobodyWaitsInVain

\* No step but the start of a send gives anybody something to wait for.
LEMMA UploadStepWaits ==
  ASSUME WaitInv, NEW u \in Uploads,
         \/ PutOpen(u) \/ TusCreate(u) \/ WriteChunk(u) \/ PutClose(u)
         \/ UploadFails(u) \/ MultipartPublish(u) \/ Register(u) \/ TusRemove(u)
  PROVE  SendingIsResumable' /\ NobodyWaitsInVain'
<1>1. UNCHANGED workerVars
  BY DEF PutOpen, TusCreate, OpenTruncated, WriteChunk, PutClose, UploadFails,
         MultipartPublish, Register, TusRemove
<1>2. \A v \in Uploads : stage'[v] = "sending" => stage[v] = "sending"
  BY DEF PutOpen, TusCreate, OpenTruncated, WriteChunk, PutClose, UploadFails,
         MultipartPublish, Register, TusRemove, uploadVars, WaitInv, IInv, TypeOK
<1>3. UNCHANGED req \/ \E c : FileBecomes(KeyOf[u], c)
  BY DEF PutOpen, TusCreate, OpenTruncated, WriteChunk, PutClose, UploadFails,
         MultipartPublish, Register, TusRemove
<1>4. \A s \in Slots : req'[s].sender = req[s].sender
  BY <1>3, SeenSender DEF FileBecomes, SameSender, WaitInv, IInv, TypeOK
<1> QED
  BY <1>1, <1>2, <1>4 DEF WaitInv, SendingIsResumable, NobodyWaitsInVain,
     workerVars

LEMMA TusCompleteWaits ==
  ASSUME WaitInv, NEW u \in Uploads, TusComplete(u)
  PROVE  SendingIsResumable' /\ NobodyWaitsInVain'
<1>1. UNCHANGED workerVars /\ KindOf[u] = "resumable"
      /\ stage' = [stage EXCEPT ![u] = "sending"]
  BY DEF TusComplete
<1>2. PICK c \in Outcomes(u), free \in Slots :
        /\ req[free].stage = "free"
        /\ req' = [s \in Slots |-> IF s = free THEN NewReq(u, KeyOf[u], c)
                                               ELSE Sees(req[s], KeyOf[u], c)]
  BY DEF TusComplete
<1>3. req[free].sender = None /\ req'[free].sender = u
  BY <1>2 DEF WaitInv, IInv, WorkerInv, SenderKnown, NewReq
<1>4. \A s \in Slots : s # free => req'[s].sender = req[s].sender
  BY <1>2, SeenSender DEF SameSender, WaitInv, IInv, TypeOK
<1>5. \A s \in Slots : req[s].sender # None => req'[s].sender = req[s].sender
  BY <1>3, <1>4
<1> QED
  BY <1>1, <1>3, <1>5, ReplicationAssumption
  DEF WaitInv, SendingIsResumable, NobodyWaitsInVain, workerVars, IInv, TypeOK

\* The end of a request ends the waiting of its sender, and of nobody else.
LEMMA EndedRequest ==
  ASSUME WaitInv, NEW x \in Polls \cup Uploads, NEW s \in Slots,
         req[s].sender = x, \A t \in Slots : t # s => req'[t] = req[t],
         \A p \in Polls : p # x => current'[p] = current[p],
         x \in Polls => current'[x] = None,
         \A u \in Uploads : u # x => stage'[u] = stage[u],
         x \in Uploads => stage'[x] # "sending",
         isWorking' => \E p \in Polls : pc'[p] # "idle"
  PROVE  SendingIsResumable' /\ NobodyWaitsInVain'
<1>1. SendingIsResumable'
  BY DEF WaitInv, SendingIsResumable
<1>2. ASSUME NEW y \in Polls \cup Uploads, y # x, NEW t \in Slots, req[t].sender = y
      PROVE  req'[t].sender = y
  BY <1>2
<1>3. ASSUME NEW p \in Polls, current'[p] # None
      PROVE  \E t \in Slots : req'[t].sender = p
  BY <1>2, <1>3 DEF WaitInv, NobodyWaitsInVain
<1>4. ASSUME NEW u \in Uploads, stage'[u] = "sending"
      PROVE  \E t \in Slots : req'[t].sender = u
  BY <1>2, <1>4 DEF WaitInv, NobodyWaitsInVain
<1> QED
  BY <1>1, <1>3, <1>4 DEF NobodyWaitsInVain

LEMMA TusSendWaits ==
  ASSUME WaitInv, NEW u \in Uploads, NEW s \in Slots,
         TusSendOk(u, s) \/ TusSendFail(u, s)
  PROVE  SendingIsResumable' /\ NobodyWaitsInVain'
<1>1. /\ req[s].sender = u /\ UNCHANGED workerVars
      /\ stage' = [stage EXCEPT ![u] = "acked"]
      /\ \E r : req' = [req EXCEPT ![s] = r]
  BY DEF TusSendOk, TusSendFail
<1>2. /\ \A t \in Slots : t # s => req'[t] = req[t]
      /\ \A v \in Uploads : v # u => stage'[v] = stage[v]
      /\ stage'[u] # "sending"
  BY <1>1 DEF WaitInv, IInv, TypeOK
<1>3. u \notin Polls /\ UNCHANGED <<current, isWorking, pc>>
  BY <1>1, ReplicationAssumption DEF workerVars
<1> QED
  BY <1>1, <1>2, <1>3, EndedRequest DEF WaitInv, NobodyWaitsInVain

LEMMA SendEndWaits ==
  ASSUME WaitInv, NEW p \in Polls, NEW s \in Slots,
         \/ SendOk(p, s) \/ SendOkRowKept(p, s)
         \/ SendFail(p, s) \/ SendFailRowKept(p, s)
  PROVE  SendingIsResumable' /\ NobodyWaitsInVain'
<1>1. /\ req[s].sender = p /\ UNCHANGED stage
      /\ current' = [current EXCEPT ![p] = None]
      /\ \E r : req' = [req EXCEPT ![s] = r]
      /\ UNCHANGED <<isWorking, pc>> \/ isWorking' = FALSE
  BY DEF SendOk, SendOkRowKept, SendFail, SendFailRowKept, Settle, PollOver,
         uploadVars
<1>2. /\ \A t \in Slots : t # s => req'[t] = req[t]
      /\ \A q \in Polls : q # p => current'[q] = current[q]
      /\ current'[p] = None
  BY <1>1 DEF WaitInv, IInv, TypeOK
<1>3. p \notin Uploads
  BY ReplicationAssumption
<1> QED
  BY <1>1, <1>2, <1>3, EndedRequest DEF WaitInv, NobodyWaitsInVain

LEMMA PollStepWaits ==
  ASSUME WaitInv, NEW p \in Polls,
         \/ PollStart(p) \/ PollSkip(p) \/ PollFetch(p)
         \/ PollEnd(p) \/ SendMissingRowKept(p)
         \/ \E k \in Keys : SendMissing(p, k)
  PROVE  SendingIsResumable' /\ NobodyWaitsInVain'
<1>1. UNCHANGED <<req, stage>>
  BY DEF PollStart, PollSkip, PollFetch, PollEnd, SendMissingRowKept,
         SendMissing, uploadVars
<1>2. UNCHANGED current \/ current' = [current EXCEPT ![p] = None]
  BY DEF PollStart, PollSkip, PollFetch, PollEnd, SendMissingRowKept,
         SendMissing, Settle
<1>3. \/ isWorking' = FALSE
      \/ UNCHANGED <<isWorking, pc>>
      \/ pc' = [pc EXCEPT ![p] = "checking"]
      \/ pc' = [pc EXCEPT ![p] = "serving"]
  BY DEF PollStart, PollSkip, PollFetch, PollEnd, SendMissingRowKept,
         PollOver, SendMissing
<1>4. isWorking' => \E q \in Polls : pc'[q] # "idle"
  BY <1>3 DEF WaitInv, NobodyWaitsInVain, IInv, TypeOK
<1>5. \A q \in Polls : current'[q] # None => current[q] # None
  BY <1>2 DEF WaitInv, IInv, TypeOK
<1> QED
  BY <1>1, <1>4, <1>5 DEF WaitInv, SendingIsResumable, NobodyWaitsInVain

LEMMA SendNextWaits ==
  ASSUME WaitInv, NEW p \in Polls, NEW k \in Keys, SendNext(p, k)
  PROVE  SendingIsResumable' /\ NobodyWaitsInVain'
<1>1. PICK free \in Slots : /\ req[free].stage = "free"
                            /\ req' = [req EXCEPT ![free] = NewReq(p, k, disk[k])]
  BY DEF SendNext
<1>2. /\ UNCHANGED <<stage, isWorking, pc>>
      /\ current' = [current EXCEPT ![p] = k]
  BY DEF SendNext, uploadVars
<1>3. req[free].sender = None /\ req'[free].sender = p
  BY <1>1 DEF WaitInv, IInv, TypeOK, WorkerInv, SenderKnown, NewReq
<1>4. \A s \in Slots : req[s].sender # None => req'[s].sender = req[s].sender
  BY <1>1, <1>3 DEF WaitInv, IInv, TypeOK
<1> QED
  BY <1>2, <1>3, <1>4, ReplicationAssumption
  DEF WaitInv, SendingIsResumable, NobodyWaitsInVain, IInv, TypeOK

LEMMA RecvStepWaits ==
  ASSUME WaitInv, NEW s \in Slots,
         \/ RecvOpen(s) \/ RecvOpenCut(s) \/ RecvWrite(s)
         \/ RecvFinish(s) \/ RecvFail(s)
  PROVE  SendingIsResumable' /\ NobodyWaitsInVain'
<1>1. UNCHANGED <<stage, workerVars>>
  BY DEF RecvOpen, RecvOpenCut, RecvWrite, RecvFinish, RecvFail, uploadVars
<1>2. \A t \in Slots : req[t].sender # None => req'[t].sender = req[t].sender
  <2>0. \A t \in Slots : req[t] \in Request
    BY DEF WaitInv, IInv, TypeOK
  <2>1. CASE RecvOpen(s)
    BY <2>0, <2>1 DEF RecvOpen, Request
  <2>2. CASE RecvOpenCut(s)
    <3>1. req[s].sender = None
      BY <2>2 DEF RecvOpenCut, WaitInv, IInv, WorkerInv, SenderKnown
    <3> QED
      BY <2>0, <2>2, <3>1 DEF RecvOpenCut, Request
  <2>3. CASE RecvFinish(s) \/ RecvFail(s)
    <3>1. PICK answer \in {"done", "failed"} :
            req' = [req EXCEPT ![s] =
                      IF req[s].sender = None THEN FreeReq
                      ELSE [req[s] EXCEPT !.stage = answer]]
      BY <2>3 DEF RecvFinish, RecvFail, Answered
    <3> QED
      BY <2>0, <3>1 DEF Request, WaitInv, IInv, TypeOK
  <2>4. CASE RecvWrite(s)
    BY <2>4 DEF RecvWrite
  <2> QED
    BY <2>1, <2>2, <2>3, <2>4
<1> QED
  BY <1>1, <1>2, ReplicationAssumption
  DEF WaitInv, SendingIsResumable, NobodyWaitsInVain, workerVars

LEMMA RestartWaits ==
  ASSUME WaitInv, Restart
  PROVE  SendingIsResumable' /\ NobodyWaitsInVain'
<1>1. \A u \in Uploads : stage'[u] # "sending"
  BY DEF Restart, WaitInv, SendingIsResumable
<1> QED
  BY <1>1 DEF Restart, SendingIsResumable, NobodyWaitsInVain

(***************************************************************************)
(* replicationWorker.ts, eventHandler.ts: whatever fails, is given up or   *)
(* restarts, the worker's flag is never left set, and neither the worker   *)
(* nor a resumable upload waits for an answer nobody will give.            *)
(***************************************************************************)
THEOREM WaitsEnd == Spec => []NobodyWaitsInVain
<1>1. Init => SendingIsResumable /\ NobodyWaitsInVain
  BY DEF Init, SendingIsResumable, NobodyWaitsInVain
<1>2. ASSUME WaitInv, [Next]_vars PROVE SendingIsResumable' /\ NobodyWaitsInVain'
  <2>1. CASE UNCHANGED vars
    BY <1>2, <2>1 DEF vars, uploadVars, workerVars, WaitInv, SendingIsResumable,
       NobodyWaitsInVain
  <2>2. ASSUME NEW k \in Keys, TimePasses(k)
        PROVE  SendingIsResumable' /\ NobodyWaitsInVain'
    BY <1>2, <2>2 DEF TimePasses, uploadVars, workerVars, WaitInv,
       SendingIsResumable, NobodyWaitsInVain
  <2> QED
    BY <1>2, <2>1, <2>2, UploadStepWaits, TusCompleteWaits, TusSendWaits,
       SendEndWaits, PollStepWaits, SendNextWaits, RecvStepWaits, RestartWaits
    DEF Next
<1>3. (IInv /\ SendingIsResumable /\ NobodyWaitsInVain) /\ [Next]_vars
        => (SendingIsResumable /\ NobodyWaitsInVain)'
  BY <1>2 DEF WaitInv
<1> QED
  BY <1>1, <1>3, InductiveInvariant, PTL DEF Spec
=============================================================================
