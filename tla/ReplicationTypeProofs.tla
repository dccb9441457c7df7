----------------------- MODULE ReplicationTypeProofs -----------------------
(***************************************************************************)
(* Every variable of ObjectReplication keeps its type, for any set of      *)
(* objects, uploads and requests, any MAX_RETRY and batch size and any     *)
(* number of restarts and database errors.                                 *)
(***************************************************************************)
EXTENDS ReplicationInvariant, TLAPS

(***************************************************************************)
(* The statements of the table keep its type.                              *)
(***************************************************************************)
LEMMA QueueOperationsTyped ==
  ASSUME QueueTypeOK, NEW k,
         \/ /\ k \in Keys
            /\ RegisterReplicationTask(k) \/ UpsertOnFailure(k) \/ BecomeDue(k)
         \/ UpdateOnRetryFailure(k) \/ DeleteOnSuccess(k)
  PROVE  QueueTypeOK'
<1>0. NoRow \in Row /\ FirstTry \in Row
  BY DEF NoRow, FirstTry, Row
<1>1. \A row \in Row : OneMoreFailure(row) \in Row
  BY QueueAssumption DEF OneMoreFailure, Row
<1>2. queue' \in [Keys -> Row]
  BY <1>0, <1>1 DEF QueueTypeOK, RegisterReplicationTask, UpsertOnFailure,
     UpdateOnRetryFailure, DeleteOnSuccess, BecomeDue
<1>3. (k \in Keys /\ JoinLine(k)) \/ LeaveLine(k)
  BY DEF RegisterReplicationTask, UpsertOnFailure, UpdateOnRetryFailure,
     DeleteOnSuccess, BecomeDue
<1>4. due' \subseteq Keys /\ ahead' \in [Keys -> SUBSET Keys]
  BY <1>3 DEF QueueTypeOK, JoinLine, LeaveLine
<1> QED  BY <1>2, <1>4 DEF QueueTypeOK

(***************************************************************************)
(* A sender that gives up, and one that sees a new content, leave a        *)
(* request.                                                                *)
(***************************************************************************)
LEMMA RequestsTyped ==
  /\ FreeReq \in Request
  /\ \A r \in Request, arrived \in BOOLEAN : GivenUp(r, arrived) \in Request
  /\ \A r \in Request, k \in Keys, c \in Uploads \cup {Torn} :
       Sees(r, k, c) \in Request
  /\ \A from \in Polls \cup Uploads, k \in Keys, c \in Uploads \cup {Torn} :
       NewReq(from, k, c) \in Request
<1>1. FreeReq \in Request
  BY DEF FreeReq, Request
<1>2. \A r \in Request, arrived \in BOOLEAN : GivenUp(r, arrived) \in Request
  BY <1>1 DEF GivenUp, Request
<1>3. \A r \in Request, k \in Keys, c \in Uploads \cup {Torn} :
        Sees(r, k, c) \in Request
  BY DEF Sees, Request
<1>4. \A from \in Polls \cup Uploads, k \in Keys, c \in Uploads \cup {Torn} :
        NewReq(from, k, c) \in Request
  BY DEF NewReq, Request
<1> QED  BY <1>1, <1>2, <1>3, <1>4

(***************************************************************************)
(* TypeOK, by the part of the state an action changes.                     *)
(***************************************************************************)
FilesTyped   == disk \in [Keys -> Content] /\ replica \in [Keys -> Content]
UploadsTyped ==
  /\ stage \in [Uploads -> {"new", "writing", "detached", "stored",
                            "sending", "acked", "failed"}]
  /\ rivals \in [Uploads -> SUBSET Uploads]
WorkerTyped ==
  /\ isWorking \in BOOLEAN
  /\ pc \in [Polls -> {"idle", "checking", "serving"}]
  /\ batch \in [Polls -> SUBSET Keys]
  /\ current \in [Polls -> Keys \cup {None}]
RequestTyped == req \in [Slots -> Request]
FaultsTyped  == faults \in 0 .. MaxFaults

LEMMA TypeParts ==
  ASSUME QueueTypeOK', FilesTyped', UploadsTyped', WorkerTyped',
         RequestTyped', FaultsTyped'
  PROVE  TypeOK'
BY DEF TypeOK, FilesTyped, UploadsTyped, WorkerTyped, RequestTyped, FaultsTyped

LEMMA UnchangedTyped ==
  ASSUME TypeOK
  PROVE  /\ UNCHANGED queueVars => QueueTypeOK'
         /\ UNCHANGED fileVars => FilesTyped'
         /\ UNCHANGED uploadVars => UploadsTyped'
         /\ UNCHANGED workerVars => WorkerTyped'
         /\ UNCHANGED req => RequestTyped'
         /\ UNCHANGED faults => FaultsTyped'
BY DEF TypeOK, queueVars, QueueTypeOK, fileVars, FilesTyped, uploadVars,
       UploadsTyped, workerVars, WorkerTyped, RequestTyped, FaultsTyped

\* A new content in a file of the primary.
LEMMA FileBecomesTyped ==
  ASSUME TypeOK, NEW k \in Keys, NEW c \in Uploads \cup {Torn},
         FileBecomes(k, c)
  PROVE  FilesTyped' /\ RequestTyped'
<1>1. FilesTyped'
  BY DEF TypeOK, FilesTyped, FileBecomes, Content
<1>2. RequestTyped'
  BY RequestsTyped DEF TypeOK, RequestTyped, FileBecomes
<1> QED  BY <1>1, <1>2

LEMMA UploadStepTyped ==
  ASSUME TypeOK, NEW u \in Uploads,
         \/ PutOpen(u) \/ TusCreate(u) \/ WriteChunk(u) \/ PutClose(u)
         \/ UploadFails(u) \/ MultipartPublish(u) \/ Register(u)
         \/ TusComplete(u) \/ TusRemove(u)
  PROVE  TypeOK'
<1>1. KeyOf[u] \in Keys
  BY ReplicationAssumption
<1>2. rivals[u] \subseteq Uploads
  BY DEF TypeOK
<1>3. Outcomes(u) \subseteq Uploads \cup {Torn}
  BY <1>2 DEF Outcomes
<1>4. CASE OpenTruncated(u)
  <2>1. FileBecomes(KeyOf[u], Torn)
    BY <1>4 DEF OpenTruncated
  <2>2. UploadsTyped'
    BY <1>4 DEF OpenTruncated, TypeOK, UploadsTyped, Writers
  <2>3. UNCHANGED <<queueVars, workerVars, faults>>
    BY <1>4 DEF OpenTruncated
  <2> QED
    BY <1>1, <2>1, <2>2, <2>3, FileBecomesTyped, TypeParts, UnchangedTyped
<1>5. CASE WriteChunk(u)
  BY <1>1, <1>5, FileBecomesTyped, TypeParts, UnchangedTyped
    DEF WriteChunk
<1>6. CASE PutClose(u)
  <2>1. FilesTyped' /\ RequestTyped'
    BY <1>1, <1>3, <1>6, FileBecomesTyped, TypeParts, UnchangedTyped
    DEF PutClose
  <2>2. UploadsTyped'
    BY <1>6 DEF PutClose, TypeOK, UploadsTyped
  <2> QED
    BY <1>6, <2>1, <2>2, TypeParts, UnchangedTyped
    DEF PutClose
<1>7. CASE UploadFails(u)
  <2>1. UploadsTyped'
    BY <1>7 DEF UploadFails, TypeOK, UploadsTyped
  <2> QED
    BY <1>7, <2>1, TypeParts, UnchangedTyped DEF UploadFails
<1>8. CASE MultipartPublish(u)
  <2>1. FilesTyped' /\ RequestTyped'
    BY <1>1, <1>8, FileBecomesTyped DEF MultipartPublish
  <2>2. UploadsTyped'
    BY <1>8 DEF MultipartPublish, TypeOK, UploadsTyped
  <2> QED
    BY <1>8, <2>1, <2>2, TypeParts, UnchangedTyped
    DEF MultipartPublish
<1>9. CASE Register(u)
  <2>1. QueueTypeOK'
    BY <1>1, <1>9, QueueOperationsTyped DEF Register, TypeOK
  <2>2. UploadsTyped'
    BY <1>9 DEF Register, TypeOK, UploadsTyped
  <2> QED
    BY <1>9, <2>1, <2>2, TypeParts, UnchangedTyped
    DEF Register
<1>10. CASE TusComplete(u)
  <2>1. PICK c \in Outcomes(u), free \in Slots :
          /\ disk' = [disk EXCEPT ![KeyOf[u]] = c]
          /\ req' = [s \in Slots |-> IF s = free
                                     THEN NewReq(u, KeyOf[u], c)
                                     ELSE Sees(req[s], KeyOf[u], c)]
    BY <1>10 DEF TusComplete
  <2>2. FilesTyped'
    BY <1>3, <1>10, <2>1 DEF TusComplete, TypeOK, FilesTyped, Content
  <2>3. RequestTyped'
    BY <1>1, <1>3, <2>1, RequestsTyped DEF TypeOK, RequestTyped
  <2>4. UploadsTyped'
    BY <1>10 DEF TusComplete, TypeOK, UploadsTyped
  <2> QED
    BY <1>10, <2>2, <2>3, <2>4, TypeParts, UnchangedTyped
    DEF TusComplete
<1>11. CASE TusRemove(u)
  <2>1. FilesTyped'
    BY <1>11 DEF TusRemove, TypeOK, FilesTyped, Content
  <2>2. UploadsTyped'
    BY <1>11 DEF TusRemove, TypeOK, UploadsTyped
  <2> QED
    BY <1>11, <2>1, <2>2, TypeParts, UnchangedTyped
    DEF TusRemove
<1> QED
  BY <1>4, <1>5, <1>6, <1>7, <1>8, <1>9, <1>10, <1>11 DEF PutOpen, TusCreate

LEMMA PollStepTyped ==
  ASSUME TypeOK, NEW p \in Polls,
         \/ PollStart(p) \/ PollSkip(p) \/ PollFetch(p)
         \/ PollEnd(p) \/ SendMissingRowKept(p)
  PROVE  TypeOK'
<1>1. \A B \in RetryBatches : B \subseteq Keys
  BY DEF RetryBatches, TypeOK, QueueTypeOK
<1>2. WorkerTyped'
  BY <1>1 DEF PollStart, PollSkip, PollFetch, PollEnd, SendMissingRowKept,
              PollOver, TypeOK, WorkerTyped
<1>3. FaultsTyped'
  BY UnchangedTyped, ReplicationAssumption
    DEF PollStart, PollSkip, PollFetch, PollEnd, SendMissingRowKept,
        TypeOK, FaultsTyped
<1> QED
  BY <1>2, <1>3, TypeParts, UnchangedTyped
    DEF PollStart, PollSkip, PollFetch, PollEnd, SendMissingRowKept

LEMMA SendStepTyped ==
  ASSUME TypeOK, NEW p \in Polls,
         \/ \E k \in Keys : SendNext(p, k) \/ SendMissing(p, k)
         \/ \E s \in Slots : \/ SendOk(p, s) \/ SendOkRowKept(p, s)
                             \/ SendFail(p, s) \/ SendFailRowKept(p, s)
  PROVE  TypeOK'
<1>1. ASSUME NEW k \in Keys, SendNext(p, k)  PROVE TypeOK'
  <2>1. PICK s \in Slots : req' = [req EXCEPT ![s] = NewReq(p, k, disk[k])]
    BY <1>1 DEF SendNext
  <2>2. disk[k] \in Uploads \cup {Torn}
    BY <1>1 DEF SendNext, TypeOK, Content
  <2>3. RequestTyped'
    BY <2>1, <2>2, RequestsTyped DEF TypeOK, RequestTyped
  <2>4. WorkerTyped'
    BY <1>1 DEF SendNext, TypeOK, WorkerTyped
  <2> QED
    BY <1>1, <2>3, <2>4, TypeParts, UnchangedTyped
    DEF SendNext
<1>2. ASSUME NEW k \in Keys, SendMissing(p, k)  PROVE TypeOK'
  <2>1. QueueTypeOK'
    BY <1>2, QueueOperationsTyped DEF SendMissing, TypeOK
  <2>2. WorkerTyped'
    BY <1>2 DEF SendMissing, Settle, TypeOK, WorkerTyped
  <2> QED
    BY <1>2, <2>1, <2>2, TypeParts, UnchangedTyped
    DEF SendMissing
<1>3. ASSUME NEW s \in Slots, SendOk(p, s) \/ SendOkRowKept(p, s)
      PROVE  TypeOK'
  <2>1. QueueTypeOK'
    BY <1>3, QueueOperationsTyped, UnchangedTyped
    DEF SendOk, SendOkRowKept, TypeOK
  <2>2. WorkerTyped'
    BY <1>3 DEF SendOk, SendOkRowKept, Settle, TypeOK, WorkerTyped
  <2>3. RequestTyped'
    BY <1>3, RequestsTyped DEF SendOk, SendOkRowKept, TypeOK, RequestTyped
  <2>4. FaultsTyped'
    BY <1>3, UnchangedTyped, ReplicationAssumption
    DEF SendOk, SendOkRowKept, TypeOK, FaultsTyped
  <2> QED
    BY <1>3, <2>1, <2>2, <2>3, <2>4, TypeParts, UnchangedTyped
    DEF SendOk, SendOkRowKept
<1>4. ASSUME NEW s \in Slots, SendFail(p, s) \/ SendFailRowKept(p, s)
      PROVE  TypeOK'
  <2>1. QueueTypeOK'
    BY <1>4, QueueOperationsTyped, UnchangedTyped
    DEF SendFail, SendFailRowKept, TypeOK
  <2>2. WorkerTyped'
    <3>1. CASE SendFail(p, s)
      BY <3>1 DEF SendFail, Settle, TypeOK, WorkerTyped
    <3>2. CASE SendFailRowKept(p, s)
      BY <3>2 DEF SendFailRowKept, PollOver, TypeOK, WorkerTyped
    <3> QED  BY <1>4, <3>1, <3>2
  <2>3. RequestTyped'
    <3>1. PICK arrived \in BOOLEAN :
            req' = [req EXCEPT ![s] = GivenUp(req[s], arrived)]
      BY <1>4 DEF SendFail, SendFailRowKept
    <3>2. GivenUp(req[s], arrived) \in Request
      BY RequestsTyped DEF TypeOK
    <3> QED  BY <3>1, <3>2 DEF TypeOK, RequestTyped
  <2>4. FaultsTyped'
    BY <1>4, UnchangedTyped, ReplicationAssumption
    DEF SendFail, SendFailRowKept, TypeOK, FaultsTyped
  <2> QED
    BY <1>4, <2>1, <2>2, <2>3, <2>4, TypeParts, UnchangedTyped
    DEF SendFail, SendFailRowKept
<1> QED  BY <1>1, <1>2, <1>3, <1>4

LEMMA TusSendStepTyped ==
  ASSUME TypeOK, NEW u \in Uploads, NEW s \in Slots,
         TusSendOk(u, s) \/ TusSendFail(u, s)
  PROVE  TypeOK'
<1>1. QueueTypeOK'
  BY QueueOperationsTyped, UnchangedTyped, ReplicationAssumption
  DEF TusSendOk, TusSendFail, TypeOK
<1>2. UploadsTyped'
  BY DEF TusSendOk, TusSendFail, TypeOK, UploadsTyped
<1>3. RequestTyped'
  BY RequestsTyped DEF TusSendOk, TusSendFail, TypeOK, RequestTyped
<1> QED
  BY <1>1, <1>2, <1>3, TypeParts, UnchangedTyped
    DEF TusSendOk, TusSendFail

LEMMA RecvStepTyped ==
  ASSUME TypeOK, NEW s \in Slots,
         \/ RecvOpen(s) \/ RecvOpenCut(s) \/ RecvWrite(s)
         \/ RecvFinish(s) \/ RecvFail(s)
  PROVE  TypeOK'
<1>1. FilesTyped'
  <2>1. CASE RecvOpen(s) \/ RecvOpenCut(s) \/ RecvWrite(s)
    BY <2>1 DEF RecvOpen, RecvOpenCut, RecvWrite, TypeOK, FilesTyped, Content
  <2>2. CASE RecvFinish(s)
    <3>1. req[s].body \subseteq Content
      BY DEF TypeOK, Request, Content
    <3> QED  BY <2>2, <3>1 DEF RecvFinish, TypeOK, FilesTyped
  <2>3. CASE RecvFail(s)
    BY <2>3, UnchangedTyped DEF RecvFail
  <2> QED  BY <2>1, <2>2, <2>3
<1>2. RequestTyped'
  <2>0. \A t \in Slots : req[t] \in Request /\ req[t].body \subseteq Uploads \cup {Torn}
    BY DEF TypeOK, Request
  <2>1. CASE RecvOpen(s)
    <3> DEFINE k == req[s].key
               mine == req[s].body \cup (UNION {req[t].body : t \in Receiving(k)})
                         \cup (IF Receiving(k) = {} THEN {} ELSE {Torn})
    <3>1. mine \subseteq Uploads \cup {Torn}
      <4>1. \A t \in Receiving(k) : req[t].body \subseteq Uploads \cup {Torn}
        BY <2>0 DEF Receiving
      <4>2. UNION {req[t].body : t \in Receiving(k)} \subseteq Uploads \cup {Torn}
        BY <4>1
      <4>3. (IF Receiving(k) = {} THEN {} ELSE {Torn}) \subseteq Uploads \cup {Torn}
        OBVIOUS
      <4>4. req[s].body \subseteq Uploads \cup {Torn}
        BY <2>0
      <4> QED  BY <4>2, <4>3, <4>4
    <3>2. [req[s] EXCEPT !.stage = "receiving", !.body = mine] \in Request
      BY <2>0, <3>1 DEF Request
    <3>3. \A t \in Slots :
            [req[t] EXCEPT !.body = @ \cup req[s].body \cup {Torn}] \in Request
      BY <2>0 DEF Request
    <3> HIDE DEF mine
    <3>4. req' = [t \in Slots |->
            IF t = s THEN [req[s] EXCEPT !.stage = "receiving", !.body = mine]
            ELSE IF req[t].stage \in {"receiving", "done"} /\ req[t].key = k
                 THEN [req[t] EXCEPT !.body = @ \cup req[s].body \cup {Torn}]
            ELSE req[t]]
      BY <2>1 DEF RecvOpen, mine
    <3> QED  BY <2>0, <3>2, <3>3, <3>4 DEF RequestTyped
  <2>2. CASE RecvOpenCut(s)
    <3>1. \A t \in Slots : [req[t] EXCEPT !.body = @ \cup {Torn}] \in Request
      BY <2>0 DEF Request
    <3>2. FreeReq \in Request
      BY RequestsTyped
    <3>3. req' = [t \in Slots |->
            IF t = s THEN FreeReq
            ELSE IF req[t].stage \in {"receiving", "done"} /\ req[t].key = req[s].key
                 THEN [req[t] EXCEPT !.body = @ \cup {Torn}]
            ELSE req[t]]
      BY <2>2 DEF RecvOpenCut
    <3> QED  BY <2>0, <3>1, <3>2, <3>3 DEF RequestTyped
  <2>3. CASE RecvFinish(s) \/ RecvFail(s)
    <3>1. PICK answer \in {"done", "failed"} : Answered(s, answer)
      BY <2>3 DEF RecvFinish, RecvFail
    <3>2. [req[s] EXCEPT !.stage = answer] \in Request
      BY <2>0 DEF Request
    <3> QED
      BY <3>1, <3>2, RequestsTyped DEF Answered, TypeOK, RequestTyped
  <2>4. CASE RecvWrite(s)
    BY <2>4 DEF RecvWrite, TypeOK, RequestTyped
  <2> QED
    BY <2>1, <2>2, <2>3, <2>4
<1> QED
  BY <1>1, <1>2, TypeParts, UnchangedTyped
    DEF RecvOpen, RecvOpenCut, RecvWrite, RecvFinish, RecvFail

LEMMA RestartTyped ==
  ASSUME TypeOK, Restart
  PROVE  TypeOK'
<1>1. UploadsTyped'
  BY DEF Restart, TypeOK, UploadsTyped
<1>2. WorkerTyped'
  BY DEF Restart, TypeOK, WorkerTyped
<1>3. RequestTyped'
  <2>1. PICK arrived \in SUBSET Slots :
          req' = [s \in Slots |-> GivenUp(req[s], s \in arrived)]
    BY DEF Restart
  <2>2. \A s \in Slots : GivenUp(req[s], s \in arrived) \in Request
    <3> TAKE s \in Slots
    <3>1. (s \in arrived) \in BOOLEAN
      OBVIOUS
    <3> QED  BY <3>1, RequestsTyped DEF TypeOK
  <2> QED  BY <2>1, <2>2 DEF RequestTyped
<1>4. FaultsTyped'
  BY ReplicationAssumption DEF Restart, TypeOK, FaultsTyped
<1> QED
  BY <1>1, <1>2, <1>3, <1>4, TypeParts, UnchangedTyped
    DEF Restart

(***************************************************************************)
(* Every variable keeps its type: in particular no request, row or file    *)
(* content of a kind the code does not know ever appears.                  *)
(***************************************************************************)
THEOREM TypeCorrect == Spec => []TypeOK
<1>1. Init => TypeOK
  <2> SUFFICES ASSUME Init  PROVE TypeOK
    OBVIOUS
  <2>1. QueueTypeOK
    BY DEF Init, QueueInit, QueueTypeOK, NoRow, Row
  <2>2. req \in [Slots -> Request]
    BY RequestsTyped DEF Init
  <2> QED
    <3>1. 0 \in 0 .. MaxFaults
      BY ReplicationAssumption
    <3> QED  BY <2>1, <2>2, <3>1 DEF Init, TypeOK, Content
<1>2. TypeOK /\ [Next]_vars => TypeOK'
  <2> SUFFICES ASSUME TypeOK, [Next]_vars  PROVE TypeOK'
    OBVIOUS
  <2>1. CASE UNCHANGED vars
    BY <2>1 DEF vars, TypeOK, QueueTypeOK
  <2>2. ASSUME NEW k \in Keys, TimePasses(k)  PROVE TypeOK'
    <3>1. QueueTypeOK'
      BY <2>2, QueueOperationsTyped DEF TimePasses, TypeOK
    <3> QED
      BY <2>2, <3>1, TypeParts, UnchangedTyped DEF TimePasses
  <2> QED
    BY <2>1, <2>2, UploadStepTyped, TusSendStepTyped, PollStepTyped,
       SendStepTyped, RecvStepTyped, RestartTyped DEF Next
<1> QED  BY <1>1, <1>2, PTL DEF Spec

=============================================================================
