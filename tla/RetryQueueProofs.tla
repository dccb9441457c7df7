-------------------------- MODULE RetryQueueProofs --------------------------
(***************************************************************************)
(* Proofs for RetryQueue: for any objects, limits and callers.             *)
(***************************************************************************)
EXTENDS RetryQueue, TLAPS

LEMMA TypedStep == RetryTypeOK /\ [RetryNext]_retryVars => RetryTypeOK'
<1> SUFFICES ASSUME RetryTypeOK, [RetryNext]_retryVars PROVE RetryTypeOK'
  OBVIOUS
<1> USE QueueAssumption, RetryAssumption
        DEF RetryTypeOK, QueueTypeOK, Row, HasRow, NoRow, FirstTry,
            OneMoreFailure, JoinLine, LeaveLine
<1>1. ASSUME NEW k \in Keys, Register(k) PROVE RetryTypeOK'
  BY <1>1 DEF Register, RegisterReplicationTask
<1>2. ASSUME NEW k \in Keys, ReportFailure(k) PROVE RetryTypeOK'
  BY <1>2 DEF ReportFailure, UpsertOnFailure
<1>3. ASSUME NEW k \in Keys, TimePasses(k) PROVE RetryTypeOK'
  BY <1>3 DEF TimePasses, BecomeDue
<1>4. ASSUME NEW k \in Keys, Succeed(k) PROVE RetryTypeOK'
  BY <1>4 DEF Succeed, DeleteOnSuccess
<1>5. ASSUME NEW k \in Keys, Fail(k) PROVE RetryTypeOK'
  BY <1>5 DEF Fail, UpdateOnRetryFailure
<1>6. ASSUME NEW k \in Keys, KeepRow(k) PROVE RetryTypeOK'
  BY <1>6 DEF KeepRow, queueVars
<1>7. CASE Fetch
  BY <1>7 DEF Fetch, RetryBatches
<1>8. CASE DropBatch
  BY <1>8 DEF DropBatch, queueVars
<1>9. CASE UNCHANGED retryVars
  BY <1>9 DEF retryVars
<1> QED
  BY <1>1, <1>2, <1>3, <1>4, <1>5, <1>6, <1>7, <1>8, <1>9 DEF RetryNext

(***************************************************************************)
(* The table, the batch and the count of faults keep their types.          *)
(***************************************************************************)
THEOREM RetryTypeCorrect == RetrySafety => []RetryTypeOK
<1>1. RetryInit => RetryTypeOK
  BY RetryAssumption DEF RetryInit, QueueInit, RetryTypeOK, QueueTypeOK, Row, NoRow
<1> QED
  BY <1>1, TypedStep, PTL DEF RetrySafety

---------------------------------------------------------------------------
\* Only rows that exist are due, and only due rows are fetched.
DueIsQueued == \A k \in due : HasRow(k)

QueuedInv == RetryTypeOK /\ DueIsQueued /\ BatchIsQueued

LEMMA QueuedStep == QueuedInv /\ [RetryNext]_retryVars => QueuedInv'
<1> SUFFICES ASSUME QueuedInv, [RetryNext]_retryVars
             PROVE  DueIsQueued' /\ BatchIsQueued'
  BY TypedStep DEF QueuedInv
<1> DEFINE Goal == DueIsQueued' /\ BatchIsQueued'
<1> USE DEF QueuedInv, RetryTypeOK, QueueTypeOK, DueIsQueued, BatchIsQueued,
            HasRow, NoRow, FirstTry, OneMoreFailure, JoinLine, LeaveLine
<1>1. ASSUME NEW k \in Keys, Register(k) PROVE Goal
  BY <1>1 DEF Register, RegisterReplicationTask
<1>2. ASSUME NEW k \in Keys, ReportFailure(k) PROVE Goal
  BY <1>2 DEF ReportFailure, UpsertOnFailure
<1>3. ASSUME NEW k \in Keys, TimePasses(k) PROVE Goal
  BY <1>3 DEF TimePasses, BecomeDue
<1>4. ASSUME NEW k \in Keys, Succeed(k) PROVE Goal
  BY <1>4 DEF Succeed, DeleteOnSuccess
<1>5. ASSUME NEW k \in Keys, Fail(k) PROVE Goal
  BY <1>5 DEF Fail, UpdateOnRetryFailure
<1>6. ASSUME NEW k \in Keys, KeepRow(k) PROVE Goal
  BY <1>6 DEF KeepRow, queueVars
<1>7. CASE Fetch
  BY <1>7 DEF Fetch, RetryBatches
<1>8. CASE DropBatch
  BY <1>8 DEF DropBatch, queueVars
<1>9. CASE UNCHANGED retryVars
  BY <1>9 DEF retryVars
<1> QED
  BY <1>1, <1>2, <1>3, <1>4, <1>5, <1>6, <1>7, <1>8, <1>9 DEF RetryNext

(***************************************************************************)
(* The worker never settles a row that is gone, whatever its callers do.   *)
(***************************************************************************)
THEOREM BatchStays == RetrySafety => []BatchIsQueued
<1>1. RetryInit => QueuedInv
  BY RetryAssumption
     DEF RetryInit, QueueInit, QueuedInv, RetryTypeOK, QueueTypeOK, Row, NoRow,
         DueIsQueued, BatchIsQueued
<1>2. QueuedInv => BatchIsQueued
  BY DEF QueuedInv
<1> QED
  BY <1>1, <1>2, QueuedStep, PTL DEF RetrySafety

---------------------------------------------------------------------------
(***************************************************************************)
(* The due rows stand in a line: of two of them one is ahead of the other, *)
(* and nobody else is in it.                                               *)
(***************************************************************************)
LineInv ==
  /\ RetryTypeOK
  /\ \A k \in Keys : ahead[k] \subseteq due \ {k}
  /\ \A j, k \in due : j # k => j \in ahead[k] \/ k \in ahead[j]

LEMMA JoinLineKeepsLine ==
  ASSUME LineInv, NEW k \in Keys, JoinLine(k), RetryTypeOK'
  PROVE  LineInv'
<1>1. \A j \in Keys : ahead'[j] = IF j = k THEN due \ {k} ELSE ahead[j] \ {k}
  BY DEF JoinLine
<1>2. due' = due \cup {k} /\ due' \subseteq Keys
  BY DEF JoinLine, RetryTypeOK, QueueTypeOK
<1>3. \A j \in Keys : ahead'[j] \subseteq due' \ {j}
  BY <1>1, <1>2 DEF LineInv
<1>4. ASSUME NEW i \in due', NEW j \in due', i # j
      PROVE  i \in ahead'[j] \/ j \in ahead'[i]
  <2>1. CASE i = k \/ j = k
    BY <1>1, <1>2, <1>4, <2>1
  <2>2. CASE i # k /\ j # k
    BY <1>1, <1>2, <1>4, <2>2 DEF LineInv
  <2> QED
    BY <2>1, <2>2
<1> QED
  BY <1>3, <1>4 DEF LineInv

LEMMA LeaveLineKeepsLine ==
  ASSUME LineInv, NEW k \in Keys, LeaveLine(k), RetryTypeOK'
  PROVE  LineInv'
<1>1. \A j \in Keys : ahead'[j] = IF j = k THEN {} ELSE ahead[j] \ {k}
  BY DEF LeaveLine
<1>2. due' = due \ {k} /\ due' \subseteq Keys
  BY DEF LeaveLine, RetryTypeOK, QueueTypeOK
<1> QED
  BY <1>1, <1>2 DEF LineInv

\* What a step does to the line.
LEMMA LineMoves ==
  ASSUME [RetryNext]_retryVars
  PROVE  \/ UNCHANGED <<due, ahead>>
         \/ \E k \in Keys : \/ Register(k) /\ JoinLine(k)
                            \/ ReportFailure(k) /\ LeaveLine(k)
                            \/ k \notin due /\ JoinLine(k)
                            \/ k \in batch /\ LeaveLine(k)
<1>1. ASSUME NEW k \in Keys, Register(k) PROVE JoinLine(k)
  BY <1>1 DEF Register, RegisterReplicationTask
<1>2. ASSUME NEW k \in Keys, ReportFailure(k) PROVE LeaveLine(k)
  BY <1>2 DEF ReportFailure, UpsertOnFailure
<1>3. ASSUME NEW k \in Keys, TimePasses(k) PROVE k \notin due /\ JoinLine(k)
  BY <1>3 DEF TimePasses, BecomeDue
<1>4. ASSUME NEW k \in Keys, Succeed(k) \/ Fail(k) PROVE k \in batch /\ LeaveLine(k)
  BY <1>4 DEF Succeed, Fail, DeleteOnSuccess, UpdateOnRetryFailure
<1>5. CASE Fetch \/ DropBatch \/ (\E k \in Keys : KeepRow(k)) \/ UNCHANGED retryVars
  BY <1>5 DEF Fetch, DropBatch, KeepRow, queueVars, retryVars
<1> QED
  BY <1>1, <1>2, <1>3, <1>4, <1>5 DEF RetryNext

LEMMA LineStep == LineInv /\ [RetryNext]_retryVars => LineInv'
<1> SUFFICES ASSUME LineInv, [RetryNext]_retryVars PROVE LineInv'
  OBVIOUS
<1>1. RetryTypeOK'
  BY TypedStep DEF LineInv
<1>2. CASE UNCHANGED <<due, ahead>>
  BY <1>1, <1>2 DEF LineInv
<1>3. CASE \E k \in Keys : JoinLine(k) \/ LeaveLine(k)
  BY <1>1, <1>3, JoinLineKeepsLine, LeaveLineKeepsLine
<1> QED
  BY <1>2, <1>3, LineMoves

\* The rows a batch passes over are behind all of it.
LEMMA BatchIsFront ==
  ASSUME LineInv, NEW B \in RetryBatches, NEW k \in due \ B
  PROVE  B \subseteq ahead[k] /\ Cardinality(B) = BatchSize
<1>1. B \subseteq due /\ \A j \in B : k \notin ahead[j]
  BY DEF RetryBatches
<1>2. Cardinality(B) = BatchSize
  BY DEF RetryBatches
<1> QED
  BY <1>1, <1>2 DEF LineInv

(***************************************************************************)
(* fetchBatchStmt: the order in which rows became due is the order in      *)
(* which they are fetched, whoever registers and whatever fails.  This is  *)
(* what NotStarved rests on: the line in front of a row only gets shorter. *)
(***************************************************************************)
THEOREM ServedInOrder == RetrySafety => FirstComeFirstServed
<1> DEFINE Served(k) ==
             /\ k \in due' /\ ~UploadsTouch(k) => ahead'[k] \subseteq ahead[k]
             /\ batch = {} /\ batch' # {} /\ k \notin batch'
                  => batch' \subseteq ahead[k] /\ Cardinality(batch') = BatchSize
<1>1. RetryInit => LineInv
  BY RetryAssumption DEF RetryInit, QueueInit, LineInv, RetryTypeOK,
     QueueTypeOK, Row, NoRow
<1>2. ASSUME LineInv, [RetryNext]_retryVars, NEW k \in due PROVE Served(k)
  <2>1. k \in Keys
    BY <1>2 DEF LineInv, RetryTypeOK, QueueTypeOK
  <2>2. ASSUME k \in due', ~UploadsTouch(k) PROVE ahead'[k] \subseteq ahead[k]
    <3>1. CASE UNCHANGED <<due, ahead>>
      BY <3>1
    <3>2. ASSUME NEW j \in Keys, JoinLine(j), j # k
          PROVE  ahead'[k] \subseteq ahead[k]
      BY <2>1, <3>2 DEF JoinLine
    <3>3. ASSUME NEW j \in Keys, LeaveLine(j) PROVE ahead'[k] \subseteq ahead[k]
      BY <2>1, <3>3 DEF LeaveLine
    <3> QED
      BY <1>2, <2>2, <3>1, <3>2, <3>3, LineMoves DEF UploadsTouch
  <2>3. ASSUME batch = {}, batch' # {}, k \notin batch'
        PROVE  batch' \subseteq ahead[k] /\ Cardinality(batch') = BatchSize
    <3>1. Fetch
      BY <1>2, <2>3 DEF RetryNext, Register, ReportFailure, TimePasses, Succeed,
         Fail, KeepRow, DropBatch, retryVars
    <3>2. batch' \in RetryBatches
      BY <3>1 DEF Fetch
    <3> QED
      BY <1>2, <2>3, <3>2, BatchIsFront
  <2> QED
    BY <2>2, <2>3
<1>3. LineInv /\ [RetryNext]_retryVars => [\A k \in due : Served(k)]_retryVars
  BY <1>2
<1> QED
  BY <1>1, <1>3, LineStep, PTL DEF RetrySafety, FirstComeFirstServed
=============================================================================
