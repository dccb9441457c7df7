-------------------------- MODULE ReplicationQueue --------------------------
(***************************************************************************)
(* The table replication_queue of a storage node (SQLite) and the          *)
(* statements that change it.  A row is a replication task of one object;  *)
(* an object is named by (bucket, objectKey), here one member of Keys.     *)
(*                                                                         *)
(* nextRetryAt is kept as what the code asks of it: which RETRYABLE rows   *)
(* have reached it ("due", nextRetryAt <= now) and which of those have an  *)
(* earlier one ("ahead").  A row becomes due when the clock passes its     *)
(* nextRetryAt, so the rows that are due already are ahead of it; the      *)
(* same holds of a row that is registered with nextRetryAt = now.          *)
(***************************************************************************)
EXTENDS Naturals, FiniteSets

CONSTANTS Keys,       \* the objects, each a (bucket, objectKey)
          MaxRetry,   \* MAX_RETRY: failures after which a row is given up
          BatchSize   \* RETRY_WORKER_BATCH_SIZE

ASSUME QueueAssumption == /\ IsFiniteSet(Keys)
                          /\ MaxRetry \in Nat \ {0}
                          /\ BatchSize \in Nat \ {0}

VARIABLES queue,   \* the table: the row of every object, NoRow where there is none
          due,     \* the RETRYABLE rows whose nextRetryAt has passed
          ahead    \* of a due row, the due rows with an earlier nextRetryAt

queueVars == <<queue, due, ahead>>

Row == [status : {"NONE", "RETRYABLE", "FAILED_PERM"}, retryCount : Nat]

NoRow    == [status |-> "NONE", retryCount |-> 0]
FirstTry == [status |-> "RETRYABLE", retryCount |-> 0]

HasRow(k) == queue[k].status # "NONE"

QueueInit == /\ queue = [k \in Keys |-> NoRow]
             /\ due = {}
             /\ ahead = [k \in Keys |-> {}]

\* Slips of the CASE: another name for the status; the count of the row that
\* was to be inserted (excluded.retryCount) instead of that of the row; equal
\* to MAX_RETRY instead of at least.
OneMoreFailureRenamed(row) ==
  [status     |-> IF row.retryCount + 1 >= MaxRetry THEN "FAILED"
                                                    ELSE "RETRYABLE",
   retryCount |-> row.retryCount + 1]

OneMoreFailureExcluded(row) ==
  [status     |-> IF MaxRetry <= 1 THEN "FAILED_PERM" ELSE "RETRYABLE",
   retryCount |-> 1]

OneMoreFailureExact(row) ==
  [status     |-> IF row.retryCount + 1 = MaxRetry THEN "FAILED_PERM"
                                                   ELSE "RETRYABLE",
   retryCount |-> row.retryCount + 1]

(***************************************************************************)
(* One more failure on a row: the CASE of upsertStmt and of                *)
(* updateOnRetryFailureStmt.                                               *)
(***************************************************************************)
OneMoreFailure(row) ==
  [status     |-> IF row.retryCount + 1 >= MaxRetry THEN "FAILED_PERM"
                                                    ELSE "RETRYABLE",
   retryCount |-> row.retryCount + 1]

\* nextRetryAt = now: k is due, behind every row that was due before it.
JoinLine(k) ==
  /\ due' = due \cup {k}
  /\ ahead' = [j \in Keys |-> IF j = k THEN due \ {k} ELSE ahead[j] \ {k}]

\* nextRetryAt in the future, or no row: k is not due.
LeaveLine(k) ==
  /\ due' = due \ {k}
  /\ ahead' = [j \in Keys |-> IF j = k THEN {} ELSE ahead[j] \ {k}]

\* Slips of the statements: a registration with nextRetryAt = 0, to be served
\* first; a failure that drops the row that has no tries left; no ORDER BY.
RegisterInFront(k) ==
  /\ queue' = [queue EXCEPT ![k] = FirstTry]
  /\ due' = due \cup {k}
  /\ ahead' = [j \in Keys |-> IF j \in due \ {k} THEN ahead[j] \cup {k} ELSE {}]

UpsertDroppingGivenUp(k) ==
  /\ queue' = [queue EXCEPT ![k] =
                 IF ~HasRow(k) THEN FirstTry
                 ELSE IF queue[k].retryCount + 1 >= MaxRetry THEN NoRow
                 ELSE OneMoreFailure(queue[k])]
  /\ LeaveLine(k)

UnorderedBatches ==
  {B \in SUBSET due : /\ Cardinality(B) <= BatchSize
                      /\ B # due => Cardinality(B) = BatchSize}

(***************************************************************************)
(* The operations of the repository.  Each is one synchronous statement    *)
(* (two for the failures, with nothing in between), so one step.           *)
(***************************************************************************)
RegisterReplicationTask(k) ==
  /\ queue' = [queue EXCEPT ![k] = FirstTry]
  /\ JoinLine(k)

UpsertOnFailure(k) ==
  /\ queue' = [queue EXCEPT ![k] = IF HasRow(k) THEN OneMoreFailure(queue[k])
                                                ELSE FirstTry]
  /\ LeaveLine(k)

UpdateOnRetryFailure(k) ==
  /\ queue' = [queue EXCEPT ![k] = IF HasRow(k) THEN OneMoreFailure(queue[k])
                                                ELSE NoRow]
  /\ LeaveLine(k)

DeleteOnSuccess(k) ==
  /\ queue' = [queue EXCEPT ![k] = NoRow]
  /\ LeaveLine(k)

\* The batches fetchRetryBatch may return: the due rows that come first.
RetryBatches ==
  {B \in SUBSET due : /\ Cardinality(B) <= BatchSize
                      /\ B # due => Cardinality(B) = BatchSize
                      /\ \A k \in B : ahead[k] \subseteq B}

\* The clock passes the nextRetryAt that calcNextRetryTime gave the row of k.
BecomeDue(k) ==
  /\ queue[k].status = "RETRYABLE"
  /\ k \notin due
  /\ JoinLine(k)
  /\ UNCHANGED queue

QueueTypeOK == /\ queue \in [Keys -> Row]
               /\ due \subseteq Keys
               /\ ahead \in [Keys -> SUBSET Keys]

=============================================================================
