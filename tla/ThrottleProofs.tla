--------------------------- MODULE ThrottleProofs ---------------------------
(***************************************************************************)
(* The throttle and the disk streams behind it, for any writers, sizes,    *)
(* limits and speed of the clock: the throttle keeps its types and its     *)
(* freshness, alone and with the streams, and the worker's poll is right   *)
(* about the node it asks.                                                 *)
(***************************************************************************)
EXTENDS DiskActivity, FiniteSetTheorems, TLAPS

LEMMA TypedStep == TypeOK /\ [Next]_vars => TypeOK'
<1> SUFFICES ASSUME TypeOK, [Next]_vars PROVE TypeOK'
  OBVIOUS
<1> USE ThrottleAssumption DEF TypeOK, Value, Reading
<1>1. ASSUME NEW w \in Writers, ArriveCached(w) PROVE TypeOK'
  BY <1>1 DEF ArriveCached, Decide
<1>2. ASSUME NEW w \in Writers, ArriveStale(w) PROVE TypeOK'
  BY <1>2 DEF ArriveStale
<1>3. ASSUME NEW w \in Writers, Read(w) PROVE TypeOK'
  BY <1>3 DEF Read
<1>4. ASSUME NEW w \in Writers, FillCache(w) PROVE TypeOK'
  BY <1>4 DEF FillCache, Decide
<1>5. ASSUME NEW w \in Writers, WaitRead(w) PROVE TypeOK'
  BY <1>5 DEF WaitRead
<1>6. ASSUME NEW w \in Writers, TimeOut(w) \/ Leave(w) PROVE TypeOK'
  BY <1>6 DEF TimeOut, Leave
<1>7. CASE Tick \/ DirtyChanges
  BY <1>7 DEF Tick, DirtyChanges
<1>8. CASE UNCHANGED vars
  BY <1>8 DEF vars
<1> QED
  BY <1>1, <1>2, <1>3, <1>4, <1>5, <1>6, <1>7, <1>8 DEF Next

(***************************************************************************)
(* Every variable of the throttle keeps its type.                          *)
(***************************************************************************)
THEOREM TypeCorrect == Spec => []TypeOK
<1>1. Init => TypeOK
  BY ThrottleAssumption DEF Init, TypeOK, Value
<1> QED
  BY <1>1, TypedStep, PTL DEF Spec

---------------------------------------------------------------------------
(***************************************************************************)
(* A low value, in the cache or on its way into it, was read no earlier    *)
(* than its stamp: that is what makes a cached answer fresh.               *)
(***************************************************************************)
LowSeen ==
  /\ lastLow <= now
  /\ dirty < Limit => lastLow = now
  /\ ~Exceeds(cache.value) => cache.lastUpdated <= lastLow
  /\ \A w \in Writers :
       /\ arrival[w] <= now
       /\ pc[w] = "read" /\ ~Exceeds(got[w]) => arrival[w] <= lastLow

FreshInv == TypeOK /\ LowSeen

\* What a read returns below the limit is the kernel's value.
LEMMA LowReading ==
  ASSUME TypeOK, NEW v \in Reading, ~Exceeds(v)
  PROVE  dirty < Limit
BY ThrottleAssumption DEF TypeOK, Reading, Exceeds

LEMMA FreshStep == FreshInv /\ [Next]_vars => FreshInv'
<1> SUFFICES ASSUME FreshInv, [Next]_vars PROVE LowSeen'
  BY TypedStep DEF FreshInv
<1> USE ThrottleAssumption DEF FreshInv, TypeOK, LowSeen
<1>1. ASSUME NEW w \in Writers, ArriveCached(w) \/ ArriveStale(w)
      PROVE  LowSeen'
  BY <1>1 DEF ArriveCached, ArriveStale, Decide
<1>2. ASSUME NEW w \in Writers, Read(w) PROVE LowSeen'
  <2>1. PICK v \in Reading : got' = [got EXCEPT ![w] = v]
    BY <1>2 DEF Read
  <2>2. ~Exceeds(v) => lastLow = now
    BY LowReading, <2>1
  <2> QED
    BY <1>2, <2>1, <2>2 DEF Read
<1>3. ASSUME NEW w \in Writers, FillCache(w) PROVE LowSeen'
  BY <1>3 DEF FillCache, Decide
<1>4. ASSUME NEW w \in Writers, WaitRead(w) \/ TimeOut(w) \/ Leave(w)
      PROVE  LowSeen'
  BY <1>4 DEF WaitRead, TimeOut, Leave
<1>5. CASE Tick
  BY <1>5 DEF Tick
<1>6. CASE DirtyChanges
  BY <1>6 DEF DirtyChanges
<1>7. CASE UNCHANGED vars
  BY <1>7 DEF vars
<1> QED
  BY <1>1, <1>2, <1>3, <1>4, <1>5, <1>6, <1>7 DEF Next

(***************************************************************************)
(* dirtyPageThrottler.ts: a writer let through before its time is out had  *)
(* a size below the limit less than POLL_INTERVAL_MS before its call, in   *)
(* whatever order concurrent refreshes of the cache end.                   *)
(***************************************************************************)
THEOREM AdmissionIsFresh == Spec => AdmittedOnFreshSize
<1> DEFINE Passes(w) == /\ pc[w] # "passed" /\ pc'[w] = "passed"
                        /\ ~(pc[w] = "waiting" /\ attempts[w] = MaxAttempts)
<1>1. Init => FreshInv
  BY ThrottleAssumption DEF Init, FreshInv, TypeOK, Value, LowSeen
<1>2. FreshInv /\ [Next]_vars =>
        [\A w \in Writers : Passes(w) =>
           lastLow + PollInterval > arrival'[w]]_vars
  <2> SUFFICES ASSUME FreshInv, Next, NEW w \in Writers, Passes(w)
               PROVE  lastLow + PollInterval > arrival'[w]
    OBVIOUS
  <2> USE ThrottleAssumption DEF FreshInv, TypeOK, LowSeen
  <2>1. ArriveCached(w) \/ FillCache(w) \/ WaitRead(w)
    BY DEF Next, ArriveStale, Read, TimeOut, Leave, Tick, DirtyChanges,
       ArriveCached, FillCache, WaitRead, Decide
  <2>2. CASE ArriveCached(w)
    BY <2>2 DEF ArriveCached, Decide, Stale
  <2>3. CASE FillCache(w)
    BY <2>3 DEF FillCache, Decide
  <2>4. CASE WaitRead(w)
    <3>1. PICK v \in Reading :
            /\ got' = [got EXCEPT ![w] = v]
            /\ pc' = [pc EXCEPT ![w] = IF Exceeds(v) THEN "waiting"
                                                      ELSE "passed"]
      BY <2>4 DEF WaitRead
    <3>2. ~Exceeds(v)
      BY <3>1
    <3> QED
      BY <2>4, <3>2, LowReading DEF WaitRead
  <2> QED
    BY <2>1, <2>2, <2>3, <2>4
<1> QED
  BY <1>1, <1>2, FreshStep, PTL DEF Spec, AdmittedOnFreshSize

---------------------------------------------------------------------------
(***************************************************************************)
(* The streams leave the throttle alone: with them it is still the same.   *)
(***************************************************************************)
THEOREM StreamsKeepThrottle == DiskSpec => Spec
<1>1. DiskInit => Init
  BY DEF DiskInit
<1>2. [DiskNext]_diskVars => [Next]_vars
  BY DEF DiskNext, ThrottleStep, Next, OpenWrite, MkdirFails, WriteEnds,
     Download, OpenRead, ReadEnds, PollBegins, Healthy, Answer, DecidePoll, PollFails,
     PollEnds, diskVars
<1> QED
  BY <1>1, <1>2, PTL DEF DiskSpec, Spec

(***************************************************************************)
(* A poll goes ahead on what the counters were at its request, so they     *)
(* have to be the numbers of streams then; an answer that is on its way    *)
(* speaks of a time since the poll began.                                  *)
(***************************************************************************)
CountersExact ==
  /\ writing \in SUBSET Writers
  /\ downloads \in Nat
  /\ activeDiskWrites = Cardinality(writing)
  /\ activeDiskReads = downloads

PollInv ==
  /\ CountersExact
  /\ calm \in BOOLEAN
  /\ check = "answered" /\ IsIdle(metrics.writes, metrics.reads) => calm
  /\ PollOnIdleNode

LEMMA CountersStep == CountersExact /\ [DiskNext]_diskVars => CountersExact'
<1> SUFFICES ASSUME CountersExact, [DiskNext]_diskVars PROVE CountersExact'
  OBVIOUS
<1> USE DEF CountersExact
<1>1. IsFiniteSet(writing)
  BY DiskAssumption, FS_Subset
<1>2. ASSUME NEW w \in Writers, OpenWrite(w) PROVE CountersExact'
  BY <1>1, <1>2, FS_AddElement DEF OpenWrite
<1>3. ASSUME NEW w \in Writers, WriteEnds(w) PROVE CountersExact'
  BY <1>1, <1>3, FS_RemoveElement DEF WriteEnds
<1>4. CASE Download \/ ReadEnds
  BY <1>4 DEF Download, OpenRead, ReadEnds
<1>5. ASSUME UNCHANGED streamVars PROVE CountersExact'
  BY <1>5 DEF streamVars
<1> QED
  BY <1>2, <1>3, <1>4, <1>5 DEF DiskNext, ThrottleStep, MkdirFails, PollBegins,
     Healthy, Answer, DecidePoll, PollFails, PollEnds, diskVars, streamVars

LEMMA PollStepSafe == PollInv /\ [DiskNext]_diskVars => PollInv'
<1> SUFFICES ASSUME PollInv, [DiskNext]_diskVars PROVE PollInv'
  OBVIOUS
<1>1. CountersExact'
  BY CountersStep DEF PollInv
<1>2. CASE UNCHANGED diskVars
  BY <1>1, <1>2 DEF PollInv, PollOnIdleNode, diskVars, pollVars, IsIdle
<1>3. CASE DiskNext
  <2>1. calm' = (check' # "off" /\ (calm \/ FewStreams'))
    BY <1>3 DEF DiskNext, Watched
  <2>2. calm' \in BOOLEAN
    BY <2>1
  <2>3. calm /\ check' # "off" => calm'
    BY <2>1
  <2>4. ASSUME Answer PROVE PollInv'
    <3>1. /\ metrics'.writes = Cardinality(writing')
          /\ metrics'.reads = downloads'
          /\ check' = "answered"
      BY <1>1, <2>4 DEF Answer, PollInv, CountersExact, streamVars
    <3>2. IsIdle(metrics.writes, metrics.reads)' => FewStreams'
      BY <3>1 DEF FewStreams, IsIdle
    <3> QED
      BY <1>1, <2>1, <2>2, <3>1, <3>2 DEF PollInv, PollOnIdleNode
  <2>5. ASSUME DecidePoll PROVE PollInv'
    BY <1>1, <2>2, <2>3, <2>5 DEF PollInv, PollOnIdleNode, DecidePoll
  <2>6. ASSUME PollBegins \/ Healthy \/ PollFails \/ PollEnds PROVE PollInv'
    BY <1>1, <2>2, <2>6
       DEF PollInv, PollOnIdleNode, PollBegins, Healthy, PollFails, PollEnds
  <2>7. ASSUME UNCHANGED pollVars PROVE PollInv'
    BY <1>1, <2>2, <2>3, <2>7 DEF PollInv, PollOnIdleNode, pollVars, IsIdle
  <2> QED
    BY <1>3, <2>4, <2>5, <2>6, <2>7
       DEF DiskNext, ThrottleStep, OpenWrite, MkdirFails, WriteEnds, Download,
           OpenRead, ReadEnds
<1> QED
  BY <1>2, <1>3

LEMMA CountersInit == DiskInit => CountersExact
<1>1. Cardinality({}) = 0
  BY FS_EmptySet
<1> QED
  BY <1>1 DEF DiskInit, CountersExact

(***************************************************************************)
(* fileStorage.ts: each counter is the number of its open streams, however *)
(* they end: a node with none looks idle, and no poll is turned away by a  *)
(* count that was left behind (the safe half of QuietNodeIsPolled).        *)
(***************************************************************************)
THEOREM CountersAreExact == DiskSpec => []CountersExact
BY CountersInit, CountersStep, PTL DEF DiskSpec

(***************************************************************************)
(* fileStorage.ts, replicationWorker.ts: a batch is only sent to a node    *)
(* that had few streams open at some time since the poll began, for any    *)
(* limits and any number of writers and downloads.                         *)
(***************************************************************************)
THEOREM PollsAreRight == DiskSpec => []PollOnIdleNode
<1>1. DiskInit => PollInv
  <2>1. DiskInit => calm \in BOOLEAN /\ check # "answered" /\ PollOnIdleNode
    BY DEF DiskInit, PollOnIdleNode
  <2> QED
    BY <2>1, CountersInit DEF PollInv
<1>2. PollInv => PollOnIdleNode
  BY DEF PollInv
<1> QED
  BY <1>1, <1>2, PollStepSafe, PTL DEF DiskSpec
=============================================================================
