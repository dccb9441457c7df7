---------------------------- MODULE DiskActivity ----------------------------
(***************************************************************************)
(* A node's disk streams and the two counters that tell the other node's   *)
(* retry worker how busy it is.  Writers come out of the throttle and open *)
(* a file, downloads open one at once; /metrics/disk answers with the      *)
(* counters, and the worker sends its batch only if they are low.          *)
(*                                                                         *)
(* The counters are kept apart from the streams they count: one goes up    *)
(* where a stream is created, down in the stream's event.                  *)
(***************************************************************************)
EXTENDS DirtyPageThrottle, FiniteSets

CONSTANTS MaxWrites, MaxReads, MaxIO,  \* SECONDARY_MAX_CONCURRENT_DISK_*
          MaxDownloads                 \* bound on the downloads at a time

ASSUME DiskAssumption ==
  /\ MaxWrites \in Nat \ {0} /\ MaxReads \in Nat \ {0} /\ MaxIO \in Nat \ {0}
  /\ MaxDownloads \in Nat
  /\ IsFiniteSet(Writers)

VARIABLES
  writing,           \* the writers whose write stream exists
  downloads,         \* the read streams that exist
  activeDiskWrites,  \* _activeDiskWrites
  activeDiskReads,   \* _activeDiskReads
  check,             \* where the worker's poll is
  metrics,           \* what /metrics/disk has answered
  calm               \* history: the streams were few at some time since the
                     \* poll began

streamVars == <<writing, downloads, activeDiskWrites, activeDiskReads>>
pollVars   == <<check, metrics>>
diskVars   == <<vars, streamVars, pollVars, calm>>

NoMetrics == [writes |-> 0, reads |-> 0]

\* isIdle, of the counters the worker was answered or of the streams.
IsIdle(writes, reads) ==
  /\ writes < MaxWrites
  /\ reads < MaxReads
  /\ reads + writes < MaxIO

\* Of the streams that are counted, in the code as here: saveStreamToStorage's
\* and getFileStream's.  Those of an ETag (generateETag), of multipart parts
\* and merges and of the tus server are open without being counted.
FewStreams == IsIdle(Cardinality(writing), downloads)

DiskInit ==
  /\ Init
  /\ writing = {}
  /\ downloads = 0
  /\ activeDiskWrites = 0
  /\ activeDiskReads = 0
  /\ check = "off"
  /\ metrics = NoMetrics
  /\ calm = FALSE

---------------------------------------------------------------------------
(* Streams *)

\* saveStreamToStorage after throttle and mkdir.
OpenWrite(w) ==
  /\ pc[w] = "passed" /\ w \notin writing
  /\ writing' = writing \cup {w}
  /\ activeDiskWrites' = activeDiskWrites + 1
  /\ UNCHANGED <<vars, downloads, activeDiskReads, pollVars>>

\* mkdir throws: no stream, no count.
MkdirFails(w) ==
  /\ w \notin writing
  /\ Leave(w)
  /\ UNCHANGED <<streamVars, pollVars>>

\* The stream emits "close" whether it has finished or was destroyed.
WriteEnds(w) ==
  /\ w \in writing
  /\ writing' = writing \ {w}
  /\ activeDiskWrites' = activeDiskWrites - 1
  /\ Leave(w)
  /\ UNCHANGED <<downloads, activeDiskReads, pollVars>>

\* getFileStream of a file that exists.
OpenRead ==
  /\ downloads' = downloads + 1
  /\ activeDiskReads' = activeDiskReads + 1
  /\ UNCHANGED <<vars, writing, activeDiskWrites, pollVars>>

\* The route of a download; a URL that is refused and a file that is missing
\* open no stream.
Download == downloads < MaxDownloads /\ OpenRead

\* A slip: a download that breaks off is not counted down ("end" instead of
\* finished).
ReadEndsUncounted ==
  /\ downloads > 0
  /\ downloads' = downloads - 1
  /\ activeDiskReads' \in {activeDiskReads, activeDiskReads - 1} \cap 0 .. MaxIO
  /\ UNCHANGED <<vars, writing, activeDiskWrites, pollVars>>

\* finished calls back at the end, on an error and when the reader is gone.
ReadEnds ==
  /\ downloads > 0
  /\ downloads' = downloads - 1
  /\ activeDiskReads' = activeDiskReads - 1
  /\ UNCHANGED <<vars, writing, activeDiskWrites, pollVars>>

---------------------------------------------------------------------------
(* The worker's poll on the other node *)

PollBegins ==
  /\ check = "off"
  /\ check' = "health"
  /\ UNCHANGED <<vars, streamVars, metrics>>

Healthy ==
  /\ check = "health"
  /\ check' = "metrics"
  /\ UNCHANGED <<vars, streamVars, metrics>>

\* The node answers /metrics/disk.
Answer ==
  /\ check = "metrics"
  /\ check' = "answered"
  /\ metrics' = [writes |-> activeDiskWrites, reads |-> activeDiskReads]
  /\ UNCHANGED <<vars, streamVars>>

\* A slip: each counter is compared, their sum is not.
DecideEach ==
  /\ check = "answered"
  /\ check' = IF metrics.writes < MaxWrites /\ metrics.reads < MaxReads
              THEN "go" ELSE "off"
  /\ metrics' = NoMetrics
  /\ UNCHANGED <<vars, streamVars>>

DecidePoll ==
  /\ check = "answered"
  /\ check' = IF IsIdle(metrics.writes, metrics.reads) THEN "go" ELSE "off"
  /\ metrics' = NoMetrics
  /\ UNCHANGED <<vars, streamVars>>

\* No answer in time, an error status, no connection: the poll is skipped.
PollFails ==
  /\ check \in {"health", "metrics", "answered"}
  /\ check' = "off"
  /\ metrics' = NoMetrics
  /\ UNCHANGED <<vars, streamVars>>

\* The batch has been dealt with (ObjectReplication).
PollEnds ==
  /\ check = "go"
  /\ check' = "off"
  /\ UNCHANGED <<vars, streamVars, metrics>>

---------------------------------------------------------------------------
\* The history follows every step.
Watched == calm' = (check' # "off" /\ (calm \/ FewStreams'))

ThrottleStep ==
  /\ \/ \E w \in Writers :
          \/ ArriveCached(w) \/ ArriveStale(w) \/ Read(w) \/ FillCache(w)
          \/ WaitRead(w) \/ TimeOut(w)
     \/ Tick \/ DirtyChanges
  /\ UNCHANGED <<streamVars, pollVars>>

DiskNext ==
  /\ \/ ThrottleStep
     \/ \E w \in Writers : OpenWrite(w) \/ MkdirFails(w) \/ WriteEnds(w)
     \/ Download \/ ReadEnds
     \/ PollBegins \/ Healthy \/ Answer \/ DecidePoll \/ PollFails \/ PollEnds
  /\ Watched

DiskSpec == DiskInit /\ [][DiskNext]_diskVars

(***************************************************************************)
(* Streams that were opened end.  The worker's timer fires again and again *)
(* and its awaits end; among its checks some are answered in time.         *)
(***************************************************************************)
WriterStep(w) == WriterGoesOn(w) /\ UNCHANGED <<streamVars, pollVars>> /\ Watched
PollStep      == (PollBegins \/ Healthy \/ DecidePoll \/ PollEnds) /\ Watched

FairDiskSpec ==
  /\ DiskSpec
  /\ \A w \in Writers : WF_diskVars(WriterStep(w))
  /\ WF_diskVars(PollStep)
  /\ SF_diskVars(Healthy /\ Watched)
  /\ SF_diskVars(Answer /\ Watched)
  /\ SF_diskVars(DecidePoll /\ Watched)

---------------------------------------------------------------------------
(***************************************************************************)
(* The worker sends its batch only if, at some time since its poll began,  *)
(* the other node had few streams open: neither the way of the answer nor  *)
(* the events of broken streams make it believe in a quiet that was not.   *)
(* (What waits in the throttle is no stream, and counts for nothing.)      *)
(***************************************************************************)
PollOnIdleNode == check = "go" => calm

(***************************************************************************)
(* A node whose streams have ended is found idle again: no order of        *)
(* openings, ends and breaks leaves a count behind that would stop the     *)
(* retries to it for ever.                                                 *)
(***************************************************************************)
QuietNodeIsPolled ==
  <>[](writing = {} /\ downloads = 0) => []<>(check = "go")
=============================================================================
