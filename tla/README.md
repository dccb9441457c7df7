# TLA+ specifications of the object storage

The repository is a small object storage: a Spring *control plane* that keeps users, buckets and object
metadata and issues presigned URLs, and Fastify *storage nodes* that keep the objects as files. A storage
node runs as primary (clients upload to it) or as secondary (it receives copies). What is hard in it is not
any single handler but what happens between two `await`s: a copy is sent from a file that is being
rewritten, a timeout leaves a request behind, a session disappears under a merge, a restart falls between an
acknowledgement and the row that was to remember it. The modules here are about that.

Paths below are relative to `src/storage-node/src` unless they say otherwise.

## 1. Inventory

| part | state | operations | talks to |
|---|---|---|---|
| replication queue (`repository/replicationQueue.ts`, `db/schema.ts`) | table `replication_queue` in SQLite: one row per object with `retryCount`, `nextRetryAt`, `status` | register, upsertOnFailure, fetchBatch, deleteOnSuccess, updateOnRetryFailure | called by uploads and by the worker |
| retry worker (`services/replication/replicationWorker.ts`) | flag `isWorking`, the fetched batch | poll (timer), idle check, send each row, settle it | queue, sender, metrics of the secondary |
| sender (`services/replication/replicateToSecondary.ts`) | none; an `AbortController` per request | stream a file to the secondary, with timeout | file system, receiver |
| receiver (`services/replication/receiveReplication.ts`, `routes/replications.ts`) | the replica's files | throttle, open, write, answer | throttle, file system |
| direct upload (`services/objects/objectService.ts`, `routes/objects.ts`) | the object's file | PUT: write in place, then register | queue |
| multipart upload (`services/multipart`, `services/storage/multipartStorage.ts`) | session map in memory, part files | initiate, PUT part, complete, abort, sweep | file system, queue |
| resumable upload (`tus/`, `routes/resumable.ts`, `plugins/tus.ts`) | table `tus_uploads`, the object's file | POST, PATCH, HEAD, DELETE, completion, clean-up | tus server (library), sender, queue |
| dirty-page throttle (`services/storage/dirtyPageThrottler.ts`) | a cached size | wait until the kernel's dirty pages are few | `/proc/meminfo` |
| download (`services/objects/objectService.ts`, `services/storage/fileStorage.ts`) | its read stream | check the URL, find the file, stream it | file system |
| disk metrics (`routes/metrics.ts`, the counters of `fileStorage.ts`) | `_activeDiskWrites`, `_activeDiskReads` | count a stream up and down, answer `/metrics/disk` | asked by the *other* node's worker (`isSecondaryNodeIdle`) |
| presigned URLs (`services/validation`; `PresignedUrlService.java` of the control plane) | none; a clock on each side | sign the parts of a URL; read them back, check expiry and signature | first step of direct and resumable uploads and of downloads |
| control plane (`src/control-plane`) | relational tables | CRUD of users and buckets, issue presigned URLs | only through the URLs it issues |

How they interact: every upload path writes the *same* file `uploads/<bucket>/<key>`, and owes the object a
copy. Direct and multipart uploads register a row and let the worker send the copy; a resumable upload sends
it at once and writes a row only when that fails. The worker streams the file as it is when it reads it. The
secondary writes what it receives in place, into the file of the same name, also when several requests for
the object are there at once. The row is keyed by the object, not by the upload, and so is the session of a
resumable upload.

What makes each part correct:

* queue: a row the worker works on does not vanish under it; a row that keeps failing is given up in the end, and
  only a registration brings it back; no due row starves.
* replication as a whole: an acknowledged upload is never forgotten; a row is removed only when the copy was
  made; what the replica holds after a success is something the request has really read.
* multipart: one complete at a time; the object changes in one step; a success means the whole object, unless parts
  were lost before, to an expiry or to a removal that failed half way; a failure gives the session back; what was
  published is queued or can be; nothing is left behind by what was completed or aborted in time.
* presigned URLs: what one side issues the other lets in, for as long as was promised and not much longer.
* resumable sessions: usable until they expire, never longer than the URL they come from, then cleaned up.
* throttle: no admission on a stale size, no endless wait.
* disk metrics: a node that looks idle has few streams of direct uploads, replicas and downloads, which are the
  counted ones (`saveStreamToStorage`, `getFileStream`), and one that has become quiet looks so again. ETags,
  multipart parts and merges and the tus server use the disk uncounted, and nothing is claimed of them.

The hazards behind these are listed one by one, with their lines, in `PROJECT.json`.

## 2. Modules

| module | what it models | checked by | proved in |
|---|---|---|---|
| `ReplicationQueue` | the table and its five statements, as operators both specifications below use | | |
| `RetryQueue` | abstract: what the queue promises to any callers, with one worker | `retry_queue` | `RetryQueueProofs` |
| `ObjectReplication` | detailed: three upload paths, worker, sender, receiver, restarts; implements `RetryQueue` | `replication_*`, `lost_reupload`, `abandoned_request` | `ReplicationTypeProofs`, `ReplicationProofs`, `ReplicationRefinement` |
| `ReplicationInvariant` | the inductive invariant of `ObjectReplication`, part by part | `replication_paths` (`CopiesExplained`) | `ReplicationProofs` |
| `AtomicUpload` | abstract: a multipart upload as its client sees it | `multipart_patient` | `MultipartRefinement` |
| `MultipartUpload` | one upload id: initiation, session, part files, all requests, the task; implements `AtomicUpload` for a patient client | `multipart_*` | `MultipartProofs`, `MultipartRefinement` |
| `PresignedUrl` | issue and validation of URLs, as operators | through `ResumableSession` | `SessionProofs` |
| `ResumableSession` | an upload from its URL to the deletion of its session row | `resumable_session`, `session_reupload` | `SessionProofs` |
| `DirtyPageThrottle` | the shared cache and the waiting loop | through `DiskActivity` | `ThrottleProofs` |
| `DiskActivity` | composes the throttle with the streams behind it, the counters and the worker's idle check | `throttle`, `throttle_unreadable` | `ThrottleProofs` |
| `MC*` | instances for TLC | | |

Definitions named as a slip (`PollStartUnguarded`, `CompleteStartUnguarded`, ...) are not part of any
specification: each is one plausible bug in the code, kept beside the definition it would replace. With
the slip in its place TLC finds the property of the run violated, which shows that the property sees the code.

### ReplicationQueue and RetryQueue

A row is a record of status and `retryCount`. `nextRetryAt` is kept as what the statements ask of it: the set
`due` of retryable rows whose time has come, and for each of them the rows `ahead` of it in the order of
`fetchBatchStmt`. The length of the back-off is left out, so that any delay is allowed. `RetryBatches` is
every answer `fetchBatchStmt` may give: at most `BatchSize` due rows, none of them overtaking another.
`RetryQueue` adds a worker that settles a batch row by row and uploads that register at any time. `MaxCount`
caps what a row may count when failures are reported for ever; it is a bound of the instance, and `NoBound` is
the queue without it, which `ObjectReplication` implements.

### ObjectReplication

State and code: `disk` and `replica` are the files of the two nodes; a content is the upload that wrote it
whole, `Torn` or `Absent`. `stage[u]` is where the handler of an upload is between two awaits. `rivals[u]`
are the uploads whose bytes may be in the file as well, since two uploads may write one file at once.
`isWorking`, `pc`, `batch`, `current` are the worker. `req` are the requests of the secondary and of whoever
waits for them: a request keeps in `body` what the primary's file held while it was being read, and, at the
receiver, what other writers of the replica may have added.

The two ends of a request are independent. `SendFail` stands for timeout, refused connection, error status
and lost answer alike; the other end may never have had the request (`arrived = FALSE`), may be waiting in
the throttle (`cut`), or may have the file open. The replica is truncated when a request *opens* it, also by
one whose sender is gone (`RecvOpenCut`); a chunk of one request may hit a file that another has just
completed (`RecvWrite`). `Restart` is that of the primary: files and tables stay, everything in memory goes,
and a resumable upload can be resumed. A restart of the secondary is the failure of all its requests.
`SendOkRowKept`, `SendFailRowKept` and `SendMissingRowKept` are database errors of the two settling statements; the
first is caught inside the loop, the others leave it: after a request that failed, or after `getFileStream` found
no file, when there is no request at all.

### MultipartUpload and AtomicUpload

One upload id; ids are random and never reused, so that uploads meet only in the sweep and in the object.
`start` is the initiation (the directory is made before the session is set), `session` the entry of the map,
`part`, `temp` and `dir` the files, `put`, `comp` and `rm` the handlers, `task` the row the route registers after
the service has removed parts and session. A removal lists the directory, unlinks the files it has seen one by
one, and fails with ENOTEMPTY when a PUT has put another into it meanwhile, or by an error of its own
(`RmThrows`, `rm` = `"stuck"`). `getActiveSession` is `Active` and, when it throws, `ActiveSessionMissed`, which
deletes an expired entry; only a session that is in the map expires. After a restart the map is empty and the id
still known to its client (`start` = `"lost"`). `Patient` says that the client waits for an answer before its next
request.

`AtomicUpload` is what the client may then believe: parts are stored, the object becomes all of them in one
step, and once the upload is closed nothing changes but that the task is registered, once, for the whole object.
What the whole object is, is said by a predicate (`IsWhole`: the stored parts, each once, in ascending order) and
not by the loop of the merge, so that the code's sort and its appending are checked against something else.
Two events weaken it, and it says by how much. Once a removal has failed half way (`damaged`), which can happen only
to an upload that is published, aborted or expired, the object may be made of some of the stored parts (`IsMadeOf`:
each as last stored, in ascending order). Once the upload has `expired` the same holds, and what was under way is
still carried out although the upload is closed. A restart only closes the upload.
The refinement maps `open` to "the initiation is not over, or there is a session", `damaged` to a removal that is
stuck, `aborted` to a removal the client's abort has started, and the other variables to themselves. It does not
hold of a client whose requests overlap (section 6, `MultipartAbort.cfg`).

`UnqueuedIsRetryable` is about the gap between the rename and the task. One fault in it cannot be retried:
`RegisterFails` is an error of the registration itself (`routes/multipart.ts:75`), which comes when session and parts
are gone; the client gets an error and nothing is left to retry. The property names that case (`"unqueued"`) and says
that there is no other, but for an abort, an expiry and a restart, which take the session away.

### PresignedUrl and ResumableSession

The control plane's part and the node's part of a URL are operators over one record; the signature is an
injective function of what is signed, as HMAC-SHA256 is for all purposes here. The clock ticks in fractions of a
second (`Second` ticks each), since the two services round it down, in `PresignedUrlService.java` when a URL is
issued and in `crypto.ts:82` when it is checked, while the session store compares milliseconds
(`TusSessionStore.ts:85`) and the clean-up seconds again. `InQuery` is the key a node reads where the control
plane has written it into the query unencoded (a '+' becomes a space); `InPath` is the key it reads in the path
of a session.

One object, whose uploads share one row: `row` is its `expires_at`. An upload gets a URL (`Issue`), which is of
the resumable kind from a size on, and sends it with its POST, more than once if it likes, also after a creation
that failed. `TusSessionStore` writes the URL's expiry *before* the tus server is asked, `SqliteConfigstore`
the length after it; a row the latter has to insert has no expiry (`Null`). The tus server is a library, modelled
where it calls into this code: it creates the file, then stores the configuration, and emits the completion
event with the last chunk. A restart begins with a clean-up, as the plugin does, and the timer runs another a day
(`Day` seconds) after the last or later; `swept` remembers when. An expiry is stored as text, and the clean-up compares
the text of `toDatetime` with that of SQLite's `datetime('now')`: a `Datetime` is a record of day, separator and
second of the day, compared as texts are (`Before`), so that a separator other than SQLite's blank would show.

### DirtyPageThrottle and DiskActivity

`cache` is shared; every writer that finds it stale reads on its own (`ArriveStale`, `Read`, `FillCache`), and
the stamp is the time before the read. A writer above the limit reads past the cache until it passes or has
used up its attempts. The clock does not drive the waiting loop, so any speed of it is allowed.

`DiskActivity` extends it by what comes after: a writer that has passed creates a stream (or fails at mkdir), a
download creates one at once, and each is counted up where it is created and down in its event. `check` is one
poll of the other node's worker: health, `/metrics/disk`, comparison. The answer is sampled at one time and
compared at a later one, with streams opening and ending in between; `calm` remembers whether they were few at
some time since the poll began.

## 3. Runs

| run | bounds | why they are enough |
|---|---|---|
| `retry_queue` | 3 objects, batch 2, MAX_RETRY 2, one fault | one object more than fits a batch, so that order and starvation matter; a row fails, is given up, comes back |
| `replication_paths` | one upload of each path to one object, 2 polls, 2 requests, one fault | every pair of paths meets in the file; a retry meets the request given up before it |
| `replication_two_objects` | a direct and a resumable upload of two objects, batch 2, 2 polls, 2 requests, one fault, with fairness | a batch of two rows, dropped or settled in between; the worker's flag, the fault paths and both ways into the table |
| `lost_reupload`, `abandoned_request` | the smallest instance that shows it | violations, see section 6 |
| `multipart_patient` | 3 PUTs of 2 parts, 2 completes, abort, expiry and sweep, one fault (restart, error of a removal or of the registration) | a part sent twice, a complete that fails at any step, its removal included, and is retried, an abort after either; a session that expires under any of them |
| `multipart_overlap` | 1 PUT, 2 completes, abort, sweep, expiry, one fault, all overlapping, with fairness | every pair of handlers interleaves at every await |
| `multipart_expiry` | 2 parts | violation |
| `resumable_session` | 3 uploads of one object, two sizes of which one is resumable, clock 0..6 half seconds, lifetime 1 s, days of 2 s, one restart | a URL is issued and used on either half of a second, expires, and two more follow it; every order of expiry, clean-up, repeated POST and re-upload; expiry and clean-up fall on one day and on two |
| `session_reupload` | the same, with re-uploads during a send | violation |
| `throttle` | 2 writers, two sizes, PollInterval 1, one attempt, clock up to 2; 1 download; an idle node has fewer than 2 writes, 2 reads and 2 of both; with fairness | two refreshes overlap and the cache goes stale; two writes reach one limit, a write and a download only that of the sum |
| `throttle_unreadable` | 2 writers, PollInterval 2, 2 attempts, clock up to 5 | violation |

Every `MaxFaults`, `MaxNow`, `MaxCount`, `Slots` and every set of uploads is a bound of the instance: a client
sends finitely many requests, and the runs end with all of them done. The runs of `MultipartUpload`,
`ResumableSession` and `DiskActivity` do not check for deadlock for that reason; those of the replication
do, since there the worker's timer always goes on. Polls and slots, and the uploads of `resumable_session`, are
interchangeable and reduced by symmetry in safety runs only.

What the passing runs say, in the order of importance:

* `AckedNeverForgotten`: an object acknowledged to a client has a row, or some copy of it was written; for
  resumable uploads only without a restart (see section 6).
* `RowRemovalIsBacked`: a row goes only on a success of the worker's own request for that object, and if that
  request saw one content only, the copies are then equal.
* `CopiesExplained`: when a success is on its way, the replica holds something that request has seen.
* `BatchRowsQueued`, `GivenUpForGood`: the worker's statements hit the rows they were fetched for, and a row that was
  given up comes back only with an upload of its object, although the worker may report a failure on a row that
  a resumable upload has meanwhile counted past `MAX_RETRY`.
* `ImplementsRetryQueue`: all of this implements `RetryQueue`, with the abstract batch being what the polls
  still have to settle; `FirstComeFirstServed` is the order in which that abstraction serves its rows, whoever
  registers or fails in between, `NotStarved` and `RetriesEnd` are its liveness.
* `NobodyWaitsInVain`: the worker's flag is set only while a poll is there to reset it, and whoever waits for a send
  has a request that ends. `EveryRowSettles`: so no fault or hanging request leaves the worker stuck.
* `ImplementsAtomicUpload`: no failing request, no restart and no expiry lets a patient client see part of a
  complete, and an upload that is closed stays closed. If what fails is the removal of the parts after the object
  was published (`MultipartService.ts:141`), the retry may publish an object of fewer parts, which are still stored
  ones in ascending order; that much and no more `AtomicUpload` gives away.
* `CompletedIsWhole`: a success means the whole object, with the same exceptions. `UnqueuedIsRetryable`: what is left
  of a failure. `NothingLeftBehind`: an upload completed or aborted before it expires leaves no file; one that
  expires, or that a restart forgets, may.
* `OneComplete`, `LockIsHeld`, `StatusReleased`: completes exclude each other for good, also under expiry, sweep and
  restart; `COMPLETING` is never left set without a complete that holds it, and every one of them gives it back.
* `IssuedUrlsLast`: a URL is let in for its lifetime and at most a second more, for uploads of both kinds and for
  downloads, at every pair of roundings.
* `AuthorisedUntilExpiry`: the two writers of the row, the clean-up and a restart between them never take a session
  from its upload before its time. `SessionEndsWithItsUrl`: nor do repeated POSTs and failed creations give it more
  time. `NoSessionOutlivesCleanup`: and what has an expiry goes with the first clean-up that finds it expired for a
  second, whichever of the two texts is compared with which. A row without expiry (`Null`) is beyond every clean-up.
* `AdmittedOnFreshSize`, `EveryWriterPasses` for the throttle; `PollOnIdleNode`, `QuietNodeIsPolled` for the
  counters: the worker's belief in an idle node was true, of the counted streams, at some time of its poll, and no
  order of opened, failed and broken streams leaves a count behind that would stop all retries.

### Fairness

* Worker: `PollStart` and the steps of a poll are weakly fair, since the timer fires every interval and each
  await ends, a send by the sender's timeout at the latest. `PollFetch` is strongly fair: it assumes that the
  secondary is reachable and idle infinitely often; with a secondary that is down for ever nothing settles.
* Receiver: an accepted request finishes or fails. Clock: a row's `nextRetryAt` is reached.
* Nothing is assumed of clients: an upload may stop anywhere.
* Multipart: the steps of an accepted complete go on; nothing else is fair. Of sessions only safety is claimed.
* Throttle: reads and timers of a writer go on; the dirty pages need never get fewer. The worker's timer fires and
  its awaits end; of the polls that ask, some are answered in time and compared (strong fairness of `Healthy`,
  `Answer`, `DecidePoll`), since a node that never answers is never polled, and rightly so.

## 4. Proofs

`tlapm` checks all proof modules completely. They hold for any finite set of objects, any uploads, paths, polls,
slots, parts, writers, sizes, clocks and limits, and use only the named assumptions of the modules
(`QueueAssumption`, `RetryAssumption`, `ReplicationAssumption`, `MultipartAssumption`, `ThrottleAssumption`, `DiskAssumption`,
`UrlAssumption`, `SessionAssumption`), which say that constants have their types and that special values are not
uploads, polls, parts or objects, and what a theorem itself assumes, which is said below.

* `ReplicationTypeProofs`: `Spec => []TypeOK`, one lemma per group of actions.
* `ReplicationProofs`, `Spec => []IInv`. None of the properties is inductive alone:
  * `BatchRowsQueued` needs that one poll runs at a time (`OnePoll`, from `isWorking`), that requests
    belong to the poll whose row they carry (`SenderKnown`, `OneRequestPerPoll`), and that only existing rows are
    due (`DueQueued`); otherwise another poll's success could remove the row.
  * `CopiesExplained` is about three things at once: while its sender waits a request has seen what the
    primary's file holds; once answered with success it has seen what the replica holds; and what another
    request may still write into the same replica it has seen as well. The last part carries the
    induction through `RecvFinish`, where one request writes the file under another's success.
  * `AckedNeverForgotten` needs that a row removed leaves a replica that is not absent, which is `CopiesExplained`
    for the request that was answered, together with the fact that no step ever removes a replica.
  * `BatchSafe`, `CopiesAreExplained`, `AckedSafe` follow from it; `RemovalsAreBacked` and `GivenUpStays`
    (`GivenUpForGood`) are the action properties, from the invariant in the state before the step.
  * `WaitsEnd` (`NobodyWaitsInVain`) adds to `IInv` that only resumable uploads send; it uses that a slot is taken
    by one sender at a time, so that the end of a request ends the waiting of nobody else (`EndedRequest`).
* `ReplicationRefinement`, `RefinesRetryQueue`: every step of the detailed specification is a step of `RetryQueue`
  or leaves the queue alone. The abstract batch is the union over all polls of what they have still to settle;
  `OnePoll` makes that union the batch of a single worker (`OnlyBatch`), and `SenderServes` makes the key of a settled
  request one of it.
* `RetryQueueProofs`: types; `BatchStays`, from the fact that only rows that exist are due; and `ServedInOrder`
  (`FirstComeFirstServed`), from `LineInv`: who is ahead of a row is due as well, and of two due rows one is ahead of
  the other. The rows a batch passes over are then behind all of it (`BatchIsFront`), and the statements that
  move rows only append to a line or take from it (`LineMoves`). By `RefinesRetryQueue` what
  follows from `RetrySafety` is true of the batches of `ObjectReplication` as well.
* `MultipartProofs`: types, and `CompletesExclude` from `ExclusionInv`: as long as there is a session, an active
  complete means `COMPLETING` (`StatusIsLock`); a removal runs for nobody but an active complete; once one is
  answered with success the session is gone for good; and there is none before the initiation's answer. Expiry,
  sweep and restart take the session away and never bring it back, which is why they do not break the lock.
  `LockStaysHeld` (`LockIsHeld`) and `UnqueuedSafe` (`UnqueuedIsRetryable`) are for the same requests and faults: no
  theorem of this module assumes anything of the client.
* `MultipartRefinement`: for any number of parts, PUTs, completes, faults and restarts, with expiry and sweep; the only
  assumption is `Patient`. `PatientInv` has five parts besides the lock: the client's requests take turns, while the
  sweep does not (`TurnInv`); until it expires the session says whose turn it is (`SessionInv`); a part file is
  what was last stored or gone, and none is gone before a removal unlinks it, which until the expiry has
  every file on its list (`FilesInv`); the merge has appended, in ascending order, parts before those on its
  list, all of them as long as nothing is damaged or expired (`MergeInv`, `Calm`); and a removal that failed
  before the expiry has failed by its own error (`DamageHasCause`). `MergeInv` says by sets what the loop has built, so
  that no induction over the sequence is needed: each step adds one part, and the end is `IsWhole`. From these follow
  `LeavesNothing` (`NothingLeftBehind`), `WholeObject` (`CompletedIsWhole`), `OnlyErrorsDamage` and, step by step,
  `RefinesAtomicUpload`. `Patient` is needed: without it TLC finds each of the three properties violated in
  `MultipartPatient.cfg`. What expiry and failing removals take from the promise is in the properties themselves,
  and they are false without it.
* `ThrottleProofs`: types; `AdmissionIsFresh` from `LowSeen`, by which a low value in the cache, or on its way into
  it, was read no earlier than its stamp; `StreamsKeepThrottle`, by which `DiskActivity` implements the throttle, so
  that both hold of it too; `CountersAreExact` (each counter is the number of its streams, so that none is ever
  left counted); and `PollsAreRight` from it and from what a pending answer implies for `calm`.
* `SessionProofs`: `UrlsLast`, from bounds on rounding down; types, for which one has to know that one upload at a
  time receives (`OneReceiver`) and that its file is shorter than the upload while it is open (`OpenIsShort`);
  `CleanupsSuffice` (`NoSessionOutlivesCleanup`), from which texts of times are in order when the times are;
  `SessionsEnd`, from the fact that a row's expiry is always that of an issued, resumable URL; and `AuthorisedSafe`, which
  assumes that no upload begins during a send (otherwise it is false: `session_reupload`) and that the path keeps
  the key (otherwise `SessionEncodedKey.cfg`).

Every invariant and every action property that a passing run checks is proved. Only model-checked is liveness, which
is out of the prover's reach; of most of it the safe half, that what is waited for is still there, is a theorem:

| liveness | its safe half |
|---|---|
| `EveryRowSettles`, `RetriesEnd` | `NobodyWaitsInVain`, `BatchIsQueued` |
| `NotStarved` | `FirstComeFirstServed`: nobody gets ahead of a waiting row |
| `StatusReleased` | `LockIsHeld` |
| `QuietNodeIsPolled` | `CountersExact` |
| `EveryWriterPasses` | |

## 5. Not modelled

* Control plane: users and buckets are single-row CRUD behind unique constraints, and no code of a node, nor the
  one that issues URLs, reads them; the table of objects is written by nobody. Only the issue of URLs is modelled.
* The Prometheus metrics of `/metrics`, which nothing reads; ETags and the form of answers.
* The length of the back-off, error classes and messages, HTTP statuses, and the validation of parameters that
  comes before any change of state.
* A clock for each machine: both services look at one. A skew adds to the second of `IssuedUrlsLast`.
* The random choice of upload ids; the switch that turns the throttle off.
* Two temporary files with the same millisecond in their names (`multipartStorage.ts:35`, `:101`).
* What `fetch` does with the file stream it was given when a send fails (`replicateToSecondary.ts:124`): it is taken to
  end.
* Files of other objects, disks that fill up, and a write that reports success without being durable: the code
  calls no `fsync`, and the models do not lose what a file system has acknowledged.

## 6. Where the code and its documents disagree

Each of these ends in a counterexample. The first five are runs of `PROJECT.json`; the last three have a
configuration of their own (`ResumableRestart.cfg`, `MultipartAbort.cfg`, `SessionEncodedKey.cfg`), to be run by
hand: what they contradict is a test or a headline rather than a stated contract.

* `lost_reupload`: a re-upload resets the object's row "to be retried at once" (`replicationQueue.ts:27`), but
  the success of a send that started before deletes it (`replicationWorker.ts:140`): the new content is not copied.
* `abandoned_request`: a request the sender has given up on may wait in the throttle and truncate the replica
  after its retry has succeeded and the row is gone.
* `multipart_expiry`: a session that a request finds expired (a PUT, in the trace) is deleted without its files,
  which the sweep then never finds.
* `session_reupload`: the end of a send deletes the session of the object's *next* upload. When it falls between
  POST and the tus server's own insert, the row has no expiry and is never cleaned up.
* `throttle_unreadable`: an unreadable `/proc/meminfo` is meant to disable the throttle and makes every write
  wait for 60 seconds.
* `resumable_restart`: a completed resumable upload has neither copy nor row when the node restarts during its send.
* `multipart_abort`: abort does not look at `COMPLETING`; both requests are answered with success.
* `session_encoded_key`: a session row is written under the key of the query and looked for under the key as it
  stands in the path of a PATCH (`routes/resumable.ts:67`): a client that percent-encodes it there is told that its
  session is unknown.

Smaller ones that no run is about: `replicationQueue.ts:54` says a row is given up when `MAX_RETRY` is *exceeded*
(초과), the statements give it up when `retryCount` reaches it (`>=`), and `retryCount` is not the number of failures
either, since the row that `upsertOnFailure` inserts for a first failure counts 0 (`:104`); the limits in the comment of `isSecondaryNodeIdle` differ from the
constants; a failed direct upload leaves its partial file as the object; a merge that fails leaves its
temporary file beside the object; a complete that fails while it removes the parts is rolled back although it has
published, and its retry replaces the object by what is left of the parts (`Damage` in `AtomicUpload`); in the last second of a URL, which `crypto.ts:82` still accepts, the session it
opens is expired already (`TusSessionStore.ts:85`); a key with '+' or '%' makes a URL that no node lets in
(`PresignedUrlService.java:89`).

## 7. Plan

Done: the queue and its abstraction, proved; replication with its proofs and its refinement; multipart with its
lock, its abstraction and the refinement, proved; sessions with the URLs they begin with, proved; the throttle with
the streams and the idle check, proved. What could come next, in this order:

1. `ObjectReplication` with multipart uploads that are `AtomicUpload`s instead of a single step.
2. The back-off with its doubling and its cap, as a function over counts.
3. Two uploads of one object that overlap at the tus server, once it is clear what its locker does with them.
