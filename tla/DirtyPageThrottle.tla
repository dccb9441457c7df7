------------------------ MODULE DirtyPageThrottle ------------------------
(***************************************************************************)
(* What a write of a request waits for before it opens its file: the size  *)
(* of the kernel's dirty pages, read from /proc/meminfo through a cache    *)
(* that all writers share, must be below a limit.  A writer that finds it  *)
(* above reads it again and again, past the cache, and is let through      *)
(* after MaxAttempts readings at the latest.                               *)
(***************************************************************************)
EXTENDS Naturals

CONSTANTS Writers,
          Limit,         \* DIRTY_PAGE_LIMIT
          PollInterval,  \* POLL_INTERVAL_MS
          MaxAttempts,   \* readings of a writer that waits
          Sizes,         \* the sizes dirty pages may have
          Unreadable,    \* Infinity: /proc/meminfo could not be read
          MaxNow         \* bound on the clock

ASSUME ThrottleAssumption ==
  /\ Limit \in Nat /\ PollInterval \in Nat \ {0} /\ MaxAttempts \in Nat
  /\ MaxNow \in Nat
  /\ Sizes \subseteq Nat /\ 0 \in Sizes
  /\ Unreadable \notin Nat

VARIABLES
  now,
  dirty,     \* the kernel's value
  cache,     \* dirtyPageCache
  pc,        \* where a writer is
  arrival,   \* when it called throttleIfNeeded
  got,       \* the value it looks at
  attempts,  \* its readings while it waits
  lastLow    \* history: the last time at which dirty was below the limit

vars == <<now, dirty, cache, pc, arrival, got, attempts, lastLow>>

Value == Sizes \cup {Unreadable}

\* Infinity is above any limit.
Exceeds(v) == v \notin {s \in Sizes : s < Limit}

Init ==
  /\ now = PollInterval
  /\ dirty = 0
  /\ cache = [value |-> 0, lastUpdated |-> 0]
  /\ pc = [w \in Writers |-> "idle"]
  /\ arrival = [w \in Writers |-> 0]
  /\ got = [w \in Writers |-> 0]
  /\ attempts = [w \in Writers |-> 0]
  /\ lastLow = now

\* readDirtyPageSize
Reading == {dirty, Unreadable}

\* throttleIfNeeded compares v with the limit.
Decide(w, v) ==
  /\ got' = [got EXCEPT ![w] = v]
  /\ attempts' = [attempts EXCEPT ![w] = 0]
  /\ pc' = [pc EXCEPT ![w] = IF Exceeds(v) THEN "waiting" ELSE "passed"]

Stale == now - cache.lastUpdated >= PollInterval

ArriveCached(w) ==
  /\ pc[w] = "idle" /\ ~Stale
  /\ arrival' = [arrival EXCEPT ![w] = now]
  /\ Decide(w, cache.value)
  /\ UNCHANGED <<now, dirty, cache, lastLow>>

\* Every writer that finds the cache stale refreshes it.
ArriveStale(w) ==
  /\ pc[w] = "idle" /\ Stale
  /\ arrival' = [arrival EXCEPT ![w] = now]
  /\ pc' = [pc EXCEPT ![w] = "reading"]
  /\ UNCHANGED <<now, dirty, cache, got, attempts, lastLow>>

Read(w) ==
  /\ pc[w] = "reading"
  /\ \E v \in Reading : got' = [got EXCEPT ![w] = v]
  /\ pc' = [pc EXCEPT ![w] = "read"]
  /\ UNCHANGED <<now, dirty, cache, arrival, attempts, lastLow>>

\* A slip: the value is stamped with the time at which the read has ended.
FillCacheLate(w) ==
  /\ pc[w] = "read"
  /\ cache' = [value |-> got[w], lastUpdated |-> now]
  /\ Decide(w, got[w])
  /\ UNCHANGED <<now, dirty, arrival, lastLow>>

\* The stamp is the time before the read: it may go back, when a refresh
\* that started earlier ends later.
FillCache(w) ==
  /\ pc[w] = "read"
  /\ cache' = [value |-> got[w], lastUpdated |-> arrival[w]]
  /\ Decide(w, got[w])
  /\ UNCHANGED <<now, dirty, arrival, lastLow>>

\* A slip: the attempts are not counted.
WaitReadUncounted(w) ==
  /\ pc[w] = "waiting" /\ attempts[w] < MaxAttempts
  /\ \E v \in Reading :
       /\ got' = [got EXCEPT ![w] = v]
       /\ pc' = [pc EXCEPT ![w] = IF Exceeds(v) THEN "waiting" ELSE "passed"]
  /\ UNCHANGED <<now, dirty, cache, arrival, attempts, lastLow>>

\* A slip: the loop runs once too often.
WaitReadOnceMore(w) ==
  /\ pc[w] = "waiting" /\ attempts[w] <= MaxAttempts
  /\ \E v \in Reading :
       /\ got' = [got EXCEPT ![w] = v]
       /\ pc' = [pc EXCEPT ![w] = IF Exceeds(v) THEN "waiting" ELSE "passed"]
       /\ attempts' = [attempts EXCEPT ![w] = IF Exceeds(v) THEN @ + 1 ELSE @]
  /\ UNCHANGED <<now, dirty, cache, arrival, lastLow>>

\* One turn of the loop of waitForDirtyPageDecrease.
WaitRead(w) ==
  /\ pc[w] = "waiting" /\ attempts[w] < MaxAttempts
  /\ \E v \in Reading :
       /\ got' = [got EXCEPT ![w] = v]
       /\ pc' = [pc EXCEPT ![w] = IF Exceeds(v) THEN "waiting" ELSE "passed"]
       /\ attempts' = [attempts EXCEPT ![w] = IF Exceeds(v) THEN @ + 1 ELSE @]
  /\ UNCHANGED <<now, dirty, cache, arrival, lastLow>>

TimeOut(w) ==
  /\ pc[w] = "waiting" /\ attempts[w] = MaxAttempts
  /\ pc' = [pc EXCEPT ![w] = "passed"]
  /\ UNCHANGED <<now, dirty, cache, arrival, got, attempts, lastLow>>

\* The write is over and the locals of its call are gone; the writer stands
\* for the next request.
Leave(w) ==
  /\ pc[w] = "passed"
  /\ pc' = [pc EXCEPT ![w] = "idle"]
  /\ arrival' = [arrival EXCEPT ![w] = 0]
  /\ got' = [got EXCEPT ![w] = 0]
  /\ attempts' = [attempts EXCEPT ![w] = 0]
  /\ UNCHANGED <<now, dirty, cache, lastLow>>

Tick ==
  /\ now < MaxNow
  /\ now' = now + 1
  /\ lastLow' = IF dirty < Limit THEN now + 1 ELSE lastLow
  /\ UNCHANGED <<dirty, cache, pc, arrival, got, attempts>>

\* Writers and the kernel's writeback change the dirty pages at any time.
DirtyChanges ==
  /\ \E d \in Sizes : dirty' = d
  /\ lastLow' = IF dirty' < Limit THEN now ELSE lastLow
  /\ UNCHANGED <<now, cache, pc, arrival, got, attempts>>

Next ==
  \/ \E w \in Writers :
       \/ ArriveCached(w) \/ ArriveStale(w) \/ Read(w) \/ FillCache(w)
       \/ WaitRead(w) \/ TimeOut(w) \/ Leave(w)
  \/ Tick \/ DirtyChanges

Spec == Init /\ [][Next]_vars

\* The reads and the 50 ms timers of a writer end.
WriterGoesOn(w) == Read(w) \/ FillCache(w) \/ WaitRead(w) \/ TimeOut(w)

FairSpec == Spec /\ \A w \in Writers : WF_vars(WriterGoesOn(w))

---------------------------------------------------------------------------
TypeOK ==
  /\ now \in Nat
  /\ dirty \in Sizes
  /\ cache \in [value : Value, lastUpdated : Nat]
  /\ pc \in [Writers -> {"idle", "reading", "read", "waiting", "passed"}]
  /\ arrival \in [Writers -> Nat]
  /\ got \in [Writers -> Value]
  /\ attempts \in [Writers -> 0 .. MaxAttempts]
  /\ lastLow \in Nat

(***************************************************************************)
(* A writer that is let through without waiting its time out rests on a    *)
(* size that was below the limit after, or less than PollInterval before,  *)
(* its call: no order in which concurrent refreshes end, however slow they *)
(* are, makes the shared cache vouch for an older value                    *)
(* (dirtyPageThrottler.ts: lastUpdated is taken before the read).          *)
(***************************************************************************)
AdmittedOnFreshSize ==
  [][\A w \in Writers :
       ( /\ pc[w] # "passed" /\ pc'[w] = "passed"
         /\ ~(pc[w] = "waiting" /\ attempts[w] = MaxAttempts) )
         => lastLow + PollInterval > arrival'[w]]_vars

(***************************************************************************)
(* No writer waits for ever, whatever the dirty pages do and whether or    *)
(* not /proc/meminfo can be read: there is a timeout of 60 seconds.        *)
(***************************************************************************)
EveryWriterPasses ==
  \A w \in Writers : pc[w] = "waiting" ~> pc[w] = "passed"

---------------------------------------------------------------------------
\* What a comment says of a failed read: it disables the throttle.
ErrorDisablesThrottle ==
  \A w \in Writers : pc[w] = "waiting" => got[w] # Unreadable
=============================================================================
