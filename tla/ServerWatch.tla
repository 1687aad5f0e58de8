------------------------------ MODULE ServerWatch ------------------------------
(***************************************************************************)
(* What watches over the server: the rate limiters of internal/api/        *)
(* router.go, the counters of internal/metrics/metrics.go, the records of  *)
(* packets that internal/storage keeps, and the events that an engine      *)
(* hands to the viewers which streamSimEvents serves.                      *)
(* Times are ticks of one clock that never goes back.                      *)
(***************************************************************************)
EXTENDS Integers, Sequences, FiniteSets, Functions

CONSTANTS
  Clock,                 \* bounds the time
  ClientAddrs,             \* of clients
  Limit, Window,         \* of a limiter, and SweepEvery: 256 calls in the code
  SweepEvery,
  Threads,               \* goroutines that count, emit or look
  Depths,                \* lengths of the engine's queue
  Span,                  \* 10 s: the rebuilds that are counted
  MaxRebuilds,           \* bounds the rebuilds
  MaxRecords, MaxAdded,  \* 1000 records are kept; bounds those added
  QueueSize, MaxKept,    \* 128 events queued, 1000 kept
  MaxEvents,             \* bounds the events
  Viewers

ASSUME WatchAssumption ==
  /\ {Clock, Limit, Window, SweepEvery, Span, MaxRecords, QueueSize, MaxKept} \subseteq Nat \ {0}
  /\ Depths \subseteq Nat

VARIABLES
  now,
  limiterWindows, sweepCount, \* the limiter
  passed, turnedAway,      \* history: the times of the requests it let pass, and which it refused
  pendingMax, noting,      \* the deepest queue noted; what NotePending has loaded
  depthsNoted,             \* history: the depths that were noted to the end
  rebuilds, rebuildWindow, \* rebuilds counted, and the times of the last ones
  rebuildAt,               \* history: the times of all
  snapshots,               \* the cutoff of each Snapshot that waits for the window
  packetEvents, added,          \* the records of packets; history: all since they were last cleared
  emitting, numbers,       \* the event that a goroutine emits; how many there were
  history, eventCh, closed,
  viewing, streamed,       \* the viewers, and the events each was sent
  dropped                  \* history: the events that found the queue full or the engine stopped

limitVars  == <<limiterWindows, sweepCount, passed, turnedAway>>
metricVars == <<pendingMax, noting, depthsNoted, rebuilds, rebuildWindow, rebuildAt, snapshots>>
recordVars == <<packetEvents, added>>
eventVars  == <<emitting, numbers, history, eventCh, closed, viewing, streamed, dropped>>
watchVars  == <<now, limitVars, metricVars, recordVars, eventVars>>

Nothing == -1
LastOf(s, n) == IF Len(s) <= n THEN s ELSE SubSeq(s, Len(s) - n + 1, Len(s))

WatchInit ==
  /\ now = 0
  /\ limiterWindows = <<>> /\ sweepCount = 0
  /\ passed = [a \in ClientAddrs |-> <<>>] /\ turnedAway = {}
  /\ pendingMax = 0 /\ noting = [p \in Threads |-> <<>>] /\ depthsNoted = {0}
  /\ rebuilds = 0 /\ rebuildWindow = <<>> /\ rebuildAt = <<>>
  /\ snapshots = [p \in Threads |-> <<>>]
  /\ packetEvents = <<>> /\ added = <<>>
  /\ emitting = [p \in Threads |-> Nothing] /\ numbers = 0
  /\ history = <<>> /\ eventCh = <<>> /\ closed = FALSE
  /\ viewing = {} /\ streamed = [v \in Viewers |-> <<>>]
  /\ dropped = {}

Tick == now < Clock /\ now' = now + 1

-----------------------------------------------------------------------------
(* The limiter: one mutex. A window is [count, resetAt].                   *)

Passes(a) == a \notin DOMAIN limiterWindows \/ now > limiterWindows[a].resetAt

\* tickSweep, after every call, refused ones included.
Swept(ws) ==
  LET kept == {a \in DOMAIN ws : now <= ws[a].resetAt}
  IN IF sweepCount + 1 < SweepEvery THEN ws ELSE [a \in kept |-> ws[a]]

allow(a) ==
  LET fresh   == Passes(a)
      allowed == fresh \/ limiterWindows[a].count < Limit
      window  == IF fresh THEN [count |-> 1, resetAt |-> now + Window]
                 ELSE [limiterWindows[a] EXCEPT !.count = IF allowed THEN @ + 1 ELSE @]
  IN /\ limiterWindows' = Swept([b \in DOMAIN limiterWindows \cup {a} |-> IF b = a THEN window ELSE limiterWindows[b]])
     /\ sweepCount' = (sweepCount + 1) % SweepEvery
     /\ passed' = IF allowed THEN [passed EXCEPT ![a] = Append(@, now)] ELSE passed
     /\ turnedAway' = IF allowed THEN turnedAway ELSE turnedAway \cup {<<a, now>>}

LimitSim ==
  \/ Tick /\ UNCHANGED <<limitVars, metricVars, recordVars, eventVars>>
  \/ \E a \in ClientAddrs : allow(a) /\ UNCHANGED <<now, metricVars, recordVars, eventVars>>

-----------------------------------------------------------------------------
(* Metrics: counters without a lock, and a window of rebuilds with one.    *)

\* NotePending loads the maximum ...
LoadMax(p, d) ==
  /\ noting[p] = <<>> /\ noting' = [noting EXCEPT ![p] = <<d, pendingMax>>]
  /\ UNCHANGED <<pendingMax, depthsNoted, rebuilds, rebuildWindow, rebuildAt, snapshots>>

\* ... and is done when it is as deep, or swaps it if it is still what was loaded, or tries again.
SwapMax(p) ==
  /\ noting[p] # <<>>
  /\ LET d == noting[p][1]
         old == noting[p][2]
         done == d <= old \/ pendingMax = old
     IN /\ pendingMax' = IF d > old /\ pendingMax = old THEN d ELSE pendingMax
        /\ noting' = [noting EXCEPT ![p] = IF done THEN <<>> ELSE <<d, pendingMax>>]
        /\ depthsNoted' = IF done THEN depthsNoted \cup {d} ELSE depthsNoted
  /\ UNCHANGED <<rebuilds, rebuildWindow, rebuildAt, snapshots>>

\* RecordRebuild counts ...
CountRebuild ==
  /\ rebuilds < MaxRebuilds /\ rebuilds' = rebuilds + 1
  /\ UNCHANGED <<pendingMax, noting, depthsNoted, rebuildWindow, rebuildAt, snapshots>>

\* ... and notes the time, which it reads under the lock of the window.
NoteRebuild ==
  /\ Len(rebuildAt) < rebuilds
  /\ rebuildWindow' = Append(rebuildWindow, now) /\ rebuildAt' = Append(rebuildAt, now)
  /\ UNCHANGED <<pendingMax, noting, depthsNoted, rebuilds, snapshots>>

\* Snapshot reads the time before it waits for the window, which it trims and counts.
BeginSnapshot(p) ==
  /\ snapshots[p] = <<>> /\ snapshots' = [snapshots EXCEPT ![p] = <<now - Span>>]
  /\ UNCHANGED <<pendingMax, noting, depthsNoted, rebuilds, rebuildWindow, rebuildAt>>

\* Mutant of EndSnapshot: the window is emptied, as if what was counted were done with.
EndSnapshotResets(p) ==
  /\ snapshots[p] # <<>> /\ snapshots' = [snapshots EXCEPT ![p] = <<>>]
  /\ rebuildWindow' = <<>>
  /\ UNCHANGED <<pendingMax, noting, depthsNoted, rebuilds, rebuildAt>>

\* The times that are not before the cutoff, one after the other.
KeptSince(times, cutoff) ==
  LET kept[i \in 0..Len(times)] ==
        IF i = 0 THEN <<>> ELSE IF times[i] >= cutoff THEN Append(kept[i - 1], times[i]) ELSE kept[i - 1]
  IN kept[Len(times)]

EndSnapshot(p) ==
  /\ snapshots[p] # <<>> /\ snapshots' = [snapshots EXCEPT ![p] = <<>>]
  /\ rebuildWindow' = KeptSince(rebuildWindow, snapshots[p][1])
  /\ UNCHANGED <<pendingMax, noting, depthsNoted, rebuilds, rebuildAt>>

NoteSim ==
  /\ \E p \in Threads : (\E d \in Depths : LoadMax(p, d)) \/ SwapMax(p)
  /\ UNCHANGED <<now, limitVars, recordVars, eventVars>>

RebuildSim ==
  \/ Tick /\ UNCHANGED <<limitVars, metricVars, recordVars, eventVars>>
  \/ /\ CountRebuild \/ NoteRebuild \/ \E p \in Threads : BeginSnapshot(p) \/ EndSnapshot(p)
     /\ UNCHANGED <<now, limitVars, recordVars, eventVars>>

-----------------------------------------------------------------------------
(* Records of packets, those of one topology.                              *)

AddPacketEvent ==
  /\ Len(added) < MaxAdded
  /\ added' = Append(added, Len(added) + 1)
  /\ packetEvents' = LastOf(Append(packetEvents, Len(added) + 1), MaxRecords)

\* ClearPacketEvents, and the deletion of the topology.
ClearPacketEvents == packetEvents' = <<>> /\ added' = <<>>

\* A limit that is not positive asks for all.
ListPacketEvents(limit) == IF limit <= 0 THEN packetEvents ELSE LastOf(packetEvents, limit)

RecordSim == (AddPacketEvent \/ ClearPacketEvents) /\ UNCHANGED <<now, limitVars, metricVars, eventVars>>

-----------------------------------------------------------------------------
(* Events of a started engine: a history under the mutex, and a queue that *)
(* the streams of all viewers take from.                                   *)

\* emit, under the write lock.
LogEvent(p) ==
  /\ emitting[p] = Nothing /\ numbers < MaxEvents
  /\ numbers' = numbers + 1 /\ emitting' = [emitting EXCEPT ![p] = numbers + 1]
  /\ history' = LastOf(Append(history, numbers + 1), MaxKept)
  /\ UNCHANGED <<eventCh, closed, viewing, streamed, dropped>>

\* emit, under the read lock: an event that finds no room is dropped.
SendEvent(p) ==
  /\ emitting[p] # Nothing /\ emitting' = [emitting EXCEPT ![p] = Nothing]
  /\ IF ~closed /\ Len(eventCh) < QueueSize
     THEN eventCh' = Append(eventCh, emitting[p]) /\ UNCHANGED dropped
     ELSE dropped' = dropped \cup {emitting[p]} /\ UNCHANGED eventCh
  /\ UNCHANGED <<numbers, history, closed, viewing, streamed>>

\* Stop leaves the queue as it is: its viewers are not told.
StopEvents ==
  /\ closed' = TRUE
  /\ UNCHANGED <<emitting, numbers, history, eventCh, viewing, streamed, dropped>>

\* streamSimEvents: a stream goes on until the client leaves.
View(v) ==
  /\ v \notin viewing /\ ~closed /\ viewing' = viewing \cup {v}
  /\ UNCHANGED <<emitting, numbers, history, eventCh, closed, streamed, dropped>>

LeaveView(v) ==
  /\ v \in viewing /\ viewing' = viewing \ {v}
  /\ UNCHANGED <<emitting, numbers, history, eventCh, closed, streamed, dropped>>

ShowEvent(v) ==
  /\ v \in viewing /\ eventCh # <<>>
  /\ streamed' = [streamed EXCEPT ![v] = Append(@, Head(eventCh))] /\ eventCh' = Tail(eventCh)
  /\ UNCHANGED <<emitting, numbers, history, closed, viewing, dropped>>

EventSim ==
  /\ \/ \E p \in Threads : LogEvent(p) \/ SendEvent(p)
     \/ \E v \in Viewers : View(v) \/ LeaveView(v) \/ ShowEvent(v)
     \/ StopEvents
  /\ UNCHANGED <<now, limitVars, metricVars, recordVars>>

WatchSpec == WatchInit /\ [][LimitSim \/ NoteSim \/ RebuildSim \/ RecordSim \/ EventSim]_watchVars

-----------------------------------------------------------------------------
(* Properties.                                                             *)

PassedIn(a, from, to) == Cardinality({i \in DOMAIN passed[a] : passed[a][i] \in from..to})

\* In the time of one window at most two windows of requests pass, and a request is refused
\* only after as many as the limit have passed in that time, whatever sweeps there were.
LimiterFair ==
  /\ \A a \in ClientAddrs, t \in 0..Clock : PassedIn(a, t, t + Window) <= 2 * Limit
  /\ \A r \in turnedAway : PassedIn(r[1], r[2] - Window, r[2]) >= Limit

\* The maximum is the deepest queue that any goroutine noted, however they overlap, and the
\* window is the end of all rebuilds and lacks none of the last ten seconds, whichever
\* snapshots trimmed it.
CountersTrue ==
  /\ pendingMax \in depthsNoted /\ \A d \in depthsNoted : d <= pendingMax
  /\ \E k \in 0..Len(rebuildAt) : /\ rebuildWindow = SubSeq(rebuildAt, k + 1, Len(rebuildAt))
                                  /\ \A i \in 1..k : rebuildAt[i] < now - Span

\* The records are the newest of those added, and so is any list of them.
RecordsNewest ==
  /\ packetEvents = LastOf(added, MaxRecords)
  /\ \A n \in 1..MaxRecords : ListPacketEvents(n) = LastOf(added, n)

\* An event is streamed once, to one viewer however many there are; it waits in the queue
\* or with its goroutine, or it found the queue full or the engine stopped. The history has
\* the newest.
InFlight == {emitting[p] : p \in Threads} \ {Nothing}
ShownTo(v) == Range(streamed[v])
Queued == Range(eventCh)
EventsAccounted ==
  /\ Queued \cup InFlight \cup dropped \cup UNION {ShownTo(v) : v \in Viewers} = 1..numbers
  /\ IsInjective(eventCh) /\ \A v \in Viewers : IsInjective(streamed[v])
  /\ \A p, q \in Threads : p # q /\ emitting[p] = emitting[q] => emitting[p] = Nothing
  /\ Queued \cap InFlight = {} /\ (Queued \cup InFlight) \cap dropped = {}
  /\ \A v \in Viewers : ShownTo(v) \cap (Queued \cup InFlight \cup dropped \cup UNION {ShownTo(w) : w \in Viewers \ {v}}) = {}
  /\ history = LastOf([i \in 1..numbers |-> i], MaxKept)

WatchSound == LimiterFair /\ CountersTrue /\ RecordsNewest /\ EventsAccounted
=============================================================================
