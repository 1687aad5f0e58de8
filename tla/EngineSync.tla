----------------------------- MODULE EngineSync -----------------------------
(***************************************************************************)
(* internal/api/router.go: the simulation engine of one topology and how   *)
(* edits reach it.  getOrCreateEngine makes the engine when a request      *)
(* first needs it, from the document then stored; deleteTopology stops it. *)
(* An edit stores a new document and calls syncEngine, which arms a timer  *)
(* and puts it in the place of the one before; a timer that expires looks  *)
(* up the engine, reads the document and rebuilds the engine from it, in   *)
(* three steps with no lock across them.                                   *)
(*                                                                         *)
(* Documents are numbered in the order they are stored, 0 is none.         *)
(***************************************************************************)
EXTENDS Naturals

CONSTANTS
  Requests,   \* request goroutines
  Timers,     \* time.Timer objects, one for each call of syncEngine under way
  Engines,    \* engine objects
  None, Free,
  MaxEdits    \* bound on the documents stored in a behaviour

ASSUME NonesAssumption == /\ None \notin Timers \cup Engines
                          /\ Free \notin Requests
ASSUME EditsAssumption == MaxEdits \in Nat

VARIABLES
  store,      \* the stored document
  edits,      \* the last number given to a document
  pc,         \* the step each request has reached
  read,       \* the document a request creates an engine from
  mine,       \* the timer a request has armed and not yet registered
  engine,     \* Router.engines[topoID]
  engMu,      \* Router.engMu: the request that holds it across steps, or Free
  running,    \* the engines started and not stopped
  graph,      \* the document each engine simulates
  timer,      \* the state of each timer and of the goroutine it starts
  target,     \* the engine that goroutine has looked up
  doc,        \* the document it has read
  current,    \* Router.syncTimers[topoID]
  disturbed,  \* history: since the last quiet edit, rebuilds overlapped or a
              \* request was overtaken on its way through syncEngine
  silent      \* history: the last document was stored without syncEngine

requests == <<pc, read, mine>>
engines  == <<engine, engMu, running, graph>>
timers   == <<timer, target, doc, current>>
history  == <<disturbed, silent>>
vars     == <<store, edits, requests, engines, timers, history>>

Versions == 0..MaxEdits

Init ==
  /\ store = 0 /\ edits = 0
  /\ pc = [r \in Requests |-> "idle"]
  /\ read = [r \in Requests |-> 0]
  /\ mine = [r \in Requests |-> None]
  /\ engine = None /\ engMu = Free /\ running = {}
  /\ graph = [e \in Engines |-> 0]
  /\ timer = [t \in Timers |-> "off"]
  /\ target = [t \in Timers |-> None]
  /\ doc = [t \in Timers |-> 0]
  /\ current = None
  /\ disturbed = FALSE /\ silent = FALSE

Syncing == \E r \in Requests : pc[r] \in {"arm", "swap"}
Pending == \E t \in Timers : timer[t] \in {"armed", "found", "read"}

-----------------------------------------------------------------------------
(* Edits.                                                                  *)

Stored(v) == store' = v /\ edits' = v

\* A handler stores a document and goes on to syncEngine.
Edit(r) ==
  /\ pc[r] = "idle" /\ edits < MaxEdits
  /\ Stored(edits + 1)
  /\ pc' = [pc EXCEPT ![r] = "arm"]
  /\ disturbed' = (disturbed /\ (Syncing \/ Pending))
  /\ silent' = FALSE
  /\ UNCHANGED <<read, mine, engines, timers>>

\* setIPConfig, executeCLI and the annotation handlers store a document and return.
EditSilently(r) ==
  /\ pc[r] = "idle" /\ edits < MaxEdits
  /\ Stored(edits + 1)
  /\ silent' = TRUE
  /\ UNCHANGED <<requests, engines, timers, disturbed>>

\* Mutant: an edit made while a timer is armed does not restart it, nor arm another.
ArmOnce(r) ==
  /\ pc[r] = "arm"
  /\ IF current # None /\ timer[current] \in {"armed", "found", "read"}
     THEN /\ pc' = [pc EXCEPT ![r] = "idle"]
          /\ UNCHANGED <<mine, timer>>
     ELSE \E t \in Timers :
            /\ timer[t] = "off" /\ \A q \in Requests : mine[q] # t
            /\ timer' = [timer EXCEPT ![t] = "armed"]
            /\ mine' = [mine EXCEPT ![r] = t]
            /\ pc' = [pc EXCEPT ![r] = "swap"]
  /\ UNCHANGED <<store, edits, read, engines, target, doc, current, history>>

\* syncEngine: time.AfterFunc, before syncMu is taken.
Arm(r) ==
  /\ pc[r] = "arm"
  /\ \E t \in Timers :
       /\ timer[t] = "off" /\ t # current /\ \A q \in Requests : mine[q] # t
       /\ timer' = [timer EXCEPT ![t] = "armed"]
       /\ mine' = [mine EXCEPT ![r] = t]
  /\ pc' = [pc EXCEPT ![r] = "swap"]
  /\ UNCHANGED <<store, edits, read, engines, target, doc, current, history>>

\* Mutant: the map is updated first, and what is then stopped is the new timer.
SwapThenStop(r) ==
  /\ pc[r] = "swap"
  /\ timer' = [timer EXCEPT ![mine[r]] = IF @ = "armed" THEN "off" ELSE @]
  /\ current' = mine[r]
  /\ mine' = [mine EXCEPT ![r] = None]
  /\ pc' = [pc EXCEPT ![r] = "idle"]
  /\ UNCHANGED <<store, edits, read, engines, target, doc, history>>

\* syncEngine under syncMu: the timer before is stopped if it has not expired, and this
\* one takes its place, even if it has itself expired meanwhile.
Swap(r) ==
  /\ pc[r] = "swap"
  /\ LET stops == current # None /\ timer[current] = "armed"
     IN /\ timer' = IF stops THEN [timer EXCEPT ![current] = "off"] ELSE timer
        /\ disturbed' = (disturbed \/ (stops /\ timer[mine[r]] # "armed"))
  /\ current' = mine[r]
  /\ mine' = [mine EXCEPT ![r] = None]
  /\ pc' = [pc EXCEPT ![r] = "idle"]
  /\ UNCHANGED <<store, edits, read, engines, target, doc, silent>>

-----------------------------------------------------------------------------
(* The goroutine of a timer: runSync, and the end of the closure.          *)

\* The timer expires; runSync looks up the engine under engMu.
LookUp(t) ==
  /\ timer[t] = "armed" /\ engMu = Free
  /\ target' = [target EXCEPT ![t] = engine]
  /\ timer' = [timer EXCEPT ![t] = IF engine = None THEN "done" ELSE "found"]
  /\ UNCHANGED <<store, edits, requests, engines, doc, current, history>>

\* runSync reads the document, and gives up when there is none.
ReadDoc(t) ==
  /\ timer[t] = "found"
  /\ doc' = [doc EXCEPT ![t] = store]
  /\ timer' = [timer EXCEPT ![t] = IF store = 0 THEN "done" ELSE "read"]
  /\ disturbed' = (disturbed \/ \E u \in Timers \ {t} : timer[u] = "read")
  /\ UNCHANGED <<store, edits, requests, engines, target, current, silent>>

\* Engine.Rebuild, of an engine that may have been stopped since.
Rebuild(t) ==
  /\ timer[t] = "read"
  /\ graph' = [graph EXCEPT ![target[t]] = doc[t]]
  /\ timer' = [timer EXCEPT ![t] = "done"]
  /\ UNCHANGED <<store, edits, requests, engine, engMu, running, target, doc, current, history>>

\* The closure removes its timer from the map if it is still there.
Forget(t) ==
  /\ timer[t] = "done"
  /\ timer' = [timer EXCEPT ![t] = "off"]
  /\ current' = IF current = t THEN None ELSE current
  /\ target' = [target EXCEPT ![t] = None]
  /\ doc' = [doc EXCEPT ![t] = 0]
  /\ UNCHANGED <<store, edits, requests, engines, history>>

-----------------------------------------------------------------------------
(* Creation and deletion.                                                  *)

\* Mutant: getOrCreateEngine does not hold engMu while it makes the engine.
LockLookOnly(r) ==
  /\ pc[r] = "idle" /\ engMu = Free /\ engine = None /\ store # 0
  /\ read' = [read EXCEPT ![r] = store]
  /\ pc' = [pc EXCEPT ![r] = "create"]
  /\ UNCHANGED <<store, edits, mine, engines, timers, history>>

\* getOrCreateEngine finds no engine and reads the document, engMu held.
LockAndRead(r) ==
  /\ pc[r] = "idle" /\ engMu = Free /\ engine = None /\ store # 0
  /\ engMu' = r
  /\ read' = [read EXCEPT ![r] = store]
  /\ pc' = [pc EXCEPT ![r] = "create"]
  /\ UNCHANGED <<store, edits, mine, engine, running, graph, timers, history>>

\* An engine that nothing refers to any more.
Unused(e) == e \notin running /\ e # engine /\ \A t \in Timers : target[t] # e

\* NewEngine, Start, the entry in the map, and engMu is released.
Create(r) ==
  /\ pc[r] = "create"
  /\ \E e \in Engines :
       /\ Unused(e)
       /\ engine' = e
       /\ running' = running \cup {e}
       /\ graph' = [graph EXCEPT ![e] = read[r]]
  /\ engMu' = Free
  /\ read' = [read EXCEPT ![r] = 0]
  /\ pc' = [pc EXCEPT ![r] = "idle"]
  /\ UNCHANGED <<store, edits, mine, timers, history>>

\* deleteTopology: stopEngine under engMu ...
StopEngine(r) ==
  /\ pc[r] = "idle" /\ engMu = Free
  /\ running' = running \ {engine}
  /\ engine' = None
  /\ pc' = [pc EXCEPT ![r] = "delete"]
  /\ UNCHANGED <<store, edits, read, mine, engMu, graph, timers, history>>

\* ... and then the document.
DeleteStored(r) ==
  /\ pc[r] = "delete"
  /\ store' = 0
  /\ pc' = [pc EXCEPT ![r] = "idle"]
  /\ UNCHANGED <<edits, read, mine, engines, timers, history>>

-----------------------------------------------------------------------------
Request(r) == \/ Edit(r) \/ EditSilently(r) \/ Arm(r) \/ Swap(r)
              \/ LockAndRead(r) \/ Create(r)
              \/ StopEngine(r) \/ DeleteStored(r)

Timer(t) == LookUp(t) \/ ReadDoc(t) \/ Rebuild(t) \/ Forget(t)

Next == (\E r \in Requests : Request(r)) \/ (\E t \in Timers : Timer(t))

Spec == Init /\ [][Next]_vars

\* A request that has begun goes on, a timer expires and its goroutine runs.
Fairness == /\ \A r \in Requests : WF_vars(Arm(r) \/ Swap(r) \/ Create(r) \/ DeleteStored(r))
            /\ \A t \in Timers : WF_vars(Timer(t))

FairSpec == Spec /\ Fairness

-----------------------------------------------------------------------------
(* Properties.                                                             *)

\* The values each variable takes; a goroutine that goes on to rebuild has an engine and
\* a document, a request that has armed a timer holds it, and the lock is held by the
\* request that creates.
TypeOK ==
  /\ store \in Versions /\ edits \in Versions
  /\ pc \in [Requests -> {"idle", "arm", "swap", "create", "delete"}]
  /\ read \in [Requests -> Versions]
  /\ mine \in [Requests -> Timers \cup {None}]
  /\ engine \in Engines \cup {None}
  /\ engMu \in Requests \cup {Free}
  /\ running \subseteq Engines
  /\ graph \in [Engines -> Versions]
  /\ timer \in [Timers -> {"off", "armed", "found", "read", "done"}]
  /\ target \in [Timers -> Engines \cup {None}]
  /\ doc \in [Timers -> Versions]
  /\ current \in Timers \cup {None}
  /\ \A t \in Timers : timer[t] \in {"found", "read"} => target[t] \in Engines
  /\ \A t \in Timers : timer[t] = "read" => doc[t] # 0
  /\ \A r \in Requests : pc[r] = "swap" => mine[r] \in Timers
  /\ \A r \in Requests : pc[r] = "create" <=> engMu = r
  /\ disturbed \in BOOLEAN /\ silent \in BOOLEAN

\* An engine that runs is the registered one: requests that need an engine at the same
\* time get the same, and no engine is left running without an entry to stop it by.
OneEngine == running = IF engine = None THEN {} ELSE {engine}

\* The engine, if there is one, simulates the stored document, if there is one.
InSync == engine = None \/ store = 0 \/ graph[engine] = store

\* Debouncing loses no edit: once no timer is pending and no request is inside
\* syncEngine, the engine simulates the stored document, unless that was stored without
\* syncEngine, or rebuilds overlapped, or a request was overtaken inside syncEngine.
SyncedWhenQuiet ==
  ~ Syncing /\ ~ Pending /\ ~ disturbed /\ ~ silent => InSync

Still == \A r \in Requests : pc[r] = "idle"

\* ... and that moment comes: when the requests end, the timers do, and the engine
\* simulates the last document from then on, under the same conditions.
EditsReachEngine == <>[](Still /\ ~ disturbed /\ ~ silent) => <>[](~ Pending /\ InSync)

\* The comment on syncEngine: a burst of edits never loses the last one.
LastEditReachesEngine == <>[](Still /\ ~ silent) => <>[]InSync
=============================================================================
