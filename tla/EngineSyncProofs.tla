-------------------------- MODULE EngineSyncProofs --------------------------
(***************************************************************************)
(* One engine per topology, and debouncing loses no edit, for any number   *)
(* of requests, timers, engines and edits.                                 *)
(*                                                                         *)
(* The argument for the edits: as long as rebuilds do not overlap, what    *)
(* the engine lacks is Coming, that is, in the hands of somebody who has   *)
(* not read the document yet, or has just been read by the only rebuild    *)
(* under way; and a rebuild that carries an older document is followed by  *)
(* one that is Coming.  An engine under construction may rely on timers    *)
(* that are armed, as none can look for it before it is in the map.        *)
(***************************************************************************)
EXTENDS EngineSync, TLAPS

Armed == (\E r \in Requests : pc[r] = "arm") \/ (\E t \in Timers : timer[t] = "armed")

Coming == Armed \/ \E t \in Timers : timer[t] = "found" /\ target[t] = engine

Promised == ~ disturbed /\ ~ silent /\ store # 0

\* syncEngine registers timers that are not registered and that nobody else holds.
OwnTimers ==
  \A r \in Requests : pc[r] = "swap" =>
    /\ mine[r] # current
    /\ \A q \in Requests : mine[q] = mine[r] => q = r

NoOverlap ==
  ~ disturbed =>
    \A t, u \in Timers : timer[t] = "read" /\ timer[u] = "read" => t = u

UpToDate ==
  Promised => \/ InSync
              \/ Coming
              \/ \E t \in Timers : timer[t] = "read" /\ target[t] = engine /\ doc[t] = store

StaleIsFollowed ==
  Promised => \A t \in Timers :
    timer[t] = "read" /\ target[t] = engine /\ doc[t] # store => Coming

Creating ==
  \A r \in Requests : pc[r] = "create" =>
    engine = None /\ (Promised => read[r] = store \/ Armed)

IInv == /\ TypeOK /\ OneEngine /\ OwnTimers
        /\ NoOverlap /\ UpToDate /\ StaleIsFollowed /\ Creating

\* Every step keeps the types.
LEMMA TypeKept == TypeOK /\ [Next]_vars => TypeOK'
<1> SUFFICES ASSUME TypeOK, [Next]_vars PROVE TypeOK'
  OBVIOUS
<1>1. ASSUME NEW r \in Requests, Edit(r) PROVE TypeOK'
  <2>1. disturbed' \in BOOLEAN
    BY <1>1, Zenon DEF Edit
  <2>2. store' \in Versions /\ edits' \in Versions
    BY <1>1, EditsAssumption DEF Edit, Stored, TypeOK, Versions
  <2> QED
    BY <1>1, <2>2 DEF Edit, TypeOK, engines, timers
<1>2. ASSUME NEW r \in Requests, EditSilently(r) PROVE TypeOK'
  BY <1>2, EditsAssumption DEF EditSilently, TypeOK, requests, engines, timers, Stored,
     Versions
<1>3. ASSUME NEW r \in Requests, Arm(r) PROVE TypeOK'
  BY <1>3 DEF Arm, TypeOK, engines, history
<1>4. ASSUME NEW r \in Requests, Swap(r) PROVE TypeOK'
  BY <1>4 DEF Swap, TypeOK, engines
<1>5. ASSUME NEW r \in Requests, LockAndRead(r) PROVE TypeOK'
  BY <1>5, NonesAssumption DEF LockAndRead, TypeOK, timers, history
<1>6. ASSUME NEW r \in Requests, Create(r) PROVE TypeOK'
  BY <1>6, NonesAssumption, EditsAssumption DEF Create, TypeOK, timers, history, Versions
<1>7. ASSUME NEW r \in Requests, StopEngine(r) PROVE TypeOK'
  BY <1>7 DEF StopEngine, TypeOK, timers, history
<1>8. ASSUME NEW r \in Requests, DeleteStored(r) PROVE TypeOK'
  BY <1>8, EditsAssumption DEF DeleteStored, TypeOK, engines, timers, history, Versions
<1>9. ASSUME NEW t \in Timers, LookUp(t) PROVE TypeOK'
  BY <1>9 DEF LookUp, TypeOK, requests, engines, history
<1>10. ASSUME NEW t \in Timers, ReadDoc(t) PROVE TypeOK'
  BY <1>10 DEF ReadDoc, TypeOK, requests, engines
<1>11. ASSUME NEW t \in Timers, Rebuild(t) PROVE TypeOK'
  BY <1>11 DEF Rebuild, TypeOK, requests, history
<1>12. ASSUME NEW t \in Timers, Forget(t) PROVE TypeOK'
  BY <1>12, EditsAssumption DEF Forget, TypeOK, requests, engines, history, Versions
<1>13. CASE UNCHANGED vars
  BY <1>13 DEF vars, TypeOK, requests, engines, timers, history
<1> QED
  BY <1>1, <1>2, <1>3, <1>4, <1>5, <1>6, <1>7, <1>8, <1>9, <1>10, <1>11, <1>12, <1>13 
     DEF Next, Request, Timer

\* Every step keeps the timers apart.
LEMMA OwnTimersKept == TypeOK /\ OwnTimers /\ [Next]_vars => OwnTimers'
<1> SUFFICES ASSUME TypeOK /\ OwnTimers, [Next]_vars PROVE OwnTimers'
  OBVIOUS
<1>1. ASSUME NEW r \in Requests, Edit(r) PROVE OwnTimers'
  BY <1>1 DEF Edit, OwnTimers, timers
<1>2. ASSUME NEW r \in Requests, EditSilently(r) PROVE OwnTimers'
  BY <1>2 DEF EditSilently, OwnTimers, requests, timers
<1>3. ASSUME NEW r \in Requests, Arm(r) PROVE OwnTimers'
  BY <1>3 DEF Arm, TypeOK, OwnTimers
<1>4. ASSUME NEW r \in Requests, Swap(r) PROVE OwnTimers'
  BY <1>4, NonesAssumption DEF Swap, TypeOK, OwnTimers
<1>5. ASSUME NEW r \in Requests, LockAndRead(r) PROVE OwnTimers'
  BY <1>5 DEF LockAndRead, OwnTimers, timers
<1>6. ASSUME NEW r \in Requests, Create(r) PROVE OwnTimers'
  BY <1>6 DEF Create, OwnTimers, timers
<1>7. ASSUME NEW r \in Requests, StopEngine(r) PROVE OwnTimers'
  BY <1>7 DEF StopEngine, OwnTimers, timers
<1>8. ASSUME NEW r \in Requests, DeleteStored(r) PROVE OwnTimers'
  BY <1>8 DEF DeleteStored, OwnTimers, timers
<1>9. ASSUME NEW t \in Timers, LookUp(t) PROVE OwnTimers'
  BY <1>9 DEF LookUp, OwnTimers, requests
<1>10. ASSUME NEW t \in Timers, ReadDoc(t) PROVE OwnTimers'
  BY <1>10 DEF ReadDoc, OwnTimers, requests
<1>11. ASSUME NEW t \in Timers, Rebuild(t) PROVE OwnTimers'
  BY <1>11 DEF Rebuild, OwnTimers, requests
<1>12. ASSUME NEW t \in Timers, Forget(t) PROVE OwnTimers'
  BY <1>12, NonesAssumption DEF Forget, TypeOK, OwnTimers, requests
<1>13. CASE UNCHANGED vars
  BY <1>13 DEF vars, OwnTimers, requests, timers
<1> QED
  BY <1>1, <1>2, <1>3, <1>4, <1>5, <1>6, <1>7, <1>8, <1>9, <1>10, <1>11, <1>12, <1>13 
     DEF Next, Request, Timer

\* Every step keeps one engine.
LEMMA OneEngineKept == TypeOK /\ OneEngine /\ Creating /\ [Next]_vars => OneEngine'
<1> SUFFICES ASSUME TypeOK /\ OneEngine /\ Creating, [Next]_vars PROVE OneEngine'
  OBVIOUS
<1>1. ASSUME NEW r \in Requests, Edit(r) PROVE OneEngine'
  BY <1>1 DEF Edit, OneEngine, engines
<1>2. ASSUME NEW r \in Requests, EditSilently(r) PROVE OneEngine'
  BY <1>2 DEF EditSilently, OneEngine, engines
<1>3. ASSUME NEW r \in Requests, Arm(r) PROVE OneEngine'
  BY <1>3 DEF Arm, OneEngine, engines
<1>4. ASSUME NEW r \in Requests, Swap(r) PROVE OneEngine'
  BY <1>4 DEF Swap, OneEngine, engines
<1>5. ASSUME NEW r \in Requests, LockAndRead(r) PROVE OneEngine'
  BY <1>5 DEF LockAndRead, OneEngine
<1>6. ASSUME NEW r \in Requests, Create(r) PROVE OneEngine'
  BY <1>6, NonesAssumption DEF Create, OneEngine, Creating
<1>7. ASSUME NEW r \in Requests, StopEngine(r) PROVE OneEngine'
  BY <1>7 DEF StopEngine, OneEngine
<1>8. ASSUME NEW r \in Requests, DeleteStored(r) PROVE OneEngine'
  BY <1>8 DEF DeleteStored, OneEngine, engines
<1>9. ASSUME NEW t \in Timers, LookUp(t) PROVE OneEngine'
  BY <1>9 DEF LookUp, OneEngine, engines
<1>10. ASSUME NEW t \in Timers, ReadDoc(t) PROVE OneEngine'
  BY <1>10 DEF ReadDoc, OneEngine, engines
<1>11. ASSUME NEW t \in Timers, Rebuild(t) PROVE OneEngine'
  BY <1>11 DEF Rebuild, OneEngine
<1>12. ASSUME NEW t \in Timers, Forget(t) PROVE OneEngine'
  BY <1>12 DEF Forget, OneEngine, engines
<1>13. CASE UNCHANGED vars
  BY <1>13 DEF vars, OneEngine, engines
<1> QED
  BY <1>1, <1>2, <1>3, <1>4, <1>5, <1>6, <1>7, <1>8, <1>9, <1>10, <1>11, <1>12, <1>13 
     DEF Next, Request, Timer

\* A second document is not read before the first is built, unless disturbed.
LEMMA NoOverlapKept == TypeOK /\ NoOverlap /\ [Next]_vars => NoOverlap'
<1> SUFFICES ASSUME TypeOK /\ NoOverlap, [Next]_vars PROVE NoOverlap'
  OBVIOUS
<1>1. ASSUME NEW r \in Requests, Edit(r) PROVE NoOverlap'
  BY <1>1 DEF Edit, NoOverlap, Pending, timers
<1>2. ASSUME NEW r \in Requests, EditSilently(r) PROVE NoOverlap'
  BY <1>2 DEF EditSilently, NoOverlap, timers
<1>3. ASSUME NEW r \in Requests, Arm(r) PROVE NoOverlap'
  BY <1>3 DEF Arm, NoOverlap, history
<1>4. ASSUME NEW r \in Requests, Swap(r) PROVE NoOverlap'
  BY <1>4 DEF Swap, TypeOK, NoOverlap
<1>5. ASSUME NEW r \in Requests, LockAndRead(r) PROVE NoOverlap'
  BY <1>5 DEF LockAndRead, NoOverlap, timers, history
<1>6. ASSUME NEW r \in Requests, Create(r) PROVE NoOverlap'
  BY <1>6 DEF Create, NoOverlap, timers, history
<1>7. ASSUME NEW r \in Requests, StopEngine(r) PROVE NoOverlap'
  BY <1>7 DEF StopEngine, NoOverlap, timers, history
<1>8. ASSUME NEW r \in Requests, DeleteStored(r) PROVE NoOverlap'
  BY <1>8 DEF DeleteStored, NoOverlap, timers, history
<1>9. ASSUME NEW t \in Timers, LookUp(t) PROVE NoOverlap'
  BY <1>9 DEF LookUp, NoOverlap, history
<1>10. ASSUME NEW t \in Timers, ReadDoc(t) PROVE NoOverlap'
  BY <1>10 DEF ReadDoc, TypeOK, NoOverlap
<1>11. ASSUME NEW t \in Timers, Rebuild(t) PROVE NoOverlap'
  BY <1>11 DEF Rebuild, NoOverlap, history
<1>12. ASSUME NEW t \in Timers, Forget(t) PROVE NoOverlap'
  BY <1>12 DEF Forget, NoOverlap, history
<1>13. CASE UNCHANGED vars
  BY <1>13 DEF vars, NoOverlap, timers, history
<1> QED
  BY <1>1, <1>2, <1>3, <1>4, <1>5, <1>6, <1>7, <1>8, <1>9, <1>10, <1>11, <1>12, <1>13 
     DEF Next, Request, Timer

\* Every step keeps a stale document followed.
LEMMA StaleIsFollowedKept ==
  TypeOK /\ OwnTimers /\ NoOverlap /\ StaleIsFollowed /\ [Next]_vars => StaleIsFollowed'
<1> SUFFICES ASSUME TypeOK /\ OwnTimers /\ NoOverlap /\ StaleIsFollowed, [Next]_vars
             PROVE  StaleIsFollowed'
  OBVIOUS
<1>1. ASSUME NEW r \in Requests, Edit(r) PROVE StaleIsFollowed'
  BY <1>1 DEF Edit, TypeOK, Armed, Coming, StaleIsFollowed
<1>2. ASSUME NEW r \in Requests, EditSilently(r) PROVE StaleIsFollowed'
  BY <1>2 DEF EditSilently, Promised, StaleIsFollowed
<1>3. ASSUME NEW r \in Requests, Arm(r) PROVE StaleIsFollowed'
  BY <1>3 DEF Arm, TypeOK, Armed, Coming, StaleIsFollowed
<1>4. ASSUME NEW r \in Requests, Swap(r) PROVE StaleIsFollowed'
  BY <1>4 DEF Swap, TypeOK, Armed, Coming, Promised, OwnTimers, StaleIsFollowed, engines
<1>5. ASSUME NEW r \in Requests, LockAndRead(r) PROVE StaleIsFollowed'
  BY <1>5 DEF LockAndRead, Armed, Coming, Promised, StaleIsFollowed, timers, history
\* Nobody refers to the new engine yet.
<1>6. ASSUME NEW r \in Requests, Create(r) PROVE StaleIsFollowed'
  BY <1>6 DEF Create, StaleIsFollowed, Unused, timers
<1>7. ASSUME NEW r \in Requests, StopEngine(r) PROVE StaleIsFollowed'
  BY <1>7, NonesAssumption DEF StopEngine, TypeOK, StaleIsFollowed, timers
<1>8. ASSUME NEW r \in Requests, DeleteStored(r) PROVE StaleIsFollowed'
  BY <1>8 DEF DeleteStored, Promised, StaleIsFollowed
<1>9. ASSUME NEW t \in Timers, LookUp(t) PROVE StaleIsFollowed'
  BY <1>9, NonesAssumption DEF LookUp, TypeOK, Coming, StaleIsFollowed, engines
\* A second document read before the first is built is an overlap.
<1>10. ASSUME NEW t \in Timers, ReadDoc(t) PROVE StaleIsFollowed'
  BY <1>10 DEF ReadDoc, TypeOK, Promised, StaleIsFollowed
<1>11. ASSUME NEW t \in Timers, Rebuild(t) PROVE StaleIsFollowed'
  BY <1>11 DEF Rebuild, Armed, Coming, Promised, StaleIsFollowed, requests, history
<1>12. ASSUME NEW t \in Timers, Forget(t) PROVE StaleIsFollowed'
  BY <1>12 DEF Forget, Armed, Coming, Promised, StaleIsFollowed, requests, engines, history
<1>13. CASE UNCHANGED vars
  BY <1>13 DEF vars, Armed, Coming, Promised, StaleIsFollowed, requests, engines, timers,
     history
<1> QED
  BY <1>1, <1>2, <1>3, <1>4, <1>5, <1>6, <1>7, <1>8, <1>9, <1>10, <1>11, <1>12, <1>13 
     DEF Next, Request, Timer

\* Every step keeps what the making of an engine relies on.
LEMMA CreatingKept == TypeOK /\ OwnTimers /\ Creating /\ [Next]_vars => Creating'
<1> SUFFICES ASSUME TypeOK /\ OwnTimers /\ Creating, [Next]_vars PROVE Creating'
  OBVIOUS
<1>1. ASSUME NEW r \in Requests, Edit(r) PROVE Creating'
  BY <1>1 DEF Edit, TypeOK, Armed, Creating, engines
<1>2. ASSUME NEW r \in Requests, EditSilently(r) PROVE Creating'
  BY <1>2 DEF EditSilently, Promised, Creating, requests, engines
<1>3. ASSUME NEW r \in Requests, Arm(r) PROVE Creating'
  BY <1>3 DEF Arm, TypeOK, Armed, Creating, engines
<1>4. ASSUME NEW r \in Requests, Swap(r) PROVE Creating'
  BY <1>4 DEF Swap, TypeOK, Armed, Promised, OwnTimers, Creating, engines
<1>5. ASSUME NEW r \in Requests, LockAndRead(r) PROVE Creating'
  BY <1>5, NonesAssumption DEF LockAndRead, TypeOK, Creating
<1>6. ASSUME NEW r \in Requests, Create(r) PROVE Creating'
  BY <1>6 DEF Create, TypeOK, Creating
<1>7. ASSUME NEW r \in Requests, StopEngine(r) PROVE Creating'
  BY <1>7 DEF StopEngine, Armed, Promised, Creating, timers, history
<1>8. ASSUME NEW r \in Requests, DeleteStored(r) PROVE Creating'
  BY <1>8 DEF DeleteStored, Promised, Creating, engines
<1>9. ASSUME NEW t \in Timers, LookUp(t) PROVE Creating'
  BY <1>9, NonesAssumption DEF LookUp, TypeOK, Creating, requests
<1>10. ASSUME NEW t \in Timers, ReadDoc(t) PROVE Creating'
  BY <1>10 DEF ReadDoc, TypeOK, Armed, Promised, Creating, requests, engines
<1>11. ASSUME NEW t \in Timers, Rebuild(t) PROVE Creating'
  BY <1>11 DEF Rebuild, Armed, Promised, Creating, requests, history
<1>12. ASSUME NEW t \in Timers, Forget(t) PROVE Creating'
  BY <1>12 DEF Forget, Armed, Promised, Creating, requests, engines, history
<1>13. CASE UNCHANGED vars
  BY <1>13 DEF vars, Armed, Promised, Creating, requests, engines, timers, history
<1> QED
  BY <1>1, <1>2, <1>3, <1>4, <1>5, <1>6, <1>7, <1>8, <1>9, <1>10, <1>11, <1>12, <1>13 
     DEF Next, Request, Timer

\* Every step keeps the promise that the engine is or will be up to date.
LEMMA UpToDateKept ==
  TypeOK /\ OwnTimers /\ UpToDate /\ StaleIsFollowed /\ Creating /\ [Next]_vars => UpToDate'
<1> SUFFICES ASSUME TypeOK /\ OwnTimers /\ UpToDate /\ StaleIsFollowed /\ Creating, [Next]_vars
             PROVE  UpToDate'
  OBVIOUS
<1>1. ASSUME NEW r \in Requests, Edit(r) PROVE UpToDate'
  BY <1>1 DEF Edit, TypeOK, Armed, Coming, UpToDate
<1>2. ASSUME NEW r \in Requests, EditSilently(r) PROVE UpToDate'
  BY <1>2 DEF EditSilently, Promised, UpToDate
<1>3. ASSUME NEW r \in Requests, Arm(r) PROVE UpToDate'
  BY <1>3 DEF Arm, TypeOK, Armed, Coming, UpToDate
\* A timer that is stopped is not the last hope: the one that replaces it is armed.
<1>4. ASSUME NEW r \in Requests, Swap(r) PROVE UpToDate'
  BY <1>4 DEF Swap, TypeOK, Armed, Coming, Promised, OwnTimers, UpToDate, InSync, engines
<1>5. ASSUME NEW r \in Requests, LockAndRead(r) PROVE UpToDate'
  BY <1>5 DEF LockAndRead, UpToDate, InSync
\* The engine was made from the stored document, or a timer is still armed.
<1>6. ASSUME NEW r \in Requests, Create(r) PROVE UpToDate'
  BY <1>6 DEF Create, TypeOK, Armed, Coming, Promised, UpToDate, Creating, InSync, timers,
     history
<1>7. ASSUME NEW r \in Requests, StopEngine(r) PROVE UpToDate'
  BY <1>7 DEF StopEngine, UpToDate, InSync
<1>8. ASSUME NEW r \in Requests, DeleteStored(r) PROVE UpToDate'
  BY <1>8 DEF DeleteStored, UpToDate, InSync
\* A timer that finds no engine leaves nothing to do: the engine is made later.
<1>9. ASSUME NEW t \in Timers, LookUp(t) PROVE UpToDate'
  BY <1>9 DEF LookUp, TypeOK, Coming, UpToDate, InSync, engines
\* What is read is the stored document.
<1>10. ASSUME NEW t \in Timers, ReadDoc(t) PROVE UpToDate'
  BY <1>10 DEF ReadDoc, TypeOK, Armed, Coming, Promised, UpToDate, InSync, requests, engines
\* A stale document does not go last: something is coming.
<1>11. ASSUME NEW t \in Timers, Rebuild(t) PROVE UpToDate'
  BY <1>11 DEF Rebuild, TypeOK, Armed, Coming, Promised, UpToDate, StaleIsFollowed, InSync,
     requests, history
<1>12. ASSUME NEW t \in Timers, Forget(t) PROVE UpToDate'
  BY <1>12 DEF Forget, Armed, Coming, Promised, UpToDate, InSync, requests, engines, history
<1>13. CASE UNCHANGED vars
  BY <1>13 DEF vars, Armed, Coming, Promised, UpToDate, InSync, requests, engines, timers,
     history
<1> QED
  BY <1>1, <1>2, <1>3, <1>4, <1>5, <1>6, <1>7, <1>8, <1>9, <1>10, <1>11, <1>12, <1>13 
     DEF Next, Request, Timer

\* The strengthened invariant holds in every reachable state.
THEOREM Invariance == Spec => []IInv
<1>1. Init => IInv
  <2> SUFFICES ASSUME Init PROVE IInv
    OBVIOUS
  <2>1. TypeOK
    <3>1. 0 \in Versions
      BY EditsAssumption DEF Versions
    <3>2. /\ store \in Versions /\ edits \in Versions
          /\ read \in [Requests -> Versions]
          /\ graph \in [Engines -> Versions]
          /\ doc \in [Timers -> Versions]
      BY <3>1 DEF Init
    <3>3. \A r \in Requests : pc[r] = "idle" /\ engMu # r
      BY NonesAssumption DEF Init
    <3>4. disturbed \in BOOLEAN /\ silent \in BOOLEAN
      BY DEF Init
    <3> QED
      BY <3>2, <3>3, <3>4 DEF Init, TypeOK
  <2>2. OneEngine /\ OwnTimers /\ NoOverlap /\ UpToDate /\ StaleIsFollowed /\ Creating
    BY DEF Init, OneEngine, OwnTimers, NoOverlap, UpToDate, StaleIsFollowed, Creating, Promised
  <2> QED
    BY <2>1, <2>2 DEF IInv
<1>2. IInv /\ [Next]_vars => IInv'
  BY TypeKept, OneEngineKept, OwnTimersKept, NoOverlapKept, UpToDateKept, StaleIsFollowedKept,
     CreatingKept DEF IInv
<1> QED
  BY <1>1, <1>2, PTL DEF Spec

\* Types, and: a goroutine that rebuilds has an engine and a document to do it with.
THEOREM TypeCorrect == Spec => []TypeOK
<1>1. IInv => TypeOK
  BY DEF IInv
<1> QED
  BY <1>1, Invariance, PTL

\* getOrCreateEngine and stopEngine: the engine that runs is the registered one, however
\* many requests ask for one at a time.
THEOREM OneEngineRuns == Spec => []OneEngine
<1>1. IInv => OneEngine
  BY DEF IInv
<1> QED
  BY <1>1, Invariance, PTL

\* Debouncing loses no edit that is followed by syncEngine, however many requests edit
\* at a time, unless rebuilds overlap or a request is overtaken inside syncEngine.
THEOREM EditsAreNotLost == Spec => []SyncedWhenQuiet
<1>1. IInv => SyncedWhenQuiet
  <2> SUFFICES ASSUME IInv, ~ Syncing, ~ Pending, ~ disturbed, ~ silent PROVE InSync
    BY DEF SyncedWhenQuiet
  <2>1. store = 0 => InSync
    BY DEF InSync
  <2>2. ~ Coming /\ \A t \in Timers : timer[t] # "read"
    BY DEF Coming, Armed, Syncing, Pending
  <2> QED
    BY <2>1, <2>2 DEF IInv, UpToDate, Promised
<1> QED
  BY <1>1, Invariance, PTL
=============================================================================
