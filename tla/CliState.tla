------------------------------ MODULE CliState ------------------------------
(***************************************************************************)
(* internal/api: the CLI session of a device.  Router.cliStates caches one *)
(* CLIState for a device identifier, built from the stored document when   *)
(* it is first asked for.  executeCLI, setIPConfig and the readers of a    *)
(* session hold the device's lock; the diagnostics take the session        *)
(* without it; the REST handlers write the document and drop the session.  *)
(* Whoever writes the document, a command on another device included,      *)
(* stores a whole copy that it took before.                                *)
(*                                                                         *)
(* One identifier is modelled.  Several topologies may have a device of    *)
(* that identifier: the cache and the lock do not know of topologies.  A   *)
(* configuration has two parts, each the set of the edits that have gone   *)
(* into it, with 0 for the defaults: the data, which a session serializes  *)
(* into ConfigData, and the ports, the addresses of its interfaces, which  *)
(* the document has in Interfaces.  The Ethernet0 of a terminal is none of *)
(* the ports: every save writes it from the session's data.                *)
(***************************************************************************)
EXTENDS Naturals

CONSTANTS
  Topos,      \* topologies that may have the device
  Requests,   \* request goroutines
  Objects,    \* CLIState objects
  None, Free,
  MaxEdits    \* bound on the edits of a behaviour

Parts   == {"data", "ports"}
Configs == [Parts -> SUBSET (0..MaxEdits)]
Absent  == [p \in Parts |-> {}]     \* there is no device
Default == [p \in Parts |-> {0}]

ASSUME NonesAssumption == None \notin Objects /\ Free \notin Requests
ASSUME EditsAssumption == MaxEdits \in Nat
ASSUME ToposAssumption == Topos # {}

Locked  == {"cli", "ip"}   \* executeCLI, setIPConfig; completeCLI and getIPConfig are "cli"

VARIABLES
  stored,   \* the device in the document of each topology, or Absent
  edits,    \* the last number given to an edit
  cached,   \* Router.cliStates of the identifier
  lock,     \* Router.cliLocks of the identifier
  conf,     \* the configuration in each object
  pc,       \* the step each request has reached
  kind, topo, obj,   \* what it does, for which topology, with which object
  snap,     \* the device in the copy of the document that it has taken
  home,     \* history: the topology an object was built from
  acked,    \* history: the edits written to each topology and not removed with it, or Absent
            \* while something has happened to every part
  stale,    \* history: the parts stored by others since a request took its copy
  aged,     \* history: objects that REST handlers have outdated or dropped
  clash     \* history: the parts to which something has happened that nothing copes with

cache   == <<cached, lock, conf>>
request == <<kind, topo, obj, snap>>
history == <<home, acked, stale, aged, clash>>
vars    == <<stored, edits, cache, pc, request, history>>

Init ==
  /\ stored = [t \in Topos |-> Absent] /\ edits = 0
  /\ cached = None /\ lock = Free
  /\ conf = [o \in Objects |-> Default]
  /\ pc = [r \in Requests |-> "idle"]
  /\ kind = [r \in Requests |-> "peek"]
  /\ topo = [r \in Requests |-> CHOOSE t \in Topos : TRUE]
  /\ obj = [r \in Requests |-> None]
  /\ snap = [r \in Requests |-> Absent]
  /\ home = [o \in Objects |-> CHOOSE t \in Topos : TRUE]
  /\ acked = [t \in Topos |-> Absent]
  /\ stale = [r \in Requests |-> {}] /\ aged = {} /\ clash = {}

Alone(r)      == \A q \in Requests \ {r} : pc[q] = "idle"
Foreign(r, o) == home[o] # topo[r]

\* The next edit is of these parts; an edit of none changes nothing.
NewEdit(parts) == IF parts = {} THEN edits' = edits ELSE edits < MaxEdits /\ edits' = edits + 1

\* The configuration with the next edit in some of its parts.
Edited(c, parts) == [p \in Parts |-> IF p \in parts THEN c[p] \cup {edits + 1} ELSE c[p]]

Both(c, d) == [p \in Parts |-> c[p] \cup d[p]]

\* Every part, where something has happened; nothing where it has not.
AllIf(happened) == IF happened THEN Parts ELSE {}

\* These edits are written to the topologies.
Records(a) == acked' = IF clash' = Parts THEN [t \in Topos |-> Absent] ELSE a

\* A request begins: its kind, its topology and the copy that it takes.
Starts(r, k, t, copy, next) ==
  /\ pc[r] = "idle"
  /\ pc' = [pc EXCEPT ![r] = next]
  /\ kind' = [kind EXCEPT ![r] = k]
  /\ topo' = [topo EXCEPT ![r] = t]
  /\ snap' = [snap EXCEPT ![r] = copy]

\* A request ends, and releases the lock if it has it.
Ends(r) ==
  /\ pc' = [pc EXCEPT ![r] = "idle"]
  /\ lock' = IF lock = r THEN Free ELSE lock
  /\ obj' = [obj EXCEPT ![r] = None]
  /\ kind' = [kind EXCEPT ![r] = "peek"]
  /\ conf' = [o \in Objects |-> IF o = cached' \/ \E q \in Requests : obj'[q] = o THEN conf[o] ELSE Default]
  /\ UNCHANGED topo

\* Requests that have a copy of the document: setIPConfig takes it before it waits for
\* the lock, executeCLI when it has the session, the writers when they begin.
HasCopy(q) == pc[q] \in {"edit", "save"} \/ (pc[q] # "idle" /\ kind[q] = "ip")

\* A request stores the device as c.  Every other copy is older now in what is new.
Stores(r, c) ==
  LET t == topo[r]
      new == {p \in Parts : c[p] # stored[t][p]}
  IN /\ stored' = [stored EXCEPT ![t] = c]
     /\ snap' = [snap EXCEPT ![r] = Absent]
     /\ stale' = [q \in Requests |-> IF q = r THEN {}
                                     ELSE IF HasCopy(q) /\ topo[q] = t THEN stale[q] \cup new
                                     ELSE stale[q]]

\* A request throws its copy away.
Forgets(r) == /\ snap' = [snap EXCEPT ![r] = Absent]
              /\ stale' = [stale EXCEPT ![r] = {}]

\* The sessions that somebody has.
InUse == {o \in Objects : \E q \in Requests : obj[q] = o}

\* The sessions of a topology's device are out of date.
Outdates(t) == aged' = aged \cup {o \in InUse \cup {cached} : o # None /\ home[o] = t}

-----------------------------------------------------------------------------
(* Requests that use the session.                                          *)

\* executeCLI and completeCLI ask for the device's lock first, as does getIPConfig when it
\* has found the device; setIPConfig clones the document before.
Begin(r, t) ==
  /\ \/ Starts(r, "cli", t, Absent, "wait")
     \/ stored[t] # Absent /\ Starts(r, "ip", t, stored[t], "wait")
  /\ UNCHANGED <<stored, edits, cache, obj, history>>

\* runDiagPing and runDiagTraceroute do without the lock.
Peek(r, t) ==
  /\ stored[t] # Absent
  /\ Starts(r, "peek", t, Absent, "get")
  /\ UNCHANGED <<stored, edits, cache, obj, history>>

Lock(r) ==
  /\ pc[r] = "wait" /\ lock = Free
  /\ lock' = r
  /\ pc' = [pc EXCEPT ![r] = "get"]
  /\ UNCHANGED <<stored, edits, cached, conf, request, history>>

\* getOrInitCLIState: the session is cached.
Hit(r) ==
  /\ pc[r] = "get" /\ cached # None
  /\ obj' = [obj EXCEPT ![r] = cached]
  /\ pc' = [pc EXCEPT ![r] = "use"]
  /\ clash' = clash \cup AllIf(Foreign(r, cached))
  /\ Records(acked)
  /\ UNCHANGED <<stored, edits, cache, kind, topo, snap, home, stale, aged>>

\* ... or is built from the stored document, outside cliMu: the data from ConfigData, the
\* interfaces from Interfaces, whatever ConfigData says of them.
Miss(r) ==
  /\ pc[r] = "get" /\ cached = None
  /\ \E o \in Objects :
       /\ \A q \in Requests : obj[q] # o
       /\ conf' = [conf EXCEPT ![o] = IF stored[topo[r]] = Absent THEN Default ELSE stored[topo[r]]]
       /\ home' = [home EXCEPT ![o] = topo[r]]
       /\ aged' = aged \ {o}
       /\ obj' = [obj EXCEPT ![r] = o]
  /\ pc' = [pc EXCEPT ![r] = "insert"]
  /\ UNCHANGED <<stored, edits, cached, lock, kind, topo, snap, acked, stale, clash>>

\* Mutant: the session just built is cached whether there is one now or not.
InsertOverwrites(r) ==
  /\ pc[r] = "insert"
  /\ cached' = obj[r]
  /\ clash' = clash \cup AllIf(obj[r] \in aged)
  /\ Records(acked)
  /\ pc' = [pc EXCEPT ![r] = "use"]
  /\ UNCHANGED <<stored, edits, lock, conf, request, home, stale, aged>>

\* ... and cached, unless there is one by now.  It may have been outdated in between.
Insert(r) ==
  /\ pc[r] = "insert"
  /\ LET o == IF cached = None THEN obj[r] ELSE cached
     IN /\ cached' = o
        /\ obj' = [obj EXCEPT ![r] = o]
        /\ clash' = clash \cup AllIf(Foreign(r, o) \/ (cached = None /\ o \in aged))
  /\ Records(acked)
  /\ pc' = [pc EXCEPT ![r] = "use"]
  /\ UNCHANGED <<stored, edits, lock, conf, kind, topo, snap, home, stale, aged>>

\* Mutant: a request that fails returns without releasing the lock.
LeaveLocked(r) ==
  /\ pc[r] = "use"
  /\ pc' = [pc EXCEPT ![r] = "idle"]
  /\ obj' = [obj EXCEPT ![r] = None]
  /\ UNCHANGED <<stored, edits, cache, kind, topo, snap, history>>

\* A reader is done; a command is refused before it changes anything.
Leave(r) ==
  /\ pc[r] = "use"
  /\ Forgets(r)
  /\ UNCHANGED <<stored, edits, cached, home, acked, aged, clash>>
  /\ Ends(r)

\* What a command may change of a session: nothing, its data, or an address, which is in
\* both parts.
Given == {{}, {"data"}, Parts}

\* executeCLI clones the document, pings for seconds or executes the command on the
\* session: `ip address` changes the interfaces of the session but not of the copy.
RunCommand(r) ==
  /\ pc[r] = "use" /\ kind[r] = "cli"
  /\ snap' = [snap EXCEPT ![r] = stored[topo[r]]]
  /\ stale' = [stale EXCEPT ![r] = {}]
  /\ \E parts \in Given : NewEdit(parts) /\ conf' = [conf EXCEPT ![obj[r]] = Edited(@, parts)]
  /\ pc' = [pc EXCEPT ![r] = "save"]
  /\ UNCHANGED <<stored, cached, lock, kind, topo, obj, home, acked, aged, clash>>

\* setIPConfig changes the session and, in interface mode, the interface in its copy.
RunIPConfig(r) ==
  /\ pc[r] = "use" /\ kind[r] = "ip"
  /\ \E parts \in Given :
       /\ NewEdit(parts)
       /\ conf' = [conf EXCEPT ![obj[r]] = Edited(@, parts)]
       /\ snap' = [snap EXCEPT ![r] = Edited(@, parts \ {"data"})]
  /\ pc' = [pc EXCEPT ![r] = "save"]
  /\ UNCHANGED <<stored, cached, lock, kind, topo, obj, history>>

\* The session is serialized into ConfigData of the copy, and the copy is stored.
Save(r) ==
  LET c == [snap[r] EXCEPT !["data"] = conf[obj[r]]["data"]]
  IN /\ pc[r] = "save" /\ snap[r] # Absent
     /\ Stores(r, c)
     /\ clash' = clash \cup (stale[r] \ {"data"}) \cup AllIf(obj[r] \in aged)
     /\ Records([acked EXCEPT ![topo[r]] = Both(@, c)])
     /\ UNCHANGED <<edits, cached, home, aged>>
     /\ Ends(r)

\* There is no device to save it in; or the store refuses the document, an error that
\* executeCLI does not look at.
NotSaved(r) ==
  /\ pc[r] = "save"
  /\ clash' = clash \cup AllIf(snap[r] # Absent)
  /\ Records(acked)
  /\ Forgets(r)
  /\ UNCHANGED <<stored, edits, cached, home, aged>>
  /\ Ends(r)

-----------------------------------------------------------------------------
(* Requests that write the document without the session.                   *)

\* A REST handler, or a command on another device of the topology, reads the document and
\* clones it.
Read(r, t) ==
  /\ Starts(r, "write", t, stored[t], "edit")
  /\ UNCHANGED <<stored, edits, cache, obj, history>>

\* executeCLI or setIPConfig of another device stores the whole clone, with this device as
\* it was when the clone was taken: before a ping of seconds, or before a wait.  The REST
\* handlers that are about something else do the same.  Or nothing is stored.
PutBack(r) ==
  /\ pc[r] = "edit"
  /\ \/ Stores(r, snap[r]) /\ clash' = clash \cup stale[r]
     \/ Forgets(r) /\ UNCHANGED <<stored, clash>>
  /\ Records(acked)
  /\ UNCHANGED <<edits, cached, home, aged>>
  /\ Ends(r)

\* A REST handler stores a device as the request has it.
NewDevice(r) ==
  /\ Stores(r, Default)
  /\ Records([acked EXCEPT ![topo[r]] = Default])
  /\ UNCHANGED edits

\* A REST handler changes the device as it has read it, or replaces it.
ChangesDevice(r) ==
  /\ pc[r] = "edit"
  /\ \/ \E parts \in {{}, {"data"}, {"ports"}} :
          /\ snap[r] # Absent
          /\ NewEdit(parts)
          /\ Stores(r, Edited(snap[r], parts))
          /\ clash' = clash \cup stale[r]
          /\ Records([acked EXCEPT ![topo[r]] = Edited(@, parts)])
     \/ /\ UNCHANGED clash
        /\ NewDevice(r)
  /\ Outdates(topo[r])

\* Mutant: updateDevice does not drop the session.
UpdateKeepsSession(r) ==
  /\ ChangesDevice(r)
  /\ UNCHANGED <<cached, home>>
  /\ Ends(r)

\* updateDevice, updateTopology: the change, then the drop.
Update(r) ==
  /\ ChangesDevice(r)
  /\ pc' = [pc EXCEPT ![r] = "drop"]
  /\ UNCHANGED <<cache, kind, topo, obj, home>>

\* updateTopology, where the disk fails: the document has changed but the session is kept.
UpdateFails(r) ==
  /\ pc[r] = "edit"
  /\ clash' = Parts
  /\ NewDevice(r)
  /\ Outdates(topo[r])
  /\ UNCHANGED <<cached, home>>
  /\ Ends(r)

\* The device goes, with the edits it has had.
Removes(r) == /\ Stores(r, Absent)
              /\ acked' = [acked EXCEPT ![topo[r]] = Absent]
              /\ Outdates(topo[r])

\* deleteDevice.
Remove(r) ==
  /\ pc[r] = "edit"
  /\ Removes(r)
  /\ pc' = [pc EXCEPT ![r] = "drop"]
  /\ UNCHANGED <<edits, cache, kind, topo, obj, home, clash>>

\* addDevice and createTopology: a new device, which may replace one, and no drop.
Add(r) ==
  /\ pc[r] = "edit"
  /\ clash' = clash \cup AllIf(cached # None)
  /\ NewDevice(r)
  /\ Outdates(topo[r])
  /\ UNCHANGED <<cached, home>>
  /\ Ends(r)

\* Every session in anybody's hands is one that was dropped.
Uncaches == /\ cached' = None /\ aged' = InUse

\* dropCLIState.  With nobody else at work, the next session will be as stored.
Drop(r) ==
  /\ pc[r] = "drop"
  /\ Uncaches
  /\ clash' = IF Alone(r) THEN {} ELSE clash
  /\ acked' = IF Alone(r) THEN stored ELSE acked
  /\ Forgets(r)
  /\ UNCHANGED <<stored, edits, home>>
  /\ Ends(r)

\* deleteTopology drops the sessions of the devices it finds first ...
DropFirst(r) ==
  /\ pc[r] = "edit"
  /\ IF snap[r] # Absent THEN Uncaches ELSE UNCHANGED <<cached, aged>>
  /\ pc' = [pc EXCEPT ![r] = "delete"]
  /\ Forgets(r)
  /\ UNCHANGED <<stored, edits, lock, conf, kind, topo, obj, home, acked, clash>>

\* ... and deletes the document then.
DeleteTopology(r) ==
  /\ pc[r] = "delete"
  /\ Removes(r)
  /\ UNCHANGED <<edits, cached, home, clash>>
  /\ Ends(r)

-----------------------------------------------------------------------------
Session(r) == \/ Lock(r) \/ Hit(r) \/ Miss(r) \/ Insert(r)
              \/ Leave(r) \/ RunCommand(r) \/ RunIPConfig(r) \/ Save(r) \/ NotSaved(r)

Write(r) == \/ Update(r) \/ UpdateFails(r) \/ Remove(r) \/ Add(r) \/ Drop(r)
            \/ PutBack(r) \/ DropFirst(r) \/ DeleteTopology(r)

Next == \E r \in Requests : \/ \E t \in Topos : Begin(r, t) \/ Peek(r, t) \/ Read(r, t)
                            \/ Session(r) \/ Write(r)

Spec == Init /\ [][Next]_vars

\* A request that has begun goes on.  The one step that others can prevent for a while is
\* getting the lock, and sync.Mutex lets a waiter in before long.
Fairness == \A r \in Requests : SF_pc(Session(r))

FairSpec == Spec /\ Fairness

-----------------------------------------------------------------------------
(* Properties.                                                             *)

PC == {"idle", "wait", "get", "insert", "use", "save", "edit", "drop", "delete"}

\* The values each variable takes; the lock is held from the wait for it to the end, and
\* a request that uses a session has one.
TypeOK ==
  /\ stored \in [Topos -> Configs] /\ edits \in 0..MaxEdits
  /\ cached \in Objects \cup {None} /\ lock \in Requests \cup {Free}
  /\ conf \in [Objects -> Configs]
  /\ pc \in [Requests -> PC]
  /\ kind \in [Requests -> Locked \cup {"write", "peek"}]
  /\ topo \in [Requests -> Topos]
  /\ obj \in [Requests -> Objects \cup {None}]
  /\ snap \in [Requests -> Configs]
  /\ home \in [Objects -> Topos]
  /\ acked \in [Topos -> Configs]
  /\ stale \in [Requests -> SUBSET Parts]
  /\ aged \subseteq Objects /\ clash \subseteq Parts
  /\ \A r \in Requests :
       /\ pc[r] \in {"insert", "use", "save"} => obj[r] \in Objects
       /\ lock = r <=> kind[r] \in Locked /\ pc[r] \in {"get", "insert", "use", "save"}

Quiet == \A r \in Requests : pc[r] = "idle"

\* Whenever nobody is at work on the device, the cached session has the data of the
\* document it was built from and knows every address of its Interfaces; an address that
\* it has beyond them, given by `ip address`, is in ConfigData only.  So whatever the
\* diagnostics, which come without the lock, the commands and a REST edit that overlaps
\* them do, except where a writer of the document has put back a copy of the device
\* older than what was stored meanwhile (setIPConfig and executeCLI do so for the
\* Interfaces of their device and for the whole of any other, the REST handlers for the
\* whole), a session was cached or saved that a REST edit had outdated or dropped, a new
\* device came under a cached session, the store refused a command's document, the disk
\* failed an update, or two topologies share the identifier.
SessionAgrees ==
  Quiet /\ cached # None =>
    LET device == stored[home[cached]]
        session == conf[cached]
    IN device # Absent =>
         /\ "data" \notin clash => device["data"] = session["data"]
         /\ "ports" \notin clash => device["ports"] \subseteq session["ports"]
         /\ clash = {} => session["ports"] \subseteq device["ports"] \cup device["data"]

\* An edit that was answered, by command or by REST, is in the document until the device
\* is removed or replaced, under the same conditions: commands on one device lose none of
\* each other's data, however long a setIPConfig has waited with its copy.
NoEditLost ==
  \A t \in Topos, p \in Parts \ clash : acked[t][p] \subseteq stored[t][p]

\* A request that waits for the device's lock gets it and ends: no path keeps the lock.
LockIsReleased == \A r \in Requests : pc[r] = "wait" ~> pc[r] = "idle"
=============================================================================
