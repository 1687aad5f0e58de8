# A verification project for eNSP Web Lab

eNSP Web Lab is a network laboratory served over HTTP: topologies of simulated
Huawei devices are edited in a browser, stored as JSON files, configured through
a CLI and exercised by a packet simulator. The server is one Go process; its
correctness rests on how request goroutines, an autosave loop, debounce timers,
simulation engines and cached CLI sessions share the topology documents, and on
what long sequences of commands do to the configuration of a device. This project
models that in TLA+, checks small instances with TLC and proves the main safety
properties with TLAPS for every instance.

## 1. Inventory

| Component | State | Operations | Talks to |
|---|---|---|---|
| Topology store, `internal/storage` | the map `topologies` under `mu`; one file `<id>.json` per topology; `<id>.json.tmp` while saving; packet records | Create, Update, Delete (lock held through the disk operation); Flush, StartAutoSave (copies under the read lock, saves without it); loadAll at start | the file system; called by the handlers and by `main` |
| Document handlers, `internal/api/*_handlers.go` | none: each request holds the document it has read | read with GetTopology, check, edit a Clone, replace with UpdateTopology; createTopologySimple, the VXLAN demonstration | store; then syncEngine and dropCLIState |
| Engine lifecycle, `internal/api/router.go` | `engines` under `engMu`, `syncTimers` under `syncMu`, one goroutine per expired timer | getOrCreateEngine, stopEngine, syncEngine, runSync | store (reads), engine (Rebuild, Start, Stop) |
| CLI sessions, `internal/api/cli_handlers.go` | `cliStates` and `cliLocks` under `cliMu`, the fields of each CLIState | executeCLI, setIPConfig, getIPConfig, completeCLI (device lock); diagnostics (no lock); dropCLIState | store (the whole document, from a copy), engine (ping) |
| Server life cycle, `cmd/server/main.go` | the phase: serving, last flush, draining | start, signal, Flush, cancel autosave, Shutdown | store, HTTP server |
| ns-x engine, `internal/sim/engine_nsx.go` | graph snapshot, running flag, ping slots, reply channels, event history | Start, Stop, Rebuild, SendPacket, Ping, Traceroute, Events | called by the handlers; reads a clone of the document |
| gont engine, `internal/sim/gont_emulator.go` | namespaces of the kernel | Start | created by getOrCreateEngine |
| Link quality, `internal/api/link_quality_sync.go` | none | recompute a link's quality from its ends' sessions | CLI sessions, document |
| Paths and ACLs, `internal/cli/traceroute.go`, `acl_eval.go` | none | functions of a document and sessions | diagnostics |
| CLI commands, `internal/cli/parser.go` and the `*_cmd.go`, `*_eval.go` beside it | fields of a session, keys of its configuration, the view | the commands and their undo; the serializer that a session is built from again | sessions, displays |
| Topology manager, `internal/topology/manager.go` | a map of topologies, subscribers, an optional rebuilder | the same edits, with notification | used by tests alone |
| Protocol simulators, `internal/protocol` | tables and timers of STP, OSPF, BGP, ICMP, DHCP, NAT, ARP, TCP, FTP, DNS, VXLAN, ... | handlers under a lock, goroutines that sleep | nothing else |
| FRR backend, `internal/router/router.go` | daemons of each router, the files under `/etc/frr` | Start, Stop, ApplyOSPFConfig, ApplyBGPConfig | processes, files shared by all routers |
| Rate limits, metrics, events, `internal/api/router.go`, `internal/metrics` | windows, counters, queue of events | allow, NotePending, Snapshot, emit, streamSimEvents | every request |
| Front end, `frontend/src` | the selected topology, its document, windows, terminal logs | calls that are answered late, localStorage | the server |
| Logging, build information, displays and completion, `archive/` | | | not modelled |

Hard behaviours, and what must be true of them (PROJECT.json lists each at its
line under `hazards`):

* **Store.** A save is four system calls on two names; Flush makes them without
  the lock that Update makes them under. A file must be whole at every instant,
  an answered change must survive a crash, and autosave must repair what a
  failure or a race left behind.
* **Documents.** Every edit is check-then-overwrite with no lock across: requests
  overwrite each other, bring back what was deleted, and check against a document
  that is no longer there. Whatever is lost, the stored document must remain a
  coherent one: no link without its device, no port with two links.
* **Engine.** One engine per topology, and it must come to simulate the last
  document although timers are restarted, expire while being replaced, and
  rebuild concurrently with each other, with creation and with deletion.
* **Sessions.** A session is a cache of the document and the document is written
  from the session: they must agree when the device is at rest, and an answered
  edit must not be lost although every writer stores a whole document that it copied
  before; the device's lock must be released on every path.
* **Pings.** Stop closes the reply channels of pings in progress, two pings can
  read the same clock, at most ten run at a time and the queue is short: no send on
  a closed channel, no reply out of nothing, every ping returns. Floods pass loops
  and double links and must end.
* **Commands.** What one command requires another removes, views nest, and a
  session is dropped and built again from what the serializer kept.
* **Goroutines of simulators.** They sleep between two states of a port, a
  neighbour or a ping, and what they find when they wake up has changed.
* **The browser.** Answers come late and out of order, after the user has gone on.

## 2. The modules

| Module | Models | Abstraction |
|---|---|---|
| `FileStorage` | the store, the autosave loop and main's last Flush, with disk faults and crashes at any step | a document is a value with a length; a file is a head and a length |
| `DurableStore` | what the store promises: memory, and a durable copy a restart reads back | abstract specification, implemented by `FileStorage` |
| `TopologyEdit` | the handlers that edit one document | kinds, ports, link ends; links as a set |
| `TopologyManager` | the manager's methods, subscriptions, notification, rebuilder | documents of `TopologyEdit` |
| `TopologyBuild` | the numbering of a drawn network, the demonstration fabric | an address is a pair of octets |
| `EngineSync` | router.go's engines and debounce timers, for one topology | documents are numbered in the order they are stored |
| `CliState` | the session of one device identifier, in several topologies | a configuration is the set of edits that went into it |
| `NsxEngine` | Start, Stop, SendPacket, Ping of the engine | a packet comes back as a reply or does not |
| `GontEngine` | how an engine of the other kind comes to be started | locks and their holders |
| `Forwarding` | what the network does with an echo request: bridges, VTEPs, endpoints | one step moves all packets a hop |
| `PathSearch`, `PathAcl` | the breadth-first search the code has in four places; filters and address translation along its path | addresses are model values, a rule is two sets of them |
| `LinkAggregation`, `AaaConfig`, `InterfaceConfig`, `RoutingConfig`, `SwitchPorts`, `HostConfig`, `AclConfig`, `DeviceServices` | the commands of a device, by feature | the keys of a configuration as sets, functions and records |
| `LinkQuality` | the quality of links, for two or more devices and their sessions | a quality is a number |
| `ProtocolTimers`, `ProtocolRouters`, `ProtocolTables` | the protocol simulators: those with goroutines, the settings of routers, those with tables | sleeps have no length |
| `ServerWatch` | rate limiters, metrics, packet records, events and their viewers | one clock of ticks |
| `RouterBackend` | the FRR routers and the files they share | a line is a model value; `Within` says which is a part of which |
| `FrontEnd`, `Terminals` | the browser tab; the terminals and their logs | a render with its effects is a step |
| `MC*` | the instances TLC checks | |
| `*Proofs` | the theorems | |

The modules meet in the stored document and split its aspects: `FileStorage` sees
it as a whole and follows it to the disk, `TopologyEdit` sees its shape,
`EngineSync` its version, `CliState` one device's part of it, and the modules of
commands what is in that part. The order of calls inside a handler (store, then
drop the session, then syncEngine) is kept in each. `TopologyManager` extends
`TopologyEdit`, `PathAcl` extends `PathSearch`; `MCAnswers`, `MCDevice`,
`MCProtocols` and `MCTopologyEdit` put modules that share no state into one
instance, as scenes.

### FileStorage

`mem` and `lock` are `topologies` and `mu`; a lock held exclusively is the
goroutine's name, a read lock is never held across a step. `Put` is CreateTopology
and UpdateTopology up to the disk, `Delete` the same of DeleteTopology; the saves
are `SaveOpen` (O_CREATE, O_TRUNC), `SaveWrite`, `SaveRename` and the error paths
`SaveWriteFails`, `SaveRenameFails`, `SaveCleanup`, run by requests with the lock
and by `Flush...` without it. `fd` follows the file a goroutine has open when its
name is renamed or removed, which is what two saves of one topology can do to each
other. `CrashRestart` is the end of the process at any step and NewFileStorage
after it. Power loss that loses writes the kernel had accepted is not modelled: the
code calls no fsync.

The history variable `raced[id]` says that two goroutines had work on a topology
at the same time: a Flush that has it in its snapshot counts from the snapshot to
its save. `unsaved[id]` says that its last disk operation failed.

### TopologyEdit, TopologyManager, TopologyBuild

`Read` is GetTopology at the head of a handler (`CheckAbsent` for a creation) and
the other actions are everything after it, ending in the replacement of the stored
document. What happens between the two, of other requests, is all the
interleaving there is: the shared document is never written in place. ConfigureDevice
stands for executeCLI and setIPConfig, which write back the interfaces of a device.
`reused` remembers that a client sent a link with the identifier of another, a link
from a port to itself, or a whole document whose links share a port; the handlers
do not look for these. Bodies are from small constant sets. The model assumes that a
body lists links with both ends.

The manager holds one mutex through every method, the rebuild included, so a method
is a step; the notification of a change is a goroutine of its own with a copy of the
subscriptions. `TopologyBuild` numbers devices and ports in every order, as ranges
over maps do. It extends `TopologyManager`, which extends `TopologyEdit`; they share the
definition of a document and no state, and `TopologiesSpec` interleaves the steps of the
manager and of a request that is numbered.

### EngineSync

One topology. A request passes through `Edit`, `Arm` (time.AfterFunc) and `Swap`
(the section under syncMu), and a timer's goroutine through `LookUp`, `ReadDoc`,
`Rebuild` and `Forget`. getOrCreateEngine holds engMu over `LockAndRead` and
`Create`, which is why `LookUp` and `StopEngine` wait for it. An engine object can be
rebuilt after it has been stopped, and is reused only when nothing refers to it.
`EditSilently` is a handler that stores a document and does not call syncEngine.

`disturbed` names the two ways in which debouncing fails: a document was read for a
rebuild while another rebuild had its document in hand, or a request, in `Swap`,
stopped a later timer when its own had expired. It is cleared by the next edit that
finds nothing pending.

### CliState

One device identifier, since the cache and the locks are keyed by it alone; one or two
topologies have the device. A configuration has two parts, each the set of the edits
that went into it: the *data*, which a session serializes into ConfigData, and the
*ports*, the addresses that the document keeps in Interfaces and that a session is built
from (cli_handlers.go:264-282). `Begin` (executeCLI, setIPConfig, getIPConfig,
completeCLI) and `Peek` (diagnostics, no lock) start a request; `Hit`, `Miss`, `Insert`
are getOrInitCLIState with its two critical sections. Copies of the document are taken
where the code takes them: setIPConfig clones it before it waits for the lock
(ipconfig_handlers.go:150, 181), so `Begin` does; executeCLI clones it with the session in
hand (cli_handlers.go:66-77), so `RunCommand` does, and may then ping for seconds before
`Save` stores the copy with this session's data in it. A command on *another* device of the
topology takes a whole copy too (`Read`) and puts this device back as it was then
(`PutBack`), as does a REST handler that is about something else. The other REST handlers
are `Read` and then `Update`/`Remove` followed by `Drop`, `UpdateFails` and `Add` with no
drop, and `DropFirst` then `DeleteTopology`.

`stale[r]` is the set of parts that others have stored since r took its copy, and `aged`
the sessions that a REST handler has outdated or dropped while somebody has them. `clash`
collects the parts to which something has happened that nothing in the code copes with:

* a copy is stored whose part is stale: any part for `PutBack` and a REST edit, the ports only for `Save`, since the session's data replaces that of the copy. So
  an answered command is lost to a ping of another device of the topology, and an address
  to a setIPConfig that waited for the lock with its copy;
* a session is cached or saved that a REST handler has outdated or dropped;
* a device is added over a cached session;
* the store refuses a document after a command, or the disk fails an update of a whole
  topology, which then keeps the sessions;
* two topologies share the identifier.

Once both parts have clashed nothing is claimed, and `acked`, the record of the answered
edits, is not kept up until a drop ends it: that halves the states.

A drop with nobody else at work ends a clash. Outside of it the properties are about everything
else: commands and setIPConfigs on one device in any order, sessions built and cached by
diagnostics without the lock, REST edits between them, and any overlap of readers and
writers that stores nothing stale. `ip address` changes the session's interfaces and its
data but not the Interfaces of the document, which is why `SessionAgrees` lets a session
have addresses that are in ConfigData only.

### NsxEngine, GontEngine

One step is one critical section of `e.mu` or one operation on a channel. `Start` and
`Launch`, `Stop` and `StopCloses` are the two halves of each; a ping goes through
`Refuse` or `Accept` (the slots), then per probe `Register`, `SendChecks`, `SendQueues`,
`Receive` or `Timeout`, `Deregister`. `Poll` is the event loop taking a packet and
`Reply` the endpoint's answer. `excused` names the pings whose counts prove nothing: Stop
closed their channel, or another packet had the same clock reading; `spurious` those
that counted a probe nobody answered.

### Forwarding, PathSearch, PathAcl

`Hop` is what all handlers do with the packets under way in a millisecond: a bridge
floods what it has not seen, by the path a packet carries; a VTEP tunnels or routes; an
endpoint answers. `PathSearch` visits a device per step and its neighbours in any order;
`PathAcl` then evaluates the filters and rewrites the addresses device by device.

### Commands of a device

Every command is an action with the view it needs. A `Rebuild...` action drops the
session and builds it from what the serializer keeps; the variables that live in the
session only are set back by it. `RoutingConfig` has the session (`live`) and the stored
keys (`kept`) side by side and defines `Rebuilt` by LoadFromDeviceConfigData.
`LinkQuality` follows the copy of the document that each command works on (`copyOf`);
`doubtful` names the links whose quality may be old, and why is in the actions.

### Simulators and services

Handlers hold the protocol's lock and are steps; a goroutine takes a step per critical
section and sleeps in between for any time. `ProtocolRouters` follows calls through the
steps in which they look up a router and go on with the pointer; its tables hold rules
with wildcards or routes with netmasks (RouteEntry.Mask, as ospf.go:351 makes it), and
`ShortestNetmaskWins` says what FindRoute makes of the latter. `RouterBackend` splits
reading, truncating and writing of a file.

### FrontEnd, Terminals

A call and its answer are two steps; answers come in any order. Each terminal has a copy
of all sessions and stores the whole copy. `crossed` records that an answer met another
document than its own, came before an earlier one, brought back a note that is being
deleted, or created a topology under the name of one that a note is being deleted from
(`InTurn`): if that deletion fails, the note appears in the new document.

## 3. Runs

| Run | Shows | Bounds and why they are enough |
|---|---|---|
| `file_storage` | files whole and in agreement with memory unless two goroutines raced, `DurableStore` implemented, autosave repairs | one topology (topologies share only the lock, and a Flush orders its copies freely), a short and a long document, two requests, ticker and main, one disk fault, a crash at any step |
| `file_storage_torn` | finding 1 | no faults |
| `topology_edit` | links stay anchored and ports exclusive; the manager's document sound and its subscribers told; addresses of drawn networks distinct | two devices whose kinds change, two link identifiers, two requests: a check and a foreign write between it and its own; `MaxChanges` 5 calls of the manager, `MaxDrawn` 3 links in a drawing |
| `engine_sync` | one engine, synchronised when quiet, and eventually | two requests, two timers, two engine objects (one stopped and still referred to by a timer, one new), three documents |
| `engine_sync_last_edit` | finding 2 | same instance |
| `cli_state` | session and document agree, no edit is lost, the lock is released | two requests, two session objects, one topology, one edit (what becomes of an edit does not depend on the others, and a request that changes nothing stands for the second actor) |
| `nsx_engine` | no send on a closed channel, nothing received that was not answered, queues shrink after Stop, pings return | two pings and one controller, one or two slots, one probe each, a queue of one packet, two clock readings (equal ones are the interesting case), two starts |
| `gont_start` | finding 4 | two callers |
| `answers` | scene *flood*: pings answer for connectivity, floods end; *path*: searches, filters and translation; *screen*: the browser tab; *terminals*: logs | *flood*: every plain fabric of three core machines and two hosts, double links included, and VXLAN overlays, time to live 4; *path*: every network of four devices, those of five that differ in the place of filters and translation; *screen*: two topologies, two calls, two edits, one failure; *terminals*: two boxes, two consoles, two commands, two log entries |
| `device` | sixteen scenes, one for each feature of a device: what a command required is still there after others, and what was configured survives a rebuild of the session | the loads (`MaxLag` 4, `MaxAaa` 5, `MaxVrrp` 3, `MaxIgp` 4, `MaxSecurity` 11, `MaxStp` 4, `MaxAcl` 5, `MaxSvc` 2) bound how much is configured at once, not how many commands are given; names come in twos |
| `acl_host_rule` | finding 3 | addresses of three bits |
| `protocols` | eighteen scenes, one for each simulator or service | two or three bridges, neighbours, clients; interfaces of two costs, which may change when one is added again; tables of two routes or rules with any wildcard or netmask of two bits twice; the `Max...` constants count calls, BPDUs, additions |

The instances of several scenes choose the scene in the initial state and keep it;
their modules share no variable, so that a composition would only multiply the states.
Every `Max...` constant is a guard of the actions that count. Symmetry (of the
requests) is used in `topology_edit` alone, which checks no liveness. Deadlock is
checked in all passing runs but `file_storage`, where the server stops for good once
main drains; `cli_state`, where the bound on edits ends a request's way; and `answers`,
where a search and a flood end.

**Fairness.** In `FileStorage` the autosave goroutine loops over a ticker and its saves are
system calls that return: `Flush(Ticker)`, `Save` and `Unlink` are weakly fair;
requests and main's stop are not. In `EngineSync` a request inside syncEngine or
getOrCreateEngine goes on and a timer's goroutine runs; no edit need ever come. In
`CliState` the steps of a request that has begun are weakly fair, and getting the lock is
strongly fair, since sync.Mutex hands the lock to a waiter that has starved for a
millisecond. In `NsxEngine` a ping goes on when it can: its waits end with a reply, a
closed channel or a timer. In `Forwarding` the event loop of gonetsim takes what is
queued. In `ProtocolTimers` goroutines that sleep wake up, and a neighbour that has been
added goes on to connect; no BPDU, hello or update need come. In `GontEngine` a caller goes
on when it can, which makes the counterexample one of a lock and not of a pause.

## 4. Findings

Four statements of the repository's comments and tests are not true of the code;
PROJECT.json (`findings`) quotes them, and each has a run that ends in a counterexample.

1. `FilesAlwaysLoadable`: Flush and an update share the temporary file. One renames it
   while the other has it open, and the other's write goes into `<id>.json` itself: a
   crash then leaves a document with the tail of a longer one. `AtomicUnlessRaced` and
   its proof say that this is the only way.
2. `LastEditReachesEngine`: rebuilds overlap and the older document is built last, or an
   overtaken syncEngine stops the timer of the later edit. `SyncedWhenQuiet` and its
   proof say that there is no third way.
3. `HostRules`: an ACL rule without a wildcard matches every address.
4. `EngineIsReturned`: Start of the gont engine locks a mutex it holds.

Met while modelling and described by a history variable, a guard or a hazard, with no
run of their own:

* Documents: createTopology checks and creates in two calls; a link sent with an
  identifier that exists is exempt from the port check and joins ports that are taken;
  a command on a hub removes its default Ethernet0 under its link.
* Engines: one created between the two halves of a deletion stays without a topology;
  all viewers of a topology's events take from one queue, so each sees a part; Stop never
  closes it, whatever engine.go:44-46 says.
* Sessions: a session built before an update can be cached after its drop; two topologies
  with the same device identifier share one; a command on one device, a ping of seconds
  among them, stores the whole document as it was when the command began, and so undoes
  what commands on other devices have answered meanwhile (cli_handlers.go:77, 118, 148);
  setIPConfig does the same from a copy that is older than its wait for the lock, for its
  own device's Interfaces as well; an address given by `ip address` is in ConfigData but
  not in the Interfaces that a session is built from.
* Routes: FindRoute takes netmasks for wildcards, so the shortest netmask wins, a default
  route matches one address alone and a host route is never found (protocol.go:608-630).
* ACLs: of several ACLs bound in one direction a random one is evaluated
  (acl_eval.go:96), which the model chooses freely; filters between a translating device
  and the device behind it are not evaluated (acl_eval.go:657), which the model does too.
* Forwarding: a bridge that is no VTEP floods to every link whatever its VLAN, against
  default_topo.go:112; in the VXLAN demonstration server-3 and vm-3 have the same address.
* Commands: a prefix line that cannot be parsed is dropped silently; the MLAG simulator
  dereferences a nil domain; port translation runs past EndPort when every port is taken.
* Routers: all FRR routers share the files under `/etc/frr`.
* gont: its capture closes `done` twice. Manager: the comment on Close does not hold.
* Front end: selecting a topology again empties its stored window layout (App.tsx:154, 178).

## 5. Proofs

TLAPS proves these for every value of the constants that meets the named assumptions,
which TLC evaluates in the runs. They say: sentinel values are distinct from what
they stand beside (`CancelledAssumption` of the place of a cancelled subscription, and others), constant sets that the code iterates over are finite (`Pingers`,
`Topos`, `Machines` and documents only where a count is taken or a length compared),
bounds are positive numbers, payloads have the right shape: links join machines
(`FabricsAssumption`), devices have addresses of the set that packets are drawn from
(`AddressesKnown`), a packet lives for a hop at least behind the first one
(`TTLAssumption`), the lines of a request are a sequence (`BackendAssumption`).

`Numbers` holds what several of these proofs need of numbers: least and greatest
elements of finite sets, powers of two, the bits of a number, and induction along an interval.
The library states induction with an operator for a parameter, which the provers cannot
instantiate; `FirstLost` says instead that where a set of numbers has one end of an interval
and not the other there is a step at which it loses, which rests on the well-foundedness
of strict inclusion among finite sets. A pass over a sequence (a recursive function on
`0..n`) exists by the same argument: a longest beginning on which it can be computed is all
of it (`HoldsTo`, `PassExists`). With these, statements by induction along a path, a table or
the layers of a search are proved one instance at a time.

| Theorem | Property | Argument |
|---|---|---|
| `FileStorageProofs`: `TypeCorrect`, `SaveIsAtomic`, `ReturnedIsDurable` | type, `AtomicUnlessRaced`, `DurableUnlessRaced` | A rename could bring anything in, so `IInv` adds what the program counter says of a goroutine's locals and of the lock (`Locals`), that an open file is being written (`OpenFiles`), that a topology nobody raced for has one goroutine at work on it at most (`Exclusive`), and that what it will save is what memory holds and the temporary file its own (`Sole`). |
| `StoreImplementsPromise` | `ImplementsDurableStore` | Refinement. `durable` maps to what loadAll would read, or Unknown where goroutines raced; each step is a change, a persist, a lapse, a restart or a stutter of `DurableStore`. |
| `TopologyEditProofs`: `TypeCorrect`, `NoDanglingLinks`, `OneLinkPerPort` | type, `LinksAnchored`, `PortsExclusive` | A request writes from a document it read some time ago, so `IInv` says of every document a request holds what it says of the stored one; then each handler need only make a good document from a good one (`WithDeviceGood`, `LinkAddedGood`, ...), and overwriting does no harm (`ReplaceKeeps`). |
| `TopologiesStaySound` | `TopologiesSound` | The manager's document is good by the same lemmas, but for `validateLink`, which looks at more (`ValidLinkGood`). Until Close, a subscriber stands in the list once, at the place its cancel function has (`Places`), and in each goroutine once (`Flights`), so that what it has heard and what goroutines are to tell it part what it is due (`Tellings`). A network that is numbered: an address is of a subnet already given, hosts are counted in theirs (`AddressesInv`), and ends that share a subnet are behind one port of a router (`Behind`). The demonstration: an address, but for the shared one, determines who holds it (`HolderOf`), and a port that is not a server's its link (`LinkOf`). |
| `EngineSyncProofs`: `TypeCorrect`, `OneEngineRuns`, `EditsAreNotLost` | type, `OneEngine`, `SyncedWhenQuiet` | While rebuilds do not overlap (`NoOverlap`), what the engine lacks is in the hands of somebody who has not yet read the document, or has just been read by the only rebuild under way (`UpToDate`); a rebuild with an older document is followed by another (`StaleIsFollowed`). |
| `CliStateProofs`: `TypeCorrect`, `SessionsAgree`, `EditsAreKept` | type, `SessionAgrees`, `NoEditLost` | Two groups. `Basics`: a copy is as the document in every part that is not `stale` (`CopyLatest`), a session not yet cached is in one request's hands. `Cope`: whoever uses a session that is not `aged` uses the cached one (`UsesCached`), so that the lock lets one command at a time change it; the cached session is never behind the document in a part without a clash and never ahead of it but while a command saves (`CacheAgrees`); what a command saves of its copy nobody has stored since (`SavesFresh`); a cached session that is out of date will be dropped (`AgedIsDropped`). So who stores a copy stores nothing older than what is there. |
| `NetworkProofs`: `TypeCorrect`, `NoSendOnClosed`, `ReceivedWasAnswered`, `ClosedQueueOnlyShrinks`, `SlotsAreRespected` | type, `RegisteredIsLive`, `SpuriousExplained`, `NothingQueuedClosed` | A ping that is not excused has an identifier of its own, so what is in its channel is an answer to its probe; a registered channel belongs to a ping between registration and removal; as many pings are past the semaphore as slots are taken. |
| `TimersStaySound` | `TimersSound` | Four invariants, one for each simulator. `BridgeInv`: a root port goes with a root smaller than the bridge's own, a bridge that is its own root has cost zero, a port that has the root role costs no more than the way (an interface that is added again has lost the role and may get any cost), and a port in listening or learning has its goroutine. `RouterInv`: the first neighbour on a segment is found alone. `PeersInv`: an established neighbour announced its routes. `CountersInv`: a ping whose counters nobody mixed is the only one between its reset and its end. |
| `TablesStaySound` | `TablesSound` | One invariant and one lemma for each simulator (`LeasesKept`, `PortsKept`, `ArpKept`, `DialKept`, ...). What a translation is about to store is not below the rule's first port; until a connection is closed, connections are on ports below the next one by their number. The next free number exists because a finite set of numbers has a greatest one (`HasGreatest`). |
| `RoutersStaySound` | `RoutersSound` | `CalmInv`: until two calls meet, one at most is under way, and it `Leads` to a good router: there is a set of routers, steps left and values read, which each next step stays in and which an empty list leaves only at a good router. Such a set is given for each kind of call (`PlainLeads`, `GivenSound`, `GroupsSound`, ...), and every call of the module is of one of these kinds (`Shape`). Whatever meets, `ListsInv` leaves room in every list for the appends that wait, and `EnabledInv` says that a step about to add an entry holds a router in which the feature was enabled. The lookups read a table that does not change meanwhile: `FirstLost` on the pass of `FindRoute` (`BestIsFound`), powers of two for the wildcards, and for the netmasks that what two octets have of zeros they lack of ones (`ZerosAndOnes`). |
| `AnswersProofs`: `TypeCorrect`, `PathsAreLinked`, `NoneIsNone` | type, `PathIsLinked`, `NoneMeansNone` | The predecessors of visited devices lead back to the source along links; the visited set is closed under links when the queue is empty. |
| `ShortestFound` | `PathIsShortest` | The layers of the search: the level of a device is the length of the way back over predecessors; the queue is in order of levels, spans two of them at most, and a device not yet seen has no neighbour that is done. So no walk reaches a device in fewer links than its level, by induction along the walk (`FirstLost`). |
| `WallsAreKept` | `WallsHold` | While nothing is denied no device passed behind the source is a wall (`AclInv`); at the end the whole path is passed, and a way of links on which nothing is in a set leads around the set (`WayAround`). |
| `AgreedArrives` | `TranslatedArrives`, where devices agree | The packet that leaves the source is followed through the rewriting of each device: it has the destination asked for until a translating device is met and the one behind it after that. Where two devices translate one public address to different ones the property does not hold of every network (the path leads to one and the other rewrites), and `Agreed` says that there are no such two; the instance that TLC checks has none. |
| `PlainPingsConnect` | `PlainPingIsConnectivity` | Where links have no VLAN and no VNI, one packet of the flood is on each simple shortest way to a device that has not been passed, so what links reach is reached; and each packet is where links lead. What links reach is closed after as many steps as there are machines. |
| `OverlayPingsArrive` | `SameVlanIsJoined`, in overlay networks | `OnTrack`: one packet is on a simple way of plain links to the target, or to the VTEP the sender is behind with nothing of the target's side on its path, or is at the target, or is the reply. Each device is behind one VTEP at most (`OneVtep`), so the way meets no other; a way that leaves what plain links join leaves by a tunnel (`TunnelLeaves`), so the sender's VTEP has one, and its end is the target's VTEP (`TunnelTaken`), which then floods (`HostSideFloods`). The condition, `Overlay`: tunnels join VTEPs and have one VNI, the ends are no VTEPs, the target is within two plain links of its VTEP. |
| `ServerWatched` | `WatchSound` | The limiter: requests that pass are grouped by the first of their window, a group has as many as the limit at most, and the next begins after its time (`Grouped`, `WindowOf`), so that no time of one window meets three groups (`TwoWindows`). The counters: the window of rebuilds is an end of all of them, since times are in order (`InTime`). Events are in places that are disjoint, and the records an end of what was added (`LastAppend`). |
| `RoutersKeepTheirs` | `BackendSound` | Between the steps of a start or a stop a router has the processes of the daemons it has come to (`RouterKnown`). Until calls of two routers meet, one at most is at the files, and what it has read, or will write, mentions all that was applied (`FilesKept`). That the lines of a request are there afterwards, none twice, is by induction along the request. |
| `HistoryStaysKept` | `HistoryKept` | Until a command is answered too late or two terminals stand open, every terminal on the screen has the copy that is stored (`CopiesAgree`), so that storing it whole overwrites nothing. |
| `ScreenStaysRight` | `ScreenAgrees` | For every topology there is a history of documents behind the answers that wait, each following from the one before by the answer between them and the last being the one stored (`History`). The screen shows the first, without the notes whose deletion is under way (`ShowsFirst`); such a note has been there all along (`ForgetsLate`), and what is being added has not (`AddsOnce`), so that an answer takes the screen from one document of the history to the next (`AfterAnswer`). |
| `DeviceProofs`: `AaaResolves` | `AaaReferencesResolve` | Inductive with the type: every removal removes or resets what refers to it. |
| `InterfacesStayCoherent` | `InterfacesCoherent` | With the type and the reading of each table by its own commands (tunnels, relays, prefixes, groups). |
| `SwitchStaysCoherent` | `SwitchCoherent` | A limit can be lowered under the number of addresses learned, so the invariant speaks of the widest limit that was in force: `PeakCovers` says that the limit in force is at most that one. |
| `TrunksStayCoherent` | `TrunksCoherent` | The shown status of a trunk is recomputed by most commands and not by all: the lemmas show that it depends on the members that are up and the least active number alone, and not on mode, priorities or the most active links. |
| `RoutingStaysCoherent` | `RoutingCoherent` | The session built again equals the kept one part by part (`OspfKept`, `IsisKept`, `BgpKept`, `FamilyKept`, `EvpnKept`), and every command writes both sides alike or is one of the two losses the code has. |
| `QualityStaysRight` | `QualityAgrees` | A link not in doubt has what its two cached ends ask for; two copies of the document at once put all links in doubt (`QualityInv`). |
| `ServicesStaySound` | `ServicesCoherent` | Three invariants. `HostInv`: the stored addresses are what the session would be written as, or the session was built from them, and storing a mask a second time changes nothing (`StoredOnce`). `AclInv` is the type, and what is to be proved is about numbers: a rule compares addresses after dividing by a power of two, which is comparing them bit by bit from there on (`SameBits`, `OnesBits`). `SvcInv`: what is enabled now was enabled once (`wasOn`), which is what entries without their feature, and names without their entry, fall back on. |

Six things came out of proof attempts. `StpRole` was a CASE whose guards overlap, of
which the prover could use none: the code is a chain of ifs, and so is the model now.
`ReceiveUpdate` gives a prefix one route whatever the bound, so that the bound must be
positive (`TimersAssumption`). The bound on addresses learned is one of the limit that
was in force and not of the one that is. A trunk's status was first stated by the
priorities that choose its members, which commands change without looking at the status.
And a note's deletion that fails after the topology was dropped and created again puts the
note on the screen of the new one: `InTurn` excludes that order now (`Renews`).
`SameVlanIsJoined`, which holds in all fabrics of three core devices that the run has, is
not true of all with four: a tunnel that ends at a device that is no VTEP, a chain of
tunnels of two VNIs, or a host three plain links behind its VTEP, whose requests the VTEP
sends back through the tunnel, loses the ping. The theorem says it of overlay networks,
which have none of these; TLC finds no counterexample among those with four core devices.

Only model-checked:

* Liveness (`AutosaveRepairs`, `EditsReachEngine`, `LockIsReleased`, `PingReturns`,
  `FloodsEnd`, `TimersSettle`): fairness and ENABLED are beyond the prover.

So every property of the runs that is an invariant of a state machine has its theorem;
`TranslatedArrives` and `SameVlanIsJoined` have theirs for the networks that meet `Agreed`
and `Overlay`.

## 6. What is not modelled

The text of displays, completion, help and logs, and the validation of what users type;
positions, colours and annotations of a drawing; the HTTP server and its flags; the
rendering of ping and traceroute; RIP, MPLS, PPP, PPPoE, SMTP and TLS of the simulators,
which keep counters and text; the namespaces gont makes of hosts, which are the
kernel's; the sampling of the Go runtime; `archive/`, which is not built. PROJECT.json
(`components`) says it part by part. The time that sleeps and tickers take is not
modelled either: a goroutine may wake up at any step, so nothing is claimed that rests on
one timer being shorter than another.

## 7. Plan

In `EngineSyncProofs`: what `TopologyEdit` proves of the stored document, said of the
document the engine simulates.
