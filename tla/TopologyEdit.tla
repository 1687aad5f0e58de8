---------------------------- MODULE TopologyEdit ----------------------------
(***************************************************************************)
(* internal/api: the handlers that edit one topology.  Each of them reads  *)
(* the shared document with GetTopology, checks the request against that   *)
(* document, edits a Clone of it and hands the clone to CreateTopology or  *)
(* UpdateTopology, which replaces the stored document whatever it has      *)
(* become meanwhile.  No lock spans the two calls: a request is a step     *)
(* that reads and a later step that writes.                                *)
(*                                                                         *)
(* A document keeps what the checks look at: the kind and the ports of the *)
(* devices, the identifier and the two ends of the links.  Links are a     *)
(* set, as no handler depends on their order.                              *)
(***************************************************************************)
CONSTANTS
  Requests,     \* request goroutines
  Devices,      \* device identifiers
  Kinds,        \* device types that IsValidDeviceType accepts
  Terminals,    \* those of them that are a PC, a Client or a Server
  Ports,        \* interface names
  Ethernet0,    \* the interface name of terminals
  Defaults,     \* deviceDefaults: the ports a kind of device comes with
  Connectable,  \* AllowedLinkType: pairs of kinds that may be linked
  LinkIds,
  SentDevices,  \* devices in the body of addDevice and updateDevice
  SentLinks,    \* links in the body of addLink
  SentDocs,     \* documents in the body of createTopology and updateTopology
  NoDevice, NoDoc, Idle

Device == [kind : Kinds, ports : SUBSET Ports]
Sent   == [kind : Kinds, ports : SUBSET Ports, listed : BOOLEAN]   \* listed: the body has interfaces
End    == [device : Devices, port : Ports]
Link   == [id : LinkIds, source : End, target : End]
Doc    == [devices : [Devices -> Device \cup {NoDevice}], links : SUBSET Link]

ASSUME KindsAssumption == Terminals \subseteq Kinds /\ Ethernet0 \in Ports
                          /\ Defaults \in [Kinds -> SUBSET Ports]
ASSUME SentAssumption  == /\ SentDevices \subseteq Sent
                          /\ SentLinks \subseteq Link /\ SentDocs \subseteq Doc
ASSUME NonesAssumption == NoDevice \notin Device /\ NoDoc \notin Doc /\ Idle \notin Doc /\ Idle # NoDoc

VARIABLES
  store,   \* the stored document, or NoDoc
  snap,    \* the document each request has read, NoDoc after the check of a creation
  reused   \* history: a client reused a port where the handlers do not look

vars == <<store, snap, reused>>

Init == store = NoDoc /\ snap = [r \in Requests |-> Idle] /\ reused = FALSE

-----------------------------------------------------------------------------
(* What the handlers check and compute.                                    *)

Has(doc, d)  == doc.devices[d] # NoDevice
Ends(l)      == {l.source, l.target}
Touches(l, d) == \E e \in Ends(l) : e.device = d

\* validateTopologyPayload: a link joins devices of the document.
Anchored(doc) == \A l \in doc.links : \A e \in Ends(l) : Has(doc, e.device)

\* No port has two links, nor both ends of one.
Exclusive(doc) == /\ \A l \in doc.links : l.source # l.target
                  /\ \A k, l \in doc.links : k # l => Ends(k) \cap Ends(l) = {}

\* The checks of addLink against the document it has read.
Linkable(doc, l) ==
  /\ \A e \in Ends(l) : Has(doc, e.device) /\ e.port \in doc.devices[e.device].ports
  /\ <<doc.devices[l.source.device].kind, doc.devices[l.target.device].kind>> \in Connectable
  /\ \A k \in doc.links : k.id # l.id => Ends(k) \cap Ends(l) = {}

\* Device.InitializeDefaults, as far as ports go.
Initialized(sent) ==
  [kind |-> sent.kind, ports |-> IF sent.listed THEN sent.ports ELSE Defaults[sent.kind]]

WithDevice(doc, d, device) == [doc EXCEPT !.devices[d] = device]

\* RemoveDevice takes the links of the device along.  Mutant: it leaves them.
WithoutDeviceOnly(doc, d) == [doc EXCEPT !.devices[d] = NoDevice]

WithoutDevice(doc, d) ==
  [devices |-> [doc.devices EXCEPT ![d] = NoDevice],
   links   |-> {l \in doc.links : ~ Touches(l, d)}]

\* updateDeviceInterfaces: terminals have Ethernet0 and nothing else may.
CliPorts(device) == IF device.kind \in Terminals THEN device.ports \cup {Ethernet0}
                                                 ELSE device.ports \ {Ethernet0}

\* ShouldBindJSON into a clone: the devices sent replace or join those read, a null
\* empties the map, and the links are those sent, if any were.
Merged(doc, sent) ==
  LET joined == [d \in Devices |-> IF Has(sent, d) THEN sent.devices[d] ELSE doc.devices[d]]
      none   == [d \in Devices |-> NoDevice]
  IN [devices : {joined, none}, links : {doc.links, sent.links}]

-----------------------------------------------------------------------------
(* The steps of a request.                                                 *)

\* GetTopology finds the document; the handlers answer 404 when it does not.
Read(r) ==
  /\ snap[r] = Idle /\ store # NoDoc
  /\ snap' = [snap EXCEPT ![r] = store]
  /\ UNCHANGED <<store, reused>>

\* createTopology finds that there is no such topology; otherwise it answers 409.
CheckAbsent(r) ==
  /\ snap[r] = Idle /\ store = NoDoc
  /\ snap' = [snap EXCEPT ![r] = NoDoc]
  /\ UNCHANGED <<store, reused>>

Holds(r) == snap[r] \notin {Idle, NoDoc}

\* CreateTopology and UpdateTopology of the store: the document is replaced.
Replace(r, doc) == store' = doc /\ snap' = [snap EXCEPT ![r] = Idle]

CreateTopology(r) ==
  /\ snap[r] = NoDoc
  /\ \E doc \in SentDocs : /\ Anchored(doc)
                           /\ Replace(r, doc)
                           /\ reused' = (reused \/ ~ Exclusive(doc))

UpdateTopology(r) ==
  /\ Holds(r)
  /\ \E sent \in SentDocs : \E doc \in Merged(snap[r], sent) :
       /\ Anchored(doc)
       /\ Replace(r, doc)
       /\ reused' = (reused \/ ~ Exclusive(doc))

\* A device of the same identifier is replaced, its links stay.
AddDevice(r) ==
  /\ Holds(r)
  /\ \E d \in Devices, sent \in SentDevices :
       Replace(r, WithDevice(snap[r], d, Initialized(sent)))
  /\ UNCHANGED reused

\* The body is bound to a copy of the device: it may change the kind, add ports, or
\* empty the map of ports with a null.
UpdateDevice(r) ==
  /\ Holds(r)
  /\ \E d \in Devices, sent \in SentDevices :
       /\ Has(snap[r], d)
       /\ \E kept \in {snap[r].devices[d].ports, {}} :
            Replace(r, WithDevice(snap[r], d,
              [kind  |-> sent.kind, ports |-> IF sent.listed THEN kept \cup sent.ports ELSE kept]))
  /\ UNCHANGED reused

DeleteDevice(r) ==
  /\ Holds(r)
  /\ \E d \in Devices : Replace(r, WithoutDevice(snap[r], d))
  /\ UNCHANGED reused

\* Mutant: addLink reads the document again before it writes, after its checks.
AddLinkToLatest(r) ==
  /\ Holds(r) /\ store # NoDoc
  /\ \E l \in SentLinks :
       /\ Linkable(snap[r], l)
       /\ Replace(r, [store EXCEPT !.links = @ \cup {l}])
       /\ reused' = (reused \/ l.source = l.target \/ \E k \in snap[r].links : k.id = l.id)

\* A link with the identifier of another is not compared with it, and joins it.
AddLink(r) ==
  /\ Holds(r)
  /\ \E l \in SentLinks :
       /\ Linkable(snap[r], l)
       /\ Replace(r, [snap[r] EXCEPT !.links = @ \cup {l}])
       /\ reused' = (reused \/ l.source = l.target \/ \E k \in snap[r].links : k.id = l.id)

DeleteLink(r) ==
  /\ Holds(r)
  /\ \E id \in LinkIds : Replace(r, [snap[r] EXCEPT !.links = {l \in @ : l.id # id}])
  /\ UNCHANGED reused

\* executeCLI and setIPConfig write back the interfaces of the device; in interface
\* mode setIPConfig first adds the interface it configures.
ConfigureDevice(r) ==
  /\ Holds(r)
  /\ \E d \in Devices, added \in {{}} \cup {{p} : p \in Ports} :
       /\ Has(snap[r], d)
       /\ LET device == [snap[r].devices[d] EXCEPT !.ports = @ \cup added]
          IN Replace(r, WithDevice(snap[r], d, [device EXCEPT !.ports = CliPorts(device)]))
  /\ UNCHANGED reused

\* powerDevice, updateLink and the annotation handlers, which change nothing a check
\* looks at, write back the document they have read.
WriteBack(r) ==
  /\ Holds(r)
  /\ Replace(r, snap[r])
  /\ UNCHANGED reused

\* A check fails, the device or the link is not there, or the store refuses the
\* document (ValidateIPConfig): the handler returns and the store is as it was.
Reject(r) ==
  /\ snap[r] # Idle
  /\ snap' = [snap EXCEPT ![r] = Idle]
  /\ UNCHANGED <<store, reused>>

\* deleteTopology decides nothing from what it reads: one step.
DeleteTopology ==
  /\ store' = NoDoc
  /\ UNCHANGED <<snap, reused>>

Edit(r) == \/ UpdateTopology(r)
           \/ AddDevice(r) \/ UpdateDevice(r) \/ DeleteDevice(r)
           \/ AddLink(r) \/ DeleteLink(r)
           \/ ConfigureDevice(r) \/ WriteBack(r)

Next == \/ \E r \in Requests : Read(r) \/ CheckAbsent(r) \/ CreateTopology(r) \/ Edit(r) \/ Reject(r)
        \/ DeleteTopology

Spec == Init /\ [][Next]_vars

-----------------------------------------------------------------------------
(* Properties.                                                             *)

\* The stored document, and the one each request works from, have the shape of one.
TypeOK ==
  /\ store \in Doc \cup {NoDoc}
  /\ snap \in [Requests -> Doc \cup {NoDoc, Idle}]
  /\ reused \in BOOLEAN

\* No link of the stored document dangles (the engine's build would look its device up
\* in vain), although requests overwrite each other's edits and bring back deleted
\* devices and topologies: every document written comes whole from one that was read.
LinksAnchored == store # NoDoc => Anchored(store)

\* addLink's promise that no two links share a port survives every interleaving of
\* its check with the edits of others, as long as no client reuses the identifier of a
\* link, links a port to itself or sends a whole document that shares a port.
PortsExclusive == store # NoDoc /\ ~ reused => Exclusive(store)
=============================================================================
