----------------------------- MODULE Forwarding -----------------------------
(***************************************************************************)
(* internal/sim/engine_nsx.go: what the engine's network does with an echo *)
(* request.  build gives every device an endpoint and every device of two  *)
(* links or more a bridge; a bridge floods a packet it has not yet seen,   *)
(* a VTEP sends it through a VXLAN tunnel or routes it between VLANs, an   *)
(* endpoint answers a request for its own address and passes on the rest.  *)
(*                                                                         *)
(* The handlers of the packets under way at one time share nothing, so one *)
(* step handles all of them: a step is the millisecond of a hop.  A device *)
(* has one address, which its name stands for, and a gateway interface of  *)
(* a VLAN has the subnet of the devices of that VLAN.                      *)
(***************************************************************************)
EXTENDS Naturals, Sequences, FiniteSets

CONSTANTS
  Machines,
  Fabrics,      \* the topologies considered
  Ends,         \* the devices whose pings are considered
  NoMachine,
  InitialTTL    \* the TTL of a probe

ASSUME MachinesAssumption == IsFiniteSet(Machines) /\ NoMachine \notin Machines /\ Ends \subseteq Machines
ASSUME FabricsAssumption ==
  \A f \in Fabrics : f.links \in Seq([a : Machines, b : Machines, vlan : Nat, vni : Nat])

\* 64 in the program: a reply is lost at an endpoint that would take its last hop.
ASSUME TTLAssumption == InitialTTL \in Nat /\ InitialTTL > 1

VARIABLES
  fabric,    \* links: a sequence of [a, b, vlan, vni]; vtep; vlan of each device; gateways
  pinger, pinged,  \* the ends of the ping
  inflight,  \* the packets under way
  answered   \* the ping got its reply

floodVars == <<fabric, pinger, pinged, inflight, answered>>

Links == {fabric.links[i] : i \in 1..Len(fabric.links)}
Plain == {l \in Links : l.vni = 0}

Joins(l, d) == d \in {l.a, l.b}
Peer(l, d)  == IF l.a = d THEN l.b ELSE l.a

\* The first link of the topology that satisfies a condition, in the order of topo.Links.
FirstLink(Test(_), None) ==
  LET hits == {i \in 1..Len(fabric.links) : Test(fabric.links[i])}
  IN IF hits = {} THEN None ELSE fabric.links[CHOOSE i \in hits : \A j \in hits : i <= j]

-----------------------------------------------------------------------------
(* build: the nodes and what each passes packets on to.                    *)

HasBridge(d) == Cardinality({i \in 1..Len(fabric.links) : Joins(fabric.links[i], d)}) > 1

Endpoint(d) == [dev |-> d, bridge |-> FALSE]
Bridge(d)   == [dev |-> d, bridge |-> TRUE]
Node(d)     == [dev |-> d, bridge |-> HasBridge(d)]

\* An endpoint and its bridge are joined for each plain link of the device, so not
\* at all when every link is a tunnel.
Attached(d) == \E l \in Plain : Joins(l, d)

Adjacent(n) ==
  LET peers == {Node(Peer(l, n.dev)) : l \in {k \in Links : Joins(k, n.dev)}}
      own   == IF ~ Attached(n.dev) THEN {} ELSE IF n.bridge THEN {Endpoint(n.dev)} ELSE {Bridge(n.dev)}
  IN IF n.bridge THEN peers \cup own ELSE IF HasBridge(n.dev) THEN own ELSE peers

-----------------------------------------------------------------------------
(* The decisions of a VTEP.                                                *)

IsVtep(d) == d \in fabric.vtep

\* The tag a router wrote, or the VLAN of the sender.
EffectiveVlan(p) == IF p.vlan > 0 THEN p.vlan ELSE fabric.vlan[pinger]

\* findVNIForVLAN: the first tunnel of the device, whatever the VLAN.
VniOf(d) == FirstLink(LAMBDA l : l.vni > 0 /\ Joins(l, d), [vni |-> 0]).vni

\* isDirectlyConnectedTo: over one plain link, or two.
Near(d, e) ==
  \E l \in Plain : Joins(l, d) /\ (Joins(l, e) \/ \E k \in Plain : Joins(k, Peer(l, d)) /\ Joins(k, e))

\* findVTEPForIP: the target itself, the first VTEP of the VNI near it, or the first of all.
TunnelEnd(vni) ==
  LET Serves(l) == l.vni = vni /\ (Near(pinged, l.a) \/ Near(pinged, l.b))
      near == FirstLink(Serves, [a |-> NoMachine, b |-> NoMachine])
      any  == FirstLink(LAMBDA l : l.vni = vni, [a |-> NoMachine, b |-> NoMachine])
  IN IF IsVtep(pinged) THEN pinged
     ELSE IF near.a = NoMachine THEN any.a
     ELSE IF Near(pinged, near.a) THEN near.a ELSE near.b

\* findAccessNeighbor: the peer of the first plain link of the device that carries the VLAN.
AccessNeighbor(d, v) ==
  LET l == FirstLink(LAMBDA k : k.vni = 0 /\ k.vlan = v /\ Joins(k, d), [a |-> NoMachine, b |-> NoMachine])
  IN IF l.a = NoMachine THEN NoMachine ELSE Peer(l, d)

\* routeL3: out of the gateway interface whose subnet holds the target, or nowhere.
RouteL3(d, p) ==
  LET v == fabric.vlan[pinged]
      n == AccessNeighbor(d, v)
  IN IF v \in fabric.gateways[d] /\ n # NoMachine
       THEN {[p EXCEPT !.vlan = v, !.at = Node(n)]} ELSE {}

-----------------------------------------------------------------------------
(* Transfer of a bridge and React of an endpoint: the packets they produce. *)

Flood(p) == {[p EXCEPT !.at = n] : n \in Adjacent(p.at)}

\* Mutant: a bridge that forgets where a packet has been.
BridgeForgets(p) == Flood(p)

\* Mutant: a VTEP sends every packet into a tunnel.
BridgeTunnels(p) ==
  LET d == p.at.dev
      end == TunnelEnd(VniOf(d))
  IN IF d \in p.path THEN {}
     ELSE IF VniOf(d) > 0 THEN {[p EXCEPT !.path = @ \cup {d}, !.at = Node(end)]}
     ELSE Flood([p EXCEPT !.path = @ \cup {d}])

BridgeTransfer(p) ==
  LET d    == p.at.dev
      q    == [p EXCEPT !.path = @ \cup {d}]
      from == EffectiveVlan(p)
      to   == fabric.vlan[pinged]
      vni  == VniOf(d)
      end  == TunnelEnd(vni)
      request == p.kind = "request"
  IN CASE d \in p.path -> {}
       [] d \notin p.path /\ request /\ IsVtep(d) /\ from > 0 /\ to > 0 /\ from # to
            -> RouteL3(d, q)
       [] d \notin p.path /\ request /\ IsVtep(d) /\ from > 0 /\ ~ (to > 0 /\ from # to)
          /\ vni > 0 /\ end \notin {NoMachine, d} /\ HasBridge(end)
            -> {[q EXCEPT !.at = Bridge(end)]}
       [] OTHER -> Flood(q)

\* Mutant: the reply carries the path of its request.
ReplyKeepsPath(p) ==
  {[at |-> n, kind |-> "reply", vlan |-> p.vlan, path |-> p.path, ttl |-> InitialTTL] : n \in Adjacent(p.at)}

\* The reply starts with no path, at the one node the endpoint is joined to.
EchoReply(p) ==
  {[at |-> n, kind |-> "reply", vlan |-> p.vlan, path |-> {}, ttl |-> InitialTTL] : n \in Adjacent(p.at)}

\* A reply ends at whichever endpoint it reaches first while the ping waits for it.
React(p) ==
  CASE p.ttl <= 1                                         -> {}
    [] p.ttl > 1 /\ p.kind = "request" /\ p.at.dev = pinged  -> EchoReply(p)
    [] p.ttl > 1 /\ p.kind = "reply" /\ ~ answered        -> {}
    [] OTHER                                              -> Flood([p EXCEPT !.ttl = @ - 1])

Handled(p) == IF p.at.bridge THEN BridgeTransfer(p) ELSE React(p)

FloodInit ==
  /\ fabric \in Fabrics
  /\ pinger \in Ends /\ pinged \in Ends \ {pinger}
  /\ inflight = {[at |-> n, kind |-> "request", vlan |-> 0, path |-> {}, ttl |-> InitialTTL]
                   : n \in Adjacent(Endpoint(pinger))}
  /\ answered = FALSE

Hop ==
  /\ inflight # {}
  /\ inflight' = UNION {Handled(p) : p \in inflight}
  /\ answered' = (answered \/ \E p \in inflight : p.kind = "reply" /\ ~ p.at.bridge /\ p.ttl > 1)
  /\ UNCHANGED <<fabric, pinger, pinged>>

FloodSpec == FloodInit /\ [][Hop]_floodVars

\* The event loop runs while packets are under way.
FairFloodSpec == FloodSpec /\ WF_floodVars(Hop)

-----------------------------------------------------------------------------
(* Properties.                                                             *)

\* The devices within n links of a set of devices.
Reach(ls, from) ==
  LET near[n \in 0..Cardinality(Machines)] ==
        IF n = 0 THEN {from}
        ELSE near[n - 1] \cup {d \in Machines : \E l \in ls : Joins(l, d) /\ Peer(l, d) \in near[n - 1]}
  IN near[Cardinality(Machines)]

FloodOver == inflight = {}

\* Without VLANs and tunnels a ping is answered exactly when a path of links joins
\* its ends: flooding neither misses a device nor invents one.
PlainPingIsConnectivity ==
  FloodOver /\ Links = Plain /\ fabric.vtep = {} =>
    (answered <=> pinged \in Reach(Links, pinger))

\* The VTEPs of a fabric whose underlay is tunnels alone are joined by no plain links.
TunnelsOnly == \A d, e \in fabric.vtep : d # e => e \notin Reach(Plain, d)

\* The overlay network: tunnels join VTEPs and share a VNI, the ends of the ping are no VTEPs, and
\* the one that is pinged is within two plain links of any VTEP that plain links join it to.
Overlay ==
  /\ \A l \in Links : l.vni > 0 => l.a \in fabric.vtep /\ l.b \in fabric.vtep
  /\ \A l, k \in Links : l.vni > 0 /\ k.vni > 0 => l.vni = k.vni
  /\ pinger \notin fabric.vtep /\ pinged \notin fabric.vtep
  /\ \A t \in fabric.vtep : t \in Reach(Plain, pinged) => Near(pinged, t)

\* Two hosts of one VLAN that plain links join to VTEPs reach each other wherever
\* links do, as long as no plain link joins two VTEPs: the choice of a tunnel's end
\* by distance, of its VNI by position, and the loop check together lose nothing.  It is
\* not so in every fabric that is no Overlay: a second VNI, a tunnel that ends where no
\* VTEP is, or a host further from its VTEP than the search for it looks, can lose it.
SameVlanIsJoined ==
  /\ FloodOver /\ TunnelsOnly
  /\ fabric.vlan[pinger] = fabric.vlan[pinged] /\ fabric.vlan[pinger] > 0
  /\ \A d \in {pinger, pinged} : \E t \in fabric.vtep : t \in Reach(Plain, d)
  /\ pinged \in Reach(Links, pinger)
  => answered

\* The floods of a ping end, whatever loops the topology has.
FloodsEnd == <>[]FloodOver

=============================================================================
