---------------------------- MODULE InterfaceConfig ----------------------------
(***************************************************************************)
(* The layer-3 features that a router keeps per interface: GRE tunnels     *)
(* (internal/cli/gre_cmd.go), DHCP relay (dhcp_relay_cmd.go), IPv6, RIPng  *)
(* and OSPFv3 (ipv6_cmd.go), VRRP and addresses (parser.go).  All of them  *)
(* are keys interface:<name>:... of one map, written and removed by        *)
(* commands of the interface's view, so what one command requires another  *)
(* may remove.                                                             *)
(***************************************************************************)
EXTENDS Integers, FiniteSets

CONSTANTS
  L3Ports, Tunnels,   \* interface names
  TunnelIPs,          \* addresses a tunnel may end at
  Servers,            \* DHCP servers
  MaxRelayServerIPs,
  Pids,               \* RIPng and OSPFv3 processes
  Prefixes, NextHops, \* IPv6 static routes
  Subnets,            \* an address and a mask, as the subnet they are of
  Vrids,
  VrrpPriorities, Reductions,
  Unconfigured

Interfaces == L3Ports \cup Tunnels

ASSUME InterfaceAssumption ==
  /\ Unconfigured \notin Interfaces \cup TunnelIPs \cup Subnets
  /\ L3Ports \cap Tunnels = {} /\ TunnelIPs \cap Interfaces = {}
  /\ MaxRelayServerIPs \in Nat /\ IsFiniteSet(Servers)
  /\ VrrpPriorities \subseteq 1..254 /\ 100 \in VrrpPriorities
  /\ Reductions \subseteq 1..255 /\ 10 \in Reductions

VARIABLES
  in,     \* the interface whose view the session is in, or Unconfigured in the system view
  subnet, \* interface -> the subnet of its IPv4 address
  isDown, \* interfaces whose status key says Down
  gre,    \* tunnel -> its protocol, endpoints and optional keys
  relay,  \* interface -> DHCP mode, relay servers, optional keys
  v6,     \* interface -> IPv6 enabled, has an address, processes it takes part in
  v6keys, \* the keys ipv6:...
  vrrp    \* interface and vrid -> the group's keys

greVars   == <<gre>>
relayVars == <<relay>>
v6Vars    == <<v6, v6keys>>
vrrpVars  == <<subnet, isDown, vrrp>>
ifVars    == <<in, subnet, isDown, gre, relay, v6, v6keys, vrrp>>

NoGre   == [protocol |-> FALSE, source |-> Unconfigured, destination |-> Unconfigured, keys |-> {}]
NoRelay == [select |-> "none", servers |-> {}, keys |-> {}]
NoV6    == [enabled |-> FALSE, address |-> FALSE, processes |-> {}]
NoGroup == [vip |-> Unconfigured, priority |-> 100, track |-> Unconfigured, reduced |-> 10, keys |-> {}]

IfInit ==
  /\ in = Unconfigured
  /\ subnet = [i \in Interfaces |-> Unconfigured]
  /\ isDown = {}
  /\ gre = [t \in Tunnels |-> NoGre]
  /\ relay = [i \in Interfaces |-> NoRelay]
  /\ v6 = [i \in Interfaces |-> NoV6]
  /\ v6keys = {}
  /\ vrrp = [g \in Interfaces \X Vrids |-> NoGroup]

InInterface == in # Unconfigured
InTunnel    == in \in Tunnels

-----------------------------------------------------------------------------
(* Views, addresses and state.                                             *)

EnterInterface(i) ==
  /\ ~InInterface
  /\ in' = i
  /\ UNCHANGED <<subnet, isDown, gre, relay, v6, v6keys, vrrp>>

\* quit, and a reload, after which the keys are as they were
LeaveInterface ==
  /\ in' = Unconfigured
  /\ UNCHANGED <<subnet, isDown, gre, relay, v6, v6keys, vrrp>>

\* ip address and its undo
SetSubnet(s) ==
  /\ InInterface
  /\ subnet' = [subnet EXCEPT ![in] = s]
  /\ UNCHANGED <<in, isDown, gre, relay, v6, v6keys, vrrp>>

SetDown(b) ==
  /\ InInterface
  /\ isDown' = IF b THEN isDown \cup {in} ELSE isDown \ {in}
  /\ UNCHANGED <<in, subnet, gre, relay, v6, v6keys, vrrp>>

\* undo interface Tunnel<n>, in the system view: every key of the tunnel.
UndoInterfaceTunnel(t) ==
  /\ ~InInterface
  /\ subnet' = [subnet EXCEPT ![t] = Unconfigured]
  /\ isDown' = isDown \ {t}
  /\ gre' = [gre EXCEPT ![t] = NoGre]
  /\ relay' = [relay EXCEPT ![t] = NoRelay]
  /\ v6' = [v6 EXCEPT ![t] = NoV6]
  /\ vrrp' = [g \in DOMAIN vrrp |-> IF g[1] = t THEN NoGroup ELSE vrrp[g]]
  /\ UNCHANGED <<in, v6keys>>

-----------------------------------------------------------------------------
(* GRE, in the view of a tunnel.                                           *)

GreKeys   == {"key", "checksum", "keepalive", "period", "retry"}
Keepalive == {"keepalive", "period", "retry"}

SetGre(r) == gre' = [gre EXCEPT ![in] = r] /\ UNCHANGED <<in, subnet, isDown, relay, v6, v6keys, vrrp>>

TunnelProtocol == InTunnel /\ SetGre([gre[in] EXCEPT !.protocol = TRUE])

\* An address may not be both ends; an interface is not resolved to its address.
SetEnd(end, other, e) ==
  /\ InTunnel /\ gre[in].protocol
  /\ e \in TunnelIPs => gre[in][other] # e
  /\ SetGre([gre[in] EXCEPT ![end] = e])

Source(e)      == SetEnd("source", "destination", e)
Destination(e) == SetEnd("destination", "source", e)

\* gre key, gre checksum; keepalive with or without its period and retry times
GreOption(K) ==
  /\ InTunnel /\ gre[in].protocol
  /\ K \in {{"key"}, {"checksum"}} \/ ("keepalive" \in K /\ K \subseteq Keepalive)
  /\ SetGre([gre[in] EXCEPT !.keys = @ \cup K])

UndoTunnelProtocol == InTunnel /\ SetGre(NoGre)
UndoEnd(end)       == InTunnel /\ SetGre([gre[in] EXCEPT ![end] = Unconfigured])
UndoGreOption(K)   == InTunnel /\ SetGre([gre[in] EXCEPT !.keys = @ \ K])

\* greLineProtocolState: what display interface shows as the tunnel's protocol.
LineProtocolUp(t) ==
  gre[t].protocol /\ gre[t].source # Unconfigured /\ gre[t].destination # Unconfigured

GreNext ==
  \/ TunnelProtocol \/ UndoTunnelProtocol
  \/ \E e \in TunnelIPs \cup Interfaces : Source(e) \/ Destination(e)
  \/ \E end \in {"source", "destination"} : UndoEnd(end)
  \/ \E K \in SUBSET GreKeys : GreOption(K)
  \/ \E K \in {{"key"}, {"checksum"}, Keepalive} : UndoGreOption(K)

-----------------------------------------------------------------------------
(* DHCP relay.                                                             *)

RelayKeys == {"option82", "option82-strategy", "source-ip"}
Modes     == {"global", "interface", "relay"}

SetRelay(r) == relay' = [relay EXCEPT ![in] = r] /\ UNCHANGED <<in, subnet, isDown, gre, v6, v6keys, vrrp>>

\* Mutant: a change of mode leaves the keys of the relay.
DhcpSelectOnly(m) == InInterface /\ SetRelay([relay[in] EXCEPT !.select = m])

\* dhcp select: a mode other than relay removes the keys of the relay.
DhcpSelect(m) ==
  /\ InInterface
  /\ SetRelay(IF m = "relay" THEN [relay[in] EXCEPT !.select = m] ELSE [NoRelay EXCEPT !.select = m])

\* A server that is there already is accepted without effect.
RelayServer(s) ==
  /\ InInterface /\ relay[in].select = "relay"
  /\ s \notin relay[in].servers
  /\ Cardinality(relay[in].servers) < MaxRelayServerIPs
  /\ SetRelay([relay[in] EXCEPT !.servers = @ \cup {s}])

RelayOption(k) ==
  /\ InInterface /\ relay[in].select = "relay"
  /\ SetRelay([relay[in] EXCEPT !.keys = @ \cup {k}])

UndoSelect         == InInterface /\ SetRelay(NoRelay)
UndoRelayServer(S) == InInterface /\ S \subseteq relay[in].servers /\ SetRelay([relay[in] EXCEPT !.servers = @ \ S])
UndoRelayServers   == UndoRelayServer(relay[in].servers)
UndoRelayOption(k) == InInterface /\ SetRelay([relay[in] EXCEPT !.keys = @ \ {k}])

\* EvaluateDHCPRelay, and the interfaces that display dhcp relay lists: those in relay mode
\* and any other that has a key of the relay.
RelayActive(i) == relay[i].select = "relay" /\ relay[i].servers # {}
RelayInterfaces == {i \in Interfaces : relay[i].select = "relay" \/ relay[i].servers # {} \/ relay[i].keys # {}}

RelayNext ==
  \/ UndoSelect \/ (InInterface /\ UndoRelayServers)
  \/ \E m \in Modes : DhcpSelect(m)
  \/ \E s \in Servers : RelayServer(s) \/ UndoRelayServer({s})
  \/ \E k \in RelayKeys : RelayOption(k) \/ UndoRelayOption(k)

-----------------------------------------------------------------------------
(* IPv6, RIPng and OSPFv3.                                                 *)

Processes == {"ripng", "ospfv3"} \X Pids
Routes6   == {"route-static"} \X Prefixes \X NextHops
V6Keys    == {<<"enabled">>} \cup Processes \cup Routes6

SetV6(r) == v6' = [v6 EXCEPT ![in] = r] /\ UNCHANGED <<in, subnet, isDown, gre, relay, v6keys, vrrp>>

Ipv6Enable     == InInterface /\ SetV6([v6[in] EXCEPT !.enabled = TRUE])
Ipv6Address    == InInterface /\ v6[in].enabled /\ SetV6([v6[in] EXCEPT !.address = TRUE])
Ipv6Join(p)    == InInterface /\ SetV6([v6[in] EXCEPT !.processes = @ \cup {p}])
UndoIpv6Enable == InInterface /\ SetV6([v6[in] EXCEPT !.enabled = FALSE, !.address = FALSE])
UndoAddress6   == InInterface /\ SetV6([v6[in] EXCEPT !.address = FALSE])
Ipv6Leave(p)   == InInterface /\ SetV6([v6[in] EXCEPT !.processes = @ \ {p}])

\* ipv6, ripng, ospfv3 and ipv6 route-static in the system view
Ipv6System(k) ==
  /\ ~InInterface
  /\ v6keys' = v6keys \cup {k}
  /\ UNCHANGED <<in, subnet, isDown, gre, relay, v6, vrrp>>

\* undo ipv6 removes the routes and the processes too; the others remove one process,
\* the processes of a protocol, the routes to a prefix or every route.  An interface
\* keeps its part in a process that is gone.
UndoIpv6System(K) ==
  /\ ~InInterface
  /\ v6keys' = v6keys \ K
  /\ UNCHANGED <<in, subnet, isDown, gre, relay, v6, vrrp>>

Undone6 ==
  {V6Keys, Routes6} \cup {{p} : p \in Processes}
  \cup {{q} \X Pids : q \in {"ripng", "ospfv3"}}
  \cup {{"route-static"} \X {p} \X NextHops : p \in Prefixes}

V6Next ==
  \/ Ipv6Enable \/ Ipv6Address \/ UndoIpv6Enable \/ UndoAddress6
  \/ \E p \in Processes : Ipv6Join(p) \/ Ipv6Leave(p)
  \/ \E k \in V6Keys : Ipv6System(k)
  \/ \E K \in Undone6 : UndoIpv6System(K)

-----------------------------------------------------------------------------
(* VRRP.                                                                   *)

VrrpKeys == {"preempt", "advertise", "auth"}

SetGroup(v, r) == vrrp' = [vrrp EXCEPT ![<<in, v>>] = r] /\ UNCHANGED <<in, subnet, isDown, gre, relay, v6, v6keys>>

\* A group is configured once it has a virtual address; the address is compared with the
\* interface's when the command is given and not again.
VirtualIp(v, s) ==
  /\ InInterface /\ subnet[in] = s
  /\ SetGroup(v, [vrrp[<<in, v>>] EXCEPT !.vip = s])

VrrpPriority(v, p) == InInterface /\ SetGroup(v, [vrrp[<<in, v>>] EXCEPT !.priority = p])
VrrpOption(v, k)   == InInterface /\ SetGroup(v, [vrrp[<<in, v>>] EXCEPT !.keys = @ \cup {k}])
VrrpTrack(v, i, r) == InInterface /\ SetGroup(v, [vrrp[<<in, v>>] EXCEPT !.track = i, !.reduced = r])
UndoVrrp(v)        == InInterface /\ vrrp[<<in, v>>] # NoGroup /\ SetGroup(v, NoGroup)

\* EvaluateVRRP: a tracked interface that is down lowers the priority, to no less than one.
EffectivePriority(g) ==
  IF g.track \notin isDown THEN g.priority
  ELSE IF g.priority - g.reduced < 1 THEN 1 ELSE g.priority - g.reduced

VrrpNext ==
  \/ \E s \in Subnets \cup {Unconfigured} : SetSubnet(s)
  \/ \E b \in BOOLEAN : SetDown(b)
  \/ \E v \in Vrids :
       \/ UndoVrrp(v)
       \/ \E s \in Subnets : VirtualIp(v, s)
       \/ \E p \in VrrpPriorities : VrrpPriority(v, p)
       \/ \E k \in VrrpKeys : VrrpOption(v, k)
       \/ \E i \in Interfaces, r \in Reductions : VrrpTrack(v, i, r)

IfViews ==
  \/ LeaveInterface
  \/ \E i \in Interfaces : EnterInterface(i)
  \/ \E t \in Tunnels : UndoInterfaceTunnel(t)

IfNext == IfViews \/ GreNext \/ RelayNext \/ V6Next \/ VrrpNext

IfSpec == IfInit /\ [][IfNext]_ifVars

-----------------------------------------------------------------------------
(* Properties.                                                             *)

Ends     == TunnelIPs \cup Interfaces \cup {Unconfigured}
GreType  == [protocol : BOOLEAN, source : Ends, destination : Ends, keys : SUBSET GreKeys]
RelayType == [select : Modes \cup {"none"}, servers : SUBSET Servers, keys : SUBSET RelayKeys]
V6Type   == [enabled : BOOLEAN, address : BOOLEAN, processes : SUBSET Processes]
GroupType == [vip : Subnets \cup {Unconfigured}, priority : VrrpPriorities,
              track : Interfaces \cup {Unconfigured}, reduced : Reductions, keys : SUBSET VrrpKeys]

IfTypeOK ==
  /\ in \in Interfaces \cup {Unconfigured}
  /\ subnet \in [Interfaces -> Subnets \cup {Unconfigured}]
  /\ isDown \subseteq Interfaces
  /\ gre \in [Tunnels -> GreType]
  /\ relay \in [Interfaces -> RelayType]
  /\ v6 \in [Interfaces -> V6Type]
  /\ v6keys \subseteq V6Keys
  /\ vrrp \in [Interfaces \X Vrids -> GroupType]

\* What a tunnel is configured with goes when its protocol does, one that shows its line
\* protocol up does not end twice at one address, and keepalive's parameters go with
\* keepalive (gre_cmd.go).
TunnelsCoherent ==
  \A t \in Tunnels :
    /\ ~gre[t].protocol => gre[t] = NoGre
    /\ LineProtocolUp(t) /\ gre[t].source = gre[t].destination => gre[t].source \notin TunnelIPs
    /\ gre[t].keys \cap Keepalive # {} => "keepalive" \in gre[t].keys

\* The relays that are listed are the interfaces in relay mode, none is left over from a
\* mode that was changed, and none has more servers than the limit (dhcp_relay_cmd.go, the
\* comment on applyDHCPRelay).
RelaysCoherent ==
  \A i \in Interfaces :
    /\ i \in RelayInterfaces <=> relay[i].select = "relay"
    /\ RelayActive(i) => Cardinality(relay[i].servers) \in 1..MaxRelayServerIPs

\* An interface has an IPv6 address only while IPv6 is enabled on it.
Ipv6Coherent == \A i \in Interfaces : v6[i].address => v6[i].enabled

\* The priority a group shows is one that VRRP has, whatever was tracked and reduced.
PrioritiesInRange == \A g \in DOMAIN vrrp : EffectivePriority(vrrp[g]) \in 1..254

InterfacesCoherent == IfTypeOK /\ TunnelsCoherent /\ RelaysCoherent /\ Ipv6Coherent /\ PrioritiesInRange
=============================================================================
