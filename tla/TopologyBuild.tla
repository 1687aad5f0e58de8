----------------------------- MODULE TopologyBuild -----------------------------
(***************************************************************************)
(* Topologies that the server makes itself: createTopologySimple of        *)
(* internal/api/topology_handlers.go, which numbers a network that a       *)
(* client has only drawn, and CreateVXLANTopology of vxlan_topo.go.        *)
(* Ranges over maps visit devices and ports in any order, so one request   *)
(* is numbered differently every time.                                     *)
(* An address is 192.168.<subnet>.<host>, here the pair of the two; every  *)
(* mask is /24. The layout on the canvas is left out.                      *)
(* It runs beside the manager of TopologyManager: what both keep or make   *)
(* is stated of the two together.                                          *)
(***************************************************************************)
EXTENDS TopologyManager

CONSTANTS
  RouterNodes, HostNodes, OtherNodes, \* routers; PCs and servers; the rest
  NodePorts,      \* deviceDefaults: the ports of a node, of a host just one
  DrawnLinks,     \* links of requests, as pairs of ends <<node, port>>
  MaxDrawn,       \* bounds the number of links
  FirstSubnet,    \* 2 in the code
  LastOctet       \* 255 in the code

ASSUME SubnetsAssumption == FirstSubnet \in Nat /\ LastOctet \in Nat
ASSUME NodesAssumption ==
  /\ RouterNodes \cap HostNodes = {} /\ OtherNodes \cap (RouterNodes \cup HostNodes) = {}
  /\ \A h \in HostNodes : Cardinality(NodePorts[h]) = 1

VARIABLES
  drawn,      \* the nodes and the links of the request, in order
  stage,      \* "idle" between requests, "numbering", "stored", "refused"
  address,    \* the addresses of the ends that have one
  gateway,    \* the gateways of the hosts that have one
  subnetSeq,  \* the next subnet
  subnetHost  \* how many hosts each subnet has

buildVars == <<drawn, stage, address, gateway, subnetSeq, subnetHost>>

Nodes         == RouterNodes \cup HostNodes \cup OtherNodes
EndsOf(nodes) == UNION {{n} \X NodePorts[n] : n \in nodes}
LinkSeqs      == UNION {[1 .. n -> DrawnLinks] : n \in 0 .. MaxDrawn}
Joins(l, e, f) == l = <<e, f>> \/ l = <<f, e>>

Blank      == [nodes |-> {}, links |-> <<>>]
With(f, x, v) == [y \in DOMAIN f \cup {x} |-> IF y = x THEN v ELSE f[y]]

BuildInit ==
  /\ drawn = Blank /\ stage = "idle"
  /\ address = <<>> /\ gateway = <<>>
  /\ subnetSeq = FirstSubnet /\ subnetHost = <<>>

\* The checks of the request: links join ports of its nodes. Ports may be used twice.
SendDrawing(nodes, links) ==
  /\ stage = "idle" /\ stage' = "numbering"
  /\ \A i \in DOMAIN links : links[i][1] \in EndsOf(nodes) /\ links[i][2] \in EndsOf(nodes)
  /\ drawn' = [nodes |-> nodes, links |-> links]
  /\ UNCHANGED <<address, gateway, subnetSeq, subnetHost>>

RouterEnds == EndsOf(drawn.nodes \cap RouterNodes)
Numbered   == DOMAIN address
Under(r)   == {r} \X NodePorts[r]

\* A port of a router: a subnet of its own. The ports of a router are done before those
\* of the next.
NumberPort(e) ==
  /\ stage = "numbering" /\ e \in RouterEnds \ Numbered
  /\ \A r \in (drawn.nodes \cap RouterNodes) \ {e[1]} : Under(r) \subseteq Numbered \/ Under(r) \cap Numbered = {}
  /\ address' = With(address, e, <<subnetSeq, 1>>)
  /\ subnetSeq' = subnetSeq + 1
  /\ UNCHANGED <<drawn, stage, gateway, subnetHost>>

HostEnd(h) == <<h, CHOOSE p \in NodePorts[h] : TRUE>>

\* The first of the links that has a port of a router at its other end decides.
RoutersOf(h) ==
  {i \in DOMAIN drawn.links : \E e \in RouterEnds : Joins(drawn.links[i], HostEnd(h), e)}
Upstream(h) ==
  LET first == CHOOSE i \in RoutersOf(h) : \A j \in RoutersOf(h) : i <= j
  IN CHOOSE e \in RouterEnds : Joins(drawn.links[first], HostEnd(h), e)

InSubnet(s) == IF s \in DOMAIN subnetHost THEN subnetHost[s] ELSE 0

\* A host takes the next address of a subnet.
Place(h, s) ==
  /\ address' = With(address, HostEnd(h), <<s, InSubnet(s) + 2>>)
  /\ subnetHost' = With(subnetHost, s, InSubnet(s) + 1)

\* A host next to a router is placed behind the port of the router.
PlaceBehind(h) ==
  /\ RoutersOf(h) # {}
  /\ gateway' = With(gateway, h, address[Upstream(h)])
  /\ Place(h, address[Upstream(h)][1])
  /\ UNCHANGED subnetSeq

\* Any other host has a subnet of its own, even where a switch joins it to a router.
PlaceAlone(h) ==
  /\ RoutersOf(h) = {}
  /\ Place(h, subnetSeq) /\ subnetSeq' = subnetSeq + 1
  /\ UNCHANGED gateway

NumberHost(h) ==
  /\ stage = "numbering" /\ RouterEnds \subseteq Numbered
  /\ h \in drawn.nodes /\ HostEnd(h) \notin Numbered
  /\ PlaceBehind(h) \/ PlaceAlone(h)
  /\ UNCHANGED <<drawn, stage>>

\* CreateTopology of the store refuses an address that does not parse.
StoreDrawing ==
  /\ stage = "numbering"
  /\ RouterEnds \cup {HostEnd(h) : h \in drawn.nodes \cap HostNodes} \subseteq Numbered
  /\ stage' = IF \A e \in Numbered : address[e][1] <= LastOctet /\ address[e][2] <= LastOctet THEN "stored" ELSE "refused"
  /\ UNCHANGED <<drawn, address, gateway, subnetSeq, subnetHost>>

\* The response; the next request starts from nothing.
AnswerDrawing ==
  /\ stage \in {"stored", "refused"} /\ stage' = "idle"
  /\ drawn' = Blank
  /\ address' = <<>> /\ gateway' = <<>>
  /\ subnetSeq' = FirstSubnet /\ subnetHost' = <<>>

BuildNext ==
  \/ \E nodes \in SUBSET Nodes, links \in LinkSeqs : SendDrawing(nodes, links)
  \/ \E e \in EndsOf(RouterNodes) : NumberPort(e)
  \/ \E h \in HostNodes : NumberHost(h)
  \/ StoreDrawing \/ AnswerDrawing

-----------------------------------------------------------------------------
(* The VXLAN demonstration: spines, leaves, servers and virtual machines.  *)
(* A port is <<device, number, name>>.                                     *)

Spines == 1 .. 4
Leaves == 1 .. 3

\* Ports with an address.
FabricPorts ==
  [e \in {<<"spine", i, <<i, k>>>> : i \in Spines, k \in Leaves} |-> <<10, e[3][2], e[2], 2>>]
LeafPorts ==
  [e \in {<<"leaf", k, <<k, i>>>> : k \in Leaves, i \in Spines} |-> <<10, e[2], e[3][2], 1>>]
LeafVlans == [e \in {"leaf"} \X Leaves \X {<<10>>, <<20>>} |-> <<10, 0, e[3][1], e[2]>>]
Loopbacks ==
  [e \in (({"spine"} \X Spines) \cup ({"leaf"} \X Leaves)) \X {"loopback"} |->
    IF e[1][1] = "spine" THEN <<100, 1, e[1][2] + 1, e[1][2]>>
    ELSE <<<<1, 1, 1, 1>>, <<2, 2, 2, 2>>, <<2, 2, 2, 3>>>>[e[1][2]]]

\* The servers and machines, with their VLANs.
ServerPorts ==
  {[at |-> <<"server", 1, 0>>, ip |-> <<10, 0, 10, 100>>, vlan |-> 10],
   [at |-> <<"server", 1, 1>>, ip |-> <<10, 0, 20, 100>>, vlan |-> 20],
   [at |-> <<"server", 2, 0>>, ip |-> <<10, 0, 10, 200>>, vlan |-> 10],
   [at |-> <<"server", 3, 0>>, ip |-> <<10, 0, 10, 30>>, vlan |-> 10]}
Machines ==
  {[at |-> <<"vm", 1, 0>>, ip |-> <<10, 0, 10, 10>>, vlan |-> 10, gw |-> <<10, 0, 10, 1>>, on |-> 1],
   [at |-> <<"vm", 2, 0>>, ip |-> <<10, 0, 20, 20>>, vlan |-> 20, gw |-> <<10, 0, 20, 1>>, on |-> 1],
   [at |-> <<"vm", 3, 0>>, ip |-> <<10, 0, 10, 30>>, vlan |-> 10, gw |-> <<10, 0, 10, 2>>, on |-> 2],
   [at |-> <<"vm", 4, 0>>, ip |-> <<10, 0, 10, 40>>, vlan |-> 10, gw |-> <<10, 0, 10, 3>>, on |-> 3]}

\* The access ports of a leaf, one for each VLAN, have no address.
AccessPort(k, vlan) == <<"leaf", k, <<5, vlan \div 10>>>>
AccessPorts == {AccessPort(k, vlan) : k \in Leaves, vlan \in {10, 20}}

\* Links with ports at both ends; the tunnels between leaves have none.
Underlay == {<<<<"spine", i, <<i, k>>>>, <<"leaf", k, <<k, i>>>>>> : i \in Spines, k \in Leaves}
Access   == {<<AccessPort(s.at[2], s.vlan), s.at>> : s \in ServerPorts}
Virtual  == {<<<<"server", m.on, 0>>, m.at>> : m \in Machines}

-----------------------------------------------------------------------------
(* Properties.                                                             *)

\* No address is given twice, as the test internal/api/vuln_analysis_test.go:135 asks.
AddressesDistinct ==
  \A e, f \in Numbered : e # f => address[e] # address[f]

\* A host that has a gateway is linked to the port that has this address, in the subnet of
\* the port; a subnet of several ports is that of a router port and the hosts linked to it.
HostsBehindGateways ==
  stage = "stored" =>
    /\ \A h \in DOMAIN gateway :
         \E e \in RouterEnds, i \in DOMAIN drawn.links :
           /\ Joins(drawn.links[i], HostEnd(h), e)
           /\ address[e] = gateway[h] /\ address[HostEnd(h)][1] = address[e][1]
    /\ \A e, f \in Numbered : e # f /\ address[e][1] = address[f][1] =>
         \E r \in RouterEnds : \A g \in {e, f} \ {r} : g[1] \in DOMAIN gateway /\ gateway[g[1]] = address[r]

\* The links of the demonstration have ports of their devices, of which only the one of a
\* server is shared; an underlay link joins two addresses of a subnet; the gateway of a
\* machine is the leaf that its server is attached to; and no address is given twice but
\* 10.0.10.30, which server-3 and vm-3 have.
DemoPorts == DOMAIN FabricPorts \cup DOMAIN LeafPorts \cup AccessPorts \cup {s.at : s \in ServerPorts} \cup {m.at : m \in Machines}
DemoLinks == Underlay \cup Access \cup Virtual
Subnet(ip) == <<ip[1], ip[2], ip[3]>>
AddressOf(e) == IF e \in DOMAIN FabricPorts THEN FabricPorts[e] ELSE LeafPorts[e]
AllAddresses ==
  {<<e, FabricPorts[e]>> : e \in DOMAIN FabricPorts} \cup {<<e, LeafPorts[e]>> : e \in DOMAIN LeafPorts}
  \cup {<<e, LeafVlans[e]>> : e \in DOMAIN LeafVlans} \cup {<<e, Loopbacks[e]>> : e \in DOMAIN Loopbacks}
  \cup {<<s.at, s.ip>> : s \in ServerPorts} \cup {<<m.at, m.ip>> : m \in Machines}

DemoSound ==
  /\ \A l \in DemoLinks : l[1] \in DemoPorts /\ l[2] \in DemoPorts
  /\ \A l, m \in DemoLinks : l # m => \A e \in {l[1], l[2]} \cap {m[1], m[2]} : e[1] = "server"
  /\ \A l \in Underlay : Subnet(AddressOf(l[1])) = Subnet(AddressOf(l[2]))
  /\ \A m \in Machines : \E l \in Access :
       /\ l[1][1] = "leaf" /\ l[2][2] = m.on
       /\ LeafVlans[<<"leaf", l[1][2], <<m.vlan>>>>] = m.gw
  /\ \A a, b \in AllAddresses : a[2] = b[2] /\ a # b => {a[1], b[1]} = {<<"server", 3, 0>>, <<"vm", 3, 0>>}

BuildSound == AddressesDistinct /\ HostsBehindGateways /\ DemoSound

\* The manager, and a request that is numbered; neither touches what the other has.
TopologiesSpec ==
  /\ ManagerInit /\ BuildInit
  /\ [][\/ ManagerNext /\ UNCHANGED buildVars
        \/ BuildNext /\ UNCHANGED managerVars]_<<managerVars, buildVars>>

\* What the server keeps in memory and what it makes itself is sound.
TopologiesSound == ManagerSound /\ BuildSound
=============================================================================
