------------------------------ MODULE MCProtocols ------------------------------
(***************************************************************************)
(* One protocol simulator or service of the server at a time (the scene):  *)
(* each has variables of its own and they do not interact.                 *)
(***************************************************************************)
EXTENDS ProtocolTimers, ProtocolRouters, ProtocolTables, ServerWatch, RouterBackend

CONSTANTS Scenes, n1, n2, as100, as65000
VARIABLE scene

PartOf == {<<n1, n2>>}
SomeRequests == {[as |-> as65000, lines |-> <<n2, n1>>], [as |-> as100, lines |-> <<n1, n1>>]}
TwoRanges == {<<1, 2>>, <<2, 3>>}

ProtocolsInit == scene \in Scenes /\ TimersInit /\ RoutersInit /\ TablesInit /\ WatchInit /\ BackendInit /\ (scene # "router" => feature = "table")

SimulatorNext ==
  \/ scene = "stp" /\ StpSim /\ UNCHANGED <<routerVars, tableVars>>
  \/ scene = "ospf" /\ OspfSim /\ UNCHANGED <<routerVars, tableVars>>
  \/ scene = "bgp" /\ BgpSim /\ UNCHANGED <<routerVars, tableVars>>
  \/ scene = "icmp" /\ IcmpSim /\ UNCHANGED <<routerVars, tableVars>>
  \/ scene = "router" /\ RouterSim /\ UNCHANGED <<timerVars, tableVars>>
  \/ /\ \/ scene = "dhcp" /\ DhcpSim
        \/ scene = "nat" /\ NatSim
        \/ scene = "arp" /\ ArpSim
        \/ scene = "tcp" /\ TcpSim
        \/ scene = "server" /\ ServerSim
        \/ scene = "dns" /\ DnsSim
        \/ scene = "vxlan" /\ VxlanSim
     /\ UNCHANGED <<timerVars, routerVars>>

ServiceNext ==
  \/ /\ \/ scene = "limits" /\ LimitSim
        \/ scene = "notes" /\ NoteSim
        \/ scene = "rebuilds" /\ RebuildSim
        \/ scene = "records" /\ RecordSim
        \/ scene = "events" /\ EventSim
     /\ UNCHANGED backendVars
  \/ scene = "frr" /\ BackendNext /\ UNCHANGED watchVars

ProtocolsNext ==
  /\ UNCHANGED scene
  /\ \/ SimulatorNext /\ UNCHANGED <<watchVars, backendVars>>
     \/ ServiceNext /\ UNCHANGED <<timerVars, routerVars, tableVars>>

ProtocolsSpec ==
  /\ ProtocolsInit /\ [][ProtocolsNext]_<<scene, timerVars, routerVars, tableVars, watchVars, backendVars>>
  /\ StpFairness /\ BgpFairness
=============================================================================
