--------------------------- MODULE MCTopologyEdit ---------------------------
(* Two devices, a PC and a hub that a client may replace by another PC,    *)
(* and links that compete for their ports and identifiers.                 *)
(* In other scenes, the manager has the same documents, first without      *)
(* subscribers and then with one document and two of them, and the server  *)
(* numbers networks of two routers, two hosts and a switch.                *)
EXTENDS TopologyBuild, TLC

CONSTANTS pc, hub, a, b, e0, e1, l1, l2, R1, R2, H1, H2, S1, Scenes
VARIABLE scene

MCDefaults == (pc :> {e0}) @@ (hub :> {e0, e1})

MCConnectable == (Kinds \X Kinds) \ {<<pc, pc>>}

at(d, p) == [device |-> d, port |-> p]

Cable(id, p, q) == [id |-> id, source |-> at(a, p), target |-> at(b, q)]

MCSentDevices == {[kind |-> pc, ports |-> {}, listed |-> FALSE]}

MCSentLinks == {Cable(l1, e0, e0), Cable(l2, e0, e1), Cable(l1, e0, e1)}

MCSentDocs ==
  LET Both == (a :> [kind |-> pc, ports |-> {e0}]) @@ (b :> [kind |-> hub, ports |-> {e0, e1}])
      OnlyA == [Both EXCEPT ![b] = NoDevice]
  IN {[devices |-> Both, links |-> {}], [devices |-> Both, links |-> {Cable(l1, e0, e0), Cable(l2, e0, e1)}],
      [devices |-> OnlyA, links |-> {Cable(l2, e0, e1)}]}

Permuted == Permutations(Requests)

MCNodePorts == [n \in {R1, R2, H1, H2, S1} |-> CASE n = R1 -> {e0, e1} [] n \in {R2, H1, H2} -> {e0} [] n = S1 -> {e0, e1}]
MCDrawnLinks == {<<<<H1, e0>>, <<R1, e0>>>>, <<<<R1, e0>>, <<H2, e0>>>>, <<<<R2, e0>>, <<H1, e0>>>>,
                 <<<<H1, e0>>, <<S1, e0>>>>, <<<<S1, e1>>, <<R1, e1>>>>, <<<<H1, e0>>, <<H2, e0>>>>}

Empty == CHOOSE doc \in SoundDocs : doc.links = {}

ScenesInit == scene \in Scenes /\ Init /\ ManagerInit /\ BuildInit

ScenesNext ==
  /\ UNCHANGED scene
  /\ \/ scene = "requests" /\ Next /\ UNCHANGED <<managerVars, buildVars>>
     \/ scene = "manager" /\ ManagerNext /\ subs' = <<>> /\ UNCHANGED <<vars, buildVars>>
     \/ scene = "watchers" /\ ManagerNext /\ kept' \in {NoDoc, Empty} /\ changes' <= 2 /\ UNCHANGED <<vars, buildVars>>
     \/ scene = "build" /\ BuildNext /\ UNCHANGED <<vars, managerVars>>

ScenesSpec == ScenesInit /\ [][ScenesNext]_<<scene, vars, managerVars, buildVars>>
=============================================================================
