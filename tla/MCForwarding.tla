---------------------------- MODULE MCForwarding ----------------------------
(* Forwarding in every fabric of three core devices and two hosts.          *)
EXTENDS Forwarding

CONSTANTS h1, h2, s1, s2, s3

Core == {s1, s2, s3}

Link(a, b, vlan, vni) == [a |-> a, b |-> b, vlan |-> vlan, vni |-> vni]

\* The links of a fabric: the hosts' access links, then those of the core.
Wiring(at1, at2, vlan1, vlan2, inner) ==
     (IF at1 = NoMachine THEN <<>> ELSE <<Link(h1, at1, vlan1, 0)>>)
  \o (IF at2 = NoMachine THEN <<>> ELSE <<Link(h2, at2, vlan2, 0)>>)
  \o inner

Joint(a, b, kind) ==
  CASE kind = "none"  -> <<>>
    [] kind = "plain" -> <<Link(a, b, 0, 0)>>
    [] kind = "vxlan" -> <<Link(a, b, 0, 1)>>
    [] kind = "both"  -> <<Link(a, b, 0, 0), Link(a, b, 0, 1)>>

\* Plain networks: any wiring of the core, hosts anywhere, no VLAN.
PlainFabrics ==
  {[links |-> Wiring(at1, at2, 0, 0, Joint(s1, s2, k12) \o Joint(s2, s3, k23) \o Joint(s3, s1, k31)),
    vtep |-> {}, vlan |-> [d \in Machines |-> 0], gateways |-> [d \in Machines |-> {}]]
     : at1 \in {s1, NoMachine}, at2 \in Core \cup {h1},
       k12, k23, k31 \in {"none", "plain"}}

\* Overlays: h1 and h2 behind s1 and s2, both behind s1, or h2 alone; VLANs and gateways.
OverlayFabrics ==
  {[links |-> Wiring(s1, at2, v1, v2, Joint(s1, s2, k12) \o Joint(s2, s3, k23) \o Joint(s3, s1, k31)),
    vtep |-> vteps,
    vlan |-> [d \in Machines |-> IF d = h1 THEN v1 ELSE IF d = h2 THEN v2 ELSE 0],
    gateways |-> [d \in Machines |-> IF d \in gws THEN {v1, v2} ELSE {}]]
     : at2 \in {s1, s2, NoMachine}, v1 \in {1}, v2 \in {1, 2},
       k12 \in {"none", "vxlan", "both"}, k23 \in {"none", "vxlan"}, k31 \in {"none", "plain", "vxlan"},
       vteps \in {{}, {s1}, {s1, s2}, Core}, gws \in {{}, {s1, s2}}}

MCFabrics == PlainFabrics \cup {f \in OverlayFabrics : \A d \in Machines \ f.vtep : f.gateways[d] = {}}
=============================================================================
