----------------------------- MODULE RoutingConfig -----------------------------
(***************************************************************************)
(* The routing protocols of a session (internal/cli/parser.go,             *)
(* evpn_ctrl_cmd.go, routing_policy_cmd.go): OSPF, IS-IS, BGP with its     *)
(* L2VPN EVPN family, EVPN instances with their bridge domains, route      *)
(* policies and filters, and the views their commands are given in.        *)
(*                                                                         *)
(* A command changes the session's own structure, live, and writes keys of *)
(* the configuration that is stored with the topology, kept.  A session    *)
(* that is built again has what LoadFromDeviceConfigData makes of the keys.*)
(* kept has the shape of live; a part without its marking key is absent.   *)
(***************************************************************************)
EXTENDS Naturals, Functions

CONSTANTS
  RtPids, Areas, Levels, DefaultLevel, Protocols,  \* OSPF and IS-IS
  ASes, Peers,                                     \* BGP
  Instances, BDs, Targets, Gateways,               \* EVPN
  Policies, Clauses, Filtered,                     \* route policies, filter-policy
  Absent

ASSUME RoutingAssumption ==
  /\ DefaultLevel \in Levels
  /\ Absent \notin RtPids /\ Absent \notin Areas /\ Absent \notin Levels /\ Absent \notin ASes
  /\ Absent \notin Instances /\ Absent \notin BDs /\ Absent \notin Gateways /\ Absent \notin Policies

VARIABLES
  rtView, \* the view, and the instance, bridge domain and policy node it is of
  live,
  kept,
  orphan  \* an undo bgp has left a family that was enabled in live

rtVars == <<rtView, live, kept, orphan>>

Ctx(v)     == [view |-> v, inst |-> Absent, bd |-> Absent, node |-> Absent]
At(v)  == rtView.view = v

Nothing ==
  [ospf   |-> [pid |-> Absent, area |-> Absent],
   isis   |-> [pid |-> Absent, level |-> Absent, imports |-> {}],
   bgp    |-> [as |-> Absent, peers |-> [p \in {} |-> Absent]],
   l2     |-> [enabled |-> FALSE, irb |-> FALSE, peers |-> {}],
   insts  |-> [i \in {} |-> Absent],
   bds    |-> [b \in {} |-> Absent],
   policy |-> {},  \* <<node, clause>>, the node's action among the clauses
   filter |-> {}]  \* <<protocol, direction>>

NewInst == [rd |-> FALSE, rts |-> {}, bds |-> {}]
NewBD   == [vni |-> FALSE, gateway |-> Absent]

\* A fresh session; policies and filters are keys and have no structure.
FreshSession == [Nothing EXCEPT !.isis.level = DefaultLevel]

RtInit == rtView = Ctx("User") /\ live = FreshSession /\ kept = Nothing /\ orphan = FALSE

\* A map that has y for x.
Assign(m, x, y) == [z \in DOMAIN m \cup {x} |-> IF z = x THEN y ELSE m[z]]

\* A command that changes the same part of both.
Both(f, l, k) == live' = [live EXCEPT ![f] = l] /\ kept' = [kept EXCEPT ![f] = k]
Alike(f, v)   == Both(f, v, v)
KeysOnly(f, k) == kept' = [kept EXCEPT ![f] = k] /\ UNCHANGED live

\* LoadFromDeviceConfigData and loadEVPNFromDeviceConfig: a protocol is built if its key
\* enabled is there, a bridge domain if it has a key at all.
Rebuilt ==
  [ospf   |-> IF kept.ospf.pid = Absent THEN FreshSession.ospf ELSE kept.ospf,
   isis   |-> IF kept.isis.pid = Absent THEN FreshSession.isis
              ELSE [kept.isis EXCEPT !.level = IF @ = Absent THEN DefaultLevel ELSE @],
   bgp    |-> IF kept.bgp.as = Absent THEN FreshSession.bgp ELSE kept.bgp,
   l2     |-> IF kept.l2.enabled THEN kept.l2 ELSE FreshSession.l2,
   insts  |-> kept.insts,
   bds    |-> kept.bds,
   policy |-> {},
   filter |-> {}]

-----------------------------------------------------------------------------
(* Views.                                                                  *)

\* system-view, from anywhere; the instance, bridge domain and node it leaves behind are
\* read in their own views only.
SystemView ==
  /\ rtView' = Ctx("System")
  /\ UNCHANGED <<live, kept, orphan>>

\* quit: a view without a rule of its own goes to the system view, the user view too.
Parent(v) == CASE v = "BD"     -> "EVPNInstance"
               [] v = "L2VPN"  -> "BGP"
               [] v = "System" -> "User"
               [] OTHER        -> "System"

QuitView ==
  /\ rtView' = [Ctx(Parent(rtView.view)) EXCEPT !.inst = IF At("BD") THEN rtView.inst ELSE Absent]
  /\ UNCHANGED <<live, kept, orphan>>

ReturnToUser ==
  /\ rtView' = Ctx("User")
  /\ UNCHANGED <<live, kept, orphan>>

\* The session is dropped and built again from the stored topology.
Rebuild ==
  /\ rtView' = Ctx("User")
  /\ live' = Rebuilt
  /\ orphan' = FALSE
  /\ UNCHANGED kept

ViewNext == SystemView \/ QuitView \/ ReturnToUser \/ Rebuild

-----------------------------------------------------------------------------
(* OSPF and IS-IS.                                                         *)

\* ospf <pid> [area <a>]: without an area the last one stays.
Ospf(pid, a) ==
  /\ At("System")
  /\ LET area(s) == IF a = Absent THEN s.ospf.area ELSE a
     IN Both("ospf", [pid |-> pid, area |-> area(live)], [pid |-> pid, area |-> area(kept)])
  /\ UNCHANGED <<rtView, orphan>>

\* A protocol's keys, its filters' among them, go with it.
Unfiltered(p) == {f \in kept.filter : f[1] # p}

UndoOspf ==
  /\ At("System")
  /\ live' = [live EXCEPT !.ospf = FreshSession.ospf]
  /\ kept' = [kept EXCEPT !.ospf = Nothing.ospf, !.filter = Unfiltered("ospf")]
  /\ UNCHANGED <<rtView, orphan>>

Isis(pid) ==
  /\ At("System")
  /\ Both("isis", [live.isis EXCEPT !.pid = pid], [kept.isis EXCEPT !.pid = pid])
  /\ rtView' = Ctx("ISIS")
  /\ UNCHANGED orphan

IsisNetwork(l) ==
  /\ At("ISIS")
  /\ Both("isis", [live.isis EXCEPT !.level = l], [kept.isis EXCEPT !.level = l])
  /\ UNCHANGED <<rtView, orphan>>

\* import-route writes the whole list of the structure.
IsisImport(p) ==
  /\ At("ISIS")
  /\ LET all == live.isis.imports \cup {p}
     IN Both("isis", [live.isis EXCEPT !.imports = all], [kept.isis EXCEPT !.imports = all])
  /\ UNCHANGED <<rtView, orphan>>

UndoIsis ==
  /\ At("System")
  /\ live' = [live EXCEPT !.isis = FreshSession.isis]
  /\ kept' = [kept EXCEPT !.isis = Nothing.isis, !.filter = Unfiltered("isis")]
  /\ UNCHANGED <<rtView, orphan>>

IgpNext ==
  \/ UndoOspf \/ UndoIsis
  \/ \E pid \in RtPids : Isis(pid) \/ (\E a \in Areas \cup {Absent} : Ospf(pid, a))
  \/ \E l \in Levels : IsisNetwork(l)
  \/ \E p \in Protocols : IsisImport(p)

-----------------------------------------------------------------------------
(* BGP.                                                                    *)

\* bgp <as>: the peers stay, each with the kind it had under the old AS.
Bgp(as) ==
  /\ At("System")
  /\ Both("bgp", [live.bgp EXCEPT !.as = as], [kept.bgp EXCEPT !.as = as])
  /\ rtView' = Ctx("BGP")
  /\ UNCHANGED orphan

\* peer <ip> <as>
Peer(p, as) ==
  /\ At("BGP")
  /\ LET entry == [as |-> as, ebgp |-> as # live.bgp.as]
     IN Both("bgp", [live.bgp EXCEPT !.peers = Assign(@, p, entry)], [kept.bgp EXCEPT !.peers = Assign(@, p, entry)])
  /\ UNCHANGED <<rtView, orphan>>

\* undo bgp deletes every key bgp:..., the family's too, and clears the structure but for
\* the family.
UndoBgp ==
  /\ At("System")
  /\ live' = [live EXCEPT !.bgp = FreshSession.bgp]
  /\ kept' = [kept EXCEPT !.bgp = Nothing.bgp, !.l2 = Nothing.l2, !.filter = Unfiltered("bgp")]
  /\ orphan' = (orphan \/ live.l2.enabled)
  /\ UNCHANGED rtView

\* l2vpn-family evpn
Family2 ==
  /\ At("BGP")
  /\ Both("l2", [live.l2 EXCEPT !.enabled = TRUE], [kept.l2 EXCEPT !.enabled = TRUE])
  /\ rtView' = Ctx("L2VPN")
  /\ UNCHANGED orphan

FamilyPeer(p) ==
  /\ At("L2VPN")
  /\ Both("l2", [live.l2 EXCEPT !.peers = @ \cup {p}], [kept.l2 EXCEPT !.peers = @ \cup {p}])
  /\ UNCHANGED <<rtView, orphan>>

AdvertiseIrb ==
  /\ At("L2VPN")
  /\ Both("l2", [live.l2 EXCEPT !.irb = TRUE], [kept.l2 EXCEPT !.irb = TRUE])
  /\ UNCHANGED <<rtView, orphan>>

BgpNext ==
  \/ UndoBgp \/ Family2 \/ AdvertiseIrb
  \/ \E as \in ASes : Bgp(as) \/ (\E p \in Peers : Peer(p, as))
  \/ \E p \in Peers : FamilyPeer(p)

-----------------------------------------------------------------------------
(* EVPN instances and bridge domains.                                      *)

Ensured(m, x, new) == IF x \in DOMAIN m THEN m ELSE Assign(m, x, new)

\* evpn vpn-instance <i>
EvpnInstance(i) ==
  /\ At("System")
  /\ Both("insts", Ensured(live.insts, i, NewInst), Ensured(kept.insts, i, NewInst))
  /\ rtView' = [Ctx("EVPNInstance") EXCEPT !.inst = i]
  /\ UNCHANGED orphan

\* route-distinguisher and vpn-target, in an instance's view
InstField(r) ==
  /\ At("EVPNInstance")
  /\ LET i == rtView.inst
         set(m) == Assign(m, i, [rd |-> m[i].rd \/ r.rd, rts |-> m[i].rts \cup r.rts, bds |-> m[i].bds])
     IN Both("insts", set(live.insts), set(kept.insts))
  /\ UNCHANGED <<rtView, orphan>>

RouteDistinguisher == InstField([rd |-> TRUE, rts |-> {}])
VpnTarget(t)       == InstField([rd |-> FALSE, rts |-> {t}])

\* bridge-domain <b> in an instance's view: the domain itself gets no key.
BridgeDomain(b) ==
  /\ At("EVPNInstance")
  /\ LET i == rtView.inst
         set(m) == Assign(m, i, [m[i] EXCEPT !.bds = @ \cup {b}])
     IN /\ live' = [live EXCEPT !.insts = set(@), !.bds = Ensured(@, b, NewBD)]
        /\ kept' = [kept EXCEPT !.insts = set(@)]
  /\ rtView' = [rtView EXCEPT !.view = "BD", !.bd = b]
  /\ UNCHANGED orphan

\* vxlan vni in a domain's view, and bridge-domain <b> in the view of its gateway's
\* interface, which is entered from the system view
BDField(b, r) ==
  LET set(m) == LET old == Ensured(m, b, NewBD)[b]
                IN Assign(m, b, [vni |-> old.vni \/ r.vni, gateway |-> IF r.gateway = Absent THEN old.gateway ELSE r.gateway])
  IN Both("bds", set(live.bds), set(kept.bds))

BDVni ==
  /\ At("BD")
  /\ BDField(rtView.bd, [vni |-> TRUE, gateway |-> Absent])
  /\ UNCHANGED <<rtView, orphan>>

BDGateway(b, g) ==
  /\ At("System")
  /\ BDField(b, [vni |-> FALSE, gateway |-> g])
  /\ UNCHANGED <<rtView, orphan>>

\* Mutant: an instance is removed from any view.
UndoInstanceAnywhere(i) ==
  /\ Both("insts", Restrict(live.insts, DOMAIN live.insts \ {i}), Restrict(kept.insts, DOMAIN kept.insts \ {i}))
  /\ UNCHANGED <<rtView, orphan>>

\* undo evpn vpn-instance <i>: its domains stay.
UndoEvpnInstance(i) ==
  /\ At("System")
  /\ Both("insts", Restrict(live.insts, DOMAIN live.insts \ {i}), Restrict(kept.insts, DOMAIN kept.insts \ {i}))
  /\ UNCHANGED <<rtView, orphan>>

EvpnNext ==
  \/ RouteDistinguisher \/ BDVni
  \/ \E i \in Instances : EvpnInstance(i) \/ UndoEvpnInstance(i)
  \/ \E t \in Targets : VpnTarget(t)
  \/ \E b \in BDs : BridgeDomain(b) \/ (\E g \in Gateways : BDGateway(b, g))

-----------------------------------------------------------------------------
(* Route policies and filters: keys only.                                  *)

RoutePolicy(n) ==
  /\ At("System")
  /\ KeysOnly("policy", kept.policy \cup {<<n, "action">>})
  /\ rtView' = [Ctx("RoutePolicy") EXCEPT !.node = n]
  /\ UNCHANGED orphan

PolicyClause(c) ==
  /\ At("RoutePolicy")
  /\ KeysOnly("policy", kept.policy \cup {<<rtView.node, c>>})
  /\ UNCHANGED <<rtView, orphan>>

\* undo route-policy <name>: every node of the policy; a node is a name and a number.
UndoRoutePolicy(name) ==
  /\ At("System")
  /\ KeysOnly("policy", {x \in kept.policy : x[1][1] # name})
  /\ UNCHANGED <<rtView, orphan>>

\* filter-policy: the protocol is the view's, or named in the system view.
FilterPolicy(p, d) ==
  /\ At("System") \/ (At("BGP") /\ p = "bgp") \/ (At("ISIS") /\ p = "isis")
  /\ KeysOnly("filter", kept.filter \cup {<<p, d>>})
  /\ UNCHANGED <<rtView, orphan>>

PolicyNext ==
  \/ \E n \in Policies : RoutePolicy(n)
  \/ \E name \in {n[1] : n \in Policies} : UndoRoutePolicy(name)
  \/ \E c \in Clauses : PolicyClause(c)
  \/ \E p \in Filtered, d \in {"import", "export"} : FilterPolicy(p, d)

RtNext == ViewNext \/ IgpNext \/ BgpNext \/ EvpnNext \/ PolicyNext

RtSpec == RtInit /\ [][RtNext]_rtVars

-----------------------------------------------------------------------------
(* Properties.                                                             *)

InstType == [rd : BOOLEAN, rts : SUBSET Targets, bds : SUBSET BDs]
BDType   == [vni : BOOLEAN, gateway : Gateways \cup {Absent}]
PeerType == [as : ASes, ebgp : BOOLEAN]

Maps(f, D, R) == DOMAIN f \subseteq D /\ \A x \in DOMAIN f : f[x] \in R

IsStore(s) ==
  /\ DOMAIN s = DOMAIN Nothing
  /\ s.ospf \in [pid : RtPids \cup {Absent}, area : Areas \cup {Absent}]
  /\ s.isis \in [pid : RtPids \cup {Absent}, level : Levels \cup {Absent}, imports : SUBSET Protocols]
  /\ DOMAIN s.bgp = {"as", "peers"} /\ s.bgp.as \in ASes \cup {Absent} /\ Maps(s.bgp.peers, Peers, PeerType)
  /\ s.l2 \in [enabled : BOOLEAN, irb : BOOLEAN, peers : SUBSET Peers]
  /\ Maps(s.insts, Instances, InstType) /\ Maps(s.bds, BDs, BDType)
  /\ s.policy \subseteq Policies \X (Clauses \cup {"action"})
  /\ s.filter \subseteq Filtered \X {"import", "export"}

RtViews == {"User", "System", "ISIS", "BGP", "L2VPN", "EVPNInstance", "BD", "RoutePolicy"}

RtTypeOK ==
  /\ rtView \in [view : RtViews, inst : Instances \cup {Absent}, bd : BDs \cup {Absent}, node : Policies \cup {Absent}]
  /\ IsStore(live) /\ IsStore(kept)
  /\ orphan \in BOOLEAN

\* In the view of a protocol, an instance, a bridge domain or a policy, that one is
\* configured: nothing can be undone while the session is in its view or in one below it.
ContextExists ==
  /\ At("ISIS") => live.isis.pid # Absent
  /\ At("BGP") \/ At("L2VPN") => live.bgp.as # Absent
  /\ At("L2VPN") => live.l2.enabled
  /\ At("EVPNInstance") \/ At("BD") => rtView.inst \in DOMAIN live.insts
  /\ At("BD") => rtView.bd \in live.insts[rtView.inst].bds /\ rtView.bd \in DOMAIN live.bds
  /\ At("RoutePolicy") => <<rtView.node, "action">> \in kept.policy

\* A session that is built again has the routing configuration it had (the comments on
\* LoadFromDeviceConfigData and loadEVPNFromDeviceConfig), but for a bridge domain that
\* was given neither a VNI nor a gateway and for the family that an undo bgp left.
Given(b) == b.vni \/ b.gateway # Absent

RebuildKeepsRouting ==
  /\ \A f \in {"ospf", "isis", "bgp", "insts"} : Rebuilt[f] = live[f]
  /\ Rebuilt.l2 = live.l2 \/ orphan
  /\ \A b \in BDs : IF b \in DOMAIN live.bds /\ Given(live.bds[b])
                    THEN b \in DOMAIN Rebuilt.bds /\ Rebuilt.bds[b] = live.bds[b]
                    ELSE b \notin DOMAIN Rebuilt.bds

RoutingCoherent == RtTypeOK /\ ContextExists /\ RebuildKeepsRouting
=============================================================================
