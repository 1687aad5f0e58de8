-------------------------------- MODULE MCDevice --------------------------------
(***************************************************************************)
(* One device at a time, with one of its features (the scene): the         *)
(* commands of the feature in every order, up to a bound on how much is    *)
(* configured at once.  A feature has variables of its own, so features of *)
(* different scenes do not interact.  One scene has two devices, with the  *)
(* link between them.                                                      *)
(***************************************************************************)
EXTENDS LinkAggregation, AaaConfig, InterfaceConfig, RoutingConfig, SwitchPorts, LinkQuality, DeviceServices, FiniteSetsExt

CONSTANTS Scenes, MaxLag, MaxAaa, MaxVrrp, MaxIgp, MaxSecurity, MaxStp, MaxAcl, MaxSvc
VARIABLE scene

\* Ports are numbered in the order of their names.
RankOf  == [p \in Ports |-> p]
OrderOf == [p \in SwPorts |-> p]

\* One route policy of two nodes.
PolicyNodes == {<<"a", 5>>, <<"a", 10>>}

\* One link between the two devices.
OneWire == {{<<d, p>> : d \in QDevices} : p \in QPorts}

(* How much is configured: the fields that differ from their defaults, the *)
(* less interesting ones counted more than once.                           *)

Changed(f, default)  == Cardinality({x \in DOMAIN f : f[x] # default})
Differs(r, default)  == Cardinality({x \in DOMAIN r : r[x] # default[x]})
Configured(f, default) == MapThenSumSet(LAMBDA x : Differs(f[x], default), DOMAIN f)

LagLoad ==
  Cardinality(named) + Changed(member, Nowhere)
  + 2 * (Cardinality(lacp) + Changed(least, 1) + Changed(most, MaxMembers))
  + 3 * (Changed(priority, PortPriority) + Cardinality(settings) + Cardinality(down))

AaaLoad ==
  3 * Cardinality(users) + Cardinality(DOMAIN mode)
  + Cardinality({x \in DOMAIN mode : mode[x] # Unset}) + Cardinality(DOMAIN domain)
  + Cardinality({x \in (DOMAIN domain) \X Kinds : domain[x[1]].bound[x[2]] # NoScheme})

VrrpLoad == Configured(vrrp, NoGroup) + Cardinality(isDown) + Changed(subnet, Unconfigured)

IgpLoad == Differs(live.ospf, Nothing.ospf) + Differs(live.isis, FreshSession.isis)
           + Cardinality(kept.policy) + Cardinality(kept.filter)

\* A port that was ever secured counts most.
SecurityLoad == Configured(security, NoSecurity)
                + 6 * Cardinality({p \in SwPorts : security[p] # NoSecurity \/ peak[p] # 1 \/ learned[p] # {}})

\* What the roles depend on counts once, the keys they do not depend on three times.
StpLoad == 3 * Differs(stp, NoStp) - (IF stp.standard # NoStp.standard THEN 2 ELSE 0)
           + Configured(stpPort, NoStpPort) + Cardinality(closed)

\* A second rule counts more than the first, and a number given by hand once more.
AclLoad == LET rules == MapThenSumSet(LAMBDA n : Len(acls[n]), DOMAIN acls)
               byHand == MapThenSumSet(LAMBDA n : Cardinality({i \in DOMAIN acls[n] : acls[n][i].id \in RuleIds}), DOMAIN acls)
           IN rules * rules + byHand + Cardinality(filters) + 2 * Differs(nat, NoNat)

\* A feature counts once whether it is on or was, a server and an entry on top of it; so
\* does the saved configuration, and the question about saving.
SvcLoad ==
  LET rest == [svc EXCEPT !.on = {}, !.server = Defaults.server, !.entries = Defaults.entries, !.vni = NoService]
      inPools == MapThenSumSet(LAMBDA n : Cardinality(svc.pools[n]), DOMAIN svc.pools)
      keys == [svcKeys EXCEPT !.preset = NoService, !.apps = {}]
  IN Cardinality(wasOn \cup (svc.on \ {"vxlan"})) + Changed(svc.entries, {})
     + (IF svc.vni = svcKeys.preset THEN 0 ELSE 1) + Differs(rest, Defaults) + inPools
     + Cardinality(svcKeys.apps) + Differs(keys, NoSvcKeys) + (IF startup = NoService THEN 0 ELSE 1) + (IF asked THEN 1 ELSE 0)

DeviceInit ==
  /\ scene \in Scenes /\ LagInit /\ AaaInit /\ IfInit /\ RtInit /\ SwInit /\ QualityInit /\ HostInit /\ AclInit /\ SvcInit
  /\ (scene = "host" \/ port = Bare) /\ (scene = "services" \/ svcKeys = NoSvcKeys)

InterfaceScene ==
  \/ IfViews
  \/ scene = "gre" /\ GreNext
  \/ scene = "relay" /\ RelayNext
  \/ scene = "ipv6" /\ V6Next
  \/ scene = "vrrp" /\ VrrpNext /\ VrrpLoad' <= MaxVrrp

RoutingScene ==
  \/ ViewNext
  \/ scene = "igp" /\ (IgpNext \/ PolicyNext) /\ IgpLoad' <= MaxIgp
  \/ scene = "bgp" /\ BgpNext
  \/ scene = "evpn" /\ EvpnNext

SwitchScene ==
  \/ SwRebuild
  \/ scene = "security" /\ PsNext /\ SecurityLoad' <= MaxSecurity
  \/ scene = "vlans" /\ VlanNext /\ Changed(carries', NoCarries) <= 1
  \/ scene = "tree" /\ StpNext /\ StpLoad' <= MaxStp

DeviceNext ==
  /\ UNCHANGED scene
  /\ \/ /\ scene = "aggregation" /\ LagNext /\ LagLoad' <= MaxLag
        /\ UNCHANGED <<aaaVars, ifVars, rtVars, swVars, qVars, hostVars, aclVars, svcVars>>
     \/ /\ scene = "aaa" /\ AaaNext /\ AaaLoad' <= MaxAaa
        /\ UNCHANGED <<lagVars, ifVars, rtVars, swVars, qVars, hostVars, aclVars, svcVars>>
     \/ /\ scene \in {"gre", "relay", "ipv6", "vrrp"} /\ InterfaceScene
        /\ UNCHANGED <<lagVars, aaaVars, rtVars, swVars, qVars, hostVars, aclVars, svcVars>>
     \/ /\ scene \in {"igp", "bgp", "evpn"} /\ RoutingScene
        /\ UNCHANGED <<lagVars, aaaVars, ifVars, swVars, qVars, hostVars, aclVars, svcVars>>
     \/ /\ scene \in {"security", "vlans", "tree"} /\ SwitchScene
        /\ UNCHANGED <<lagVars, aaaVars, ifVars, rtVars, qVars, hostVars, aclVars, svcVars>>
     \/ /\ scene = "quality" /\ QualityNext
        /\ UNCHANGED <<lagVars, aaaVars, ifVars, rtVars, swVars, hostVars, aclVars, svcVars>>
     \/ /\ scene = "host" /\ HostNext
        /\ UNCHANGED <<lagVars, aaaVars, ifVars, rtVars, swVars, qVars, aclVars, svcVars>>
     \/ /\ scene = "acl" /\ AclNext /\ AclLoad' <= MaxAcl
        /\ UNCHANGED <<lagVars, aaaVars, ifVars, rtVars, swVars, qVars, hostVars, svcVars>>
     \/ /\ scene = "services" /\ (ViewsNext \/ SettingsNext) /\ SvcLoad' <= MaxSvc
        /\ UNCHANGED <<lagVars, aaaVars, ifVars, rtVars, swVars, qVars, hostVars, aclVars>>

DeviceSpec == DeviceInit /\ [][DeviceNext]_<<scene, lagVars, aaaVars, ifVars, rtVars, swVars, qVars, hostVars, aclVars, svcVars>>
=============================================================================
