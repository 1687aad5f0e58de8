----------------------------- MODULE DeviceProofs -----------------------------
(***************************************************************************)
(* Features of a device, for any names, ports, numbers and values.         *)
(***************************************************************************)
EXTENDS AaaConfig, DeviceServices, InterfaceConfig, LinkAggregation, LinkQuality, RoutingConfig, SwitchPorts,
        Numbers, SequenceTheorems, TLAPS

-----------------------------------------------------------------------------
(* Users, schemes and domains.                                             *)

\* What a domain may be written over with.
LEMMA RewriteKeeps ==
  ASSUME AaaReferencesResolve, InView("Domain"), NEW entry \in Entries,
         \A k \in Kinds : entry.bound[k] # NoScheme => SchemeExists(k, entry.bound[k]),
         Rewrite(aaaView.of[1], entry), UNCHANGED <<aaaView, users, mode>>
  PROVE  AaaReferencesResolve'
<1> DEFINE d == aaaView.of[1]
<1>1. d \in DOMAIN domain
  BY DEF AaaReferencesResolve
<1>2. domain' = [x \in DOMAIN domain |-> IF x = d THEN entry ELSE domain[x]]
  BY <1>1 DEF Rewrite, Put
<1> HIDE DEF d
<1>3. DOMAIN domain' = DOMAIN domain /\ domain' \in [DOMAIN domain' -> Entries]
  BY <1>1, <1>2 DEF AaaReferencesResolve, AaaTypeOK
<1>4. AaaTypeOK'
  BY <1>3 DEF AaaReferencesResolve, AaaTypeOK, View, Outside, Top
<1>5. \A e \in DOMAIN domain', k \in Kinds :
        domain'[e].bound[k] # NoScheme => SchemeExists(k, domain[e].bound[k])'
  <2> SUFFICES ASSUME NEW e \in DOMAIN domain, NEW k \in Kinds, domain'[e].bound[k] # NoScheme
               PROVE  SchemeExists(k, domain'[e].bound[k])
    BY <1>3 DEF SchemeExists
  <2>1. CASE e = d
    BY <1>2, <2>1
  <2>2. CASE e # d
    BY <1>2, <2>2 DEF AaaReferencesResolve
  <2> QED
    BY <2>1, <2>2
<1>6. (InView("Scheme") => aaaView.of \in DOMAIN mode)' /\ (InView("Domain") => aaaView.of[1] \in DOMAIN domain)'
  BY <1>3 DEF AaaReferencesResolve, InView
<1> QED
  BY <1>4, <1>5, <1>6 DEF AaaReferencesResolve

\* The type of a domain's entry survives the change of a binding and of the state.
LEMMA EntryKept ==
  ASSUME NEW entry \in Entries, NEW k \in Kinds, NEW s \in Schemes \cup {NoScheme}
  PROVE  [entry EXCEPT !.bound[k] = s] \in Entries
BY DEF Entries

\* Every command keeps the references, and the view in what exists.
LEMMA ReferencesKept == AaaReferencesResolve /\ [AaaNext]_aaaVars => AaaReferencesResolve'
<1> SUFFICES ASSUME AaaReferencesResolve, [AaaNext]_aaaVars PROVE AaaReferencesResolve'
  OBVIOUS
<1> USE DEF AaaReferencesResolve, AaaTypeOK
<1>1. CASE EnterAAA
  BY <1>1 DEF EnterAAA, Outside, Top, View, InView, SchemeExists
<1>2. CASE QuitAAA
  BY <1>2 DEF QuitAAA, Outside, Top, View, InView, SchemeExists
<1>3. CASE UndoAAA
  BY <1>3 DEF UndoAAA, NoKeys, Outside, Top, View, InView, SchemeExists
<1>4. ASSUME NEW u \in Users, NEW a \in Attributes, SetUser(u, a) PROVE AaaReferencesResolve'
  BY <1>4 DEF SetUser, InView, SchemeExists, View, Outside, Top
<1>5. ASSUME NEW u \in Users, NEW A \in SUBSET Attributes, UndoUser(u, A) PROVE AaaReferencesResolve'
  BY <1>5 DEF UndoUser, InView, SchemeExists, View, Outside, Top
<1>6. ASSUME NEW k \in Kinds, NEW s \in Schemes, EnterScheme(k, s) PROVE AaaReferencesResolve'
  BY <1>6 DEF EnterScheme, InView, SchemeExists, View, Outside, Top, SchemeNames
<1>7. ASSUME NEW k \in Kinds, NEW s \in Schemes, BindScheme(k, s) PROVE AaaReferencesResolve'
  <2>1. [domain[aaaView.of[1]] EXCEPT !.bound[k] = s] \in Entries
    BY <1>7, EntryKept DEF BindScheme
  <2> DEFINE new == [domain[aaaView.of[1]] EXCEPT !.bound[k] = s]
  <2>2. \A j \in Kinds : new.bound[j] # NoScheme => SchemeExists(j, new.bound[j])
    BY <1>7 DEF BindScheme, Entries
  <2>3. Rewrite(aaaView.of[1], new)
    BY <1>7 DEF BindScheme
  <2> QED
    BY <1>7, <2>1, <2>2, <2>3, RewriteKeeps DEF BindScheme
<1>8. ASSUME NEW k \in Kinds, NEW s \in Schemes, UndoScheme(k, s) PROVE AaaReferencesResolve'
  BY <1>8 DEF UndoScheme, Referencing, Restrict, InView, SchemeExists, View, Outside, Top
<1>9. ASSUME NEW k \in Kinds, UnbindScheme(k) PROVE AaaReferencesResolve'
  <2>1. [domain[aaaView.of[1]] EXCEPT !.bound[k] = NoScheme] \in Entries
    BY <1>9, EntryKept DEF UnbindScheme
  <2> QED
    BY <1>9, <2>1, RewriteKeeps DEF UnbindScheme, Entries
<1>10. ASSUME NEW d \in Domains, EnterDomain(d) PROVE AaaReferencesResolve'
  BY <1>10 DEF EnterDomain, InView, SchemeExists, View, Outside, Top, Fresh, Entries
<1>11. ASSUME NEW d \in Domains, UndoDomain(d) PROVE AaaReferencesResolve'
  BY <1>11 DEF UndoDomain, Restrict, InView, SchemeExists, View, Outside, Top
<1>12. ASSUME NEW m, SetSchemeMode(m) PROVE AaaReferencesResolve'
  BY <1>12 DEF SetSchemeMode, Put, InView, SchemeExists, View, Outside, Top
<1>13. ASSUME NEW s \in {"active", "block"}, SetDomainState(s) PROVE AaaReferencesResolve'
  <2>1. [domain[aaaView.of[1]] EXCEPT !.state = s] \in Entries
    BY <1>13 DEF SetDomainState, Entries
  <2> QED
    BY <1>13, <2>1, RewriteKeeps DEF SetDomainState, Entries
<1>14. CASE UNCHANGED aaaVars
  BY <1>14 DEF aaaVars, InView, SchemeExists, View, Outside, Top
<1> QED
  BY <1>1, <1>2, <1>3, <1>4, <1>5, <1>6, <1>7, <1>8, <1>9, <1>10, <1>11, <1>12, <1>13, <1>14 DEF AaaNext

\* aaa_cmd.go: a scheme that a domain is bound to exists, and so does what the view is of,
\* for every sequence of commands.
THEOREM AaaResolves == AaaSpec => []AaaReferencesResolve
<1>1. AaaInit => AaaReferencesResolve
  BY DEF AaaInit, AaaReferencesResolve, AaaTypeOK, NoKeys, Outside, Top, View, InView
<1> QED
  BY <1>1, ReferencesKept, PTL DEF AaaSpec

-----------------------------------------------------------------------------
(* Interfaces of a router.                                                 *)

\* What TunnelsCoherent and RelaysCoherent say of one tunnel and of one interface.
TunnelSound(g) ==
  /\ ~g.protocol => g = NoGre
  /\ g.protocol /\ g.source # Unconfigured /\ g.source = g.destination => g.source \notin TunnelIPs
  /\ g.keys \cap Keepalive # {} => "keepalive" \in g.keys

RelaySound(r) ==
  /\ r.select # "relay" => r.servers = {} /\ r.keys = {}
  /\ r.servers # {} => Cardinality(r.servers) \in 1..MaxRelayServerIPs

\* A tunnel's keys may be written over with a sound configuration.
LEMMA GreKept ==
  ASSUME InterfacesCoherent, InTunnel, NEW g \in GreType, TunnelSound(g), SetGre(g)
  PROVE  InterfacesCoherent'
<1> USE DEF SetGre, InTunnel
<1>1. gre' = [gre EXCEPT ![in] = g] /\ in \in Tunnels
  OBVIOUS
<1>2. IfTypeOK'
  BY <1>1 DEF InterfacesCoherent, IfTypeOK
<1>3. TunnelsCoherent'
  BY <1>1 DEF InterfacesCoherent, IfTypeOK, TunnelsCoherent, TunnelSound, LineProtocolUp
<1>4. (RelaysCoherent /\ Ipv6Coherent /\ PrioritiesInRange)'
  BY DEF InterfacesCoherent, RelaysCoherent, RelayInterfaces, RelayActive, Ipv6Coherent, PrioritiesInRange, EffectivePriority
<1> QED
  BY <1>2, <1>3, <1>4 DEF InterfacesCoherent

\* So may the DHCP relay of an interface.
LEMMA RelayKept ==
  ASSUME InterfacesCoherent, InInterface, NEW r \in RelayType, RelaySound(r), SetRelay(r)
  PROVE  InterfacesCoherent'
<1> USE DEF SetRelay, InInterface
<1>1. relay' = [relay EXCEPT ![in] = r] /\ in \in Interfaces
  BY DEF InterfacesCoherent, IfTypeOK
<1>2. IfTypeOK'
  BY <1>1 DEF InterfacesCoherent, IfTypeOK
<1>3. RelaysCoherent'
  BY <1>1 DEF InterfacesCoherent, IfTypeOK, RelaysCoherent, RelayInterfaces, RelayActive, RelaySound
<1>4. (TunnelsCoherent /\ Ipv6Coherent /\ PrioritiesInRange)'
  BY DEF InterfacesCoherent, TunnelsCoherent, LineProtocolUp, Ipv6Coherent, PrioritiesInRange, EffectivePriority
<1> QED
  BY <1>2, <1>3, <1>4 DEF InterfacesCoherent

\* So may its IPv6 ...
LEMMA V6Kept ==
  ASSUME InterfacesCoherent, InInterface, NEW r \in V6Type, r.address => r.enabled, SetV6(r)
  PROVE  InterfacesCoherent'
<1> USE DEF SetV6, InInterface
<1>1. v6' = [v6 EXCEPT ![in] = r] /\ in \in Interfaces
  BY DEF InterfacesCoherent, IfTypeOK
<1>2. (IfTypeOK /\ Ipv6Coherent)'
  BY <1>1 DEF InterfacesCoherent, IfTypeOK, Ipv6Coherent
<1>3. (TunnelsCoherent /\ RelaysCoherent /\ PrioritiesInRange)'
  BY DEF InterfacesCoherent, TunnelsCoherent, LineProtocolUp, RelaysCoherent, RelayInterfaces, RelayActive,
         PrioritiesInRange, EffectivePriority
<1> QED
  BY <1>2, <1>3 DEF InterfacesCoherent

\* ... and any VRRP group: what is tracked and by how much makes no difference.
LEMMA Lowered ==
  ASSUME NEW p \in VrrpPriorities, NEW r \in Reductions
  PROVE  p \in 1..254 /\ (IF p - r < 1 THEN 1 ELSE p - r) \in 1..254
BY InterfaceAssumption

\* A command on a VRRP group alone leaves the rest of the invariant as it was.
LEMMA GroupsKept ==
  ASSUME InterfacesCoherent, IfTypeOK', UNCHANGED <<gre, relay, v6>>
  PROVE  InterfacesCoherent'
<1>1. (TunnelsCoherent /\ RelaysCoherent /\ Ipv6Coherent)'
  BY DEF InterfacesCoherent, TunnelsCoherent, LineProtocolUp, RelaysCoherent, RelayInterfaces, RelayActive, Ipv6Coherent
<1>2. PrioritiesInRange'
  <2>1. \A v \in DOMAIN vrrp' : vrrp'[v].priority \in VrrpPriorities /\ vrrp'[v].reduced \in Reductions
    BY DEF IfTypeOK, GroupType
  <2> QED
    BY <2>1, Lowered DEF PrioritiesInRange, EffectivePriority
<1> QED
  BY <1>1, <1>2 DEF InterfacesCoherent

\* Configurations of a tunnel are told apart by their fields.
LEMMA SameGre ==
  ASSUME NEW g \in GreType, NEW h \in GreType,
         g.protocol = h.protocol, g.source = h.source, g.destination = h.destination, g.keys = h.keys
  PROVE  g = h
BY DEF GreType

\* No command of an interface's view, and none that removes a tunnel, breaks what the
\* others rely on.
LEMMA TunnelStep == InterfacesCoherent /\ GreNext => InterfacesCoherent'
<1> SUFFICES ASSUME InterfacesCoherent, GreNext PROVE InterfacesCoherent'
  OBVIOUS
<1> USE DEF InTunnel
<1>0. \A t \in Tunnels : gre[t] \in GreType /\ TunnelSound(gre[t])
  BY DEF InterfacesCoherent, IfTypeOK, TunnelsCoherent, TunnelSound, LineProtocolUp, GreType
<1>1. CASE TunnelProtocol
  <2> DEFINE g == [gre[in] EXCEPT !.protocol = TRUE]
  <2>1. g \in GreType /\ g.source = gre[in].source /\ g.destination = gre[in].destination /\ g.keys = gre[in].keys
    BY <1>0, <1>1 DEF TunnelProtocol, GreType
  <2>2. g.protocol
    BY <1>0, <1>1 DEF TunnelProtocol, GreType
  <2>3. TunnelSound(g)
    <3>1. CASE gre[in].protocol
      BY <1>0, <1>1, <2>1, <2>2, <3>1 DEF TunnelProtocol, TunnelSound
    <3>2. CASE ~gre[in].protocol
      BY <1>0, <1>1, <2>1, <2>2, <3>2 DEF TunnelProtocol, TunnelSound, NoGre
    <3> QED
      BY <3>1, <3>2
  <2> QED
    BY <1>1, <2>1, <2>3, GreKept DEF TunnelProtocol
<1>2. CASE UndoTunnelProtocol
  <2>1. NoGre \in GreType /\ TunnelSound(NoGre)
    BY DEF GreType, TunnelSound, NoGre, Ends
  <2> QED
    BY <1>2, <2>1, GreKept DEF UndoTunnelProtocol
<1>3. ASSUME NEW e \in TunnelIPs \cup Interfaces, Source(e) \/ Destination(e)
      PROVE  InterfacesCoherent'
  <2>1. [gre[in] EXCEPT !.source = e] \in GreType /\ [gre[in] EXCEPT !.destination = e] \in GreType
    BY <1>0, <1>3 DEF Source, Destination, SetEnd, GreType, Ends
  <2>2. CASE Source(e)
    <3>1. TunnelSound([gre[in] EXCEPT !.source = e])
      BY <1>0, <2>2 DEF Source, SetEnd, GreType, TunnelSound
    <3> QED
      BY <2>1, <2>2, <3>1, GreKept DEF Source, SetEnd
  <2>3. CASE Destination(e)
    <3>1. TunnelSound([gre[in] EXCEPT !.destination = e])
      BY <1>0, <2>3 DEF Destination, SetEnd, GreType, TunnelSound
    <3> QED
      BY <2>1, <2>3, <3>1, GreKept DEF Destination, SetEnd
  <2> QED
    BY <1>3, <2>2, <2>3
<1>4. ASSUME NEW end \in {"source", "destination"}, UndoEnd(end) PROVE InterfacesCoherent'
  <2>1. [gre[in] EXCEPT ![end] = Unconfigured] \in GreType
    BY <1>0, <1>4 DEF UndoEnd, GreType, Ends
  <2>2. TunnelSound([gre[in] EXCEPT ![end] = Unconfigured])
    <3>1. CASE gre[in].protocol
      BY <1>0, <1>4, <3>1 DEF UndoEnd, GreType, TunnelSound
    <3>2. CASE ~gre[in].protocol
      <4>1. gre[in] = NoGre
        BY <1>0, <1>4, <3>2 DEF UndoEnd, TunnelSound
      <4>2. SUFFICES [NoGre EXCEPT ![end] = Unconfigured] = NoGre
        BY <4>1 DEF TunnelSound, NoGre
      <4> DEFINE g == [NoGre EXCEPT ![end] = Unconfigured]
      <4>3. NoGre \in GreType /\ g \in GreType
        BY <1>4 DEF NoGre, GreType, Ends
      <4>4. g.protocol = NoGre.protocol /\ g.source = NoGre.source /\ g.destination = NoGre.destination /\ g.keys = NoGre.keys
        BY <1>4 DEF NoGre
      <4> QED
        BY <4>3, <4>4, SameGre
    <3> QED
      BY <3>1, <3>2
  <2> QED
    BY <1>4, <2>1, <2>2, GreKept DEF UndoEnd
<1>5. ASSUME NEW K \in SUBSET GreKeys, GreOption(K) PROVE InterfacesCoherent'
  <2>1. [gre[in] EXCEPT !.keys = @ \cup K] \in GreType
    BY <1>0, <1>5 DEF GreOption, GreType
  <2>2. TunnelSound([gre[in] EXCEPT !.keys = @ \cup K])
    BY <1>0, <1>5 DEF GreOption, GreType, TunnelSound, Keepalive
  <2> QED
    BY <1>5, <2>1, <2>2, GreKept DEF GreOption
<1>6. ASSUME NEW K \in {{"key"}, {"checksum"}, Keepalive}, UndoGreOption(K) PROVE InterfacesCoherent'
  <2>1. [gre[in] EXCEPT !.keys = @ \ K] \in GreType
    BY <1>0, <1>6 DEF UndoGreOption, GreType
  <2>2. TunnelSound([gre[in] EXCEPT !.keys = @ \ K])
    <3>1. CASE gre[in].protocol
      BY <1>0, <1>6, <3>1 DEF UndoGreOption, GreType, TunnelSound, Keepalive
    <3>2. CASE ~gre[in].protocol
      <4>1. gre[in] = NoGre
        BY <1>0, <1>6, <3>2 DEF UndoGreOption, TunnelSound
      <4>2. [NoGre EXCEPT !.keys = @ \ K] = NoGre
        <5> DEFINE g == [NoGre EXCEPT !.keys = @ \ K]
        <5>1. NoGre \in GreType /\ g \in GreType
          BY DEF NoGre, GreType, Ends
        <5>2. g.protocol = NoGre.protocol /\ g.source = NoGre.source /\ g.destination = NoGre.destination /\ g.keys = NoGre.keys
          BY DEF NoGre
        <5> QED
          BY <5>1, <5>2, SameGre
      <4> QED
        BY <4>1, <4>2 DEF TunnelSound, NoGre
    <3> QED
      BY <3>1, <3>2
  <2> QED
    BY <1>6, <2>1, <2>2, GreKept DEF UndoGreOption
<1> QED
  BY <1>1, <1>2, <1>3, <1>4, <1>5, <1>6 DEF GreNext

\* The commands of DHCP relay, whichever order the servers and the source are given in.
LEMMA RelayStep == InterfacesCoherent /\ RelayNext => InterfacesCoherent'
<1> SUFFICES ASSUME InterfacesCoherent, RelayNext PROVE InterfacesCoherent'
  OBVIOUS
<1>0. /\ \A i \in Interfaces : /\ relay[i] \in RelayType /\ RelaySound(relay[i])
                               /\ IsFiniteSet(relay[i].servers)
      /\ InInterface => in \in Interfaces
  <2>1. \A i \in Interfaces : relay[i] \in RelayType /\ relay[i].servers \subseteq Servers
    BY DEF InterfacesCoherent, IfTypeOK, RelayType
  <2>2. \A i \in Interfaces : RelaySound(relay[i])
    BY DEF InterfacesCoherent, RelaysCoherent, RelayInterfaces, RelayActive, RelaySound
  <2> QED
    BY <2>1, <2>2, FS_Subset, InterfaceAssumption DEF InInterface, InterfacesCoherent, IfTypeOK
<1>1. CASE UndoSelect
  <2>1. NoRelay \in RelayType /\ RelaySound(NoRelay)
    BY DEF RelayType, RelaySound, NoRelay
  <2> QED
    BY <1>1, <2>1, RelayKept DEF UndoSelect
<1>2. ASSUME NEW S \in SUBSET Servers, UndoRelayServer(S) PROVE InterfacesCoherent'
  <2>1. [relay[in] EXCEPT !.servers = @ \ S] \in RelayType
    BY <1>0, <1>2 DEF UndoRelayServer, RelayType
  <2>2. relay[in].servers \ S # {} =>
          Cardinality(relay[in].servers \ S) \in 1..Cardinality(relay[in].servers)
    <3>1. IsFiniteSet(relay[in].servers \ S) /\ IsFiniteSet(relay[in].servers)
      BY <1>0, <1>2, FS_Subset, relay[in].servers \ S \subseteq relay[in].servers DEF UndoRelayServer
    <3> QED
      BY <3>1, FS_Subset, FS_EmptySet, FS_CardinalityType, relay[in].servers \ S \subseteq relay[in].servers
  <2>3. RelaySound([relay[in] EXCEPT !.servers = @ \ S])
    BY <1>0, <1>2, <2>2, InterfaceAssumption DEF UndoRelayServer, RelayType, RelaySound
  <2> QED
    BY <1>2, <2>1, <2>3, RelayKept DEF UndoRelayServer
<1>3. ASSUME NEW m \in Modes, DhcpSelect(m) PROVE InterfacesCoherent'
  <2> DEFINE new == IF m = "relay" THEN [relay[in] EXCEPT !.select = m] ELSE [NoRelay EXCEPT !.select = m]
  <2>1. new \in RelayType /\ RelaySound(new)
    BY <1>0, <1>3 DEF DhcpSelect, RelayType, RelaySound, NoRelay
  <2> QED
    BY <1>3, <2>1, RelayKept DEF DhcpSelect
<1>4. ASSUME NEW s \in Servers, RelayServer(s) PROVE InterfacesCoherent'
  <2>1. Cardinality(relay[in].servers \cup {s}) \in 1..MaxRelayServerIPs
    <3>1. /\ IsFiniteSet(relay[in].servers) /\ Cardinality(relay[in].servers) \in Nat
          /\ s \notin relay[in].servers /\ Cardinality(relay[in].servers) < MaxRelayServerIPs
      BY <1>0, <1>4, FS_CardinalityType DEF RelayServer
    <3>2. Cardinality(relay[in].servers \cup {s}) = Cardinality(relay[in].servers) + 1
      BY <3>1, FS_AddElement
    <3> QED
      BY <3>1, <3>2, InterfaceAssumption
  <2>2. [relay[in] EXCEPT !.servers = @ \cup {s}] \in RelayType
    BY <1>0, <1>4 DEF RelayServer, RelayType
  <2>3. RelaySound([relay[in] EXCEPT !.servers = @ \cup {s}])
    BY <1>0, <1>4, <2>1 DEF RelayServer, RelayType, RelaySound
  <2> QED
    BY <1>4, <2>2, <2>3, RelayKept DEF RelayServer
<1>5. ASSUME NEW k \in RelayKeys, RelayOption(k) PROVE InterfacesCoherent'
  <2>1. [relay[in] EXCEPT !.keys = @ \cup {k}] \in RelayType /\ RelaySound([relay[in] EXCEPT !.keys = @ \cup {k}])
    BY <1>0, <1>5 DEF RelayOption, RelayType, RelaySound
  <2> QED
    BY <1>5, <2>1, RelayKept DEF RelayOption
<1>6. ASSUME NEW k \in RelayKeys, UndoRelayOption(k) PROVE InterfacesCoherent'
  <2>1. [relay[in] EXCEPT !.keys = @ \ {k}] \in RelayType /\ RelaySound([relay[in] EXCEPT !.keys = @ \ {k}])
    BY <1>0, <1>6 DEF UndoRelayOption, RelayType, RelaySound
  <2> QED
    BY <1>6, <2>1, RelayKept DEF UndoRelayOption
<1>7. InInterface => relay[in].servers \in SUBSET Servers
  BY <1>0 DEF RelayType
<1> QED
  BY <1>1, <1>2, <1>3, <1>4, <1>5, <1>6, <1>7 DEF RelayNext, UndoRelayServers

\* The IPv6 settings of an interface.
LEMMA V6Step == InterfacesCoherent /\ V6Next => InterfacesCoherent'
<1> SUFFICES ASSUME InterfacesCoherent, V6Next PROVE InterfacesCoherent'
  OBVIOUS
<1>1. InInterface => v6[in] \in V6Type /\ (v6[in].address => v6[in].enabled)
  BY DEF InInterface, InterfacesCoherent, IfTypeOK, Ipv6Coherent
<1>2. CASE Ipv6Enable \/ Ipv6Address \/ UndoIpv6Enable \/ UndoAddress6
  BY <1>1, <1>2, V6Kept DEF Ipv6Enable, Ipv6Address, UndoIpv6Enable, UndoAddress6, V6Type
<1>3. ASSUME NEW p \in Processes, Ipv6Join(p) \/ Ipv6Leave(p) PROVE InterfacesCoherent'
  BY <1>1, <1>3, V6Kept DEF Ipv6Join, Ipv6Leave, V6Type
<1>4. ASSUME NEW k \in V6Keys, Ipv6System(k) PROVE InterfacesCoherent'
  BY <1>4, GroupsKept DEF Ipv6System, InterfacesCoherent, IfTypeOK
<1>5. ASSUME NEW K \in Undone6, UndoIpv6System(K) PROVE InterfacesCoherent'
  BY <1>5, GroupsKept DEF UndoIpv6System, InterfacesCoherent, IfTypeOK
<1> QED
  BY <1>2, <1>3, <1>4, <1>5 DEF V6Next

\* The VRRP groups of an interface.
LEMMA VrrpStep == InterfacesCoherent /\ VrrpNext => InterfacesCoherent'
<1> SUFFICES ASSUME InterfacesCoherent, VrrpNext PROVE InterfacesCoherent'
  OBVIOUS
<1> USE DEF InInterface, InterfacesCoherent, IfTypeOK
<1>1. ASSUME NEW s \in Subnets \cup {Unconfigured}, SetSubnet(s) PROVE InterfacesCoherent'
  BY <1>1, GroupsKept DEF SetSubnet
<1>2. ASSUME NEW b \in BOOLEAN, SetDown(b) PROVE InterfacesCoherent'
  BY <1>2, GroupsKept DEF SetDown
<1>3. ASSUME NEW v \in Vrids, NEW g \in GroupType, InInterface, SetGroup(v, g) PROVE InterfacesCoherent'
  BY <1>3, GroupsKept DEF SetGroup
<1>4. ASSUME NEW v \in Vrids, InInterface PROVE vrrp[<<in, v>>] \in GroupType
  BY <1>4
<1> HIDE DEF InInterface, InterfacesCoherent, IfTypeOK
<1>5. ASSUME NEW v \in Vrids, UndoVrrp(v) PROVE InterfacesCoherent'
  BY <1>3, <1>5, InterfaceAssumption DEF UndoVrrp, NoGroup, GroupType
<1>6. ASSUME NEW v \in Vrids, NEW s \in Subnets, VirtualIp(v, s) PROVE InterfacesCoherent'
  BY <1>3, <1>4, <1>6 DEF VirtualIp, GroupType
<1>7. ASSUME NEW v \in Vrids, NEW p \in VrrpPriorities, VrrpPriority(v, p) PROVE InterfacesCoherent'
  BY <1>3, <1>4, <1>7 DEF VrrpPriority, GroupType
<1>8. ASSUME NEW v \in Vrids, NEW k \in VrrpKeys, VrrpOption(v, k) PROVE InterfacesCoherent'
  BY <1>3, <1>4, <1>8 DEF VrrpOption, GroupType
<1>9. ASSUME NEW v \in Vrids, NEW i \in Interfaces, NEW r \in Reductions, VrrpTrack(v, i, r)
      PROVE  InterfacesCoherent'
  BY <1>3, <1>4, <1>9 DEF VrrpTrack, GroupType
<1> QED
  BY <1>1, <1>2, <1>5, <1>6, <1>7, <1>8, <1>9 DEF VrrpNext

\* Entering and leaving a view, and removing a tunnel with its part of every feature.
LEMMA IfViewStep == InterfacesCoherent /\ IfViews => InterfacesCoherent'
<1> SUFFICES ASSUME InterfacesCoherent, IfViews PROVE InterfacesCoherent'
  OBVIOUS
<1> USE DEF InterfacesCoherent, IfTypeOK
<1>1. CASE LeaveInterface
  BY <1>1, GroupsKept DEF LeaveInterface
<1>2. ASSUME NEW i \in Interfaces, EnterInterface(i) PROVE InterfacesCoherent'
  BY <1>2, GroupsKept DEF EnterInterface
<1>3. ASSUME NEW t \in Tunnels, UndoInterfaceTunnel(t) PROVE InterfacesCoherent'
  <2> USE <1>3 DEF UndoInterfaceTunnel
  <2>0. NoGre \in GreType /\ NoRelay \in RelayType /\ NoV6 \in V6Type /\ NoGroup \in GroupType /\ t \in Interfaces
    BY InterfaceAssumption DEF NoGre, GreType, Ends, NoRelay, RelayType, NoV6, V6Type, NoGroup, GroupType, Interfaces
  <2>1. IfTypeOK'
    BY <2>0
  <2>2. TunnelsCoherent'
    BY DEF TunnelsCoherent, LineProtocolUp, NoGre
  <2>3. RelaysCoherent'
    BY <2>0 DEF RelaysCoherent, RelayInterfaces, RelayActive, NoRelay
  <2>6. Ipv6Coherent'
    <3>1. \A i \in Interfaces : v6'[i] = v6[i] \/ v6'[i] = NoV6
      BY <2>0, SMTT(20)
    <3> QED
      BY <3>1 DEF Ipv6Coherent, NoV6
  <2>4. PrioritiesInRange'
    <3>1. \A v \in DOMAIN vrrp' : vrrp'[v].priority \in VrrpPriorities /\ vrrp'[v].reduced \in Reductions
      BY <2>1 DEF GroupType
    <3> QED
      BY <3>1, Lowered DEF PrioritiesInRange, EffectivePriority
  <2> QED
    BY <2>1, <2>2, <2>3, <2>4, <2>6
<1> QED
  BY <1>1, <1>2, <1>3 DEF IfViews

\* gre_cmd.go, dhcp_relay_cmd.go, ipv6_cmd.go and the VRRP of parser.go: the features of
\* an interface are coherent after every sequence of commands.
THEOREM InterfacesStayCoherent == IfSpec => []InterfacesCoherent
<1>1. IfInit => InterfacesCoherent
  <2> SUFFICES ASSUME IfInit PROVE InterfacesCoherent
    OBVIOUS
  <2> USE DEF IfInit, NoGre, NoRelay, NoV6, NoGroup
  <2>1. IfTypeOK
    BY InterfaceAssumption DEF IfTypeOK, GreType, Ends, RelayType, V6Type, GroupType
  <2>2. TunnelsCoherent /\ RelaysCoherent /\ Ipv6Coherent
    BY DEF TunnelsCoherent, LineProtocolUp, RelaysCoherent, RelayInterfaces, RelayActive, Ipv6Coherent
  <2>3. PrioritiesInRange
    BY DEF PrioritiesInRange, EffectivePriority
  <2> QED
    BY <2>1, <2>2, <2>3 DEF InterfacesCoherent
<1>2. InterfacesCoherent /\ UNCHANGED ifVars => InterfacesCoherent'
  BY GroupsKept DEF ifVars, InterfacesCoherent, IfTypeOK
<1> QED
  BY <1>1, <1>2, TunnelStep, RelayStep, V6Step, VrrpStep, IfViewStep, PTL DEF IfSpec, IfNext

-----------------------------------------------------------------------------
(* Ports of a switch.                                                      *)

\* The limit in force is not above the widest there was: max-mac-num is never lowered
\* behind the back of the table, and learning goes by the limit in force.
PeakCovers == \A p \in SwPorts : security[p].max <= peak[p]

PortsInv == SwTypeOK /\ SecureMacsCoherent /\ VlansListPorts /\ PeakCovers

\* The roles of the spanning tree depend on the configured ports alone: whichever are
\* closed or edge ports, a candidate of the lowest name is there if any candidate is.
LEMMA RolesSound == SwTypeOK => StpRolesSound
<1> SUFFICES ASSUME SwTypeOK PROVE StpRolesSound
  OBVIOUS
<1> DEFINE with(r) == {p \in SwPorts : StpRole(p) = r}
<1>0. Candidates \subseteq SwPorts /\ IsFiniteSet(Candidates) /\ \A p \in SwPorts : Order[p] \in Int
  BY SwitchAssumption, FS_Subset DEF Candidates
<1>1. ASSUME NEW p \in Candidates, NEW q \in Candidates, \/ IsFirst(p) /\ IsFirst(q)
                                                         \/ IsLast(p) /\ IsLast(q)
      PROVE  p = q
  BY <1>0, <1>1, SwitchAssumption DEF IsFirst, IsLast
<1>2. \A p \in SwPorts : /\ StpRole(p) = "ROOT" <=> p \in Candidates /\ IsFirst(p)
                         /\ StpRole(p) = "ALTE" => p \in Candidates /\ IsLast(p) /\ ~IsFirst(p)
  <2> SUFFICES ASSUME NEW p \in SwPorts
               PROVE  /\ StpRole(p) = "ROOT" <=> p \in Candidates /\ IsFirst(p)
                      /\ StpRole(p) = "ALTE" => p \in Candidates /\ IsLast(p) /\ ~IsFirst(p)
    OBVIOUS
  <2>1. p \in Candidates => p \notin closed
    BY DEF Candidates
  <2> QED
    BY <2>1 DEF StpRole
<1>3. Candidates # {} => \E p \in Candidates : IsFirst(p)
  BY <1>0, HasLeast DEF IsFirst
<1>4. Candidates # {} => Cardinality(with("ROOT")) = 1
  <2> SUFFICES ASSUME Candidates # {} PROVE Cardinality(with("ROOT")) = 1
    OBVIOUS
  <2>1. PICK p \in Candidates : IsFirst(p)
    BY <1>3
  <2>2. with("ROOT") = {p}
    BY <1>0, <1>1, <1>2, <2>1
  <2> QED
    BY <2>2, FS_Singleton
<1>5. Cardinality(with("ALTE")) <= 1
  <2>1. CASE with("ALTE") = {}
    BY <2>1, FS_EmptySet
  <2>2. ASSUME NEW p \in with("ALTE") PROVE Cardinality(with("ALTE")) <= 1
    <3>1. with("ALTE") = {p}
      BY <1>1, <1>2, <2>2
    <3>2. Cardinality(with("ALTE")) = 1
      BY <3>1, FS_Singleton
    <3> QED
      BY <3>2
  <2> QED
    BY <2>1, <2>2
<1>6. with("ALTE") # {} => \E p \in Candidates : StpForwards(p)
  BY <1>0, <1>2, <1>3 DEF StpForwards
<1>7. \A p \in SwPorts \ closed : stpPort[p].edged => StpForwards(p)
  BY DEF StpForwards, StpRole, Candidates
<1> QED
  BY <1>4, <1>5, <1>6, <1>7 DEF StpRolesSound

\* The addresses of a port are finitely many, and so are its entries.
LEMMA KnownFinite ==
  ASSUME SwTypeOK, NEW p \in SwPorts
  PROVE  /\ IsFiniteSet(learned[p]) /\ IsFiniteSet(Known(p)) /\ Known(p) \subseteq Macs
         /\ Cardinality(Known(p)) \in Nat
<1>1. learned[p] \subseteq Macs \X Kept
  BY DEF SwTypeOK
<1>2. IsFiniteSet(Kept)
  <2>1. Kept = {"security"} \cup {"sticky"}
    BY DEF Kept
  <2> QED
    BY <2>1, FS_Singleton, FS_AddElement
<1>3. IsFiniteSet(learned[p])
  <2>1. IsFiniteSet(Macs \X Kept)
    BY <1>2, FS_Product, SwitchAssumption
  <2> QED
    BY <1>1, <2>1, FS_Subset
<1>4. Known(p) \subseteq Macs
  BY <1>1 DEF Known
<1> QED
  <2>1. IsFiniteSet(Known(p))
    BY <1>4, FS_Subset, SwitchAssumption
  <2> QED
    BY <1>3, <1>4, <2>1, FS_CardinalityType

\* Keys of port security that say nothing of addresses are written freely.
LEMMA ConfigureKeeps ==
  ASSUME PortsInv, NEW p \in SwPorts, NEW keys \in SecurityType, Configure(p, keys),
         keys.stuck = security[p].stuck, keys.down => keys.counted,
         peak' \in [SwPorts -> MaxMacs], \A q \in SwPorts : peak[q] <= peak'[q], keys.max <= peak'[p]
  PROVE  PortsInv'
<1> USE DEF PortsInv, Configure, psVars, vlanVars, stpVars
<1>0. SwTypeOK /\ \A n \in MaxMacs : n \in Nat
  BY SwitchAssumption
<1>1. SwTypeOK'
  BY <1>0 DEF SwTypeOK
<1>2. SecureMacsCoherent'
  <2> SUFFICES ASSUME NEW q \in SwPorts
               PROVE  /\ Cardinality(learned[q]) = Cardinality(Known(q))
                      /\ Cardinality(Known(q)) <= peak'[q]
                      /\ security'[q].stuck = {m \in Macs : <<m, "sticky">> \in learned[q]}
                      /\ security'[q].down => security'[q].counted
    BY DEF SecureMacsCoherent, Known
  <2>1. Cardinality(Known(q)) \in Nat
    BY <1>0, KnownFinite
  <2>2. peak[q] \in Nat /\ peak'[q] \in Nat /\ peak[q] <= peak'[q]
    BY <1>0 DEF SwTypeOK
  <2> QED
    BY <2>1, <2>2 DEF SecureMacsCoherent, SwTypeOK
<1>3. VlansListPorts'
  BY DEF VlansListPorts, InTable
<1>4. PeakCovers'
  <2>1. \A q \in SwPorts : peak[q] \in Nat /\ peak'[q] \in Nat /\ security[q].max \in Nat
    BY <1>0 DEF SwTypeOK, SecurityType
  <2> QED
    BY <2>1 DEF PeakCovers, SwTypeOK
<1> QED
  BY <1>1, <1>2, <1>3, <1>4

\* Learning an address that is not known yet keeps every count, within the limit.
LEMMA LearnKeeps ==
  ASSUME PortsInv, NEW p \in SwPorts, NEW m \in Macs, PsLearn(p, m)
  PROVE  PortsInv'
<1> DEFINE kind == IF security[p].sticky THEN "sticky" ELSE "security"
<1> USE DEF PortsInv
<1>0. SwTypeOK /\ \A n \in MaxMacs : n \in Nat
  BY SwitchAssumption
<1>1. /\ learned' = [learned EXCEPT ![p] = @ \cup {<<m, kind>>}]
      /\ security' = [security EXCEPT ![p].stuck = IF security[p].sticky THEN @ \cup {m} ELSE @]
      /\ UNCHANGED <<peak, vlans, carries, unlisted, stp, stpPort, closed>>
      /\ m \notin Known(p) /\ PsCount(p) < security[p].max
  BY DEF PsLearn, Evaluates, PsAuthorized, vlanVars, stpVars
<1>2. SwTypeOK'
  <2>1. learned' \in [SwPorts -> SUBSET (Macs \X Kept)]
    BY <1>0, <1>1 DEF SwTypeOK, Kept
  <2>2. security' \in [SwPorts -> SecurityType]
    <3> DEFINE stuck == IF security[p].sticky THEN security[p].stuck \cup {m} ELSE security[p].stuck
    <3>1. security[p] \in SecurityType /\ security' = [security EXCEPT ![p] = [security[p] EXCEPT !.stuck = stuck]]
      BY <1>0, <1>1 DEF SwTypeOK
    <3>2. stuck \in SUBSET Macs
      BY <3>1 DEF SecurityType
    <3> HIDE DEF stuck
    <3>3. [security[p] EXCEPT !.stuck = stuck] \in SecurityType
      BY <3>1, <3>2 DEF SecurityType
    <3> QED
      BY <1>0, <3>1, <3>3 DEF SwTypeOK
  <2> QED
    BY <1>0, <1>1, <2>1, <2>2 DEF SwTypeOK
<1>3. \A q \in SwPorts : q # p => learned'[q] = learned[q] /\ security'[q] = security[q] /\ Known(q)' = Known(q)
  BY <1>0, <1>1 DEF SwTypeOK, Known
<1>4. learned'[p] = learned[p] \cup {<<m, kind>>} /\ Known(p)' = Known(p) \cup {m} /\ <<m, kind>> \notin learned[p]
  BY <1>0, <1>1 DEF SwTypeOK, Known
<1>5. /\ security'[p].stuck = IF kind = "sticky" THEN security[p].stuck \cup {m} ELSE security[p].stuck
      /\ security'[p].max = security[p].max /\ security'[p].down = security[p].down
      /\ security'[p].counted = security[p].counted
  BY <1>0, <1>1 DEF SwTypeOK, SecurityType
<1>6. Cardinality(Known(p)) < peak[p]
  <2>1. IsFiniteSet(security[p].bound) /\ Cardinality(security[p].bound) \in Nat
    BY <1>0, FS_Subset, FS_CardinalityType, SwitchAssumption DEF SwTypeOK, SecurityType
  <2>2. Cardinality(learned[p]) = Cardinality(Known(p)) /\ Cardinality(Known(p)) \in Nat
    BY <1>0, KnownFinite DEF SecureMacsCoherent
  <2>3. security[p].max <= peak[p] /\ security[p].max \in Nat /\ peak[p] \in Nat
    BY <1>0 DEF PeakCovers, SwTypeOK, SecurityType
  <2> QED
    BY <1>1, <2>1, <2>2, <2>3 DEF PsCount
<1>7. /\ Cardinality(learned'[p]) = Cardinality(learned[p]) + 1
      /\ Cardinality(Known(p)') = Cardinality(Known(p)) + 1
  <2>1. IsFiniteSet(learned[p]) /\ IsFiniteSet(Known(p))
    BY <1>0, KnownFinite
  <2>2. Cardinality(learned[p] \cup {<<m, kind>>}) = Cardinality(learned[p]) + 1
    BY <1>4, <2>1, FS_AddElement
  <2>3. Cardinality(Known(p) \cup {m}) = Cardinality(Known(p)) + 1
    BY <1>1, <2>1, FS_AddElement
  <2> QED
    BY <1>4, <2>2, <2>3
<1>8. SecureMacsCoherent'
  <2>1. /\ Cardinality(learned'[p]) = Cardinality(Known(p)')
        /\ Cardinality(Known(p)') <= peak'[p]
    <3>1. Cardinality(Known(p)) \in Nat /\ peak[p] \in Nat
      BY <1>0, KnownFinite DEF SwTypeOK
    <3> QED
      BY <1>1, <1>6, <1>7, <3>1 DEF SecureMacsCoherent
  <2>2. security'[p].stuck = {n \in Macs : <<n, "sticky">> \in learned'[p]}
    BY <1>4, <1>5 DEF SecureMacsCoherent
  <2>3. security'[p].down => security'[p].counted
    BY <1>5 DEF SecureMacsCoherent
  <2>4. ASSUME NEW q \in SwPorts, q # p
        PROVE  /\ Cardinality(learned'[q]) = Cardinality(Known(q)')
               /\ Cardinality(Known(q)') <= peak'[q]
               /\ security'[q].stuck = {n \in Macs : <<n, "sticky">> \in learned'[q]}
               /\ security'[q].down => security'[q].counted
    BY <1>1, <1>3, <2>4 DEF SecureMacsCoherent
  <2> QED
    BY <2>1, <2>2, <2>3, <2>4 DEF SecureMacsCoherent
<1>9. (VlansListPorts /\ PeakCovers)'
  BY <1>1, <1>3, <1>5 DEF VlansListPorts, InTable, PeakCovers
<1> QED
  BY <1>2, <1>8, <1>9

\* The port security commands: a limit, sticky learning, a fixed address, an address learned.
LEMMA PsStep == PortsInv /\ PsNext => PortsInv'
<1> SUFFICES ASSUME PortsInv, NEW p \in SwPorts,
                    \/ PsAging(p) \/ PsSticky(p)
                    \/ \E b \in BOOLEAN : PsEnable(p, b)
                    \/ \E n \in MaxMacs : PsMaxMac(p, n)
                    \/ \E a \in Actions : PsProtect(p, a)
                    \/ \E m \in Macs : PsBind(p, m) \/ PsLearn(p, m) \/ PsViolate(p, m)
             PROVE  PortsInv'
  BY DEF PsNext
<1>0. /\ security[p] \in SecurityType /\ (security[p].down => security[p].counted)
      /\ peak \in [SwPorts -> MaxMacs] /\ \A q \in SwPorts : peak[q] \in Nat
      /\ security[p].max <= peak[p] /\ \A n \in MaxMacs : n \in Nat
  <2>1. \A n \in MaxMacs : n \in Nat
    BY SwitchAssumption
  <2> QED
    BY <2>1 DEF PortsInv, SwTypeOK, SecureMacsCoherent, PeakCovers
<1>1. ASSUME NEW keys \in SecurityType, Configure(p, keys), UNCHANGED peak,
             keys.stuck = security[p].stuck, keys.max = security[p].max, keys.down => keys.counted
      PROVE  PortsInv'
  BY <1>0, <1>1, ConfigureKeeps
<1>2. CASE PsAging(p)
  BY <1>0, <1>1, <1>2 DEF PsAging, SecurityType
<1>3. CASE PsSticky(p)
  BY <1>0, <1>1, <1>3 DEF PsSticky, SecurityType
<1>4. ASSUME NEW b \in BOOLEAN, PsEnable(p, b) PROVE PortsInv'
  BY <1>0, <1>1, <1>4 DEF PsEnable, SecurityType
<1>5. ASSUME NEW n \in MaxMacs, PsMaxMac(p, n) PROVE PortsInv'
  <2> DEFINE keys == [security[p] EXCEPT !.max = n]
  <2>1. /\ keys \in SecurityType /\ keys.stuck = security[p].stuck /\ (keys.down => keys.counted)
        /\ keys.max = n /\ Configure(p, keys)
    BY <1>0, <1>5 DEF PsMaxMac, SecurityType
  <2>2. peak' = [peak EXCEPT ![p] = IF n > @ THEN n ELSE @]
    BY <1>5 DEF PsMaxMac
  <2>3. n \in Nat /\ peak' \in [SwPorts -> MaxMacs] /\ (\A q \in SwPorts : peak[q] <= peak'[q]) /\ n <= peak'[p]
    BY <1>0, <2>2
  <2> QED
    BY <2>1, <2>3, ConfigureKeeps
<1>6. ASSUME NEW a \in Actions, PsProtect(p, a) PROVE PortsInv'
  BY <1>0, <1>1, <1>6 DEF PsProtect, SecurityType
<1>7. ASSUME NEW m \in Macs, PsBind(p, m) PROVE PortsInv'
  BY <1>0, <1>1, <1>7 DEF PsBind, SecurityType
<1>8. ASSUME NEW m \in Macs, PsViolate(p, m) PROVE PortsInv'
  <2> DEFINE keys == [security[p] EXCEPT !.down = @ \/ security[p].action = "shutdown",
                                         !.counted = @ \/ security[p].action # "protect"]
  <2>1. /\ keys.stuck = security[p].stuck /\ keys.max = security[p].max
        /\ keys.down = (security[p].down \/ security[p].action = "shutdown")
        /\ keys.counted = (security[p].counted \/ security[p].action # "protect")
    BY <1>0 DEF SecurityType
  <2>2. keys \in SecurityType
    BY <1>0 DEF SecurityType
  <2>3. keys.down => keys.counted
    BY <1>0, <2>1
  <2>4. Configure(p, keys) /\ UNCHANGED peak
    BY <1>8 DEF PsViolate
  <2> QED
    BY <1>1, <2>1, <2>2, <2>3, <2>4
<1> QED
  BY <1>2, <1>3, <1>4, <1>5, <1>6, <1>7, <1>8, LearnKeeps

\* The commands of VLANs and of the spanning tree leave port security alone, and a VLAN
\* that a port carries lists it until the table loses it.
LEMMA VlanStep == PortsInv /\ VlanNext => PortsInv'
<1> SUFFICES ASSUME PortsInv, VlanNext PROVE PortsInv'
  OBVIOUS
<1> USE DEF PortsInv
<1>1. ASSUME SwTypeOK', VlansListPorts', UNCHANGED psVars PROVE PortsInv'
  BY <1>1 DEF psVars, SecureMacsCoherent, Known, PeakCovers
\* What a port carries, and what is due to it when it carries a VLAN.
<1> DEFINE Carries(c, p, v) == c[p].default = v \/ \E k \in ListedBy : <<k, v>> \in c[p].lists
           Lists(t, p, v)   == t[v] # NoVlan /\ p \in t[v]
<1>2. VlansListPorts <=> \A p \in SwPorts, v \in Vlans :
                           Carries(carries, p, v) /\ <<p, v>> \notin unlisted => Lists(vlans, p, v)
  BY DEF VlansListPorts, InTable
<1>3. VlansListPorts' <=> \A p \in SwPorts, v \in Vlans :
                            Carries(carries', p, v) /\ <<p, v>> \notin unlisted' => Lists(vlans', p, v)
  BY DEF VlansListPorts, InTable
<1> HIDE DEF PortsInv
<1>4. /\ SwTypeOK /\ \A S \in SUBSET SwPorts : S # NoVlan
      /\ \A p \in SwPorts, v \in Vlans : Carries(carries, p, v) /\ <<p, v>> \notin unlisted => Lists(vlans, p, v)
  BY <1>2, SwitchAssumption DEF PortsInv
<1>5. vlans \in [Vlans -> (SUBSET SwPorts) \cup {NoVlan}]
  BY <1>4 DEF SwTypeOK
<1>6. ASSUME UNCHANGED <<carries, psVars, stpVars>>, vlans' \in [Vlans -> (SUBSET SwPorts) \cup {NoVlan}],
             unlisted \subseteq unlisted', unlisted' \subseteq SwPorts \X Vlans,
             \A p \in SwPorts, v \in Vlans : <<p, v>> \notin unlisted' /\ Lists(vlans, p, v) => Lists(vlans', p, v)
      PROVE  PortsInv'
  <2>1. SwTypeOK'
    BY <1>4, <1>6 DEF SwTypeOK, psVars, stpVars
  <2>2. VlansListPorts'
    <3> HIDE DEF Carries, Lists
    <3> QED
      BY <1>3, <1>4, <1>6
  <2> QED
    BY <1>1, <1>6, <2>1, <2>2
<1>7. ASSUME NEW v \in Vlans, VlanCreate(v) \/ UndoVlan(v) PROVE PortsInv'
  <2>1. unlisted \subseteq SwPorts \X Vlans
    BY <1>4 DEF SwTypeOK
  <2>2. /\ UNCHANGED <<carries, psVars, stpVars>>
        /\ unlisted' = unlisted \cup (SwPorts \X {v})
        /\ vlans' = [vlans EXCEPT ![v] = {}] \/ vlans' = [vlans EXCEPT ![v] = NoVlan]
    BY <1>7 DEF VlanCreate, UndoVlan, Drops
  <2>3. vlans' \in [Vlans -> (SUBSET SwPorts) \cup {NoVlan}] /\ \A w \in Vlans : w # v => vlans'[w] = vlans[w]
    BY <1>5, <2>2
  <2> QED
    BY <1>6, <2>1, <2>2, <2>3
<1>8. ASSUME NEW V \in SUBSET Vlans, VlanBatch(V) PROVE PortsInv'
  <2>1. unlisted \subseteq SwPorts \X Vlans
    BY <1>4 DEF SwTypeOK
  <2>2. /\ UNCHANGED <<carries, psVars, stpVars, unlisted>>
        /\ vlans' = [v \in Vlans |-> IF v \in V /\ vlans[v] = NoVlan THEN {} ELSE vlans[v]]
    BY <1>8 DEF VlanBatch, InTable
  <2>3. vlans' \in [Vlans -> (SUBSET SwPorts) \cup {NoVlan}]
    BY <1>5, <2>2
  <2> QED
    BY <1>6, <2>1, <2>2, <2>3
<1>9. ASSUME NEW V \in SUBSET Vlans, NEW p \in SwPorts, List(p, V), \A q \in SwPorts : q # p => carries'[q] = carries[q],
             carries' \in [SwPorts -> [default : Vlans \cup {NoVlan}, lists : SUBSET (ListedBy \X Vlans)]],
             \A v \in Vlans \ V : Carries(carries', p, v) => Carries(carries, p, v)
      PROVE  PortsInv'
  <2>1. vlans' = [v \in Vlans |-> IF v \notin V THEN vlans[v] ELSE IF vlans[v] # NoVlan THEN vlans[v] \cup {p} ELSE {p}]
    BY <1>9 DEF List, Listing, InTable
  <2>2. unlisted' = unlisted \ ({p} \X V) /\ UNCHANGED psVars /\ UNCHANGED stpVars
    BY <1>9 DEF List
  <2>3. SwTypeOK'
    BY <1>4, <1>5, <1>9, <2>1, <2>2 DEF SwTypeOK, psVars, stpVars
  <2>4. ASSUME NEW q \in SwPorts, NEW v \in Vlans, Carries(carries', q, v), <<q, v>> \notin unlisted'
        PROVE  Lists(vlans', q, v)
    <3>1. CASE q = p /\ v \in V
      BY <1>4, <1>5, <2>1, <3>1
    <3>2. CASE ~(q = p /\ v \in V)
      <4>1. Carries(carries, q, v) /\ <<q, v>> \notin unlisted
        BY <1>9, <2>2, <2>4, <3>2
      <4>2. Lists(vlans, q, v)
        BY <1>4, <4>1
      <4> QED
        BY <1>4, <1>5, <2>1, <4>2
    <3> QED
      BY <3>1, <3>2
  <2> QED
    BY <1>1, <1>3, <2>2, <2>3, <2>4
<1>10. ASSUME NEW v \in Vlans, NEW p \in SwPorts, PortDefault(p, v) PROVE PortsInv'
  <2>1. carries' = [carries EXCEPT ![p].default = v] /\ List(p, {v})
    BY <1>10 DEF PortDefault
  <2>2. carries[p] \in [default : Vlans \cup {NoVlan}, lists : SUBSET (ListedBy \X Vlans)]
    BY <1>4 DEF SwTypeOK
  <2>3. carries'[p].default = v /\ carries'[p].lists = carries[p].lists
    BY <1>4, <2>1, <2>2 DEF SwTypeOK
  <2>4. carries' \in [SwPorts -> [default : Vlans \cup {NoVlan}, lists : SUBSET (ListedBy \X Vlans)]]
    BY <1>4, <2>1, <2>2 DEF SwTypeOK
  <2>5. \A q \in SwPorts : q # p => carries'[q] = carries[q]
    BY <1>4, <2>1 DEF SwTypeOK
  <2> QED
    BY <1>9, <2>1, <2>3, <2>4, <2>5
<1>11. ASSUME NEW V \in SUBSET Vlans, NEW p \in SwPorts, NEW k \in ListedBy,
              carries' = [carries EXCEPT ![p].lists = {e \in @ : e[1] # k} \cup ({k} \X V)]
       PROVE  /\ carries' \in [SwPorts -> [default : Vlans \cup {NoVlan}, lists : SUBSET (ListedBy \X Vlans)]]
              /\ \A q \in SwPorts : q # p => carries'[q] = carries[q]
              /\ \A v \in Vlans \ V : Carries(carries', p, v) => Carries(carries, p, v)
  <2> DEFINE new == {e \in carries[p].lists : e[1] # k} \cup ({k} \X V)
  <2>1. /\ carries \in [SwPorts -> [default : Vlans \cup {NoVlan}, lists : SUBSET (ListedBy \X Vlans)]]
        /\ carries[p] \in [default : Vlans \cup {NoVlan}, lists : SUBSET (ListedBy \X Vlans)]
    BY <1>4 DEF SwTypeOK
  <2>2. new \subseteq ListedBy \X Vlans
    BY <2>1
  <2>3. \A v \in Vlans \ V, j \in ListedBy : <<j, v>> \in new => <<j, v>> \in carries[p].lists
    OBVIOUS
  <2>4. carries' = [carries EXCEPT ![p] = [carries[p] EXCEPT !.lists = new]]
    BY <1>11, <2>1
  <2> HIDE DEF new
  <2>5. [carries[p] EXCEPT !.lists = new] \in [default : Vlans \cup {NoVlan}, lists : SUBSET (ListedBy \X Vlans)]
    BY <2>1, <2>2
  <2>6. carries'[p].default = carries[p].default /\ carries'[p].lists = new
    BY <2>1, <2>4
  <2> QED
    BY <2>1, <2>3, <2>4, <2>5, <2>6
<1>12. ASSUME NEW V \in SUBSET Vlans, NEW p \in SwPorts, NEW k \in ListedBy, PortCarries(p, k, V) PROVE PortsInv'
  BY <1>9, <1>11, <1>12 DEF PortCarries
<1>13. ASSUME NEW V \in SUBSET Vlans, NEW p \in SwPorts, PortPermit(p, V) PROVE PortsInv'
  <2> DEFINE late == {<<p, v>> : v \in {w \in V : ~InTable(w) \/ p \notin vlans[w]}}
  <2>1. /\ carries' = [carries EXCEPT ![p].lists = {e \in @ : e[1] # "allow"} \cup ({"allow"} \X V)]
        /\ unlisted' = unlisted \cup late /\ UNCHANGED <<vlans, psVars, stpVars>>
    BY <1>13 DEF PortPermit
  <2>2. /\ carries' \in [SwPorts -> [default : Vlans \cup {NoVlan}, lists : SUBSET (ListedBy \X Vlans)]]
        /\ \A q \in SwPorts : q # p => carries'[q] = carries[q]
        /\ \A v \in Vlans \ V : Carries(carries', p, v) => Carries(carries, p, v)
    <3>1. "allow" \in ListedBy
      BY DEF ListedBy
    <3> QED
      BY <1>11, <2>1, <3>1
  <2>3. late \subseteq SwPorts \X Vlans
    OBVIOUS
  <2>4. SwTypeOK'
    BY <1>4, <2>1, <2>2, <2>3 DEF SwTypeOK, psVars, stpVars
  <2>5. ASSUME NEW q \in SwPorts, NEW v \in Vlans, Carries(carries', q, v), <<q, v>> \notin unlisted'
        PROVE  Lists(vlans', q, v)
    <3>1. CASE q = p /\ v \in V
      BY <2>1, <2>5, <3>1 DEF InTable
    <3>2. CASE ~(q = p /\ v \in V)
      <4>1. Carries(carries, q, v)
        BY <2>2, <2>5, <3>2
      <4> QED
        BY <1>4, <2>1, <2>5, <4>1
    <3> QED
      BY <3>1, <3>2
  <2> QED
    BY <1>1, <1>3, <2>1, <2>4, <2>5
<1> QED
  BY <1>7, <1>8, <1>10, <1>12, <1>13 DEF VlanNext

\* The spanning tree commands leave VLANs and secure addresses alone, and assign the roles anew.
LEMMA StpStep == PortsInv /\ StpNext => PortsInv'
<1> SUFFICES ASSUME PortsInv, StpNext PROVE PortsInv'
  OBVIOUS
<1>1. ASSUME SwTypeOK', UNCHANGED psVars, UNCHANGED vlanVars PROVE PortsInv'
  BY <1>1 DEF PortsInv, psVars, vlanVars, SecureMacsCoherent, Known, PeakCovers, VlansListPorts, InTable
<1>2. SwTypeOK /\ stp \in StpType
  BY DEF PortsInv, SwTypeOK
<1>3. ASSUME NEW r \in StpType, SetStp(r) PROVE PortsInv'
  BY <1>1, <1>2, <1>3 DEF SetStp, SwTypeOK, psVars, vlanVars
<1>4. ASSUME NEW n \in StpPriorities, StpPriority(n) PROVE PortsInv'
  BY <1>2, <1>3, <1>4 DEF StpPriority, StpType
<1>5. CASE StpRoot \/ StpUndoRoot
  BY <1>4, <1>5, SwitchAssumption DEF StpRoot, StpUndoRoot
<1>6. CASE StpUndoRegion
  BY <1>2, <1>3, <1>6 DEF StpUndoRegion, StpType
<1>7. ASSUME NEW b \in BOOLEAN, StpEnable(b) PROVE PortsInv'
  BY <1>2, <1>3, <1>7 DEF StpEnable, StpType
<1>8. ASSUME NEW m \in {"stp", "rstp", "mstp"}, StpMode(m) PROVE PortsInv'
  BY <1>2, <1>3, <1>8 DEF StpMode, StpType
<1>9. ASSUME NEW s \in Standards, StpStandard(s) PROVE PortsInv'
  BY <1>2, <1>3, <1>9 DEF StpStandard, StpType
<1>10. ASSUME NEW g \in StpGuards, StpGuard(g) \/ StpUndoGuard(g) PROVE PortsInv'
  BY <1>2, <1>3, <1>10 DEF StpGuard, StpUndoGuard, StpType
<1>11. ASSUME NEW k \in RegionKeys, StpRegion(k) PROVE PortsInv'
  BY <1>2, <1>3, <1>11 DEF StpRegion, StpType
<1>12. ASSUME NEW i \in Msts, StpUndoInstanceRoot(i) PROVE PortsInv'
  BY <1>2, <1>3, <1>12 DEF StpUndoInstanceRoot, StpType
<1>13. ASSUME NEW i \in Msts, NEW k \in MstKeys, StpInstance(i, k) PROVE PortsInv'
  <2>1. {i} \X (IF k = "root" THEN {"root", "priority"} ELSE {k}) \subseteq Msts \X MstKeys
    BY DEF MstKeys
  <2> QED
    BY <1>2, <1>3, <1>13, <2>1 DEF StpInstance, StpType
<1>14. CASE UndoStp
  <2>1. [NoStp EXCEPT !.enabled = FALSE] \in StpType
    <3>1. NoStp \in StpType
      BY SwitchAssumption DEF NoStp, StpType, Standards
    <3> QED
      BY <3>1 DEF StpType
  <2>2. NoStpPort \in [cost : StpCosts \cup {0}, edged : BOOLEAN, ranked : BOOLEAN]
    BY DEF NoStpPort
  <2> QED
    BY <1>1, <1>2, <1>14, <2>1, <2>2 DEF UndoStp, SwTypeOK, psVars, vlanVars
<1>15. ASSUME NEW p \in SwPorts, NEW r \in [cost : StpCosts \cup {0}, edged : BOOLEAN, ranked : BOOLEAN], SetStpPort(p, r)
       PROVE  PortsInv'
  BY <1>1, <1>2, <1>15 DEF SetStpPort, SwTypeOK, psVars, vlanVars
<1>16. \A p \in SwPorts : stpPort[p] \in [cost : StpCosts \cup {0}, edged : BOOLEAN, ranked : BOOLEAN]
  BY <1>2 DEF SwTypeOK
<1>17. ASSUME NEW p \in SwPorts, StpRank(p) PROVE PortsInv'
  BY <1>15, <1>16, <1>17 DEF StpRank
<1>18. ASSUME NEW p \in SwPorts, NEW c \in StpCosts, StpCost(p, c) PROVE PortsInv'
  BY <1>15, <1>16, <1>18 DEF StpCost
<1>19. ASSUME NEW p \in SwPorts, NEW b \in BOOLEAN, StpEdged(p, b) PROVE PortsInv'
  BY <1>15, <1>16, <1>19 DEF StpEdged
<1>20. ASSUME NEW p \in SwPorts, NEW b \in BOOLEAN, SwShutdown(p, b) PROVE PortsInv'
  BY <1>1, <1>2, <1>20 DEF SwShutdown, SwTypeOK, psVars, vlanVars
<1> QED
  BY <1>4, <1>5, <1>6, <1>7, <1>8, <1>9, <1>10, <1>11, <1>12, <1>13, <1>14, <1>17, <1>18, <1>19, <1>20 DEF StpNext

\* When the session is built again the sticky addresses are in the table, each once, and
\* they are some of those that were in it.
LEMMA RebuildKeeps == PortsInv /\ SwRebuild => PortsInv'
<1> SUFFICES ASSUME PortsInv, SwRebuild PROVE PortsInv'
  OBVIOUS
<1>0. /\ SwTypeOK /\ SecureMacsCoherent /\ PeakCovers /\ \A n \in MaxMacs : n \in Nat
      /\ security' = [p \in SwPorts |-> [security[p] EXCEPT !.down = FALSE, !.counted = FALSE]]
      /\ learned' = [p \in SwPorts |-> security[p].stuck \X {"sticky"}]
      /\ vlans' = Table /\ unlisted' = Drops(Vlans)
      /\ UNCHANGED <<peak, carries, stp, stpPort, closed>>
  <2>1. \A n \in MaxMacs : n \in Nat
    BY SwitchAssumption
  <2> QED
    BY <2>1 DEF PortsInv, SwRebuild, stpVars
<1>1. ASSUME NEW p \in SwPorts
      PROVE  /\ security'[p] \in SecurityType /\ security'[p].max = security[p].max
             /\ security'[p].stuck = security[p].stuck /\ security'[p].down = FALSE
             /\ security[p].stuck \subseteq Macs /\ security[p].max \in Nat /\ peak[p] \in Nat
  <2>1. security[p] \in SecurityType /\ peak[p] \in Nat
    BY <1>0 DEF SwTypeOK
  <2>2. security'[p] = [security[p] EXCEPT !.down = FALSE, !.counted = FALSE]
    BY <1>0
  <2> QED
    BY <1>0, <2>1, <2>2 DEF SecurityType
<1>2. SwTypeOK'
  <2>1. learned' \in [SwPorts -> SUBSET (Macs \X Kept)]
    BY <1>0, <1>1 DEF Kept
  <2>2. vlans' \in [Vlans -> (SUBSET SwPorts) \cup {NoVlan}]
    BY <1>0 DEF Table
  <2>3. unlisted' \subseteq SwPorts \X Vlans
    BY <1>0 DEF Drops
  <2>4. security' \in [SwPorts -> SecurityType]
    BY <1>0, <1>1
  <2> QED
    BY <1>0, <2>1, <2>2, <2>3, <2>4 DEF SwTypeOK
<1>3. ASSUME NEW p \in SwPorts
      PROVE  /\ Cardinality(learned'[p]) = Cardinality(Known(p)')
             /\ Cardinality(Known(p)') <= peak'[p]
             /\ security'[p].stuck = {m \in Macs : <<m, "sticky">> \in learned'[p]}
  <2>1. learned'[p] = security[p].stuck \X {"sticky"}
    BY <1>0
  <2> DEFINE entry(m) == <<m, "sticky">>
  <2>0. \A m : entry(m)[1] = m
    OBVIOUS
  <2>2. Known(p)' = security[p].stuck
    <3>1. \A e \in learned'[p] : e[1] \in security[p].stuck
      BY <2>1
    <3>2. \A m \in security[p].stuck : entry(m) \in learned'[p]
      BY <2>1
    <3> HIDE DEF entry
    <3> QED
      BY <2>0, <3>1, <3>2 DEF Known
  <2>3. security[p].stuck \subseteq Known(p)
    <3>1. \A m \in security[p].stuck : entry(m) \in learned[p]
      BY <1>0 DEF SecureMacsCoherent
    <3> HIDE DEF entry
    <3> QED
      BY <2>0, <3>1 DEF Known
  <2>4. /\ IsFiniteSet(Known(p)) /\ Cardinality(Known(p)) \in Nat /\ Cardinality(Known(p)) <= peak[p]
    BY <1>0, KnownFinite DEF SecureMacsCoherent
  <2>5. /\ IsFiniteSet(security[p].stuck) /\ Cardinality(security[p].stuck) \in Nat
        /\ Cardinality(security[p].stuck) <= Cardinality(Known(p))
    BY <2>3, <2>4, FS_Subset, FS_CardinalityType
  <2>6. Cardinality(security[p].stuck \X {"sticky"}) = Cardinality(security[p].stuck)
    <3>1. IsFiniteSet({"sticky"}) /\ Cardinality({"sticky"}) = 1
      BY FS_Singleton
    <3>2. Cardinality(security[p].stuck \X {"sticky"}) = Cardinality(security[p].stuck) * Cardinality({"sticky"})
      BY <2>5, <3>1, FS_Product
    <3> QED
      BY <2>5, <3>1, <3>2
  <2>7. security'[p].stuck = {m \in Macs : <<m, "sticky">> \in learned'[p]}
    BY <1>1, <2>1
  <2>8. Cardinality(security[p].stuck) <= peak[p] /\ peak' = peak
    <3>1. peak' = peak
      BY <1>0
    <3>2. peak[p] \in Nat
      BY <1>1
    <3> QED
      BY <2>4, <2>5, <3>1, <3>2
  <2> QED
    BY <2>1, <2>2, <2>6, <2>7, <2>8
<1>4. SecureMacsCoherent'
  BY <1>1, <1>3 DEF SecureMacsCoherent
<1>5. VlansListPorts'
  <2>1. unlisted' = SwPorts \X Vlans
    BY <1>0 DEF Drops
  <2> QED
    BY <2>1 DEF VlansListPorts
<1>6. PeakCovers'
  BY <1>0, <1>1 DEF PeakCovers
<1> QED
  BY <1>2, <1>4, <1>5, <1>6 DEF PortsInv

\* portsec_eval.go, stp_eval.go and the VLANs of parser.go: the ports of a switch are
\* coherent after every sequence of commands, frames and rebuilds of the session.
THEOREM SwitchStaysCoherent == SwSpec => []SwitchCoherent
<1>1. SwInit => PortsInv
  <2> SUFFICES ASSUME SwInit PROVE PortsInv
    OBVIOUS
  <2> USE DEF SwInit
  <2>1. NoSecurity \in SecurityType
    BY SwitchAssumption DEF NoSecurity, SecurityType, Actions
  <2>2. SwTypeOK
    <3>1. vlans \in [Vlans -> (SUBSET SwPorts) \cup {NoVlan}]
      BY DEF Table
    <3>2. stp \in StpType
      BY SwitchAssumption DEF NoStp, StpType, Standards
    <3>3. stpPort \in [SwPorts -> [cost : StpCosts \cup {0}, edged : BOOLEAN, ranked : BOOLEAN]]
      BY DEF NoStpPort
    <3>4. carries \in [SwPorts -> [default : Vlans \cup {NoVlan}, lists : SUBSET (ListedBy \X Vlans)]]
      BY DEF NoCarries
    <3> QED
      BY <2>1, <3>1, <3>2, <3>3, <3>4, SwitchAssumption DEF SwTypeOK
  <2>3. SecureMacsCoherent
    <3>1. \A p \in SwPorts : learned[p] = {} /\ Known(p) = {} /\ security[p] = NoSecurity /\ peak[p] = 1
      BY DEF Known
    <3>2. Cardinality({}) = 0 /\ NoSecurity.stuck = {} /\ NoSecurity.down = FALSE
      BY FS_EmptySet DEF NoSecurity
    <3>3. \A p \in SwPorts : {m \in Macs : <<m, "sticky">> \in learned[p]} = {}
      BY <3>1
    <3> QED
      BY <3>1, <3>2, <3>3 DEF SecureMacsCoherent
  <2>4. VlansListPorts
    <3>1. \A p \in SwPorts : carries[p].default = NoVlan /\ carries[p].lists = {}
      BY DEF NoCarries
    <3>2. NoVlan \notin Vlans
      BY SwitchAssumption
    <3> QED
      BY <3>1, <3>2 DEF VlansListPorts
  <2>5. PeakCovers
    BY DEF PeakCovers, NoSecurity
  <2> QED
    BY <2>2, <2>3, <2>4, <2>5 DEF PortsInv
<1>2. PortsInv /\ UNCHANGED swVars => PortsInv'
  <2> SUFFICES ASSUME PortsInv, UNCHANGED swVars PROVE PortsInv'
    OBVIOUS
  <2> USE DEF swVars
  <2>1. SwTypeOK'
    BY DEF PortsInv, SwTypeOK
  <2> QED
    BY <2>1 DEF PortsInv, SecureMacsCoherent, Known, PeakCovers, VlansListPorts, InTable
<1>3. PortsInv => SwitchCoherent
  BY RolesSound DEF PortsInv, SwitchCoherent
<1> QED
  BY <1>1, <1>2, <1>3, PsStep, VlanStep, StpStep, RebuildKeeps, PTL DEF SwSpec, SwNext

-----------------------------------------------------------------------------
(* Link aggregation.                                                       *)

\* Selection by priorities pr: who comes before whom, and the first m of U.
Ahead(pr, q, p) == pr[q] < pr[p] \/ (pr[q] = pr[p] /\ Rank[q] < Rank[p])
First(pr, U, m) == {p \in U : Cardinality({q \in U : Ahead(pr, q, p)}) < m}

\* A range of numbers from 0.
LEMMA UpTo == ASSUME NEW n \in Nat PROVE IsFiniteSet(0..(n - 1)) /\ Cardinality(0..(n - 1)) = n
<1>1. IsFiniteSet(0..(n - 1)) /\ Cardinality(0..(n - 1)) = IF 0 > n - 1 THEN 0 ELSE (n - 1) - 0 + 1
  BY FS_Interval
<1> QED
  BY <1>1

\* Whatever the priorities are, as many ports are selected as there are, up to m: counting
\* those ahead numbers the ports without gaps.
LEMMA FirstCount ==
  ASSUME NEW pr, \A p \in Ports : pr[p] \in Nat, NEW U \in SUBSET Ports, NEW m \in Nat
  PROVE  Cardinality(First(pr, U, m)) = IF Cardinality(U) <= m THEN Cardinality(U) ELSE m
<1> DEFINE Lead(p) == {q \in U : Ahead(pr, q, p)}
           place == [p \in U |-> Cardinality(Lead(p))]
           n == Cardinality(U)
           less == IF n <= m THEN n ELSE m
<1>1. IsFiniteSet(U) /\ n \in Nat
  BY FS_Subset, FS_CardinalityType, LagAssumption
<1>2. ASSUME NEW p \in U PROVE IsFiniteSet(Lead(p)) /\ Cardinality(Lead(p)) \in Nat /\ p \notin Lead(p)
  <2>1. Lead(p) \in SUBSET U
    OBVIOUS
  <2>2. ~Ahead(pr, p, p)
    BY LagAssumption DEF Ahead
  <2> QED
    BY <1>1, <2>1, <2>2, FS_Subset, FS_CardinalityType
<1>3. ASSUME NEW p \in U, NEW q \in U, p # q PROVE Ahead(pr, p, q) \/ Ahead(pr, q, p)
  <2>1. pr[p] \in Nat /\ pr[q] \in Nat /\ Rank[p] \in Nat /\ Rank[q] \in Nat /\ Rank[p] # Rank[q]
    BY <1>3, LagAssumption
  <2> QED
    BY <2>1 DEF Ahead
<1>4. ASSUME NEW p \in U, NEW q \in U, Ahead(pr, p, q) PROVE Cardinality(Lead(p)) < Cardinality(Lead(q))
  <2>1. ASSUME NEW x \in U, Ahead(pr, x, p) PROVE Ahead(pr, x, q)
    <3>1. /\ pr[p] \in Nat /\ pr[q] \in Nat /\ pr[x] \in Nat
          /\ Rank[p] \in Nat /\ Rank[q] \in Nat /\ Rank[x] \in Nat
      BY LagAssumption
    <3> QED
      BY <1>4, <2>1, <3>1 DEF Ahead
  <2>2. Lead(p) \in SUBSET Lead(q) /\ p \in Lead(q) /\ p \notin Lead(p)
    BY <1>2, <1>4, <2>1
  <2>3. Cardinality(Lead(p)) <= Cardinality(Lead(q)) /\ Cardinality(Lead(p)) # Cardinality(Lead(q))
    BY <1>2, <2>2, FS_Subset
  <2> HIDE DEF Lead
  <2> QED
    BY <1>2, <2>3
<1>5. place \in Injection(U, 0..(n - 1))
  <2>1. ASSUME NEW p \in U PROVE place[p] \in 0..(n - 1)
    <3>1. Lead(p) \in SUBSET U /\ Lead(p) # U
      BY <1>2
    <3>2. Cardinality(Lead(p)) <= n /\ Cardinality(Lead(p)) # n
      BY <1>1, <3>1, FS_Subset
    <3> QED
      BY <1>1, <1>2, <3>2
  <2>2. ASSUME NEW p \in U, NEW q \in U, p # q PROVE place[p] # place[q]
    <3> HIDE DEF Lead
    <3> QED
      BY <1>2, <1>3, <1>4, <2>2
  <2> HIDE DEF place
  <2>3. place \in [U -> 0..(n - 1)]
    BY <2>1 DEF place
  <2> QED
    BY <2>2, <2>3 DEF Injection, IsInjective
<1>6. place \in Surjection(U, 0..(n - 1))
  BY <1>1, <1>5, UpTo, FS_Injection
<1> DEFINE taken == First(pr, U, m)
           part == [p \in taken |-> place[p]]
<1>7. taken = {p \in U : place[p] < m}
  BY DEF First
<1>8. less \in Nat /\ \A k \in 0..(n - 1) : k < m <=> k \in 0..(less - 1)
  BY <1>1
<1> HIDE DEF place, taken, n, less
<1>9. part \in [taken -> 0..(less - 1)] /\ \A k \in 0..(less - 1) : k \in 0..(n - 1)
  BY <1>1, <1>5, <1>7, <1>8 DEF Injection, less
<1>10. part \in Bijection(taken, 0..(less - 1))
  <2>1. \A k \in 0..(less - 1) : \E p \in taken : part[p] = k
    BY <1>6, <1>7, <1>8, <1>9 DEF Surjection
  <2>2. \A p, q \in taken : part[p] = part[q] => p = q
    BY <1>5, <1>7 DEF Injection, IsInjective
  <2> QED
    BY <1>9, <2>1, <2>2 DEF Bijection, Injection, IsInjective, Surjection
<1>11. IsFiniteSet(taken)
  BY <1>1, <1>7, FS_Subset
<1>12. Cardinality(taken) = Cardinality(0..(less - 1))
  <2>1. ExistsBijection(taken, 0..(less - 1))
    BY <1>10 DEF ExistsBijection
  <2> QED
    BY <1>11, <2>1, FS_Bijection
<1> QED
  BY <1>8, <1>12, UpTo DEF taken, less, n

\* A trunk operates when it exists and has the least number of links that are up: neither
\* the mode, nor the priorities, nor the most active links make a difference.
LinksUp(dn, mem, t)          == {p \in Members(mem, t) : Port(p) \notin dn}
IsUp(nam, mem, dn, lst, t) ==
  /\ Exists(nam, mem, t)
  /\ Cardinality(LinksUp(dn, mem, t)) >= lst[t] /\ Cardinality(LinksUp(dn, mem, t)) > 0

\* What the code derives of a trunk's members, sorted and cut to the most active links, is
\* that enough of them are up.
LEMMA OperatesUp ==
  ASSUME NEW nam, NEW mem, NEW lac, NEW lst, NEW mst, NEW t \in Trunks,
         \A p \in Ports : priority[p] \in Nat, lst[t] \in Nat \ {0}, mst[t] \in Nat, lst[t] <= mst[t]
  PROVE  Operates(nam, mem, lac, lst, mst, t) <=> IsUp(nam, mem, down, lst, t)
<1> DEFINE U == LinksUp(down, mem, t)
<1>1. U \in SUBSET Ports /\ UpMembers(mem, t) = U
  BY DEF LinksUp, UpMembers, Members
<1>2. Selected(mem, mst, t) = First(priority, U, mst[t])
  BY <1>1 DEF Selected, First, Better, Ahead
<1> HIDE DEF U
<1>3. Cardinality(U) \in Nat
  BY <1>1, FS_Subset, FS_CardinalityType, LagAssumption
<1>4. Cardinality(First(priority, U, mst[t])) = IF Cardinality(U) <= mst[t] THEN Cardinality(U) ELSE mst[t]
  BY <1>1, FirstCount
<1>5. Active(mem, lac, mst, t) = IF t \in lac THEN First(priority, U, mst[t]) ELSE U
  BY <1>1, <1>2 DEF Active
<1>6. Cardinality(Active(mem, lac, mst, t)) >= lst[t] /\ Cardinality(Active(mem, lac, mst, t)) > 0
      <=> Cardinality(U) >= lst[t] /\ Cardinality(U) > 0
  BY <1>3, <1>4, <1>5
<1> QED
  BY <1>6 DEF Operates, IsUp, U

\* What is configured is in order, and a trunk in whose view the session is has been
\* created: the configuration of the trunks, without what is shown of them.
Configuration ==
  LagTypeOK /\ MembersAreHoused /\ ThresholdsOrdered /\ (InTrunkView => at \in named)

\* What is shown of the trunks that no command has touched since.
ShownRight ==
  \A n \in DOMAIN shown :
    n[2] \notin stale => shown[n] = (n \notin down /\ IsUp(named, member, down, least, n[2]))

TrunksInv == Configuration /\ ShownRight

\* Numbers of links count from one.
LEMMA Positive == \A k \in LinkNumbers : k \in Nat \ {0}
BY LagAssumption

\* Priorities and thresholds of a trunk are numbers.
LEMMA LinkNumbersAre ==
  ASSUME LagTypeOK, ThresholdsOrdered, NEW t \in Trunks
  PROVE  /\ \A p \in Ports : priority[p] \in Nat
         /\ least[t] \in Nat \ {0} /\ most[t] \in Nat \ {0} /\ least[t] <= most[t]
BY Positive, LagAssumption DEF LagTypeOK, ThresholdsOrdered

\* The invariant of the proof is as strong as the one the run checks.
LEMMA ShownAsDerived == TrunksInv => TrunksCoherent
<1> SUFFICES ASSUME TrunksInv, NEW n \in DOMAIN shown
             PROVE  Operates(named, member, lacp, least, most, n[2]) <=> IsUp(named, member, down, least, n[2])
  BY DEF TrunksInv, Configuration, TrunksCoherent, StatusDerived, ShownRight
<1>1. n[2] \in Trunks
  BY DEF TrunksInv, Configuration, LagTypeOK, Names
<1> QED
  BY <1>1, LinkNumbersAre, OperatesUp DEF TrunksInv, Configuration

\* A command that derives the state of one trunk again leaves the others' as it was.
LEMMA SyncKeeps ==
  ASSUME TrunksInv, Configuration', NEW t \in Trunks, NEW table,
         DOMAIN table \subseteq Names, UNCHANGED <<priority, down>>,
         shown' = Synced(table, named', member', lacp', least', most', t), stale' = stale \ {t},
         \A n \in DOMAIN table : n[2] # t => n \in DOMAIN shown /\ table[n] = shown[n],
         \A u \in Trunks \ {t} : IsUp(named', member', down, least', u) <=> IsUp(named, member, down, least, u)
  PROVE  TrunksInv'
<1>1. DOMAIN shown' = DOMAIN table
  BY DEF Synced
<1>2. \A n \in DOMAIN table : n[2] \in Trunks
  BY DEF Names
<1> SUFFICES ASSUME NEW n \in DOMAIN table, n[2] \notin stale'
             PROVE  shown'[n] = (n \notin down /\ IsUp(named', member', down, least', n[2]))
  BY <1>1 DEF TrunksInv, ShownRight, IsUp, LinksUp
<1>4. CASE n[2] = t
  <2>1. /\ \A p \in Ports : priority[p] \in Nat
        /\ least'[t] \in Nat \ {0} /\ most'[t] \in Nat /\ least'[t] <= most'[t]
    BY Positive, LinkNumbersAre DEF TrunksInv, Configuration, LagTypeOK, ThresholdsOrdered
  <2>2. Operates(named', member', lacp', least', most', t) <=> IsUp(named', member', down, least', t)
    BY <2>1, OperatesUp
  <2> QED
    BY <1>4, <2>2 DEF Synced
<1>5. CASE n[2] # t
  BY <1>2, <1>5 DEF Synced, TrunksInv, ShownRight
<1> QED
  BY <1>4, <1>5

\* The trunks but t have the members they had when ports move between t and nowhere, and
\* are up as they were.
Moves(mem, t) ==
  /\ mem \in [Ports -> {Nowhere} \cup Names]
  /\ \A p \in Ports : mem[p] # member[p] => {member[p][2], mem[p][2]} \subseteq {t, Nobody}

\* Members that move to or from one trunk leave the other trunks as they were.
LEMMA OthersStay ==
  ASSUME LagTypeOK, NEW t \in Trunks, NEW mem, Moves(mem, t), NEW u \in Trunks \ {t}
  PROVE  /\ Members(mem, u) = Members(member, u)
         /\ \A p \in Members(mem, u) : mem[p] = member[p]
         /\ IsUp(named, mem, down, least, u) <=> IsUp(named, member, down, least, u)
<1>1. Nobody \notin Trunks
  BY LagAssumption
<1>2. Members(mem, u) = Members(member, u)
  BY <1>1 DEF Moves, Members
<1>3. \A p \in Members(mem, u) : mem[p] = member[p]
  BY <1>1 DEF Moves, Members
<1> QED
  BY <1>2, <1>3 DEF IsUp, Exists, LinksUp

\* A command that moves ports between trunk t and nowhere.
LEMMA MoveKeeps ==
  ASSUME TrunksInv, NEW t \in Trunks, Moves(member', t),
         UNCHANGED <<at, named, lacp, least, most, priority, settings, down>>,
         LET M == Members(member', t)
         IN /\ M # {} => \E f \in Families : <<f, t>> \in named
            /\ \A p, q \in M : member'[p][1] = member'[q][1]
            /\ Cardinality(M) <= MaxMembers,
         Sync(t) \/ (UNCHANGED shown /\ stale' = stale \cup {t})
  PROVE  TrunksInv'
<1>0. /\ LagTypeOK /\ MembersAreHoused /\ ThresholdsOrdered /\ ShownRight
      /\ member' \in [Ports -> {Nowhere} \cup Names]
  BY DEF TrunksInv, Configuration, Moves
<1>1. DOMAIN shown' = DOMAIN shown /\ shown' \in [DOMAIN shown -> BOOLEAN] /\ stale' \subseteq Trunks
  <2>1. CASE Sync(t)
    BY <1>0, <2>1 DEF Sync, Synced, Operates, LagTypeOK
  <2>2. CASE UNCHANGED shown /\ stale' = stale \cup {t}
    BY <1>0, <2>2 DEF LagTypeOK
  <2> QED
    BY <2>1, <2>2
<1>2. LagTypeOK'
  BY <1>0, <1>1 DEF LagTypeOK
<1>3. MembersAreHoused'
  <2> SUFFICES ASSUME NEW u \in Trunks
               PROVE  LET M == Members(member', u)
                      IN /\ M # {} => \E f \in Families : <<f, u>> \in named
                         /\ \A p, q \in M : member'[p][1] = member'[q][1]
                         /\ Cardinality(M) <= MaxMembers
    BY DEF MembersAreHoused, Members
  <2>1. CASE u = t
    BY <2>1
  <2>2. CASE u # t
    <3>1. /\ Members(member', u) = Members(member, u)
          /\ \A p \in Members(member', u) : member'[p] = member[p]
      BY <1>0, <2>2, OthersStay
    <3> QED
      BY <1>0, <3>1 DEF MembersAreHoused
  <2> QED
    BY <2>1, <2>2
<1>4. Configuration'
  BY <1>0, <1>2, <1>3 DEF TrunksInv, Configuration, ThresholdsOrdered, InTrunkView
<1>5. \A u \in Trunks \ {t} : IsUp(named', member', down, least', u) <=> IsUp(named, member, down, least, u)
  BY <1>0, OthersStay
<1>6. CASE Sync(t)
  BY <1>0, <1>4, <1>5, <1>6, SyncKeeps DEF Sync, LagTypeOK
<1>7. CASE UNCHANGED shown /\ stale' = stale \cup {t}
  <2> SUFFICES ASSUME NEW n \in DOMAIN shown, n[2] \notin stale'
               PROVE  shown[n] = (n \notin down /\ IsUp(named', member', down, least', n[2]))
    BY <1>4, <1>7 DEF TrunksInv, ShownRight, IsUp, LinksUp
  <2>1. n[2] \in Trunks \ {t} /\ n[2] \notin stale
    BY <1>0, <1>7 DEF LagTypeOK, Names
  <2> QED
    BY <1>0, <1>5, <2>1 DEF ShownRight
<1> QED
  BY <1>6, <1>7

\* One port more: a trunk with room is not too large after it.
LEMMA RoomForOne ==
  ASSUME NEW M \in SUBSET Ports, NEW p \in Ports, Cardinality(M) < MaxMembers
  PROVE  Cardinality(M \cup {p}) <= MaxMembers
<1>1. IsFiniteSet(M) /\ Cardinality(M) \in Nat /\ MaxMembers \in Nat
  BY FS_Subset, FS_CardinalityType, LagAssumption
<1>2. Cardinality(M \cup {p}) = IF p \in M THEN Cardinality(M) ELSE Cardinality(M) + 1
  BY <1>1, FS_AddElement
<1> QED
  BY <1>1, <1>2

\* A port joins the trunk named in its view.
LEMMA JoinStep ==
  ASSUME TrunksInv, NEW f \in Families, NEW t \in Trunks, JoinTrunk(f, t)
  PROVE  TrunksInv'
<1>0. LagTypeOK /\ MembersAreHoused /\ Nobody \notin Trunks
  BY LagAssumption DEF TrunksInv, Configuration
<1>1. PICK p \in Ports : p = Here
  BY <1>0 DEF JoinTrunk, InPortView, LagTypeOK, InSystem, Port, Names, Families, Here
<1>2. /\ member' = [member EXCEPT ![p] = <<f, t>>] /\ Sync(t) /\ member[p] = Nowhere
      /\ UNCHANGED <<at, named, lacp, least, most, priority, settings, down>>
      /\ Exists(named, member, t) /\ Cardinality(Members(member, t)) < MaxMembers
      /\ \A q \in Members(member, t) : member[q][1] = f
  BY <1>1 DEF JoinTrunk, MayJoin, Joined, Family
<1>3. Moves(member', t) /\ member \in [Ports -> {Nowhere} \cup Names]
  BY <1>0, <1>1, <1>2 DEF Moves, Nowhere, LagTypeOK, Names
<1>4. member'[p] = <<f, t>> /\ Members(member', t) = Members(member, t) \cup {p}
  BY <1>1, <1>2, <1>3 DEF Members
<1>5. \A q \in Members(member', t) : member'[q][1] = f
  BY <1>1, <1>2, <1>3 DEF Members
<1>6. \E g \in Families : <<g, t>> \in named
  BY <1>0, <1>2 DEF MembersAreHoused, Exists
<1>7. Members(member, t) \in SUBSET Ports
  BY DEF Members
<1>8. Cardinality(Members(member', t)) <= MaxMembers
  BY <1>1, <1>2, <1>4, <1>7, RoomForOne
<1> QED
  BY <1>2, <1>3, <1>5, <1>6, <1>8, MoveKeeps

\* Fewer members: leaving needs no check.
LEMMA LeaveKeeps ==
  ASSUME TrunksInv, NEW t \in Trunks, NEW P \in SUBSET Ports, \A p \in P : member[p][2] = t,
         member' = Left(member, P), UNCHANGED <<at, named, lacp, least, most, priority, settings, down>>,
         Sync(t) \/ (UNCHANGED shown /\ stale' = stale \cup {t})
  PROVE  TrunksInv'
<1>0. LagTypeOK /\ MembersAreHoused /\ Nobody \notin Trunks
  BY LagAssumption DEF TrunksInv, Configuration
<1>1. Moves(member', t)
  BY <1>0 DEF Moves, Left, Nowhere, LagTypeOK
<1>2. Members(member', t) \in SUBSET Members(member, t) /\ \A p \in Members(member', t) : member'[p] = member[p]
  BY <1>0 DEF Members, Left, Nowhere
<1>3. Cardinality(Members(member', t)) <= Cardinality(Members(member, t))
      /\ Cardinality(Members(member', t)) \in Nat /\ Cardinality(Members(member, t)) \in Nat
  BY <1>2, FS_Subset, FS_CardinalityType, LagAssumption DEF Members
<1>4. LET M == Members(member', t)
      IN /\ M # {} => \E f \in Families : <<f, t>> \in named
         /\ \A p, q \in M : member'[p][1] = member'[q][1]
         /\ Cardinality(M) <= MaxMembers
  BY <1>0, <1>2, <1>3, LagAssumption DEF MembersAreHoused
<1> QED
  BY <1>1, <1>4, MoveKeeps

\* A range of ports joins one after the other: the last one that joins has found room, and
\* all of one family, when all the others had joined.
LEMMA TrunkPortStep ==
  ASSUME TrunksInv, NEW a \in Ports, NEW b \in Ports, TrunkPort(a, b)
  PROVE  TrunksInv'
<1> DEFINE R == Between(a, b)
           With(S) == [r \in Ports |-> IF r \in S /\ member[r] = Nowhere THEN at ELSE member[r]]
           Accepts(t, r) == member[r][2] = t \/ MayJoin(With(Before(R, r)), r, at[1], t)
           Taken(t) == {r \in R : \A s \in Before(R, r) \cup {r} : Accepts(t, s)}
           New(t) == {r \in Taken(t) : member[r] = Nowhere}
<1>0. /\ LagTypeOK /\ MembersAreHoused /\ Nobody \notin Trunks /\ InTrunkView /\ at \in named
      /\ member \in [Ports -> {Nowhere} \cup Names] /\ Rank \in [Ports -> Nat]
  BY LagAssumption DEF TrunksInv, Configuration, TrunkPort, LagTypeOK
<1>1. PICK t \in Trunks : t = Here /\ at = <<at[1], t>> /\ at[1] \in Families
  BY <1>0 DEF LagTypeOK, Names, Here
<1>2. /\ \E r \in Taken(t) : member[r] = Nowhere
      /\ member' = With(Taken(t)) /\ Sync(t)
      /\ UNCHANGED <<at, named, lacp, least, most, priority, settings, down>>
  BY <1>1, SMTT(20) DEF TrunkPort
<1>3. New(t) \in SUBSET Ports /\ Taken(t) \subseteq R /\ R \subseteq Ports
  BY DEF Between
<1>4. PICK r \in New(t) : \A s \in New(t) : Rank[s] <= Rank[r]
  <2> DEFINE back == [p \in Ports |-> 0 - Rank[p]]
  <2>1. IsFiniteSet(New(t)) /\ New(t) # {}
    BY <1>2, <1>3, FS_Subset, LagAssumption
  <2>2. \A p \in New(t) : back[p] \in Int
    BY <1>0, <1>3
  <2>3. \A p \in New(t) : back[p] = 0 - Rank[p] /\ Rank[p] \in Nat
    BY <1>0, <1>3
  <2> HIDE DEF New, back
  <2>4. PICK r \in New(t) : \A s \in New(t) : back[r] <= back[s]
    BY <2>1, <2>2, HasLeast
  <2> QED
    BY <2>3, <2>4
<1> DEFINE before == With(Before(R, r))
<1>5. r \in Ports /\ MayJoin(before, r, at[1], t)
  <2>1. r \in Ports /\ member[r] = Nowhere /\ Accepts(t, r)
    BY <1>3, <1>4
  <2>2. member[r][2] # t
    BY <1>0, <2>1 DEF Nowhere
  <2> HIDE DEF With
  <2> QED
    BY <2>1, <2>2
<1>6. Members(member', t) \subseteq Members(before, t) \cup {r}
  <2> SUFFICES ASSUME NEW q \in Members(member', t), q # r PROVE q \in Members(before, t)
    OBVIOUS
  <2>1. q \in Ports /\ member'[q][2] = t
    BY DEF Members
  <2>2. CASE member[q][2] = t
    BY <1>0, <2>1, <2>2 DEF Members, Nowhere
  <2>3. CASE member[q][2] # t
    <3>1. q \in New(t)
      BY <1>2, <2>1, <2>3
    <3>2. Rank[q] \in Nat /\ Rank[r] \in Nat /\ Rank[q] # Rank[r] /\ Rank[q] <= Rank[r]
      BY <1>0, <1>4, <1>5, <2>1, <3>1, LagAssumption
    <3>3. q \in Before(R, r)
      BY <3>1, <3>2 DEF Before
    <3> QED
      BY <1>1, <2>1, <3>1, <3>3 DEF Members
  <2> QED
    BY <2>2, <2>3
<1>7. \A q \in Members(member', t) : member'[q][1] = at[1]
  <2> HIDE DEF Taken
  <2> SUFFICES ASSUME NEW q \in Members(member', t), member'[q] = member[q]
               PROVE  member[q][1] = at[1]
    BY <1>1, <1>2 DEF Members
  <2>1. q \in Ports /\ member[q][2] = t /\ member[q] # Nowhere
    BY <1>0 DEF Members, Nowhere
  <2>2. q \in Members(before, t) /\ before[q] = member[q]
    BY <2>1 DEF Members
  <2>3. before[q][1] \in Family(before, t)
    BY <2>2 DEF Family
  <2> QED
    BY <1>5, <2>2, <2>3 DEF MayJoin
<1>8. Cardinality(Members(member', t)) <= MaxMembers
  <2>1. Members(before, t) \in SUBSET Ports /\ Cardinality(Members(before, t)) < MaxMembers
    BY <1>5 DEF MayJoin, Members
  <2> HIDE DEF before
  <2>2. Cardinality(Members(before, t) \cup {r}) <= MaxMembers
    BY <1>5, <2>1, RoomForOne
  <2>3. IsFiniteSet(Members(before, t) \cup {r})
    BY <1>5, <2>1, FS_Subset, FS_AddElement, LagAssumption
  <2>4. Cardinality(Members(member', t)) <= Cardinality(Members(before, t) \cup {r})
    BY <1>6, <2>3, FS_Subset
  <2>5. /\ Cardinality(Members(member', t)) \in Nat /\ Cardinality(Members(before, t) \cup {r}) \in Nat
        /\ MaxMembers \in Nat
    BY <1>6, <2>3, FS_Subset, FS_CardinalityType, LagAssumption
  <2> QED
    BY <2>2, <2>4, <2>5
<1>9. Moves(member', t)
  <2> HIDE DEF Taken
  <2>1. at \in Names
    BY <1>0 DEF LagTypeOK
  <2>2. \A q \in Ports : member'[q] # member[q] => member[q] = Nowhere /\ member'[q] = <<at[1], t>>
    BY <1>1, <1>2
  <2>3. member' \in [Ports -> {Nowhere} \cup Names]
    BY <1>0, <1>2, <2>1
  <2> QED
    BY <2>2, <2>3 DEF Moves, Nowhere
<1>10. \E f \in Families : <<f, t>> \in named
  BY <1>0, <1>1
<1> HIDE DEF Taken, With
<1> QED
  BY <1>2, <1>7, <1>8, <1>9, <1>10, MoveKeeps

\* Ports that leave by one of the two commands leave one trunk.
LEMMA LeaveStep ==
  ASSUME TrunksInv, LeaveTrunk \/ \E a, b \in Ports : UndoTrunkPort(a, b)
  PROVE  TrunksInv'
<1>0. LagTypeOK /\ Nobody \notin Trunks
  BY LagAssumption DEF TrunksInv, Configuration
<1>1. CASE LeaveTrunk
  <2>1. Here \in Ports
    BY <1>0, <1>1 DEF LeaveTrunk, InPortView, LagTypeOK, InSystem, Port, Names, Families, Here
  <2>2. member[Here][2] \in Trunks
    BY <1>0, <1>1, <2>1 DEF LeaveTrunk, LagTypeOK, Names
  <2> QED
    BY <1>1, <2>1, <2>2, LeaveKeeps DEF LeaveTrunk
<1>2. ASSUME NEW a \in Ports, NEW b \in Ports, UndoTrunkPort(a, b) PROVE TrunksInv'
  <2> DEFINE R == Between(a, b)
             Gone(t) == {r \in R : \A s \in Before(R, r) \cup {r} : member[s][2] = t}
  <2>1. PICK t \in Trunks : t = Here
    BY <1>0, <1>2 DEF UndoTrunkPort, InTrunkView, LagTypeOK, InSystem, Port, Names, Families, Here
  <2>2. /\ member' = Left(member, Gone(t)) /\ (Sync(t) \/ (UNCHANGED shown /\ stale' = stale \cup {t}))
        /\ UNCHANGED <<at, named, lacp, least, most, priority, settings, down>>
    BY <1>2, <2>1 DEF UndoTrunkPort
  <2>3. Gone(t) \in SUBSET Ports /\ \A p \in Gone(t) : member[p][2] = t
    BY DEF Between
  <2> HIDE DEF Gone
  <2> QED
    BY <2>2, <2>3, LeaveKeeps
<1> QED
  BY <1>1, <1>2

\* Commands that change neither a trunk nor what is shown of it.
LEMMA QuietStep ==
  ASSUME TrunksInv,
         \/ LeaveView \/ \E p \in Ports : EnterPort(p)
         \/ \E n \in Priorities : SetPriority(n)
         \/ \E f \in Fields : SetField(f) \/ UndoField(f)
  PROVE  TrunksInv'
<1>0. LagTypeOK
  BY DEF TrunksInv, Configuration
<1>1. /\ UNCHANGED <<named, member, lacp, least, most, down, shown, stale>>
      /\ at' = at \/ at' \in {InSystem} \cup {Port(p) : p \in Ports}
  BY DEF LeaveView, EnterPort, SetPriority, SetField, UndoField
<1>2. priority' \in [Ports -> Priorities] /\ settings' \subseteq (Trunks \cup {Nobody}) \X Fields
  <2>1. ASSUME NEW n \in Priorities, SetPriority(n) PROVE priority' \in [Ports -> Priorities]
    BY <1>0, <2>1 DEF SetPriority, LagTypeOK
  <2>2. ASSUME NEW f \in Fields, SetField(f) PROVE settings' \subseteq (Trunks \cup {Nobody}) \X Fields
    <3>1. Here \in Trunks \cup {Nobody}
      BY <1>0, <2>2 DEF SetField, LagTypeOK, InTrunkView, InSystem, Port, Names, Families, Here
    <3> QED
      BY <1>0, <2>2, <3>1 DEF SetField, LagTypeOK
  <2> QED
    BY <1>0, <2>1, <2>2 DEF LagTypeOK, LeaveView, EnterPort, SetPriority, SetField, UndoField
<1>3. LagTypeOK'
  <2>1. at' \in {InSystem} \cup {Port(p) : p \in Ports} \cup Names
    BY <1>0, <1>1 DEF LagTypeOK
  <2> QED
    BY <1>0, <1>1, <1>2, <2>1 DEF LagTypeOK
<1>4. InTrunkView' => at' \in named'
  <2>1. CASE at' = at
    BY <1>1, <2>1 DEF TrunksInv, Configuration, InTrunkView
  <2>2. CASE at' \in {InSystem} \cup {Port(p) : p \in Ports}
    BY <2>2 DEF InTrunkView, InSystem, Port, Families
  <2> QED
    BY <1>1, <2>1, <2>2
<1>5. MembersAreHoused' /\ ThresholdsOrdered'
  BY <1>1 DEF TrunksInv, Configuration, MembersAreHoused, ThresholdsOrdered
<1>6. ShownRight'
  BY <1>1 DEF TrunksInv, ShownRight, IsUp, LinksUp, Exists, Members
<1> QED
  BY <1>3, <1>4, <1>5, <1>6 DEF TrunksInv, Configuration

\* The settings of a trunk that is in view, and the view of a trunk itself.
LEMMA SetStep ==
  ASSUME TrunksInv, SetMode \/ \E n \in LinkNumbers : SetLeast(n) \/ SetMost(n)
  PROVE  TrunksInv'
<1>0. LagTypeOK /\ MembersAreHoused /\ ThresholdsOrdered
  BY DEF TrunksInv, Configuration
<1>1. PICK t \in Trunks : t = Here
  BY <1>0 DEF SetMode, SetLeast, SetMost, InTrunkView, LagTypeOK, InSystem, Port, Names, Families, Here
<1>2. UNCHANGED <<at, named, member, priority, settings, down>> /\ Sync(t)
  BY <1>1 DEF SetMode, SetLeast, SetMost
<1>3. /\ lacp' \subseteq Trunks
      /\ least' \in [Trunks -> LinkNumbers] /\ most' \in [Trunks -> LinkNumbers]
      /\ \A u \in Trunks \ {t} : least'[u] = least[u]
      /\ \A u \in Trunks : least'[u] <= most'[u]
  BY <1>0, <1>1 DEF SetMode, SetLeast, SetMost, LagTypeOK, ThresholdsOrdered
<1>4. LagTypeOK'
  <2>1. DOMAIN shown' = DOMAIN shown /\ shown' \in [DOMAIN shown -> BOOLEAN] /\ stale' \subseteq Trunks
    BY <1>0, <1>2 DEF Sync, Synced, Operates, LagTypeOK
  <2> QED
    BY <1>0, <1>2, <1>3, <2>1 DEF LagTypeOK
<1>5. Configuration'
  <2>1. MembersAreHoused'
    <3>1. member' = member /\ named' = named
      BY <1>2
    <3> QED
      BY <1>0, <3>1 DEF MembersAreHoused
  <2>2. ThresholdsOrdered' /\ (InTrunkView' => at' \in named')
    BY <1>2, <1>3 DEF TrunksInv, Configuration, ThresholdsOrdered, InTrunkView
  <2> QED
    BY <1>4, <2>1, <2>2 DEF Configuration
<1>6. \A u \in Trunks \ {t} : IsUp(named', member', down, least', u) <=> IsUp(named, member, down, least, u)
  BY <1>2, <1>3 DEF IsUp
<1> QED
  BY <1>0, <1>2, <1>5, <1>6, SyncKeeps DEF Sync, LagTypeOK

\* A trunk is named, and its state shown.
LEMMA EnterStep ==
  ASSUME TrunksInv, NEW n \in Names, EnterTrunk(n)
  PROVE  TrunksInv'
<1> DEFINE table == [m \in DOMAIN shown \cup {n} |-> m \in DOMAIN shown /\ shown[m]]
<1>0. LagTypeOK /\ n[2] \in Trunks
  BY DEF TrunksInv, Configuration, Names
<1>1. /\ at' = n /\ named' = named \cup {n} /\ stale' = stale \ {n[2]}
      /\ shown' = Synced(table, named', member', lacp', least', most', n[2])
      /\ UNCHANGED <<member, lacp, least, most, priority, settings, down>>
  BY DEF EnterTrunk
<1>2. /\ DOMAIN table \subseteq Names
      /\ \A m \in DOMAIN table : m[2] # n[2] => m \in DOMAIN shown /\ table[m] = shown[m]
  BY <1>0 DEF LagTypeOK
<1>3. LagTypeOK'
  <2>1. DOMAIN shown' = DOMAIN table /\ \A m \in DOMAIN table : shown'[m] \in BOOLEAN
    BY <1>1 DEF Synced, Operates
  <2>2. shown' \in [DOMAIN shown' -> BOOLEAN]
    BY <1>1, <2>1 DEF Synced
  <2> QED
    BY <1>0, <1>1, <1>2, <2>1, <2>2 DEF LagTypeOK
<1>4. Configuration'
  <2> HIDE DEF table
  <2>1. MembersAreHoused'
    BY <1>1 DEF TrunksInv, Configuration, MembersAreHoused
  <2>2. ThresholdsOrdered' /\ at' \in named'
    BY <1>1 DEF TrunksInv, Configuration, ThresholdsOrdered
  <2> QED
    BY <1>3, <2>1, <2>2 DEF Configuration
<1>5. \A u \in Trunks \ {n[2]} : IsUp(named', member', down, least', u) <=> IsUp(named, member, down, least, u)
  <2> HIDE DEF table
  <2> SUFFICES ASSUME NEW u \in Trunks \ {n[2]}
               PROVE  Exists(named', member', u) <=> Exists(named, member, u)
    BY <1>1 DEF IsUp, Members, LinksUp
  <2>1. \A f \in Families : <<f, u>> \in named' <=> <<f, u>> \in named
    BY <1>1
  <2> QED
    BY <1>1, <2>1 DEF Exists, Members
<1> HIDE DEF table
<1> QED
  BY <1>0, <1>1, <1>2, <1>4, <1>5, SyncKeeps

\* A port goes down or up: the trunk it is a member of, and no other, may have changed.
LEMMA DownStep ==
  ASSUME TrunksInv, Shutdown \/ UndoShutdown
  PROVE  TrunksInv'
<1>0. LagTypeOK
  BY DEF TrunksInv, Configuration
<1>1. /\ UNCHANGED <<at, named, member, lacp, least, most, priority, settings>>
      /\ at \in {Port(p) : p \in Ports} \cup Names
      /\ down' \in {down \cup {at}, down \ {at}}
      /\ stale \subseteq stale' /\ stale' \subseteq Trunks
      /\ InPortView => JoinedBy(Here) \subseteq stale'
      /\ DOMAIN shown' = DOMAIN shown /\ shown' \in [DOMAIN shown -> BOOLEAN]
      /\ \A n \in DOMAIN shown : n # at => shown'[n] = shown[n]
  <2>0. at \in {Port(p) : p \in Ports} \cup Names
    BY <1>0 DEF Shutdown, UndoShutdown, LagTypeOK
  <2>1. InPortView \/ Here \in Trunks
    BY <2>0 DEF InPortView, Names, Port, Here
  <2>2. /\ UNCHANGED <<at, named, member, lacp, least, most, priority, settings>>
        /\ at \in {Port(p) : p \in Ports} \cup Names
        /\ down' \in {down \cup {at}, down \ {at}}
    BY <1>0 DEF Shutdown, UndoShutdown, LagTypeOK
  <2>3. /\ stale \subseteq stale' /\ stale' \subseteq Trunks
        /\ InPortView => JoinedBy(Here) \subseteq stale'
    BY <1>0, <2>1 DEF Shutdown, UndoShutdown, LagTypeOK, JoinedBy
  <2>4. /\ DOMAIN shown' = DOMAIN shown /\ shown' \in [DOMAIN shown -> BOOLEAN]
        /\ \A n \in DOMAIN shown : n # at => shown'[n] = shown[n]
    BY <1>0 DEF Shutdown, UndoShutdown, LagTypeOK, Show
  <2> QED
    BY <2>2, <2>3, <2>4
<1>2. LagTypeOK'
  BY <1>0, <1>1 DEF LagTypeOK
<1>3. Configuration'
  <2>1. member' = member /\ named' = named /\ least' = least /\ most' = most /\ at' = at
    BY <1>1
  <2>2. MembersAreHoused'
    BY <2>1 DEF TrunksInv, Configuration, MembersAreHoused
  <2> QED
    BY <1>2, <2>1, <2>2 DEF TrunksInv, Configuration, ThresholdsOrdered, InTrunkView
<1>4. ASSUME NEW n \in DOMAIN shown, n[2] \notin stale'
      PROVE  shown'[n] = (n \notin down' /\ IsUp(named, member, down', least, n[2]))
  <2>1. n \in Names /\ n[2] \in Trunks
    BY <1>0 DEF LagTypeOK, Names
  <2>2. LinksUp(down', member, n[2]) = LinksUp(down, member, n[2])
    <3>1. ASSUME NEW p \in Members(member, n[2]) PROVE Port(p) # at
      BY <1>1, <1>4, <2>1, <3>1 DEF InPortView, Port, Here, JoinedBy, Members
    <3> QED
      BY <1>1, <3>1 DEF LinksUp
  <2>3. CASE n # at
    BY <1>1, <1>4, <2>2, <2>3 DEF TrunksInv, ShownRight, IsUp
  <2>4. CASE n = at
    <3>1. ~InPortView
      BY <2>1, <2>4 DEF InPortView, Names, Families
    <3> QED
      BY <1>4, <2>4, <3>1 DEF Shutdown, UndoShutdown, Show, Here
  <2> QED
    BY <2>3, <2>4
<1> QED
  BY <1>1, <1>3, <1>4 DEF TrunksInv, ShownRight, IsUp, LinksUp

\* A trunk without members is removed with all that is configured under its names.
LEMMA RemoveStep ==
  ASSUME TrunksInv, NEW t \in Trunks, UndoInterface(t)
  PROVE  TrunksInv'
<1>0. LagTypeOK /\ {1, MaxMembers} \subseteq LinkNumbers /\ 1 <= MaxMembers
  BY LagAssumption DEF TrunksInv, Configuration
<1>1. /\ at = InSystem /\ Members(member, t) = {}
      /\ UNCHANGED <<at, member, priority>>
      /\ named' = {n \in named : n[2] # t} /\ lacp' = lacp \ {t}
      /\ least' = [least EXCEPT ![t] = 1] /\ most' = [most EXCEPT ![t] = MaxMembers]
      /\ settings' = {s \in settings : s[1] # t}
      /\ down' = {n \in down : n[1] \notin Families \/ n[2] # t}
      /\ DOMAIN shown' = {n \in DOMAIN shown : n[2] # t}
      /\ \A n \in DOMAIN shown' : shown'[n] = shown[n]
      /\ shown' \in [DOMAIN shown' -> BOOLEAN]
      /\ stale' = stale \ {t}
  BY <1>0 DEF UndoInterface, Restrict, LagTypeOK
<1>2. LagTypeOK'
  BY <1>0, <1>1 DEF LagTypeOK
<1>3. MembersAreHoused' /\ ThresholdsOrdered'
  <2>1. ThresholdsOrdered'
    BY <1>0, <1>1 DEF TrunksInv, Configuration, ThresholdsOrdered, LagTypeOK
  <2>2. ASSUME NEW u \in Trunks, NEW f \in Families, Members(member, u) # {}, <<f, u>> \in named
        PROVE  <<f, u>> \in named'
    BY <1>1, <2>2
  <2>3. MembersAreHoused
    BY DEF TrunksInv, Configuration
  <2>4. member' = member /\ \A u \in Trunks : Members(member', u) = Members(member, u)
    BY <1>1 DEF Members
  <2> QED
    BY <2>1, <2>2, <2>3, <2>4 DEF MembersAreHoused
<1>4. Configuration'
  BY <1>1, <1>2, <1>3 DEF Configuration, InTrunkView, InSystem, Families
<1>5. ASSUME NEW n \in DOMAIN shown', n[2] \notin stale'
      PROVE  shown'[n] = (n \notin down' /\ IsUp(named', member', down', least', n[2]))
  <2>1. n \in DOMAIN shown /\ n[2] \in Trunks \ {t} /\ n[2] \notin stale
    BY <1>0, <1>1, <1>5 DEF LagTypeOK, Names
  <2>2. LinksUp(down', member, n[2]) = LinksUp(down, member, n[2])
    BY <1>1 DEF LinksUp, Port, Families
  <2>3. n \notin down' <=> n \notin down
    BY <1>1, <2>1
  <2>4. IsUp(named', member', down', least', n[2]) <=> IsUp(named, member, down, least, n[2])
    BY <1>0, <1>1, <2>1, <2>2 DEF IsUp, Exists, LagTypeOK
  <2> QED
    BY <1>1, <2>1, <2>3, <2>4 DEF TrunksInv, ShownRight
<1> QED
  BY <1>4, <1>5 DEF TrunksInv, ShownRight, IsUp, LinksUp

\* The state that is built again shows nothing, or every trunk as it operates.
LEMMA ReloadStep == ASSUME TrunksInv, Reload PROVE TrunksInv'
<1>0. LagTypeOK /\ ThresholdsOrdered
  BY DEF TrunksInv, Configuration
<1>1. at' = InSystem /\ stale' = {} /\ UNCHANGED <<named, member, lacp, least, most, priority, settings, down>>
  BY DEF Reload
<1> DEFINE Existing == {ShownName(t) : t \in {u \in Trunks : Exists(named, member, u)}}
<1>2. Existing \subseteq Names
  <2> SUFFICES ASSUME NEW t \in Trunks PROVE ShownName(t) \in Names
    OBVIOUS
  <2> DEFINE family == CHOOSE g \in Family(member, t) : TRUE
  <2>1. ASSUME Members(member, t) # {} PROVE family \in Families
    <3>1. Family(member, t) # {}
      BY <2>1 DEF Family
    <3>2. Family(member, t) \subseteq Families
      BY <1>0, LagAssumption DEF Family, Members, LagTypeOK, Names, Nowhere
    <3> QED
      BY <3>1, <3>2
  <2>2. {"Eth-Trunk", "Bridge-Aggregation"} = Families
    BY DEF Families
  <2>3. CASE Members(member, t) = {}
    BY <2>2, <2>3 DEF ShownName, Names
  <2>4. CASE Members(member, t) # {}
    <3>1. ShownName(t) = <<family, t>>
      BY <2>4 DEF ShownName
    <3> HIDE DEF family
    <3> QED
      BY <2>1, <2>4, <3>1 DEF Names
  <2> QED
    BY <2>3, <2>4
<1>3. \/ DOMAIN shown' = {}
      \/ /\ DOMAIN shown' = Existing
         /\ \A n \in Existing : shown'[n] = (n \notin down /\ Operates(named, member, lacp, least, most, n[2]))
  BY DEF Reload
<1>4. shown' \in [DOMAIN shown' -> BOOLEAN]
  BY DEF Reload, Operates
<1>5. LagTypeOK'
  BY <1>0, <1>1, <1>2, <1>3, <1>4 DEF LagTypeOK
<1>6. Configuration'
  BY <1>1, <1>5 DEF TrunksInv, Configuration, MembersAreHoused, ThresholdsOrdered, Members, InTrunkView,
                    InSystem, Families
<1>7. ASSUME NEW n \in DOMAIN shown'
      PROVE  shown'[n] = (n \notin down /\ IsUp(named, member, down, least, n[2]))
  <2>1. n \in Existing /\ n[2] \in Trunks
    BY <1>2, <1>3, <1>7 DEF Names
  <2>2. Operates(named, member, lacp, least, most, n[2]) <=> IsUp(named, member, down, least, n[2])
    BY <1>0, <2>1, LinkNumbersAre, OperatesUp
  <2> QED
    BY <1>3, <1>7, <2>1, <2>2
<1> QED
  BY <1>1, <1>6, <1>7 DEF TrunksInv, ShownRight, IsUp, LinksUp

\* Whatever ports join, leave, go down and up, and whatever names, modes and thresholds are
\* given and taken back: a trunk with members exists, no trunk has more members than the
\* switch allows, the thresholds are in order, and the state shown is the derived one but
\* where a command is known to leave it behind (lag_cmd.go).
THEOREM TrunksStayCoherent == LagSpec => []TrunksCoherent
<1>1. LagInit => TrunksInv
  <2> SUFFICES ASSUME LagInit PROVE TrunksInv
    OBVIOUS
  <2>1. \A t \in Trunks : Members(member, t) = {}
    BY LagAssumption DEF LagInit, Members, Nowhere
  <2>2. {1, MaxMembers} \subseteq LinkNumbers /\ 1 <= MaxMembers /\ PortPriority \in Priorities
    BY LagAssumption
  <2>3. LagTypeOK
    BY <2>2 DEF LagInit, LagTypeOK
  <2>4. MembersAreHoused
    BY <2>1, FS_EmptySet, LagAssumption DEF MembersAreHoused
  <2> QED
    BY <2>2, <2>3, <2>4 DEF LagInit, TrunksInv, Configuration, ThresholdsOrdered, ShownRight, InTrunkView,
                            InSystem, Families
<1>2. TrunksInv /\ [LagNext]_lagVars => TrunksInv'
  <2> SUFFICES ASSUME TrunksInv, [LagNext]_lagVars PROVE TrunksInv'
    OBVIOUS
  <2>1. CASE UNCHANGED lagVars
    <3>1. LagTypeOK' /\ ThresholdsOrdered' /\ (InTrunkView' => at' \in named')
      BY <2>1 DEF lagVars, TrunksInv, Configuration, LagTypeOK, ThresholdsOrdered, InTrunkView
    <3>2. member' = member /\ named' = named /\ shown' = shown /\ stale' = stale /\ down' = down /\ least' = least
      BY <2>1 DEF lagVars
    <3>3. MembersAreHoused'
      BY <3>2 DEF TrunksInv, Configuration, MembersAreHoused
    <3>4. ShownRight'
      BY <3>2 DEF TrunksInv, ShownRight
    <3> QED
      BY <3>1, <3>3, <3>4 DEF TrunksInv, Configuration
  <2>2. CASE LagNext
    BY <2>2, QuietStep, SetStep, EnterStep, DownStep, RemoveStep, ReloadStep, JoinStep, TrunkPortStep,
       LeaveStep DEF LagNext
  <2> QED
    BY <2>1, <2>2
<1>3. TrunksInv => TrunksCoherent
  BY ShownAsDerived
<1> QED
  BY <1>1, <1>2, <1>3, PTL DEF LagSpec

-----------------------------------------------------------------------------
(* Routing.                                                                *)

\* Part by part, what is kept and what the session has.
OspfKept == kept.ospf = live.ospf /\ (live.ospf.pid = Absent => live.ospf.area = Absent)

IsisKept ==
  /\ kept.isis.pid = live.isis.pid /\ kept.isis.imports = live.isis.imports
  /\ live.isis.level = IF kept.isis.level = Absent THEN DefaultLevel ELSE kept.isis.level
  /\ live.isis.pid = Absent => kept.isis.level = Absent /\ live.isis.imports = {}

BgpKept == kept.bgp = live.bgp /\ (live.bgp.as = Absent => live.bgp = Nothing.bgp)

FamilyKept ==
  /\ ~orphan => kept.l2 = live.l2
  /\ ~kept.l2.enabled => kept.l2 = Nothing.l2
  /\ At("L2VPN") => kept.l2.enabled

EvpnKept ==
  /\ kept.insts = live.insts
  /\ \A b \in BDs : IF b \in DOMAIN live.bds /\ Given(live.bds[b])
                    THEN b \in DOMAIN kept.bds /\ kept.bds[b] = live.bds[b]
                    ELSE b \notin DOMAIN kept.bds

RtInv == RtTypeOK /\ ContextExists /\ OspfKept /\ IsisKept /\ BgpKept /\ FamilyKept /\ EvpnKept

\* The parts of an empty configuration and of a fresh session.
LEMMA Parts ==
  /\ DOMAIN Nothing = {"ospf", "isis", "bgp", "l2", "insts", "bds", "policy", "filter"}
  /\ DOMAIN FreshSession = DOMAIN Nothing
  /\ Nothing.ospf = [pid |-> Absent, area |-> Absent] /\ FreshSession.ospf = Nothing.ospf
  /\ Nothing.isis = [pid |-> Absent, level |-> Absent, imports |-> {}]
  /\ FreshSession.isis = [pid |-> Absent, level |-> DefaultLevel, imports |-> {}]
  /\ Nothing.bgp = [as |-> Absent, peers |-> [p \in {} |-> Absent]] /\ FreshSession.bgp = Nothing.bgp
  /\ Nothing.l2 = [enabled |-> FALSE, irb |-> FALSE, peers |-> {}] /\ FreshSession.l2 = Nothing.l2
  /\ Nothing.insts = [i \in {} |-> Absent] /\ FreshSession.insts = Nothing.insts
  /\ Nothing.bds = [b \in {} |-> Absent] /\ FreshSession.bds = Nothing.bds
  /\ Nothing.policy = {} /\ FreshSession.policy = {}
  /\ Nothing.filter = {} /\ FreshSession.filter = {}
BY DEF Nothing, FreshSession

\* A session that is built again.
LEMMA RebuiltParts ==
  /\ DOMAIN Rebuilt = DOMAIN Nothing
  /\ Rebuilt.ospf = IF kept.ospf.pid = Absent THEN FreshSession.ospf ELSE kept.ospf
  /\ Rebuilt.isis = IF kept.isis.pid = Absent THEN FreshSession.isis
                    ELSE [kept.isis EXCEPT !.level = IF @ = Absent THEN DefaultLevel ELSE @]
  /\ Rebuilt.bgp = IF kept.bgp.as = Absent THEN FreshSession.bgp ELSE kept.bgp
  /\ Rebuilt.l2 = IF kept.l2.enabled THEN kept.l2 ELSE FreshSession.l2
  /\ Rebuilt.insts = kept.insts /\ Rebuilt.bds = kept.bds
  /\ Rebuilt.policy = {} /\ Rebuilt.filter = {}
BY Parts DEF Rebuilt

\* Records of one protocol that agree in their fields.
LEMMA IsisFields ==
  ASSUME NEW r \in [pid : RtPids \cup {Absent}, level : Levels \cup {Absent}, imports : SUBSET Protocols],
         NEW s \in [pid : RtPids \cup {Absent}, level : Levels \cup {Absent}, imports : SUBSET Protocols],
         r.pid = s.pid, r.level = s.level, r.imports = s.imports
  PROVE  r = s
OBVIOUS

\* The same of OSPF.
LEMMA OspfFields ==
  ASSUME NEW r \in [pid : RtPids \cup {Absent}, area : Areas \cup {Absent}], r.pid = Absent, r.area = Absent
  PROVE  r = [pid |-> Absent, area |-> Absent]
OBVIOUS

\* What is kept part by part makes the session that is built again the one there was.
LEMMA KeptRebuilds == ASSUME RtInv PROVE RoutingCoherent
<1>0. /\ RtTypeOK /\ IsStore(live) /\ IsStore(kept)
  BY DEF RtInv, RtTypeOK
<1>1. Rebuilt.ospf = live.ospf
  BY <1>0, Parts, RebuiltParts, OspfFields DEF RtInv, OspfKept, IsStore
<1>2. Rebuilt.isis = live.isis
  <2>1. /\ live.isis \in [pid : RtPids \cup {Absent}, level : Levels \cup {Absent}, imports : SUBSET Protocols]
        /\ kept.isis \in [pid : RtPids \cup {Absent}, level : Levels \cup {Absent}, imports : SUBSET Protocols]
        /\ DefaultLevel \in Levels
    BY <1>0, RoutingAssumption DEF IsStore
  <2>2. /\ Rebuilt.isis \in [pid : RtPids \cup {Absent}, level : Levels \cup {Absent}, imports : SUBSET Protocols]
        /\ Rebuilt.isis.pid = live.isis.pid /\ Rebuilt.isis.level = live.isis.level
        /\ Rebuilt.isis.imports = live.isis.imports
    <3>1. CASE kept.isis.pid = Absent
      BY <2>1, <3>1, Parts, RebuiltParts DEF RtInv, IsisKept
    <3>2. CASE kept.isis.pid # Absent
      BY <2>1, <3>2, RebuiltParts DEF RtInv, IsisKept
    <3> QED
      BY <3>1, <3>2
  <2> QED
    BY <2>1, <2>2, IsisFields
<1>3. Rebuilt.bgp = live.bgp /\ Rebuilt.insts = live.insts
  BY Parts, RebuiltParts DEF RtInv, BgpKept, EvpnKept
<1>4. Rebuilt.l2 = live.l2 \/ orphan
  BY Parts, RebuiltParts DEF RtInv, FamilyKept
<1>5. \A b \in BDs : IF b \in DOMAIN live.bds /\ Given(live.bds[b])
                     THEN b \in DOMAIN Rebuilt.bds /\ Rebuilt.bds[b] = live.bds[b]
                     ELSE b \notin DOMAIN Rebuilt.bds
  BY RebuiltParts DEF RtInv, EvpnKept
<1>6. \A f \in {"ospf", "isis", "bgp", "insts"} : Rebuilt[f] = live[f]
  BY <1>1, <1>2, <1>3
<1> QED
  BY <1>4, <1>5, <1>6 DEF RtInv, RoutingCoherent, RebuildKeepsRouting

\* A part that changes, and the others that do not.
LEMMA BothParts ==
  ASSUME NEW f \in DOMAIN Nothing, NEW l, NEW k, Both(f, l, k), DOMAIN live = DOMAIN Nothing, DOMAIN kept = DOMAIN Nothing
  PROVE  /\ DOMAIN live' = DOMAIN Nothing /\ DOMAIN kept' = DOMAIN Nothing
         /\ live'[f] = l /\ kept'[f] = k
         /\ \A g \in DOMAIN Nothing \ {f} : live'[g] = live[g] /\ kept'[g] = kept[g]
BY DEF Both

OspfType == [pid : RtPids \cup {Absent}, area : Areas \cup {Absent}]
IsisType == [pid : RtPids \cup {Absent}, level : Levels \cup {Absent}, imports : SUBSET Protocols]
L2Type   == [enabled : BOOLEAN, irb : BOOLEAN, peers : SUBSET Peers]

\* OSPF.
LEMMA OspfStep ==
  ASSUME RtInv, \/ \E pid \in RtPids, a \in Areas \cup {Absent} : Ospf(pid, a)
                \/ UndoOspf
  PROVE  RtInv'
<1>0. /\ IsStore(live) /\ IsStore(kept) /\ RtTypeOK /\ OspfKept
      /\ DOMAIN live = DOMAIN Nothing /\ DOMAIN kept = DOMAIN Nothing
      /\ live.ospf \in OspfType
  BY DEF RtInv, RtTypeOK, IsStore, OspfType
<1>1. /\ DOMAIN live' = DOMAIN Nothing /\ DOMAIN kept' = DOMAIN Nothing
      /\ kept'.ospf = live'.ospf /\ live'.ospf \in OspfType
      /\ live'.ospf.pid = Absent => live'.ospf.area = Absent
      /\ \A g \in DOMAIN Nothing \ {"ospf"} : live'[g] = live[g]
      /\ \A g \in DOMAIN Nothing \ {"ospf", "filter"} : kept'[g] = kept[g]
      /\ kept'.filter \subseteq kept.filter
      /\ UNCHANGED <<rtView, orphan>>
  <2>1. ASSUME NEW pid \in RtPids, NEW a \in Areas \cup {Absent}, Ospf(pid, a) PROVE <1>1!:
    <3> DEFINE l == [pid |-> pid, area |-> IF a = Absent THEN live.ospf.area ELSE a]
    <3>1. Both("ospf", l, l) /\ UNCHANGED <<rtView, orphan>> /\ l \in OspfType /\ l.pid # Absent
      BY <1>0, <2>1, RoutingAssumption DEF Ospf, OspfKept, OspfType
    <3> HIDE DEF l
    <3> QED
      BY <1>0, <3>1, Parts, BothParts
  <2>2. CASE UndoOspf
    <3>1. /\ live' = [live EXCEPT !.ospf = FreshSession.ospf]
          /\ kept' = [kept EXCEPT !.ospf = Nothing.ospf, !.filter = Unfiltered("ospf")]
          /\ UNCHANGED <<rtView, orphan>>
      BY <2>2 DEF UndoOspf
    <3>2. Unfiltered("ospf") \subseteq kept.filter
      BY DEF Unfiltered
    <3>3. Nothing.ospf \in OspfType /\ Nothing.ospf.area = Absent
      BY Parts DEF OspfType
    <3>4. live'.ospf = Nothing.ospf /\ kept'.ospf = Nothing.ospf
      BY <1>0, <3>1, Parts
    <3>5. /\ DOMAIN live' = DOMAIN Nothing /\ DOMAIN kept' = DOMAIN Nothing
          /\ \A g \in DOMAIN Nothing \ {"ospf"} : live'[g] = live[g]
          /\ \A g \in DOMAIN Nothing \ {"ospf", "filter"} : kept'[g] = kept[g]
          /\ kept'.filter \subseteq kept.filter
      BY <1>0, <3>1, <3>2, Parts
    <3> QED
      BY <3>1, <3>3, <3>4, <3>5
  <2> QED
    BY <2>1, <2>2
<1>2. IsStore(live') /\ IsStore(kept')
  BY <1>0, <1>1, Parts DEF IsStore, OspfType
<1>3. RtTypeOK'
  BY <1>0, <1>1, <1>2 DEF RtTypeOK
<1>4. ContextExists'
  BY <1>1, Parts DEF RtInv, ContextExists, At
<1>5. OspfKept' /\ IsisKept' /\ BgpKept'
  BY <1>1, Parts DEF RtInv, OspfKept, IsisKept, BgpKept
<1>6. FamilyKept' /\ EvpnKept'
  BY <1>1, Parts DEF RtInv, FamilyKept, EvpnKept, At
<1> QED
  BY <1>3, <1>4, <1>5, <1>6 DEF RtInv

\* The views that name nothing, and those that do.
LEMMA Views ==
  ASSUME NEW v \in RtViews
  PROVE  /\ Ctx(v) \in [view : RtViews, inst : Instances \cup {Absent}, bd : BDs \cup {Absent}, node : Policies \cup {Absent}]
         /\ Ctx(v).view = v
BY DEF Ctx

\* IS-IS.
LEMMA IsisStep ==
  ASSUME RtInv, \/ \E pid \in RtPids : Isis(pid)
                \/ \E l \in Levels : IsisNetwork(l)
                \/ \E p \in Protocols : IsisImport(p)
                \/ UndoIsis
  PROVE  RtInv'
<1>0. /\ IsStore(live) /\ IsStore(kept) /\ RtTypeOK /\ IsisKept /\ ContextExists
      /\ DOMAIN live = DOMAIN Nothing /\ DOMAIN kept = DOMAIN Nothing
      /\ live.isis \in IsisType /\ kept.isis \in IsisType
  BY DEF RtInv, RtTypeOK, IsStore, IsisType
<1>1. /\ DOMAIN live' = DOMAIN Nothing /\ DOMAIN kept' = DOMAIN Nothing
      /\ live'.isis \in IsisType /\ kept'.isis \in IsisType
      /\ \A g \in DOMAIN Nothing \ {"isis"} : live'[g] = live[g]
      /\ \A g \in DOMAIN Nothing \ {"isis", "filter"} : kept'[g] = kept[g]
      /\ kept'.filter \subseteq kept.filter
      /\ rtView' = rtView \/ rtView' = Ctx("ISIS")
      /\ orphan' = orphan
      /\ At("ISIS")' => live'.isis.pid # Absent
      /\ IsisKept'
  <2>1. ASSUME NEW l \in IsisType, NEW k \in IsisType, Both("isis", l, k), orphan' = orphan,
               l.pid # Absent, k.pid = l.pid, k.imports = l.imports,
               l.level = IF k.level = Absent THEN DefaultLevel ELSE k.level,
               rtView' = rtView \/ rtView' = Ctx("ISIS")
        PROVE  <1>1!:
    BY <1>0, <2>1, Parts, BothParts DEF IsisKept
  <2>2. ASSUME NEW pid \in RtPids, Isis(pid) PROVE <1>1!:
    <3> DEFINE l == [live.isis EXCEPT !.pid = pid]
               k == [kept.isis EXCEPT !.pid = pid]
    <3>1. /\ l \in IsisType /\ k \in IsisType /\ l.pid # Absent /\ k.pid = l.pid /\ k.imports = l.imports
          /\ l.level = IF k.level = Absent THEN DefaultLevel ELSE k.level
      BY <1>0, RoutingAssumption DEF IsisType, IsisKept
    <3>2. Both("isis", l, k) /\ orphan' = orphan /\ rtView' = Ctx("ISIS")
      BY <2>2 DEF Isis
    <3> HIDE DEF l, k
    <3> QED
      BY <2>1, <3>1, <3>2
  <2>3. ASSUME NEW v \in Levels, IsisNetwork(v) PROVE <1>1!:
    <3> DEFINE l == [live.isis EXCEPT !.level = v]
               k == [kept.isis EXCEPT !.level = v]
    <3>1. /\ l \in IsisType /\ k \in IsisType /\ l.pid # Absent /\ k.pid = l.pid /\ k.imports = l.imports
          /\ l.level = IF k.level = Absent THEN DefaultLevel ELSE k.level
      BY <1>0, <2>3, RoutingAssumption DEF IsisType, IsisKept, IsisNetwork, ContextExists
    <3>2. Both("isis", l, k) /\ orphan' = orphan /\ rtView' = rtView
      BY <2>3 DEF IsisNetwork
    <3> HIDE DEF l, k
    <3> QED
      BY <2>1, <3>1, <3>2
  <2>4. ASSUME NEW p \in Protocols, IsisImport(p) PROVE <1>1!:
    <3> DEFINE all == live.isis.imports \cup {p}
               l == [live.isis EXCEPT !.imports = all]
               k == [kept.isis EXCEPT !.imports = all]
    <3>1. /\ l \in IsisType /\ k \in IsisType /\ l.pid # Absent /\ k.pid = l.pid /\ k.imports = l.imports
          /\ l.level = IF k.level = Absent THEN DefaultLevel ELSE k.level
      BY <1>0, <2>4, RoutingAssumption DEF IsisType, IsisKept, IsisImport, ContextExists
    <3>2. Both("isis", l, k) /\ orphan' = orphan /\ rtView' = rtView
      BY <2>4 DEF IsisImport
    <3> HIDE DEF l, k
    <3> QED
      BY <2>1, <3>1, <3>2
  <2>5. CASE UndoIsis
    <3>1. /\ live' = [live EXCEPT !.isis = FreshSession.isis]
          /\ kept' = [kept EXCEPT !.isis = Nothing.isis, !.filter = Unfiltered("isis")]
          /\ UNCHANGED <<rtView, orphan>> /\ At("System")
      BY <2>5 DEF UndoIsis
    <3>2. Unfiltered("isis") \subseteq kept.filter
      BY DEF Unfiltered
    <3>3. live'.isis = FreshSession.isis /\ kept'.isis = Nothing.isis
      BY <1>0, <3>1, Parts
    <3>4. live'.isis \in IsisType /\ kept'.isis \in IsisType /\ IsisKept'
      BY <3>3, Parts, RoutingAssumption DEF IsisType, IsisKept
    <3>5. /\ DOMAIN live' = DOMAIN Nothing /\ DOMAIN kept' = DOMAIN Nothing
          /\ \A g \in DOMAIN Nothing \ {"isis"} : live'[g] = live[g]
          /\ \A g \in DOMAIN Nothing \ {"isis", "filter"} : kept'[g] = kept[g]
          /\ kept'.filter \subseteq kept.filter
      BY <1>0, <3>1, <3>2, Parts
    <3> QED
      BY <3>1, <3>4, <3>5 DEF At
  <2> QED
    BY <2>2, <2>3, <2>4, <2>5
<1>2. IsStore(live') /\ IsStore(kept')
  BY <1>0, <1>1, Parts DEF IsStore, IsisType
<1>3. Ctx("ISIS").view = "ISIS"
  BY DEF Ctx
<1>4. RtTypeOK'
  BY <1>0, <1>1, <1>2, Views DEF RtTypeOK, RtViews
<1>5. ContextExists'
  BY <1>1, <1>3, Parts DEF RtInv, ContextExists, At
<1>6. OspfKept' /\ BgpKept'
  BY <1>1, Parts DEF RtInv, OspfKept, BgpKept
<1>7. FamilyKept' /\ EvpnKept'
  BY <1>1, <1>3, Parts DEF RtInv, FamilyKept, EvpnKept, At
<1> QED
  BY <1>1, <1>4, <1>5, <1>6, <1>7 DEF RtInv

\* A session returns to a view above, or is built again from what is kept.
LEMMA ViewStep == ASSUME RtInv, ViewNext PROVE RtInv'
<1>0. /\ IsStore(live) /\ IsStore(kept) /\ RtTypeOK
      /\ DOMAIN live = DOMAIN Nothing /\ DOMAIN kept = DOMAIN Nothing
  BY DEF RtInv, RtTypeOK, IsStore
<1>1. Ctx("User").view = "User" /\ Ctx("System").view = "System"
  BY DEF Ctx
<1>2. CASE Rebuild
  <2>1. rtView' = Ctx("User") /\ live' = Rebuilt /\ orphan' = FALSE /\ kept' = kept
    BY <1>2 DEF Rebuild
  <2>2. /\ \A f \in {"ospf", "isis", "bgp", "insts"} : Rebuilt[f] = live[f]
        /\ Rebuilt.l2 = kept.l2 /\ Rebuilt.bds = kept.bds /\ Rebuilt.policy = {} /\ Rebuilt.filter = {}
        /\ DOMAIN Rebuilt = DOMAIN Nothing
    BY KeptRebuilds, RebuiltParts, Parts DEF RtInv, RoutingCoherent, RebuildKeepsRouting, FamilyKept
  <2>3. IsStore(live')
    BY <1>0, <2>1, <2>2 DEF IsStore
  <2>4. RtTypeOK'
    BY <1>0, <2>1, <2>3, Views DEF RtTypeOK, RtViews
  <2>5. ContextExists'
    BY <1>1, <2>1 DEF ContextExists, At
  <2>6. OspfKept' /\ IsisKept' /\ BgpKept'
    BY <2>1, <2>2 DEF RtInv, OspfKept, IsisKept, BgpKept
  <2>7. FamilyKept' /\ EvpnKept'
    BY <1>1, <2>1, <2>2 DEF RtInv, FamilyKept, EvpnKept, At
  <2> QED
    BY <2>4, <2>5, <2>6, <2>7 DEF RtInv
<1>3. CASE ~Rebuild
  <2>1. UNCHANGED <<live, kept, orphan>>
    BY <1>3 DEF ViewNext, SystemView, QuitView, ReturnToUser
  <2>2. /\ rtView' \in [view : RtViews, inst : Instances \cup {Absent}, bd : BDs \cup {Absent}, node : Policies \cup {Absent}]
        /\ \/ rtView'.view \in {"User", "System"}
           \/ rtView'.view = "BGP" /\ At("L2VPN")
           \/ rtView'.view = "EVPNInstance" /\ At("BD") /\ rtView'.inst = rtView.inst
    BY <1>0, <1>3 DEF ViewNext, SystemView, QuitView, ReturnToUser, Parent, Ctx, At, RtTypeOK, RtViews
  <2>3. RtTypeOK'
    BY <1>0, <2>1, <2>2 DEF RtTypeOK
  <2>4. ContextExists'
    BY <2>1, <2>2 DEF RtInv, ContextExists, At
  <2>5. OspfKept' /\ IsisKept' /\ BgpKept'
    BY <2>1 DEF RtInv, OspfKept, IsisKept, BgpKept
  <2>6. FamilyKept' /\ EvpnKept'
    BY <2>1, <2>2 DEF RtInv, FamilyKept, EvpnKept, At
  <2> QED
    BY <2>3, <2>4, <2>5, <2>6 DEF RtInv
<1> QED
  BY <1>2, <1>3

\* Route policies and filters.
LEMMA PolicyStep == ASSUME RtInv, PolicyNext PROVE RtInv'
<1>0. /\ IsStore(live) /\ IsStore(kept) /\ RtTypeOK
      /\ DOMAIN live = DOMAIN Nothing /\ DOMAIN kept = DOMAIN Nothing
  BY DEF RtInv, RtTypeOK, IsStore
<1>1. /\ UNCHANGED <<live, orphan>> /\ DOMAIN kept' = DOMAIN Nothing
      /\ \A g \in DOMAIN Nothing \ {"policy", "filter"} : kept'[g] = kept[g]
      /\ kept'.policy \subseteq Policies \X (Clauses \cup {"action"})
      /\ kept'.filter \subseteq Filtered \X {"import", "export"}
      /\ \/ rtView' = rtView /\ (At("System") \/ kept.policy \subseteq kept'.policy)
         \/ \E n \in Policies : rtView' = [Ctx("RoutePolicy") EXCEPT !.node = n] /\ <<n, "action">> \in kept'.policy
  <2>0. /\ kept.policy \subseteq Policies \X (Clauses \cup {"action"})
        /\ kept.filter \subseteq Filtered \X {"import", "export"}
    BY <1>0 DEF IsStore
  <2>1. ASSUME NEW n \in Policies, RoutePolicy(n) PROVE <1>1!:
    BY <1>0, <2>0, <2>1, Parts DEF RoutePolicy, KeysOnly
  <2>2. ASSUME NEW name, UndoRoutePolicy(name) PROVE <1>1!:
    BY <1>0, <2>0, <2>2, Parts DEF UndoRoutePolicy, KeysOnly
  <2>3. ASSUME NEW c \in Clauses, PolicyClause(c) PROVE <1>1!:
    <3>1. rtView.node \in Policies
      BY <1>0, <2>0, <2>3 DEF RtInv, ContextExists, PolicyClause
    <3> QED
      BY <1>0, <2>0, <2>3, <3>1, Parts DEF PolicyClause, KeysOnly
  <2>4. ASSUME NEW p \in Filtered, NEW d \in {"import", "export"}, FilterPolicy(p, d) PROVE <1>1!:
    BY <1>0, <2>0, <2>4, Parts DEF FilterPolicy, KeysOnly
  <2> QED
    BY <2>1, <2>2, <2>3, <2>4 DEF PolicyNext
<1>2. IsStore(kept')
  BY <1>0, <1>1, Parts DEF IsStore
<1>3. ASSUME NEW n \in Policies
      PROVE  /\ [Ctx("RoutePolicy") EXCEPT !.node = n] \in [view : RtViews, inst : Instances \cup {Absent}, bd : BDs \cup {Absent}, node : Policies \cup {Absent}]
             /\ [Ctx("RoutePolicy") EXCEPT !.node = n].view = "RoutePolicy"
             /\ [Ctx("RoutePolicy") EXCEPT !.node = n].node = n
  BY DEF Ctx, RtViews
<1>4. RtTypeOK'
  BY <1>0, <1>1, <1>2, <1>3 DEF RtTypeOK
<1>5. ContextExists'
  BY <1>1, <1>3 DEF RtInv, ContextExists, At
<1>6. OspfKept' /\ IsisKept' /\ BgpKept'
  BY <1>1, Parts DEF RtInv, OspfKept, IsisKept, BgpKept
<1>7. FamilyKept'
  <2>1. kept'.l2 = kept.l2 /\ live'.l2 = live.l2 /\ (~orphan' => ~orphan)
    BY <1>1, Parts
  <2>2. At("L2VPN")' => At("L2VPN")
    BY <1>1, <1>3 DEF At
  <2> QED
    BY <2>1, <2>2 DEF RtInv, FamilyKept
<1>8. EvpnKept'
  <2>1. kept'.insts = kept.insts /\ live'.insts = live.insts /\ kept'.bds = kept.bds /\ live'.bds = live.bds
    BY <1>1, Parts
  <2> QED
    BY <2>1 DEF RtInv, EvpnKept
<1> QED
  BY <1>4, <1>5, <1>6, <1>7, <1>8 DEF RtInv

IsBgp(s) == DOMAIN s = {"as", "peers"} /\ s.as \in ASes \cup {Absent} /\ Maps(s.peers, Peers, PeerType)

\* BGP and its neighbours.
LEMMA BgpStep ==
  ASSUME RtInv, \E as \in ASes : Bgp(as) \/ \E p \in Peers : Peer(p, as)
  PROVE  RtInv'
<1>0. /\ IsStore(live) /\ IsStore(kept) /\ RtTypeOK /\ BgpKept /\ ContextExists
      /\ DOMAIN live = DOMAIN Nothing /\ DOMAIN kept = DOMAIN Nothing
      /\ IsBgp(live.bgp)
  BY DEF RtInv, RtTypeOK, IsStore, IsBgp
<1> DEFINE Becomes(l) == /\ IsBgp(l) /\ Both("bgp", l, l) /\ l.as # Absent /\ orphan' = orphan
                         /\ rtView' = rtView \/ rtView' = Ctx("BGP")
<1>1. PICK l : Becomes(l)
  <2>1. ASSUME NEW as \in ASes, Bgp(as) PROVE \E l : Becomes(l)
    <3> DEFINE l == [live.bgp EXCEPT !.as = as]
    <3>1. IsBgp(l) /\ l.as # Absent
      BY <1>0, RoutingAssumption DEF IsBgp
    <3>2. Both("bgp", l, l) /\ orphan' = orphan /\ rtView' = Ctx("BGP")
      BY <1>0, <2>1 DEF Bgp, BgpKept
    <3> HIDE DEF l
    <3> QED
      BY <3>1, <3>2
  <2>2. ASSUME NEW as \in ASes, NEW p \in Peers, Peer(p, as) PROVE \E l : Becomes(l)
    <3> DEFINE entry == [as |-> as, ebgp |-> as # live.bgp.as]
               l == [live.bgp EXCEPT !.peers = Assign(@, p, entry)]
    <3>1. entry \in PeerType
      BY DEF PeerType
    <3>2. Both("bgp", l, l) /\ orphan' = orphan /\ rtView' = rtView
      BY <1>0, <2>2 DEF Peer, BgpKept
    <3> HIDE DEF entry
    <3>3. Maps(Assign(live.bgp.peers, p, entry), Peers, PeerType)
      BY <1>0, <3>1 DEF IsBgp, Maps, Assign
    <3>4. IsBgp(l) /\ l.as # Absent
      BY <1>0, <2>2, <3>3 DEF IsBgp, Peer, ContextExists
    <3> HIDE DEF l
    <3> QED
      BY <3>2, <3>4
  <2> QED
    BY <2>1, <2>2
<1>2. /\ DOMAIN live' = DOMAIN Nothing /\ DOMAIN kept' = DOMAIN Nothing
      /\ live'.bgp = l /\ kept'.bgp = l
      /\ \A g \in DOMAIN Nothing \ {"bgp"} : live'[g] = live[g] /\ kept'[g] = kept[g]
  BY <1>0, <1>1, Parts, BothParts
<1>3. IsStore(live') /\ IsStore(kept')
  BY <1>0, <1>1, <1>2, Parts DEF IsStore, IsBgp
<1>4. Ctx("BGP").view = "BGP"
  BY DEF Ctx
<1>5. RtTypeOK'
  BY <1>0, <1>1, <1>3, Views DEF RtTypeOK, RtViews
<1>6. ContextExists'
  BY <1>1, <1>2, <1>4, Parts DEF RtInv, ContextExists, At
<1>7. OspfKept' /\ IsisKept' /\ BgpKept'
  BY <1>1, <1>2, Parts DEF RtInv, OspfKept, IsisKept, BgpKept
<1>8. FamilyKept' /\ EvpnKept'
  BY <1>1, <1>2, <1>4, Parts DEF RtInv, FamilyKept, EvpnKept, At
<1> QED
  BY <1>5, <1>6, <1>7, <1>8 DEF RtInv

\* undo bgp deletes what is kept of the family, and not what the session has of it.
LEMMA UndoBgpStep == ASSUME RtInv, UndoBgp PROVE RtInv'
<1>0. /\ IsStore(live) /\ IsStore(kept) /\ RtTypeOK
      /\ DOMAIN live = DOMAIN Nothing /\ DOMAIN kept = DOMAIN Nothing
  BY DEF RtInv, RtTypeOK, IsStore
<1>1. /\ live' = [live EXCEPT !.bgp = FreshSession.bgp]
      /\ kept' = [kept EXCEPT !.bgp = Nothing.bgp, !.l2 = Nothing.l2, !.filter = Unfiltered("bgp")]
      /\ orphan' = (orphan \/ live.l2.enabled) /\ rtView' = rtView /\ rtView.view = "System"
  BY DEF UndoBgp, At
<1>2. Unfiltered("bgp") \subseteq kept.filter
  BY DEF Unfiltered
<1>3. /\ DOMAIN live' = DOMAIN Nothing /\ DOMAIN kept' = DOMAIN Nothing
      /\ live'.bgp = Nothing.bgp /\ kept'.bgp = Nothing.bgp /\ kept'.l2 = Nothing.l2
      /\ \A g \in DOMAIN Nothing \ {"bgp"} : live'[g] = live[g]
      /\ \A g \in DOMAIN Nothing \ {"bgp", "l2", "filter"} : kept'[g] = kept[g]
      /\ kept'.filter \subseteq kept.filter
  BY <1>0, <1>1, <1>2, Parts
<1>4. IsBgp(Nothing.bgp) /\ Nothing.l2 \in L2Type
  BY Parts DEF IsBgp, Maps, L2Type
<1>5. IsStore(live') /\ IsStore(kept')
  BY <1>0, <1>3, <1>4, Parts DEF IsStore, IsBgp, L2Type
<1>6. orphan \in BOOLEAN /\ live.l2.enabled \in BOOLEAN
  BY <1>0 DEF RtTypeOK, IsStore
<1>7. RtTypeOK'
  BY <1>0, <1>1, <1>5, <1>6 DEF RtTypeOK
<1>8. ContextExists'
  BY <1>1 DEF ContextExists, At
<1>9. OspfKept' /\ IsisKept' /\ BgpKept'
  BY <1>3, Parts DEF RtInv, OspfKept, IsisKept, BgpKept
<1>10. FamilyKept' /\ EvpnKept'
  BY <1>1, <1>3, Parts DEF RtInv, FamilyKept, EvpnKept, At
<1> QED
  BY <1>7, <1>8, <1>9, <1>10 DEF RtInv

\* The L2VPN EVPN family.
LEMMA FamilyStep ==
  ASSUME RtInv, Family2 \/ AdvertiseIrb \/ \E p \in Peers : FamilyPeer(p)
  PROVE  RtInv'
<1>0. /\ IsStore(live) /\ IsStore(kept) /\ RtTypeOK /\ FamilyKept /\ ContextExists
      /\ DOMAIN live = DOMAIN Nothing /\ DOMAIN kept = DOMAIN Nothing
      /\ live.l2 \in L2Type /\ kept.l2 \in L2Type /\ orphan \in BOOLEAN
  BY DEF RtInv, RtTypeOK, IsStore, L2Type
<1> DEFINE Becomes(l, k) ==
             /\ Both("l2", l, k) /\ l.enabled /\ k.enabled /\ (live.l2 = kept.l2 => l = k) /\ orphan' = orphan
             /\ live.bgp.as # Absent
             /\ rtView' = rtView \/ rtView' = Ctx("L2VPN")
<1>1. PICK l \in L2Type, k \in L2Type : Becomes(l, k)
  <2>1. CASE Family2
    <3> DEFINE l == [live.l2 EXCEPT !.enabled = TRUE]
               k == [kept.l2 EXCEPT !.enabled = TRUE]
    <3>1. l \in L2Type /\ k \in L2Type /\ l.enabled /\ k.enabled /\ (live.l2 = kept.l2 => l = k)
      BY <1>0 DEF L2Type
    <3>2. Both("l2", l, k) /\ orphan' = orphan /\ rtView' = Ctx("L2VPN") /\ live.bgp.as # Absent
      BY <1>0, <2>1 DEF Family2, ContextExists
    <3> HIDE DEF l, k
    <3> QED
      BY <3>1, <3>2
  <2>2. CASE AdvertiseIrb
    <3> DEFINE l == [live.l2 EXCEPT !.irb = TRUE]
               k == [kept.l2 EXCEPT !.irb = TRUE]
    <3>1. l \in L2Type /\ k \in L2Type /\ l.enabled /\ k.enabled /\ (live.l2 = kept.l2 => l = k)
      BY <1>0, <2>2 DEF L2Type, AdvertiseIrb, ContextExists, FamilyKept
    <3>2. Both("l2", l, k) /\ orphan' = orphan /\ rtView' = rtView /\ live.bgp.as # Absent
      BY <1>0, <2>2 DEF AdvertiseIrb, ContextExists
    <3> HIDE DEF l, k
    <3> QED
      BY <3>1, <3>2
  <2>3. ASSUME NEW p \in Peers, FamilyPeer(p) PROVE \E l \in L2Type, k \in L2Type : Becomes(l, k)
    <3> DEFINE l == [live.l2 EXCEPT !.peers = @ \cup {p}]
               k == [kept.l2 EXCEPT !.peers = @ \cup {p}]
    <3>1. l \in L2Type /\ k \in L2Type /\ l.enabled /\ k.enabled /\ (live.l2 = kept.l2 => l = k)
      BY <1>0, <2>3 DEF L2Type, FamilyPeer, ContextExists, FamilyKept
    <3>2. Both("l2", l, k) /\ orphan' = orphan /\ rtView' = rtView /\ live.bgp.as # Absent
      BY <1>0, <2>3 DEF FamilyPeer, ContextExists
    <3> HIDE DEF l, k
    <3> QED
      BY <3>1, <3>2
  <2> QED
    BY <2>1, <2>2, <2>3
<1>2. /\ DOMAIN live' = DOMAIN Nothing /\ DOMAIN kept' = DOMAIN Nothing
      /\ live'.l2 = l /\ kept'.l2 = k
      /\ \A g \in DOMAIN Nothing \ {"l2"} : live'[g] = live[g] /\ kept'[g] = kept[g]
  BY <1>0, <1>1, Parts, BothParts
<1>3. IsStore(live') /\ IsStore(kept')
  <2>1. live'.l2 \in L2Type /\ kept'.l2 \in L2Type
    BY <1>2
  <2>2. IsStore(live')
    BY <1>0, <1>2, <2>1, Parts DEF IsStore, L2Type
  <2>3. IsStore(kept')
    BY <1>0, <1>2, <2>1, Parts DEF IsStore, L2Type
  <2> QED
    BY <2>2, <2>3
<1>4. Ctx("L2VPN").view = "L2VPN"
  BY DEF Ctx
<1>5. RtTypeOK'
  BY <1>0, <1>1, <1>3, Views DEF RtTypeOK, RtViews
<1>6. ContextExists'
  BY <1>1, <1>2, <1>4, Parts DEF RtInv, ContextExists, At
<1>7. OspfKept' /\ IsisKept' /\ BgpKept'
  BY <1>2, Parts DEF RtInv, OspfKept, IsisKept, BgpKept
<1>8. FamilyKept' /\ EvpnKept'
  BY <1>0, <1>1, <1>2, Parts DEF RtInv, FamilyKept, EvpnKept
<1> QED
  BY <1>5, <1>6, <1>7, <1>8 DEF RtInv

\* The parts of EVPN change, and nothing else.
LEMMA EvpnKeeps ==
  ASSUME RtInv, DOMAIN live' = DOMAIN Nothing, DOMAIN kept' = DOMAIN Nothing, orphan' = orphan,
         \A g \in DOMAIN Nothing \ {"insts", "bds"} : live'[g] = live[g] /\ kept'[g] = kept[g],
         rtView' \in [view : RtViews, inst : Instances \cup {Absent}, bd : BDs \cup {Absent}, node : Policies \cup {Absent}],
         \/ rtView'.view = "System"
         \/ rtView'.view = "EVPNInstance" /\ rtView'.inst \in DOMAIN live'.insts
         \/ /\ rtView'.view = "BD" /\ rtView'.inst \in DOMAIN live'.insts
            /\ rtView'.bd \in live'.insts[rtView'.inst].bds /\ rtView'.bd \in DOMAIN live'.bds,
         Maps(live'.insts, Instances, InstType), Maps(live'.bds, BDs, BDType), Maps(kept'.bds, BDs, BDType), EvpnKept'
  PROVE  RtInv'
<1>0. IsStore(live) /\ IsStore(kept) /\ RtTypeOK
  BY DEF RtInv, RtTypeOK
<1>1. IsStore(live') /\ IsStore(kept')
  <2>1. Maps(kept'.insts, Instances, InstType)
    BY DEF EvpnKept
  <2> QED
    BY <1>0, <2>1, Parts DEF IsStore
<1>2. RtTypeOK'
  BY <1>0, <1>1 DEF RtTypeOK
<1>3. ContextExists'
  BY DEF ContextExists, At
<1>4. OspfKept' /\ IsisKept' /\ BgpKept'
  BY Parts DEF RtInv, OspfKept, IsisKept, BgpKept
<1>5. FamilyKept'
  BY Parts DEF RtInv, FamilyKept, At
<1> QED
  BY <1>2, <1>3, <1>4, <1>5 DEF RtInv

\* Instances.
LEMMA InstanceStep ==
  ASSUME RtInv, \/ RouteDistinguisher \/ \E t \in Targets : VpnTarget(t)
                \/ \E i \in Instances : EvpnInstance(i) \/ UndoEvpnInstance(i)
  PROVE  RtInv'
<1>0. /\ RtTypeOK /\ ContextExists /\ EvpnKept
      /\ DOMAIN live = DOMAIN Nothing /\ DOMAIN kept = DOMAIN Nothing
      /\ Maps(live.insts, Instances, InstType) /\ Maps(live.bds, BDs, BDType) /\ Maps(kept.bds, BDs, BDType)
  BY DEF RtInv, RtTypeOK, IsStore
<1> DEFINE Becomes(l) ==
             /\ Both("insts", l, l) /\ orphan' = orphan /\ Maps(l, Instances, InstType)
             /\ rtView' \in [view : RtViews, inst : Instances \cup {Absent}, bd : BDs \cup {Absent}, node : Policies \cup {Absent}]
             /\ \/ rtView'.view = "System"
                \/ rtView'.view = "EVPNInstance" /\ rtView'.inst \in DOMAIN l
<1>1. PICK l : Becomes(l)
  <2>1. ASSUME NEW r \in [rd : BOOLEAN, rts : SUBSET Targets], InstField(r) PROVE \E l : Becomes(l)
    <3> DEFINE i == rtView.inst
               inst == [rd |-> live.insts[i].rd \/ r.rd, rts |-> live.insts[i].rts \cup r.rts, bds |-> live.insts[i].bds]
               l == Assign(live.insts, i, inst)
    <3>1. i \in DOMAIN live.insts /\ live.insts[i] \in InstType /\ rtView.view = "EVPNInstance"
      BY <1>0, <2>1 DEF InstField, ContextExists, Maps, At
    <3>2. inst \in InstType
      BY <3>1 DEF InstType
    <3>3. Both("insts", l, l) /\ UNCHANGED <<rtView, orphan>>
      BY <1>0, <2>1 DEF InstField, EvpnKept
    <3> HIDE DEF inst
    <3>4. Maps(l, Instances, InstType) /\ i \in DOMAIN l
      BY <1>0, <3>1, <3>2 DEF Assign, Maps
    <3> HIDE DEF l
    <3> QED
      BY <1>0, <3>1, <3>3, <3>4 DEF RtTypeOK
  <2>2. [rd |-> TRUE, rts |-> {}] \in [rd : BOOLEAN, rts : SUBSET Targets]
        /\ \A t \in Targets : [rd |-> FALSE, rts |-> {t}] \in [rd : BOOLEAN, rts : SUBSET Targets]
    OBVIOUS
  <2>3. CASE RouteDistinguisher \/ \E t \in Targets : VpnTarget(t)
    <3> HIDE DEF Becomes
    <3> QED
      BY <2>1, <2>2, <2>3 DEF RouteDistinguisher, VpnTarget
  <2>4. ASSUME NEW i \in Instances, EvpnInstance(i) PROVE \E l : Becomes(l)
    <3> DEFINE l == Ensured(live.insts, i, NewInst)
    <3>1. NewInst \in InstType
      BY DEF NewInst, InstType
    <3>2. Maps(l, Instances, InstType) /\ i \in DOMAIN l
      BY <1>0, <3>1 DEF Assign, Ensured, Maps
    <3>3. Both("insts", l, l) /\ orphan' = orphan /\ rtView' = [Ctx("EVPNInstance") EXCEPT !.inst = i]
      BY <1>0, <2>4 DEF EvpnInstance, EvpnKept
    <3>4. /\ rtView' \in [view : RtViews, inst : Instances \cup {Absent}, bd : BDs \cup {Absent}, node : Policies \cup {Absent}]
          /\ rtView'.view = "EVPNInstance" /\ rtView'.inst = i
      BY <3>3 DEF Ctx, RtViews
    <3> HIDE DEF l
    <3> QED
      BY <3>2, <3>3, <3>4
  <2>5. ASSUME NEW i \in Instances, UndoEvpnInstance(i) PROVE \E l : Becomes(l)
    <3> DEFINE l == Restrict(live.insts, DOMAIN live.insts \ {i})
    <3>1. Maps(l, Instances, InstType)
      BY <1>0 DEF Maps, Restrict
    <3>2. Both("insts", l, l) /\ UNCHANGED <<rtView, orphan>> /\ rtView.view = "System"
      BY <1>0, <2>5 DEF UndoEvpnInstance, EvpnKept, At
    <3> HIDE DEF l
    <3> QED
      BY <1>0, <3>1, <3>2 DEF RtTypeOK
  <2> QED
    BY <2>3, <2>4, <2>5
<1>2. /\ DOMAIN live' = DOMAIN Nothing /\ DOMAIN kept' = DOMAIN Nothing
      /\ live'.insts = l /\ kept'.insts = l
      /\ \A g \in DOMAIN Nothing \ {"insts"} : live'[g] = live[g] /\ kept'[g] = kept[g]
  BY <1>0, <1>1, Parts, BothParts
<1>3. EvpnKept'
  BY <1>0, <1>2, Parts DEF EvpnKept
<1> QED
  BY <1>0, <1>1, <1>2, <1>3, Parts, EvpnKeeps

\* Bridge domains: a domain becomes a key when it is given a VNI or a gateway.
LEMMA DomainStep ==
  ASSUME RtInv, \/ BDVni
                \/ \E b \in BDs : BridgeDomain(b) \/ (\E g \in Gateways : BDGateway(b, g))
  PROVE  RtInv'
<1>0. /\ RtTypeOK /\ ContextExists /\ EvpnKept
      /\ DOMAIN live = DOMAIN Nothing /\ DOMAIN kept = DOMAIN Nothing
      /\ Maps(live.insts, Instances, InstType) /\ Maps(live.bds, BDs, BDType) /\ Maps(kept.bds, BDs, BDType)
      /\ rtView \in [view : RtViews, inst : Instances \cup {Absent}, bd : BDs \cup {Absent}, node : Policies \cup {Absent}]
  BY DEF RtInv, RtTypeOK, IsStore
<1>1. NewBD \in BDType /\ ~Given(NewBD)
  BY DEF NewBD, BDType, Given
<1>2. ASSUME NEW b \in BDs, NEW r \in [vni : BOOLEAN, gateway : Gateways \cup {Absent}], BDField(b, r),
             r.vni \/ r.gateway # Absent, UNCHANGED <<rtView, orphan>>,
             rtView.view \in {"System", "BD"}
      PROVE  RtInv'
  <2> DEFINE old(m) == Ensured(m, b, NewBD)[b]
             new(m) == [vni |-> old(m).vni \/ r.vni, gateway |-> IF r.gateway = Absent THEN old(m).gateway ELSE r.gateway]
             l == Assign(live.bds, b, new(live.bds))
             k == Assign(kept.bds, b, new(kept.bds))
  <2>1. /\ old(live.bds) = IF b \in DOMAIN live.bds THEN live.bds[b] ELSE NewBD
        /\ old(kept.bds) = IF b \in DOMAIN kept.bds THEN kept.bds[b] ELSE NewBD
    BY DEF Assign, Ensured
  <2>2. old(live.bds) \in BDType /\ old(kept.bds) \in BDType
    BY <1>0, <1>1, <2>1 DEF Maps
  <2>3. old(live.bds) = old(kept.bds)
    <3>1. CASE b \in DOMAIN live.bds /\ Given(live.bds[b])
      BY <1>0, <2>1, <3>1 DEF EvpnKept
    <3>2. CASE b \in DOMAIN live.bds /\ ~Given(live.bds[b])
      <4>1. \A x \in BDType : ~Given(x) => x = [vni |-> FALSE, gateway |-> Absent]
        BY DEF BDType, Given
      <4>2. live.bds[b] = NewBD
        BY <1>0, <3>2, <4>1 DEF Maps, NewBD
      <4> QED
        BY <1>0, <2>1, <3>2, <4>2 DEF EvpnKept
    <3>3. CASE b \notin DOMAIN live.bds
      BY <1>0, <2>1, <3>3 DEF EvpnKept
    <3> QED
      BY <3>1, <3>2, <3>3
  <2>4. new(live.bds) \in BDType /\ Given(new(live.bds)) /\ new(kept.bds) = new(live.bds)
    <3> HIDE DEF old
    <3>1. Absent \notin Gateways
      BY RoutingAssumption
    <3> QED
      BY <1>2, <2>2, <2>3, <3>1 DEF BDType, Given
  <2>5. Both("bds", l, k)
    BY <1>2 DEF BDField
  <2> HIDE DEF old, new
  <2>6. Maps(l, BDs, BDType) /\ Maps(k, BDs, BDType) /\ DOMAIN live.bds \subseteq DOMAIN l
    BY <1>0, <2>4 DEF Assign, Maps
  <2>7. /\ DOMAIN live' = DOMAIN Nothing /\ DOMAIN kept' = DOMAIN Nothing
        /\ live'.bds = l /\ kept'.bds = k
        /\ \A g \in DOMAIN Nothing \ {"bds"} : live'[g] = live[g] /\ kept'[g] = kept[g]
    BY <1>0, <2>5, Parts, BothParts
  <2>8. EvpnKept'
    <3> SUFFICES ASSUME NEW c \in BDs
                 PROVE  IF c \in DOMAIN l /\ Given(l[c]) THEN c \in DOMAIN k /\ k[c] = l[c] ELSE c \notin DOMAIN k
      BY <1>0, <2>7, Parts DEF EvpnKept, Given
    <3>1. CASE c = b
      BY <2>4, <3>1 DEF Assign
    <3>2. CASE c # b
      <4>1. /\ c \in DOMAIN l <=> c \in DOMAIN live.bds
            /\ c \in DOMAIN k <=> c \in DOMAIN kept.bds
            /\ c \in DOMAIN live.bds => l[c] = live.bds[c]
            /\ c \in DOMAIN kept.bds => k[c] = kept.bds[c]
        BY <3>2 DEF Assign
      <4> HIDE DEF l, k
      <4> QED
        BY <1>0, <4>1 DEF EvpnKept
    <3> QED
      BY <3>1, <3>2
  <2> HIDE DEF l, k
  <2>9. /\ rtView'.view = "BD" => /\ rtView'.inst \in DOMAIN live'.insts
                                  /\ rtView'.bd \in live'.insts[rtView'.inst].bds /\ rtView'.bd \in DOMAIN live'.bds
    BY <1>0, <1>2, <2>6, <2>7, Parts DEF ContextExists, At
  <2> QED
    BY <1>0, <1>2, <2>6, <2>7, <2>8, <2>9, Parts, EvpnKeeps
<1>3. CASE BDVni
  <2>1. rtView.bd \in BDs /\ rtView.view = "BD"
    BY <1>0, <1>3 DEF BDVni, At, ContextExists, Maps
  <2>2. /\ [vni |-> TRUE, gateway |-> Absent] \in [vni : BOOLEAN, gateway : Gateways \cup {Absent}]
        /\ [vni |-> TRUE, gateway |-> Absent].vni
    OBVIOUS
  <2> QED
    BY <1>2, <1>3, <2>1, <2>2 DEF BDVni
<1>4. ASSUME NEW b \in BDs, NEW g \in Gateways, BDGateway(b, g) PROVE RtInv'
  <2>1. /\ [vni |-> FALSE, gateway |-> g] \in [vni : BOOLEAN, gateway : Gateways \cup {Absent}]
        /\ [vni |-> FALSE, gateway |-> g].gateway # Absent
    BY RoutingAssumption
  <2> QED
    BY <1>2, <1>4, <2>1 DEF BDGateway, At
<1>5. ASSUME NEW b \in BDs, BridgeDomain(b) PROVE RtInv'
  <2> DEFINE i == rtView.inst
             l == Assign(live.insts, i, [live.insts[i] EXCEPT !.bds = @ \cup {b}])
             d == Ensured(live.bds, b, NewBD)
  <2>1. i \in DOMAIN live.insts /\ live.insts[i] \in InstType /\ rtView.view = "EVPNInstance"
    BY <1>0, <1>5 DEF BridgeDomain, ContextExists, At, Maps
  <2>2. /\ live' = [live EXCEPT !.insts = l, !.bds = d] /\ kept' = [kept EXCEPT !.insts = l]
        /\ rtView' = [rtView EXCEPT !.view = "BD", !.bd = b] /\ orphan' = orphan
    BY <1>0, <1>5 DEF BridgeDomain, EvpnKept
  <2>3. [live.insts[i] EXCEPT !.bds = @ \cup {b}] \in InstType /\ b \in [live.insts[i] EXCEPT !.bds = @ \cup {b}].bds
    BY <2>1 DEF InstType
  <2>4. Maps(l, Instances, InstType) /\ i \in DOMAIN l /\ b \in l[i].bds
    BY <1>0, <2>1, <2>3 DEF Assign, Maps
  <2>5. /\ Maps(d, BDs, BDType) /\ b \in DOMAIN d
        /\ DOMAIN d = DOMAIN live.bds \cup {b} /\ \A c \in DOMAIN live.bds : d[c] = live.bds[c]
        /\ b \notin DOMAIN live.bds => d[b] = NewBD
    BY <1>0, <1>1 DEF Assign, Ensured, Maps
  <2> HIDE DEF l, d
  <2>6. /\ DOMAIN live' = DOMAIN Nothing /\ DOMAIN kept' = DOMAIN Nothing
        /\ live'.insts = l /\ live'.bds = d /\ kept'.insts = l /\ kept'.bds = kept.bds
        /\ \A g \in DOMAIN Nothing \ {"insts", "bds"} : live'[g] = live[g] /\ kept'[g] = kept[g]
    BY <1>0, <2>2, Parts
  <2>7. EvpnKept'
    <3> SUFFICES ASSUME NEW c \in BDs
                 PROVE  IF c \in DOMAIN d /\ Given(d[c]) THEN c \in DOMAIN kept.bds /\ kept.bds[c] = d[c]
                        ELSE c \notin DOMAIN kept.bds
      BY <2>6 DEF EvpnKept, Given
    <3> QED
      BY <1>0, <1>1, <2>5 DEF EvpnKept
  <2>8. /\ rtView' \in [view : RtViews, inst : Instances \cup {Absent}, bd : BDs \cup {Absent}, node : Policies \cup {Absent}]
        /\ rtView'.view = "BD" /\ rtView'.inst = i /\ rtView'.bd = b
    BY <1>0, <2>2 DEF RtViews
  <2> QED
    BY <1>0, <2>2, <2>4, <2>5, <2>6, <2>7, <2>8, EvpnKeeps
<1> QED
  BY <1>3, <1>4, <1>5

\* A session that is built again has the routing it had, but for a bridge domain without a
\* VNI and a gateway and for the family that an undo bgp left; and what its view is of is
\* configured.  The checks of the commands are enough for that, in every order of them
\* (LoadFromDeviceConfigData, loadEVPNFromDeviceConfig).
THEOREM RoutingStaysCoherent == RtSpec => []RoutingCoherent
<1>1. RtInit => RtInv
  <2> SUFFICES ASSUME RtInit PROVE RtInv
    OBVIOUS
  <2>1. rtView = Ctx("User") /\ live = FreshSession /\ kept = Nothing /\ orphan = FALSE /\ Ctx("User").view = "User"
    BY DEF RtInit, Ctx
  <2>2. IsStore(live) /\ IsStore(kept)
    BY <2>1, Parts, RoutingAssumption DEF IsStore, Maps
  <2>3. RtTypeOK /\ ContextExists
    BY <2>1, <2>2, Views DEF RtTypeOK, ContextExists, At, RtViews
  <2>4. OspfKept /\ IsisKept /\ BgpKept
    BY <2>1, Parts DEF OspfKept, IsisKept, BgpKept
  <2>5. FamilyKept /\ EvpnKept
    BY <2>1, Parts DEF FamilyKept, EvpnKept, At
  <2> QED
    BY <2>3, <2>4, <2>5 DEF RtInv
<1>2. RtInv /\ [RtNext]_rtVars => RtInv'
  <2> SUFFICES ASSUME RtInv, [RtNext]_rtVars PROVE RtInv'
    OBVIOUS
  <2>1. CASE UNCHANGED rtVars
    <3>1. RtTypeOK' /\ ContextExists'
      BY <2>1 DEF rtVars, RtInv, RtTypeOK, IsStore, ContextExists, At
    <3>2. OspfKept' /\ IsisKept' /\ BgpKept' /\ FamilyKept' /\ EvpnKept'
      BY <2>1 DEF rtVars, RtInv, OspfKept, IsisKept, BgpKept, FamilyKept, EvpnKept, At
    <3> QED
      BY <3>1, <3>2 DEF RtInv
  <2>2. CASE RtNext
    BY <2>2, ViewStep, OspfStep, IsisStep, BgpStep, UndoBgpStep, FamilyStep, InstanceStep, DomainStep, PolicyStep
    DEF RtNext, IgpNext, BgpNext, EvpnNext
  <2> QED
    BY <2>1, <2>2
<1>3. RtInv => RoutingCoherent
  BY KeptRebuilds
<1> QED
  BY <1>1, <1>2, <1>3, PTL DEF RtSpec

-----------------------------------------------------------------------------
(* Delay and loss of links.                                                *)

Settled     == [QPorts -> [Qualities -> Values \cup {NoSetting}]]
DocumentSet == [wired : SUBSET Wires, quality : [Wires -> [Qualities -> Nat]], kept : [QDevices -> Settled]]

QualityTypeOK ==
  /\ document \in DocumentSet
  /\ sessions \in [QDevices -> Settled] /\ cached \subseteq QDevices
  /\ step \in [QDevices -> {"idle", "begun", "copied", "ran"}]
  /\ registry \in [QDevices -> SUBSET QDevices]
  /\ copyOf \in [QDevices -> DocumentSet]
  /\ overtaken \subseteq Copied

\* While a command runs, no session is dropped: those it has seen are still there.
SessionsStay == \A d \in QDevices : ~Idle(d) => d \in registry[d] /\ registry[d] \subseteq cached

\* A copy that is not overtaken differs from the document in the quality of links only.
CopiesAreFresh ==
  \A d \in Copied \ overtaken : copyOf[d].wired = document.wired /\ copyOf[d].kept = document.kept

\* A link that is not there has no quality that the next one on its ports could inherit.
Clean(doc) == \A w \in Wires \ doc.wired : doc.quality[w] = Perfect

QualityMatches(doc) == \A w \in doc.wired \ doubtful : \A f \in Qualities : doc.quality[w][f] = Worse(w, f)

\* With no copy about, the document agrees with what is configured; with a single one that
\* is not overtaken, that copy does. Two copies at once leave all links in doubt in the
\* end, as the one that is stored last is overtaken.
QualityInv ==
  /\ QualityTypeOK /\ SessionsStay /\ CopiesAreFresh
  /\ Clean(document) /\ \A d \in QDevices : Clean(copyOf[d])
  /\ Copied = {} => QualityMatches(document)
  /\ \A d \in QDevices : Copied = {d} /\ overtaken = {} => QualityMatches(copyOf[d])

\* The ends of a link, and of what a level is the greatest.
LEMMA WireEnds ==
  ASSUME NEW w \in Wires, NEW e \in w
  PROVE  e[1] \in QDevices /\ e[2] \in QPorts /\ e = <<e[1], e[2]>>
BY WiresAssumption

\* Whatever is configured stays configured: so does the worse of two ends.
LEMMA WorseStays ==
  ASSUME NEW w \in Wires, NEW f, \A e \in w : Settings(e[1])'[e[2]][f] = Settings(e[1])[e[2]][f]
  PROVE  Worse(w, f)' = Worse(w, f)
<1> DEFINE levels == {Level(Settings(e[1])[e[2]][f]) : e \in w}
           after == {Level(Settings(e[1])'[e[2]][f]) : e \in w}
<1>1. after = levels
  OBVIOUS
<1>2. Worse(w, f) = Max({0} \cup levels) /\ Worse(w, f)' = Max({0} \cup after)
  BY DEF Worse, Level
<1> HIDE DEF levels, after
<1> QED
  BY <1>1, <1>2

\* The greatest of finitely many numbers is one of them.
LEMMA GreatestIn ==
  ASSUME NEW S, IsFiniteSet(S), S # {}, \A x \in S : x \in Nat
  PROVE  Max(S) \in S
<1> DEFINE back == [x \in S |-> 0 - x]
<1>1. \A x \in S : back[x] \in Int /\ back[x] = 0 - x
  OBVIOUS
<1> HIDE DEF back
<1>2. PICK x \in S : \A y \in S : back[x] <= back[y]
  BY <1>1, HasLeast
<1>3. \A y \in S : x >= y
  BY <1>1, <1>2
<1> QED
  BY <1>3 DEF Max

\* No level at all.
LEMMA GreatestOfZero == Max({0}) = 0
<1>1. IsFiniteSet({0})
  BY FS_Singleton
<1>2. Max({0}) \in {0}
  BY <1>1, GreatestIn
<1> QED
  BY <1>2

\* A session is found, or built from the document: what is configured stays.
LEMMA LoadKeeps ==
  ASSUME QualityTypeOK, NEW d \in QDevices, Load(d), UNCHANGED document
  PROVE  /\ \A e \in QDevices : Settings(e)' = Settings(e)
         /\ cached' = cached \cup {d} /\ cached' \subseteq QDevices
         /\ sessions' \in [QDevices -> Settled]
         /\ \A w \in Wires : \A f \in Qualities : Worse(w, f)' = Worse(w, f)
<1>1. \A e \in QDevices : Settings(e)' = Settings(e)
  BY DEF QualityTypeOK, Load, Settings
<1>2. cached' = cached \cup {d} /\ sessions' \in [QDevices -> Settled]
  BY DEF QualityTypeOK, Load, DocumentSet
<1>3. ASSUME NEW w \in Wires, NEW f \in Qualities PROVE Worse(w, f)' = Worse(w, f)
  BY <1>1, WireEnds, WorseStays
<1> QED
  BY <1>1, <1>2, <1>3 DEF QualityTypeOK

\* A command begins, or a session is built for something else.
LEMMA LoadStep ==
  ASSUME QualityInv, NEW d \in QDevices, BeginCommand(d) \/ LoadSession(d)
  PROVE  QualityInv'
<1>0. QualityTypeOK /\ SessionsStay /\ CopiesAreFresh
  BY DEF QualityInv
<1>1. Load(d) /\ UNCHANGED <<document, copyOf, overtaken, doubtful>>
  BY DEF BeginCommand, LoadSession
<1>2. /\ cached' = cached \cup {d} /\ cached' \subseteq QDevices
      /\ sessions' \in [QDevices -> Settled]
      /\ \A w \in Wires : \A f \in Qualities : Worse(w, f)' = Worse(w, f)
  BY <1>0, <1>1, LoadKeeps
<1>3. /\ step' \in [QDevices -> {"idle", "begun", "copied", "ran"}]
      /\ registry' \in [QDevices -> SUBSET QDevices]
      /\ Copied' = Copied
      /\ \A e \in QDevices : ~Idle(e)' => e \in registry'[e] /\ registry'[e] \subseteq cached'
  <2>1. CASE BeginCommand(d)
    BY <1>0, <1>2, <2>1 DEF BeginCommand, QualityTypeOK, SessionsStay, Idle, Goes, Copied
  <2>2. CASE LoadSession(d)
    BY <1>0, <1>2, <2>2 DEF LoadSession, QualityTypeOK, SessionsStay, Idle, Copied
  <2> QED
    BY <2>1, <2>2
<1>4. QualityTypeOK' /\ SessionsStay' /\ CopiesAreFresh'
  BY <1>0, <1>1, <1>2, <1>3 DEF QualityTypeOK, SessionsStay, CopiesAreFresh
<1>5. ASSUME NEW doc \in DocumentSet, QualityMatches(doc) PROVE \A w \in doc.wired \ doubtful' : \A f \in Qualities : doc.quality[w][f] = Worse(w, f)'
  BY <1>1, <1>2, <1>5 DEF QualityMatches, DocumentSet
<1>6. document \in DocumentSet /\ \A e \in QDevices : copyOf[e] \in DocumentSet
  BY <1>0 DEF QualityTypeOK
<1>7. Copied' = {} => QualityMatches(document)'
  BY <1>1, <1>3, <1>5, <1>6 DEF QualityInv, QualityMatches
<1>8. \A e \in QDevices : Copied' = {e} /\ overtaken' = {} => QualityMatches(copyOf[e])'
  BY <1>1, <1>3, <1>5, <1>6 DEF QualityInv, QualityMatches
<1>9. Clean(document)' /\ \A e \in QDevices : Clean(copyOf[e])'
  BY <1>1 DEF QualityInv, Clean
<1> QED
  BY <1>4, <1>7, <1>8, <1>9 DEF QualityInv

\* The document is copied.
LEMMA CopyStep ==
  ASSUME QualityInv, NEW d \in QDevices, CopyDocument(d) \/ RunOther(d)
  PROVE  QualityInv'
<1>0. QualityTypeOK /\ SessionsStay /\ CopiesAreFresh
  BY DEF QualityInv
<1>1. CASE CopyDocument(d)
  <2>1. /\ UNCHANGED <<document, sessions, cached, registry, doubtful>>
        /\ copyOf' = [copyOf EXCEPT ![d] = document] /\ overtaken' = overtaken \ {d}
        /\ step' = [step EXCEPT ![d] = "copied"] /\ step[d] = "begun"
    BY <1>1 DEF CopyDocument, Goes
  <2>2. Copied' = Copied \cup {d} /\ d \notin Copied
    BY <1>0, <2>1 DEF QualityTypeOK, Copied
  <2>3. QualityTypeOK'
    BY <1>0, <2>1, <2>2 DEF QualityTypeOK
  <2>4. SessionsStay' /\ CopiesAreFresh'
    BY <1>0, <2>1, <2>2 DEF QualityTypeOK, SessionsStay, CopiesAreFresh, Idle
  <2>5. \A e \in QDevices : Copied' = {e} => e = d /\ Copied = {}
    BY <2>2
  <2>6. QualityMatches(document) => QualityMatches(copyOf[d])'
    BY <1>0, <2>1 DEF QualityTypeOK, QualityMatches, Worse, Settings
  <2>7. Clean(document)' /\ \A e \in QDevices : Clean(copyOf[e])'
    BY <1>0, <2>1 DEF QualityInv, QualityTypeOK, Clean
  <2> QED
    BY <2>2, <2>3, <2>4, <2>5, <2>6, <2>7 DEF QualityInv
<1>2. CASE RunOther(d)
  <2>1. /\ UNCHANGED <<document, sessions, cached, registry, copyOf, overtaken, doubtful>>
        /\ step' = [step EXCEPT ![d] = "ran"] /\ step[d] = "copied"
    BY <1>2 DEF RunOther, Goes
  <2>2. Copied' = Copied
    BY <1>0, <2>1 DEF QualityTypeOK, Copied
  <2>3. QualityTypeOK' /\ SessionsStay' /\ CopiesAreFresh'
    BY <1>0, <2>1, <2>2 DEF QualityTypeOK, SessionsStay, CopiesAreFresh, Idle
  <2> QED
    BY <2>1, <2>2, <2>3 DEF QualityInv, QualityMatches, Worse, Settings, Clean
<1> QED
  BY <1>1, <1>2

\* What is configured at one end changes: the link there gets the worse of its ends when
\* both are known, and is in doubt when not; no other link has that end.
LEMMA RunStep ==
  ASSUME QualityInv, NEW d \in QDevices, NEW p \in QPorts, NEW q \in Qualities, NEW v \in {NoSetting} \cup Values,
         RunQuality(d, p, q, v)
  PROVE  QualityInv'
<1> DEFINE doc     == copyOf[d]
           synced  == LinksAt(doc, d, p)
           certain == {w \in synced : \A e \in w : e[1] \in registry[d] \/ Settings(e[1]) = Unused}
           new     == [w \in Wires |-> IF w \in synced THEN Effective(w, d, registry[d]) ELSE doc.quality[w]]
<1>0. QualityTypeOK /\ SessionsStay /\ CopiesAreFresh
  BY DEF QualityInv
<1>1. /\ step[d] = "copied" /\ step' = [step EXCEPT ![d] = "ran"]
      /\ sessions' = [sessions EXCEPT ![d][p][q] = v]
      /\ copyOf' = [copyOf EXCEPT ![d].quality = new]
      /\ doubtful' = (doubtful \ certain) \cup (synced \ certain)
      /\ UNCHANGED <<document, cached, registry, overtaken>>
  BY DEF RunQuality, Goes
<1>2. doc \in DocumentSet /\ d \in registry[d] /\ registry[d] \subseteq cached /\ Copied' = Copied /\ d \in Copied
  BY <1>0, <1>1 DEF QualityTypeOK, SessionsStay, Idle, Copied
<1>3. /\ sessions' \in [QDevices -> Settled]
      /\ \A e \in QDevices \ {d} : sessions'[e] = sessions[e]
      /\ \A r \in QPorts \ {p} : sessions'[d][r] = sessions[d][r]
  BY <1>0, <1>1 DEF QualityTypeOK, Settled
<1>4. ASSUME NEW w \in Wires
      PROVE  /\ Effective(w, d, registry[d]) \in [Qualities -> Nat]
             /\ w \in certain => \A f \in Qualities : Effective(w, d, registry[d])[f] = Worse(w, f)'
  <2> DEFINE known(f) == {Level(sessions'[e[1]][e[2]][f]) : e \in {x \in w : x[1] \in registry[d]}}
             every(f) == {Level(Settings(e[1])'[e[2]][f]) : e \in w}
  <2>1. Effective(w, d, registry[d]) = [f \in Qualities |-> Max({0} \cup known(f))]
    BY DEF Effective
  <2>2. ASSUME NEW f \in Qualities PROVE Worse(w, f)' = Max({0} \cup every(f))
    BY DEF Worse, Level
  <2>3. ASSUME NEW f \in Qualities PROVE Max({0} \cup known(f)) \in Nat
    <3>1. \A e \in w : Level(sessions'[e[1]][e[2]][f]) \in Nat
      <4> SUFFICES ASSUME NEW e \in w PROVE Level(sessions'[e[1]][e[2]][f]) \in Nat
        OBVIOUS
      <4>1. sessions'[e[1]][e[2]][f] \in Values \cup {NoSetting}
        BY <1>3, WireEnds DEF Settled
      <4> QED
        BY <4>1, WiresAssumption DEF Level
    <3>2. IsFiniteSet({x \in w : x[1] \in registry[d]})
      BY WiresAssumption, FS_Subset
    <3>3. IsFiniteSet(known(f))
      <4> DEFINE ends == {x \in w : x[1] \in registry[d]}
                 level == [e \in ends |-> Level(sessions'[e[1]][e[2]][f])]
      <4>1. level \in Surjection(ends, known(f))
        BY DEF Surjection
      <4> QED
        BY <3>2, <4>1, FS_Surjection
    <3>4. IsFiniteSet({0} \cup known(f))
      BY <3>3, FS_Singleton, FS_Union
    <3>5. \A x \in {0} \cup known(f) : x \in Nat
      BY <3>1
    <3> HIDE DEF known
    <3> QED
      BY <3>4, <3>5, GreatestIn
  <2>4. ASSUME w \in certain, NEW f \in Qualities PROVE {0} \cup known(f) = {0} \cup every(f)
    <3>1. ASSUME NEW e \in w, e[1] \in registry[d] PROVE Settings(e[1])' = sessions'[e[1]]
      BY <1>1, <1>2, <3>1 DEF Settings
    <3>2. ASSUME NEW e \in w, e[1] \notin registry[d] PROVE Level(Settings(e[1])'[e[2]][f]) = 0
      <4>1. Settings(e[1]) = Unused /\ e[1] # d /\ e[1] \in QDevices /\ e[2] \in QPorts
        BY <1>2, <2>4, <3>2, WireEnds
      <4>2. Settings(e[1])' = Unused
        BY <1>1, <1>3, <4>1 DEF Settings
      <4> QED
        BY <4>1, <4>2 DEF Unused, Level
    <3> QED
      BY <3>1, <3>2
  <2> HIDE DEF known, every
  <2> QED
    BY <2>1, <2>2, <2>3, <2>4
<1> HIDE DEF certain
<1>5. new \in [Wires -> [Qualities -> Nat]] /\ certain \subseteq synced /\ synced \subseteq doc.wired
  BY <1>2, <1>4 DEF DocumentSet, LinksAt, certain
<1> HIDE DEF new
<1>6. /\ copyOf'[d] \in DocumentSet /\ copyOf'[d].wired = doc.wired /\ copyOf'[d].kept = doc.kept
      /\ copyOf'[d].quality = new
      /\ \A e \in QDevices \ {d} : copyOf'[e] = copyOf[e]
      /\ copyOf' \in [QDevices -> DocumentSet]
  BY <1>0, <1>1, <1>5 DEF QualityTypeOK, DocumentSet
<1>7. QualityTypeOK'
  BY <1>0, <1>1, <1>2, <1>3, <1>6 DEF QualityTypeOK
<1>8. SessionsStay' /\ CopiesAreFresh'
  BY <1>0, <1>1, <1>2, <1>6 DEF QualityTypeOK, SessionsStay, CopiesAreFresh, Idle
<1>9. Clean(document)' /\ \A e \in QDevices : Clean(copyOf[e])'
  BY <1>1, <1>5, <1>6 DEF QualityInv, Clean, new
<1>10. ASSUME QualityMatches(doc), NEW w \in doc.wired \ doubtful', NEW f \in Qualities PROVE new[w][f] = Worse(w, f)'
  <2>1. w \in Wires
    BY <1>2 DEF DocumentSet
  <2>2. CASE w \in synced
    BY <1>1, <1>4, <1>10, <2>1, <2>2 DEF new
  <2>3. CASE w \notin synced
    <3>1. w \notin doubtful
      BY <1>1, <1>5, <1>10, <2>3
    <3>2. ASSUME NEW e \in w PROVE Settings(e[1])'[e[2]][f] = Settings(e[1])[e[2]][f]
      <4>1. e[1] # d \/ e[2] # p
        BY <2>1, <2>3, WireEnds DEF LinksAt
      <4> QED
        BY <1>1, <1>3, <2>1, <4>1, WireEnds DEF Settings
    <3>3. Worse(w, f)' = Worse(w, f)
      BY <2>1, <3>2, WorseStays
    <3> QED
      BY <1>10, <2>1, <2>3, <3>1, <3>3 DEF QualityMatches, new
  <2> QED
    BY <2>2, <2>3
<1>11. QualityMatches(doc) => QualityMatches(copyOf[d])'
  BY <1>6, <1>10 DEF QualityMatches
<1>12. \A e \in QDevices : Copied' = {e} /\ overtaken' = {} => QualityMatches(copyOf[e])'
  BY <1>1, <1>2, <1>11 DEF QualityInv
<1> QED
  BY <1>2, <1>7, <1>8, <1>9, <1>12 DEF QualityInv

\* The copy is stored: what others have copied is overtaken, and so is what they store.
LEMMA SaveStep ==
  ASSUME QualityInv, NEW d \in QDevices, SaveCommand(d)
  PROVE  QualityInv'
<1>0. QualityTypeOK /\ SessionsStay /\ CopiesAreFresh
  BY DEF QualityInv
<1>1. /\ step[d] = "ran" /\ step' = [step EXCEPT ![d] = "idle"]
      /\ document' = [copyOf[d] EXCEPT !.kept = [@ EXCEPT ![d] = sessions[d]]]
      /\ overtaken' = Copied \ {d}
      /\ doubtful' = IF d \in overtaken THEN Wires ELSE doubtful
      /\ registry' = [registry EXCEPT ![d] = {}] /\ copyOf' = [copyOf EXCEPT ![d] = NoCopy]
      /\ UNCHANGED <<sessions, cached>>
  BY DEF SaveCommand, Goes
<1>2. Copied' = Copied \ {d} /\ d \in Copied /\ d \in cached
  BY <1>0, <1>1 DEF QualityTypeOK, SessionsStay, Copied, Idle
<1>3. /\ document' \in DocumentSet /\ document'.wired = copyOf[d].wired /\ document'.quality = copyOf[d].quality
      /\ document'.kept[d] = sessions[d] /\ \A e \in QDevices \ {d} : document'.kept[e] = copyOf[d].kept[e]
  <2>1. copyOf[d] \in DocumentSet /\ sessions[d] \in Settled
    BY <1>0 DEF QualityTypeOK
  <2> QED
    BY <1>1, <2>1 DEF DocumentSet
<1>4. NoCopy \in DocumentSet /\ Clean(NoCopy)
  <2>1. Unused \in Settled /\ Perfect \in [Qualities -> Nat]
    BY DEF Unused, Settled, Perfect
  <2> QED
    BY <2>1 DEF NoCopy, DocumentSet, Clean
<1>5. QualityTypeOK'
  BY <1>0, <1>1, <1>2, <1>3, <1>4 DEF QualityTypeOK
<1>6. SessionsStay' /\ CopiesAreFresh'
  BY <1>0, <1>1, <1>2 DEF QualityTypeOK, SessionsStay, CopiesAreFresh, Idle
<1>7. Clean(document)' /\ \A e \in QDevices : Clean(copyOf[e])'
  BY <1>0, <1>1, <1>3, <1>4 DEF QualityInv, QualityTypeOK, Clean
<1>8. ASSUME Copied' = {}, d \notin overtaken, NEW w \in document'.wired \ doubtful', NEW f \in Qualities
      PROVE  document'.quality[w][f] = Worse(w, f)'
  <2>1. Copied = {d} /\ overtaken = {} /\ QualityMatches(copyOf[d])
    BY <1>0, <1>2, <1>8 DEF QualityInv, QualityTypeOK
  <2>2. w \in Wires /\ w \in copyOf[d].wired \ doubtful
    BY <1>1, <1>3, <1>8 DEF DocumentSet
  <2>3. \A e \in QDevices : Settings(e)' = Settings(e)
    BY <1>0, <1>1, <1>2, <1>3, <1>8 DEF Settings, CopiesAreFresh
  <2>4. Worse(w, f)' = Worse(w, f)
    BY <2>2, <2>3, WireEnds, WorseStays
  <2> QED
    BY <1>3, <2>1, <2>2, <2>4 DEF QualityMatches
<1>9. Copied' = {} => QualityMatches(document)'
  BY <1>1, <1>3, <1>8 DEF QualityMatches, DocumentSet
<1>10. \A e \in QDevices : Copied' = {e} => overtaken' # {}
  BY <1>1, <1>2
<1> QED
  BY <1>5, <1>6, <1>7, <1>9, <1>10 DEF QualityInv

\* Handlers that write the document leave the sessions alone.
LEMMA EditStep ==
  ASSUME QualityInv, NEW w \in Wires,
         \/ RemoveLink(w) \/ PlugLink(w)
         \/ \E f \in Qualities, v \in Values : SetLinkDelay(w, f, v)
  PROVE  QualityInv'
<1>0. QualityTypeOK /\ SessionsStay /\ CopiesAreFresh /\ document \in DocumentSet
  BY DEF QualityInv, QualityTypeOK
<1>1. /\ overtaken' = Copied
      /\ UNCHANGED <<sessions, cached, step, registry, copyOf>>
  BY DEF RemoveLink, PlugLink, SetLinkDelay, Overtakes
<1>2. Copied' = Copied
  BY <1>1 DEF Copied
<1>3. Perfect \in [Qualities -> Nat] /\ Values \subseteq Nat
  BY WiresAssumption DEF Perfect
<1>4. /\ document' \in DocumentSet /\ document'.kept = document.kept
      /\ \A x \in Wires \ {w} : document'.quality[x] = document.quality[x]
      /\ document'.wired \in {document.wired \cup {w}, document.wired \ {w}}
      /\ w \notin document'.wired => document'.quality[w] = Perfect
  <2>1. CASE RemoveLink(w)
    BY <1>0, <1>3, <2>1 DEF RemoveLink, DocumentSet
  <2>2. CASE PlugLink(w)
    BY <1>0, <2>2 DEF PlugLink, DocumentSet
  <2>3. ASSUME NEW f \in Qualities, NEW v \in Values, SetLinkDelay(w, f, v) PROVE <1>4!:
    <3> DEFINE q == [document.quality EXCEPT ![w] = [@ EXCEPT ![f] = v]]
    <3>1. document' = [document EXCEPT !.quality = q] /\ w \in document.wired
      BY <2>3 DEF SetLinkDelay
    <3>2. q \in [Wires -> [Qualities -> Nat]] /\ (\A x \in Wires \ {w} : q[x] = document.quality[x])
      BY <1>0, <1>3 DEF DocumentSet
    <3> HIDE DEF q
    <3>3. document' \in DocumentSet /\ document'.kept = document.kept /\ document'.quality = q /\ document'.wired = document.wired
      BY <1>0, <3>1, <3>2 DEF DocumentSet
    <3> QED
      BY <1>0, <3>1, <3>2, <3>3 DEF DocumentSet
  <2> QED
    BY <2>1, <2>2, <2>3
<1>5. QualityTypeOK' /\ SessionsStay' /\ CopiesAreFresh'
  BY <1>0, <1>1, <1>2, <1>4 DEF QualityTypeOK, SessionsStay, CopiesAreFresh, Idle
<1>6. Clean(document)' /\ \A e \in QDevices : Clean(copyOf[e])'
  BY <1>1, <1>4 DEF QualityInv, Clean
<1>7. \A x \in Wires : \A f \in Qualities : Worse(x, f)' = Worse(x, f)
  <2>1. \A e \in QDevices : Settings(e)' = Settings(e)
    BY <1>1, <1>4 DEF Settings
  <2> QED
    BY <2>1, WireEnds, WorseStays
<1>8. /\ \A x \in Wires \ {w} : x \notin doubtful' => x \notin doubtful
      /\ w \in document'.wired \ doubtful' =>
           PlugLink(w) /\ \A e \in w : Settings(e[1])[e[2]] = Unused[e[2]]
  BY <1>0 DEF RemoveLink, PlugLink, SetLinkDelay, DocumentSet
<1>9. ASSUME Copied = {}, NEW x \in document'.wired \ doubtful', NEW f \in Qualities
      PROVE  document'.quality[x][f] = Worse(x, f)'
  <2>1. x \in Wires /\ QualityMatches(document)
    BY <1>4, <1>9 DEF QualityInv, DocumentSet
  <2>2. CASE x # w
    BY <1>4, <1>7, <1>8, <1>9, <2>1, <2>2 DEF QualityMatches
  <2>3. CASE x = w
    <3>1. document'.quality[w] = Perfect
      BY <1>0, <1>8, <1>9, <2>3 DEF PlugLink, QualityInv, Clean, DocumentSet
    <3>2. \A e \in w : Level(Settings(e[1])[e[2]][f]) = 0
      BY <1>8, <1>9, <2>3, WireEnds DEF Unused, Level
    <3>3. {0} \cup {Level(Settings(e[1])[e[2]][f]) : e \in w} = {0}
      BY <3>2
    <3>4. Max({0}) = 0
      BY GreatestOfZero
    <3> QED
      BY <1>7, <2>1, <2>3, <3>1, <3>3, <3>4 DEF Worse, Perfect
  <2> QED
    BY <2>2, <2>3
<1>10. Copied' = {} => QualityMatches(document)'
  BY <1>2, <1>9 DEF QualityMatches
<1>11. \A e \in QDevices : Copied' = {e} => overtaken' # {}
  BY <1>1, <1>2
<1> QED
  BY <1>5, <1>6, <1>10, <1>11 DEF QualityInv

\* A session is dropped: the links of a device whose session had more than the document
\* are in doubt.
LEMMA DropStep ==
  ASSUME QualityInv, NEW d \in QDevices, DropSession(d)
  PROVE  QualityInv'
<1>0. QualityTypeOK /\ SessionsStay /\ CopiesAreFresh /\ document \in DocumentSet
  BY DEF QualityInv, QualityTypeOK
<1>1. /\ d \in cached /\ cached' = cached \ {d}
      /\ sessions' = [sessions EXCEPT ![d] = Unused]
      /\ doubtful' = IF sessions[d] = document.kept[d] THEN doubtful ELSE doubtful \cup LinksOf(document, d)
      /\ UNCHANGED <<document, step, registry, copyOf, overtaken>>
      /\ \A e \in QDevices : step[e] = "idle"
  BY DEF DropSession, Resting, Idle
<1>2. Copied = {} /\ Copied' = {}
  BY <1>1 DEF Copied
<1>3. Unused \in Settled
  BY DEF Unused, Settled
<1>4. QualityTypeOK' /\ SessionsStay' /\ CopiesAreFresh'
  BY <1>0, <1>1, <1>2, <1>3 DEF QualityTypeOK, SessionsStay, CopiesAreFresh, Idle
<1>5. Clean(document)' /\ \A e \in QDevices : Clean(copyOf[e])'
  BY <1>1 DEF QualityInv, Clean
<1>6. ASSUME NEW w \in document.wired \ doubtful', NEW f \in Qualities
      PROVE  document.quality[w][f] = Worse(w, f)'
  <2>1. w \in Wires /\ w \notin doubtful /\ QualityMatches(document)
    BY <1>0, <1>1, <1>2, <1>6 DEF QualityInv, DocumentSet
  <2>2. ASSUME NEW e \in w PROVE Settings(e[1])' = Settings(e[1])
    <3>1. e[1] \in QDevices /\ e[2] \in QPorts /\ e = <<e[1], e[2]>>
      BY <2>1, WireEnds
    <3>2. CASE e[1] # d
      BY <1>0, <1>1, <3>1, <3>2 DEF Settings, QualityTypeOK
    <3>3. CASE e[1] = d
      <4>1. w \in LinksOf(document, d)
        BY <1>6, <3>1, <3>3 DEF LinksOf, LinksAt
      <4> QED
        BY <1>1, <1>6, <3>3, <4>1 DEF Settings
    <3> QED
      BY <3>2, <3>3
  <2>3. Worse(w, f)' = Worse(w, f)
    BY <2>1, <2>2, WorseStays
  <2> QED
    BY <1>6, <2>1, <2>3 DEF QualityMatches
<1>7. QualityMatches(document)'
  BY <1>1, <1>6 DEF QualityMatches
<1> QED
  BY <1>2, <1>4, <1>5, <1>7 DEF QualityInv

\* Between commands a link has the worse quality of its two ends, but where a command was
\* overtaken, an end was not known, the delay was set at the link, or the link came to
\* ports that were configured (link_quality_sync.go).
THEOREM QualityStaysRight == QualitySpec => []QualityAgrees
<1>1. QualityInit => QualityInv
  <2> SUFFICES ASSUME QualityInit PROVE QualityInv
    OBVIOUS
  <2>1. Unused \in Settled /\ Perfect \in [Qualities -> Nat]
    BY DEF Unused, Settled, Perfect
  <2>2. /\ NoCopy \in DocumentSet /\ Clean(NoCopy) /\ document \in DocumentSet
        /\ document.wired = Wires /\ document.quality = [w \in Wires |-> Perfect]
        /\ document.kept = [e \in QDevices |-> Unused]
    BY <2>1 DEF QualityInit, NoCopy, DocumentSet, Clean
  <2>3. Copied = {} /\ \A e \in QDevices : Idle(e)
    BY DEF QualityInit, Copied, Idle
  <2>4. QualityTypeOK /\ SessionsStay /\ CopiesAreFresh
    BY <2>1, <2>2, <2>3 DEF QualityInit, QualityTypeOK, SessionsStay, CopiesAreFresh
  <2>5. ASSUME NEW w \in Wires, NEW f \in Qualities PROVE document.quality[w][f] = Worse(w, f)
    <3>1. \A e \in w : Level(Settings(e[1])[e[2]][f]) = 0
      BY <2>2, WireEnds DEF QualityInit, Settings, Unused, Level
    <3>2. {0} \cup {Level(Settings(e[1])[e[2]][f]) : e \in w} = {0}
      BY <3>1
    <3>3. Max({0}) = 0
      BY GreatestOfZero
    <3>4. document.quality[w][f] = 0
      BY <2>2 DEF Perfect
    <3> QED
      BY <3>2, <3>3, <3>4 DEF Worse
  <2>6. QualityMatches(document) /\ Clean(document)
    BY <2>2, <2>5 DEF QualityMatches, Clean
  <2> QED
    BY <2>2, <2>3, <2>4, <2>6 DEF QualityInit, QualityInv
<1>2. QualityInv /\ [QualityNext]_qVars => QualityInv'
  <2> SUFFICES ASSUME QualityInv, [QualityNext]_qVars PROVE QualityInv'
    OBVIOUS
  <2>1. CASE UNCHANGED qVars
    BY <2>1 DEF qVars, QualityInv, QualityTypeOK, SessionsStay, CopiesAreFresh, Clean, QualityMatches, Worse, Settings,
                Copied, Idle
  <2>2. CASE QualityNext
    BY <2>2, LoadStep, CopyStep, RunStep, SaveStep, EditStep, DropStep DEF QualityNext
  <2> QED
    BY <2>1, <2>2
<1>3. QualityInv => QualityAgrees
  BY DEF QualityInv, QualityAgrees, Resting, Copied, Idle, QualityMatches
<1> QED
  BY <1>1, <1>2, <1>3, PTL DEF QualitySpec

-----------------------------------------------------------------------------
(* Filters.                                                                *)

AclRules == [id : Nat \cup RuleIds, action : RuleActions, src : SrcAddresses \cup {NoAddress},
             wildcard : Wildcards \cup {NoWildcard}]

AclInv ==
  /\ AclTypeOK
  /\ \A n \in DOMAIN acls : acls[n] \in Seq(AclRules)
  /\ nat \in [enabled : BOOLEAN, pools : SUBSET Pools, outbound : Seq(AclNames \X Pools), servers : 0 .. MaxRules]

\* How many bits of a wildcard are zero when its k last bits are set and no others.
LEMMA ContiguousMask ==
  ASSUME NEW k \in 0 .. AddressBits
  PROVE  wildcardToMask(2^k - 1) = AddressBits - k
<1>1. AddressBits \in Nat /\ k \in Nat /\ Bits = 0 .. AddressBits - 1
  BY AddressBitsAssumption DEF Bits
<1>2. \A i \in Bits : ((2^k - 1) \div 2^i) % 2 = IF i < k THEN 1 ELSE 0
  <2> SUFFICES ASSUME NEW i \in Bits PROVE ((2^k - 1) \div 2^i) % 2 = IF i < k THEN 1 ELSE 0
    OBVIOUS
  <2>1. i \in Nat
    BY <1>1
  <2> QED
    BY <1>1, <2>1, OnesBits
<1>3. {i \in Bits : ((2^k - 1) \div 2^i) % 2 = 0} = k .. AddressBits - 1
  <2>1. \A i \in Bits : ((2^k - 1) \div 2^i) % 2 = 0 <=> i >= k
    BY <1>1, <1>2
  <2>2. \A i \in k .. AddressBits - 1 : i \in Bits /\ i >= k
    BY <1>1
  <2>3. \A i \in Bits : i >= k => i \in k .. AddressBits - 1
    BY <1>1
  <2> HIDE DEF Bits
  <2> QED
    BY <2>1, <2>2, <2>3
<1>4. Cardinality(k .. AddressBits - 1) = AddressBits - k
  <2>1. k \in Int /\ AddressBits - 1 \in Int
    BY <1>1
  <2>2. Cardinality(k .. AddressBits - 1) = IF k > AddressBits - 1 THEN 0 ELSE AddressBits - 1 - k + 1
    BY <2>1, FS_Interval
  <2> QED
    BY <1>1, <2>2
<1> QED
  BY <1>3, <1>4 DEF wildcardToMask

\* What a rule with a contiguous wildcard matches agrees with its address bit by bit.
LEMMA MatchesWhatAgrees ==
  ASSUME NEW rule \in AclRules, Contiguous(rule), NEW ip \in IPs
  PROVE  matchACLRule(rule, ip) <=> Agrees(ip, rule)
<1>1. PICK w \in Nat : w = AddressBits
  BY AddressBitsAssumption
<1>2. PICK k \in 0 .. w : rule.wildcard = 2^k - 1
  BY <1>1 DEF Contiguous
<1>3. rule.src # NoAddress /\ rule.src \in 0 .. 2^w - 1 /\ ip \in 0 .. 2^w - 1
  BY <1>1, AddressBitsAssumption DEF Contiguous, AclRules, IPs
<1>4. rule.wildcard # NoWildcard
  <2>1. 2^k \in Nat \ {0} /\ 2^w \in Nat \ {0} /\ 2^k <= 2^w
    BY <1>1, TwoToNext, TwoToGrows
  <2>2. 2^k - 1 \in 0 .. 2^w - 1
    BY <2>1
  <2> QED
    BY <1>1, <1>2, <2>2, AddressBitsAssumption
<1>5. wildcardToMask(rule.wildcard) = w - k
  BY <1>1, <1>2, ContiguousMask
<1>6. w - (w - k) = k
  OBVIOUS
<1>7. matchACLRule(rule, ip) <=> ip \div 2^k = rule.src \div 2^k
  BY <1>1, <1>3, <1>4, <1>5, <1>6 DEF matchACLRule, matchIP, Network
<1>8. ip \div 2^k = rule.src \div 2^k <=> \A i \in k .. w - 1 : (ip \div 2^i) % 2 = (rule.src \div 2^i) % 2
  BY <1>1, <1>3, SameBits, ZenonT(40)
<1>9. Agrees(ip, rule) <=> \A i \in k .. w - 1 : (ip \div 2^i) % 2 = (rule.src \div 2^i) % 2
  <2>1. \A i \in Bits : i \in Nat /\ (i \in k .. w - 1 <=> ~ (i < k))
    BY <1>1 DEF Bits
  <2>2. \A i \in Bits : ((2^k - 1) \div 2^i) % 2 = 0 <=> i \in k .. w - 1
    <3> SUFFICES ASSUME NEW i \in Bits PROVE ((2^k - 1) \div 2^i) % 2 = 0 <=> i \in k .. w - 1
      OBVIOUS
    <3>0. k \in Nat /\ i \in Nat
      BY <1>2, <2>1
    <3>1. ((2^k - 1) \div 2^i) % 2 = IF i < k THEN 1 ELSE 0
      BY <3>0, OnesBits
    <3> QED
      BY <2>1, <3>1
  <2>3. \A i \in k .. w - 1 : i \in Bits
    BY <1>1 DEF Bits
  <2> QED
    BY <1>2, <2>2, <2>3 DEF Agrees, Bit
<1> QED
  BY <1>7, <1>8, <1>9

\* The filters mean what their rules say, bit by bit.
LEMMA AclRulesMean == ASSUME AclInv PROVE RulesMeanBits
<1> SUFFICES ASSUME NEW f \in filters, {g \in filters : g[1] = f[1]} = {f}, NEW rules, rules = RulesOf(acls, f[2]),
                    \A i \in DOMAIN rules : Contiguous(rules[i]), NEW ip \in IPs
             PROVE  EvaluateDeviceACL(acls, filters, f[1], ip) = {"permit"} <=>
                      \E i \in DOMAIN rules : Agrees(ip, rules[i]) /\ rules[i].action = "permit" /\ i = FirstAgreeing(rules, ip)
  BY ZenonT(40) DEF RulesMeanBits
<1>1. rules \in Seq(AclRules)
  BY EmptySeq DEF AclInv, RulesOf
<1>2. PICK n \in Nat : n = Len(rules) /\ DOMAIN rules = 1 .. n
  BY <1>1, LenProperties
<1>3. \A i \in DOMAIN rules : rules[i] \in AclRules
  BY <1>1, <1>2, ElementOfSeq
<1>4. EvaluateDeviceACL(acls, filters, f[1], ip) = {Verdict(rules, ip)}
  <2>1. {h[2] : h \in {g \in filters : g[1] = f[1]}} = {f[2]}
    OBVIOUS
  <2> QED
    BY <2>1 DEF EvaluateDeviceACL
<1>5. PICK all : all = {i \in DOMAIN rules : rules[i].action # "other" /\ Agrees(ip, rules[i])}
  OBVIOUS
<1>6. {i \in DOMAIN rules : rules[i].action \in {"permit", "deny"} /\ matchACLRule(rules[i], ip)} = all
  <2>1. \A i \in DOMAIN rules : /\ rules[i].action # "other" <=> rules[i].action \in {"permit", "deny"}
                                /\ matchACLRule(rules[i], ip) <=> Agrees(ip, rules[i])
    BY <1>3, MatchesWhatAgrees DEF AclRules, RuleActions
  <2> QED
    BY <1>5, <2>1
<1>7. PICK first : first = CHOOSE i \in all : \A j \in all : i <= j
  OBVIOUS
<1>8. FirstAgreeing(rules, ip) = first
  BY <1>5, <1>7 DEF FirstAgreeing
<1>9. Verdict(rules, ip) = IF all = {} THEN "deny" ELSE rules[first].action
  <2> DEFINE deciding == {i \in DOMAIN rules : rules[i].action \in {"permit", "deny"} /\ matchACLRule(rules[i], ip)}
  <2>1. Verdict(rules, ip) = IF deciding = {} THEN "deny" ELSE rules[CHOOSE i \in deciding : \A j \in deciding : i <= j].action
    BY DEF Verdict
  <2>2. deciding = all
    BY <1>6
  <2> HIDE DEF deciding
  <2> QED
    BY <1>7, <2>1, <2>2
<1>10. ASSUME all # {} PROVE first \in all
  <2>1. all \subseteq 1 .. n
    BY <1>2, <1>5
  <2>2. \E i \in all : \A j \in all : i <= j
    BY <1>10, <2>1, HasFirst
  <2> QED
    BY <1>7, <2>2
<1>11. \A i \in DOMAIN rules : Agrees(ip, rules[i]) /\ rules[i].action = "permit" => i \in all
  BY <1>5
<1>12. first \in all => first \in DOMAIN rules /\ Agrees(ip, rules[first])
  BY <1>5
<1>13. {Verdict(rules, ip)} = {"permit"} <=> Verdict(rules, ip) = "permit"
  OBVIOUS
<1> QED
  BY <1>4, <1>8, <1>9, <1>10, <1>11, <1>12, <1>13

\* A device that has forgotten its rules refuses whatever a filter is about.
LEMMA RestartRefuses == RestartNeverOpens
<1>1. DOMAIN <<>> = {}
  OBVIOUS
<1>2. \A ip : Verdict(<<>>, ip) = "deny"
  <2> SUFFICES ASSUME NEW ip PROVE Verdict(<<>>, ip) = "deny"
    OBVIOUS
  <2>1. {i \in DOMAIN <<>> : <<>>[i].action \in {"permit", "deny"} /\ matchACLRule(<<>>[i], ip)} = {}
    BY <1>1
  <2> QED
    BY <2>1 DEF Verdict
<1>3. \A acl : RulesOf(<<>>, acl) = <<>>
  BY <1>1 DEF RulesOf
<1> SUFFICES ASSUME NEW f \in Directions \X IPs, EvaluateDeviceACL(<<>>, filters, f[1], f[2]) = {"permit"}
             PROVE  EvaluateDeviceACL(acls, filters, f[1], f[2]) = {"permit"}
  BY DEF RestartNeverOpens, Permitted
<1> DEFINE names == {h[2] : h \in {g \in filters : g[1] = f[1]}}
<1>4. CASE names = {}
  BY <1>4 DEF EvaluateDeviceACL
<1>5. CASE names # {}
  <2>1. EvaluateDeviceACL(<<>>, filters, f[1], f[2]) = {Verdict(RulesOf(<<>>, acl), f[2]) : acl \in names}
    BY <1>5 DEF EvaluateDeviceACL
  <2>2. "deny" \in EvaluateDeviceACL(<<>>, filters, f[1], f[2])
    <3>1. PICK acl \in names : TRUE
      BY <1>5
    <3>2. Verdict(RulesOf(<<>>, acl), f[2]) = "deny"
      BY <1>2, <1>3
    <3> HIDE DEF names
    <3> QED
      BY <2>1, <3>1, <3>2
  <2> QED
    BY <2>2
<1> QED
  BY <1>4, <1>5

\* The rules of an ACL are set.
LEMMA SetAclKeeps ==
  ASSUME \A n \in DOMAIN acls : acls[n] \in Seq(AclRules), NEW acl \in AclNames, NEW rules \in Seq(AclRules),
         DOMAIN acls \subseteq AclNames, SetAcl(acl, rules)
  PROVE  /\ DOMAIN acls' = DOMAIN acls \cup {acl} /\ DOMAIN acls' \subseteq AclNames
         /\ \A n \in DOMAIN acls' : acls'[n] \in Seq(AclRules)
BY DEF SetAcl

\* Every command keeps the rules what they are.
LEMMA AclKept == AclInv /\ [AclNext]_aclVars => AclInv'
<1> SUFFICES ASSUME AclInv, [AclNext]_aclVars PROVE AclInv'
  OBVIOUS
<1> DEFINE Nats == [enabled : BOOLEAN, pools : SUBSET Pools, outbound : Seq(AclNames \X Pools), servers : 0 .. MaxRules]
<1>0. /\ DOMAIN acls \subseteq AclNames /\ aclView \in DOMAIN acls \cup {Closed}
      /\ filters \subseteq Directions \X AclNames /\ nat \in Nats
      /\ \A n \in DOMAIN acls : acls[n] \in Seq(AclRules)
  BY DEF AclInv, AclTypeOK
<1>1. \A acl : RulesOf(acls, acl) \in Seq(AclRules)
  <2>1. <<>> \in Seq(AclRules)
    BY EmptySeq
  <2> QED
    BY <1>0, <2>1 DEF RulesOf
<1>2. ASSUME NEW acl \in AclNames, NEW rules \in Seq(AclRules), SetAcl(acl, rules), UNCHANGED <<filters, nat>>,
             aclView' = acl
      PROVE  AclInv'
  <2>1. /\ DOMAIN acls' = DOMAIN acls \cup {acl} /\ DOMAIN acls' \subseteq AclNames
        /\ \A n \in DOMAIN acls' : acls'[n] \in Seq(AclRules)
    BY <1>0, <1>2, SetAclKeeps
  <2> QED
    BY <1>0, <1>2, <2>1 DEF AclInv, AclTypeOK
<1>3. ASSUME NEW t \in Nats, NatCommand(t) PROVE AclInv'
  <2>1. [t EXCEPT !.enabled = TRUE] \in Nats
    OBVIOUS
  <2> QED
    BY <1>0, <1>3, <2>1 DEF NatCommand, AclInv, AclTypeOK
<1>4. ASSUME LeaveAcl PROVE AclInv'
  BY <1>0, <1>4 DEF LeaveAcl, AclInv, AclTypeOK
<1>5. ASSUME NatServer PROVE AclInv'
  <2>1. [nat EXCEPT !.servers = @ + 1] \in Nats
    <3>1. nat.servers + 1 \in 0 .. MaxRules
      BY <1>0, <1>5, AddressBitsAssumption DEF NatServer
    <3> QED
      BY <1>0, <3>1
  <2>2. NatCommand([nat EXCEPT !.servers = @ + 1])
    BY <1>5 DEF NatServer
  <2> QED
    BY <1>3, <2>1, <2>2
<1>6. ASSUME AclRebuild PROVE AclInv'
  <2>1. NoNat \in Nats
    BY EmptySeq, AddressBitsAssumption DEF NoNat
  <2>2. DOMAIN <<>> = {}
    OBVIOUS
  <2> QED
    BY <1>0, <1>6, <2>1, <2>2 DEF AclRebuild, AclInv, AclTypeOK, NoNat
<1>7. ASSUME NEW acl \in AclNames, EnterAcl(acl) PROVE AclInv'
  BY <1>1, <1>2, <1>7 DEF EnterAcl
<1>8. ASSUME NEW acl \in AclNames, EnterNamedAcl(acl) PROVE AclInv'
  <2>1. Placeholder \in AclRules
    BY DEF Placeholder, AclRules, RuleActions
  <2>2. <<Placeholder>> \in Seq(AclRules)
    BY <2>1
  <2>3. RulesOf(acls, acl) # <<>> => acls[acl] \in Seq(AclRules)
    BY <1>0 DEF RulesOf
  <2>4. PICK rules \in Seq(AclRules) : rules = IF RulesOf(acls, acl) = <<>> THEN <<Placeholder>> ELSE acls[acl]
    BY <2>2, <2>3
  <2> QED
    BY <1>2, <1>8, <2>4 DEF EnterNamedAcl
<1>9. ASSUME NEW acl \in AclNames, UndoAcl(acl) PROVE AclInv'
  <2>1. /\ acls' = [n \in DOMAIN acls \ {acl} |-> acls[n]]
        /\ aclView = Closed /\ UNCHANGED <<aclView, filters, nat>>
    BY <1>9 DEF UndoAcl
  <2>2. DOMAIN acls' \subseteq AclNames /\ \A n \in DOMAIN acls' : acls'[n] \in Seq(AclRules)
    BY <1>0, <2>1
  <2> QED
    BY <1>0, <2>1, <2>2 DEF AclInv, AclTypeOK
<1>10. ASSUME NEW id \in RuleIds \cup {0}, NEW action \in RuleActions, NEW src \in SrcAddresses,
             NEW wildcard \in Wildcards \cup {NoWildcard}, AddRule(id, action, src, wildcard)
      PROVE  AclInv'
  <2>1. aclView \in DOMAIN acls /\ aclView \in AclNames
    BY <1>0, <1>10 DEF AddRule
  <2>2. PICK next : next = Len(acls[aclView]) * 10 + 10
    OBVIOUS
  <2>3. next \in Nat
    <3>1. Len(acls[aclView]) \in Nat
      BY <1>0, <2>1, LenProperties
    <3> QED
      BY <2>2, <3>1
  <2>4. PICK rule \in AclRules : rule = [id |-> IF id = 0 THEN next ELSE id, action |-> action, src |-> src, wildcard |-> wildcard]
    <3>1. PICK number \in Nat \cup RuleIds : number = IF id = 0 THEN next ELSE id
      BY <2>3
    <3>2. [id |-> number, action |-> action, src |-> src, wildcard |-> wildcard] \in AclRules
      BY DEF AclRules
    <3> QED
      BY <3>1, <3>2
  <2>5. SetAcl(aclView, Append(acls[aclView], rule)) /\ UNCHANGED <<aclView, filters, nat>>
    BY <1>10, <2>2, <2>4 DEF AddRule
  <2>6. Append(acls[aclView], rule) \in Seq(AclRules)
    BY <1>0, <2>1, AppendProperties
  <2> QED
    BY <1>2, <2>1, <2>5, <2>6
<1>11. ASSUME NEW direction \in Directions, NEW acl \in AclNames, ApplyFilter(direction, acl) PROVE AclInv'
  BY <1>0, <1>11 DEF ApplyFilter, AclInv, AclTypeOK
<1>12. ASSUME NEW pool \in Pools, NatAddressGroup(pool) PROVE AclInv'
  <2>1. PICK t : t = [nat EXCEPT !.pools = @ \cup {pool}]
    OBVIOUS
  <2>2. t \in Nats
    <3>1. nat.pools \cup {pool} \in SUBSET Pools
      BY <1>0
    <3>2. t = [enabled |-> nat.enabled, pools |-> nat.pools \cup {pool}, outbound |-> nat.outbound, servers |-> nat.servers]
      BY <1>0, <2>1
    <3> QED
      BY <1>0, <3>1, <3>2
  <2> QED
    BY <1>12, <1>3, <2>1, <2>2 DEF NatAddressGroup
<1>13. ASSUME NEW pool \in Pools, NEW acl \in AclNames, NatOutbound(acl, pool) PROVE AclInv'
  <2>1. Append(nat.outbound, <<acl, pool>>) \in Seq(AclNames \X Pools)
    BY <1>0, AppendProperties
  <2>2. [nat EXCEPT !.outbound = Append(@, <<acl, pool>>)] \in Nats
    BY <1>0, <2>1
  <2> QED
    BY <1>13, <1>3, <2>2 DEF NatOutbound
<1>14. ASSUME UNCHANGED aclVars PROVE AclInv'
  BY <1>0, <1>14 DEF aclVars, AclInv, AclTypeOK
<1> QED
  BY <1>4, <1>5, <1>6, <1>7, <1>8, <1>9, <1>10, <1>11, <1>12, <1>13, <1>14 DEF AclNext

\* A device begins without rules.
LEMMA AclInitSound == AclInit => AclInv
<1> SUFFICES ASSUME AclInit PROVE AclInv
  OBVIOUS
<1>1. DOMAIN <<>> = {} /\ <<>> \in Seq(AclNames \X Pools)
  BY EmptySeq
<1> QED
  BY <1>1, AddressBitsAssumption DEF AclInit, AclInv, AclTypeOK, NoNat

-----------------------------------------------------------------------------
(* Addresses.                                                              *)

HostTypes ==
  /\ host \in Endpoint /\ port \in Endpoint /\ inCache \in BOOLEAN /\ lagging \in BOOLEAN
  /\ hostKeys \in HostKeys /\ hostDoc \in NilOr(HostDocs)

\* The document is what the session was written to be, or the session was built from it;
\* the port has the address of the document.
HostInv ==
  /\ HostTypes
  /\ inCache => hostDoc = Serialized(host, hostKeys) \/ host = Built
  /\ ~lagging /\ hostDoc # Nil /\ hostDoc.ip # Nil =>
       port.ip = hostDoc.ip[1] /\ Stored(port.mask) = Stored(hostDoc.ip[2])

\* The mask that is stored is one that storing does not change.
LEMMA StoredOnce ==
  ASSUME NEW mask \in NilOr(Masks)
  PROVE  /\ Stored(mask) \in PlainMasks /\ Stored(mask) \in Masks /\ Stored(mask) # Nil
         /\ Stored(Stored(mask)) = Stored(mask)
BY MasksAssumption DEF Stored, NilOr

\* What a session is written to be is a configuration of the document, with the address
\* of the session if that has one.
LEMMA SerializedIs ==
  ASSUME NEW h \in Endpoint, NEW k \in HostKeys
  PROVE  /\ Serialized(h, k) \in HostDocs /\ Serialized(h, k) # Nil
         /\ Serialized(h, k).ip = IF h.ip # Nil THEN <<h.ip, Stored(h.mask)>> ELSE k.ip
         /\ Serialized(h, k).gateway = h.gateway
         /\ h.dns # Nil => Serialized(h, k).dns = h.dns
<1>1. h.ip \in NilOr(HostIPs) /\ h.mask \in NilOr(Masks) /\ h.gateway \in NilOr(Routers) /\ h.dns \in NilOr(Resolvers)
  BY DEF Endpoint
<1>2. Stored(h.mask) \in Masks
  BY <1>1, StoredOnce
<1>3. PICK a \in Addresses : a = IF h.ip # Nil THEN <<h.ip, Stored(h.mask)>> ELSE k.ip
  BY <1>1, <1>2 DEF Addresses, NilOr, HostKeys
<1>4. PICK d \in NilOr(Resolvers) : d = Preferred(h.dns, k.dns)
  BY <1>1 DEF Preferred, HostKeys
<1>5. Serialized(h, k) = [ip |-> a, dns |-> d, gateway |-> h.gateway]
  BY <1>3, <1>4 DEF Serialized
<1>6. Serialized(h, k) \in HostDocs
  BY <1>1, <1>5 DEF HostDocs
<1> QED
  BY <1>3, <1>4, <1>5, <1>6, MasksAssumption DEF Preferred

\* The session that is built from the document, or without an address there, from the port.
LEMMA BuiltIs ==
  ASSUME HostTypes
  PROVE  /\ Built \in Endpoint
         /\ hostDoc # Nil => Built.gateway = hostDoc.gateway /\ Built.dns = hostDoc.dns
         /\ hostDoc # Nil /\ hostDoc.ip # Nil => Built.ip = hostDoc.ip[1] /\ Built.mask = hostDoc.ip[2]
         /\ hostDoc = Nil \/ hostDoc.ip = Nil => Built.ip = port.ip /\ (port.ip # Nil => Built.mask = port.mask)
<1>1. PICK h : h = HostOf(hostDoc)
  OBVIOUS
<1>2. CASE hostDoc = Nil
  <2>1. h = Bare
    BY <1>1, <1>2 DEF HostOf
  <2>2. Built = IF port.ip # Nil THEN [Bare EXCEPT !.ip = port.ip, !.mask = Preferred(port.mask, @)] ELSE Bare
    BY <1>1, <2>1 DEF Built, Bare
  <2>3. port.ip \in NilOr(HostIPs) /\ port.mask \in NilOr(Masks)
    BY DEF HostTypes, Endpoint
  <2>4. Built = IF port.ip # Nil THEN [ip |-> port.ip, mask |-> port.mask, gateway |-> Nil, dns |-> Nil] ELSE Bare
    <3>1. PICK b : b = [ip |-> port.ip, mask |-> Nil, gateway |-> Nil, dns |-> Nil]
      OBVIOUS
    <3>2. [Bare EXCEPT !.ip = port.ip] = b
      BY <3>1 DEF Bare
    <3>3. [Bare EXCEPT !.ip = port.ip, !.mask = Preferred(port.mask, @)] = [b EXCEPT !.mask = Preferred(port.mask, @)]
      BY <3>2
    <3>4. Preferred(port.mask, b.mask) = port.mask
      BY <3>1 DEF Preferred
    <3> QED
      BY <2>2, <3>1, <3>3, <3>4
  <2> QED
    BY <1>2, <2>3, <2>4 DEF Endpoint, NilOr, Bare
<1>3. CASE hostDoc # Nil
  <2>1. hostDoc \in HostDocs
    BY <1>3 DEF HostTypes, NilOr
  <2>2. hostDoc.ip \in Addresses /\ hostDoc.dns \in NilOr(Resolvers) /\ hostDoc.gateway \in NilOr(Routers)
    BY <2>1 DEF HostDocs
  <2>3. h = [ip      |-> IF hostDoc.ip # Nil THEN hostDoc.ip[1] ELSE Nil,
             mask    |-> IF hostDoc.ip # Nil THEN hostDoc.ip[2] ELSE Nil,
             gateway |-> hostDoc.gateway,
             dns     |-> hostDoc.dns]
    BY <1>1, <1>3 DEF HostOf
  <2>4. Built = IF h.ip = Nil /\ port.ip # Nil THEN [h EXCEPT !.ip = port.ip, !.mask = Preferred(port.mask, @)] ELSE h
    BY <1>1 DEF Built
  <2>5. CASE hostDoc.ip # Nil
    <3>1. hostDoc.ip[1] \in HostIPs /\ hostDoc.ip[2] \in Masks /\ hostDoc.ip[1] # Nil
      BY <2>2, <2>5, MasksAssumption DEF Addresses
    <3>2. Built = [ip |-> hostDoc.ip[1], mask |-> hostDoc.ip[2], gateway |-> hostDoc.gateway, dns |-> hostDoc.dns]
      BY <2>3, <2>4, <2>5, <3>1
    <3> QED
      BY <1>3, <2>2, <2>5, <3>1, <3>2 DEF Endpoint, NilOr
  <2>6. CASE hostDoc.ip = Nil
    <3>1. port.ip \in NilOr(HostIPs) /\ port.mask \in NilOr(Masks)
      BY DEF HostTypes, Endpoint
    <3>2. h = [ip |-> Nil, mask |-> Nil, gateway |-> hostDoc.gateway, dns |-> hostDoc.dns]
      BY <2>3, <2>6
    <3>3. Built = IF port.ip # Nil THEN [ip |-> port.ip, mask |-> port.mask, gateway |-> hostDoc.gateway, dns |-> hostDoc.dns]
                  ELSE [ip |-> Nil, mask |-> Nil, gateway |-> hostDoc.gateway, dns |-> hostDoc.dns]
      <4>1. PICK b : b = [ip |-> port.ip, mask |-> Nil, gateway |-> hostDoc.gateway, dns |-> hostDoc.dns]
        OBVIOUS
      <4>2. [h EXCEPT !.ip = port.ip] = b
        BY <3>2, <4>1
      <4>3. [h EXCEPT !.ip = port.ip, !.mask = Preferred(port.mask, @)] = [b EXCEPT !.mask = Preferred(port.mask, @)]
        BY <4>2
      <4>4. Preferred(port.mask, b.mask) = port.mask
        BY <4>1 DEF Preferred
      <4> QED
        BY <2>4, <3>2, <4>1, <4>3, <4>4
    <3> QED
      BY <1>3, <2>2, <2>6, <3>1, <3>3 DEF Endpoint, NilOr
  <2> QED
    BY <2>5, <2>6
<1> QED
  BY <1>2, <1>3

\* A session that agrees with its document shows what it will show, and so does its port.
LEMMA HostAgrees == ASSUME HostInv PROVE HostCoherent
<1>0. HostTypes
  BY DEF HostInv
<1>1. HostTypeOK
  BY <1>0 DEF HostTypes, HostTypeOK
<1>2. ASSUME inCache, host.ip # Nil, hostDoc = Serialized(host, hostKeys)
      PROVE  /\ hostDoc # Nil /\ hostDoc.ip = <<host.ip, Stored(host.mask)>>
             /\ Built.ip = host.ip /\ Built.mask = Stored(host.mask)
             /\ Built.gateway = host.gateway /\ (host.dns # Nil => Built.dns = host.dns)
  <2>1. host \in Endpoint /\ hostKeys \in HostKeys
    BY <1>0 DEF HostTypes
  <2>2. /\ hostDoc # Nil /\ hostDoc.ip = <<host.ip, Stored(host.mask)>>
        /\ hostDoc.gateway = host.gateway /\ (host.dns # Nil => hostDoc.dns = host.dns)
    BY <1>2, <2>1, SerializedIs
  <2>3. hostDoc.ip # Nil
    <3>1. host.ip \in HostIPs /\ host.mask \in NilOr(Masks)
      BY <1>2, <2>1 DEF Endpoint, NilOr
    <3>2. Stored(host.mask) \in Masks
      BY <3>1, StoredOnce
    <3> QED
      BY <2>2, <3>1, <3>2, MasksAssumption
  <2> QED
    BY <1>0, <2>2, <2>3, BuiltIs
<1>3. host.mask \in NilOr(Masks) /\ Stored(host.mask) # Nil /\ Stored(Stored(host.mask)) = Stored(host.mask)
  <2>1. host.mask \in NilOr(Masks)
    BY <1>0 DEF HostTypes, Endpoint
  <2> QED
    BY <2>1, StoredOnce
<1>4. AddressSurvives
  <2> SUFFICES ASSUME inCache, host.ip # Nil
               PROVE  /\ Shown(Built, NoHostKeys)[1] = Shown(host, hostKeys)[1]
                      /\ Shown(Built, NoHostKeys)[2] \in {Shown(host, hostKeys)[2], Stored(host.mask)}
                      /\ Built.gateway = host.gateway
                      /\ host.dns # Nil => Built.dns = host.dns
    BY DEF AddressSurvives
  <2>1. CASE host = Built
    BY <2>1 DEF Shown
  <2>2. CASE hostDoc = Serialized(host, hostKeys)
    BY <1>2, <1>3, <2>2 DEF Shown, Preferred
  <2> QED
    BY <2>1, <2>2 DEF HostInv
<1>5. EngineHasAddress
  <2> SUFFICES ASSUME inCache, host.ip # Nil, ~lagging
               PROVE  port.ip = host.ip /\ Stored(port.mask) = Stored(host.mask)
    BY DEF EngineHasAddress
  <2>1. CASE host = Built
    <3>1. CASE hostDoc = Nil \/ hostDoc.ip = Nil
      BY <1>0, <2>1, <3>1, BuiltIs
    <3>2. CASE hostDoc # Nil /\ hostDoc.ip # Nil
      BY <1>0, <2>1, <3>2, BuiltIs DEF HostInv
    <3> QED
      BY <3>1, <3>2
  <2>2. CASE hostDoc = Serialized(host, hostKeys)
    <3>1. hostDoc # Nil /\ hostDoc.ip = <<host.ip, Stored(host.mask)>>
      BY <1>2, <2>2
    <3>2. hostDoc.ip # Nil
      <4>1. host.ip \in HostIPs /\ Stored(host.mask) \in Masks
        BY <1>0, <1>3, StoredOnce DEF HostTypes, Endpoint, NilOr
      <4> QED
        BY <3>1, <4>1, MasksAssumption
    <3> QED
      BY <1>3, <3>1, <3>2 DEF HostInv
  <2> QED
    BY <2>1, <2>2 DEF HostInv
<1> QED
  BY <1>1, <1>4, <1>5 DEF HostCoherent

\* A command writes the session into the document and, as far as it is set, to the port.
LEMMA CommandKeeps ==
  ASSUME HostInv, NEW h \in Endpoint, NEW k \in HostKeys, Command(h, k)
  PROVE  HostInv'
<1>0. HostTypes
  BY DEF HostInv
<1>1. /\ inCache /\ inCache' = inCache /\ host' = h /\ hostKeys' = k
      /\ hostDoc' = Serialized(h, k) /\ port' = Ported(h)
      /\ lagging' = IF h.ip = Nil THEN lagging \/ k.ip # Nil ELSE h.mask = Nil
  BY DEF Command
<1>2. port' = [ip |-> Preferred(h.ip, port.ip), mask |-> Preferred(h.mask, port.mask),
               gateway |-> Preferred(h.gateway, port.gateway), dns |-> Preferred(h.dns, port.dns)]
  BY <1>1 DEF Ported, Endpoint
<1>3. port' \in Endpoint
  BY <1>0, <1>2 DEF Preferred, HostTypes, Endpoint
<1>4. /\ hostDoc' \in HostDocs
      /\ hostDoc'.ip = IF h.ip # Nil THEN <<h.ip, Stored(h.mask)>> ELSE k.ip
  BY <1>1, SerializedIs
<1>5. HostTypes'
  <2>1. lagging' \in BOOLEAN
    <3>1. (h.mask = Nil) \in BOOLEAN /\ (lagging \/ k.ip # Nil) \in BOOLEAN
      OBVIOUS
    <3> QED
      BY <1>1, <3>1
  <2> QED
    BY <1>0, <1>1, <1>3, <1>4, <2>1 DEF HostTypes, NilOr
<1>6. hostDoc' = Serialized(host', hostKeys')
  BY <1>1
<1>7. ASSUME ~lagging', hostDoc'.ip # Nil
      PROVE  port'.ip = hostDoc'.ip[1] /\ Stored(port'.mask) = Stored(hostDoc'.ip[2])
  <2>1. h.ip # Nil /\ h.mask # Nil
    BY <1>1, <1>4, <1>7
  <2>2. port'.ip = h.ip /\ port'.mask = h.mask /\ hostDoc'.ip = <<h.ip, Stored(h.mask)>>
    BY <1>2, <1>4, <2>1 DEF Preferred
  <2>3. Stored(Stored(h.mask)) = Stored(h.mask)
    <3>1. h.mask \in NilOr(Masks)
      BY DEF Endpoint
    <3> QED
      BY <3>1, StoredOnce
  <2> QED
    BY <2>2, <2>3
<1>8. Serialized(host, hostKeys)' = Serialized(host', hostKeys')
  BY DEF Serialized, Preferred, Stored
<1>9. (Stored(port.mask))' = Stored(port'.mask) /\ (Stored(hostDoc.ip[2]))' = Stored(hostDoc'.ip[2])
  BY DEF Stored
<1> QED
  BY <1>5, <1>6, <1>7, <1>8, <1>9 DEF HostInv

\* Every step of a host keeps its addresses where they are.
LEMMA HostKept == HostInv /\ [HostNext]_hostVars => HostInv'
<1> SUFFICES ASSUME HostInv, [HostNext]_hostVars PROVE HostInv'
  OBVIOUS
<1>0. /\ HostTypes /\ host \in Endpoint /\ port \in Endpoint /\ hostKeys \in HostKeys
      /\ hostDoc \in NilOr(HostDocs) /\ lagging \in BOOLEAN /\ inCache \in BOOLEAN
  BY DEF HostInv, HostTypes
<1>1. ASSUME NEW h \in Endpoint, SetFields(h) PROVE HostInv'
  BY <1>0, <1>1, CommandKeeps DEF SetFields
<1>2. ASSUME NEW ip \in HostIPs, SetIPOnly(ip) PROVE HostInv'
  <2>1. [host EXCEPT !.ip = ip] \in Endpoint
    BY <1>0 DEF Endpoint, NilOr
  <2> QED
    BY <1>1, <1>2, <2>1 DEF SetIPOnly
<1>3. ASSUME NEW ip \in HostIPs, NEW mask \in Masks, SetAddress(ip, mask) PROVE HostInv'
  <2>1. [host EXCEPT !.ip = ip, !.mask = mask] \in Endpoint
    BY <1>0 DEF Endpoint, NilOr
  <2> QED
    BY <1>1, <1>3, <2>1 DEF SetAddress
<1>4. ASSUME Release PROVE HostInv'
  <2>1. [host EXCEPT !.ip = Nil, !.mask = Nil] \in Endpoint
    BY <1>0 DEF Endpoint, NilOr
  <2> QED
    BY <1>1, <1>4, <2>1 DEF Release
<1>5. ASSUME NEW gw \in Routers, SetGateway(gw) PROVE HostInv'
  <2>1. [host EXCEPT !.gateway = gw] \in Endpoint
    BY <1>0 DEF Endpoint, NilOr
  <2> QED
    BY <1>1, <1>5, <2>1 DEF SetGateway
<1>6. ASSUME NEW dns \in Resolvers, SetDns(dns) PROVE HostInv'
  <2>1. [host EXCEPT !.dns = dns] \in Endpoint
    BY <1>0 DEF Endpoint, NilOr
  <2> QED
    BY <1>1, <1>6, <2>1 DEF SetDns
<1>7. ASSUME ClearDns PROVE HostInv'
  <2>1. [host EXCEPT !.dns = Nil] \in Endpoint
    BY <1>0 DEF Endpoint, NilOr
  <2> QED
    BY <1>1, <1>7, <2>1 DEF ClearDns
<1>8. ASSUME NEW ip \in HostIPs, NEW mask \in Masks, AddAddress(ip, mask) PROVE HostInv'
  <2>1. [hostKeys EXCEPT !.ip = <<ip, mask>>] \in HostKeys
    BY <1>0 DEF HostKeys, Addresses
  <2> QED
    BY <1>0, <1>8, <2>1, CommandKeeps DEF AddAddress
<1>9. ASSUME DeleteAddress PROVE HostInv'
  <2>1. [hostKeys EXCEPT !.ip = Nil] \in HostKeys
    BY <1>0 DEF HostKeys, Addresses
  <2> QED
    BY <1>0, <1>9, <2>1, CommandKeeps DEF DeleteAddress
<1>10. ASSUME AnyOther PROVE HostInv'
  BY <1>0, <1>10, CommandKeeps DEF AnyOther
<1>11. ASSUME OpenHost PROVE HostInv'
  <2>1. /\ inCache' = TRUE /\ host' = Built /\ UNCHANGED <<hostDoc, port, lagging>>
        /\ hostKeys' = IF hostDoc = Nil THEN NoHostKeys ELSE [ip |-> hostDoc.ip, dns |-> hostDoc.dns]
    BY <1>11 DEF OpenHost
  <2>2. hostKeys' \in HostKeys
    BY <1>0, <2>1 DEF HostKeys, HostDocs, NilOr, NoHostKeys, Addresses
  <2>3. Built' = Built
    BY <2>1 DEF Built, HostOf, Bare, Preferred
  <2>4. HostTypes'
    BY <1>0, <2>1, <2>2, BuiltIs DEF HostTypes
  <2> QED
    BY <2>1, <2>3, <2>4 DEF HostInv, Stored
<1>12. Bare \in Endpoint /\ NoHostKeys \in HostKeys
  BY DEF Bare, Endpoint, NilOr, NoHostKeys, HostKeys, Addresses
<1>13. ASSUME CloseHost PROVE HostInv'
  <2>1. inCache' = FALSE /\ host' = Bare /\ hostKeys' = NoHostKeys /\ UNCHANGED <<hostDoc, port, lagging>>
    BY <1>13 DEF CloseHost
  <2>2. HostTypes'
    BY <1>0, <1>12, <2>1 DEF HostTypes
  <2> QED
    BY <2>1, <2>2 DEF HostInv, Stored
<1>14. ASSUME NEW ip \in HostIPs, NEW mask \in Masks, EditPort(ip, mask) PROVE HostInv'
  <2>1. /\ inCache' = FALSE /\ host' = Bare /\ hostKeys' = NoHostKeys /\ hostDoc' = hostDoc
        /\ port' = [port EXCEPT !.ip = ip, !.mask = mask]
        /\ lagging' = (lagging \/ (hostDoc # Nil /\ hostDoc.ip # Nil))
    BY <1>14 DEF EditPort
  <2>2. port' \in Endpoint
    BY <1>0, <2>1 DEF Endpoint, NilOr
  <2>3. HostTypes'
    <3>1. lagging' \in BOOLEAN
      BY <2>1
    <3> QED
      BY <1>0, <1>12, <2>1, <2>2, <3>1 DEF HostTypes
  <2> QED
    BY <2>1, <2>3 DEF HostInv
<1>15. ASSUME UNCHANGED hostVars PROVE HostInv'
  BY <1>15 DEF hostVars, HostInv, HostTypes, Serialized, Built, HostOf, Preferred, Stored
<1> QED
  BY <1>2, <1>3, <1>4, <1>5, <1>6, <1>7, <1>8, <1>9, <1>10, <1>11, <1>13, <1>14, <1>15 DEF HostNext

\* A host begins without a configuration, with or without an address at its port.
LEMMA HostInitSound == HostInit => HostInv
<1> SUFFICES ASSUME HostInit PROVE HostInv
  OBVIOUS
<1>1. Bare \in Endpoint /\ NoHostKeys \in HostKeys
  BY DEF Bare, Endpoint, NilOr, NoHostKeys, HostKeys, Addresses
<1>2. port \in Endpoint
  <2>1. UsualMask \in Masks
    BY MasksAssumption
  <2>2. \A ip \in HostIPs : [Bare EXCEPT !.ip = ip, !.mask = UsualMask] \in Endpoint
    BY <1>1, <2>1 DEF Endpoint, NilOr
  <2> QED
    BY <1>1, <2>2 DEF HostInit
<1>3. /\ host = Bare /\ hostKeys = NoHostKeys /\ inCache = FALSE
      /\ hostDoc = Nil /\ lagging = FALSE
  BY DEF HostInit
<1>4. HostTypes
  <2>1. hostDoc \in NilOr(HostDocs) /\ inCache \in BOOLEAN /\ lagging \in BOOLEAN
    BY <1>3 DEF NilOr
  <2> QED
    BY <1>1, <1>2, <1>3, <2>1 DEF HostTypes
<1> QED
  BY <1>3, <1>4 DEF HostInv

-----------------------------------------------------------------------------
(* Services.                                                               *)

SvcFields == {"entries", "on", "server", "lldp", "ssh", "login", "inbound", "domain", "groups", "group", "pools",
              "vni", "evpn", "vsis", "routed"}
KeyFields == {"apps", "preset", "instance", "gateway", "vteps", "ppp", "rip", "defined", "open"}

\* What is enabled now was enabled before; the views and the settings are as they should be.
SvcInv ==
  /\ SvcTypeOK /\ ServicesSound
  /\ DOMAIN svc = SvcFields /\ DOMAIN svcKeys = KeyFields /\ DOMAIN svc.entries = Gated
  /\ svc.evpn \in BOOLEAN /\ svcKeys.instance \in BOOLEAN
  /\ svc.on \cap Gated \subseteq wasOn

\* What the parts of the invariant that are about settings say of a session, its keys and
\* the features that were enabled.
SettingsSound(s, k, enabled) ==
  /\ DOMAIN s = SvcFields /\ DOMAIN k = KeyFields /\ DOMAIN s.entries = Gated
  /\ s.evpn \in BOOLEAN /\ k.instance \in BOOLEAN
  /\ s.on \subseteq Gated \cup Exporters \cup {"lldp", "dhcp", "vxlan"}
  /\ s.on \cap Gated \subseteq enabled
  /\ \A f \in Gated : s.entries[f] # {} => f \in enabled
  /\ s.group # NoService => s.group \in s.groups
  /\ s.evpn => k.instance

\* Settings are sound in the invariant.
LEMMA SettingsAre == SvcInv => SettingsSound(svc, svcKeys, wasOn)
BY DEF SvcInv, SvcTypeOK, ServicesSound, EntriesWereEnabled, SelectedExist, SettingsSound

\* A setting of the session that keeps settings sound and the pools there keeps the invariant.
LEMMA SettingKeeps ==
  ASSUME SvcInv, SettingsSound(svc, svcKeys, wasOn)', DOMAIN svc.pools \subseteq DOMAIN svc'.pools,
         asked => svcKeys' = svcKeys, KeepView, KeepSave
  PROVE  SvcInv'
<1>1. UNCHANGED <<view, sub, cameFrom, asked, startup, wasAsked>>
  BY DEF KeepView, KeepSave
<1>2. SvcTypeOK'
  BY <1>1 DEF SvcInv, SvcTypeOK, SettingsSound
<1>3. SavesWhatWasAsked' /\ QuitReturns' /\ ViewHasItem'
  BY <1>1 DEF SvcInv, ServicesSound, SavesWhatWasAsked, QuitReturns, ViewHasItem, Up
<1>4. EntriesWereEnabled' /\ SelectedExist'
  BY DEF SettingsSound, EntriesWereEnabled, SelectedExist
<1> QED
  BY <1>2, <1>3, <1>4 DEF SvcInv, ServicesSound, SettingsSound

\* A command of the system view, of a view or of one of its items keeps settings sound when
\* it changes one field that the invariant is not about.
LEMMA FieldKeeps ==
  ASSUME SvcInv, NEW v, NEW f \in {"server", "lldp", "ssh", "login", "inbound", "domain", "vni", "vsis", "routed"},
         NEW e, SetIn(v, [svc EXCEPT ![f] = e])
  PROVE  SvcInv'
<1>1. SettingsSound(svc, svcKeys, wasOn) /\ DOMAIN svc = SvcFields
  BY SettingsAre DEF SvcInv
<1>2. svc' = [svc EXCEPT ![f] = e] /\ UNCHANGED <<svcKeys, wasOn>> /\ KeepView /\ KeepSave
  BY DEF SetIn
<1>3. /\ DOMAIN svc' = SvcFields /\ svc'.entries = svc.entries /\ svc'.on = svc.on /\ svc'.evpn = svc.evpn
      /\ svc'.group = svc.group /\ svc'.groups = svc.groups /\ svc'.pools = svc.pools
  BY <1>1, <1>2 DEF SvcFields
<1>4. SettingsSound(svc, svcKeys, wasOn)'
  BY <1>1, <1>2, <1>3 DEF SettingsSound
<1> QED
  BY <1>2, <1>3, <1>4, SettingKeeps

\* A key that the invariant is not about.
LEMMA KeyKeeps ==
  ASSUME SvcInv, NEW v, NEW f \in KeyFields \ {"instance"}, NEW e, KeyIn(v, [svcKeys EXCEPT ![f] = e])
  PROVE  SvcInv'
<1>1. SettingsSound(svc, svcKeys, wasOn) /\ DOMAIN svcKeys = KeyFields
  BY SettingsAre DEF SvcInv
<1>2. svcKeys' = [svcKeys EXCEPT ![f] = e] /\ UNCHANGED <<svc, wasOn>> /\ KeepView /\ KeepSave /\ ~asked
  BY DEF KeyIn, Obeyed
<1>3. DOMAIN svcKeys' = KeyFields /\ svcKeys'.instance = svcKeys.instance
  BY <1>1, <1>2 DEF KeyFields
<1>4. SettingsSound(svc, svcKeys, wasOn)'
  BY <1>1, <1>2, <1>3 DEF SettingsSound
<1> QED
  BY <1>2, <1>4, SettingKeeps

\* Features are enabled and disabled, with what is enabled remembered.
LEMMA FeaturesKeep ==
  ASSUME SvcInv, NEW on, NEW server, NEW vni, NEW enabled,
         svc' = [svc EXCEPT !.on = on, !.server = server, !.vni = vni], wasOn' = enabled, svcKeys' = svcKeys,
         on \subseteq Gated \cup Exporters \cup {"lldp", "dhcp", "vxlan"}, on \cap Gated \subseteq enabled, wasOn \subseteq enabled,
         KeepView, KeepSave
  PROVE  SvcInv'
<1>1. SettingsSound(svc, svcKeys, wasOn) /\ DOMAIN svc = SvcFields
  BY SettingsAre DEF SvcInv
<1>2. /\ DOMAIN svc' = SvcFields /\ svc'.entries = svc.entries /\ svc'.on = on /\ svc'.evpn = svc.evpn
      /\ svc'.group = svc.group /\ svc'.groups = svc.groups /\ svc'.pools = svc.pools
  BY <1>1 DEF SvcFields
<1>3. SettingsSound(svc, svcKeys, wasOn)'
  BY <1>1, <1>2 DEF SettingsSound
<1> QED
  BY <1>2, <1>3, SettingKeeps

\* The settings keep the invariant.
LEMMA SettingsKept == SvcInv /\ SettingsNext => SvcInv'
<1> SUFFICES ASSUME SvcInv, SettingsNext PROVE SvcInv'
  OBVIOUS
<1>0. SettingsSound(svc, svcKeys, wasOn) /\ DOMAIN svc = SvcFields /\ DOMAIN svcKeys = KeyFields
  BY SettingsAre DEF SvcInv
<1>2. ASSUME NEW f \in Switchable, EnableFeature(f) PROVE SvcInv'
  <2>1. PICK on : on = svc.on \cup {f}
    OBVIOUS
  <2>2. on \subseteq Gated \cup Exporters \cup {"lldp", "dhcp", "vxlan"} /\ on \cap Gated \subseteq wasOn \cup {f}
    BY <1>0, <2>1 DEF SettingsSound, Switchable, Exporters
  <2>3. svc' = [svc EXCEPT !.on = on, !.server = svc.server, !.vni = svc.vni]
    BY <1>0, <1>2, <2>1 DEF EnableFeature, SvcFields
  <2>4. PICK enabled : enabled = wasOn \cup {f}
    OBVIOUS
  <2>5. wasOn' = enabled /\ svcKeys' = svcKeys /\ KeepView /\ KeepSave /\ wasOn \subseteq enabled
    BY <1>2, <2>4 DEF EnableFeature
  <2> QED
    BY <2>2, <2>3, <2>4, <2>5, FeaturesKeep
<1>3. ASSUME NEW f \in Switchable, DisableFeature(f) PROVE SvcInv'
  <2>1. PICK on : on = svc.on \ {f}
    OBVIOUS
  <2>2. on \subseteq Gated \cup Exporters \cup {"lldp", "dhcp", "vxlan"} /\ on \cap Gated \subseteq wasOn
    BY <1>0, <2>1 DEF SettingsSound
  <2>3. svc' = [svc EXCEPT !.on = on, !.server = svc.server, !.vni = svc.vni]
    BY <1>0, <1>3, <2>1 DEF DisableFeature, Set, SetIn, SvcFields
  <2>4. UNCHANGED <<svcKeys, wasOn>> /\ KeepView /\ KeepSave
    BY <1>3 DEF DisableFeature, Set, SetIn
  <2> QED
    BY <2>2, <2>3, <2>4, FeaturesKeep
<1>4. ASSUME NEW f \in Gated, NEW p \in SvcPorts, AddEntryTo(f, p) PROVE SvcInv'
  <2>1. f \in wasOn
    BY <1>0, <1>4 DEF AddEntryTo, SettingsSound
  <2>2. PICK entries : entries = [svc.entries EXCEPT ![f] = @ \cup {p}]
    OBVIOUS
  <2>3. svc' = [svc EXCEPT !.entries = entries] /\ UNCHANGED <<svcKeys, wasOn>> /\ KeepView /\ KeepSave
    BY <1>4, <2>2 DEF AddEntryTo, Set, SetIn
  <2>4. DOMAIN entries = Gated /\ \A g \in Gated : entries[g] # {} => g \in wasOn
    BY <1>0, <2>1, <2>2 DEF SettingsSound
  <2>5. /\ DOMAIN svc' = SvcFields /\ svc'.entries = entries /\ svc'.on = svc.on /\ svc'.evpn = svc.evpn
        /\ svc'.group = svc.group /\ svc'.groups = svc.groups /\ svc'.pools = svc.pools
    BY <1>0, <2>3 DEF SvcFields
  <2>6. SettingsSound(svc, svcKeys, wasOn)'
    BY <1>0, <2>3, <2>4, <2>5 DEF SettingsSound
  <2> QED
    BY <2>3, <2>5, <2>6, SettingKeeps
<1>5. ASSUME NEW e \in Exporters, NEW s \in SvcServers, SetServer(e, s) PROVE SvcInv'
  <2>1. PICK on : on = svc.on \cup {e}
    OBVIOUS
  <2>2. on \subseteq Gated \cup Exporters \cup {"lldp", "dhcp", "vxlan"} /\ on \cap Gated \subseteq wasOn
    BY <1>0, <2>1 DEF SettingsSound, Gated, Exporters
  <2>3. svc' = [svc EXCEPT !.on = on, !.server = [svc.server EXCEPT ![e] = s], !.vni = svc.vni]
    BY <1>0, <1>5, <2>1 DEF SetServer, Set, SetIn, SvcFields
  <2>4. UNCHANGED <<svcKeys, wasOn>> /\ KeepView /\ KeepSave
    BY <1>5 DEF SetServer, Set, SetIn
  <2> QED
    BY <2>2, <2>3, <2>4, FeaturesKeep
<1>6. ASSUME NEW v \in Vnis, SetVni(v) PROVE SvcInv'
  <2>1. PICK on : on = svc.on \cup {"vxlan"}
    OBVIOUS
  <2>2. on \subseteq Gated \cup Exporters \cup {"lldp", "dhcp", "vxlan"} /\ on \cap Gated \subseteq wasOn
    BY <1>0, <2>1 DEF SettingsSound, Gated, Exporters
  <2>3. svc' = [svc EXCEPT !.on = on, !.server = svc.server, !.vni = v]
    BY <1>0, <1>6, <2>1 DEF SetVni, Set, SetIn, SvcFields
  <2>4. UNCHANGED <<svcKeys, wasOn>> /\ KeepView /\ KeepSave
    BY <1>6 DEF SetVni, Set, SetIn
  <2> QED
    BY <2>2, <2>3, <2>4, FeaturesKeep
<1>7. ASSUME NEW g \in Groups, NEW to \in {svc.group, g},
             svc' = [svc EXCEPT !.groups = @ \cup {g}, !.group = to], UNCHANGED <<svcKeys, wasOn>>, KeepView, KeepSave
      PROVE  SvcInv'
  <2>1. /\ DOMAIN svc' = SvcFields /\ svc'.entries = svc.entries /\ svc'.on = svc.on /\ svc'.evpn = svc.evpn
        /\ svc'.group = to /\ svc'.groups = svc.groups \cup {g} /\ svc'.pools = svc.pools
    BY <1>0, <1>7 DEF SvcFields
  <2>2. SettingsSound(svc, svcKeys, wasOn)'
    BY <1>0, <1>7, <2>1 DEF SettingsSound
  <2> QED
    BY <1>7, <2>1, <2>2, SettingKeeps
<1>8. ASSUME NEW g \in Groups, DfsGroup(g) PROVE SvcInv'
  BY <1>7, <1>8 DEF DfsGroup, Set, SetIn
<1>9. ASSUME NEW g \in Groups, DfsGroupSetting(g) PROVE SvcInv'
  <2>1. svc' = [svc EXCEPT !.groups = @ \cup {g}, !.group = svc.group]
    BY <1>0, <1>9 DEF DfsGroupSetting, Set, SetIn, SvcFields
  <2> QED
    BY <1>7, <1>9, <2>1 DEF DfsGroupSetting, Set, SetIn
<1>10. ASSUME NEW what \in {"gateway", "dns", "excluded", "network"}, PoolSetting(what) PROVE SvcInv'
  <2>1. PICK pools : pools = [svc.pools EXCEPT ![sub] = @ \cup {what}]
    OBVIOUS
  <2>2. svc' = [svc EXCEPT !.pools = pools] /\ UNCHANGED <<svcKeys, wasOn>> /\ KeepView /\ KeepSave
    BY <1>10, <2>1 DEF PoolSetting, SetIn
  <2>3. DOMAIN pools = DOMAIN svc.pools
    BY <2>1
  <2>4. /\ DOMAIN svc' = SvcFields /\ svc'.entries = svc.entries /\ svc'.on = svc.on /\ svc'.evpn = svc.evpn
        /\ svc'.group = svc.group /\ svc'.groups = svc.groups /\ svc'.pools = pools
    BY <1>0, <2>2 DEF SvcFields
  <2>5. SettingsSound(svc, svcKeys, wasOn)'
    BY <1>0, <2>2, <2>4 DEF SettingsSound
  <2> QED
    BY <2>2, <2>3, <2>4, <2>5, SettingKeeps
<1>11. ASSUME SetEvpnInstance PROVE SvcInv'
  <2>1. /\ svc' = [svc EXCEPT !.evpn = TRUE] /\ svcKeys' = [svcKeys EXCEPT !.instance = TRUE]
        /\ UNCHANGED wasOn /\ KeepView /\ KeepSave /\ ~asked
    BY <1>11 DEF SetEvpnInstance, Obeyed
  <2>2. /\ DOMAIN svc' = SvcFields /\ svc'.entries = svc.entries /\ svc'.on = svc.on /\ svc'.evpn = TRUE
        /\ svc'.group = svc.group /\ svc'.groups = svc.groups /\ svc'.pools = svc.pools
    BY <1>0, <2>1 DEF SvcFields
  <2>3. DOMAIN svcKeys' = KeyFields /\ svcKeys'.instance = TRUE
    BY <1>0, <2>1 DEF KeyFields
  <2>4. SettingsSound(svc, svcKeys, wasOn)'
    BY <1>0, <2>1, <2>2, <2>3 DEF SettingsSound
  <2> QED
    BY <2>1, <2>2, <2>4, SettingKeeps
<1>12. ASSUME NEW p \in SvcPorts, NEW on \in BOOLEAN, LldpOnPort(p, on) PROVE SvcInv'
  BY <1>12, FieldKeeps DEF LldpOnPort, Set
<1>13. ASSUME SshDisable PROVE SvcInv'
  BY <1>13, FieldKeeps DEF SshDisable, Set
<1>14. ASSUME NEW f, SshFeature(f) PROVE SvcInv'
  BY <1>14, FieldKeeps DEF SshFeature, Set
<1>15. ASSUME NEW m, SetLogin(m) PROVE SvcInv'
  BY <1>15, FieldKeeps DEF SetLogin
<1>16. ASSUME NEW what, SetInbound(what) PROVE SvcInv'
  BY <1>16, FieldKeeps DEF SetInbound
<1>17. ASSUME NEW v, AddVsi(v) PROVE SvcInv'
  BY <1>17, FieldKeeps DEF AddVsi, Set
<1>18. ASSUME AddPbr PROVE SvcInv'
  BY <1>18, FieldKeeps DEF AddPbr, Set
<1>19. ASSUME StartRip \/ DistributedGateway \/ Ppp PROVE SvcInv'
  BY <1>19, KeyKeeps DEF StartRip, DistributedGateway, Ppp, KeyFields
<1>20. ASSUME NEW a, ServerService(a) PROVE SvcInv'
  BY <1>20, KeyKeeps DEF ServerService, KeyFields
<1>21. ASSUME NEW s, RemoteVtep(s) PROVE SvcInv'
  BY <1>21, KeyKeeps DEF RemoteVtep, KeyFields
<1> QED
  BY <1>2, <1>3, <1>4, <1>5, <1>6, <1>8, <1>9, <1>10, <1>11, <1>12, <1>13, <1>14, <1>15, <1>16, <1>17, <1>18, <1>19, <1>20, <1>21
     DEF SettingsNext

\* A session that is built from its keys has settings that are sound, with nothing enabled
\* before.
LEMMA FreshSound ==
  ASSUME NEW k, DOMAIN k = KeyFields, k.instance \in BOOLEAN
  PROVE  SettingsSound(FromKeys(k), k, {})
<1>1. /\ DOMAIN Defaults = SvcFields /\ Defaults.entries = [f \in Gated |-> {}] /\ Defaults.on = {}
      /\ Defaults.group = NoService /\ Defaults.evpn = FALSE
  BY DEF Defaults, SvcFields
<1>2. PICK s : s = FromKeys(k)
  OBVIOUS
<1>3. /\ DOMAIN s = SvcFields /\ s.entries = [f \in Gated |-> {}] /\ s.on \subseteq {"vxlan"}
      /\ s.group = NoService /\ s.evpn = FALSE
  <2>1. s = IF k.preset = NoService THEN Defaults ELSE [Defaults EXCEPT !.on = {"vxlan"}, !.vni = k.preset]
    BY <1>2 DEF FromKeys
  <2> QED
    BY <1>1, <2>1 DEF SvcFields
<1> QED
  BY <1>2, <1>3 DEF SettingsSound, Gated

\* A step between views, which leaves what the settings say as it is.
LEMMA ViewKeeps ==
  ASSUME SvcInv, DOMAIN svc' = SvcFields, svc'.entries = svc.entries, svc'.on = svc.on, svc'.evpn = svc.evpn,
         svc'.group = svc.group, svc'.groups = svc.groups, UNCHANGED <<svcKeys, wasOn>>,
         view' \in {"user", "system", "vty", "interface", "mlag", "pool", "gap", "channel", "policy"},
         sub' \in SvcPorts \cup PoolNames \cup GapNumbers \cup {NoService},
         QuitReturns', ViewHasItem', SavesWhatWasAsked', asked' \in BOOLEAN
  PROVE  SvcInv'
<1>1. SvcTypeOK'
  BY DEF SvcInv, SvcTypeOK
<1>2. EntriesWereEnabled' /\ SelectedExist'
  BY DEF SvcInv, ServicesSound, EntriesWereEnabled, SelectedExist
<1> QED
  BY <1>1, <1>2 DEF SvcInv, ServicesSound

\* A view inside another is entered from it, and quit goes back to it.
LEMMA EnterKeeps ==
  ASSUME SvcInv, NEW from, NEW to \in {"vty", "interface", "mlag", "pool", "gap", "channel", "policy"},
         NEW name \in SvcPorts \cup PoolNames \cup GapNumbers \cup {NoService},
         from = IF to \in GapKinds THEN "gap" ELSE "system",
         to \in GapKinds => name \in GapNumbers, to = "interface" => name \in SvcPorts,
         to = "pool" => name \in DOMAIN svc'.pools,
         GoesFrom(from, to, name), KeepSave, UNCHANGED <<svcKeys, wasOn>>,
         DOMAIN svc' = SvcFields, svc'.entries = svc.entries, svc'.on = svc.on, svc'.evpn = svc.evpn,
         svc'.group = svc.group, svc'.groups = svc.groups
  PROVE  SvcInv'
<1>1. view' = to /\ sub' = name /\ cameFrom' = from /\ UNCHANGED <<asked, wasAsked>>
  BY DEF GoesFrom, KeepSave
<1>2. QuitReturns'
  BY <1>1 DEF QuitReturns, Up, Nested, GapKinds
<1>3. ViewHasItem'
  BY <1>1 DEF ViewHasItem, GapKinds
<1>4. SavesWhatWasAsked' /\ asked' \in BOOLEAN
  BY <1>1 DEF SvcInv, SvcTypeOK, ServicesSound, SavesWhatWasAsked
<1> QED
  BY <1>1, <1>2, <1>3, <1>4, ViewKeeps

\* The views, the question about saving and restarts keep the invariant.
LEMMA ViewsKept == SvcInv /\ ViewsNext => SvcInv'
<1> SUFFICES ASSUME SvcInv, ViewsNext PROVE SvcInv'
  OBVIOUS
<1>0. /\ SvcTypeOK /\ DOMAIN svc = SvcFields /\ DOMAIN svcKeys = KeyFields
      /\ SavesWhatWasAsked /\ QuitReturns /\ ViewHasItem
  BY DEF SvcInv, ServicesSound
<1>1. ASSUME GoToSystem PROVE SvcInv'
  <2>1. view' = "system" /\ cameFrom' = "user" /\ UNCHANGED <<sub, svc, svcKeys, wasOn, asked, wasAsked>>
    BY <1>1 DEF GoToSystem, KeepSave
  <2>2. QuitReturns' /\ ViewHasItem' /\ SavesWhatWasAsked'
    BY <1>0, <2>1 DEF QuitReturns, Up, Nested, ViewHasItem, GapKinds, SavesWhatWasAsked
  <2> QED
    BY <1>0, <2>1, <2>2, ViewKeeps DEF SvcTypeOK
<1>2. ASSUME GoUp PROVE SvcInv'
  <2>1. /\ view' = Up(view) /\ sub' = NoService /\ UNCHANGED <<svc, svcKeys, wasOn, asked, wasAsked>>
        /\ cameFrom' = IF view' = "gap" THEN "system" ELSE "user"
    BY <1>2 DEF GoUp, KeepSave
  <2>2. view' \in {"gap", "user", "system"}
    BY <1>0, <2>1 DEF Up, Nested, SvcTypeOK
  <2>3. QuitReturns' /\ ViewHasItem' /\ SavesWhatWasAsked'
    BY <1>0, <2>1, <2>2 DEF QuitReturns, Up, Nested, ViewHasItem, GapKinds, SavesWhatWasAsked
  <2> QED
    BY <1>0, <2>1, <2>2, <2>3, ViewKeeps DEF SvcTypeOK
<1>3. ASSUME GoToUser PROVE SvcInv'
  <2>1. view' = "user" /\ sub' = NoService /\ UNCHANGED <<svc, svcKeys, wasOn, asked, wasAsked>>
    BY <1>3 DEF GoToUser, KeepSave
  <2>2. QuitReturns' /\ ViewHasItem' /\ SavesWhatWasAsked'
    BY <1>0, <2>1 DEF QuitReturns, ViewHasItem, GapKinds, SavesWhatWasAsked
  <2> QED
    BY <1>0, <2>1, <2>2, ViewKeeps DEF SvcTypeOK
<1>4. ASSUME EnterVty PROVE SvcInv'
  BY <1>0, <1>4, EnterKeeps DEF EnterVty, GapKinds
<1>5. ASSUME EnterPortView PROVE SvcInv'
  BY <1>0, <1>5, EnterKeeps DEF EnterPortView, GapKinds
<1>6. ASSUME EnterGap PROVE SvcInv'
  BY <1>0, <1>6, EnterKeeps DEF EnterGap, GapKinds
<1>7. ASSUME NEW kind \in GapKinds, NEW n \in GapNumbers, EnterGapItem(kind, n) PROVE SvcInv'
  BY <1>0, <1>7, EnterKeeps DEF EnterGapItem, GapKinds
<1>8. ASSUME EnterMlag(1) PROVE SvcInv'
  <2>1. /\ DOMAIN svc' = SvcFields /\ svc'.entries = svc.entries /\ svc'.on = svc.on /\ svc'.evpn = svc.evpn
        /\ svc'.group = svc.group /\ svc'.groups = svc.groups
    BY <1>0, <1>8 DEF EnterMlag, SvcFields
  <2> QED
    BY <1>8, <2>1, EnterKeeps DEF EnterMlag, GapKinds
<1>9. ASSUME NEW name \in PoolNames, EnterPool(name) PROVE SvcInv'
  <2>1. /\ DOMAIN svc' = SvcFields /\ svc'.entries = svc.entries /\ svc'.on = svc.on /\ svc'.evpn = svc.evpn
        /\ svc'.group = svc.group /\ svc'.groups = svc.groups
    BY <1>0, <1>9 DEF EnterPool, SvcFields
  <2>2. name \in DOMAIN svc'.pools
    BY <1>0, <1>9 DEF EnterPool, SvcFields
  <2>3. GoesFrom("system", "pool", name) /\ KeepSave /\ UNCHANGED <<svcKeys, wasOn>>
    BY <1>9 DEF EnterPool
  <2> QED
    BY <2>1, <2>2, <2>3, EnterKeeps DEF GapKinds
<1>10. ASSUME NEW kind, DefineGap(kind) PROVE SvcInv'
  BY <1>10, KeyKeeps DEF DefineGap, KeyFields
<1>11. ASSUME NEW kind, NEW small, ToggleGap(kind, small) PROVE SvcInv'
  BY <1>11, KeyKeeps DEF ToggleGap, KeyFields
<1>12. ASSUME UNCHANGED <<svc, svcKeys, wasOn>>, KeepView, asked' \in BOOLEAN, asked' => svcKeys = wasAsked'
       PROVE  SvcInv'
  <2>1. UNCHANGED <<view, sub, cameFrom>>
    BY <1>12 DEF KeepView
  <2>2. QuitReturns' /\ ViewHasItem' /\ SavesWhatWasAsked'
    BY <1>0, <1>12, <2>1 DEF QuitReturns, Up, ViewHasItem, SavesWhatWasAsked
  <2> QED
    BY <1>0, <1>12, <2>1, <2>2, ViewKeeps DEF SvcTypeOK
<1>13. ASSUME AskToSave \/ Yes \/ No PROVE SvcInv'
  BY <1>12, <1>13 DEF AskToSave, Yes, No
<1>14. ASSUME ResetSaved PROVE SvcInv'
  BY <1>0, <1>12, <1>14 DEF ResetSaved, SavesWhatWasAsked, SvcTypeOK
<1>15. ASSUME SvcRebuild PROVE SvcInv'
  <2>1. /\ view' = "user" /\ sub' = NoService /\ asked' = FALSE /\ svc' = FromKeys(svcKeys) /\ wasOn' = {}
        /\ svcKeys' = svcKeys
    BY <1>15 DEF SvcRebuild
  <2>2. SettingsSound(FromKeys(svcKeys), svcKeys, {})
    BY <1>0, FreshSound DEF SvcInv
  <2>3. SvcTypeOK'
    BY <2>1, <2>2 DEF SvcTypeOK, SettingsSound
  <2>4. ServicesSound'
    BY <2>1, <2>2 DEF ServicesSound, SavesWhatWasAsked, QuitReturns, ViewHasItem, GapKinds, EntriesWereEnabled, SelectedExist,
                      SettingsSound
  <2> QED
    BY <2>1, <2>2, <2>3, <2>4 DEF SvcInv, SettingsSound
<1> QED
  BY <1>1, <1>2, <1>3, <1>4, <1>5, <1>6, <1>7, <1>8, <1>9, <1>10, <1>11, <1>13, <1>14, <1>15 DEF ViewsNext

\* The services of a new session are sound.
LEMMA SvcInitSound == SvcInit => SvcInv
<1> SUFFICES ASSUME SvcInit PROVE SvcInv
  OBVIOUS
<1>1. /\ view = "user" /\ sub = NoService /\ asked = FALSE /\ wasOn = {} /\ svc = FromKeys(svcKeys)
  BY DEF SvcInit
<1>2. DOMAIN svcKeys = KeyFields /\ svcKeys.instance = FALSE
  BY DEF SvcInit, NoSvcKeys, KeyFields
<1>3. SettingsSound(svc, svcKeys, wasOn)
  BY <1>1, <1>2, FreshSound
<1>4. SvcTypeOK
  BY <1>1, <1>3 DEF SvcTypeOK, SettingsSound
<1>5. ServicesSound
  BY <1>1, <1>3 DEF ServicesSound, SavesWhatWasAsked, QuitReturns, ViewHasItem, GapKinds, EntriesWereEnabled, SelectedExist,
                    SettingsSound
<1> QED
  BY <1>1, <1>2, <1>3, <1>4, <1>5 DEF SvcInv, SettingsSound

-----------------------------------------------------------------------------
(* Addresses, filters and services together.                               *)

\* A device keeps its addresses, its filters and its services coherent: what a host shows
\* is what its document and its port say, a filter passes what its rules permit bit by bit
\* and no more after a restart, and what quit returns to, what save writes and what is
\* selected is there.
THEOREM ServicesStaySound == ServicesSpec => []ServicesCoherent
<1>1. HostSpec => []HostCoherent
  BY HostInitSound, HostKept, HostAgrees, PTL DEF HostSpec
<1>2. AclSpec => []AclCoherent
  <2>1. AclInv => AclTypeOK
    BY DEF AclInv
  <2>2. AclInv => AclCoherent
    BY <2>1, AclRulesMean, RestartRefuses DEF AclCoherent
  <2> QED
    BY <2>2, AclInitSound, AclKept, PTL DEF AclSpec
<1>3. SvcSpec => [](SvcTypeOK /\ ServicesSound)
  <2>1. SvcInv => SvcTypeOK /\ ServicesSound
    BY DEF SvcInv
  <2>2. SvcInv /\ UNCHANGED svcVars => SvcInv'
    <3> SUFFICES ASSUME SvcInv, UNCHANGED svcVars PROVE SvcInv'
      OBVIOUS
    <3>1. UNCHANGED <<view, sub, asked, startup, svc, svcKeys, cameFrom, wasAsked, wasOn>>
      BY DEF svcVars
    <3> QED
      BY <3>1 DEF SvcInv, SvcTypeOK, ServicesSound, SavesWhatWasAsked, QuitReturns, Up, ViewHasItem, EntriesWereEnabled, SelectedExist
  <2>3. SvcInv /\ [ViewsNext \/ SettingsNext]_svcVars => SvcInv'
    BY <2>2, SettingsKept, ViewsKept
  <2> QED
    BY <2>1, <2>3, SvcInitSound, PTL DEF SvcSpec
<1>4. SvcTypeOK /\ HostCoherent /\ AclCoherent /\ ServicesSound <=> ServicesCoherent
  BY DEF ServicesCoherent
<1> QED
  BY <1>1, <1>2, <1>3, <1>4, PTL DEF ServicesSpec
=============================================================================
