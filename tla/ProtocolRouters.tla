---------------------------- MODULE ProtocolRouters ----------------------------
(***************************************************************************)
(* The settings of one device in ProtocolSimulator                         *)
(* (internal/protocol/protocol.go).  The map of routers is locked; what it *)
(* holds is not.  A call is a sequence of steps: "init" asks InitRouter    *)
(* for the router again and again, one field at a time, "get" looks it up, *)
(* and "held" goes on with the pointer that the call has.  RemoveRouter,   *)
(* which the server calls when a device is deleted, and other calls come   *)
(* between two steps.  A router that was removed lives on in the calls     *)
(* that hold it.                                                           *)
(***************************************************************************)
EXTENDS Integers, Sequences, FiniteSets

CONSTANTS
  Clients,           \* goroutines that call the simulator
  Settings,          \* configurations that a call gives
  Entries,           \* neighbours, sessions, tunnels, groups, ports ... of a feature
  Features,          \* the features that are modelled, one in a behaviour
  MaxGens, MaxCalls, \* bounds on routers created and on calls
  OctetBits,         \* bits of an octet; an address, a wildcard and a netmask have two
  Hosts, Metrics, MaxRules

ASSUME RoutersAssumption ==
  /\ MaxGens \in Nat \ {0} /\ {MaxCalls, MaxRules} \subseteq Nat
  /\ OctetBits \in Nat \ {0} /\ Hosts \subseteq 0..(2^(2 * OctetBits) - 1)
  /\ Metrics \subseteq Nat

VARIABLES
  feature,   \* which feature of the router the behaviour is about
  gen, cur,  \* routers created so far; the one in the map, 0 when there is none
  body,      \* router -> the feature's settings in it
  todo, held, copy,  \* client -> steps left, the router it holds, what it has read
  raced,     \* ghost: a step of one call came between two of another since the router was new
  panicked, calls,
  table      \* feature "acl": the rules of a list; else the routes of a router, in order

routerVars == <<feature, gen, cur, body, todo, held, copy, raced, panicked, calls, table>>

NoSetting == "default"
NoCopy    == [list |-> 0, domain |-> 0, master |-> FALSE]
NoEntry   == [there |-> FALSE, master |-> FALSE, says |-> FALSE]

\* What InitRouter puts into the map: SSH is enabled, nothing else is.  used is a ghost, the
\* feature has been enabled in this router; told, the length that a list should have.
NewBody ==
  [on |-> feature = "ssh", first |-> NoSetting, last |-> NoSetting, up |-> FALSE,
   entry |-> [e \in Entries |-> NoEntry], domain |-> 0, list |-> 0, told |-> 0, used |-> FALSE]

RoutersInit ==
  /\ feature \in Features
  /\ gen = 0 /\ cur = 0
  /\ body = [g \in 1..MaxGens |-> NewBody]
  /\ todo = [c \in Clients |-> <<>>] /\ held = [c \in Clients |-> 0] /\ copy = [c \in Clients |-> NoCopy]
  /\ raced = FALSE /\ panicked = FALSE /\ calls = 0 /\ table = <<>>

-----------------------------------------------------------------------------
(* Steps.                                                                  *)

Busy(c)   == todo[c] # <<>>
Quiet     == \A c \in Clients : ~ Busy(c)
InitThen(what, arg) == [via |-> "init", what |-> what, arg |-> arg]
GetThen(what, arg)  == [via |-> "get",  what |-> what, arg |-> arg]
HeldThen(what, arg) == [via |-> "held", what |-> what, arg |-> arg]
Ensure    == InitThen("nothing", 0)
Look      == GetThen("nothing", 0)

There(b) == {e \in Entries : b.entry[e].there}

\* A call ends early unless the condition that it reads holds.
GoesOn(b, s) ==
  CASE s.what = "ifOn"     -> b.on
    [] s.what = "ifThere"  -> b.entry[s.arg].there
    [] s.what = "ifEmpty"  -> There(b) = {}
    [] s.what = "ifDomain" -> b.domain # 0
    [] OTHER               -> TRUE

\* What a step writes into the router b it has; r is what the call read earlier.
Written(b, s, r) ==
  CASE s.what = "on"     -> [b EXCEPT !.on = TRUE, !.used = TRUE]
    [] s.what = "off"    -> [b EXCEPT !.on = FALSE]
    [] s.what = "first"  -> [b EXCEPT !.first = s.arg]
    [] s.what = "last"   -> [b EXCEPT !.last = s.arg]
    [] s.what = "up"     -> [b EXCEPT !.up = s.arg]
    [] s.what = "insert" -> [b EXCEPT !.entry[s.arg] = [NoEntry EXCEPT !.there = TRUE]]
    [] s.what = "master" -> [b EXCEPT !.entry[s.arg.e] = [there |-> TRUE, master |-> s.arg.high, says |-> TRUE]]
    [] s.what = "delete" -> [b EXCEPT !.entry[s.arg] = NoEntry]
    [] s.what = "flip"   -> [b EXCEPT !.entry[s.arg].master = ~ @]
    [] s.what = "says"   -> [b EXCEPT !.entry[s.arg].says = r.master]
    [] s.what = "domain" -> [b EXCEPT !.domain = calls, !.entry = [e \in Entries |-> NoEntry], !.list = 0, !.told = 0]
    [] s.what = "nil"    -> [b EXCEPT !.domain = 0, !.entry = [e \in Entries |-> NoEntry]]
    [] s.what = "append" -> [b EXCEPT !.list = IF b.domain = r.domain THEN r.list + 1 ELSE @, !.told = @ + 1]
    [] OTHER             -> b

Reads(b, s, r) ==
  CASE s.what = "copy" -> [NoCopy EXCEPT !.list = b.list, !.domain = b.domain]
    [] s.what = "peek" -> [NoCopy EXCEPT !.master = b.entry[s.arg].master]
    [] OTHER           -> r

\* Client c does its next step in router g, and holds h afterwards.
StepIn(c, g, h) ==
  LET s == Head(todo[c])
      on == g # 0 /\ GoesOn(body[g], s)
  IN /\ todo' = [todo EXCEPT ![c] = IF on THEN Tail(@) ELSE <<>>]
     /\ held' = [held EXCEPT ![c] = IF on /\ Len(todo[c]) > 1 THEN h ELSE 0]
     /\ body' = IF g = 0 THEN body ELSE [body EXCEPT ![g] = Written(@, s, copy[c])]
     /\ copy' = [copy EXCEPT ![c] = IF on /\ Len(todo[c]) > 1 THEN Reads(body[g], s, @) ELSE NoCopy]

\* InitRouter creates the router that is not there.
InitStep(c) ==
  LET g == IF cur = 0 THEN gen + 1 ELSE cur
  IN /\ Busy(c) /\ Head(todo[c]).via = "init" /\ g <= MaxGens
     /\ gen' = IF cur = 0 THEN g ELSE gen
     /\ cur' = g
     /\ StepIn(c, g, IF Head(todo[c]).what = "copy" THEN held[c] ELSE g)
     /\ UNCHANGED <<feature, raced, panicked, calls, table>>

\* getRouter
GetStep(c) ==
  /\ Busy(c) /\ Head(todo[c]).via = "get"
  /\ StepIn(c, cur, cur)
  /\ UNCHANGED <<feature, gen, cur, raced, panicked, calls, table>>

\* A domain that StopMLAG has taken away between the check and the use is a nil pointer.
HeldStep(c) ==
  /\ Busy(c) /\ Head(todo[c]).via = "held"
  /\ StepIn(c, held[c], held[c])
  /\ panicked' = (feature = "mlag" /\ Head(todo[c]).what \in {"insert", "up"} /\ body[held[c]].domain = 0)
  /\ UNCHANGED <<feature, gen, cur, raced, calls, table>>

\* The process ends with the panic and starts again.
RestartRouters ==
  /\ panicked
  /\ gen' = 0 /\ cur' = 0 /\ body' = [g \in 1..MaxGens |-> NewBody]
  /\ todo' = [c \in Clients |-> <<>>] /\ held' = [c \in Clients |-> 0] /\ copy' = [c \in Clients |-> NoCopy]
  /\ raced' = FALSE /\ panicked' = FALSE
  /\ UNCHANGED <<feature, calls, table>>

RemoveRouter ==
  /\ cur' = 0 /\ table' = <<>>
  /\ raced' = IF cur = 0 THEN raced ELSE ~ Quiet
  /\ UNCHANGED <<feature, gen, body, todo, held, copy, panicked, calls>>

Call(c, steps) ==
  /\ ~ Busy(c) /\ calls < MaxCalls
  /\ calls' = calls + 1
  /\ todo' = [todo EXCEPT ![c] = steps]
  /\ raced' = (raced \/ ~ Quiet)
  /\ UNCHANGED <<feature, gen, cur, body, held, copy, panicked, table>>

-----------------------------------------------------------------------------
(* Services: enabled and given their fields, one InitRouter for each.  The *)
(* fields between the first and the last add nothing to what may happen.   *)

Configure(v) == <<Ensure, InitThen("on", 0), InitThen("first", v), InitThen("last", v)>>
Disable      == <<Look, HeldThen("off", 0)>>

Given(c, f) == feature = f /\ \E v \in Settings : Call(c, Configure(v))
Ended(c, f) == feature = f /\ Call(c, Disable)

StartOSPF(c)        == Given(c, "ospf")
StopOSPF(c)         == Ended(c, "ospf")
ConfigureSNMP(c)    == Given(c, "snmp")
DisableSNMP(c)      == Ended(c, "snmp")
ConfigureSyslog(c)  == Given(c, "syslog")
DisableSyslog(c)    == Ended(c, "syslog")
ConfigureSSH(c)     == Given(c, "ssh")
DisableSSH(c)       == Ended(c, "ssh")
ConfigureRADIUS(c)  == Given(c, "radius")
DisableRADIUS(c)    == Ended(c, "radius")
ConfigureNetFlow(c) == Given(c, "netflow")
DisableNetFlow(c)   == Ended(c, "netflow")
ConfigureBGP(c)     == Given(c, "bgp")
DisableBGP(c)       == Ended(c, "bgp")

\* NTP is synchronized, VXLAN is up, as soon as it is configured.
ConfigureNTP(c) ==
  feature = "ntp" /\ \E v \in Settings :
    Call(c, <<Ensure, InitThen("on", 0), InitThen("first", v), InitThen("up", TRUE), InitThen("last", v)>>)
DisableNTP(c) == feature = "ntp" /\ Call(c, Disable \o <<HeldThen("up", FALSE)>>)
ConfigureVXLAN(c) == feature = "vxlan" /\ \E v \in Settings : Call(c, Configure(v) \o <<InitThen("up", TRUE)>>)
DisableVXLAN(c) == feature = "vxlan" /\ Call(c, Disable \o <<HeldThen("up", FALSE)>>)

ServiceCall(c) ==
  \/ StartOSPF(c) \/ StopOSPF(c) \/ ConfigureSNMP(c) \/ DisableSNMP(c)
  \/ ConfigureSyslog(c) \/ DisableSyslog(c) \/ ConfigureSSH(c) \/ DisableSSH(c)
  \/ ConfigureRADIUS(c) \/ DisableRADIUS(c) \/ ConfigureNetFlow(c) \/ DisableNetFlow(c)
  \/ ConfigureBGP(c) \/ DisableBGP(c)
  \/ ConfigureNTP(c) \/ DisableNTP(c) \/ ConfigureVXLAN(c) \/ DisableVXLAN(c)

-----------------------------------------------------------------------------
(* Tables: entries come in only while the feature is enabled, and stay     *)
(* when it is disabled.                                                    *)

Enable    == <<Ensure, InitThen("on", 0)>>
AddEntry(e) == <<Ensure, Look, HeldThen("ifOn", 0), HeldThen("insert", e)>>

Adds(c, f) == feature = f /\ \E e \in Entries : Call(c, AddEntry(e))

AddBGPNeighbor(c) == Adds(c, "bgp")
RemoveBGPNeighbor(c) ==
  feature = "bgp" /\ \E e \in Entries : Call(c, <<Look, HeldThen("ifOn", 0), HeldThen("delete", e)>>)
EnableBFD(c)      == feature = "bfd" /\ Call(c, Enable)
DisableBFD(c)     == Ended(c, "bfd")
AddBFDSession(c)  == Adds(c, "bfd")
EnablePBR(c)      == feature = "pbr" /\ Call(c, Enable)
DisablePBR(c)     == Ended(c, "pbr")
AddPBRRule(c)     == Adds(c, "pbr")
EnableGRE(c)      == feature = "gre" /\ Call(c, Enable)
DisableGRE(c)     == Ended(c, "gre")
AddGRETunnel(c)   == Adds(c, "gre")
EnableQoS(c)      == feature = "qos" /\ Call(c, Enable)
DisableQoS(c)     == Ended(c, "qos")
AddQoSEntry(c)    == Adds(c, "qos")  \* a classifier, a behavior or a policy
EnableDot1x(c)    == feature = "dot1x" /\ Call(c, Enable)
DisableDot1x(c)   == Ended(c, "dot1x")
ConfigureDot1xPort(c) == Adds(c, "dot1x")

\* StartSTP has the router from one InitRouter.
StartSTP(c) ==
  feature = "stp" /\ \E v \in Settings :
    Call(c, <<InitThen("on", 0), HeldThen("first", v), HeldThen("last", v)>>)
StopSTP(c)          == Ended(c, "stp")
ConfigureSTPPort(c) == Adds(c, "stp")

TableCall(c) ==
  \/ AddBGPNeighbor(c) \/ RemoveBGPNeighbor(c)
  \/ EnableBFD(c) \/ DisableBFD(c) \/ AddBFDSession(c) \/ EnablePBR(c) \/ DisablePBR(c) \/ AddPBRRule(c)
  \/ EnableGRE(c) \/ DisableGRE(c) \/ AddGRETunnel(c) \/ EnableQoS(c) \/ DisableQoS(c) \/ AddQoSEntry(c)
  \/ EnableDot1x(c) \/ DisableDot1x(c) \/ ConfigureDot1xPort(c)
  \/ StartSTP(c) \/ StopSTP(c) \/ ConfigureSTPPort(c)

-----------------------------------------------------------------------------
(* Groups: the first one enables the feature, the last one disables it.    *)

\* StartVRRP: a group of low priority is no master, but its status says so.
StartVRRP(c) ==
  feature = "vrrp" /\ \E e \in Entries, high \in BOOLEAN :
    Call(c, <<Ensure, InitThen("on", 0), InitThen("master", [e |-> e, high |-> high])>>)

\* Mutant: the feature is disabled though groups are left.
TakeOutAnyway(e) == <<Look, HeldThen("delete", e), HeldThen("off", 0)>>
TakeOut(e) == <<Look, HeldThen("delete", e), HeldThen("ifEmpty", 0), HeldThen("off", 0)>>

StopVRRP(c) == feature = "vrrp" /\ \E e \in Entries : Call(c, TakeOut(e))

SimulateVRRPFailover(c) ==
  feature = "vrrp" /\ \E e \in Entries :
    Call(c, <<Look, HeldThen("ifOn", 0), HeldThen("ifThere", e), HeldThen("flip", e),
              HeldThen("peek", e), HeldThen("says", e)>>)

AddIPsecTunnel(c) ==
  feature = "ipsec" /\ \E e \in Entries : Call(c, <<Ensure, InitThen("on", 0), InitThen("insert", e)>>)
RemoveIPsecTunnel(c) == feature = "ipsec" /\ \E e \in Entries : Call(c, TakeOut(e))

(* M-LAG: one domain, made anew by each start.  No interface of it is ever *)
(* active or backup, so that a failover changes none.                      *)

StartMLAG(c) == feature = "mlag" /\ Call(c, <<Ensure, InitThen("on", 0), InitThen("domain", 0)>>)
StopMLAG(c)  == feature = "mlag" /\ Call(c, Disable \o <<HeldThen("nil", 0)>>)
AddMLAGInterface(c) ==
  feature = "mlag" /\ \E e \in Entries :
    Call(c, <<Ensure, Look, HeldThen("ifDomain", 0), HeldThen("insert", e)>>)
SetMLAGPeerLink(c) == feature = "mlag" /\ Call(c, <<Look, HeldThen("ifDomain", 0), HeldThen("up", TRUE)>>)
SimulateMLAGFailover(c) ==
  feature = "mlag" /\ Call(c, <<Look, HeldThen("ifOn", 0), HeldThen("ifDomain", 0), HeldThen("up", TRUE)>>)

(* Lists are read, extended and put back.                                  *)

\* AddRoute writes to the router of its second InitRouter what it read in that of its third.
AddRoute(c) == feature = "routes" /\ Call(c, <<Ensure, Ensure, InitThen("copy", 0), HeldThen("append", 0)>>)
StartLLDP(c) == feature = "lldp" /\ Call(c, Enable)
StopLLDP(c)  == Ended(c, "lldp")
AddLLDPNeighbor(c) == feature = "lldp" /\ Call(c, <<Ensure, Ensure, InitThen("copy", 0), HeldThen("append", 0)>>)
\* CreateVRF replaces the VRF and its lists; an append goes to the VRF that it has read.
CreateVRF(c) == feature = "vrf" /\ Call(c, <<Ensure, Look, HeldThen("on", 0), HeldThen("domain", 0)>>)
\* A route target or an interface
AddToVRF(c) ==
  feature = "vrf" /\ Call(c, <<Look, HeldThen("ifDomain", 0), HeldThen("copy", 0), HeldThen("append", 0)>>)

GroupCall(c) ==
  \/ StartVRRP(c) \/ StopVRRP(c) \/ SimulateVRRPFailover(c) \/ AddIPsecTunnel(c) \/ RemoveIPsecTunnel(c)
  \/ StartMLAG(c) \/ StopMLAG(c) \/ AddMLAGInterface(c) \/ SetMLAGPeerLink(c) \/ SimulateMLAGFailover(c)
  \/ AddRoute(c) \/ StartLLDP(c) \/ StopLLDP(c) \/ AddLLDPNeighbor(c) \/ CreateVRF(c) \/ AddToVRF(c)

Dotted == (0..(2^OctetBits - 1)) \X (0..(2^OctetBits - 1))

AppendRow(row) ==
  /\ Len(table) < MaxRules
  /\ table' = Append(table, row)
  /\ UNCHANGED <<feature, gen, cur, body, todo, held, copy, raced, panicked, calls>>

\* AddACL puts a list of rules, each an address and a wildcard; ...
InsertRule ==
  feature = "acl" /\ \E ip \in Hosts, w \in Dotted, permit \in BOOLEAN :
    AppendRow([ip |-> ip, wild |-> w, permit |-> permit])
\* ... AddRoute appends a route, a destination and its netmask.
InsertRoute ==
  feature = "table" /\ \E ip \in Hosts, m \in Dotted, metric \in Metrics :
    AppendRow([ip |-> ip, mask |-> m, metric |-> metric])

RouterSim ==
  \/ ~ panicked /\ RemoveRouter
  \/ RestartRouters
  \/ InsertRule \/ InsertRoute
  \/ \E c \in Clients :
       /\ ~ panicked
       /\ InitStep(c) \/ GetStep(c) \/ HeldStep(c) \/ ServiceCall(c) \/ TableCall(c) \/ GroupCall(c)

RoutersSpec == RoutersInit /\ [][RouterSim]_routerVars

-----------------------------------------------------------------------------
(* Looking up a route and a rule.                                          *)

AddressBits == 2 * OctetBits
Bit(n, i)   == (n \div 2^i) % 2

\* wildcardToMask counts the bits that are 0, wherever they are.
wildcardToMask(octets) == Cardinality({b \in {1, 2} \X (0..OctetBits - 1) : Bit(octets[b[1]], b[2]) = 0})

\* matchIP compares that many leading bits, whether it is given a wildcard or a netmask.
matchIP(ip, base, octets) ==
  LET rest == 2^(AddressBits - wildcardToMask(octets)) IN ip \div rest = base \div rest

\* MatchACL: the first rule that matches decides, and none permits.
MatchACL(ip) ==
  LET hits == {k \in 1..Len(table) : matchIP(ip, table[k].ip, table[k].wild)}
  IN hits = {} \/ table[CHOOSE k \in hits : \A j \in hits : k <= j].permit

\* FindRoute: one pass that keeps the best so far, 0 for none, with its mask length.
FindRoute(ip) ==
  LET best[k \in 0..Len(table)] ==
        IF k = 0 THEN 0
        ELSE LET b == best[k - 1]
                 len  == wildcardToMask(table[k].mask)
                 blen == IF b = 0 THEN 0 ELSE wildcardToMask(table[b].mask)
             IN IF /\ matchIP(ip, table[k].ip, table[k].mask)
                   /\ len > blen \/ (b # 0 /\ len = blen /\ table[k].metric < table[b].metric)
                THEN k ELSE b
  IN best[Len(table)]

-----------------------------------------------------------------------------
(* Properties.                                                             *)

RoutersTypeOK ==
  /\ gen \in 0..MaxGens /\ cur \in 0..gen
  /\ \A g \in 1..MaxGens :
       /\ {body[g].on, body[g].up, body[g].used} \subseteq BOOLEAN
       /\ {body[g].first, body[g].last} \subseteq Settings \cup {NoSetting}
       /\ body[g].entry \in [Entries -> [there : BOOLEAN, master : BOOLEAN, says : BOOLEAN]]
       /\ body[g].domain \in 0..MaxCalls /\ body[g].list \in 0..MaxCalls
  /\ \A c \in Clients : held[c] \in 0..gen
  /\ calls \in 0..MaxCalls /\ Len(table) <= MaxRules

\* Between calls that did not meet another one or a removal, a service has the fields of
\* one call, NTP is synchronized and VXLAN is up exactly while it is enabled, ...
OneConfiguration(b) ==
  /\ b.first = b.last
  /\ feature \in {"ntp", "vxlan"} => b.up = b.on
\* ... a feature with groups is enabled exactly while it has one, and M-LAG while it has a
\* domain, ...
GroupsEnable(b) ==
  /\ feature \in {"vrrp", "ipsec"} => b.on = (There(b) # {})
  /\ feature = "mlag" => b.on = (b.domain # 0)
\* ... no master is said to be a backup, and every append is in its list.
SaidAndListed(b) ==
  /\ \A e \in Entries : b.entry[e].master => b.entry[e].says
  /\ b.list = b.told

\* A wildcard whose ones are its last bits means what it says: bits at which it has a zero
\* are compared, the others are not.
Contiguous(w) == \A i, j \in 0..AddressBits - 1 : i < j /\ Bit(w, j) = 1 => Bit(w, i) = 1
Wild(r) == r.wild[1] * 2^OctetBits + r.wild[2]
WildcardsMean ==
  \A k \in 1..Len(table) : Contiguous(Wild(table[k])) =>
    \A ip \in Hosts : matchIP(ip, table[k].ip, table[k].wild) <=>
      \A i \in 0..AddressBits - 1 : Bit(Wild(table[k]), i) = 0 => Bit(ip, i) = Bit(table[k].ip, i)

\* A netmask is as long as it has ones.  FindRoute takes it for a wildcard: it compares as
\* many leading bits as the netmask has zeros and prefers the route that has more of them.
\* So of the routes that it takes to match, the SHORTEST netmask wins, and the least metric
\* of those as short; a default route (comment of protocol.go:622: "/0") matches one address
\* alone, and a host route, whose netmask has no zero, is never found.
NetmaskLength(mask) == Cardinality({b \in {1, 2} \X (0..OctetBits - 1) : Bit(mask[b[1]], b[2]) = 1})
ShortestNetmaskWins ==
  \A ip \in Hosts :
    LET len(k) == NetmaskLength(table[k].mask)
        hits == {k \in 1..Len(table) :
                   ip \div 2^len(k) = table[k].ip \div 2^len(k) /\ len(k) < AddressBits}
        r == FindRoute(ip)
    IN IF hits = {} THEN r = 0
       ELSE r \in hits /\ \A k \in hits : len(k) > len(r) \/ (len(k) = len(r) /\ table[k].metric >= table[r].metric)

\* What is left of longest prefixes: an address in the network of a route has some route when
\* that netmask is half an address or longer, and not a whole one.
HalfNetmasksReach ==
  \A ip \in Hosts, k \in 1..Len(table) :
    LET len == NetmaskLength(table[k].mask)
        net == 2^(AddressBits - len)
    IN AddressBits <= 2 * len /\ len < AddressBits /\ ip \div net = table[k].ip \div net => FindRoute(ip) # 0

\* A packet that no rule denies by itself is permitted, and one that is denied matches a
\* rule that denies it.
DenialsHaveRules ==
  \A ip \in Hosts :
    ~ MatchACL(ip) => \E k \in 1..Len(table) : ~ table[k].permit /\ matchIP(ip, table[k].ip, table[k].wild)

\* Whatever meets, entries come only into a router in which the feature was once enabled,
\* and only calls that meet end in a panic.
EntriesSound ==
  /\ cur # 0 /\ Quiet /\ ~ raced => OneConfiguration(body[cur]) /\ GroupsEnable(body[cur]) /\ SaidAndListed(body[cur])
  /\ feature \in {"bfd", "pbr", "gre", "qos", "dot1x", "stp", "bgp"} =>
       \A g \in 1..MaxGens : There(body[g]) # {} => body[g].used
  /\ panicked => raced

RoutersSound ==
  /\ RoutersTypeOK /\ EntriesSound
  /\ feature = "acl" => WildcardsMean /\ DenialsHaveRules
  /\ feature = "table" => ShortestNetmaskWins /\ HalfNetmasksReach
=============================================================================
