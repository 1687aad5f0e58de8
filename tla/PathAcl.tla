------------------------------- MODULE PathAcl -------------------------------
(***************************************************************************)
(* internal/cli/acl_eval.go: whether the ACLs and the address translation  *)
(* of the devices between the source and the target of a ping let it       *)
(* through.  The path is that of PathSearch; the packet's addresses are    *)
(* evaluated and rewritten device by device along it.                      *)
(*                                                                         *)
(* A device is evaluated with its cached CLI session; one whose session is *)
(* not cached lets everything pass.  An address matches a rule when it is  *)
(* in the rule's set: matchIP of AclConfig models how the set comes from   *)
(* an address and a wildcard.                                              *)
(***************************************************************************)
EXTENDS PathSearch

CONSTANTS
  Addresses,
  NoAddress,
  Settings    \* the configurations of a network considered, each a record of
              \*   addr:     device -> the addresses of its interfaces
              \*   terminal: the PCs, clients and servers
              \*   filters:  device, direction -> the ACLs bound there
              \*   nat:      device -> [on, servers, outbounds], an outbound with its ACL, whether
              \*             it is for an address group, and the address of that pool
              \*   routes:   device -> its routes, [to, len, via] each
              \*   cached:   the devices whose session is in the cache

\* An interface that is configured has an address.
ASSUME AddressesKnown ==
  NoAddress \notin Addresses /\ \A c \in Settings : \A d \in Devices : c.addr[d] \subseteq Addresses

VARIABLES
  set,      \* the configuration
  target,   \* the address that is pinged
  inside,   \* the address it is translated to, or NoAddress
  walk,     \* the devices to evaluate
  pos,      \* how many of them have been
  flow,     \* the addresses of the packet as it leaves the last of them
  verdict   \* none yet, permit or deny

aclVars == <<set, target, inside, walk, pos, flow, verdict>>

Owners(a) == {d \in Devices : a \in set.addr[d]}

-----------------------------------------------------------------------------
(* One device.                                                             *)

Matches(rule, f) == f.src \in rule.from /\ f.dst \in rule.to

\* The first rule that matches decides, and a packet no rule matches is denied.
AclPermits(acl, f) ==
  \E i \in 1..Len(acl) : /\ acl[i].permit /\ Matches(acl[i], f)
                         /\ \A j \in 1..(i - 1) : ~ Matches(acl[j], f)

\* EvaluateDeviceACL: of several ACLs bound in a direction any one is taken.
Outcomes(d, dir, f) ==
  IF d \notin set.cached \/ set.filters[d][dir] = {} THEN {"permit"}
  ELSE {IF AclPermits(acl, f) THEN "permit" ELSE "deny" : acl \in set.filters[d][dir]}

Translates(d) == d \in set.cached /\ set.nat[d].on

\* longestPrefixEgressIP: the first of the longest routes to an address.
Egress(d, a) ==
  LET rs   == set.routes[d]
      hits == {i \in 1..Len(rs) : a \in rs[i].to}
      best == {i \in hits : \A j \in hits : rs[j].len <= rs[i].len}
  IN IF hits = {} THEN NoAddress ELSE rs[CHOOSE i \in best : \A j \in best : i <= j].via

\* The address of an interface, when there is any: the first of a map.
AnyAddress(d) == IF set.addr[d] = {} THEN {NoAddress} ELSE set.addr[d]

\* ResolveSourceIP.
SourceAddresses(d) ==
  IF d \in set.terminal \/ Egress(d, target) = NoAddress THEN AnyAddress(d) ELSE {Egress(d, target)}

\* The inside address a device has first for a public one.
InsideOf(d, a) ==
  LET ss   == set.nat[d].servers
      hits == {i \in 1..Len(ss) : ss[i].global = a}
  IN IF ~ Translates(d) \/ hits = {} THEN NoAddress ELSE ss[CHOOSE i \in hits : \A j \in hits : i <= j].inside

\* A packet to the public address of a server goes to its inside address.
NatIn(d, f) == IF InsideOf(d, f.dst) = NoAddress THEN f ELSE [f EXCEPT !.dst = InsideOf(d, @)]

\* natOutboundMatches: any permit rule that names the source, whatever denies come before it.
OutboundMatches(o, f) == o.acl = <<>> \/ \E i \in 1..Len(o.acl) : o.acl[i].permit /\ f.src \in o.acl[i].from

\* The first rule that matches: with an address group the source becomes the address of the
\* pool, and stays when there is no such pool; with easy-ip it becomes the egress address.
NatOut(d, f) ==
  LET os   == set.nat[d].outbounds
      hits == {i \in 1..Len(os) : OutboundMatches(os[i], f)}
      o    == os[CHOOSE i \in hits : \A j \in hits : i <= j]
      to   == IF o.group THEN {o.pool}
              ELSE IF Egress(d, f.dst) # NoAddress THEN {Egress(d, f.dst)}
              ELSE AnyAddress(d)
  IN IF ~ Translates(d) \/ hits = {} THEN {f}
     ELSE {IF a = NoAddress THEN f ELSE [f EXCEPT !.src = a] : a \in to}

-----------------------------------------------------------------------------
(* The path.                                                               *)

\* deviceIDByNATGlobalIP: the devices that translate an address.
Servers(a) == {d \in Devices : InsideOf(d, a) # NoAddress}

\* ComputeL3PathNAT: the search runs to the owner of the address, or else to a
\* device that translates it.
AclInit ==
  /\ set \in Settings
  /\ Init
  /\ src \in set.cached
  /\ target \in Addresses
  /\ \/ dst \in Owners(target) /\ inside = NoAddress
     \/ Owners(target) = {} /\ dst \in Servers(target) /\ inside = InsideOf(dst, target)
  /\ walk = <<>> /\ pos = 0 /\ verdict = "none"
  /\ flow \in {[src |-> a, dst |-> target] : a \in SourceAddresses(src)}

Search == Next /\ UNCHANGED aclVars

\* The path is completed with the device behind the translation, and a ping without
\* a path is let through.
StartWalk ==
  /\ Done /\ verdict = "none" /\ walk = <<>>
  /\ IF path = <<>> THEN verdict' = "permit" /\ UNCHANGED walk
     ELSE /\ IF Owners(inside) = {} THEN walk' = path ELSE \E d \in Owners(inside) : walk' = Append(path, d)
          /\ UNCHANGED verdict
  /\ UNCHANGED <<vars, set, target, inside, pos, flow>>

\* The outcome of one device: the first deny decides, and so does the last device.
Decide(outcome) ==
  verdict' = CASE outcome = "deny"                            -> "deny"
               [] outcome = "permit" /\ pos + 1 = Len(walk)   -> "permit"
               [] OTHER                                       -> "none"

Hopping == verdict = "none" /\ walk # <<>>

\* The source: translation, then what leaves it.
SourceHop ==
  /\ Hopping /\ pos = 0
  /\ flow' \in NatOut(walk[1], flow)
  /\ \E o \in Outcomes(walk[1], "out", flow') : Decide(o)
  /\ pos' = 1
  /\ UNCHANGED <<vars, set, target, inside, walk>>

\* Mutant: a device on the way translates only the source.
TransitNatOut ==
  /\ Hopping /\ pos > 0 /\ pos + 1 < Len(walk)
  /\ LET d == walk[pos + 1]
     IN /\ flow' \in NatOut(d, flow)
        /\ \E in \in Outcomes(d, "in", flow), out \in Outcomes(d, "out", flow') :
             Decide(IF "deny" \in {in, out} THEN "deny" ELSE "permit")
  /\ pos' = pos + 1
  /\ UNCHANGED <<vars, set, target, inside, walk>>

\* Mutant: a device on the way is asked only about what leaves it.
TransitOutOnly ==
  /\ Hopping /\ pos > 0 /\ pos + 1 < Len(walk)
  /\ flow' \in NatOut(walk[pos + 1], NatIn(walk[pos + 1], flow))
  /\ \E o \in Outcomes(walk[pos + 1], "out", flow') : Decide(o)
  /\ pos' = pos + 1
  /\ UNCHANGED <<vars, set, target, inside, walk>>

\* A device on the way: what enters it, translation of both ends, what leaves it.
TransitHop ==
  /\ Hopping /\ pos > 0 /\ pos + 1 < Len(walk)
  /\ LET d == walk[pos + 1]
     IN /\ flow' \in NatOut(d, NatIn(d, flow))
        /\ \E in \in Outcomes(d, "in", flow), out \in Outcomes(d, "out", flow') :
             Decide(IF "deny" \in {in, out} THEN "deny" ELSE "permit")
  /\ pos' = pos + 1
  /\ UNCHANGED <<vars, set, target, inside, walk>>

\* The target: what enters it.
LastHop ==
  /\ Hopping /\ pos > 0 /\ pos + 1 = Len(walk)
  /\ \E o \in Outcomes(walk[pos + 1], "in", flow) : Decide(o)
  /\ pos' = pos + 1
  /\ UNCHANGED <<vars, set, target, inside, walk, flow>>

AclNext == Search \/ StartWalk \/ SourceHop \/ TransitHop \/ LastHop

AclSpec == AclInit /\ [][AclNext]_<<vars, aclVars>>

-----------------------------------------------------------------------------
(* Properties.                                                             *)

\* The cached devices that refuse everything that enters them.
Walls == {d \in set.cached \ {src} : /\ set.filters[d]["in"] # {}
                                     /\ \A acl \in set.filters[d]["in"] : \A i \in 1..Len(acl) : ~ acl[i].permit}

ReachesAround(W) ==
  \A S \in SUBSET Devices : src \in S /\ (\A d \in S : Neighbours(d) \ W \subseteq S) => dst \in S

\* A ping that is let through has a way around every device that refuses what enters
\* it: a firewall through which all links lead cannot be missed.
WallsHold == verdict = "permit" /\ path # <<>> /\ inside = NoAddress => ReachesAround(Walls)

\* A ping of a public address that is let through arrives at the device that owns its
\* destination as the devices on the way have rewritten it, unless the source itself
\* is the translating device, which rewrites only what leaves it.
TranslatedArrives ==
  verdict = "permit" /\ path # <<>> /\ Owners(inside) # {} /\ ~ Translates(src)
    => walk[Len(walk)] \in Owners(flow.dst)
=============================================================================
