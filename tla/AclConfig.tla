------------------------------- MODULE AclConfig -------------------------------
(***************************************************************************)
(* ACLs and traffic filters of a device: the commands of                   *)
(* internal/cli/parser.go and the evaluation of internal/cli/acl_eval.go.  *)
(* The rules and the translation tables are fields of the session, which   *)
(* its configuration does not hold; that an ACL filters a direction is a   *)
(* key of the configuration.  So a device that is restarted forgets the    *)
(* rules and remembers the filters.                                        *)
(***************************************************************************)
EXTENDS FiniteSets, Naturals, Sequences

CONSTANTS
  AclNames,
  AddressBits,  \* the width of an address, 32 in the code
  SrcAddresses, \* the addresses that rules name; NoAddress for none
  NoAddress,
  Wildcards,    \* the wildcards that rules have; NoWildcard for none
  NoWildcard,
  RuleIds,      \* the numbers that are given by hand
  MaxRules,     \* bounds the length of an ACL
  Pools,        \* address pools of nat
  Closed        \* no ACL view is open

ASSUME AddressBitsAssumption ==
  /\ AddressBits \in Nat \ {0} /\ MaxRules \in Nat
  /\ SrcAddresses \ {NoAddress} \subseteq 0 .. 2^AddressBits - 1 /\ NoWildcard \notin 0 .. 2^AddressBits - 1

VARIABLES
  acls,     \* the rules of each ACL, in the order of their entry
  aclView,  \* the ACL whose view is open, or Closed
  filters,  \* keys traffic-filter:<direction>:<acl>
  nat       \* the tables of nat

aclVars == <<acls, aclView, filters, nat>>

Bits == 0 .. AddressBits - 1
IPs == 0 .. 2^AddressBits - 1
Directions == {"inbound", "outbound"}
RuleActions == {"permit", "deny", "other"}
Placeholder == [id |-> 0, action |-> "other", src |-> NoAddress, wildcard |-> NoWildcard]
NoNat      == [enabled |-> FALSE, pools |-> {}, outbound |-> <<>>, servers |-> 0]

AclInit ==
  /\ acls = <<>> /\ aclView = Closed
  /\ filters = {}
  /\ nat = NoNat

-----------------------------------------------------------------------------
(* Evaluation.                                                             *)

\* Mutant of wildcardToMask: the bits that are set.
wildcardToMaskOfOnes(wildcard) == Cardinality({i \in Bits : (wildcard \div 2^i) % 2 = 1})

\* The bits of a wildcard that are zero, wherever they are.
wildcardToMask(wildcard) == Cardinality({i \in Bits : (wildcard \div 2^i) % 2 = 0})

Network(ip, bits) == ip \div 2^(AddressBits - bits)

\* matchIP: no wildcard is read as 255.255.255.255.
matchIP(ip, ruleIP, wildcard) ==
  LET bits == wildcardToMask(IF wildcard = NoWildcard THEN 2^AddressBits - 1 ELSE wildcard)
  IN Network(ip, bits) = Network(ruleIP, bits)

matchACLRule(rule, ip) == rule.src = NoAddress \/ matchIP(ip, rule.src, rule.wildcard)

\* The first rule of the ACL that decides the flow; none denies it.
Verdict(rules, ip) ==
  LET deciding == {i \in DOMAIN rules : rules[i].action \in {"permit", "deny"} /\ matchACLRule(rules[i], ip)}
  IN IF deciding = {} THEN "deny" ELSE rules[CHOOSE i \in deciding : \A j \in deciding : i <= j].action

RulesOf(all, acl) == IF acl \in DOMAIN all THEN all[acl] ELSE <<>>

\* Mutant of EvaluateDeviceACL: an ACL that is not there filters nothing.
EvaluateKnownACL(all, bound, direction, ip) ==
  LET names == {f[2] : f \in {g \in bound : g[1] = direction}} \cap DOMAIN all
  IN IF names = {} THEN {"permit"} ELSE {Verdict(RulesOf(all, acl), ip) : acl \in names}

\* EvaluateDeviceACL: of several filters in one direction any may be the one that is found.
EvaluateDeviceACL(all, bound, direction, ip) ==
  LET names == {f[2] : f \in {g \in bound : g[1] = direction}}
  IN IF names = {} THEN {"permit"} ELSE {Verdict(RulesOf(all, acl), ip) : acl \in names}

\* natOutboundMatches, which takes an ACL without rules to permit every source.
Translates(acl, ip) ==
  LET rules == RulesOf(acls, acl)
  IN nat.enabled /\ (rules = <<>> \/ \E i \in DOMAIN rules : rules[i].action = "permit" /\ matchACLRule(rules[i], ip))

Permitted(all, bound) == {f \in Directions \X IPs : EvaluateDeviceACL(all, bound, f[1], f[2]) = {"permit"}}

-----------------------------------------------------------------------------
(* Commands.                                                               *)

SetAcl(acl, rules) == acls' = [n \in DOMAIN acls \cup {acl} |-> IF n = acl THEN rules ELSE acls[n]]

\* acl <number>
EnterAcl(acl) ==
  /\ aclView = Closed /\ aclView' = acl
  /\ SetAcl(acl, RulesOf(acls, acl))
  /\ UNCHANGED <<filters, nat>>

\* acl name <name> basic | advanced: one without rules gets a rule that decides nothing.
EnterNamedAcl(acl) ==
  /\ aclView = Closed /\ aclView' = acl
  /\ SetAcl(acl, IF RulesOf(acls, acl) = <<>> THEN <<Placeholder>> ELSE acls[acl])
  /\ UNCHANGED <<filters, nat>>

LeaveAcl ==
  /\ aclView # Closed /\ aclView' = Closed
  /\ UNCHANGED <<acls, filters, nat>>

\* rule [<id>] <action> <protocol> [source <address> [<wildcard>]]: an id of 0 is chosen
\* after the number of the rules; a rule never replaces another.
AddRule(id, action, src, wildcard) ==
  /\ aclView # Closed /\ Len(acls[aclView]) < MaxRules
  /\ LET next == Len(acls[aclView]) * 10 + 10
         rule == [id |-> IF id = 0 THEN next ELSE id, action |-> action, src |-> src, wildcard |-> wildcard]
     IN SetAcl(aclView, Append(acls[aclView], rule))
  /\ UNCHANGED <<aclView, filters, nat>>

\* undo acl <number | name>, in the system view.
UndoAcl(acl) ==
  /\ aclView = Closed
  /\ acls' = [n \in DOMAIN acls \ {acl} |-> acls[n]]
  /\ UNCHANGED <<aclView, filters, nat>>

\* traffic-filter <direction> acl <acl>, in any view, of an ACL that need not be there.
ApplyFilter(direction, acl) ==
  /\ filters' = filters \cup {<<direction, acl>>}
  /\ UNCHANGED <<acls, aclView, nat>>

NatCommand(tables) ==
  /\ aclView = Closed
  /\ nat' = [tables EXCEPT !.enabled = TRUE]
  /\ UNCHANGED <<acls, aclView, filters>>

NatAddressGroup(pool) == NatCommand([nat EXCEPT !.pools = @ \cup {pool}])

\* One of easy-ip, which has no pool, or of an address group, which need not be there.
NatOutbound(acl, pool) == Len(nat.outbound) < MaxRules /\ NatCommand([nat EXCEPT !.outbound = Append(@, <<acl, pool>>)])

NatServer == nat.servers < MaxRules /\ NatCommand([nat EXCEPT !.servers = @ + 1])

\* A restart builds the session from the keys.
AclRebuild ==
  /\ acls' = <<>> /\ aclView' = Closed /\ nat' = NoNat
  /\ UNCHANGED filters

AclNext ==
  \/ LeaveAcl \/ NatServer \/ AclRebuild
  \/ \E acl \in AclNames : EnterAcl(acl) \/ EnterNamedAcl(acl) \/ UndoAcl(acl)
  \/ \E id \in RuleIds \cup {0}, action \in RuleActions, src \in SrcAddresses, wildcard \in Wildcards \cup {NoWildcard} :
       (src = NoAddress => wildcard = NoWildcard) /\ AddRule(id, action, src, wildcard)
  \/ \E direction \in Directions, acl \in AclNames : ApplyFilter(direction, acl)
  \/ \E pool \in Pools : NatAddressGroup(pool) \/ \E acl \in AclNames : NatOutbound(acl, pool)

AclSpec == AclInit /\ [][AclNext]_aclVars

-----------------------------------------------------------------------------
(* Properties.                                                             *)

AclTypeOK ==
  /\ DOMAIN acls \subseteq AclNames /\ aclView \in DOMAIN acls \cup {Closed}
  /\ filters \subseteq Directions \X AclNames
  /\ nat.pools \subseteq Pools /\ nat.servers \in 0 .. MaxRules

Bit(n, i)           == (n \div 2^i) % 2
Agrees(ip, rule)    == \A i \in Bits : Bit(rule.wildcard, i) = 0 => Bit(ip, i) = Bit(rule.src, i)
Contiguous(rule)    == rule.src # NoAddress /\ \E k \in 0 .. AddressBits : rule.wildcard = 2^k - 1
FirstAgreeing(rules, ip) ==
  LET all == {i \in DOMAIN rules : rules[i].action # "other" /\ Agrees(ip, rules[i])}
  IN CHOOSE i \in all : \A j \in all : i <= j

\* A direction with one filter, of an ACL whose wildcards are all contiguous, lets pass
\* exactly the addresses whose first rule permits them, where a rule is about the addresses
\* that agree with its own on the bits that the wildcard leaves zero.
RulesMeanBits ==
  \A f \in filters :
    LET rules == RulesOf(acls, f[2])
    IN ({g \in filters : g[1] = f[1]} = {f}) /\ (\A i \in DOMAIN rules : Contiguous(rules[i])) =>
         \A ip \in IPs :
           (EvaluateDeviceACL(acls, filters, f[1], ip) = {"permit"}) =
             (\E i \in DOMAIN rules : Agrees(ip, rules[i]) /\ rules[i].action = "permit" /\ i = FirstAgreeing(rules, ip))

\* What a device refuses it refuses after a restart, which forgets the rules and not the filters.
RestartNeverOpens == Permitted(<<>>, filters) \subseteq Permitted(acls, filters)

AclCoherent == AclTypeOK /\ RulesMeanBits /\ RestartNeverOpens

\* A rule with an address and no wildcard is about this address only: matchIP,
\* internal/cli/acl_eval.go:449, reads the empty wildcard as a host route.
HostRules ==
  \A n \in DOMAIN acls : \A i \in DOMAIN acls[n] :
    LET rule == acls[n][i]
    IN rule.src # NoAddress /\ rule.wildcard = NoWildcard => \A ip \in IPs : matchACLRule(rule, ip) => ip = rule.src
=============================================================================
