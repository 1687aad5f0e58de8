------------------------------ MODULE SwitchPorts ------------------------------
(***************************************************************************)
(* A switch's ports: port security (internal/cli/parser.go and             *)
(* portsec_eval.go), the VLANs ports carry and the table of VLANs          *)
(* (parser.go), and the spanning tree (parser.go and stp_eval.go).         *)
(*                                                                         *)
(* Port security and the spanning tree are keys of the device's stored     *)
(* configuration; the address table and the table of VLANs belong to the   *)
(* session and are built again with it.  The demonstration entries of a    *)
(* fresh session are of ports that no device has and are left out.         *)
(***************************************************************************)
EXTENDS Naturals, FiniteSets

CONSTANTS
  SwPorts,                 \* interface names
  Order,                   \* the position of a name among them
  Macs, MaxMacs,           \* source addresses, values of max-mac-num
  Vlans, DefaultVlan, NoVlan,
  Msts,                    \* MST instances other than 0
  StpPriorities, StpCosts  \* bridge priorities, path costs

ASSUME SwitchAssumption ==
  /\ Order \in [SwPorts -> Nat] /\ \A p, q \in SwPorts : Order[p] = Order[q] => p = q
  /\ IsFiniteSet(SwPorts) /\ IsFiniteSet(Macs)
  /\ MaxMacs \subseteq Nat \ {0} /\ 1 \in MaxMacs
  /\ DefaultVlan \in Vlans /\ NoVlan \notin Vlans /\ \A P \in SUBSET SwPorts : P # NoVlan
  /\ StpPriorities \subseteq Nat /\ {0, 4096, 32768} \subseteq StpPriorities
  /\ StpCosts \subseteq Nat \ {0}

VARIABLES
  security, \* port -> the keys of its port security
  learned,  \* port -> its entries in the address table that are of port security
  peak,     \* port -> the most addresses it was ever allowed to learn
  vlans,    \* VLAN -> the ports listed, or NoVlan for one that is not in the table
  carries,  \* port -> default VLAN and the VLANs of its trunk and hybrid keys
  unlisted, \* pairs of port and VLAN that the table has lost since the port was listed
  stp,      \* the keys of the device's spanning tree
  stpPort,  \* port -> the keys of its own
  closed    \* the ports that are shut down

psVars   == <<security, learned, peak>>
vlanVars == <<vlans, carries, unlisted>>
stpVars  == <<stp, stpPort, closed>>
swVars   == <<security, learned, peak, vlans, carries, unlisted, stp, stpPort, closed>>

Actions    == {"protect", "restrict", "shutdown"}
Kept       == {"security", "sticky"}   \* the kinds of learned addresses
ListedBy   == {"allow", "tagged", "untagged"}

NoSecurity == [enabled |-> FALSE, max |-> 1, action |-> "restrict", sticky |-> FALSE, aging |-> FALSE,
               bound |-> {}, stuck |-> {}, down |-> FALSE, counted |-> FALSE]
NoStp      == [enabled |-> TRUE, mode |-> "mstp", priority |-> 32768, standard |-> "dot1t",
               guards |-> {}, region |-> {}, msts |-> {}]
NoStpPort  == [cost |-> 0, edged |-> FALSE, ranked |-> FALSE]
NoCarries  == [default |-> NoVlan, lists |-> {}]
Table      == [v \in Vlans |-> IF v = DefaultVlan THEN {} ELSE NoVlan]

SwInit ==
  /\ security = [p \in SwPorts |-> NoSecurity]
  /\ learned = [p \in SwPorts |-> {}]
  /\ peak = [p \in SwPorts |-> 1]
  /\ vlans = Table /\ unlisted = {}
  /\ carries = [p \in SwPorts |-> NoCarries]
  /\ stp = NoStp /\ closed = {}
  /\ stpPort = [p \in SwPorts |-> NoStpPort]

-----------------------------------------------------------------------------
(* Port security.                                                          *)

Configure(p, keys) == security' = [security EXCEPT ![p] = keys] /\ UNCHANGED <<learned, vlanVars, stpVars>>

\* port-security {enable | disable}: what happened on the port stays.
PsEnable(p, b)  == Configure(p, [security[p] EXCEPT !.enabled = b]) /\ UNCHANGED peak
PsMaxMac(p, n)  == /\ Configure(p, [security[p] EXCEPT !.max = n])
                   /\ peak' = [peak EXCEPT ![p] = IF n > @ THEN n ELSE @]
PsProtect(p, a) == Configure(p, [security[p] EXCEPT !.action = a]) /\ UNCHANGED peak
PsAging(p)      == Configure(p, [security[p] EXCEPT !.aging = TRUE]) /\ UNCHANGED peak
PsSticky(p)     == Configure(p, [security[p] EXCEPT !.sticky = TRUE]) /\ UNCHANGED peak

\* mac-address sticky <mac> vlan <v>: not limited by max-mac-num.
PsBind(p, m)    == Configure(p, [security[p] EXCEPT !.bound = @ \cup {m}]) /\ UNCHANGED peak

Known(p)         == {e[1] : e \in learned[p]}
PsAuthorized(p, m) == m \in security[p].bound \cup Known(p)
PsCount(p)       == Cardinality(security[p].bound) + Cardinality(learned[p])

\* EvaluatePortSecurity: a port without security, or one that is error-down, takes no
\* part in what follows.
Evaluates(p, m) ==
  security[p].enabled /\ ~security[p].down /\ ~PsAuthorized(p, m)

\* simulate frame <mac>: the address is learned ...
PsLearn(p, m) ==
  LET sticky == security[p].sticky
  IN /\ Evaluates(p, m) /\ PsCount(p) < security[p].max
     /\ learned' = [learned EXCEPT ![p] = @ \cup {<<m, IF sticky THEN "sticky" ELSE "security">>}]
     /\ security' = [security EXCEPT ![p].stuck = IF sticky THEN @ \cup {m} ELSE @]
     /\ UNCHANGED <<peak, vlanVars, stpVars>>

\* ... or violates the port's limit.
PsViolate(p, m) ==
  /\ Evaluates(p, m) /\ PsCount(p) >= security[p].max
  /\ Configure(p, [security[p] EXCEPT !.down = @ \/ security[p].action = "shutdown",
                                      !.counted = @ \/ security[p].action # "protect"])
  /\ UNCHANGED peak

PsNext ==
  \E p \in SwPorts :
    \/ PsAging(p) \/ PsSticky(p)
    \/ \E b \in BOOLEAN : PsEnable(p, b)
    \/ \E n \in MaxMacs : PsMaxMac(p, n)
    \/ \E a \in Actions : PsProtect(p, a)
    \/ \E m \in Macs : PsBind(p, m) \/ PsLearn(p, m) \/ PsViolate(p, m)

-----------------------------------------------------------------------------
(* VLANs.                                                                  *)

InTable(v) == vlans[v] # NoVlan
Listing(p, V) == [v \in Vlans |-> IF v \notin V THEN vlans[v]
                                  ELSE IF InTable(v) THEN vlans[v] \cup {p} ELSE {p}]
List(p, V) ==
  /\ vlans' = Listing(p, V)
  /\ unlisted' = unlisted \ ({p} \X V)
  /\ UNCHANGED <<psVars, stpVars>>

\* port default vlan <v>: the port stays listed in the VLAN it leaves.
PortDefault(p, v) ==
  /\ carries' = [carries EXCEPT ![p].default = v]
  /\ List(p, {v})

\* port trunk allow-pass vlan, port hybrid {tagged | untagged} vlan: a key with the list
PortCarries(p, k, V) ==
  /\ carries' = [carries EXCEPT ![p].lists = {e \in @ : e[1] # k} \cup ({k} \X V)]
  /\ List(p, V)

\* port trunk permit vlan writes the key of allow-pass and leaves the table.
PortPermit(p, V) ==
  /\ carries' = [carries EXCEPT ![p].lists = {e \in @ : e[1] # "allow"} \cup ({"allow"} \X V)]
  /\ unlisted' = unlisted \cup {<<p, v>> : v \in {w \in V : ~InTable(w) \/ p \notin vlans[w]}}
  /\ UNCHANGED <<vlans, psVars, stpVars>>

Drops(V) == SwPorts \X V

\* vlan <v> puts an empty VLAN into the table, over one that is there; vlan batch adds
\* the VLANs that are missing; undo vlan <v> removes one.
VlanCreate(v) ==
  /\ vlans' = [vlans EXCEPT ![v] = {}]
  /\ unlisted' = unlisted \cup Drops({v})
  /\ UNCHANGED <<carries, psVars, stpVars>>

VlanBatch(V) ==
  /\ vlans' = [v \in Vlans |-> IF v \in V /\ ~InTable(v) THEN {} ELSE vlans[v]]
  /\ UNCHANGED <<carries, unlisted, psVars, stpVars>>

UndoVlan(v) ==
  /\ vlans' = [vlans EXCEPT ![v] = NoVlan]
  /\ unlisted' = unlisted \cup Drops({v})
  /\ UNCHANGED <<carries, psVars, stpVars>>

VlanNext ==
  \/ \E v \in Vlans : VlanCreate(v) \/ UndoVlan(v) \/ (\E p \in SwPorts : PortDefault(p, v))
  \/ \E V \in SUBSET Vlans \ {{}} :
       VlanBatch(V) \/ (\E p \in SwPorts : PortPermit(p, V) \/ (\E k \in ListedBy : PortCarries(p, k, V)))

-----------------------------------------------------------------------------
(* The spanning tree.                                                      *)

StpGuards  == {"bpdu", "root", "loop", "tc", "v-stp", "address"}
Standards  == {"dot1d-1998", "dot1t", "legacy"}
DefaultCost(s) == IF s = "dot1t" THEN 20000 ELSE 200000
CostMax(s) == CASE s = "dot1d-1998" -> 65535 [] s = "legacy" -> 200000 [] OTHER -> 200000000
RegionKeys == {"region-name", "revision-level", "active"}
MstKeys    == {"vlans", "priority", "root"}

SetStp(r) == stp' = r /\ UNCHANGED <<stpPort, closed, psVars, vlanVars>>

\* stp, stp {enable | disable}, mode, priority, root {primary | secondary}, pathcost-standard,
\* and the protections, which undo (disable, of v-stp) takes back one at a time
StpEnable(b)    == SetStp([stp EXCEPT !.enabled = b])
StpMode(m)      == SetStp([stp EXCEPT !.mode = m])
StpPriority(n)  == SetStp([stp EXCEPT !.priority = n])
StpRoot         == \E n \in {0, 4096} : StpPriority(n)
StpUndoRoot     == StpPriority(32768)
StpStandard(s)  == SetStp([stp EXCEPT !.standard = s])
StpGuard(g)     == SetStp([stp EXCEPT !.guards = @ \cup {g}])
StpUndoGuard(g) == SetStp([stp EXCEPT !.guards = @ \ {g}])

\* In the view of the region: its name, its revision, its activation.
StpRegion(k)   == SetStp([stp EXCEPT !.region = @ \cup {k}])

\* stp instance <i> vlan, priority, root; root writes the priority too.
StpInstance(i, k) ==
  SetStp([stp EXCEPT !.msts = @ \cup ({i} \X (IF k = "root" THEN {"root", "priority"} ELSE {k}))])

StpUndoInstanceRoot(i) == SetStp([stp EXCEPT !.msts = @ \ ({i} \X {"root", "priority"})])
StpUndoRegion          == SetStp([stp EXCEPT !.region = {}, !.msts = {}])

\* In an interface's view: the cost is held against the standard of the moment, and stays
\* when that changes; a port without one has the default of the standard, which for
\* dot1d-1998 is beyond what the command accepts.
SetStpPort(p, r) == stpPort' = [stpPort EXCEPT ![p] = r] /\ UNCHANGED <<stp, closed, psVars, vlanVars>>

StpCost(p, c)  == c <= CostMax(stp.standard) /\ SetStpPort(p, [stpPort[p] EXCEPT !.cost = c])
StpEdged(p, b) == SetStpPort(p, [stpPort[p] EXCEPT !.edged = b])
StpRank(p)     == SetStpPort(p, [stpPort[p] EXCEPT !.ranked = TRUE])

SwShutdown(p, b) ==
  /\ closed' = IF b THEN closed \cup {p} ELSE closed \ {p}
  /\ UNCHANGED <<stp, stpPort, psVars, vlanVars>>

\* undo stp: every key, and the tree is disabled.
UndoStp ==
  /\ stp' = [NoStp EXCEPT !.enabled = FALSE]
  /\ stpPort' = [p \in SwPorts |-> NoStpPort]
  /\ UNCHANGED <<closed, psVars, vlanVars>>

PathCost(p) == IF stpPort[p].cost = 0 THEN DefaultCost(stp.standard) ELSE stpPort[p].cost

\* collectSTPPorts: among the ports that are up and no edge ports, the first by name is
\* the root port and the last is blocked.
Candidates == {p \in SwPorts \ closed : ~stpPort[p].edged}
IsFirst(p) == \A q \in Candidates : Order[p] <= Order[q]
IsLast(p)  == \A q \in Candidates : Order[q] <= Order[p]

StpRole(p) ==
  IF p \in closed THEN "--"
  ELSE IF p \notin Candidates THEN "DESI"
  ELSE IF IsFirst(p) THEN "ROOT"
  ELSE IF IsLast(p) THEN "ALTE" ELSE "DESI"

StpForwards(p) == StpRole(p) \in {"ROOT", "DESI"}

\* collectSTPInstances
StpInstances == {0} \cup IF "active" \in stp.region THEN {e[1] : e \in stp.msts} ELSE {}

StpNext ==
  \/ StpRoot \/ StpUndoRoot \/ StpUndoRegion \/ UndoStp
  \/ \E b \in BOOLEAN : StpEnable(b)
  \/ \E m \in {"stp", "rstp", "mstp"} : StpMode(m)
  \/ \E n \in StpPriorities : StpPriority(n)
  \/ \E s \in Standards : StpStandard(s)
  \/ \E g \in StpGuards : StpGuard(g) \/ StpUndoGuard(g)
  \/ \E k \in RegionKeys : StpRegion(k)
  \/ \E i \in Msts : StpUndoInstanceRoot(i) \/ (\E k \in MstKeys : StpInstance(i, k))
  \/ \E p \in SwPorts :
       \/ StpRank(p)
       \/ \E c \in StpCosts : StpCost(p, c)
       \/ \E b \in BOOLEAN : StpEdged(p, b) \/ SwShutdown(p, b)

-----------------------------------------------------------------------------
(* The session is built again from the keys: the ports are up again as far *)
(* as port security is concerned, what was learned without sticky and the  *)
(* table of VLANs are gone.                                                *)

\* Mutant: the rebuild forgets that the sticky addresses are on record.
SwRebuildForgets ==
  /\ security' = [p \in SwPorts |-> [security[p] EXCEPT !.down = FALSE, !.counted = FALSE]]
  /\ learned' = [p \in SwPorts |-> {}]
  /\ vlans' = Table
  /\ unlisted' = Drops(Vlans)
  /\ UNCHANGED <<peak, carries, stpVars>>

SwRebuild ==
  /\ security' = [p \in SwPorts |-> [security[p] EXCEPT !.down = FALSE, !.counted = FALSE]]
  /\ learned' = [p \in SwPorts |-> security[p].stuck \X {"sticky"}]
  /\ vlans' = Table
  /\ unlisted' = Drops(Vlans)
  /\ UNCHANGED <<peak, carries, stpVars>>

SwNext == SwRebuild \/ PsNext \/ VlanNext \/ StpNext

SwSpec == SwInit /\ [][SwNext]_swVars

-----------------------------------------------------------------------------
(* Properties.                                                             *)

SecurityType == [enabled : BOOLEAN, max : MaxMacs, action : Actions, sticky : BOOLEAN, aging : BOOLEAN,
                 bound : SUBSET Macs, stuck : SUBSET Macs, down : BOOLEAN, counted : BOOLEAN]
StpType      == [enabled : BOOLEAN, mode : {"stp", "rstp", "mstp"}, priority : StpPriorities,
                 standard : Standards, guards : SUBSET StpGuards, region : SUBSET RegionKeys,
                 msts : SUBSET (Msts \X MstKeys)]

SwTypeOK ==
  /\ security \in [SwPorts -> SecurityType]
  /\ learned \in [SwPorts -> SUBSET (Macs \X Kept)]
  /\ peak \in [SwPorts -> MaxMacs]
  /\ vlans \in [Vlans -> (SUBSET SwPorts) \cup {NoVlan}]
  /\ carries \in [SwPorts -> [default : Vlans \cup {NoVlan}, lists : SUBSET (ListedBy \X Vlans)]]
  /\ unlisted \subseteq SwPorts \X Vlans
  /\ stp \in StpType
  /\ stpPort \in [SwPorts -> [cost : StpCosts \cup {0}, edged : BOOLEAN, ranked : BOOLEAN]]
  /\ closed \subseteq SwPorts

\* A port never learns more addresses than it was allowed at its widest, none of them
\* twice, however the limit, the bindings and the rebuilds of the session follow each
\* other; what is stored as sticky is what the table holds as sticky; and a port that
\* security has taken down has a violation on record (portsec_eval.go).
SecureMacsCoherent ==
  \A p \in SwPorts :
    /\ Cardinality(learned[p]) = Cardinality(Known(p))
    /\ Cardinality(Known(p)) <= peak[p]
    /\ security[p].stuck = {m \in Macs : <<m, "sticky">> \in learned[p]}
    /\ security[p].down => security[p].counted

\* A VLAN that a port carries is in the table and lists the port, unless the VLAN was
\* created again or removed since, or the session was built again.
VlansListPorts ==
  \A p \in SwPorts, v \in Vlans :
    (carries[p].default = v \/ \E k \in ListedBy : <<k, v>> \in carries[p].lists) /\ <<p, v>> \notin unlisted
      => InTable(v) /\ p \in vlans[v]

\* Of the ports that are up and no edge ports exactly one is the root port, at most one is
\* blocked, and that one is never the only way out.
StpRolesSound ==
  LET with(r) == {p \in SwPorts : StpRole(p) = r}
  IN /\ Candidates # {} => Cardinality(with("ROOT")) = 1
     /\ Cardinality(with("ALTE")) <= 1
     /\ with("ALTE") # {} => \E p \in Candidates : StpForwards(p)
     /\ \A p \in SwPorts \ closed : stpPort[p].edged => StpForwards(p)

SwitchCoherent == SwTypeOK /\ SecureMacsCoherent /\ VlansListPorts /\ StpRolesSound
=============================================================================
