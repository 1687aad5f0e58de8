--------------------------- MODULE LinkAggregation ---------------------------
(***************************************************************************)
(* internal/cli/lag_cmd.go and lag_eval.go: link aggregation on a switch.  *)
(* Ports join a trunk, which two commands name differently (Eth-Trunk and  *)
(* Bridge-Aggregation); the evaluator derives the trunk's links and state  *)
(* from the configuration, and the commands copy that state into the       *)
(* table of interfaces that the displays read.                             *)
(*                                                                         *)
(* A key of the device's configuration is present or absent here as the    *)
(* member of a set or the argument of a function; where the code merges a  *)
(* default when it reads, an absent key is its default.                    *)
(***************************************************************************)
EXTENDS Naturals, FiniteSets, Functions

CONSTANTS
  Ports,        \* the physical interfaces
  Trunks,       \* aggregation group numbers
  Rank,         \* the position of a port in compareLAGMemberName's order
  Priorities,   \* LACP priorities of a port
  PortPriority, \* the default one
  LinkNumbers,  \* values of least and max active-linknumber
  MaxMembers,   \* lagMaxMembers
  Nobody        \* no trunk, no view

Families == {"Eth-Trunk", "Bridge-Aggregation"}
Names    == Families \X Trunks
Nowhere  == <<"none", Nobody>>   \* a port that is no member

ASSUME LagAssumption ==
  /\ IsFiniteSet(Ports) /\ Nobody \notin Ports \cup Trunks
  /\ Rank \in [Ports -> Nat] /\ \A p, q \in Ports : Rank[p] = Rank[q] => p = q
  /\ Priorities \subseteq Nat /\ PortPriority \in Priorities
  /\ MaxMembers \in Nat \ {0}
  /\ LinkNumbers \subseteq 1..MaxMembers /\ {1, MaxMembers} \subseteq LinkNumbers

VARIABLES
  at,       \* the interface whose view the session is in, <<"system", Nobody>> in the system view
  named,    \* the trunk names with an exists key
  member,   \* the family and trunk of each port
  lacp,     \* the trunks in mode lacp-static
  least, most,
  priority, \* lacp priority of each port
  settings, \* the keys below: pairs of owner and field
  down,     \* interfaces with a status key that says Down
  shown,    \* state.Interfaces restricted to trunks: name -> displayed as Up
  stale     \* ghost: trunks whose shown state was written or missed by a command below

lagVars == <<at, named, member, lacp, least, most, priority, settings, down, shown, stale>>

InSystem == <<"system", Nobody>>
Port(p)  == <<"port", p>>
Fields   == {"load-balance", "preempt", "preempt-delay", "timeout", "priority"}

InPortView  == at[1] = "port"
InTrunkView == at[1] \in Families
Here        == at[2]   \* the port or the trunk number of the view

-----------------------------------------------------------------------------
(* The evaluator.                                                          *)

Members(mem, t) == {p \in Ports : mem[p][2] = t}
Family(mem, t)  == {mem[p][1] : p \in Members(mem, t)}

\* lagTrunkExists: by either name, or by membership.
Exists(nam, mem, t) == (\E f \in Families : <<f, t>> \in nam) \/ Members(mem, t) # {}

\* CompareLACPPort: the system's own priority and address are the same for both.
Better(p, q) ==
  \/ priority[p] < priority[q]
  \/ priority[p] = priority[q] /\ Rank[p] < Rank[q]

UpMembers(mem, t) == {p \in Members(mem, t) : Port(p) \notin down}

\* SelectLACPActivePorts sorts the members that are up and takes the first of them.
Selected(mem, mst, t) ==
  {p \in UpMembers(mem, t) : Cardinality({q \in UpMembers(mem, t) : Better(q, p)}) < mst[t]}

Active(mem, lac, mst, t) == IF t \in lac THEN Selected(mem, mst, t) ELSE UpMembers(mem, t)

\* EvaluateLAG: the trunk is up when it has the least number of active links.
Operates(nam, mem, lac, lst, mst, t) ==
  LET n == Cardinality(Active(mem, lac, mst, t))
  IN Exists(nam, mem, t) /\ n >= lst[t] /\ n > 0

\* syncLAGTrunkIfaceStatus: a trunk that is shut down is shown down whatever its links do.
Synced(table, nam, mem, lac, lst, mst, t) ==
  [n \in DOMAIN table |-> IF n[2] # t THEN table[n]
                          ELSE n \notin down /\ Operates(nam, mem, lac, lst, mst, t)]
Sync(t) ==
  /\ shown' = Synced(shown, named', member', lacp', least', most', t)
  /\ stale' = stale \ {t}

-----------------------------------------------------------------------------
(* Views: interface, and back to the system view by quit.                  *)

LagInit ==
  /\ at = InSystem
  /\ named = {} /\ settings = {} /\ down = {} /\ lacp = {}
  /\ member = [p \in Ports |-> Nowhere]
  /\ least = [t \in Trunks |-> 1]
  /\ most = [t \in Trunks |-> MaxMembers]
  /\ priority = [p \in Ports |-> PortPriority]
  /\ shown = [n \in {} |-> FALSE] /\ stale = {}

EnterPort(p) ==
  /\ at = InSystem
  /\ at' = Port(p)
  /\ UNCHANGED <<named, member, lacp, least, most, priority, settings, down, shown, stale>>

\* interface Eth-Trunk <t>, interface Bridge-Aggregation <t>
EnterTrunk(n) ==
  /\ at = InSystem
  /\ at' = n
  /\ named' = named \cup {n}
  /\ UNCHANGED <<member, lacp, least, most, priority, settings, down>>
  /\ shown' = Synced([m \in DOMAIN shown \cup {n} |-> m \in DOMAIN shown /\ shown[m]],
                     named', member, lacp, least, most, n[2])
  /\ stale' = stale \ {n[2]}

LeaveView ==
  /\ at # InSystem
  /\ at' = InSystem
  /\ UNCHANGED <<named, member, lacp, least, most, priority, settings, down, shown, stale>>

-----------------------------------------------------------------------------
(* Members.                                                                *)

\* applyEthTrunkMember's checks; a port of the same trunk is accepted without effect.
MayJoin(mem, p, f, t) ==
  /\ Exists(named, mem, t)
  /\ mem[p] = Nowhere
  /\ Cardinality(Members(mem, t)) < MaxMembers
  /\ Family(mem, t) \subseteq {f}

Joined(mem, p, f, t) == [mem EXCEPT ![p] = <<f, t>>]
Left(mem, P)         == [p \in Ports |-> IF p \in P THEN Nowhere ELSE mem[p]]

\* eth-trunk <t>, port link-aggregation group <t>
JoinTrunk(f, t) ==
  /\ InPortView /\ MayJoin(member, Here, f, t)
  /\ member' = Joined(member, Here, f, t)
  /\ UNCHANGED <<at, named, lacp, least, most, priority, settings, down>>
  /\ Sync(t)

\* undo eth-trunk, undo port link-aggregation group
LeaveTrunk ==
  /\ InPortView /\ member[Here] # Nowhere
  /\ member' = Left(member, {Here})
  /\ UNCHANGED <<at, named, lacp, least, most, priority, settings, down>>
  /\ Sync(member[Here][2])

\* The ports of a range, in its order: the neighbours in rank from p to q.
Between(p, q) == {r \in Ports : Rank[p] <= Rank[r] /\ Rank[r] <= Rank[q]}
Before(R, p)  == {r \in R : Rank[r] < Rank[p]}

\* trunkport p to q: one port after the other, up to the first that may not join.
TrunkPort(p, q) ==
  LET t == Here
      R == Between(p, q)
      With(S) == [r \in Ports |-> IF r \in S /\ member[r] = Nowhere THEN <<at[1], t>> ELSE member[r]]
      Accepts(r) == member[r][2] = t \/ MayJoin(With(Before(R, r)), r, at[1], t)
      Taken == {r \in R : \A s \in Before(R, r) \cup {r} : Accepts(s)}
  IN /\ InTrunkView
     /\ Cardinality(R) \in 1..MaxMembers
     /\ \E r \in Taken : member[r] = Nowhere
     /\ member' = With(Taken)
     /\ UNCHANGED <<at, named, lacp, least, most, priority, settings, down>>
     /\ Sync(t)

\* undo trunkport p to q: up to the first port that is no member, which ends the
\* command before the trunk's state is derived again.
UndoTrunkPort(p, q) ==
  LET t == Here
      R == Between(p, q)
      Gone == {r \in R : \A s \in Before(R, r) \cup {r} : member[s][2] = t}
  IN /\ InTrunkView
     /\ Cardinality(R) \in 1..MaxMembers /\ Gone # {}
     /\ member' = Left(member, Gone)
     /\ UNCHANGED <<at, named, lacp, least, most, priority, settings, down>>
     /\ IF Gone = R THEN Sync(t) ELSE stale' = stale \cup {t} /\ UNCHANGED shown

-----------------------------------------------------------------------------
(* Settings of a trunk.                                                    *)

\* mode and link-aggregation mode: out of lacp-static only without members.
SetMode ==
  /\ InTrunkView
  /\ \/ lacp' = lacp \cup {Here}
     \/ /\ Here \in lacp => Members(member, Here) = {}
        /\ lacp' = lacp \ {Here}
  /\ UNCHANGED <<at, named, member, least, most, priority, settings, down>>
  /\ Sync(Here)

\* least active-linknumber and its undo
SetLeast(n) ==
  /\ InTrunkView
  /\ n <= most[Here]
  /\ least' = [least EXCEPT ![Here] = n]
  /\ UNCHANGED <<at, named, member, lacp, most, priority, settings, down>>
  /\ Sync(Here)

\* max active-linknumber and its undo
SetMost(n) ==
  /\ InTrunkView
  /\ least[Here] <= n
  /\ most' = [most EXCEPT ![Here] = n]
  /\ UNCHANGED <<at, named, member, lacp, least, priority, settings, down>>
  /\ Sync(Here)

\* lacp priority and its undo, in a port's view: nothing is derived from it until
\* the trunk's state is derived for another reason.
SetPriority(n) ==
  /\ InPortView
  /\ priority' = [priority EXCEPT ![Here] = n]
  /\ UNCHANGED <<at, named, member, lacp, least, most, settings, down, shown, stale>>

\* load-balance is a trunk's; lacp preempt, preempt delay and timeout are the system's in
\* the system view and the trunk's in its own; lacp priority is the system's or a port's.
SetField(f) ==
  /\ \/ InTrunkView /\ f # "priority"
     \/ at = InSystem /\ f # "load-balance"
  /\ settings' = settings \cup {<<Here, f>>}
  /\ UNCHANGED <<at, named, member, lacp, least, most, priority, down, shown, stale>>

\* Their undo is accepted in a port's view too, where it deletes the system's setting.
UndoField(f) ==
  /\ f = "load-balance" => InTrunkView
  /\ f = "priority" => at = InSystem
  /\ settings' = settings \ {<<IF InTrunkView THEN Here ELSE Nobody, f>>}
  /\ UNCHANGED <<at, named, member, lacp, least, most, priority, down, shown, stale>>

-----------------------------------------------------------------------------
(* shutdown and its undo write the interface's key and its entry in the    *)
(* table, of a trunk as of a port.                                         *)

JoinedBy(p) == {t \in Trunks : p \in Members(member, t)}

Show(up) == shown' = [n \in DOMAIN shown |-> IF n = at THEN up ELSE shown[n]]

Shutdown ==
  /\ at # InSystem
  /\ down' = down \cup {at}
  /\ Show(FALSE)
  /\ stale' = IF InPortView THEN stale \cup JoinedBy(Here) ELSE stale
  /\ UNCHANGED <<at, named, member, lacp, least, most, priority, settings>>

UndoShutdown ==
  /\ at # InSystem
  /\ down' = down \ {at}
  /\ Show(TRUE)
  /\ stale' = stale \cup (IF InPortView THEN JoinedBy(Here) ELSE {Here})
  /\ UNCHANGED <<at, named, member, lacp, least, most, priority, settings>>

\* Mutant: a trunk is deleted under its members.
UndoInterfaceAnyway(t) ==
  /\ at = InSystem
  /\ named' = {n \in named : n[2] # t}
  /\ shown' = Restrict(shown, {n \in DOMAIN shown : n[2] # t})
  /\ UNCHANGED <<at, member, lacp, least, most, priority, settings, down, stale>>

\* undo interface <trunk>, in the system view: both names of a trunk without members
\* and what is configured under them.
UndoInterface(t) ==
  /\ at = InSystem /\ Members(member, t) = {}
  /\ named' = {n \in named : n[2] # t}
  /\ lacp' = lacp \ {t}
  /\ least' = [least EXCEPT ![t] = 1]
  /\ most' = [most EXCEPT ![t] = MaxMembers]
  /\ settings' = {s \in settings : s[1] # t}
  /\ down' = {n \in down : n[1] \notin Families \/ n[2] # t}
  /\ shown' = Restrict(shown, {n \in DOMAIN shown : n[2] # t})
  /\ stale' = stale \ {t}
  /\ UNCHANGED <<at, member, priority>>

\* The state is built again from the stored configuration. A device with interfaces of
\* its own loses the trunks that LoadFromDeviceConfigData has put into the table, one
\* without keeps them, each under the name of its family.
ShownName(t) ==
  LET f == IF Members(member, t) # {} THEN CHOOSE g \in Family(member, t) : TRUE
           ELSE IF <<"Eth-Trunk", t>> \in named THEN "Eth-Trunk" ELSE "Bridge-Aggregation"
  IN <<f, t>>

Reload ==
  /\ at' = InSystem /\ stale' = {}
  /\ UNCHANGED <<named, member, lacp, least, most, priority, settings, down>>
  /\ \/ shown' = [n \in {} |-> FALSE]
     \/ shown' = [n \in {ShownName(t) : t \in {u \in Trunks : Exists(named, member, u)}} |->
                    n \notin down /\ Operates(named, member, lacp, least, most, n[2])]

LagNext ==
  \/ LeaveView \/ LeaveTrunk \/ SetMode \/ Shutdown \/ UndoShutdown \/ Reload
  \/ \E p \in Ports : EnterPort(p)
  \/ \E n \in Names : EnterTrunk(n)
  \/ \E f \in Families, t \in Trunks : JoinTrunk(f, t)
  \/ \E p, q \in Ports : TrunkPort(p, q) \/ UndoTrunkPort(p, q)
  \/ \E n \in LinkNumbers : SetLeast(n) \/ SetMost(n)
  \/ \E n \in Priorities : SetPriority(n)
  \/ \E f \in Fields : SetField(f) \/ UndoField(f)
  \/ \E t \in Trunks : UndoInterface(t)

LagSpec == LagInit /\ [][LagNext]_lagVars

-----------------------------------------------------------------------------
(* Properties.                                                             *)

LagTypeOK ==
  /\ at \in {InSystem} \cup {Port(p) : p \in Ports} \cup Names
  /\ named \subseteq Names
  /\ member \in [Ports -> {Nowhere} \cup Names]
  /\ lacp \subseteq Trunks
  /\ least \in [Trunks -> LinkNumbers] /\ most \in [Trunks -> LinkNumbers]
  /\ priority \in [Ports -> Priorities]
  /\ settings \subseteq (Trunks \cup {Nobody}) \X Fields
  /\ down \subseteq {Port(p) : p \in Ports} \cup Names
  /\ DOMAIN shown \subseteq Names /\ shown \in [DOMAIN shown -> BOOLEAN]
  /\ stale \subseteq Trunks

\* A trunk that has members was created and not deleted, its members joined it by
\* commands of one family, and there are no more of them than the switch allows.
MembersAreHoused ==
  \A t \in Trunks :
    LET M == Members(member, t)
    IN /\ M # {} => \E f \in Families : <<f, t>> \in named
       /\ \A p, q \in M : member[p][1] = member[q][1]
       /\ Cardinality(M) <= MaxMembers

\* The two thresholds of a trunk stay in order, in whatever order they are set and undone.
ThresholdsOrdered == \A t \in Trunks : least[t] <= most[t]

\* A trunk is shown as its members make it, and down when it is shut down itself (the
\* comment on interface in parser.go: an aggregate's state is always derived, never
\* written), whatever joins, leaves, names and thresholds were configured; except since
\* its state was last derived a member was shut down or up, undo shutdown was given to the
\* trunk, or an undo trunkport stopped half-way.
StatusDerived ==
  \A n \in DOMAIN shown :
    n[2] \notin stale =>
      shown[n] = (n \notin down /\ Operates(named, member, lacp, least, most, n[2]))

TrunksCoherent == LagTypeOK /\ MembersAreHoused /\ ThresholdsOrdered /\ StatusDerived
=============================================================================
