---------------------------- MODULE ProtocolTimers ----------------------------
(***************************************************************************)
(* The protocol simulators that run goroutines of their own                *)
(* (internal/protocol/stp.go, ospf.go, bgp.go, icmp.go): a bridge whose    *)
(* ports move to forwarding, a router whose neighbours come and die, one   *)
(* whose BGP neighbours are being connected, and pings that share one set  *)
(* of counters.  Every handler holds the protocol's lock; a goroutine      *)
(* holds it for each of its steps and sleeps in between, so that handlers  *)
(* and other goroutines come between two steps.  Sleeps have no length     *)
(* here: the goroutines of one port may wake in any order.                 *)
(***************************************************************************)
EXTENDS Integers, FiniteSets

CONSTANTS
  StpIfs, IfCosts,        \* the bridge's interfaces and the costs they may be given
  Bridges, Me,            \* bridge identifiers, numbers that compare as they do
  RootCosts,              \* the root path costs that BPDUs carry
  MaxMovers, MaxBpdus,    \* bounds on goroutines of one port and on BPDUs
  Routers,                \* OSPF neighbours, numbers that compare as their addresses do
  MaxReadds,              \* how often the OSPF interface is configured again
  Nbrs, Announced,        \* BGP neighbours and prefixes
  MaxAdds, MaxRoutes,     \* bounds on AddNeighbor calls and on routes to one prefix
  Callers, PingCount,     \* callers of Ping, echo requests per call
  MaxEchoes               \* bound on echo requests handled and on calls of Ping

ASSUME TimersAssumption ==
  /\ IfCosts \subseteq Nat /\ "none" \notin StpIfs
  /\ Bridges \subseteq Nat /\ Me \in Bridges /\ RootCosts \subseteq Nat
  /\ Routers \subseteq Nat \ {0} /\ IsFiniteSet(Routers)
  /\ {MaxMovers, PingCount, MaxRoutes} \subseteq Nat \ {0}
  /\ {MaxBpdus, MaxReadds, MaxAdds, MaxEchoes} \subseteq Nat

VARIABLES
  stpIf,    \* interface -> state, role and cost, or Gone before it is added
  rootId, rootCost, rootPort,
  movers,   \* interface -> goroutines of transitionToForwarding, by the sleep they are in
  bpdus,
  ospfNbr,  \* neighbour -> its state
  silent,   \* neighbours whose dead timer has run out
  dr, bdr, readds,
  peers,    \* BGP neighbour -> state, and the prefixes it was sent, counted
  connects, \* BGP neighbour -> goroutines of connectToNeighbor that have not begun
  strays,   \* BGP neighbours that were replaced while their goroutine was connecting them
  ribs,     \* prefix -> number of routes to it
  adds,
  sent, received,  \* ICMPStats
  caller,   \* caller of Ping -> where it is, requests left
  echoes, mixed,
  icmpOn, answering  \* the protocol is enabled; echo requests that HandlePacket is answering

stpVarsP == <<stpIf, rootId, rootCost, rootPort, movers, bpdus>>
ospfVars == <<ospfNbr, silent, dr, bdr, readds>>
bgpVars  == <<peers, connects, strays, ribs, adds>>
icmpVars == <<sent, received, caller, echoes, mixed, icmpOn, answering>>
timerVars == <<stpIf, rootId, rootCost, rootPort, movers, bpdus, ospfNbr, silent, dr, bdr, readds,
               peers, connects, strays, ribs, adds, sent, received, caller, echoes, mixed, icmpOn, answering>>

Gone     == [state |-> "Gone", role |-> "None", cost |-> 0]
NoIf     == "none"
NoRouter == 0
NoPeer   == [state |-> "Gone", told |-> [x \in Announced |-> 0]]
Resting  == [pc |-> "idle", left |-> 0, asked |-> 0, got |-> 0]

TimersInit ==
  /\ stpIf = [i \in StpIfs |-> Gone]
  /\ rootId = Me /\ rootCost = 0 /\ rootPort = NoIf
  /\ movers = [i \in StpIfs |-> [listen |-> 0, learn |-> 0]]
  /\ bpdus = 0
  /\ ospfNbr = [r \in Routers |-> "Unknown"]
  /\ silent = {} /\ dr = NoRouter /\ bdr = NoRouter /\ readds = 0
  /\ peers = [n \in Nbrs |-> NoPeer]
  /\ connects = [n \in Nbrs |-> 0] /\ strays = 0
  /\ ribs = [x \in Announced |-> 0] /\ adds = 0
  /\ sent = 0 /\ received = 0 /\ echoes = 0 /\ mixed = FALSE
  /\ icmpOn = TRUE /\ answering = 0
  /\ caller = [c \in Callers |-> Resting]

-----------------------------------------------------------------------------
(* STP.                                                                    *)

\* AddInterface, over one that is there too, with another cost perhaps: its goroutines go
\* on, and the bridge keeps it as its root port and the cost of the way over it.
AddStpInterface(i, cost) ==
  /\ stpIf' = [stpIf EXCEPT ![i] = [state |-> "Blocking", role |-> "Designated", cost |-> cost]]
  /\ UNCHANGED <<rootId, rootCost, rootPort, movers, bpdus>>

\* ReceiveBPDU: a better root, or a shorter way to the same one, makes the interface the
\* root port; the one that was keeps its role.  Then every port that does not forward
\* yet begins to listen, with a goroutine that is to take it further.
ReceiveBpdu(i, b, c) ==
  LET cost   == c + stpIf[i].cost
      better == b < rootId \/ (b = rootId /\ cost < rootCost)
      role   == IF better THEN "Root" ELSE stpIf[i].role
      begins == stpIf[i].state # "Forwarding"
  IN /\ stpIf[i] # Gone /\ bpdus < MaxBpdus
     /\ begins => movers[i].listen < MaxMovers
     /\ bpdus' = bpdus + 1
     /\ rootId' = IF better THEN b ELSE rootId
     /\ rootCost' = IF better THEN cost ELSE rootCost
     /\ rootPort' = IF better THEN i ELSE rootPort
     /\ stpIf' = [stpIf EXCEPT ![i] = [state |-> IF begins THEN "Listening" ELSE @.state,
                                        role |-> role, cost |-> @.cost]]
     /\ movers' = IF begins THEN [movers EXCEPT ![i].listen = @ + 1] ELSE movers

\* Mutant: a goroutine goes no further than the learning state.
WakeAndEnd(i) ==
  /\ movers[i].listen > 0
  /\ movers' = [movers EXCEPT ![i].listen = @ - 1]
  /\ stpIf' = IF stpIf[i].state = "Listening" THEN [stpIf EXCEPT ![i].state = "Learning"] ELSE stpIf
  /\ UNCHANGED <<rootId, rootCost, rootPort, bpdus>>

\* A goroutine of transitionToForwarding wakes: if the port is in the state it left it in,
\* it goes one further, otherwise the goroutine ends.
WakeListening(i) ==
  LET goesOn == stpIf[i].state = "Listening"
  IN /\ movers[i].listen > 0 /\ (goesOn => movers[i].learn < MaxMovers)
     /\ movers' = [movers EXCEPT ![i] = [listen |-> @.listen - 1, learn |-> IF goesOn THEN @.learn + 1 ELSE @.learn]]
     /\ stpIf' = IF goesOn THEN [stpIf EXCEPT ![i].state = "Learning"] ELSE stpIf
     /\ UNCHANGED <<rootId, rootCost, rootPort, bpdus>>

WakeLearning(i) ==
  /\ movers[i].learn > 0
  /\ movers' = [movers EXCEPT ![i].learn = @ - 1]
  /\ stpIf' = IF stpIf[i].state = "Learning" THEN [stpIf EXCEPT ![i].state = "Forwarding"] ELSE stpIf
  /\ UNCHANGED <<rootId, rootCost, rootPort, bpdus>>

StpSim ==
  /\ \E i \in StpIfs : \/ WakeListening(i) \/ WakeLearning(i)
                       \/ \E cost \in IfCosts : AddStpInterface(i, cost)
                       \/ \E b \in Bridges, c \in RootCosts : ReceiveBpdu(i, b, c)
  /\ UNCHANGED <<ospfVars, bgpVars, icmpVars>>

-----------------------------------------------------------------------------
(* OSPF, on one interface.                                                 *)

TwoWay(nbr)  == {r \in DOMAIN nbr : nbr[r] = "2-Way"}
Greatest(R)  == CHOOSE r \in R : \A q \in R : q <= r

\* electDRBDR: the greatest address and the next one of the neighbours in 2-Way.
Elect(nbr) ==
  LET R == TwoWay(nbr)
      S == R \ {Greatest(R)}
  IN /\ dr' = Greatest(R)
     /\ bdr' = IF S = {} THEN bdr ELSE Greatest(S)

\* ReceiveHello: a neighbour that was declared dead is not taken up again.
ReceiveHello(r, seesUs) ==
  LET known == IF ospfNbr[r] = "Unknown" THEN "Init" ELSE ospfNbr[r]
      nbr   == [ospfNbr EXCEPT ![r] = IF seesUs /\ known = "Init" THEN "2-Way" ELSE known]
  IN /\ ospfNbr' = nbr
     /\ silent' = silent \ {r}
     /\ IF dr = NoRouter /\ nbr[r] = "2-Way" THEN Elect(nbr) ELSE UNCHANGED <<dr, bdr>>
     /\ UNCHANGED readds

\* Forty seconds without a hello
FallSilent(r) ==
  /\ ospfNbr[r] # "Unknown"
  /\ silent' = silent \cup {r}
  /\ UNCHANGED <<ospfNbr, dr, bdr, readds>>

\* checkDeadNeighbors: the interface keeps a designated router that is dead.
CheckDead ==
  /\ ospfNbr' = [r \in Routers |-> IF r \in silent THEN "Down" ELSE ospfNbr[r]]
  /\ UNCHANGED <<silent, dr, bdr, readds>>

\* AddInterface again: a new interface without a designated router; the neighbours stay.
ReaddOspfInterface ==
  /\ readds < MaxReadds
  /\ readds' = readds + 1
  /\ dr' = NoRouter /\ bdr' = NoRouter
  /\ UNCHANGED <<ospfNbr, silent>>

OspfSim ==
  /\ CheckDead \/ ReaddOspfInterface \/ \E r \in Routers : FallSilent(r) \/ (\E b \in BOOLEAN : ReceiveHello(r, b))
  /\ UNCHANGED <<stpVarsP, bgpVars, icmpVars>>

-----------------------------------------------------------------------------
(* BGP.                                                                    *)

Connecting == {"Connect", "OpenSent", "OpenConfirm"}
Onward(s)  == CASE s = "Connect" -> "OpenSent" [] s = "OpenSent" -> "OpenConfirm" [] OTHER -> "Established"

\* Mutant: a neighbour that is replaced keeps what the old one was told.
AddNeighborKeeps(n) ==
  /\ adds < MaxAdds
  /\ adds' = adds + 1
  /\ peers' = [peers EXCEPT ![n].state = "Idle"]
  /\ connects' = [connects EXCEPT ![n] = @ + 1]
  /\ UNCHANGED <<ribs, strays>>

\* AddNeighbor, of one that is there too: the goroutine that connects the old structure
\* goes on with that one.
AddNeighbor(n) ==
  /\ adds < MaxAdds
  /\ adds' = adds + 1
  /\ strays' = IF peers[n].state \in Connecting THEN strays + 1 ELSE strays
  /\ peers' = [peers EXCEPT ![n] = [NoPeer EXCEPT !.state = "Idle"]]
  /\ connects' = [connects EXCEPT ![n] = @ + 1]
  /\ UNCHANGED ribs

\* connectToNeighbor begins: it takes the structure that the map has now, unless another
\* goroutine has taken it.
BeginConnect(n) ==
  /\ connects[n] > 0
  /\ connects' = [connects EXCEPT ![n] = @ - 1]
  /\ peers' = IF peers[n].state = "Idle" THEN [peers EXCEPT ![n].state = "Connect"] ELSE peers
  /\ UNCHANGED <<strays, ribs, adds>>

GoOnConnecting(n) ==
  /\ peers[n].state \in Connecting
  /\ peers' = [peers EXCEPT ![n].state = Onward(@)]
  /\ UNCHANGED <<connects, strays, ribs, adds>>

\* The goroutine of a structure that was replaced
EndStray ==
  /\ strays > 0
  /\ strays' = strays - 1
  /\ UNCHANGED <<peers, connects, ribs, adds>>

IsUp(n) == peers[n].state = "Established"
Less(n) == IF n = 0 THEN 0 ELSE n - 1
\* Neighbours that are up are told of x, or no longer.
Tell(x)   == [n \in Nbrs |-> IF IsUp(n) THEN [peers[n] EXCEPT !.told[x] = @ + 1] ELSE peers[n]]
Untell(x) == [n \in Nbrs |-> IF IsUp(n) THEN [peers[n] EXCEPT !.told[x] = Less(@)] ELSE peers[n]]

\* SendUpdate adds a route even to a prefix that has one; ReceiveUpdate does not.
SendUpdate(x) ==
  /\ ribs[x] < MaxRoutes
  /\ ribs' = [ribs EXCEPT ![x] = @ + 1]
  /\ peers' = Tell(x)
  /\ UNCHANGED <<connects, strays, adds>>

ReceiveUpdate(n, x) ==
  /\ peers[n] # NoPeer
  /\ ribs[x] = 0
  /\ ribs' = [ribs EXCEPT ![x] = 1]
  /\ UNCHANGED <<peers, connects, strays, adds>>

\* WithdrawRoute removes one route and one announcement from each neighbour that is up.
WithdrawRoute(x) ==
  /\ ribs' = [ribs EXCEPT ![x] = Less(@)]
  /\ peers' = Untell(x)
  /\ UNCHANGED <<connects, strays, adds>>

BgpSim ==
  /\ \/ EndStray
     \/ \E n \in Nbrs : AddNeighbor(n) \/ BeginConnect(n) \/ GoOnConnecting(n)
     \/ \E x \in Announced : SendUpdate(x) \/ WithdrawRoute(x) \/ (\E n \in Nbrs : ReceiveUpdate(n, x))
  /\ UNCHANGED <<stpVarsP, ospfVars, icmpVars>>

-----------------------------------------------------------------------------
(* ICMP: every Ping of a device sets the counters back and counts in them. *)

Move(c, pc, r) == caller' = [caller EXCEPT ![c] = [r EXCEPT !.pc = pc]]

\* Ping.  Ghost mixed: the counters are of more than one use since they were last set
\* back, another ping that was under way or echo requests that were answered.
BeginPing(c) ==
  /\ caller[c].pc = "idle" /\ echoes < MaxEchoes
  /\ echoes' = echoes + 1
  /\ Move(c, "send", [Resting EXCEPT !.left = PingCount])
  /\ sent' = 0 /\ received' = 0
  /\ mixed' = \E d \in Callers : caller[d].pc # "idle"
  /\ UNCHANGED <<icmpOn, answering>>

After(left) == IF left = 0 THEN "idle" ELSE "send"

\* sendEchoRequest; a protocol that is disabled fails without counting.
SendEcho(c) ==
  LET left == caller[c].left - 1
  IN /\ caller[c].pc = "send"
     /\ IF icmpOn
        THEN /\ Move(c, "wait", [caller[c] EXCEPT !.left = left, !.asked = @ + 1])
             /\ sent' = sent + 1
        ELSE /\ Move(c, After(left), [caller[c] EXCEPT !.left = left])
             /\ UNCHANGED sent
     /\ UNCHANGED <<received, echoes, mixed, icmpOn, answering>>

\* The reply, or the timeout, and the next request or the end.
EndEcho(c, answered) ==
  /\ caller[c].pc = "wait"
  /\ Move(c, After(caller[c].left), [caller[c] EXCEPT !.got = IF answered THEN @ + 1 ELSE @])
  /\ received' = IF answered THEN received + 1 ELSE received
  /\ UNCHANGED <<sent, echoes, mixed, icmpOn, answering>>

\* HandlePacket counts the echo request and, in another critical section, its answer, both
\* under a lock that the pings do not take: an increment may be lost.
HandleEcho ==
  /\ icmpOn /\ echoes < MaxEchoes
  /\ echoes' = echoes + 1
  /\ answering' = answering + 1
  /\ received' \in {received, received + 1}
  /\ mixed' = TRUE
  /\ UNCHANGED <<sent, caller, icmpOn>>

AnswerEcho ==
  /\ answering > 0
  /\ answering' = answering - 1
  /\ sent' \in {sent, sent + 1}
  /\ mixed' = TRUE
  /\ UNCHANGED <<received, echoes, caller, icmpOn>>

\* Enable, Disable
SwitchIcmp == icmpOn' = ~ icmpOn /\ UNCHANGED <<sent, received, caller, echoes, mixed, answering>>

IcmpSim ==
  /\ \/ HandleEcho \/ AnswerEcho \/ SwitchIcmp
     \/ \E c \in Callers : BeginPing(c) \/ SendEcho(c) \/ (\E b \in BOOLEAN : EndEcho(c, b))
  /\ UNCHANGED <<stpVarsP, ospfVars, bgpVars>>

TimersSpec == TimersInit /\ [][StpSim \/ OspfSim \/ BgpSim \/ IcmpSim]_timerVars

-----------------------------------------------------------------------------
\* Goroutines that sleep wake up.
StpFairness ==
  \A i \in StpIfs : WF_stpVarsP(WakeListening(i)) /\ WF_stpVarsP(WakeLearning(i))
BgpFairness ==
  \A n \in Nbrs : WF_bgpVars(BeginConnect(n)) /\ WF_bgpVars(GoOnConnecting(n))

-----------------------------------------------------------------------------
(* Properties.                                                             *)

TimersTypeOK ==
  /\ \A i \in StpIfs : \/ stpIf[i] = Gone
                       \/ stpIf[i] \in [state : {"Blocking", "Listening", "Learning", "Forwarding"},
                                       role : {"Root", "Designated"}, cost : IfCosts]
  /\ rootId \in Bridges /\ rootCost \in Nat /\ rootPort \in StpIfs \cup {NoIf}
  /\ movers \in [StpIfs -> [listen : 0..MaxMovers, learn : 0..MaxMovers]]
  /\ ospfNbr \in [Routers -> {"Unknown", "Init", "2-Way", "Down"}]
  /\ silent \subseteq Routers /\ {dr, bdr} \subseteq Routers \cup {NoRouter}
  /\ \A n \in Nbrs : peers[n].state \in {"Gone", "Idle", "Established"} \cup Connecting
  /\ connects \in [Nbrs -> 0..MaxAdds] /\ strays \in 0..MaxAdds
  /\ ribs \in [Announced -> 0..MaxRoutes]
  /\ {sent, received} \subseteq Nat
  /\ \A c \in Callers : caller[c].pc \in {"idle", "send", "wait"} /\ {caller[c].left, caller[c].asked, caller[c].got} \subseteq 0..PingCount

\* A port on its way to forwarding always has a goroutine that will take it one further,
\* whatever BPDUs set it back and whatever goroutines they have left behind.
PortsAreMoved ==
  \A i \in StpIfs : /\ stpIf[i].state = "Listening" => movers[i].listen > 0
                    /\ stpIf[i].state = "Learning"  => movers[i].learn > 0

\* A bridge has a root port exactly when it knows a better root than itself, and while that
\* port has the role the way to the root costs at least what the port costs.  A root port
\* that is added again has lost the role, and may cost more than the whole way until a
\* BPDU makes it the root port again (stp.go, AddInterface).
RootIsLed ==
  /\ rootPort = NoIf <=> rootId = Me
  /\ rootPort # NoIf /\ stpIf[rootPort].role = "Root" => rootCost >= stpIf[rootPort].cost

\* Of two neighbours that are found one after the other the second never becomes the
\* backup: an election is held when the first is found, and another only on an interface
\* that is configured again (ospf.go, electDRBDR).
ElectionsDiffer ==
  /\ bdr # NoRouter => bdr # dr /\ dr # NoRouter
  /\ bdr # NoRouter => readds > 0
  /\ dr = NoRouter => TwoWay(ospfNbr) = {} \/ readds > 0

\* No neighbour keeps more announcements of a prefix than there are routes to it, and one
\* that is not connected has none.
AnnouncedIsRouted ==
  \A n \in Nbrs, x \in Announced :
    peers[n].told[x] <= ribs[x] /\ (peers[n].told[x] > 0 => IsUp(n))

\* A neighbour that is to be connected has the goroutine that will do it.
NeighborsAreTaken == \A n \in Nbrs : peers[n].state = "Idle" => connects[n] > 0

\* One ping at a time finds its own requests and replies in the counters, from which
\* FormatPingResults computes the loss; two at a time, or one that is interrupted by echo
\* requests, may find more replies than requests.
LossIsALoss ==
  ~ mixed => \A c \in Callers : caller[c].pc # "idle" => sent = caller[c].asked /\ received = caller[c].got

TimersSound ==
  /\ TimersTypeOK /\ PortsAreMoved /\ RootIsLed /\ ElectionsDiffer
  /\ AnnouncedIsRouted /\ NeighborsAreTaken /\ LossIsALoss

\* Once BPDUs stop, a port that listens forwards, unless it is added again; a neighbour
\* that was added is connected (transitionToForwarding, connectToNeighbor).
TimersSettle ==
  /\ \A i \in StpIfs : stpIf[i].state = "Listening" ~> stpIf[i].state \in {"Forwarding", "Blocking"}
  /\ \A n \in Nbrs : peers[n].state = "Idle" ~> IsUp(n)
=============================================================================
