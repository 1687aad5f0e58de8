----------------------------- MODULE NetworkProofs -----------------------------
(***************************************************************************)
(* The network as the program imitates it: the pings of one engine and the *)
(* protocol simulators with goroutines or tables, for any number of them   *)
(* and any interleaving.                                                   *)
(*                                                                         *)
(* The engine: no reply is sent on a closed channel, every probe that      *)
(* counts as received without an answer is explained, nothing is queued    *)
(* for a closed engine, and no more pings run than there are slots.        *)
(* Unless it is excused, a ping that waits has its identifier for itself   *)
(* among the pings, and among the packets under way only its own carry it; *)
(* so what fills its channel is its answer.                                *)
(*                                                                         *)
(* The bridge: a better root has a smaller identifier than the bridge has, *)
(* and while it is its own root the cost is zero, which no way to it can   *)
(* be below.  The elections: the first neighbour that is found is alone.   *)
(* The counters of ICMP: unless they are mixed one caller uses them.       *)
(* Port translation: what is about to be stored is not below the first     *)
(* port.  Telnet: until one is closed, connections have ports below the    *)
(* next one by their number.                                               *)
(*                                                                         *)
(* The routers: a call that nothing comes between leads from a good router *)
(* to a good one, shown by a set that each of its steps stays in.  A pass  *)
(* over a table finds the best row by induction along its positions.       *)
(*                                                                         *)
(* The routers of FRR: but for the writes under way a file holds what was  *)
(* applied last, and a router knows the daemons that it is to have.        *)
(***************************************************************************)
EXTENDS NsxEngine, ProtocolTimers, ProtocolTables, ProtocolRouters, RouterBackend, Numbers,
        FiniteSetTheorems, FunctionTheorems, SequenceTheorems, TLAPS

-----------------------------------------------------------------------------
(* The engine.                                                             *)

\* A ping in progress has probes left until it counts its last one.
ProbesCounted ==
  \A p \in Pingers :
    /\ left[p] <= Probes
    /\ pc[p] \in {"probe", "send", "enqueue", "wait"} => left[p] > 0

\* Once its probe is counted, nothing is sent to a ping any more.
CountedIsDeaf == \A p \in Pingers : pc[p] = "deregister" => chan[p] \in {"none", "closed"}

\* Two pings that use one identifier are both excused.
IdsAreOwn ==
  \A p, q \in Probing : p # q /\ id[p] = id[q] => q \in excused

\* A packet under way with the identifier of a ping is the one it has sent last.
PacketsAreOwn ==
  \A p \in Probing \ excused, k \in UnderWay :
    pc[p] # "deregister" /\ k.id = id[p] => k.from = p /\ k.probe = left[p]

\* Why a channel is closed or has a value in it.
ChannelsExplained ==
  \A p \in Probing : /\ chan[p] = "closed" => p \in excused
                     /\ chan[p] = "full" => p \in replied \cup excused

Own == IdsAreOwn /\ PacketsAreOwn

IInv == /\ TypeOK /\ ProbesCounted
        /\ RegisteredIsLive /\ CountedIsDeaf
        /\ Own /\ ChannelsExplained
        /\ SpuriousExplained

\* No more pings are under way than the engine has slots (pingSlots).
SlotsRespected == Cardinality(Holding) <= slots

\* What a poll leaves under way was there before.
LEMMA PolledIsUnderWay == TypeOK /\ Poll => UnderWay' \subseteq UnderWay
<1> SUFFICES ASSUME TypeOK, Poll, NEW k \in UnderWay' PROVE k \in UnderWay
  OBVIOUS
<1>1. pending \in Seq(Packets) /\ pending # <<>> /\ Len(pending) \in Nat /\ Len(pending) > 0
  BY DEF Poll, TypeOK
<1>2. CASE k = Head(pending)
  BY <1>1, <1>2 DEF UnderWay
<1>3. CASE \E n \in 1..Len(Tail(pending)) : k = Tail(pending)[n]
  <2>1. PICK n \in 1..Len(Tail(pending)) : k = Tail(pending)[n]
    BY <1>3
  <2>2. n + 1 \in 1..Len(pending) /\ k = pending[n + 1]
    BY <1>1, <2>1
  <2> QED
    BY <2>2 DEF UnderWay
<1> QED
  BY <1>2, <1>3 DEF Poll, UnderWay

\* A ping puts nothing under way but its own packet.
LEMMA QueuedIsUnderWay ==
  ASSUME TypeOK, NEW p \in Pingers, SendQueues(p) PROVE UnderWay' \subseteq UnderWay \cup {Packet(p)}
<1>1. pending \in Seq(Packets)
  BY DEF TypeOK
<1>2. CASE pending' = pending
  BY <1>2 DEF SendQueues, UnderWay
<1>3. CASE pending' = Append(pending, Packet(p))
  <2>1. Len(pending') = Len(pending) + 1 /\ Len(pending) \in Nat
    BY <1>1, <1>3
  <2>2. ASSUME NEW n \in 1..Len(pending') PROVE pending'[n] \in UnderWay \cup {Packet(p)}
    BY <1>1, <1>3, <2>1 DEF UnderWay
  <2> QED
    BY <2>2 DEF SendQueues, UnderWay
<1> QED
  BY <1>2, <1>3 DEF SendQueues

\* Every step keeps the types.
LEMMA TypeKept == TypeOK /\ ProbesCounted /\ [Next]_vars => TypeOK'
<1> SUFFICES ASSUME TypeOK /\ ProbesCounted, [Next]_vars PROVE TypeOK'
  OBVIOUS
<1>1. ASSUME NEW c \in Controllers, Start(c) PROVE TypeOK'
  <2>1. starts' \in 0..MaxStarts
    BY <1>1, BoundsAssumption DEF Start, TypeOK
  <2>2. ctl' \in [Controllers -> {"idle", "launch", "wait"}] /\ pending' \in Seq(Packets)
    BY <1>1 DEF Start, TypeOK
  <2> QED
    BY <1>1, <2>1, <2>2 DEF Start, TypeOK, ping, ghosts
<1>2. ASSUME NEW c \in Controllers, Launch(c) PROVE TypeOK'
  BY <1>2, BoundsAssumption DEF Launch, engine, ping, ghosts, TypeOK
<1>3. ASSUME NEW c \in Controllers, Stop(c) PROVE TypeOK'
  BY <1>3, BoundsAssumption DEF Stop, engine, ping, ghosts, TypeOK
<1>4. ASSUME NEW c \in Controllers, StopCloses(c) PROVE TypeOK'
  <2>1. pingResults' \in [Ids -> Pingers \cup {Nobody}] /\ chan' \in [Pingers -> {"none", "open", "full", "closed"}]
    BY <1>4 DEF StopCloses, TypeOK
  <2>2. excused' \subseteq Pingers
    BY <1>4 DEF StopCloses, TypeOK, Waiting
  <2>3. ctl' \in [Controllers -> {"idle", "launch", "wait"}]
    BY <1>4 DEF StopCloses, TypeOK
  <2> QED
    BY <1>4, <2>1, <2>2, <2>3 DEF StopCloses, TypeOK
<1>5. CASE Poll
  <2>1. Head(pending) \in Packets /\ Tail(pending) \in Seq(Packets)
    BY <1>5 DEF Poll, TypeOK
  <2> QED
    BY <1>5, <2>1 DEF Poll, TypeOK, engine, ping, ghosts
<1>6. ASSUME NEW p \in Pingers, Refuse(p) PROVE TypeOK'
  BY <1>6, BoundsAssumption DEF Refuse, engine, ping, ghosts, TypeOK
<1>7. ASSUME NEW p \in Pingers, Accept(p) PROVE TypeOK'
  BY <1>7, BoundsAssumption DEF Accept, engine, ping, ghosts, TypeOK
<1>8. ASSUME NEW p \in Pingers, ReturnRefusal(p) PROVE TypeOK'
  BY <1>8, BoundsAssumption DEF ReturnRefusal, engine, ping, ghosts, TypeOK
<1>9. ASSUME NEW p \in Pingers, Register(p) PROVE TypeOK'
  <2>1. PICK now \in Ids : /\ clock' = now /\ id' = [id EXCEPT ![p] = now]
                         /\ pingResults' = [pingResults EXCEPT ![now] = p]
    BY <1>9 DEF Register
  <2>2. excused' \subseteq Pingers
    BY <1>9 DEF Register, TypeOK, Probing
  <2>3. clock' \in Ids /\ id' \in [Pingers -> Ids] /\ pingResults' \in [Ids -> Pingers \cup {Nobody}]
    BY <2>1 DEF TypeOK
  <2> QED
    BY <1>9, <2>2, <2>3 DEF Register, TypeOK, engine
<1>10. ASSUME NEW p \in Pingers, SendChecks(p) PROVE TypeOK'
  BY <1>10, BoundsAssumption DEF SendChecks, engine, ping, ghosts, TypeOK
<1>11. ASSUME NEW p \in Pingers, SendQueues(p) PROVE TypeOK'
  <2>1. Packet(p) \in Packets
    BY <1>11, BoundsAssumption DEF SendQueues, TypeOK, ProbesCounted, Packet, Packets
  <2>2. pending' \in Seq(Packets)
    BY <1>11, <2>1 DEF SendQueues, TypeOK
  <2> QED
    BY <1>11, <2>2 DEF SendQueues, TypeOK, engine, ghosts
<1>12. ASSUME NEW p \in Pingers, Receive(p) PROVE TypeOK'
  <2>1. left' \in [Pingers -> Nat]
    BY <1>12 DEF Receive, Count, TypeOK, ProbesCounted
  <2> QED
    BY <1>12, <2>1 DEF Receive, Count, TypeOK, engine
<1>13. ASSUME NEW p \in Pingers, Timeout(p) PROVE TypeOK'
  <2>1. left' \in [Pingers -> Nat]
    BY <1>13 DEF Timeout, Count, TypeOK, ProbesCounted
  <2> QED
    BY <1>13, <2>1 DEF Timeout, Count, TypeOK, engine
<1>14. ASSUME NEW p \in Pingers, Deregister(p) PROVE TypeOK'
  <2>1. id' \in [Pingers -> Ids]
    BY <1>14, BoundsAssumption DEF Deregister, EndProbe, TypeOK, Ids
  <2> QED
    BY <1>14, <2>1 DEF Deregister, EndProbe, TypeOK, engine
<1>15. ASSUME NEW k \in network, Reply(k) PROVE TypeOK'
  <2>1. k.id \in Ids
    BY DEF TypeOK, Packets
  <2>2. replied' \subseteq Pingers
    BY <1>15 DEF Reply, Answers, Probing, TypeOK
  <2>3. chan' \in [Pingers -> {"none", "open", "full", "closed"}]
    BY <1>15, <2>1 DEF Reply, TypeOK
  <2> QED
    BY <1>15, <2>2, <2>3 DEF Reply, TypeOK, engine
<1>16. CASE UNCHANGED vars
  BY <1>16, BoundsAssumption DEF vars, engine, ping, ghosts, TypeOK
<1> QED
  BY <1>1, <1>2, <1>3, <1>4, <1>5, <1>6, <1>7, <1>8, <1>9, <1>10, <1>11, <1>12, <1>13, <1>14, <1>15, <1>16 DEF Next, PingStep

\* ... the count of the probes,
LEMMA CountKept == TypeOK /\ ProbesCounted /\ [Next]_vars => ProbesCounted'
<1> SUFFICES ASSUME TypeOK /\ ProbesCounted, [Next]_vars PROVE ProbesCounted'
  OBVIOUS
<1>1. ASSUME NEW c \in Controllers, Start(c) PROVE ProbesCounted'
  BY <1>1, BoundsAssumption DEF Start, engine, ping, ghosts, TypeOK, ProbesCounted
<1>2. ASSUME NEW c \in Controllers, Launch(c) PROVE ProbesCounted'
  BY <1>2, BoundsAssumption DEF Launch, engine, ping, ghosts, TypeOK, ProbesCounted
<1>3. ASSUME NEW c \in Controllers, Stop(c) PROVE ProbesCounted'
  BY <1>3, BoundsAssumption DEF Stop, engine, ping, ghosts, TypeOK, ProbesCounted
<1>4. ASSUME NEW c \in Controllers, StopCloses(c) PROVE ProbesCounted'
  BY <1>4, BoundsAssumption DEF StopCloses, engine, ping, ghosts, TypeOK, ProbesCounted
<1>5. CASE Poll
  BY <1>5, BoundsAssumption DEF Poll, engine, ping, ghosts, TypeOK, ProbesCounted
<1>6. ASSUME NEW p \in Pingers, Refuse(p) PROVE ProbesCounted'
  BY <1>6, BoundsAssumption DEF Refuse, engine, ping, ghosts, TypeOK, ProbesCounted
<1>7. ASSUME NEW p \in Pingers, Accept(p) PROVE ProbesCounted'
  BY <1>7, BoundsAssumption DEF Accept, engine, ping, ghosts, TypeOK, ProbesCounted
<1>8. ASSUME NEW p \in Pingers, ReturnRefusal(p) PROVE ProbesCounted'
  BY <1>8, BoundsAssumption DEF ReturnRefusal, engine, ping, ghosts, TypeOK, ProbesCounted
<1>9. ASSUME NEW p \in Pingers, Register(p) PROVE ProbesCounted'
  BY <1>9, BoundsAssumption DEF Register, engine, ping, ghosts, TypeOK, ProbesCounted
<1>10. ASSUME NEW p \in Pingers, SendChecks(p) PROVE ProbesCounted'
  BY <1>10, BoundsAssumption DEF SendChecks, engine, ping, ghosts, TypeOK, ProbesCounted
<1>11. ASSUME NEW p \in Pingers, SendQueues(p) PROVE ProbesCounted'
  BY <1>11, BoundsAssumption DEF SendQueues, engine, ping, ghosts, TypeOK, ProbesCounted
<1>12. ASSUME NEW p \in Pingers, Receive(p) PROVE ProbesCounted'
  BY <1>12, BoundsAssumption DEF Receive, engine, ping, ghosts, Count, TypeOK, ProbesCounted
<1>13. ASSUME NEW p \in Pingers, Timeout(p) PROVE ProbesCounted'
  BY <1>13, BoundsAssumption DEF Timeout, engine, ping, ghosts, Count, TypeOK, ProbesCounted
<1>14. ASSUME NEW p \in Pingers, Deregister(p) PROVE ProbesCounted'
  BY <1>14, BoundsAssumption DEF Deregister, engine, ping, ghosts, EndProbe, TypeOK, ProbesCounted
<1>15. ASSUME NEW k \in network, Reply(k) PROVE ProbesCounted'
  BY <1>15, BoundsAssumption DEF Reply, engine, ping, ghosts, TypeOK, ProbesCounted
<1>16. CASE UNCHANGED vars
  BY <1>16, BoundsAssumption DEF vars, engine, ping, ghosts, TypeOK, ProbesCounted
<1> QED
  BY <1>1, <1>2, <1>3, <1>4, <1>5, <1>6, <1>7, <1>8, <1>9, <1>10, <1>11, <1>12, <1>13, <1>14, <1>15, <1>16 DEF Next, PingStep

\* ... the registrations,
LEMMA RegisteredKept == TypeOK /\ RegisteredIsLive /\ [Next]_vars => RegisteredIsLive'
<1> SUFFICES ASSUME TypeOK /\ RegisteredIsLive, [Next]_vars PROVE RegisteredIsLive'
  OBVIOUS
<1>1. ASSUME NEW c \in Controllers, Start(c) PROVE RegisteredIsLive'
  BY <1>1, NobodyAssumption DEF Start, engine, ping, ghosts, TypeOK, RegisteredIsLive, Waiting
<1>2. ASSUME NEW c \in Controllers, Launch(c) PROVE RegisteredIsLive'
  BY <1>2, NobodyAssumption DEF Launch, engine, ping, ghosts, TypeOK, RegisteredIsLive, Waiting
<1>3. ASSUME NEW c \in Controllers, Stop(c) PROVE RegisteredIsLive'
  BY <1>3, NobodyAssumption DEF Stop, engine, ping, ghosts, TypeOK, RegisteredIsLive, Waiting
<1>4. ASSUME NEW c \in Controllers, StopCloses(c) PROVE RegisteredIsLive'
  BY <1>4, NobodyAssumption DEF StopCloses, engine, ping, ghosts, TypeOK, RegisteredIsLive, Waiting
<1>5. CASE Poll
  BY <1>5, NobodyAssumption DEF Poll, engine, ping, ghosts, TypeOK, RegisteredIsLive, Waiting
<1>6. ASSUME NEW p \in Pingers, Refuse(p) PROVE RegisteredIsLive'
  BY <1>6, NobodyAssumption DEF Refuse, engine, ping, ghosts, TypeOK, RegisteredIsLive, Waiting
<1>7. ASSUME NEW p \in Pingers, Accept(p) PROVE RegisteredIsLive'
  BY <1>7, NobodyAssumption DEF Accept, engine, ping, ghosts, TypeOK, RegisteredIsLive, Waiting
<1>8. ASSUME NEW p \in Pingers, ReturnRefusal(p) PROVE RegisteredIsLive'
  BY <1>8, NobodyAssumption DEF ReturnRefusal, engine, ping, ghosts, TypeOK, RegisteredIsLive, Waiting
<1>9. ASSUME NEW p \in Pingers, Register(p) PROVE RegisteredIsLive'
  BY <1>9, NobodyAssumption DEF Register, engine, ping, ghosts, TypeOK, RegisteredIsLive, Waiting
<1>10. ASSUME NEW p \in Pingers, SendChecks(p) PROVE RegisteredIsLive'
  BY <1>10, NobodyAssumption DEF SendChecks, engine, ping, ghosts, TypeOK, RegisteredIsLive, Waiting
<1>11. ASSUME NEW p \in Pingers, SendQueues(p) PROVE RegisteredIsLive'
  BY <1>11, NobodyAssumption DEF SendQueues, engine, ping, ghosts, TypeOK, RegisteredIsLive, Waiting
<1>12. ASSUME NEW p \in Pingers, Receive(p) PROVE RegisteredIsLive'
  BY <1>12, NobodyAssumption DEF Receive, engine, ping, ghosts, Count, TypeOK, RegisteredIsLive, Waiting
<1>13. ASSUME NEW p \in Pingers, Timeout(p) PROVE RegisteredIsLive'
  BY <1>13, NobodyAssumption DEF Timeout, engine, ping, ghosts, Count, TypeOK, RegisteredIsLive, Waiting
<1>14. ASSUME NEW p \in Pingers, Deregister(p) PROVE RegisteredIsLive'
  BY <1>14, NobodyAssumption DEF Deregister, engine, ping, ghosts, EndProbe, TypeOK, RegisteredIsLive, Waiting
<1>15. ASSUME NEW k \in network, Reply(k) PROVE RegisteredIsLive'
  BY <1>15, NobodyAssumption DEF Reply, engine, ping, ghosts, TypeOK, RegisteredIsLive, Waiting
<1>16. CASE UNCHANGED vars
  BY <1>16, NobodyAssumption DEF vars, engine, ping, ghosts, TypeOK, RegisteredIsLive, Waiting
<1> QED
  BY <1>1, <1>2, <1>3, <1>4, <1>5, <1>6, <1>7, <1>8, <1>9, <1>10, <1>11, <1>12, <1>13, <1>14, <1>15, <1>16 DEF Next, PingStep

\* ... that a counted probe is over,
LEMMA DeafKept == TypeOK /\ RegisteredIsLive /\ CountedIsDeaf /\ [Next]_vars => CountedIsDeaf'
<1> SUFFICES ASSUME TypeOK /\ RegisteredIsLive /\ CountedIsDeaf, [Next]_vars PROVE CountedIsDeaf'
  OBVIOUS
<1>1. ASSUME NEW c \in Controllers, Start(c) PROVE CountedIsDeaf'
  BY <1>1, NobodyAssumption DEF Start, engine, ping, ghosts, TypeOK, RegisteredIsLive, CountedIsDeaf
<1>2. ASSUME NEW c \in Controllers, Launch(c) PROVE CountedIsDeaf'
  BY <1>2, NobodyAssumption DEF Launch, engine, ping, ghosts, TypeOK, RegisteredIsLive, CountedIsDeaf
<1>3. ASSUME NEW c \in Controllers, Stop(c) PROVE CountedIsDeaf'
  BY <1>3, NobodyAssumption DEF Stop, engine, ping, ghosts, TypeOK, RegisteredIsLive, CountedIsDeaf
<1>4. ASSUME NEW c \in Controllers, StopCloses(c) PROVE CountedIsDeaf'
  BY <1>4, NobodyAssumption DEF StopCloses, engine, ping, ghosts, TypeOK, RegisteredIsLive, CountedIsDeaf
<1>5. CASE Poll
  BY <1>5, NobodyAssumption DEF Poll, engine, ping, ghosts, TypeOK, RegisteredIsLive, CountedIsDeaf
<1>6. ASSUME NEW p \in Pingers, Refuse(p) PROVE CountedIsDeaf'
  BY <1>6, NobodyAssumption DEF Refuse, engine, ping, ghosts, TypeOK, RegisteredIsLive, CountedIsDeaf
<1>7. ASSUME NEW p \in Pingers, Accept(p) PROVE CountedIsDeaf'
  BY <1>7, NobodyAssumption DEF Accept, engine, ping, ghosts, TypeOK, RegisteredIsLive, CountedIsDeaf
<1>8. ASSUME NEW p \in Pingers, ReturnRefusal(p) PROVE CountedIsDeaf'
  BY <1>8, NobodyAssumption DEF ReturnRefusal, engine, ping, ghosts, TypeOK, RegisteredIsLive, CountedIsDeaf
<1>9. ASSUME NEW p \in Pingers, Register(p) PROVE CountedIsDeaf'
  BY <1>9, NobodyAssumption DEF Register, engine, ping, ghosts, TypeOK, RegisteredIsLive, CountedIsDeaf
<1>10. ASSUME NEW p \in Pingers, SendChecks(p) PROVE CountedIsDeaf'
  BY <1>10, NobodyAssumption DEF SendChecks, engine, ping, ghosts, TypeOK, RegisteredIsLive, CountedIsDeaf
<1>11. ASSUME NEW p \in Pingers, SendQueues(p) PROVE CountedIsDeaf'
  BY <1>11, NobodyAssumption DEF SendQueues, engine, ping, ghosts, TypeOK, RegisteredIsLive, CountedIsDeaf
<1>12. ASSUME NEW p \in Pingers, Receive(p) PROVE CountedIsDeaf'
  BY <1>12, NobodyAssumption DEF Receive, engine, ping, ghosts, Count, TypeOK, RegisteredIsLive, CountedIsDeaf
<1>13. ASSUME NEW p \in Pingers, Timeout(p) PROVE CountedIsDeaf'
  BY <1>13, NobodyAssumption DEF Timeout, engine, ping, ghosts, Count, TypeOK, RegisteredIsLive, CountedIsDeaf
<1>14. ASSUME NEW p \in Pingers, Deregister(p) PROVE CountedIsDeaf'
  BY <1>14, NobodyAssumption DEF Deregister, engine, ping, ghosts, EndProbe, TypeOK, RegisteredIsLive, CountedIsDeaf
<1>15. ASSUME NEW k \in network, Reply(k) PROVE CountedIsDeaf'
  BY <1>15, NobodyAssumption DEF Reply, engine, ping, ghosts, TypeOK, RegisteredIsLive, CountedIsDeaf
<1>16. CASE UNCHANGED vars
  BY <1>16, NobodyAssumption DEF vars, engine, ping, ghosts, TypeOK, RegisteredIsLive, CountedIsDeaf
<1> QED
  BY <1>1, <1>2, <1>3, <1>4, <1>5, <1>6, <1>7, <1>8, <1>9, <1>10, <1>11, <1>12, <1>13, <1>14, <1>15, <1>16 DEF Next, PingStep

\* ... whose the identifiers are,
LEMMA IdsKept == TypeOK /\ IdsAreOwn /\ [Next]_vars => IdsAreOwn'
<1> SUFFICES ASSUME TypeOK /\ IdsAreOwn, [Next]_vars PROVE IdsAreOwn'
  OBVIOUS
<1>1. ASSUME NEW c \in Controllers, Start(c) PROVE IdsAreOwn'
  BY <1>1 DEF Start, engine, ping, ghosts, TypeOK, IdsAreOwn, Probing, Waiting
<1>2. ASSUME NEW c \in Controllers, Launch(c) PROVE IdsAreOwn'
  BY <1>2 DEF Launch, engine, ping, ghosts, TypeOK, IdsAreOwn, Probing, Waiting
<1>3. ASSUME NEW c \in Controllers, Stop(c) PROVE IdsAreOwn'
  BY <1>3 DEF Stop, engine, ping, ghosts, TypeOK, IdsAreOwn, Probing, Waiting
<1>4. ASSUME NEW c \in Controllers, StopCloses(c) PROVE IdsAreOwn'
  BY <1>4 DEF StopCloses, engine, ping, ghosts, TypeOK, IdsAreOwn, Probing, Waiting
<1>5. CASE Poll
  BY <1>5 DEF Poll, engine, ping, ghosts, TypeOK, IdsAreOwn, Probing, Waiting
<1>6. ASSUME NEW p \in Pingers, Refuse(p) PROVE IdsAreOwn'
  BY <1>6 DEF Refuse, engine, ping, ghosts, TypeOK, IdsAreOwn, Probing, Waiting
<1>7. ASSUME NEW p \in Pingers, Accept(p) PROVE IdsAreOwn'
  BY <1>7 DEF Accept, engine, ping, ghosts, TypeOK, IdsAreOwn, Probing, Waiting
<1>8. ASSUME NEW p \in Pingers, ReturnRefusal(p) PROVE IdsAreOwn'
  BY <1>8 DEF ReturnRefusal, engine, ping, ghosts, TypeOK, IdsAreOwn, Probing, Waiting
<1>9. ASSUME NEW p \in Pingers, Register(p) PROVE IdsAreOwn'
  BY <1>9 DEF Register, engine, ping, ghosts, TypeOK, IdsAreOwn, Probing, Waiting
<1>10. ASSUME NEW p \in Pingers, SendChecks(p) PROVE IdsAreOwn'
  BY <1>10 DEF SendChecks, engine, ping, ghosts, TypeOK, IdsAreOwn, Probing, Waiting
<1>11. ASSUME NEW p \in Pingers, SendQueues(p) PROVE IdsAreOwn'
  BY <1>11 DEF SendQueues, engine, ping, ghosts, TypeOK, IdsAreOwn, Probing, Waiting
<1>12. ASSUME NEW p \in Pingers, Receive(p) PROVE IdsAreOwn'
  BY <1>12 DEF Receive, engine, ping, ghosts, Count, TypeOK, IdsAreOwn, Probing, Waiting
<1>13. ASSUME NEW p \in Pingers, Timeout(p) PROVE IdsAreOwn'
  BY <1>13 DEF Timeout, engine, ping, ghosts, Count, TypeOK, IdsAreOwn, Probing, Waiting
<1>14. ASSUME NEW p \in Pingers, Deregister(p) PROVE IdsAreOwn'
  BY <1>14 DEF Deregister, engine, ping, ghosts, EndProbe, TypeOK, IdsAreOwn, Probing, Waiting
<1>15. ASSUME NEW k \in network, Reply(k) PROVE IdsAreOwn'
  BY <1>15 DEF Reply, engine, ping, ghosts, TypeOK, IdsAreOwn, Probing, Waiting
<1>16. CASE UNCHANGED vars
  BY <1>16 DEF vars, engine, ping, ghosts, TypeOK, IdsAreOwn, Probing, Waiting
<1> QED
  BY <1>1, <1>2, <1>3, <1>4, <1>5, <1>6, <1>7, <1>8, <1>9, <1>10, <1>11, <1>12, <1>13, <1>14, <1>15, <1>16 DEF Next, PingStep

\* ... whose the packets are,
LEMMA PacketsKept == TypeOK /\ Own /\ [Next]_vars => PacketsAreOwn'
<1> SUFFICES ASSUME TypeOK /\ Own, [Next]_vars PROVE PacketsAreOwn'
  OBVIOUS
<1>1. ASSUME NEW c \in Controllers, Start(c) PROVE PacketsAreOwn'
  BY <1>1 DEF Start, engine, ping, ghosts, TypeOK, Own, PacketsAreOwn, Probing, UnderWay
<1>2. ASSUME NEW c \in Controllers, Launch(c) PROVE PacketsAreOwn'
  BY <1>2 DEF Launch, engine, ping, ghosts, TypeOK, Own, PacketsAreOwn, Probing, UnderWay
<1>3. ASSUME NEW c \in Controllers, Stop(c) PROVE PacketsAreOwn'
  BY <1>3 DEF Stop, engine, ping, ghosts, TypeOK, Own, PacketsAreOwn, Probing, UnderWay
<1>4. ASSUME NEW c \in Controllers, StopCloses(c) PROVE PacketsAreOwn'
  BY <1>4 DEF StopCloses, engine, ping, ghosts, TypeOK, Own, PacketsAreOwn, Probing, UnderWay
<1>5. CASE Poll
  <2>1. UnderWay' \subseteq UnderWay
    BY <1>5, PolledIsUnderWay
  <2> QED
    BY <1>5, <2>1 DEF Poll, ping, ghosts, Own, PacketsAreOwn, Probing
<1>6. ASSUME NEW p \in Pingers, Refuse(p) PROVE PacketsAreOwn'
  BY <1>6 DEF Refuse, ghosts, Own, PacketsAreOwn, Probing, UnderWay
<1>7. ASSUME NEW p \in Pingers, Accept(p) PROVE PacketsAreOwn'
  BY <1>7 DEF Accept, engine, ping, ghosts, TypeOK, Own, PacketsAreOwn, Probing, UnderWay
<1>8. ASSUME NEW p \in Pingers, ReturnRefusal(p) PROVE PacketsAreOwn'
  BY <1>8 DEF ReturnRefusal, engine, ping, ghosts, TypeOK, Own, PacketsAreOwn, Probing, UnderWay
<1>9. ASSUME NEW p \in Pingers, Register(p) PROVE PacketsAreOwn'
  BY <1>9 DEF Register, engine, ping, ghosts, TypeOK, Own, PacketsAreOwn, Probing, UnderWay
<1>10. ASSUME NEW p \in Pingers, SendChecks(p) PROVE PacketsAreOwn'
  BY <1>10 DEF SendChecks, engine, ping, ghosts, TypeOK, Own, PacketsAreOwn, Probing, UnderWay
<1>11. ASSUME NEW p \in Pingers, SendQueues(p) PROVE PacketsAreOwn'
  <2>1. UnderWay' \subseteq UnderWay \cup {Packet(p)}
    BY <1>11, QueuedIsUnderWay
  <2> QED
    BY <1>11, <2>1 DEF SendQueues, ghosts, TypeOK, Own, IdsAreOwn, PacketsAreOwn, Probing, Packet
<1>12. ASSUME NEW p \in Pingers, Receive(p) PROVE PacketsAreOwn'
  BY <1>12 DEF Receive, engine, ping, ghosts, Count, TypeOK, Own, PacketsAreOwn, Probing, UnderWay
<1>13. ASSUME NEW p \in Pingers, Timeout(p) PROVE PacketsAreOwn'
  BY <1>13 DEF Timeout, engine, ping, ghosts, Count, TypeOK, Own, PacketsAreOwn, Probing, UnderWay
<1>14. ASSUME NEW p \in Pingers, Deregister(p) PROVE PacketsAreOwn'
  BY <1>14 DEF Deregister, engine, ping, ghosts, EndProbe, TypeOK, Own, PacketsAreOwn, Probing, UnderWay
<1>15. ASSUME NEW k \in network, Reply(k) PROVE PacketsAreOwn'
  BY <1>15 DEF Reply, engine, ping, ghosts, TypeOK, Own, PacketsAreOwn, Probing, UnderWay
<1>16. CASE UNCHANGED vars
  BY <1>16 DEF vars, engine, ping, ghosts, TypeOK, Own, PacketsAreOwn, Probing, UnderWay
<1> QED
  BY <1>1, <1>2, <1>3, <1>4, <1>5, <1>6, <1>7, <1>8, <1>9, <1>10, <1>11, <1>12, <1>13, <1>14, <1>15, <1>16 DEF Next, PingStep

\* ... why a channel is closed or full,
LEMMA ChannelsKept == TypeOK /\ RegisteredIsLive /\ CountedIsDeaf /\ Own /\ ChannelsExplained /\ [Next]_vars => ChannelsExplained'
<1> SUFFICES ASSUME TypeOK /\ RegisteredIsLive /\ CountedIsDeaf /\ Own /\ ChannelsExplained, [Next]_vars PROVE ChannelsExplained'
  OBVIOUS
<1>1. ASSUME NEW c \in Controllers, Start(c) PROVE ChannelsExplained'
  BY <1>1, NobodyAssumption DEF Start, engine, ping, ghosts, TypeOK, RegisteredIsLive, ChannelsExplained, Probing, Waiting
<1>2. ASSUME NEW c \in Controllers, Launch(c) PROVE ChannelsExplained'
  BY <1>2, NobodyAssumption DEF Launch, engine, ping, ghosts, TypeOK, RegisteredIsLive, ChannelsExplained, Probing, Waiting
<1>3. ASSUME NEW c \in Controllers, Stop(c) PROVE ChannelsExplained'
  BY <1>3, NobodyAssumption DEF Stop, engine, ping, ghosts, TypeOK, RegisteredIsLive, ChannelsExplained, Probing, Waiting
<1>4. ASSUME NEW c \in Controllers, StopCloses(c) PROVE ChannelsExplained'
  BY <1>4, NobodyAssumption DEF StopCloses, engine, ping, ghosts, TypeOK, RegisteredIsLive, ChannelsExplained, Probing, Waiting
<1>5. CASE Poll
  BY <1>5, NobodyAssumption DEF Poll, engine, ping, ghosts, TypeOK, RegisteredIsLive, ChannelsExplained, Probing, Waiting
<1>6. ASSUME NEW p \in Pingers, Refuse(p) PROVE ChannelsExplained'
  BY <1>6, NobodyAssumption DEF Refuse, engine, ping, ghosts, TypeOK, RegisteredIsLive, ChannelsExplained, Probing, Waiting
<1>7. ASSUME NEW p \in Pingers, Accept(p) PROVE ChannelsExplained'
  BY <1>7, NobodyAssumption DEF Accept, engine, ping, ghosts, TypeOK, RegisteredIsLive, ChannelsExplained, Probing, Waiting
<1>8. ASSUME NEW p \in Pingers, ReturnRefusal(p) PROVE ChannelsExplained'
  BY <1>8, NobodyAssumption DEF ReturnRefusal, engine, ping, ghosts, TypeOK, RegisteredIsLive, ChannelsExplained, Probing, Waiting
<1>9. ASSUME NEW p \in Pingers, Register(p) PROVE ChannelsExplained'
  BY <1>9, NobodyAssumption DEF Register, engine, ping, ghosts, TypeOK, RegisteredIsLive, ChannelsExplained, Probing, Waiting
<1>10. ASSUME NEW p \in Pingers, SendChecks(p) PROVE ChannelsExplained'
  BY <1>10, NobodyAssumption DEF SendChecks, engine, ping, ghosts, TypeOK, RegisteredIsLive, ChannelsExplained, Probing, Waiting
<1>11. ASSUME NEW p \in Pingers, SendQueues(p) PROVE ChannelsExplained'
  BY <1>11, NobodyAssumption DEF SendQueues, engine, ping, ghosts, TypeOK, RegisteredIsLive, ChannelsExplained, Probing, Waiting
<1>12. ASSUME NEW p \in Pingers, Receive(p) PROVE ChannelsExplained'
  BY <1>12, NobodyAssumption DEF Receive, engine, ping, ghosts, Count, TypeOK, RegisteredIsLive, ChannelsExplained, Probing, Waiting
<1>13. ASSUME NEW p \in Pingers, Timeout(p) PROVE ChannelsExplained'
  BY <1>13, NobodyAssumption DEF Timeout, engine, ping, ghosts, Count, TypeOK, RegisteredIsLive, ChannelsExplained, Probing, Waiting
<1>14. ASSUME NEW p \in Pingers, Deregister(p) PROVE ChannelsExplained'
  BY <1>14, NobodyAssumption DEF Deregister, engine, ping, ghosts, EndProbe, TypeOK, RegisteredIsLive, ChannelsExplained, Probing, Waiting
<1>15. ASSUME NEW k \in network, Reply(k) PROVE ChannelsExplained'
  <2> SUFFICES ASSUME NEW p \in Probing, chan[p] # "full", chan'[p] = "full" PROVE p \in replied' \cup excused'
    BY <1>15 DEF Reply, ping, TypeOK, ChannelsExplained, Probing
  <2>1. k.id \in Ids
    BY DEF TypeOK, Packets
  <2>2. pingResults[k.id] = p /\ chan[p] = "open"
    BY <1>15, <2>1 DEF Reply, TypeOK, Probing
  <2>3. id[p] = k.id /\ pc[p] # "deregister"
    BY <2>1, <2>2, NobodyAssumption DEF RegisteredIsLive, CountedIsDeaf, Probing
  <2>4. p \in excused \/ (k.from = p /\ k.probe = left[p])
    BY <1>15, <2>3 DEF Reply, Own, PacketsAreOwn, UnderWay
  <2> QED
    BY <1>15, <2>3, <2>4 DEF Reply, Answers
<1>16. CASE UNCHANGED vars
  BY <1>16, NobodyAssumption DEF vars, engine, ping, ghosts, TypeOK, RegisteredIsLive, ChannelsExplained, Probing, Waiting
<1> QED
  BY <1>1, <1>2, <1>3, <1>4, <1>5, <1>6, <1>7, <1>8, <1>9, <1>10, <1>11, <1>12, <1>13, <1>14, <1>15, <1>16 DEF Next, PingStep

\* ... and the explanation of what was received.
LEMMA SpuriousKept == TypeOK /\ ChannelsExplained /\ SpuriousExplained /\ [Next]_vars => SpuriousExplained'
<1> SUFFICES ASSUME TypeOK /\ ChannelsExplained /\ SpuriousExplained, [Next]_vars PROVE SpuriousExplained'
  OBVIOUS
<1>1. ASSUME NEW c \in Controllers, Start(c) PROVE SpuriousExplained'
  BY <1>1 DEF Start, engine, ping, ghosts, TypeOK, ChannelsExplained, SpuriousExplained, Probing
<1>2. ASSUME NEW c \in Controllers, Launch(c) PROVE SpuriousExplained'
  BY <1>2 DEF Launch, engine, ping, ghosts, TypeOK, ChannelsExplained, SpuriousExplained, Probing
<1>3. ASSUME NEW c \in Controllers, Stop(c) PROVE SpuriousExplained'
  BY <1>3 DEF Stop, engine, ping, ghosts, TypeOK, ChannelsExplained, SpuriousExplained, Probing
<1>4. ASSUME NEW c \in Controllers, StopCloses(c) PROVE SpuriousExplained'
  BY <1>4 DEF StopCloses, engine, ping, ghosts, TypeOK, ChannelsExplained, SpuriousExplained, Probing
<1>5. CASE Poll
  BY <1>5 DEF Poll, engine, ping, ghosts, TypeOK, ChannelsExplained, SpuriousExplained, Probing
<1>6. ASSUME NEW p \in Pingers, Refuse(p) PROVE SpuriousExplained'
  BY <1>6 DEF Refuse, engine, ping, ghosts, TypeOK, ChannelsExplained, SpuriousExplained, Probing
<1>7. ASSUME NEW p \in Pingers, Accept(p) PROVE SpuriousExplained'
  BY <1>7 DEF Accept, engine, ping, ghosts, TypeOK, ChannelsExplained, SpuriousExplained, Probing
<1>8. ASSUME NEW p \in Pingers, ReturnRefusal(p) PROVE SpuriousExplained'
  BY <1>8 DEF ReturnRefusal, engine, ping, ghosts, TypeOK, ChannelsExplained, SpuriousExplained, Probing
<1>9. ASSUME NEW p \in Pingers, Register(p) PROVE SpuriousExplained'
  BY <1>9 DEF Register, engine, ping, ghosts, TypeOK, ChannelsExplained, SpuriousExplained, Probing
<1>10. ASSUME NEW p \in Pingers, SendChecks(p) PROVE SpuriousExplained'
  BY <1>10 DEF SendChecks, engine, ping, ghosts, TypeOK, ChannelsExplained, SpuriousExplained, Probing
<1>11. ASSUME NEW p \in Pingers, SendQueues(p) PROVE SpuriousExplained'
  BY <1>11 DEF SendQueues, engine, ping, ghosts, TypeOK, ChannelsExplained, SpuriousExplained, Probing
<1>12. ASSUME NEW p \in Pingers, Receive(p) PROVE SpuriousExplained'
  BY <1>12 DEF Receive, engine, ping, ghosts, Count, TypeOK, ChannelsExplained, SpuriousExplained, Probing
<1>13. ASSUME NEW p \in Pingers, Timeout(p) PROVE SpuriousExplained'
  BY <1>13 DEF Timeout, engine, ping, ghosts, Count, TypeOK, ChannelsExplained, SpuriousExplained, Probing
<1>14. ASSUME NEW p \in Pingers, Deregister(p) PROVE SpuriousExplained'
  BY <1>14 DEF Deregister, engine, ping, ghosts, EndProbe, TypeOK, ChannelsExplained, SpuriousExplained, Probing
<1>15. ASSUME NEW k \in network, Reply(k) PROVE SpuriousExplained'
  BY <1>15 DEF Reply, engine, ping, ghosts, TypeOK, ChannelsExplained, SpuriousExplained, Probing
<1>16. CASE UNCHANGED vars
  BY <1>16 DEF vars, engine, ping, ghosts, TypeOK, ChannelsExplained, SpuriousExplained, Probing
<1> QED
  BY <1>1, <1>2, <1>3, <1>4, <1>5, <1>6, <1>7, <1>8, <1>9, <1>10, <1>11, <1>12, <1>13, <1>14, <1>15, <1>16 DEF Next, PingStep

\* The invariant holds at the start and every step keeps it.
THEOREM Invariance == Spec => []IInv
<1>1. Init => IInv
  <2> SUFFICES ASSUME Init PROVE IInv
    OBVIOUS
  <2>1. 0 \in Ids /\ 0 \in 0..MaxStarts /\ Probes \in Nat
    BY BoundsAssumption DEF Ids
  <2>2. TypeOK
    BY <2>1 DEF Init, TypeOK
  <2>3. ProbesCounted
    BY <2>1 DEF Init, ProbesCounted
  <2>4. RegisteredIsLive /\ CountedIsDeaf /\ SpuriousExplained
    BY DEF Init, RegisteredIsLive, CountedIsDeaf, SpuriousExplained
  <2>5. Probing = {}
    BY DEF Init, Probing
  <2> QED
    BY <2>2, <2>3, <2>4, <2>5 DEF IInv, Own, IdsAreOwn, PacketsAreOwn, ChannelsExplained
<1>2. IInv /\ [Next]_vars => IInv'
  BY TypeKept, CountKept, RegisteredKept, DeafKept, IdsKept, PacketsKept, ChannelsKept, SpuriousKept
     DEF IInv, Own
<1> QED
  BY <1>1, <1>2, PTL DEF Spec

\* The type invariant.
THEOREM TypeCorrect == Spec => []TypeOK
<1>1. IInv => TypeOK
  BY DEF IInv
<1> QED
  BY <1>1, Invariance, PTL

\* Stop and the end of a probe, in any order with the replies: a channel that makeReact
\* can still find is open, and it belongs to the probe whose identifier it is under.
THEOREM NoSendOnClosed == Spec => []RegisteredIsLive
<1>1. IInv => RegisteredIsLive
  BY DEF IInv
<1> QED
  BY <1>1, Invariance, PTL

\* Ping and makeReact: a probe that counts as received was answered, unless Stop closed
\* its channel or the clock gave its identifier twice.
THEOREM ReceivedWasAnswered == Spec => []SpuriousExplained
<1>1. IInv => SpuriousExplained
  BY DEF IInv
<1> QED
  BY <1>1, Invariance, PTL

\* SendPacket against Stop: the queue of an engine that stays closed does not grow.
THEOREM ClosedQueueOnlyShrinks == Spec => NothingQueuedClosed
<1>1. TypeOK /\ [Next]_vars => [closed /\ closed' => Len(pending') <= Len(pending)]_vars
  <2> SUFFICES ASSUME TypeOK, [Next]_vars, closed, closed' PROVE Len(pending') <= Len(pending)
    OBVIOUS
  <2>1. pending \in Seq(Packets) /\ Len(pending) \in Nat
    BY DEF TypeOK
  <2>2. CASE pending' = pending
    BY <2>1, <2>2
  <2>3. ASSUME NEW c \in Controllers, Start(c) PROVE FALSE
    BY <2>3 DEF Start
  <2>4. CASE Poll
    BY <2>1, <2>4 DEF Poll
  <2>5. ASSUME NEW p \in Pingers, SendQueues(p) PROVE pending' = pending
    BY <2>5 DEF SendQueues
  <2> QED
    BY <2>2, <2>3, <2>4, <2>5 DEF Next, PingStep, Launch, Stop, StopCloses, Refuse, Accept, ReturnRefusal,
       Register, SendChecks, Receive, Timeout, Deregister, EndProbe, Reply, vars
<1> QED
  BY <1>1, TypeCorrect, PTL DEF Spec, NothingQueuedClosed

\* pingSemaphore: however many goroutines call Ping, no more pings are in progress than
\* there are slots.
THEOREM SlotsAreRespected == ASSUME IsFiniteSet(Pingers) PROVE Spec => []SlotsRespected
<1>1. Init => SlotsRespected
  <2> SUFFICES ASSUME Init PROVE SlotsRespected
    OBVIOUS
  <2>1. Holding = {}
    BY DEF Init, Holding
  <2> QED
    BY <2>1, FS_EmptySet, BoundsAssumption DEF SlotsRespected, Init
<1>2. TypeOK /\ SlotsRespected /\ [Next]_vars => SlotsRespected'
  <2> SUFFICES ASSUME TypeOK, SlotsRespected, [Next]_vars PROVE SlotsRespected'
    OBVIOUS
  <2>1. IsFiniteSet(Holding) /\ Cardinality(Holding) \in Nat /\ slots \in Nat
    BY FS_Subset, FS_CardinalityType, BoundsAssumption DEF Holding, TypeOK
  <2>2. slots' = slots
    BY DEF Next, PingStep, Start, Launch, Stop, StopCloses, Poll, Refuse, Accept, ReturnRefusal, Register,
       SendChecks, SendQueues, Receive, Timeout, Count, Deregister, EndProbe, Reply, vars, engine
  <2>3. ASSUME NEW p \in Pingers, Accept(p) PROVE Cardinality(Holding') <= slots
    <3>1. p \notin Holding /\ Holding' = Holding \cup {p} /\ Cardinality(Holding) < slots
      BY <2>3 DEF Accept, Holding, TypeOK
    <3>2. Cardinality(Holding \cup {p}) = Cardinality(Holding) + 1
      BY <3>1, <2>1, FS_AddElement
    <3> QED
      BY <3>1, <3>2, <2>1
  <2>4. CASE Holding' \subseteq Holding
    <3>1. Cardinality(Holding') <= Cardinality(Holding) /\ Cardinality(Holding') \in Nat
      BY <2>1, <2>4, FS_Subset, FS_CardinalityType
    <3> QED
      BY <3>1, <2>1, <2>2 DEF SlotsRespected
  <2>5. Holding' \subseteq Holding \/ \E p \in Pingers : Accept(p)
    BY ZenonT(40) DEF Next, PingStep, Start, Launch, Stop, StopCloses, Poll, Refuse, ReturnRefusal, Register,
       SendChecks, SendQueues, Receive, Timeout, Count, Deregister, EndProbe, Reply, vars, ping,
       Holding, TypeOK
  <2> QED
    BY <2>1, <2>2, <2>3, <2>4, <2>5 DEF SlotsRespected
<1> QED
  BY <1>1, <1>2, TypeCorrect, PTL DEF Spec

-----------------------------------------------------------------------------
(* The simulators with goroutines: the invariant.                          *)

StpStates == {"Blocking", "Listening", "Learning", "Forwarding"}
StpRecords == [state : StpStates, role : {"Root", "Designated"}, cost : IfCosts]

BridgeInv ==
  /\ stpIf \in [StpIfs -> {Gone} \cup StpRecords]
  /\ rootId \in Bridges /\ rootCost \in Nat /\ rootPort \in StpIfs \cup {NoIf}
  /\ movers \in [StpIfs -> [listen : 0..MaxMovers, learn : 0..MaxMovers]]
  /\ PortsAreMoved /\ RootIsLed
  /\ rootId <= Me /\ (rootId = Me => rootCost = 0)

RouterInv ==
  /\ ospfNbr \in [Routers -> {"Unknown", "Init", "2-Way", "Down"}]
  /\ silent \subseteq Routers /\ dr \in Routers \cup {NoRouter} /\ bdr \in Routers \cup {NoRouter}
  /\ readds \in Nat
  /\ ElectionsDiffer

PeerStates == {"Gone", "Idle", "Established"} \cup Connecting

PeersInv ==
  /\ peers \in [Nbrs -> [state : PeerStates, told : [Announced -> Nat]]]
  /\ adds \in 0..MaxAdds
  /\ connects \in [Nbrs -> 0..adds] /\ strays \in 0..adds
  /\ ribs \in [Announced -> 0..MaxRoutes]
  /\ AnnouncedIsRouted /\ NeighborsAreTaken

CallerStates == [pc : {"idle", "send", "wait"}, left : 0..PingCount, asked : 0..PingCount, got : 0..PingCount]

\* A caller has asked for what it has not left, and got no more than it asked for.
CallInv(r) ==
  /\ r.asked + r.left <= PingCount
  /\ r.pc = "send" => r.left > 0
  /\ r.got + (IF r.pc = "wait" THEN 1 ELSE 0) <= r.asked

CountersInv ==
  /\ sent \in Nat /\ received \in Nat
  /\ caller \in [Callers -> CallerStates]
  /\ \A c \in Callers : CallInv(caller[c])
  /\ ~ mixed => \A c, d \in Callers : caller[c].pc # "idle" /\ caller[d].pc # "idle" => c = d
  /\ LossIsALoss

TimersInv == BridgeInv /\ RouterInv /\ PeersInv /\ CountersInv

-----------------------------------------------------------------------------
(* The bridge.                                                             *)

\* Unpacking of the assumption.
LEMMA Bridge ==
  /\ Me \in Nat /\ Bridges \subseteq Nat /\ RootCosts \subseteq Nat /\ NoIf \notin StpIfs
  /\ \A r \in StpRecords : r.cost \in Nat
BY TimersAssumption DEF NoIf, StpRecords

\* One goroutine wakes, one interface is added, one BPDU comes.
LEMMA BridgeKept == BridgeInv /\ StpSim => BridgeInv'
<1> SUFFICES ASSUME BridgeInv, NEW i \in StpIfs,
                    \/ WakeListening(i) \/ WakeLearning(i) \/ (\E cost \in IfCosts : AddStpInterface(i, cost))
                    \/ \E b \in Bridges, c \in RootCosts : ReceiveBpdu(i, b, c)
             PROVE  BridgeInv'
  BY DEF StpSim
<1>0. /\ stpIf[i] \in {Gone} \cup StpRecords
      /\ movers[i] \in [listen : 0..MaxMovers, learn : 0..MaxMovers]
      /\ MaxMovers \in Nat
      /\ Gone.state = "Gone" /\ \A r \in StpRecords : r.state \in StpStates /\ r.role \in {"Root", "Designated"}
  BY TimersAssumption DEF BridgeInv, Gone, StpRecords
<1>1. CASE WakeListening(i)
  <2> DEFINE goesOn == stpIf[i].state = "Listening"
             nextMovers == [listen |-> movers[i].listen - 1, learn |-> IF goesOn THEN movers[i].learn + 1 ELSE movers[i].learn]
             nextIf == IF goesOn THEN [stpIf[i] EXCEPT !.state = "Learning"] ELSE stpIf[i]
  <2>1. /\ movers[i].listen > 0 /\ (goesOn => movers[i].learn < MaxMovers)
        /\ movers' = [movers EXCEPT ![i] = nextMovers]
        /\ stpIf' = [stpIf EXCEPT ![i] = nextIf]
        /\ UNCHANGED <<rootId, rootCost, rootPort>>
    BY <1>1 DEF WakeListening, BridgeInv
  <2>2. /\ nextMovers \in [listen : 0..MaxMovers, learn : 0..MaxMovers]
        /\ goesOn => nextMovers.learn > 0
        /\ nextMovers.learn >= movers[i].learn
    BY <1>0, <2>1
  <2>3. /\ nextIf \in {Gone} \cup StpRecords
        /\ nextIf.state # "Listening"
        /\ nextIf.state = "Learning" => goesOn \/ stpIf[i].state = "Learning"
        /\ nextIf.role = stpIf[i].role /\ nextIf.cost = stpIf[i].cost
    BY <1>0 DEF StpRecords, StpStates, Gone
  <2>4. PortsAreMoved'
    <3> HIDE DEF nextMovers, nextIf
    <3>1. \A j \in StpIfs : j # i => stpIf'[j] = stpIf[j] /\ movers'[j] = movers[j]
      BY <2>1 DEF BridgeInv
    <3>2. stpIf'[i] = nextIf /\ movers'[i] = nextMovers
      BY <2>1 DEF BridgeInv
    <3>3. movers[i].learn \in Nat /\ nextMovers.learn \in Nat
      BY <1>0, <2>2
    <3> QED
      BY <2>2, <2>3, <3>1, <3>2, <3>3 DEF BridgeInv, PortsAreMoved
  <2> QED
    BY <2>1, <2>2, <2>3, <2>4 DEF BridgeInv, RootIsLed
<1>2. CASE WakeLearning(i)
  <2> DEFINE nextMovers == [movers[i] EXCEPT !.learn = @ - 1]
             nextIf == IF stpIf[i].state = "Learning" THEN [stpIf[i] EXCEPT !.state = "Forwarding"] ELSE stpIf[i]
  <2>1. /\ movers[i].learn > 0
        /\ movers' = [movers EXCEPT ![i] = nextMovers]
        /\ stpIf' = [stpIf EXCEPT ![i] = nextIf]
        /\ UNCHANGED <<rootId, rootCost, rootPort>>
    BY <1>2 DEF WakeLearning, BridgeInv
  <2>2. /\ nextMovers \in [listen : 0..MaxMovers, learn : 0..MaxMovers]
        /\ nextMovers.listen = movers[i].listen
    BY <1>0, <2>1
  <2>3. /\ nextIf \in {Gone} \cup StpRecords
        /\ nextIf.state # "Learning"
        /\ nextIf.state = "Listening" => stpIf[i].state = "Listening"
        /\ nextIf.role = stpIf[i].role /\ nextIf.cost = stpIf[i].cost
    BY <1>0 DEF StpRecords, StpStates, Gone
  <2>4. PortsAreMoved'
    <3> HIDE DEF nextMovers, nextIf
    <3>1. \A j \in StpIfs : j # i => stpIf'[j] = stpIf[j] /\ movers'[j] = movers[j]
      BY <2>1 DEF BridgeInv
    <3>2. stpIf'[i] = nextIf /\ movers'[i] = nextMovers
      BY <2>1 DEF BridgeInv
    <3> QED
      BY <2>2, <2>3, <3>1, <3>2 DEF BridgeInv, PortsAreMoved
  <2> QED
    BY <2>1, <2>2, <2>3, <2>4 DEF BridgeInv, RootIsLed
<1>3. ASSUME NEW cost \in IfCosts, AddStpInterface(i, cost) PROVE BridgeInv'
  <2> DEFINE nextIf == [state |-> "Blocking", role |-> "Designated", cost |-> cost]
  <2>1. nextIf \in StpRecords /\ nextIf.state = "Blocking" /\ nextIf.role = "Designated"
    BY DEF StpRecords, StpStates
  <2>2. stpIf' = [stpIf EXCEPT ![i] = nextIf] /\ UNCHANGED <<rootId, rootCost, rootPort, movers>>
    BY <1>3 DEF AddStpInterface
  <2> HIDE DEF nextIf
  <2>3. \A j \in StpIfs : stpIf'[j] = stpIf[j] \/ (stpIf'[j].state = "Blocking" /\ stpIf'[j].role = "Designated")
    BY <2>1, <2>2 DEF BridgeInv
  <2>4. PortsAreMoved' /\ RootIsLed'
    BY <2>2, <2>3 DEF BridgeInv, PortsAreMoved, RootIsLed
  <2> QED
    BY <2>1, <2>2, <2>4 DEF BridgeInv
<1>4. ASSUME NEW b \in Bridges, NEW c \in RootCosts, ReceiveBpdu(i, b, c) PROVE BridgeInv'
  <2> DEFINE cost   == c + stpIf[i].cost
             better == b < rootId \/ (b = rootId /\ cost < rootCost)
             begins == stpIf[i].state # "Forwarding"
             nextMovers == IF begins THEN [movers[i] EXCEPT !.listen = @ + 1] ELSE movers[i]
             state  == IF begins THEN "Listening" ELSE stpIf[i].state
             role   == IF better THEN "Root" ELSE stpIf[i].role
             nextIf == [state |-> state, role |-> role, cost |-> stpIf[i].cost]
  <2>1. /\ stpIf[i] # Gone /\ (begins => movers[i].listen < MaxMovers)
        /\ rootId' = IF better THEN b ELSE rootId
        /\ rootCost' = IF better THEN cost ELSE rootCost
        /\ rootPort' = IF better THEN i ELSE rootPort
        /\ stpIf' = [stpIf EXCEPT ![i] = nextIf]
        /\ movers' = [movers EXCEPT ![i] = nextMovers]
    BY <1>4 DEF ReceiveBpdu, BridgeInv
  <2>2. /\ nextMovers \in [listen : 0..MaxMovers, learn : 0..MaxMovers]
        /\ begins => nextMovers.listen > 0
    BY <1>0, <2>1
  <2>3. /\ nextIf \in StpRecords
        /\ nextIf.state = "Listening" \/ nextIf.state = "Forwarding"
        /\ nextIf.state = "Listening" => begins
        /\ nextIf.cost = stpIf[i].cost /\ (~ better => nextIf.role = stpIf[i].role)
    <3>1. stpIf[i] \in StpRecords /\ state \in StpStates /\ role \in {"Root", "Designated"}
      BY <1>0, <2>1 DEF StpStates
    <3>2. (state = "Listening" \/ state = "Forwarding") /\ (state = "Listening" => begins) /\ (~ better => role = stpIf[i].role)
      BY <1>0, <2>1
    <3> HIDE DEF state, role
    <3>3. nextIf \in StpRecords /\ nextIf.state = state /\ nextIf.role = role /\ nextIf.cost = stpIf[i].cost
      BY <3>1 DEF StpRecords
    <3> QED
      BY <3>2, <3>3
  <2>4. PortsAreMoved'
    <3> HIDE DEF nextMovers, nextIf
    <3>1. \A j \in StpIfs : j # i => stpIf'[j] = stpIf[j] /\ movers'[j] = movers[j]
      BY <2>1 DEF BridgeInv
    <3>2. stpIf'[i] = nextIf /\ movers'[i] = nextMovers
      BY <2>1 DEF BridgeInv
    <3> QED
      BY <2>2, <2>3, <3>1, <3>2 DEF BridgeInv, PortsAreMoved
  <2>5. stpIf[i].cost \in Nat /\ cost \in Nat /\ cost >= stpIf[i].cost /\ b \in Nat
    BY <1>0, <2>1, Bridge
  <2>6. /\ rootId' \in Bridges /\ rootCost' \in Nat /\ rootPort' \in StpIfs \cup {NoIf}
        /\ rootId' <= Me /\ (rootId' = Me => rootCost' = 0) /\ RootIsLed'
    <3> HIDE DEF cost
    <3>1. rootId \in Nat /\ rootCost \in Nat /\ rootId <= Me /\ (rootId = Me => rootCost = 0)
      BY Bridge DEF BridgeInv
    <3>2. CASE better
      <4>1. b < Me
        BY <2>5, <3>1, <3>2, Bridge
      <4> QED
        BY <2>1, <2>5, <3>2, <4>1, Bridge DEF RootIsLed
    <3>3. CASE ~better
      BY <2>1, <3>3 DEF BridgeInv, RootIsLed
    <3> QED
      BY <3>2, <3>3
  <2> HIDE DEF nextMovers, nextIf
  <2> QED
    BY <2>1, <2>2, <2>3, <2>4, <2>6 DEF BridgeInv
<1> QED
  BY <1>1, <1>2, <1>3, <1>4

-----------------------------------------------------------------------------
(* The designated router.                                                  *)

\* The greatest identifier is one of them.
LEMMA HasGreatest ==
  ASSUME NEW S, IsFiniteSet(S), S # {}, S \subseteq Nat
  PROVE  Greatest(S) \in S
<1>1. PICK x \in S : \A y \in S : y <= x
  BY HasTop
<1> QED
  BY <1>1 DEF Greatest

\* A hello, a neighbour that falls silent or is found dead, the interface configured again.
LEMMA RouterKept == RouterInv /\ OspfSim => RouterInv'
<1> SUFFICES ASSUME RouterInv, OspfSim PROVE RouterInv'
  OBVIOUS
<1>0. Routers \subseteq Nat \ {0} /\ IsFiniteSet(Routers) /\ NoRouter = 0
  BY TimersAssumption DEF NoRouter
<1>1. CASE CheckDead
  <2>1. /\ ospfNbr' = [r \in Routers |-> IF r \in silent THEN "Down" ELSE ospfNbr[r]]
        /\ UNCHANGED <<silent, dr, bdr, readds>>
    BY <1>1 DEF CheckDead
  <2>2. ospfNbr' \in [Routers -> {"Unknown", "Init", "2-Way", "Down"}]
    BY <2>1 DEF RouterInv
  <2>3. TwoWay(ospfNbr') \subseteq TwoWay(ospfNbr)
    BY <2>1 DEF TwoWay, RouterInv
  <2> QED
    BY <2>1, <2>2, <2>3 DEF RouterInv, ElectionsDiffer
<1>2. CASE ReaddOspfInterface
  BY <1>2 DEF ReaddOspfInterface, RouterInv, ElectionsDiffer
<1>3. ASSUME NEW r \in Routers, FallSilent(r) PROVE RouterInv'
  BY <1>3 DEF FallSilent, RouterInv, ElectionsDiffer
<1>4. ASSUME NEW r \in Routers, NEW seesUs \in BOOLEAN, ReceiveHello(r, seesUs) PROVE RouterInv'
  <2> DEFINE known == IF ospfNbr[r] = "Unknown" THEN "Init" ELSE ospfNbr[r]
             nbr   == [ospfNbr EXCEPT ![r] = IF seesUs /\ known = "Init" THEN "2-Way" ELSE known]
  <2>1. /\ ospfNbr' = nbr /\ silent' = silent \ {r} /\ readds' = readds
        /\ IF dr = NoRouter /\ nbr[r] = "2-Way" THEN Elect(nbr) ELSE UNCHANGED <<dr, bdr>>
    BY <1>4 DEF ReceiveHello
  <2>2. nbr \in [Routers -> {"Unknown", "Init", "2-Way", "Down"}]
    BY DEF RouterInv
  <2>3. /\ TwoWay(nbr) \subseteq TwoWay(ospfNbr) \cup {r} /\ TwoWay(nbr) \subseteq Routers
        /\ nbr[r] = "2-Way" <=> r \in TwoWay(nbr)
    BY <2>2 DEF TwoWay, RouterInv
  <2> HIDE DEF nbr
  <2>4. CASE ~(dr = NoRouter /\ nbr[r] = "2-Way")
    <3>1. UNCHANGED <<dr, bdr>>
      BY <2>1, <2>4
    <3>2. dr = NoRouter => TwoWay(ospfNbr') = {} \/ readds > 0
      BY <2>1, <2>3, <2>4 DEF RouterInv, ElectionsDiffer
    <3> QED
      BY <2>1, <2>2, <3>1, <3>2 DEF RouterInv, ElectionsDiffer
  <2>5. CASE dr = NoRouter /\ nbr[r] = "2-Way"
    <3> DEFINE R == TwoWay(nbr)
               S == R \ {Greatest(R)}
    <3>1. dr' = Greatest(R) /\ bdr' = IF S = {} THEN bdr ELSE Greatest(S)
      BY <2>1, <2>5 DEF Elect
    <3>2. Greatest(R) \in R
      <4>1. IsFiniteSet(R)
        BY <1>0, <2>3, FS_Subset
      <4> QED
        BY <1>0, <2>3, <2>5, <4>1, HasGreatest
    <3>3. S # {} => Greatest(S) \in S
      <4>1. IsFiniteSet(S)
        <5>1. S \subseteq Routers
          BY <2>3
        <5> QED
          BY <1>0, <5>1, FS_Subset
      <4> QED
        BY <1>0, <2>3, <4>1, HasGreatest
    <3>4. bdr = NoRouter
      BY <2>5 DEF RouterInv, ElectionsDiffer
    <3>5. S # {} => readds > 0
      <4>1. TwoWay(ospfNbr) = {} => R \subseteq {r}
        BY <2>3
      <4>2. TwoWay(ospfNbr) = {} => S = {}
        BY <3>2, <4>1
      <4> QED
        BY <2>5, <4>2 DEF RouterInv, ElectionsDiffer
    <3> HIDE DEF R, S
    <3>6. S \subseteq R /\ Greatest(R) \notin S /\ R \subseteq Routers
      BY <2>3 DEF R, S
    <3>7. dr' \in Routers /\ bdr' \in Routers \cup {NoRouter} /\ (bdr' # NoRouter => bdr' # dr' /\ readds > 0)
      BY <3>1, <3>2, <3>3, <3>4, <3>5, <3>6
    <3>8. dr' # NoRouter
      BY <1>0, <3>7
    <3> QED
      BY <2>1, <2>2, <3>7, <3>8 DEF RouterInv, ElectionsDiffer
  <2> QED
    BY <2>4, <2>5
<1> QED
  BY <1>1, <1>2, <1>3, <1>4 DEF OspfSim

-----------------------------------------------------------------------------
(* The neighbours of BGP.                                                  *)

PeerType == [state : PeerStates, told : [Announced -> Nat]]

\* One neighbour changes, and is told no more.
LEMMA PeerKept ==
  ASSUME PeersInv, NEW n \in Nbrs, NEW p \in PeerType,
         peers' = [peers EXCEPT ![n] = p], ribs' = ribs,
         adds' \in 0..MaxAdds, connects' \in [Nbrs -> 0..adds'], strays' \in 0..adds',
         \A x \in Announced : p.told[x] = 0 \/ (p.told[x] = peers[n].told[x] /\ p.state = "Established"),
         \A m \in Nbrs \ {n} : connects'[m] = connects[m],
         p.state = "Idle" => connects'[n] > 0
  PROVE  PeersInv'
<1>1. peers' \in [Nbrs -> PeerType] /\ peers'[n] = p /\ \A m \in Nbrs \ {n} : peers'[m] = peers[m]
  BY DEF PeersInv, PeerType
<1>2. ASSUME NEW x \in Announced, NEW m \in Nbrs
      PROVE  peers'[m].told[x] <= ribs'[x] /\ (peers'[m].told[x] > 0 => peers'[m].state = "Established")
  <2>1. ribs[x] \in Nat /\ peers[m].told[x] \in Nat
    BY TimersAssumption DEF PeersInv
  <2>2. CASE m = n
    BY <1>1, <2>1, <2>2 DEF PeersInv, AnnouncedIsRouted
  <2>3. CASE m # n
    BY <1>1, <2>1, <2>3 DEF PeersInv, AnnouncedIsRouted, IsUp
  <2> QED
    BY <2>2, <2>3
<1>3. AnnouncedIsRouted'
  BY <1>2 DEF AnnouncedIsRouted, IsUp
<1>4. NeighborsAreTaken'
  BY <1>1 DEF PeersInv, NeighborsAreTaken
<1> QED
  BY <1>1, <1>3, <1>4 DEF PeersInv, PeerType

\* Neighbours come and are connected, routes come and go.
LEMMA PeersKept == PeersInv /\ BgpSim => PeersInv'
<1> SUFFICES ASSUME PeersInv, BgpSim PROVE PeersInv'
  OBVIOUS
<1>0. /\ \A n \in Nbrs : peers[n] \in PeerType /\ connects[n] \in 0..adds
      /\ \A x \in Announced : ribs[x] \in Nat /\ ribs[x] \in 0..MaxRoutes
      /\ adds \in Nat /\ MaxAdds \in Nat /\ MaxRoutes \in Nat /\ strays \in 0..adds
      /\ Connecting \subseteq PeerStates /\ "Idle" \notin Connecting /\ "Established" \notin Connecting
      /\ {"Gone", "Idle", "Established", "Connect"} \subseteq PeerStates
  BY TimersAssumption DEF PeersInv, PeerType, PeerStates, Connecting
<1>1. CASE EndStray
  BY <1>0, <1>1 DEF EndStray, PeersInv, AnnouncedIsRouted, NeighborsAreTaken, IsUp
<1>2. ASSUME NEW n \in Nbrs, AddNeighbor(n) PROVE PeersInv'
  <2> DEFINE p == [NoPeer EXCEPT !.state = "Idle"]
  <2>1. /\ adds < MaxAdds /\ adds' = adds + 1 /\ ribs' = ribs
        /\ strays' = strays \/ strays' = strays + 1
        /\ peers' = [peers EXCEPT ![n] = p]
        /\ connects' = [connects EXCEPT ![n] = @ + 1]
    BY <1>2 DEF AddNeighbor
  <2>2. p \in PeerType /\ p.state = "Idle" /\ \A x \in Announced : p.told[x] = 0
    BY <1>0 DEF NoPeer, PeerType
  <2>3. adds' \in 0..MaxAdds /\ strays' \in 0..adds'
    BY <1>0, <2>1
  <2>4. connects' \in [Nbrs -> 0..adds'] /\ connects'[n] > 0 /\ \A m \in Nbrs \ {n} : connects'[m] = connects[m]
    <3>1. connects \in [Nbrs -> 0..adds]
      BY DEF PeersInv
    <3>2. 0..adds \subseteq 0..adds' /\ connects[n] + 1 \in 0..adds' /\ connects[n] + 1 > 0
      BY <1>0, <2>1
    <3> QED
      BY <2>1, <3>1, <3>2
  <2> HIDE DEF p
  <2> QED
    BY <2>1, <2>2, <2>3, <2>4, PeerKept
<1>3. ASSUME NEW n \in Nbrs, BeginConnect(n) PROVE PeersInv'
  <2> DEFINE p == IF peers[n].state = "Idle" THEN [peers[n] EXCEPT !.state = "Connect"] ELSE peers[n]
  <2>1. /\ adds' = adds /\ ribs' = ribs /\ strays' = strays /\ connects[n] > 0
        /\ connects' = [connects EXCEPT ![n] = @ - 1]
        /\ peers' = [peers EXCEPT ![n] = p]
    BY <1>3 DEF BeginConnect, PeersInv
  <2>2. p \in PeerType /\ p.state # "Idle" /\ p.told = peers[n].told
        /\ (p.state = peers[n].state \/ peers[n].state = "Idle")
    BY <1>0 DEF PeerType
  <2>3. \A x \in Announced : p.told[x] = 0 \/ (p.told[x] = peers[n].told[x] /\ p.state = "Established")
    <3>1. \A x \in Announced : peers[n].told[x] \in Nat /\ (peers[n].told[x] > 0 => peers[n].state = "Established")
      BY <1>0 DEF PeersInv, AnnouncedIsRouted, IsUp, PeerType
    <3> QED
      BY <2>2, <3>1
  <2>4. connects' \in [Nbrs -> 0..adds'] /\ \A m \in Nbrs \ {n} : connects'[m] = connects[m]
    <3>1. connects \in [Nbrs -> 0..adds]
      BY DEF PeersInv
    <3>2. connects[n] - 1 \in 0..adds
      BY <1>0, <2>1
    <3> QED
      BY <2>1, <3>1, <3>2
  <2>5. adds' \in 0..MaxAdds /\ strays' \in 0..adds'
    BY <1>0, <2>1 DEF PeersInv
  <2> HIDE DEF p
  <2> QED
    BY <2>1, <2>2, <2>3, <2>4, <2>5, PeerKept
<1>4. ASSUME NEW n \in Nbrs, GoOnConnecting(n) PROVE PeersInv'
  <2> DEFINE p == [peers[n] EXCEPT !.state = Onward(@)]
  <2>1. /\ adds' = adds /\ ribs' = ribs /\ strays' = strays /\ connects' = connects
        /\ peers[n].state \in Connecting
        /\ peers' = [peers EXCEPT ![n] = p]
    BY <1>4 DEF GoOnConnecting, PeersInv
  <2>2. Onward(peers[n].state) \in {"OpenSent", "OpenConfirm", "Established"}
    BY <2>1 DEF Connecting, Onward
  <2>3. p \in PeerType /\ p.state # "Idle" /\ p.told = peers[n].told
    BY <1>0, <2>2 DEF PeerType, PeerStates, Connecting
  <2>4. \A x \in Announced : p.told[x] = 0
    <3>1. \A x \in Announced : peers[n].told[x] \in Nat /\ (peers[n].told[x] > 0 => peers[n].state = "Established")
      BY <1>0 DEF PeersInv, AnnouncedIsRouted, IsUp, PeerType
    <3> QED
      BY <1>0, <2>1, <2>3, <3>1
  <2>5. adds' \in 0..MaxAdds /\ connects' \in [Nbrs -> 0..adds'] /\ strays' \in 0..adds'
    BY <2>1 DEF PeersInv
  <2> HIDE DEF p
  <2> QED
    BY <2>1, <2>3, <2>4, <2>5, PeerKept
<1>5. ASSUME NEW x \in Announced,
             NEW g, peers' = [n \in Nbrs |-> IF IsUp(n) THEN [peers[n] EXCEPT !.told[x] = g[n]] ELSE peers[n]],
             NEW k \in 0..MaxRoutes, ribs' = [ribs EXCEPT ![x] = k],
             \A n \in Nbrs : g[n] \in Nat /\ g[n] <= k,
             UNCHANGED <<connects, strays, adds>>
      PROVE  PeersInv'
  <2>1. ASSUME NEW n \in Nbrs
        PROVE  /\ peers'[n] \in PeerType /\ peers'[n].state = peers[n].state
               /\ ~IsUp(n) => peers'[n] = peers[n]
               /\ \A y \in Announced : peers'[n].told[y] = IF IsUp(n) /\ y = x THEN g[n] ELSE peers[n].told[y]
    BY <1>0, <1>5 DEF PeerType
  <2>2. peers' \in [Nbrs -> PeerType] /\ ribs' \in [Announced -> 0..MaxRoutes]
    BY <1>5, <2>1 DEF PeersInv
  <2>3. ASSUME NEW n \in Nbrs, NEW y \in Announced
        PROVE  peers'[n].told[y] <= ribs'[y] /\ (peers'[n].told[y] > 0 => peers'[n].state = "Established")
    <3>1. peers[n].told[y] \in Nat /\ ribs[y] \in Nat /\ peers[n].told[y] <= ribs[y]
          /\ (peers[n].told[y] > 0 => peers[n].state = "Established")
      BY <1>0 DEF PeersInv, AnnouncedIsRouted, IsUp, PeerType
    <3>2. ribs'[y] = IF y = x THEN k ELSE ribs[y]
      BY <1>5 DEF PeersInv
    <3>3. CASE IsUp(n) /\ y = x
      <4>1. peers'[n].told[y] = g[n] /\ ribs'[y] = k
        BY <2>1, <3>2, <3>3
      <4>2. peers'[n].state = "Established"
        BY <2>1, <3>3 DEF IsUp
      <4> QED
        BY <1>5, <4>1, <4>2
    <3>4. CASE IsUp(n) /\ y # x
      BY <2>1, <3>1, <3>2, <3>4 DEF IsUp
    <3>5. CASE ~IsUp(n)
      <4>1. peers[n].told[y] = 0 /\ k \in Nat
        BY <1>0, <3>1, <3>5 DEF IsUp
      <4> QED
        BY <2>1, <3>1, <3>2, <3>5, <4>1
    <3> QED
      BY <3>3, <3>4, <3>5
  <2>4. AnnouncedIsRouted' /\ NeighborsAreTaken'
    BY <1>5, <2>1, <2>3 DEF AnnouncedIsRouted, NeighborsAreTaken, IsUp, PeersInv
  <2> QED
    BY <1>5, <2>2, <2>4 DEF PeersInv, PeerType
<1>6. ASSUME NEW x \in Announced, SendUpdate(x) PROVE PeersInv'
  <2> DEFINE g == [n \in Nbrs |-> peers[n].told[x] + 1]
  <2>1. /\ ribs[x] < MaxRoutes /\ ribs' = [ribs EXCEPT ![x] = ribs[x] + 1]
        /\ peers' = [n \in Nbrs |-> IF IsUp(n) THEN [peers[n] EXCEPT !.told[x] = g[n]] ELSE peers[n]]
        /\ UNCHANGED <<connects, strays, adds>>
    BY <1>6 DEF SendUpdate, Tell, PeersInv, PeerType
  <2>2. ribs[x] + 1 \in 0..MaxRoutes
    BY <1>0, <2>1
  <2>3. \A n \in Nbrs : g[n] \in Nat /\ g[n] <= ribs[x] + 1
    BY <1>0 DEF PeersInv, AnnouncedIsRouted, PeerType
  <2> HIDE DEF g
  <2> QED
    BY <1>5, <2>1, <2>2, <2>3
<1>7. ASSUME NEW x \in Announced, WithdrawRoute(x) PROVE PeersInv'
  <2> DEFINE g == [n \in Nbrs |-> Less(peers[n].told[x])]
  <2>1. /\ ribs' = [ribs EXCEPT ![x] = Less(ribs[x])]
        /\ peers' = [n \in Nbrs |-> IF IsUp(n) THEN [peers[n] EXCEPT !.told[x] = g[n]] ELSE peers[n]]
        /\ UNCHANGED <<connects, strays, adds>>
    BY <1>7 DEF WithdrawRoute, Untell, PeersInv, PeerType
  <2>2. Less(ribs[x]) \in 0..MaxRoutes
    BY <1>0 DEF Less
  <2>3. \A n \in Nbrs : g[n] \in Nat /\ g[n] <= Less(ribs[x])
    <3>1. \A n \in Nbrs : peers[n].told[x] \in Nat /\ peers[n].told[x] <= ribs[x] /\ ribs[x] \in Nat
      BY <1>0 DEF PeersInv, AnnouncedIsRouted, PeerType
    <3> QED
      BY <3>1 DEF Less
  <2> HIDE DEF g
  <2> QED
    BY <1>5, <2>1, <2>2, <2>3
<1>8. ASSUME NEW n \in Nbrs, NEW x \in Announced, ReceiveUpdate(n, x) PROVE PeersInv'
  <2>1. /\ ribs[x] = 0 /\ ribs' = [ribs EXCEPT ![x] = 1] /\ UNCHANGED <<peers, connects, strays, adds>>
    BY <1>8 DEF ReceiveUpdate
  <2>2. 1 \in 0..MaxRoutes
    BY TimersAssumption
  <2>3. ribs' \in [Announced -> 0..MaxRoutes] /\ ribs'[x] = 1 /\ \A y \in Announced \ {x} : ribs'[y] = ribs[y]
    BY <2>1, <2>2 DEF PeersInv
  <2>4. \A m \in Nbrs, y \in Announced : peers[m].told[y] \in Nat
    BY <1>0 DEF PeerType
  <2>5. \A m \in Nbrs, y \in Announced : peers[m].told[y] <= ribs'[y]
    <3>1. \A m \in Nbrs : peers[m].told[x] <= 1
      BY <2>1, <2>4 DEF PeersInv, AnnouncedIsRouted
    <3> QED
      BY <2>3, <3>1 DEF PeersInv, AnnouncedIsRouted
  <2>6. AnnouncedIsRouted' /\ NeighborsAreTaken'
    BY <2>1, <2>5 DEF PeersInv, AnnouncedIsRouted, NeighborsAreTaken, IsUp
  <2> QED
    BY <2>1, <2>3, <2>6 DEF PeersInv
<1> QED
  BY <1>1, <1>2, <1>3, <1>4, <1>6, <1>7, <1>8 DEF BgpSim

-----------------------------------------------------------------------------
(* The counters of ICMP.                                                   *)

\* Callers that agree in their fields.
LEMMA CallerFields ==
  ASSUME NEW r \in CallerStates, NEW s \in CallerStates,
         r.pc = s.pc, r.left = s.left, r.asked = s.asked, r.got = s.got
  PROVE  r = s
BY DEF CallerStates

\* What Move writes, field by field: a request less is left,
LEMMA MovesLeft ==
  ASSUME NEW r \in CallerStates, NEW at \in {"idle", "send", "wait"}, NEW l \in 0..PingCount
  PROVE  [[r EXCEPT !.left = l] EXCEPT !.pc = at] = [pc |-> at, left |-> l, asked |-> r.asked, got |-> r.got]
<1> DEFINE u == [r EXCEPT !.left = l]
           w == [u EXCEPT !.pc = at]
           s == [pc |-> at, left |-> l, asked |-> r.asked, got |-> r.got]
<1>1. u \in CallerStates /\ u.left = l /\ u.asked = r.asked /\ u.got = r.got
  BY DEF CallerStates
<1>2. w \in CallerStates /\ w.pc = at /\ w.left = u.left /\ w.asked = u.asked /\ w.got = u.got
  <2> HIDE DEF u
  <2> QED
    BY <1>1 DEF CallerStates
<1>3. s \in CallerStates /\ s.pc = at /\ s.left = l /\ s.asked = r.asked /\ s.got = r.got
  BY DEF CallerStates
<1>4. w = s
  <2> HIDE DEF u, w, s
  <2> QED
    BY <1>1, <1>2, <1>3, CallerFields DEF CallerStates
<1> QED
  BY <1>4

\* ... and one more was asked,
LEMMA MovesAsked ==
  ASSUME NEW r \in CallerStates, NEW at \in {"idle", "send", "wait"}, NEW l \in 0..PingCount, NEW a \in 0..PingCount
  PROVE  [[r EXCEPT !.left = l, !.asked = a] EXCEPT !.pc = at] = [pc |-> at, left |-> l, asked |-> a, got |-> r.got]
<1> DEFINE u == [r EXCEPT !.left = l, !.asked = a]
           w == [u EXCEPT !.pc = at]
           s == [pc |-> at, left |-> l, asked |-> a, got |-> r.got]
<1>1. u \in CallerStates /\ u.left = l /\ u.asked = a /\ u.got = r.got
  BY DEF CallerStates
<1>2. w \in CallerStates /\ w.pc = at /\ w.left = u.left /\ w.asked = u.asked /\ w.got = u.got
  <2> HIDE DEF u
  <2> QED
    BY <1>1 DEF CallerStates
<1>3. s \in CallerStates /\ s.pc = at /\ s.left = l /\ s.asked = a /\ s.got = r.got
  BY DEF CallerStates
<1>4. w = s
  <2> HIDE DEF u, w, s
  <2> QED
    BY <1>1, <1>2, <1>3, CallerFields DEF CallerStates
<1> QED
  BY <1>4

\* ... or one more was got.
LEMMA MovesGot ==
  ASSUME NEW r \in CallerStates, NEW at \in {"idle", "send", "wait"}, NEW g \in 0..PingCount
  PROVE  [[r EXCEPT !.got = g] EXCEPT !.pc = at] = [pc |-> at, left |-> r.left, asked |-> r.asked, got |-> g]
<1> DEFINE u == [r EXCEPT !.got = g]
           w == [u EXCEPT !.pc = at]
           s == [pc |-> at, left |-> r.left, asked |-> r.asked, got |-> g]
<1>1. u \in CallerStates /\ u.left = r.left /\ u.asked = r.asked /\ u.got = g
  BY DEF CallerStates
<1>2. w \in CallerStates /\ w.pc = at /\ w.left = u.left /\ w.asked = u.asked /\ w.got = u.got
  <2> HIDE DEF u
  <2> QED
    BY <1>1 DEF CallerStates
<1>3. s \in CallerStates /\ s.pc = at /\ s.left = r.left /\ s.asked = r.asked /\ s.got = g
  BY DEF CallerStates
<1>4. w = s
  <2> HIDE DEF u, w, s
  <2> QED
    BY <1>1, <1>2, <1>3, CallerFields DEF CallerStates
<1> QED
  BY <1>4

\* One caller goes on.
LEMMA CallerKept ==
  ASSUME CountersInv, NEW c \in Callers, NEW r \in CallerStates, CallInv(r),
         caller' = [caller EXCEPT ![c] = r],
         sent' \in Nat, received' \in Nat,
         ~ mixed' => /\ \A d \in Callers \ {c} : caller[d].pc = "idle"
                     /\ r.pc # "idle" => sent' = r.asked /\ received' = r.got
  PROVE  CountersInv'
<1>1. caller' \in [Callers -> CallerStates] /\ caller'[c] = r /\ \A d \in Callers \ {c} : caller'[d] = caller[d]
  BY DEF CountersInv
<1>2. \A d \in Callers : CallInv(caller'[d])
  BY <1>1 DEF CountersInv
<1>3. ~ mixed' => \A d \in Callers : caller'[d].pc # "idle" => d = c
  BY <1>1
<1>4. LossIsALoss'
  BY <1>1, <1>3 DEF LossIsALoss
<1> QED
  BY <1>1, <1>2, <1>3, <1>4 DEF CountersInv

\* Pings begin and go on, echo requests come, the protocol is switched.
LEMMA CountersKept == CountersInv /\ IcmpSim => CountersInv'
<1> SUFFICES ASSUME CountersInv, IcmpSim PROVE CountersInv'
  OBVIOUS
<1>0. /\ \A c \in Callers : caller[c] \in CallerStates /\ CallInv(caller[c])
      /\ sent \in Nat /\ received \in Nat /\ PingCount \in Nat /\ PingCount > 0
      /\ ~ mixed => \A c, d \in Callers : caller[c].pc # "idle" /\ caller[d].pc # "idle" => c = d
      /\ ~ mixed => \A c \in Callers : caller[c].pc # "idle" => sent = caller[c].asked /\ received = caller[c].got
  BY TimersAssumption DEF CountersInv, LossIsALoss
<1>1. CASE HandleEcho \/ AnswerEcho \/ SwitchIcmp
  <2>1. sent' \in Nat /\ received' \in Nat /\ caller' = caller
        /\ (mixed' = TRUE \/ UNCHANGED <<mixed, sent, received>>)
    BY <1>0, <1>1 DEF HandleEcho, AnswerEcho, SwitchIcmp
  <2> QED
    BY <2>1 DEF CountersInv, LossIsALoss
<1>2. ASSUME NEW c \in Callers, BeginPing(c) PROVE CountersInv'
  <2> DEFINE r == [pc |-> "send", left |-> PingCount, asked |-> 0, got |-> 0]
  <2>1. Resting \in CallerStates /\ Resting.asked = 0 /\ Resting.got = 0 /\ PingCount \in 0..PingCount
    BY <1>0 DEF Resting, CallerStates
  <2>2. [[Resting EXCEPT !.left = PingCount] EXCEPT !.pc = "send"] = r
    BY <2>1, MovesLeft
  <2>3. /\ caller[c].pc = "idle" /\ caller' = [caller EXCEPT ![c] = r]
        /\ sent' = 0 /\ received' = 0
        /\ mixed' = \E d \in Callers : caller[d].pc # "idle"
    BY <1>2, <2>2 DEF BeginPing, Move
  <2>4. r \in CallerStates /\ CallInv(r) /\ r.pc = "send" /\ r.asked = 0 /\ r.got = 0
    BY <1>0 DEF Resting, CallerStates, CallInv
  <2> HIDE DEF r
  <2>5. ~ mixed' => \A d \in Callers : caller[d].pc = "idle"
    BY <2>3
  <2> QED
    BY <2>3, <2>4, <2>5, CallerKept
<1>3. ASSUME NEW c \in Callers, SendEcho(c) PROVE CountersInv'
  <2> DEFINE less == caller[c].left - 1
  <2>1. /\ caller[c].pc = "send" /\ mixed' = mixed /\ received' = received
        /\ \/ /\ sent' = sent + 1
              /\ caller' = [caller EXCEPT ![c] = [[caller[c] EXCEPT !.left = less, !.asked = @ + 1] EXCEPT !.pc = "wait"]]
           \/ /\ sent' = sent
              /\ caller' = [caller EXCEPT ![c] = [[caller[c] EXCEPT !.left = less] EXCEPT !.pc = After(less)]]
    BY <1>3 DEF SendEcho, Move
  <2>2. /\ caller[c].left \in Nat /\ caller[c].left > 0 /\ caller[c].asked + caller[c].left <= PingCount
        /\ caller[c].asked \in Nat /\ caller[c].got \in Nat /\ caller[c].got <= caller[c].asked
    BY <1>0, <2>1 DEF CallInv, CallerStates
  <2>3. /\ ~ mixed => \A d \in Callers \ {c} : caller[d].pc = "idle"
        /\ ~ mixed => sent = caller[c].asked /\ received = caller[c].got
    BY <1>0, <2>1
  <2>4. CASE /\ sent' = sent + 1
             /\ caller' = [caller EXCEPT ![c] = [[caller[c] EXCEPT !.left = less, !.asked = @ + 1] EXCEPT !.pc = "wait"]]
    <3> DEFINE r == [pc |-> "wait", left |-> less, asked |-> caller[c].asked + 1, got |-> caller[c].got]
    <3>1. less \in 0..PingCount /\ caller[c].asked + 1 \in 0..PingCount
      BY <1>0, <2>2
    <3>2. \A l, a \in 0..PingCount :
            [[caller[c] EXCEPT !.left = l, !.asked = a] EXCEPT !.pc = "wait"]
              = [pc |-> "wait", left |-> l, asked |-> a, got |-> caller[c].got]
      BY <1>0, MovesAsked
    <3>3. caller' = [caller EXCEPT ![c] = r]
      <4> HIDE DEF less
      <4> QED
        BY <2>4, <3>1, <3>2
    <3>4. r \in CallerStates /\ CallInv(r) /\ r.pc = "wait" /\ r.asked = caller[c].asked + 1 /\ r.got = caller[c].got
      BY <1>0, <2>2 DEF CallerStates, CallInv
    <3>5. sent' \in Nat
      BY <1>0, <2>4
    <3> HIDE DEF r, less
    <3> QED
      BY <1>0, <2>1, <2>3, <2>4, <3>3, <3>4, <3>5, CallerKept
  <2>5. CASE /\ sent' = sent
             /\ caller' = [caller EXCEPT ![c] = [[caller[c] EXCEPT !.left = less] EXCEPT !.pc = After(less)]]
    <3> DEFINE r == [pc |-> After(less), left |-> less, asked |-> caller[c].asked, got |-> caller[c].got]
    <3>1. less \in 0..PingCount /\ After(less) \in {"idle", "send", "wait"}
      BY <1>0, <2>2 DEF After
    <3>2. [[caller[c] EXCEPT !.left = less] EXCEPT !.pc = After(less)] = r
      <4> HIDE DEF less
      <4> QED
        BY <1>0, <3>1, MovesLeft
    <3>3. caller' = [caller EXCEPT ![c] = r]
      BY <2>5, <3>2
    <3>4. r \in CallerStates /\ CallInv(r) /\ r.asked = caller[c].asked /\ r.got = caller[c].got
      BY <1>0, <2>2 DEF CallerStates, CallInv, After
    <3> HIDE DEF r, less
    <3> QED
      BY <1>0, <2>1, <2>3, <2>5, <3>3, <3>4, CallerKept
  <2> QED
    BY <2>1, <2>4, <2>5
<1>4. ASSUME NEW c \in Callers, NEW answered \in BOOLEAN, EndEcho(c, answered) PROVE CountersInv'
  <2> DEFINE got == IF answered THEN caller[c].got + 1 ELSE caller[c].got
             r == [pc |-> After(caller[c].left), left |-> caller[c].left, asked |-> caller[c].asked, got |-> got]
  <2>1. caller[c].pc = "wait"
    BY <1>4 DEF EndEcho
  <2>2. got \in 0..PingCount /\ After(caller[c].left) \in {"idle", "send", "wait"}
    BY <1>0, <2>1 DEF After, CallerStates, CallInv
  <2>3. [[caller[c] EXCEPT !.got = got] EXCEPT !.pc = After(caller[c].left)] = r
    <3> HIDE DEF got
    <3> QED
      BY <1>0, <2>2, MovesGot
  <2>4. caller' = [caller EXCEPT ![c] = [[caller[c] EXCEPT !.got = got] EXCEPT !.pc = After(caller[c].left)]]
    BY <1>4 DEF EndEcho, Move
  <2>5. /\ caller[c].pc = "wait" /\ mixed' = mixed /\ sent' = sent
        /\ received' = IF answered THEN received + 1 ELSE received
        /\ caller' = [caller EXCEPT ![c] = r]
    BY <1>4, <2>3, <2>4 DEF EndEcho
  <2>6. r \in CallerStates /\ CallInv(r) /\ r.asked = caller[c].asked /\ r.got = got
    BY <1>0, <2>5 DEF CallerStates, CallInv, After
  <2>7. /\ ~ mixed => \A d \in Callers \ {c} : caller[d].pc = "idle"
        /\ ~ mixed => sent = caller[c].asked /\ received = caller[c].got
    BY <1>0, <2>5
  <2>8. received' \in Nat /\ (~ mixed => received' = got)
    BY <1>0, <2>5, <2>7
  <2> HIDE DEF r, got
  <2> QED
    BY <1>0, <2>5, <2>6, <2>7, <2>8, CallerKept
<1> QED
  BY <1>1, <1>2, <1>3, <1>4 DEF IcmpSim

-----------------------------------------------------------------------------
\* The invariant of the proof is as strong as the one the run checks.
LEMMA TimersStrong == TimersInv => TimersSound
<1> SUFFICES ASSUME TimersInv PROVE TimersSound
  OBVIOUS
<1>1. \A i \in StpIfs : stpIf[i] = Gone \/ stpIf[i] \in StpRecords
  BY DEF TimersInv, BridgeInv
<1>2. \A n \in Nbrs : peers[n].state \in PeerStates
  BY DEF TimersInv, PeersInv
<1>3. \A n \in Nbrs : connects[n] \in 0..MaxAdds
  BY TimersAssumption DEF TimersInv, PeersInv
<1>4. connects \in [Nbrs -> 0..MaxAdds] /\ strays \in 0..MaxAdds
  BY <1>3, TimersAssumption DEF TimersInv, PeersInv
<1>5. \A c \in Callers : caller[c].pc \in {"idle", "send", "wait"} /\ {caller[c].left, caller[c].asked, caller[c].got} \subseteq 0..PingCount
  BY DEF TimersInv, CountersInv, CallerStates
<1>6. TimersTypeOK
  BY <1>1, <1>2, <1>4, <1>5 DEF TimersTypeOK, TimersInv, BridgeInv, RouterInv, PeersInv, CountersInv, StpRecords, StpStates, PeerStates
<1> QED
  BY <1>6 DEF TimersSound, TimersInv, BridgeInv, RouterInv, PeersInv, CountersInv

\* Ports on their way have a goroutine that takes them on, the root port goes with a better
\* root, an election has two winners only on an interface that was configured again, no
\* neighbour is told of more routes than there are, and one ping at a time finds its own
\* counts (stp.go, ospf.go, bgp.go, icmp.go).
THEOREM TimersStaySound == TimersSpec => []TimersSound
<1>1. TimersInit => TimersInv
  <2> SUFFICES ASSUME TimersInit PROVE TimersInv
    OBVIOUS
  <2>1. BridgeInv
    <3>1. 0 \in 0..MaxMovers
      BY TimersAssumption
    <3>2. Gone.state = "Gone" /\ \A i \in StpIfs : stpIf[i] = Gone
      BY DEF TimersInit, Gone
    <3> QED
      BY <3>1, <3>2, Bridge, TimersAssumption DEF TimersInit, BridgeInv, PortsAreMoved, RootIsLed
  <2>2. RouterInv
    BY TimersAssumption DEF TimersInit, RouterInv, ElectionsDiffer, TwoWay, NoRouter
  <2>3. PeersInv
    BY TimersAssumption DEF TimersInit, PeersInv, PeerStates, NoPeer, AnnouncedIsRouted, NeighborsAreTaken, IsUp
  <2>4. CountersInv
    BY TimersAssumption DEF TimersInit, CountersInv, CallerStates, Resting, CallInv, LossIsALoss
  <2> QED
    BY <2>1, <2>2, <2>3, <2>4 DEF TimersInv
<1>2. TimersInv /\ [StpSim \/ OspfSim \/ BgpSim \/ IcmpSim]_timerVars => TimersInv'
  <2> SUFFICES ASSUME TimersInv, [StpSim \/ OspfSim \/ BgpSim \/ IcmpSim]_timerVars PROVE TimersInv'
    OBVIOUS
  <2>1. UNCHANGED stpVarsP => BridgeInv'
    BY DEF TimersInv, BridgeInv, stpVarsP, PortsAreMoved, RootIsLed
  <2>2. UNCHANGED ospfVars => RouterInv'
    BY DEF TimersInv, RouterInv, ospfVars, ElectionsDiffer
  <2>3. UNCHANGED bgpVars => PeersInv'
    BY DEF TimersInv, PeersInv, bgpVars, AnnouncedIsRouted, NeighborsAreTaken, IsUp
  <2>4. UNCHANGED icmpVars => CountersInv'
    BY DEF TimersInv, CountersInv, icmpVars, LossIsALoss
  <2>5. CASE StpSim
    BY <2>2, <2>3, <2>4, <2>5, BridgeKept DEF StpSim, TimersInv
  <2>6. CASE OspfSim
    BY <2>1, <2>3, <2>4, <2>6, RouterKept DEF OspfSim, TimersInv
  <2>7. CASE BgpSim
    BY <2>1, <2>2, <2>4, <2>7, PeersKept DEF BgpSim, TimersInv
  <2>8. CASE IcmpSim
    BY <2>1, <2>2, <2>3, <2>8, CountersKept DEF IcmpSim, TimersInv
  <2>9. CASE UNCHANGED timerVars
    <3>1. UNCHANGED stpVarsP /\ UNCHANGED ospfVars /\ UNCHANGED bgpVars /\ UNCHANGED icmpVars
      BY <2>9 DEF timerVars, stpVarsP, ospfVars, bgpVars, icmpVars
    <3> QED
      BY <2>1, <2>2, <2>3, <2>4, <3>1 DEF TimersInv
  <2> QED
    BY <2>5, <2>6, <2>7, <2>8, <2>9
<1> QED
  BY <1>1, <1>2, TimersStrong, PTL DEF TimersSpec

-----------------------------------------------------------------------------
(* Leases.                                                                 *)

PoolRecords ==
  [range : Ranges, excluded : SUBSET Addresses, lease : [Addresses -> [mac : Macs \cup {NoMac}, active : BOOLEAN]],
   there : {TRUE}, offered : Nat]

\* Addresses that were ever given, as the map has them.
Taken(lease) == {a \in Addresses : lease[a] # Free}

LeasesInv ==
  /\ pool = NoPool \/ pool \in PoolRecords
  /\ {requests, acks, nacks, renewals} \subseteq Nat
  /\ pool.there => \A a \in Taken(pool.lease) : pool.lease[a].mac \in Macs
  /\ LeasesSound

\* Addresses can be counted.
LEMMA AddressesFinite == IsFiniteSet(Addresses) /\ Addresses \subseteq Nat
<1>1. TopAddress \in Nat
  BY TablesAssumption
<1>2. IsFiniteSet(0..TopAddress)
  BY <1>1, FS_Interval
<1>3. 0..TopAddress \subseteq Nat
  BY <1>1
<1> QED
  BY <1>2, <1>3 DEF Addresses

\* The loop of AssignIP finds an address that is free if there is one.
LEMMA FirstFreeIsFree == FreeAddresses # {} => FirstFree \in FreeAddresses
<1>1. ASSUME NEW S \in SUBSET Addresses, S # {} PROVE Min(S) \in S
  <2> DEFINE T == {TopAddress - a : a \in S}
  <2>1. \A a \in Addresses : a \in Nat /\ TopAddress - a \in Addresses /\ TopAddress - (TopAddress - a) = a
    BY TablesAssumption DEF Addresses
  <2>2. T \subseteq Addresses /\ T # {}
    BY <1>1, <2>1
  <2>3. IsFiniteSet(T) /\ T \subseteq Nat
    BY <2>2, AddressesFinite, FS_Subset
  <2>4. PICK x \in T : \A y \in T : y <= x
    BY <2>2, <2>3, HasTop
  <2>5. PICK a \in S : x = TopAddress - a
    BY <2>4
  <2>6. \A b \in S : a <= b
    <3>1. \A b \in S : TopAddress - b <= TopAddress - a
      BY <2>4, <2>5
    <3> QED
      BY <3>1, <2>1, TablesAssumption
  <2> QED
    BY <2>6 DEF Min
<1>2. FreeAddresses \subseteq Addresses
  BY DEF FreeAddresses
<1> QED
  BY <1>1, <1>2 DEF FirstFree

\* Pools come and go, addresses are assigned, released and renewed.
LEMMA LeasesKept == LeasesInv /\ DhcpSim => LeasesInv'
<1> SUFFICES ASSUME LeasesInv, DhcpSim PROVE LeasesInv'
  OBVIOUS
<1>0. /\ NoMac \notin Macs /\ NoPool.there = FALSE /\ Free.active = FALSE /\ Free.mac = NoMac
      /\ Free \in [mac : Macs \cup {NoMac}, active : BOOLEAN]
      /\ requests \in Nat /\ acks \in Nat /\ nacks \in Nat /\ renewals \in Nat
  BY TablesAssumption DEF NoPool, Free, NoMac, LeasesInv
<1>1. ASSUME NEW r \in Ranges, AddPool(r) PROVE LeasesInv'
  <2>1. /\ pool' \in PoolRecords /\ pool'.offered = 0 /\ pool'.lease = [a \in Addresses |-> Free]
        /\ UNCHANGED <<requests, acks, nacks, renewals>>
    BY <1>0, <1>1 DEF AddPool, PoolRecords, Counts
  <2>2. Taken(pool'.lease) = {} /\ Cardinality(Taken(pool'.lease)) = 0
    BY <2>1, FS_EmptySet DEF Taken
  <2> QED
    BY <1>0, <2>1, <2>2 DEF LeasesInv, LeasesSound, Taken
<1>2. CASE UNCHANGED pool /\ acks' + nacks' = requests' + renewals' /\ {requests', acks', nacks', renewals'} \subseteq Nat
  BY <1>2 DEF LeasesInv, LeasesSound, Taken
<1>3. CASE RemovePool
  BY <1>0, <1>3 DEF RemovePool, LeasesInv, LeasesSound, Counts
<1>4. CASE SwitchDhcp
  BY <1>0, <1>2, <1>4 DEF SwitchDhcp, Counts, LeasesInv, LeasesSound
<1>5. ASSUME NEW a \in Addresses, ExcludeIP(a) PROVE LeasesInv'
  <2>1. /\ pool' \in PoolRecords /\ pool'.lease = pool.lease /\ pool'.offered = pool.offered /\ pool'.range = pool.range
        /\ pool.there /\ UNCHANGED <<requests, acks, nacks, renewals>>
    BY <1>0, <1>5 DEF ExcludeIP, LeasesInv, PoolRecords, Counts
  <2> QED
    BY <2>1 DEF LeasesInv, LeasesSound
<1>6. ASSUME NEW a \in Addresses, ReleaseIP(a) PROVE LeasesInv'
  <2> DEFINE new == [pool.lease EXCEPT ![a] = [@ EXCEPT !.active = FALSE]]
  <2>1. pool \in PoolRecords /\ pool.there /\ pool.lease[a] # Free /\ pool' = [pool EXCEPT !.lease = new]
        /\ UNCHANGED <<requests, acks, nacks, renewals>>
    BY <1>0, <1>6 DEF ReleaseIP, LeasesInv, Counts
  <2>2. /\ new \in [Addresses -> [mac : Macs \cup {NoMac}, active : BOOLEAN]]
        /\ new[a].mac = pool.lease[a].mac /\ ~new[a].active
        /\ \A b \in Addresses \ {a} : new[b] = pool.lease[b]
    BY <2>1 DEF PoolRecords
  <2>3. new[a].mac \in Macs /\ new[a] # Free
    BY <1>0, <2>1, <2>2 DEF LeasesInv, Taken
  <2> HIDE DEF new
  <2>4. Taken(new) = Taken(pool.lease)
    BY <2>1, <2>2, <2>3 DEF Taken
  <2>5. /\ pool' \in PoolRecords /\ pool'.lease = new /\ pool'.offered = pool.offered /\ pool'.range = pool.range
        /\ pool'.there
    BY <2>1, <2>2 DEF PoolRecords
  <2>6. \A b \in Taken(new) : new[b].mac \in Macs
    BY <2>1, <2>2, <2>3, <2>4 DEF LeasesInv, Taken
  <2>7. \A b, c \in Addresses : b # c /\ new[b].active /\ new[c].active => new[b].mac # new[c].mac
    BY <2>1, <2>2 DEF LeasesInv, LeasesSound
  <2>8. \A b \in Addresses : new[b] # Free => (b >= pool.range[1] /\ b <= pool.range[2]) \/ pool.range[2] = TopAddress
    BY <2>1, <2>4 DEF LeasesInv, LeasesSound, Taken
  <2>9. pool.offered = Cardinality({b \in Addresses : new[b] # Free})
    BY <2>1, <2>4 DEF LeasesInv, LeasesSound, Taken
  <2> QED
    BY <2>1, <2>5, <2>6, <2>7, <2>8, <2>9 DEF LeasesInv, LeasesSound
<1>7. ASSUME NEW m \in Macs, AssignIP(m) PROVE LeasesInv'
  <2>1. CASE UNCHANGED pool
    BY <1>0, <1>2, <1>7, <2>1 DEF AssignIP, LeasesInv, LeasesSound
  <2>2. CASE ~ UNCHANGED pool
    <3> DEFINE a == FirstFree
               new == [pool.lease EXCEPT ![a] = [mac |-> m, active |-> TRUE]]
    <3>1. /\ pool.there /\ ActiveOf(m) = {} /\ FreeAddresses # {}
          /\ pool' = [pool EXCEPT !.lease = new, !.offered = @ + 1]
          /\ requests' = requests + 1 /\ acks' = acks + 1 /\ UNCHANGED <<nacks, renewals>>
      BY <1>7, <2>2 DEF AssignIP
    <3>2. a \in Addresses /\ pool.lease[a] = Free /\ ((a >= pool.range[1] /\ a <= pool.range[2]) \/ pool.range[2] = TopAddress)
      BY <3>1, FirstFreeIsFree DEF FreeAddresses
    <3> HIDE DEF a
    <3>3. pool \in PoolRecords
      BY <1>0, <3>1 DEF LeasesInv
    <3>4. /\ new \in [Addresses -> [mac : Macs \cup {NoMac}, active : BOOLEAN]]
          /\ new[a] = [mac |-> m, active |-> TRUE]
          /\ \A b \in Addresses \ {a} : new[b] = pool.lease[b]
      BY <3>2, <3>3 DEF PoolRecords
    <3> HIDE DEF new
    <3>5. Taken(new) = Taken(pool.lease) \cup {a} /\ a \notin Taken(pool.lease)
      BY <1>0, <3>2, <3>4 DEF Taken, Free
    <3>6. IsFiniteSet(Taken(pool.lease))
      BY AddressesFinite, FS_Subset DEF Taken
    <3>7. Cardinality(Taken(new)) = Cardinality(Taken(pool.lease)) + 1
      BY <3>5, <3>6, FS_AddElement
    <3>8. /\ pool' \in PoolRecords /\ pool'.lease = new /\ pool'.offered = pool.offered + 1 /\ pool'.range = pool.range
          /\ pool'.there
      <4>1. pool.range \in Ranges /\ pool.excluded \subseteq Addresses /\ pool.offered + 1 \in Nat
        BY <3>3 DEF PoolRecords
      <4>2. pool' = [range |-> pool.range, excluded |-> pool.excluded, lease |-> new, there |-> TRUE, offered |-> pool.offered + 1]
        BY <3>1, <3>3 DEF PoolRecords
      <4> QED
        BY <3>4, <4>1, <4>2 DEF PoolRecords
    <3>9. \A b \in Taken(new) : new[b].mac \in Macs
      BY <3>1, <3>4, <3>5 DEF LeasesInv, Taken
    <3>10. \A b \in Addresses \ {a} : new[b].active => new[b].mac # m
      BY <3>1, <3>3, <3>4 DEF ActiveOf, PoolRecords
    <3>11. \A b, c \in Addresses : b # c /\ new[b].active /\ new[c].active => new[b].mac # new[c].mac
      BY <3>1, <3>4, <3>10 DEF LeasesInv, LeasesSound
    <3>12. \A b \in Addresses : new[b] # Free => (b >= pool.range[1] /\ b <= pool.range[2]) \/ pool.range[2] = TopAddress
      BY <3>1, <3>2, <3>5 DEF LeasesInv, LeasesSound, Taken
    <3>13. pool'.offered = Cardinality({b \in Addresses : new[b] # Free})
      BY <3>1, <3>7, <3>8 DEF LeasesInv, LeasesSound, Taken
    <3>14. acks' + nacks' = requests' + renewals' /\ {requests', acks', nacks', renewals'} \subseteq Nat
      BY <1>0, <3>1 DEF LeasesInv, LeasesSound
    <3> QED
      BY <3>8, <3>9, <3>11, <3>12, <3>13, <3>14 DEF LeasesInv, LeasesSound
  <2> QED
    BY <2>1, <2>2
<1>8. ASSUME NEW m \in Macs, RenewLease(m) PROVE LeasesInv'
  BY <1>0, <1>2, <1>8 DEF RenewLease, LeasesInv, LeasesSound
<1> QED
  BY <1>1, <1>3, <1>4, <1>5, <1>6, <1>7, <1>8 DEF DhcpSim

\* The types of the pool and its counts.
LEMMA LeasesTyped ==
  LeasesInv => /\ pool.range \in Ranges \cup {<<0, 0>>} /\ pool.excluded \subseteq Addresses
               /\ pool.there => pool.lease \in [Addresses -> [mac : Macs \cup {NoMac}, active : BOOLEAN]]
<1>1. LeasesInv => pool = NoPool \/ pool \in PoolRecords
  BY DEF LeasesInv
<1>2. NoPool.range = <<0, 0>> /\ NoPool.excluded = {} /\ NoPool.there = FALSE
  BY DEF NoPool
<1>3. pool \in PoolRecords => /\ pool.range \in Ranges /\ pool.excluded \subseteq Addresses
                             /\ pool.lease \in [Addresses -> [mac : Macs \cup {NoMac}, active : BOOLEAN]]
  BY DEF PoolRecords
<1> QED
  BY <1>1, <1>2, <1>3

-----------------------------------------------------------------------------
(* Port translation.                                                       *)

TranslationPcs == {"idle", "load", "store", "compare", "reset"}

PortsInv ==
  /\ natPort \in Nat /\ natPort >= FirstPort
  /\ xlate \in [Senders -> [pc : TranslationPcs, port : Nat, raced : BOOLEAN]]
  /\ given \in [Senders -> Nat]
  /\ \A s \in Senders : xlate[s].pc = "store" => xlate[s].port >= FirstPort
  /\ PortsSound

\* Translations overlap in any order of their steps.
LEMMA PortsKept == PortsInv /\ NatSim => PortsInv'
<1> SUFFICES ASSUME PortsInv, NatSim PROVE PortsInv'
  OBVIOUS
<1> USE DEF TranslationPcs
<1>0. /\ FirstPort \in Nat /\ LastPort \in Nat /\ FirstPort <= LastPort
      /\ natPort \in Nat /\ natPort >= FirstPort
      /\ xlate \in [Senders -> [pc : TranslationPcs, port : Nat, raced : BOOLEAN]] /\ given \in [Senders -> Nat]
      /\ \A s \in Senders : xlate[s].pc = "store" => xlate[s].port >= FirstPort
      /\ natPort > LastPort => \E s \in Senders : xlate[s].pc \in {"compare", "reset"}
      /\ \A s \in Senders : ~ xlate[s].raced => given[s] \in FirstPort..LastPort
  BY TablesAssumption DEF PortsInv, PortsSound
\* A sender that moves on keeps what was noted of it.
<1>m. ASSUME NEW s \in Senders, NEW at \in TranslationPcs, NEW p \in Nat, Moves(s, at, p)
      PROVE  /\ xlate' \in [Senders -> [pc : TranslationPcs, port : Nat, raced : BOOLEAN]]
             /\ xlate'[s].pc = at /\ xlate'[s].port = p /\ xlate'[s].raced = xlate[s].raced
             /\ \A q \in Senders \ {s} : xlate'[q] = xlate[q]
  BY <1>0, <1>m DEF Moves
<1>1. ASSUME NEW s \in Senders, TakePort(s) PROVE PortsInv'
  <2> DEFINE others == {q \in Senders : xlate[q].pc # "idle"}
  <2>1. /\ xlate[s].pc = "idle" /\ UNCHANGED natPort /\ given' = [given EXCEPT ![s] = natPort]
        /\ xlate' = [q \in Senders |->
             IF q = s THEN [pc |-> "load", port |-> 0, raced |-> others # {}]
             ELSE IF q \in others THEN [xlate[q] EXCEPT !.raced = TRUE] ELSE xlate[q]]
    BY <1>1 DEF TakePort
  <2>2. /\ xlate' \in [Senders -> [pc : TranslationPcs, port : Nat, raced : BOOLEAN]]
        /\ xlate'[s].pc = "load" /\ xlate'[s].raced = (others # {})
        /\ \A q \in Senders \ {s} : /\ xlate'[q].pc = xlate[q].pc /\ xlate'[q].port = xlate[q].port
                                    /\ ~xlate'[q].raced => ~xlate[q].raced
    BY <1>0, <2>1
  <2>3. given' \in [Senders -> Nat] /\ given'[s] = natPort /\ \A q \in Senders \ {s} : given'[q] = given[q]
    BY <1>0, <2>1
  <2>4. others = {} => natPort <= LastPort
    BY <1>0
  <2>5. natPort' > LastPort => \E q \in Senders : xlate'[q].pc \in {"compare", "reset"}
    BY <1>0, <2>1, <2>2
  <2>6. \A q \in Senders : ~ xlate'[q].raced => given'[q] \in FirstPort..LastPort
    <3> HIDE DEF others
    <3> QED
      BY <1>0, <2>2, <2>3, <2>4
  <2>7. \A q \in Senders : xlate'[q].pc = "store" => xlate'[q].port >= FirstPort
    BY <1>0, <2>2
  <2> HIDE DEF others
  <2> QED
    BY <1>0, <2>1, <2>2, <2>3, <2>5, <2>6, <2>7 DEF PortsInv, PortsSound
<1>2. ASSUME NEW s \in Senders, LoadPort(s) PROVE PortsInv'
  <2>1. xlate[s].pc = "load" /\ Moves(s, "store", natPort) /\ UNCHANGED <<natPort, given>>
    BY <1>2 DEF LoadPort
  <2>2. /\ xlate' \in [Senders -> [pc : TranslationPcs, port : Nat, raced : BOOLEAN]]
        /\ xlate'[s].pc = "store" /\ xlate'[s].port = natPort /\ xlate'[s].raced = xlate[s].raced
        /\ \A q \in Senders \ {s} : xlate'[q] = xlate[q]
    BY <1>0, <1>m, <2>1
  <2> QED
    BY <1>0, <2>1, <2>2 DEF PortsInv, PortsSound
<1>3. ASSUME NEW s \in Senders, StorePort(s) PROVE PortsInv'
  <2>1. xlate[s].pc = "store" /\ natPort' = xlate[s].port + 1 /\ Moves(s, "compare", 0) /\ UNCHANGED given
    BY <1>3 DEF StorePort
  <2>2. /\ xlate' \in [Senders -> [pc : TranslationPcs, port : Nat, raced : BOOLEAN]]
        /\ xlate'[s].pc = "compare" /\ xlate'[s].raced = xlate[s].raced
        /\ \A q \in Senders \ {s} : xlate'[q] = xlate[q]
    BY <1>0, <1>m, <2>1
  <2>3. natPort' \in Nat /\ natPort' >= FirstPort
    BY <1>0, <2>1
  <2> QED
    BY <1>0, <2>1, <2>2, <2>3 DEF PortsInv, PortsSound
<1>4. ASSUME NEW s \in Senders, ComparePort(s) PROVE PortsInv'
  <2> DEFINE at == IF natPort > LastPort THEN "reset" ELSE "idle"
  <2>1. xlate[s].pc = "compare" /\ Moves(s, at, 0) /\ UNCHANGED <<natPort, given>>
    BY <1>4 DEF ComparePort
  <2>2. /\ xlate' \in [Senders -> [pc : TranslationPcs, port : Nat, raced : BOOLEAN]]
        /\ xlate'[s].pc = at /\ xlate'[s].raced = xlate[s].raced
        /\ \A q \in Senders \ {s} : xlate'[q] = xlate[q]
    BY <1>0, <1>m, <2>1
  <2> QED
    BY <1>0, <2>1, <2>2 DEF PortsInv, PortsSound
<1>5. ASSUME NEW s \in Senders, ResetPort(s) PROVE PortsInv'
  <2>1. xlate[s].pc = "reset" /\ natPort' = FirstPort /\ Moves(s, "idle", 0) /\ UNCHANGED given
    BY <1>5 DEF ResetPort
  <2>2. /\ xlate' \in [Senders -> [pc : TranslationPcs, port : Nat, raced : BOOLEAN]]
        /\ xlate'[s].pc = "idle" /\ xlate'[s].raced = xlate[s].raced
        /\ \A q \in Senders \ {s} : xlate'[q] = xlate[q]
    BY <1>0, <1>m, <2>1
  <2> QED
    BY <1>0, <2>1, <2>2 DEF PortsInv, PortsSound
<1> QED
  BY <1>1, <1>2, <1>3, <1>4, <1>5 DEF NatSim

-----------------------------------------------------------------------------
(* ARP.                                                                    *)

ArpEntries == [mac : Nodes \cup {NoMac}, iface : BOOLEAN, fresh : BOOLEAN]

ArpInv ==
  /\ static \in [Ips -> Nodes \cup {NoMac}] /\ dynamic \in [Ips -> ArpEntries]
  /\ \A i \in Ips : static[i] # NoMac /\ dynamic[i].fresh => ~dynamic[i].iface

\* With an entry over a static one only from a packet, the static one answers alone.
LEMMA ArpRight == ArpInv => ArpSound
BY DEF ArpInv, ArpSound, LinesOf, Resolved

\* Entries are added, learned, deleted, and expire.
LEMMA ArpKept == ArpInv /\ ArpSim => ArpInv'
<1> SUFFICES ASSUME ArpInv, ArpSim PROVE ArpInv'
  OBVIOUS
<1> USE DEF ArpInv, ArpEntries, NoArp, Learned
<1>1. CASE ClearDynamicARP
  BY <1>1 DEF ClearDynamicARP
<1>2. ASSUME NEW i \in Ips, DeleteARP(i) \/ Expire(i) \/ AnswerArp(i) \/ ResolveMAC(i) PROVE ArpInv'
  <2>1. CASE DeleteARP(i)
    BY <2>1 DEF DeleteARP
  <2>2. CASE Expire(i)
    BY <2>2 DEF Expire
  <2>3. CASE AnswerArp(i)
    BY <2>3 DEF AnswerArp
  <2>4. CASE ResolveMAC(i)
    <3>1. /\ dynamic' = dynamic \/ dynamic' = [dynamic EXCEPT ![i] = NoArp]
          /\ UNCHANGED static
      BY <2>4 DEF ResolveMAC
    <3>2. [dynamic EXCEPT ![i] = NoArp] \in [Ips -> ArpEntries]
      OBVIOUS
    <3> QED
      BY <3>1, <3>2
  <2> QED
    BY <1>2, <2>1, <2>2, <2>3, <2>4
<1>3. ASSUME NEW i \in Ips, NEW m \in Nodes, AddStaticARP(i, m) \/ AddDynamicARP(i, m) PROVE ArpInv'
  <2>1. CASE AddStaticARP(i, m)
    BY <2>1 DEF AddStaticARP
  <2>2. CASE AddDynamicARP(i, m)
    <3>1. /\ static[i] = NoMac /\ UNCHANGED static
          /\ dynamic' = [dynamic EXCEPT ![i] = Learned(m, TRUE)] /\ Learned(m, TRUE) \in ArpEntries
      BY <2>2 DEF AddDynamicARP
    <3>2. dynamic' \in [Ips -> ArpEntries] /\ \A j \in Ips : j = i \/ dynamic'[j] = dynamic[j]
      BY <3>1
    <3> QED
      BY <3>1, <3>2
  <2> QED
    BY <1>3, <2>1, <2>2
<1>4. ASSUME NEW i \in Ips, NEW m \in Nodes, NEW t \in Ips, LearnSender(i, m, t) PROVE ArpInv'
  BY <1>4 DEF LearnSender
<1> QED
  BY <1>1, <1>2, <1>3, <1>4 DEF ArpSim

-----------------------------------------------------------------------------
(* Connections.                                                            *)

Telnets == [pc : Remotes \cup {"idle"}, port : Nat, raced : BOOLEAN]

\* Until one is closed, connections have ports below the next one by their number, a
\* telnet that nobody overlapped is about to use that one, and two that overlap know it.
DialInv ==
  /\ IsFiniteSet(conns)
  /\ dialing \in [Senders -> Telnets]
  /\ listening \subseteq Remotes
  /\ \A c \in conns : c[1] \in PortBase..(PortBase + PortSpan - 1) /\ c[2] \in Remotes
  /\ \A s \in Senders : dialing[s].pc # "idle" =>
       /\ dialing[s].port \in PortBase..(PortBase + PortSpan - 1)
       /\ ~dialing[s].raced => \A q \in Senders : dialing[q].pc # "idle" => q = s
       /\ ~closedSome => dialing[s].port <= PortBase + Cardinality(conns)
       /\ ~closedSome /\ ~dialing[s].raced => dialing[s].port = PortBase + (Cardinality(conns) % PortSpan)
  /\ ~closedSome => \A c \in conns : c[1] < PortBase + Cardinality(conns)
  /\ ~refused

\* Telnets choose a port and use it later, and connections are closed.
LEMMA DialKept == DialInv /\ TcpSim => DialInv'
<1> SUFFICES ASSUME DialInv, TcpSim PROVE DialInv'
  OBVIOUS
<1>0. /\ PortBase \in Nat /\ PortSpan \in Nat \ {0} /\ "idle" \notin Remotes /\ Cardinality(conns) \in Nat
      /\ IsFiniteSet(conns) /\ Cardinality(conns) % PortSpan \in 0..(PortSpan - 1)
      /\ Cardinality(conns) % PortSpan <= Cardinality(conns)
      /\ Cardinality(conns) < PortSpan => Cardinality(conns) % PortSpan = Cardinality(conns)
  <2>1. PortSpan \in Nat /\ PortSpan > 0
    BY TablesAssumption
  <2>2. \A n \in Nat : n % PortSpan \in 0..(PortSpan - 1) /\ n % PortSpan <= n /\ (n < PortSpan => n % PortSpan = n)
    BY <2>1
  <2> QED
    BY <2>1, <2>2, TablesAssumption, FS_CardinalityType DEF DialInv
<1>1. ASSUME NEW r \in Remotes, AddListener(r) \/ RemoveListener(r) PROVE DialInv'
  BY <1>1 DEF AddListener, RemoveListener, DialInv
<1>2. ASSUME NEW r \in Remotes, NEW s \in Senders, ChoosePort(s, r) PROVE DialInv'
  <2> DEFINE others == {q \in Senders : dialing[q].pc # "idle"}
             port == PortBase + (Cardinality(conns) % PortSpan)
  <2>1. /\ dialing[s].pc = "idle" /\ UNCHANGED <<conns, listening, closedSome, refused>>
        /\ dialing' = [q \in Senders |->
             IF q = s THEN [pc |-> r, port |-> port, raced |-> others # {}]
             ELSE IF q \in others THEN [dialing[q] EXCEPT !.raced = TRUE] ELSE dialing[q]]
    BY <1>2 DEF ChoosePort
  <2>2. port \in Nat /\ port \in PortBase..(PortBase + PortSpan - 1) /\ port <= PortBase + Cardinality(conns)
    BY <1>0
  <2> HIDE DEF port
  <2>3. /\ dialing' \in [Senders -> Telnets]
        /\ dialing'[s].pc = r /\ dialing'[s].port = port /\ dialing'[s].raced = (others # {})
        /\ \A q \in Senders \ {s} : /\ dialing'[q].pc = dialing[q].pc /\ dialing'[q].port = dialing[q].port
                                    /\ dialing[q].pc # "idle" => dialing'[q].raced
    <3>1. dialing \in [Senders -> Telnets]
      BY DEF DialInv
    <3>2. dialing'[s] = [pc |-> r, port |-> port, raced |-> others # {}]
      BY <2>1
    <3>3. \A q \in Senders \ {s} : dialing'[q] = IF q \in others THEN [dialing[q] EXCEPT !.raced = TRUE] ELSE dialing[q]
      BY <2>1
    <3>4. \A q \in Senders \ {s} : dialing'[q] \in Telnets
      BY <3>1, <3>3 DEF Telnets
    <3>5. dialing'[s] \in Telnets
      BY <2>2, <3>2 DEF Telnets
    <3>6. dialing' \in [Senders -> Telnets]
      <4>1. dialing' = [q \in Senders |-> dialing'[q]]
        BY <2>1
      <4>2. \A q \in Senders : dialing'[q] \in Telnets
        BY <3>4, <3>5
      <4> QED
        BY <4>1, <4>2
    <3>7. dialing'[s].pc = r /\ dialing'[s].port = port /\ dialing'[s].raced = (others # {})
      BY <3>2
    <3>8. ASSUME NEW q \in Senders \ {s}
          PROVE  /\ dialing'[q].pc = dialing[q].pc /\ dialing'[q].port = dialing[q].port
                 /\ dialing[q].pc # "idle" => dialing'[q].raced
      <4>1. CASE q \in others
        <5>1. dialing[q] \in Telnets /\ dialing'[q] = [dialing[q] EXCEPT !.raced = TRUE]
          BY <3>1, <3>3, <4>1
        <5> QED
          BY <5>1 DEF Telnets
      <4>2. CASE q \notin others
        <5>1. dialing'[q] = dialing[q] /\ dialing[q].pc = "idle"
          BY <3>3, <4>2
        <5> QED
          BY <5>1
      <4> QED
        BY <4>1, <4>2
    <3> HIDE DEF others
    <3> QED
      BY <3>6, <3>7, <3>8
  <2>4. \A q \in Senders : dialing'[q].pc # "idle" =>
          /\ dialing'[q].port \in PortBase..(PortBase + PortSpan - 1)
          /\ ~dialing'[q].raced => \A t \in Senders : dialing'[t].pc # "idle" => t = q
          /\ ~closedSome => dialing'[q].port <= PortBase + Cardinality(conns)
          /\ ~closedSome /\ ~dialing'[q].raced => dialing'[q].port = port
    <3>1. CASE others = {}
      BY <2>2, <2>3, <3>1
    <3>2. CASE others # {}
      <4> HIDE DEF others
      <4> QED
        BY <2>2, <2>3, <3>2 DEF DialInv
    <3> QED
      BY <3>1, <3>2
  <2> QED
    BY <2>1, <2>3, <2>4 DEF DialInv, port
<1>3. ASSUME NEW s \in Senders, DialPort(s) PROVE DialInv'
  <2> DEFINE conn == <<dialing[s].port, dialing[s].pc>>
  <2>1. /\ dialing[s].pc # "idle" /\ conns' = conns \cup {conn} /\ UNCHANGED <<listening, closedSome>>
        /\ dialing' = [dialing EXCEPT ![s] = Idle]
        /\ refused' = (refused \/ (conn \in conns /\ ~ closedSome /\ ~ dialing[s].raced /\ Cardinality(conns) < PortSpan))
    BY <1>3 DEF DialPort
  <2>2. conn[1] = dialing[s].port /\ conn[2] \in Remotes /\ conn[1] \in PortBase..(PortBase + PortSpan - 1)
    <3>1. dialing[s] \in Telnets /\ dialing[s].pc # "idle"
      BY <2>1 DEF DialInv
    <3>2. dialing[s].port \in PortBase..(PortBase + PortSpan - 1)
      BY <2>1 DEF DialInv
    <3> QED
      BY <3>1, <3>2 DEF Telnets
  <2>3. ~refused'
    <3> SUFFICES ASSUME conn \in conns, ~ closedSome, ~ dialing[s].raced, Cardinality(conns) < PortSpan PROVE FALSE
      BY <2>1 DEF DialInv
    <3>1. conn[1] = PortBase + Cardinality(conns)
      BY <1>0, <2>1, <2>2 DEF DialInv
    <3>2. conn[1] < PortBase + Cardinality(conns)
      BY DEF DialInv
    <3> QED
      BY <1>0, <3>1, <3>2
  <2>4. /\ dialing' \in [Senders -> Telnets]
        /\ dialing'[s].pc = "idle" /\ \A q \in Senders \ {s} : dialing'[q] = dialing[q]
    <3>1. Idle \in Telnets /\ Idle.pc = "idle"
      BY DEF Idle, Telnets
    <3>2. dialing \in [Senders -> Telnets]
      BY DEF DialInv
    <3> QED
      BY <2>1, <3>1, <3>2
  <2>5. IsFiniteSet(conns') /\ Cardinality(conns') = IF conn \in conns THEN Cardinality(conns) ELSE Cardinality(conns) + 1
    BY <1>0, <2>1, FS_AddElement
  <2>6. Cardinality(conns') \in Nat /\ Cardinality(conns') >= Cardinality(conns)
    BY <1>0, <2>5
  <2>7. \A q \in Senders \ {s} : dialing[q].pc # "idle" => dialing[q].raced
    BY <2>1 DEF DialInv
  <2>8. ~closedSome => dialing[s].port <= PortBase + Cardinality(conns)
    BY <2>1 DEF DialInv
  <2>9. ~closedSome' => \A c \in conns' : c[1] < PortBase + Cardinality(conns')
    <3> SUFFICES ASSUME ~closedSome, NEW c \in conns' PROVE c[1] < PortBase + Cardinality(conns')
      BY <2>1
    <3>1. CASE c \in conns
      <4>1. c[1] < PortBase + Cardinality(conns) /\ c[1] \in Nat
        BY <1>0, <3>1 DEF DialInv
      <4> QED
        BY <1>0, <2>6, <4>1
    <3>2. CASE c = conn /\ conn \notin conns
      <4>1. c[1] <= PortBase + Cardinality(conns) /\ c[1] \in Nat
        BY <1>0, <2>2, <2>8, <3>2
      <4> QED
        BY <1>0, <2>5, <3>2, <4>1
    <3> QED
      BY <2>1, <3>1, <3>2
  <2>10. \A q \in Senders : dialing'[q].pc # "idle" =>
          /\ dialing'[q].port \in PortBase..(PortBase + PortSpan - 1)
          /\ dialing'[q].raced
          /\ ~closedSome' => dialing'[q].port <= PortBase + Cardinality(conns')
    <3> SUFFICES ASSUME NEW q \in Senders, q # s, dialing[q].pc # "idle"
                 PROVE  /\ dialing[q].port \in PortBase..(PortBase + PortSpan - 1)
                        /\ ~closedSome => dialing[q].port <= PortBase + Cardinality(conns')
      BY <2>1, <2>4, <2>7
    <3>1. /\ dialing[q].port \in PortBase..(PortBase + PortSpan - 1)
          /\ ~closedSome => dialing[q].port <= PortBase + Cardinality(conns)
      BY DEF DialInv
    <3> QED
      BY <1>0, <2>6, <3>1
  <2>11. \A c \in conns' : c[1] \in PortBase..(PortBase + PortSpan - 1) /\ c[2] \in Remotes
    BY <2>1, <2>2 DEF DialInv
  <2> HIDE DEF conn
  <2> QED
    BY <2>1, <2>3, <2>4, <2>5, <2>9, <2>10, <2>11 DEF DialInv
<1>4. ASSUME NEW c \in conns, Disconnect(c) PROVE DialInv'
  <2>1. conns' = conns \ {c} /\ closedSome' /\ UNCHANGED <<dialing, listening, refused>>
    BY <1>4 DEF Disconnect
  <2>2. IsFiniteSet(conns')
    BY <1>0, <2>1, FS_RemoveElement
  <2> QED
    BY <2>1, <2>2 DEF DialInv
<1> QED
  BY <1>1, <1>2, <1>3, <1>4 DEF TcpSim

-----------------------------------------------------------------------------
(* Servers, names and tunnels.                                             *)

ServersInv ==
  /\ {udpServer, udpStats} \subseteq -1..MaxRequests /\ udpServer <= udpStats
  /\ ftp \in [there : BOOLEAN, count : 0..MaxFtp] /\ (~ftp.there => ftp.count = 0)
  /\ IsFiniteSet(attached) /\ ftp.count <= Cardinality(attached)
  /\ http \in [there : BOOLEAN, requests : 0..MaxRequests, responses : 0..MaxRequests]
  /\ http.requests = http.responses

\* Servers start and stop, packets and requests come, clients come and go.
LEMMA ServersKept == ServersInv /\ ServerSim => ServersInv'
<1> SUFFICES ASSUME ServersInv, ServerSim PROVE ServersInv'
  OBVIOUS
<1>0. /\ MaxRequests \in Nat /\ MaxFtp \in Nat /\ Cardinality(attached) \in Nat /\ IsFiniteSet(attached)
      /\ udpServer \in -1..MaxRequests /\ udpStats \in -1..MaxRequests /\ ftp.count \in 0..MaxFtp
  BY TablesAssumption, FS_CardinalityType DEF ServersInv
<1>1. CASE AddServer \/ RemoveServer \/ ReceivePacket
  BY <1>0, <1>1 DEF AddServer, RemoveServer, ReceivePacket, ServersInv
<1>2. CASE StartFtp \/ StopFtp
  <2>1. \E b \in BOOLEAN : ftp' = [there |-> b, count |-> 0]
    BY <1>2 DEF StartFtp, StopFtp, NoFtp
  <2>2. UNCHANGED <<udpServer, udpStats, attached, http>>
    BY <1>2 DEF StartFtp, StopFtp
  <2>3. ftp' \in [there : BOOLEAN, count : 0..MaxFtp] /\ ftp'.count = 0
    BY <1>0, <2>1
  <2> QED
    BY <1>0, <2>2, <2>3 DEF ServersInv
<1>3. CASE StartHttp \/ StopHttp \/ HandleRequest
  <2>1. http' \in [there : BOOLEAN, requests : 0..MaxRequests, responses : 0..MaxRequests] /\ http'.requests = http'.responses
    <3> DEFINE Https == [there : BOOLEAN, requests : 0..MaxRequests, responses : 0..MaxRequests]
    <3>1. http \in Https /\ http.requests = http.responses
      BY DEF ServersInv
    <3>2. \/ http' = [there |-> http'.there, requests |-> 0, responses |-> 0] /\ http'.there \in BOOLEAN
          \/ /\ http.requests < MaxRequests
             /\ http' = [there |-> http.there, requests |-> http.requests + 1, responses |-> http.responses + 1]
          \/ http' = http
      <4>1. CASE StartHttp
        BY <4>1 DEF StartHttp, NoHttp
      <4>2. CASE StopHttp
        BY <4>2 DEF StopHttp, NoHttp
      <4>3. CASE HandleRequest
        BY <3>1, <4>3 DEF HandleRequest
      <4> QED
        BY <1>3, <4>1, <4>2, <4>3
    <3> QED
      BY <1>0, <3>1, <3>2
  <2> QED
    BY <1>3, <2>1 DEF StartHttp, StopHttp, HandleRequest, ServersInv
<1>4. ASSUME NEW c \in FtpClients, Attach(c) PROVE ServersInv'
  <2>1. IsFiniteSet(attached') /\ Cardinality(attached') = Cardinality(attached) + 1
    BY <1>0, <1>4, FS_AddElement DEF Attach
  <2>2. ftp' \in [there : BOOLEAN, count : 0..MaxFtp] /\ ftp'.count = ftp.count + 1 /\ ftp'.there
    BY <1>0, <1>4 DEF Attach, ServersInv
  <2> QED
    BY <1>0, <1>4, <2>1, <2>2 DEF Attach, ServersInv
<1>5. ASSUME NEW c \in FtpClients, Detach(c) PROVE ServersInv'
  <2>1. IsFiniteSet(attached') /\ Cardinality(attached') = Cardinality(attached) - 1
    BY <1>0, <1>5, FS_RemoveElement DEF Detach
  <2>2. /\ ftp' \in [there : BOOLEAN, count : 0..MaxFtp] /\ (~ftp'.there => ftp'.count = 0)
        /\ ftp'.count = IF ftp.count > 0 THEN ftp.count - 1 ELSE 0
    BY <1>0, <1>5 DEF Detach, ServersInv
  <2>3. Cardinality(attached) > 0
    BY <1>0, <1>5, FS_EmptySet DEF Detach
  <2>4. ftp'.count <= Cardinality(attached')
    BY <1>0, <2>1, <2>2, <2>3 DEF ServersInv
  <2> QED
    BY <1>5, <2>1, <2>2, <2>4 DEF Detach, ServersInv
<1> QED
  BY <1>1, <1>2, <1>3, <1>4, <1>5 DEF ServerSim

NamesInv == {queries, errors} \subseteq 0..MaxRequests /\ answers = queries /\ errors <= queries

\* Every query is answered, if only with an error.
LEMMA NamesKept == NamesInv /\ DnsSim => NamesInv'
BY TablesAssumption DEF NamesInv, DnsSim, RemoveZone, Query, AddRecord, RemoveRecord

\* Tunnels start at the address the VTEP has when they are created.
LEMMA TunnelsKept == TunnelsSound /\ VxlanSim => TunnelsSound'
<1> SUFFICES ASSUME TunnelsSound, VxlanSim PROVE TunnelsSound'
  OBVIOUS
<1>1. CASE CreateVSI \/ BindInterface
  BY <1>1 DEF CreateVSI, BindInterface, TunnelsSound
<1>2. ASSUME NEW v \in Veps, SetVTEPIP(v) PROVE TunnelsSound'
  BY <1>2 DEF SetVTEPIP, TunnelsSound
<1>3. ASSUME NEW v \in Veps, CreateTunnel(v) PROVE TunnelsSound'
  BY <1>3 DEF CreateTunnel, TunnelsSound
<1> QED
  BY <1>1, <1>2, <1>3 DEF VxlanSim

-----------------------------------------------------------------------------
TablesInv == LeasesInv /\ PortsInv /\ ArpInv /\ DialInv /\ ServersInv /\ NamesInv /\ TunnelsSound

\* The invariant of the proof is as strong as the one the run checks.
LEMMA TablesStrong == TablesInv => TablesSound
<1> SUFFICES ASSUME TablesInv PROVE TablesSound
  OBVIOUS
<1>1. \A s \in Senders : xlate[s].pc \in TranslationPcs
  BY DEF TablesInv, PortsInv
<1>2. {http.requests, http.responses, queries, errors} \subseteq 0..MaxRequests
  BY DEF TablesInv, ServersInv, NamesInv
<1>3. TablesTypeOK
  BY <1>1, <1>2, LeasesTyped DEF TablesTypeOK, TablesInv, TranslationPcs, ArpInv, DialInv, ServersInv
<1>4. ServersSound
  <2>1. ftp.count \in 0..MaxFtp /\ MaxFtp \in Nat
    BY TablesAssumption DEF TablesInv, ServersInv
  <2> QED
    BY <2>1 DEF ServersSound, TablesInv, ServersInv, NamesInv
<1> QED
  BY <1>3, <1>4, ArpRight DEF TablesSound, TablesInv, LeasesInv, PortsInv, DialInv

\* A host has one active lease and no lease of the pool is forgotten, a port that is next is
\* one of the rule's whenever no translation is under way, a static ARP entry answers for its
\* address, a telnet alone is refused only after a connection was closed, servers count no
\* more than their ports and no more clients than they have, and tunnels start at the VTEP's
\* address (dhcp.go, nat.go, arp.go, tcp.go, udp.go, ftp.go, http.go, dns.go, vxlan.go).
THEOREM TablesStaySound == TablesSpec => []TablesSound
<1>1. TablesInit => TablesInv
  <2> SUFFICES ASSUME TablesInit PROVE TablesInv
    OBVIOUS
  <2>0. /\ {FirstPort, LastPort, MaxRequests, MaxFtp, PortBase} \subseteq Nat /\ FirstPort <= LastPort
        /\ IsFiniteSet({}) /\ Cardinality({}) = 0
    BY TablesAssumption, FS_EmptySet
  <2>1. LeasesInv
    BY <2>0 DEF TablesInit, LeasesInv, LeasesSound, NoPool
  <2>2. PortsInv
    BY <2>0 DEF TablesInit, PortsInv, PortsSound, TranslationPcs, Idle
  <2>3. ArpInv
    BY DEF TablesInit, ArpInv, ArpEntries, NoArp
  <2>4. DialInv
    BY <2>0 DEF TablesInit, DialInv, Telnets, Idle
  <2>5. ServersInv
    BY <2>0 DEF TablesInit, ServersInv, NoFtp, NoHttp
  <2>6. NamesInv /\ TunnelsSound
    BY <2>0 DEF TablesInit, NamesInv, TunnelsSound
  <2> QED
    BY <2>1, <2>2, <2>3, <2>4, <2>5, <2>6 DEF TablesInv
<1>2. TablesInv /\ [DhcpSim \/ NatSim \/ ArpSim \/ TcpSim \/ ServerSim \/ DnsSim \/ VxlanSim]_tableVars => TablesInv'
  <2> SUFFICES ASSUME TablesInv, [DhcpSim \/ NatSim \/ ArpSim \/ TcpSim \/ ServerSim \/ DnsSim \/ VxlanSim]_tableVars
               PROVE  TablesInv'
    OBVIOUS
  <2>1. UNCHANGED dhcpVars => LeasesInv'
    BY DEF TablesInv, LeasesInv, dhcpVars, LeasesSound, Taken
  <2>2. UNCHANGED natVars => PortsInv'
    BY DEF TablesInv, PortsInv, natVars, PortsSound
  <2>3. UNCHANGED arpVars => ArpInv'
    BY DEF TablesInv, ArpInv, arpVars
  <2>4. UNCHANGED tcpVars => DialInv'
    BY DEF TablesInv, DialInv, tcpVars
  <2>5. UNCHANGED netVars => ServersInv'
    BY DEF TablesInv, ServersInv, netVars
  <2>6. UNCHANGED dnsVars => NamesInv'
    BY DEF TablesInv, NamesInv, dnsVars
  <2>7. UNCHANGED vxlanVars => TunnelsSound'
    BY DEF TablesInv, TunnelsSound, vxlanVars
  <2>8. CASE DhcpSim
    BY <2>2, <2>3, <2>4, <2>5, <2>6, <2>7, <2>8, LeasesKept DEF DhcpSim, TablesInv
  <2>9. CASE NatSim
    BY <2>1, <2>3, <2>4, <2>5, <2>6, <2>7, <2>9, PortsKept DEF NatSim, TablesInv
  <2>10. CASE ArpSim
    BY <2>1, <2>2, <2>4, <2>5, <2>6, <2>7, <2>10, ArpKept DEF ArpSim, TablesInv
  <2>11. CASE TcpSim
    BY <2>1, <2>2, <2>3, <2>5, <2>6, <2>7, <2>11, DialKept DEF TcpSim, TablesInv
  <2>12. CASE ServerSim
    BY <2>1, <2>2, <2>3, <2>4, <2>6, <2>7, <2>12, ServersKept DEF ServerSim, TablesInv
  <2>13. CASE DnsSim
    BY <2>1, <2>2, <2>3, <2>4, <2>5, <2>7, <2>13, NamesKept DEF DnsSim, TablesInv
  <2>14. CASE VxlanSim
    BY <2>1, <2>2, <2>3, <2>4, <2>5, <2>6, <2>14, TunnelsKept DEF VxlanSim, TablesInv
  <2>15. CASE UNCHANGED tableVars
    BY <2>1, <2>2, <2>3, <2>4, <2>5, <2>6, <2>7, <2>15
    DEF tableVars, dhcpVars, natVars, arpVars, tcpVars, netVars, dnsVars, vxlanVars, TablesInv
  <2> QED
    BY <2>8, <2>9, <2>10, <2>11, <2>12, <2>13, <2>14, <2>15
<1> QED
  BY <1>1, <1>2, TablesStrong, PTL DEF TablesSpec


-----------------------------------------------------------------------------
(* Routes and rules.                                                       *)

Octets == 0..(2^OctetBits - 1)
Rules  == [ip : Hosts, wild : Octets \X Octets, permit : BOOLEAN]
Routes == [ip : Hosts, mask : Octets \X Octets, metric : Metrics]

\* Which rule a position has.
LEMMA RuleAt ==
  ASSUME table \in Seq(Rules)
  PROVE  /\ Len(table) \in Nat
         /\ \A k \in 1..Len(table) : /\ table[k].ip \in Hosts /\ table[k].wild \in Octets \X Octets
                                     /\ table[k].permit \in BOOLEAN
<1>1. Len(table) \in Nat /\ \A k \in 1..Len(table) : table[k] \in Rules
  BY LenProperties, ElementOfSeq
<1> QED
  BY <1>1 DEF Rules

\* Which route a position has.
LEMMA RouteAt ==
  ASSUME table \in Seq(Routes)
  PROVE  /\ Len(table) \in Nat
         /\ \A k \in 1..Len(table) : /\ table[k].ip \in Hosts /\ table[k].mask \in Octets \X Octets
                                     /\ table[k].metric \in Nat
<1>1. Len(table) \in Nat /\ \A k \in 1..Len(table) : table[k] \in Routes
  BY LenProperties, ElementOfSeq
<1> QED
  BY <1>1, RoutersAssumption DEF Routes

\* A packet that is refused met a rule that refuses it.
LEMMA DenialsMeet == ASSUME table \in Seq(Rules) PROVE DenialsHaveRules
<1> SUFFICES ASSUME NEW ip \in Hosts, ~ MatchACL(ip)
             PROVE  \E k \in 1..Len(table) : ~ table[k].permit /\ matchIP(ip, table[k].ip, table[k].wild)
  BY DEF DenialsHaveRules
<1>1. PICK hits : hits = {k \in 1..Len(table) : matchIP(ip, table[k].ip, table[k].wild)}
  OBVIOUS
<1>2. hits # {} /\ ~ table[CHOOSE k \in hits : \A j \in hits : k <= j].permit
  BY <1>1 DEF MatchACL
<1>3. Len(table) \in Nat /\ hits \subseteq 1..Len(table)
  BY <1>1, RuleAt
<1>4. \E k \in hits : \A j \in hits : k <= j
  BY <1>2, <1>3, HasFirst
<1>5. PICK k \in hits : k = CHOOSE i \in hits : \A j \in hits : i <= j
  BY <1>4
<1> QED
  BY <1>1, <1>2, <1>5

\* Where the zeros of a wildcard begin whose ones are its last bits.
LEMMA ZerosBegin ==
  ASSUME NEW w, Contiguous(w), \A i \in 0..AddressBits - 1 : Bit(w, i) \in {0, 1}, AddressBits \in Nat
  PROVE  \E k \in 0..AddressBits : \A i \in 0..AddressBits - 1 : Bit(w, i) = 0 <=> i >= k
<1>1. PICK n \in Nat : n = AddressBits
  OBVIOUS
<1>2. PICK zeros : zeros = {i \in 0..n - 1 : Bit(w, i) = 0}
  OBVIOUS
<1>3. CASE zeros = {}
  <2>1. \A i \in 0..n - 1 : ~ (Bit(w, i) = 0) /\ ~ (i >= n)
    BY <1>2, <1>3
  <2> QED
    BY <1>1, <2>1
<1>4. CASE zeros # {}
  <2>1. PICK s : s = [i \in zeros |-> i]
    OBVIOUS
  <2>2. IsFiniteSet(0..n - 1)
    BY FS_Interval
  <2>3. IsFiniteSet(zeros)
    BY <1>2, <2>2, FS_Subset
  <2>4. \A i \in zeros : s[i] \in Int
    BY <1>2, <2>1
  <2>5. \E i \in zeros : \A j \in zeros : s[i] <= s[j]
    BY <1>4, <2>3, <2>4, HasLeast
  <2>6. PICK k \in zeros : \A j \in zeros : k <= j
    BY <2>1, <2>5
  <2>7. k \in 0..n /\ Bit(w, k) = 0
    BY <1>2, <2>6
  <2>8. ASSUME NEW i \in 0..n - 1 PROVE Bit(w, i) = 0 <=> i >= k
    <3>1. ASSUME Bit(w, i) = 0 PROVE i >= k
      BY <1>2, <2>6, <2>7, <3>1
    <3>2. ASSUME i >= k, Bit(w, i) # 0 PROVE FALSE
      <4>1. Bit(w, i) = 1 /\ i # k
        BY <1>1, <2>7, <3>2
      <4>2. k < i /\ k \in 0..n - 1
        BY <1>2, <2>6, <2>7, <3>2, <4>1
      <4>3. Bit(w, k) = 1
        BY <1>1, <4>1, <4>2 DEF Contiguous
      <4> QED
        BY <2>7, <4>3
    <3> QED
      BY <3>1, <3>2
  <2> QED
    BY <1>1, <2>7, <2>8
<1> QED
  BY <1>3, <1>4

\* The parts of a pair.
LEMMA PairParts == \A x, y : <<x, y>>[1] = x /\ <<x, y>>[2] = y
OBVIOUS

\* How many bits are zero in two octets, when the zeros of the number that they make are
\* those from a position on.
LEMMA CountedZeros ==
  ASSUME NEW r, r.wild \in Octets \X Octets, NEW k \in 0..AddressBits,
         \A i \in 0..AddressBits - 1 : Bit(Wild(r), i) = 0 <=> i >= k
  PROVE  wildcardToMask(r.wild) = AddressBits - k
<1>1. PICK n \in Nat \ {0} : n = OctetBits /\ AddressBits = 2 * n
  BY RoutersAssumption DEF AddressBits
<1>2. PICK v \in Nat, w \in 0..2^n - 1 : r.wild = <<v, w>> /\ Wild(r) = v * 2^n + w
  <2>1. PICK d \in Nat \ {0} : d = 2^n
    BY TwoToNext
  <2>2. \A x \in 0..2^n - 1 : x \in Nat
    BY <2>1
  <2> QED
    BY <1>1, <2>2 DEF Octets, Wild
<1>3. PICK Z : Z = {b \in {1, 2} \X (0..n - 1) : Bit(r.wild[b[1]], b[2]) = 0}
  OBVIOUS
<1>4. PICK f : f = [b \in Z |-> IF b[1] = 2 THEN b[2] ELSE n + b[2]]
  OBVIOUS
<1>5. ASSUME NEW i \in 0..n - 1
      PROVE  /\ Bit(Wild(r), i) = Bit(w, i) /\ i \in 0..AddressBits - 1
             /\ Bit(Wild(r), n + i) = Bit(v, i) /\ n + i \in 0..AddressBits - 1
  <2>1. i \in Nat /\ i < n /\ n + i \in Nat /\ ~ (n + i < n) /\ n + i >= n /\ (n + i) - n = i
    OBVIOUS
  <2>2. ((v * 2^n + w) \div 2^i) % 2 = (w \div 2^i) % 2
    BY <2>1, BitsOfTwo, ZenonT(40)
  <2>3. (v * 2^n + w) \div 2^(n + i) = v \div 2^i
    <3>1. PICK m \in Nat : m = n + i /\ m >= n /\ m - n = i
      BY <2>1
    <3>2. (v * 2^n + w) \div 2^m = v \div 2^(m - n)
      BY <3>1, BitsOfTwo, ZenonT(40)
    <3> QED
      BY <3>1, <3>2
  <2>4. i \in 0..AddressBits - 1 /\ n + i \in 0..AddressBits - 1
    BY <1>1
  <2> QED
    BY <1>2, <2>1, <2>2, <2>3, <2>4 DEF Bit
<1>6. \A i \in 0..n - 1 : /\ <<2, i>> \in Z <=> i >= k
                          /\ <<1, i>> \in Z <=> n + i >= k
  <2> SUFFICES ASSUME NEW i \in 0..n - 1
               PROVE  (<<2, i>> \in Z <=> i >= k) /\ (<<1, i>> \in Z <=> n + i >= k)
    OBVIOUS
  <2>1. (<<2, i>> \in Z <=> Bit(w, i) = 0) /\ (<<1, i>> \in Z <=> Bit(v, i) = 0)
    BY <1>2, <1>3
  <2> QED
    BY <1>5, <2>1
<1>7. \A b \in Z : /\ (b = <<1, b[2]>> /\ f[b] = n + b[2]) \/ (b = <<2, b[2]>> /\ f[b] = b[2])
                 /\ b[2] \in 0..n - 1
  BY <1>3, <1>4
<1>8. f \in [Z -> k..2 * n - 1]
  <2>1. ASSUME NEW b \in Z PROVE f[b] \in k..2 * n - 1
    <3>1. PICK i \in 0..n - 1 : i = b[2]
      BY <1>7
    <3>2. CASE b = <<1, i>> /\ f[b] = n + i
      <4>1. <<1, i>> \in Z
        BY <3>2
      <4>2. n + i >= k
        BY <1>6, <3>1, <4>1
      <4> QED
        BY <1>1, <3>2, <4>2
    <3>3. CASE b = <<2, i>> /\ f[b] = i
      <4>1. <<2, i>> \in Z
        BY <3>3
      <4>2. i >= k
        BY <1>6, <3>1, <4>1
      <4> QED
        BY <1>1, <3>3, <4>2
    <3> QED
      BY <1>7, <3>1, <3>2, <3>3
  <2> QED
    BY <1>4, <2>1
<1>9. \A a, b \in Z : f[a] = f[b] => a = b
  BY <1>7
<1>10. \A j \in k..2 * n - 1 : \E b \in Z : f[b] = j
  <2> SUFFICES ASSUME NEW j \in k..2 * n - 1 PROVE \E b \in Z : f[b] = j
    OBVIOUS
  <2>1. k \in Nat /\ j \in Nat
    BY <1>1
  <2>2. CASE j < n
    <3>1. j \in 0..n - 1 /\ <<2, j>> \in Z
      <4>1. j \in 0..n - 1 /\ j >= k
        BY <2>1, <2>2
      <4> QED
        BY <1>6, <4>1
    <3>2. PICK b \in Z : b = <<2, j>>
      BY <3>1
    <3>3. b[1] = 2 /\ b[2] = j
      BY <3>2, PairParts, Zenon
    <3>4. f[b] = IF b[1] = 2 THEN b[2] ELSE n + b[2]
      BY <1>4
    <3>5. f[b] = j
      BY <3>3, <3>4
    <3> QED
      BY <3>5
  <2>3. CASE j >= n
    <3>1. j - n \in 0..n - 1 /\ n + (j - n) = j /\ n + (j - n) >= k
      BY <2>1, <2>3
    <3>2. <<1, j - n>> \in Z
      BY <1>6, <3>1
    <3>3. PICK b \in Z : b = <<1, j - n>>
      BY <3>2
    <3>4. b[1] = 1 /\ b[2] = j - n
      BY <3>3, PairParts, Zenon
    <3>5. f[b] = IF b[1] = 2 THEN b[2] ELSE n + b[2]
      BY <1>4
    <3>6. f[b] = j
      BY <3>1, <3>4, <3>5
    <3> QED
      BY <3>6
  <2> QED
    BY <2>1, <2>2, <2>3
<1>11. ExistsBijection(Z, k..2 * n - 1)
  BY <1>8, <1>9, <1>10 DEF ExistsBijection, Bijection, Injection, Surjection, IsInjective
<1>12. Cardinality(k..2 * n - 1) = 2 * n - k /\ IsFiniteSet(k..2 * n - 1)
  <2>1. k \in Int /\ 2 * n - 1 \in Int /\ k <= 2 * n
    BY <1>1
  <2>2. Cardinality(k..2 * n - 1) = IF k > 2 * n - 1 THEN 0 ELSE 2 * n - 1 - k + 1
    BY <2>1, FS_Interval
  <2>3. IsFiniteSet(k..2 * n - 1)
    BY <2>1, FS_Interval
  <2> QED
    BY <2>1, <2>2, <2>3
<1>13. Cardinality(Z) = 2 * n - k
  <2>1. ExistsBijection(k..2 * n - 1, Z)
    BY <1>11, Fun_ExistsBijSymmetric
  <2> QED
    BY <1>12, <2>1, FS_Bijection
<1> QED
  BY <1>1, <1>3, <1>13 DEF wildcardToMask

\* A wildcard whose ones are its last bits compares the bits that it leaves zero.
LEMMA WildcardsCompare == ASSUME table \in Seq(Rules) PROVE WildcardsMean
<1> SUFFICES ASSUME NEW k \in 1..Len(table), Contiguous(Wild(table[k])), NEW ip \in Hosts
             PROVE  matchIP(ip, table[k].ip, table[k].wild) <=>
                      \A i \in 0..AddressBits - 1 : Bit(Wild(table[k]), i) = 0 => Bit(ip, i) = Bit(table[k].ip, i)
  BY DEF WildcardsMean
<1>1. PICK r : r = table[k]
  OBVIOUS
<1>2. r.ip \in Hosts /\ r.wild \in Octets \X Octets
  BY <1>1, RuleAt
<1>3. PICK w \in Nat : w = AddressBits /\ w = 2 * OctetBits
  BY RoutersAssumption DEF AddressBits
<1>4. Wild(r) \in Nat
  <2>1. PICK d \in Nat \ {0} : d = 2^OctetBits
    BY TwoToNext, RoutersAssumption
  <2>2. PICK a \in Nat, b \in Nat : r.wild = <<a, b>>
    BY <1>2, <2>1 DEF Octets
  <2>3. Wild(r) = a * d + b
    BY <2>1, <2>2 DEF Wild
  <2> QED
    BY <2>3
<1>5. \A i \in 0..w - 1 : Bit(Wild(r), i) \in {0, 1}
  <2> SUFFICES ASSUME NEW i \in 0..w - 1 PROVE Bit(Wild(r), i) \in {0, 1}
    OBVIOUS
  <2>1. PICK d \in Nat \ {0} : d = 2^i
    BY TwoToNext
  <2>2. Wild(r) \div d \in Int
    BY <1>4, <2>1
  <2>3. (Wild(r) \div d) % 2 \in {0, 1}
    BY <2>2
  <2> QED
    BY <2>1, <2>3 DEF Bit
<1>6. PICK first \in 0..w : \A i \in 0..w - 1 : Bit(Wild(r), i) = 0 <=> i >= first
  BY <1>1, <1>3, <1>5, ZerosBegin
<1>7. wildcardToMask(r.wild) = w - first
  BY <1>2, <1>3, <1>6, CountedZeros
<1>8. w - (w - first) = first
  BY <1>6
<1>9. matchIP(ip, r.ip, r.wild) <=> ip \div 2^first = r.ip \div 2^first
  BY <1>3, <1>7, <1>8 DEF matchIP
<1>10. ip \in 0..2^w - 1 /\ r.ip \in 0..2^w - 1
  BY <1>2, <1>3, RoutersAssumption
<1>11. ip \div 2^first = r.ip \div 2^first <=> \A i \in first..w - 1 : (ip \div 2^i) % 2 = (r.ip \div 2^i) % 2
  BY <1>10, SameBits, ZenonT(40)
<1>12. \A i \in first..w - 1 : i \in 0..w - 1 /\ i >= first
  BY <1>6
<1>13. \A i \in 0..w - 1 : i >= first => i \in first..w - 1
  BY <1>6
<1>14. (\A i \in first..w - 1 : (ip \div 2^i) % 2 = (r.ip \div 2^i) % 2)
         <=> \A i \in 0..w - 1 : Bit(Wild(r), i) = 0 => Bit(ip, i) = Bit(r.ip, i)
  BY <1>6, <1>12, <1>13, Zenon DEF Bit
<1> QED
  BY <1>1, <1>3, <1>9, <1>11, <1>14

\* Position r has the best of the first k that match, and is 0 when none does.
BestSoFar(r, k, match, len, metric) ==
  /\ r \in 0..k
  /\ IF \A j \in 1..k : ~ (j \in match /\ len[j] > 0) THEN r = 0
     ELSE /\ r # 0 /\ r \in match /\ len[r] > 0
          /\ \A j \in 1..k : j \in match /\ len[j] > 0 => len[j] < len[r] \/ (len[j] = len[r] /\ metric[j] >= metric[r])

\* Position k takes the place of b.
Overtakes(k, b, match, len, metric) ==
  /\ k \in match
  /\ \/ len[k] > (IF b = 0 THEN 0 ELSE len[b])
     \/ b # 0 /\ len[k] = (IF b = 0 THEN 0 ELSE len[b]) /\ metric[k] < metric[b]

\* One step of the pass keeps the best of those that it has met.
LEMMA BestOfMore ==
  ASSUME NEW n \in Nat, NEW k \in 1..n, NEW match \in SUBSET (1..n),
         NEW len \in [1..n -> Nat], NEW metric \in [1..n -> Nat], NEW b,
         BestSoFar(b, k - 1, match, len, metric)
  PROVE  BestSoFar(IF Overtakes(k, b, match, len, metric) THEN k ELSE b, k, match, len, metric)
<1> DEFINE r == IF Overtakes(k, b, match, len, metric) THEN k ELSE b
<1> SUFFICES BestSoFar(r, k, match, len, metric)
  OBVIOUS
<1>0. /\ b \in 0..k - 1
      /\ IF \A j \in 1..k - 1 : ~ (j \in match /\ len[j] > 0) THEN b = 0
         ELSE /\ b # 0 /\ b \in match /\ len[b] > 0
              /\ \A j \in 1..k - 1 : j \in match /\ len[j] > 0 => len[j] < len[b] \/ (len[j] = len[b] /\ metric[j] >= metric[b])
  BY DEF BestSoFar
<1>1. \A j \in 1..k : j \in 1..k - 1 \/ j = k
  OBVIOUS
<1>2. \A j \in 1..k - 1 : j \in 1..k /\ j \in 1..n
  OBVIOUS
<1>3. k \in 1..n /\ len[k] \in Nat /\ metric[k] \in Nat /\ \A j \in 1..n : len[j] \in Nat /\ metric[j] \in Nat
  OBVIOUS
<1>4. b # 0 => b \in 1..k - 1 /\ b \in 1..n
  BY <1>0
<1>5. CASE b = 0
  <2>1. \A j \in 1..k - 1 : ~ (j \in match /\ len[j] > 0)
    BY <1>0, <1>5
  <2>2. r = IF k \in match /\ len[k] > 0 THEN k ELSE 0
    BY <1>5 DEF Overtakes
  <2> HIDE DEF r
  <2> QED
    BY <1>1, <1>2, <1>3, <2>1, <2>2 DEF BestSoFar
<1>6. CASE b # 0
  <2>1. /\ b \in match /\ len[b] > 0
        /\ \A j \in 1..k - 1 : j \in match /\ len[j] > 0 => len[j] < len[b] \/ (len[j] = len[b] /\ metric[j] >= metric[b])
    BY <1>0, <1>6
  <2>2. r = IF k \in match /\ (len[k] > len[b] \/ (len[k] = len[b] /\ metric[k] < metric[b])) THEN k ELSE b
    BY <1>6 DEF Overtakes
  <2> HIDE DEF r
  <2>3. CASE r = k /\ k \in match /\ (len[k] > len[b] \/ (len[k] = len[b] /\ metric[k] < metric[b]))
    <3>1. \A j \in 1..k : j \in match /\ len[j] > 0 => len[j] < len[r] \/ (len[j] = len[r] /\ metric[j] >= metric[r])
      <4> SUFFICES ASSUME NEW j \in 1..k, j \in match, len[j] > 0
                   PROVE  len[j] < len[k] \/ (len[j] = len[k] /\ metric[j] >= metric[k])
        BY <2>3
      <4>1. CASE j = k
        BY <1>3, <4>1
      <4>2. CASE j \in 1..k - 1
        <5>1. len[j] < len[b] \/ (len[j] = len[b] /\ metric[j] >= metric[b])
          BY <2>1, <4>2
        <5>2. {len[j], len[b], len[k], metric[j], metric[b], metric[k]} \subseteq Nat
          BY <1>2, <1>3, <1>4, <1>6, <4>2
        <5> QED
          BY <2>3, <5>1, <5>2
      <4> QED
        BY <1>1, <4>1, <4>2
    <3> QED
      BY <1>3, <1>4, <1>6, <2>1, <2>3, <3>1 DEF BestSoFar
  <2>4. CASE r = b /\ ~ (k \in match /\ (len[k] > len[b] \/ (len[k] = len[b] /\ metric[k] < metric[b])))
    <3>1. \A j \in 1..k : j \in match /\ len[j] > 0 => len[j] < len[r] \/ (len[j] = len[r] /\ metric[j] >= metric[r])
      BY <1>1, <1>2, <1>3, <1>4, <1>6, <2>1, <2>4
    <3> QED
      BY <1>2, <1>3, <1>4, <1>6, <2>1, <2>4, <3>1 DEF BestSoFar
  <2> QED
    BY <2>2, <2>3, <2>4
<1> QED
  BY <1>5, <1>6

\* What two octets have of zeros they lack of ones.
LEMMA ZerosAndOnes ==
  ASSUME NEW octets \in Octets \X Octets
  PROVE  /\ AddressBits \in Nat /\ NetmaskLength(octets) \in 0..AddressBits
         /\ wildcardToMask(octets) = AddressBits - NetmaskLength(octets)
<1>1. PICK n \in Nat \ {0} : n = OctetBits /\ AddressBits = 2 * n
  BY RoutersAssumption DEF AddressBits
<1>2. PICK P : P = {1, 2} \X (0..n - 1)
  OBVIOUS
<1>3. IsFiniteSet({1, 2}) /\ Cardinality({1, 2}) = 2
  <2>1. IsFiniteSet({1}) /\ Cardinality({1}) = 1
    BY FS_Singleton
  <2>2. IsFiniteSet({1} \cup {2}) /\ Cardinality({1} \cup {2}) = 2
    BY <2>1, FS_AddElement
  <2>3. {1} \cup {2} = {1, 2}
    OBVIOUS
  <2> QED
    BY <2>2, <2>3
<1>4. IsFiniteSet(0..n - 1) /\ Cardinality(0..n - 1) = n
  <2>1. 0 \in Int /\ n - 1 \in Int /\ ~ (0 > n - 1)
    OBVIOUS
  <2>2. IsFiniteSet(0..n - 1) /\ Cardinality(0..n - 1) = IF 0 > n - 1 THEN 0 ELSE n - 1 - 0 + 1
    BY <2>1, FS_Interval
  <2> QED
    BY <2>1, <2>2
<1>5. IsFiniteSet(P) /\ Cardinality(P) = 2 * n
  <2>1. IsFiniteSet(P) /\ Cardinality(P) = Cardinality({1, 2}) * Cardinality(0..n - 1)
    BY <1>2, <1>3, <1>4, FS_Product, Zenon
  <2> QED
    BY <1>3, <1>4, <2>1
<1>6. PICK Z, O : /\ Z = {b \in P : Bit(octets[b[1]], b[2]) = 0}
                  /\ O = {b \in P : Bit(octets[b[1]], b[2]) = 1}
  OBVIOUS
<1>7. ASSUME NEW b \in P PROVE Bit(octets[b[1]], b[2]) \in {0, 1}
  <2>1. PICK d \in Nat \ {0} : d = 2^b[2]
    BY <1>2, TwoToNext
  <2>2. PICK e \in Nat \ {0} : e = 2^OctetBits
    BY <1>1, TwoToNext
  <2>3. PICK o \in Nat : o = octets[b[1]]
    BY <1>2, <2>2 DEF Octets
  <2>4. (o \div d) % 2 \in {0, 1}
    <3>1. o \div d \in Int
      BY <2>1, <2>3
    <3> QED
      BY <3>1
  <2> QED
    BY <2>1, <2>3, <2>4 DEF Bit
<1>8. P = Z \cup O /\ Z \cap O = {} /\ Z \subseteq P /\ O \subseteq P
  BY <1>6, <1>7
<1>9. IsFiniteSet(Z) /\ IsFiniteSet(O) /\ Cardinality(Z) \in Nat /\ Cardinality(O) \in Nat
  BY <1>5, <1>8, FS_Subset, FS_CardinalityType
<1>10. Cardinality(Z \cup O) = Cardinality(Z) + Cardinality(O) - Cardinality({})
  BY <1>8, <1>9, FS_Union
<1>11. Cardinality({}) = 0
  BY FS_EmptySet
<1>12. Cardinality(Z) + Cardinality(O) = 2 * n
  BY <1>5, <1>8, <1>9, <1>10, <1>11
<1>13. wildcardToMask(octets) = Cardinality(Z) /\ NetmaskLength(octets) = Cardinality(O)
  BY <1>1, <1>2, <1>6 DEF wildcardToMask, NetmaskLength
<1> QED
  BY <1>1, <1>9, <1>12, <1>13

\* FindRoute takes a route to match when its address and the destination are the same but
\* for as many last bits as the netmask has ones.
LEMMA NetmaskCompares ==
  ASSUME NEW ip, table \in Seq(Routes), NEW k \in 1..Len(table)
  PROVE  LET len == NetmaskLength(table[k].mask)
         IN matchIP(ip, table[k].ip, table[k].mask) <=> ip \div 2^len = table[k].ip \div 2^len
<1>1. table[k].mask \in Octets \X Octets
  BY RouteAt
<1>2. PICK w \in Nat, len \in Nat : /\ w = AddressBits /\ len = NetmaskLength(table[k].mask) /\ len <= w
                                     /\ wildcardToMask(table[k].mask) = w - len
  BY <1>1, ZerosAndOnes
<1>3. w - (w - len) = len
  OBVIOUS
<1> QED
  BY <1>2, <1>3 DEF matchIP

\* A route takes the place of the best so far, 0 for none.
Wins(ip, k, b) ==
  /\ matchIP(ip, table[k].ip, table[k].mask)
  /\ \/ wildcardToMask(table[k].mask) > (IF b = 0 THEN 0 ELSE wildcardToMask(table[b].mask))
     \/ /\ b # 0 /\ wildcardToMask(table[k].mask) = (IF b = 0 THEN 0 ELSE wildcardToMask(table[b].mask))
        /\ table[k].metric < table[b].metric

\* What FindRoute keeps at each position, and what it returns.
LEMMA PassOfFindRoute ==
  ASSUME NEW ip, table \in Seq(Routes)
  PROVE  \E best : /\ best[0] = 0 /\ FindRoute(ip) = best[Len(table)]
                   /\ \A k \in 1..Len(table) : best[k] = IF Wins(ip, k, best[k - 1]) THEN k ELSE best[k - 1]
<1> DEFINE n == Len(table)
           best[k \in 0..n] == IF k = 0 THEN 0 ELSE IF Wins(ip, k, best[k - 1]) THEN k ELSE best[k - 1]
<1>0. n \in Nat
  BY RouteAt
<1>1. FindRoute(ip) = best[n]
  BY DEF FindRoute, Wins
<1>2. PICK next : next = [p \in (1..n) \X (0..n) |-> IF Wins(ip, p[1], p[2]) THEN p[1] ELSE p[2]]
  OBVIOUS
<1>3. next \in [(1..n) \X (0..n) -> 0..n]
  BY <1>0, <1>2
<1>4. PICK f \in [0..n -> 0..n] : \A k \in 0..n : f[k] = IF k = 0 THEN 0 ELSE next[<<k, f[k - 1]>>]
  <2>1. 0 \in 0..n /\ PassStep(next, 0..n, n)
    BY <1>0, <1>3 DEF PassStep
  <2>2. PICK f : PassOf(f, next, 0..n, 0, n)
    BY <1>0, <2>1, PassExists
  <2> QED
    BY <2>2 DEF PassOf
<1>5. \A k \in 1..n : k - 1 \in 0..n /\ f[k - 1] \in 0..n /\ k \in 0..n
  BY <1>0, <1>4
<1>6. \A k \in 1..n : next[<<k, f[k - 1]>>] = IF Wins(ip, k, f[k - 1]) THEN k ELSE f[k - 1]
  BY <1>2, <1>5
<1>7. \A k \in 0..n : k = 0 \/ k \in 1..n
  BY <1>0
<1>8. \A k \in 0..n : f[k] = IF k = 0 THEN 0 ELSE IF Wins(ip, k, f[k - 1]) THEN k ELSE f[k - 1]
  BY <1>4, <1>6, <1>7
<1>9. f = [k \in 0..n |-> IF k = 0 THEN 0 ELSE IF Wins(ip, k, f[k - 1]) THEN k ELSE f[k - 1]]
  BY <1>4, <1>8
<1>10. best = [k \in 0..n |-> IF k = 0 THEN 0 ELSE IF Wins(ip, k, best[k - 1]) THEN k ELSE best[k - 1]]
  <2> DEFINE Is(g) == g = [k \in 0..n |-> IF k = 0 THEN 0 ELSE IF Wins(ip, k, g[k - 1]) THEN k ELSE g[k - 1]]
  <2>1. best = CHOOSE g : Is(g)
    OBVIOUS
  <2>2. Is(f)
    BY <1>9
  <2> HIDE DEF Is, best
  <2>3. Is(best)
    BY <2>1, <2>2
  <2> QED
    BY <2>3 DEF Is
<1> HIDE DEF best
<1>11. \A k \in 0..n : best[k] = IF k = 0 THEN 0 ELSE IF Wins(ip, k, best[k - 1]) THEN k ELSE best[k - 1]
  BY <1>10
<1>12. \A k \in 1..n : k \in 0..n /\ k # 0
  BY <1>0
<1> QED
  BY <1>0, <1>1, <1>11, <1>12

\* The best route so far is the best when the pass is over.
LEMMA BestIsFound == ASSUME table \in Seq(Routes) PROVE ShortestNetmaskWins
<1> SUFFICES ASSUME NEW ip \in Hosts
             PROVE  LET len(k) == NetmaskLength(table[k].mask)
                        hits == {k \in 1..Len(table) :
                                   ip \div 2^len(k) = table[k].ip \div 2^len(k) /\ len(k) < AddressBits}
                        r == FindRoute(ip)
                    IN IF hits = {} THEN r = 0
                       ELSE r \in hits /\ \A k \in hits : len(k) > len(r) \/ (len(k) = len(r) /\ table[k].metric >= table[r].metric)
  BY DEF ShortestNetmaskWins
<1>1. PICK n \in Nat : n = Len(table)
  BY RouteAt
<1>2. PICK len : len = [k \in 1..n |-> wildcardToMask(table[k].mask)]
  OBVIOUS
<1>3. PICK metric : metric = [k \in 1..n |-> table[k].metric]
  OBVIOUS
<1>4. PICK match \in SUBSET (1..n) : match = {k \in 1..n : matchIP(ip, table[k].ip, table[k].mask)}
  OBVIOUS
<1>5. len \in [1..n -> Nat] /\ metric \in [1..n -> Nat]
  <2>1. \A k \in 1..n : wildcardToMask(table[k].mask) \in Nat
    BY <1>1, RouteAt, ZerosAndOnes
  <2>2. \A k \in 1..n : table[k].metric \in Nat
    BY <1>1, RouteAt
  <2> QED
    BY <1>2, <1>3, <2>1, <2>2
<1>6. PICK best : /\ best[0] = 0 /\ FindRoute(ip) = best[n]
                  /\ \A k \in 1..n : best[k] = IF Wins(ip, k, best[k - 1]) THEN k ELSE best[k - 1]
  BY <1>1, PassOfFindRoute
<1> DEFINE Best(r, k) == BestSoFar(r, k, match, len, metric)
<1>7. ASSUME NEW k \in 1..n, Best(best[k - 1], k - 1) PROVE Best(best[k], k)
  <2>1. PICK b \in 0..k - 1 : b = best[k - 1]
    BY <1>7 DEF BestSoFar
  <2>2. Wins(ip, k, b) <=> Overtakes(k, b, match, len, metric)
    <3>1. len[k] = wildcardToMask(table[k].mask) /\ metric[k] = table[k].metric /\ (k \in match <=> matchIP(ip, table[k].ip, table[k].mask))
      BY <1>2, <1>3, <1>4
    <3>2. b # 0 => b \in 1..n
      BY <2>1
    <3>3. b # 0 => len[b] = wildcardToMask(table[b].mask) /\ metric[b] = table[b].metric
      BY <1>2, <1>3, <3>2
    <3> QED
      BY <3>1, <3>3 DEF Wins, Overtakes
  <2>3. Best(IF Overtakes(k, b, match, len, metric) THEN k ELSE b, k)
    BY <1>1, <1>4, <1>5, <1>7, <2>1, BestOfMore, Zenon
  <2>4. best[k] = IF Overtakes(k, b, match, len, metric) THEN k ELSE b
    BY <1>6, <2>1, <2>2
  <2> QED
    BY <2>3, <2>4
<1>8. Best(best[0], 0)
  BY <1>6 DEF BestSoFar
<1> HIDE DEF Best
<1>9. PICK T : T = {k \in 0..n : Best(best[k], k)}
  OBVIOUS
<1>10. n \in T
  <2> SUFFICES ASSUME n \notin T PROVE FALSE
    OBVIOUS
  <2>1. 0 \in T /\ 0 < n
    BY <1>8, <1>9
  <2>2. PICK k \in 0 + 1..n : k - 1 \in T /\ k \notin T
    BY <2>1, FirstLost
  <2>3. k \in 1..n /\ k \in 0..n
    OBVIOUS
  <2> QED
    BY <1>7, <1>9, <2>2, <2>3
<1>11. Best(best[n], n)
  BY <1>9, <1>10
<1>12. PICK w \in Nat, ones \in [1..n -> Nat] :
         /\ w = AddressBits
         /\ \A k \in 1..n : ones[k] = NetmaskLength(table[k].mask) /\ ones[k] <= w /\ len[k] = w - ones[k]
  <2>1. PICK w \in Nat : w = AddressBits
    BY RoutersAssumption DEF AddressBits
  <2>2. \A k \in 1..n : /\ NetmaskLength(table[k].mask) \in 0..w
                        /\ wildcardToMask(table[k].mask) = w - NetmaskLength(table[k].mask)
    BY <1>1, <2>1, RouteAt, ZerosAndOnes
  <2>3. PICK ones : ones = [k \in 1..n |-> NetmaskLength(table[k].mask)]
    OBVIOUS
  <2>4. ones \in [1..n -> Nat]
    <3>1. \A k \in 1..n : NetmaskLength(table[k].mask) \in Nat
      BY <2>2
    <3> QED
      BY <2>3, <3>1
  <2>5. ASSUME NEW k \in 1..n
        PROVE  ones[k] = NetmaskLength(table[k].mask) /\ ones[k] <= w /\ len[k] = w - ones[k]
    <3>1. ones[k] = NetmaskLength(table[k].mask) /\ len[k] = wildcardToMask(table[k].mask)
      BY <1>2, <2>3
    <3>2. NetmaskLength(table[k].mask) \in 0..w
      BY <2>2
    <3> QED
      BY <2>2, <3>1, <3>2
  <2> QED
    BY <2>1, <2>4, <2>5
<1>13. PICK hits : hits = {k \in 1..n : /\ ip \div 2^NetmaskLength(table[k].mask) = table[k].ip \div 2^NetmaskLength(table[k].mask)
                                       /\ NetmaskLength(table[k].mask) < AddressBits}
  OBVIOUS
<1>14. \A k \in 1..n : k \in hits <=> k \in match /\ len[k] > 0
  <2> SUFFICES ASSUME NEW k \in 1..n PROVE k \in hits <=> k \in match /\ len[k] > 0
    OBVIOUS
  <2>1. matchIP(ip, table[k].ip, table[k].mask)
          <=> ip \div 2^NetmaskLength(table[k].mask) = table[k].ip \div 2^NetmaskLength(table[k].mask)
    BY <1>1, NetmaskCompares
  <2>2. NetmaskLength(table[k].mask) < AddressBits <=> len[k] > 0
    BY <1>12
  <2> QED
    BY <1>4, <1>13, <2>1, <2>2
<1>15. PICK r : r = FindRoute(ip) /\ Best(r, n)
  BY <1>6, <1>11
<1>16. CASE hits = {}
  <2>1. \A k \in 1..n : ~ (k \in match /\ len[k] > 0)
    BY <1>14, <1>16
  <2> QED
    BY <1>1, <1>13, <1>15, <1>16, <2>1 DEF Best, BestSoFar
<1>17. CASE hits # {}
  <2>1. ~ \A k \in 1..n : ~ (k \in match /\ len[k] > 0)
    BY <1>13, <1>14, <1>17
  <2>2. /\ r \in 1..n /\ r \in match /\ len[r] > 0
        /\ \A j \in 1..n : j \in match /\ len[j] > 0 => len[j] < len[r] \/ (len[j] = len[r] /\ metric[j] >= metric[r])
    BY <1>15, <2>1 DEF Best, BestSoFar
  <2>3. r \in hits
    BY <1>14, <2>2
  <2>4. \A k \in hits : \/ NetmaskLength(table[k].mask) > NetmaskLength(table[r].mask)
                        \/ /\ NetmaskLength(table[k].mask) = NetmaskLength(table[r].mask)
                           /\ table[k].metric >= table[r].metric
    <3> SUFFICES ASSUME NEW k \in hits
                 PROVE  \/ NetmaskLength(table[k].mask) > NetmaskLength(table[r].mask)
                        \/ /\ NetmaskLength(table[k].mask) = NetmaskLength(table[r].mask)
                           /\ table[k].metric >= table[r].metric
      OBVIOUS
    <3>1. k \in 1..n /\ k \in match /\ len[k] > 0
      BY <1>13, <1>14
    <3>2. len[k] < len[r] \/ (len[k] = len[r] /\ metric[k] >= metric[r])
      BY <2>2, <3>1
    <3>3. metric[k] = table[k].metric /\ metric[r] = table[r].metric
      BY <1>3, <2>2, <3>1
    <3>4. ones[k] > ones[r] \/ (ones[k] = ones[r] /\ metric[k] >= metric[r])
      BY <1>12, <2>2, <3>1, <3>2
    <3> QED
      BY <1>12, <2>2, <3>1, <3>3, <3>4
  <2> QED
    BY <1>1, <1>13, <1>15, <1>17, <2>3, <2>4
<1> QED
  BY <1>16, <1>17

\* A long netmask has few zeros: bits that agree for the network agree for the lookup.
LEMMA HalvesReach == ASSUME table \in Seq(Routes) PROVE HalfNetmasksReach
<1> SUFFICES ASSUME NEW ip \in Hosts, NEW k \in 1..Len(table), NEW len, NEW rest,
                    len = NetmaskLength(table[k].mask), rest = AddressBits - len,
                    AddressBits <= 2 * len, len < AddressBits,
                    ip \div 2^rest = table[k].ip \div 2^rest
             PROVE  FindRoute(ip) # 0
  BY DEF HalfNetmasksReach
<1>1. PICK w \in Nat : w = AddressBits /\ len \in 0..w /\ rest \in 0..len
  BY RouteAt, ZerosAndOnes
<1>2. ip \in 0..2^w - 1 /\ table[k].ip \in 0..2^w - 1
  BY <1>1, RouteAt, RoutersAssumption DEF AddressBits
<1>3. \A i \in rest..w - 1 : (ip \div 2^i) % 2 = (table[k].ip \div 2^i) % 2
  <2>1. rest \in 0..w
    BY <1>1
  <2> QED
    BY <1>2, <2>1, SameBits, ZenonT(40)
<1>4. \A i \in len..w - 1 : i \in rest..w - 1
  BY <1>1
<1>5. ip \div 2^len = table[k].ip \div 2^len
  BY <1>1, <1>2, <1>3, <1>4, SameBits, ZenonT(40)
<1>6. PICK n \in Nat : n = Len(table)
  BY RouteAt
<1>7. PICK hits \in SUBSET (1..n) :
        hits = {j \in 1..n : /\ ip \div 2^NetmaskLength(table[j].mask) = table[j].ip \div 2^NetmaskLength(table[j].mask)
                             /\ NetmaskLength(table[j].mask) < AddressBits}
  OBVIOUS
<1>8. k \in hits
  BY <1>5, <1>6, <1>7
<1>9. FindRoute(ip) \in hits
  BY <1>6, <1>7, <1>8, BestIsFound DEF ShortestNetmaskWins
<1> QED
  BY <1>7, <1>9

-----------------------------------------------------------------------------
(* What one step of a call does.                                           *)

StepsOf(whats, args) == [via : {"init", "get", "held"}, what : whats, arg : args]
Conditions == {"ifOn", "ifThere", "ifEmpty", "ifDomain"}
OnEntry == {"insert", "delete", "flip", "peek", "says", "ifThere"}
Steps ==
  StepsOf({"nothing", "on", "off", "ifOn", "ifEmpty", "ifDomain", "domain", "nil", "copy", "append"}, {0})
    \cup StepsOf({"first", "last"}, Settings) \cup StepsOf({"up"}, BOOLEAN)
    \cup StepsOf(OnEntry, Entries) \cup StepsOf({"master"}, [e : Entries, high : BOOLEAN])

EntryRecords == [there : BOOLEAN, master : BOOLEAN, says : BOOLEAN]
Bodies ==
  [on : BOOLEAN, first : Settings \cup {NoSetting}, last : Settings \cup {NoSetting}, up : BOOLEAN,
   entry : [Entries -> EntryRecords], domain : 0..MaxCalls, list : Nat, told : Nat, used : BOOLEAN]
Copies == [list : Nat, domain : 0..MaxCalls, master : BOOLEAN]

\* What a step has for an argument.
LEMMA StepArgs ==
  ASSUME NEW s \in Steps
  PROVE  /\ s.via \in {"init", "get", "held"}
         /\ s.what \in {"first", "last"} => s.arg \in Settings
         /\ s.what = "up" => s.arg \in BOOLEAN
         /\ s.what \in OnEntry => s.arg \in Entries
         /\ s.what = "master" => s.arg \in [e : Entries, high : BOOLEAN]
         /\ s.what \in {"first", "last", "up", "master", "nothing", "on", "off", "ifOn", "ifEmpty", "ifDomain", "domain",
                        "nil", "copy", "append"} \cup OnEntry
BY DEF Steps, StepsOf, OnEntry

\* A new router.
LEMMA NewBodyTyped == NewBody \in Bodies /\ There(NewBody) = {}
BY RoutersAssumption DEF NewBody, Bodies, EntryRecords, NoEntry, There, NoSetting

\* What a step that writes one field makes of a router.
FieldSet(b, s, w) ==
  /\ w.on = ((b.on \/ s.what = "on") /\ s.what # "off")
  /\ w.first = IF s.what = "first" THEN s.arg ELSE b.first
  /\ w.last = IF s.what = "last" THEN s.arg ELSE b.last
  /\ w.up = IF s.what = "up" THEN s.arg ELSE b.up
  /\ w.entry = b.entry /\ w.domain = b.domain /\ w.list = b.list /\ w.told = b.told
  /\ w.used = (b.used \/ s.what = "on")

\* What a step that writes one entry makes of a router that has read r.
EntrySet(b, s, r, w) ==
  /\ w.on = b.on /\ w.first = b.first /\ w.last = b.last /\ w.up = b.up
  /\ w.domain = b.domain /\ w.list = b.list /\ w.told = b.told /\ w.used = b.used
  /\ \E e \in Entries :
       /\ e = IF s.what = "master" THEN s.arg.e ELSE s.arg
       /\ \A x \in Entries : x # e => w.entry[x] = b.entry[x]
       /\ w.entry[e] \in EntryRecords
       /\ w.entry[e].there <=> (s.what \in {"insert", "master"} \/ (s.what \in {"flip", "says"} /\ b.entry[e].there))
       /\ s.what \in {"insert", "delete"} => ~ w.entry[e].master
       /\ s.what = "master" => w.entry[e].says
       /\ s.what = "says" => w.entry[e].says = r.master /\ w.entry[e].master = b.entry[e].master

\* What a domain made or taken away, or an append, makes of a router.
DomainSet(b, s, r, w) ==
  /\ w.on = b.on /\ w.first = b.first /\ w.last = b.last /\ w.up = b.up /\ w.used = b.used
  /\ s.what = "append" => /\ w.entry = b.entry /\ w.domain = b.domain /\ w.told = b.told + 1
                          /\ w.list = IF b.domain = r.domain THEN r.list + 1 ELSE b.list
  /\ s.what # "append" => /\ \A e \in Entries : w.entry[e] = NoEntry
                          /\ w.domain = IF s.what = "nil" THEN 0 ELSE calls
                          /\ IF s.what = "nil" THEN w.list = b.list /\ w.told = b.told ELSE w.list = 0 /\ w.told = 0

FieldSteps  == {"nothing", "on", "off", "first", "last", "up", "copy", "peek"} \cup Conditions
EntrySteps  == {"insert", "delete", "flip", "says", "master"}
DomainSteps == {"domain", "nil", "append"}

\* The steps that write one field.
LEMMA FieldWritten ==
  ASSUME NEW b \in Bodies, NEW s \in Steps, NEW r \in Copies, NEW w, w = Written(b, s, r), s.what \in FieldSteps
  PROVE  w \in Bodies /\ FieldSet(b, s, w)
<1> USE DEF FieldSet
<1>1. /\ s.what \in {"first", "last"} => s.arg \in Settings
      /\ s.what = "up" => s.arg \in BOOLEAN
  BY StepArgs
<1>2. CASE s.what = "on"
  <2>1. w = [b EXCEPT !.on = TRUE, !.used = TRUE]
    BY <1>2 DEF Written
  <2> QED
    BY <1>2, <2>1 DEF Bodies
<1>3. CASE s.what = "off"
  <2>1. w = [b EXCEPT !.on = FALSE]
    BY <1>3 DEF Written
  <2> QED
    BY <1>3, <2>1 DEF Bodies
<1>4. CASE s.what = "first"
  <2>1. w = [b EXCEPT !.first = s.arg]
    BY <1>4 DEF Written
  <2> QED
    BY <1>1, <1>4, <2>1 DEF Bodies
<1>5. CASE s.what = "last"
  <2>1. w = [b EXCEPT !.last = s.arg]
    BY <1>5 DEF Written
  <2> QED
    BY <1>1, <1>5, <2>1 DEF Bodies
<1>6. CASE s.what = "up"
  <2>1. w = [b EXCEPT !.up = s.arg]
    BY <1>6 DEF Written
  <2> QED
    BY <1>1, <1>6, <2>1 DEF Bodies
<1>7. CASE s.what \notin {"on", "off", "first", "last", "up"}
  <2>1. w = b
    BY <1>7 DEF Written, FieldSteps, Conditions
  <2> QED
    BY <1>7, <2>1 DEF Bodies
<1> QED
  BY <1>2, <1>3, <1>4, <1>5, <1>6, <1>7

\* The steps that write one entry.
LEMMA EntryWritten ==
  ASSUME NEW b \in Bodies, NEW s \in Steps, NEW r \in Copies, NEW w, w = Written(b, s, r), s.what \in EntrySteps
  PROVE  w \in Bodies /\ EntrySet(b, s, r, w)
<1>0. s.what \in {"insert", "delete", "flip", "says", "master"}
  BY DEF EntrySteps
<1>1. /\ s.what # "master" => s.arg \in Entries
      /\ s.what = "master" => s.arg \in [e : Entries, high : BOOLEAN]
  BY <1>0, StepArgs DEF OnEntry
<1>2. PICK e \in Entries : e = IF s.what = "master" THEN s.arg.e ELSE s.arg
  BY <1>1
<1>3. b.entry \in [Entries -> EntryRecords] /\ b.entry[e] \in EntryRecords
  BY <1>2 DEF Bodies
<1> DEFINE Into(n) == [b EXCEPT !.entry = [b.entry EXCEPT ![e] = n]]
           Made(n) == /\ n.there <=> (s.what \in {"insert", "master"} \/ (s.what \in {"flip", "says"} /\ b.entry[e].there))
                      /\ s.what \in {"insert", "delete"} => ~ n.master
                      /\ s.what = "master" => n.says
                      /\ s.what = "says" => n.says = r.master /\ n.master = b.entry[e].master
<1>4. PICK n \in EntryRecords : w = Into(n) /\ Made(n)
  <2>0. PICK old \in EntryRecords : old = b.entry[e]
    BY <1>3
  <2>1. CASE s.what = "insert"
    <3>1. PICK n : n = [NoEntry EXCEPT !.there = TRUE]
      OBVIOUS
    <3>2. w = Into(n)
      BY <1>2, <2>1, <3>1 DEF Written
    <3>3. n \in EntryRecords /\ n.there = TRUE /\ n.master = FALSE
      BY <3>1 DEF NoEntry, EntryRecords
    <3>4. Made(n)
      BY <2>1, <3>3
    <3> HIDE DEF Into, Made
    <3> QED
      BY <3>2, <3>3, <3>4
  <2>2. CASE s.what = "delete"
    <3>1. PICK n : n = NoEntry
      OBVIOUS
    <3>2. w = Into(n)
      BY <1>2, <2>2, <3>1 DEF Written
    <3>3. n \in EntryRecords /\ n.there = FALSE /\ n.master = FALSE
      BY <3>1 DEF NoEntry, EntryRecords
    <3>4. Made(n)
      BY <2>2, <3>3
    <3> HIDE DEF Into, Made
    <3> QED
      BY <3>2, <3>3, <3>4
  <2>3. CASE s.what = "flip"
    <3>1. PICK n : n = [old EXCEPT !.master = ~ old.master]
      OBVIOUS
    <3>2. w = Into(n)
      <4>1. w = [b EXCEPT !.entry[e].master = ~ @]
        BY <1>2, <2>3 DEF Written
      <4>2. w = [b EXCEPT !.entry = [b.entry EXCEPT ![e] = [b.entry[e] EXCEPT !.master = ~ b.entry[e].master]]]
        BY <4>1
      <4>3. n = [b.entry[e] EXCEPT !.master = ~ b.entry[e].master]
        BY <2>0, <3>1
      <4> QED
        BY <4>2, <4>3
    <3>3. n \in EntryRecords /\ n.there = old.there
      BY <3>1 DEF EntryRecords
    <3>4. Made(n)
      BY <2>0, <2>3, <3>3
    <3> HIDE DEF Into, Made
    <3> QED
      BY <3>2, <3>3, <3>4
  <2>4. CASE s.what = "says"
    <3>1. PICK n : n = [old EXCEPT !.says = r.master]
      OBVIOUS
    <3>2. w = Into(n)
      <4>1. w = [b EXCEPT !.entry[e].says = r.master]
        BY <1>2, <2>4 DEF Written
      <4>2. w = [b EXCEPT !.entry = [b.entry EXCEPT ![e] = [b.entry[e] EXCEPT !.says = r.master]]]
        BY <4>1
      <4>3. n = [b.entry[e] EXCEPT !.says = r.master]
        BY <2>0, <3>1
      <4> QED
        BY <4>2, <4>3
    <3>3. n \in EntryRecords /\ n.there = old.there /\ n.says = r.master /\ n.master = old.master
      BY <3>1 DEF EntryRecords, Copies
    <3>4. Made(n)
      BY <2>0, <2>4, <3>3
    <3> HIDE DEF Into, Made
    <3> QED
      BY <3>2, <3>3, <3>4
  <2>5. CASE s.what = "master"
    <3>1. PICK n : n = [there |-> TRUE, master |-> s.arg.high, says |-> TRUE]
      OBVIOUS
    <3>2. w = Into(n)
      BY <1>2, <2>5, <3>1 DEF Written
    <3>3. n \in EntryRecords /\ n.there = TRUE /\ n.says = TRUE
      BY <1>1, <2>5, <3>1 DEF EntryRecords
    <3>4. Made(n)
      BY <2>5, <3>3
    <3> HIDE DEF Into, Made
    <3> QED
      BY <3>2, <3>3, <3>4
  <2> QED
    BY <1>0, <2>1, <2>2, <2>3, <2>4, <2>5
<1>5. w.entry = [b.entry EXCEPT ![e] = n] /\ w.entry \in [Entries -> EntryRecords]
  BY <1>3, <1>4 DEF Bodies
<1>6. /\ w.on = b.on /\ w.first = b.first /\ w.last = b.last /\ w.up = b.up
      /\ w.domain = b.domain /\ w.list = b.list /\ w.told = b.told /\ w.used = b.used /\ w \in Bodies
  BY <1>4, <1>5 DEF Bodies
<1>7. (\A x \in Entries : x # e => w.entry[x] = b.entry[x]) /\ w.entry[e] = n
  BY <1>3, <1>5
<1>8. Made(n)
  BY <1>4
<1> QED
  BY <1>2, <1>6, <1>7, <1>8 DEF EntrySet

\* A domain that is made or taken away, and an append.
LEMMA DomainWritten ==
  ASSUME NEW b \in Bodies, NEW s \in Steps, NEW r \in Copies, NEW w, w = Written(b, s, r), s.what \in DomainSteps,
         calls \in 0..MaxCalls
  PROVE  w \in Bodies /\ DomainSet(b, s, r, w)
<1>0. PICK blank \in [Entries -> EntryRecords] : blank = [e \in Entries |-> NoEntry]
  <2>1. NoEntry \in EntryRecords
    BY DEF NoEntry, EntryRecords
  <2> QED
    BY <2>1
<1>1. CASE s.what = "domain"
  <2>1. w = [b EXCEPT !.domain = calls, !.entry = blank, !.list = 0, !.told = 0]
    BY <1>0, <1>1 DEF Written
  <2>2. PICK x \in Bodies : x = [b EXCEPT !.domain = calls, !.list = 0, !.told = 0]
    BY DEF Bodies
  <2>3. /\ x.on = b.on /\ x.first = b.first /\ x.last = b.last /\ x.up = b.up /\ x.used = b.used
        /\ x.domain = calls /\ x.list = 0 /\ x.told = 0
    BY <2>2 DEF Bodies
  <2>4. w = [x EXCEPT !.entry = blank]
    BY <2>1, <2>2 DEF Bodies
  <2>5. w \in Bodies /\ w.entry = blank
    BY <2>4 DEF Bodies
  <2>6. /\ w.on = x.on /\ w.first = x.first /\ w.last = x.last /\ w.up = x.up /\ w.used = x.used
        /\ w.domain = x.domain /\ w.list = x.list /\ w.told = x.told
    BY <2>4 DEF Bodies
  <2> QED
    BY <1>0, <1>1, <2>3, <2>5, <2>6 DEF DomainSet
<1>2. CASE s.what = "nil"
  <2>1. w = [b EXCEPT !.domain = 0, !.entry = blank]
    BY <1>0, <1>2 DEF Written
  <2>2. PICK x \in Bodies : x = [b EXCEPT !.domain = 0]
    <3>1. 0 \in 0..MaxCalls
      BY RoutersAssumption
    <3> QED
      BY <3>1 DEF Bodies
  <2>3. /\ x.on = b.on /\ x.first = b.first /\ x.last = b.last /\ x.up = b.up /\ x.used = b.used
        /\ x.domain = 0 /\ x.list = b.list /\ x.told = b.told
    BY <2>2 DEF Bodies
  <2>4. w = [x EXCEPT !.entry = blank]
    BY <2>1, <2>2 DEF Bodies
  <2>5. w \in Bodies /\ w.entry = blank
    BY <2>4 DEF Bodies
  <2>6. /\ w.on = x.on /\ w.first = x.first /\ w.last = x.last /\ w.up = x.up /\ w.used = x.used
        /\ w.domain = x.domain /\ w.list = x.list /\ w.told = x.told
    BY <2>4 DEF Bodies
  <2> QED
    BY <1>0, <1>2, <2>3, <2>5, <2>6 DEF DomainSet
<1>3. CASE s.what = "append"
  <2>1. w = [b EXCEPT !.list = IF b.domain = r.domain THEN r.list + 1 ELSE @, !.told = @ + 1]
    BY <1>3 DEF Written
  <2>2. r.list + 1 \in Nat /\ b.told + 1 \in Nat
    BY DEF Bodies, Copies
  <2> QED
    BY <1>3, <2>1, <2>2 DEF Bodies, DomainSet
<1> QED
  BY <1>1, <1>2, <1>3 DEF DomainSteps

\* A step writes settings, and reads what can be read.
LEMMA StepTyped ==
  ASSUME NEW b \in Bodies, NEW s \in Steps, NEW r \in Copies, calls \in 0..MaxCalls
  PROVE  Written(b, s, r) \in Bodies /\ Reads(b, s, r) \in Copies /\ (b.used => Written(b, s, r).used)
<1>1. Written(b, s, r) \in Bodies /\ (b.used => Written(b, s, r).used)
  <2>1. PICK w : w = Written(b, s, r)
    OBVIOUS
  <2>2. CASE s.what \in EntrySteps
    BY <2>1, <2>2, EntryWritten, Zenon DEF EntrySet
  <2>3. CASE s.what \in DomainSteps
    BY <2>1, <2>3, DomainWritten DEF DomainSet
  <2>4. CASE s.what \in FieldSteps
    BY <2>1, <2>4, FieldWritten, ZenonT(40) DEF FieldSet
  <2>5. s.what \in EntrySteps \cup DomainSteps \cup FieldSteps
    BY StepArgs DEF OnEntry, EntrySteps, DomainSteps, FieldSteps, Conditions
  <2> QED
    BY <2>2, <2>3, <2>4, <2>5
<1>2. Reads(b, s, r) \in Copies
  <2>1. CASE s.what = "copy"
    <3>1. Reads(b, s, r) = [NoCopy EXCEPT !.list = b.list, !.domain = b.domain]
      BY <2>1 DEF Reads
    <3> QED
      BY <3>1 DEF NoCopy, Copies, Bodies
  <2>2. CASE s.what = "peek"
    <3>1. Reads(b, s, r) = [NoCopy EXCEPT !.master = b.entry[s.arg].master]
      BY <2>2 DEF Reads
    <3>2. b.entry[s.arg].master \in BOOLEAN
      BY <2>2, StepArgs DEF OnEntry, Bodies, EntryRecords
    <3> QED
      BY <3>1, <3>2, RoutersAssumption DEF NoCopy, Copies
  <2>3. CASE s.what \notin {"copy", "peek"}
    BY <2>3 DEF Reads
  <2> QED
    BY <2>1, <2>2, <2>3
<1> QED
  BY <1>1, <1>2

-----------------------------------------------------------------------------
(* Calls that nothing comes between lead from one good router to another.  *)

\* What a router is between calls that did not meet.
Good(b) == OneConfiguration(b) /\ GroupsEnable(b) /\ SaidAndListed(b)

\* The step dereferences a nil domain.
NilDomain(b, s) == feature = "mlag" /\ s.what \in {"insert", "up"} /\ b.domain = 0

\* A set of routers b, steps t that a call has left, copies r it has read, and whether it
\* holds the router: each goes on to another of the set, or to a good end.
StaysIn(L, b, t, r, h) ==
  IF t = <<>> THEN Good(b)
  ELSE /\ Head(t).via = "held" \/ Head(t).what = "copy" => h = TRUE
       /\ ~ NilDomain(b, Head(t))
       /\ IF GoesOn(b, Head(t)) THEN <<Written(b, Head(t), r), Tail(t), Reads(b, Head(t), r), TRUE>> \in L
          ELSE Good(Written(b, Head(t), r))
Leading(L) == \A b, t, r, h : <<b, t, r, h>> \in L => StaysIn(L, b, t, r, h)

Leads(b, t, r, h) == \E L : Leading(L) /\ <<b, t, r, h>> \in L

\* A call that has ended.
LEMMA LeadsEnd == ASSUME NEW b, Good(b), NEW r, NEW h PROVE Leads(b, <<>>, r, h)
<1>1. Leading({<<b, <<>>, r, h>>})
  <2>1. \A x, y, z, v : <<x, y, z, v>> \in {<<b, <<>>, r, h>>} => x = b /\ y = <<>>
    OBVIOUS
  <2> QED
    BY <2>1 DEF Leading, StaysIn
<1> QED
  BY <1>1 DEF Leads

\* One step more.
LEMMA LeadsOn ==
  ASSUME NEW b, NEW t, NEW r, NEW h, t # <<>>,
         Head(t).via = "held" \/ Head(t).what = "copy" => h = TRUE,
         ~ NilDomain(b, Head(t)),
         GoesOn(b, Head(t)) => Leads(Written(b, Head(t), r), Tail(t), Reads(b, Head(t), r), TRUE),
         ~ GoesOn(b, Head(t)) => Good(Written(b, Head(t), r))
  PROVE  Leads(b, t, r, h)
<1>1. CASE GoesOn(b, Head(t))
  <2>1. PICK L : Leading(L) /\ <<Written(b, Head(t), r), Tail(t), Reads(b, Head(t), r), TRUE>> \in L
    BY <1>1 DEF Leads
  <2>2. PICK K : K = L \cup {<<b, t, r, h>>}
    OBVIOUS
  <2>3. StaysIn(K, b, t, r, h)
    BY <1>1, <2>1, <2>2 DEF StaysIn
  <2>4. ASSUME NEW x, NEW y, NEW z, NEW v, <<x, y, z, v>> \in K PROVE StaysIn(K, x, y, z, v)
    <3>1. CASE <<x, y, z, v>> \in L
      <4>1. StaysIn(L, x, y, z, v)
        BY <2>1, <3>1 DEF Leading
      <4>2. \A q \in L : q \in K
        BY <2>2
      <4> QED
        BY <4>1, <4>2, Zenon DEF StaysIn
    <3>2. CASE <<x, y, z, v>> = <<b, t, r, h>>
      <4>1. x = b /\ y = t /\ z = r /\ v = h
        BY <3>2
      <4> QED
        BY <2>3, <4>1
    <3> QED
      BY <2>2, <2>4, <3>1, <3>2
  <2>5. Leading(K)
    BY <2>4, Zenon DEF Leading
  <2> QED
    BY <2>2, <2>5 DEF Leads
<1>2. CASE ~ GoesOn(b, Head(t))
  <2>1. StaysIn({<<b, t, r, h>>}, b, t, r, h)
    BY <1>2 DEF StaysIn
  <2>2. \A x, y, z, v : <<x, y, z, v>> \in {<<b, t, r, h>>} => x = b /\ y = t /\ z = r /\ v = h
    OBVIOUS
  <2>3. Leading({<<b, t, r, h>>})
    BY <2>1, <2>2, Zenon DEF Leading
  <2> QED
    BY <2>3 DEF Leads
<1> QED
  BY <1>1, <1>2

\* What a step that is taken leads to.
Ahead(b, t, r, h) ==
  IF t = <<>> THEN Good(b)
  ELSE /\ Head(t).via = "held" \/ Head(t).what = "copy" => h = TRUE
       /\ ~ NilDomain(b, Head(t))
       /\ IF GoesOn(b, Head(t)) THEN Leads(Written(b, Head(t), r), Tail(t), Reads(b, Head(t), r), TRUE)
          ELSE Good(Written(b, Head(t), r))

\* What a call that leads somewhere does next: the set that shows it gives the step, and shows the rest.
LEMMA LeadsTo == \A b, t, r, h : Leads(b, t, r, h) => Ahead(b, t, r, h)
<1> SUFFICES ASSUME NEW b, NEW t, NEW r, NEW h, Leads(b, t, r, h) PROVE Ahead(b, t, r, h)
  OBVIOUS
<1>1. PICK L : Leading(L) /\ <<b, t, r, h>> \in L
  BY DEF Leads
<1>2. StaysIn(L, b, t, r, h)
  BY <1>1, Zenon DEF Leading
<1> QED
  BY <1>1, <1>2, Zenon DEF Ahead, StaysIn, Leads

\* A step that looks the router up.
LEMMA LeadsLook ==
  ASSUME NEW b, NEW t, NEW r, NEW h, t # <<>>, Head(t).what = "nothing", Head(t).via # "held",
         Leads(b, Tail(t), r, TRUE)
  PROVE  Leads(b, t, r, h)
<1>1. GoesOn(b, Head(t)) /\ ~ NilDomain(b, Head(t)) /\ Written(b, Head(t), r) = b /\ Reads(b, Head(t), r) = r
  BY DEF GoesOn, NilDomain, Written, Reads
<1> QED
  BY <1>1, LeadsOn

\* A step that ends the call or lets it go on.
LEMMA LeadsIf ==
  ASSUME NEW b, NEW t, NEW r, t # <<>>, Head(t).what \in Conditions,
         GoesOn(b, Head(t)) => Leads(b, Tail(t), r, TRUE), ~ GoesOn(b, Head(t)) => Good(b)
  PROVE  Leads(b, t, r, TRUE)
<1>1. ~ NilDomain(b, Head(t)) /\ Written(b, Head(t), r) = b /\ Reads(b, Head(t), r) = r
  BY DEF Conditions, NilDomain, Written, Reads
<1> QED
  BY <1>1, LeadsOn

\* A step that writes.
LEMMA LeadsWrite ==
  ASSUME NEW b, NEW t, NEW r, NEW h, t # <<>>, Head(t).what \notin Conditions \cup {"copy", "peek"},
         Head(t).via = "held" => h = TRUE, ~ NilDomain(b, Head(t)), Leads(Written(b, Head(t), r), Tail(t), r, TRUE)
  PROVE  Leads(b, t, r, h)
<1>1. GoesOn(b, Head(t)) /\ Reads(b, Head(t), r) = r /\ Head(t).what # "copy"
  BY DEF Conditions, GoesOn, Reads
<1> QED
  BY <1>1, LeadsOn

\* A step that reads.
LEMMA LeadsRead ==
  ASSUME NEW b, NEW t, NEW r, t # <<>>, Head(t).what \in {"copy", "peek"},
         Leads(b, Tail(t), Reads(b, Head(t), r), TRUE)
  PROVE  Leads(b, t, r, TRUE)
<1>1. GoesOn(b, Head(t)) /\ ~ NilDomain(b, Head(t)) /\ Written(b, Head(t), r) = b
  BY DEF GoesOn, NilDomain, Written
<1> QED
  BY <1>1, LeadsOn

-----------------------------------------------------------------------------
(* Settings and tables.                                                    *)

\* Features with nothing more to agree than the fields of one call.
Simple == {"ospf", "snmp", "syslog", "ssh", "radius", "netflow", "bgp", "bfd", "pbr", "gre", "qos", "dot1x", "stp",
           "lldp", "routes", "vrf"}

\* What is good of a router with such a feature.
LEMMA GoodSimple == ASSUME feature \in Simple PROVE \A b : Good(b) <=> b.first = b.last /\ SaidAndListed(b)
BY DEF Simple, Good, OneConfiguration, GroupsEnable

\* What is good of a router that is synchronized, or up, as soon as it is enabled.
LEMMA GoodTimed ==
  ASSUME feature \in {"ntp", "vxlan"} PROVE \A b : Good(b) <=> b.first = b.last /\ b.up = b.on /\ SaidAndListed(b)
BY DEF Good, OneConfiguration, GroupsEnable

\* What is good of a router with groups or tunnels.
LEMMA GoodGroups ==
  ASSUME feature \in {"vrrp", "ipsec"}
  PROVE  \A b \in Bodies : Good(b) <=> b.first = b.last /\ (b.on <=> There(b) # {}) /\ SaidAndListed(b)
BY DEF Good, OneConfiguration, GroupsEnable, Bodies

\* What is good of a router with M-LAG.
LEMMA GoodDomain ==
  ASSUME feature = "mlag"
  PROVE  \A b \in Bodies : Good(b) <=> b.first = b.last /\ (b.on <=> b.domain # 0) /\ SaidAndListed(b)
BY DEF Good, OneConfiguration, GroupsEnable, Bodies

\* Steps that leave the entries alone leave them sound.
LEMMA FieldSaid ==
  ASSUME NEW b, NEW s, NEW w, SaidAndListed(b), FieldSet(b, s, w)
  PROVE  SaidAndListed(w)
BY DEF SaidAndListed, FieldSet

\* What a step that writes an entry leaves as it is.
LEMMA EntryRest ==
  ASSUME NEW b, NEW s, NEW r, NEW w, EntrySet(b, s, r, w)
  PROVE  /\ w.on = b.on /\ w.first = b.first /\ w.last = b.last /\ w.up = b.up
         /\ w.domain = b.domain /\ w.list = b.list /\ w.told = b.told /\ w.used = b.used
BY DEF EntrySet

\* A domain that is new, or gone, has neither members nor a list that is wrong.
LEMMA DomainSaid ==
  ASSUME NEW b, NEW s, NEW r, NEW w, DomainSet(b, s, r, w), s.what \in {"domain", "nil"},
         s.what = "nil" => b.list = b.told
  PROVE  SaidAndListed(w)
<1>1. w.list = w.told
  BY DEF DomainSet
<1>2. \A x \in Entries : w.entry[x].master = FALSE
  BY DEF DomainSet, NoEntry
<1> QED
  BY <1>1, <1>2 DEF SaidAndListed

\* Entries that come, or are taken out, leave entries sound.
LEMMA EntrySaid ==
  ASSUME NEW b, NEW s, NEW r, NEW w, SaidAndListed(b), EntrySet(b, s, r, w), s.what \in {"insert", "delete", "master"}
  PROVE  SaidAndListed(w)
<1>1. PICK e \in Entries :
        /\ \A x \in Entries : x # e => w.entry[x] = b.entry[x]
        /\ s.what \in {"insert", "delete"} => ~ w.entry[e].master
        /\ s.what = "master" => w.entry[e].says
  BY DEF EntrySet
<1>2. w.list = b.list /\ w.told = b.told
  BY DEF EntrySet
<1>3. \A x \in Entries : w.entry[x].master => w.entry[x].says
  BY <1>1 DEF SaidAndListed
<1> QED
  BY <1>2, <1>3 DEF SaidAndListed

\* Which entries there are then.
LEMMA EntryThere ==
  ASSUME NEW b \in Bodies, NEW s, NEW r, NEW w \in Bodies, EntrySet(b, s, r, w)
  PROVE  /\ s.what \in {"insert", "master"} => There(w) # {}
         /\ s.what = "delete" => There(w) \subseteq There(b)
         /\ s.what \in {"flip", "says"} => There(w) = There(b)
<1>1. PICK e \in Entries :
        /\ \A x \in Entries : x # e => w.entry[x] = b.entry[x]
        /\ w.entry[e].there <=> (s.what \in {"insert", "master"} \/ (s.what \in {"flip", "says"} /\ b.entry[e].there))
  BY DEF EntrySet
<1>2. s.what \in {"insert", "master"} => e \in There(w)
  BY <1>1 DEF There
<1>3. s.what = "delete" => \A x \in There(w) : x \in There(b)
  BY <1>1 DEF There
<1>4. s.what \in {"flip", "says"} => \A x \in Entries : x \in There(w) <=> x \in There(b)
  BY <1>1 DEF There
<1> QED
  BY <1>2, <1>3, <1>4 DEF There

\* Steps after which a router with such a feature is as good as before.
PlainSteps == {s \in Steps : s.what \in {"nothing", "on", "off", "ifOn", "insert", "delete"}}

\* A list of such steps leads to a good router from a good one: the set is that of all such lists.
LEMMA PlainLeads ==
  ASSUME feature \in Simple, NEW b \in Bodies, Good(b), NEW t \in Seq(PlainSteps), NEW r \in Copies, NEW h \in BOOLEAN,
         t # <<>> /\ Head(t).via = "held" => h = TRUE
  PROVE  Leads(b, t, r, h)
<1> DEFINE L == {q \in Bodies \X Seq(PlainSteps) \X Copies \X BOOLEAN :
                   Good(q[1]) /\ (q[2] # <<>> /\ Head(q[2]).via = "held" => q[4] = TRUE)}
<1>1. <<b, t, r, h>> \in L
  OBVIOUS
<1>2. \A x, y, z, v : <<x, y, z, v>> \in L <=>
        /\ x \in Bodies /\ y \in Seq(PlainSteps) /\ z \in Copies /\ v \in BOOLEAN
        /\ Good(x) /\ (y # <<>> /\ Head(y).via = "held" => v = TRUE)
  OBVIOUS
<1> HIDE DEF L
<1>3. ASSUME NEW x, NEW y, NEW z, NEW v, <<x, y, z, v>> \in L, y # <<>> PROVE StaysIn(L, x, y, z, v)
  <2>1. /\ x \in Bodies /\ y \in Seq(PlainSteps) /\ z \in Copies /\ v \in BOOLEAN
        /\ Good(x) /\ (Head(y).via = "held" => v = TRUE)
    BY <1>2, <1>3
  <2>2. PICK s \in PlainSteps : s = Head(y)
    BY <1>3, <2>1, HeadTailProperties
  <2>3. Tail(y) \in Seq(PlainSteps)
    BY <1>3, <2>1, HeadTailProperties
  <2>4. s \in Steps /\ s.what \in {"nothing", "on", "off", "ifOn", "insert", "delete"}
    BY DEF PlainSteps
  <2>5. PICK w : w = Written(x, s, z)
    OBVIOUS
  <2>6. w \in Bodies /\ Good(w)
    <3>1. x.first = x.last /\ SaidAndListed(x)
      BY <2>1, GoodSimple
    <3>2. CASE s.what \in {"nothing", "on", "off", "ifOn"}
      <4>1. s.what \in FieldSteps
        BY <3>2 DEF FieldSteps, Conditions
      <4>2. w \in Bodies /\ FieldSet(x, s, w)
        BY <2>1, <2>4, <2>5, <4>1, FieldWritten
      <4>3. w.first = w.last
        BY <3>1, <3>2, <4>2 DEF FieldSet
      <4> QED
        BY <3>1, <4>2, <4>3, FieldSaid, GoodSimple
    <3>3. CASE s.what \in {"insert", "delete"}
      <4>1. w \in Bodies /\ EntrySet(x, s, z, w)
        BY <2>1, <2>4, <2>5, <3>3, EntryWritten DEF EntrySteps
      <4>2. w.first = w.last
        BY <3>1, <4>1 DEF EntrySet
      <4> QED
        BY <3>1, <3>3, <4>1, <4>2, EntrySaid, GoodSimple
    <3> QED
      BY <2>4, <3>2, <3>3
  <2>7. Reads(x, s, z) = z /\ ~ NilDomain(x, s) /\ s.what # "copy"
    BY <2>4 DEF Reads, NilDomain, Simple
  <2>8. <<w, Tail(y), z, TRUE>> \in L
    BY <1>2, <2>1, <2>3, <2>6
  <2> QED
    BY <1>3, <2>1, <2>2, <2>5, <2>6, <2>7, <2>8 DEF StaysIn
<1>4. ASSUME NEW x, NEW y, NEW z, NEW v, <<x, y, z, v>> \in L PROVE StaysIn(L, x, y, z, v)
  <2>1. y = <<>> => Good(x)
    BY <1>2, <1>4
  <2> QED
    BY <1>3, <1>4, <2>1 DEF StaysIn
<1>5. Leading(L)
  BY <1>4, Zenon DEF Leading
<1> QED
  BY <1>1, <1>5 DEF Leads

\* Fields given one by one.
LEMMA ConfigureLeads ==
  ASSUME NEW v \in Settings, feature \in Simple
  PROVE  \A b \in Bodies, r \in Copies, h \in BOOLEAN :
           SaidAndListed(b) => Leads(b, <<Ensure, InitThen("on", 0), InitThen("first", v), InitThen("last", v)>>, r, h)
<1> DEFINE s1 == InitThen("last", v)
           s2 == InitThen("first", v)
           s3 == InitThen("on", 0)
           s4 == Ensure
           t1 == <<s1>>
           t2 == <<s2, s1>>
           t3 == <<s3, s2, s1>>
           t4 == <<s4, s3, s2, s1>>
<1>0. /\ t1 # <<>> /\ t2 # <<>> /\ t3 # <<>> /\ t4 # <<>>
      /\ Head(t1) = s1 /\ Head(t2) = s2 /\ Head(t3) = s3 /\ Head(t4) = s4
      /\ Tail(t1) = <<>> /\ Tail(t2) = t1 /\ Tail(t3) = t2 /\ Tail(t4) = t3
  <2> HIDE DEF s1, s2, s3, s4
  <2> QED
    OBVIOUS
<1>s. /\ s1 \in Steps /\ s1.via = "init" /\ s1.what = "last" /\ s1.arg = v
      /\ s2 \in Steps /\ s2.via = "init" /\ s2.what = "first" /\ s2.arg = v
      /\ s3 \in Steps /\ s3.via = "init" /\ s3.what = "on"
      /\ s4 \in Steps /\ s4.via = "init" /\ s4.what = "nothing"
  BY DEF InitThen, Ensure, Steps, StepsOf, OnEntry
<1> HIDE DEF s1, s2, s3, s4, t1, t2, t3, t4
<1>1. \A b \in Bodies, r \in Copies : b.first = v /\ SaidAndListed(b) => Leads(b, t1, r, TRUE)
  <2> SUFFICES ASSUME NEW b \in Bodies, NEW r \in Copies, b.first = v /\ SaidAndListed(b) PROVE Leads(b, t1, r, TRUE)
    OBVIOUS
  <2>1. PICK w \in Bodies : w = Written(b, s1, r) /\ FieldSet(b, s1, w)
    BY <1>s, FieldWritten DEF FieldSteps
  <2>2. Good(w)
    BY <1>s, <2>1, GoodSimple, FieldSaid DEF FieldSet
  <2>3. Leads(w, <<>>, r, TRUE)
    BY <2>2, LeadsEnd
  <2>4. ~ NilDomain(b, s1)
    BY <1>s DEF NilDomain
  <2> QED
    BY <1>0, <1>s, <2>1, <2>3, <2>4, LeadsWrite DEF Conditions
<1>2. \A b \in Bodies, r \in Copies : SaidAndListed(b) => Leads(b, t2, r, TRUE)
  <2> SUFFICES ASSUME NEW b \in Bodies, NEW r \in Copies, SaidAndListed(b) PROVE Leads(b, t2, r, TRUE)
    OBVIOUS
  <2>1. PICK w \in Bodies : w = Written(b, s2, r) /\ FieldSet(b, s2, w)
    BY <1>s, FieldWritten DEF FieldSteps
  <2>2. Leads(w, t1, r, TRUE)
    BY <1>s, <2>1, <1>1, FieldSaid DEF FieldSet
  <2>4. ~ NilDomain(b, s2)
    BY <1>s DEF NilDomain
  <2> QED
    BY <1>0, <1>s, <2>1, <2>2, <2>4, LeadsWrite DEF Conditions
<1>3. \A b \in Bodies, r \in Copies : SaidAndListed(b) => Leads(b, t3, r, TRUE)
  <2> SUFFICES ASSUME NEW b \in Bodies, NEW r \in Copies, SaidAndListed(b) PROVE Leads(b, t3, r, TRUE)
    OBVIOUS
  <2>1. PICK w \in Bodies : w = Written(b, s3, r) /\ FieldSet(b, s3, w)
    BY <1>s, FieldWritten DEF FieldSteps
  <2>2. Leads(w, t2, r, TRUE)
    BY <1>s, <2>1, <1>2, FieldSaid DEF FieldSet
  <2>4. ~ NilDomain(b, s3)
    BY <1>s DEF NilDomain
  <2> QED
    BY <1>0, <1>s, <2>1, <2>2, <2>4, LeadsWrite DEF Conditions
<1>4. \A b \in Bodies, r \in Copies, h \in BOOLEAN : SaidAndListed(b) => Leads(b, t4, r, h)
  <2> SUFFICES ASSUME NEW b \in Bodies, NEW r \in Copies, NEW h \in BOOLEAN, SaidAndListed(b) PROVE Leads(b, t4, r, h)
    OBVIOUS
  <2>1. Leads(b, t3, r, TRUE)
    BY <1>3
  <2> QED
    BY <1>0, <1>s, <2>1, LeadsLook
<1> QED
  BY <1>4 DEF s1, s2, s3, s4, t1, t2, t3, t4

\* Fields given to the router that the call holds.
LEMMA STPLeads ==
  ASSUME NEW v \in Settings, feature \in Simple
  PROVE  \A b \in Bodies, r \in Copies, h \in BOOLEAN :
           SaidAndListed(b) => Leads(b, <<InitThen("on", 0), HeldThen("first", v), HeldThen("last", v)>>, r, h)
<1> DEFINE s1 == HeldThen("last", v)
           s2 == HeldThen("first", v)
           s3 == InitThen("on", 0)
           t1 == <<s1>>
           t2 == <<s2, s1>>
           t3 == <<s3, s2, s1>>
<1>0. /\ t1 # <<>> /\ t2 # <<>> /\ t3 # <<>>
      /\ Head(t1) = s1 /\ Head(t2) = s2 /\ Head(t3) = s3
      /\ Tail(t1) = <<>> /\ Tail(t2) = t1 /\ Tail(t3) = t2
  <2> HIDE DEF s1, s2, s3
  <2> QED
    OBVIOUS
<1>s. /\ s1 \in Steps /\ s1.via = "held" /\ s1.what = "last" /\ s1.arg = v
      /\ s2 \in Steps /\ s2.via = "held" /\ s2.what = "first" /\ s2.arg = v
      /\ s3 \in Steps /\ s3.via = "init" /\ s3.what = "on"
  BY DEF HeldThen, InitThen, Steps, StepsOf, OnEntry
<1> HIDE DEF s1, s2, s3, t1, t2, t3
<1>1. \A b \in Bodies, r \in Copies : b.first = v /\ SaidAndListed(b) => Leads(b, t1, r, TRUE)
  <2> SUFFICES ASSUME NEW b \in Bodies, NEW r \in Copies, b.first = v /\ SaidAndListed(b) PROVE Leads(b, t1, r, TRUE)
    OBVIOUS
  <2>1. PICK w \in Bodies : w = Written(b, s1, r) /\ FieldSet(b, s1, w)
    BY <1>s, FieldWritten DEF FieldSteps
  <2>2. Good(w)
    BY <1>s, <2>1, GoodSimple, FieldSaid DEF FieldSet
  <2>3. Leads(w, <<>>, r, TRUE)
    BY <2>2, LeadsEnd
  <2>4. ~ NilDomain(b, s1)
    BY <1>s DEF NilDomain
  <2> QED
    BY <1>0, <1>s, <2>1, <2>3, <2>4, LeadsWrite DEF Conditions
<1>2. \A b \in Bodies, r \in Copies : SaidAndListed(b) => Leads(b, t2, r, TRUE)
  <2> SUFFICES ASSUME NEW b \in Bodies, NEW r \in Copies, SaidAndListed(b) PROVE Leads(b, t2, r, TRUE)
    OBVIOUS
  <2>1. PICK w \in Bodies : w = Written(b, s2, r) /\ FieldSet(b, s2, w)
    BY <1>s, FieldWritten DEF FieldSteps
  <2>2. Leads(w, t1, r, TRUE)
    BY <1>s, <2>1, <1>1, FieldSaid DEF FieldSet
  <2>4. ~ NilDomain(b, s2)
    BY <1>s DEF NilDomain
  <2> QED
    BY <1>0, <1>s, <2>1, <2>2, <2>4, LeadsWrite DEF Conditions
<1>3. \A b \in Bodies, r \in Copies, h \in BOOLEAN : SaidAndListed(b) => Leads(b, t3, r, h)
  <2> SUFFICES ASSUME NEW b \in Bodies, NEW r \in Copies, NEW h \in BOOLEAN, SaidAndListed(b) PROVE Leads(b, t3, r, h)
    OBVIOUS
  <2>1. PICK w \in Bodies : w = Written(b, s3, r) /\ FieldSet(b, s3, w)
    BY <1>s, FieldWritten DEF FieldSteps
  <2>2. Leads(w, t2, r, TRUE)
    BY <1>s, <2>1, <1>2, FieldSaid DEF FieldSet
  <2>4. ~ NilDomain(b, s3)
    BY <1>s DEF NilDomain
  <2> QED
    BY <1>0, <1>s, <2>1, <2>2, <2>4, LeadsWrite DEF Conditions
<1> QED
  BY <1>3 DEF s1, s2, s3, t1, t2, t3

-----------------------------------------------------------------------------
(* Lists.                                                                  *)

\* A list read, extended and put back.
LEMMA AppendLeads ==
  ASSUME feature \in {"routes", "lldp", "vrf"}, calls \in 1..MaxCalls
  PROVE  \A b \in Bodies, r \in Copies, h \in BOOLEAN :
           Good(b) => Leads(b, <<Ensure, Ensure, InitThen("copy", 0), HeldThen("append", 0)>>, r, h)
<1> DEFINE s1 == HeldThen("append", 0)
           s2 == InitThen("copy", 0)
           s3 == Ensure
           s4 == Ensure
           t1 == <<s1>>
           t2 == <<s2, s1>>
           t3 == <<s3, s2, s1>>
           t4 == <<s4, s3, s2, s1>>
<1>0. /\ t1 # <<>> /\ t2 # <<>> /\ t3 # <<>> /\ t4 # <<>>
      /\ Head(t1) = s1 /\ Head(t2) = s2 /\ Head(t3) = s3 /\ Head(t4) = s4
      /\ Tail(t1) = <<>> /\ Tail(t2) = t1 /\ Tail(t3) = t2 /\ Tail(t4) = t3
  <2> HIDE DEF s1, s2, s3, s4
  <2> QED
    OBVIOUS
<1>s. /\ s1 \in Steps /\ s1.via = "held" /\ s1.what = "append"
      /\ s2 \in Steps /\ s2.via = "init" /\ s2.what = "copy"
      /\ s3 \in Steps /\ s3.via = "init" /\ s3.what = "nothing"
      /\ s4 \in Steps /\ s4.via = "init" /\ s4.what = "nothing"
  BY DEF HeldThen, InitThen, Ensure, Steps, StepsOf, OnEntry
<1> HIDE DEF s1, s2, s3, s4, t1, t2, t3, t4
<1>1. \A b \in Bodies, r \in Copies : b.first = b.last /\ SaidAndListed(b) /\ r.list = b.list /\ r.domain = b.domain => Leads(b, t1, r, TRUE)
  <2> SUFFICES ASSUME NEW b \in Bodies, NEW r \in Copies, b.first = b.last /\ SaidAndListed(b) /\ r.list = b.list /\ r.domain = b.domain PROVE Leads(b, t1, r, TRUE)
    OBVIOUS
  <2>1. PICK w \in Bodies : w = Written(b, s1, r) /\ DomainSet(b, s1, r, w)
    BY <1>s, DomainWritten DEF DomainSteps
  <2>2. Good(w)
    BY <1>s, <2>1, GoodSimple, GoodSimple DEF DomainSet, SaidAndListed, Simple
  <2>3. Leads(w, <<>>, r, TRUE)
    BY <2>2, LeadsEnd
  <2>4. ~ NilDomain(b, s1)
    BY <1>s DEF NilDomain, SaidAndListed, Simple
  <2> QED
    BY <1>0, <1>s, <2>1, <2>3, <2>4, LeadsWrite DEF Conditions
<1>2. \A b \in Bodies, r \in Copies : Good(b) => Leads(b, t2, r, TRUE)
  <2> SUFFICES ASSUME NEW b \in Bodies, NEW r \in Copies, Good(b) PROVE Leads(b, t2, r, TRUE)
    OBVIOUS
  <2>1. PICK v \in Copies : v = Reads(b, s2, r)
    BY <1>s, StepTyped
  <2>2. v.list = b.list /\ v.domain = b.domain
    BY <1>s, <2>1 DEF Reads, NoCopy
  <2>3. Leads(b, t1, v, TRUE)
    BY <2>2, <1>1, GoodSimple DEF Simple
  <2> QED
    BY <1>0, <1>s, <2>1, <2>3, LeadsRead
<1>3. \A b \in Bodies, r \in Copies : Good(b) => Leads(b, t3, r, TRUE)
  <2> SUFFICES ASSUME NEW b \in Bodies, NEW r \in Copies, Good(b) PROVE Leads(b, t3, r, TRUE)
    OBVIOUS
  <2>1. Leads(b, t2, r, TRUE)
    BY <1>2
  <2> QED
    BY <1>0, <1>s, <2>1, LeadsLook
<1>4. \A b \in Bodies, r \in Copies, h \in BOOLEAN : Good(b) => Leads(b, t4, r, h)
  <2> SUFFICES ASSUME NEW b \in Bodies, NEW r \in Copies, NEW h \in BOOLEAN, Good(b) PROVE Leads(b, t4, r, h)
    OBVIOUS
  <2>1. Leads(b, t3, r, TRUE)
    BY <1>3
  <2> QED
    BY <1>0, <1>s, <2>1, LeadsLook
<1> QED
  BY <1>4 DEF s1, s2, s3, s4, t1, t2, t3, t4

\* The same of a list of the VRF that there is.
LEMMA ExtendLeads ==
  ASSUME feature \in {"routes", "lldp", "vrf"}, calls \in 1..MaxCalls
  PROVE  \A b \in Bodies, r \in Copies, h \in BOOLEAN :
           Good(b) => Leads(b, <<Look, HeldThen("ifDomain", 0), HeldThen("copy", 0), HeldThen("append", 0)>>, r, h)
<1> DEFINE s1 == HeldThen("append", 0)
           s2 == HeldThen("copy", 0)
           s3 == HeldThen("ifDomain", 0)
           s4 == Look
           t1 == <<s1>>
           t2 == <<s2, s1>>
           t3 == <<s3, s2, s1>>
           t4 == <<s4, s3, s2, s1>>
<1>0. /\ t1 # <<>> /\ t2 # <<>> /\ t3 # <<>> /\ t4 # <<>>
      /\ Head(t1) = s1 /\ Head(t2) = s2 /\ Head(t3) = s3 /\ Head(t4) = s4
      /\ Tail(t1) = <<>> /\ Tail(t2) = t1 /\ Tail(t3) = t2 /\ Tail(t4) = t3
  <2> HIDE DEF s1, s2, s3, s4
  <2> QED
    OBVIOUS
<1>s. /\ s1 \in Steps /\ s1.via = "held" /\ s1.what = "append"
      /\ s2 \in Steps /\ s2.via = "held" /\ s2.what = "copy"
      /\ s3 \in Steps /\ s3.via = "held" /\ s3.what = "ifDomain"
      /\ s4 \in Steps /\ s4.via = "get" /\ s4.what = "nothing"
  BY DEF GetThen, HeldThen, Look, Steps, StepsOf, OnEntry
<1> HIDE DEF s1, s2, s3, s4, t1, t2, t3, t4
<1>1. \A b \in Bodies, r \in Copies : b.first = b.last /\ SaidAndListed(b) /\ r.list = b.list /\ r.domain = b.domain => Leads(b, t1, r, TRUE)
  <2> SUFFICES ASSUME NEW b \in Bodies, NEW r \in Copies, b.first = b.last /\ SaidAndListed(b) /\ r.list = b.list /\ r.domain = b.domain PROVE Leads(b, t1, r, TRUE)
    OBVIOUS
  <2>1. PICK w \in Bodies : w = Written(b, s1, r) /\ DomainSet(b, s1, r, w)
    BY <1>s, DomainWritten DEF DomainSteps
  <2>2. Good(w)
    BY <1>s, <2>1, GoodSimple, GoodSimple DEF DomainSet, SaidAndListed, Simple
  <2>3. Leads(w, <<>>, r, TRUE)
    BY <2>2, LeadsEnd
  <2>4. ~ NilDomain(b, s1)
    BY <1>s DEF NilDomain, SaidAndListed, Simple
  <2> QED
    BY <1>0, <1>s, <2>1, <2>3, <2>4, LeadsWrite DEF Conditions
<1>2. \A b \in Bodies, r \in Copies : Good(b) => Leads(b, t2, r, TRUE)
  <2> SUFFICES ASSUME NEW b \in Bodies, NEW r \in Copies, Good(b) PROVE Leads(b, t2, r, TRUE)
    OBVIOUS
  <2>1. PICK v \in Copies : v = Reads(b, s2, r)
    BY <1>s, StepTyped
  <2>2. v.list = b.list /\ v.domain = b.domain
    BY <1>s, <2>1 DEF Reads, NoCopy
  <2>3. Leads(b, t1, v, TRUE)
    BY <2>2, <1>1, GoodSimple DEF Simple
  <2> QED
    BY <1>0, <1>s, <2>1, <2>3, LeadsRead
<1>3. \A b \in Bodies, r \in Copies : Good(b) => Leads(b, t3, r, TRUE)
  <2> SUFFICES ASSUME NEW b \in Bodies, NEW r \in Copies, Good(b) PROVE Leads(b, t3, r, TRUE)
    OBVIOUS
  <2>1. ~ GoesOn(b, s3) => Good(b)
    BY <1>s, GoodSimple DEF GoesOn
  <2>2. GoesOn(b, s3) => Leads(b, t2, r, TRUE)
    BY <1>s, <1>2 DEF GoesOn
  <2> QED
    BY <1>0, <1>s, <2>1, <2>2, LeadsIf DEF Conditions
<1>4. \A b \in Bodies, r \in Copies, h \in BOOLEAN : Good(b) => Leads(b, t4, r, h)
  <2> SUFFICES ASSUME NEW b \in Bodies, NEW r \in Copies, NEW h \in BOOLEAN, Good(b) PROVE Leads(b, t4, r, h)
    OBVIOUS
  <2>1. Leads(b, t3, r, TRUE)
    BY <1>3
  <2> QED
    BY <1>0, <1>s, <2>1, LeadsLook
<1> QED
  BY <1>4 DEF s1, s2, s3, s4, t1, t2, t3, t4

\* A VRF put in the place of another.
LEMMA CreateLeads ==
  ASSUME feature \in {"routes", "lldp", "vrf"}, calls \in 1..MaxCalls
  PROVE  \A b \in Bodies, r \in Copies, h \in BOOLEAN :
           b.first = b.last => Leads(b, <<Ensure, Look, HeldThen("on", 0), HeldThen("domain", 0)>>, r, h)
<1> DEFINE s1 == HeldThen("domain", 0)
           s2 == HeldThen("on", 0)
           s3 == Look
           s4 == Ensure
           t1 == <<s1>>
           t2 == <<s2, s1>>
           t3 == <<s3, s2, s1>>
           t4 == <<s4, s3, s2, s1>>
<1>0. /\ t1 # <<>> /\ t2 # <<>> /\ t3 # <<>> /\ t4 # <<>>
      /\ Head(t1) = s1 /\ Head(t2) = s2 /\ Head(t3) = s3 /\ Head(t4) = s4
      /\ Tail(t1) = <<>> /\ Tail(t2) = t1 /\ Tail(t3) = t2 /\ Tail(t4) = t3
  <2> HIDE DEF s1, s2, s3, s4
  <2> QED
    OBVIOUS
<1>s. /\ s1 \in Steps /\ s1.via = "held" /\ s1.what = "domain"
      /\ s2 \in Steps /\ s2.via = "held" /\ s2.what = "on"
      /\ s3 \in Steps /\ s3.via = "get" /\ s3.what = "nothing"
      /\ s4 \in Steps /\ s4.via = "init" /\ s4.what = "nothing"
  BY DEF GetThen, HeldThen, InitThen, Ensure, Look, Steps, StepsOf, OnEntry
<1> HIDE DEF s1, s2, s3, s4, t1, t2, t3, t4
<1>1. \A b \in Bodies, r \in Copies : b.first = b.last => Leads(b, t1, r, TRUE)
  <2> SUFFICES ASSUME NEW b \in Bodies, NEW r \in Copies, b.first = b.last PROVE Leads(b, t1, r, TRUE)
    OBVIOUS
  <2>1. PICK w \in Bodies : w = Written(b, s1, r) /\ DomainSet(b, s1, r, w)
    BY <1>s, DomainWritten DEF DomainSteps
  <2>2. Good(w)
    BY <1>s, <2>1, GoodSimple, GoodSimple DEF DomainSet, SaidAndListed, NoEntry, Simple
  <2>3. Leads(w, <<>>, r, TRUE)
    BY <2>2, LeadsEnd
  <2>4. ~ NilDomain(b, s1)
    BY <1>s DEF NilDomain, SaidAndListed, NoEntry, Simple
  <2> QED
    BY <1>0, <1>s, <2>1, <2>3, <2>4, LeadsWrite DEF Conditions
<1>2. \A b \in Bodies, r \in Copies : b.first = b.last => Leads(b, t2, r, TRUE)
  <2> SUFFICES ASSUME NEW b \in Bodies, NEW r \in Copies, b.first = b.last PROVE Leads(b, t2, r, TRUE)
    OBVIOUS
  <2>1. PICK w \in Bodies : w = Written(b, s2, r) /\ FieldSet(b, s2, w)
    BY <1>s, FieldWritten DEF FieldSteps
  <2>2. Leads(w, t1, r, TRUE)
    BY <1>s, <2>1, <1>1 DEF FieldSet
  <2>4. ~ NilDomain(b, s2)
    BY <1>s DEF NilDomain
  <2> QED
    BY <1>0, <1>s, <2>1, <2>2, <2>4, LeadsWrite DEF Conditions
<1>3. \A b \in Bodies, r \in Copies : b.first = b.last => Leads(b, t3, r, TRUE)
  <2> SUFFICES ASSUME NEW b \in Bodies, NEW r \in Copies, b.first = b.last PROVE Leads(b, t3, r, TRUE)
    OBVIOUS
  <2>1. Leads(b, t2, r, TRUE)
    BY <1>2
  <2> QED
    BY <1>0, <1>s, <2>1, LeadsLook
<1>4. \A b \in Bodies, r \in Copies, h \in BOOLEAN : b.first = b.last => Leads(b, t4, r, h)
  <2> SUFFICES ASSUME NEW b \in Bodies, NEW r \in Copies, NEW h \in BOOLEAN, b.first = b.last PROVE Leads(b, t4, r, h)
    OBVIOUS
  <2>1. Leads(b, t3, r, TRUE)
    BY <1>3
  <2> QED
    BY <1>0, <1>s, <2>1, LeadsLook
<1> QED
  BY <1>4 DEF s1, s2, s3, s4, t1, t2, t3, t4

-----------------------------------------------------------------------------
(* Services that are up, or synchronized, at once.                         *)

\* NTP is synchronized before its last field is given.
LEMMA ClockLeads ==
  ASSUME NEW v \in Settings, feature \in {"ntp", "vxlan"}
  PROVE  \A b \in Bodies, r \in Copies, h \in BOOLEAN :
           SaidAndListed(b) => Leads(b, <<Ensure, InitThen("on", 0), InitThen("first", v), InitThen("up", TRUE), InitThen("last", v)>>, r, h)
<1> DEFINE s1 == InitThen("last", v)
           s2 == InitThen("up", TRUE)
           s3 == InitThen("first", v)
           s4 == InitThen("on", 0)
           s5 == Ensure
           t1 == <<s1>>
           t2 == <<s2, s1>>
           t3 == <<s3, s2, s1>>
           t4 == <<s4, s3, s2, s1>>
           t5 == <<s5, s4, s3, s2, s1>>
<1>0. /\ t1 # <<>> /\ t2 # <<>> /\ t3 # <<>> /\ t4 # <<>> /\ t5 # <<>>
      /\ Head(t1) = s1 /\ Head(t2) = s2 /\ Head(t3) = s3 /\ Head(t4) = s4 /\ Head(t5) = s5
      /\ Tail(t1) = <<>> /\ Tail(t2) = t1 /\ Tail(t3) = t2 /\ Tail(t4) = t3 /\ Tail(t5) = t4
  <2> HIDE DEF s1, s2, s3, s4, s5
  <2> QED
    OBVIOUS
<1>s. /\ s1 \in Steps /\ s1.via = "init" /\ s1.what = "last" /\ s1.arg = v
      /\ s2 \in Steps /\ s2.via = "init" /\ s2.what = "up" /\ s2.arg = TRUE
      /\ s3 \in Steps /\ s3.via = "init" /\ s3.what = "first" /\ s3.arg = v
      /\ s4 \in Steps /\ s4.via = "init" /\ s4.what = "on"
      /\ s5 \in Steps /\ s5.via = "init" /\ s5.what = "nothing"
  BY DEF InitThen, Ensure, Steps, StepsOf, OnEntry
<1> HIDE DEF s1, s2, s3, s4, s5, t1, t2, t3, t4, t5
<1>1. \A b \in Bodies, r \in Copies : b.first = v /\ b.on = TRUE /\ b.up = TRUE /\ SaidAndListed(b) => Leads(b, t1, r, TRUE)
  <2> SUFFICES ASSUME NEW b \in Bodies, NEW r \in Copies, b.first = v /\ b.on = TRUE /\ b.up = TRUE /\ SaidAndListed(b) PROVE Leads(b, t1, r, TRUE)
    OBVIOUS
  <2>1. PICK w \in Bodies : w = Written(b, s1, r) /\ FieldSet(b, s1, w)
    BY <1>s, FieldWritten DEF FieldSteps
  <2>2. Good(w)
    BY <1>s, <2>1, GoodTimed, FieldSaid DEF FieldSet
  <2>3. Leads(w, <<>>, r, TRUE)
    BY <2>2, LeadsEnd
  <2>4. ~ NilDomain(b, s1)
    BY <1>s DEF NilDomain
  <2> QED
    BY <1>0, <1>s, <2>1, <2>3, <2>4, LeadsWrite DEF Conditions
<1>2. \A b \in Bodies, r \in Copies : b.first = v /\ b.on = TRUE /\ SaidAndListed(b) => Leads(b, t2, r, TRUE)
  <2> SUFFICES ASSUME NEW b \in Bodies, NEW r \in Copies, b.first = v /\ b.on = TRUE /\ SaidAndListed(b) PROVE Leads(b, t2, r, TRUE)
    OBVIOUS
  <2>1. PICK w \in Bodies : w = Written(b, s2, r) /\ FieldSet(b, s2, w)
    BY <1>s, FieldWritten DEF FieldSteps
  <2>2. Leads(w, t1, r, TRUE)
    BY <1>s, <2>1, <1>1, FieldSaid DEF FieldSet
  <2>4. ~ NilDomain(b, s2)
    BY <1>s DEF NilDomain
  <2> QED
    BY <1>0, <1>s, <2>1, <2>2, <2>4, LeadsWrite DEF Conditions
<1>3. \A b \in Bodies, r \in Copies : b.on = TRUE /\ SaidAndListed(b) => Leads(b, t3, r, TRUE)
  <2> SUFFICES ASSUME NEW b \in Bodies, NEW r \in Copies, b.on = TRUE /\ SaidAndListed(b) PROVE Leads(b, t3, r, TRUE)
    OBVIOUS
  <2>1. PICK w \in Bodies : w = Written(b, s3, r) /\ FieldSet(b, s3, w)
    BY <1>s, FieldWritten DEF FieldSteps
  <2>2. Leads(w, t2, r, TRUE)
    BY <1>s, <2>1, <1>2, FieldSaid DEF FieldSet
  <2>4. ~ NilDomain(b, s3)
    BY <1>s DEF NilDomain
  <2> QED
    BY <1>0, <1>s, <2>1, <2>2, <2>4, LeadsWrite DEF Conditions
<1>4. \A b \in Bodies, r \in Copies : SaidAndListed(b) => Leads(b, t4, r, TRUE)
  <2> SUFFICES ASSUME NEW b \in Bodies, NEW r \in Copies, SaidAndListed(b) PROVE Leads(b, t4, r, TRUE)
    OBVIOUS
  <2>1. PICK w \in Bodies : w = Written(b, s4, r) /\ FieldSet(b, s4, w)
    BY <1>s, FieldWritten DEF FieldSteps
  <2>2. Leads(w, t3, r, TRUE)
    BY <1>s, <2>1, <1>3, FieldSaid, ZenonT(40) DEF FieldSet
  <2>4. ~ NilDomain(b, s4)
    BY <1>s DEF NilDomain
  <2> QED
    BY <1>0, <1>s, <2>1, <2>2, <2>4, LeadsWrite DEF Conditions
<1>5. \A b \in Bodies, r \in Copies, h \in BOOLEAN : SaidAndListed(b) => Leads(b, t5, r, h)
  <2> SUFFICES ASSUME NEW b \in Bodies, NEW r \in Copies, NEW h \in BOOLEAN, SaidAndListed(b) PROVE Leads(b, t5, r, h)
    OBVIOUS
  <2>1. Leads(b, t4, r, TRUE)
    BY <1>4
  <2> QED
    BY <1>0, <1>s, <2>1, LeadsLook
<1> QED
  BY <1>5 DEF s1, s2, s3, s4, s5, t1, t2, t3, t4, t5

\* VXLAN comes up last.
LEMMA TunnelLeads ==
  ASSUME NEW v \in Settings, feature \in {"ntp", "vxlan"}
  PROVE  \A b \in Bodies, r \in Copies, h \in BOOLEAN :
           SaidAndListed(b) => Leads(b, <<Ensure, InitThen("on", 0), InitThen("first", v), InitThen("last", v), InitThen("up", TRUE)>>, r, h)
<1> DEFINE s1 == InitThen("up", TRUE)
           s2 == InitThen("last", v)
           s3 == InitThen("first", v)
           s4 == InitThen("on", 0)
           s5 == Ensure
           t1 == <<s1>>
           t2 == <<s2, s1>>
           t3 == <<s3, s2, s1>>
           t4 == <<s4, s3, s2, s1>>
           t5 == <<s5, s4, s3, s2, s1>>
<1>0. /\ t1 # <<>> /\ t2 # <<>> /\ t3 # <<>> /\ t4 # <<>> /\ t5 # <<>>
      /\ Head(t1) = s1 /\ Head(t2) = s2 /\ Head(t3) = s3 /\ Head(t4) = s4 /\ Head(t5) = s5
      /\ Tail(t1) = <<>> /\ Tail(t2) = t1 /\ Tail(t3) = t2 /\ Tail(t4) = t3 /\ Tail(t5) = t4
  <2> HIDE DEF s1, s2, s3, s4, s5
  <2> QED
    OBVIOUS
<1>s. /\ s1 \in Steps /\ s1.via = "init" /\ s1.what = "up" /\ s1.arg = TRUE
      /\ s2 \in Steps /\ s2.via = "init" /\ s2.what = "last" /\ s2.arg = v
      /\ s3 \in Steps /\ s3.via = "init" /\ s3.what = "first" /\ s3.arg = v
      /\ s4 \in Steps /\ s4.via = "init" /\ s4.what = "on"
      /\ s5 \in Steps /\ s5.via = "init" /\ s5.what = "nothing"
  BY DEF InitThen, Ensure, Steps, StepsOf, OnEntry
<1> HIDE DEF s1, s2, s3, s4, s5, t1, t2, t3, t4, t5
<1>1. \A b \in Bodies, r \in Copies : b.first = b.last /\ b.on = TRUE /\ SaidAndListed(b) => Leads(b, t1, r, TRUE)
  <2> SUFFICES ASSUME NEW b \in Bodies, NEW r \in Copies, b.first = b.last /\ b.on = TRUE /\ SaidAndListed(b) PROVE Leads(b, t1, r, TRUE)
    OBVIOUS
  <2>1. PICK w \in Bodies : w = Written(b, s1, r) /\ FieldSet(b, s1, w)
    BY <1>s, FieldWritten DEF FieldSteps
  <2>2. Good(w)
    BY <1>s, <2>1, GoodTimed, FieldSaid DEF FieldSet
  <2>3. Leads(w, <<>>, r, TRUE)
    BY <2>2, LeadsEnd
  <2>4. ~ NilDomain(b, s1)
    BY <1>s DEF NilDomain
  <2> QED
    BY <1>0, <1>s, <2>1, <2>3, <2>4, LeadsWrite DEF Conditions
<1>2. \A b \in Bodies, r \in Copies : b.first = v /\ b.on = TRUE /\ SaidAndListed(b) => Leads(b, t2, r, TRUE)
  <2> SUFFICES ASSUME NEW b \in Bodies, NEW r \in Copies, b.first = v /\ b.on = TRUE /\ SaidAndListed(b) PROVE Leads(b, t2, r, TRUE)
    OBVIOUS
  <2>1. PICK w \in Bodies : w = Written(b, s2, r) /\ FieldSet(b, s2, w)
    BY <1>s, FieldWritten DEF FieldSteps
  <2>2. Leads(w, t1, r, TRUE)
    BY <1>s, <2>1, <1>1, FieldSaid DEF FieldSet
  <2>4. ~ NilDomain(b, s2)
    BY <1>s DEF NilDomain
  <2> QED
    BY <1>0, <1>s, <2>1, <2>2, <2>4, LeadsWrite DEF Conditions
<1>3. \A b \in Bodies, r \in Copies : b.on = TRUE /\ SaidAndListed(b) => Leads(b, t3, r, TRUE)
  <2> SUFFICES ASSUME NEW b \in Bodies, NEW r \in Copies, b.on = TRUE /\ SaidAndListed(b) PROVE Leads(b, t3, r, TRUE)
    OBVIOUS
  <2>1. PICK w \in Bodies : w = Written(b, s3, r) /\ FieldSet(b, s3, w)
    BY <1>s, FieldWritten DEF FieldSteps
  <2>2. Leads(w, t2, r, TRUE)
    BY <1>s, <2>1, <1>2, FieldSaid DEF FieldSet
  <2>4. ~ NilDomain(b, s3)
    BY <1>s DEF NilDomain
  <2> QED
    BY <1>0, <1>s, <2>1, <2>2, <2>4, LeadsWrite DEF Conditions
<1>4. \A b \in Bodies, r \in Copies : SaidAndListed(b) => Leads(b, t4, r, TRUE)
  <2> SUFFICES ASSUME NEW b \in Bodies, NEW r \in Copies, SaidAndListed(b) PROVE Leads(b, t4, r, TRUE)
    OBVIOUS
  <2>1. PICK w \in Bodies : w = Written(b, s4, r) /\ FieldSet(b, s4, w)
    BY <1>s, FieldWritten DEF FieldSteps
  <2>2. Leads(w, t3, r, TRUE)
    BY <1>s, <2>1, <1>3, FieldSaid, ZenonT(40) DEF FieldSet
  <2>4. ~ NilDomain(b, s4)
    BY <1>s DEF NilDomain
  <2> QED
    BY <1>0, <1>s, <2>1, <2>2, <2>4, LeadsWrite DEF Conditions
<1>5. \A b \in Bodies, r \in Copies, h \in BOOLEAN : SaidAndListed(b) => Leads(b, t5, r, h)
  <2> SUFFICES ASSUME NEW b \in Bodies, NEW r \in Copies, NEW h \in BOOLEAN, SaidAndListed(b) PROVE Leads(b, t5, r, h)
    OBVIOUS
  <2>1. Leads(b, t4, r, TRUE)
    BY <1>4
  <2> QED
    BY <1>0, <1>s, <2>1, LeadsLook
<1> QED
  BY <1>5 DEF s1, s2, s3, s4, s5, t1, t2, t3, t4, t5

\* Disabled, and then down.
LEMMA DownLeads ==
  ASSUME feature \in {"ntp", "vxlan"}
  PROVE  \A b \in Bodies, r \in Copies, h \in BOOLEAN :
           b.first = b.last /\ SaidAndListed(b) => Leads(b, <<Look, HeldThen("off", 0), HeldThen("up", FALSE)>>, r, h)
<1> DEFINE s1 == HeldThen("up", FALSE)
           s2 == HeldThen("off", 0)
           s3 == Look
           t1 == <<s1>>
           t2 == <<s2, s1>>
           t3 == <<s3, s2, s1>>
<1>0. /\ t1 # <<>> /\ t2 # <<>> /\ t3 # <<>>
      /\ Head(t1) = s1 /\ Head(t2) = s2 /\ Head(t3) = s3
      /\ Tail(t1) = <<>> /\ Tail(t2) = t1 /\ Tail(t3) = t2
  <2> HIDE DEF s1, s2, s3
  <2> QED
    OBVIOUS
<1>s. /\ s1 \in Steps /\ s1.via = "held" /\ s1.what = "up" /\ s1.arg = FALSE
      /\ s2 \in Steps /\ s2.via = "held" /\ s2.what = "off"
      /\ s3 \in Steps /\ s3.via = "get" /\ s3.what = "nothing"
  BY DEF GetThen, HeldThen, Look, Steps, StepsOf, OnEntry
<1> HIDE DEF s1, s2, s3, t1, t2, t3
<1>1. \A b \in Bodies, r \in Copies : b.first = b.last /\ b.on = FALSE /\ SaidAndListed(b) => Leads(b, t1, r, TRUE)
  <2> SUFFICES ASSUME NEW b \in Bodies, NEW r \in Copies, b.first = b.last /\ b.on = FALSE /\ SaidAndListed(b) PROVE Leads(b, t1, r, TRUE)
    OBVIOUS
  <2>1. PICK w \in Bodies : w = Written(b, s1, r) /\ FieldSet(b, s1, w)
    BY <1>s, FieldWritten DEF FieldSteps
  <2>2. Good(w)
    BY <1>s, <2>1, GoodTimed, FieldSaid DEF FieldSet
  <2>3. Leads(w, <<>>, r, TRUE)
    BY <2>2, LeadsEnd
  <2>4. ~ NilDomain(b, s1)
    BY <1>s DEF NilDomain
  <2> QED
    BY <1>0, <1>s, <2>1, <2>3, <2>4, LeadsWrite DEF Conditions
<1>2. \A b \in Bodies, r \in Copies : b.first = b.last /\ SaidAndListed(b) => Leads(b, t2, r, TRUE)
  <2> SUFFICES ASSUME NEW b \in Bodies, NEW r \in Copies, b.first = b.last /\ SaidAndListed(b) PROVE Leads(b, t2, r, TRUE)
    OBVIOUS
  <2>1. PICK w \in Bodies : w = Written(b, s2, r) /\ FieldSet(b, s2, w)
    BY <1>s, FieldWritten DEF FieldSteps
  <2>2. Leads(w, t1, r, TRUE)
    BY <1>s, <2>1, <1>1, FieldSaid DEF FieldSet
  <2>4. ~ NilDomain(b, s2)
    BY <1>s DEF NilDomain
  <2> QED
    BY <1>0, <1>s, <2>1, <2>2, <2>4, LeadsWrite DEF Conditions
<1>3. \A b \in Bodies, r \in Copies, h \in BOOLEAN : b.first = b.last /\ SaidAndListed(b) => Leads(b, t3, r, h)
  <2> SUFFICES ASSUME NEW b \in Bodies, NEW r \in Copies, NEW h \in BOOLEAN, b.first = b.last /\ SaidAndListed(b) PROVE Leads(b, t3, r, h)
    OBVIOUS
  <2>1. Leads(b, t2, r, TRUE)
    BY <1>2
  <2> QED
    BY <1>0, <1>s, <2>1, LeadsLook
<1> QED
  BY <1>3 DEF s1, s2, s3, t1, t2, t3

-----------------------------------------------------------------------------
(* Groups and tunnels.                                                     *)

\* A group given.
LEMMA GroupLeads ==
  ASSUME NEW e \in Entries, NEW high \in BOOLEAN, feature \in {"vrrp", "ipsec"}
  PROVE  \A b \in Bodies, r \in Copies, h \in BOOLEAN :
           b.first = b.last /\ SaidAndListed(b) => Leads(b, <<Ensure, InitThen("on", 0), InitThen("master", [e |-> e, high |-> high])>>, r, h)
<1> DEFINE s1 == InitThen("master", [e |-> e, high |-> high])
           s2 == InitThen("on", 0)
           s3 == Ensure
           t1 == <<s1>>
           t2 == <<s2, s1>>
           t3 == <<s3, s2, s1>>
<1>0. /\ t1 # <<>> /\ t2 # <<>> /\ t3 # <<>>
      /\ Head(t1) = s1 /\ Head(t2) = s2 /\ Head(t3) = s3
      /\ Tail(t1) = <<>> /\ Tail(t2) = t1 /\ Tail(t3) = t2
  <2> HIDE DEF s1, s2, s3
  <2> QED
    OBVIOUS
<1>s. /\ s1 \in Steps /\ s1.via = "init" /\ s1.what = "master" /\ s1.arg = [e |-> e, high |-> high]
      /\ s2 \in Steps /\ s2.via = "init" /\ s2.what = "on"
      /\ s3 \in Steps /\ s3.via = "init" /\ s3.what = "nothing"
  BY DEF InitThen, Ensure, Steps, StepsOf, OnEntry
<1> HIDE DEF s1, s2, s3, t1, t2, t3
<1>1. \A b \in Bodies, r \in Copies : b.first = b.last /\ b.on = TRUE /\ SaidAndListed(b) => Leads(b, t1, r, TRUE)
  <2> SUFFICES ASSUME NEW b \in Bodies, NEW r \in Copies, b.first = b.last /\ b.on = TRUE /\ SaidAndListed(b) PROVE Leads(b, t1, r, TRUE)
    OBVIOUS
  <2>1. PICK w \in Bodies : w = Written(b, s1, r) /\ EntrySet(b, s1, r, w)
    BY <1>s, EntryWritten DEF EntrySteps
  <2>2. Good(w)
    BY <1>s, <2>1, GoodGroups, EntrySaid, EntryThere, EntryRest
  <2>3. Leads(w, <<>>, r, TRUE)
    BY <2>2, LeadsEnd
  <2>4. ~ NilDomain(b, s1)
    BY <1>s DEF NilDomain
  <2> QED
    BY <1>0, <1>s, <2>1, <2>3, <2>4, LeadsWrite DEF Conditions
<1>2. \A b \in Bodies, r \in Copies : b.first = b.last /\ SaidAndListed(b) => Leads(b, t2, r, TRUE)
  <2> SUFFICES ASSUME NEW b \in Bodies, NEW r \in Copies, b.first = b.last /\ SaidAndListed(b) PROVE Leads(b, t2, r, TRUE)
    OBVIOUS
  <2>1. PICK w \in Bodies : w = Written(b, s2, r) /\ FieldSet(b, s2, w)
    BY <1>s, FieldWritten DEF FieldSteps
  <2>2. Leads(w, t1, r, TRUE)
    BY <1>s, <2>1, <1>1, FieldSaid DEF FieldSet
  <2>4. ~ NilDomain(b, s2)
    BY <1>s DEF NilDomain
  <2> QED
    BY <1>0, <1>s, <2>1, <2>2, <2>4, LeadsWrite DEF Conditions
<1>3. \A b \in Bodies, r \in Copies, h \in BOOLEAN : b.first = b.last /\ SaidAndListed(b) => Leads(b, t3, r, h)
  <2> SUFFICES ASSUME NEW b \in Bodies, NEW r \in Copies, NEW h \in BOOLEAN, b.first = b.last /\ SaidAndListed(b) PROVE Leads(b, t3, r, h)
    OBVIOUS
  <2>1. Leads(b, t2, r, TRUE)
    BY <1>2
  <2> QED
    BY <1>0, <1>s, <2>1, LeadsLook
<1> QED
  BY <1>3 DEF s1, s2, s3, t1, t2, t3

\* A tunnel given.
LEMMA IPsecLeads ==
  ASSUME NEW e \in Entries, feature \in {"vrrp", "ipsec"}
  PROVE  \A b \in Bodies, r \in Copies, h \in BOOLEAN :
           b.first = b.last /\ SaidAndListed(b) => Leads(b, <<Ensure, InitThen("on", 0), InitThen("insert", e)>>, r, h)
<1> DEFINE s1 == InitThen("insert", e)
           s2 == InitThen("on", 0)
           s3 == Ensure
           t1 == <<s1>>
           t2 == <<s2, s1>>
           t3 == <<s3, s2, s1>>
<1>0. /\ t1 # <<>> /\ t2 # <<>> /\ t3 # <<>>
      /\ Head(t1) = s1 /\ Head(t2) = s2 /\ Head(t3) = s3
      /\ Tail(t1) = <<>> /\ Tail(t2) = t1 /\ Tail(t3) = t2
  <2> HIDE DEF s1, s2, s3
  <2> QED
    OBVIOUS
<1>s. /\ s1 \in Steps /\ s1.via = "init" /\ s1.what = "insert" /\ s1.arg = e
      /\ s2 \in Steps /\ s2.via = "init" /\ s2.what = "on"
      /\ s3 \in Steps /\ s3.via = "init" /\ s3.what = "nothing"
  BY DEF InitThen, Ensure, Steps, StepsOf, OnEntry
<1> HIDE DEF s1, s2, s3, t1, t2, t3
<1>1. \A b \in Bodies, r \in Copies : b.first = b.last /\ b.on = TRUE /\ SaidAndListed(b) => Leads(b, t1, r, TRUE)
  <2> SUFFICES ASSUME NEW b \in Bodies, NEW r \in Copies, b.first = b.last /\ b.on = TRUE /\ SaidAndListed(b) PROVE Leads(b, t1, r, TRUE)
    OBVIOUS
  <2>1. PICK w \in Bodies : w = Written(b, s1, r) /\ EntrySet(b, s1, r, w)
    BY <1>s, EntryWritten DEF EntrySteps
  <2>2. Good(w)
    BY <1>s, <2>1, GoodGroups, EntrySaid, EntryThere, EntryRest
  <2>3. Leads(w, <<>>, r, TRUE)
    BY <2>2, LeadsEnd
  <2>4. ~ NilDomain(b, s1)
    BY <1>s DEF NilDomain
  <2> QED
    BY <1>0, <1>s, <2>1, <2>3, <2>4, LeadsWrite DEF Conditions
<1>2. \A b \in Bodies, r \in Copies : b.first = b.last /\ SaidAndListed(b) => Leads(b, t2, r, TRUE)
  <2> SUFFICES ASSUME NEW b \in Bodies, NEW r \in Copies, b.first = b.last /\ SaidAndListed(b) PROVE Leads(b, t2, r, TRUE)
    OBVIOUS
  <2>1. PICK w \in Bodies : w = Written(b, s2, r) /\ FieldSet(b, s2, w)
    BY <1>s, FieldWritten DEF FieldSteps
  <2>2. Leads(w, t1, r, TRUE)
    BY <1>s, <2>1, <1>1, FieldSaid DEF FieldSet
  <2>4. ~ NilDomain(b, s2)
    BY <1>s DEF NilDomain
  <2> QED
    BY <1>0, <1>s, <2>1, <2>2, <2>4, LeadsWrite DEF Conditions
<1>3. \A b \in Bodies, r \in Copies, h \in BOOLEAN : b.first = b.last /\ SaidAndListed(b) => Leads(b, t3, r, h)
  <2> SUFFICES ASSUME NEW b \in Bodies, NEW r \in Copies, NEW h \in BOOLEAN, b.first = b.last /\ SaidAndListed(b) PROVE Leads(b, t3, r, h)
    OBVIOUS
  <2>1. Leads(b, t2, r, TRUE)
    BY <1>2
  <2> QED
    BY <1>0, <1>s, <2>1, LeadsLook
<1> QED
  BY <1>3 DEF s1, s2, s3, t1, t2, t3

\* One taken out, and the feature disabled with the last.
LEMMA TakeOutLeads ==
  ASSUME NEW e \in Entries, feature \in {"vrrp", "ipsec"}
  PROVE  \A b \in Bodies, r \in Copies, h \in BOOLEAN :
           b.first = b.last /\ (There(b) # {} => b.on = TRUE) /\ SaidAndListed(b) => Leads(b, <<Look, HeldThen("delete", e), HeldThen("ifEmpty", 0), HeldThen("off", 0)>>, r, h)
<1> DEFINE s1 == HeldThen("off", 0)
           s2 == HeldThen("ifEmpty", 0)
           s3 == HeldThen("delete", e)
           s4 == Look
           t1 == <<s1>>
           t2 == <<s2, s1>>
           t3 == <<s3, s2, s1>>
           t4 == <<s4, s3, s2, s1>>
<1>0. /\ t1 # <<>> /\ t2 # <<>> /\ t3 # <<>> /\ t4 # <<>>
      /\ Head(t1) = s1 /\ Head(t2) = s2 /\ Head(t3) = s3 /\ Head(t4) = s4
      /\ Tail(t1) = <<>> /\ Tail(t2) = t1 /\ Tail(t3) = t2 /\ Tail(t4) = t3
  <2> HIDE DEF s1, s2, s3, s4
  <2> QED
    OBVIOUS
<1>s. /\ s1 \in Steps /\ s1.via = "held" /\ s1.what = "off"
      /\ s2 \in Steps /\ s2.via = "held" /\ s2.what = "ifEmpty"
      /\ s3 \in Steps /\ s3.via = "held" /\ s3.what = "delete" /\ s3.arg = e
      /\ s4 \in Steps /\ s4.via = "get" /\ s4.what = "nothing"
  BY DEF GetThen, HeldThen, Look, Steps, StepsOf, OnEntry
<1> HIDE DEF s1, s2, s3, s4, t1, t2, t3, t4
<1>1. \A b \in Bodies, r \in Copies : b.first = b.last /\ There(b) = {} /\ SaidAndListed(b) => Leads(b, t1, r, TRUE)
  <2> SUFFICES ASSUME NEW b \in Bodies, NEW r \in Copies, b.first = b.last /\ There(b) = {} /\ SaidAndListed(b) PROVE Leads(b, t1, r, TRUE)
    OBVIOUS
  <2>1. PICK w \in Bodies : w = Written(b, s1, r) /\ FieldSet(b, s1, w)
    BY <1>s, FieldWritten DEF FieldSteps
  <2>2. Good(w)
    BY <1>s, <2>1, GoodGroups, FieldSaid DEF FieldSet, There
  <2>3. Leads(w, <<>>, r, TRUE)
    BY <2>2, LeadsEnd
  <2>4. ~ NilDomain(b, s1)
    BY <1>s DEF NilDomain, There
  <2> QED
    BY <1>0, <1>s, <2>1, <2>3, <2>4, LeadsWrite DEF Conditions
<1>2. \A b \in Bodies, r \in Copies : b.first = b.last /\ (There(b) # {} => b.on = TRUE) /\ SaidAndListed(b) => Leads(b, t2, r, TRUE)
  <2> SUFFICES ASSUME NEW b \in Bodies, NEW r \in Copies, b.first = b.last /\ (There(b) # {} => b.on = TRUE) /\ SaidAndListed(b) PROVE Leads(b, t2, r, TRUE)
    OBVIOUS
  <2>1. ~ GoesOn(b, s2) => Good(b)
    BY <1>s, GoodGroups DEF GoesOn
  <2>2. GoesOn(b, s2) => Leads(b, t1, r, TRUE)
    BY <1>s, <1>1 DEF GoesOn
  <2> QED
    BY <1>0, <1>s, <2>1, <2>2, LeadsIf DEF Conditions
<1>3. \A b \in Bodies, r \in Copies : b.first = b.last /\ (There(b) # {} => b.on = TRUE) /\ SaidAndListed(b) => Leads(b, t3, r, TRUE)
  <2> SUFFICES ASSUME NEW b \in Bodies, NEW r \in Copies, b.first = b.last /\ (There(b) # {} => b.on = TRUE) /\ SaidAndListed(b) PROVE Leads(b, t3, r, TRUE)
    OBVIOUS
  <2>1. PICK w \in Bodies : w = Written(b, s3, r) /\ EntrySet(b, s3, r, w)
    BY <1>s, EntryWritten DEF EntrySteps
  <2>2. Leads(w, t2, r, TRUE)
    BY <1>s, <2>1, <1>2, EntrySaid, EntryThere, EntryRest
  <2>4. ~ NilDomain(b, s3)
    BY <1>s DEF NilDomain
  <2> QED
    BY <1>0, <1>s, <2>1, <2>2, <2>4, LeadsWrite DEF Conditions
<1>4. \A b \in Bodies, r \in Copies, h \in BOOLEAN : b.first = b.last /\ (There(b) # {} => b.on = TRUE) /\ SaidAndListed(b) => Leads(b, t4, r, h)
  <2> SUFFICES ASSUME NEW b \in Bodies, NEW r \in Copies, NEW h \in BOOLEAN, b.first = b.last /\ (There(b) # {} => b.on = TRUE) /\ SaidAndListed(b) PROVE Leads(b, t4, r, h)
    OBVIOUS
  <2>1. Leads(b, t3, r, TRUE)
    BY <1>3
  <2> QED
    BY <1>0, <1>s, <2>1, LeadsLook
<1> QED
  BY <1>4 DEF s1, s2, s3, s4, t1, t2, t3, t4

\* A router whose entry e may be said to be what it is not.
AllBut(b, e) ==
  /\ b.first = b.last /\ (b.on <=> There(b) # {}) /\ b.list = b.told
  /\ \A x \in Entries : x # e /\ b.entry[x].master => b.entry[x].says

\* The role changed, ...
LEMMA FlipBut ==
  ASSUME NEW e \in Entries, NEW b \in Bodies, NEW s, NEW r, NEW w \in Bodies, EntrySet(b, s, r, w),
         s.what = "flip", s.arg = e, b.first = b.last, b.on <=> There(b) # {}, SaidAndListed(b)
  PROVE  AllBut(w, e)
<1>1. There(w) = There(b) /\ w.on = b.on /\ w.first = b.first /\ w.last = b.last /\ w.list = b.list /\ w.told = b.told
  BY EntryThere, EntryRest
<1>2. \A x \in Entries : x # e => w.entry[x] = b.entry[x]
  BY DEF EntrySet
<1>3. b.list = b.told /\ \A x \in Entries : b.entry[x].master => b.entry[x].says
  BY DEF SaidAndListed
<1>4. \A x \in Entries : x # e /\ w.entry[x].master => w.entry[x].says
  BY <1>2, <1>3
<1> QED
  BY <1>1, <1>3, <1>4 DEF AllBut

\* ... and said.
LEMMA SaysMade ==
  ASSUME NEW e \in Entries, NEW b \in Bodies, NEW s, NEW r, NEW w \in Bodies, EntrySet(b, s, r, w),
         s.what = "says", s.arg = e, AllBut(b, e), r.master = b.entry[e].master
  PROVE  w.first = w.last /\ (w.on <=> There(w) # {}) /\ SaidAndListed(w)
<1>1. There(w) = There(b) /\ w.on = b.on /\ w.first = b.first /\ w.last = b.last /\ w.list = b.list /\ w.told = b.told
  BY EntryThere, EntryRest
<1>2. /\ \A x \in Entries : x # e => w.entry[x] = b.entry[x]
      /\ w.entry[e].says = r.master /\ w.entry[e].master = b.entry[e].master
  BY DEF EntrySet
<1>3. /\ b.first = b.last /\ (b.on <=> There(b) # {}) /\ b.list = b.told
      /\ \A x \in Entries : x # e /\ b.entry[x].master => b.entry[x].says
  BY DEF AllBut
<1>4. ASSUME NEW x \in Entries, w.entry[x].master PROVE w.entry[x].says
  <2>1. CASE x = e
    BY <1>2, <1>4, <2>1
  <2>2. CASE x # e
    BY <1>2, <1>3, <1>4, <2>2
  <2> QED
    BY <2>1, <2>2
<1> QED
  BY <1>1, <1>3, <1>4 DEF SaidAndListed

\* A group that changes its role and says so afterwards.
LEMMA FailoverLeads ==
  ASSUME NEW e \in Entries, feature \in {"vrrp", "ipsec"}, calls \in 1..MaxCalls
  PROVE  \A b \in Bodies, r \in Copies, h \in BOOLEAN :
           Good(b) => Leads(b, <<Look, HeldThen("ifOn", 0), HeldThen("ifThere", e), HeldThen("flip", e), HeldThen("peek", e), HeldThen("says", e)>>, r, h)
<1> DEFINE s1 == HeldThen("says", e)
           s2 == HeldThen("peek", e)
           s3 == HeldThen("flip", e)
           s4 == HeldThen("ifThere", e)
           s5 == HeldThen("ifOn", 0)
           s6 == Look
           t1 == <<s1>>
           t2 == <<s2, s1>>
           t3 == <<s3, s2, s1>>
           t4 == <<s4, s3, s2, s1>>
           t5 == <<s5, s4, s3, s2, s1>>
           t6 == <<s6, s5, s4, s3, s2, s1>>
<1>0. /\ t1 # <<>> /\ t2 # <<>> /\ t3 # <<>> /\ t4 # <<>> /\ t5 # <<>> /\ t6 # <<>>
      /\ Head(t1) = s1 /\ Head(t2) = s2 /\ Head(t3) = s3 /\ Head(t4) = s4 /\ Head(t5) = s5 /\ Head(t6) = s6
      /\ Tail(t1) = <<>> /\ Tail(t2) = t1 /\ Tail(t3) = t2 /\ Tail(t4) = t3 /\ Tail(t5) = t4 /\ Tail(t6) = t5
  <2> HIDE DEF s1, s2, s3, s4, s5, s6
  <2> QED
    OBVIOUS
<1>s. /\ s1 \in Steps /\ s1.via = "held" /\ s1.what = "says" /\ s1.arg = e
      /\ s2 \in Steps /\ s2.via = "held" /\ s2.what = "peek" /\ s2.arg = e
      /\ s3 \in Steps /\ s3.via = "held" /\ s3.what = "flip" /\ s3.arg = e
      /\ s4 \in Steps /\ s4.via = "held" /\ s4.what = "ifThere" /\ s4.arg = e
      /\ s5 \in Steps /\ s5.via = "held" /\ s5.what = "ifOn"
      /\ s6 \in Steps /\ s6.via = "get" /\ s6.what = "nothing"
  BY DEF GetThen, HeldThen, Look, Steps, StepsOf, OnEntry
<1> HIDE DEF s1, s2, s3, s4, s5, s6, t1, t2, t3, t4, t5, t6
<1>1. \A b \in Bodies, r \in Copies : AllBut(b, e) /\ r.master = b.entry[e].master => Leads(b, t1, r, TRUE)
  <2> SUFFICES ASSUME NEW b \in Bodies, NEW r \in Copies, AllBut(b, e) /\ r.master = b.entry[e].master PROVE Leads(b, t1, r, TRUE)
    OBVIOUS
  <2>1. PICK w \in Bodies : w = Written(b, s1, r) /\ EntrySet(b, s1, r, w)
    BY <1>s, EntryWritten DEF EntrySteps
  <2>2. Good(w)
    BY <1>s, <2>1, GoodGroups, SaysMade, EntryRest
  <2>3. Leads(w, <<>>, r, TRUE)
    BY <2>2, LeadsEnd
  <2>4. ~ NilDomain(b, s1)
    BY <1>s DEF NilDomain
  <2> QED
    BY <1>0, <1>s, <2>1, <2>3, <2>4, LeadsWrite DEF Conditions
<1>2. \A b \in Bodies, r \in Copies : AllBut(b, e) => Leads(b, t2, r, TRUE)
  <2> SUFFICES ASSUME NEW b \in Bodies, NEW r \in Copies, AllBut(b, e) PROVE Leads(b, t2, r, TRUE)
    OBVIOUS
  <2>1. PICK v \in Copies : v = Reads(b, s2, r)
    BY <1>s, StepTyped
  <2>2. v.master = b.entry[e].master
    BY <1>s, <2>1 DEF Reads, NoCopy
  <2>3. Leads(b, t1, v, TRUE)
    BY <2>2, <1>1
  <2> QED
    BY <1>0, <1>s, <2>1, <2>3, LeadsRead
<1>3. \A b \in Bodies, r \in Copies : Good(b) => Leads(b, t3, r, TRUE)
  <2> SUFFICES ASSUME NEW b \in Bodies, NEW r \in Copies, Good(b) PROVE Leads(b, t3, r, TRUE)
    OBVIOUS
  <2>1. PICK w \in Bodies : w = Written(b, s3, r) /\ EntrySet(b, s3, r, w)
    BY <1>s, EntryWritten DEF EntrySteps
  <2>2. Leads(w, t2, r, TRUE)
    BY <1>s, <2>1, <1>2, FlipBut, GoodGroups, EntryRest
  <2>4. ~ NilDomain(b, s3)
    BY <1>s DEF NilDomain
  <2> QED
    BY <1>0, <1>s, <2>1, <2>2, <2>4, LeadsWrite DEF Conditions
<1>4. \A b \in Bodies, r \in Copies : Good(b) => Leads(b, t4, r, TRUE)
  <2> SUFFICES ASSUME NEW b \in Bodies, NEW r \in Copies, Good(b) PROVE Leads(b, t4, r, TRUE)
    OBVIOUS
  <2>1. ~ GoesOn(b, s4) => Good(b)
    BY <1>s, GoodGroups DEF GoesOn
  <2>2. GoesOn(b, s4) => Leads(b, t3, r, TRUE)
    BY <1>s, <1>3 DEF GoesOn
  <2> QED
    BY <1>0, <1>s, <2>1, <2>2, LeadsIf DEF Conditions
<1>5. \A b \in Bodies, r \in Copies : Good(b) => Leads(b, t5, r, TRUE)
  <2> SUFFICES ASSUME NEW b \in Bodies, NEW r \in Copies, Good(b) PROVE Leads(b, t5, r, TRUE)
    OBVIOUS
  <2>1. ~ GoesOn(b, s5) => Good(b)
    BY <1>s, GoodGroups DEF GoesOn
  <2>2. GoesOn(b, s5) => Leads(b, t4, r, TRUE)
    BY <1>s, <1>4 DEF GoesOn
  <2> QED
    BY <1>0, <1>s, <2>1, <2>2, LeadsIf DEF Conditions
<1>6. \A b \in Bodies, r \in Copies, h \in BOOLEAN : Good(b) => Leads(b, t6, r, h)
  <2> SUFFICES ASSUME NEW b \in Bodies, NEW r \in Copies, NEW h \in BOOLEAN, Good(b) PROVE Leads(b, t6, r, h)
    OBVIOUS
  <2>1. Leads(b, t5, r, TRUE)
    BY <1>5
  <2> QED
    BY <1>0, <1>s, <2>1, LeadsLook
<1> QED
  BY <1>6 DEF s1, s2, s3, s4, s5, s6, t1, t2, t3, t4, t5, t6

-----------------------------------------------------------------------------
(* M-LAG.                                                                  *)

\* A domain made.
LEMMA StartLeads ==
  ASSUME feature = "mlag", calls \in 1..MaxCalls
  PROVE  \A b \in Bodies, r \in Copies, h \in BOOLEAN :
           b.first = b.last => Leads(b, <<Ensure, InitThen("on", 0), InitThen("domain", 0)>>, r, h)
<1> DEFINE s1 == InitThen("domain", 0)
           s2 == InitThen("on", 0)
           s3 == Ensure
           t1 == <<s1>>
           t2 == <<s2, s1>>
           t3 == <<s3, s2, s1>>
<1>0. /\ t1 # <<>> /\ t2 # <<>> /\ t3 # <<>>
      /\ Head(t1) = s1 /\ Head(t2) = s2 /\ Head(t3) = s3
      /\ Tail(t1) = <<>> /\ Tail(t2) = t1 /\ Tail(t3) = t2
  <2> HIDE DEF s1, s2, s3
  <2> QED
    OBVIOUS
<1>s. /\ s1 \in Steps /\ s1.via = "init" /\ s1.what = "domain"
      /\ s2 \in Steps /\ s2.via = "init" /\ s2.what = "on"
      /\ s3 \in Steps /\ s3.via = "init" /\ s3.what = "nothing"
  BY DEF InitThen, Ensure, Steps, StepsOf, OnEntry
<1> HIDE DEF s1, s2, s3, t1, t2, t3
<1>1. \A b \in Bodies, r \in Copies : b.first = b.last /\ b.on = TRUE => Leads(b, t1, r, TRUE)
  <2> SUFFICES ASSUME NEW b \in Bodies, NEW r \in Copies, b.first = b.last /\ b.on = TRUE PROVE Leads(b, t1, r, TRUE)
    OBVIOUS
  <2>1. PICK w \in Bodies : w = Written(b, s1, r) /\ DomainSet(b, s1, r, w)
    BY <1>s, DomainWritten DEF DomainSteps
  <2>2. Good(w)
    BY <1>s, <2>1, GoodDomain, DomainSaid DEF DomainSet
  <2>3. Leads(w, <<>>, r, TRUE)
    BY <2>2, LeadsEnd
  <2>4. ~ NilDomain(b, s1)
    BY <1>s DEF NilDomain
  <2> QED
    BY <1>0, <1>s, <2>1, <2>3, <2>4, LeadsWrite DEF Conditions
<1>2. \A b \in Bodies, r \in Copies : b.first = b.last => Leads(b, t2, r, TRUE)
  <2> SUFFICES ASSUME NEW b \in Bodies, NEW r \in Copies, b.first = b.last PROVE Leads(b, t2, r, TRUE)
    OBVIOUS
  <2>1. PICK w \in Bodies : w = Written(b, s2, r) /\ FieldSet(b, s2, w)
    BY <1>s, FieldWritten DEF FieldSteps
  <2>2. Leads(w, t1, r, TRUE)
    BY <1>s, <2>1, <1>1 DEF FieldSet
  <2>4. ~ NilDomain(b, s2)
    BY <1>s DEF NilDomain
  <2> QED
    BY <1>0, <1>s, <2>1, <2>2, <2>4, LeadsWrite DEF Conditions
<1>3. \A b \in Bodies, r \in Copies, h \in BOOLEAN : b.first = b.last => Leads(b, t3, r, h)
  <2> SUFFICES ASSUME NEW b \in Bodies, NEW r \in Copies, NEW h \in BOOLEAN, b.first = b.last PROVE Leads(b, t3, r, h)
    OBVIOUS
  <2>1. Leads(b, t2, r, TRUE)
    BY <1>2
  <2> QED
    BY <1>0, <1>s, <2>1, LeadsLook
<1> QED
  BY <1>3 DEF s1, s2, s3, t1, t2, t3

\* A domain taken away.
LEMMA StopLeads ==
  ASSUME feature = "mlag", calls \in 1..MaxCalls
  PROVE  \A b \in Bodies, r \in Copies, h \in BOOLEAN :
           b.first = b.last /\ b.list = b.told => Leads(b, <<Look, HeldThen("off", 0), HeldThen("nil", 0)>>, r, h)
<1> DEFINE s1 == HeldThen("nil", 0)
           s2 == HeldThen("off", 0)
           s3 == Look
           t1 == <<s1>>
           t2 == <<s2, s1>>
           t3 == <<s3, s2, s1>>
<1>0. /\ t1 # <<>> /\ t2 # <<>> /\ t3 # <<>>
      /\ Head(t1) = s1 /\ Head(t2) = s2 /\ Head(t3) = s3
      /\ Tail(t1) = <<>> /\ Tail(t2) = t1 /\ Tail(t3) = t2
  <2> HIDE DEF s1, s2, s3
  <2> QED
    OBVIOUS
<1>s. /\ s1 \in Steps /\ s1.via = "held" /\ s1.what = "nil"
      /\ s2 \in Steps /\ s2.via = "held" /\ s2.what = "off"
      /\ s3 \in Steps /\ s3.via = "get" /\ s3.what = "nothing"
  BY DEF GetThen, HeldThen, Look, Steps, StepsOf, OnEntry
<1> HIDE DEF s1, s2, s3, t1, t2, t3
<1>1. \A b \in Bodies, r \in Copies : b.first = b.last /\ b.on = FALSE /\ b.list = b.told => Leads(b, t1, r, TRUE)
  <2> SUFFICES ASSUME NEW b \in Bodies, NEW r \in Copies, b.first = b.last /\ b.on = FALSE /\ b.list = b.told PROVE Leads(b, t1, r, TRUE)
    OBVIOUS
  <2>1. PICK w \in Bodies : w = Written(b, s1, r) /\ DomainSet(b, s1, r, w)
    BY <1>s, DomainWritten DEF DomainSteps
  <2>2. Good(w)
    BY <1>s, <2>1, GoodDomain, DomainSaid DEF DomainSet
  <2>3. Leads(w, <<>>, r, TRUE)
    BY <2>2, LeadsEnd
  <2>4. ~ NilDomain(b, s1)
    BY <1>s DEF NilDomain
  <2> QED
    BY <1>0, <1>s, <2>1, <2>3, <2>4, LeadsWrite DEF Conditions
<1>2. \A b \in Bodies, r \in Copies : b.first = b.last /\ b.list = b.told => Leads(b, t2, r, TRUE)
  <2> SUFFICES ASSUME NEW b \in Bodies, NEW r \in Copies, b.first = b.last /\ b.list = b.told PROVE Leads(b, t2, r, TRUE)
    OBVIOUS
  <2>1. PICK w \in Bodies : w = Written(b, s2, r) /\ FieldSet(b, s2, w)
    BY <1>s, FieldWritten DEF FieldSteps
  <2>2. Leads(w, t1, r, TRUE)
    BY <1>s, <2>1, <1>1 DEF FieldSet
  <2>4. ~ NilDomain(b, s2)
    BY <1>s DEF NilDomain
  <2> QED
    BY <1>0, <1>s, <2>1, <2>2, <2>4, LeadsWrite DEF Conditions
<1>3. \A b \in Bodies, r \in Copies, h \in BOOLEAN : b.first = b.last /\ b.list = b.told => Leads(b, t3, r, h)
  <2> SUFFICES ASSUME NEW b \in Bodies, NEW r \in Copies, NEW h \in BOOLEAN, b.first = b.last /\ b.list = b.told PROVE Leads(b, t3, r, h)
    OBVIOUS
  <2>1. Leads(b, t2, r, TRUE)
    BY <1>2
  <2> QED
    BY <1>0, <1>s, <2>1, LeadsLook
<1> QED
  BY <1>3 DEF s1, s2, s3, t1, t2, t3

\* An interface given to the domain that there is.
LEMMA MemberLeads ==
  ASSUME NEW e \in Entries, feature = "mlag"
  PROVE  \A b \in Bodies, r \in Copies, h \in BOOLEAN :
           Good(b) => Leads(b, <<Ensure, Look, HeldThen("ifDomain", 0), HeldThen("insert", e)>>, r, h)
<1> DEFINE s1 == HeldThen("insert", e)
           s2 == HeldThen("ifDomain", 0)
           s3 == Look
           s4 == Ensure
           t1 == <<s1>>
           t2 == <<s2, s1>>
           t3 == <<s3, s2, s1>>
           t4 == <<s4, s3, s2, s1>>
<1>0. /\ t1 # <<>> /\ t2 # <<>> /\ t3 # <<>> /\ t4 # <<>>
      /\ Head(t1) = s1 /\ Head(t2) = s2 /\ Head(t3) = s3 /\ Head(t4) = s4
      /\ Tail(t1) = <<>> /\ Tail(t2) = t1 /\ Tail(t3) = t2 /\ Tail(t4) = t3
  <2> HIDE DEF s1, s2, s3, s4
  <2> QED
    OBVIOUS
<1>s. /\ s1 \in Steps /\ s1.via = "held" /\ s1.what = "insert" /\ s1.arg = e
      /\ s2 \in Steps /\ s2.via = "held" /\ s2.what = "ifDomain"
      /\ s3 \in Steps /\ s3.via = "get" /\ s3.what = "nothing"
      /\ s4 \in Steps /\ s4.via = "init" /\ s4.what = "nothing"
  BY DEF GetThen, HeldThen, InitThen, Ensure, Look, Steps, StepsOf, OnEntry
<1> HIDE DEF s1, s2, s3, s4, t1, t2, t3, t4
<1>1. \A b \in Bodies, r \in Copies : Good(b) /\ b.domain # 0 => Leads(b, t1, r, TRUE)
  <2> SUFFICES ASSUME NEW b \in Bodies, NEW r \in Copies, Good(b) /\ b.domain # 0 PROVE Leads(b, t1, r, TRUE)
    OBVIOUS
  <2>1. PICK w \in Bodies : w = Written(b, s1, r) /\ EntrySet(b, s1, r, w)
    BY <1>s, EntryWritten DEF EntrySteps
  <2>2. Good(w)
    BY <1>s, <2>1, GoodDomain, GoodDomain, EntrySaid, EntryRest
  <2>3. Leads(w, <<>>, r, TRUE)
    BY <2>2, LeadsEnd
  <2>4. ~ NilDomain(b, s1)
    BY <1>s DEF NilDomain
  <2> QED
    BY <1>0, <1>s, <2>1, <2>3, <2>4, LeadsWrite DEF Conditions
<1>2. \A b \in Bodies, r \in Copies : Good(b) => Leads(b, t2, r, TRUE)
  <2> SUFFICES ASSUME NEW b \in Bodies, NEW r \in Copies, Good(b) PROVE Leads(b, t2, r, TRUE)
    OBVIOUS
  <2>1. ~ GoesOn(b, s2) => Good(b)
    BY <1>s, GoodDomain DEF GoesOn
  <2>2. GoesOn(b, s2) => Leads(b, t1, r, TRUE)
    BY <1>s, <1>1 DEF GoesOn
  <2> QED
    BY <1>0, <1>s, <2>1, <2>2, LeadsIf DEF Conditions
<1>3. \A b \in Bodies, r \in Copies : Good(b) => Leads(b, t3, r, TRUE)
  <2> SUFFICES ASSUME NEW b \in Bodies, NEW r \in Copies, Good(b) PROVE Leads(b, t3, r, TRUE)
    OBVIOUS
  <2>1. Leads(b, t2, r, TRUE)
    BY <1>2
  <2> QED
    BY <1>0, <1>s, <2>1, LeadsLook
<1>4. \A b \in Bodies, r \in Copies, h \in BOOLEAN : Good(b) => Leads(b, t4, r, h)
  <2> SUFFICES ASSUME NEW b \in Bodies, NEW r \in Copies, NEW h \in BOOLEAN, Good(b) PROVE Leads(b, t4, r, h)
    OBVIOUS
  <2>1. Leads(b, t3, r, TRUE)
    BY <1>3
  <2> QED
    BY <1>0, <1>s, <2>1, LeadsLook
<1> QED
  BY <1>4 DEF s1, s2, s3, s4, t1, t2, t3, t4

\* The peer link of the domain that there is.
LEMMA PeerLeads ==
  ASSUME feature = "mlag"
  PROVE  \A b \in Bodies, r \in Copies, h \in BOOLEAN :
           Good(b) => Leads(b, <<Look, HeldThen("ifDomain", 0), HeldThen("up", TRUE)>>, r, h)
<1> DEFINE s1 == HeldThen("up", TRUE)
           s2 == HeldThen("ifDomain", 0)
           s3 == Look
           t1 == <<s1>>
           t2 == <<s2, s1>>
           t3 == <<s3, s2, s1>>
<1>0. /\ t1 # <<>> /\ t2 # <<>> /\ t3 # <<>>
      /\ Head(t1) = s1 /\ Head(t2) = s2 /\ Head(t3) = s3
      /\ Tail(t1) = <<>> /\ Tail(t2) = t1 /\ Tail(t3) = t2
  <2> HIDE DEF s1, s2, s3
  <2> QED
    OBVIOUS
<1>s. /\ s1 \in Steps /\ s1.via = "held" /\ s1.what = "up" /\ s1.arg = TRUE
      /\ s2 \in Steps /\ s2.via = "held" /\ s2.what = "ifDomain"
      /\ s3 \in Steps /\ s3.via = "get" /\ s3.what = "nothing"
  BY DEF GetThen, HeldThen, Look, Steps, StepsOf, OnEntry
<1> HIDE DEF s1, s2, s3, t1, t2, t3
<1>1. \A b \in Bodies, r \in Copies : Good(b) /\ b.domain # 0 => Leads(b, t1, r, TRUE)
  <2> SUFFICES ASSUME NEW b \in Bodies, NEW r \in Copies, Good(b) /\ b.domain # 0 PROVE Leads(b, t1, r, TRUE)
    OBVIOUS
  <2>1. PICK w \in Bodies : w = Written(b, s1, r) /\ FieldSet(b, s1, w)
    BY <1>s, FieldWritten DEF FieldSteps
  <2>2. Good(w)
    BY <1>s, <2>1, GoodDomain, GoodDomain, FieldSaid DEF FieldSet
  <2>3. Leads(w, <<>>, r, TRUE)
    BY <2>2, LeadsEnd
  <2>4. ~ NilDomain(b, s1)
    BY <1>s DEF NilDomain
  <2> QED
    BY <1>0, <1>s, <2>1, <2>3, <2>4, LeadsWrite DEF Conditions
<1>2. \A b \in Bodies, r \in Copies : Good(b) => Leads(b, t2, r, TRUE)
  <2> SUFFICES ASSUME NEW b \in Bodies, NEW r \in Copies, Good(b) PROVE Leads(b, t2, r, TRUE)
    OBVIOUS
  <2>1. ~ GoesOn(b, s2) => Good(b)
    BY <1>s, GoodDomain DEF GoesOn
  <2>2. GoesOn(b, s2) => Leads(b, t1, r, TRUE)
    BY <1>s, <1>1 DEF GoesOn
  <2> QED
    BY <1>0, <1>s, <2>1, <2>2, LeadsIf DEF Conditions
<1>3. \A b \in Bodies, r \in Copies, h \in BOOLEAN : Good(b) => Leads(b, t3, r, h)
  <2> SUFFICES ASSUME NEW b \in Bodies, NEW r \in Copies, NEW h \in BOOLEAN, Good(b) PROVE Leads(b, t3, r, h)
    OBVIOUS
  <2>1. Leads(b, t2, r, TRUE)
    BY <1>2
  <2> QED
    BY <1>0, <1>s, <2>1, LeadsLook
<1> QED
  BY <1>3 DEF s1, s2, s3, t1, t2, t3

\* The same while it is enabled.
LEMMA RelieveLeads ==
  ASSUME feature = "mlag"
  PROVE  \A b \in Bodies, r \in Copies, h \in BOOLEAN :
           Good(b) => Leads(b, <<Look, HeldThen("ifOn", 0), HeldThen("ifDomain", 0), HeldThen("up", TRUE)>>, r, h)
<1> DEFINE s1 == HeldThen("up", TRUE)
           s2 == HeldThen("ifDomain", 0)
           s3 == HeldThen("ifOn", 0)
           s4 == Look
           t1 == <<s1>>
           t2 == <<s2, s1>>
           t3 == <<s3, s2, s1>>
           t4 == <<s4, s3, s2, s1>>
<1>0. /\ t1 # <<>> /\ t2 # <<>> /\ t3 # <<>> /\ t4 # <<>>
      /\ Head(t1) = s1 /\ Head(t2) = s2 /\ Head(t3) = s3 /\ Head(t4) = s4
      /\ Tail(t1) = <<>> /\ Tail(t2) = t1 /\ Tail(t3) = t2 /\ Tail(t4) = t3
  <2> HIDE DEF s1, s2, s3, s4
  <2> QED
    OBVIOUS
<1>s. /\ s1 \in Steps /\ s1.via = "held" /\ s1.what = "up" /\ s1.arg = TRUE
      /\ s2 \in Steps /\ s2.via = "held" /\ s2.what = "ifDomain"
      /\ s3 \in Steps /\ s3.via = "held" /\ s3.what = "ifOn"
      /\ s4 \in Steps /\ s4.via = "get" /\ s4.what = "nothing"
  BY DEF GetThen, HeldThen, Look, Steps, StepsOf, OnEntry
<1> HIDE DEF s1, s2, s3, s4, t1, t2, t3, t4
<1>1. \A b \in Bodies, r \in Copies : Good(b) /\ b.domain # 0 => Leads(b, t1, r, TRUE)
  <2> SUFFICES ASSUME NEW b \in Bodies, NEW r \in Copies, Good(b) /\ b.domain # 0 PROVE Leads(b, t1, r, TRUE)
    OBVIOUS
  <2>1. PICK w \in Bodies : w = Written(b, s1, r) /\ FieldSet(b, s1, w)
    BY <1>s, FieldWritten DEF FieldSteps
  <2>2. Good(w)
    BY <1>s, <2>1, GoodDomain, GoodDomain, FieldSaid DEF FieldSet
  <2>3. Leads(w, <<>>, r, TRUE)
    BY <2>2, LeadsEnd
  <2>4. ~ NilDomain(b, s1)
    BY <1>s DEF NilDomain
  <2> QED
    BY <1>0, <1>s, <2>1, <2>3, <2>4, LeadsWrite DEF Conditions
<1>2. \A b \in Bodies, r \in Copies : Good(b) => Leads(b, t2, r, TRUE)
  <2> SUFFICES ASSUME NEW b \in Bodies, NEW r \in Copies, Good(b) PROVE Leads(b, t2, r, TRUE)
    OBVIOUS
  <2>1. ~ GoesOn(b, s2) => Good(b)
    BY <1>s, GoodDomain DEF GoesOn
  <2>2. GoesOn(b, s2) => Leads(b, t1, r, TRUE)
    BY <1>s, <1>1 DEF GoesOn
  <2> QED
    BY <1>0, <1>s, <2>1, <2>2, LeadsIf DEF Conditions
<1>3. \A b \in Bodies, r \in Copies : Good(b) => Leads(b, t3, r, TRUE)
  <2> SUFFICES ASSUME NEW b \in Bodies, NEW r \in Copies, Good(b) PROVE Leads(b, t3, r, TRUE)
    OBVIOUS
  <2>1. ~ GoesOn(b, s3) => Good(b)
    BY <1>s, GoodDomain DEF GoesOn
  <2>2. GoesOn(b, s3) => Leads(b, t2, r, TRUE)
    BY <1>s, <1>2 DEF GoesOn
  <2> QED
    BY <1>0, <1>s, <2>1, <2>2, LeadsIf DEF Conditions
<1>4. \A b \in Bodies, r \in Copies, h \in BOOLEAN : Good(b) => Leads(b, t4, r, h)
  <2> SUFFICES ASSUME NEW b \in Bodies, NEW r \in Copies, NEW h \in BOOLEAN, Good(b) PROVE Leads(b, t4, r, h)
    OBVIOUS
  <2>1. Leads(b, t3, r, TRUE)
    BY <1>3
  <2> QED
    BY <1>0, <1>s, <2>1, LeadsLook
<1> QED
  BY <1>4 DEF s1, s2, s3, s4, t1, t2, t3, t4

-----------------------------------------------------------------------------
(* What calls are.                                                         *)

Tabled == {"bfd", "pbr", "gre", "qos", "dot1x", "stp", "bgp"}

\* Steps that a call has left: a list is put back in the last one, and an entry comes into a
\* table after a look whether the feature is enabled in the same router.
InOrder(t) ==
  /\ t \in Seq(Steps)
  /\ \A i \in 1..Len(t) : t[i].what = "append" => i = Len(t)
  /\ feature \in Tabled =>
       \A i \in 1..Len(t) : /\ t[i].what # "master"
                            /\ t[i].what = "insert" /\ i > 1 =>
                                 t[i].via = "held" /\ t[i - 1].via = "held" /\ t[i - 1].what = "ifOn"

\* Steps of a call that begins.
Begins(t) == InOrder(t) /\ (feature \in Tabled => Head(t).what # "insert")

\* The calls, by what their features have in common.
Timed == {"ntp", "vxlan"}
Grouped == {"vrrp", "ipsec"}
Listed == {"routes", "lldp", "vrf"}
PlainShape(t) ==
  \/ t = <<Look, HeldThen("off", 0)>>
  \/ t = <<Ensure, InitThen("on", 0)>>
  \/ \E e \in Entries : \/ t = <<Ensure, Look, HeldThen("ifOn", 0), HeldThen("insert", e)>>
                        \/ t = <<Look, HeldThen("ifOn", 0), HeldThen("delete", e)>>
GivenShape(t) ==
  \E v \in Settings : \/ t = <<Ensure, InitThen("on", 0), InitThen("first", v), InitThen("last", v)>>
                      \/ t = <<InitThen("on", 0), HeldThen("first", v), HeldThen("last", v)>>
TimedShape(t) ==
  \/ \E v \in Settings :
       \/ t = <<Ensure, InitThen("on", 0), InitThen("first", v), InitThen("up", TRUE), InitThen("last", v)>>
       \/ t = <<Ensure, InitThen("on", 0), InitThen("first", v), InitThen("last", v), InitThen("up", TRUE)>>
  \/ t = <<Look, HeldThen("off", 0), HeldThen("up", FALSE)>>
GroupShape(t) ==
  \E e \in Entries :
    \/ \E high \in BOOLEAN : t = <<Ensure, InitThen("on", 0), InitThen("master", [e |-> e, high |-> high])>>
    \/ t = <<Ensure, InitThen("on", 0), InitThen("insert", e)>>
    \/ t = <<Look, HeldThen("delete", e), HeldThen("ifEmpty", 0), HeldThen("off", 0)>>
    \/ t = <<Look, HeldThen("ifOn", 0), HeldThen("ifThere", e), HeldThen("flip", e), HeldThen("peek", e), HeldThen("says", e)>>
DomainShape(t) ==
  \/ t = <<Ensure, InitThen("on", 0), InitThen("domain", 0)>>
  \/ t = <<Look, HeldThen("off", 0), HeldThen("nil", 0)>>
  \/ \E e \in Entries : t = <<Ensure, Look, HeldThen("ifDomain", 0), HeldThen("insert", e)>>
  \/ t = <<Look, HeldThen("ifDomain", 0), HeldThen("up", TRUE)>>
  \/ t = <<Look, HeldThen("ifOn", 0), HeldThen("ifDomain", 0), HeldThen("up", TRUE)>>
ListShape(t) ==
  \/ t = <<Ensure, Ensure, InitThen("copy", 0), HeldThen("append", 0)>>
  \/ t = <<Look, HeldThen("ifDomain", 0), HeldThen("copy", 0), HeldThen("append", 0)>>
  \/ t = <<Ensure, Look, HeldThen("on", 0), HeldThen("domain", 0)>>
Shape(t) ==
  \/ feature \in Simple /\ PlainShape(t)
  \/ feature \in Simple /\ GivenShape(t)
  \/ feature \in Timed /\ TimedShape(t)
  \/ feature \in Grouped /\ GroupShape(t)
  \/ feature = "mlag" /\ DomainShape(t)
  \/ feature \in Listed /\ ListShape(t)

\* Steps put together.
LEMMA JoinTwo ==
  ASSUME NEW p, NEW q, NEW x
  PROVE  <<p, q>> \o <<x>> = <<p, q, x>>
<1> DEFINE S == {p, q, x}
           a == <<p, q>>
           b == <<x>>
           w == <<p, q, x>>
<1>1. a \in Seq(S) /\ b \in Seq(S) /\ w \in Seq(S)
  OBVIOUS
<1>2. Len(a) = 2 /\ Len(b) = 1 /\ Len(w) = 3 /\ a[1] = p /\ a[2] = q /\ b[1] = x /\ w[1] = p /\ w[2] = q /\ w[3] = x
  OBVIOUS
<1> HIDE DEF a, b, w, S
<1>3. /\ a \o b \in Seq(S) /\ Len(a \o b) = 3
      /\ \A i \in 1..3 : (a \o b)[i] = IF i <= 2 THEN a[i] ELSE b[i - 2]
  <2>1. /\ a \o b \in Seq(S) /\ Len(a \o b) = Len(a) + Len(b)
        /\ \A i \in 1..Len(a) + Len(b) : (a \o b)[i] = IF i <= Len(a) THEN a[i] ELSE b[i - Len(a)]
    BY <1>1, ConcatProperties, Zenon
  <2>2. Len(a) = 2 /\ Len(a) + Len(b) = 3
    BY <1>2
  <2> QED
    BY <2>1, <2>2, Zenon
<1>4. \A i \in 1..3 : (a \o b)[i] = w[i]
  <2>1. (a \o b)[1] = a[1] /\ (a \o b)[2] = a[2] /\ (a \o b)[3] = b[3 - 2]
    BY <1>3
  <2>2. 3 - 2 = 1 /\ \A i \in 1..3 : i = 1 \/ i = 2 \/ i = 3
    OBVIOUS
  <2> QED
    BY <1>2, <2>1, <2>2
<1>5. a \o b = w
  BY <1>1, <1>2, <1>3, <1>4, SeqEqual
<1> QED
  BY <1>5 DEF a, b, w

\* A fifth step after four.
LEMMA JoinFour ==
  ASSUME NEW p, NEW q, NEW x, NEW y, NEW z
  PROVE  <<p, q, x, y>> \o <<z>> = <<p, q, x, y, z>>
<1> DEFINE S == {p, q, x, y, z}
           a == <<p, q, x, y>>
           b == <<z>>
           w == <<p, q, x, y, z>>
<1>1. a \in Seq(S) /\ b \in Seq(S) /\ w \in Seq(S)
  OBVIOUS
<1>2. /\ Len(a) = 4 /\ Len(b) = 1 /\ Len(w) = 5 /\ a[1] = p /\ a[2] = q /\ a[3] = x /\ a[4] = y /\ b[1] = z
      /\ w[1] = p /\ w[2] = q /\ w[3] = x /\ w[4] = y /\ w[5] = z
  OBVIOUS
<1> HIDE DEF a, b, w, S
<1>3. /\ a \o b \in Seq(S) /\ Len(a \o b) = 5
      /\ \A i \in 1..5 : (a \o b)[i] = IF i <= 4 THEN a[i] ELSE b[i - 4]
  <2>1. /\ a \o b \in Seq(S) /\ Len(a \o b) = Len(a) + Len(b)
        /\ \A i \in 1..Len(a) + Len(b) : (a \o b)[i] = IF i <= Len(a) THEN a[i] ELSE b[i - Len(a)]
    BY <1>1, ConcatProperties, Zenon
  <2>2. Len(a) = 4 /\ Len(a) + Len(b) = 5
    BY <1>2
  <2> QED
    BY <2>1, <2>2, Zenon
<1>4. \A i \in 1..5 : (a \o b)[i] = w[i]
  <2>1. /\ (a \o b)[1] = a[1] /\ (a \o b)[2] = a[2] /\ (a \o b)[3] = a[3] /\ (a \o b)[4] = a[4]
        /\ (a \o b)[5] = b[5 - 4]
    BY <1>3
  <2>2. 5 - 4 = 1 /\ \A i \in 1..5 : i = 1 \/ i = 2 \/ i = 3 \/ i = 4 \/ i = 5
    OBVIOUS
  <2> QED
    BY <1>2, <2>1, <2>2
<1>5. a \o b = w
  BY <1>1, <1>2, <1>3, <1>4, SeqEqual
<1> QED
  BY <1>5 DEF a, b, w

\* Every call has such a shape.
Shaped(c) == \E t : Call(c, t) /\ Shape(t)

\* A list of steps that a call can have, and that has a shape, shows that the call has one.
LEMMA ShapedBy == \A c, t : Call(c, t) /\ Shape(t) => Shaped(c)
BY Zenon DEF Shaped

\* Calls that give fields, disable, enable and add an entry.
LEMMA PlainShaped ==
  \A c, f : f \in Simple =>
    /\ Given(c, f) \/ Ended(c, f) \/ Adds(c, f) => Shaped(c)
    /\ feature = f /\ Call(c, Enable) => Shaped(c)
<1> SUFFICES ASSUME NEW c, NEW f, f \in Simple, feature = f
             PROVE  /\ Given(c, f) \/ Ended(c, f) \/ Adds(c, f) => Shaped(c)
                    /\ Call(c, Enable) => Shaped(c)
  BY Zenon DEF Given, Ended, Adds
<1>1. \A t : PlainShape(t) \/ GivenShape(t) => Shape(t)
  BY DEF Shape
<1>2. Given(c, f) => Shaped(c)
  BY <1>1, ShapedBy, Zenon DEF Given, Configure, GivenShape
<1>3. Ended(c, f) => Shaped(c)
  BY <1>1, ShapedBy, Zenon DEF Ended, Disable, PlainShape
<1>4. Adds(c, f) => Shaped(c)
  BY <1>1, ShapedBy, Zenon DEF Adds, AddEntry, PlainShape
<1>5. Call(c, Enable) => Shaped(c)
  BY <1>1, ShapedBy, Zenon DEF Enable, PlainShape
<1> QED
  BY <1>2, <1>3, <1>4, <1>5


\* Services.
LEMMA ServicesShaped == \A c : ServiceCall(c) => Shaped(c)
<1> SUFFICES ASSUME NEW c, ServiceCall(c) PROVE Shaped(c)
  OBVIOUS
<1>1. \A t : feature \in Timed /\ TimedShape(t) => Shape(t)
  BY DEF Shape
<1>2. ConfigureNTP(c) => Shaped(c)
  BY <1>1, ShapedBy, Zenon DEF ConfigureNTP, TimedShape, Timed
<1>3. DisableNTP(c) \/ DisableVXLAN(c) => Shaped(c)
  <2>1. Disable \o <<HeldThen("up", FALSE)>> = <<Look, HeldThen("off", 0), HeldThen("up", FALSE)>>
    BY JoinTwo, Zenon DEF Disable
  <2> QED
    BY <1>1, <2>1, ShapedBy, Zenon DEF DisableNTP, DisableVXLAN, TimedShape, Timed
<1>4. ConfigureVXLAN(c) => Shaped(c)
  <2>1. \A v : Configure(v) \o <<InitThen("up", TRUE)>> =
               <<Ensure, InitThen("on", 0), InitThen("first", v), InitThen("last", v), InitThen("up", TRUE)>>
    <3> TAKE v
    <3>1. PICK p, q, x, y, z : p = Ensure /\ q = InitThen("on", 0) /\ x = InitThen("first", v) /\ y = InitThen("last", v)
                              /\ z = InitThen("up", TRUE)
      OBVIOUS
    <3>2. Configure(v) = <<p, q, x, y>>
      BY <3>1, Zenon DEF Configure
    <3>3. <<p, q, x, y>> \o <<z>> = <<p, q, x, y, z>>
      BY JoinFour, Zenon
    <3> QED
      BY <3>1, <3>2, <3>3, Zenon
  <2> QED
    BY <1>1, <2>1, ShapedBy, Zenon DEF ConfigureVXLAN, TimedShape, Timed
<1>5. \E f \in Simple : Given(c, f) \/ Ended(c, f) \/ ConfigureNTP(c) \/ DisableNTP(c) \/ ConfigureVXLAN(c) \/ DisableVXLAN(c)
  BY Zenon DEF ServiceCall, Simple, StartOSPF, StopOSPF, ConfigureSNMP, DisableSNMP, ConfigureSyslog, DisableSyslog, ConfigureSSH, DisableSSH, ConfigureRADIUS, DisableRADIUS, ConfigureNetFlow, DisableNetFlow, ConfigureBGP, DisableBGP
<1> QED
  BY <1>2, <1>3, <1>4, <1>5, PlainShaped

\* Tables.
LEMMA TablesShaped == \A c : TableCall(c) => Shaped(c)
<1> SUFFICES ASSUME NEW c, TableCall(c) PROVE Shaped(c)
  OBVIOUS
<1>1. \A t : feature \in Simple /\ (PlainShape(t) \/ GivenShape(t)) => Shape(t)
  BY DEF Shape
<1>2. RemoveBGPNeighbor(c) => Shaped(c)
  BY <1>1, ShapedBy, Zenon DEF RemoveBGPNeighbor, PlainShape, Simple
<1>3. StartSTP(c) => Shaped(c)
  BY <1>1, ShapedBy, Zenon DEF StartSTP, GivenShape, Simple
<1>4. \E f \in Simple : Ended(c, f) \/ Adds(c, f) \/ (feature = f /\ Call(c, Enable)) \/ RemoveBGPNeighbor(c) \/ StartSTP(c)
  BY Zenon DEF TableCall, Simple, AddBGPNeighbor, EnableBFD, DisableBFD, AddBFDSession, EnablePBR, DisablePBR, AddPBRRule, EnableGRE, DisableGRE, AddGRETunnel, EnableQoS, DisableQoS, AddQoSEntry, EnableDot1x, DisableDot1x, ConfigureDot1xPort, StopSTP, ConfigureSTPPort
<1> QED
  BY <1>2, <1>3, <1>4, PlainShaped

\* Groups, domains and lists.
LEMMA GroupsShaped == \A c : GroupCall(c) => Shaped(c)
<1> SUFFICES ASSUME NEW c, GroupCall(c) PROVE Shaped(c)
  OBVIOUS
<1>1. \A t : /\ (feature \in Grouped /\ GroupShape(t) => Shape(t))
            /\ (feature = "mlag" /\ DomainShape(t) => Shape(t))
            /\ (feature \in Listed /\ ListShape(t) => Shape(t))
  BY DEF Shape
<1>2. StartVRRP(c) \/ StopVRRP(c) \/ SimulateVRRPFailover(c) \/ AddIPsecTunnel(c) \/ RemoveIPsecTunnel(c) => Shaped(c)
  BY <1>1, ShapedBy, Zenon DEF StartVRRP, StopVRRP, SimulateVRRPFailover, AddIPsecTunnel, RemoveIPsecTunnel, TakeOut, GroupShape, Grouped
<1>3. StartMLAG(c) \/ StopMLAG(c) \/ AddMLAGInterface(c) \/ SetMLAGPeerLink(c) \/ SimulateMLAGFailover(c) => Shaped(c)
  <2>1. Disable \o <<HeldThen("nil", 0)>> = <<Look, HeldThen("off", 0), HeldThen("nil", 0)>>
    BY JoinTwo, Zenon DEF Disable
  <2> QED
    BY <1>1, <2>1, ShapedBy, Zenon DEF StartMLAG, StopMLAG, AddMLAGInterface, SetMLAGPeerLink, SimulateMLAGFailover, DomainShape
<1>4. AddRoute(c) \/ AddLLDPNeighbor(c) \/ CreateVRF(c) \/ AddToVRF(c) => Shaped(c)
  BY <1>1, ShapedBy, Zenon DEF AddRoute, AddLLDPNeighbor, CreateVRF, AddToVRF, ListShape, Listed
<1>5. StartLLDP(c) \/ StopLLDP(c) => Shaped(c)
  BY PlainShaped, Zenon DEF StartLLDP, StopLLDP, Simple
<1> QED
  BY <1>2, <1>3, <1>4, <1>5, Zenon DEF GroupCall

-----------------------------------------------------------------------------
(* Calls begin well, and lead from one good router to another.             *)

\* What may come after a step into a table.
Follows(p, q) ==
  /\ q.what # "master"
  /\ q.what = "insert" => q.via = "held" /\ p.via = "held" /\ p.what = "ifOn"

\* Calls of two steps.
LEMMA BeginsTwo ==
  ASSUME NEW a \in Steps, NEW b \in Steps,
         a.what # "append",
         feature \in Tabled => a.what \notin {"insert", "master"} /\ Follows(a, b)
  PROVE  Begins(<<a, b>>)
<1> DEFINE t == <<a, b>>
<1>1. /\ t \in Seq(Steps) /\ Len(t) = 2 /\ Head(t) = a
      /\ t[1] = a /\ t[2] = b
  OBVIOUS
<1> HIDE DEF t
<1>2. \A i \in 1..2 : i = 1 \/ i = 2
  OBVIOUS
<1>3. \A i \in 1..Len(t) : t[i].what = "append" => i = Len(t)
  BY <1>1, <1>2
<1>4. ASSUME feature \in Tabled, NEW i \in 1..Len(t)
      PROVE  /\ t[i].what # "master"
             /\ t[i].what = "insert" /\ i > 1 => t[i].via = "held" /\ t[i - 1].via = "held" /\ t[i - 1].what = "ifOn"
  <2>1. CASE i = 1
    BY <1>1, <1>4, <2>1
  <2>2. CASE i = 2
    <3>1. t[i] = b /\ t[i - 1] = a /\ Follows(a, b)
      BY <1>1, <1>4, <2>2
    <3> QED
      BY <3>1 DEF Follows
  <2> QED
    BY <1>1, <1>2, <1>4, <2>1, <2>2
<1>5. Begins(t)
  BY <1>1, <1>3, <1>4 DEF Begins, InOrder
<1> QED
  BY <1>5 DEF t

\* Calls of three steps.
LEMMA BeginsThree ==
  ASSUME NEW a \in Steps, NEW b \in Steps, NEW c \in Steps,
         a.what # "append" /\ b.what # "append",
         feature \in Tabled => a.what \notin {"insert", "master"} /\ Follows(a, b) /\ Follows(b, c)
  PROVE  Begins(<<a, b, c>>)
<1> DEFINE t == <<a, b, c>>
<1>1. /\ t \in Seq(Steps) /\ Len(t) = 3 /\ Head(t) = a
      /\ t[1] = a /\ t[2] = b /\ t[3] = c
  OBVIOUS
<1> HIDE DEF t
<1>2. \A i \in 1..3 : i = 1 \/ i = 2 \/ i = 3
  OBVIOUS
<1>3. \A i \in 1..Len(t) : t[i].what = "append" => i = Len(t)
  BY <1>1, <1>2
<1>4. ASSUME feature \in Tabled, NEW i \in 1..Len(t)
      PROVE  /\ t[i].what # "master"
             /\ t[i].what = "insert" /\ i > 1 => t[i].via = "held" /\ t[i - 1].via = "held" /\ t[i - 1].what = "ifOn"
  <2>1. CASE i = 1
    BY <1>1, <1>4, <2>1
  <2>2. CASE i = 2
    <3>1. t[i] = b /\ t[i - 1] = a /\ Follows(a, b)
      BY <1>1, <1>4, <2>2
    <3> QED
      BY <3>1 DEF Follows
  <2>3. CASE i = 3
    <3>1. t[i] = c /\ t[i - 1] = b /\ Follows(b, c)
      BY <1>1, <1>4, <2>3
    <3> QED
      BY <3>1 DEF Follows
  <2> QED
    BY <1>1, <1>2, <1>4, <2>1, <2>2, <2>3
<1>5. Begins(t)
  BY <1>1, <1>3, <1>4 DEF Begins, InOrder
<1> QED
  BY <1>5 DEF t

\* Calls of four steps.
LEMMA BeginsFour ==
  ASSUME NEW a \in Steps, NEW b \in Steps, NEW c \in Steps, NEW d \in Steps,
         a.what # "append" /\ b.what # "append" /\ c.what # "append",
         feature \in Tabled => a.what \notin {"insert", "master"} /\ Follows(a, b) /\ Follows(b, c) /\ Follows(c, d)
  PROVE  Begins(<<a, b, c, d>>)
<1> DEFINE t == <<a, b, c, d>>
<1>1. /\ t \in Seq(Steps) /\ Len(t) = 4 /\ Head(t) = a
      /\ t[1] = a /\ t[2] = b /\ t[3] = c /\ t[4] = d
  OBVIOUS
<1> HIDE DEF t
<1>2. \A i \in 1..4 : i = 1 \/ i = 2 \/ i = 3 \/ i = 4
  OBVIOUS
<1>3. \A i \in 1..Len(t) : t[i].what = "append" => i = Len(t)
  BY <1>1, <1>2
<1>4. ASSUME feature \in Tabled, NEW i \in 1..Len(t)
      PROVE  /\ t[i].what # "master"
             /\ t[i].what = "insert" /\ i > 1 => t[i].via = "held" /\ t[i - 1].via = "held" /\ t[i - 1].what = "ifOn"
  <2>1. CASE i = 1
    BY <1>1, <1>4, <2>1
  <2>2. CASE i = 2
    <3>1. t[i] = b /\ t[i - 1] = a /\ Follows(a, b)
      BY <1>1, <1>4, <2>2
    <3> QED
      BY <3>1 DEF Follows
  <2>3. CASE i = 3
    <3>1. t[i] = c /\ t[i - 1] = b /\ Follows(b, c)
      BY <1>1, <1>4, <2>3
    <3> QED
      BY <3>1 DEF Follows
  <2>4. CASE i = 4
    <3>1. t[i] = d /\ t[i - 1] = c /\ Follows(c, d)
      BY <1>1, <1>4, <2>4
    <3> QED
      BY <3>1 DEF Follows
  <2> QED
    BY <1>1, <1>2, <1>4, <2>1, <2>2, <2>3, <2>4
<1>5. Begins(t)
  BY <1>1, <1>3, <1>4 DEF Begins, InOrder
<1> QED
  BY <1>5 DEF t

\* Calls of five steps.
LEMMA BeginsFive ==
  ASSUME NEW a \in Steps, NEW b \in Steps, NEW c \in Steps, NEW d \in Steps, NEW e \in Steps,
         a.what # "append" /\ b.what # "append" /\ c.what # "append" /\ d.what # "append",
         feature \in Tabled => a.what \notin {"insert", "master"} /\ Follows(a, b) /\ Follows(b, c) /\ Follows(c, d) /\ Follows(d, e)
  PROVE  Begins(<<a, b, c, d, e>>)
<1> DEFINE t == <<a, b, c, d, e>>
<1>1. /\ t \in Seq(Steps) /\ Len(t) = 5 /\ Head(t) = a
      /\ t[1] = a /\ t[2] = b /\ t[3] = c /\ t[4] = d /\ t[5] = e
  OBVIOUS
<1> HIDE DEF t
<1>2. \A i \in 1..5 : i = 1 \/ i = 2 \/ i = 3 \/ i = 4 \/ i = 5
  OBVIOUS
<1>3. \A i \in 1..Len(t) : t[i].what = "append" => i = Len(t)
  BY <1>1, <1>2
<1>4. ASSUME feature \in Tabled, NEW i \in 1..Len(t)
      PROVE  /\ t[i].what # "master"
             /\ t[i].what = "insert" /\ i > 1 => t[i].via = "held" /\ t[i - 1].via = "held" /\ t[i - 1].what = "ifOn"
  <2>1. CASE i = 1
    BY <1>1, <1>4, <2>1
  <2>2. CASE i = 2
    <3>1. t[i] = b /\ t[i - 1] = a /\ Follows(a, b)
      BY <1>1, <1>4, <2>2
    <3> QED
      BY <3>1 DEF Follows
  <2>3. CASE i = 3
    <3>1. t[i] = c /\ t[i - 1] = b /\ Follows(b, c)
      BY <1>1, <1>4, <2>3
    <3> QED
      BY <3>1 DEF Follows
  <2>4. CASE i = 4
    <3>1. t[i] = d /\ t[i - 1] = c /\ Follows(c, d)
      BY <1>1, <1>4, <2>4
    <3> QED
      BY <3>1 DEF Follows
  <2>5. CASE i = 5
    <3>1. t[i] = e /\ t[i - 1] = d /\ Follows(d, e)
      BY <1>1, <1>4, <2>5
    <3> QED
      BY <3>1 DEF Follows
  <2> QED
    BY <1>1, <1>2, <1>4, <2>1, <2>2, <2>3, <2>4, <2>5
<1>5. Begins(t)
  BY <1>1, <1>3, <1>4 DEF Begins, InOrder
<1> QED
  BY <1>5 DEF t

\* Calls of six steps.
LEMMA BeginsSix ==
  ASSUME NEW a \in Steps, NEW b \in Steps, NEW c \in Steps, NEW d \in Steps, NEW e \in Steps, NEW f \in Steps,
         a.what # "append" /\ b.what # "append" /\ c.what # "append" /\ d.what # "append" /\ e.what # "append",
         feature \in Tabled => a.what \notin {"insert", "master"} /\ Follows(a, b) /\ Follows(b, c) /\ Follows(c, d) /\ Follows(d, e) /\ Follows(e, f)
  PROVE  Begins(<<a, b, c, d, e, f>>)
<1> DEFINE t == <<a, b, c, d, e, f>>
<1>1. /\ t \in Seq(Steps) /\ Len(t) = 6 /\ Head(t) = a
      /\ t[1] = a /\ t[2] = b /\ t[3] = c /\ t[4] = d /\ t[5] = e /\ t[6] = f
  OBVIOUS
<1> HIDE DEF t
<1>2. \A i \in 1..6 : i = 1 \/ i = 2 \/ i = 3 \/ i = 4 \/ i = 5 \/ i = 6
  OBVIOUS
<1>3. \A i \in 1..Len(t) : t[i].what = "append" => i = Len(t)
  BY <1>1, <1>2
<1>4. ASSUME feature \in Tabled, NEW i \in 1..Len(t)
      PROVE  /\ t[i].what # "master"
             /\ t[i].what = "insert" /\ i > 1 => t[i].via = "held" /\ t[i - 1].via = "held" /\ t[i - 1].what = "ifOn"
  <2>1. CASE i = 1
    BY <1>1, <1>4, <2>1
  <2>2. CASE i = 2
    <3>1. t[i] = b /\ t[i - 1] = a /\ Follows(a, b)
      BY <1>1, <1>4, <2>2
    <3> QED
      BY <3>1 DEF Follows
  <2>3. CASE i = 3
    <3>1. t[i] = c /\ t[i - 1] = b /\ Follows(b, c)
      BY <1>1, <1>4, <2>3
    <3> QED
      BY <3>1 DEF Follows
  <2>4. CASE i = 4
    <3>1. t[i] = d /\ t[i - 1] = c /\ Follows(c, d)
      BY <1>1, <1>4, <2>4
    <3> QED
      BY <3>1 DEF Follows
  <2>5. CASE i = 5
    <3>1. t[i] = e /\ t[i - 1] = d /\ Follows(d, e)
      BY <1>1, <1>4, <2>5
    <3> QED
      BY <3>1 DEF Follows
  <2>6. CASE i = 6
    <3>1. t[i] = f /\ t[i - 1] = e /\ Follows(e, f)
      BY <1>1, <1>4, <2>6
    <3> QED
      BY <3>1 DEF Follows
  <2> QED
    BY <1>1, <1>2, <1>4, <2>1, <2>2, <2>3, <2>4, <2>5, <2>6
<1>5. Begins(t)
  BY <1>1, <1>3, <1>4 DEF Begins, InOrder
<1> QED
  BY <1>5 DEF t

\* Steps that a good router and a call that begins can be left to.
Sound(t) == Begins(t) /\ \A b \in Bodies, r \in Copies, h \in BOOLEAN : Good(b) => Leads(b, t, r, h)

\* Calls that enable, disable, or change a table.
LEMMA PlainSound == feature \in Simple => \A t : PlainShape(t) => Sound(t)
<1> SUFFICES ASSUME feature \in Simple, NEW t, PlainShape(t) PROVE Sound(t)
  OBVIOUS
<1>1. ASSUME t = <<Look, HeldThen("off", 0)>> PROVE Sound(t)
  <2>1. Begins(<<Look, HeldThen("off", 0)>>)
    <3>1. PICK p, q : p = Look /\ q = HeldThen("off", 0)
      OBVIOUS
    <3>2. /\ p \in Steps /\ p.via = "get" /\ p.what = "nothing"
          /\ q \in Steps /\ q.via = "held" /\ q.what = "off"
      BY <3>1 DEF HeldThen, Look, GetThen, Steps, StepsOf, OnEntry
    <3>3. Begins(<<p, q>>)
      BY <3>2, BeginsTwo DEF Follows
    <3> QED
      BY <3>1, <3>3
  <2>2. t \in Seq(PlainSteps) /\ t # <<>> /\ Head(t).via # "held"
    <3>1. Look \in PlainSteps /\ HeldThen("off", 0) \in PlainSteps
      BY DEF GetThen, HeldThen, Look, PlainSteps, Steps, StepsOf, OnEntry
    <3>2. Look.via # "held"
      BY DEF Look, GetThen
    <3> QED
      BY <1>1, <3>1, <3>2
  <2>3. \A b \in Bodies, r \in Copies, h \in BOOLEAN : Good(b) => Leads(b, t, r, h)
    BY <2>2, PlainLeads
  <2> QED
    BY <1>1, <2>1, <2>3 DEF Sound
<1>2. ASSUME t = <<Ensure, InitThen("on", 0)>> PROVE Sound(t)
  <2>1. Begins(<<Ensure, InitThen("on", 0)>>)
    <3>1. PICK p, q : p = Ensure /\ q = InitThen("on", 0)
      OBVIOUS
    <3>2. /\ p \in Steps /\ p.via = "init" /\ p.what = "nothing"
          /\ q \in Steps /\ q.via = "init" /\ q.what = "on"
      BY <3>1 DEF Ensure, InitThen, Steps, StepsOf, OnEntry
    <3>3. Begins(<<p, q>>)
      BY <3>2, BeginsTwo DEF Follows
    <3> QED
      BY <3>1, <3>3
  <2>2. t \in Seq(PlainSteps) /\ t # <<>> /\ Head(t).via # "held"
    <3>1. Ensure \in PlainSteps /\ InitThen("on", 0) \in PlainSteps
      BY DEF Ensure, InitThen, PlainSteps, Steps, StepsOf, OnEntry
    <3>2. Ensure.via # "held"
      BY DEF Ensure, InitThen
    <3> QED
      BY <1>2, <3>1, <3>2
  <2>3. \A b \in Bodies, r \in Copies, h \in BOOLEAN : Good(b) => Leads(b, t, r, h)
    BY <2>2, PlainLeads
  <2> QED
    BY <1>2, <2>1, <2>3 DEF Sound
<1>3. ASSUME NEW e \in Entries, t = <<Ensure, Look, HeldThen("ifOn", 0), HeldThen("insert", e)>> PROVE Sound(t)
  <2>1. Begins(<<Ensure, Look, HeldThen("ifOn", 0), HeldThen("insert", e)>>)
    <3>1. PICK p, q, x, y : p = Ensure /\ q = Look /\ x = HeldThen("ifOn", 0) /\ y = HeldThen("insert", e)
      OBVIOUS
    <3>2. /\ p \in Steps /\ p.via = "init" /\ p.what = "nothing"
          /\ q \in Steps /\ q.via = "get" /\ q.what = "nothing"
          /\ x \in Steps /\ x.via = "held" /\ x.what = "ifOn"
          /\ y \in Steps /\ y.via = "held" /\ y.what = "insert"
      BY <3>1 DEF Ensure, HeldThen, Look, InitThen, GetThen, Steps, StepsOf, OnEntry
    <3>3. Begins(<<p, q, x, y>>)
      BY <3>2, BeginsFour DEF Follows
    <3> QED
      BY <3>1, <3>3
  <2>2. t \in Seq(PlainSteps) /\ t # <<>> /\ Head(t).via # "held"
    <3>1. Ensure \in PlainSteps /\ Look \in PlainSteps /\ HeldThen("ifOn", 0) \in PlainSteps /\ HeldThen("insert", e) \in PlainSteps
      BY DEF Ensure, GetThen, HeldThen, InitThen, Look, PlainSteps, Steps, StepsOf, OnEntry
    <3>2. Ensure.via # "held"
      BY DEF Ensure, InitThen
    <3> QED
      BY <1>3, <3>1, <3>2
  <2>3. \A b \in Bodies, r \in Copies, h \in BOOLEAN : Good(b) => Leads(b, t, r, h)
    BY <2>2, PlainLeads
  <2> QED
    BY <1>3, <2>1, <2>3 DEF Sound
<1>4. ASSUME NEW e \in Entries, t = <<Look, HeldThen("ifOn", 0), HeldThen("delete", e)>> PROVE Sound(t)
  <2>1. Begins(<<Look, HeldThen("ifOn", 0), HeldThen("delete", e)>>)
    <3>1. PICK p, q, x : p = Look /\ q = HeldThen("ifOn", 0) /\ x = HeldThen("delete", e)
      OBVIOUS
    <3>2. /\ p \in Steps /\ p.via = "get" /\ p.what = "nothing"
          /\ q \in Steps /\ q.via = "held" /\ q.what = "ifOn"
          /\ x \in Steps /\ x.via = "held" /\ x.what = "delete"
      BY <3>1 DEF HeldThen, Look, GetThen, Steps, StepsOf, OnEntry
    <3>3. Begins(<<p, q, x>>)
      BY <3>2, BeginsThree DEF Follows
    <3> QED
      BY <3>1, <3>3
  <2>2. t \in Seq(PlainSteps) /\ t # <<>> /\ Head(t).via # "held"
    <3>1. Look \in PlainSteps /\ HeldThen("ifOn", 0) \in PlainSteps /\ HeldThen("delete", e) \in PlainSteps
      BY DEF GetThen, HeldThen, Look, PlainSteps, Steps, StepsOf, OnEntry
    <3>2. Look.via # "held"
      BY DEF Look, GetThen
    <3> QED
      BY <1>4, <3>1, <3>2
  <2>3. \A b \in Bodies, r \in Copies, h \in BOOLEAN : Good(b) => Leads(b, t, r, h)
    BY <2>2, PlainLeads
  <2> QED
    BY <1>4, <2>1, <2>3 DEF Sound
<1> QED
  BY <1>1, <1>2, <1>3, <1>4 DEF PlainShape

\* Calls that give fields.
LEMMA GivenSound == feature \in Simple => \A t : GivenShape(t) => Sound(t)
<1> SUFFICES ASSUME feature \in Simple, NEW t, GivenShape(t) PROVE Sound(t)
  OBVIOUS
<1>1. ASSUME NEW v \in Settings, t = <<Ensure, InitThen("on", 0), InitThen("first", v), InitThen("last", v)>> PROVE Sound(t)
  <2>1. Begins(<<Ensure, InitThen("on", 0), InitThen("first", v), InitThen("last", v)>>)
    <3>1. PICK p, q, x, y : p = Ensure /\ q = InitThen("on", 0) /\ x = InitThen("first", v) /\ y = InitThen("last", v)
      OBVIOUS
    <3>2. /\ p \in Steps /\ p.via = "init" /\ p.what = "nothing"
          /\ q \in Steps /\ q.via = "init" /\ q.what = "on"
          /\ x \in Steps /\ x.via = "init" /\ x.what = "first"
          /\ y \in Steps /\ y.via = "init" /\ y.what = "last"
      BY <3>1 DEF Ensure, InitThen, Steps, StepsOf, OnEntry
    <3>3. Begins(<<p, q, x, y>>)
      BY <3>2, BeginsFour DEF Follows
    <3> QED
      BY <3>1, <3>3
  <2>3. \A b \in Bodies, r \in Copies, h \in BOOLEAN : Good(b) => Leads(b, t, r, h)
    BY <1>1, ConfigureLeads, GoodSimple
  <2> QED
    BY <1>1, <2>1, <2>3 DEF Sound
<1>2. ASSUME NEW v \in Settings, t = <<InitThen("on", 0), HeldThen("first", v), HeldThen("last", v)>> PROVE Sound(t)
  <2>1. Begins(<<InitThen("on", 0), HeldThen("first", v), HeldThen("last", v)>>)
    <3>1. PICK p, q, x : p = InitThen("on", 0) /\ q = HeldThen("first", v) /\ x = HeldThen("last", v)
      OBVIOUS
    <3>2. /\ p \in Steps /\ p.via = "init" /\ p.what = "on"
          /\ q \in Steps /\ q.via = "held" /\ q.what = "first"
          /\ x \in Steps /\ x.via = "held" /\ x.what = "last"
      BY <3>1 DEF HeldThen, InitThen, Steps, StepsOf, OnEntry
    <3>3. Begins(<<p, q, x>>)
      BY <3>2, BeginsThree DEF Follows
    <3> QED
      BY <3>1, <3>3
  <2>3. \A b \in Bodies, r \in Copies, h \in BOOLEAN : Good(b) => Leads(b, t, r, h)
    BY <1>2, STPLeads, GoodSimple
  <2> QED
    BY <1>2, <2>1, <2>3 DEF Sound
<1> QED
  BY <1>1, <1>2 DEF GivenShape

\* Calls for NTP and VXLAN.
LEMMA TimedSound == feature \in Timed => \A t : TimedShape(t) => Sound(t)
<1> SUFFICES ASSUME feature \in Timed, NEW t, TimedShape(t) PROVE Sound(t)
  OBVIOUS
<1>0. feature \notin Tabled
  BY DEF Tabled, Timed
<1>1. ASSUME NEW v \in Settings, t = <<Ensure, InitThen("on", 0), InitThen("first", v), InitThen("up", TRUE), InitThen("last", v)>> PROVE Sound(t)
  <2>1. Begins(<<Ensure, InitThen("on", 0), InitThen("first", v), InitThen("up", TRUE), InitThen("last", v)>>)
    <3>1. PICK p, q, x, y, z : p = Ensure /\ q = InitThen("on", 0) /\ x = InitThen("first", v) /\ y = InitThen("up", TRUE) /\ z = InitThen("last", v)
      OBVIOUS
    <3>2. /\ p \in Steps /\ p.via = "init" /\ p.what = "nothing"
          /\ q \in Steps /\ q.via = "init" /\ q.what = "on"
          /\ x \in Steps /\ x.via = "init" /\ x.what = "first"
          /\ y \in Steps /\ y.via = "init" /\ y.what = "up"
          /\ z \in Steps /\ z.via = "init" /\ z.what = "last"
      BY <3>1 DEF Ensure, InitThen, Steps, StepsOf, OnEntry
    <3>3. Begins(<<p, q, x, y, z>>)
      BY <3>2, BeginsFive, <1>0 DEF Follows
    <3> QED
      BY <3>1, <3>3
  <2>3. \A b \in Bodies, r \in Copies, h \in BOOLEAN : Good(b) => Leads(b, t, r, h)
    BY <1>1, ClockLeads, GoodTimed DEF Timed
  <2> QED
    BY <1>1, <2>1, <2>3 DEF Sound
<1>2. ASSUME NEW v \in Settings, t = <<Ensure, InitThen("on", 0), InitThen("first", v), InitThen("last", v), InitThen("up", TRUE)>> PROVE Sound(t)
  <2>1. Begins(<<Ensure, InitThen("on", 0), InitThen("first", v), InitThen("last", v), InitThen("up", TRUE)>>)
    <3>1. PICK p, q, x, y, z : p = Ensure /\ q = InitThen("on", 0) /\ x = InitThen("first", v) /\ y = InitThen("last", v) /\ z = InitThen("up", TRUE)
      OBVIOUS
    <3>2. /\ p \in Steps /\ p.via = "init" /\ p.what = "nothing"
          /\ q \in Steps /\ q.via = "init" /\ q.what = "on"
          /\ x \in Steps /\ x.via = "init" /\ x.what = "first"
          /\ y \in Steps /\ y.via = "init" /\ y.what = "last"
          /\ z \in Steps /\ z.via = "init" /\ z.what = "up"
      BY <3>1 DEF Ensure, InitThen, Steps, StepsOf, OnEntry
    <3>3. Begins(<<p, q, x, y, z>>)
      BY <3>2, BeginsFive, <1>0 DEF Follows
    <3> QED
      BY <3>1, <3>3
  <2>3. \A b \in Bodies, r \in Copies, h \in BOOLEAN : Good(b) => Leads(b, t, r, h)
    BY <1>2, TunnelLeads, GoodTimed DEF Timed
  <2> QED
    BY <1>2, <2>1, <2>3 DEF Sound
<1>3. ASSUME t = <<Look, HeldThen("off", 0), HeldThen("up", FALSE)>> PROVE Sound(t)
  <2>1. Begins(<<Look, HeldThen("off", 0), HeldThen("up", FALSE)>>)
    <3>1. PICK p, q, x : p = Look /\ q = HeldThen("off", 0) /\ x = HeldThen("up", FALSE)
      OBVIOUS
    <3>2. /\ p \in Steps /\ p.via = "get" /\ p.what = "nothing"
          /\ q \in Steps /\ q.via = "held" /\ q.what = "off"
          /\ x \in Steps /\ x.via = "held" /\ x.what = "up"
      BY <3>1 DEF HeldThen, Look, GetThen, Steps, StepsOf, OnEntry
    <3>3. Begins(<<p, q, x>>)
      BY <3>2, BeginsThree, <1>0 DEF Follows
    <3> QED
      BY <3>1, <3>3
  <2>3. \A b \in Bodies, r \in Copies, h \in BOOLEAN : Good(b) => Leads(b, t, r, h)
    BY <1>3, DownLeads, GoodTimed DEF Timed
  <2> QED
    BY <1>3, <2>1, <2>3 DEF Sound
<1> QED
  BY <1>1, <1>2, <1>3 DEF TimedShape

\* Calls for groups and tunnels.
LEMMA GroupsSound == feature \in Grouped /\ calls \in 1..MaxCalls => \A t : GroupShape(t) => Sound(t)
<1> SUFFICES ASSUME feature \in Grouped, calls \in 1..MaxCalls, NEW t, GroupShape(t) PROVE Sound(t)
  OBVIOUS
<1>0. feature \notin Tabled
  BY DEF Tabled, Grouped
<1>1. ASSUME NEW e \in Entries, NEW high \in BOOLEAN, t = <<Ensure, InitThen("on", 0), InitThen("master", [e |-> e, high |-> high])>> PROVE Sound(t)
  <2>1. Begins(<<Ensure, InitThen("on", 0), InitThen("master", [e |-> e, high |-> high])>>)
    <3>1. PICK p, q, x : p = Ensure /\ q = InitThen("on", 0) /\ x = InitThen("master", [e |-> e, high |-> high])
      OBVIOUS
    <3>2. /\ p \in Steps /\ p.via = "init" /\ p.what = "nothing"
          /\ q \in Steps /\ q.via = "init" /\ q.what = "on"
          /\ x \in Steps /\ x.via = "init" /\ x.what = "master"
      BY <3>1 DEF Ensure, InitThen, Steps, StepsOf, OnEntry
    <3>3. Begins(<<p, q, x>>)
      BY <3>2, BeginsThree, <1>0 DEF Follows
    <3> QED
      BY <3>1, <3>3
  <2>3. \A b \in Bodies, r \in Copies, h \in BOOLEAN : Good(b) => Leads(b, t, r, h)
    BY <1>1, GroupLeads, GoodGroups DEF Grouped
  <2> QED
    BY <1>1, <2>1, <2>3 DEF Sound
<1>2. ASSUME NEW e \in Entries, t = <<Ensure, InitThen("on", 0), InitThen("insert", e)>> PROVE Sound(t)
  <2>1. Begins(<<Ensure, InitThen("on", 0), InitThen("insert", e)>>)
    <3>1. PICK p, q, x : p = Ensure /\ q = InitThen("on", 0) /\ x = InitThen("insert", e)
      OBVIOUS
    <3>2. /\ p \in Steps /\ p.via = "init" /\ p.what = "nothing"
          /\ q \in Steps /\ q.via = "init" /\ q.what = "on"
          /\ x \in Steps /\ x.via = "init" /\ x.what = "insert"
      BY <3>1 DEF Ensure, InitThen, Steps, StepsOf, OnEntry
    <3>3. Begins(<<p, q, x>>)
      BY <3>2, BeginsThree, <1>0 DEF Follows
    <3> QED
      BY <3>1, <3>3
  <2>3. \A b \in Bodies, r \in Copies, h \in BOOLEAN : Good(b) => Leads(b, t, r, h)
    BY <1>2, IPsecLeads, GoodGroups DEF Grouped
  <2> QED
    BY <1>2, <2>1, <2>3 DEF Sound
<1>3. ASSUME NEW e \in Entries, t = <<Look, HeldThen("delete", e), HeldThen("ifEmpty", 0), HeldThen("off", 0)>> PROVE Sound(t)
  <2>1. Begins(<<Look, HeldThen("delete", e), HeldThen("ifEmpty", 0), HeldThen("off", 0)>>)
    <3>1. PICK p, q, x, y : p = Look /\ q = HeldThen("delete", e) /\ x = HeldThen("ifEmpty", 0) /\ y = HeldThen("off", 0)
      OBVIOUS
    <3>2. /\ p \in Steps /\ p.via = "get" /\ p.what = "nothing"
          /\ q \in Steps /\ q.via = "held" /\ q.what = "delete"
          /\ x \in Steps /\ x.via = "held" /\ x.what = "ifEmpty"
          /\ y \in Steps /\ y.via = "held" /\ y.what = "off"
      BY <3>1 DEF HeldThen, Look, GetThen, Steps, StepsOf, OnEntry
    <3>3. Begins(<<p, q, x, y>>)
      BY <3>2, BeginsFour, <1>0 DEF Follows
    <3> QED
      BY <3>1, <3>3
  <2>3. \A b \in Bodies, r \in Copies, h \in BOOLEAN : Good(b) => Leads(b, t, r, h)
    BY <1>3, TakeOutLeads, GoodGroups DEF Grouped
  <2> QED
    BY <1>3, <2>1, <2>3 DEF Sound
<1>4. ASSUME NEW e \in Entries, t = <<Look, HeldThen("ifOn", 0), HeldThen("ifThere", e), HeldThen("flip", e), HeldThen("peek", e), HeldThen("says", e)>> PROVE Sound(t)
  <2>1. Begins(<<Look, HeldThen("ifOn", 0), HeldThen("ifThere", e), HeldThen("flip", e), HeldThen("peek", e), HeldThen("says", e)>>)
    <3>1. PICK p, q, x, y, z, w : p = Look /\ q = HeldThen("ifOn", 0) /\ x = HeldThen("ifThere", e) /\ y = HeldThen("flip", e) /\ z = HeldThen("peek", e) /\ w = HeldThen("says", e)
      OBVIOUS
    <3>2. /\ p \in Steps /\ p.via = "get" /\ p.what = "nothing"
          /\ q \in Steps /\ q.via = "held" /\ q.what = "ifOn"
          /\ x \in Steps /\ x.via = "held" /\ x.what = "ifThere"
          /\ y \in Steps /\ y.via = "held" /\ y.what = "flip"
          /\ z \in Steps /\ z.via = "held" /\ z.what = "peek"
          /\ w \in Steps /\ w.via = "held" /\ w.what = "says"
      BY <3>1 DEF HeldThen, Look, GetThen, Steps, StepsOf, OnEntry
    <3>3. Begins(<<p, q, x, y, z, w>>)
      BY <3>2, BeginsSix, <1>0 DEF Follows
    <3> QED
      BY <3>1, <3>3
  <2>3. \A b \in Bodies, r \in Copies, h \in BOOLEAN : Good(b) => Leads(b, t, r, h)
    BY <1>4, FailoverLeads, GoodGroups DEF Grouped
  <2> QED
    BY <1>4, <2>1, <2>3 DEF Sound
<1> QED
  BY <1>1, <1>2, <1>3, <1>4 DEF GroupShape

\* Calls for M-LAG.
LEMMA DomainsSound == feature = "mlag" /\ calls \in 1..MaxCalls => \A t : DomainShape(t) => Sound(t)
<1> SUFFICES ASSUME feature = "mlag", calls \in 1..MaxCalls, NEW t, DomainShape(t) PROVE Sound(t)
  OBVIOUS
<1>0. feature \notin Tabled
  BY DEF Tabled
<1>1. ASSUME t = <<Ensure, InitThen("on", 0), InitThen("domain", 0)>> PROVE Sound(t)
  <2>1. Begins(<<Ensure, InitThen("on", 0), InitThen("domain", 0)>>)
    <3>1. PICK p, q, x : p = Ensure /\ q = InitThen("on", 0) /\ x = InitThen("domain", 0)
      OBVIOUS
    <3>2. /\ p \in Steps /\ p.via = "init" /\ p.what = "nothing"
          /\ q \in Steps /\ q.via = "init" /\ q.what = "on"
          /\ x \in Steps /\ x.via = "init" /\ x.what = "domain"
      BY <3>1 DEF Ensure, InitThen, Steps, StepsOf, OnEntry
    <3>3. Begins(<<p, q, x>>)
      BY <3>2, BeginsThree, <1>0 DEF Follows
    <3> QED
      BY <3>1, <3>3
  <2>3. \A b \in Bodies, r \in Copies, h \in BOOLEAN : Good(b) => Leads(b, t, r, h)
    BY <1>1, StartLeads, GoodDomain DEF SaidAndListed
  <2> QED
    BY <1>1, <2>1, <2>3 DEF Sound
<1>2. ASSUME t = <<Look, HeldThen("off", 0), HeldThen("nil", 0)>> PROVE Sound(t)
  <2>1. Begins(<<Look, HeldThen("off", 0), HeldThen("nil", 0)>>)
    <3>1. PICK p, q, x : p = Look /\ q = HeldThen("off", 0) /\ x = HeldThen("nil", 0)
      OBVIOUS
    <3>2. /\ p \in Steps /\ p.via = "get" /\ p.what = "nothing"
          /\ q \in Steps /\ q.via = "held" /\ q.what = "off"
          /\ x \in Steps /\ x.via = "held" /\ x.what = "nil"
      BY <3>1 DEF HeldThen, Look, GetThen, Steps, StepsOf, OnEntry
    <3>3. Begins(<<p, q, x>>)
      BY <3>2, BeginsThree, <1>0 DEF Follows
    <3> QED
      BY <3>1, <3>3
  <2>3. \A b \in Bodies, r \in Copies, h \in BOOLEAN : Good(b) => Leads(b, t, r, h)
    BY <1>2, StopLeads, GoodDomain DEF SaidAndListed
  <2> QED
    BY <1>2, <2>1, <2>3 DEF Sound
<1>3. ASSUME NEW e \in Entries, t = <<Ensure, Look, HeldThen("ifDomain", 0), HeldThen("insert", e)>> PROVE Sound(t)
  <2>1. Begins(<<Ensure, Look, HeldThen("ifDomain", 0), HeldThen("insert", e)>>)
    <3>1. PICK p, q, x, y : p = Ensure /\ q = Look /\ x = HeldThen("ifDomain", 0) /\ y = HeldThen("insert", e)
      OBVIOUS
    <3>2. /\ p \in Steps /\ p.via = "init" /\ p.what = "nothing"
          /\ q \in Steps /\ q.via = "get" /\ q.what = "nothing"
          /\ x \in Steps /\ x.via = "held" /\ x.what = "ifDomain"
          /\ y \in Steps /\ y.via = "held" /\ y.what = "insert"
      BY <3>1 DEF Ensure, HeldThen, Look, InitThen, GetThen, Steps, StepsOf, OnEntry
    <3>3. Begins(<<p, q, x, y>>)
      BY <3>2, BeginsFour, <1>0 DEF Follows
    <3> QED
      BY <3>1, <3>3
  <2>3. \A b \in Bodies, r \in Copies, h \in BOOLEAN : Good(b) => Leads(b, t, r, h)
    BY <1>3, MemberLeads, GoodDomain DEF SaidAndListed
  <2> QED
    BY <1>3, <2>1, <2>3 DEF Sound
<1>4. ASSUME t = <<Look, HeldThen("ifDomain", 0), HeldThen("up", TRUE)>> PROVE Sound(t)
  <2>1. Begins(<<Look, HeldThen("ifDomain", 0), HeldThen("up", TRUE)>>)
    <3>1. PICK p, q, x : p = Look /\ q = HeldThen("ifDomain", 0) /\ x = HeldThen("up", TRUE)
      OBVIOUS
    <3>2. /\ p \in Steps /\ p.via = "get" /\ p.what = "nothing"
          /\ q \in Steps /\ q.via = "held" /\ q.what = "ifDomain"
          /\ x \in Steps /\ x.via = "held" /\ x.what = "up"
      BY <3>1 DEF HeldThen, Look, GetThen, Steps, StepsOf, OnEntry
    <3>3. Begins(<<p, q, x>>)
      BY <3>2, BeginsThree, <1>0 DEF Follows
    <3> QED
      BY <3>1, <3>3
  <2>3. \A b \in Bodies, r \in Copies, h \in BOOLEAN : Good(b) => Leads(b, t, r, h)
    BY <1>4, PeerLeads, GoodDomain DEF SaidAndListed
  <2> QED
    BY <1>4, <2>1, <2>3 DEF Sound
<1>5. ASSUME t = <<Look, HeldThen("ifOn", 0), HeldThen("ifDomain", 0), HeldThen("up", TRUE)>> PROVE Sound(t)
  <2>1. Begins(<<Look, HeldThen("ifOn", 0), HeldThen("ifDomain", 0), HeldThen("up", TRUE)>>)
    <3>1. PICK p, q, x, y : p = Look /\ q = HeldThen("ifOn", 0) /\ x = HeldThen("ifDomain", 0) /\ y = HeldThen("up", TRUE)
      OBVIOUS
    <3>2. /\ p \in Steps /\ p.via = "get" /\ p.what = "nothing"
          /\ q \in Steps /\ q.via = "held" /\ q.what = "ifOn"
          /\ x \in Steps /\ x.via = "held" /\ x.what = "ifDomain"
          /\ y \in Steps /\ y.via = "held" /\ y.what = "up"
      BY <3>1 DEF HeldThen, Look, GetThen, Steps, StepsOf, OnEntry
    <3>3. Begins(<<p, q, x, y>>)
      BY <3>2, BeginsFour, <1>0 DEF Follows
    <3> QED
      BY <3>1, <3>3
  <2>3. \A b \in Bodies, r \in Copies, h \in BOOLEAN : Good(b) => Leads(b, t, r, h)
    BY <1>5, RelieveLeads, GoodDomain DEF SaidAndListed
  <2> QED
    BY <1>5, <2>1, <2>3 DEF Sound
<1> QED
  BY <1>1, <1>2, <1>3, <1>4, <1>5 DEF DomainShape

\* Calls for lists.
LEMMA ListsSound == feature \in Listed /\ calls \in 1..MaxCalls => \A t : ListShape(t) => Sound(t)
<1> SUFFICES ASSUME feature \in Listed, calls \in 1..MaxCalls, NEW t, ListShape(t) PROVE Sound(t)
  OBVIOUS
<1>0. feature \notin Tabled
  BY DEF Tabled, Listed
<1>1. ASSUME t = <<Ensure, Ensure, InitThen("copy", 0), HeldThen("append", 0)>> PROVE Sound(t)
  <2>1. Begins(<<Ensure, Ensure, InitThen("copy", 0), HeldThen("append", 0)>>)
    <3>1. PICK p, q, x, y : p = Ensure /\ q = Ensure /\ x = InitThen("copy", 0) /\ y = HeldThen("append", 0)
      OBVIOUS
    <3>2. /\ p \in Steps /\ p.via = "init" /\ p.what = "nothing"
          /\ q \in Steps /\ q.via = "init" /\ q.what = "nothing"
          /\ x \in Steps /\ x.via = "init" /\ x.what = "copy"
          /\ y \in Steps /\ y.via = "held" /\ y.what = "append"
      BY <3>1 DEF Ensure, HeldThen, InitThen, Steps, StepsOf, OnEntry
    <3>3. Begins(<<p, q, x, y>>)
      BY <3>2, BeginsFour, <1>0 DEF Follows
    <3> QED
      BY <3>1, <3>3
  <2>3. \A b \in Bodies, r \in Copies, h \in BOOLEAN : Good(b) => Leads(b, t, r, h)
    BY <1>1, AppendLeads, GoodSimple DEF Listed, Simple
  <2> QED
    BY <1>1, <2>1, <2>3 DEF Sound
<1>2. ASSUME t = <<Look, HeldThen("ifDomain", 0), HeldThen("copy", 0), HeldThen("append", 0)>> PROVE Sound(t)
  <2>1. Begins(<<Look, HeldThen("ifDomain", 0), HeldThen("copy", 0), HeldThen("append", 0)>>)
    <3>1. PICK p, q, x, y : p = Look /\ q = HeldThen("ifDomain", 0) /\ x = HeldThen("copy", 0) /\ y = HeldThen("append", 0)
      OBVIOUS
    <3>2. /\ p \in Steps /\ p.via = "get" /\ p.what = "nothing"
          /\ q \in Steps /\ q.via = "held" /\ q.what = "ifDomain"
          /\ x \in Steps /\ x.via = "held" /\ x.what = "copy"
          /\ y \in Steps /\ y.via = "held" /\ y.what = "append"
      BY <3>1 DEF HeldThen, Look, GetThen, Steps, StepsOf, OnEntry
    <3>3. Begins(<<p, q, x, y>>)
      BY <3>2, BeginsFour, <1>0 DEF Follows
    <3> QED
      BY <3>1, <3>3
  <2>3. \A b \in Bodies, r \in Copies, h \in BOOLEAN : Good(b) => Leads(b, t, r, h)
    BY <1>2, ExtendLeads, GoodSimple DEF Listed, Simple
  <2> QED
    BY <1>2, <2>1, <2>3 DEF Sound
<1>3. ASSUME t = <<Ensure, Look, HeldThen("on", 0), HeldThen("domain", 0)>> PROVE Sound(t)
  <2>1. Begins(<<Ensure, Look, HeldThen("on", 0), HeldThen("domain", 0)>>)
    <3>1. PICK p, q, x, y : p = Ensure /\ q = Look /\ x = HeldThen("on", 0) /\ y = HeldThen("domain", 0)
      OBVIOUS
    <3>2. /\ p \in Steps /\ p.via = "init" /\ p.what = "nothing"
          /\ q \in Steps /\ q.via = "get" /\ q.what = "nothing"
          /\ x \in Steps /\ x.via = "held" /\ x.what = "on"
          /\ y \in Steps /\ y.via = "held" /\ y.what = "domain"
      BY <3>1 DEF Ensure, HeldThen, Look, InitThen, GetThen, Steps, StepsOf, OnEntry
    <3>3. Begins(<<p, q, x, y>>)
      BY <3>2, BeginsFour, <1>0 DEF Follows
    <3> QED
      BY <3>1, <3>3
  <2>3. \A b \in Bodies, r \in Copies, h \in BOOLEAN : Good(b) => Leads(b, t, r, h)
    BY <1>3, CreateLeads, GoodSimple DEF Listed, Simple
  <2> QED
    BY <1>3, <2>1, <2>3 DEF Sound
<1> QED
  BY <1>1, <1>2, <1>3 DEF ListShape

\* Every list of steps that a call can have begins well and leads where it must.
AllSound == calls \in 1..MaxCalls => \A t : Shape(t) => Sound(t)

\* All of them.
LEMMA ShapesSound == AllSound
BY PlainSound, GivenSound, TimedSound, GroupsSound, DomainsSound, ListsSound DEF AllSound, Shape

-----------------------------------------------------------------------------
(* The invariant of the calls.                                             *)

NowBody == IF cur = 0 THEN NewBody ELSE body[cur]

\* Clients that are still to put a list back.
Waits(t) == \E i \in 1..Len(t) : t[i].what = "append"
Appending == {c \in Clients : Waits(todo[c])}

RouterTypes ==
  /\ gen \in 0..MaxGens /\ cur \in 0..gen /\ calls \in 0..MaxCalls
  /\ raced \in BOOLEAN /\ panicked \in BOOLEAN
  /\ body \in [1..MaxGens -> Bodies] /\ \A g \in 1..MaxGens : g > gen => body[g] = NewBody
  /\ todo \in [Clients -> Seq(Steps)] /\ \A c \in Clients : InOrder(todo[c])
  /\ held \in [Clients -> 0..MaxGens] /\ \A c \in Clients : held[c] <= gen /\ (todo[c] = <<>> => held[c] = 0)
  /\ copy \in [Clients -> Copies]

\* No list is longer than the calls that are done with theirs.
ListsInv ==
  /\ IsFiniteSet(Appending)
  /\ \A g \in 1..MaxGens : body[g].list + Cardinality(Appending) <= calls
  /\ \A c \in Clients : copy[c].list + Cardinality(Appending) <= calls

\* A feature with a table was enabled in every router in which it is, and into which an
\* entry is about to come.
EnabledInv ==
  feature \in Tabled =>
    /\ \A g \in 1..MaxGens : (body[g].on => body[g].used) /\ (There(body[g]) # {} => body[g].used)
    /\ \A c \in Clients : Busy(c) /\ Head(todo[c]).what = "insert" =>
         Head(todo[c]).via = "held" /\ held[c] # 0 /\ body[held[c]].used

\* Until calls meet, one call at most is under way, and it leads to a good router.
CalmInv ==
  /\ panicked => raced
  /\ ~ raced => \A n : n = NowBody =>
       /\ Quiet => Good(n)
       /\ \A c \in Clients : Busy(c) =>
            /\ \A d \in Clients : d # c => ~ Busy(d)
            /\ held[c] \in {0, cur}
            /\ \A t, r, h : t = todo[c] /\ r = copy[c] /\ h = (held[c] # 0) => Leads(n, t, r, h)

RowsInv ==
  /\ table \in Seq(IF feature = "acl" THEN Rules ELSE Routes)
  /\ Len(table) <= MaxRules

RouterCallsInv == RouterTypes /\ ListsInv /\ EnabledInv /\ CalmInv /\ RowsInv

\* A step of client c in router g, which is b and becomes w.
Stepped(c, g, h, s, t, b, r, w, on) ==
  /\ s = Head(todo[c]) /\ t = Tail(todo[c]) /\ r = copy[c] /\ w = Written(b, s, r)
  /\ g # 0 => b = body[g]
  /\ on <=> g # 0 /\ GoesOn(b, s)
  /\ todo' = [todo EXCEPT ![c] = IF on THEN t ELSE <<>>]
  /\ held' = [held EXCEPT ![c] = IF on /\ t # <<>> THEN h ELSE 0]
  /\ body' = IF g = 0 THEN body ELSE [body EXCEPT ![g] = w]
  /\ copy' = [copy EXCEPT ![c] = IF on /\ t # <<>> THEN Reads(b, s, r) ELSE NoCopy]

\* Sequences of more than one.
LEMMA LongerThanOne ==
  ASSUME NEW S, NEW u \in Seq(S), u # <<>>
  PROVE  Len(u) \in Nat /\ Len(u) >= 1 /\ (Len(u) > 1 <=> Tail(u) # <<>>)
<1>1. PICK v \in Seq(S) : v = Tail(u) /\ Len(v) = Len(u) - 1
  BY HeadTailProperties, Zenon
<1>2. PICK m \in Nat, n \in Nat : m = Len(u) /\ n = Len(v) /\ n = m - 1
  BY <1>1, LenProperties, Zenon
<1>3. v = <<>> <=> n = 0
  BY <1>2, EmptySeq
<1> QED
  BY <1>1, <1>2, <1>3

\* A step that is taken is such a step.
LEMMA StepTaken ==
  ASSUME RouterTypes, NEW c \in Clients, Busy(c), NEW g \in 0..MaxGens, NEW h, StepIn(c, g, h)
  PROVE  \E s \in Steps, t \in Seq(Steps), b \in Bodies, r \in Copies, w \in Bodies, on \in BOOLEAN :
           Stepped(c, g, h, s, t, b, r, w, on)
<1>1. todo[c] \in Seq(Steps) /\ todo[c] # <<>>
  BY DEF RouterTypes, Busy
<1>2. PICK s \in Steps, t \in Seq(Steps) :
        s = Head(todo[c]) /\ t = Tail(todo[c]) /\ (Len(todo[c]) > 1 <=> t # <<>>)
  <2>1. PICK u \in Seq(Steps) : u = todo[c] /\ u # <<>>
    BY <1>1
  <2>2. Head(u) \in Steps /\ Tail(u) \in Seq(Steps) /\ (Len(u) > 1 <=> Tail(u) # <<>>)
    BY <2>1, LongerThanOne, HeadTailProperties
  <2> QED
    BY <2>1, <2>2, Zenon
<1>3. PICK b \in Bodies : g # 0 => b = body[g]
  <2>1. CASE g = 0
    BY <2>1, NewBodyTyped
  <2>2. CASE g # 0
    <3>1. g \in 1..MaxGens
      BY <2>2, RoutersAssumption
    <3> QED
      BY <3>1 DEF RouterTypes
  <2> QED
    BY <2>1, <2>2
<1>4. PICK r \in Copies : r = copy[c]
  BY DEF RouterTypes
<1>5. PICK w \in Bodies : w = Written(b, s, r)
  BY StepTyped DEF RouterTypes
<1>6. PICK on \in BOOLEAN : on <=> g # 0 /\ GoesOn(b, s)
  OBVIOUS
<1>7. on <=> g # 0 /\ GoesOn(body[g], s)
  BY <1>3, <1>6
<1>8. /\ todo' = [todo EXCEPT ![c] = IF on THEN t ELSE <<>>]
      /\ held' = [held EXCEPT ![c] = IF on /\ t # <<>> THEN h ELSE 0]
  BY <1>2, <1>7, Zenon DEF StepIn
<1>9. body' = IF g = 0 THEN body ELSE [body EXCEPT ![g] = w]
  <2>1. body' = IF g = 0 THEN body ELSE [body EXCEPT ![g] = Written(body[g], s, r)]
    BY <1>2, <1>4, Zenon DEF StepIn
  <2> QED
    BY <1>3, <1>5, <2>1
<1>10. copy' = [copy EXCEPT ![c] = IF on /\ t # <<>> THEN Reads(b, s, r) ELSE NoCopy]
  <2>1. copy' = [copy EXCEPT ![c] = IF on /\ t # <<>> THEN Reads(body[g], s, r) ELSE NoCopy]
    BY <1>2, <1>4, <1>7, Zenon DEF StepIn
  <2> QED
    BY <1>3, <1>6, <2>1
<1> QED
  BY <1>2, <1>3, <1>4, <1>5, <1>6, <1>8, <1>9, <1>10 DEF Stepped

\* What is left after a step is still in order.
LEMMA RestInOrder ==
  ASSUME NEW t, InOrder(t), t # <<>>
  PROVE  /\ InOrder(Tail(t)) /\ InOrder(<<>>)
         /\ Head(t).what = "append" => Tail(t) = <<>>
         /\ feature \in Tabled => Head(t).what # "master"
         /\ feature \in Tabled /\ Tail(t) # <<>> /\ Head(Tail(t)).what = "insert" =>
              Head(Tail(t)).via = "held" /\ Head(t).via = "held" /\ Head(t).what = "ifOn"
<1>1. t \in Seq(Steps) /\ Len(t) \in Nat /\ Len(t) >= 1
  BY EmptySeq DEF InOrder
<1>2. PICK u \in Seq(Steps) : u = Tail(t) /\ Len(u) = Len(t) - 1 /\ \A i \in 1..Len(u) : u[i] = t[i + 1]
  BY <1>1, HeadTailProperties
<1>3. Head(t) = t[1] /\ Len(u) \in Nat /\ (u # <<>> => Len(u) >= 1 /\ Head(u) = u[1])
  BY <1>1, <1>2, EmptySeq
<1>4. InOrder(u)
  <2>1. \A i \in 1..Len(u) : u[i].what = "append" => i = Len(u)
    <3> SUFFICES ASSUME NEW i \in 1..Len(u), u[i].what = "append" PROVE i = Len(u)
      OBVIOUS
    <3>1. i + 1 \in 1..Len(t) /\ t[i + 1].what = "append"
      BY <1>1, <1>2, <1>3
    <3>2. PICK n \in Nat, m \in Nat : n = Len(t) /\ m = Len(u) /\ m = n - 1
      BY <1>1, <1>2, <1>3, Zenon
    <3>3. i + 1 = n /\ i \in Nat
      BY <3>1, <3>2 DEF InOrder
    <3> QED
      BY <3>2, <3>3
  <2>2. ASSUME feature \in Tabled, NEW i \in 1..Len(u)
        PROVE  /\ u[i].what # "master"
               /\ u[i].what = "insert" /\ i > 1 => u[i].via = "held" /\ u[i - 1].via = "held" /\ u[i - 1].what = "ifOn"
    <3>1. i + 1 \in 1..Len(t) /\ i + 1 > 1 /\ u[i] = t[i + 1]
      BY <1>1, <1>2, <1>3
    <3>2. PICK j : j = i + 1
      OBVIOUS
    <3>3. /\ t[j].what # "master"
          /\ t[j].what = "insert" /\ j > 1 => t[j].via = "held" /\ t[j - 1].via = "held" /\ t[j - 1].what = "ifOn"
      BY <2>2, <3>1, <3>2, Zenon DEF InOrder
    <3>4. i > 1 => i - 1 \in 1..Len(u) /\ u[i - 1] = t[j - 1]
      BY <1>1, <1>2, <1>3, <3>2
    <3> QED
      BY <3>1, <3>2, <3>3, <3>4
  <2> QED
    BY <2>1, <2>2 DEF InOrder
<1>5. InOrder(<<>>)
  <2>1. <<>> \in Seq(Steps) /\ 1..Len(<<>>) = {}
    OBVIOUS
  <2> QED
    BY <2>1 DEF InOrder
<1>6. Head(t).what = "append" => u = <<>>
  <2>1. 1 \in 1..Len(t)
    BY <1>1
  <2>2. Head(t).what = "append" => 1 = Len(t)
    BY <1>3, <2>1 DEF InOrder
  <2> QED
    BY <1>1, <1>2, <2>2, LongerThanOne
<1>7. feature \in Tabled => Head(t).what # "master"
  BY <1>1, <1>3 DEF InOrder
<1>8. feature \in Tabled /\ u # <<>> /\ Head(u).what = "insert" =>
        Head(u).via = "held" /\ Head(t).via = "held" /\ Head(t).what = "ifOn"
  <2> SUFFICES ASSUME feature \in Tabled, u # <<>>, Head(u).what = "insert"
               PROVE  Head(u).via = "held" /\ Head(t).via = "held" /\ Head(t).what = "ifOn"
    OBVIOUS
  <2>1. 2 \in 1..Len(t) /\ Head(u) = t[2] /\ 2 - 1 = 1 /\ 2 > 1
    BY <1>1, <1>2, <1>3
  <2>2. t[2].what = "insert" /\ 2 > 1 => t[2].via = "held" /\ t[2 - 1].via = "held" /\ t[2 - 1].what = "ifOn"
    BY <2>1, Zenon DEF InOrder
  <2> QED
    BY <1>3, <2>1, <2>2
<1> QED
  BY <1>2, <1>4, <1>5, <1>6, <1>7, <1>8

\* Who still waits to put a list back after a step.
LEMMA RestWaits ==
  ASSUME NEW t, InOrder(t), t # <<>>
  PROVE  /\ Waits(Tail(t)) => Waits(t)
         /\ ~ Waits(<<>>)
         /\ Head(t).what = "append" => Waits(t)
<1>1. t \in Seq(Steps) /\ Len(t) \in Nat /\ Len(t) >= 1
  BY LongerThanOne, Zenon DEF InOrder
<1>2. PICK u \in Seq(Steps) : u = Tail(t) /\ Len(u) = Len(t) - 1 /\ \A i \in 1..Len(u) : u[i] = t[i + 1]
  BY <1>1, HeadTailProperties
<1>3. PICK n \in Nat, m \in Nat : n = Len(t) /\ m = Len(u) /\ m = n - 1
  BY <1>1, <1>2, LenProperties, Zenon
<1>4. Waits(u) => Waits(t)
  <2>1. \A i \in 1..m : i + 1 \in 1..n
    BY <1>3
  <2> QED
    BY <1>2, <1>3, <2>1 DEF Waits
<1>5. ~ Waits(<<>>)
  <2>1. 1..Len(<<>>) = {}
    OBVIOUS
  <2> QED
    BY <2>1 DEF Waits
<1>6. Head(t).what = "append" => Waits(t)
  <2>1. 1 \in 1..Len(t) /\ Head(t) = t[1]
    BY <1>1
  <2> QED
    BY <2>1 DEF Waits
<1> QED
  BY <1>2, <1>4, <1>5, <1>6

\* What happens to a router's list in a step, and to the copy of it.
LEMMA ListWritten ==
  ASSUME NEW b \in Bodies, NEW s \in Steps, NEW r \in Copies, NEW w \in Bodies, w = Written(b, s, r), calls \in 0..MaxCalls
  PROVE  /\ w.list \in {0, b.list} \/ (s.what = "append" /\ w.list = r.list + 1)
         /\ Reads(b, s, r).list \in {0, b.list, r.list} /\ NoCopy.list = 0
<1>1. w.list \in {0, b.list} \/ (s.what = "append" /\ w.list = r.list + 1)
  <2>1. CASE s.what \in EntrySteps
    BY <2>1, EntryWritten, EntryRest
  <2>2. CASE s.what \in DomainSteps
    BY <2>2, DomainWritten DEF DomainSet
  <2>3. CASE s.what \in FieldSteps
    BY <2>3, FieldWritten DEF FieldSet
  <2>4. s.what \in EntrySteps \cup DomainSteps \cup FieldSteps
    BY StepArgs DEF OnEntry, EntrySteps, DomainSteps, FieldSteps, Conditions
  <2> QED
    BY <2>1, <2>2, <2>3, <2>4
<1>2. Reads(b, s, r).list \in {0, b.list, r.list}
  BY DEF Reads, NoCopy
<1> QED
  BY <1>1, <1>2 DEF NoCopy

\* A feature with a table stays one that was enabled where it is.
LEMMA EnabledWritten ==
  ASSUME NEW b \in Bodies, NEW s \in Steps, NEW r \in Copies, NEW w \in Bodies, w = Written(b, s, r), calls \in 0..MaxCalls,
         b.on => b.used, There(b) # {} => b.used, s.what # "master", s.what = "insert" => b.used
  PROVE  /\ (w.on => w.used) /\ (There(w) # {} => w.used) /\ (b.used => w.used)
<1>1. CASE s.what \in EntrySteps
  <2>1. EntrySet(b, s, r, w)
    BY <1>1, EntryWritten
  <2>2. w.on = b.on /\ w.used = b.used
    BY <2>1, EntryRest
  <2>3. There(w) # {} => There(b) # {} \/ s.what = "insert"
    BY <1>1, <2>1, EntryThere DEF EntrySteps
  <2> QED
    BY <2>2, <2>3
<1>2. CASE s.what \in DomainSteps
  <2>1. DomainSet(b, s, r, w)
    BY <1>2, DomainWritten
  <2>2. w.on = b.on /\ w.used = b.used
    BY <2>1 DEF DomainSet
  <2>3. There(w) # {} => There(b) # {}
    <3>1. s.what = "append" => There(w) = There(b)
      BY <2>1 DEF DomainSet, There
    <3>2. s.what # "append" => \A e \in Entries : w.entry[e].there = FALSE
      BY <2>1 DEF DomainSet, NoEntry
    <3> QED
      BY <3>1, <3>2 DEF There
  <2> QED
    BY <2>2, <2>3
<1>3. CASE s.what \in FieldSteps
  <2>1. FieldSet(b, s, w)
    BY <1>3, FieldWritten
  <2>2. There(w) = There(b)
    BY <2>1 DEF FieldSet, There
  <2>3. w.used = (b.used \/ s.what = "on") /\ w.on = ((b.on \/ s.what = "on") /\ s.what # "off")
    BY <2>1 DEF FieldSet
  <2> QED
    BY <2>2, <2>3
<1>4. s.what \in EntrySteps \cup DomainSteps \cup FieldSteps
  BY StepArgs DEF OnEntry, EntrySteps, DomainSteps, FieldSteps, Conditions
<1> QED
  BY <1>1, <1>2, <1>3, <1>4

-----------------------------------------------------------------------------
(* A step of a call.                                                       *)

\* The three kinds of steps have in common what they leave alone, and that the router they
\* work in is there.
StepOf(c, g, h) ==
  /\ c \in Clients /\ Busy(c) /\ StepIn(c, g, h) /\ g \in 0..MaxGens /\ h \in 0..MaxGens
  /\ UNCHANGED <<feature, calls, raced, table>>
  /\ gen' \in gen..MaxGens /\ cur' \in 0..gen' /\ g <= gen' /\ h <= gen'
  /\ panicked' \in BOOLEAN
  /\ Head(todo[c]).via = "held" => g = held[c] /\ h = held[c]

\* The types stay.
LEMMA StepTypes == ASSUME RouterTypes, NEW c, NEW g, NEW h, StepOf(c, g, h) PROVE RouterTypes'
<1>0. /\ c \in Clients /\ Busy(c) /\ g \in 0..MaxGens /\ h \in 0..MaxGens /\ StepIn(c, g, h) /\ g <= gen' /\ h <= gen'
      /\ gen' \in gen..MaxGens /\ cur' \in 0..gen' /\ calls' = calls /\ raced' = raced /\ feature' = feature /\ panicked' \in BOOLEAN
      /\ gen \in Nat /\ MaxGens \in Nat
  BY RoutersAssumption DEF StepOf, RouterTypes
<1>1. PICK s \in Steps, t \in Seq(Steps), b \in Bodies, r \in Copies, w \in Bodies, on \in BOOLEAN :
        Stepped(c, g, h, s, t, b, r, w, on)
  BY <1>0, StepTaken
<1>2. body' \in [1..MaxGens -> Bodies] /\ \A x \in 1..MaxGens : x > gen' => body'[x] = NewBody
  <2>1. CASE g = 0
    BY <1>0, <1>1, <2>1 DEF Stepped, RouterTypes
  <2>2. CASE g # 0
    <3>1. body' = [body EXCEPT ![g] = w] /\ g \in 1..MaxGens
      BY <1>0, <1>1, <2>2 DEF Stepped
    <3>2. \A x \in 1..MaxGens : x > gen' => x # g /\ x > gen
      BY <1>0
    <3> QED
      BY <3>1, <3>2 DEF RouterTypes
  <2> QED
    BY <2>1, <2>2
<1>3. PICK u \in Seq(Steps) : u = (IF on THEN t ELSE <<>>) /\ todo' = [todo EXCEPT ![c] = u]
  <2>1. (IF on THEN t ELSE <<>>) \in Seq(Steps)
    BY EmptySeq
  <2>2. todo' = [todo EXCEPT ![c] = IF on THEN t ELSE <<>>]
    BY <1>1, Zenon DEF Stepped
  <2> QED
    BY <2>1, <2>2, Zenon
<1>4. /\ todo' \in [Clients -> Seq(Steps)] /\ todo'[c] = u
      /\ \A d \in Clients : d # c => todo'[d] = todo[d]
  BY <1>0, <1>3 DEF RouterTypes
<1>5. ASSUME NEW d \in Clients PROVE InOrder(todo[d])'
  <2>1. InOrder(todo'[d])
    <3>1. InOrder(todo[c]) /\ todo[c] # <<>>
      BY <1>0 DEF RouterTypes, Busy
    <3>2. InOrder(u)
      BY <1>1, <1>3, <3>1, RestInOrder DEF Stepped
    <3> QED
      BY <1>4, <3>2 DEF RouterTypes
  <2> QED
    BY <1>0, <2>1 DEF InOrder
<1>6. /\ held' \in [Clients -> 0..MaxGens] /\ held'[c] = (IF on /\ t # <<>> THEN h ELSE 0)
      /\ \A d \in Clients : d # c => held'[d] = held[d]
  <2>1. PICK y \in 0..MaxGens : y = (IF on /\ t # <<>> THEN h ELSE 0) /\ held' = [held EXCEPT ![c] = y]
    <3>1. (IF on /\ t # <<>> THEN h ELSE 0) \in 0..MaxGens
      BY <1>0
    <3>2. held' = [held EXCEPT ![c] = IF on /\ t # <<>> THEN h ELSE 0]
      BY <1>1, Zenon DEF Stepped
    <3> QED
      BY <3>1, <3>2, Zenon
  <2> QED
    BY <1>0, <2>1 DEF RouterTypes
<1>7. ASSUME NEW d \in Clients PROVE held'[d] <= gen' /\ (todo'[d] = <<>> => held'[d] = 0)
  <2>1. CASE d = c
    BY <1>0, <1>3, <1>4, <1>6, <2>1
  <2>2. CASE d # c
    <3>1. held[d] <= gen /\ held[d] \in 0..MaxGens /\ (todo[d] = <<>> => held[d] = 0)
      BY DEF RouterTypes
    <3> QED
      BY <1>0, <1>4, <1>6, <2>2, <3>1
  <2> QED
    BY <2>1, <2>2
<1>8. copy' \in [Clients -> Copies]
  <2>1. Reads(b, s, r) \in Copies /\ NoCopy \in Copies
    BY StepTyped, RoutersAssumption DEF RouterTypes, NoCopy, Copies
  <2>2. PICK y \in Copies : copy' = [copy EXCEPT ![c] = y]
    BY <1>1, <2>1 DEF Stepped
  <2> QED
    BY <2>2 DEF RouterTypes
<1>9. gen' \in 0..MaxGens /\ calls' \in 0..MaxCalls /\ raced' \in BOOLEAN
  BY <1>0 DEF RouterTypes
<1>10. NewBody' = NewBody
  BY <1>0 DEF NewBody
<1> QED
  BY <1>0, <1>2, <1>4, <1>5, <1>6, <1>7, <1>8, <1>9, <1>10, Zenon DEF RouterTypes

-----------------------------------------------------------------------------
(* Good routers and calls that lead to them are what they were.            *)

\* A router is good for its feature alone.
LEMMA GoodStays == ASSUME NEW b, feature' = feature PROVE Good(b)' <=> Good(b)
BY DEF Good, OneConfiguration, GroupsEnable, SaidAndListed, There

\* What a step writes depends on the number of calls, for the tags, and on nothing else that varies.
LEMMA WrittenStays == ASSUME NEW b, NEW s, NEW r, calls' = calls PROVE Written(b, s, r)' = Written(b, s, r)
BY DEF Written

\* Which steps panic depends on the feature alone.
LEMMA FailsStays == ASSUME NEW b, NEW s, feature' = feature PROVE NilDomain(b, s)' <=> NilDomain(b, s)
BY DEF NilDomain

\* So a step that stays in a set goes on doing so,
LEMMA StaysInStays ==
  ASSUME NEW L, NEW b, NEW t, NEW r, NEW h, feature' = feature, calls' = calls, StaysIn(L, b, t, r, h)
  PROVE  StaysIn(L, b, t, r, h)'
<1>1. PICK s : s = Head(t)
  OBVIOUS
<1>2. PICK w : w = Written(b, s, r)
  OBVIOUS
<1>3. w = Written(b, s, r)'
  BY <1>2, WrittenStays
<1>4. /\ Good(b)' <=> Good(b)
      /\ Good(w)' <=> Good(w)
      /\ NilDomain(b, s)' <=> NilDomain(b, s)
  BY GoodStays, FailsStays
<1>5. /\ t = <<>> => Good(b)
      /\ t # <<>> => /\ s.via = "held" \/ s.what = "copy" => h = TRUE
                     /\ ~ NilDomain(b, s)
                     /\ GoesOn(b, s) => <<w, Tail(t), Reads(b, s, r), TRUE>> \in L
                     /\ ~ GoesOn(b, s) => Good(w)
  BY <1>1, <1>2 DEF StaysIn
<1> QED
  BY <1>1, <1>3, <1>4, <1>5 DEF StaysIn

\* and a call leads where it did.
LEMMA LeadsStays ==
  ASSUME NEW b, NEW t, NEW r, NEW h, feature' = feature, calls' = calls, Leads(b, t, r, h)
  PROVE  Leads(b, t, r, h)'
<1>1. PICK L : Leading(L) /\ <<b, t, r, h>> \in L
  BY DEF Leads
<1>2. ASSUME NEW x, NEW y, NEW z, NEW v, <<x, y, z, v>> \in L PROVE StaysIn(L, x, y, z, v)'
  <2>1. StaysIn(L, x, y, z, v)
    BY <1>1, <1>2, Zenon DEF Leading
  <2> QED
    BY <2>1, StaysInStays
<1>3. Leading(L)'
  BY <1>2, Zenon DEF Leading
<1> QED
  BY <1>1, <1>3 DEF Leads

\* A new router is good.
LEMMA NewBodyGood == Good(NewBody)
<1>1. /\ NewBody.first = NewBody.last /\ NewBody.up = FALSE /\ NewBody.on = (feature = "ssh") /\ NewBody.domain = 0
      /\ NewBody.list = NewBody.told
  BY DEF NewBody
<1>2. \A e \in Entries : NewBody.entry[e].master = FALSE
  BY DEF NewBody, NoEntry
<1>3. There(NewBody) = {}
  BY NewBodyTyped
<1> QED
  BY <1>1, <1>2, <1>3 DEF Good, OneConfiguration, GroupsEnable, SaidAndListed

-----------------------------------------------------------------------------
(* The rest of the invariant in a step.                                    *)

\* The lists.
LEMMA StepLists == ASSUME RouterTypes, ListsInv, NEW c, NEW g, NEW h, StepOf(c, g, h) PROVE ListsInv'
<1>0. c \in Clients /\ Busy(c) /\ g \in 0..MaxGens /\ StepIn(c, g, h) /\ calls' = calls /\ calls \in 0..MaxCalls /\ MaxGens \in Nat
  BY RoutersAssumption DEF StepOf, RouterTypes
<1>1. PICK s \in Steps, t \in Seq(Steps), b \in Bodies, r \in Copies, w \in Bodies, on \in BOOLEAN :
        Stepped(c, g, h, s, t, b, r, w, on)
  BY <1>0, StepTaken
<1>2. PICK u : u = (IF on THEN t ELSE <<>>)
  OBVIOUS
<1>3. /\ todo'[c] = u /\ \A d \in Clients : d # c => todo'[d] = todo[d]
  BY <1>0, <1>1, <1>2 DEF Stepped, RouterTypes
<1>4. /\ Waits(u) => Waits(todo[c])
      /\ s.what = "append" => Waits(todo[c]) /\ ~ Waits(u)
  <2>1. InOrder(todo[c]) /\ todo[c] # <<>>
    BY <1>0 DEF RouterTypes, Busy
  <2>2. s = Head(todo[c]) /\ t = Tail(todo[c])
    BY <1>1 DEF Stepped
  <2>3. s.what = "append" => t = <<>>
    BY <2>1, <2>2, RestInOrder
  <2> QED
    BY <1>2, <2>1, <2>2, <2>3, RestWaits
<1>5. PICK W, V : W = Appending /\ V = Appending'
  OBVIOUS
<1>6. IsFiniteSet(W) /\ IsFiniteSet(V) /\ \E n, m \in Nat :
        n = Cardinality(W) /\ m = Cardinality(V) /\ m <= n /\ (s.what = "append" => m + 1 <= n)
  <2>1. \A d : d \in W <=> d \in Clients /\ Waits(todo[d])
    BY <1>5 DEF Appending
  <2>2. \A d : d \in V <=> d \in Clients /\ Waits(todo'[d])
    BY <1>5 DEF Appending, Waits
  <2>3. V \subseteq W
    BY <1>3, <1>4, <2>1, <2>2, Zenon
  <2>4. s.what = "append" => c \in W /\ V \subseteq W \ {c}
    BY <1>0, <1>3, <1>4, <2>1, <2>2, <2>3
  <2>5. IsFiniteSet(W)
    BY <1>5 DEF ListsInv
  <2>6. IsFiniteSet(V) /\ Cardinality(V) <= Cardinality(W)
    BY <2>3, <2>5, FS_Subset
  <2>7. IsFiniteSet(W \ {c}) /\ (c \in W => Cardinality(W \ {c}) = Cardinality(W) - 1)
    BY <2>5, FS_RemoveElement
  <2>8. s.what = "append" => Cardinality(V) <= Cardinality(W \ {c})
    BY <2>4, <2>7, FS_Subset
  <2>9. PICK n \in Nat, m \in Nat : n = Cardinality(W) /\ m = Cardinality(V)
    BY <2>5, <2>6, FS_CardinalityType
  <2> QED
    BY <2>4, <2>5, <2>6, <2>7, <2>8, <2>9
<1>7. PICK n \in Nat, m \in Nat :
        n = Cardinality(W) /\ m = Cardinality(V) /\ m <= n /\ (s.what = "append" => m + 1 <= n)
  BY <1>6
<1>8. /\ \A x \in 1..MaxGens : body[x].list + n <= calls /\ body[x].list \in Nat
      /\ \A d \in Clients : copy[d].list + n <= calls /\ copy[d].list \in Nat
      /\ n <= calls
  <2>1. \A x \in 1..MaxGens : body[x].list + n <= calls /\ body[x].list \in Nat
    BY <1>5, <1>7 DEF ListsInv, RouterTypes, Bodies
  <2>2. \A d \in Clients : copy[d].list + n <= calls /\ copy[d].list \in Nat
    BY <1>5, <1>7 DEF ListsInv, RouterTypes, Copies
  <2>3. n <= calls
    BY <1>0, <1>7, <2>2
  <2> QED
    BY <2>1, <2>2, <2>3
<1>9. r = copy[c] /\ (g # 0 => b = body[g] /\ g \in 1..MaxGens)
  BY <1>0, <1>1 DEF Stepped
<1>10. w.list \in Nat /\ Reads(b, s, r).list \in Nat /\ b.list \in Nat /\ r.list \in Nat
  BY StepTyped DEF Bodies, Copies, RouterTypes
<1>11. /\ w.list \in {0, b.list} \/ (s.what = "append" /\ w.list = r.list + 1)
       /\ Reads(b, s, r).list \in {0, b.list, r.list} /\ NoCopy.list = 0
  <2>1. w = Written(b, s, r)
    BY <1>1 DEF Stepped
  <2> QED
    BY <1>0, <2>1, ListWritten
<1>12. ASSUME NEW x \in 1..MaxGens PROVE body'[x].list + m <= calls'
  <2>1. CASE g # 0 /\ x = g
    <3>1. body'[x] = w
      BY <1>1, <1>9, <2>1 DEF Stepped, RouterTypes
    <3>2. b.list + n <= calls /\ r.list + n <= calls
      BY <1>0, <1>8, <1>9, <2>1
    <3>3. PICK k \in Nat, p \in Nat, q \in Nat, a \in Nat : k = w.list /\ p = b.list /\ q = r.list /\ a = calls
      BY <1>0, <1>10
    <3>4. k = 0 \/ k = p \/ (s.what = "append" /\ k = q + 1)
      BY <1>11, <3>3
    <3>5. p + n <= a /\ q + n <= a /\ n <= a /\ m <= n /\ (k = 0 \/ k = p \/ (m + 1 <= n /\ k = q + 1))
      <4>1. n <= calls
        BY <1>8
      <4>2. m <= n /\ (s.what = "append" => m + 1 <= n)
        BY <1>7
      <4> QED
        BY <3>2, <3>3, <3>4, <4>1, <4>2
    <3>6. k + m <= a
      <4>1. {k, p, q, n, m, a} \subseteq Nat
        BY <1>7, <3>3
      <4> QED
        BY <3>5, <4>1
    <3> QED
      BY <1>0, <3>1, <3>3, <3>6
  <2>2. CASE ~ (g # 0 /\ x = g)
    <3>1. body'[x] = body[x]
      BY <1>0, <1>1, <2>2 DEF Stepped, RouterTypes
    <3> QED
      BY <1>0, <1>7, <1>8, <3>1
  <2> QED
    BY <2>1, <2>2
<1>13. ASSUME NEW d \in Clients PROVE copy'[d].list + m <= calls'
  <2>1. CASE d = c
    <3>1. copy'[d] = (IF on /\ t # <<>> THEN Reads(b, s, r) ELSE NoCopy)
      BY <1>0, <1>1, <2>1, Zenon DEF Stepped, RouterTypes
    <3>2. on => b.list + n <= calls
      BY <1>1, <1>8, <1>9 DEF Stepped
    <3>3. r.list + n <= calls
      BY <1>0, <1>8, <1>9
    <3>4. copy'[d].list = 0 \/ copy'[d].list = r.list \/ (on /\ copy'[d].list = b.list)
      BY <1>11, <3>1
    <3> QED
      BY <1>0, <1>7, <1>8, <1>10, <3>2, <3>3, <3>4
  <2>2. CASE d # c
    <3>1. copy'[d] = copy[d]
      BY <1>0, <1>1, <2>2 DEF Stepped, RouterTypes
    <3> QED
      BY <1>0, <1>7, <1>8, <3>1
  <2> QED
    BY <2>1, <2>2
<1> QED
  BY <1>5, <1>6, <1>7, <1>12, <1>13, Zenon DEF ListsInv

\* The tables.
LEMMA StepEnabled == ASSUME RouterTypes, EnabledInv, NEW c, NEW g, NEW h, StepOf(c, g, h) PROVE EnabledInv'
<1>0. /\ c \in Clients /\ Busy(c) /\ g \in 0..MaxGens /\ StepIn(c, g, h) /\ calls \in 0..MaxCalls /\ MaxGens \in Nat
      /\ feature' = feature /\ (Head(todo[c]).via = "held" => g = held[c] /\ h = held[c])
  BY RoutersAssumption DEF StepOf, RouterTypes
<1> SUFFICES ASSUME feature \in Tabled PROVE EnabledInv'
  BY <1>0 DEF EnabledInv
<1>1. PICK s \in Steps, t \in Seq(Steps), b \in Bodies, r \in Copies, w \in Bodies, on \in BOOLEAN :
        Stepped(c, g, h, s, t, b, r, w, on)
  BY <1>0, StepTaken
<1>2. PICK u : u = (IF on THEN t ELSE <<>>)
  OBVIOUS
<1>3. /\ todo'[c] = u /\ held'[c] = (IF on /\ t # <<>> THEN h ELSE 0)
      /\ \A d \in Clients : d # c => todo'[d] = todo[d] /\ held'[d] = held[d]
  BY <1>0, <1>1, <1>2 DEF Stepped, RouterTypes
<1>4. /\ s = Head(todo[c]) /\ t = Tail(todo[c]) /\ w = Written(b, s, r) /\ (g # 0 => b = body[g] /\ g \in 1..MaxGens)
      /\ on <=> g # 0 /\ GoesOn(b, s)
  BY <1>0, <1>1 DEF Stepped
<1>5. /\ s.what # "master"
      /\ t # <<>> /\ Head(t).what = "insert" => Head(t).via = "held" /\ s.via = "held" /\ s.what = "ifOn"
  <2>1. InOrder(todo[c]) /\ todo[c] # <<>>
    BY <1>0 DEF RouterTypes, Busy
  <2> QED
    BY <1>4, <2>1, RestInOrder
<1>6. s.what = "insert" => s.via = "held" /\ held[c] # 0 /\ body[held[c]].used
  BY <1>0, <1>4 DEF EnabledInv
<1>7. g # 0 => /\ b.on => b.used /\ w.used
               /\ (w.on => w.used) /\ (There(w) # {} => w.used) /\ (b.used => w.used)
  <2> SUFFICES ASSUME g # 0 PROVE /\ b.on => b.used /\ w.used
                                  /\ (w.on => w.used) /\ (There(w) # {} => w.used) /\ (b.used => w.used)
    OBVIOUS
  <2>1. b = body[g] /\ (b.on => b.used) /\ (There(b) # {} => b.used)
    BY <1>4 DEF EnabledInv
  <2>2. s.what = "insert" => b.used
    BY <1>0, <1>4, <1>6, <2>1
  <2>3. w = Written(b, s, r)
    BY <1>4
  <2>4. (w.on => w.used) /\ (There(w) # {} => w.used) /\ (b.used => w.used)
    BY <1>0, <1>5, <2>1, <2>2, <2>3, EnabledWritten
  <2> QED
    BY <2>1, <2>4
<1>8. ASSUME NEW x \in 1..MaxGens
      PROVE  /\ (body'[x].on => body'[x].used) /\ (There(body'[x]) # {} => body'[x].used)
             /\ body[x].used => body'[x].used
  <2>1. CASE g # 0 /\ x = g
    <3>1. body'[x] = w /\ b = body[x]
      BY <1>0, <1>1, <1>4, <2>1 DEF Stepped, RouterTypes
    <3> QED
      BY <1>7, <2>1, <3>1
  <2>2. CASE ~ (g # 0 /\ x = g)
    <3>1. body'[x] = body[x]
      BY <1>0, <1>1, <2>2 DEF Stepped, RouterTypes
    <3> QED
      BY <3>1 DEF EnabledInv
  <2> QED
    BY <2>1, <2>2
<1>9. ASSUME NEW d \in Clients, todo'[d] # <<>>, Head(todo'[d]).what = "insert"
      PROVE  Head(todo'[d]).via = "held" /\ held'[d] # 0 /\ body'[held'[d]].used
  <2>1. CASE d = c
    <3>1. u # <<>> /\ u = t /\ on /\ Head(t).what = "insert"
      BY <1>2, <1>3, <1>9, <2>1
    <3>2. Head(t).via = "held" /\ s.via = "held" /\ s.what = "ifOn"
      BY <1>5, <3>1
    <3>3. held'[c] = g /\ g # 0
      BY <1>0, <1>3, <1>4, <3>1, <3>2
    <3>4. b.on
      BY <1>4, <3>1, <3>2 DEF GoesOn
    <3>5. body'[g] = w
      BY <1>0, <1>1, <1>4, <3>3 DEF Stepped, RouterTypes
    <3> QED
      BY <1>2, <1>3, <1>7, <2>1, <3>1, <3>2, <3>3, <3>4, <3>5
  <2>2. CASE d # c
    <3>1. todo'[d] = todo[d] /\ held'[d] = held[d]
      BY <1>3, <2>2
    <3>2. Head(todo[d]).via = "held" /\ held[d] # 0 /\ body[held[d]].used
      BY <1>9, <3>1 DEF EnabledInv, Busy
    <3>3. held[d] \in 1..MaxGens
      BY <1>0, <3>2 DEF RouterTypes
    <3> QED
      BY <1>8, <3>1, <3>2, <3>3
  <2> QED
    BY <2>1, <2>2
<1>10. \A x \in 1..MaxGens : There(body[x])' = There(body'[x])
  BY DEF There
<1> QED
  BY <1>8, <1>9, <1>10, Zenon DEF EnabledInv, Busy

\* What a step must be for calls that do not meet: it works in the router that there is.
OfNow(c, g, h) ==
  /\ IF g = 0 THEN cur = 0 /\ cur' = 0 ELSE cur \in {0, g} /\ cur' = g /\ body[g] = NowBody
  /\ h = g \/ (h = held[c] /\ (Head(todo[c]).via = "held" \/ Head(todo[c]).what = "copy"))
  /\ panicked' => panicked \/ (g # 0 /\ NilDomain(body[g], Head(todo[c])))

\* Calls that do not meet.
LEMMA StepCalm ==
  ASSUME RouterTypes, CalmInv, NEW c, NEW g, NEW h, StepOf(c, g, h), ~ raced, OfNow(c, g, h)
  PROVE  CalmInv'
<1>0. /\ c \in Clients /\ Busy(c) /\ g \in 0..MaxGens /\ StepIn(c, g, h) /\ calls' = calls /\ calls \in 0..MaxCalls /\ MaxGens \in Nat
      /\ feature' = feature /\ raced' = raced
  BY RoutersAssumption DEF StepOf, RouterTypes
<1>1. PICK s \in Steps, t \in Seq(Steps), b \in Bodies, r \in Copies, w \in Bodies, on \in BOOLEAN :
        Stepped(c, g, h, s, t, b, r, w, on)
  BY <1>0, StepTaken
<1>2. PICK u : u = (IF on THEN t ELSE <<>>)
  OBVIOUS
<1>3. /\ todo'[c] = u /\ held'[c] = (IF on /\ t # <<>> THEN h ELSE 0)
      /\ copy'[c] = (IF on /\ t # <<>> THEN Reads(b, s, r) ELSE NoCopy)
      /\ \A d \in Clients : d # c => todo'[d] = todo[d]
  BY <1>0, <1>1, <1>2 DEF Stepped, RouterTypes
<1>4. /\ s = Head(todo[c]) /\ t = Tail(todo[c]) /\ w = Written(b, s, r) /\ r = copy[c] /\ (g # 0 => b = body[g] /\ g \in 1..MaxGens)
      /\ on <=> g # 0 /\ GoesOn(b, s)
  BY <1>0, <1>1 DEF Stepped
<1>5. PICK n, f : n = NowBody /\ f = (held[c] # 0)
  OBVIOUS
<1>6. /\ \A d \in Clients : d # c => todo[d] = <<>>
      /\ held[c] \in {0, cur}
      /\ Leads(n, todo[c], r, f)
  <2>1. \A d \in Clients : d # c => ~ Busy(d)
    BY <1>0, <1>5 DEF CalmInv
  <2>2. held[c] \in {0, cur}
    BY <1>0, <1>5 DEF CalmInv
  <2>3. Leads(n, todo[c], r, f)
    BY <1>0, <1>4, <1>5, Zenon DEF CalmInv
  <2> QED
    BY <2>1, <2>2, <2>3 DEF Busy
<1>7. /\ s.via = "held" \/ s.what = "copy" => held[c] # 0
      /\ ~ NilDomain(n, s)
      /\ GoesOn(n, s) => Leads(Written(n, s, r), t, Reads(n, s, r), TRUE)
      /\ ~ GoesOn(n, s) => Good(Written(n, s, r))
  <2>1. todo[c] # <<>>
    BY <1>0 DEF Busy
  <2>2. /\ s.via = "held" \/ s.what = "copy" => f = TRUE
        /\ ~ NilDomain(n, s)
        /\ IF GoesOn(n, s) THEN Leads(Written(n, s, r), t, Reads(n, s, r), TRUE) ELSE Good(Written(n, s, r))
    <3>1. PICK q : q = todo[c] /\ q # <<>> /\ Leads(n, q, r, f)
      BY <1>6, <2>1
    <3>2. s = Head(q) /\ t = Tail(q)
      BY <1>4, <3>1
    <3>3. Ahead(n, q, r, f)
      BY <3>1, LeadsTo, Zenon
    <3> QED
      BY <3>1, <3>2, <3>3 DEF Ahead
  <2> QED
    BY <1>5, <2>2
<1>8. panicked' => raced'
  <2>1. ~ panicked
    BY DEF CalmInv
  <2>2. g # 0 => body[g] = n
    BY <1>5 DEF OfNow
  <2> QED
    BY <1>4, <1>7, <2>1, <2>2 DEF OfNow
\* The call ends in a good router ...
<1>9. ASSUME u = <<>>, NEW m, m = NowBody', Good(m) PROVE CalmInv'
  <2>1. \A d \in Clients : todo'[d] = <<>>
    BY <1>3, <1>6, <1>9
  <2>2. Good(m)'
    BY <1>0, <1>9, GoodStays
  <2> QED
    BY <1>8, <1>9, <2>1, <2>2, Zenon DEF CalmInv, Busy
\* ... or goes on.
<1>10. CASE g = 0
  <2>1. u = <<>> /\ NowBody' = NewBody' /\ NewBody' = NewBody
    BY <1>0, <1>2, <1>4, <1>10 DEF OfNow, NowBody, NewBody
  <2> QED
    BY <1>9, <2>1, NewBodyGood
<1>11. CASE g # 0
  <2>1. n = b /\ NowBody' = w /\ g \in 1..MaxGens
    <3>1. body[g] = n /\ cur' = g
      BY <1>5, <1>11 DEF OfNow
    <3>2. body'[g] = w
      BY <1>0, <1>1, <1>4, <1>11 DEF Stepped, RouterTypes
    <3> QED
      BY <1>4, <1>11, <3>1, <3>2 DEF NowBody
  <2>2. CASE ~ on
    <3>1. u = <<>> /\ Good(w)
      BY <1>2, <1>4, <1>7, <1>11, <2>1, <2>2
    <3> QED
      BY <1>9, <2>1, <3>1
  <2>3. CASE on /\ t = <<>>
    <3>1. Leads(w, t, Reads(b, s, r), TRUE)
      BY <1>4, <1>7, <1>11, <2>1, <2>3
    <3>2. Good(w)
      BY <2>3, <3>1, LeadsTo DEF Ahead
    <3> QED
      BY <1>2, <1>9, <2>1, <2>3, <3>2
  <2>4. CASE on /\ t # <<>>
    <3>1. PICK v : v = Reads(b, s, r)
      OBVIOUS
    <3>2. Leads(w, t, v, TRUE)
      BY <1>4, <1>7, <1>11, <2>1, <2>4, <3>1
    <3>3. Leads(w, t, v, TRUE)'
      BY <1>0, <3>2, LeadsStays
    <3>4. h = g
      BY <1>4, <1>6, <1>7, <1>11 DEF OfNow
    <3>5. todo'[c] = t /\ held'[c] = g /\ copy'[c] = v /\ cur' = g /\ (held'[c] # 0) = TRUE
      BY <1>2, <1>3, <1>11, <2>4, <3>1, <3>4 DEF OfNow
    <3>6. \A d \in Clients : d # c => todo'[d] = <<>>
      BY <1>3, <1>6
    <3>7. ASSUME NEW d \in Clients, todo'[d] # <<>>
          PROVE  /\ \A x \in Clients : x # d => todo'[x] = <<>>
                 /\ held'[d] \in {0, cur'}
                 /\ \A y, z, k : y = todo'[d] /\ z = copy'[d] /\ k = (held'[d] # 0) => Leads(w, y, z, k)'
      <4>1. d = c
        BY <3>6, <3>7
      <4> QED
        BY <3>3, <3>5, <3>6, <4>1
    <3>8. ~ Quiet'
      BY <1>0, <2>4, <3>5 DEF Quiet, Busy
    <3> QED
      BY <1>8, <2>1, <3>7, <3>8, Zenon DEF CalmInv, Busy
  <2> QED
    BY <2>2, <2>3, <2>4
<1> QED
  BY <1>10, <1>11

-----------------------------------------------------------------------------
(* The actions.                                                            *)

\* Calls that do not meet hold the router that there is.
LEMMA HeldIsNow ==
  ASSUME CalmInv, ~ raced, NEW c \in Clients, Busy(c), Head(todo[c]).via = "held"
  PROVE  held[c] # 0 /\ held[c] = cur
<1>1. PICK n, f, q, r : n = NowBody /\ f = (held[c] # 0) /\ q = todo[c] /\ r = copy[c]
  OBVIOUS
<1>2. Leads(n, q, r, f) /\ held[c] \in {0, cur}
  BY <1>1, Zenon DEF CalmInv
<1>3. q # <<>> /\ Head(q).via = "held"
  BY <1>1 DEF Busy
<1>4. Ahead(n, q, r, f)
  BY <1>2, LeadsTo, Zenon
<1>5. f = TRUE
  BY <1>3, <1>4 DEF Ahead
<1> QED
  BY <1>1, <1>2, <1>5

\* Each kind of step is such a step.
LEMMA InitIsStep ==
  ASSUME RouterTypes, NEW c \in Clients, InitStep(c)
  PROVE  \E g, h : StepOf(c, g, h) /\ OfNow(c, g, h)
<1>0. gen \in 0..MaxGens /\ cur \in 0..gen /\ MaxGens \in Nat /\ held[c] \in 0..MaxGens /\ held[c] <= gen /\ panicked \in BOOLEAN
  BY RoutersAssumption DEF RouterTypes
<1>1. PICK g : g = IF cur = 0 THEN gen + 1 ELSE cur
  OBVIOUS
<1>2. PICK h : h = IF Head(todo[c]).what = "copy" THEN held[c] ELSE g
  OBVIOUS
<1>3. /\ Busy(c) /\ Head(todo[c]).via = "init" /\ g <= MaxGens /\ gen' = (IF cur = 0 THEN g ELSE gen) /\ cur' = g
      /\ StepIn(c, g, h) /\ UNCHANGED <<feature, raced, panicked, calls, table>>
  BY <1>1, <1>2, Zenon DEF InitStep
<1>4. g \in 1..MaxGens /\ gen' \in gen..MaxGens /\ cur' \in 0..gen' /\ g <= gen' /\ h \in 0..MaxGens /\ h <= gen'
  BY <1>0, <1>1, <1>2, <1>3
<1>5. body[g] = NowBody
  <2>1. CASE cur = 0
    <3>1. g > gen
      BY <1>0, <1>1, <2>1
    <3> QED
      BY <1>4, <2>1, <3>1 DEF RouterTypes, NowBody
  <2>2. CASE cur # 0
    BY <1>1, <2>2 DEF NowBody
  <2> QED
    BY <2>1, <2>2
<1>6. StepOf(c, g, h)
  BY <1>0, <1>3, <1>4 DEF StepOf
<1>7. OfNow(c, g, h)
  BY <1>1, <1>2, <1>3, <1>4, <1>5 DEF OfNow
<1> QED
  BY <1>6, <1>7

\* A step that looks the router up uses the present one,
LEMMA GetIsStep ==
  ASSUME RouterTypes, NEW c \in Clients, GetStep(c)
  PROVE  \E g, h : StepOf(c, g, h) /\ OfNow(c, g, h)
<1>0. gen \in 0..MaxGens /\ cur \in 0..gen /\ MaxGens \in Nat /\ panicked \in BOOLEAN
  BY RoutersAssumption DEF RouterTypes
<1>1. /\ Busy(c) /\ Head(todo[c]).via = "get" /\ StepIn(c, cur, cur) /\ gen' = gen /\ cur' = cur
      /\ UNCHANGED <<feature, raced, panicked, calls, table>>
  BY DEF GetStep
<1>2. cur \in 0..MaxGens /\ gen' \in gen..MaxGens /\ cur' \in 0..gen' /\ cur <= gen'
  BY <1>0, <1>1
<1>3. StepOf(c, cur, cur)
  BY <1>0, <1>1, <1>2 DEF StepOf
<1>4. OfNow(c, cur, cur)
  BY <1>1 DEF OfNow, NowBody
<1> QED
  BY <1>3, <1>4

\* and one that uses what was looked up uses that, which is the present one while no calls have met.
LEMMA HeldIsStep ==
  ASSUME RouterTypes, CalmInv, NEW c \in Clients, HeldStep(c)
  PROVE  \E g, h : StepOf(c, g, h) /\ (~ raced => OfNow(c, g, h))
<1>0. gen \in 0..MaxGens /\ cur \in 0..gen /\ MaxGens \in Nat /\ held[c] \in 0..MaxGens /\ held[c] <= gen
  BY RoutersAssumption DEF RouterTypes
<1>1. PICK g : g = held[c]
  OBVIOUS
<1>2. /\ Busy(c) /\ Head(todo[c]).via = "held" /\ StepIn(c, g, g) /\ gen' = gen /\ cur' = cur
      /\ panicked' = (feature = "mlag" /\ Head(todo[c]).what \in {"insert", "up"} /\ body[g].domain = 0)
      /\ UNCHANGED <<feature, raced, calls, table>>
  BY <1>1 DEF HeldStep
<1>3. g \in 0..MaxGens /\ gen' \in gen..MaxGens /\ cur' \in 0..gen' /\ g <= gen'
  BY <1>0, <1>1, <1>2
<1>4. StepOf(c, g, g)
  <2>1. panicked' \in BOOLEAN
    BY <1>2
  <2> QED
    BY <1>1, <1>2, <1>3, <2>1 DEF StepOf
<1>5. ~ raced => OfNow(c, g, g)
  <2> SUFFICES ASSUME ~ raced PROVE OfNow(c, g, g)
    OBVIOUS
  <2>1. g # 0 /\ g = cur
    BY <1>1, <1>2, HeldIsNow
  <2>2. panicked' => NilDomain(body[g], Head(todo[c]))
    BY <1>2 DEF NilDomain
  <2> QED
    BY <1>1, <1>2, <2>1, <2>2 DEF OfNow, NowBody
<1> QED
  BY <1>4, <1>5

\* What a step keeps.
LEMMA StepKeeps ==
  ASSUME RouterCallsInv, NEW c, NEW g, NEW h, StepOf(c, g, h), ~ raced => OfNow(c, g, h)
  PROVE  RouterCallsInv'
<1>0. RouterTypes /\ ListsInv /\ EnabledInv /\ CalmInv /\ RowsInv
  BY DEF RouterCallsInv
<1>1. RouterTypes'
  BY <1>0, StepTypes
<1>2. ListsInv'
  BY <1>0, StepLists
<1>3. EnabledInv'
  BY <1>0, StepEnabled
<1>4. CalmInv'
  <2>1. CASE raced
    <3>1. raced'
      BY <2>1 DEF StepOf
    <3> QED
      BY <3>1, Zenon DEF CalmInv
  <2>2. CASE ~ raced
    BY <1>0, <2>2, StepCalm
  <2> QED
    BY <2>1, <2>2
<1>5. RowsInv'
  BY <1>0 DEF StepOf, RowsInv
<1> QED
  BY <1>1, <1>2, <1>3, <1>4, <1>5 DEF RouterCallsInv

\* Calls and routers that are left alone.
LEMMA CallsStay ==
  ASSUME RouterCallsInv, UNCHANGED <<feature, gen, cur, body, todo, held, copy, raced, panicked, calls>>
  PROVE  RouterTypes' /\ ListsInv' /\ EnabledInv' /\ CalmInv'
<1>0. RouterTypes /\ ListsInv /\ EnabledInv /\ CalmInv
  BY DEF RouterCallsInv
<1>1. RouterTypes'
  <2>1. NewBody' = NewBody
    BY DEF NewBody
  <2>2. \A t : InOrder(t) => InOrder(t)'
    BY DEF InOrder
  <2> QED
    BY <1>0, <2>1, <2>2 DEF RouterTypes
<1>2. ListsInv'
  <2>1. Appending' = Appending
    BY DEF Appending, Waits
  <2> QED
    BY <1>0, <2>1 DEF ListsInv
<1>3. EnabledInv'
  BY <1>0 DEF EnabledInv, Busy, There
<1>4. CalmInv'
  <2>1. NowBody' = NowBody
    BY DEF NowBody, NewBody
  <2>2. \A b : Good(b) => Good(b)'
    BY GoodStays
  <2>3. \A b, t, r, h : Leads(b, t, r, h) => Leads(b, t, r, h)'
    BY LeadsStays
  <2>4. (Quiet' <=> Quiet) /\ \A d : Busy(d)' <=> Busy(d)
    BY DEF Quiet, Busy
  <2>5. panicked' => raced'
    BY <1>0 DEF CalmInv
  <2>6. ASSUME ~ raced', NEW n, n = NowBody'
        PROVE  /\ Quiet' => Good(n)'
               /\ \A c \in Clients : Busy(c)' =>
                    /\ \A d \in Clients : d # c => ~ Busy(d)'
                    /\ held'[c] \in {0, cur'}
                    /\ \A t, r, h : t = todo'[c] /\ r = copy'[c] /\ h = (held'[c] # 0) => Leads(n, t, r, h)'
    <3>1. ~ raced /\ n = NowBody
      BY <2>1, <2>6
    <3>2. Quiet' => Good(n)'
      BY <1>0, <2>2, <2>4, <3>1, Zenon DEF CalmInv
    <3>3. ASSUME NEW c \in Clients, Busy(c)
          PROVE  /\ \A d \in Clients : d # c => ~ Busy(d)
                 /\ held[c] \in {0, cur}
                 /\ \A t, r, h : t = todo[c] /\ r = copy[c] /\ h = (held[c] # 0) => Leads(n, t, r, h)'
      BY <1>0, <2>3, <3>1, <3>3, Zenon DEF CalmInv
    <3> QED
      BY <2>4, <3>2, <3>3
  <2> QED
    BY <2>5, <2>6, Zenon DEF CalmInv
<1> QED
  BY <1>1, <1>2, <1>3, <1>4

\* A call begins.
LEMMA CallKeeps ==
  ASSUME RouterCallsInv, NEW c \in Clients, NEW t, Call(c, t), Shape(t)
  PROVE  RouterCallsInv'
<1>0. /\ RouterTypes /\ ListsInv /\ EnabledInv /\ CalmInv /\ RowsInv
      /\ todo[c] = <<>> /\ calls < MaxCalls /\ calls' = calls + 1 /\ todo' = [todo EXCEPT ![c] = t]
      /\ raced' = (raced \/ ~ Quiet) /\ UNCHANGED <<feature, gen, cur, body, held, copy, panicked, table>>
  BY DEF RouterCallsInv, Call, Busy
<1>1. calls \in Nat /\ MaxCalls \in Nat /\ calls' \in 1..MaxCalls /\ todo \in [Clients -> Seq(Steps)]
  BY <1>0, RoutersAssumption DEF RouterTypes
<1>2. Sound(t)'
  <2>1. Shape(t)'
    BY <1>0 DEF Shape, PlainShape, GivenShape, TimedShape, GroupShape, DomainShape, ListShape
  <2>2. AllSound'
    BY ShapesSound, PTL
  <2> QED
    BY <1>1, <2>1, <2>2 DEF AllSound
<1>3. /\ InOrder(t)' /\ InOrder(t) /\ (feature \in Tabled => Head(t).what # "insert")
      /\ \A b \in Bodies, r \in Copies, h \in BOOLEAN : Good(b)' => Leads(b, t, r, h)'
  <2>1. Begins(t)' /\ \A b \in Bodies, r \in Copies, h \in BOOLEAN : Good(b)' => Leads(b, t, r, h)'
    BY <1>2 DEF Sound
  <2>2. InOrder(t)' /\ (feature' \in Tabled => Head(t).what # "insert")
    BY <2>1 DEF Begins
  <2>3. InOrder(t)' => InOrder(t)
    BY <1>0 DEF InOrder
  <2> QED
    BY <1>0, <2>1, <2>2, <2>3
<1>4. todo' \in [Clients -> Seq(Steps)] /\ todo'[c] = t /\ \A d \in Clients : d # c => todo'[d] = todo[d]
  BY <1>0, <1>1, <1>3 DEF InOrder
<1>5. RouterTypes'
  <2>1. NewBody' = NewBody
    BY <1>0 DEF NewBody
  <2>2. \A d \in Clients : InOrder(todo'[d])
    BY <1>0, <1>3, <1>4 DEF RouterTypes
  <2>3. ASSUME NEW d \in Clients PROVE InOrder(todo[d])'
    <3>1. InOrder(todo'[d])
      BY <2>2
    <3> QED
      BY <1>0, <3>1 DEF InOrder
  <2>4. \A d \in Clients : held'[d] <= gen' /\ (todo'[d] = <<>> => held'[d] = 0)
    BY <1>0, <1>4 DEF RouterTypes
  <2>5. calls' \in 0..MaxCalls /\ raced' \in BOOLEAN
    BY <1>0, <1>1
  <2>6. UNCHANGED <<gen, cur, panicked, body, held, copy>>
    BY <1>0
  <2> QED
    BY <1>0, <1>4, <2>1, <2>3, <2>4, <2>5, <2>6 DEF RouterTypes
<1>6. ListsInv'
  <2>1. PICK W, V : W = Appending /\ V = Appending'
    OBVIOUS
  <2>2. \A d : d \in W <=> d \in Clients /\ Waits(todo[d])
    BY <2>1 DEF Appending
  <2>3. \A d : d \in V <=> d \in Clients /\ Waits(todo'[d])
    BY <2>1 DEF Appending, Waits
  <2>4. V \subseteq W \cup {c} /\ c \notin W
    <3>1. ~ Waits(todo[c])
      <4>1. 1..Len(<<>>) = {}
        OBVIOUS
      <4> QED
        BY <1>0, <4>1 DEF Waits
    <3> QED
      BY <1>4, <2>2, <2>3, <3>1
  <2>5. IsFiniteSet(W) /\ IsFiniteSet(W \cup {c}) /\ Cardinality(W \cup {c}) = Cardinality(W) + 1
    BY <1>0, <2>1, <2>4, FS_AddElement DEF ListsInv
  <2>6. IsFiniteSet(V) /\ Cardinality(V) <= Cardinality(W \cup {c})
    BY <2>4, <2>5, FS_Subset
  <2>7. PICK n \in Nat, m \in Nat : n = Cardinality(W) /\ m = Cardinality(V) /\ m <= n + 1
    BY <2>5, <2>6, FS_CardinalityType
  <2>8. ASSUME NEW x \in 1..MaxGens PROVE body'[x].list + m <= calls'
    <3>1. body[x].list \in Nat /\ body[x].list + n <= calls
      BY <1>0, <2>1, <2>7 DEF ListsInv, RouterTypes, Bodies
    <3> QED
      BY <1>0, <1>1, <2>7, <3>1
  <2>9. ASSUME NEW d \in Clients PROVE copy'[d].list + m <= calls'
    <3>1. copy[d].list \in Nat /\ copy[d].list + n <= calls
      BY <1>0, <2>1, <2>7 DEF ListsInv, RouterTypes, Copies
    <3> QED
      BY <1>0, <1>1, <2>7, <3>1
  <2> QED
    BY <2>1, <2>6, <2>7, <2>8, <2>9, Zenon DEF ListsInv
<1>7. EnabledInv'
  <2>1. \A d \in Clients : feature \in Tabled /\ todo'[d] # <<>> /\ Head(todo'[d]).what = "insert" =>
          Head(todo'[d]).via = "held" /\ held'[d] # 0 /\ body'[held'[d]].used
    <3> SUFFICES ASSUME NEW d \in Clients, feature \in Tabled, todo'[d] # <<>>, Head(todo'[d]).what = "insert"
                 PROVE  Head(todo'[d]).via = "held" /\ held'[d] # 0 /\ body'[held'[d]].used
      OBVIOUS
    <3>1. d # c
      BY <1>3, <1>4
    <3> QED
      BY <1>0, <1>4, <3>1 DEF EnabledInv, Busy
  <2>2. feature \in Tabled => \A x \in 1..MaxGens : (body'[x].on => body'[x].used) /\ (There(body[x])' # {} => body'[x].used)
    BY <1>0 DEF EnabledInv, There
  <2> QED
    BY <1>0, <2>1, <2>2 DEF EnabledInv, Busy
<1>8. CalmInv'
  <2>1. panicked' => raced'
    BY <1>0 DEF CalmInv
  <2>2. ASSUME ~ raced', NEW n, n = NowBody'
        PROVE  /\ Quiet' => Good(n)'
               /\ \A d \in Clients : todo'[d] # <<>> =>
                    /\ \A e \in Clients : e # d => todo'[e] = <<>>
                    /\ held'[d] \in {0, cur'}
                    /\ \A u, r, h : u = todo'[d] /\ r = copy'[d] /\ h = (held'[d] # 0) => Leads(n, u, r, h)'
    <3>1. ~ raced /\ Quiet /\ n = NowBody
      BY <1>0, <2>2 DEF NowBody, NewBody
    <3>2. Good(n)'
      <4>1. Good(n)
        BY <1>0, <3>1, Zenon DEF CalmInv
      <4> QED
        BY <1>0, <4>1, GoodStays
    <3>3. n \in Bodies
      <4>1. cur # 0 => cur \in 1..MaxGens
        BY <1>0, RoutersAssumption DEF RouterTypes
      <4> QED
        BY <1>0, <3>1, <4>1, NewBodyTyped DEF NowBody, RouterTypes
    <3>4. \A e \in Clients : e # c => todo'[e] = <<>>
      BY <1>4, <3>1 DEF Quiet, Busy
    <3>5. held'[c] = 0 /\ copy'[c] \in Copies
      BY <1>0 DEF RouterTypes
    <3>6. \A r \in Copies, h \in BOOLEAN : Leads(n, t, r, h)'
      BY <1>3, <3>2, <3>3
    <3> QED
      BY <1>4, <3>2, <3>4, <3>5, <3>6
  <2> QED
    BY <2>1, <2>2, Zenon DEF CalmInv, Busy
<1>9. RowsInv'
  BY <1>0 DEF RowsInv
<1> QED
  BY <1>5, <1>6, <1>7, <1>8, <1>9 DEF RouterCallsInv

\* New routers, and no call.
LEMMA NoCalls ==
  /\ gen = 0 /\ cur = 0 /\ body = [g \in 1..MaxGens |-> NewBody]
  /\ todo = [c \in Clients |-> <<>>] /\ held = [c \in Clients |-> 0] /\ copy = [c \in Clients |-> NoCopy]
  /\ raced = FALSE /\ panicked = FALSE /\ calls \in 0..MaxCalls
  => RouterTypes /\ ListsInv /\ EnabledInv /\ CalmInv
<1> SUFFICES ASSUME gen = 0, cur = 0, body = [g \in 1..MaxGens |-> NewBody],
                    todo = [c \in Clients |-> <<>>], held = [c \in Clients |-> 0], copy = [c \in Clients |-> NoCopy],
                    raced = FALSE, panicked = FALSE, calls \in 0..MaxCalls
             PROVE  RouterTypes /\ ListsInv /\ EnabledInv /\ CalmInv
  OBVIOUS
<1>0. MaxGens \in Nat /\ MaxCalls \in Nat /\ calls \in Nat /\ calls <= MaxCalls
  BY RoutersAssumption
<1>1. NewBody \in Bodies /\ NewBody.list = 0 /\ There(NewBody) = {} /\ Good(NewBody)
  BY NewBodyTyped, NewBodyGood DEF NewBody
<1>2. NoCopy \in Copies /\ NoCopy.list = 0
  BY <1>0 DEF NoCopy, Copies
<1>3. (\A c \in Clients : todo[c] = <<>>) /\ \A t : t = <<>> => t \in Seq(Steps) /\ InOrder(t) /\ ~ Waits(t)
  <2>1. <<>> \in Seq(Steps) /\ 1..Len(<<>>) = {}
    OBVIOUS
  <2> QED
    BY <2>1 DEF InOrder, Waits
<1>4. RouterTypes
  <2>1. body \in [1..MaxGens -> Bodies] /\ \A g \in 1..MaxGens : g > gen => body[g] = NewBody
    BY <1>1
  <2>2. todo \in [Clients -> Seq(Steps)] /\ \A c \in Clients : InOrder(todo[c])
    BY <1>3
  <2>3. held \in [Clients -> 0..MaxGens] /\ \A c \in Clients : held[c] <= gen /\ (todo[c] = <<>> => held[c] = 0)
    BY <1>0
  <2>4. copy \in [Clients -> Copies]
    BY <1>2
  <2>5. gen \in 0..MaxGens /\ cur \in 0..gen
    BY <1>0
  <2> QED
    BY <2>1, <2>2, <2>3, <2>4, <2>5, Zenon DEF RouterTypes
<1>5. ListsInv
  <2>1. Appending = {}
    BY <1>3 DEF Appending
  <2>2. IsFiniteSet({}) /\ Cardinality({}) = 0
    BY FS_EmptySet
  <2> QED
    BY <1>0, <1>1, <1>2, <2>1, <2>2 DEF ListsInv
<1>6. EnabledInv
  <2>1. feature \in Tabled => NewBody.on = FALSE
    BY DEF NewBody, Tabled
  <2> QED
    BY <1>1, <1>3, <2>1 DEF EnabledInv, Busy
<1>7. CalmInv
  <2>1. NowBody = NewBody
    BY DEF NowBody
  <2> QED
    BY <1>1, <1>3, <2>1 DEF CalmInv, Busy
<1> QED
  BY <1>4, <1>5, <1>6, <1>7

\* The process starts again.
LEMMA RestartKeeps == ASSUME RouterCallsInv, RestartRouters PROVE RouterCallsInv'
<1>1. (/\ gen = 0 /\ cur = 0 /\ body = [g \in 1..MaxGens |-> NewBody]
       /\ todo = [c \in Clients |-> <<>>] /\ held = [c \in Clients |-> 0] /\ copy = [c \in Clients |-> NoCopy]
       /\ raced = FALSE /\ panicked = FALSE /\ calls \in 0..MaxCalls
       => RouterTypes /\ ListsInv /\ EnabledInv /\ CalmInv)'
  BY NoCalls, PTL
<1>2. /\ gen' = 0 /\ cur' = 0 /\ body' = [g \in 1..MaxGens |-> NewBody]
      /\ todo' = [c \in Clients |-> <<>>] /\ held' = [c \in Clients |-> 0] /\ copy' = [c \in Clients |-> NoCopy]
      /\ raced' = FALSE /\ panicked' = FALSE /\ feature' = feature /\ calls' = calls /\ table' = table
  BY DEF RestartRouters
<1>3. NewBody' = NewBody /\ calls' \in 0..MaxCalls
  BY <1>2 DEF NewBody, RouterCallsInv, RouterTypes
<1>4. RouterTypes' /\ ListsInv' /\ EnabledInv' /\ CalmInv'
  BY <1>1, <1>2, <1>3
<1>5. RowsInv'
  BY <1>2 DEF RouterCallsInv, RowsInv
<1> QED
  BY <1>4, <1>5 DEF RouterCallsInv

\* The device is deleted.
LEMMA RemoveKeeps == ASSUME RouterCallsInv, ~ panicked, RemoveRouter PROVE RouterCallsInv'
<1>0. /\ cur' = 0 /\ table' = <<>> /\ raced' = (IF cur = 0 THEN raced ELSE ~ Quiet)
      /\ UNCHANGED <<feature, gen, body, todo, held, copy, panicked, calls>>
  BY DEF RemoveRouter
<1>1. RouterTypes /\ ListsInv /\ EnabledInv /\ CalmInv
  BY DEF RouterCallsInv
<1>2. RowsInv'
  BY <1>0, RoutersAssumption DEF RowsInv
<1>3. CASE cur = 0
  <2>1. raced' = raced /\ cur' = cur
    BY <1>0, <1>3
  <2> QED
    BY <1>0, <1>2, <2>1, CallsStay DEF RouterCallsInv
<1>4. CASE cur # 0
  <2>1. RouterTypes'
    <3>1. NewBody' = NewBody
      BY <1>0 DEF NewBody
    <3>2. \A t : InOrder(t) => InOrder(t)'
      BY <1>0 DEF InOrder
    <3>3. cur' \in 0..gen' /\ raced' \in BOOLEAN
      BY <1>0, <1>1, <1>4 DEF RouterTypes
    <3> QED
      BY <1>0, <1>1, <3>1, <3>2, <3>3 DEF RouterTypes
  <2>2. ListsInv'
    <3>1. Appending' = Appending
      BY <1>0 DEF Appending, Waits
    <3> QED
      BY <1>0, <1>1, <3>1 DEF ListsInv
  <2>3. EnabledInv'
    BY <1>0, <1>1 DEF EnabledInv, Busy, There
  <2>4. CalmInv'
    <3>1. NowBody' = NewBody /\ panicked' = FALSE
      <4>1. NewBody' = NewBody
        BY <1>0 DEF NewBody
      <4>2. panicked \in BOOLEAN
        BY <1>1 DEF RouterTypes
      <4> QED
        BY <1>0, <4>1, <4>2 DEF NowBody
    <3>2. Good(NewBody) /\ \A b : Good(b) => Good(b)'
      BY <1>0, NewBodyGood, GoodStays
    <3>3. ~ raced' => \A d \in Clients : ~ Busy(d)'
      BY <1>0, <1>4 DEF Quiet, Busy
    <3> QED
      BY <3>1, <3>2, <3>3 DEF CalmInv
  <2> QED
    BY <1>2, <2>1, <2>2, <2>3, <2>4 DEF RouterCallsInv
<1> QED
  BY <1>3, <1>4

\* Every action keeps the invariant.
LEMMA RouterCallsKept == RouterCallsInv /\ [RouterSim]_routerVars => RouterCallsInv'
<1> SUFFICES ASSUME RouterCallsInv, [RouterSim]_routerVars PROVE RouterCallsInv'
  OBVIOUS
<1>1. ASSUME NEW c \in Clients, InitStep(c) PROVE RouterCallsInv'
  BY <1>1, InitIsStep, StepKeeps DEF RouterCallsInv
<1>2. ASSUME NEW c \in Clients, GetStep(c) PROVE RouterCallsInv'
  BY <1>2, GetIsStep, StepKeeps DEF RouterCallsInv
<1>3. ASSUME NEW c \in Clients, HeldStep(c) PROVE RouterCallsInv'
  BY <1>3, HeldIsStep, StepKeeps DEF RouterCallsInv
<1>4. ASSUME NEW c \in Clients, ServiceCall(c) \/ TableCall(c) \/ GroupCall(c) PROVE RouterCallsInv'
  <2>1. PICK t : Call(c, t) /\ Shape(t)
    BY <1>4, ServicesShaped, TablesShaped, GroupsShaped DEF Shaped
  <2> QED
    BY <2>1, CallKeeps
<1>5. CASE InsertRule \/ InsertRoute
  <2>0. PICK S : S = IF feature = "acl" THEN Rules ELSE Routes
    OBVIOUS
  <2>1. PICK row \in S : AppendRow(row)
    <3>1. CASE InsertRule
      <4>1. PICK ip \in Hosts, w \in Dotted, permit \in BOOLEAN : AppendRow([ip |-> ip, wild |-> w, permit |-> permit])
        BY <3>1 DEF InsertRule
      <4>2. [ip |-> ip, wild |-> w, permit |-> permit] \in S
        BY <2>0, <3>1 DEF InsertRule, Rules, Dotted, Octets
      <4> QED
        BY <4>1, <4>2
    <3>2. CASE InsertRoute
      <4>1. PICK ip \in Hosts, m \in Dotted, metric \in Metrics : AppendRow([ip |-> ip, mask |-> m, metric |-> metric])
        BY <3>2 DEF InsertRoute
      <4>2. feature # "acl"
        BY <3>2 DEF InsertRoute
      <4>3. [ip |-> ip, mask |-> m, metric |-> metric] \in S
        BY <2>0, <4>2 DEF Routes, Dotted, Octets
      <4> QED
        BY <4>1, <4>3
    <3> QED
      BY <1>5, <3>1, <3>2
  <2>2. /\ Len(table) < MaxRules /\ table' = Append(table, row)
        /\ UNCHANGED <<feature, gen, cur, body, todo, held, copy, raced, panicked, calls>>
    BY <2>1 DEF AppendRow
  <2>3. RowsInv'
    <3>1. table \in Seq(S) /\ Len(table) \in Nat /\ MaxRules \in Nat
      BY <2>0, RoutersAssumption, LenProperties DEF RouterCallsInv, RowsInv
    <3>2. table' \in Seq(S) /\ Len(table') = Len(table) + 1
      BY <2>2, <3>1, AppendProperties
    <3> QED
      BY <2>0, <2>2, <3>1, <3>2 DEF RowsInv
  <2> QED
    BY <2>2, <2>3, CallsStay DEF RouterCallsInv
<1>6. CASE UNCHANGED routerVars
  <2>1. UNCHANGED <<feature, gen, cur, body, todo, held, copy, raced, panicked, calls, table>>
    BY <1>6 DEF routerVars
  <2>2. RowsInv'
    BY <2>1 DEF RouterCallsInv, RowsInv
  <2> QED
    BY <2>1, <2>2, CallsStay DEF RouterCallsInv
<1> QED
  BY <1>1, <1>2, <1>3, <1>4, <1>5, <1>6, RemoveKeeps, RestartKeeps, Zenon DEF RouterSim

\* What the invariant says of the routers.
LEMMA RouterCallsStrong == RouterCallsInv => RoutersSound
<1> SUFFICES ASSUME RouterCallsInv PROVE RoutersSound
  OBVIOUS
<1>0. RouterTypes /\ ListsInv /\ EnabledInv /\ CalmInv /\ RowsInv
  BY DEF RouterCallsInv
<1>1. RoutersTypeOK
  <2>1. ASSUME NEW g \in 1..MaxGens
        PROVE  /\ {body[g].on, body[g].up, body[g].used} \subseteq BOOLEAN
               /\ {body[g].first, body[g].last} \subseteq Settings \cup {NoSetting}
               /\ body[g].entry \in [Entries -> [there : BOOLEAN, master : BOOLEAN, says : BOOLEAN]]
               /\ body[g].domain \in 0..MaxCalls
    BY <1>0 DEF RouterTypes, Bodies, EntryRecords
  <2>2. ASSUME NEW g \in 1..MaxGens PROVE body[g].list \in 0..MaxCalls
    <3>1. body[g].list \in Nat /\ calls \in 0..MaxCalls /\ MaxCalls \in Nat
      BY <1>0, RoutersAssumption DEF RouterTypes, Bodies
    <3>2. Cardinality(Appending) \in Nat
      BY <1>0, FS_CardinalityType DEF ListsInv
    <3>3. body[g].list + Cardinality(Appending) <= calls
      BY <1>0 DEF ListsInv
    <3> QED
      BY <3>1, <3>2, <3>3
  <2>3. \A c \in Clients : held[c] \in 0..gen
    BY <1>0 DEF RouterTypes
  <2>4. gen \in 0..MaxGens /\ cur \in 0..gen /\ calls \in 0..MaxCalls /\ Len(table) <= MaxRules
    BY <1>0 DEF RouterTypes, RowsInv
  <2> QED
    BY <2>1, <2>2, <2>3, <2>4 DEF RoutersTypeOK
<1>2. EntriesSound
  <2>1. ASSUME cur # 0, Quiet, ~ raced PROVE OneConfiguration(body[cur]) /\ GroupsEnable(body[cur]) /\ SaidAndListed(body[cur])
    <3>1. PICK n : n = NowBody
      OBVIOUS
    <3>2. Good(n)
      BY <1>0, <2>1, <3>1, Zenon DEF CalmInv
    <3> QED
      BY <2>1, <3>1, <3>2 DEF NowBody, Good
  <2>2. feature \in Tabled => \A g \in 1..MaxGens : There(body[g]) # {} => body[g].used
    BY <1>0 DEF EnabledInv
  <2>3. panicked => raced
    BY <1>0 DEF CalmInv
  <2> QED
    BY <2>1, <2>2, <2>3, Zenon DEF EntriesSound, Tabled
<1>3. feature = "acl" => WildcardsMean /\ DenialsHaveRules
  BY <1>0, WildcardsCompare, DenialsMeet DEF RowsInv
<1>4. feature = "table" => ShortestNetmaskWins /\ HalfNetmasksReach
  BY <1>0, BestIsFound, HalvesReach DEF RowsInv
<1> QED
  BY <1>1, <1>2, <1>3, <1>4 DEF RoutersSound

\* RoutersSound: a router that calls do not meet in has the settings of one call, is enabled
\* exactly while it has groups or a domain, says of its groups what they are and has every
\* append in its lists; entries come only into routers in which the feature was once enabled,
\* and only calls that meet panic; wildcards and rules mean what they say; and of the routes
\* that FindRoute takes to match, the one of the shortest netmask is found: for any clients,
\* any interleaving of their steps, and any table.
THEOREM RoutersStaySound == RoutersSpec => []RoutersSound
<1>1. RoutersInit => RouterCallsInv
  <2> SUFFICES ASSUME RoutersInit PROVE RouterCallsInv
    OBVIOUS
  <2>1. /\ gen = 0 /\ cur = 0 /\ body = [g \in 1..MaxGens |-> NewBody]
        /\ todo = [c \in Clients |-> <<>>] /\ held = [c \in Clients |-> 0] /\ copy = [c \in Clients |-> NoCopy]
        /\ raced = FALSE /\ panicked = FALSE /\ calls = 0 /\ table = <<>>
    BY DEF RoutersInit
  <2>2. calls \in 0..MaxCalls /\ MaxRules \in Nat
    BY <2>1, RoutersAssumption
  <2>3. RouterTypes /\ ListsInv /\ EnabledInv /\ CalmInv
    BY <2>1, <2>2, NoCalls
  <2>4. RowsInv
    BY <2>1, <2>2 DEF RowsInv
  <2> QED
    BY <2>3, <2>4 DEF RouterCallsInv
<1>2. RouterCallsInv /\ [RouterSim]_routerVars => RouterCallsInv'
  BY RouterCallsKept
<1>3. RouterCallsInv => RoutersSound
  BY RouterCallsStrong
<1> QED
  BY <1>1, <1>2, <1>3, PTL DEF RoutersSpec

-----------------------------------------------------------------------------
(* The FRR routers: their files.                                           *)

FrrLines == OspfLines \cup UNION {ToSet(q.lines) : q \in BgpRequests}
Sections == [head : {"ospf", AnAs} \cup {q.as : q \in BgpRequests}, lines : Seq(FrrLines)]
Confs    == Seq(Sections)
Heads    == {"ospf", AnAs} \cup {q.as : q \in BgpRequests}

\* No section has a line twice.
NoneTwice(conf) == \A i \in DOMAIN conf : IsInjective(conf[i].lines)

\* A file that grew: its sections stay and so does every line.
Grows(conf, grown) ==
  /\ grown \in Confs
  /\ \A i \in DOMAIN conf : i \in DOMAIN grown /\ grown[i].head = conf[i].head
  /\ \A line : Mentions(conf, line) => Mentions(grown, line)

HasHead(conf, head) == \E i \in DOMAIN conf : conf[i].head = head

\* It stays grown when it grows on.
LEMMA GrowsOn ==
  ASSUME NEW conf, NEW mid, NEW grown, Grows(conf, mid), Grows(mid, grown)
  PROVE  Grows(conf, grown) /\ \A h : HasHead(conf, h) => HasHead(grown, h)
BY DEF Grows, HasHead

\* A line that is put in front of others it is none of leaves each of them once.
LEMMA FrontOnce ==
  ASSUME NEW s \in Seq(FrrLines), NEW line \in FrrLines
  PROVE  /\ <<line>> \o s \in Seq(FrrLines) /\ ToSet(<<line>> \o s) = {line} \cup ToSet(s)
         /\ IsInjective(s) /\ line \notin ToSet(s) => IsInjective(<<line>> \o s)
<1>0. PICK n \in Nat : n = Len(s)
  OBVIOUS
<1>1. PICK t : n = Len(s) /\ t = <<line>> \o s
  BY <1>0
<1>2. t \in Seq(FrrLines) /\ Len(t) = n + 1 /\ t[1] = line /\ \A i \in 1..n : t[i + 1] = s[i]
  BY <1>1
<1>3. DOMAIN t = 1..n + 1 /\ DOMAIN s = 1..n
  BY <1>1, <1>2
<1>4. \A i \in 1..n + 1 : i = 1 \/ (i - 1 \in 1..n /\ (i - 1) + 1 = i /\ t[i] = s[i - 1])
  BY <1>1, <1>2
<1>5. ToSet(t) = {line} \cup ToSet(s)
  <2>1. ASSUME NEW i \in 1..n + 1 PROVE t[i] \in {line} \cup ToSet(s)
    BY <1>2, <1>3, <1>4 DEF ToSet
  <2>2. line \in ToSet(t)
    <3>1. 1 \in 1..n + 1
      BY <1>1
    <3> QED
      BY <1>2, <1>3, <3>1 DEF ToSet
  <2>3. \A x \in ToSet(s) : x \in ToSet(t)
    <3>1. \A i \in 1..n : i + 1 \in 1..n + 1
      BY <1>1
    <3> QED
      BY <1>2, <1>3, <3>1 DEF ToSet
  <2>4. ToSet(t) = {t[i] : i \in 1..n + 1}
    BY <1>3 DEF ToSet
  <2> QED
    BY <2>1, <2>2, <2>3, <2>4
<1>6. ASSUME IsInjective(s), line \notin ToSet(s) PROVE IsInjective(t)
  <2> SUFFICES ASSUME NEW i \in 1..n + 1, NEW j \in 1..n + 1, t[i] = t[j] PROVE i = j
    BY <1>3 DEF IsInjective
  <2>1. \A k \in 1..n : s[k] \in ToSet(s)
    BY <1>3 DEF ToSet
  <2>2. i = 1 <=> j = 1
    BY <1>2, <1>4, <1>6, <2>1
  <2>3. ASSUME i # 1, j # 1 PROVE i - 1 = j - 1
    <3>1. i - 1 \in 1..n /\ j - 1 \in 1..n /\ s[i - 1] = s[j - 1]
      BY <1>4, <2>3
    <3> QED
      BY <1>3, <1>6, <3>1 DEF IsInjective
  <2> QED
    BY <1>1, <2>2, <2>3
<1> QED
  BY <1>1, <1>2, <1>5, <1>6

\* A line that is added where no section has it is there then, if its section is, and the
\* file has only grown.
LEMMA LineAdded ==
  ASSUME NEW conf \in Confs, NEW head, NEW line \in FrrLines, NEW grown, grown = AddLine(conf, head, line)
  PROVE  /\ Grows(conf, grown)
         /\ HasHead(conf, head) => Mentions(grown, line)
         /\ NoneTwice(conf) => NoneTwice(grown)
<1>1. CASE Mentions(conf, line)
  BY <1>1 DEF AddLine, Grows
<1>2. CASE ~ Mentions(conf, line) /\ ~ HasHead(conf, head)
  <2>1. {i \in DOMAIN conf : conf[i].head = head} = {}
    BY <1>2 DEF HasHead
  <2>2. grown = conf
    BY <1>2, <2>1 DEF AddLine, Insert
  <2> QED
    BY <1>2, <2>2 DEF Grows
<1>3. CASE ~ Mentions(conf, line) /\ HasHead(conf, head)
  <2>1. PICK hits : hits = {i \in DOMAIN conf : conf[i].head = head}
    OBVIOUS
  <2>2. hits # {} /\ hits \subseteq 1..Len(conf) /\ Len(conf) \in Nat /\ DOMAIN conf = 1..Len(conf)
    <3>1. Len(conf) \in Nat /\ DOMAIN conf = 1..Len(conf)
      BY DEF Confs
    <3> QED
      BY <1>3, <2>1, <3>1 DEF HasHead
  <2>3. \E i \in hits : \A j \in hits : i <= j
    BY <2>2, HasFirst
  <2>4. PICK hit : hit = CHOOSE i \in hits : \A j \in hits : i <= j
    OBVIOUS
  <2>5. hit \in hits
    BY <2>3, <2>4
  <2>6. grown = [conf EXCEPT ![hit].lines = <<line>> \o @]
    BY <1>3, <2>1, <2>2, <2>4 DEF AddLine, Insert
  <2>7. hit \in DOMAIN conf /\ \A i \in DOMAIN conf : conf[i] \in Sections
    BY <2>1, <2>5 DEF Confs
  <2>8. PICK front : front = <<line>> \o conf[hit].lines
    OBVIOUS
  <2>9. conf[hit].lines \in Seq(FrrLines)
    BY <2>7 DEF Sections
  <2>10. /\ front \in Seq(FrrLines) /\ ToSet(front) = {line} \cup ToSet(conf[hit].lines)
         /\ IsInjective(conf[hit].lines) /\ line \notin ToSet(conf[hit].lines) => IsInjective(front)
    BY <2>8, <2>9, FrontOnce
  <2>11. grown = [conf EXCEPT ![hit] = [conf[hit] EXCEPT !.lines = front]]
    BY <2>6, <2>8
  <2>12. PICK sec : sec = [conf[hit] EXCEPT !.lines = front]
    OBVIOUS
  <2>13. sec \in Sections /\ sec.head = conf[hit].head /\ sec.lines = front
    BY <2>7, <2>10, <2>12 DEF Sections
  <2>14. grown = [conf EXCEPT ![hit] = sec]
    BY <2>11, <2>12
  <2>15. grown \in Confs /\ DOMAIN grown = DOMAIN conf /\ grown[hit] = sec /\ \A i \in DOMAIN conf : i # hit => grown[i] = conf[i]
    BY <2>7, <2>13, <2>14 DEF Confs
  <2>16. \A l \in LinesIn(conf) : l \in LinesIn(grown)
    <3> SUFFICES ASSUME NEW i \in DOMAIN conf, NEW l \in ToSet(conf[i].lines) PROVE l \in ToSet(grown[i].lines)
      BY <2>15 DEF LinesIn
    <3> QED
      BY <2>10, <2>13, <2>15
  <2>17. line \in LinesIn(grown)
    BY <2>7, <2>10, <2>13, <2>15 DEF LinesIn
  <2>18. Grows(conf, grown)
    <3>1. \A i \in DOMAIN conf : grown[i].head = conf[i].head
      BY <2>13, <2>15
    <3>2. \A l : Mentions(conf, l) => Mentions(grown, l)
      BY <2>16 DEF Mentions
    <3> QED
      BY <2>15, <3>1, <3>2 DEF Grows
  <2>19. Mentions(grown, line)
    BY <2>17 DEF Mentions
  <2>20. ASSUME NoneTwice(conf) PROVE NoneTwice(grown)
    <3>1. line \notin ToSet(conf[hit].lines)
      BY <1>3, <2>7 DEF Mentions, LinesIn
    <3> QED
      BY <2>7, <2>10, <2>13, <2>15, <2>20, <3>1 DEF NoneTwice
  <2> QED
    BY <2>18, <2>19, <2>20
<1> QED
  BY <1>1, <1>2, <1>3

\* Adding the neighbours of a request one by one adds each.
LEMMA LinesAdded ==
  ASSUME NEW conf \in Confs, NEW as, HasHead(conf, as), NEW nbrs \in Seq(FrrLines), NEW grown, grown = WithNeighbors(conf, as, nbrs)
  PROVE  /\ Grows(conf, grown) /\ (NoneTwice(conf) => NoneTwice(grown))
         /\ \A l \in ToSet(nbrs) : Mentions(grown, l)
<1>1. PICK n \in Nat : n = Len(nbrs)
  OBVIOUS
<1> DEFINE added[i \in 0..Len(nbrs)] == IF i = 0 THEN conf ELSE AddLine(added[i - 1], as, nbrs[i])
<1>2. grown = added[n]
  BY <1>1 DEF WithNeighbors, HasHead
<1>3. added = [i \in 0..n |-> IF i = 0 THEN conf ELSE AddLine(added[i - 1], as, nbrs[i])]
  <2>1. PICK next : next = [p \in (1..n) \X Confs |-> AddLine(p[2], as, nbrs[p[1]])]
    OBVIOUS
  <2>2. \A i \in 1..n : nbrs[i] \in FrrLines
    BY <1>1, ElementOfSeq
  <2>3. ASSUME NEW i \in 1..n, NEW c \in Confs PROVE AddLine(c, as, nbrs[i]) \in Confs
    <3>1. PICK l \in FrrLines : l = nbrs[i]
      BY <2>2
    <3>2. PICK d : d = AddLine(c, as, l)
      OBVIOUS
    <3>3. Grows(c, d)
      BY <3>2, LineAdded
    <3> QED
      BY <3>1, <3>2, <3>3 DEF Grows
  <2>4. next \in [(1..n) \X Confs -> Confs]
    BY <2>1, <2>3
  <2>5. PICK f \in [0..n -> Confs] : \A k \in 0..n : f[k] = IF k = 0 THEN conf ELSE next[<<k, f[k - 1]>>]
    <3>1. PassStep(next, Confs, n)
      BY <2>4 DEF PassStep
    <3>2. PICK f : PassOf(f, next, Confs, conf, n)
      BY <3>1, PassExists
    <3> QED
      BY <3>2 DEF PassOf
  <2>6. \A k \in 1..n : k - 1 \in 0..n /\ k \in 0..n /\ k # 0
    OBVIOUS
  <2>7. \A k \in 1..n : next[<<k, f[k - 1]>>] = AddLine(f[k - 1], as, nbrs[k])
    BY <2>1, <2>6
  <2>8. \A k \in 0..n : k = 0 \/ k \in 1..n
    OBVIOUS
  <2>9. \A k \in 0..n : f[k] = IF k = 0 THEN conf ELSE AddLine(f[k - 1], as, nbrs[k])
    BY <2>5, <2>7, <2>8
  <2>10. f = [k \in 0..n |-> IF k = 0 THEN conf ELSE AddLine(f[k - 1], as, nbrs[k])]
    BY <2>5, <2>9
  <2> DEFINE Is(g) == g = [k \in 0..Len(nbrs) |-> IF k = 0 THEN conf ELSE AddLine(g[k - 1], as, nbrs[k])]
  <2>11. added = CHOOSE g : Is(g)
    OBVIOUS
  <2>12. Is(f)
    BY <1>1, <2>10
  <2> HIDE DEF Is, added
  <2>13. Is(added)
    BY <2>11, <2>12
  <2> QED
    BY <1>1, <2>13 DEF Is
<1> HIDE DEF added
<1>4. PICK T : T = {k \in 0..n : /\ added[k] \in Confs /\ Grows(conf, added[k]) /\ HasHead(added[k], as)
                                 /\ NoneTwice(conf) => NoneTwice(added[k])
                                 /\ \A i \in 1..k : Mentions(added[k], nbrs[i])}
  OBVIOUS
<1>5. 0 \in T
  <2>1. added[0] = conf /\ 0 \in 0..n
    <3>1. 0 \in 0..n
      OBVIOUS
    <3> QED
      BY <1>3, <3>1
  <2>2. Grows(conf, conf)
    BY DEF Grows
  <2>3. \A i \in 1..0 : Mentions(conf, nbrs[i])
    OBVIOUS
  <2> QED
    BY <1>4, <2>1, <2>2, <2>3
<1>6. ASSUME NEW k \in 1..n, k - 1 \in T PROVE k \in T
  <2>1. k - 1 \in 0..n /\ k \in 0..n /\ k # 0
    OBVIOUS
  <2>2. PICK c, d : c = added[k - 1] /\ d = added[k]
    OBVIOUS
  <2>3. d = AddLine(c, as, nbrs[k])
    BY <1>3, <2>1, <2>2
  <2>4. /\ c \in Confs /\ Grows(conf, c) /\ HasHead(c, as) /\ (NoneTwice(conf) => NoneTwice(c))
        /\ \A i \in 1..k - 1 : Mentions(c, nbrs[i])
    BY <1>4, <1>6, <2>2
  <2>5. nbrs[k] \in FrrLines
    BY <1>1, ElementOfSeq
  <2>6. Grows(c, d) /\ Mentions(d, nbrs[k]) /\ (NoneTwice(c) => NoneTwice(d))
    BY <2>3, <2>4, <2>5, LineAdded
  <2>7. Grows(conf, d) /\ HasHead(d, as) /\ d \in Confs
    BY <2>4, <2>6, GrowsOn DEF Grows, HasHead
  <2>8. \A i \in 1..k : Mentions(d, nbrs[i])
    <3>1. \A i \in 1..k - 1 : Mentions(d, nbrs[i])
      BY <2>4, <2>6 DEF Grows
    <3>2. \A i \in 1..k : i = k \/ i \in 1..k - 1
      OBVIOUS
    <3> QED
      BY <2>6, <3>1, <3>2
  <2> QED
    BY <1>4, <2>1, <2>2, <2>4, <2>6, <2>7, <2>8
<1>7. n \in T
  BY <1>5, <1>6, HoldsTo
<1>8. \A l \in ToSet(nbrs) : \E i \in 1..n : l = nbrs[i]
  BY <1>1 DEF ToSet
<1> QED
  BY <1>2, <1>4, <1>7, <1>8


-----------------------------------------------------------------------------
(* Their calls and their processes.                                        *)

DaemonNames == ToSet(Daemons)

\* What the calls are at, and what they hold.
FrrCalls == [at : {"rest", "resetting"}] \cup [at : {"launching"}, next : 1..3] \cup [at : {"killing"}, left : SUBSET DaemonNames]
            \cup [at : {"copied", "truncated"}, want : Wants, copy : Confs]

BackendType ==
  /\ running \in [Frrs -> BOOLEAN]
  /\ \E T : daemons \in [Frrs -> [DaemonNames -> T]]
  /\ \A p \in processes : \E r \in Frrs, d \in DaemonNames : \E n : p = <<r, d, n>>
  /\ file \in [Files -> Confs]
  /\ call \in [Frrs -> FrrCalls]
  /\ failed \subseteq Frrs
  /\ overlapped \in BOOLEAN /\ repeated \in BOOLEAN
  /\ \A a \in acked : a.f \in Files

\* The daemons of a router that live at this point of its call.
Expected(r) ==
  {d \in DaemonNames : \/ At(r, "rest") /\ running[r]
                       \/ At(r, "launching") /\ \E i \in 1..call[r].next - 1 : d = Daemons[i]
                       \/ At(r, "killing") /\ d \in call[r].left
                       \/ At(r, "copied") \/ At(r, "truncated")}

\* Those live, the router knows their processes, and it has no others.
RouterKnown(r) ==
  /\ \A d, n : <<r, d, n>> \in processes => d \in Expected(r) /\ n = daemons[r][d]
  /\ \A d \in Expected(r) : <<r, d, daemons[r][d]>> \in processes /\ daemons[r][d] # 0
  /\ At(r, "resetting") \/ At(r, "launching") => ~running[r]
  /\ At(r, "copied") \/ At(r, "truncated") => running[r]

\* What a file holds when the writes that are under way are not counted.
Kept(c) ==
  /\ c \in [Files -> Confs] /\ HasHead(c["ospfd.conf"], "ospf")
  /\ \A a \in acked : Mentions(c[a.f], a.line)
  /\ ~repeated => NoneTwice(c["bgpd.conf"])

\* The calls of two routers have not met at the files, and the one that is there has read
\* what is to be kept; where it began to write, the file is empty.
FilesKept ==
  /\ \A r, o \in Frrs : AtFiles(r) /\ AtFiles(o) => r = o
  /\ \E c : /\ Kept(c)
            /\ \A r \in Frrs : At(r, "copied") \/ At(r, "truncated") => call[r].copy = c[call[r].want.f]
            /\ \/ file = c /\ \A r \in Frrs : ~At(r, "truncated")
               \/ \E r \in Frrs : At(r, "truncated") /\ file = [c EXCEPT ![call[r].want.f] = <<>>]

BackendInv ==
  /\ BackendType
  /\ \A r \in Frrs \ failed : RouterKnown(r)
  /\ ~overlapped => FilesKept

\* The daemons are these three, in this order.
LEMMA ThreeDaemons ==
  /\ DaemonNames = {"zebra", "ospfd", "bgpd"}
  /\ Daemons[1] = "zebra" /\ Daemons[2] = "ospfd" /\ Daemons[3] = "bgpd"
<1>1. DOMAIN Daemons = 1..3
  BY DEF Daemons
<1>2. 1..3 = {1, 2, 3}
  OBVIOUS
<1>3. Daemons[1] = "zebra" /\ Daemons[2] = "ospfd" /\ Daemons[3] = "bgpd"
  BY DEF Daemons
<1> QED
  BY <1>1, <1>2, <1>3 DEF DaemonNames, ToSet

\* A request names one of the files and lines that can be asked for.
LEMMA WantsAre ==
  ASSUME NEW want \in Wants
  PROVE  /\ want.f \in Files /\ want.as \in Heads /\ want.lines \in Seq(FrrLines)
         /\ want.f = "ospfd.conf" => want.as = "ospf" /\ want.lines[1] \in FrrLines /\ ToSet(want.lines) = {want.lines[1]}
<1>1. CASE want \in [f : {"ospfd.conf"}, as : {"ospf"}, lines : {<<l>> : l \in OspfLines}]
  <2>1. PICK l \in OspfLines : want.lines = <<l>>
    BY <1>1
  <2>2. l \in FrrLines /\ want.lines \in Seq(FrrLines) /\ want.lines[1] = l
    BY <2>1 DEF FrrLines
  <2>3. ToSet(<<l>>) = {l}
    <3>1. DOMAIN <<l>> = 1..1
      OBVIOUS
    <3> QED
      BY <3>1 DEF ToSet
  <2> QED
    BY <1>1, <2>1, <2>2, <2>3 DEF Files, Heads
<1>2. CASE want \in {[f |-> "bgpd.conf", as |-> q.as, lines |-> q.lines] : q \in BgpRequests}
  <2>1. PICK q \in BgpRequests : want = [f |-> "bgpd.conf", as |-> q.as, lines |-> q.lines]
    BY <1>2
  <2>2. q.lines \in Seq(ToSet(q.lines))
    BY BackendAssumption
  <2>3. ToSet(q.lines) \subseteq FrrLines
    BY DEF FrrLines
  <2>4. q.lines \in Seq(FrrLines)
    BY <2>2, <2>3
  <2>5. want.f = "bgpd.conf" /\ want.as = q.as /\ want.lines = q.lines
    BY <2>1
  <2> QED
    BY <2>4, <2>5 DEF Files, Heads
<1> QED
  BY <1>1, <1>2 DEF Wants

\* What is known of the calls by what they are at.
LEMMA CallsAre ==
  ASSUME BackendType, NEW r \in Frrs
  PROVE  /\ At(r, "launching") => call[r].next \in 1..3
         /\ At(r, "killing") => call[r].left \subseteq DaemonNames
         /\ At(r, "copied") \/ At(r, "truncated") => call[r].want \in Wants /\ call[r].copy \in Confs
         /\ call[r].at \in {"rest", "resetting", "launching", "killing", "copied", "truncated"}
<1>1. PICK c \in FrrCalls : c = call[r]
  BY DEF BackendType
<1> QED
  BY <1>1 DEF At, FrrCalls

\* What a default file is.
LEMMA DefaultIs ==
  /\ [f \in Files |-> Default(f)] \in [Files -> Confs]
  /\ HasHead(Default("ospfd.conf"), "ospf") /\ NoneTwice(Default("bgpd.conf"))
<1>1. ASSUME NEW h \in Heads
      PROVE  /\ <<[head |-> h, lines |-> <<>>]>> \in Confs /\ HasHead(<<[head |-> h, lines |-> <<>>]>>, h)
             /\ NoneTwice(<<[head |-> h, lines |-> <<>>]>>)
  <2>1. PICK sec : sec = [head |-> h, lines |-> <<>>]
    OBVIOUS
  <2>2. sec \in Sections /\ sec.head = h /\ sec.lines = <<>>
    BY <2>1 DEF Sections, Heads
  <2>3. <<sec>> \in Seq(Sections) /\ DOMAIN <<sec>> = 1..1 /\ <<sec>>[1] = sec
    BY <2>2
  <2>4. IsInjective(<<>>)
    BY DEF IsInjective
  <2>5. 1..1 = {1}
    OBVIOUS
  <2> QED
    BY <2>1, <2>2, <2>3, <2>4, <2>5 DEF Confs, HasHead, NoneTwice
<1>2. "ospf" \in Heads /\ AnAs \in Heads
  BY DEF Heads
<1> QED
  BY <1>1, <1>2 DEF Default, Files

\* The file that is written is one, and has grown from the one that was read.
LEMMA ConfWritten ==
  ASSUME NEW was \in Confs, NEW want \in Wants, NEW new,
         new = IF want.f = "ospfd.conf" THEN WithNetwork(was, want.lines[1]) ELSE WithNeighbors(was, want.as, want.lines)
  PROVE  /\ new \in Confs /\ Grows(was, new)
         /\ want.f = "ospfd.conf" /\ HasHead(was, "ospf") => \A l \in ToSet(want.lines) : Mentions(new, l)
         /\ want.f # "ospfd.conf" => \A l \in ToSet(want.lines) : Mentions(new, l)
         /\ want.f # "ospfd.conf" /\ NoneTwice(was) /\ (IsInjective(want.lines) \/ HasHead(was, want.as)) => NoneTwice(new)
<1>1. /\ want.f \in Files /\ want.as \in Heads /\ want.lines \in Seq(FrrLines)
      /\ want.f = "ospfd.conf" => want.as = "ospf" /\ want.lines[1] \in FrrLines /\ ToSet(want.lines) = {want.lines[1]}
  BY WantsAre
<1>2. CASE want.f = "ospfd.conf"
  <2>1. new = AddLine(was, "ospf", want.lines[1])
    BY <1>2 DEF WithNetwork
  <2>2. PICK l \in FrrLines : l = want.lines[1]
    BY <1>1, <1>2
  <2>3. Grows(was, new) /\ (HasHead(was, "ospf") => Mentions(new, l))
    BY <2>1, <2>2, LineAdded
  <2> QED
    BY <1>1, <1>2, <2>2, <2>3 DEF Grows
<1>3. CASE want.f # "ospfd.conf" /\ HasHead(was, want.as)
  <2>1. PICK as, nbrs : nbrs \in Seq(FrrLines) /\ as = want.as /\ nbrs = want.lines
    BY <1>1
  <2>2. new = WithNeighbors(was, as, nbrs) /\ HasHead(was, as)
    BY <1>3, <2>1
  <2>3. Grows(was, new) /\ (NoneTwice(was) => NoneTwice(new)) /\ \A l \in ToSet(nbrs) : Mentions(new, l)
    BY <2>1, <2>2, LinesAdded
  <2> QED
    BY <1>3, <2>1, <2>3 DEF Grows
<1>4. CASE want.f # "ospfd.conf" /\ ~ HasHead(was, want.as)
  <2>1. PICK sec : sec = [head |-> want.as, lines |-> want.lines]
    OBVIOUS
  <2>2. new = Append(was, sec)
    BY <1>4, <2>1 DEF WithNeighbors, HasHead
  <2>3. sec \in Sections /\ sec.lines = want.lines
    BY <1>1, <2>1 DEF Sections, Heads
  <2>4. PICK n \in Nat : n = Len(was)
    BY DEF Confs
  <2>5. /\ new \in Seq(Sections) /\ DOMAIN new = 1..n + 1 /\ DOMAIN was = 1..n
        /\ new[n + 1] = sec /\ \A i \in 1..n : new[i] = was[i]
    BY <2>2, <2>3, <2>4 DEF Confs
  <2>6. \A i \in 1..n : i \in 1..n + 1
    OBVIOUS
  <2>7. \A i \in 1..n + 1 : i \in 1..n \/ i = n + 1
    OBVIOUS
  <2>8. n + 1 \in 1..n + 1
    OBVIOUS
  <2>9. LinesIn(new) = LinesIn(was) \cup ToSet(want.lines)
    <3>1. \A l : l \in LinesIn(new) <=> \E i \in 1..n + 1 : l \in ToSet(new[i].lines)
      BY <2>5 DEF LinesIn
    <3>2. \A l : l \in LinesIn(was) <=> \E i \in 1..n : l \in ToSet(was[i].lines)
      BY <2>5 DEF LinesIn
    <3>3. \A l : (\E i \in 1..n + 1 : l \in ToSet(new[i].lines)) <=> (\E i \in 1..n : l \in ToSet(was[i].lines)) \/ l \in ToSet(sec.lines)
      BY <2>5, <2>6, <2>7, <2>8
    <3> QED
      BY <2>3, <3>1, <3>2, <3>3
  <2>10. Grows(was, new)
    BY <2>5, <2>6, <2>9 DEF Grows, Mentions, Confs
  <2>11. \A l \in ToSet(want.lines) : Mentions(new, l)
    BY <2>9 DEF Mentions
  <2>12. NoneTwice(was) /\ IsInjective(want.lines) => NoneTwice(new)
    BY <2>3, <2>5, <2>7 DEF NoneTwice
  <2> QED
    BY <1>4, <2>5, <2>10, <2>11, <2>12 DEF Confs
<1> QED
  BY <1>2, <1>3, <1>4

\* The state of the routers has its types.
LEMMA BackendTypeKept ==
  ASSUME BackendType, NEW r \in Frrs,
         \/ BeginStart(r) \/ WriteDefaults(r) \/ LaunchDaemon(r)
         \/ BeginStop(r) \/ KillDaemon(r) \/ EndStop(r)
         \/ \E want \in Wants : ReadConfig(r, want)
         \/ TruncateConfig(r) \/ WriteConfig(r)
  PROVE  BackendType'
<1>1. CASE BeginStart(r)
  BY <1>1 DEF BeginStart, BackendType, FrrCalls
<1>2. CASE WriteDefaults(r)
  <2>1. file' \in [Files -> Confs]
    BY <1>2, DefaultIs DEF WriteDefaults
  <2>2. [at |-> "launching", next |-> 1] \in FrrCalls
    <3>1. 1 \in 1..3
      OBVIOUS
    <3> QED
      BY <3>1 DEF FrrCalls
  <2>3. call' \in [Frrs -> FrrCalls]
    BY <1>2, <2>2 DEF WriteDefaults, BackendType
  <2>4. acked' = {} /\ repeated' = FALSE /\ UNCHANGED <<running, daemons, processes, failed, overlapped>>
    BY <1>2 DEF WriteDefaults
  <2> QED
    BY <2>1, <2>3, <2>4 DEF BackendType
<1>3. CASE LaunchDaemon(r)
  <2>1. call[r].next \in 1..3 /\ Daemons[call[r].next] \in DaemonNames
    BY <1>3, CallsAre, ThreeDaemons DEF LaunchDaemon
  <2>2. PICK d, n : d = Daemons[call[r].next] /\ n = Fresh(r, d)
    OBVIOUS
  <2>3. CASE /\ daemons' = [daemons EXCEPT ![r][d] = n]
             /\ processes' = processes \cup {<<r, d, n>>}
             /\ call' = [call EXCEPT ![r] = IF d = "bgpd" THEN Rest ELSE [at |-> "launching", next |-> call[r].next + 1]]
             /\ running' = [running EXCEPT ![r] = (d = "bgpd")]
             /\ UNCHANGED <<failed, faults>>
    <3>1. PICK T : daemons \in [Frrs -> [DaemonNames -> T]]
      BY DEF BackendType
    <3>2. daemons' \in [Frrs -> [DaemonNames -> T \cup {n}]]
      BY <2>1, <2>2, <2>3, <3>1
    <3>3. call' \in [Frrs -> FrrCalls]
      <4>1. PICK c : c = IF d = "bgpd" THEN Rest ELSE [at |-> "launching", next |-> call[r].next + 1]
        OBVIOUS
      <4>2. d # "bgpd" => call[r].next + 1 \in 1..3
        BY <2>1, <2>2, ThreeDaemons
      <4>3. c \in FrrCalls
        BY <4>1, <4>2 DEF FrrCalls, Rest
      <4> QED
        BY <2>3, <4>1, <4>3 DEF BackendType
    <3>4. \A p \in processes' : \E s \in Frrs, e \in DaemonNames : \E m : p = <<s, e, m>>
      BY <2>1, <2>2, <2>3 DEF BackendType
    <3>5. running' \in [Frrs -> BOOLEAN]
      BY <2>3 DEF BackendType
    <3>6. \E S : daemons' \in [Frrs -> [DaemonNames -> S]]
      BY <3>2
    <3>7. UNCHANGED <<file, failed, overlapped, acked, repeated>>
      BY <1>3, <2>3 DEF LaunchDaemon
    <3> QED
      BY <3>3, <3>4, <3>5, <3>6, <3>7 DEF BackendType
  <2>4. CASE /\ Fails /\ failed' = failed \cup {r}
             /\ call' = [call EXCEPT ![r] = Rest]
             /\ UNCHANGED <<daemons, processes, running>>
    BY <1>3, <2>4 DEF LaunchDaemon, BackendType, FrrCalls, Rest
  <2> QED
    BY <1>3, <2>2, <2>3, <2>4 DEF LaunchDaemon
<1>4. CASE BeginStop(r)
  <2>1. {d \in ToSet(Daemons) : daemons[r][d] # 0} \in SUBSET DaemonNames
    BY DEF DaemonNames
  <2> QED
    BY <1>4, <2>1 DEF BeginStop, BackendType, FrrCalls
<1>5. CASE KillDaemon(r)
  <2>1. \A d : call[r].left \ {d} \subseteq DaemonNames
    BY <1>5, CallsAre DEF KillDaemon
  <2>2. PICK c \in FrrCalls : c = call[r] /\ c.at = "killing"
    BY <1>5 DEF KillDaemon, BackendType, At
  <2>3. \A d : [c EXCEPT !.left = @ \ {d}] \in FrrCalls
    BY <2>2 DEF FrrCalls
  <2>4. Rest \in FrrCalls
    BY DEF Rest, FrrCalls
  <2>5. call' \in [Frrs -> FrrCalls]
    <3>1. CASE call' = [call EXCEPT ![r] = Rest]
      BY <2>4, <3>1 DEF BackendType
    <3>2. ASSUME NEW d, call' = [call EXCEPT ![r].left = @ \ {d}] PROVE call' \in [Frrs -> FrrCalls]
      <4>1. PICK e \in FrrCalls : e = [c EXCEPT !.left = @ \ {d}]
        BY <2>3
      <4>2. call' = [call EXCEPT ![r] = e]
        BY <2>2, <3>2, <4>1
      <4> QED
        BY <4>2 DEF BackendType
    <3> QED
      BY <1>5, <3>1, <3>2 DEF KillDaemon
  <2>6. processes' \subseteq processes /\ failed' \subseteq Frrs
    BY <1>5 DEF KillDaemon, BackendType
  <2> QED
    BY <1>5, <2>5, <2>6 DEF KillDaemon, BackendType
<1>6. CASE EndStop(r)
  <2>1. PICK T : daemons \in [Frrs -> [DaemonNames -> T]]
    BY DEF BackendType
  <2>2. daemons' \in [Frrs -> [DaemonNames -> T \cup {0}]]
    BY <1>6, <2>1 DEF EndStop, NoProcs, DaemonNames
  <2>3. \E S : daemons' \in [Frrs -> [DaemonNames -> S]]
    BY <2>2
  <2>4. call' \in [Frrs -> FrrCalls]
    BY <1>6 DEF EndStop, BackendType, FrrCalls, Rest
  <2> QED
    BY <1>6, <2>3, <2>4 DEF EndStop, BackendType
<1>7. ASSUME NEW want \in Wants, ReadConfig(r, want) PROVE BackendType'
  <2>1. want.f \in Files
    BY WantsAre
  <2>2. file[want.f] \in Confs
    BY <2>1 DEF BackendType
  <2>3. [at |-> "copied", want |-> want, copy |-> file[want.f]] \in FrrCalls
    BY <2>2 DEF FrrCalls
  <2>4. call' \in [Frrs -> FrrCalls]
    BY <1>7, <2>3 DEF ReadConfig, BackendType
  <2> QED
    BY <1>7, <2>4 DEF ReadConfig, BackendType
<1>8. CASE TruncateConfig(r)
  <2>1. PICK c \in FrrCalls : c = call[r] /\ c.at = "copied"
    BY <1>8 DEF TruncateConfig, BackendType, At
  <2>2. [c EXCEPT !.at = "truncated"] \in FrrCalls /\ Rest \in FrrCalls
    BY <2>1 DEF FrrCalls, Rest
  <2>3. call' \in [Frrs -> FrrCalls]
    BY <1>8, <2>1, <2>2 DEF TruncateConfig, BackendType
  <2>4. call[r].want \in Wants
    BY <1>8, CallsAre DEF TruncateConfig
  <2>5. call[r].want.f \in Files
    BY <2>4, WantsAre
  <2>6. file' \in [Files -> Confs]
    <3>1. <<>> \in Confs
      BY DEF Confs
    <3> QED
      BY <1>8, <2>5, <3>1 DEF TruncateConfig, BackendType
  <2>7. \A a \in acked' : a.f \in Files
    <3>1. PICK f, line : f \in Files /\ f = call[r].want.f /\ line = call[r].want.lines[1]
      BY <2>5
    <3>2. acked' \subseteq acked \cup {[f |-> f, line |-> line]}
      BY <1>8, <3>1 DEF TruncateConfig
    <3> QED
      BY <3>1, <3>2 DEF BackendType
  <2> QED
    BY <1>8, <2>3, <2>6, <2>7 DEF TruncateConfig, BackendType
<1>9. CASE WriteConfig(r)
  <2>1. call[r].want \in Wants /\ call[r].copy \in Confs
    BY <1>9, CallsAre DEF WriteConfig
  <2>2. PICK want \in Wants, was \in Confs : want = call[r].want /\ was = call[r].copy
    BY <2>1
  <2>3. PICK new : new = IF want.f = "ospfd.conf" THEN WithNetwork(was, want.lines[1]) ELSE WithNeighbors(was, want.as, want.lines)
    OBVIOUS
  <2>4. new \in Confs /\ want.f \in Files
    BY <2>3, ConfWritten, WantsAre
  <2>5. file' = [file EXCEPT ![want.f] = new]
    BY <1>9, <2>2, <2>3 DEF WriteConfig
  <2>6. file' \in [Files -> Confs]
    BY <2>4, <2>5 DEF BackendType
  <2>7. Rest \in FrrCalls
    BY DEF Rest, FrrCalls
  <2>8. call' \in [Frrs -> FrrCalls]
    BY <1>9, <2>7 DEF WriteConfig, BackendType
  <2>9. \A a \in acked' : a.f \in Files
    <3>1. acked' \subseteq acked \cup {[f |-> want.f, line |-> l] : l \in ToSet(want.lines)}
      BY <1>9, <2>2 DEF WriteConfig, Acknowledge
    <3> QED
      BY <2>4, <3>1 DEF BackendType
  <2>10. repeated' \in BOOLEAN
    BY <1>9 DEF WriteConfig, BackendType
  <2> QED
    BY <1>9, <2>6, <2>8, <2>9, <2>10 DEF WriteConfig, BackendType
<1> QED
  BY <1>1, <1>2, <1>3, <1>4, <1>5, <1>6, <1>7, <1>8, <1>9

\* A step of one router leaves the processes of another as they are known.
LEMMA OtherKnown ==
  ASSUME NEW o, call'[o] = call[o], running'[o] = running[o], daemons'[o] = daemons[o],
         \A d, n : <<o, d, n>> \in processes' <=> <<o, d, n>> \in processes,
         RouterKnown(o)
  PROVE  RouterKnown(o)'
<1>1. \A at : At(o, at)' <=> At(o, at)
  BY DEF At
<1>2. Expected(o)' = Expected(o)
  BY <1>1 DEF Expected
<1> QED
  BY <1>1, <1>2 DEF RouterKnown

\* Every step of a router but what it asks of its processes.
LEMMA QuietKnown ==
  ASSUME BackendType, NEW r \in Frrs, RouterKnown(r),
         \/ BeginStart(r) \/ WriteDefaults(r) \/ BeginStop(r) \/ EndStop(r)
         \/ \E want \in Wants : ReadConfig(r, want)
         \/ TruncateConfig(r) \/ WriteConfig(r)
  PROVE  RouterKnown(r)'
<1>0. /\ \A at : At(r, at) <=> call[r].at = at
      /\ \A at : At(r, at)' <=> call'[r].at = at
  BY DEF At
<1>1. CASE BeginStart(r)
  <2>1. call'[r].at = "resetting" /\ UNCHANGED <<running, daemons, processes>>
    BY <1>1 DEF BeginStart, BackendType
  <2>2. At(r, "rest") /\ ~running[r]
    BY <1>1 DEF BeginStart
  <2>3. Expected(r)' = {} /\ Expected(r) = {}
    BY <1>0, <2>1, <2>2 DEF Expected
  <2> QED
    BY <1>0, <2>1, <2>2, <2>3 DEF RouterKnown
<1>2. CASE WriteDefaults(r)
  <2>1. call'[r].at = "launching" /\ call'[r].next = 1 /\ UNCHANGED <<running, daemons, processes>>
    BY <1>2 DEF WriteDefaults, BackendType
  <2>2. At(r, "resetting")
    BY <1>2 DEF WriteDefaults
  <2>3. \A i \in 1..call'[r].next - 1 : FALSE
    BY <2>1
  <2>4. Expected(r)' = {} /\ Expected(r) = {}
    BY <1>0, <2>1, <2>2, <2>3 DEF Expected
  <2> QED
    BY <1>0, <2>1, <2>2, <2>4 DEF RouterKnown
<1>3. CASE BeginStop(r)
  <2>1. At(r, "rest") /\ running[r] /\ UNCHANGED <<running, daemons, processes>>
    BY <1>3 DEF BeginStop
  <2>2. Expected(r) = DaemonNames
    BY <2>1 DEF Expected
  <2>3. \A d \in DaemonNames : daemons[r][d] # 0
    BY <2>2 DEF RouterKnown
  <2>4. {d \in ToSet(Daemons) : daemons[r][d] # 0} = DaemonNames
    BY <2>3 DEF DaemonNames
  <2>5. call'[r].at = "killing" /\ call'[r].left = DaemonNames
    BY <1>3, <2>4 DEF BeginStop, BackendType
  <2>6. Expected(r)' = DaemonNames
    BY <1>0, <2>5 DEF Expected
  <2> QED
    BY <1>0, <2>1, <2>2, <2>5, <2>6 DEF RouterKnown
<1>4. CASE EndStop(r)
  <2>1. call'[r].at = "rest" /\ ~running'[r] /\ UNCHANGED processes
    BY <1>4 DEF EndStop, BackendType, Rest
  <2>2. At(r, "killing") /\ call[r].left = {}
    BY <1>4 DEF EndStop
  <2>3. Expected(r) = {} /\ Expected(r)' = {}
    BY <1>0, <2>1, <2>2 DEF Expected
  <2> QED
    BY <1>0, <2>1, <2>3 DEF RouterKnown
<1>5. ASSUME NEW want \in Wants, ReadConfig(r, want) PROVE RouterKnown(r)'
  <2>1. call'[r].at = "copied" /\ UNCHANGED <<running, daemons, processes>>
    BY <1>5 DEF ReadConfig, BackendType
  <2>2. At(r, "rest") /\ running[r]
    BY <1>5 DEF ReadConfig
  <2>3. Expected(r)' = DaemonNames /\ Expected(r) = DaemonNames
    BY <1>0, <2>1, <2>2 DEF Expected
  <2> QED
    BY <1>0, <2>1, <2>2, <2>3 DEF RouterKnown
<1>6. CASE TruncateConfig(r)
  <2>1. call'[r].at \in {"rest", "truncated"} /\ UNCHANGED <<running, daemons, processes>>
    <3>1. PICK c \in FrrCalls : c = call[r] /\ c.at = "copied"
      BY <1>6 DEF TruncateConfig, BackendType, At
    <3>2. PICK e : e = [c EXCEPT !.at = "truncated"]
      OBVIOUS
    <3>3. e.at = "truncated"
      BY <3>1, <3>2 DEF FrrCalls
    <3>4. call' = [call EXCEPT ![r] = Rest] \/ call' = [call EXCEPT ![r] = e]
      BY <1>6, <3>1, <3>2 DEF TruncateConfig
    <3>5. call'[r] = Rest \/ call'[r] = e
      BY <3>4 DEF BackendType
    <3> QED
      BY <1>6, <3>3, <3>5 DEF TruncateConfig, Rest
  <2>2. At(r, "copied")
    BY <1>6 DEF TruncateConfig
  <2>3. running[r]
    BY <2>2 DEF RouterKnown
  <2>4. Expected(r)' = DaemonNames /\ Expected(r) = DaemonNames
    BY <1>0, <2>1, <2>2, <2>3 DEF Expected
  <2> QED
    BY <1>0, <2>1, <2>2, <2>3, <2>4 DEF RouterKnown
<1>7. CASE WriteConfig(r)
  <2>1. call'[r].at = "rest" /\ UNCHANGED <<running, daemons, processes>>
    BY <1>7 DEF WriteConfig, BackendType, Rest
  <2>2. At(r, "truncated")
    BY <1>7 DEF WriteConfig
  <2>3. running[r]
    BY <2>2 DEF RouterKnown
  <2>4. Expected(r)' = DaemonNames /\ Expected(r) = DaemonNames
    BY <1>0, <2>1, <2>2, <2>3 DEF Expected
  <2> QED
    BY <1>0, <2>1, <2>2, <2>3, <2>4 DEF RouterKnown
<1> QED
  BY <1>1, <1>2, <1>3, <1>4, <1>5, <1>6, <1>7

\* A daemon that is launched is known, and no other process of it lives.
LEMMA LaunchKnown ==
  ASSUME BackendType, NEW r \in Frrs, RouterKnown(r), LaunchDaemon(r), r \notin failed'
  PROVE  RouterKnown(r)'
<1>0. /\ \A at : At(r, at) <=> call[r].at = at
      /\ \A at : At(r, at)' <=> call'[r].at = at
  BY DEF At
<1> PICK k \in 1..3 : k = call[r].next /\ At(r, "launching")
  BY CallsAre DEF LaunchDaemon
<1>1. PICK d, n : k = call[r].next /\ d = Daemons[k] /\ n = Fresh(r, d) /\ At(r, "launching")
  OBVIOUS
<1>2. /\ daemons' = [daemons EXCEPT ![r][d] = n]
      /\ processes' = processes \cup {<<r, d, n>>}
      /\ call' = [call EXCEPT ![r] = IF d = "bgpd" THEN Rest ELSE [at |-> "launching", next |-> k + 1]]
      /\ running' = [running EXCEPT ![r] = (d = "bgpd")]
  BY <1>1 DEF LaunchDaemon
<1>3. PICK T : daemons \in [Frrs -> [DaemonNames -> T]]
  BY DEF BackendType
<1>4. d \in DaemonNames
  BY <1>1, ThreeDaemons
<1>5. daemons'[r][d] = n /\ \A e \in DaemonNames \ {d} : daemons'[r][e] = daemons[r][e]
  BY <1>2, <1>3, <1>4
<1>6. \A i \in 1..k - 1 : Daemons[i] # d
  BY <1>1, ThreeDaemons
<1>7. Expected(r) = {e \in DaemonNames : \E i \in 1..k - 1 : e = Daemons[i]}
  BY <1>0, <1>1 DEF Expected
<1>8. d \notin Expected(r)
  BY <1>6, <1>7
<1>9. \A m : <<r, d, m>> \notin processes
  BY <1>8 DEF RouterKnown
<1>10. n # 0
  <2>1. {1, 2} \subseteq 1..MaxFaults + 2
    BY BackendAssumption
  <2>2. \E m \in 1..MaxFaults + 2 : <<r, d, m>> \notin processes /\ m # daemons[r][d]
    BY <1>9, <2>1
  <2>3. n \in 1..MaxFaults + 2
    BY <1>1, <2>2 DEF Fresh
  <2> QED
    BY <2>3
<1>11. Expected(r)' = Expected(r) \cup {d}
  <2>1. CASE d = "bgpd"
    <3>1. k = 3
      <4>1. k = 1 \/ k = 2 \/ k = 3
        OBVIOUS
      <4>2. k = 1 => d = "zebra"
        BY <1>1, ThreeDaemons
      <4>3. k = 2 => d = "ospfd"
        BY <1>1, ThreeDaemons
      <4> QED
        BY <2>1, <4>1, <4>2, <4>3
    <3>2. call'[r].at = "rest" /\ running'[r]
      BY <1>2, <2>1 DEF BackendType, Rest
    <3>3. Expected(r)' = DaemonNames
      BY <1>0, <3>2 DEF Expected
    <3>4. \A e \in DaemonNames : e = d \/ \E i \in 1..k - 1 : e = Daemons[i]
      BY <2>1, <3>1, ThreeDaemons
    <3> QED
      BY <1>4, <1>7, <3>3, <3>4
  <2>2. CASE d # "bgpd"
    <3>1. call'[r].at = "launching" /\ call'[r].next = k + 1
      BY <1>2, <2>2 DEF BackendType
    <3>2. \A i : i \in 1..call'[r].next - 1 <=> i \in 1..k - 1 \/ i = k
      BY <3>1
    <3>3. Expected(r)' = {e \in DaemonNames : \E i \in 1..call'[r].next - 1 : e = Daemons[i]}
      BY <1>0, <3>1 DEF Expected
    <3> QED
      BY <1>1, <1>4, <1>7, <3>2, <3>3
  <2> QED
    BY <2>1, <2>2
<1>12. At(r, "launching")' => ~running'[r]
  <2>1. d = "bgpd" => call'[r].at = "rest"
    BY <1>2 DEF BackendType, Rest
  <2>2. d # "bgpd" => ~running'[r]
    BY <1>2 DEF BackendType
  <2> QED
    BY <1>0, <2>1, <2>2
<1>13. call'[r].at \in {"rest", "launching"}
  BY <1>2 DEF BackendType, Rest
<1>14. \A e, m : <<r, e, m>> \in processes' => e \in Expected(r)' /\ m = daemons'[r][e]
  <2> SUFFICES ASSUME NEW e, NEW m, <<r, e, m>> \in processes' PROVE e \in Expected(r)' /\ m = daemons'[r][e]
    OBVIOUS
  <2>1. CASE <<r, e, m>> \in processes
    <3>1. e \in Expected(r) /\ m = daemons[r][e]
      BY <2>1 DEF RouterKnown
    <3>2. e \in DaemonNames \ {d}
      BY <1>8, <3>1 DEF Expected
    <3> QED
      BY <1>5, <1>11, <3>1, <3>2
  <2>2. CASE <<r, e, m>> \notin processes
    <3>1. e = d /\ m = n
      BY <1>2, <2>2
    <3> QED
      BY <1>5, <1>11, <3>1
  <2> QED
    BY <2>1, <2>2
<1>15. \A e \in Expected(r)' : <<r, e, daemons'[r][e]>> \in processes' /\ daemons'[r][e] # 0
  <2> SUFFICES ASSUME NEW e \in Expected(r)' PROVE <<r, e, daemons'[r][e]>> \in processes' /\ daemons'[r][e] # 0
    OBVIOUS
  <2>1. CASE e = d
    BY <1>2, <1>5, <1>10, <2>1
  <2>2. CASE e # d
    <3>1. e \in Expected(r) /\ e \in DaemonNames \ {d}
      BY <1>11, <2>2 DEF Expected
    <3>2. <<r, e, daemons[r][e]>> \in processes /\ daemons[r][e] # 0
      BY <3>1 DEF RouterKnown
    <3> QED
      BY <1>2, <1>5, <3>1, <3>2
  <2> QED
    BY <2>1, <2>2
<1> QED
  BY <1>0, <1>12, <1>13, <1>14, <1>15 DEF RouterKnown

\* A daemon that is killed has no process any more.
LEMMA KillKnown ==
  ASSUME BackendType, NEW r \in Frrs, RouterKnown(r), KillDaemon(r), r \notin failed'
  PROVE  RouterKnown(r)'
<1>0. /\ \A at : At(r, at) <=> call[r].at = at
      /\ \A at : At(r, at)' <=> call'[r].at = at
  BY DEF At
<1>1. PICK d \in call[r].left : /\ processes' = processes \ {<<r, d, daemons[r][d]>>}
                                /\ call' = [call EXCEPT ![r].left = @ \ {d}]
  BY DEF KillDaemon
<1>2. At(r, "killing") /\ UNCHANGED <<running, daemons>>
  BY DEF KillDaemon
<1>3. call'[r].at = "killing" /\ call'[r].left = call[r].left \ {d}
  <2>1. PICK c \in FrrCalls : c = call[r] /\ c.at = "killing"
    BY <1>2 DEF BackendType, At
  <2>2. PICK e : e = [c EXCEPT !.left = @ \ {d}]
    OBVIOUS
  <2>3. call' = [call EXCEPT ![r] = e]
    BY <1>1, <2>1, <2>2
  <2>4. e.at = "killing" /\ e.left = c.left \ {d}
    BY <2>1, <2>2 DEF FrrCalls
  <2> QED
    BY <2>1, <2>3, <2>4 DEF BackendType
<1>4. Expected(r) = call[r].left /\ Expected(r)' = call[r].left \ {d}
  BY <1>0, <1>2, <1>3, CallsAre DEF Expected
<1> QED
  BY <1>0, <1>1, <1>2, <1>3, <1>4 DEF RouterKnown

\* What the routers know of their processes stays true.
LEMMA KnownKept ==
  ASSUME BackendType, NEW r \in Frrs, \A o \in Frrs \ failed : RouterKnown(o),
         \/ BeginStart(r) \/ WriteDefaults(r) \/ LaunchDaemon(r)
         \/ BeginStop(r) \/ KillDaemon(r) \/ EndStop(r)
         \/ \E want \in Wants : ReadConfig(r, want)
         \/ TruncateConfig(r) \/ WriteConfig(r)
  PROVE  \A o \in Frrs \ failed' : RouterKnown(o)'
<1>1. failed \subseteq failed'
  BY DEF BeginStart, WriteDefaults, LaunchDaemon, BeginStop, KillDaemon, EndStop, ReadConfig, TruncateConfig, WriteConfig
<1>2. ASSUME NEW o \in Frrs \ {r}
      PROVE  /\ call'[o] = call[o] /\ running'[o] = running[o] /\ daemons'[o] = daemons[o]
             /\ \A d, n : <<o, d, n>> \in processes' <=> <<o, d, n>> \in processes
  <2>1. call'[o] = call[o]
    BY DEF BeginStart, WriteDefaults, LaunchDaemon, BeginStop, KillDaemon, EndStop, ReadConfig, TruncateConfig, WriteConfig, BackendType
  <2>2. running'[o] = running[o] /\ daemons'[o] = daemons[o]
    BY DEF BeginStart, WriteDefaults, LaunchDaemon, BeginStop, KillDaemon, EndStop, ReadConfig, TruncateConfig, WriteConfig, BackendType
  <2>3. \A d, n : <<o, d, n>> \in processes' <=> <<o, d, n>> \in processes
    <3>1. CASE LaunchDaemon(r)
      <4>1. \/ UNCHANGED processes
            \/ \E d, n : processes' = processes \cup {<<r, d, n>>}
        BY <3>1 DEF LaunchDaemon
      <4> QED
        BY <4>1
    <3>2. CASE KillDaemon(r)
      <4>1. \/ UNCHANGED processes
            \/ \E d, n : processes' = processes \ {<<r, d, n>>}
        BY <3>2 DEF KillDaemon
      <4> QED
        BY <4>1
    <3>3. CASE UNCHANGED processes
      BY <3>3
    <3> QED
      BY <3>1, <3>2, <3>3 DEF BeginStart, WriteDefaults, BeginStop, EndStop, ReadConfig, TruncateConfig, WriteConfig
  <2> QED
    BY <2>1, <2>2, <2>3
<1>3. ASSUME NEW o \in Frrs \ failed' PROVE RouterKnown(o)'
  <2>1. RouterKnown(o)
    BY <1>1
  <2>2. CASE o # r
    BY <1>2, <2>1, <2>2, OtherKnown
  <2>3. CASE o = r
    BY <2>1, <2>3, QuietKnown, LaunchKnown, KillKnown
  <2> QED
    BY <2>2, <2>3
<1> QED
  BY <1>3

\* Unless calls meet at the files, these keep what was applied.
LEMMA FilesStep ==
  ASSUME BackendType, NEW r \in Frrs, ~overlapped => FilesKept, ~overlapped',
         \/ BeginStart(r) \/ WriteDefaults(r) \/ LaunchDaemon(r)
         \/ BeginStop(r) \/ KillDaemon(r) \/ EndStop(r)
         \/ \E want \in Wants : ReadConfig(r, want)
         \/ TruncateConfig(r) \/ WriteConfig(r)
  PROVE  FilesKept'
<1>0. /\ \A o, at : At(o, at) <=> call[o].at = at
      /\ \A o, at : At(o, at)' <=> call'[o].at = at
      /\ \A o : AtFiles(o) <=> call[o].at \in {"resetting", "copied", "truncated"}
      /\ \A o : AtFiles(o)' <=> call'[o].at \in {"resetting", "copied", "truncated"}
  BY DEF At, AtFiles
<1>1. ~overlapped /\ FilesKept
  BY DEF BeginStart, WriteDefaults, LaunchDaemon, BeginStop, KillDaemon, EndStop, ReadConfig, TruncateConfig, WriteConfig, BackendType
<1>2. \A o \in Frrs \ {r} : call'[o] = call[o]
  BY DEF BeginStart, WriteDefaults, LaunchDaemon, BeginStop, KillDaemon, EndStop, ReadConfig, TruncateConfig, WriteConfig, BackendType
<1>3. PICK c : /\ Kept(c)
               /\ \A o \in Frrs : At(o, "copied") \/ At(o, "truncated") => call[o].copy = c[call[o].want.f]
               /\ \/ file = c /\ \A o \in Frrs : ~At(o, "truncated")
                  \/ \E o \in Frrs : At(o, "truncated") /\ file = [c EXCEPT ![call[o].want.f] = <<>>]
  BY <1>1 DEF FilesKept
<1>4. \A o, p \in Frrs : AtFiles(o) /\ AtFiles(p) => o = p
  BY <1>1 DEF FilesKept
\* A call that comes to the files finds nobody there, and one that does not come to them
\* or leave them changes nothing of them.
<1>5. ASSUME AtFiles(r)' /\ ~AtFiles(r) => \A o \in Frrs \ {r} : ~AtFiles(o)
      PROVE  \A o, p \in Frrs : AtFiles(o)' /\ AtFiles(p)' => o = p
  BY <1>0, <1>2, <1>4, <1>5
<1>6. ASSUME ~AtFiles(r), ~AtFiles(r)', UNCHANGED <<file, acked, repeated>> PROVE FilesKept'
  <2>1. Kept(c)'
    BY <1>3, <1>6 DEF Kept
  <2>2. \A o \in Frrs : At(o, "copied")' \/ At(o, "truncated")' => call'[o].copy = c[call'[o].want.f]
    BY <1>0, <1>2, <1>3, <1>6
  <2>3. \/ file' = c /\ \A o \in Frrs : ~At(o, "truncated")'
        \/ \E o \in Frrs : At(o, "truncated")' /\ file' = [c EXCEPT ![call'[o].want.f] = <<>>]
    <3>1. CASE file = c /\ \A o \in Frrs : ~At(o, "truncated")
      BY <1>0, <1>2, <1>6, <3>1
    <3>2. ASSUME NEW o \in Frrs, At(o, "truncated"), file = [c EXCEPT ![call[o].want.f] = <<>>]
          PROVE  At(o, "truncated")' /\ file' = [c EXCEPT ![call'[o].want.f] = <<>>]
      <4>1. o # r
        BY <1>0, <1>6, <3>2
      <4>2. call'[o] = call[o]
        BY <1>2, <4>1
      <4> QED
        BY <1>0, <1>6, <3>2, <4>2
    <3> QED
      BY <1>3, <3>1, <3>2
  <2>4. \A o, p \in Frrs : AtFiles(o)' /\ AtFiles(p)' => o = p
    BY <1>5, <1>6
  <2> QED
    BY <2>1, <2>2, <2>3, <2>4 DEF FilesKept
<1>7. CASE BeginStart(r)
  <2>1. call'[r].at = "resetting" /\ At(r, "rest") /\ UNCHANGED <<file, acked, repeated>>
    BY <1>7 DEF BeginStart, BackendType
  <2>2. \A o \in Frrs \ {r} : ~AtFiles(o)
    BY <1>7 DEF BeginStart
  <2>3. Kept(c)'
    BY <1>3, <2>1 DEF Kept
  <2>4. file' = c /\ \A o \in Frrs : ~At(o, "truncated")' /\ ~At(o, "copied")'
    BY <1>0, <1>2, <1>3, <2>1, <2>2
  <2>5. \A o, p \in Frrs : AtFiles(o)' /\ AtFiles(p)' => o = p
    BY <1>5, <2>2
  <2> QED
    BY <2>3, <2>4, <2>5 DEF FilesKept
<1>8. CASE WriteDefaults(r)
  <2>1. /\ call'[r].at = "launching" /\ At(r, "resetting")
        /\ file' = [f \in Files |-> Default(f)] /\ acked' = {} /\ repeated' = FALSE
    BY <1>8 DEF WriteDefaults, BackendType
  <2>2. \A o \in Frrs : ~AtFiles(o)'
    BY <1>0, <1>2, <1>4, <2>1
  <2>3. PICK d : d = [f \in Files |-> Default(f)]
    OBVIOUS
  <2>4. d \in [Files -> Confs] /\ HasHead(d["ospfd.conf"], "ospf") /\ NoneTwice(d["bgpd.conf"])
    BY <2>3, DefaultIs DEF Files
  <2>5. Kept(d)'
    BY <2>1, <2>4 DEF Kept
  <2> QED
    BY <1>0, <2>1, <2>2, <2>3, <2>5 DEF FilesKept
<1>9. CASE LaunchDaemon(r)
  <2>1. call'[r].at \in {"launching", "rest"} /\ At(r, "launching") /\ UNCHANGED <<file, acked, repeated>>
    BY <1>9 DEF LaunchDaemon, BackendType, Rest
  <2> QED
    BY <1>0, <1>6, <2>1
<1>10. CASE BeginStop(r) \/ EndStop(r)
  <2>1. call'[r].at \in {"killing", "rest"} /\ call[r].at \in {"killing", "rest"} /\ UNCHANGED <<file, acked, repeated>>
    BY <1>10 DEF BeginStop, EndStop, At, BackendType, Rest
  <2> QED
    BY <1>0, <1>6, <2>1
<1>11. CASE KillDaemon(r)
  <2>1. PICK k \in FrrCalls : k = call[r] /\ k.at = "killing"
    BY <1>11 DEF KillDaemon, BackendType, At
  <2>2. call'[r] = Rest \/ \E d : call'[r] = [k EXCEPT !.left = @ \ {d}]
    <3>1. ASSUME NEW d, call' = [call EXCEPT ![r].left = @ \ {d}] PROVE call'[r] = [k EXCEPT !.left = @ \ {d}]
      BY <2>1, <3>1 DEF BackendType
    <3>2. ASSUME call' = [call EXCEPT ![r] = Rest] PROVE call'[r] = Rest
      BY <3>2 DEF BackendType
    <3>3. call' = [call EXCEPT ![r] = Rest] \/ \E d : call' = [call EXCEPT ![r].left = @ \ {d}]
      BY <1>11 DEF KillDaemon
    <3> QED
      BY <3>1, <3>2, <3>3
  <2>3. \A d : [k EXCEPT !.left = @ \ {d}].at = "killing"
    BY <2>1 DEF FrrCalls
  <2>4. call'[r].at \in {"killing", "rest"}
    <3>1. Rest.at = "rest"
      BY DEF Rest
    <3>2. ASSUME NEW d, call'[r] = [k EXCEPT !.left = @ \ {d}] PROVE call'[r].at = "killing"
      BY <2>3, <3>2
    <3> QED
      BY <2>2, <3>1, <3>2
  <2>5. UNCHANGED <<file, acked, repeated>>
    BY <1>11 DEF KillDaemon
  <2> QED
    BY <1>0, <1>6, <2>1, <2>4, <2>5
<1>12. ASSUME NEW want \in Wants, ReadConfig(r, want) PROVE FilesKept'
  <2>1. /\ call'[r] = [at |-> "copied", want |-> want, copy |-> file[want.f]]
        /\ At(r, "rest") /\ UNCHANGED <<file, acked, repeated>>
    BY <1>12 DEF ReadConfig, BackendType
  <2>2. \A o \in Frrs \ {r} : ~AtFiles(o)
    BY <1>12 DEF ReadConfig
  <2>3. Kept(c)'
    BY <1>3, <2>1 DEF Kept
  <2>4. call'[r].at = "copied" /\ call'[r].want = want /\ call'[r].copy = file[want.f]
    BY <2>1
  <2>5. file' = c /\ file = c /\ \A o \in Frrs : ~At(o, "truncated")'
    BY <1>0, <1>2, <1>3, <2>1, <2>2, <2>4
  <2>6. \A o \in Frrs : At(o, "copied")' \/ At(o, "truncated")' => call'[o].copy = c[call'[o].want.f]
    BY <1>0, <1>2, <2>2, <2>4, <2>5
  <2>7. \A o, p \in Frrs : AtFiles(o)' /\ AtFiles(p)' => o = p
    BY <1>5, <2>2
  <2> QED
    BY <2>3, <2>5, <2>6, <2>7 DEF FilesKept
<1>13. CASE TruncateConfig(r)
  <2>1. PICK k \in FrrCalls : k = call[r] /\ k.at = "copied"
    BY <1>13 DEF TruncateConfig, BackendType, At
  <2>2. PICK want \in Wants, was \in Confs : want = k.want /\ was = k.copy
    BY <2>1 DEF FrrCalls
  <2>3. At(r, "copied") /\ AtFiles(r) /\ was = c[want.f]
    BY <1>0, <1>3, <2>1, <2>2
  <2>4. \A o \in Frrs \ {r} : ~AtFiles(o)
    BY <1>4, <2>3
  <2>5. file = c
    BY <1>0, <1>3, <2>1, <2>4
  <2>6. \A o, p \in Frrs : AtFiles(o)' /\ AtFiles(p)' => o = p
    BY <1>5, <2>3
  <2>7. repeated' = repeated
    BY <1>13 DEF TruncateConfig
  <2>8. want.f \in Files
    BY WantsAre
  <2>9. CASE /\ want.f = "ospfd.conf" /\ Mentions(was, want.lines[1]) /\ call' = [call EXCEPT ![r] = Rest]
             /\ acked' = acked \cup {[f |-> want.f, line |-> want.lines[1]]}
             /\ UNCHANGED file
    <3>1. call'[r].at = "rest"
      BY <2>9 DEF BackendType, Rest
    <3>2. \A o \in Frrs : ~AtFiles(o)'
      BY <1>0, <1>2, <2>4, <3>1
    <3>3. Mentions(c[want.f], want.lines[1])
      BY <2>3, <2>9
    <3>4. \A a \in acked' : Mentions(c[a.f], a.line)
      <4>1. PICK a0 : a0 = [f |-> want.f, line |-> want.lines[1]]
        OBVIOUS
      <4>2. Mentions(c[a0.f], a0.line)
        BY <3>3, <4>1
      <4>3. acked' = acked \cup {a0}
        BY <2>9, <4>1
      <4> QED
        BY <1>3, <4>2, <4>3 DEF Kept
    <3>5. Kept(c)'
      BY <1>3, <2>7, <3>4 DEF Kept
    <3> QED
      BY <1>0, <2>5, <2>6, <2>9, <3>2, <3>5 DEF FilesKept
  <2>10. CASE /\ call' = [call EXCEPT ![r].at = "truncated"]
              /\ file' = [file EXCEPT ![want.f] = <<>>]
              /\ UNCHANGED acked
    <3>1. call'[r] = [k EXCEPT !.at = "truncated"]
      BY <2>1, <2>10 DEF BackendType
    <3>2. call'[r].at = "truncated" /\ call'[r].want = want /\ call'[r].copy = was
      BY <2>1, <2>2, <3>1 DEF FrrCalls
    <3>3. \A o \in Frrs : At(o, "copied")' \/ At(o, "truncated")' => call'[o].copy = c[call'[o].want.f]
      BY <1>0, <1>2, <2>3, <2>4, <3>2
    <3>4. At(r, "truncated")' /\ file' = [c EXCEPT ![call'[r].want.f] = <<>>]
      BY <1>0, <2>5, <2>10, <3>2
    <3>5. Kept(c)'
      BY <1>3, <2>7, <2>10 DEF Kept
    <3> QED
      BY <2>6, <3>3, <3>4, <3>5 DEF FilesKept
  <2> QED
    BY <1>13, <2>1, <2>2, <2>9, <2>10 DEF TruncateConfig
<1>14. CASE WriteConfig(r)
  <2>1. PICK k \in FrrCalls : k = call[r] /\ k.at = "truncated"
    BY <1>14 DEF WriteConfig, BackendType, At
  <2>2. PICK want \in Wants, was \in Confs : want = k.want /\ was = k.copy
    BY <2>1 DEF FrrCalls
  <2>3. At(r, "truncated") /\ AtFiles(r) /\ was = c[want.f]
    BY <1>0, <1>3, <2>1, <2>2
  <2>4. \A o \in Frrs \ {r} : ~AtFiles(o)
    BY <1>4, <2>3
  <2>5. file = [c EXCEPT ![want.f] = <<>>]
    BY <1>0, <1>3, <2>1, <2>2, <2>3, <2>4
  <2>6. PICK new : new = IF want.f = "ospfd.conf" THEN WithNetwork(was, want.lines[1]) ELSE WithNeighbors(was, want.as, want.lines)
    OBVIOUS
  <2>7. /\ file' = [file EXCEPT ![want.f] = new] /\ call' = [call EXCEPT ![r] = Rest]
        /\ repeated' = (repeated \/ (~IsInjective(want.lines) /\ \A i \in DOMAIN was : was[i].head # want.as))
        /\ acked' \subseteq acked \cup {[f |-> want.f, line |-> l] : l \in ToSet(want.lines)}
    BY <1>14, <2>1, <2>2, <2>6 DEF WriteConfig, Acknowledge
  <2>8. want.f \in Files /\ Files = {"ospfd.conf", "bgpd.conf"} /\ c \in [Files -> Confs]
    BY <1>3, WantsAre DEF Kept, Files
  <2>9. /\ new \in Confs /\ Grows(was, new)
        /\ want.f = "ospfd.conf" /\ HasHead(was, "ospf") => \A l \in ToSet(want.lines) : Mentions(new, l)
        /\ want.f # "ospfd.conf" => \A l \in ToSet(want.lines) : Mentions(new, l)
        /\ want.f # "ospfd.conf" /\ NoneTwice(was) /\ (IsInjective(want.lines) \/ HasHead(was, want.as)) => NoneTwice(new)
    BY <2>6, ConfWritten
  <2>10. PICK d : d = [c EXCEPT ![want.f] = new]
    OBVIOUS
  <2>11. file' = d /\ d \in [Files -> Confs] /\ d[want.f] = new /\ \A f \in Files \ {want.f} : d[f] = c[f]
    BY <2>5, <2>7, <2>8, <2>9, <2>10
  <2>12. \A f \in Files : \A line : Mentions(c[f], line) => Mentions(d[f], line)
    BY <2>3, <2>9, <2>11 DEF Grows
  <2>13. HasHead(d["ospfd.conf"], "ospf")
    BY <1>3, <2>3, <2>8, <2>9, <2>11 DEF Kept, Grows, HasHead
  <2>14. \A l \in ToSet(want.lines) : Mentions(d[want.f], l)
    BY <1>3, <2>3, <2>9, <2>11 DEF Kept
  <2>15. \A a \in acked' : Mentions(d[a.f], a.line)
    <3> SUFFICES ASSUME NEW a \in acked' PROVE Mentions(d[a.f], a.line)
      OBVIOUS
    <3>1. CASE a \in acked
      BY <1>3, <2>12, <3>1 DEF Kept, BackendType
    <3>2. ASSUME NEW l \in ToSet(want.lines), a = [f |-> want.f, line |-> l] PROVE Mentions(d[a.f], a.line)
      BY <2>14, <3>2
    <3> QED
      BY <2>7, <3>1, <3>2
  <2>16. ~repeated' => NoneTwice(d["bgpd.conf"])
    <3> SUFFICES ASSUME ~repeated' PROVE NoneTwice(d["bgpd.conf"])
      OBVIOUS
    <3>1. ~repeated /\ (IsInjective(want.lines) \/ HasHead(was, want.as))
      BY <2>7 DEF HasHead
    <3>2. NoneTwice(c["bgpd.conf"])
      BY <1>3, <3>1 DEF Kept
    <3> QED
      BY <2>3, <2>8, <2>9, <2>11, <3>1, <3>2
  <2>17. Kept(d)'
    BY <2>11, <2>13, <2>15, <2>16 DEF Kept
  <2>18. call'[r].at = "rest"
    BY <2>7 DEF BackendType, Rest
  <2>19. \A o \in Frrs : ~AtFiles(o)'
    BY <1>0, <1>2, <2>4, <2>18
  <2> QED
    BY <1>0, <2>11, <2>17, <2>19 DEF FilesKept
<1> QED
  BY <1>7, <1>8, <1>9, <1>10, <1>11, <1>12, <1>13, <1>14

\* The invariant holds.
LEMMA BackendInvariant == BackendSpec => []BackendInv
<1>1. BackendInit => BackendInv
  <2> SUFFICES ASSUME BackendInit PROVE BackendInv
    OBVIOUS
  <2>1. BackendType
    <3>1. daemons \in [Frrs -> [DaemonNames -> {0}]]
      BY DEF BackendInit, NoProcs, DaemonNames
    <3>2. \E T : daemons \in [Frrs -> [DaemonNames -> T]]
      BY <3>1
    <3>3. file \in [Files -> Confs]
      BY DefaultIs DEF BackendInit
    <3> QED
      BY <3>2, <3>3 DEF BackendInit, BackendType, FrrCalls, Rest
  <2>2. \A r \in Frrs : call[r].at = "rest" /\ ~running[r]
    BY DEF BackendInit, Rest
  <2>3. \A r \in Frrs : RouterKnown(r)
    <3>1. \A r \in Frrs : Expected(r) = {}
      BY <2>2 DEF Expected, At
    <3>2. processes = {}
      BY DEF BackendInit
    <3> QED
      BY <2>2, <3>1, <3>2 DEF RouterKnown, At
  <2>4. FilesKept
    <3>1. PICK d : d = [f \in Files |-> Default(f)]
      OBVIOUS
    <3>2. d \in [Files -> Confs] /\ HasHead(d["ospfd.conf"], "ospf") /\ NoneTwice(d["bgpd.conf"])
      BY <3>1, DefaultIs DEF Files
    <3>3. Kept(d)
      BY <3>2 DEF BackendInit, Kept
    <3>4. file = d
      BY <3>1 DEF BackendInit
    <3> QED
      BY <2>2, <3>3, <3>4 DEF FilesKept, AtFiles, At
  <2> QED
    BY <2>1, <2>3, <2>4 DEF BackendInv
<1>2. BackendInv /\ [BackendNext]_backendVars => BackendInv'
  <2> SUFFICES ASSUME BackendInv, [BackendNext]_backendVars PROVE BackendInv'
    OBVIOUS
  <2>1. CASE BackendNext
    <3>1. PICK r \in Frrs :
            \/ BeginStart(r) \/ WriteDefaults(r) \/ LaunchDaemon(r)
            \/ BeginStop(r) \/ KillDaemon(r) \/ EndStop(r)
            \/ \E want \in Wants : ReadConfig(r, want)
            \/ TruncateConfig(r) \/ WriteConfig(r)
      BY <2>1 DEF BackendNext
    <3>2. BackendType /\ (~overlapped => FilesKept) /\ \A o \in Frrs \ failed : RouterKnown(o)
      BY DEF BackendInv
    <3>3. BackendType'
      BY <3>1, <3>2, BackendTypeKept
    <3>4. \A o \in Frrs \ failed' : RouterKnown(o)'
      BY <3>1, <3>2, KnownKept
    <3>5. ~overlapped' => FilesKept'
      BY <3>1, <3>2, FilesStep
    <3> QED
      BY <3>3, <3>4, <3>5 DEF BackendInv
  <2>2. CASE UNCHANGED backendVars
    <3>1. UNCHANGED <<running, daemons, processes, file, call, failed, overlapped, acked, repeated>>
      BY <2>2 DEF backendVars
    <3>2. BackendType'
      BY <3>1 DEF BackendInv, BackendType
    <3>3. \A o \in Frrs \ failed : RouterKnown(o)'
      BY <3>1, OtherKnown DEF BackendInv
    <3>4. FilesKept => FilesKept'
      BY <3>1 DEF FilesKept, Kept, At, AtFiles
    <3> QED
      BY <3>1, <3>2, <3>3, <3>4 DEF BackendInv
  <2> QED
    BY <2>1, <2>2
<1> QED
  BY <1>1, <1>2, PTL DEF BackendSpec

\* A router that runs knows a process of every daemon and one that does not has none, unless
\* a start or a stop of it failed halfway; and what was applied stays in the files that all
\* routers share, no neighbour twice, unless the calls of two met there (Start, Stop,
\* ApplyOSPFConfig and ApplyBGPConfig of internal/router/router.go).
THEOREM RoutersKeepTheirs == BackendSpec => []BackendSound
<1>1. BackendInv => BackendSound
  <2> SUFFICES ASSUME BackendInv PROVE BackendSound
    OBVIOUS
  <2>1. BackendType /\ (~overlapped => FilesKept) /\ \A o \in Frrs \ failed : RouterKnown(o)
    BY DEF BackendInv
  <2>2. ProcessesKnown
    <3> SUFFICES ASSUME NEW r \in Frrs \ failed
                 PROVE  /\ \A p \in processes : p[1] = r => daemons[r][p[2]] = p[3]
                        /\ At(r, "rest") => {p[2] : p \in {q \in processes : q[1] = r}} = (IF running[r] THEN ToSet(Daemons) ELSE {})
      BY DEF ProcessesKnown
    <3>1. RouterKnown(r)
      BY <2>1
    <3>2. \A p \in processes : p[1] = r => p = <<r, p[2], p[3]>>
      BY <2>1 DEF BackendType
    <3>3. \A p \in processes : p[1] = r => daemons[r][p[2]] = p[3] /\ p[2] \in Expected(r)
      BY <3>1, <3>2 DEF RouterKnown
    <3>4. ASSUME At(r, "rest") PROVE {p[2] : p \in {q \in processes : q[1] = r}} = (IF running[r] THEN ToSet(Daemons) ELSE {})
      <4>1. Expected(r) = IF running[r] THEN DaemonNames ELSE {}
        BY <3>4 DEF Expected, At
      <4>2. \A d \in Expected(r) : \E p \in processes : p[1] = r /\ p[2] = d
        <5> SUFFICES ASSUME NEW d \in Expected(r) PROVE \E p \in processes : p[1] = r /\ p[2] = d
          OBVIOUS
        <5>1. <<r, d, daemons[r][d]>> \in processes
          BY <3>1 DEF RouterKnown
        <5> QED
          BY <5>1
      <4>3. {p[2] : p \in {q \in processes : q[1] = r}} = Expected(r)
        BY <3>3, <4>2
      <4> QED
        BY <4>1, <4>3 DEF DaemonNames
    <3> QED
      BY <3>3, <3>4
  <2>3. ConfigKept
    <3> SUFFICES ASSUME ~overlapped, \A r \in Frrs : ~AtFiles(r)
                 PROVE  /\ \A a \in acked : Mentions(file[a.f], a.line)
                        /\ ~repeated => \A i \in DOMAIN file["bgpd.conf"] : IsInjective(file["bgpd.conf"][i].lines)
      BY DEF ConfigKept
    <3>1. PICK c : /\ Kept(c)
                   /\ \/ file = c /\ \A r \in Frrs : ~At(r, "truncated")
                      \/ \E r \in Frrs : At(r, "truncated") /\ file = [c EXCEPT ![call[r].want.f] = <<>>]
      BY <2>1 DEF FilesKept
    <3>2. file = c
      BY <3>1 DEF At, AtFiles
    <3> QED
      BY <3>1, <3>2 DEF Kept, NoneTwice
  <2> QED
    BY <2>2, <2>3 DEF BackendSound
<1> QED
  BY <1>1, BackendInvariant, PTL
=============================================================================
