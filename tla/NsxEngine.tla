----------------------------- MODULE NsxEngine -----------------------------
(***************************************************************************)
(* internal/sim/engine_nsx.go: the engine that simulates one topology.     *)
(* Start launches an event loop that moves the queued packets; Stop marks  *)
(* the engine closed, waits for the launch and closes the reply channels   *)
(* of the pings in progress.  Ping takes one of a few slots and sends its  *)
(* probes one after the other: each registers a reply channel under a      *)
(* packet identifier made of the clock, sends the packet, waits for an     *)
(* echo reply or a timer, and removes the registration.  One step here is  *)
(* one critical section of e.mu, or one operation on a channel.            *)
(*                                                                         *)
(* What the network does with a packet is the subject of Forwarding; here  *)
(* a packet that entered it comes back as a reply or does not.             *)
(***************************************************************************)
EXTENDS Naturals, Sequences, FiniteSets

CONSTANTS
  Pingers,      \* goroutines that call Ping
  Controllers,  \* goroutines that call Start and Stop
  Nobody,
  MaxSlots,     \* maxConcurrentPings: every limit up to it is an instance
  Probes,       \* echo packets of a ping
  QueueCap,     \* the capacity of pendingEvents
  MaxClock,     \* bound on the clock readings that differ
  MaxStarts     \* bound on the starts of a behaviour

ASSUME NobodyAssumption == Nobody \notin Pingers
ASSUME BoundsAssumption == /\ MaxSlots \in Nat \ {0} /\ Probes \in Nat \ {0} /\ QueueCap \in Nat
                           /\ MaxClock \in Nat /\ MaxStarts \in Nat

Ids  == 0..MaxClock
Packets == [id : Ids, from : Pingers, probe : 1..Probes]

VARIABLES
  slots,            \* the capacity of pingSemaphore
  started, closed,  \* the flags of the engine
  starts,           \* the starts so far: each makes a new pendingEvents
  looping,          \* an event loop runs: Stop ends none
  ctl,              \* the step each controller has reached
  pending,          \* pendingEvents
  network,          \* packets the loop has injected
  pingResults,      \* who waits for the reply to each packet
  clock,            \* the wall clock the identifiers are made of
  pc, id, left,     \* the step of each ping, its packet, the probes it has left
  chan,             \* its reply channel
  replied,          \* history: the pings whose current probe was answered
  excused,          \* history: ... whose channel was closed, or whose identifier was shared
  spurious          \* history: ... that counted a probe nobody answered

engine == <<slots, started, closed, starts, looping, ctl>>
ping   == <<pc, id, left, chan>>
ghosts == <<replied, excused, spurious>>
vars   == <<engine, pending, network, pingResults, clock, ping, ghosts>>

Init ==
  /\ slots \in 1..MaxSlots
  /\ started = FALSE /\ closed = FALSE /\ starts = 0 /\ looping = FALSE
  /\ ctl = [c \in Controllers |-> "idle"]
  /\ pending = <<>> /\ network = {}
  /\ pingResults = [i \in Ids |-> Nobody]
  /\ clock = 0
  /\ pc = [p \in Pingers |-> "idle"]
  /\ id = [p \in Pingers |-> 0]
  /\ left = [p \in Pingers |-> 0]
  /\ chan = [p \in Pingers |-> "none"]
  /\ replied = {} /\ excused = {} /\ spurious = {}

-----------------------------------------------------------------------------
(* Start and Stop.                                                         *)

\* Start, under the lock: fresh channels, the packets of the old queue are abandoned.
Start(c) ==
  /\ ctl[c] = "idle" /\ ~ started /\ starts < MaxStarts
  /\ started' = TRUE /\ closed' = FALSE
  /\ starts' = starts + 1
  /\ pending' = <<>>
  /\ ctl' = [ctl EXCEPT ![c] = "launch"]
  /\ UNCHANGED <<slots, looping, network, pingResults, clock, ping, ghosts>>

\* ... and the goroutine, after it: network.Run returns at once and leaves its loop
\* running for a day, so the WaitGroup is never waited for.
Launch(c) ==
  /\ ctl[c] = "launch"
  /\ looping' = TRUE
  /\ ctl' = [ctl EXCEPT ![c] = "idle"]
  /\ UNCHANGED <<slots, started, closed, starts, pending, network, pingResults, clock, ping, ghosts>>

Stop(c) ==
  /\ ctl[c] = "idle" /\ started
  /\ started' = FALSE /\ closed' = TRUE
  /\ ctl' = [ctl EXCEPT ![c] = "wait"]
  /\ UNCHANGED <<slots, starts, looping, pending, network, pingResults, clock, ping, ghosts>>

Waiting == {p \in Pingers : \E i \in Ids : pingResults[i] = p}

\* Mutant: the channels are closed and stay registered.
StopClosesOnly(c) ==
  /\ ctl[c] = "wait"
  /\ chan' = [p \in Pingers |-> IF p \in Waiting THEN "closed" ELSE chan[p]]
  /\ excused' = excused \cup Waiting
  /\ ctl' = [ctl EXCEPT ![c] = "idle"]
  /\ UNCHANGED <<slots, started, closed, starts, looping, pending, network, pingResults, clock,
                 pc, id, left, replied, spurious>>

\* After wg.Wait: every registered reply channel is closed and forgotten.
StopCloses(c) ==
  /\ ctl[c] = "wait"
  /\ chan' = [p \in Pingers |-> IF p \in Waiting THEN "closed" ELSE chan[p]]
  /\ pingResults' = [i \in Ids |-> Nobody]
  /\ excused' = excused \cup Waiting
  /\ ctl' = [ctl EXCEPT ![c] = "idle"]
  /\ UNCHANGED <<slots, started, closed, starts, looping, pending, network, clock,
                 pc, id, left, replied, spurious>>

-----------------------------------------------------------------------------
(* Ping.                                                                   *)

Holding == {p \in Pingers : pc[p] \notin {"idle", "refused"}}

\* The semaphore is tried once: the ping beyond the last slot reports a loss at once.
Refuse(p) ==
  /\ pc[p] = "idle" /\ Cardinality(Holding) >= slots
  /\ pc' = [pc EXCEPT ![p] = "refused"]
  /\ UNCHANGED <<engine, pending, network, pingResults, clock, id, left, chan, ghosts>>

ReturnRefusal(p) ==
  /\ pc[p] = "refused"
  /\ pc' = [pc EXCEPT ![p] = "idle"]
  /\ UNCHANGED <<engine, pending, network, pingResults, clock, id, left, chan, ghosts>>

Accept(p) ==
  /\ pc[p] = "idle" /\ Cardinality(Holding) < slots
  /\ pc' = [pc EXCEPT ![p] = "probe"]
  /\ left' = [left EXCEPT ![p] = Probes]
  /\ UNCHANGED <<engine, pending, network, pingResults, clock, id, chan, ghosts>>

\* The pings that have a probe under way, and the packets that are.
Probing == {p \in Pingers : pc[p] \in {"send", "enqueue", "wait", "deregister"}}

Packet(p) == [id |-> id[p], from |-> p, probe |-> left[p]]

UnderWay == network \cup {pending[n] : n \in 1..Len(pending)}

\* Two readings of the clock may agree: a later registration takes the identifier over.
Register(p) ==
  /\ pc[p] = "probe"
  /\ \E now \in {clock, clock + 1} \cap Ids :
       LET shared == {q \in Probing : id[q] = now}
           stale  == \E k \in UnderWay : k.id = now
       IN /\ clock' = now
          /\ id' = [id EXCEPT ![p] = now]
          /\ pingResults' = [pingResults EXCEPT ![now] = p]
          /\ excused' = IF shared # {} \/ stale THEN excused \cup shared \cup {p} ELSE excused
  /\ chan' = [chan EXCEPT ![p] = "open"]
  /\ pc' = [pc EXCEPT ![p] = "send"]
  /\ UNCHANGED <<engine, pending, network, left, replied, spurious>>

\* SendPacket's first look at closed, and the event it emits for the viewers.
SendChecks(p) ==
  /\ pc[p] = "send"
  /\ pc' = [pc EXCEPT ![p] = IF closed THEN "wait" ELSE "enqueue"]
  /\ UNCHANGED <<engine, pending, network, pingResults, clock, id, left, chan, ghosts>>

\* Mutant: SendPacket without its second look at closed.
SendUnchecked(p) ==
  /\ pc[p] = "enqueue"
  /\ pending' = IF Len(pending) < QueueCap THEN Append(pending, Packet(p)) ELSE pending
  /\ pc' = [pc EXCEPT ![p] = "wait"]
  /\ UNCHANGED <<engine, network, pingResults, clock, id, left, chan, ghosts>>

\* ... and its second one, with the packet queued or dropped under the read lock.
SendQueues(p) ==
  /\ pc[p] = "enqueue"
  /\ pending' = IF ~ closed /\ Len(pending) < QueueCap THEN Append(pending, Packet(p)) ELSE pending
  /\ pc' = [pc EXCEPT ![p] = "wait"]
  /\ UNCHANGED <<engine, network, pingResults, clock, id, left, chan, ghosts>>

Count(p, got) ==
  /\ left' = [left EXCEPT ![p] = @ - 1]
  /\ spurious' = IF got /\ p \notin replied THEN spurious \cup {p} ELSE spurious
  /\ pc' = [pc EXCEPT ![p] = "deregister"]

\* The select takes a value, or finds the channel closed: both count as received,
\* and the sampled loss of the path may still turn that into a loss.
Receive(p) ==
  /\ pc[p] = "wait" /\ chan[p] \in {"full", "closed"}
  /\ \E got \in BOOLEAN : Count(p, got)
  /\ chan' = [chan EXCEPT ![p] = "none"]
  /\ UNCHANGED <<engine, pending, network, pingResults, clock, id, replied, excused>>

\* Mutant: no timer is armed for a packet that a closed engine dropped.
TimeoutWhenOpen(p) ==
  /\ pc[p] = "wait" /\ ~ closed
  /\ Count(p, FALSE)
  /\ chan' = [chan EXCEPT ![p] = "none"]
  /\ UNCHANGED <<engine, pending, network, pingResults, clock, id, replied, excused>>

\* The timer fires, even when a reply is there too.
Timeout(p) ==
  /\ pc[p] = "wait"
  /\ Count(p, FALSE)
  /\ chan' = [chan EXCEPT ![p] = "none"]
  /\ UNCHANGED <<engine, pending, network, pingResults, clock, id, replied, excused>>

\* The probe is over: the next one is sent, or the ping returns and its slot is free.
EndProbe(p) ==
  /\ pc[p] = "deregister"
  /\ pc' = [pc EXCEPT ![p] = IF left[p] = 0 THEN "idle" ELSE "probe"]
  /\ id' = [id EXCEPT ![p] = 0]
  /\ replied' = replied \ {p} /\ excused' = excused \ {p} /\ spurious' = spurious \ {p}
  /\ UNCHANGED <<engine, pending, network, clock, left, chan>>

\* The deferred delete, whoever is registered under the identifier by now.
Deregister(p) ==
  /\ EndProbe(p)
  /\ pingResults' = [pingResults EXCEPT ![id[p]] = Nobody]

-----------------------------------------------------------------------------
(* The loop and the network.                                               *)

\* The poller of any loop, also one of before a restart, drains the current queue.
Poll ==
  /\ looping /\ pending # <<>>
  /\ network' = network \cup {Head(pending)}
  /\ pending' = Tail(pending)
  /\ UNCHANGED <<engine, pingResults, clock, ping, ghosts>>

\* The ping whose current probe the packet is.
Answers(k) == {p \in Probing : p = k.from /\ id[p] = k.id /\ left[p] = k.probe}

\* Mutant: the reply is handed to any ping that waits.
ReplyToAnyone(k) ==
  /\ k \in network
  /\ network' = network \ {k}
  /\ \E j \in Ids : pingResults[j] # Nobody /\ chan' = [chan EXCEPT ![pingResults[j]] = "full"]
  /\ replied' = replied \cup Answers(k)
  /\ UNCHANGED <<engine, pending, pingResults, clock, pc, id, left, excused, spurious>>

\* makeReact on an echo reply (a packet may also never be answered): a non-blocking send to the ping that waits for it.
Reply(k) ==
  /\ k \in network
  /\ network' = network \ {k}
  /\ LET p == pingResults[k.id]
     IN chan' = IF p # Nobody /\ chan[p] = "open" THEN [chan EXCEPT ![p] = "full"] ELSE chan
  /\ replied' = replied \cup Answers(k)
  /\ UNCHANGED <<engine, pending, pingResults, clock, pc, id, left, excused, spurious>>

-----------------------------------------------------------------------------
PingStep(p) == \/ ReturnRefusal(p) \/ Register(p) \/ SendChecks(p) \/ SendQueues(p)
               \/ Receive(p) \/ Timeout(p) \/ Deregister(p)

Next == \/ \E c \in Controllers : Start(c) \/ Launch(c) \/ Stop(c) \/ StopCloses(c)
        \/ Poll
        \/ \E p \in Pingers : Refuse(p) \/ Accept(p) \/ PingStep(p)
        \/ \E k \in network : Reply(k)

Spec == Init /\ [][Next]_vars

\* The goroutines of a ping are scheduled and its timer fires.
FairSpec == Spec /\ \A p \in Pingers : WF_vars(PingStep(p))

-----------------------------------------------------------------------------
(* Properties.                                                             *)

\* The values each variable takes.
TypeOK ==
  /\ slots \in 1..MaxSlots
  /\ started \in BOOLEAN /\ closed \in BOOLEAN
  /\ starts \in 0..MaxStarts /\ looping \in BOOLEAN
  /\ ctl \in [Controllers -> {"idle", "launch", "wait"}]
  /\ pending \in Seq(Packets) /\ network \subseteq Packets
  /\ pingResults \in [Ids -> Pingers \cup {Nobody}]
  /\ clock \in Ids
  /\ pc \in [Pingers -> {"idle", "refused", "probe", "send", "enqueue", "wait", "deregister"}]
  /\ id \in [Pingers -> Ids]
  /\ left \in [Pingers -> Nat]
  /\ chan \in [Pingers -> {"none", "open", "full", "closed"}]
  /\ replied \subseteq Pingers /\ excused \subseteq Pingers /\ spurious \subseteq Pingers

\* A registered channel is open, so that makeReact never sends on a closed one
\* (a panic of the server), and no identifier stays registered by a ping that returned.
RegisteredIsLive ==
  \A i \in Ids : pingResults[i] # Nobody =>
    LET p == pingResults[i]
    IN /\ chan[p] # "closed"
       /\ pc[p] \in {"send", "enqueue", "wait", "deregister"} /\ id[p] = i

\* A probe that counts as received was answered, unless Stop closed the reply
\* channel of the ping or another packet carried the same clock reading.
SpuriousExplained == spurious \subseteq excused

\* Nothing is queued for an engine that is closed: SendPacket looks at the flag
\* again under the lock that Stop takes.
NothingQueuedClosed == [][closed /\ closed' => Len(pending') <= Len(pending)]_vars

\* Every ping returns, whatever is lost, refused, stopped or restarted meanwhile.
PingReturns == \A p \in Pingers : pc[p] # "idle" ~> pc[p] = "idle"
=============================================================================
