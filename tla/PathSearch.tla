----------------------------- MODULE PathSearch -----------------------------
(***************************************************************************)
(* The breadth-first search that finds the devices between two devices.    *)
(* The program has it in four places: tracePath of the engine, bfsPath of  *)
(* the packet simulation, and ComputeL3Path and computeL3PathToDevice of   *)
(* the ACL evaluation.  They differ in the order in which the neighbours   *)
(* of a device are seen: the engine's is that of a map, the others' that   *)
(* of the links.  Here it is any order.                                    *)
(***************************************************************************)
EXTENDS Naturals, Sequences, FiniteSets

CONSTANTS
  Devices,
  Networks,   \* the sets of links considered; a link is the set of its two ends
  NoDevice

ASSUME DevicesFinite  == IsFiniteSet(Devices) /\ NoDevice \notin Devices
ASSUME NetworksOfLinks == \A n \in Networks : n \subseteq SUBSET Devices

VARIABLES
  links, src, dst,  \* the network and the ends of the path
  phase,            \* searching, tracing back, or done
  queue,            \* the devices seen whose neighbours have not been
  prev,             \* for each device seen, the one it was seen from
  path              \* the result, built from its end; empty when there is none

vars == <<links, src, dst, phase, queue, prev, path>>

visited == DOMAIN prev

Linked(d, e)  == {d, e} \in links
Neighbours(d) == {e \in Devices : Linked(d, e)}

\* The orders in which a set of devices can be seen.
Orders(S) == {f \in [1..Cardinality(S) -> S] : \A d \in S : \E i \in 1..Cardinality(S) : f[i] = d}

-----------------------------------------------------------------------------
Init ==
  /\ links \in Networks
  /\ src \in Devices /\ dst \in Devices
  /\ queue = <<src>>
  /\ prev = [d \in {src} |-> NoDevice]
  /\ IF src = dst THEN phase = "done" /\ path = <<src>>
                  ELSE phase = "search" /\ path = <<>>

\* prev with the devices of a set seen from a device.
SeenFrom(d, S) == [e \in visited \cup S |-> IF e \in visited THEN prev[e] ELSE d]

\* Mutant: the device is seen as its own predecessor's source.
VisitFromSource ==
  /\ phase = "search" /\ queue # <<>>
  /\ LET d   == Head(queue)
         new == Neighbours(d) \ visited
     IN \E order \in Orders(new) :
          /\ prev' = SeenFrom(src, new)
          /\ queue' = Tail(queue) \o order
          /\ IF dst \in new THEN phase' = "trace" /\ path' = <<dst>> ELSE UNCHANGED <<phase, path>>
  /\ UNCHANGED <<links, src, dst>>

\* Mutant: the neighbours go to the front of the queue.
VisitDepthFirst ==
  /\ phase = "search" /\ queue # <<>>
  /\ LET d   == Head(queue)
         new == Neighbours(d) \ visited
     IN \E order \in Orders(new) :
          /\ prev' = SeenFrom(d, new)
          /\ queue' = order \o Tail(queue)
          /\ IF dst \in new THEN phase' = "trace" /\ path' = <<dst>> ELSE UNCHANGED <<phase, path>>
  /\ UNCHANGED <<links, src, dst>>

\* Mutant: the search ends with the neighbours of the source.
VisitOnce ==
  /\ phase = "search" /\ queue # <<>>
  /\ LET new == Neighbours(Head(queue)) \ visited
     IN /\ prev' = SeenFrom(Head(queue), new)
        /\ queue' = <<>>
        /\ IF dst \in new THEN phase' = "trace" /\ path' = <<dst>> ELSE UNCHANGED <<phase, path>>
  /\ UNCHANGED <<links, src, dst>>

\* The first device of the queue is taken and its neighbours are seen; the search
\* stops at the target, and those that come after it stay unseen.
Visit ==
  /\ phase = "search" /\ queue # <<>>
  /\ LET d   == Head(queue)
         new == Neighbours(d) \ visited
     IN IF dst \in new
          THEN \E seen \in {S \in SUBSET new : dst \in S} :
                 /\ prev' = SeenFrom(d, seen)
                 /\ phase' = "trace" /\ path' = <<dst>>
                 /\ queue' = Tail(queue)
          ELSE \E order \in Orders(new) :
                 /\ prev' = SeenFrom(d, new)
                 /\ queue' = Tail(queue) \o order
                 /\ UNCHANGED <<phase, path>>
  /\ UNCHANGED <<links, src, dst>>


\* Every device that can be seen has been.
GiveUp ==
  /\ phase = "search" /\ queue = <<>>
  /\ phase' = "done"
  /\ UNCHANGED <<links, src, dst, queue, prev, path>>

\* The path is completed from the target back to the source.
TraceBack ==
  /\ phase = "trace"
  /\ LET d == prev[Head(path)]
     IN /\ path' = <<d>> \o path
        /\ phase' = IF d = src THEN "done" ELSE "trace"
  /\ UNCHANGED <<links, src, dst, queue, prev>>

Next == Visit \/ GiveUp \/ TraceBack

Spec == Init /\ [][Next]_vars

\* A search is a loop of one goroutine, which runs.
FairSpec == Spec /\ WF_vars(Next)

-----------------------------------------------------------------------------
(* What the search promises.                                               *)

\* The source and the target are in one connected part of the network: a set of
\* devices that holds the source and has no link to the outside holds the target.
Closed(S) == \A d \in S : Neighbours(d) \subseteq S
Connected == \A S \in SUBSET Devices : src \in S /\ Closed(S) => dst \in S

Done == phase = "done"

\* The values each variable takes.
TypeOK ==
  /\ links \in Networks
  /\ src \in Devices /\ dst \in Devices
  /\ phase \in {"search", "trace", "done"}
  /\ queue \in Seq(visited)
  /\ visited \subseteq Devices
  /\ prev \in [visited -> Devices \cup {NoDevice}]
  /\ path \in Seq(Devices)

\* A path that is found is one of links of the network, from the source to the
\* target, whatever order the neighbours of each device come in.
PathIsLinked ==
  Done /\ path # <<>> =>
    /\ path[1] = src /\ path[Len(path)] = dst
    /\ \A i \in 1..(Len(path) - 1) : Linked(path[i], path[i + 1])

\* No path is reported only when the network has none: the queue runs empty only
\* after it has held every device that can be reached.
NoneMeansNone == Done /\ path = <<>> => ~ Connected

\* The devices within n links of the source.
Ball(n) ==
  LET within[k \in 0..n] == IF k = 0 THEN {src}
                            ELSE within[k - 1] \cup {d \in Devices : \E e \in within[k - 1] : Linked(d, e)}
  IN within[n]

\* The path found is a shortest one, so a packet simulated along it, its delay and
\* its ACLs are those of a shortest way through the network.
PathIsShortest == Done /\ Len(path) > 1 => dst \notin Ball(Len(path) - 2)

=============================================================================
