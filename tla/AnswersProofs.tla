---------------------------- MODULE AnswersProofs ----------------------------
(***************************************************************************)
(* What a user gets to see.  For every finite set of devices and every     *)
(* network of them, a path that is found is one of links from the source   *)
(* to the target, and none is reported only when there is none, whatever   *)
(* order neighbours are seen in; it is a shortest one, and what is         *)
(* evaluated along it lets no ping through a wall.  For any network        *)
(* without VLANs and tunnels a ping is answered where links lead, and for  *)
(* any overlay network one of a VLAN is.  For any terminals and devices,   *)
(* one terminal at a time that waits for its answers loses nothing of its  *)
(* log.  For any topologies, calls and failures, a browser tab whose       *)
(* answers meet their documents in order ends up showing what the server   *)
(* stores.  For any clients and threads, what watches over the server      *)
(* counts, limits and records what happened.                               *)
(***************************************************************************)
EXTENDS PathAcl, Forwarding, Terminals, FrontEnd, ServerWatch, Numbers, FiniteSetTheorems, SequenceTheorems, TLAPS

\* A device that has been seen was seen from a device that has been, over a link.
SeenOverLinks == \A d \in visited \ {src} : prev[d] \in visited /\ Linked(prev[d], d)

\* While the search goes on, a device that was seen is waiting or has had all its
\* neighbours seen.
Frontier ==
  phase = "search" =>
    \A d \in visited : (\E i \in 1..Len(queue) : queue[i] = d) \/ Neighbours(d) \subseteq visited

\* The path under construction.
Chain ==
  \A i \in 1..(Len(path) - 1) : Linked(path[i], path[i + 1])

Progress ==
  /\ phase = "search" => dst \notin visited /\ path = <<>> /\ src # dst
  /\ phase = "trace" => path # <<>> /\ path[1] \in visited \ {src}
  /\ path # <<>> => path[Len(path)] = dst
  /\ phase = "done" /\ path # <<>> => path[1] = src
  /\ phase = "done" /\ path = <<>> => dst \notin visited /\ Closed(visited)

IInv == TypeOK /\ src \in visited /\ SeenOverLinks /\ Frontier /\ Chain /\ Progress

-----------------------------------------------------------------------------
\* The orders of a set are sequences of its elements, and each holds all of them.
LEMMA OrdersAreSeqs ==
  ASSUME NEW S, IsFiniteSet(S), NEW f \in Orders(S)
  PROVE  f \in Seq(S) /\ Len(f) \in Nat /\ \A d \in S : \E i \in 1..Len(f) : f[i] = d
<1>1. Cardinality(S) \in Nat
  BY FS_CardinalityType
<1>2. f \in [1..Cardinality(S) -> S] /\ \A d \in S : \E i \in 1..Cardinality(S) : f[i] = d
  BY DEF Orders
<1>3. f \in Seq(S) /\ Len(f) = Cardinality(S)
  BY <1>1, <1>2
<1> QED
  BY <1>1, <1>2, <1>3

\* What is seen next is a set of devices, finite like all of them.
LEMMA NewFinite == ASSUME NEW d PROVE IsFiniteSet(Neighbours(d) \ visited)
<1>1. Neighbours(d) \ visited \subseteq Devices
  BY DEF Neighbours
<1> QED
  BY <1>1, FS_Subset, DevicesFinite

\* SeenFrom keeps what was seen and adds the new devices with their predecessor.
LEMMA SeenFromFacts ==
  ASSUME TypeOK, NEW d \in visited, NEW S \in SUBSET Devices
  PROVE  /\ DOMAIN SeenFrom(d, S) = visited \cup S
         /\ SeenFrom(d, S) \in [visited \cup S -> Devices \cup {NoDevice}]
         /\ \A e \in visited : SeenFrom(d, S)[e] = prev[e]
         /\ \A e \in S \ visited : SeenFrom(d, S)[e] = d
<1>1. d \in Devices /\ prev \in [visited -> Devices \cup {NoDevice}]
  BY DEF TypeOK
<1> QED
  BY <1>1 DEF SeenFrom

-----------------------------------------------------------------------------
\* The search begins with nothing seen but the source.
LEMMA InitIInv == Init => IInv
<1> SUFFICES ASSUME Init PROVE IInv
  OBVIOUS
<1>1. visited = {src} /\ prev[src] = NoDevice
  BY DEF Init, visited
<1>2. TypeOK
  <2>1. queue \in Seq(visited)
    BY <1>1 DEF Init
  <2>2. prev \in [visited -> Devices \cup {NoDevice}]
    BY <1>1 DEF Init
  <2>3. path = <<>> \/ path = <<src>>
    BY DEF Init
  <2>4. path \in Seq(Devices)
    <3>1. src \in Devices
      BY DEF Init
    <3>2. <<src>> \in Seq(Devices) /\ <<>> \in Seq(Devices)
      BY <3>1
    <3> QED
      BY <2>3, <3>2
  <2>5. phase \in {"search", "trace", "done"}
    BY DEF Init
  <2> QED
    BY <1>1, <2>1, <2>2, <2>4, <2>5 DEF Init, TypeOK
<1>3. Frontier
  BY <1>1 DEF Init, Frontier
<1>4. Chain
  BY DEF Init, Chain
<1>5. Progress
  <2>1. CASE src = dst
    <3>1. phase = "done" /\ path = <<src>>
      BY <2>1 DEF Init
    <3>2. path # <<>> /\ path[1] = src /\ path[Len(path)] = src
      BY <3>1
    <3> QED
      BY <2>1, <3>1, <3>2 DEF Progress
  <2>2. CASE src # dst
    BY <1>1, <2>2 DEF Init, Progress
  <2> QED
    BY <2>1, <2>2
<1> QED
  BY <1>1, <1>2, <1>3, <1>4, <1>5 DEF IInv, SeenOverLinks

\* The part of a visit that sees new devices, common to its two cases.
LEMMA VisitSees ==
  ASSUME IInv, phase = "search", queue # <<>>,
         NEW S \in SUBSET (Neighbours(Head(queue)) \ visited),
         prev' = SeenFrom(Head(queue), S), UNCHANGED <<links, src, dst>>
  PROVE  /\ visited' = visited \cup S
         /\ Head(queue) \in visited
         /\ prev' \in [visited' -> Devices \cup {NoDevice}]
         /\ visited' \subseteq Devices
         /\ SeenOverLinks'
<1> DEFINE d == Head(queue)
<1>1. d \in visited
  BY DEF IInv, TypeOK
<1>2. S \subseteq Devices /\ \A e \in S : Linked(d, e) /\ e \notin visited
  BY DEF Neighbours
<1>a. S \in SUBSET Devices /\ TypeOK
  BY <1>2 DEF IInv
<1>b. /\ DOMAIN SeenFrom(d, S) = visited \cup S
      /\ SeenFrom(d, S) \in [visited \cup S -> Devices \cup {NoDevice}]
      /\ \A e \in visited : SeenFrom(d, S)[e] = prev[e]
      /\ \A e \in S \ visited : SeenFrom(d, S)[e] = d
  BY <1>1, <1>a, SeenFromFacts
<1>3. /\ DOMAIN prev' = visited \cup S
      /\ prev' \in [visited \cup S -> Devices \cup {NoDevice}]
      /\ \A e \in visited : prev'[e] = prev[e]
      /\ \A e \in S \ visited : prev'[e] = d
  BY <1>b
<1>4. visited' = visited \cup S
  BY <1>3 DEF visited
<1>5. SeenOverLinks'
  <2> SUFFICES ASSUME NEW e \in visited' \ {src'} PROVE (prev[e] \in visited /\ Linked(prev[e], e))'
    BY DEF SeenOverLinks
  <2>1. CASE e \in visited
    BY <2>1, <1>3, <1>4 DEF IInv, SeenOverLinks, Linked
  <2>2. CASE e \in S
    BY <2>2, <1>1, <1>2, <1>3, <1>4 DEF Linked
  <2> QED
    BY <2>1, <2>2, <1>4
<1> QED
  BY <1>1, <1>2, <1>3, <1>4, <1>5 DEF IInv, TypeOK

\* A device is visited.
LEMMA VisitIInv == IInv /\ Visit => IInv'
<1> SUFFICES ASSUME IInv, Visit PROVE IInv'
  OBVIOUS
<1> DEFINE d == Head(queue)
           new == Neighbours(d) \ visited
<1>1. phase = "search" /\ queue # <<>> /\ UNCHANGED <<links, src, dst>>
  BY DEF Visit
<1>2. queue \in Seq(visited) /\ src \in visited /\ path = <<>> /\ dst \notin visited
  BY <1>1 DEF IInv, TypeOK, Progress
<1>3. CASE dst \in new
  <2>1. PICK S \in SUBSET new : /\ dst \in S
                                /\ prev' = SeenFrom(d, S)
                                /\ phase' = "trace" /\ path' = <<dst>> /\ queue' = Tail(queue)
    BY <1>3 DEF Visit
  <2>2. /\ visited' = visited \cup S
        /\ prev' \in [visited' -> Devices \cup {NoDevice}]
        /\ visited' \subseteq Devices
        /\ SeenOverLinks'
    BY <1>1, <2>1, VisitSees
  <2>3. queue' \in Seq(visited)
    BY <1>1, <1>2, <2>1
  <2>4. TypeOK'
    <3>1. queue' \in Seq(visited')
      BY <2>2, <2>3, SeqMonotonic
    <3>2. path' \in Seq(Devices)
      BY <2>1 DEF IInv, TypeOK
    <3> QED
      BY <1>1, <2>1, <2>2, <3>1, <3>2 DEF TypeOK, IInv
  <2>5. Frontier' /\ Chain'
    BY <2>1 DEF Frontier, Chain
  <2>6. Progress'
    <3>1. path'[1] = dst /\ Len(path') = 1 /\ path' # <<>>
      BY <2>1
    <3>2. dst # src
      BY <1>2
    <3> QED
      BY <1>1, <2>1, <2>2, <3>1, <3>2 DEF Progress
  <2> QED
    BY <1>1, <1>2, <2>2, <2>4, <2>5, <2>6 DEF IInv
<1>4. CASE dst \notin new
  <2>1. PICK order \in Orders(new) : /\ prev' = SeenFrom(d, new)
                                     /\ queue' = Tail(queue) \o order
                                     /\ UNCHANGED <<phase, path>>
    BY <1>4 DEF Visit
  <2>2. /\ visited' = visited \cup new
        /\ d \in visited
        /\ prev' \in [visited' -> Devices \cup {NoDevice}]
        /\ visited' \subseteq Devices
        /\ SeenOverLinks'
    BY <1>1, <2>1, VisitSees
  <2>3. order \in Seq(new) /\ Len(order) \in Nat /\ \A e \in new : \E i \in 1..Len(order) : order[i] = e
    BY NewFinite, OrdersAreSeqs
  <2>4. Tail(queue) \in Seq(visited) /\ Len(Tail(queue)) = Len(queue) - 1 /\ Len(queue) \in Nat \ {0}
    BY <1>1, <1>2
  <2>5. queue' \in Seq(visited')
    <3>1. Tail(queue) \in Seq(visited') /\ order \in Seq(visited')
      BY <2>2, <2>3, <2>4, SeqMonotonic
    <3> QED
      BY <2>1, <3>1
  <2>6. TypeOK'
    BY <1>1, <2>1, <2>2, <2>5 DEF TypeOK, IInv
  <2> DEFINE rest == Tail(queue)
  <2>7. /\ Len(rest) \in Nat /\ Len(queue') = Len(rest) + Len(order)
        /\ \A i \in 1..(Len(rest) + Len(order)) :
             queue'[i] = IF i <= Len(rest) THEN rest[i] ELSE order[i - Len(rest)]
    <3>1. rest \in Seq(visited') /\ order \in Seq(visited')
      BY <2>2, <2>3, <2>4, SeqMonotonic
    <3>2. /\ Len(rest \o order) = Len(rest) + Len(order)
          /\ \A i \in 1..Len(rest) + Len(order) :
               (rest \o order)[i] = IF i <= Len(rest) THEN rest[i] ELSE order[i - Len(rest)]
      BY <3>1, ConcatProperties
    <3> QED
      BY <2>1, <2>4, <3>2
  <2> HIDE DEF rest
  <2>8. \A i \in 1..Len(rest) : queue'[i] = rest[i]
    BY <2>7, <2>3
  <2>9. \A i \in 1..Len(order) : queue'[Len(rest) + i] = order[i] /\ Len(rest) + i \in 1..Len(queue')
    <3>1. SUFFICES ASSUME NEW i \in 1..Len(order)
                   PROVE  queue'[Len(rest) + i] = order[i] /\ Len(rest) + i \in 1..Len(queue')
      OBVIOUS
    <3>2. Len(order) \in Nat /\ Len(rest) \in Nat /\ Len(queue') = Len(rest) + Len(order)
      BY <2>3, <2>7
    <3>3. Len(rest) + i \in 1..Len(queue') /\ ~ (Len(rest) + i <= Len(rest)) /\ Len(rest) + i - Len(rest) = i
      BY <3>2
    <3> QED
      BY <3>2, <3>3, <2>7
  <2> USE DEF rest
  <2>10. Frontier'
    <3> SUFFICES ASSUME NEW e \in visited'
                 PROVE  (\E i \in 1..Len(queue') : queue'[i] = e) \/ Neighbours(e)' \subseteq visited'
      BY DEF Frontier
    <3>1. Neighbours(e)' = Neighbours(e)
      BY <1>1 DEF Neighbours, Linked
    <3>2. CASE e \in new
      BY <3>2, <2>3, <2>9
    <3>3. CASE e = d
      BY <3>1, <3>3, <2>2
    <3>4. CASE e \in visited /\ e # d /\ Neighbours(e) \subseteq visited
      BY <3>1, <3>4, <2>2
    <3>5. CASE e \in visited /\ e # d /\ \E i \in 1..Len(queue) : queue[i] = e
      <4>1. PICK i \in 1..Len(queue) : queue[i] = e
        BY <3>5
      <4>2. i # 1
        BY <3>5, <4>1, <2>4
      <4>3. i - 1 \in 1..Len(Tail(queue)) /\ Tail(queue)[i - 1] = e
        BY <4>1, <4>2, <2>4, <1>2
      <4>4. queue'[i - 1] = e /\ i - 1 \in 1..Len(queue')
        BY <4>3, <2>1, <2>3, <2>4, <2>8
      <4> QED
        BY <4>4
    <3> QED
      BY <1>1, <2>2, <3>2, <3>3, <3>4, <3>5 DEF IInv, Frontier
  <2>11. Chain'
    BY <1>2, <2>1 DEF Chain
  <2>12. Progress'
    BY <1>1, <1>2, <1>4, <2>1, <2>2 DEF Progress, IInv
  <2> QED
    BY <1>1, <1>2, <2>2, <2>6, <2>10, <2>11, <2>12 DEF IInv
<1> QED
  BY <1>3, <1>4

\* The search ends without the target.
LEMMA GiveUpIInv == IInv /\ GiveUp => IInv'
<1> SUFFICES ASSUME IInv, GiveUp PROVE IInv'
  OBVIOUS
<1>1. phase = "search" /\ queue = <<>> /\ phase' = "done" /\ UNCHANGED <<links, src, dst, queue, prev, path>>
  BY DEF GiveUp
<1>2. visited' = visited
  BY <1>1 DEF visited
<1>3. TypeOK'
  BY <1>1, <1>2 DEF IInv, TypeOK
<1>4. Closed(visited)
  BY <1>1 DEF IInv, Frontier, Closed
<1>5. Closed(visited)'
  BY <1>1, <1>2, <1>4 DEF Closed, Neighbours, Linked
<1>6. Progress'
  BY <1>1, <1>2, <1>5 DEF IInv, Progress
<1>7. SeenOverLinks' /\ Frontier' /\ Chain'
  BY <1>1, <1>2 DEF IInv, SeenOverLinks, Frontier, Chain, Linked
<1> QED
  BY <1>1, <1>2, <1>3, <1>6, <1>7 DEF IInv

\* The path is followed back.
LEMMA TraceBackIInv == IInv /\ TraceBack => IInv'
<1> SUFFICES ASSUME IInv, TraceBack PROVE IInv'
  OBVIOUS
<1> DEFINE d == prev[Head(path)]
<1>1. /\ phase = "trace" /\ path' = <<d>> \o path
      /\ phase' = IF d = src THEN "done" ELSE "trace"
      /\ UNCHANGED <<links, src, dst, queue, prev>>
  BY DEF TraceBack
<1>2. visited' = visited
  BY <1>1 DEF visited
<1>3. path \in Seq(Devices) /\ path # <<>> /\ path[1] \in visited \ {src} /\ path[Len(path)] = dst
  BY <1>1 DEF IInv, TypeOK, Progress
<1>4. Head(path) = path[1] /\ Len(path) \in Nat \ {0}
  BY <1>3
<1>5. d \in visited /\ Linked(d, path[1])
  BY <1>3, <1>4 DEF IInv, SeenOverLinks
<1>6. d \in Devices
  BY <1>5 DEF IInv, TypeOK
<1>7. /\ path' \in Seq(Devices) /\ Len(path') = Len(path) + 1 /\ path'[1] = d
      /\ \A i \in 1..Len(path) : path'[i + 1] = path[i]
  BY <1>1, <1>3, <1>6
<1>8. TypeOK'
  BY <1>1, <1>2, <1>7 DEF IInv, TypeOK
<1>9. Chain'
  <2> SUFFICES ASSUME NEW i \in 1..(Len(path') - 1) PROVE Linked(path[i], path[i + 1])'
    BY DEF Chain
  <2>1. CASE i = 1
    <3>1. path'[1] = d /\ path'[1 + 1] = path[1] /\ links' = links
      BY <1>1, <1>4, <1>7
    <3> QED
      BY <2>1, <3>1, <1>5 DEF Linked
  <2>2. CASE i # 1
    <3>1. i - 1 \in 1..(Len(path) - 1) /\ path'[i] = path[i - 1] /\ path'[i + 1] = path[(i - 1) + 1]
      BY <2>2, <1>4, <1>7
    <3> QED
      BY <3>1, <1>1 DEF IInv, Chain, Linked
  <2> QED
    BY <2>1, <2>2
<1>10. Progress'
  <2>1. path' # <<>> /\ path'[Len(path')] = dst
    BY <1>3, <1>4, <1>7
  <2> QED
    BY <2>1, <1>1, <1>2, <1>5, <1>7 DEF Progress
<1>11. SeenOverLinks' /\ Frontier'
  BY <1>1, <1>2 DEF IInv, SeenOverLinks, Frontier, Linked
<1> QED
  BY <1>1, <1>2, <1>8, <1>9, <1>10, <1>11 DEF IInv

\* Nothing happens.
LEMMA StutterIInv == IInv /\ UNCHANGED vars => IInv'
<1> SUFFICES ASSUME IInv, UNCHANGED vars PROVE IInv'
  OBVIOUS
<1>1. UNCHANGED <<links, src, dst, phase, queue, prev, path>> /\ visited' = visited
  BY DEF vars, visited
<1> QED
  BY <1>1 DEF IInv, TypeOK, SeenOverLinks, Frontier, Chain, Progress, Closed, Neighbours, Linked

\* What the search maintains.
LEMMA InvariantHolds == Spec => []IInv
<1>1. IInv /\ [Next]_vars => IInv'
  BY VisitIInv, GiveUpIInv, TraceBackIInv, StutterIInv DEF Next
<1> QED
  BY InitIInv, <1>1, PTL DEF Spec

-----------------------------------------------------------------------------
(* Theorems.                                                               *)

\* The search of any network keeps to its types: what it queues it has seen.
THEOREM TypeCorrect == Spec => []TypeOK
<1>1. IInv => TypeOK
  BY DEF IInv
<1> QED
  BY <1>1, InvariantHolds, PTL

\* A path that a search reports is one of links from the source to the target.
THEOREM PathsAreLinked == Spec => []PathIsLinked
<1>1. IInv => PathIsLinked
  BY DEF IInv, PathIsLinked, Progress, Chain, Done
<1> QED
  BY <1>1, InvariantHolds, PTL

\* A search that reports no path has a set of devices that no link leaves between
\* the source and the target.
THEOREM NoneIsNone == Spec => []NoneMeansNone
<1>1. IInv => NoneMeansNone
  <2> SUFFICES ASSUME IInv, Done, path = <<>> PROVE ~ Connected
    BY DEF NoneMeansNone
  <2>1. dst \notin visited /\ Closed(visited) /\ src \in visited /\ visited \subseteq Devices
    BY DEF IInv, Progress, Done, TypeOK
  <2> QED
    BY <2>1 DEF Connected
<1> QED
  BY <1>1, InvariantHolds, PTL

-----------------------------------------------------------------------------
(* The path found is a shortest one.                                       *)

\* Layers around the source, each with the neighbours of the one below, have no target.
Far(n) ==
  \E near \in [0..n -> SUBSET Devices] :
    /\ src \in near[0] /\ dst \notin near[n]
    /\ \A k \in 1..n : \A d \in near[k - 1] : d \in near[k] /\ Neighbours(d) \subseteq near[k]

\* How many links lie between the source and a device, along the devices it was seen from.
Levels(lv) ==
  /\ lv \in [visited -> Nat] /\ lv[src] = 0
  /\ \A d \in visited \ {src} : lv[d] = lv[prev[d]] + 1

\* The queue is in the order of the levels, and they differ by one in it; so do those of
\* the neighbours of a device that has been taken from it.
Fronts(lv) ==
  phase = "search" =>
    /\ \A i, j \in 1..Len(queue) : i < j => lv[queue[i]] <= lv[queue[j]]
    /\ queue # <<>> => \A d \in visited : lv[d] <= lv[queue[1]] + 1
    /\ \A d \in visited : (\E i \in 1..Len(queue) : queue[i] = d) \/ \A e \in Neighbours(d) : e \in visited /\ lv[e] <= lv[d] + 1

\* What is left of the way back is as long as the level of the device it has come to.
Traced(lv) ==
  phase = "trace" => \E n \in Nat : lv[path[1]] + Len(path) = n + 2 /\ Far(n)

Ended == phase = "done" /\ Len(path) > 1 => Far(Len(path) - 2)

LevelInv == Ended /\ \E lv : Levels(lv) /\ Fronts(lv) /\ Traced(lv)

\* The devices within n links are in the layers.
LEMMA FarIsOutside == ASSUME NEW n \in Nat, Far(n), src \in Devices PROVE dst \notin Ball(n)
<1> DEFINE within[k \in 0..n] == IF k = 0 THEN {src} ELSE within[k - 1] \cup {d \in Devices : \E e \in within[k - 1] : Linked(d, e)}
<1>1. Ball(n) = within[n]
  BY DEF Ball
<1>2. PICK next : next = [p \in (1..n) \X SUBSET Devices |-> p[2] \cup {d \in Devices : \E e \in p[2] : Linked(d, e)}]
  OBVIOUS
<1>3. next \in [(1..n) \X SUBSET Devices -> SUBSET Devices]
  BY <1>2
<1>4. PICK f \in [0..n -> SUBSET Devices] : \A k \in 0..n : f[k] = IF k = 0 THEN {src} ELSE next[<<k, f[k - 1]>>]
  <2>1. {src} \in SUBSET Devices /\ PassStep(next, SUBSET Devices, n)
    BY <1>3 DEF PassStep
  <2>2. PICK f : PassOf(f, next, SUBSET Devices, {src}, n)
    BY <2>1, PassExists
  <2> QED
    BY <2>2 DEF PassOf
<1>5. \A k \in 1..n : k - 1 \in 0..n /\ k \in 0..n /\ k # 0
  OBVIOUS
<1>6. \A k \in 1..n : next[<<k, f[k - 1]>>] = f[k - 1] \cup {d \in Devices : \E e \in f[k - 1] : Linked(d, e)}
  BY <1>2, <1>5
<1>7. \A k \in 0..n : k = 0 \/ k \in 1..n
  OBVIOUS
<1>8. \A k \in 0..n : f[k] = IF k = 0 THEN {src} ELSE f[k - 1] \cup {d \in Devices : \E e \in f[k - 1] : Linked(d, e)}
  BY <1>4, <1>6, <1>7
<1>9. f = [k \in 0..n |-> IF k = 0 THEN {src} ELSE f[k - 1] \cup {d \in Devices : \E e \in f[k - 1] : Linked(d, e)}]
  BY <1>4, <1>8
<1>10. within = [k \in 0..n |-> IF k = 0 THEN {src} ELSE within[k - 1] \cup {d \in Devices : \E e \in within[k - 1] : Linked(d, e)}]
  <2> DEFINE Is(g) == g = [k \in 0..n |-> IF k = 0 THEN {src} ELSE g[k - 1] \cup {d \in Devices : \E e \in g[k - 1] : Linked(d, e)}]
  <2>1. within = CHOOSE g : Is(g)
    OBVIOUS
  <2>2. Is(f)
    BY <1>9
  <2> HIDE DEF Is, within
  <2>3. Is(within)
    BY <2>1, <2>2
  <2> QED
    BY <2>3 DEF Is
<1> HIDE DEF within
<1>11. PICK near \in [0..n -> SUBSET Devices] :
         /\ src \in near[0] /\ dst \notin near[n]
         /\ \A k \in 1..n : \A d \in near[k - 1] : d \in near[k] /\ Neighbours(d) \subseteq near[k]
  BY DEF Far
<1>12. PICK T : T = {k \in 0..n : within[k] \subseteq near[k]}
  OBVIOUS
<1>13. 0 \in T
  <2>1. within[0] = {src}
    BY <1>10
  <2> QED
    BY <1>11, <1>12, <2>1
<1>14. ASSUME NEW k \in 1..n, k - 1 \in T PROVE k \in T
  <2>1. within[k] = within[k - 1] \cup {d \in Devices : \E e \in within[k - 1] : Linked(d, e)}
    BY <1>5, <1>10
  <2>2. \A d \in near[k - 1] : d \in near[k] /\ Neighbours(d) \subseteq near[k]
    BY <1>11
  <2>3. \A d \in Devices : \A e : Linked(d, e) => d \in Neighbours(e)
    <3>1. \A d, e : {d, e} = {e, d}
      OBVIOUS
    <3> QED
      BY <3>1 DEF Neighbours, Linked
  <2>4. within[k - 1] \subseteq near[k - 1]
    BY <1>12, <1>14
  <2>5. within[k] \subseteq near[k]
    BY <2>1, <2>2, <2>3, <2>4
  <2> QED
    BY <1>5, <1>12, <2>5
<1>15. n \in T
  BY <1>13, <1>14, HoldsTo
<1> QED
  BY <1>1, <1>11, <1>12, <1>15

\* The layers are the levels: as far as that of the device at the head of the queue they are complete.
LEMMA HeadIsFar ==
  ASSUME IInv, phase = "search", queue # <<>>, NEW lv, Levels(lv), Fronts(lv), NEW n \in Nat, n = lv[queue[1]]
  PROVE  Far(n)
<1>1. /\ queue \in Seq(visited) /\ Len(queue) \in Nat \ {0} /\ visited \subseteq Devices /\ src \in visited /\ dst \notin visited
      /\ lv \in [visited -> Nat] /\ lv[src] = 0
  BY DEF IInv, TypeOK, Progress, Levels
<1>2. PICK near : near = [k \in 0..n |-> {d \in visited : lv[d] <= k}]
  OBVIOUS
<1>3. near \in [0..n -> SUBSET Devices] /\ src \in near[0] /\ dst \notin near[n]
  BY <1>1, <1>2
<1>4. ASSUME NEW k \in 1..n, NEW d \in near[k - 1] PROVE d \in near[k] /\ Neighbours(d) \subseteq near[k]
  <2>1. k - 1 \in 0..n /\ k \in 0..n
    OBVIOUS
  <2>2. d \in visited /\ lv[d] \in Nat /\ lv[d] <= k - 1
    BY <1>1, <1>2, <2>1
  <2>3. ASSUME NEW i \in 1..Len(queue), queue[i] = d PROVE FALSE
    <3>1. i = 1 \/ 1 < i
      OBVIOUS
    <3>2. 1 < i => lv[queue[1]] <= lv[queue[i]]
      BY <1>1 DEF Fronts
    <3>3. n <= lv[d]
      BY <2>2, <2>3, <3>1, <3>2
    <3> QED
      BY <2>2, <3>3
  <2>4. \A e \in Neighbours(d) : e \in visited /\ lv[e] <= lv[d] + 1
    BY <2>2, <2>3 DEF Fronts
  <2>5. \A e \in Neighbours(d) : e \in visited /\ lv[e] <= k
    <3> SUFFICES ASSUME NEW e \in Neighbours(d) PROVE e \in visited /\ lv[e] <= k
      OBVIOUS
    <3>1. e \in visited /\ lv[e] <= lv[d] + 1
      BY <2>4
    <3>2. lv[e] \in Nat
      BY <1>1, <3>1
    <3> QED
      BY <2>2, <3>1, <3>2
  <2>6. lv[d] <= k
    BY <2>2
  <2> QED
    BY <1>2, <2>1, <2>2, <2>5, <2>6
<1> QED
  BY <1>3, <1>4, Zenon DEF Far


\* The search begins at level 0.
LEMMA InitLevels == Init => LevelInv
<1> SUFFICES ASSUME Init PROVE LevelInv
  OBVIOUS
<1>1. visited = {src} /\ queue = <<src>> /\ Len(queue) = 1 /\ queue[1] = src
  BY DEF Init, visited
<1>2. (phase = "done" /\ path = <<src>>) \/ (phase = "search" /\ path = <<>>)
  BY DEF Init
<1>3. PICK lv : lv = [d \in visited |-> 0]
  OBVIOUS
<1>4. Levels(lv)
  BY <1>1, <1>3 DEF Levels
<1>5. Fronts(lv)
  <2>1. \A i \in 1..Len(queue) : i = 1
    BY <1>1
  <2>2. \A i, j \in 1..Len(queue) : i < j => lv[queue[i]] <= lv[queue[j]]
    BY <2>1
  <2>3. \A d \in visited : lv[d] <= lv[queue[1]] + 1
    BY <1>1, <1>3
  <2>4. \A d \in visited : \E i \in 1..Len(queue) : queue[i] = d
    BY <1>1
  <2> QED
    BY <2>2, <2>3, <2>4 DEF Fronts
<1>6. Traced(lv) /\ Ended
  <2>1. path = <<src>> => ~ (Len(path) > 1)
    OBVIOUS
  <2>2. path = <<>> => ~ (phase = "done")
    BY <1>2
  <2>3. phase # "trace" /\ ~ (phase = "done" /\ Len(path) > 1)
    BY <1>2, <2>1, <2>2
  <2> QED
    BY <2>3, Zenon DEF Traced, Ended
<1> QED
  BY <1>4, <1>5, <1>6 DEF LevelInv

\* Layers stay what they are while the network and the ends do.
LEMMA FarStays == ASSUME NEW n, Far(n), UNCHANGED <<links, src, dst>> PROVE Far(n)'
BY DEF Far, Neighbours, Linked

\* The levels when a set of neighbours of the first device in the queue is seen.
LEMMA LevelsGrow ==
  ASSUME IInv, phase = "search", queue # <<>>, NEW lv, Levels(lv), Fronts(lv),
         NEW S \in SUBSET (Neighbours(Head(queue)) \ visited),
         prev' = SeenFrom(Head(queue), S), UNCHANGED <<links, src, dst>>
  PROVE  \E n, lw : /\ n \in Nat /\ n = lv[queue[1]] /\ Far(n) /\ Levels(lw)' /\ visited' = visited \cup S
                    /\ \A e \in visited : lw[e] = lv[e] /\ lv[e] \in Nat /\ lv[e] <= n + 1
                    /\ \A e \in S : lw[e] = n + 1 /\ e \notin visited
<1>1. /\ visited' = visited \cup S /\ Head(queue) \in visited
      /\ \A e \in visited : prev'[e] = prev[e]
      /\ \A e \in S : prev'[e] = Head(queue)
  <2>1. /\ visited' = visited \cup S /\ Head(queue) \in visited
    BY VisitSees
  <2>2. S \in SUBSET Devices /\ TypeOK /\ \A e \in S : e \in S \ visited
    BY DEF Neighbours, IInv
  <2>3. /\ \A e \in visited : SeenFrom(Head(queue), S)[e] = prev[e]
        /\ \A e \in S \ visited : SeenFrom(Head(queue), S)[e] = Head(queue)
    BY <2>1, <2>2, SeenFromFacts, Zenon
  <2> QED
    BY <2>1, <2>2, <2>3
<1>2. queue \in Seq(visited) /\ Head(queue) = queue[1] /\ lv \in [visited -> Nat] /\ src \in visited
  BY DEF IInv, TypeOK, Levels
<1>3. PICK n \in Nat : n = lv[queue[1]]
  BY <1>1, <1>2
<1>4. Far(n)
  BY <1>3, HeadIsFar
<1>5. PICK lw : lw = [e \in visited \cup S |-> IF e \in visited THEN lv[e] ELSE n + 1]
  OBVIOUS
<1>6. /\ \A e \in visited : lw[e] = lv[e] /\ lv[e] \in Nat
      /\ \A e \in S : lw[e] = n + 1 /\ e \notin visited
  BY <1>2, <1>5
<1>7. \A e \in visited : lv[e] <= n + 1
  BY <1>3 DEF Fronts
<1>8. Levels(lw)'
  <2>1. lw \in [visited' -> Nat] /\ lw[src'] = 0
    BY <1>1, <1>2, <1>3, <1>5, <1>6 DEF Levels
  <2>2. ASSUME NEW d \in visited' \ {src'} PROVE lw[d] = lw[prev'[d]] + 1
    <3>1. CASE d \in visited
      <4>1. prev[d] \in visited
        BY <2>2, <3>1 DEF IInv, SeenOverLinks
      <4>2. lv[d] = lv[prev[d]] + 1
        BY <2>2, <3>1 DEF Levels
      <4> QED
        BY <1>1, <1>6, <3>1, <4>1, <4>2
    <3>2. CASE d \in S
      BY <1>1, <1>2, <1>3, <1>6, <3>2
    <3> QED
      BY <1>1, <2>2, <3>1, <3>2
  <2> QED
    BY <2>1, <2>2 DEF Levels
<1> QED
  BY <1>1, <1>3, <1>4, <1>6, <1>7, <1>8

\* The target is seen.
LEMMA TargetLevels ==
  ASSUME IInv, LevelInv, Visit, dst \in Neighbours(Head(queue)) \ visited
  PROVE  LevelInv'
<1>1. phase = "search" /\ queue # <<>> /\ UNCHANGED <<links, src, dst>>
  BY DEF Visit
<1>2. PICK S \in SUBSET (Neighbours(Head(queue)) \ visited) :
        /\ dst \in S /\ prev' = SeenFrom(Head(queue), S)
        /\ phase' = "trace" /\ path' = <<dst>>
  BY DEF Visit
<1>3. PICK lv : Levels(lv) /\ Fronts(lv)
  BY DEF LevelInv
<1>4. PICK n, lw : n \in Nat /\ Far(n) /\ Levels(lw)' /\ \A e \in S : lw[e] = n + 1
  BY <1>1, <1>2, <1>3, LevelsGrow
<1>5. Far(n)'
  BY <1>1, <1>4, FarStays
<1>6. Traced(lw)'
  <2>1. Len(path') = 1 /\ path'[1] = dst
    BY <1>2
  <2>2. lw[path'[1]] + Len(path') = n + 2
    BY <1>2, <1>4, <2>1
  <2> QED
    BY <1>4, <1>5, <2>2 DEF Traced
<1>7. Fronts(lw)' /\ Ended'
  BY <1>2 DEF Fronts, Ended
<1> QED
  BY <1>4, <1>6, <1>7 DEF LevelInv


\* The neighbours of the first device come to the end of the queue.
LEMMA QueueLevels ==
  ASSUME IInv, LevelInv, Visit, dst \notin Neighbours(Head(queue)) \ visited
  PROVE  LevelInv'
<1>1. phase = "search" /\ queue # <<>> /\ UNCHANGED <<links, src, dst>>
  BY DEF Visit
<1>2. PICK new \in SUBSET (Neighbours(Head(queue)) \ visited) : new = Neighbours(Head(queue)) \ visited
  OBVIOUS
<1>3. PICK order \in Orders(new) : /\ prev' = SeenFrom(Head(queue), new)
                                   /\ queue' = Tail(queue) \o order /\ UNCHANGED <<phase, path>>
  BY <1>2 DEF Visit
<1>4. PICK lv : Levels(lv) /\ Fronts(lv)
  BY DEF LevelInv
<1>5. PICK n, lw : /\ n \in Nat /\ n = lv[queue[1]] /\ Far(n) /\ Levels(lw)' /\ visited' = visited \cup new
                   /\ \A e \in visited : lw[e] = lv[e] /\ lv[e] \in Nat /\ lv[e] <= n + 1
                   /\ \A e \in new : lw[e] = n + 1 /\ e \notin visited
  BY <1>1, <1>3, <1>4, LevelsGrow
<1>6. /\ order \in Seq(new) /\ Len(order) \in Nat
      /\ \A e \in new : \E i \in 1..Len(order) : order[i] = e
  <2>1. IsFiniteSet(new)
    BY <1>2, NewFinite
  <2> QED
    BY <2>1, OrdersAreSeqs
<1>7. queue \in Seq(visited) /\ Head(queue) = queue[1] /\ Head(queue) \in visited
  BY <1>1 DEF IInv, TypeOK
<1>8. PICK q \in Nat, m \in Nat, p \in Nat : q = Len(queue) /\ q = m + 1 /\ p = Len(order) /\ Len(queue') = m + p
  <2>1. Tail(queue) \in Seq(visited \cup new) /\ order \in Seq(visited \cup new)
    <3>1. Tail(queue) \in Seq(visited)
      BY <1>1, <1>7
    <3> QED
      BY <1>6, <3>1, SeqMonotonic
  <2>2. Len(queue') = Len(Tail(queue)) + Len(order)
    BY <1>3, <2>1, ConcatProperties
  <2> QED
    BY <1>1, <1>6, <1>7, <2>2
<1>9. \A i \in 1..m + p : queue'[i] = IF i <= m THEN queue[i + 1] ELSE order[i - m]
  <2>1. Tail(queue) \in Seq(visited \cup new) /\ order \in Seq(visited \cup new)
    <3>1. Tail(queue) \in Seq(visited)
      BY <1>1, <1>7
    <3> QED
      BY <1>6, <3>1, SeqMonotonic
  <2>2. Len(Tail(queue)) = m /\ \A i \in 1..m : Tail(queue)[i] = queue[i + 1]
    <3>1. Len(Tail(queue)) = Len(queue) - 1 /\ \A i \in 1..Len(queue) - 1 : Tail(queue)[i] = queue[i + 1]
      BY <1>1, <1>7, HeadTailProperties
    <3>2. Len(queue) - 1 = m
      BY <1>8
    <3> QED
      BY <3>1, <3>2
  <2>3. \A i \in 1..m + p : (Tail(queue) \o order)[i] = IF i <= m THEN Tail(queue)[i] ELSE order[i - m]
    BY <1>8, <2>1, <2>2, ConcatProperties
  <2>4. \A i \in 1..m + p : i <= m => i \in 1..m
    OBVIOUS
  <2> QED
    BY <1>3, <2>2, <2>3, <2>4
<1>10. /\ \A i \in 1..m : queue'[i] = queue[i + 1] /\ queue[i + 1] \in visited /\ i + 1 \in 1..q
       /\ \A i \in m + 1..m + p : queue'[i] = order[i - m] /\ order[i - m] \in new /\ i - m \in 1..p
  <2>1. \A i \in 1..m : i + 1 \in 1..q /\ queue[i + 1] \in visited /\ i \in 1..m + p /\ i <= m
    <3>1. \A i \in 1..m : i + 1 \in 1..q /\ i \in 1..m + p /\ i <= m
      BY <1>8
    <3> QED
      BY <1>7, <1>8, <3>1, ElementOfSeq
  <2>2. \A i \in m + 1..m + p : i - m \in 1..p /\ order[i - m] \in new /\ i \in 1..m + p /\ ~ (i <= m)
    <3>1. \A i \in m + 1..m + p : i - m \in 1..p /\ i \in 1..m + p /\ ~ (i <= m)
      OBVIOUS
    <3> QED
      BY <1>6, <1>8, <3>1, ElementOfSeq
  <2> QED
    BY <1>9, <2>1, <2>2
<1>11. PICK fr : fr = [i \in 1..q |-> lv[queue[i]]]
  OBVIOUS
<1>12. /\ fr \in [1..q -> Nat] /\ \A i \in 1..q : fr[i] <= n + 1
       /\ \A i, j \in 1..q : i < j => fr[i] <= fr[j]
       /\ fr[1] = n /\ 1 \in 1..q
  <2>1. \A i \in 1..q : queue[i] \in visited
    BY <1>7, <1>8, ElementOfSeq
  <2>2. 1 \in 1..q
    BY <1>8
  <2>3. \A i, j \in 1..Len(queue) : i < j => lv[queue[i]] <= lv[queue[j]]
    BY <1>1, <1>4 DEF Fronts
  <2> QED
    BY <1>5, <1>8, <1>11, <2>1, <2>2, <2>3
<1>13. PICK gr : gr = [i \in 1..m + p |-> lw[queue'[i]]]
  OBVIOUS
<1>14. \A i \in 1..m + p : gr[i] = IF i <= m THEN fr[i + 1] ELSE n + 1
  <2>1. \A i \in 1..m : gr[i] = fr[i + 1]
    <3>1. \A i \in 1..m : i \in 1..m + p
      OBVIOUS
    <3> QED
      BY <1>5, <1>10, <1>11, <1>13, <3>1
  <2>2. \A i \in m + 1..m + p : gr[i] = n + 1
    <3>1. \A i \in m + 1..m + p : i \in 1..m + p
      OBVIOUS
    <3> QED
      BY <1>5, <1>10, <1>13, <3>1
  <2>3. \A i \in 1..m + p : IF i <= m THEN i \in 1..m ELSE i \in m + 1..m + p
    OBVIOUS
  <2> QED
    BY <2>1, <2>2, <2>3
<1>15. /\ \A i, j \in 1..m + p : i < j => gr[i] <= gr[j]
       /\ \A i \in 1..m + p : gr[i] \in Nat /\ n <= gr[i]
  <2>1. ASSUME NEW i \in 1..m + p PROVE gr[i] \in Nat /\ n <= gr[i] /\ gr[i] <= n + 1
    <3>1. CASE i <= m
      <4>1. i + 1 \in 1..q /\ 1 < i + 1
        BY <1>8, <3>1
      <4>2. fr[1] <= fr[i + 1] /\ fr[i + 1] <= n + 1 /\ fr[i + 1] \in Nat
        BY <1>12, <4>1
      <4> QED
        BY <1>12, <1>14, <3>1, <4>2
    <3>2. CASE ~ (i <= m)
      BY <1>5, <1>14, <3>2
    <3> QED
      BY <3>1, <3>2
  <2>2. ASSUME NEW i \in 1..m + p, NEW j \in 1..m + p, i < j PROVE gr[i] <= gr[j]
    <3>1. CASE j <= m
      <4>1. i + 1 \in 1..q /\ j + 1 \in 1..q /\ i + 1 < j + 1 /\ i <= m
        BY <1>8, <2>2, <3>1
      <4>2. fr[i + 1] <= fr[j + 1]
        BY <1>12, <4>1
      <4> QED
        BY <1>14, <3>1, <4>1, <4>2
    <3>2. CASE ~ (j <= m)
      <4>1. gr[j] = n + 1
        BY <1>14, <3>2
      <4> QED
        BY <2>1, <4>1
    <3> QED
      BY <3>1, <3>2
  <2> QED
    BY <2>1, <2>2
<1>16. \A d \in visited' : lw[d] \in Nat /\ lw[d] <= n + 1
  BY <1>5
<1>17. ASSUME NEW d \in visited'
       PROVE  (\E i \in 1..Len(queue') : queue'[i] = d) \/ \A e \in Neighbours(d)' : e \in visited' /\ lw[e] <= lw[d] + 1
  <2>1. Neighbours(d)' = Neighbours(d)
    BY <1>1 DEF Neighbours, Linked
  <2>2. CASE d \in new
    <3>1. PICK i \in 1..p : order[i] = d
      BY <1>6, <1>8, <2>2
    <3>2. m + i \in m + 1..m + p /\ (m + i) - m = i /\ m + i \in 1..m + p
      OBVIOUS
    <3>3. queue'[m + i] = d
      BY <1>10, <3>1, <3>2
    <3> QED
      BY <1>8, <3>2, <3>3
  <2>3. CASE d = queue[1]
    <3>1. \A e \in Neighbours(d) : e \in visited'
      BY <1>2, <1>5, <1>7, <2>3
    <3>2. lw[d] = n
      BY <1>5, <1>7, <2>3
    <3> QED
      BY <1>16, <2>1, <3>1, <3>2
  <2>4. CASE d \in visited /\ d # queue[1] /\ \E i \in 1..Len(queue) : queue[i] = d
    <3>1. PICK i \in 1..q : queue[i] = d
      BY <1>8, <2>4
    <3>2. i # 1
      BY <2>4, <3>1
    <3>3. i - 1 \in 1..m /\ (i - 1) + 1 = i /\ i - 1 \in 1..m + p
      BY <1>8, <3>2
    <3>4. queue'[i - 1] = d
      BY <1>10, <3>1, <3>3
    <3> QED
      BY <1>8, <3>3, <3>4
  <2>5. CASE d \in visited /\ \A e \in Neighbours(d) : e \in visited /\ lv[e] <= lv[d] + 1
    BY <1>5, <2>1, <2>5
  <2>6. d \in visited => (\E i \in 1..Len(queue) : queue[i] = d) \/ \A e \in Neighbours(d) : e \in visited /\ lv[e] <= lv[d] + 1
    BY <1>1, <1>4 DEF Fronts
  <2> QED
    BY <1>5, <2>2, <2>3, <2>4, <2>5, <2>6
<1>18. Fronts(lw)'
  <2>1. \A i, j \in 1..Len(queue') : i < j => lw[queue'[i]] <= lw[queue'[j]]
    BY <1>8, <1>13, <1>15
  <2>2. queue' # <<>> => \A d \in visited' : lw[d] <= lw[queue'[1]] + 1
    <3> SUFFICES ASSUME queue' # <<>>, NEW d \in visited' PROVE lw[d] <= lw[queue'[1]] + 1
      OBVIOUS
    <3>1. queue' \in Seq(visited \cup new)
      <4>1. Tail(queue) \in Seq(visited)
        BY <1>1, <1>7
      <4>2. Tail(queue) \in Seq(visited \cup new) /\ order \in Seq(visited \cup new)
        BY <1>6, <4>1, SeqMonotonic
      <4> QED
        BY <1>3, <4>2
    <3>2. 1 \in 1..m + p
      BY <1>8, <3>1
    <3>3. n <= lw[queue'[1]] /\ lw[queue'[1]] \in Nat
      BY <1>13, <1>15, <3>2
    <3> QED
      BY <1>5, <1>16, <3>3
  <2> QED
    BY <1>17, <2>1, <2>2 DEF Fronts
<1>19. Traced(lw)' /\ Ended'
  BY <1>1, <1>3 DEF Traced, Ended
<1> QED
  BY <1>5, <1>18, <1>19 DEF LevelInv

\* The way back is one device longer, and the device one level lower.
LEMMA TraceLevels == ASSUME IInv, LevelInv, TraceBack PROVE LevelInv'
<1>1. PICK d : /\ d = prev[Head(path)]
               /\ phase = "trace" /\ path' = <<d>> \o path
               /\ phase' = IF d = src THEN "done" ELSE "trace"
               /\ UNCHANGED <<links, src, dst, queue, prev>>
  BY DEF TraceBack
<1>2. path \in Seq(Devices) /\ path # <<>> /\ path[1] \in visited \ {src} /\ Head(path) = path[1]
  BY <1>1 DEF IInv, TypeOK, Progress
<1>3. d \in visited /\ d \in Devices
  BY <1>1, <1>2 DEF IInv, TypeOK, SeenOverLinks
<1>4. PICK lv, n : n \in Nat /\ Levels(lv) /\ lv[path[1]] + Len(path) = n + 2 /\ Far(n)
  BY <1>1 DEF LevelInv, Traced
<1>5. Len(path) \in Nat /\ Len(path') = Len(path) + 1 /\ path'[1] = d
  BY <1>1, <1>2, <1>3
<1>6. lv[path[1]] = lv[d] + 1 /\ lv[d] \in Nat
  BY <1>1, <1>2, <1>3, <1>4 DEF Levels
<1>7. lv[path'[1]] + Len(path') = n + 2
  BY <1>4, <1>5, <1>6
<1>8. Far(n)' /\ Levels(lv)'
  <2>1. Levels(lv)'
    BY <1>1, <1>4 DEF Levels, visited
  <2> QED
    BY <1>1, <1>4, <2>1, FarStays
<1>9. Traced(lv)' /\ Fronts(lv)'
  BY <1>1, <1>4, <1>7, <1>8 DEF Traced, Fronts
<1>10. Ended'
  <2> SUFFICES ASSUME phase' = "done" PROVE Far(Len(path) - 2)'
    BY DEF Ended
  <2>1. lv[d] = 0
    BY <1>1, <1>4 DEF Levels
  <2>2. Len(path') - 2 = n
    BY <1>4, <1>5, <1>7, <2>1
  <2> QED
    BY <1>8, <2>2
<1> QED
  BY <1>8, <1>9, <1>10 DEF LevelInv

\* Whatever else happens.
LEMMA RestLevels == ASSUME IInv, LevelInv, GiveUp \/ UNCHANGED vars PROVE LevelInv'
<1>1. UNCHANGED <<links, src, dst, queue, prev, path>> /\ visited' = visited
  BY DEF GiveUp, vars, visited
<1>2. phase' = phase \/ (phase = "search" /\ phase' = "done" /\ path = <<>>)
  BY DEF GiveUp, vars, IInv, Progress
<1>3. PICK lv : Levels(lv) /\ Fronts(lv) /\ Traced(lv)
  BY DEF LevelInv
<1>4. Levels(lv)'
  BY <1>1, <1>3 DEF Levels
<1>5. Fronts(lv)'
  BY <1>1, <1>2, <1>3 DEF Fronts, Neighbours, Linked
<1>6. \A n : Far(n) => Far(n)'
  BY <1>1, FarStays
<1>7. Traced(lv)'
  BY <1>1, <1>2, <1>3, <1>6 DEF Traced
<1>8. Ended'
  <2>1. CASE phase' = phase
    <3> SUFFICES ASSUME phase = "done", Len(path) > 1 PROVE Far(Len(path) - 2)'
      BY <1>1, <2>1 DEF Ended
    <3>1. PICK n : n = Len(path) - 2
      OBVIOUS
    <3>2. Far(n)
      BY <3>1 DEF LevelInv, Ended
    <3>3. Far(n)'
      BY <1>6, <3>2
    <3> QED
      BY <1>1, <3>1, <3>3
  <2>2. CASE path = <<>>
    BY <1>1, <2>2 DEF Ended
  <2> QED
    BY <1>2, <2>1, <2>2
<1> QED
  BY <1>4, <1>5, <1>7, <1>8 DEF LevelInv

\* A path that a search reports is a shortest one: the levels of the devices in the queue
\* never decrease, so that the layers of devices nearer than the target were complete, and
\* without the target, when it was seen.
THEOREM ShortestFound == Spec => []PathIsShortest
<1>1. IInv /\ LevelInv /\ [Next]_vars => LevelInv'
  BY TargetLevels, QueueLevels, TraceLevels, RestLevels DEF Next
<1>2. IInv /\ LevelInv => PathIsShortest
  <2> SUFFICES ASSUME IInv, LevelInv, Done, Len(path) > 1 PROVE dst \notin Ball(Len(path) - 2)
    BY DEF PathIsShortest
  <2>1. path \in Seq(Devices) /\ src \in Devices
    BY DEF IInv, TypeOK
  <2>2. PICK n \in Nat : n = Len(path) - 2
    BY <2>1
  <2>3. Far(n)
    BY <2>2 DEF LevelInv, Ended, Done
  <2> QED
    BY <2>1, <2>2, <2>3, FarIsOutside
<1> QED
  BY InitLevels, InvariantHolds, <1>1, <1>2, PTL DEF Spec

-----------------------------------------------------------------------------
(* The ACLs and the translation on the path.                               *)

\* What is evaluated is the path, with the device behind a translation at its end.
OnPath ==
  /\ Done /\ path # <<>>
  /\ IF Owners(inside) = {} THEN walk = path ELSE \E d \in Owners(inside) : walk = Append(path, d)

AclInv ==
  /\ set \in Settings /\ pos \in Nat /\ verdict \in {"none", "permit", "deny"}
  /\ walk # <<>> => OnPath
  /\ walk = <<>> => pos = 0
  /\ verdict = "permit" => IF walk = <<>> THEN Done /\ path = <<>> ELSE pos = Len(walk)
  /\ verdict # "deny" => \A i \in 2..pos : walk[i] \notin Walls

\* A search of the ACL evaluation is a search.
LEMMA AclSearches == AclSpec => []IInv
<1>1. AclInit => Init
  BY DEF AclInit
<1>2. [AclNext]_<<vars, aclVars>> => [Next]_vars
  BY DEF AclNext, Search, StartWalk, SourceHop, TransitHop, LastHop
<1> QED
  BY InvariantHolds, <1>1, <1>2, PTL DEF AclSpec, Spec

\* A device that refuses whatever enters it is a wall in whatever it is asked.
LEMMA WallsDeny ==
  ASSUME NEW d \in Walls, NEW f, NEW o \in Outcomes(d, "in", f)
  PROVE  o = "deny"
<1>1. /\ d \in set.cached /\ set.filters[d]["in"] # {}
      /\ \A acl \in set.filters[d]["in"] : \A i \in 1..Len(acl) : ~ acl[i].permit
  BY DEF Walls
<1>2. PICK acl \in set.filters[d]["in"] : o = IF AclPermits(acl, f) THEN "permit" ELSE "deny"
  BY <1>1 DEF Outcomes
<1>3. ~ AclPermits(acl, f)
  BY <1>1 DEF AclPermits
<1> QED
  BY <1>2, <1>3

\* What is asked of a device is answered by permit or deny.
LEMMA OutcomesKnown == ASSUME NEW d, NEW dir, NEW f, NEW o \in Outcomes(d, dir, f) PROVE o \in {"permit", "deny"}
BY DEF Outcomes

\* An outcome decides as it says.
LEMMA Decides ==
  ASSUME NEW o \in {"permit", "deny"}, Decide(o)
  PROVE  /\ verdict' \in {"none", "permit", "deny"}
         /\ verdict' # "deny" => o = "permit"
         /\ verdict' = "permit" => pos + 1 = Len(walk)
BY DEF Decide

\* Nothing is evaluated at first.
LEMMA InitAcl == AclInit => AclInv
BY DEF AclInit, AclInv

\* One more device is evaluated, which is no wall unless it denies.
LEMMA HopAcl ==
  ASSUME AclInv, Hopping, pos' = pos + 1, UNCHANGED <<vars, set, target, inside, walk>>,
         NEW o \in {"permit", "deny"}, Decide(o), pos # 0 /\ o = "permit" => walk[pos + 1] \notin Walls
  PROVE  AclInv'
<1>1. /\ verdict' \in {"none", "permit", "deny"}
      /\ verdict' # "deny" => o = "permit"
      /\ verdict' = "permit" => pos + 1 = Len(walk)
  BY Decides
<1>2. pos \in Nat /\ verdict = "none" /\ walk # <<>>
  BY DEF AclInv, Hopping
<1>3. Walls' = Walls /\ OnPath' = OnPath
  BY DEF Walls, OnPath, Done, Owners, vars
<1>4. ASSUME o = "permit", NEW i \in 2..pos + 1 PROVE walk[i] \notin Walls
  <2>1. CASE i = pos + 1
    BY <1>2, <1>4, <2>1
  <2>2. CASE i \in 2..pos
    BY <1>2, <2>2 DEF AclInv
  <2> QED
    BY <1>2, <2>1, <2>2
<1>5. /\ set' \in Settings /\ pos' \in Nat
      /\ walk' # <<>> /\ (walk' # <<>> => OnPath')
  BY <1>2, <1>3 DEF AclInv
<1>6. verdict' = "permit" => pos' = Len(walk')
  BY <1>1
<1>7. verdict' # "deny" => \A i \in 2..pos' : walk'[i] \notin Walls'
  BY <1>1, <1>3, <1>4
<1> QED
  BY <1>1, <1>5, <1>6, <1>7 DEF AclInv

\* Each step of the evaluation.
LEMMA StepAcl == ASSUME IInv, AclInv, [AclNext]_<<vars, aclVars>> PROVE AclInv'
<1>1. CASE Search
  <2>1. phase # "done" /\ UNCHANGED <<src, set, target, inside, walk, pos, flow, verdict>>
    BY <1>1 DEF Search, Next, Visit, GiveUp, TraceBack, aclVars
  <2>2. walk = <<>> /\ verdict # "permit" /\ Walls' = Walls
    BY <2>1 DEF AclInv, OnPath, Done, Walls
  <2> QED
    BY <2>1, <2>2 DEF AclInv
<1>2. CASE StartWalk
  <2>1. /\ Done /\ verdict = "none" /\ walk = <<>> /\ pos = 0
        /\ UNCHANGED <<vars, set, target, inside, pos, flow>>
    BY <1>2 DEF StartWalk, AclInv
  <2>2. Done' /\ path' = path /\ Owners(inside)' = Owners(inside)
    BY <2>1 DEF Done, Owners, vars
  <2>3. \A i : i \notin 2..pos'
    BY <2>1
  <2>4. CASE path = <<>>
    <3>1. verdict' = "permit" /\ walk' = <<>>
      BY <1>2, <2>1, <2>4 DEF StartWalk
    <3> QED
      BY <2>1, <2>2, <2>3, <2>4, <3>1 DEF AclInv
  <2>5. CASE path # <<>>
    <3>1. verdict' = "none" /\ IF Owners(inside) = {} THEN walk' = path ELSE \E d \in Owners(inside) : walk' = Append(path, d)
      BY <1>2, <2>1, <2>5 DEF StartWalk
    <3>2. OnPath'
      BY <2>2, <2>5, <3>1 DEF OnPath
    <3> QED
      BY <2>1, <2>3, <3>1, <3>2 DEF AclInv
  <2> QED
    BY <2>4, <2>5
<1>3. CASE SourceHop
  <2>1. /\ Hopping /\ pos = 0 /\ pos' = pos + 1 /\ UNCHANGED <<vars, set, target, inside, walk>>
        /\ \E o \in Outcomes(walk[1], "out", flow') : Decide(o)
    BY <1>3 DEF SourceHop
  <2> QED
    BY <2>1, OutcomesKnown, HopAcl
<1>4. CASE TransitHop
  <2>1. /\ Hopping /\ pos' = pos + 1 /\ UNCHANGED <<vars, set, target, inside, walk>>
    BY <1>4 DEF TransitHop
  <2>2. PICK in \in Outcomes(walk[pos + 1], "in", flow), out \in Outcomes(walk[pos + 1], "out", flow') :
          Decide(IF "deny" \in {in, out} THEN "deny" ELSE "permit")
    BY <1>4 DEF TransitHop
  <2>3. PICK o \in {"permit", "deny"} : Decide(o) /\ (o = "permit" => in # "deny")
    BY <2>2
  <2>4. o = "permit" => walk[pos + 1] \notin Walls
    BY <2>2, <2>3, WallsDeny
  <2> QED
    BY <2>1, <2>3, <2>4, HopAcl
<1>5. CASE LastHop
  <2>1. /\ Hopping /\ pos' = pos + 1 /\ UNCHANGED <<vars, set, target, inside, walk>>
    BY <1>5 DEF LastHop
  <2>2. PICK o \in Outcomes(walk[pos + 1], "in", flow) : Decide(o)
    BY <1>5 DEF LastHop
  <2>3. o \in {"permit", "deny"}
    BY OutcomesKnown
  <2>4. o = "permit" => walk[pos + 1] \notin Walls
    BY WallsDeny
  <2> QED
    BY <2>1, <2>2, <2>3, <2>4, HopAcl
<1>6. CASE UNCHANGED <<vars, aclVars>>
  <2>1. UNCHANGED <<src, set, target, inside, walk, pos, flow, verdict, phase, path>>
    BY <1>6 DEF vars, aclVars
  <2> QED
    BY <2>1 DEF AclInv, OnPath, Done, Owners, Walls
<1> QED
  BY <1>1, <1>2, <1>3, <1>4, <1>5, <1>6 DEF AclNext

\* The evaluation of any network with any configuration maintains this.
LEMMA AclInvHolds == AclSpec => []AclInv
BY InitAcl, StepAcl, AclSearches, PTL DEF AclSpec

\* A way of links from the source on which nothing is in a set leads around the set.
LEMMA WayAround ==
  ASSUME IInv, Done, path # <<>>, NEW W, \A i \in 2..Len(path) : path[i] \notin W
  PROVE  ReachesAround(W)
<1> SUFFICES ASSUME NEW S \in SUBSET Devices, src \in S, \A d \in S : Neighbours(d) \ W \subseteq S PROVE dst \in S
  BY DEF ReachesAround
<1>1. path \in Seq(Devices) /\ path[1] = src /\ path[Len(path)] = dst
  BY DEF IInv, TypeOK, Progress, Done
<1>2. PICK n \in Nat : Len(path) = n + 1
  <2>1. Len(path) \in Nat \ {0}
    BY <1>1
  <2> QED
    BY <2>1
<1>3. PICK T : T = {k \in 0..n : path[k + 1] \in S}
  OBVIOUS
<1>4. 0 \in T
  BY <1>1, <1>3
<1>5. ASSUME NEW k \in 1..n, k - 1 \in T PROVE k \in T
  <2>1. k \in 1..Len(path) - 1 /\ k + 1 \in 2..Len(path) /\ k + 1 \in 1..Len(path) /\ k \in 0..n /\ (k - 1) + 1 = k
    BY <1>2
  <2>2. Linked(path[k], path[k + 1])
    BY <2>1 DEF IInv, Chain
  <2>3. path[k + 1] \in Neighbours(path[k]) \ W
    <3>1. path[k + 1] \in Devices
      BY <1>1, <2>1, ElementOfSeq
    <3> QED
      BY <2>1, <2>2, <3>1 DEF Neighbours
  <2>4. path[k] \in S
    BY <1>3, <1>5, <2>1
  <2> QED
    BY <1>3, <2>1, <2>3, <2>4
<1>6. n \in T
  BY <1>4, <1>5, HoldsTo
<1> QED
  BY <1>1, <1>2, <1>3, <1>6

\* Whatever the network, the filters and what is cached, a ping that is let through has a way
\* around every device that refuses what enters it.
THEOREM WallsAreKept == AclSpec => []WallsHold
<1>1. IInv /\ AclInv => WallsHold
  <2> SUFFICES ASSUME IInv, AclInv, verdict = "permit", path # <<>>, inside = NoAddress PROVE ReachesAround(Walls)
    BY DEF WallsHold
  <2>1. Owners(inside) = {}
    <3>1. \A d \in Devices : set.addr[d] \subseteq Addresses
      BY AddressesKnown DEF AclInv
    <3> QED
      BY <3>1, AddressesKnown DEF Owners
  <2>2. walk # <<>> /\ pos = Len(walk)
    BY DEF AclInv
  <2>3. Done /\ walk = path
    BY <2>1, <2>2 DEF AclInv, OnPath
  <2>4. \A i \in 2..Len(path) : path[i] \notin Walls
    BY <2>2, <2>3 DEF AclInv
  <2> QED
    BY <2>3, <2>4, WayAround
<1> QED
  BY AclSearches, AclInvHolds, <1>1, PTL

\* The devices that translate the address that is pinged, or the one behind it, agree on what
\* is behind it.
Agreed == \A d \in Devices : InsideOf(d, target) \in {NoAddress, inside} /\ InsideOf(d, inside) = NoAddress

\* How far the packet has been translated.
Translated ==
  /\ "dst" \in DOMAIN flow /\ flow.dst \in {target, inside}
  /\ Owners(inside) # {} => InsideOf(dst, target) = inside
  /\ Owners(inside) # {} /\ walk # <<>> /\ ~ Translates(src) /\ Len(path) <= pos => flow.dst = inside

NatInv == Agreed => Translated

\* Nobody owns an address that is none.
LEMMA NoneOwned == ASSUME set \in Settings PROVE Owners(NoAddress) = {}
<1>1. \A d \in Devices : set.addr[d] \subseteq Addresses
  BY AddressesKnown
<1> QED
  BY <1>1, AddressesKnown DEF Owners

\* What a device translates on the way out is the source.
LEMMA OutKeepsDst ==
  ASSUME NEW d, NEW f, "dst" \in DOMAIN f, NEW g \in NatOut(d, f)
  PROVE  "dst" \in DOMAIN g /\ g.dst = f.dst
<1>1. g = f \/ \E a : g = [f EXCEPT !.src = a]
  BY DEF NatOut
<1>2. ASSUME NEW a PROVE "dst" \in DOMAIN [f EXCEPT !.src = a] /\ [f EXCEPT !.src = a].dst = f.dst
  OBVIOUS
<1> QED
  BY <1>1, <1>2

\* What it translates on the way in is the destination.
LEMMA InTranslates ==
  ASSUME NEW d, NEW f, "dst" \in DOMAIN f
  PROVE  /\ "dst" \in DOMAIN NatIn(d, f)
         /\ NatIn(d, f).dst = IF InsideOf(d, f.dst) = NoAddress THEN f.dst ELSE InsideOf(d, f.dst)
BY DEF NatIn

\* The packet begins with the address that is pinged.
LEMMA InitNat == AclInit => NatInv
<1> SUFFICES ASSUME AclInit PROVE Translated
  BY DEF NatInv
<1>1. set \in Settings /\ walk = <<>> /\ \E a : flow = [src |-> a, dst |-> target]
  BY DEF AclInit
<1>2. "dst" \in DOMAIN flow /\ flow.dst = target
  BY <1>1
<1>3. inside = NoAddress \/ inside = InsideOf(dst, target)
  BY DEF AclInit
<1> QED
  BY <1>1, <1>2, <1>3, NoneOwned DEF Translated

\* The devices that are evaluated are those of the path and, last, the one behind the translation.
LEMMA WalkIsPath ==
  ASSUME IInv, AclInv, walk # <<>>
  PROVE  /\ Len(path) \in Nat \ {0} /\ \A i \in 1..Len(path) : walk[i] = path[i] /\ path[i] \in Devices
         /\ path[1] = src /\ path[Len(path)] = dst
         /\ Owners(inside) # {} => Len(walk) = Len(path) + 1 /\ walk[Len(walk)] \in Owners(inside)
<1>1. path \in Seq(Devices) /\ path # <<>> /\ path[1] = src /\ path[Len(path)] = dst /\ OnPath
  BY DEF IInv, AclInv, TypeOK, Progress, OnPath, Done
<1>2. Len(path) \in Nat \ {0} /\ \A i \in 1..Len(path) : path[i] \in Devices
  BY <1>1, ElementOfSeq
<1>3. CASE Owners(inside) = {}
  BY <1>1, <1>2, <1>3 DEF OnPath
<1>4. CASE Owners(inside) # {}
  <2>1. PICK d \in Owners(inside) : walk = Append(path, d)
    BY <1>1, <1>4 DEF OnPath
  <2>2. d \in Devices
    BY DEF Owners
  <2>3. Len(walk) = Len(path) + 1 /\ walk[Len(path) + 1] = d /\ \A i \in 1..Len(path) : walk[i] = path[i]
    BY <1>1, <2>1, <2>2, AppendProperties
  <2> QED
    BY <1>1, <1>2, <1>4, <2>3
<1> QED
  BY <1>3, <1>4

\* Each step of the evaluation.
LEMMA StepNat == ASSUME IInv, AclInv, NatInv, [AclNext]_<<vars, aclVars>> PROVE NatInv'
<1>1. /\ UNCHANGED <<set, target, inside, src, dst>>
      /\ Agreed' = Agreed /\ Owners(inside)' = Owners(inside)
      /\ InsideOf(dst, target)' = InsideOf(dst, target) /\ Translates(src)' = Translates(src)
  <2>1. UNCHANGED <<set, target, inside, src, dst>>
    BY DEF AclNext, Search, Next, Visit, GiveUp, TraceBack, StartWalk, SourceHop, TransitHop, LastHop, vars, aclVars
  <2> QED
    BY <2>1 DEF Agreed, Owners, InsideOf, Translates
<1> SUFFICES ASSUME Agreed, Translated PROVE Translated'
  BY <1>1 DEF NatInv
<1>2. pos \in Nat
  BY DEF AclInv
<1>3. CASE Search
  <2>1. phase # "done" /\ UNCHANGED <<walk, flow>>
    BY <1>3 DEF Search, Next, Visit, GiveUp, TraceBack, aclVars
  <2>2. walk = <<>>
    BY <2>1 DEF AclInv, OnPath, Done
  <2> QED
    BY <1>1, <2>1, <2>2 DEF Translated
<1>4. CASE StartWalk
  <2>1. pos = 0 /\ UNCHANGED <<pos, flow, vars>> /\ walk = <<>>
    BY <1>4 DEF StartWalk, AclInv
  <2>2. walk' # <<>> => Len(path') \in Nat \ {0}
    <3>1. path' = path /\ path \in Seq(Devices)
      BY <2>1 DEF IInv, TypeOK, vars
    <3>2. walk' # <<>> => path # <<>>
      BY <1>4 DEF StartWalk
    <3> QED
      BY <3>1, <3>2
  <2> QED
    BY <1>1, <2>1, <2>2 DEF Translated
<1>5. CASE SourceHop
  <2>1. walk # <<>> /\ pos' = 1 /\ flow' \in NatOut(walk[1], flow) /\ UNCHANGED <<vars, walk>>
    BY <1>5 DEF SourceHop, Hopping
  <2>2. "dst" \in DOMAIN flow' /\ flow'.dst = flow.dst
    <3>1. "dst" \in DOMAIN flow
      BY DEF Translated
    <3> QED
      BY <2>1, <3>1, OutKeepsDst
  <2>3. ASSUME Owners(inside) # {}, Len(path) <= 1 PROVE Translates(src)
    <3>1. src = dst
      <4>1. Len(path) \in Nat \ {0} /\ path[1] = src /\ path[Len(path)] = dst
        BY <2>1, WalkIsPath, Zenon
      <4>2. PICK n \in Nat : n = Len(path) /\ n # 0 /\ n <= 1
        BY <2>3, <4>1
      <4>3. n = 1
        BY <4>2
      <4> QED
        BY <4>1, <4>2, <4>3
    <3>2. InsideOf(src, target) # NoAddress
      BY <2>3, <3>1, NoneOwned DEF Translated, AclInv
    <3> QED
      BY <3>2 DEF InsideOf
  <2> QED
    BY <1>1, <2>1, <2>2, <2>3, Zenon DEF Translated, vars
<1>6. CASE TransitHop
  <2>1. PICK d : d = walk[pos + 1]
    OBVIOUS
  <2>2. /\ walk # <<>> /\ pos > 0 /\ pos + 1 < Len(walk) /\ pos' = pos + 1 /\ UNCHANGED <<vars, walk>>
        /\ flow' \in NatOut(d, NatIn(d, flow))
    BY <1>6, <2>1 DEF TransitHop, Hopping
  <2>3. /\ "dst" \in DOMAIN flow'
        /\ flow'.dst = IF InsideOf(d, flow.dst) = NoAddress THEN flow.dst ELSE InsideOf(d, flow.dst)
    BY <2>2, OutKeepsDst, InTranslates DEF Translated
  <2>4. /\ Len(path) \in Nat \ {0} /\ \A i \in 1..Len(path) : walk[i] = path[i] /\ path[i] \in Devices
        /\ path[Len(path)] = dst
        /\ Owners(inside) # {} => Len(walk) = Len(path) + 1
        /\ Owners(inside) = {} => Len(walk) = Len(path)
    <3>1. Owners(inside) = {} => walk = path
      BY <2>2 DEF AclInv, OnPath
    <3> QED
      BY <2>2, <3>1, WalkIsPath
  <2>5. pos + 1 \in 1..Len(path) /\ d \in Devices
    <3>1. pos + 1 \in 1..Len(path)
      BY <1>2, <2>2, <2>4
    <3> QED
      BY <2>1, <2>4, <3>1
  <2>6. InsideOf(d, target) \in {NoAddress, inside} /\ InsideOf(d, inside) = NoAddress
    BY <2>5 DEF Agreed
  <2>7. flow'.dst \in {target, inside}
    BY <2>3, <2>6 DEF Translated
  <2>8. ASSUME Owners(inside) # {}, Len(path) <= pos + 1 PROVE flow'.dst = inside
    <3>1. d = dst
      BY <1>2, <2>1, <2>4, <2>5, <2>8
    <3>2. InsideOf(d, target) = inside /\ inside # NoAddress
      BY <2>8, <3>1, NoneOwned DEF Translated, AclInv
    <3> QED
      BY <2>3, <2>6, <3>2 DEF Translated
  <2> QED
    BY <1>1, <2>2, <2>3, <2>7, <2>8 DEF Translated, vars
<1>7. CASE LastHop
  <2>1. walk # <<>> /\ pos + 1 = Len(walk) /\ pos' = pos + 1 /\ UNCHANGED <<vars, walk, flow>>
    BY <1>7 DEF LastHop, Hopping
  <2>2. Owners(inside) # {} => Len(path) <= pos
    <3>1. Len(path) \in Nat /\ (Owners(inside) # {} => Len(walk) = Len(path) + 1)
      BY <2>1, WalkIsPath
    <3> QED
      BY <1>2, <2>1, <3>1
  <2> QED
    BY <1>1, <2>1, <2>2 DEF Translated, vars
<1>8. CASE UNCHANGED <<vars, aclVars>>
  BY <1>1, <1>8 DEF Translated, vars, aclVars
<1> QED
  BY <1>3, <1>4, <1>5, <1>6, <1>7, <1>8 DEF AclNext

\* Where the devices that translate a public address agree on the address behind it, a ping of
\* it that is let through arrives at the device that owns the destination it was rewritten to.
\* Where they do not, it need not: the path leads to one of them and another rewrites the packet.
THEOREM AgreedArrives == AclSpec => [](Agreed => TranslatedArrives)
<1>1. IInv /\ AclInv /\ [AclNext]_<<vars, aclVars>> /\ NatInv => NatInv'
  BY StepNat
<1>2. IInv /\ AclInv /\ NatInv => (Agreed => TranslatedArrives)
  <2> SUFFICES ASSUME IInv, AclInv, NatInv, Agreed, verdict = "permit", path # <<>>, Owners(inside) # {}, ~ Translates(src)
               PROVE  walk[Len(walk)] \in Owners(flow.dst)
    BY DEF TranslatedArrives
  <2>1. walk # <<>> /\ pos = Len(walk)
    BY DEF AclInv
  <2>2. walk[Len(walk)] \in Owners(inside) /\ Len(path) <= pos
    BY <2>1, WalkIsPath
  <2> QED
    BY <2>1, <2>2 DEF NatInv, Translated
<1> QED
  BY InitNat, AclSearches, AclInvHolds, <1>1, <1>2, PTL DEF AclSpec

-----------------------------------------------------------------------------
(* The ping in a network without VLANs and tunnels.                        *)

PlainNet == Links = Plain /\ fabric.vtep = {}

\* Two devices at the ends of one of the links.
Joined(ls, d, e) == \E l \in ls : Joins(l, d) /\ Peer(l, d) = e

\* A way of n of the links from a device to another.
Way(ls, w, n, from, to) ==
  /\ w \in [0..n -> Machines] /\ w[0] = from /\ w[n] = to
  /\ \A i \in 1..n : Joined(ls, w[i - 1], w[i])

HasWay(ls, from, to) == \E n, w : n \in Nat /\ Way(ls, w, n, from, to)

\* One that meets no device twice.
SimpleWay(ls, w, n, from, to) ==
  n \in Nat \ {0} /\ Way(ls, w, n, from, to) /\ \A i, j \in 0..n : i < j => w[i] # w[j]

\* The ends of the ping and the links are what they are said to be.
FabricOK == fabric \in Fabrics /\ pinger \in Machines /\ pinged \in Machines /\ pinger # pinged

\* The links of a fabric are records of devices and numbers.
LEMMA LinksTyped ==
  ASSUME FabricOK
  PROVE  /\ Len(fabric.links) \in Nat
         /\ \A l \in Links : l.a \in Machines /\ l.b \in Machines /\ l.vni \in Nat
<1>1. fabric.links \in Seq([a : Machines, b : Machines, vlan : Nat, vni : Nat])
  BY FabricsAssumption DEF FabricOK
<1>2. \A i \in 1..Len(fabric.links) : fabric.links[i] \in [a : Machines, b : Machines, vlan : Nat, vni : Nat]
  BY <1>1, ElementOfSeq
<1>3. Len(fabric.links) \in Nat
  BY <1>1
<1> QED
  BY <1>2, <1>3 DEF Links

\* Links join devices, from either end.
LEMMA LinksJoin ==
  ASSUME FabricOK, NEW ls \in SUBSET Links
  PROVE  \A d, e : Joined(ls, d, e) => Joined(ls, e, d) /\ d \in Machines /\ e \in Machines
<1>1. fabric.links \in Seq([a : Machines, b : Machines, vlan : Nat, vni : Nat])
  BY FabricsAssumption DEF FabricOK
<1>2. \A i \in 1..Len(fabric.links) : fabric.links[i] \in [a : Machines, b : Machines, vlan : Nat, vni : Nat]
  BY <1>1, ElementOfSeq
<1>3. \A l \in Links : l.a \in Machines /\ l.b \in Machines
  BY <1>2 DEF Links
<1> QED
  BY <1>3 DEF Joined, Joins, Peer

\* The devices n steps from a device, for every n up to N.
StepsOf(near, ls, from, N) ==
  /\ near \in [0..N -> SUBSET Machines]
  /\ near[0] = {from} /\ Reach(ls, from) = near[N]
  /\ \A k \in 1..N : near[k] = near[k - 1] \cup {d \in Machines : \E e \in near[k - 1] : Joined(ls, d, e)}

\* Reach is where a repeated step from a device comes to.
LEMMA ReachSteps ==
  ASSUME FabricOK, NEW ls \in SUBSET Links, NEW from \in Machines, NEW N \in Nat, N = Cardinality(Machines)
  PROVE  \E near : StepsOf(near, ls, from, N)
<1> DEFINE near[k \in 0..N] == IF k = 0 THEN {from}
                               ELSE near[k - 1] \cup {d \in Machines : \E l \in ls : Joins(l, d) /\ Peer(l, d) \in near[k - 1]}
<1>1. Reach(ls, from) = near[N]
  BY DEF Reach
<1>2. PICK next : next = [p \in (1..N) \X SUBSET Machines |-> p[2] \cup {d \in Machines : \E l \in ls : Joins(l, d) /\ Peer(l, d) \in p[2]}]
  OBVIOUS
<1>3. next \in [(1..N) \X SUBSET Machines -> SUBSET Machines]
  BY <1>2
<1>4. PICK f \in [0..N -> SUBSET Machines] : \A k \in 0..N : f[k] = IF k = 0 THEN {from} ELSE next[<<k, f[k - 1]>>]
  <2>1. {from} \in SUBSET Machines /\ PassStep(next, SUBSET Machines, N)
    BY <1>3 DEF PassStep, FabricOK
  <2>2. PICK f : PassOf(f, next, SUBSET Machines, {from}, N)
    BY <2>1, PassExists
  <2> QED
    BY <2>2 DEF PassOf
<1>5. \A k \in 1..N : k - 1 \in 0..N /\ k \in 0..N /\ k # 0
  OBVIOUS
<1>6. \A k \in 1..N : next[<<k, f[k - 1]>>] = f[k - 1] \cup {d \in Machines : \E l \in ls : Joins(l, d) /\ Peer(l, d) \in f[k - 1]}
  BY <1>2, <1>5
<1>7. \A k \in 0..N : k = 0 \/ k \in 1..N
  OBVIOUS
<1>8. \A k \in 0..N : f[k] = IF k = 0 THEN {from} ELSE f[k - 1] \cup {d \in Machines : \E l \in ls : Joins(l, d) /\ Peer(l, d) \in f[k - 1]}
  BY <1>4, <1>6, <1>7
<1>9. f = [k \in 0..N |-> IF k = 0 THEN {from} ELSE f[k - 1] \cup {d \in Machines : \E l \in ls : Joins(l, d) /\ Peer(l, d) \in f[k - 1]}]
  BY <1>4, <1>8
<1>10. near = [k \in 0..N |-> IF k = 0 THEN {from} ELSE near[k - 1] \cup {d \in Machines : \E l \in ls : Joins(l, d) /\ Peer(l, d) \in near[k - 1]}]
  <2> DEFINE Is(g) == g = [k \in 0..N |-> IF k = 0 THEN {from} ELSE g[k - 1] \cup {d \in Machines : \E l \in ls : Joins(l, d) /\ Peer(l, d) \in g[k - 1]}]
  <2>1. near = CHOOSE g : Is(g)
    OBVIOUS
  <2>2. Is(f)
    BY <1>9
  <2> HIDE DEF Is, near
  <2>3. Is(near)
    BY <2>1, <2>2
  <2> QED
    BY <2>3 DEF Is
<1> HIDE DEF near
<1>11. near[0] = {from}
  <2>1. 0 \in 0..N
    OBVIOUS
  <2> QED
    BY <1>10, <2>1
<1>12. ASSUME NEW k \in 1..N
       PROVE  near[k] = near[k - 1] \cup {d \in Machines : \E e \in near[k - 1] : Joined(ls, d, e)}
  <2>1. near[k] = near[k - 1] \cup {d \in Machines : \E l \in ls : Joins(l, d) /\ Peer(l, d) \in near[k - 1]}
    BY <1>5, <1>10
  <2>2. \A d : (\E l \in ls : Joins(l, d) /\ Peer(l, d) \in near[k - 1]) <=> \E e \in near[k - 1] : Joined(ls, d, e)
    BY DEF Joined
  <2> QED
    BY <2>1, <2>2
<1>13. PICK T : T = {k \in 0..N : near[k] \subseteq Machines}
  OBVIOUS
<1>14. \A m \in 0..N : m \in T
  <2> SUFFICES ASSUME NEW m \in 0..N PROVE m \in T
    OBVIOUS
  <2>1. 0 \in T
    BY <1>11, <1>13 DEF FabricOK
  <2>2. ASSUME NEW k \in 1..m, k - 1 \in T PROVE k \in T
    <3>1. k \in 1..N
      OBVIOUS
    <3> QED
      BY <1>5, <1>12, <1>13, <2>2, <3>1
  <2> QED
    BY <2>1, <2>2, HoldsTo
<1>15. near \in [0..N -> SUBSET Machines]
  <2>1. \A m \in 0..N : near[m] \in SUBSET Machines
    BY <1>13, <1>14
  <2>2. \E g : near = [k \in 0..N |-> g[k]]
    <3>1. PICK g : g = [k \in 0..N |-> IF k = 0 THEN {from} ELSE near[k - 1] \cup {d \in Machines : \E l \in ls : Joins(l, d) /\ Peer(l, d) \in near[k - 1]}]
      OBVIOUS
    <3> QED
      BY <1>10, <3>1
  <2> QED
    BY <2>1, <2>2
<1>16. near[0] = {from} /\ Reach(ls, from) = near[N]
  BY <1>1, <1>11
<1> QED
  BY <1>12, <1>15, <1>16 DEF StepsOf

\* What is joined to a device that has a way has one.
LEMMA WayOn ==
  ASSUME FabricOK, NEW ls \in SUBSET Links, NEW from \in Machines, NEW d, NEW e, HasWay(ls, from, d), Joined(ls, d, e)
  PROVE  HasWay(ls, from, e)
<1>1. PICK n, w : n \in Nat /\ Way(ls, w, n, from, d)
  BY DEF HasWay
<1>2. w \in [0..n -> Machines] /\ w[0] = from /\ w[n] = d /\ \A i \in 1..n : Joined(ls, w[i - 1], w[i])
  BY <1>1 DEF Way
<1>3. PICK v : v = [i \in 0..n + 1 |-> IF i <= n THEN w[i] ELSE e]
  OBVIOUS
<1>4. \A i \in 0..n : i \in 0..n + 1 /\ v[i] = w[i]
  BY <1>1, <1>3
<1>5. v[n + 1] = e
  BY <1>1, <1>3
<1>6. v \in [0..n + 1 -> Machines]
  <2>1. e \in Machines
    BY LinksJoin
  <2>2. \A i \in 0..n + 1 : v[i] \in Machines
    <3>1. \A i \in 0..n + 1 : i <= n => i \in 0..n
      BY <1>1
    <3> QED
      BY <1>2, <1>3, <2>1, <3>1
  <2> QED
    BY <1>3, <2>2
<1>7. ASSUME NEW i \in 1..n + 1 PROVE Joined(ls, v[i - 1], v[i])
  <2>1. CASE i = n + 1
    <3>1. n \in 0..n /\ i - 1 = n
      BY <1>1, <2>1
    <3> QED
      BY <1>2, <1>4, <1>5, <2>1, <3>1
  <2>2. CASE i \in 1..n
    <3>1. i \in 0..n /\ i - 1 \in 0..n
      BY <1>1, <2>2
    <3> QED
      BY <1>2, <1>4, <2>2, <3>1
  <2> QED
    BY <1>1, <2>1, <2>2
<1>8. 0 \in 0..n /\ n + 1 \in Nat
  BY <1>1
<1>9. Way(ls, v, n + 1, from, e)
  BY <1>2, <1>4, <1>5, <1>6, <1>7, <1>8 DEF Way
<1> QED
  BY <1>8, <1>9 DEF HasWay

\* A device has a way to itself.
LEMMA WayHere == ASSUME NEW ls, NEW from \in Machines PROVE HasWay(ls, from, from)
<1>1. PICK w : w = [i \in 0..0 |-> from]
  OBVIOUS
<1>2. Way(ls, w, 0, from, from)
  BY <1>1 DEF Way
<1> QED
  BY <1>2 DEF HasWay

\* Whoever has a way is reached: after as many steps as there are devices nothing is new.
LEMMA ReachIsWays ==
  ASSUME FabricOK, NEW ls \in SUBSET Links, NEW from \in Machines
  PROVE  \A d : d \in Reach(ls, from) <=> HasWay(ls, from, d)
<1>1. IsFiniteSet(Machines) /\ Cardinality(Machines) \in Nat
  BY MachinesAssumption, FS_CardinalityType
<1>2. PICK N \in Nat : N = Cardinality(Machines)
  BY <1>1
<1>0. PICK near : StepsOf(near, ls, from, N)
  BY <1>2, ReachSteps
<1>3. /\ near \in [0..N -> SUBSET Machines]
      /\ near[0] = {from} /\ Reach(ls, from) = near[N]
      /\ \A k \in 1..N : near[k] = near[k - 1] \cup {d \in Machines : \E e \in near[k - 1] : Joined(ls, d, e)}
  BY <1>0 DEF StepsOf
<1>4. \A k \in 1..N : k - 1 \in 0..N /\ k \in 0..N /\ k # 0
  OBVIOUS
<1>5. \A d \in near[N] : HasWay(ls, from, d)
  <2>1. PICK T : T = {k \in 0..N : \A d \in near[k] : HasWay(ls, from, d)}
    OBVIOUS
  <2>2. 0 \in T
    <3>1. PICK w : w = [i \in 0..0 |-> from]
      OBVIOUS
    <3>2. Way(ls, w, 0, from, from)
      BY <3>1 DEF Way, FabricOK
    <3>3. HasWay(ls, from, from)
      BY <3>2 DEF HasWay
    <3> QED
      BY <1>3, <2>1, <3>3
  <2>3. ASSUME NEW k \in 1..N, k - 1 \in T PROVE k \in T
    <3>1. ASSUME NEW d \in near[k] PROVE HasWay(ls, from, d)
      <4>1. CASE d \in near[k - 1]
        BY <2>1, <2>3, <4>1
      <4>2. CASE d \notin near[k - 1]
        <5>1. PICK e \in near[k - 1] : Joined(ls, d, e)
          BY <1>3, <4>2
        <5>2. HasWay(ls, from, e) /\ Joined(ls, e, d)
          BY <2>1, <2>3, <5>1, LinksJoin
        <5> QED
          BY <5>2, WayOn
      <4> QED
        BY <4>1, <4>2
    <3> QED
      BY <1>4, <2>1, <3>1
  <2>4. N \in T
    BY <2>2, <2>3, HoldsTo
  <2> QED
    BY <2>1, <2>4
<1>6. ASSUME NEW k \in 0..N PROVE IsFiniteSet(near[k]) /\ Cardinality(near[k]) \in Nat /\ Cardinality(near[k]) <= N
  <2>1. near[k] \in SUBSET Machines
    BY <1>3
  <2>2. IsFiniteSet(near[k]) /\ Cardinality(near[k]) <= Cardinality(Machines)
    BY <1>1, <2>1, FS_Subset
  <2>3. Cardinality(near[k]) \in Nat
    BY <2>2, FS_CardinalityType
  <2> QED
    BY <1>2, <2>2, <2>3
<1> DEFINE Full(k) == \A d \in Machines : (\E e \in near[k] : Joined(ls, d, e)) => d \in near[k]
<1>7. PICK T : T = {k \in 0..N : Full(k) \/ Cardinality(near[k]) >= k + 1}
  OBVIOUS
<1>8. 0 \in T
  <2>1. Cardinality(near[0]) = 1
    BY <1>3, FS_Singleton
  <2>2. 0 \in 0..N
    OBVIOUS
  <2> QED
    BY <1>7, <2>1, <2>2
<1>9. ASSUME NEW k \in 1..N, k - 1 \in T PROVE k \in T
  <2>1. near[k] = near[k - 1] \cup {d \in Machines : \E e \in near[k - 1] : Joined(ls, d, e)}
    BY <1>3
  <2>2. CASE Full(k - 1)
    <3>1. near[k] = near[k - 1]
      BY <2>1, <2>2
    <3>2. Full(k)
      BY <2>2, <3>1
    <3> HIDE DEF Full
    <3> QED
      BY <1>4, <1>7, <3>2
  <2>3. CASE ~ Full(k - 1)
    <3>1. PICK x \in near[k] : x \notin near[k - 1]
      BY <2>1, <2>3
    <3>2. PICK a \in Nat, b \in Nat : a = Cardinality(near[k - 1]) /\ b = Cardinality(near[k])
      BY <1>4, <1>6
    <3>3. a <= b /\ a # b
      <4>1. IsFiniteSet(near[k]) /\ near[k - 1] \in SUBSET near[k]
        BY <1>4, <1>6, <2>1
      <4>2. a <= b /\ (b = a => near[k] = near[k - 1])
        BY <3>2, <4>1, FS_Subset
      <4> QED
        BY <3>1, <4>2
    <3>4. a >= (k - 1) + 1
      <4> HIDE DEF Full
      <4> QED
        BY <1>7, <1>9, <2>3, <3>2
    <3>5. b >= k + 1
      BY <3>3, <3>4
    <3> HIDE DEF Full
    <3> QED
      BY <1>4, <1>7, <3>2, <3>5
  <2> QED
    BY <2>2, <2>3
<1>10. Full(N)
  <2> HIDE DEF Full
  <2>1. N \in T
    BY <1>8, <1>9, HoldsTo
  <2>2. N \in 0..N
    OBVIOUS
  <2>3. PICK c \in Nat : c = Cardinality(near[N]) /\ c <= N
    BY <1>6, <2>2
  <2>4. ~ (c >= N + 1)
    BY <2>3
  <2> QED
    BY <1>7, <2>1, <2>3, <2>4
<1>11. from \in near[N]
  <2>1. PICK U : U = {k \in 0..N : from \in near[k]}
    OBVIOUS
  <2>2. 0 \in U
    BY <1>3, <2>1
  <2>3. ASSUME NEW k \in 1..N, k - 1 \in U PROVE k \in U
    BY <1>3, <1>4, <2>1, <2>3
  <2>4. N \in U
    BY <2>2, <2>3, HoldsTo
  <2> QED
    BY <2>1, <2>4
<1>12. ASSUME NEW d, HasWay(ls, from, d) PROVE d \in near[N]
  <2>1. PICK n, w : n \in Nat /\ Way(ls, w, n, from, d)
    BY <1>12 DEF HasWay
  <2>2. w \in [0..n -> Machines] /\ w[0] = from /\ w[n] = d /\ \A i \in 1..n : Joined(ls, w[i - 1], w[i])
    BY <2>1 DEF Way
  <2>3. PICK U : U = {i \in 0..n : w[i] \in near[N]}
    OBVIOUS
  <2>4. 0 \in U
    BY <1>11, <2>1, <2>2, <2>3
  <2>5. ASSUME NEW i \in 1..n, i - 1 \in U PROVE i \in U
    <3>1. Joined(ls, w[i], w[i - 1]) /\ w[i] \in Machines
      BY <2>2, LinksJoin
    <3>2. w[i - 1] \in near[N] /\ i \in 0..n
      BY <2>1, <2>3, <2>5
    <3> QED
      BY <1>10, <2>3, <3>1, <3>2
  <2>6. n \in U
    BY <2>1, <2>4, <2>5, HoldsTo
  <2> QED
    BY <2>2, <2>3, <2>6
<1> QED
  BY <1>3, <1>5, <1>12

\* The shortest way to the device that is to meets no device twice.
LEMMA HasSimpleWay ==
  ASSUME FabricOK, NEW ls \in SUBSET Links, NEW from \in Machines, NEW to, from # to, HasWay(ls, from, to)
  PROVE  \E n, w : SimpleWay(ls, w, n, from, to)
<1>1. PICK m \in Nat : \E w : Way(ls, w, m, from, to)
  BY DEF HasWay
<1>2. \A w : ~ Way(ls, w, 0, from, to)
  BY DEF Way, FabricOK
<1>3. PICK S : S = {k \in 1..m : \E w : Way(ls, w, k, from, to)}
  OBVIOUS
<1>4. S \subseteq 1..m /\ S # {}
  <2>1. m # 0
    BY <1>1, <1>2
  <2>2. m \in 1..m
    BY <2>1
  <2> QED
    BY <1>1, <1>3, <2>2
<1>5. PICK n \in S : \A k \in S : n <= k
  BY <1>4, HasFirst
<1>6. PICK w : Way(ls, w, n, from, to)
  BY <1>3, <1>5
<1>7. n \in Nat /\ n \in 1..m /\ w \in [0..n -> Machines] /\ w[0] = from /\ w[n] = to /\ \A i \in 1..n : Joined(ls, w[i - 1], w[i])
  BY <1>3, <1>6 DEF Way
<1>8. ASSUME NEW i \in 0..n, NEW j \in 0..n, i < j, w[i] = w[j] PROVE FALSE
  <2>1. PICK g \in Nat, r \in Nat : g = j - i /\ r = n - g /\ g # 0 /\ r < n
    <3>1. j - i \in Nat /\ n - (j - i) \in Nat /\ j - i # 0 /\ n - (j - i) < n
      BY <1>7, <1>8
    <3> QED
      BY <3>1
  <2>2. PICK v : v = [k \in 0..r |-> IF k <= i THEN w[k] ELSE w[k + g]]
    OBVIOUS
  <2>3. i \in 0..r /\ j <= n /\ j = i + g /\ n = r + g
    BY <1>7, <1>8, <2>1
  <2>4. \A k \in 0..r : k \in 0..n /\ k + g \in 0..n
    BY <1>7, <2>3
  <2>5. v \in [0..r -> Machines]
    BY <1>7, <2>2, <2>4
  <2>6. v[0] = from
    BY <1>7, <1>8, <2>2, <2>3
  <2>7. v[r] = to
    <3>1. CASE r <= i
      <4>1. r = i /\ j = n
        BY <2>3, <3>1
      <4> QED
        BY <1>7, <1>8, <2>2, <3>1, <4>1
    <3>2. CASE ~ (r <= i)
      BY <1>7, <2>2, <2>3, <3>2
    <3> QED
      BY <3>1, <3>2
  <2>8. ASSUME NEW k \in 1..r PROVE Joined(ls, v[k - 1], v[k])
    <3>1. k \in 1..n /\ k + g \in 1..n /\ k - 1 \in 0..r /\ k \in 0..r /\ (k - 1) + g = (k + g) - 1
      BY <1>7, <2>3
    <3>2. CASE k <= i
      <4>1. k - 1 <= i
        BY <3>2
      <4>2. v[k] = w[k] /\ v[k - 1] = w[k - 1]
        BY <2>2, <3>1, <3>2, <4>1
      <4> QED
        BY <1>7, <3>1, <4>2
    <3>3. CASE k = i + 1
      <4>1. k - 1 = i /\ ~ (k <= i) /\ (k + g) - 1 = j
        BY <2>3, <3>3
      <4>2. v[k] = w[k + g] /\ v[k - 1] = w[(k + g) - 1]
        BY <1>8, <2>2, <3>1, <4>1
      <4> QED
        BY <1>7, <3>1, <4>2
    <3>4. CASE k > i + 1
      <4>1. ~ (k - 1 <= i) /\ ~ (k <= i)
        BY <3>4
      <4>2. v[k] = w[k + g] /\ v[k - 1] = w[(k + g) - 1]
        BY <2>2, <3>1, <4>1
      <4> QED
        BY <1>7, <3>1, <4>2
    <3> QED
      BY <3>2, <3>3, <3>4
  <2>9. Way(ls, v, r, from, to)
    BY <2>5, <2>6, <2>7, <2>8 DEF Way
  <2>10. r # 0
    BY <1>2, <2>9
  <2>11. r \in S
    BY <1>3, <1>7, <2>1, <2>9, <2>10
  <2> QED
    BY <1>5, <1>7, <2>1, <2>11
<1>9. n \in Nat \ {0}
  BY <1>7
<1>10. SimpleWay(ls, w, n, from, to)
  BY <1>6, <1>8, <1>9 DEF SimpleWay
<1> QED
  BY <1>10

\* A device of two links has a bridge.
LEMMA TwoLinksBridge ==
  ASSUME FabricOK, NEW d, NEW k \in Links, NEW l \in Links, Joins(k, d), Joins(l, d), k # l
  PROVE  HasBridge(d)
<1>1. PICK x \in 1..Len(fabric.links), y \in 1..Len(fabric.links) : fabric.links[x] = k /\ fabric.links[y] = l
  BY DEF Links
<1>2. PICK S : S = {j \in 1..Len(fabric.links) : Joins(fabric.links[j], d)}
  OBVIOUS
<1>3. {x, y} \in SUBSET S /\ x # y
  BY <1>1, <1>2
<1>4. IsFiniteSet(S)
  <2>1. fabric.links \in Seq([a : Machines, b : Machines, vlan : Nat, vni : Nat])
    BY FabricsAssumption DEF FabricOK
  <2>2. Len(fabric.links) \in Nat
    BY <2>1
  <2>3. IsFiniteSet(1..Len(fabric.links))
    BY <2>2, FS_Interval
  <2>4. S \in SUBSET (1..Len(fabric.links))
    BY <1>2
  <2> QED
    BY <2>3, <2>4, FS_Subset
<1>5. Cardinality({x, y}) = 2
  <2>1. IsFiniteSet({x}) /\ Cardinality({x}) = 1
    BY FS_Singleton
  <2>2. Cardinality({x} \cup {y}) = 2
    <3>1. Cardinality({x} \cup {y}) = IF y \in {x} THEN Cardinality({x}) ELSE Cardinality({x}) + 1
      BY <2>1, FS_AddElement
    <3>2. y \notin {x}
      BY <1>3
    <3>3. Cardinality({x} \cup {y}) = 1 + 1
      BY <2>1, <3>1, <3>2
    <3>4. 1 + 1 = 2
      OBVIOUS
    <3> QED
      BY <3>3, <3>4, Zenon
  <2>3. {x} \cup {y} = {x, y}
    OBVIOUS
  <2> QED
    BY <2>2, <2>3
<1>6. Cardinality(S) \in Nat /\ Cardinality({x, y}) <= Cardinality(S)
  BY <1>3, <1>4, FS_Subset, FS_CardinalityType
<1>7. Cardinality(S) > 1
  BY <1>5, <1>6
<1> QED
  BY <1>2, <1>7 DEF HasBridge

\* The devices between the ends of a simple way have bridges.
LEMMA MiddleBridges ==
  ASSUME FabricOK, NEW ls \in SUBSET Links, NEW from \in Machines, NEW to, NEW n, NEW w, SimpleWay(ls, w, n, from, to), NEW i \in 1..n - 1
  PROVE  HasBridge(w[i])
<1>1. n \in Nat \ {0} /\ \A j \in 1..n : Joined(ls, w[j - 1], w[j])
  BY DEF SimpleWay, Way
<1>2. i \in 1..n /\ i + 1 \in 1..n /\ i - 1 \in 0..n /\ i + 1 \in 0..n /\ i - 1 < i + 1 /\ (i + 1) - 1 = i
  BY <1>1
<1>3. Joined(ls, w[i], w[i - 1]) /\ Joined(ls, w[i], w[i + 1])
  <2>1. Joined(ls, w[i - 1], w[i]) /\ Joined(ls, w[(i + 1) - 1], w[i + 1])
    BY <1>1, <1>2
  <2> QED
    BY <1>2, <2>1, LinksJoin
<1>4. w[i - 1] # w[i + 1]
  BY <1>2 DEF SimpleWay
<1>5. PICK k \in ls, l \in ls : Joins(k, w[i]) /\ Joins(l, w[i]) /\ k # l
  BY <1>3, <1>4 DEF Joined
<1> QED
  BY <1>5, TwoLinksBridge

\* Where a bridge and an endpoint pass packets on to.
LEMMA Beside ==
  ASSUME FabricOK, NEW d, NEW e, Joined(Plain, d, e)
  PROVE  /\ Attached(d)
         /\ Node(e) \in Adjacent(Bridge(d)) /\ Endpoint(d) \in Adjacent(Bridge(d))
         /\ Adjacent(Endpoint(d)) = IF HasBridge(d) THEN {Bridge(d)} ELSE {Node(Peer(l, d)) : l \in {k \in Links : Joins(k, d)}}
<1>1. Attached(d)
  BY DEF Attached, Joined
<1>2. Bridge(d).dev = d /\ Bridge(d).bridge = TRUE /\ Endpoint(d).dev = d /\ Endpoint(d).bridge = FALSE
  BY DEF Bridge, Endpoint
<1>3. Node(e) \in {Node(Peer(l, d)) : l \in {k \in Links : Joins(k, d)}}
  BY DEF Joined, Plain
<1>4. Adjacent(Bridge(d)) = {Node(Peer(l, d)) : l \in {k \in Links : Joins(k, d)}} \cup {Endpoint(d)}
  BY <1>1, <1>2, Zenon DEF Adjacent
<1>5. Adjacent(Endpoint(d)) = IF HasBridge(d) THEN {Bridge(d)} ELSE {Node(Peer(l, d)) : l \in {k \in Links : Joins(k, d)}}
  BY <1>1, <1>2, Zenon DEF Adjacent
<1> QED
  BY <1>1, <1>3, <1>4, <1>5

Packets == [at : [dev : Machines, bridge : BOOLEAN], kind : {"request", "reply"}, vlan : Nat, path : SUBSET Machines, ttl : Nat]

\* Without VTEPs a bridge floods what it has not seen.
LEMMA BridgeFloods ==
  ASSUME PlainNet, NEW p \in Packets
  PROVE  BridgeTransfer(p) = IF p.at.dev \in p.path THEN {} ELSE Flood([p EXCEPT !.path = @ \cup {p.at.dev}])
<1>1. ~ IsVtep(p.at.dev)
  BY DEF PlainNet, IsVtep
<1> QED
  BY <1>1 DEF BridgeTransfer

\* What a flood makes of a packet, and where.
LEMMA Flooded ==
  ASSUME NEW p \in Packets, NEW q, q \in Flood(p)
  PROVE  \E n \in Adjacent(p.at) : q = [p EXCEPT !.at = n]
BY DEF Flood

\* A packet that is on a simple way to the device that is pinged, or with it; or the reply, on
\* its way to an endpoint.
OnWay(p) ==
  /\ p \in Packets /\ p.ttl = InitialTTL
  /\ \/ /\ p.kind = "request"
        /\ \E n, w : SimpleWay(Links, w, n, pinger, pinged) /\ \E i \in 0..n :
             /\ p.at = Node(w[i]) /\ (i = 0 => HasBridge(w[0]))
             /\ \A j \in i..n : w[j] \notin p.path
     \/ p.kind = "request" /\ p.at = Endpoint(pinged)
     \/ p.kind = "reply" /\ p.at.bridge /\ p.path = {} /\ \E e : Joined(Links, p.at.dev, e)
     \/ p.kind = "reply" /\ ~ p.at.bridge

OneComes == answered \/ \E p \in inflight : OnWay(p)

\* Every packet is where links lead from the pinging device, and replies are of the device
\* that is pinged.
OnesThatCame ==
  /\ inflight \subseteq Packets
  /\ \A p \in inflight : HasWay(Links, pinger, p.at.dev) /\ (p.kind = "reply" => HasWay(Links, pinger, pinged))
  /\ answered => HasWay(Links, pinger, pinged)

PlainInv ==
  /\ FabricOK /\ answered \in BOOLEAN
  /\ PlainNet => OnesThatCame /\ (HasWay(Links, pinger, pinged) => OneComes)

Nodes == [dev : Machines, bridge : BOOLEAN]

\* From a node links lead on to nodes.
LEMMA AdjacentNodes ==
  ASSUME FabricOK, NEW n \in Nodes, HasWay(Links, pinger, n.dev), NEW m \in Adjacent(n)
  PROVE  m \in Nodes /\ HasWay(Links, pinger, m.dev)
<1>1. (\E l \in Links : Joins(l, n.dev) /\ m = Node(Peer(l, n.dev))) \/ m = Endpoint(n.dev) \/ m = Bridge(n.dev)
  BY DEF Adjacent
<1>2. CASE m = Endpoint(n.dev) \/ m = Bridge(n.dev)
  <2>1. PICK d \in Machines : d = n.dev
    BY DEF Nodes
  <2>2. PICK b \in BOOLEAN : m = [dev |-> d, bridge |-> b]
    BY <1>2, <2>1, Zenon DEF Endpoint, Bridge
  <2>3. m.dev = d /\ m \in Nodes
    BY <2>2 DEF Nodes
  <2> QED
    BY <2>1, <2>3
<1>3. CASE \E l \in Links : Joins(l, n.dev) /\ m = Node(Peer(l, n.dev))
  <2>1. PICK e : Joined(Links, n.dev, e) /\ m = Node(e)
    BY <1>3 DEF Joined
  <2>2. HasWay(Links, pinger, e) /\ e \in Machines
    <3>1. pinger \in Machines /\ Links \in SUBSET Links
      BY DEF FabricOK
    <3> QED
      BY <2>1, <3>1, WayOn, LinksJoin
  <2>3. HasBridge(e) \in BOOLEAN
    BY DEF HasBridge
  <2> QED
    BY <2>1, <2>2, <2>3 DEF Node, Nodes
<1> QED
  BY <1>1, <1>2, <1>3

\* What is made of a packet is a packet further on, and a reply only where the ping goes to.
LEMMA HandledPackets ==
  ASSUME FabricOK, PlainNet, NEW p \in Packets, HasWay(Links, pinger, p.at.dev), NEW q \in Handled(p)
  PROVE  q \in Packets /\ HasWay(Links, pinger, q.at.dev) /\ (q.kind = "reply" => p.kind = "reply" \/ p.at.dev = pinged)
<1>1. p.at \in Nodes
  BY DEF Packets, Nodes
<1>2. ASSUME NEW r \in Packets, r.at = p.at, r.kind = p.kind, q \in Flood(r) PROVE q \in Packets /\ HasWay(Links, pinger, q.at.dev) /\ q.kind = p.kind
  <2>1. PICK n \in Adjacent(p.at) : q = [r EXCEPT !.at = n]
    BY <1>2, Flooded
  <2>2. n \in Nodes /\ HasWay(Links, pinger, n.dev)
    BY <1>1, AdjacentNodes
  <2>3. q.at = n /\ q.kind = p.kind
    BY <1>2, <2>1 DEF Packets
  <2> QED
    BY <2>1, <2>2, <2>3 DEF Packets, Nodes
<1>3. CASE p.at.bridge
  <2>1. q \in IF p.at.dev \in p.path THEN {} ELSE Flood([p EXCEPT !.path = @ \cup {p.at.dev}])
    BY <1>3, BridgeFloods DEF Handled
  <2>2. PICK r : r = [p EXCEPT !.path = @ \cup {p.at.dev}]
    OBVIOUS
  <2>3. r \in Packets /\ r.at = p.at /\ r.kind = p.kind
    BY <2>2 DEF Packets
  <2>4. q \in Flood(r)
    BY <2>1, <2>2
  <2> QED
    BY <1>2, <2>3, <2>4
<1>4. CASE ~ p.at.bridge
  <2>1. q \in React(p)
    BY <1>4 DEF Handled
  <2>2. CASE q \in Flood([p EXCEPT !.ttl = @ - 1]) /\ p.ttl > 1
    <3>1. PICK r : r = [p EXCEPT !.ttl = @ - 1]
      OBVIOUS
    <3>2. r \in Packets /\ r.at = p.at /\ r.kind = p.kind
      BY <2>2, <3>1 DEF Packets
    <3> QED
      BY <1>2, <2>2, <3>1, <3>2
  <2>3. CASE q \in EchoReply(p) /\ p.at.dev = pinged
    <3>1. PICK n \in Adjacent(p.at) : q = [at |-> n, kind |-> "reply", vlan |-> p.vlan, path |-> {}, ttl |-> InitialTTL]
      BY <2>3 DEF EchoReply
    <3>2. n \in Nodes /\ HasWay(Links, pinger, n.dev)
      BY <1>1, AdjacentNodes
    <3> QED
      BY <2>3, <3>1, <3>2, TTLAssumption DEF Packets, Nodes
  <2>4. (q \in Flood([p EXCEPT !.ttl = @ - 1]) /\ p.ttl > 1) \/ (q \in EchoReply(p) /\ p.at.dev = pinged)
    <3>1. p.ttl \in Nat
      BY DEF Packets
    <3> QED
      BY <2>1, <3>1 DEF React
  <2> QED
    BY <2>2, <2>3, <2>4
<1> QED
  BY <1>3, <1>4

\* The packet on its way makes one, or is the answer.
LEMMA OneGoesOn ==
  ASSUME FabricOK, PlainNet, answered \in BOOLEAN, ~ answered, NEW p, OnWay(p), HasWay(Links, pinger, pinged)
  PROVE  (p.kind = "reply" /\ ~ p.at.bridge /\ p.ttl > 1) \/ \E q \in Handled(p) : OnWay(q)
<1>0. p \in Packets /\ p.ttl = InitialTTL /\ InitialTTL > 1 /\ InitialTTL \in Nat
  BY TTLAssumption DEF OnWay
<1>1. PICK n0, w0 : SimpleWay(Links, w0, n0, pinger, pinged)
  <2>1. pinger \in Machines /\ pinged \in Machines /\ pinger # pinged /\ Links \in SUBSET Links
    BY DEF FabricOK
  <2> QED
    BY <2>1, HasSimpleWay
<1>2. PICK e : Joined(Links, pinged, e)
  <2>1. n0 \in 1..n0 /\ w0[n0] = pinged /\ Joined(Links, w0[n0 - 1], w0[n0])
    BY <1>1 DEF SimpleWay, Way
  <2> QED
    BY <2>1, LinksJoin
<1>3. CASE p.kind = "request" /\ p.at = Endpoint(pinged)
  <2>1. Handled(p) = EchoReply(p)
    BY <1>0, <1>3 DEF Handled, React, Endpoint
  <2>2. PICK m, d : m \in Adjacent(Endpoint(pinged)) /\ m.dev = d /\ (\E c : Joined(Links, d, c)) /\ m \in Nodes
    <3>1. CASE HasBridge(pinged)
      <4>1. Bridge(pinged) \in Adjacent(Endpoint(pinged))
        BY <1>2, <3>1, Beside DEF PlainNet
      <4>2. Bridge(pinged).dev = pinged /\ Bridge(pinged) \in Nodes
        BY DEF Bridge, Nodes, FabricOK
      <4> QED
        BY <1>2, <4>1, <4>2
    <3>2. CASE ~ HasBridge(pinged)
      <4>1. PICK l \in Links : Joins(l, pinged) /\ Peer(l, pinged) = e
        BY <1>2 DEF Joined
      <4>2. Node(e) \in Adjacent(Endpoint(pinged))
        BY <1>2, <3>2, <4>1, Beside DEF PlainNet
      <4>3. Joined(Links, e, pinged) /\ e \in Machines /\ HasBridge(e) \in BOOLEAN
        BY <1>2, LinksJoin DEF HasBridge
      <4>4. Node(e).dev = e /\ Node(e) \in Nodes
        BY <4>3 DEF Node, Nodes
      <4> QED
        BY <4>2, <4>3, <4>4
    <3> QED
      BY <3>1, <3>2
  <2>3. PICK q : q = [at |-> m, kind |-> "reply", vlan |-> p.vlan, path |-> {}, ttl |-> InitialTTL]
    OBVIOUS
  <2>4. q \in Handled(p)
    BY <1>3, <2>1, <2>2, <2>3 DEF EchoReply
  <2>5. q \in Packets
    BY <1>0, <2>2, <2>3 DEF Packets, Nodes
  <2>6. q.at = m /\ q.kind = "reply" /\ q.path = {} /\ q.ttl = InitialTTL
    BY <2>3
  <2>7. OnWay(q)
    BY <2>2, <2>5, <2>6 DEF OnWay
  <2> QED
    BY <2>4, <2>7
<1>4. CASE p.kind = "reply" /\ p.at.bridge /\ p.path = {} /\ \E c : Joined(Links, p.at.dev, c)
  <2>1. PICK d, r : d = p.at.dev /\ r = [p EXCEPT !.path = @ \cup {p.at.dev}]
    OBVIOUS
  <2>2. p.at = Bridge(d) /\ d \in Machines
    BY <1>0, <1>4, <2>1 DEF Packets, Bridge
  <2>3. Handled(p) = Flood(r)
    BY <1>0, <1>4, <2>1, BridgeFloods DEF Handled
  <2>4. r \in Packets /\ r.at = p.at /\ r.kind = "reply" /\ r.ttl = InitialTTL
    BY <1>0, <1>4, <2>1 DEF Packets
  <2>5. PICK q : q = [r EXCEPT !.at = Endpoint(d)]
    OBVIOUS
  <2>6. Endpoint(d) \in Adjacent(p.at)
    BY <1>4, <2>1, <2>2, Beside DEF PlainNet
  <2>7. q \in Handled(p)
    BY <2>3, <2>4, <2>5, <2>6 DEF Flood
  <2>8. q \in Packets /\ q.kind = "reply" /\ q.ttl = InitialTTL /\ ~ q.at.bridge
    BY <2>2, <2>4, <2>5 DEF Packets, Endpoint
  <2> QED
    BY <2>7, <2>8 DEF OnWay
<1>5. CASE p.kind = "reply" /\ ~ p.at.bridge
  BY <1>0, <1>5
<1>6. CASE /\ p.kind = "request"
           /\ \E n, w : SimpleWay(Links, w, n, pinger, pinged) /\ \E i \in 0..n :
                /\ p.at = Node(w[i]) /\ (i = 0 => HasBridge(w[0]))
                /\ \A j \in i..n : w[j] \notin p.path
  <2>1. PICK n, w, i : /\ SimpleWay(Links, w, n, pinger, pinged) /\ i \in 0..n
                       /\ p.at = Node(w[i]) /\ (i = 0 => HasBridge(w[0]))
                       /\ \A j \in i..n : w[j] \notin p.path
    BY <1>6
  <2>2. n \in Nat \ {0} /\ w[n] = pinged /\ \A j \in 1..n : Joined(Links, w[j - 1], w[j])
    BY <2>1 DEF SimpleWay, Way
  <2>3. CASE i = n /\ ~ HasBridge(pinged)
    <3>1. HasBridge(pinged) = FALSE
      BY <2>3 DEF HasBridge
    <3>2. p.at = Endpoint(pinged)
      BY <2>1, <2>2, <2>3, <3>1 DEF Node, Endpoint
    <3> QED
      BY <1>3, <1>6, <3>2
  <2>4. CASE i # n \/ HasBridge(pinged)
    <3>1. HasBridge(w[i])
      <4>1. i = 0 \/ i = n \/ i \in 1..n - 1
        BY <2>1, <2>2
      <4> QED
        <5>1. pinger \in Machines /\ pinged \in Machines /\ pinger # pinged /\ Links \in SUBSET Links
          BY DEF FabricOK
        <5>2. i \in 1..n - 1 => HasBridge(w[i])
          BY <2>1, <5>1, MiddleBridges
        <5> QED
          BY <2>1, <2>2, <2>4, <4>1, <5>2
    <3>2. p.at = Bridge(w[i]) /\ p.at.dev = w[i] /\ p.at.bridge = TRUE
      <4>1. HasBridge(w[i]) = TRUE
        BY <3>1 DEF HasBridge
      <4>2. p.at = Bridge(w[i])
        BY <2>1, <4>1, Zenon DEF Node, Bridge
      <4> QED
        BY <4>2 DEF Bridge
    <3>3. PICK r : r = [p EXCEPT !.path = @ \cup {p.at.dev}]
      OBVIOUS
    <3>4. Handled(p) = Flood(r)
      <4>1. w[i] \notin p.path
        BY <2>1
      <4> QED
        BY <1>0, <3>2, <3>3, <4>1, BridgeFloods DEF Handled
    <3>5. r \in Packets /\ r.at = p.at /\ r.kind = "request" /\ r.ttl = InitialTTL /\ r.path = p.path \cup {w[i]}
      BY <1>0, <1>6, <3>2, <3>3 DEF Packets
    <3>6. CASE i = n
      <4>1. PICK q : q = [r EXCEPT !.at = Endpoint(pinged)]
        OBVIOUS
      <4>2. Endpoint(pinged) \in Adjacent(p.at)
        BY <1>2, <2>2, <3>2, <3>6, Beside DEF PlainNet
      <4>3. q \in Handled(p)
        BY <3>4, <3>5, <4>1, <4>2 DEF Flood
      <4>4. q \in Packets /\ q.kind = "request" /\ q.ttl = InitialTTL /\ q.at = Endpoint(pinged)
        BY <3>5, <4>1 DEF Packets, Endpoint, FabricOK
      <4> QED
        BY <4>3, <4>4 DEF OnWay
    <3>7. CASE i # n
      <4>1. i + 1 \in 1..n /\ i + 1 \in 0..n /\ (i + 1) - 1 = i /\ i + 1 # 0
        BY <2>1, <2>2, <3>7
      <4>2. Joined(Links, w[i], w[i + 1])
        BY <2>2, <4>1
      <4>3. PICK q : q = [r EXCEPT !.at = Node(w[i + 1])]
        OBVIOUS
      <4>4. Node(w[i + 1]) \in Adjacent(p.at)
        BY <3>2, <4>2, Beside DEF PlainNet
      <4>5. q \in Handled(p)
        BY <3>4, <3>5, <4>3, <4>4 DEF Flood
      <4>6. w[i + 1] \in Machines /\ HasBridge(w[i + 1]) \in BOOLEAN
        BY <4>2, LinksJoin DEF HasBridge
      <4>7. /\ q \in Packets /\ q.kind = "request" /\ q.ttl = InitialTTL /\ q.at = Node(w[i + 1])
            /\ q.path = p.path \cup {w[i]}
        BY <3>5, <4>3, <4>6 DEF Packets, Node
      <4>8. ASSUME NEW j \in i + 1..n PROVE w[j] \notin q.path
        <5>1. j \in i..n /\ j \in 0..n /\ i < j
          BY <2>1, <2>2
        <5>2. w[i] # w[j]
          BY <2>1, <5>1 DEF SimpleWay
        <5> QED
          BY <2>1, <4>7, <5>1, <5>2
      <4> QED
        BY <2>1, <4>1, <4>5, <4>7, <4>8 DEF OnWay
    <3> QED
      BY <3>6, <3>7
  <2> QED
    BY <2>3, <2>4
<1> QED
  BY <1>3, <1>4, <1>5, <1>6 DEF OnWay

\* What stays as it is while the network and the ends do.
LEMMA WaysStay ==
  ASSUME UNCHANGED <<fabric, pinger, pinged>>
  PROVE  /\ PlainNet' = PlainNet /\ FabricOK' = FabricOK
         /\ \A d : HasWay(Links, pinger, d)' <=> HasWay(Links, pinger, d)
         /\ \A p : OnWay(p)' <=> OnWay(p)
<1>1. /\ Links' = Links /\ Plain' = Plain
      /\ \A d : HasBridge(d)' <=> HasBridge(d)
  BY DEF Links, Plain, HasBridge
<1>2. \A d : Node(d)' = Node(d)
  BY DEF Node, HasBridge
<1>3. \A d, e : Joined(Links, d, e)' <=> Joined(Links, d, e)
  BY <1>1 DEF Joined
<1>4. \A w, n, d : Way(Links, w, n, pinger, d)' <=> Way(Links, w, n, pinger, d)
  BY <1>3 DEF Way
<1>5. \A d : HasWay(Links, pinger, d)' <=> HasWay(Links, pinger, d)
  BY <1>4 DEF HasWay
<1>6. \A w, n : SimpleWay(Links, w, n, pinger, pinged)' <=> SimpleWay(Links, w, n, pinger, pinged)
  BY <1>4 DEF SimpleWay
<1>7. \A p : OnWay(p)' <=> OnWay(p)
  BY <1>1, <1>2, <1>3, <1>6 DEF OnWay
<1>8. PlainNet' = PlainNet /\ FabricOK' = FabricOK
  BY <1>1 DEF PlainNet, FabricOK
<1> QED
  BY <1>5, <1>7, <1>8

\* The ping begins with a request next to its endpoint.
LEMMA InitPlain == FloodInit => PlainInv
<1> SUFFICES ASSUME FloodInit PROVE PlainInv
  OBVIOUS
<1>1. FabricOK /\ answered = FALSE
  BY MachinesAssumption DEF FloodInit, FabricOK
<1>2. inflight = {[at |-> n, kind |-> "request", vlan |-> 0, path |-> {}, ttl |-> InitialTTL] : n \in Adjacent(Endpoint(pinger))}
  BY DEF FloodInit
<1>3. OnesThatCame
  <2>1. Endpoint(pinger) \in Nodes /\ Endpoint(pinger).dev = pinger
    BY <1>1 DEF Endpoint, Nodes, FabricOK
  <2>2. ASSUME NEW p \in inflight PROVE p \in Packets /\ HasWay(Links, pinger, p.at.dev) /\ p.kind # "reply"
    <3>1. PICK n \in Adjacent(Endpoint(pinger)) : p = [at |-> n, kind |-> "request", vlan |-> 0, path |-> {}, ttl |-> InitialTTL]
      BY <1>2
    <3>2. n \in Nodes /\ HasWay(Links, pinger, n.dev)
      <4>1. HasWay(Links, pinger, Endpoint(pinger).dev)
        BY <1>1, <2>1, WayHere DEF FabricOK
      <4> QED
        BY <1>1, <2>1, <4>1, AdjacentNodes
    <3>3. InitialTTL \in Nat
      BY TTLAssumption
    <3> QED
      BY <3>1, <3>2, <3>3 DEF Packets, Nodes
  <2> QED
    BY <1>1, <2>2 DEF OnesThatCame
<1>4. ASSUME PlainNet, HasWay(Links, pinger, pinged) PROVE OneComes
  <2>1. PICK n, w : SimpleWay(Links, w, n, pinger, pinged)
    <3>1. pinger \in Machines /\ pinged \in Machines /\ pinger # pinged /\ Links \in SUBSET Links
      BY <1>1 DEF FabricOK
    <3> QED
      BY <1>1, <1>4, <3>1, HasSimpleWay
  <2>2. n \in Nat \ {0} /\ w \in [0..n -> Machines] /\ w[0] = pinger /\ \A j \in 1..n : Joined(Links, w[j - 1], w[j])
    BY <2>1 DEF SimpleWay, Way
  <2>3. Joined(Links, pinger, w[1]) /\ 1 \in 0..n /\ 0 \in 0..n
    <3>1. 1 \in 1..n /\ 1 - 1 = 0
      BY <2>2
    <3>2. Joined(Links, w[1 - 1], w[1])
      BY <2>2, <3>1
    <3> QED
      BY <2>2, <3>1, <3>2
  <2>4. ASSUME NEW i \in {0, 1}, Node(w[i]) \in Adjacent(Endpoint(pinger)), i = 0 => HasBridge(w[0]) PROVE OneComes
    <3>1. PICK p : p = [at |-> Node(w[i]), kind |-> "request", vlan |-> 0, path |-> {}, ttl |-> InitialTTL]
      OBVIOUS
    <3>2. p \in inflight
      BY <1>2, <2>4, <3>1
    <3>3. p \in Packets /\ p.ttl = InitialTTL /\ p.kind = "request" /\ p.path = {} /\ p.at = Node(w[i])
      BY <1>3, <3>1, <3>2 DEF OnesThatCame
    <3>4. i \in 0..n
      BY <2>3, <2>4
    <3>5. OnWay(p)
      BY <2>1, <2>4, <3>3, <3>4 DEF OnWay
    <3> QED
      BY <3>2, <3>5 DEF OneComes
  <2>5. CASE HasBridge(pinger)
    <3>1. Node(w[0]) = Bridge(pinger)
      <4>1. HasBridge(pinger) = TRUE
        BY <2>5 DEF HasBridge
      <4> QED
        BY <2>2, <4>1, Zenon DEF Node, Bridge
    <3>2. Bridge(pinger) \in Adjacent(Endpoint(pinger))
      BY <1>1, <1>4, <2>3, <2>5, Beside DEF PlainNet
    <3> QED
      BY <2>2, <2>4, <2>5, <3>1, <3>2
  <2>6. CASE ~ HasBridge(pinger)
    <3>1. PICK l \in Links : Joins(l, pinger) /\ Peer(l, pinger) = w[1]
      BY <2>3 DEF Joined
    <3>2. Node(w[1]) \in Adjacent(Endpoint(pinger))
      BY <1>1, <1>4, <2>3, <2>6, <3>1, Beside DEF PlainNet
    <3> QED
      BY <2>4, <3>2
  <2> QED
    BY <2>5, <2>6
<1> QED
  BY <1>1, <1>3, <1>4 DEF PlainInv

\* Each hop of the packets under way.
LEMMA HopPlain == ASSUME PlainInv, [Hop]_floodVars PROVE PlainInv'
<1>1. UNCHANGED <<fabric, pinger, pinged>>
  BY DEF Hop, floodVars
<1>2. /\ PlainNet' = PlainNet /\ FabricOK' = FabricOK
      /\ \A d : HasWay(Links, pinger, d)' <=> HasWay(Links, pinger, d)
      /\ \A p : OnWay(p)' <=> OnWay(p)
  BY <1>1, WaysStay
<1>3. CASE UNCHANGED floodVars
  <2>1. inflight' = inflight /\ answered' = answered
    BY <1>3 DEF floodVars
  <2> QED
    BY <1>1, <1>2, <2>1 DEF PlainInv, OnesThatCame, OneComes
<1>4. CASE Hop
  <2>1. /\ inflight' = UNION {Handled(p) : p \in inflight}
        /\ answered' = (answered \/ \E p \in inflight : p.kind = "reply" /\ ~ p.at.bridge /\ p.ttl > 1)
    BY <1>4 DEF Hop
  <2>2. answered \in BOOLEAN /\ FabricOK
    BY DEF PlainInv
  <2>3. answered' \in BOOLEAN
    BY <2>1, <2>2
  <2>4. answered' <=> answered \/ \E p \in inflight : p.kind = "reply" /\ ~ p.at.bridge /\ p.ttl > 1
    BY <2>1
  <2>5. ASSUME PlainNet PROVE OnesThatCame' /\ (HasWay(Links, pinger, pinged) => OneComes')
    <3>1. OnesThatCame
      BY <2>5 DEF PlainInv
    <3>2. ASSUME NEW q \in inflight' PROVE q \in Packets /\ HasWay(Links, pinger, q.at.dev) /\ (q.kind = "reply" => HasWay(Links, pinger, pinged))
      <4>1. PICK p \in inflight : q \in Handled(p)
        BY <2>1, <3>2
      <4>2. p \in Packets /\ HasWay(Links, pinger, p.at.dev) /\ (p.kind = "reply" => HasWay(Links, pinger, pinged))
        BY <3>1 DEF OnesThatCame
      <4>3. q \in Packets /\ HasWay(Links, pinger, q.at.dev) /\ (q.kind = "reply" => p.kind = "reply" \/ p.at.dev = pinged)
        BY <2>2, <2>5, <4>1, <4>2, HandledPackets
      <4> QED
        BY <4>2, <4>3
    <3>3. answered' => HasWay(Links, pinger, pinged)
      BY <2>4, <3>1 DEF OnesThatCame
    <3>4. OnesThatCame'
      <4>1. HasWay(Links, pinger, pinged') <=> HasWay(Links, pinger, pinged)
        BY <1>1
      <4>2. \A q \in inflight' : q \in Packets /\ HasWay(Links, pinger, q.at.dev) /\ (q.kind = "reply" => HasWay(Links, pinger, pinged))
        BY <3>2
      <4>3. HasWay(Links, pinger, pinged)' <=> HasWay(Links, pinger, pinged)
        BY <1>1 DEF HasWay, Way, Joined, Links
      <4> QED
        BY <1>2, <3>3, <4>2, <4>3 DEF OnesThatCame
    <3>5. ASSUME HasWay(Links, pinger, pinged) PROVE OneComes'
      <4>1. OneComes
        BY <2>5, <3>5 DEF PlainInv
      <4>2. CASE answered
        BY <2>4, <4>2 DEF OneComes
      <4>3. CASE ~ answered
        <5>1. PICK p \in inflight : OnWay(p)
          BY <4>1, <4>3 DEF OneComes
        <5>2. CASE p.kind = "reply" /\ ~ p.at.bridge /\ p.ttl > 1
          BY <2>4, <5>2 DEF OneComes
        <5>3. CASE \E q \in Handled(p) : OnWay(q)
          <6>1. PICK q \in Handled(p) : OnWay(q)
            BY <5>3
          <6>2. q \in inflight' /\ OnWay(q)'
            BY <1>2, <2>1, <6>1
          <6> QED
            BY <6>2 DEF OneComes
        <5> QED
          BY <2>2, <2>5, <3>5, <4>3, <5>1, <5>2, <5>3, OneGoesOn
      <4> QED
        BY <4>2, <4>3
    <3> QED
      BY <3>4, <3>5
  <2>6. HasWay(Links, pinger, pinged)' <=> HasWay(Links, pinger, pinged)
    BY <1>1 DEF HasWay, Way, Joined, Links
  <2> QED
    BY <1>2, <2>2, <2>3, <2>5, <2>6 DEF PlainInv
<1> QED
  BY <1>3, <1>4

\* In every network without VLANs and tunnels, whatever loops it has, a ping is answered when
\* its packets are gone exactly where a path of links joins its ends: a packet on a shortest
\* way meets no bridge it has been at, and no packet leaves what links lead to.
THEOREM PlainPingsConnect == FloodSpec => []PlainPingIsConnectivity
<1>1. PlainInv => PlainPingIsConnectivity
  <2> SUFFICES ASSUME PlainInv, inflight = {}, PlainNet PROVE answered <=> pinged \in Reach(Links, pinger)
    BY DEF PlainPingIsConnectivity, FloodOver, PlainNet
  <2>1. FabricOK /\ (answered => HasWay(Links, pinger, pinged)) /\ (HasWay(Links, pinger, pinged) => answered)
    BY DEF PlainInv, OnesThatCame, OneComes
  <2>2. pinged \in Reach(Links, pinger) <=> HasWay(Links, pinger, pinged)
    <3>1. pinger \in Machines /\ pinged \in Machines /\ pinger # pinged /\ Links \in SUBSET Links
      BY <2>1 DEF FabricOK
    <3> QED
      BY <2>1, <3>1, ReachIsWays
  <2> QED
    BY <2>1, <2>2
<1>2. PlainInv /\ [Hop]_floodVars => PlainInv'
  BY HopPlain
<1> QED
  BY InitPlain, <1>1, <1>2, PTL DEF FloodSpec

-----------------------------------------------------------------------------
(* The ping through an overlay network.                                    *)

\* A way leads on from where another ends.
LEMMA WaysFollow ==
  ASSUME FabricOK, NEW ls \in SUBSET Links, NEW from \in Machines, NEW d, NEW to, NEW n, NEW w,
         n \in Nat, HasWay(ls, from, d), Way(ls, w, n, d, to)
  PROVE  \A i \in 0..n : HasWay(ls, from, w[i])
<1> SUFFICES ASSUME NEW m \in 0..n PROVE HasWay(ls, from, w[m])
  OBVIOUS
<1>1. w[0] = d /\ \A i \in 1..n : Joined(ls, w[i - 1], w[i])
  BY DEF Way
<1>2. PICK T : T = {i \in 0..n : HasWay(ls, from, w[i])}
  OBVIOUS
<1>3. 0 \in T
  BY <1>1, <1>2
<1>4. ASSUME NEW i \in 1..m, i - 1 \in T PROVE i \in T
  <2>1. i \in 1..n /\ i \in 0..n
    OBVIOUS
  <2>2. HasWay(ls, from, w[i - 1]) /\ Joined(ls, w[i - 1], w[i])
    BY <1>1, <1>2, <1>4, <2>1
  <2>3. HasWay(ls, from, w[i])
    BY <2>2, WayOn
  <2> QED
    BY <1>2, <2>1, <2>3
<1>5. m \in Nat
  OBVIOUS
<1>6. m \in T
  BY <1>3, <1>4, <1>5, HoldsTo
<1> QED
  BY <1>2, <1>6

\* Two ways make one.
LEMMA WaysAdd ==
  ASSUME FabricOK, NEW ls \in SUBSET Links, NEW from \in Machines, NEW d, NEW to, HasWay(ls, from, d), HasWay(ls, d, to)
  PROVE  HasWay(ls, from, to)
<1>1. PICK n, w : n \in Nat /\ Way(ls, w, n, d, to)
  BY DEF HasWay
<1>2. n \in 0..n /\ w[n] = to
  BY <1>1 DEF Way
<1>3. \A i \in 0..n : HasWay(ls, from, w[i])
  BY <1>1, WaysFollow
<1> QED
  BY <1>2, <1>3

\* A way leads back as well.
LEMMA WaysTurn ==
  ASSUME FabricOK, NEW ls \in SUBSET Links, NEW from \in Machines, NEW to, HasWay(ls, from, to)
  PROVE  to \in Machines /\ HasWay(ls, to, from)
<1>1. PICK n, w : n \in Nat /\ Way(ls, w, n, from, to)
  BY DEF HasWay
<1>2. w \in [0..n -> Machines] /\ w[0] = from /\ w[n] = to /\ \A i \in 1..n : Joined(ls, w[i - 1], w[i])
  BY <1>1 DEF Way
<1>3. PICK T : T = {i \in 0..n : HasWay(ls, w[i], from)}
  OBVIOUS
<1>4. 0 \in T
  BY <1>1, <1>2, <1>3, WayHere
<1>5. ASSUME NEW i \in 1..n, i - 1 \in T PROVE i \in T
  <2>1. i \in 0..n /\ i - 1 \in 0..n /\ w[i] \in Machines /\ w[i - 1] \in Machines
    BY <1>1, <1>2
  <2>2. Joined(ls, w[i], w[i - 1])
    BY <1>2, LinksJoin
  <2>3. HasWay(ls, w[i], w[i])
    BY <2>1, WayHere
  <2>4. HasWay(ls, w[i], w[i - 1])
    BY <2>1, <2>2, <2>3, WayOn
  <2>5. HasWay(ls, w[i - 1], from)
    BY <1>3, <1>5
  <2>6. HasWay(ls, w[i], from)
    BY <2>1, <2>4, <2>5, WaysAdd
  <2> QED
    BY <1>3, <2>1, <2>6
<1>6. n \in T
  BY <1>1, <1>4, <1>5, HoldsTo
<1>7. n \in 0..n
  BY <1>1
<1> QED
  BY <1>2, <1>3, <1>6, <1>7

\* Where two ways from a device lead to a way joins.
LEMMA WaysMeet ==
  ASSUME FabricOK, NEW ls \in SUBSET Links, NEW from \in Machines, NEW d, NEW e, HasWay(ls, from, d), HasWay(ls, from, e)
  PROVE  HasWay(ls, d, e)
<1>1. d \in Machines /\ HasWay(ls, d, from)
  BY WaysTurn
<1> QED
  BY <1>1, WaysAdd

\* A way that leaves what plain links join leaves it by a tunnel.
LEMMA TunnelLeaves ==
  ASSUME FabricOK, NEW from \in Machines, NEW to, HasWay(Links, from, to), ~ HasWay(Plain, from, to)
  PROVE  \E l \in Links : l.vni > 0 /\ (HasWay(Plain, from, l.a) \/ HasWay(Plain, from, l.b))
<1> SUFFICES ASSUME \A l \in Links : l.vni > 0 => ~ HasWay(Plain, from, l.a) /\ ~ HasWay(Plain, from, l.b) PROVE FALSE
  OBVIOUS
<1>1. PICK n, w : n \in Nat /\ Way(Links, w, n, from, to)
  BY DEF HasWay
<1>2. w[0] = from /\ w[n] = to /\ \A i \in 1..n : Joined(Links, w[i - 1], w[i])
  BY <1>1 DEF Way
<1>3. PICK T : T = {i \in 0..n : HasWay(Plain, from, w[i])}
  OBVIOUS
<1>4. 0 \in T
  BY <1>1, <1>2, <1>3, WayHere
<1>5. ASSUME NEW i \in 1..n, i - 1 \in T PROVE i \in T
  <2>1. PICK l \in Links : Joins(l, w[i - 1]) /\ Peer(l, w[i - 1]) = w[i]
    BY <1>2 DEF Joined
  <2>2. HasWay(Plain, from, w[i - 1])
    BY <1>3, <1>5
  <2>3. l.vni \in Nat
    BY LinksTyped
  <2>4. ~ (l.vni > 0)
    BY <2>1, <2>2 DEF Joins
  <2>5. Joined(Plain, w[i - 1], w[i]) /\ Plain \in SUBSET Links
    BY <2>1, <2>3, <2>4 DEF Plain, Joined
  <2>6. HasWay(Plain, from, w[i])
    BY <2>2, <2>5, WayOn
  <2>7. i \in 0..n
    BY <1>1
  <2> QED
    BY <1>3, <2>6, <2>7
<1>6. n \in T
  BY <1>1, <1>4, <1>5, HoldsTo
<1> QED
  BY <1>2, <1>3, <1>6

\* What is near is joined by plain links.
LEMMA NearIsJoined ==
  ASSUME FabricOK, NEW d \in Machines, NEW e, Near(d, e)
  PROVE  HasWay(Plain, d, e)
<1>1. Plain \in SUBSET Links
  BY DEF Plain
<1>2. ASSUME NEW c \in Machines, NEW x, NEW l \in Plain, Joins(l, c), Joins(l, x) PROVE HasWay(Plain, c, x)
  <2>1. HasWay(Plain, c, c)
    BY WayHere
  <2>2. CASE x = c
    BY <2>1, <2>2
  <2>3. CASE x # c
    <3>1. Joined(Plain, c, x)
      BY <1>2, <2>3 DEF Joined, Joins, Peer
    <3> QED
      BY <1>1, <2>1, <3>1, WayOn
  <2> QED
    BY <2>2, <2>3
<1>3. PICK l \in Plain : Joins(l, d) /\ (Joins(l, e) \/ \E k \in Plain : Joins(k, Peer(l, d)) /\ Joins(k, e))
  BY DEF Near
<1>4. CASE Joins(l, e)
  BY <1>2, <1>3, <1>4
<1>5. CASE \E k \in Plain : Joins(k, Peer(l, d)) /\ Joins(k, e)
  <2>1. PICK k \in Plain : Joins(k, Peer(l, d)) /\ Joins(k, e)
    BY <1>5
  <2>2. Joined(Plain, d, Peer(l, d))
    BY <1>3 DEF Joined
  <2>3. Peer(l, d) \in Machines
    BY <1>1, <2>2, LinksJoin
  <2>4. Joins(l, Peer(l, d))
    BY <1>3 DEF Joins, Peer
  <2>5. HasWay(Plain, d, Peer(l, d)) /\ HasWay(Plain, Peer(l, d), e)
    BY <1>2, <1>3, <2>1, <2>3, <2>4
  <2> QED
    BY <1>1, <2>5, WaysAdd
<1> QED
  BY <1>3, <1>4, <1>5

\* The VNI of a device is of one of its tunnels, if it has any.
LEMMA VniIs ==
  ASSUME FabricOK, NEW d
  PROVE  IF \E l \in Links : l.vni > 0 /\ Joins(l, d)
           THEN \E l \in Links : l.vni > 0 /\ Joins(l, d) /\ VniOf(d) = l.vni
           ELSE VniOf(d) = 0
<1>1. PICK H : H = {i \in 1..Len(fabric.links) : fabric.links[i].vni > 0 /\ Joins(fabric.links[i], d)}
  OBVIOUS
<1>2. VniOf(d) = (IF H = {} THEN [vni |-> 0] ELSE fabric.links[CHOOSE i \in H : \A j \in H : i <= j]).vni
  BY <1>1 DEF VniOf, FirstLink
<1>3. CASE H = {}
  <2>1. ~ \E l \in Links : l.vni > 0 /\ Joins(l, d)
    BY <1>1, <1>3 DEF Links
  <2> QED
    BY <1>2, <1>3, <2>1
<1>4. CASE H # {}
  <2>1. PICK c : c = CHOOSE i \in H : \A j \in H : i <= j
    OBVIOUS
  <2>2. c \in H
    <3>1. H \subseteq 1..Len(fabric.links) /\ Len(fabric.links) \in Nat
      BY <1>1, LinksTyped
    <3>2. \E i \in H : \A j \in H : i <= j
      BY <1>4, <3>1, HasFirst
    <3> QED
      BY <2>1, <3>2
  <2>3. VniOf(d) = fabric.links[c].vni
    BY <1>2, <1>4, <2>1
  <2>4. fabric.links[c] \in Links /\ fabric.links[c].vni > 0 /\ Joins(fabric.links[c], d)
    BY <1>1, <2>2 DEF Links
  <2> QED
    BY <2>3, <2>4
<1> QED
  BY <1>3, <1>4

\* The end of a tunnel is a VTEP of its VNI near the device that is pinged, if there is one.
LEMMA TunnelEndIs ==
  ASSUME FabricOK, ~ IsVtep(pinged), NEW v,
         \E l \in Links : l.vni = v /\ (Near(pinged, l.a) \/ Near(pinged, l.b))
  PROVE  \E l \in Links : l.vni = v /\ Near(pinged, TunnelEnd(v)) /\ TunnelEnd(v) \in {l.a, l.b}
<1> DEFINE none == [a |-> NoMachine, b |-> NoMachine]
           H == {i \in 1..Len(fabric.links) : fabric.links[i].vni = v /\ (Near(pinged, fabric.links[i].a) \/ Near(pinged, fabric.links[i].b))}
           near == IF H = {} THEN none ELSE fabric.links[CHOOSE i \in H : \A j \in H : i <= j]
           K == {i \in 1..Len(fabric.links) : fabric.links[i].vni = v}
           any == IF K = {} THEN none ELSE fabric.links[CHOOSE i \in K : \A j \in K : i <= j]
<1>1. TunnelEnd(v) = IF IsVtep(pinged) THEN pinged ELSE IF near.a = NoMachine THEN any.a ELSE IF Near(pinged, near.a) THEN near.a ELSE near.b
  BY Zenon DEF TunnelEnd, FirstLink
<1>2. H # {} /\ H \subseteq 1..Len(fabric.links)
  BY DEF Links
<1>3. PICK c : c = CHOOSE i \in H : \A j \in H : i <= j
  OBVIOUS
<1>4. c \in H
  <2> HIDE DEF H
  <2>1. Len(fabric.links) \in Nat
    BY LinksTyped
  <2>2. \E i \in H : \A j \in H : i <= j
    BY <1>2, <2>1, HasFirst
  <2> QED
    BY <1>3, <2>2
<1>5. near = fabric.links[c]
  <2> HIDE DEF H
  <2> QED
    BY <1>2, <1>3
<1> HIDE DEF near, any
<1>6. near \in Links
  BY <1>4, <1>5 DEF Links
<1>7. near.vni = v /\ (Near(pinged, near.a) \/ Near(pinged, near.b))
  BY <1>4, <1>5
<1>8. near.a # NoMachine
  BY <1>6, LinksTyped, MachinesAssumption
<1>9. TunnelEnd(v) = IF Near(pinged, near.a) THEN near.a ELSE near.b
  BY <1>1, <1>8
<1> QED
  BY <1>6, <1>7, <1>9

\* The two ends of the ping are hosts of one VLAN behind VTEPs, each VTEP alone among what plain
\* links join, the one pinged near its own; the tunnels join VTEPs and share a VNI.
SameOverlay ==
  /\ \A l \in Links : l.vni > 0 => l.a \in fabric.vtep /\ l.b \in fabric.vtep
  /\ \A l, k \in Links : l.vni > 0 /\ k.vni > 0 => l.vni = k.vni
  /\ pinger \notin fabric.vtep /\ pinged \notin fabric.vtep
  /\ \A t \in fabric.vtep : HasWay(Plain, pinged, t) => Near(pinged, t)
  /\ \A d, e \in fabric.vtep : d \in Machines /\ d # e => ~ HasWay(Plain, d, e)
  /\ fabric.vlan[pinger] = fabric.vlan[pinged] /\ fabric.vlan[pinger] > 0
  /\ \E s \in fabric.vtep : HasWay(Plain, pinger, s)
  /\ \E t \in fabric.vtep : HasWay(Plain, pinged, t)
  /\ HasWay(Links, pinger, pinged)

\* A device is behind one VTEP.
LEMMA OneVtep ==
  ASSUME FabricOK, SameOverlay, NEW d \in Machines, NEW s \in fabric.vtep, NEW t \in fabric.vtep,
         HasWay(Plain, d, s), HasWay(Plain, d, t)
  PROVE  s = t
<1>1. Plain \in SUBSET Links
  BY DEF Plain
<1>2. s \in Machines /\ HasWay(Plain, s, t)
  BY <1>1, WaysTurn, WaysMeet
<1> QED
  BY <1>2 DEF SameOverlay

\* The VTEP of the device that is pinged is the end it chooses for a tunnel of its own.
LEMMA EndOfVtep ==
  ASSUME FabricOK, SameOverlay, NEW t \in fabric.vtep, HasWay(Plain, pinged, t), NEW l \in Links, l.vni > 0, Joins(l, t)
  PROVE  TunnelEnd(l.vni) = t
<1>1. ~ IsVtep(pinged) /\ Near(pinged, t) /\ pinged \in Machines
  BY DEF SameOverlay, IsVtep, FabricOK
<1>2. Near(pinged, l.a) \/ Near(pinged, l.b)
  BY <1>1 DEF Joins
<1>3. PICK k \in Links : k.vni = l.vni /\ Near(pinged, TunnelEnd(l.vni)) /\ TunnelEnd(l.vni) \in {k.a, k.b}
  BY <1>1, <1>2, TunnelEndIs
<1>4. TunnelEnd(l.vni) \in fabric.vtep
  BY <1>3 DEF SameOverlay
<1>5. HasWay(Plain, pinged, TunnelEnd(l.vni))
  BY <1>1, <1>3, NearIsJoined
<1> QED
  BY <1>1, <1>4, <1>5, OneVtep

\* A way from a device to another begins with a link, and is simple where it can be.
LEMMA FirstOfWay ==
  ASSUME FabricOK, NEW ls \in SUBSET Links, NEW from \in Machines, NEW to, from # to, HasWay(ls, from, to)
  PROVE  \E e : Joined(ls, from, e)
<1>1. PICK n, w : SimpleWay(ls, w, n, from, to)
  BY HasSimpleWay
<1>2. 1 \in 1..n /\ 1 - 1 = 0 /\ w[0] = from
  BY <1>1 DEF SimpleWay, Way
<1>3. Joined(ls, w[1 - 1], w[1])
  BY <1>1, <1>2 DEF SimpleWay, Way
<1> QED
  BY <1>2, <1>3

\* A VTEP with a host and a tunnel has a bridge.
LEMMA VtepBridge ==
  ASSUME FabricOK, NEW d \in Machines, NEW t, d # t, HasWay(Plain, d, t), NEW l \in Links, l.vni > 0, Joins(l, t)
  PROVE  HasBridge(t)
<1>1. Plain \in SUBSET Links
  BY DEF Plain
<1>2. t \in Machines /\ HasWay(Plain, t, d)
  BY <1>1, WaysTurn
<1>3. PICK e : Joined(Plain, t, e)
  BY <1>1, <1>2, FirstOfWay
<1>4. PICK k \in Links : k.vni = 0 /\ Joins(k, t)
  BY <1>3 DEF Joined, Plain
<1>5. k # l
  BY <1>4
<1> QED
  BY <1>4, <1>5, TwoLinksBridge

\* What a bridge makes of a request of an overlay network that it has not yet seen.
LEMMA Transfers ==
  ASSUME SameOverlay, NEW p \in Packets, p.kind = "request", p.vlan = 0, p.at.dev \notin p.path
  PROVE  BridgeTransfer(p) =
           IF /\ IsVtep(p.at.dev) /\ VniOf(p.at.dev) > 0
              /\ TunnelEnd(VniOf(p.at.dev)) \notin {NoMachine, p.at.dev} /\ HasBridge(TunnelEnd(VniOf(p.at.dev)))
           THEN {[[p EXCEPT !.path = @ \cup {p.at.dev}] EXCEPT !.at = Bridge(TunnelEnd(VniOf(p.at.dev)))]}
           ELSE Flood([p EXCEPT !.path = @ \cup {p.at.dev}])
<1> DEFINE d    == p.at.dev
           q    == [p EXCEPT !.path = @ \cup {d}]
           from == EffectiveVlan(p)
           to   == fabric.vlan[pinger]
           vni  == VniOf(d)
           end  == TunnelEnd(vni)
           far  == end \notin {NoMachine, d} /\ HasBridge(end)
<1>1. BridgeTransfer(p) =
        CASE d \in p.path -> {}
          [] d \notin p.path /\ p.kind = "request" /\ IsVtep(d) /\ from > 0 /\ to > 0 /\ from # to -> RouteL3(d, q)
          [] d \notin p.path /\ p.kind = "request" /\ IsVtep(d) /\ from > 0 /\ ~ (to > 0 /\ from # to)
             /\ vni > 0 /\ end \notin {NoMachine, d} /\ HasBridge(end) -> {[q EXCEPT !.at = Bridge(end)]}
          [] OTHER -> Flood(q)
  BY SMT DEF BridgeTransfer
<1>2. from = to /\ to > 0
  BY DEF EffectiveVlan, SameOverlay
<1>3. d \notin p.path
  OBVIOUS
<1> SUFFICES BridgeTransfer(p) = IF IsVtep(d) /\ vni > 0 /\ far THEN {[q EXCEPT !.at = Bridge(end)]} ELSE Flood(q)
  BY Zenon
<1> HIDE DEF d, q, from, to, vni, end
<1>4. CASE IsVtep(d) /\ vni > 0 /\ far
  BY <1>1, <1>2, <1>3, <1>4
<1>5. CASE ~ (IsVtep(d) /\ vni > 0 /\ far)
  BY <1>1, <1>2, <1>3, <1>5
<1> QED
  BY <1>4, <1>5

\* A bridge that is no VTEP floods a request, and so does the VTEP of the device that is pinged.
LEMMA HostSideFloods ==
  ASSUME FabricOK, SameOverlay, NEW p \in Packets, p.kind = "request", p.vlan = 0, p.at.dev \notin p.path,
         ~ IsVtep(p.at.dev) \/ HasWay(Plain, pinged, p.at.dev)
  PROVE  BridgeTransfer(p) = Flood([p EXCEPT !.path = @ \cup {p.at.dev}])
<1>1. CASE ~ IsVtep(p.at.dev)
  BY <1>1, Transfers
<1>2. CASE IsVtep(p.at.dev)
  <2>1. VniOf(p.at.dev) = 0 \/ TunnelEnd(VniOf(p.at.dev)) = p.at.dev
    <3>1. CASE \E l \in Links : l.vni > 0 /\ Joins(l, p.at.dev)
      <4>1. PICK l \in Links : l.vni > 0 /\ Joins(l, p.at.dev) /\ VniOf(p.at.dev) = l.vni
        BY <3>1, VniIs
      <4>2. p.at.dev \in fabric.vtep /\ HasWay(Plain, pinged, p.at.dev)
        BY <1>2 DEF IsVtep
      <4> QED
        BY <4>1, <4>2, EndOfVtep
    <3>2. CASE ~ \E l \in Links : l.vni > 0 /\ Joins(l, p.at.dev)
      BY <3>2, VniIs
    <3> QED
      BY <3>1, <3>2
  <2>2. ~ (VniOf(p.at.dev) > 0 /\ TunnelEnd(VniOf(p.at.dev)) \notin {NoMachine, p.at.dev})
    BY <2>1
  <2> QED
    BY <2>2, Transfers
<1> QED
  BY <1>1, <1>2

\* The VTEP of the device that pings, when the other is behind another, has the tunnel to it.
LEMMA TunnelTaken ==
  ASSUME FabricOK, SameOverlay, ~ HasWay(Plain, pinger, pinged), NEW t \in fabric.vtep, HasWay(Plain, pinger, t)
  PROVE  /\ HasBridge(t)
         /\ \E e \in fabric.vtep :
              /\ HasWay(Plain, pinged, e) /\ HasBridge(e)
              /\ \A p \in Packets : p.kind = "request" /\ p.vlan = 0 /\ p.at.dev = t /\ t \notin p.path =>
                   BridgeTransfer(p) = {[[p EXCEPT !.path = @ \cup {t}] EXCEPT !.at = Bridge(e)]}
<1>0. Plain \in SUBSET Links /\ Links \in SUBSET Links /\ pinger \in Machines /\ pinged \in Machines
  BY DEF Plain, FabricOK
<1>1. HasWay(Links, pinger, pinged) /\ HasWay(Links, pinged, pinger)
  BY <1>0, WaysTurn DEF SameOverlay
<1>2. ~ HasWay(Plain, pinged, pinger)
  BY <1>0, WaysTurn
<1>3. PICK l \in Links : l.vni > 0 /\ (HasWay(Plain, pinger, l.a) \/ HasWay(Plain, pinger, l.b))
  BY <1>0, <1>1, TunnelLeaves
<1>4. PICK k \in Links : k.vni > 0 /\ (HasWay(Plain, pinged, k.a) \/ HasWay(Plain, pinged, k.b))
  BY <1>0, <1>1, <1>2, TunnelLeaves
<1>5. Joins(l, t)
  <2>1. l.a \in fabric.vtep /\ l.b \in fabric.vtep
    BY <1>3 DEF SameOverlay
  <2> QED
    BY <1>0, <1>3, <2>1, OneVtep DEF Joins
<1>6. PICK e \in fabric.vtep : HasWay(Plain, pinged, e) /\ Joins(k, e)
  BY <1>4 DEF SameOverlay, Joins
<1>7. t # pinger /\ e # pinged
  BY DEF SameOverlay
<1>8. HasBridge(t) /\ HasBridge(e)
  BY <1>0, <1>3, <1>4, <1>5, <1>6, <1>7, VtepBridge
<1>9. e # t
  <2>1. SUFFICES ASSUME e = t PROVE FALSE
    OBVIOUS
  <2>2. HasWay(Plain, t, pinged)
    BY <1>0, <1>6, <2>1, WaysTurn
  <2> QED
    BY <1>0, <2>2, WaysAdd
<1>10. e \in Machines /\ e # NoMachine
  BY <1>0, <1>6, WaysTurn, MachinesAssumption
<1>11. VniOf(t) > 0 /\ TunnelEnd(VniOf(t)) = e
  <2>1. PICK m \in Links : m.vni > 0 /\ VniOf(t) = m.vni
    BY <1>3, <1>5, VniIs
  <2>2. m.vni = k.vni
    BY <1>4, <2>1 DEF SameOverlay
  <2>3. TunnelEnd(k.vni) = e
    BY <1>4, <1>6, EndOfVtep
  <2> QED
    BY <2>1, <2>2, <2>3
<1>12. ASSUME NEW p \in Packets, p.kind = "request", p.vlan = 0, p.at.dev = t, t \notin p.path
       PROVE  BridgeTransfer(p) = {[[p EXCEPT !.path = @ \cup {t}] EXCEPT !.at = Bridge(e)]}
  <2>1. IsVtep(t) /\ e \notin {NoMachine, t}
    BY <1>9, <1>10 DEF IsVtep
  <2> QED
    BY <1>8, <1>11, <1>12, <2>1, Transfers
<1> QED
  BY <1>6, <1>8, <1>12

\* A request that is on a simple way of plain links to a device, with nothing of the rest of the
\* way on its path.
TravelsFrom(p, w, n, i, from, to) ==
  /\ p.kind = "request" /\ p.vlan = 0
  /\ from \in Machines /\ SimpleWay(Plain, w, n, from, to) /\ i \in 0..n
  /\ p.at = Node(w[i]) /\ (i = 0 => HasBridge(w[0]))
  /\ \A j \in i..n : w[j] \notin p.path

Travels(p, to) == \E w, n, i, from : TravelsFrom(p, w, n, i, from, to)

\* A packet that will answer: on its way to the device that is pinged, or to the VTEP it leaves by
\* with nothing of the other side on its path; with the device that is pinged; or the reply.
OnTrack(p) ==
  /\ p \in Packets /\ p.ttl = InitialTTL
  /\ \/ Travels(p, pinged)
     \/ /\ ~ HasWay(Plain, pinger, pinged)
        /\ \A d \in p.path : HasWay(Plain, pinger, d)
        /\ \E t \in fabric.vtep : HasWay(Plain, pinger, t) /\ Travels(p, t)
     \/ p.kind = "request" /\ p.at = Endpoint(pinged)
     \/ p.kind = "reply" /\ p.at.bridge /\ p.path = {} /\ \E e : Joined(Plain, p.at.dev, e)
     \/ p.kind = "reply" /\ ~ p.at.bridge

OverlayInv ==
  /\ FabricOK /\ answered \in BOOLEAN
  /\ SameOverlay => answered \/ \E p \in inflight : OnTrack(p)

\* What is on a simple way is joined to both ends of it.
LEMMA OnTheWay ==
  ASSUME FabricOK, NEW w, NEW n, NEW from \in Machines, NEW to, SimpleWay(Plain, w, n, from, to), NEW i \in 0..n
  PROVE  w[i] \in Machines /\ HasWay(Plain, to, w[i])
<1>0. Plain \in SUBSET Links
  BY DEF Plain
<1>1. n \in Nat /\ n \in 0..n /\ w[n] = to /\ Way(Plain, w, n, from, to) /\ w \in [0..n -> Machines]
  BY DEF SimpleWay, Way
<1>2. \A j \in 0..n : HasWay(Plain, from, w[j])
  <2>1. HasWay(Plain, from, from)
    BY WayHere
  <2> QED
    BY <1>0, <1>1, <2>1, WaysFollow
<1> QED
  BY <1>0, <1>1, <1>2, WaysMeet

\* A request on its way at a bridge that floods goes on to the next device of the way.
LEMMA FollowGoesOn ==
  ASSUME FabricOK, NEW p \in Packets, p.ttl = InitialTTL,
         NEW w, NEW n, NEW i, NEW from, NEW to, TravelsFrom(p, w, n, i, from, to), i # n,
         BridgeTransfer(p) = Flood([p EXCEPT !.path = @ \cup {p.at.dev}])
  PROVE  \E q \in Handled(p) : q \in Packets /\ q.ttl = InitialTTL /\ q.path = p.path \cup {w[i]} /\ Travels(q, to)
<1>1. /\ p.kind = "request" /\ p.vlan = 0 /\ from \in Machines /\ SimpleWay(Plain, w, n, from, to) /\ i \in 0..n
      /\ p.at = Node(w[i]) /\ (i = 0 => HasBridge(w[0])) /\ \A j \in i..n : w[j] \notin p.path
  BY DEF TravelsFrom
<1>2. Plain \in SUBSET Links /\ n \in Nat \ {0} /\ \A j \in 1..n : Joined(Plain, w[j - 1], w[j])
  BY <1>1 DEF SimpleWay, Way, Plain
<1>3. HasBridge(w[i])
  <2>1. i = 0 \/ i \in 1..n - 1
    BY <1>1, <1>2
  <2> QED
    BY <1>1, <1>2, <2>1, MiddleBridges
<1>4. p.at = Bridge(w[i]) /\ p.at.dev = w[i] /\ p.at.bridge = TRUE
  <2>1. HasBridge(w[i]) = TRUE
    BY <1>3 DEF HasBridge
  <2>2. p.at = Bridge(w[i])
    BY <1>1, <2>1, Zenon DEF Node, Bridge
  <2> QED
    BY <2>2 DEF Bridge
<1>5. PICK r : r = [p EXCEPT !.path = @ \cup {p.at.dev}]
  OBVIOUS
<1>6. Handled(p) = Flood(r)
  BY <1>4, <1>5 DEF Handled
<1>7. /\ r \in Packets /\ r.at = p.at /\ r.kind = "request" /\ r.vlan = 0 /\ r.ttl = InitialTTL
      /\ r.path = p.path \cup {w[i]}
  BY <1>1, <1>4, <1>5 DEF Packets
<1>8. i + 1 \in 1..n /\ i + 1 \in 0..n /\ (i + 1) - 1 = i /\ i + 1 # 0
  BY <1>1, <1>2
<1>9. Joined(Plain, w[i], w[i + 1])
  BY <1>2, <1>8
<1>10. PICK q : q = [r EXCEPT !.at = Node(w[i + 1])]
  OBVIOUS
<1>11. q \in Handled(p)
  <2>1. Node(w[i + 1]) \in Adjacent(p.at)
    BY <1>4, <1>9, Beside
  <2> QED
    BY <1>6, <1>7, <1>10, <2>1 DEF Flood
<1>12. w[i + 1] \in Machines /\ HasBridge(w[i + 1]) \in BOOLEAN
  BY <1>2, <1>9, LinksJoin DEF HasBridge
<1>13. /\ q \in Packets /\ q.kind = "request" /\ q.vlan = 0 /\ q.ttl = InitialTTL /\ q.at = Node(w[i + 1])
       /\ q.path = p.path \cup {w[i]}
  BY <1>7, <1>10, <1>12 DEF Packets, Node
<1>14. ASSUME NEW j \in i + 1..n PROVE w[j] \notin q.path
  <2>1. j \in i..n /\ j \in 0..n /\ i < j
    BY <1>1, <1>2
  <2>2. w[i] # w[j]
    BY <1>1, <2>1 DEF SimpleWay
  <2> QED
    BY <1>1, <1>13, <2>1, <2>2
<1>15. TravelsFrom(q, w, n, i + 1, from, to)
  BY <1>1, <1>8, <1>13, <1>14 DEF TravelsFrom
<1> QED
  BY <1>11, <1>13, <1>15 DEF Travels

\* A bridge floods a reply it has not yet seen.
LEMMA RepliesFlood ==
  ASSUME NEW p, p.kind # "request", p.at.dev \notin p.path
  PROVE  BridgeTransfer(p) = Flood([p EXCEPT !.path = @ \cup {p.at.dev}])
<1> DEFINE d       == p.at.dev
           q       == [p EXCEPT !.path = @ \cup {d}]
           request == p.kind = "request"
           routed  == IsVtep(d) /\ EffectiveVlan(p) > 0 /\ fabric.vlan[pinger] > 0 /\ EffectiveVlan(p) # fabric.vlan[pinger]
           tunnel  == /\ IsVtep(d) /\ EffectiveVlan(p) > 0 /\ ~ (fabric.vlan[pinger] > 0 /\ EffectiveVlan(p) # fabric.vlan[pinger])
                      /\ VniOf(d) > 0 /\ TunnelEnd(VniOf(d)) \notin {NoMachine, d} /\ HasBridge(TunnelEnd(VniOf(d)))
           there   == {[q EXCEPT !.at = Bridge(TunnelEnd(VniOf(d)))]}
<1>1. BridgeTransfer(p) =
        CASE d \in p.path -> {}
          [] d \notin p.path /\ request /\ routed -> RouteL3(d, q)
          [] d \notin p.path /\ request /\ tunnel -> there
          [] OTHER -> Flood(q)
  BY SMT DEF BridgeTransfer
<1>2. ~ request /\ d \notin p.path
  OBVIOUS
<1> SUFFICES BridgeTransfer(p) = Flood(q)
  OBVIOUS
<1> HIDE DEF d, q, request, routed, tunnel, there
<1> QED
  BY <1>1, <1>2

\* The request that has come to the device that is pinged is answered, and the answer comes to an endpoint.
LEMMA AnswerComes ==
  ASSUME FabricOK, SameOverlay, ~ answered, NEW p \in Packets, p.ttl = InitialTTL,
         \/ p.kind = "request" /\ p.at = Endpoint(pinged)
         \/ p.kind = "reply" /\ p.at.bridge /\ p.path = {} /\ \E e : Joined(Plain, p.at.dev, e)
  PROVE  \E q \in Handled(p) : OnTrack(q)
<1>0. InitialTTL > 1 /\ InitialTTL \in Nat
  BY TTLAssumption
<1>1. Plain \in SUBSET Links /\ pinged \in Machines
  BY DEF Plain, FabricOK
<1>2. PICK e : Joined(Plain, pinged, e)
  BY <1>1, FirstOfWay DEF SameOverlay
<1>3. CASE p.kind = "request" /\ p.at = Endpoint(pinged)
  <2>1. Handled(p) = EchoReply(p)
    BY <1>0, <1>3 DEF Handled, React, Endpoint
  <2>2. PICK m, d : m \in Adjacent(Endpoint(pinged)) /\ m.dev = d /\ (\E c : Joined(Plain, d, c)) /\ m \in Nodes
    <3>1. CASE HasBridge(pinged)
      <4>1. Bridge(pinged) \in Adjacent(Endpoint(pinged))
        BY <1>2, <3>1, Beside
      <4>2. Bridge(pinged).dev = pinged /\ Bridge(pinged) \in Nodes
        BY <1>1 DEF Bridge, Nodes
      <4> QED
        BY <1>2, <4>1, <4>2
    <3>2. CASE ~ HasBridge(pinged)
      <4>1. PICK l \in Links : Joins(l, pinged) /\ Peer(l, pinged) = e
        BY <1>2 DEF Joined, Plain
      <4>2. Node(e) \in Adjacent(Endpoint(pinged))
        BY <1>2, <3>2, <4>1, Beside
      <4>3. Joined(Plain, e, pinged) /\ e \in Machines /\ HasBridge(e) \in BOOLEAN
        BY <1>1, <1>2, LinksJoin DEF HasBridge
      <4>4. Node(e).dev = e /\ Node(e) \in Nodes
        BY <4>3 DEF Node, Nodes
      <4> QED
        BY <4>2, <4>3, <4>4
    <3> QED
      BY <3>1, <3>2
  <2>3. PICK q : q = [at |-> m, kind |-> "reply", vlan |-> p.vlan, path |-> {}, ttl |-> InitialTTL]
    OBVIOUS
  <2>4. q \in Handled(p)
    BY <1>3, <2>1, <2>2, <2>3 DEF EchoReply
  <2>5. q \in Packets
    BY <1>0, <2>2, <2>3 DEF Packets, Nodes
  <2>6. q.at = m /\ q.kind = "reply" /\ q.path = {} /\ q.ttl = InitialTTL
    BY <2>3
  <2>7. OnTrack(q)
    BY <2>2, <2>5, <2>6 DEF OnTrack
  <2> QED
    BY <2>4, <2>7
<1>4. CASE p.kind = "reply" /\ p.at.bridge /\ p.path = {} /\ \E c : Joined(Plain, p.at.dev, c)
  <2>1. PICK d, r : d = p.at.dev /\ r = [p EXCEPT !.path = @ \cup {p.at.dev}]
    OBVIOUS
  <2>2. p.at = Bridge(d) /\ d \in Machines
    BY <1>4, <2>1 DEF Packets, Bridge
  <2>3. Handled(p) = Flood(r)
    <3>1. BridgeTransfer(p) = Flood([p EXCEPT !.path = @ \cup {p.at.dev}])
      <4>1. p.kind # "request" /\ p.at.dev \notin p.path
        BY <1>4
      <4> QED
        BY <4>1, RepliesFlood
    <3> QED
      BY <1>4, <2>1, <3>1 DEF Handled
  <2>4. r \in Packets /\ r.at = p.at /\ r.kind = "reply" /\ r.ttl = InitialTTL
    BY <1>4, <2>1 DEF Packets
  <2>5. PICK q : q = [r EXCEPT !.at = Endpoint(d)]
    OBVIOUS
  <2>6. Endpoint(d) \in Adjacent(p.at)
    BY <1>4, <2>1, <2>2, Beside
  <2>7. q \in Handled(p)
    BY <2>3, <2>4, <2>5, <2>6 DEF Flood
  <2>8. q \in Packets /\ q.kind = "reply" /\ q.ttl = InitialTTL /\ ~ q.at.bridge
    BY <2>2, <2>4, <2>5 DEF Packets, Endpoint
  <2> QED
    BY <2>7, <2>8 DEF OnTrack
<1> QED
  BY <1>3, <1>4

\* Behind its own VTEP the request comes to the device that is pinged.
LEMMA HomeGoesOn ==
  ASSUME FabricOK, SameOverlay, ~ answered, NEW p \in Packets, p.ttl = InitialTTL, Travels(p, pinged)
  PROVE  \E q \in Handled(p) : OnTrack(q)
<1>1. PICK w, n, i, from : TravelsFrom(p, w, n, i, from, pinged)
  BY DEF Travels
<1>2. /\ p.kind = "request" /\ p.vlan = 0 /\ from \in Machines /\ SimpleWay(Plain, w, n, from, pinged) /\ i \in 0..n
      /\ p.at = Node(w[i]) /\ (i = 0 => HasBridge(w[0])) /\ \A j \in i..n : w[j] \notin p.path
  BY <1>1 DEF TravelsFrom
<1>3. n \in Nat \ {0} /\ w[n] = pinged /\ i \in i..n
  BY <1>2 DEF SimpleWay, Way
<1>4. p.at.dev = w[i] /\ HasBridge(w[i]) = p.at.bridge
  BY <1>2 DEF Node
<1>5. BridgeTransfer(p) = Flood([p EXCEPT !.path = @ \cup {p.at.dev}])
  <2>1. HasWay(Plain, pinged, w[i])
    BY <1>2, OnTheWay
  <2>2. w[i] \notin p.path
    BY <1>2, <1>3
  <2> QED
    BY <1>2, <1>4, <2>1, <2>2, HostSideFloods
<1>6. CASE i # n
  <2>1. PICK q \in Handled(p) : q \in Packets /\ q.ttl = InitialTTL /\ Travels(q, pinged)
    BY <1>1, <1>5, <1>6, FollowGoesOn
  <2> QED
    BY <2>1 DEF OnTrack
<1>7. CASE i = n /\ ~ HasBridge(pinged)
  <2>1. HasBridge(pinged) = FALSE
    BY <1>7 DEF HasBridge
  <2>2. p.at = Endpoint(pinged)
    BY <1>2, <1>3, <1>7, <2>1 DEF Node, Endpoint
  <2> QED
    BY <1>2, <2>2, AnswerComes
<1>8. CASE i = n /\ HasBridge(pinged)
  <2>1. HasBridge(pinged) = TRUE
    BY <1>8 DEF HasBridge
  <2>2. p.at = Bridge(pinged) /\ p.at.bridge = TRUE
    <3>1. p.at = Node(pinged)
      BY <1>2, <1>3, <1>8
    <3>2. p.at = Bridge(pinged)
      BY <2>1, <3>1, Zenon DEF Node, Bridge
    <3> QED
      BY <3>2 DEF Bridge
  <2>3. PICK r : r = [p EXCEPT !.path = @ \cup {p.at.dev}]
    OBVIOUS
  <2>4. Handled(p) = Flood(r)
    BY <1>5, <2>2, <2>3 DEF Handled
  <2>5. r \in Packets /\ r.at = p.at /\ r.kind = "request" /\ r.ttl = InitialTTL
    BY <1>2, <2>3 DEF Packets
  <2>6. Endpoint(pinged) \in Adjacent(p.at)
    <3>1. Plain \in SUBSET Links /\ pinged \in Machines
      BY DEF Plain, FabricOK
    <3>2. PICK e : Joined(Plain, pinged, e)
      BY <3>1, FirstOfWay DEF SameOverlay
    <3> QED
      BY <2>2, <3>2, Beside
  <2>7. PICK q : q = [r EXCEPT !.at = Endpoint(pinged)]
    OBVIOUS
  <2>8. q \in Handled(p)
    BY <2>4, <2>5, <2>6, <2>7 DEF Flood
  <2>9. q \in Packets /\ q.kind = "request" /\ q.ttl = InitialTTL /\ q.at = Endpoint(pinged)
    BY <2>5, <2>7 DEF Packets, Endpoint, FabricOK
  <2> QED
    BY <2>8, <2>9 DEF OnTrack
<1> QED
  BY <1>6, <1>7, <1>8

\* Before it the request comes to the VTEP it leaves by, and from there to the other.
LEMMA AwayGoesOn ==
  ASSUME FabricOK, SameOverlay, ~ HasWay(Plain, pinger, pinged), NEW p \in Packets, p.ttl = InitialTTL,
         \A d \in p.path : HasWay(Plain, pinger, d),
         NEW t \in fabric.vtep, HasWay(Plain, pinger, t), Travels(p, t)
  PROVE  \E q \in Handled(p) : OnTrack(q)
<1>0. Plain \in SUBSET Links /\ pinger \in Machines /\ pinged \in Machines
  BY DEF Plain, FabricOK
<1>1. PICK w, n, i, from : TravelsFrom(p, w, n, i, from, t)
  BY DEF Travels
<1>2. /\ p.kind = "request" /\ p.vlan = 0 /\ from \in Machines /\ SimpleWay(Plain, w, n, from, t) /\ i \in 0..n
      /\ p.at = Node(w[i]) /\ (i = 0 => HasBridge(w[0])) /\ \A j \in i..n : w[j] \notin p.path
  BY <1>1 DEF TravelsFrom
<1>3. n \in Nat \ {0} /\ w[n] = t /\ i \in i..n
  BY <1>2 DEF SimpleWay, Way
<1>4. p.at.dev = w[i]
  BY <1>2 DEF Node
<1>5. HasWay(Plain, pinger, w[i])
  <2>1. HasWay(Plain, t, w[i])
    BY <1>2, OnTheWay
  <2> QED
    BY <1>0, <2>1, WaysAdd
<1>6. CASE i # n
  <2>1. w[i] # t
    <3>1. n \in 0..n /\ i < n
      BY <1>2, <1>3, <1>6
    <3> QED
      BY <1>2, <1>3, <3>1 DEF SimpleWay
  <2>2. ~ IsVtep(w[i])
    BY <1>0, <1>5, <2>1, OneVtep DEF IsVtep
  <2>3. w[i] \notin p.path
    BY <1>2, <1>3
  <2>4. BridgeTransfer(p) = Flood([p EXCEPT !.path = @ \cup {p.at.dev}])
    BY <1>2, <1>4, <2>2, <2>3, HostSideFloods
  <2>5. PICK q \in Handled(p) : q \in Packets /\ q.ttl = InitialTTL /\ q.path = p.path \cup {w[i]} /\ Travels(q, t)
    BY <1>1, <1>6, <2>4, FollowGoesOn
  <2>6. \A d \in q.path : HasWay(Plain, pinger, d)
    BY <1>5, <2>5
  <2> QED
    BY <2>5, <2>6 DEF OnTrack
<1>7. CASE i = n
  <2>1. HasBridge(t)
    BY TunnelTaken
  <2>2. PICK e \in fabric.vtep :
          /\ HasWay(Plain, pinged, e) /\ HasBridge(e)
          /\ \A r \in Packets : r.kind = "request" /\ r.vlan = 0 /\ r.at.dev = t /\ t \notin r.path =>
               BridgeTransfer(r) = {[[r EXCEPT !.path = @ \cup {t}] EXCEPT !.at = Bridge(e)]}
    BY TunnelTaken
  <2>3. p.at.dev = t /\ t \notin p.path /\ p.at.bridge = TRUE
    <3>1. HasBridge(t) = TRUE
      BY <2>1 DEF HasBridge
    <3>2. p.at = Node(t) /\ t \notin p.path
      BY <1>2, <1>3, <1>7
    <3>3. p.at = Bridge(t)
      BY <3>1, <3>2, Zenon DEF Node, Bridge
    <3> QED
      BY <3>2, <3>3 DEF Bridge
  <2>4. PICK q : q = [[p EXCEPT !.path = @ \cup {t}] EXCEPT !.at = Bridge(e)]
    OBVIOUS
  <2>5. q \in Handled(p)
    <3>1. BridgeTransfer(p) = {q}
      BY <1>2, <2>2, <2>3, <2>4
    <3> QED
      BY <2>3, <3>1 DEF Handled
  <2>6. e \in Machines /\ HasWay(Plain, e, pinged) /\ e # pinged
    BY <1>0, <2>2, WaysTurn DEF SameOverlay
  <2>7. t \in Machines
    BY <1>0, WaysTurn
  <2>8. /\ q \in Packets /\ q.kind = "request" /\ q.vlan = 0 /\ q.ttl = InitialTTL /\ q.at = Bridge(e)
        /\ q.path = p.path \cup {t}
    BY <1>2, <2>4, <2>6, <2>7 DEF Packets, Bridge
  <2>9. PICK m, v : SimpleWay(Plain, v, m, e, pinged)
    BY <1>0, <2>6, HasSimpleWay
  <2>10. m \in Nat /\ v[0] = e /\ 0 \in 0..m
    BY <2>9 DEF SimpleWay, Way
  <2>11. q.at = Node(v[0])
    <3>1. HasBridge(e) = TRUE
      BY <2>2 DEF HasBridge
    <3> QED
      BY <2>8, <2>10, <3>1, Zenon DEF Node, Bridge
  <2>12. ASSUME NEW j \in 0..m PROVE v[j] \notin q.path
    <3> SUFFICES ASSUME v[j] \in q.path PROVE FALSE
      OBVIOUS
    <3>1. HasWay(Plain, pinger, v[j])
      BY <2>8
    <3>2. v[j] \in Machines /\ HasWay(Plain, pinged, v[j])
      BY <2>6, <2>9, OnTheWay
    <3>3. HasWay(Plain, v[j], pinged)
      BY <1>0, <3>2, WaysTurn
    <3> QED
      BY <1>0, <3>1, <3>3, WaysAdd
  <2>13. TravelsFrom(q, v, m, 0, e, pinged)
    BY <2>2, <2>6, <2>8, <2>9, <2>10, <2>11, <2>12 DEF TravelsFrom
  <2> QED
    BY <2>5, <2>8, <2>13 DEF OnTrack, Travels
<1> QED
  BY <1>6, <1>7

\* What stays as it is while the network and the ends do.
LEMMA TracksStay ==
  ASSUME UNCHANGED <<fabric, pinger, pinged>>
  PROVE  /\ SameOverlay' = SameOverlay /\ FabricOK' = FabricOK
         /\ \A p : OnTrack(p)' <=> OnTrack(p)
<1>1. /\ Links' = Links /\ Plain' = Plain
      /\ \A d : HasBridge(d)' <=> HasBridge(d)
  BY DEF Links, Plain, HasBridge
<1>2. \A d : Node(d)' = Node(d)
  BY DEF Node, HasBridge
<1>3. \A d, e : (Joined(Plain, d, e)' <=> Joined(Plain, d, e)) /\ (Joined(Links, d, e)' <=> Joined(Links, d, e))
  BY <1>1 DEF Joined
<1>4. \A w, n, d, e : (Way(Plain, w, n, d, e)' <=> Way(Plain, w, n, d, e)) /\ (Way(Links, w, n, d, e)' <=> Way(Links, w, n, d, e))
  BY <1>3 DEF Way
<1>5. \A d, e : (HasWay(Plain, d, e)' <=> HasWay(Plain, d, e)) /\ (HasWay(Links, d, e)' <=> HasWay(Links, d, e))
  BY <1>4 DEF HasWay
<1>6. \A w, n, d, e : SimpleWay(Plain, w, n, d, e)' <=> SimpleWay(Plain, w, n, d, e)
  BY <1>4 DEF SimpleWay
<1>7. \A d, e : Near(d, e)' <=> Near(d, e)
  BY <1>1 DEF Near
<1>8. \A p, w, n, i, d, e : TravelsFrom(p, w, n, i, d, e)' <=> TravelsFrom(p, w, n, i, d, e)
  BY <1>1, <1>2, <1>6 DEF TravelsFrom
<1>9. \A p, e : Travels(p, e)' <=> Travels(p, e)
  BY <1>8 DEF Travels
<1>10. \A p : OnTrack(p)' <=> OnTrack(p)
  BY <1>3, <1>5, <1>9 DEF OnTrack
<1>11. SameOverlay' = SameOverlay
  BY <1>1, <1>5, <1>7 DEF SameOverlay
<1>12. FabricOK' = FabricOK
  BY DEF FabricOK
<1> QED
  BY <1>10, <1>11, <1>12

\* The ping begins with a request on a way to whatever plain links lead to.
LEMMA BeginsOn ==
  ASSUME FloodInit, FabricOK, NEW to, pinger # to, HasWay(Plain, pinger, to)
  PROVE  \E p \in inflight : p \in Packets /\ p.ttl = InitialTTL /\ p.path = {} /\ Travels(p, to)
<1>0. Plain \in SUBSET Links /\ pinger \in Machines /\ InitialTTL \in Nat
  BY TTLAssumption DEF Plain, FabricOK
<1>1. inflight = {[at |-> n, kind |-> "request", vlan |-> 0, path |-> {}, ttl |-> InitialTTL] : n \in Adjacent(Endpoint(pinger))}
  BY DEF FloodInit
<1>2. PICK n, w : SimpleWay(Plain, w, n, pinger, to)
  BY <1>0, HasSimpleWay
<1>3. n \in Nat \ {0} /\ w \in [0..n -> Machines] /\ w[0] = pinger /\ \A j \in 1..n : Joined(Plain, w[j - 1], w[j])
  BY <1>2 DEF SimpleWay, Way
<1>4. Joined(Plain, pinger, w[1]) /\ 1 \in 0..n /\ 0 \in 0..n
  <2>1. 1 \in 1..n /\ 1 - 1 = 0
    BY <1>3
  <2>2. Joined(Plain, w[1 - 1], w[1])
    BY <1>3, <2>1
  <2> QED
    BY <1>3, <2>1, <2>2
<1>5. ASSUME NEW i \in {0, 1}, Node(w[i]) \in Adjacent(Endpoint(pinger)), i = 0 => HasBridge(w[0])
      PROVE  \E p \in inflight : p \in Packets /\ p.ttl = InitialTTL /\ p.path = {} /\ Travels(p, to)
  <2>1. PICK p : p = [at |-> Node(w[i]), kind |-> "request", vlan |-> 0, path |-> {}, ttl |-> InitialTTL]
    OBVIOUS
  <2>2. p \in inflight
    BY <1>1, <1>5, <2>1
  <2>3. i \in 0..n /\ w[i] \in Machines
    BY <1>3, <1>4, <1>5
  <2>4. HasBridge(w[i]) \in BOOLEAN
    BY DEF HasBridge
  <2>5. p \in Packets
    BY <1>0, <2>1, <2>3, <2>4 DEF Packets, Node
  <2>6. p.ttl = InitialTTL /\ p.kind = "request" /\ p.vlan = 0 /\ p.path = {} /\ p.at = Node(w[i])
    BY <2>1
  <2>7. TravelsFrom(p, w, n, i, pinger, to)
    BY <1>0, <1>2, <1>5, <2>3, <2>6 DEF TravelsFrom
  <2> QED
    BY <2>2, <2>5, <2>6, <2>7 DEF Travels
<1>6. CASE HasBridge(pinger)
  <2>1. Node(w[0]) = Bridge(pinger)
    <3>1. HasBridge(pinger) = TRUE
      BY <1>6 DEF HasBridge
    <3> QED
      BY <1>3, <3>1, Zenon DEF Node, Bridge
  <2>2. Bridge(pinger) \in Adjacent(Endpoint(pinger))
    BY <1>4, <1>6, Beside
  <2> QED
    BY <1>3, <1>5, <1>6, <2>1, <2>2
<1>7. CASE ~ HasBridge(pinger)
  <2>1. PICK l \in Links : Joins(l, pinger) /\ Peer(l, pinger) = w[1]
    BY <1>4 DEF Joined, Plain
  <2>2. Node(w[1]) \in Adjacent(Endpoint(pinger))
    BY <1>4, <1>7, <2>1, Beside
  <2> QED
    BY <1>5, <2>2
<1> QED
  BY <1>6, <1>7

\* So it begins on its track.
LEMMA InitOverlay == FloodInit => OverlayInv
<1> SUFFICES ASSUME FloodInit PROVE OverlayInv
  OBVIOUS
<1>1. FabricOK /\ answered = FALSE
  BY MachinesAssumption DEF FloodInit, FabricOK
<1>2. ASSUME SameOverlay PROVE \E p \in inflight : OnTrack(p)
  <2>1. CASE HasWay(Plain, pinger, pinged)
    <3>1. pinger # pinged
      BY <1>1 DEF FabricOK
    <3>2. PICK p \in inflight : p \in Packets /\ p.ttl = InitialTTL /\ Travels(p, pinged)
      BY <1>1, <2>1, <3>1, BeginsOn
    <3> QED
      BY <3>2 DEF OnTrack
  <2>2. CASE ~ HasWay(Plain, pinger, pinged)
    <3>1. PICK s \in fabric.vtep : HasWay(Plain, pinger, s) /\ pinger # s
      BY <1>2 DEF SameOverlay
    <3>2. PICK p \in inflight : p \in Packets /\ p.ttl = InitialTTL /\ p.path = {} /\ Travels(p, s)
      BY <1>1, <3>1, BeginsOn
    <3> QED
      BY <2>2, <3>1, <3>2 DEF OnTrack
  <2> QED
    BY <2>1, <2>2
<1> QED
  BY <1>1, <1>2 DEF OverlayInv

\* Each hop of the packets under way.
LEMMA HopOverlay == ASSUME OverlayInv, [Hop]_floodVars PROVE OverlayInv'
<1>1. UNCHANGED <<fabric, pinger, pinged>>
  BY DEF Hop, floodVars
<1>2. /\ SameOverlay' = SameOverlay /\ FabricOK' = FabricOK
      /\ \A p : OnTrack(p)' <=> OnTrack(p)
  BY <1>1, TracksStay
<1>3. FabricOK /\ answered \in BOOLEAN
  BY DEF OverlayInv
<1>4. CASE UNCHANGED floodVars
  <2>1. inflight' = inflight /\ answered' = answered
    BY <1>4 DEF floodVars
  <2> QED
    BY <1>2, <2>1 DEF OverlayInv
<1>5. CASE Hop
  <2>1. /\ inflight' = UNION {Handled(p) : p \in inflight}
        /\ answered' = (answered \/ \E p \in inflight : p.kind = "reply" /\ ~ p.at.bridge /\ p.ttl > 1)
    BY <1>5 DEF Hop
  <2>2. answered' \in BOOLEAN
    BY <1>3, <2>1
  <2>3. answered' <=> answered \/ \E p \in inflight : p.kind = "reply" /\ ~ p.at.bridge /\ p.ttl > 1
    BY <2>1
  <2>4. ASSUME SameOverlay, ~ answered PROVE answered' \/ \E q \in inflight' : OnTrack(q)
    <3>1. PICK p \in inflight : OnTrack(p)
      BY <2>4 DEF OverlayInv
    <3>2. p \in Packets /\ p.ttl = InitialTTL
      BY <3>1 DEF OnTrack
    <3>3. CASE p.kind = "reply" /\ ~ p.at.bridge
      BY <2>3, <3>2, <3>3, TTLAssumption
    <3>4. CASE \E q \in Handled(p) : OnTrack(q)
      BY <2>1, <3>4
    <3>5. CASE Travels(p, pinged)
      BY <1>3, <2>4, <3>2, <3>4, <3>5, HomeGoesOn
    <3>6. CASE /\ ~ HasWay(Plain, pinger, pinged)
               /\ \A d \in p.path : HasWay(Plain, pinger, d)
               /\ \E t \in fabric.vtep : HasWay(Plain, pinger, t) /\ Travels(p, t)
      BY <1>3, <2>4, <3>2, <3>4, <3>6, AwayGoesOn
    <3>7. CASE \/ p.kind = "request" /\ p.at = Endpoint(pinged)
               \/ p.kind = "reply" /\ p.at.bridge /\ p.path = {} /\ \E e : Joined(Plain, p.at.dev, e)
      BY <1>3, <2>4, <3>2, <3>4, <3>7, AnswerComes
    <3> QED
      BY <3>1, <3>3, <3>5, <3>6, <3>7 DEF OnTrack
  <2>5. SameOverlay' => answered' \/ \E q \in inflight' : OnTrack(q)'
    BY <1>2, <2>3, <2>4
  <2> QED
    BY <1>2, <1>3, <2>2, <2>5 DEF OverlayInv
<1> QED
  BY <1>4, <1>5

\* Two hosts of one VLAN behind VTEPs that tunnels alone join reach each other wherever links do,
\* in overlay networks of every size: the request follows plain links to its VTEP, which is the
\* one it can meet there, takes the tunnel to the VTEP near its target, whose end the choice by
\* distance finds, and meets on the other side no bridge it has been at.
THEOREM OverlayPingsArrive == FloodSpec => [](Overlay => SameVlanIsJoined)
<1>1. OverlayInv => (Overlay => SameVlanIsJoined)
  <2> SUFFICES ASSUME OverlayInv, Overlay, inflight = {}, TunnelsOnly,
                      fabric.vlan[pinger] = fabric.vlan[pinged], fabric.vlan[pinger] > 0,
                      \A d \in {pinger, pinged} : \E t \in fabric.vtep : t \in Reach(Plain, d),
                      pinged \in Reach(Links, pinger)
               PROVE  answered
    BY DEF SameVlanIsJoined, FloodOver
  <2>1. FabricOK
    BY DEF OverlayInv
  <2>2. Plain \in SUBSET Links /\ Links \in SUBSET Links /\ pinger \in Machines /\ pinged \in Machines
    BY <2>1 DEF Plain, FabricOK
  <2>3. \A c \in Machines : \A d : d \in Reach(Plain, c) <=> HasWay(Plain, c, d)
    BY <2>1, <2>2, ReachIsWays
  <2>4. HasWay(Links, pinger, pinged)
    BY <2>1, <2>2, ReachIsWays
  <2>5. \A d, e \in fabric.vtep : d \in Machines /\ d # e => ~ HasWay(Plain, d, e)
    BY <2>3 DEF TunnelsOnly
  <2>6. (\E s \in fabric.vtep : HasWay(Plain, pinger, s)) /\ (\E t \in fabric.vtep : HasWay(Plain, pinged, t))
    BY <2>2, <2>3
  <2>7. \A t \in fabric.vtep : HasWay(Plain, pinged, t) => Near(pinged, t)
    BY <2>2, <2>3 DEF Overlay
  <2>8. SameOverlay
    BY <2>4, <2>5, <2>6, <2>7 DEF SameOverlay, Overlay
  <2> QED
    BY <2>8 DEF OverlayInv
<1>2. OverlayInv /\ [Hop]_floodVars => OverlayInv'
  BY HopOverlay
<1> QED
  BY InitOverlay, <1>1, <1>2, PTL DEF FloodSpec

-----------------------------------------------------------------------------
(* The terminals.                                                          *)

Entries  == {"welcome", "echo", "output", "error"} \X Nat
Sessions == [logs : Seq(Entries), history : Seq(Typeable), view : TermViews]
Asked    == [cmd : Typeable, n : Nat, view : TermViews \cup {Off}]

TermTyped ==
  /\ disk \in [Boxes -> Sessions] /\ copy \in [Consoles -> [Boxes -> Sessions]]
  /\ mounted \subseteq Consoles /\ running \in [Consoles -> {Off} \cup Asked]
  /\ cliView \in [Boxes -> TermViews] /\ entered \in Nat
  /\ typed \in [Boxes -> Seq(Entries)] /\ told \in [Boxes -> TermViews]

\* Terminals that are on the screen have what is stored.
CopiesAgree == ~ torn => \A c \in mounted : copy[c] = disk

TermInv == TermTyped /\ CopiesAgree /\ HistoryKept

\* The newest entries are a sequence of the entries.
LEMMA NewestTyped ==
  ASSUME NEW E, NEW s \in Seq(E), NEW n \in Nat
  PROVE  /\ Newest(s, n) \in Seq(E)
         /\ Len(Newest(s, n)) = IF Len(s) > n THEN n ELSE Len(s)
         /\ \A i \in 1..Len(Newest(s, n)) : Newest(s, n)[i] = s[i + Len(s) - Len(Newest(s, n))]
<1> DEFINE m == IF Len(s) > n THEN Len(s) - n + 1 ELSE 1
           t == SubSeq(s, m, Len(s))
<1>1. Len(s) \in Nat /\ m \in 1..(Len(s) + 1) /\ \A i \in m..Len(s) : s[i] \in E
  BY ElementOfSeq, LenProperties
<1>2. /\ t \in Seq(E) /\ Len(t) = (IF m <= Len(s) THEN Len(s) - m + 1 ELSE 0)
      /\ \A i \in 1..(Len(s) - m + 1) : t[i] = s[m + i - 1]
  BY <1>1, SubSeqProperties
<1>3. Newest(s, n) = t
  BY DEF Newest
<1> HIDE DEF t
<1>4. Len(t) = Len(s) - m + 1
  <2>1. Len(t) = IF m <= Len(s) THEN Len(s) - m + 1 ELSE 0
    BY <1>2
  <2>2. m \in 1..(Len(s) + 1) /\ Len(s) \in Nat
    BY <1>1
  <2> HIDE DEF m
  <2> QED
    BY <2>1, <2>2
<1>5. Len(s) - m + 1 = IF Len(s) > n THEN n ELSE Len(s)
  BY <1>1
<1>6. ASSUME NEW i \in 1..Len(t) PROVE t[i] = s[i + Len(s) - Len(t)]
  <2> HIDE DEF m
  <2>1. i \in 1..(Len(s) - m + 1)
    BY <1>4
  <2>2. m + i - 1 = i + Len(s) - Len(t)
    BY <1>1, <1>4, <2>1
  <2> QED
    BY <1>2, <2>1, <2>2
<1> QED
  BY <1>2, <1>3, <1>4, <1>5, <1>6

\* The log that is stored is the end of the one that was typed.
LEMMA LogGrows ==
  ASSUME NEW E, NEW s \in Seq(E), NEW e \in E, NEW n \in Nat
  PROVE  Newest(Append(s, e), n + 1) = Append(Newest(s, n), e)
<1> DEFINE long == Append(s, e)
           left == Newest(long, n + 1)
           kept == Newest(s, n)
           right == Append(kept, e)
<1>1. long \in Seq(E) /\ Len(long) = Len(s) + 1 /\ Len(s) \in Nat
  BY LenProperties, AppendProperties
<1>2. \A i \in 1..(Len(s) + 1) : long[i] = IF i = Len(s) + 1 THEN e ELSE s[i]
  BY AppendProperties
<1> HIDE DEF long
<1>3. /\ left \in Seq(E) /\ Len(left) = (IF Len(s) > n THEN n + 1 ELSE Len(s) + 1)
      /\ \A i \in 1..Len(left) : left[i] = long[i + Len(s) + 1 - Len(left)]
  <2>1. n + 1 \in Nat
    OBVIOUS
  <2>2. left \in Seq(E)
    BY <1>1, <2>1, NewestTyped
  <2>3. Len(left) = IF Len(long) > n + 1 THEN n + 1 ELSE Len(long)
    BY <1>1, <2>1, NewestTyped
  <2>4. \A i \in 1..Len(left) : left[i] = long[i + Len(long) - Len(left)]
    BY <1>1, <2>1, NewestTyped
  <2> HIDE DEF left
  <2>5. Len(left) = IF Len(s) > n THEN n + 1 ELSE Len(s) + 1
    BY <1>1, <2>3
  <2>6. \A i \in 1..Len(left) : left[i] = long[i + Len(s) + 1 - Len(left)]
    BY <1>1, <2>4
  <2> QED
    BY <2>2, <2>5, <2>6
<1>4. /\ kept \in Seq(E) /\ Len(kept) = (IF Len(s) > n THEN n ELSE Len(s))
      /\ \A i \in 1..Len(kept) : kept[i] = s[i + Len(s) - Len(kept)]
  BY NewestTyped
<1> HIDE DEF left, kept
<1>5. /\ right \in Seq(E) /\ Len(right) = Len(kept) + 1 /\ right[Len(kept) + 1] = e
      /\ \A i \in 1..Len(kept) : right[i] = kept[i]
  BY <1>4, AppendProperties
<1> HIDE DEF right
<1>6. Len(left) = Len(right) /\ Len(left) \in Nat /\ Len(kept) \in Nat
  BY <1>1, <1>3, <1>4, <1>5
<1>7. ASSUME NEW i \in 1..Len(left) PROVE left[i] = right[i]
  <2>0. i \in Nat
    BY <1>6
  <2>1. left[i] = long[i + Len(s) + 1 - Len(left)] /\ i + Len(s) + 1 - Len(left) \in 1..(Len(s) + 1)
    <3>1. Len(left) <= Len(s) + 1 /\ i >= 1 /\ i <= Len(left)
      BY <1>1, <1>3, <1>6
    <3>2. left[i] = long[i + Len(s) + 1 - Len(left)]
      BY <1>3
    <3> QED
      BY <1>1, <1>6, <2>0, <3>1, <3>2
  <2>2. CASE i = Len(left)
    BY <1>1, <1>2, <1>5, <1>6, <2>1, <2>2
  <2>3. CASE i # Len(left)
    <3>1. i \in 1..Len(kept) /\ i + Len(s) + 1 - Len(left) # Len(s) + 1
          /\ i + Len(s) + 1 - Len(left) = i + Len(s) - Len(kept)
      BY <1>1, <1>5, <1>6, <2>3
    <3> QED
      BY <1>2, <1>4, <1>5, <2>1, <3>1
  <2> QED
    BY <2>2, <2>3
<1>8. left = right
  BY <1>3, <1>5, <1>6, <1>7, SeqEqual
<1> QED
  BY <1>8 DEF left, right, kept, long

\* A terminal alone that changes a session stores what was typed and told.
LEMMA ChangeKept ==
  ASSUME TermInv, NEW c \in mounted, NEW session \in Sessions, Changes(c, session), mounted' = mounted,
         torn' = (torn \/ ~ mounted \subseteq {c}),
         NEW log \in Seq(Entries), typed' = [typed EXCEPT ![BoxOf[c]] = log],
         NEW v \in TermViews, told' = [told EXCEPT ![BoxOf[c]] = v],
         ~ torn => session.logs = log /\ session.view = v
  PROVE  /\ disk' \in [Boxes -> Sessions] /\ copy' \in [Consoles -> [Boxes -> Sessions]]
         /\ typed' \in [Boxes -> Seq(Entries)] /\ told' \in [Boxes -> TermViews]
         /\ CopiesAgree' /\ HistoryKept'
<1> DEFINE b == BoxOf[c]
           new == [copy[c] EXCEPT ![b] = session]
<1>1. c \in Consoles /\ b \in Boxes /\ copy[c] \in [Boxes -> Sessions]
  BY ConsolesAssumption DEF TermInv, TermTyped
<1>2. new \in [Boxes -> Sessions] /\ new[b] = session /\ \A x \in Boxes \ {b} : new[x] = copy[c][x]
  BY <1>1
<1>3. copy' = [copy EXCEPT ![c] = new] /\ disk' = copy'[c]
  BY DEF Changes
<1> HIDE DEF new
<1>4. copy' \in [Consoles -> [Boxes -> Sessions]] /\ disk' = new /\ copy'[c] = new
  BY <1>1, <1>2, <1>3 DEF TermInv, TermTyped
<1>5. /\ typed' \in [Boxes -> Seq(Entries)] /\ typed'[b] = log /\ \A x \in Boxes \ {b} : typed'[x] = typed[x]
      /\ told' \in [Boxes -> TermViews] /\ told'[b] = v /\ \A x \in Boxes \ {b} : told'[x] = told[x]
  BY <1>1 DEF TermInv, TermTyped
<1>6. ~ torn' => ~ torn /\ mounted \subseteq {c} /\ copy[c] = disk
  BY DEF TermInv, CopiesAgree
<1>7. CopiesAgree'
  BY <1>4, <1>6 DEF CopiesAgree
<1>8. ~ torn' => \A x \in Boxes : disk'[x].logs = typed'[x] /\ disk'[x].view = told'[x]
  BY <1>2, <1>4, <1>5, <1>6 DEF TermInv, HistoryKept
<1> QED
  BY <1>2, <1>4, <1>5, <1>7, <1>8 DEF HistoryKept

\* The log of a session after an entry.
LEMMA LoggedTyped ==
  ASSUME NEW s \in Sessions, NEW e \in Entries
  PROVE  Logged(s, e) \in Sessions /\ Logged(s, e).view = s.view /\ Logged(s, e).logs = Append(Newest(s.logs, MaxLogs), e)
<1>1. s.logs \in Seq(Entries) /\ MaxLogs \in Nat
  BY ConsolesAssumption DEF Sessions
<1>2. Newest(s.logs, MaxLogs) \in Seq(Entries)
  BY <1>1, NewestTyped
<1>3. Append(Newest(s.logs, MaxLogs), e) \in Seq(Entries)
  BY <1>2, AppendProperties
<1> QED
  BY <1>3 DEF Logged, Sessions

\* An entry is made by one terminal of several, or by one alone.
LEMMA RecordKept ==
  ASSUME TermInv, NEW c \in mounted, NEW s \in Sessions, NEW e \in Entries, Changes(c, Logged(s, e)), Records(c, e),
         mounted' = mounted, NEW v \in TermViews, told' = [told EXCEPT ![BoxOf[c]] = v],
         ~ torn => s.logs = disk[BoxOf[c]].logs /\ s.view = v
  PROVE  /\ disk' \in [Boxes -> Sessions] /\ copy' \in [Consoles -> [Boxes -> Sessions]]
         /\ typed' \in [Boxes -> Seq(Entries)] /\ told' \in [Boxes -> TermViews]
         /\ CopiesAgree' /\ HistoryKept'
<1> DEFINE b == BoxOf[c]
           log == Newest(Append(typed[b], e), MaxLogs + 1)
<1>1. c \in Consoles /\ b \in Boxes /\ typed[b] \in Seq(Entries) /\ MaxLogs \in Nat
  BY ConsolesAssumption DEF TermInv, TermTyped
<1>2. log \in Seq(Entries)
  <2>1. Append(typed[b], e) \in Seq(Entries) /\ MaxLogs + 1 \in Nat
    BY <1>1, AppendProperties
  <2> QED
    BY <2>1, NewestTyped
<1>3. log = Append(Newest(typed[b], MaxLogs), e)
  BY <1>1, LogGrows
<1>4. ~ torn => Logged(s, e).logs = log /\ Logged(s, e).view = v
  <2>1. Logged(s, e).view = s.view /\ Logged(s, e).logs = Append(Newest(s.logs, MaxLogs), e)
    BY LoggedTyped
  <2>2. ~ torn => disk[b].logs = typed[b]
    BY <1>1 DEF TermInv, HistoryKept
  <2> HIDE DEF log
  <2> QED
    BY <1>3, <2>1, <2>2
<1>5. typed' = [typed EXCEPT ![BoxOf[c]] = log] /\ torn' = (torn \/ ~ mounted \subseteq {c})
  BY DEF Records
<1>6. Logged(s, e) \in Sessions
  BY LoggedTyped
<1> HIDE DEF log
<1> QED
  BY <1>2, <1>4, <1>5, <1>6, ChangeKept

\* What was never told stays as it was.
LEMMA NotTold ==
  ASSUME TermTyped, NEW b \in Boxes
  PROVE  told = [told EXCEPT ![b] = told[b]]
BY DEF TermTyped

\* A terminal's copy of a session.
LEMMA CopyOf ==
  ASSUME TermInv, NEW c \in mounted
  PROVE  /\ c \in Consoles /\ BoxOf[c] \in Boxes /\ copy[c][BoxOf[c]] \in Sessions
         /\ ~ torn => copy[c][BoxOf[c]].logs = disk[BoxOf[c]].logs /\ copy[c][BoxOf[c]].view = told[BoxOf[c]]
<1>1. c \in Consoles /\ BoxOf[c] \in Boxes /\ copy[c] \in [Boxes -> Sessions]
  BY ConsolesAssumption DEF TermInv, TermTyped
<1>2. ~ torn => copy[c] = disk /\ disk[BoxOf[c]].view = told[BoxOf[c]]
  BY <1>1 DEF TermInv, CopiesAgree, HistoryKept
<1> QED
  BY <1>1, <1>2

\* A terminal shows the stored log, or begins a new one.
LEMMA MountKept == ASSUME TermInv, NEW c \in Consoles, Mount(c) PROVE TermInv'
<1> DEFINE b == BoxOf[c]
           session == disk[b]
           welcome == [session EXCEPT !.logs = <<<<"welcome", 0>>>>, !.view = "user"]
<1>0. b \in Boxes /\ session \in Sessions
  BY ConsolesAssumption DEF TermInv, TermTyped
<1>1. mounted' = mounted \cup {c} /\ UNCHANGED <<running, cliView, entered, told>>
  BY DEF Mount
<1>2. CASE session.logs # <<>>
  <2>1. copy' = [copy EXCEPT ![c] = disk] /\ UNCHANGED <<disk, typed, torn>>
    BY <1>2 DEF Mount
  <2>2. copy' \in [Consoles -> [Boxes -> Sessions]] /\ copy'[c] = disk /\ \A d \in Consoles \ {c} : copy'[d] = copy[d]
    BY <2>1 DEF TermInv, TermTyped
  <2>3. TermTyped'
    BY <1>1, <2>1, <2>2 DEF TermInv, TermTyped
  <2>4. CopiesAgree'
    BY <1>1, <2>1, <2>2 DEF TermInv, TermTyped, CopiesAgree
  <2>5. HistoryKept'
    BY <1>1, <2>1 DEF TermInv, HistoryKept
  <2> QED
    BY <2>3, <2>4, <2>5 DEF TermInv
<1>3. CASE session.logs = <<>>
  <2>1. /\ disk' = [disk EXCEPT ![b] = welcome] /\ copy' = [copy EXCEPT ![c] = disk']
        /\ typed' = [typed EXCEPT ![b] = welcome.logs]
        /\ torn' = (torn \/ mounted # {} \/ told[b] # "user")
    BY <1>3 DEF Mount
  <2>2. welcome \in Sessions /\ welcome.logs \in Seq(Entries) /\ welcome.view = "user"
    <3>1. <<<<"welcome", 0>>>> \in Seq(Entries) /\ "user" \in TermViews
      BY DEF Entries, TermViews
    <3> QED
      BY <1>0, <3>1 DEF Sessions
  <2> HIDE DEF welcome
  <2>3. /\ disk' \in [Boxes -> Sessions] /\ disk'[b] = welcome /\ \A x \in Boxes \ {b} : disk'[x] = disk[x]
        /\ typed' \in [Boxes -> Seq(Entries)] /\ typed'[b] = welcome.logs /\ \A x \in Boxes \ {b} : typed'[x] = typed[x]
    BY <1>0, <2>1, <2>2 DEF TermInv, TermTyped
  <2>4. copy' \in [Consoles -> [Boxes -> Sessions]] /\ copy'[c] = disk'
    BY <2>1, <2>3 DEF TermInv, TermTyped
  <2>5. TermTyped'
    BY <1>1, <2>3, <2>4 DEF TermInv, TermTyped
  <2>6. CopiesAgree'
    BY <1>1, <2>1, <2>4 DEF CopiesAgree
  <2>7. HistoryKept'
    BY <1>0, <1>1, <2>1, <2>2, <2>3 DEF TermInv, HistoryKept
  <2> QED
    BY <2>5, <2>6, <2>7 DEF TermInv
<1> QED
  BY <1>2, <1>3

\* A command is echoed.
LEMMA EnterKept == ASSUME TermInv, NEW c \in Consoles, NEW cmd \in Typeable, EnterCommand(c, cmd) PROVE TermInv'
<1> DEFINE s == copy[c][BoxOf[c]]
           e == <<"echo", entered'>>
<1>1. /\ c \in mounted /\ entered' = entered + 1 /\ Changes(c, Logged(Noted(s, cmd), e)) /\ Records(c, e)
      /\ running' = [running EXCEPT ![c] = [cmd |-> cmd, n |-> entered', view |-> Off]]
      /\ UNCHANGED <<mounted, cliView, told>>
  BY DEF EnterCommand
<1>2. entered' \in Nat /\ e \in Entries
  BY <1>1 DEF TermInv, TermTyped, Entries
<1>3. s \in Sessions
  BY <1>1, CopyOf
<1>4. Noted(s, cmd) \in Sessions /\ Noted(s, cmd).logs = s.logs /\ Noted(s, cmd).view = s.view
  <2>1. s.history \in Seq(Typeable) /\ MaxHistory \in Nat
    BY <1>3, ConsolesAssumption DEF Sessions
  <2>2. Append(s.history, cmd) \in Seq(Typeable)
    BY <2>1, AppendProperties
  <2>3. Newest(Append(s.history, cmd), MaxHistory) \in Seq(Typeable)
    BY <2>1, <2>2, NewestTyped
  <2> QED
    BY <1>3, <2>1, <2>3 DEF Noted, Sessions
<1>5. /\ BoxOf[c] \in Boxes /\ told' = [told EXCEPT ![BoxOf[c]] = told[BoxOf[c]]] /\ told[BoxOf[c]] \in TermViews
      /\ ~ torn => s.logs = disk[BoxOf[c]].logs /\ s.view = told[BoxOf[c]]
  BY <1>1, CopyOf, NotTold DEF TermInv, TermTyped
<1>6. running' \in [Consoles -> {Off} \cup Asked]
  BY <1>1, <1>2 DEF TermInv, TermTyped, Asked
<1>7. /\ disk' \in [Boxes -> Sessions] /\ copy' \in [Consoles -> [Boxes -> Sessions]]
      /\ typed' \in [Boxes -> Seq(Entries)] /\ told' \in [Boxes -> TermViews]
      /\ CopiesAgree' /\ HistoryKept'
  <2> DEFINE noted == Noted(s, cmd)
             v == told[BoxOf[c]]
  <2>1. noted \in Sessions /\ Changes(c, Logged(noted, e)) /\ v \in TermViews /\ told' = [told EXCEPT ![BoxOf[c]] = v]
    BY <1>1, <1>4, <1>5
  <2>2. ~ torn => noted.logs = disk[BoxOf[c]].logs /\ noted.view = v
    BY <1>4, <1>5
  <2> HIDE DEF noted, v, s, e
  <2> QED
    BY <1>1, <1>2, <2>1, <2>2, RecordKept
<1> QED
  BY <1>1, <1>2, <1>6, <1>7 DEF TermInv, TermTyped

\* The answer of the server is shown.
LEMMA AnswerKept == ASSUME TermInv, NEW c \in Consoles, Answered(c) PROVE TermInv'
<1> DEFINE s == [copy[c][BoxOf[c]] EXCEPT !.view = running[c].view]
           e == <<"output", running[c].n>>
           v == running[c].view
<1>1. /\ c \in mounted /\ Changes(c, Logged(s, e)) /\ Records(c, e) /\ told' = [told EXCEPT ![BoxOf[c]] = v]
      /\ running' = [running EXCEPT ![c] = Off] /\ UNCHANGED <<mounted, cliView, entered>>
      /\ running[c] # Off /\ running[c].view # Off
  BY DEF Answered
<1>2. running[c] \in Asked
  BY <1>1 DEF TermInv, TermTyped
<1>3. v \in TermViews /\ e \in Entries
  BY <1>1, <1>2 DEF Asked, Entries
<1>4. copy[c][BoxOf[c]] \in Sessions /\ (~ torn => copy[c][BoxOf[c]].logs = disk[BoxOf[c]].logs)
  BY <1>1, CopyOf
<1>5. s \in Sessions /\ s.logs = copy[c][BoxOf[c]].logs /\ s.view = v
  BY <1>3, <1>4 DEF Sessions
<1>6. running' \in [Consoles -> {Off} \cup Asked]
  BY <1>1 DEF TermInv, TermTyped
<1> HIDE DEF s, e, v
<1>7. /\ disk' \in [Boxes -> Sessions] /\ copy' \in [Consoles -> [Boxes -> Sessions]]
      /\ typed' \in [Boxes -> Seq(Entries)] /\ told' \in [Boxes -> TermViews]
      /\ CopiesAgree' /\ HistoryKept'
  BY <1>1, <1>3, <1>4, <1>5, RecordKept
<1> QED
  BY <1>1, <1>6, <1>7 DEF TermInv, TermTyped

\* A call that failed is shown.
LEMMA FailureKept == ASSUME TermInv, NEW c \in Consoles, Failed(c) PROVE TermInv'
<1> DEFINE s == copy[c][BoxOf[c]]
           e == <<"error", running[c].n>>
<1>1. /\ c \in mounted /\ Changes(c, Logged(s, e)) /\ Records(c, e)
      /\ running' = [running EXCEPT ![c] = Off] /\ UNCHANGED <<mounted, cliView, entered, told>>
      /\ running[c] # Off
  BY DEF Failed
<1>2. running[c] \in Asked
  BY <1>1 DEF TermInv, TermTyped
<1>3. e \in Entries
  BY <1>2 DEF Asked, Entries
<1>4. /\ s \in Sessions /\ BoxOf[c] \in Boxes
      /\ ~ torn => s.logs = disk[BoxOf[c]].logs /\ s.view = told[BoxOf[c]]
  BY <1>1, CopyOf
<1>5. told' = [told EXCEPT ![BoxOf[c]] = told[BoxOf[c]]] /\ told[BoxOf[c]] \in TermViews
  BY <1>1, <1>4, NotTold DEF TermInv, TermTyped
<1>6. running' \in [Consoles -> {Off} \cup Asked]
  BY <1>1 DEF TermInv, TermTyped
<1> HIDE DEF s, e
<1>7. /\ disk' \in [Boxes -> Sessions] /\ copy' \in [Consoles -> [Boxes -> Sessions]]
      /\ typed' \in [Boxes -> Seq(Entries)] /\ told' \in [Boxes -> TermViews]
      /\ CopiesAgree' /\ HistoryKept'
  BY <1>1, <1>3, <1>4, <1>5, RecordKept
<1> QED
  BY <1>1, <1>6, <1>7 DEF TermInv, TermTyped

\* The screen of a terminal is cleared.
LEMMA ClearKept == ASSUME TermInv, NEW c \in Consoles, ClearScreen(c) PROVE TermInv'
<1> DEFINE s == [copy[c][BoxOf[c]] EXCEPT !.logs = <<>>]
<1>1. /\ c \in mounted /\ Changes(c, s) /\ typed' = [typed EXCEPT ![BoxOf[c]] = <<>>]
      /\ torn' = (torn \/ ~ mounted \subseteq {c}) /\ UNCHANGED <<mounted, running, cliView, entered, told>>
  BY DEF ClearScreen
<1>2. /\ copy[c][BoxOf[c]] \in Sessions /\ BoxOf[c] \in Boxes /\ (~ torn => copy[c][BoxOf[c]].view = told[BoxOf[c]])
  BY <1>1, CopyOf
<1>3. s \in Sessions /\ s.logs = <<>> /\ s.view = copy[c][BoxOf[c]].view /\ <<>> \in Seq(Entries)
  <2>1. <<>> \in Seq(Entries)
    BY EmptySeq
  <2> QED
    BY <1>2, <2>1 DEF Sessions
<1>4. told' = [told EXCEPT ![BoxOf[c]] = told[BoxOf[c]]] /\ told[BoxOf[c]] \in TermViews
  BY <1>1, <1>2, NotTold DEF TermInv, TermTyped
<1> HIDE DEF s
<1>5. /\ disk' \in [Boxes -> Sessions] /\ copy' \in [Consoles -> [Boxes -> Sessions]]
      /\ typed' \in [Boxes -> Seq(Entries)] /\ told' \in [Boxes -> TermViews]
      /\ CopiesAgree' /\ HistoryKept'
  BY <1>1, <1>2, <1>3, <1>4, ChangeKept
<1> QED
  BY <1>1, <1>5 DEF TermInv, TermTyped

\* Steps that store nothing.
LEMMA QuietKept ==
  ASSUME TermInv, UNCHANGED <<disk, copy, typed, told, entered>>, mounted' \subseteq mounted, torn => torn',
         running' \in [Consoles -> {Off} \cup Asked], cliView' \in [Boxes -> TermViews]
  PROVE  TermInv'
BY DEF TermInv, TermTyped, CopiesAgree, HistoryKept

\* With one terminal at a time that waits for its answers, the storage has the newest entries
\* of every device's log, and the view the server told last (CliTerminal.tsx).
THEOREM HistoryStaysKept == TermSpec => []HistoryKept
<1>1. TermInit => TermInv
  <2> SUFFICES ASSUME TermInit PROVE TermInv
    OBVIOUS
  <2>1. Empty \in [Boxes -> Sessions] /\ \A b \in Boxes : Empty[b].logs = <<>> /\ Empty[b].view = "user"
    BY DEF Empty, Fresh, Sessions, TermViews
  <2> QED
    BY <2>1 DEF TermInit, TermInv, TermTyped, CopiesAgree, HistoryKept, TermViews
<1>2. TermInv /\ [TermNext]_termVars => TermInv'
  <2> SUFFICES ASSUME TermInv, [TermNext]_termVars PROVE TermInv'
    OBVIOUS
  <2>0. running \in [Consoles -> {Off} \cup Asked] /\ cliView \in [Boxes -> TermViews] /\ BoxOf \in [Consoles -> Boxes]
    BY ConsolesAssumption DEF TermInv, TermTyped
  <2>1. ASSUME NEW c \in Consoles, Unmount(c) PROVE TermInv'
    <3>1. mounted' \subseteq mounted /\ UNCHANGED <<disk, copy, running, cliView, entered, typed, told, torn>>
      BY <2>1 DEF Unmount
    <3> QED
      BY <2>0, <3>1, QuietKept
  <2>2. ASSUME NEW c \in Consoles, ServerRuns(c) PROVE TermInv'
    <3> DEFINE v == ViewAfter(running[c].cmd, cliView[BoxOf[c]])
    <3>1. /\ running[c] # Off /\ UNCHANGED <<disk, mounted, copy, entered, typed, told, torn>>
          /\ cliView' = [cliView EXCEPT ![BoxOf[c]] = v] /\ running' = [running EXCEPT ![c] = [@ EXCEPT !.view = v]]
      BY <2>2 DEF ServerRuns
    <3>2. v \in TermViews
      BY <2>0 DEF ViewAfter, TermViews
    <3> HIDE DEF v
    <3>3. [running[c] EXCEPT !.view = v] \in Asked
      BY <2>0, <3>1, <3>2 DEF Asked
    <3>4. running' \in [Consoles -> {Off} \cup Asked] /\ cliView' \in [Boxes -> TermViews]
      BY <2>0, <3>1, <3>2, <3>3
    <3> QED
      BY <3>1, <3>4, QuietKept
  <2>3. ASSUME NEW c \in Consoles, TooLate(c) PROVE TermInv'
    <3>1. /\ torn' /\ UNCHANGED <<disk, mounted, copy, cliView, entered, typed, told>>
          /\ running' = [running EXCEPT ![c] = Off]
      BY <2>3 DEF TooLate
    <3>2. running' \in [Consoles -> {Off} \cup Asked]
      BY <2>0, <3>1
    <3> QED
      BY <2>0, <3>1, <3>2, QuietKept
  <2>4. ASSUME NEW b \in Boxes, ServerForgets(b) PROVE TermInv'
    <3>1. /\ UNCHANGED <<disk, mounted, copy, running, entered, typed, told, torn>>
          /\ cliView' = [cliView EXCEPT ![b] = "user"]
      BY <2>4 DEF ServerForgets
    <3>2. cliView' \in [Boxes -> TermViews]
      BY <2>0, <3>1 DEF TermViews
    <3> QED
      BY <2>0, <3>1, <3>2, QuietKept
  <2>5. CASE UNCHANGED termVars
    <3>1. UNCHANGED <<disk, mounted, copy, running, cliView, entered, typed, told, torn>>
      BY <2>5 DEF termVars
    <3> QED
      BY <2>0, <3>1, QuietKept
  <2> QED
    BY <2>1, <2>2, <2>3, <2>4, <2>5, MountKept, ClearKept, EnterKept, AnswerKept, FailureKept DEF TermNext
<1>3. TermInv => HistoryKept
  BY DEF TermInv
<1> QED
  BY <1>1, <1>2, <1>3, PTL DEF TermSpec

-----------------------------------------------------------------------------
(* The browser tab.                                                        *)

CallSet ==
  [op : {"load", "create", "drop"}, topo : Graphs, item : {Blank}]
  \cup [op : {"add"}, topo : Graphs, item : Items]
  \cup [op : {"power", "delete"}, topo : Graphs, item : Gadgets]
  \cup [op : {"forget"}, topo : Graphs, item : Notes]

AnswerSet == [call : CallSet, ok : BOOLEAN, doc : Docs \cup {Blank}]

ScreenTyped ==
  /\ server \in [Graphs -> Docs \cup {Blank}]
  /\ \A g \in Graphs : server[g] # Blank => server[g].topo = g
  /\ selected \in Graphs \cup {Blank} /\ chosen \in Gadgets \cup {Blank}
  /\ sent \subseteq CallSet /\ IsFiniteSet(sent)
  /\ answers \in Seq(AnswerSet)

\* A call is the p-th to be answered; those not served yet come after all answers.
CallAt(p, c) == IF p > Len(answers) THEN c \in sent ELSE answers[p].call = c

Positions == 1..Len(answers) + 1

\* The notes of a topology whose deletion is under way.
Forgotten(g) == {n \in Notes : Call("forget", g, n) \in Calls}

\* What a call makes of the document old of topology g.
Follows(a, g, old, new) ==
  IF a.ok /\ a.call.topo = g
  THEN /\ old = Blank <=> a.call.op = "create"
       /\ a.call.op = "power" => a.call.item \in old.items
       /\ new = Served(a.call, old) /\ a.doc = new
  ELSE new = old

\* S[i] is the document of topology g after the i-th of the calls that wait for their
\* answers to be delivered.
History(g, S) ==
  /\ S \in [0..Len(answers) -> Docs \cup {Blank}]
  /\ S[Len(answers)] = server[g]
  /\ \A i \in 0..Len(answers) : S[i] # Blank => S[i].topo = g
  /\ \A i \in 1..Len(answers) : Follows(answers[i], g, S[i - 1], S[i])

Has(S, i, x) == S[i] # Blank /\ x \in S[i].items

\* A note that is being deleted has been there since the document that is shown.
ForgetsLate(g, S) ==
  \A p \in Positions, n \in Notes : CallAt(p, Call("forget", g, n)) =>
    \A i \in 0..p - 1 : (\A j \in 0..i : S[j] # Blank) => Has(S, i, n)

\* An item that is added has not been there, unless the topology went meanwhile, and no
\* deletion of it is under way.
AddsOnce(g, S) ==
  \A p \in Positions, x \in Items : CallAt(p, Call("add", g, x)) =>
    /\ \A i \in 0..p - 1 : Has(S, i, x) => \E j \in i + 1..p - 1 : S[j] = Blank
    /\ Call("forget", g, x) \in Calls => \E j \in 0..p - 1 : S[j] = Blank

\* The screen shows the document before the answers under way, without the notes that are
\* being deleted.
Less(doc, ns) == [doc EXCEPT !.items = @ \ ns]
ShowsFirst(g, S) ==
  shown # Blank /\ shown.topo = g => S[0] # Blank /\ shown = Less(S[0], Forgotten(g))

ForgetsOnce ==
  \A p, q \in Positions, g \in Graphs, n \in Notes :
    CallAt(p, Call("forget", g, n)) /\ CallAt(q, Call("forget", g, n)) => p = q

InStep(g) == \E S : History(g, S) /\ ForgetsLate(g, S) /\ AddsOnce(g, S) /\ ShowsFirst(g, S)

ScreenInv ==
  /\ ScreenTyped
  /\ ~ crossed => /\ shown \in Docs \cup {Blank}
                  /\ ForgetsOnce
                  /\ shown # Blank /\ shown.topo # selected => Awaited("load")
                  /\ \A g \in Graphs : InStep(g)

\* Documents are the same when their parts are.
LEMMA SameDoc ==
  ASSUME NEW d \in Docs, NEW e \in Docs, d.topo = e.topo, d.items = e.items, d.on = e.on
  PROVE  d = e
BY DEF Docs

\* The parts of a document without some notes.
LEMMA LessDoc ==
  ASSUME NEW d \in Docs, NEW ns
  PROVE  Less(d, ns) \in Docs /\ Less(d, ns).topo = d.topo /\ Less(d, ns).items = d.items \ ns /\ Less(d, ns).on = d.on
BY DEF Docs, Less

\* The parts of a document without an item.
LEMMA WithoutDoc ==
  ASSUME NEW d \in Docs, NEW x
  PROVE  /\ Without(d, x) \in Docs /\ Without(d, x).topo = d.topo
         /\ Without(d, x).items = d.items \ {x} /\ Without(d, x).on = d.on \ {x}
BY BlankAssumption DEF Docs, Without

\* The parts of a document with an item.
LEMMA WithDoc ==
  ASSUME NEW d \in Docs, NEW x \in Items
  PROVE  /\ With(d, x) \in Docs /\ With(d, x).topo = d.topo
         /\ With(d, x).items = d.items \cup {x} /\ With(d, x).on = d.on
BY BlankAssumption DEF Docs, With

\* What is called, and about what.
LEMMA CallOf ==
  ASSUME NEW c \in CallSet
  PROVE  /\ c.op \in {"load", "create", "drop", "add", "power", "delete", "forget"} /\ c.topo \in Graphs
         /\ c.op = "add" => c.item \in Items
         /\ c.op \in {"power", "delete"} => c.item \in Gadgets
         /\ c.op = "forget" => c.item \in Notes
         /\ c = Call(c.op, c.topo, c.item)
BY DEF CallSet, Call

\* The parts of a document that has been served.
LEMMA ServedDoc ==
  ASSUME NEW c \in CallSet, NEW d \in Docs, c.op # "create", c.op # "drop"
  PROVE  /\ Served(c, d) \in Docs /\ Served(c, d).topo = d.topo
         /\ c.op \in {"load", "power"} => Served(c, d).items = d.items
         /\ c.op = "load" => Served(c, d) = d
         /\ c.op = "add" => Served(c, d) = With(d, c.item)
         /\ c.op \in {"delete", "forget"} => Served(c, d) = Without(d, c.item)
         /\ c.op = "power" => Served(c, d).on = IF c.item \in d.on THEN d.on \ {c.item} ELSE d.on \cup {c.item}
<1>1. c.op \in {"load", "add", "power", "delete", "forget"}
  BY CallOf
<1>2. CASE c.op = "load"
  BY <1>2 DEF Served
<1>3. CASE c.op = "add"
  <2>1. c.item \in Items /\ Served(c, d) = With(d, c.item)
    BY <1>3, CallOf DEF Served
  <2> QED
    BY <1>3, <2>1, WithDoc
<1>4. CASE c.op \in {"delete", "forget"}
  <2>1. Served(c, d) = Without(d, c.item)
    BY <1>4 DEF Served
  <2> QED
    BY <1>4, <2>1, WithoutDoc
<1>5. CASE c.op = "power"
  <2> DEFINE on == IF c.item \in d.on THEN d.on \ {c.item} ELSE d.on \cup {c.item}
  <2>1. c.item \in Gadgets /\ Served(c, d) = [d EXCEPT !.on = on]
    BY <1>5, CallOf DEF Served
  <2>2. on \subseteq Gadgets
    BY <2>1 DEF Docs
  <2> HIDE DEF on
  <2>3. /\ [d EXCEPT !.on = on] \in Docs /\ [d EXCEPT !.on = on].topo = d.topo
        /\ [d EXCEPT !.on = on].items = d.items /\ [d EXCEPT !.on = on].on = on
    BY <2>2 DEF Docs
  <2> QED
    BY <1>5, <2>1, <2>3 DEF on
<1> QED
  BY <1>1, <1>2, <1>3, <1>4, <1>5

\* A served document is one of its topology.
LEMMA FollowsTyped ==
  ASSUME NEW a, a.call \in CallSet, NEW g \in Graphs, NEW old \in Docs \cup {Blank}, NEW new,
         Follows(a, g, old, new), old # Blank => old.topo = g
  PROVE  new \in Docs \cup {Blank} /\ (new # Blank => new.topo = g)
<1>1. a.call \in CallSet
  OBVIOUS
<1>2. CASE ~ (a.ok /\ a.call.topo = g)
  BY <1>2 DEF Follows
<1>3. CASE a.ok /\ a.call.topo = g
  <2>1. (old = Blank <=> a.call.op = "create") /\ new = Served(a.call, old)
    BY <1>3 DEF Follows
  <2>2. CASE a.call.op = "create"
    BY <1>3, <2>1, <2>2 DEF Served, New, Docs
  <2>3. CASE a.call.op = "drop"
    BY <2>1, <2>3 DEF Served
  <2>4. CASE a.call.op # "create" /\ a.call.op # "drop"
    BY <1>1, <2>1, <2>4, ServedDoc
  <2> QED
    BY <2>2, <2>3, <2>4
<1> QED
  BY <1>2, <1>3

\* What is gone after a call, though the topology is not, was deleted by it.
LEMMA FollowsLoses ==
  ASSUME NEW a \in AnswerSet, NEW g \in Graphs, NEW old \in Docs, NEW new \in Docs, Follows(a, g, old, new),
         NEW x \in old.items, x \notin new.items
  PROVE  a.call.op \in {"delete", "forget"} /\ a.call.topo = g /\ a.call.item = x
<1> DEFINE c == a.call
<1>1. c \in CallSet /\ old # Blank /\ new # Blank
  BY BlankAssumption DEF AnswerSet
<1>2. a.ok /\ c.topo = g
  BY DEF Follows
<1>3. c.op # "create" /\ new = Served(c, old)
  BY <1>1, <1>2 DEF Follows
<1> HIDE DEF c
<1>4. c.op # "drop"
  BY <1>1, <1>3 DEF Served
<1>5. c.op \notin {"load", "power"}
  BY <1>1, <1>3, <1>4, ServedDoc
<1>6. ASSUME c.op = "add" PROVE FALSE
  <2>1. new = With(old, c.item) /\ c.item \in Items
    BY <1>1, <1>3, <1>6, ServedDoc, CallOf
  <2> QED
    BY <2>1, WithDoc
<1>7. c.op \in {"delete", "forget"}
  BY <1>1, <1>3, <1>4, <1>5, <1>6, CallOf
<1>8. new = Without(old, c.item)
  BY <1>1, <1>3, <1>7, ServedDoc
<1>9. c.item = x
  BY <1>8, WithoutDoc
<1> QED
  BY <1>2, <1>7, <1>9 DEF c

\* What is new after a call was added by it.
LEMMA FollowsAdds ==
  ASSUME NEW a \in AnswerSet, NEW g \in Graphs, NEW old \in Docs \cup {Blank}, NEW new \in Docs, Follows(a, g, old, new),
         NEW x \in new.items, old # Blank => x \notin old.items
  PROVE  a.call.op = "add" /\ a.call.topo = g /\ a.call.item = x
<1> DEFINE c == a.call
<1>1. c \in CallSet /\ new # Blank
  BY BlankAssumption DEF AnswerSet
<1>2. a.ok /\ c.topo = g
  BY <1>1 DEF Follows
<1>3. (c.op = "create" <=> old = Blank) /\ new = Served(c, old)
  BY <1>2 DEF Follows
<1> HIDE DEF c
<1>4. c.op # "create"
  BY <1>3 DEF Served, New
<1>5. old \in Docs /\ x \notin old.items
  BY <1>3, <1>4
<1>6. c.op # "drop"
  BY <1>1, <1>3 DEF Served
<1>7. c.op \notin {"load", "power"}
  BY <1>1, <1>3, <1>4, <1>5, <1>6, ServedDoc
<1>8. ASSUME c.op \in {"delete", "forget"} PROVE FALSE
  <2>1. new = Without(old, c.item)
    BY <1>1, <1>3, <1>5, <1>8, ServedDoc
  <2> QED
    BY <2>1, <1>5, WithoutDoc
<1>9. c.op = "add"
  BY <1>1, <1>4, <1>6, <1>7, <1>8, CallOf
<1>10. new = With(old, c.item) /\ c.item \in Items
  BY <1>1, <1>3, <1>5, <1>9, ServedDoc, CallOf
<1>11. c.item = x
  BY <1>5, <1>10, WithDoc
<1> QED
  BY <1>2, <1>9, <1>11 DEF c

\* The calls are those at some position.
LEMMA CallsAre ==
  ASSUME answers \in Seq(AnswerSet), NEW c
  PROVE  c \in Calls <=> \E p \in Positions : CallAt(p, c)
<1>1. Len(answers) \in Nat
  BY LenProperties
<1>2. \A p \in Positions : p > Len(answers) <=> p = Len(answers) + 1
  BY <1>1 DEF Positions
<1>3. 1..Len(answers) \subseteq Positions /\ Len(answers) + 1 \in Positions
  BY <1>1 DEF Positions
<1>4. \A p \in Positions : p # Len(answers) + 1 => p \in 1..Len(answers)
  BY <1>1 DEF Positions
<1> QED
  BY <1>2, <1>3, <1>4 DEF Calls, CallAt

\* Each call is of its kind.
LEMMA CallsTyped == ASSUME ScreenTyped PROVE Calls \subseteq CallSet
<1>1. \A i \in 1..Len(answers) : answers[i].call \in CallSet
  <2>1. \A i \in 1..Len(answers) : answers[i] \in AnswerSet
    BY ElementOfSeq DEF ScreenTyped
  <2> QED
    BY <2>1 DEF AnswerSet
<1> QED
  BY <1>1 DEF Calls, ScreenTyped

\* A step that leaves the documents and the answers alone, and adds and removes no addition
\* to a topology and no deletion of a note from it.
LEMMA SameTopology ==
  ASSUME ScreenTyped, NEW g \in Graphs, InStep(g), UNCHANGED <<server, answers>>,
         \A x : Call("add", g, x) \in sent' <=> Call("add", g, x) \in sent,
         \A x : Call("forget", g, x) \in sent' <=> Call("forget", g, x) \in sent,
         shown' # Blank /\ shown'.topo = g => shown' = shown
  PROVE  InStep(g)'
<1>1. PICK S : History(g, S) /\ ForgetsLate(g, S) /\ AddsOnce(g, S) /\ ShowsFirst(g, S)
  BY DEF InStep
<1>2. Positions' = Positions
  BY DEF Positions
<1>3. \A p, x : /\ CallAt(p, Call("add", g, x))' <=> CallAt(p, Call("add", g, x))
                /\ CallAt(p, Call("forget", g, x))' <=> CallAt(p, Call("forget", g, x))
  BY DEF CallAt
<1>4. \A x : (Call("forget", g, x) \in Calls)' <=> Call("forget", g, x) \in Calls
  BY DEF Calls
<1>5. History(g, S)'
  BY <1>1 DEF History
<1>6. ForgetsLate(g, S)'
  BY <1>1, <1>2, <1>3 DEF ForgetsLate
<1>7. AddsOnce(g, S)'
  BY <1>1, <1>2, <1>3, <1>4 DEF AddsOnce
<1>8. Forgotten(g)' = Forgotten(g)
  BY <1>4 DEF Forgotten
<1>9. ShowsFirst(g, S)'
  BY <1>1, <1>8 DEF ShowsFirst
<1> QED
  BY <1>5, <1>6, <1>7, <1>9 DEF InStep

\* Nothing is added or deleted, and what is shown stays or goes.
LEMMA ScreenQuiet ==
  ASSUME ScreenInv, ScreenTyped', UNCHANGED <<server, answers>>, sent \subseteq sent',
         \A c \in sent' \ sent : c.op # "add" /\ c.op # "forget",
         crossed => crossed',
         shown' = shown \/ shown' = Blank,
         selected' = selected \/ shown' = Blank \/ Call("load", selected', Blank) \in sent'
  PROVE  ScreenInv'
<1> SUFFICES ASSUME ~ crossed'
             PROVE  /\ shown' \in Docs \cup {Blank} /\ ForgetsOnce'
                    /\ shown' # Blank /\ shown'.topo # selected' => Awaited("load")'
                    /\ \A g \in Graphs : InStep(g)'
  BY DEF ScreenInv
<1>1. /\ ScreenTyped /\ shown \in Docs \cup {Blank} /\ ForgetsOnce
      /\ shown # Blank /\ shown.topo # selected => Awaited("load")
      /\ \A g \in Graphs : InStep(g)
  BY DEF ScreenInv
<1>2. \A g, x : /\ Call("add", g, x) \in sent' <=> Call("add", g, x) \in sent
                /\ Call("forget", g, x) \in sent' <=> Call("forget", g, x) \in sent
  <2>1. \A g, x : Call("add", g, x).op = "add" /\ Call("forget", g, x).op = "forget"
    BY DEF Call
  <2> QED
    BY <2>1
<1>3. ForgetsOnce'
  <2>1. \A p, g, n : CallAt(p, Call("forget", g, n))' <=> CallAt(p, Call("forget", g, n))
    BY <1>2 DEF CallAt
  <2>2. Positions' = Positions
    BY DEF Positions
  <2> QED
    BY <1>1, <2>1, <2>2 DEF ForgetsOnce
<1>4. ASSUME shown' # Blank, shown'.topo # selected' PROVE Awaited("load")'
  <2>1. Calls \subseteq Calls' /\ sent' \subseteq Calls'
    BY DEF Calls
  <2>2. CASE selected' = selected
    BY <1>1, <1>4, <2>1, <2>2 DEF Awaited
  <2>3. CASE Call("load", selected', Blank) \in sent'
    BY <2>1, <2>3 DEF Awaited, Call
  <2> QED
    BY <1>4, <2>2, <2>3
<1>5. ASSUME NEW g \in Graphs PROVE InStep(g)'
  BY <1>1, <1>2, SameTopology
<1> QED
  BY <1>1, <1>3, <1>4, <1>5

\* The server answers one of the calls.
LEMMA ServeKept == ASSUME ScreenInv, NEW c0 \in sent, NEW ok \in BOOLEAN, Serve(c0, ok) PROVE ScreenInv'
<1> DEFINE a0 == [call |-> c0, ok |-> ok, doc |-> IF ok THEN server'[c0.topo] ELSE Blank]
<1>1. ScreenTyped /\ c0 \in CallSet /\ c0.topo \in Graphs
  BY CallOf DEF ScreenInv, ScreenTyped
<1>N. PICK N \in Nat : N = Len(answers)
  BY <1>1, LenProperties DEF ScreenTyped
<1>2. /\ sent' = sent \ {c0} /\ answers' = Append(answers, a0)
      /\ UNCHANGED <<selected, shown, chosen, crossed>>
  BY DEF Serve, screen
<1>3. server' = IF ok THEN [server EXCEPT ![c0.topo] = Served(c0, server[c0.topo])] ELSE server
  BY DEF Serve
<1>4. ok => Succeeds(c0)
  BY DEF Serve
<1>a. a0.call = c0
  BY DEF a0
<1> HIDE DEF a0
<1>5. \A g \in Graphs : Follows(a0, g, server[g], server'[g])
  <2> SUFFICES ASSUME NEW g \in Graphs PROVE Follows(a0, g, server[g], server'[g])
    OBVIOUS
  <2>1. CASE ok /\ c0.topo = g
    <3>1. server'[g] = Served(c0, server[g])
      BY <1>1, <1>3, <2>1 DEF ScreenTyped
    <3>2. (server[g] = Blank <=> c0.op = "create") /\ (c0.op = "power" => c0.item \in server[g].items)
      BY <1>4, <2>1 DEF Succeeds
    <3> QED
      BY <2>1, <3>1, <3>2 DEF Follows, a0
  <2>2. CASE ~ (ok /\ c0.topo = g)
    <3>1. server'[g] = server[g]
      BY <1>1, <1>3, <2>2 DEF ScreenTyped
    <3> QED
      BY <2>2, <3>1 DEF Follows, a0
  <2> QED
    BY <2>1, <2>2
<1>c. \A g \in Graphs : server'[g] \in Docs \cup {Blank} /\ (server'[g] # Blank => server'[g].topo = g)
  <2> SUFFICES ASSUME NEW g \in Graphs PROVE server'[g] \in Docs \cup {Blank} /\ (server'[g] # Blank => server'[g].topo = g)
    OBVIOUS
  <2>1. server[g] \in Docs \cup {Blank} /\ (server[g] # Blank => server[g].topo = g)
    BY <1>1 DEF ScreenTyped
  <2> QED
    BY <1>1, <1>a, <1>5, <2>1, FollowsTyped
<1>b. a0 \in AnswerSet
  BY <1>1, <1>c DEF a0, AnswerSet
<1>6. ScreenTyped'
  <2>2. server' \in [Graphs -> Docs \cup {Blank}]
    <3>1. server' = [g \in Graphs |-> server'[g]]
      BY <1>1, <1>3 DEF ScreenTyped
    <3> QED
      BY <1>c, <3>1
  <2>4. answers' \in Seq(AnswerSet)
    BY <1>1, <1>2, <1>b, AppendProperties DEF ScreenTyped
  <2>5. sent' \subseteq CallSet /\ IsFiniteSet(sent')
    BY <1>1, <1>2, FS_RemoveElement DEF ScreenTyped
  <2> QED
    BY <1>1, <1>2, <1>c, <2>2, <2>4, <2>5 DEF ScreenTyped
<1>7. /\ Len(answers') = N + 1 /\ answers'[N + 1] = a0
      /\ \A i \in 1..N : answers'[i] = answers[i]
  <2>1. answers \in Seq(AnswerSet) /\ a0 \in AnswerSet
    BY <1>1, <1>b DEF ScreenTyped
  <2> QED
    BY <1>N, <1>2, <2>1, AppendProperties
<1>8. Positions = 1..N + 1 /\ Positions' = 1..N + 2
  BY <1>N, <1>1, <1>7 DEF Positions
<1>9. \A p \in 1..N + 1 : \A c : CallAt(p, c)' => CallAt(p, c)
  <2> SUFFICES ASSUME NEW p \in 1..N + 1, NEW c, CallAt(p, c)' PROVE CallAt(p, c)
    OBVIOUS
  <2>1. ~ (p > N + 1) /\ (p > N => p = N + 1)
    BY <1>N, <1>1
  <2>2. answers'[p].call = c
    BY <1>N, <1>7, <2>1 DEF CallAt
  <2>3. CASE p > N
    BY <1>N, <1>a, <1>7, <2>1, <2>2, <2>3 DEF CallAt
  <2>4. CASE ~ (p > N)
    BY <1>N, <1>1, <1>7, <2>1, <2>2, <2>4 DEF CallAt
  <2> QED
    BY <2>3, <2>4
<1>10. \A c : CallAt(N + 2, c)' => CallAt(N + 1, c) /\ c # c0
  <2>1. N + 2 > N + 1 /\ N + 1 > N
    BY <1>N, <1>1
  <2> QED
    BY <1>N, <1>2, <1>7, <2>1 DEF CallAt
<1>11. \A c : CallAt(N + 1, c)' => c = c0
  <2>1. ~ (N + 1 > N + 1)
    BY <1>N, <1>1
  <2> QED
    BY <1>N, <1>a, <1>7, <2>1 DEF CallAt
<1>12. Calls' = Calls
  <2>1. \A c : (\E i \in 1..N + 1 : answers'[i].call = c) <=> c = c0 \/ \E i \in 1..N : answers[i].call = c
    <3>1. 1..N + 1 = (1..N) \cup {N + 1}
      BY <1>N, <1>1
    <3> QED
      BY <1>N, <1>a, <1>7, <3>1
  <2> QED
    BY <1>N, <1>2, <1>7, <2>1 DEF Calls
<1> SUFFICES ASSUME ~ crossed
             PROVE  /\ shown' \in Docs \cup {Blank} /\ ForgetsOnce'
                    /\ shown' # Blank /\ shown'.topo # selected' => Awaited("load")'
                    /\ \A g \in Graphs : InStep(g)'
  BY <1>2, <1>6 DEF ScreenInv
<1>13. /\ shown \in Docs \cup {Blank} /\ ForgetsOnce
       /\ shown # Blank /\ shown.topo # selected => Awaited("load")
       /\ \A g \in Graphs : InStep(g)
  BY DEF ScreenInv
<1>14. ForgetsOnce'
  <2> SUFFICES ASSUME NEW p \in 1..N + 2, NEW q \in 1..N + 2, NEW g \in Graphs, NEW n \in Notes,
                      CallAt(p, Call("forget", g, n))', CallAt(q, Call("forget", g, n))'
               PROVE  p = q
    BY <1>N, <1>8 DEF ForgetsOnce
  <2> DEFINE c == Call("forget", g, n)
             old(r) == IF r = N + 2 THEN N + 1 ELSE r
  <2>1. \A r \in 1..N + 2 : old(r) \in 1..N + 1 /\ (r # N + 2 => old(r) = r) /\ old(N + 2) = N + 1
    BY <1>N, <1>1
  <2> HIDE DEF old
  <2>2. CallAt(old(p), c) /\ CallAt(old(q), c)
    <3> HIDE DEF c
    <3>1. ASSUME NEW r \in 1..N + 2, CallAt(r, c)' PROVE CallAt(old(r), c)
      <4>1. CASE r = N + 2
        BY <1>10, <2>1, <3>1, <4>1
      <4>2. CASE r # N + 2
        <5>1. r \in 1..N + 1 /\ old(r) = r
          BY <1>N, <1>1, <2>1, <4>2
        <5> QED
          BY <1>9, <3>1, <5>1
      <4> QED
        BY <4>1, <4>2
    <3> QED
      BY <3>1 DEF c
  <2>3. old(p) = old(q)
    BY <1>N, <1>8, <1>13, <2>1, <2>2 DEF ForgetsOnce
  <2>4. \A r, s \in {p, q} : r = N + 2 => s # N + 1
    BY <1>10, <1>11
  <2> QED
    BY <1>N, <1>1, <2>1, <2>3, <2>4
<1>15. Awaited("load")' <=> Awaited("load")
  BY <1>2, <1>12 DEF Awaited
<1>16. ASSUME NEW g \in Graphs PROVE InStep(g)'
  <2>1. PICK S : History(g, S) /\ ForgetsLate(g, S) /\ AddsOnce(g, S) /\ ShowsFirst(g, S)
    BY <1>13, <1>16 DEF InStep
  <2>a. PICK T : T = [i \in 0..N + 1 |-> IF i <= N THEN S[i] ELSE server'[g]]
    OBVIOUS
  <2>2. /\ S \in [0..N -> Docs \cup {Blank}] /\ S[N] = server[g]
        /\ \A i \in 0..N : S[i] # Blank => S[i].topo = g
        /\ \A i \in 1..N : Follows(answers[i], g, S[i - 1], S[i])
    BY <1>N, <2>1 DEF History
  <2>3. /\ \A i \in 0..N : T[i] = S[i] /\ i \in 0..N + 1
        /\ T[N + 1] = server'[g] /\ N \in 0..N
        /\ \A i \in 0..N + 1 : i \in 0..N \/ i = N + 1
    BY <1>N, <2>a
  <2>4. server'[g] \in Docs \cup {Blank} /\ (server'[g] # Blank => server'[g].topo = g)
    BY <1>6, <1>16 DEF ScreenTyped
  <2>5. T \in [0..N + 1 -> Docs \cup {Blank}]
    BY <1>N, <1>1, <2>2, <2>4, <2>a
  <2>6. Follows(a0, g, T[N], T[N + 1])
    BY <1>N, <1>5, <1>16, <2>2, <2>3
  <2>7. History(g, T)'
    <3>1. \A i \in 1..N + 1 : Follows(answers'[i], g, T[i - 1], T[i])
      <4> SUFFICES ASSUME NEW i \in 1..N + 1 PROVE Follows(answers'[i], g, T[i - 1], T[i])
        OBVIOUS
      <4>1. CASE i = N + 1
        <5>1. i - 1 = N
          BY <1>N, <1>1, <4>1
        <5> QED
          BY <1>N, <1>7, <2>6, <4>1, <5>1
      <4>2. CASE i # N + 1
        <5>1. i \in 1..N /\ i - 1 \in 0..N /\ i \in 0..N
          BY <1>N, <1>1, <4>2
        <5> QED
          BY <1>N, <1>7, <2>2, <2>3, <5>1
      <4> QED
        BY <4>1, <4>2
    <3>2. \A i \in 0..N + 1 : T[i] # Blank => T[i].topo = g
      BY <1>N, <2>2, <2>3, <2>4
    <3> QED
      BY <1>N, <1>7, <2>3, <2>5, <3>1, <3>2 DEF History, Follows
  <2>8. ForgetsLate(g, T)'
    <3> SUFFICES ASSUME NEW p \in 1..N + 2, NEW n \in Notes, CallAt(p, Call("forget", g, n))',
                        NEW i \in 0..p - 1, \A j \in 0..i : T[j] # Blank
                 PROVE  Has(T, i, n)
      BY <1>8 DEF ForgetsLate, Has
    <3>1. ASSUME NEW q \in 1..N + 1, CallAt(q, Call("forget", g, n)), NEW k \in 0..q - 1, k <= i PROVE Has(T, k, n)
      <4>1. k \in 0..N /\ \A j \in 0..k : j \in 0..N /\ j \in 0..i
        BY <1>N, <3>1
      <4>2. \A j \in 0..k : S[j] # Blank
        BY <2>3, <4>1
      <4>3. Has(S, k, n)
        BY <1>8, <2>1, <3>1, <4>2 DEF ForgetsLate
      <4> QED
        BY <2>3, <4>1, <4>3 DEF Has
    <3>2. CASE p # N + 2
      <4>1. p \in 1..N + 1
        BY <1>N, <3>2
      <4> QED
        BY <1>9, <3>1, <4>1
    <3>3. CASE p = N + 2
      <4>1. CallAt(N + 1, Call("forget", g, n)) /\ Call("forget", g, n) # c0
        BY <1>10, <3>3
      <4>2. CASE i # N + 1
        <5>1. N + 1 \in 1..N + 1 /\ i \in 0..N + 1 - 1 /\ i <= i
          BY <1>N, <3>3, <4>2
        <5> QED
          BY <3>1, <4>1, <5>1
      <4>3. CASE i = N + 1
        <5>1. N + 1 \in 1..N + 1 /\ N \in 0..N + 1 - 1 /\ N <= i /\ i \in 0..i
          BY <1>N, <4>3
        <5>2. Has(T, N, n) /\ T[i] # Blank
          BY <3>1, <4>1, <5>1
        <5>3. ASSUME n \notin T[i].items PROVE FALSE
          <6>1. T[N] \in Docs /\ T[i] \in Docs
            BY <2>2, <2>3, <2>4, <4>3, <5>2 DEF Has
          <6>2. c0.op \in {"delete", "forget"} /\ c0.topo = g /\ c0.item = n
            BY <1>a, <1>b, <2>6, <4>3, <5>2, <5>3, <6>1, FollowsLoses DEF Has
          <6>3. n \notin Gadgets
            BY ItemsAssumption
          <6> QED
            BY <1>1, <4>1, <6>2, <6>3, CallOf
        <5> QED
          BY <5>2, <5>3 DEF Has
      <4> QED
        BY <4>2, <4>3
    <3> QED
      BY <3>2, <3>3
  <2>9. AddsOnce(g, T)'
    <3> SUFFICES ASSUME NEW p \in 1..N + 2, NEW x \in Items, CallAt(p, Call("add", g, x))'
                 PROVE  /\ \A i \in 0..p - 1 : Has(T, i, x) => \E j \in i + 1..p - 1 : T[j] = Blank
                        /\ Call("forget", g, x) \in Calls => \E j \in 0..p - 1 : T[j] = Blank
      BY <1>8, <1>12 DEF AddsOnce, Has
    <3>1. ASSUME NEW q \in 1..N + 1, CallAt(q, Call("add", g, x))
          PROVE  /\ \A i \in 0..q - 1 : Has(T, i, x) => \E j \in i + 1..q - 1 : T[j] = Blank
                 /\ Call("forget", g, x) \in Calls => \E j \in 0..q - 1 : T[j] = Blank
      <4>1. \A i \in 0..q - 1 : i \in 0..N
        BY <1>N
      <4>2. \A i \in 0..q - 1 : \A j \in i + 1..q - 1 : j \in 0..N
        BY <1>N
      <4>3. \A i \in 0..q - 1 : Has(S, i, x) => \E j \in i + 1..q - 1 : S[j] = Blank
        BY <1>8, <2>1, <3>1 DEF AddsOnce
      <4>4. Call("forget", g, x) \in Calls => \E j \in 0..q - 1 : S[j] = Blank
        BY <1>8, <2>1, <3>1 DEF AddsOnce
      <4> QED
        BY <2>3, <4>1, <4>2, <4>3, <4>4 DEF Has
    <3>2. CASE p # N + 2
      <4>1. p \in 1..N + 1
        BY <1>N, <3>2
      <4> QED
        BY <1>9, <3>1, <4>1
    <3>3. CASE p = N + 2
      <4>1. CallAt(N + 1, Call("add", g, x)) /\ Call("add", g, x) # c0
        BY <1>10, <3>3
      <4>2. /\ \A i \in 0..N : Has(T, i, x) => \E j \in i + 1..N : T[j] = Blank
            /\ Call("forget", g, x) \in Calls => \E j \in 0..N : T[j] = Blank
        <5>1. N + 1 \in 1..N + 1 /\ N + 1 - 1 = N
          BY <1>N
        <5> QED
          BY <3>1, <4>1, <5>1
      <4>3. ~ Has(T, N + 1, x)
        <5>1. SUFFICES ASSUME Has(T, N + 1, x) PROVE FALSE
          OBVIOUS
        <5>2. ~ Has(T, N, x)
          <6>1. ~ \E j \in N + 1..N : T[j] = Blank
            BY <1>N
          <6> QED
            BY <2>3, <4>2, <6>1
        <5>3. T[N] \in Docs \cup {Blank} /\ T[N + 1] \in Docs
          BY <2>2, <2>3, <2>4, <5>1 DEF Has
        <5>4. c0.op = "add" /\ c0.topo = g /\ c0.item = x
          BY <1>a, <1>b, <2>6, <5>1, <5>2, <5>3, FollowsAdds DEF Has
        <5> QED
          BY <1>1, <4>1, <5>4, CallOf
      <4>4. p - 1 = N + 1 /\ 0..N \subseteq 0..N + 1 /\ \A i \in 0..N + 1 : i \in 0..N \/ i = N + 1
        BY <1>N, <3>3
      <4>5. \A i \in 0..N : i + 1..N \subseteq i + 1..N + 1
        BY <1>N
      <4> QED
        BY <4>2, <4>3, <4>4, <4>5
    <3> QED
      BY <3>2, <3>3
  <2>10. ShowsFirst(g, T)'
    <3>1. T[0] = S[0] /\ Forgotten(g)' = Forgotten(g)
      BY <1>N, <1>12, <2>3 DEF Forgotten
    <3> QED
      BY <1>2, <2>1, <3>1 DEF ShowsFirst
  <2> QED
    BY <2>7, <2>8, <2>9, <2>10 DEF InStep
<1> QED
  BY <1>13, <1>14, <1>15, <1>16, <1>2

\* A sequence without its i-th element.
LEMMA Removed ==
  ASSUME NEW E, NEW s \in Seq(E), NEW i \in 1..Len(s)
  PROVE  /\ RemoveAt(s, i) \in Seq(E) /\ Len(RemoveAt(s, i)) = Len(s) - 1
         /\ i = 1 => \A j \in 1..Len(s) - 1 : RemoveAt(s, i)[j] = s[j + 1]
<1>1. PICK n \in Nat : n = Len(s)
  BY LenProperties
<1>2. \A j \in 1..n : s[j] \in E
  BY <1>1, ElementOfSeq
<1> DEFINE l == SubSeq(s, 1, i - 1)
           r == SubSeq(s, i + 1, n)
<1>3. l \in Seq(E) /\ Len(l) = i - 1
  <2>1. \A j \in 1..i - 1 : s[j] \in E
    BY <1>1, <1>2
  <2>2. 1 \in Int /\ i - 1 \in Int /\ (IF 1 <= i - 1 THEN i - 1 - 1 + 1 ELSE 0) = i - 1
    BY <1>1
  <2> QED
    BY <2>1, <2>2, SubSeqProperties
<1>4. /\ r \in Seq(E) /\ Len(r) = n - i
      /\ \A j \in 1..n - i : r[j] = s[i + j]
  <2>1. \A j \in i + 1..n : s[j] \in E
    BY <1>1, <1>2
  <2>2. i + 1 \in Int /\ n \in Int /\ (IF i + 1 <= n THEN n - (i + 1) + 1 ELSE 0) = n - i /\ n - (i + 1) + 1 = n - i
    BY <1>1
  <2>3. /\ r \in Seq(E) /\ Len(r) = n - i
        /\ \A j \in 1..n - (i + 1) + 1 : r[j] = s[i + 1 + j - 1]
    BY <2>1, <2>2, SubSeqProperties
  <2>4. \A j \in 1..n - i : i + 1 + j - 1 = i + j
    BY <1>1
  <2> QED
    BY <2>2, <2>3, <2>4
<1>5. RemoveAt(s, i) = l \o r
  BY <1>1 DEF RemoveAt
<1> HIDE DEF l, r
<1>6. /\ l \o r \in Seq(E) /\ Len(l \o r) = i - 1 + (n - i)
      /\ \A j \in 1..(i - 1) + (n - i) : (l \o r)[j] = IF j <= i - 1 THEN l[j] ELSE r[j - (i - 1)]
  <2>1. l \in Seq(E) /\ r \in Seq(E)
    BY <1>3, <1>4
  <2>2. /\ l \o r \in Seq(E) /\ Len(l \o r) = Len(l) + Len(r)
        /\ \A j \in 1..Len(l) + Len(r) : (l \o r)[j] = IF j <= Len(l) THEN l[j] ELSE r[j - Len(l)]
    BY <2>1, ConcatProperties
  <2> QED
    BY <1>3, <1>4, <2>2
<1>7. i - 1 + (n - i) = n - 1
  BY <1>1
<1>8. ASSUME i = 1, NEW j \in 1..n - 1 PROVE (l \o r)[j] = s[j + 1]
  <2>1. ~ (j <= i - 1) /\ j - (i - 1) = j /\ j \in 1..(i - 1) + (n - i) /\ j \in 1..n - i /\ i + j = j + 1
    BY <1>1, <1>8
  <2> QED
    BY <1>4, <1>6, <2>1
<1> QED
  BY <1>1, <1>5, <1>6, <1>7, <1>8

\* The notes that are still being deleted after an answer.
StillForgotten(a, fs) == IF a.call.op = "forget" THEN fs \ {a.call.item} ELSE fs

\* What the answer to an edit makes of a document that lacks the notes being deleted: the
\* document that the server had after the edit, without those still being deleted.
LEMMA AfterAnswer ==
  ASSUME NEW a \in AnswerSet, NEW g \in Graphs, NEW old \in Docs, NEW new \in Docs \cup {Blank},
         Follows(a, g, old, new), old.topo = g, a.call.topo = g, NEW fs \in SUBSET Notes,
         a.call.op = "forget" => a.call.item \in old.items /\ a.call.item \in fs,
         a.call.op = "add" => a.call.item \notin fs,
         a.call.op \in {"add", "delete", "forget", "power"}
  PROVE  /\ After(a, Less(old, fs)) \in Docs \cup {Blank}
         /\ After(a, Less(old, fs)) # Blank =>
              new # Blank /\ After(a, Less(old, fs)) = Less(new, StillForgotten(a, fs))
<1>0. PICK c, doc, out, fs2, want : /\ c = a.call /\ doc = Less(old, fs) /\ out = After(a, doc)
                                    /\ fs2 = StillForgotten(a, fs) /\ want = Less(new, fs2)
  OBVIOUS
<1>1. c \in CallSet /\ c.topo = g /\ old # Blank
  BY <1>0, BlankAssumption DEF AnswerSet
<1>2. doc \in Docs /\ doc.topo = g /\ doc.items = old.items \ fs /\ doc.on = old.on /\ doc # Blank
  BY <1>0, LessDoc, BlankAssumption
<1>3. old.on \subseteq Gadgets /\ fs \cap Gadgets = {}
  BY ItemsAssumption DEF Docs
<1>4. /\ c.op = "forget" => fs2 = fs \ {c.item} /\ c.item \in old.items \cap fs
      /\ c.op # "forget" => fs2 = fs
      /\ c.op = "add" => c.item \notin fs
      /\ c.op \in {"add", "delete", "forget", "power"}
  BY <1>0 DEF StillForgotten
<1>5. new \in Docs => want \in Docs /\ want.topo = new.topo /\ want.items = new.items \ fs2 /\ want.on = new.on /\ new # Blank
  BY <1>0, LessDoc, BlankAssumption
<1>s. ASSUME new \in Docs, new.topo = g, out \in Docs, out.topo = g, out.items = new.items \ fs2, out.on = new.on
      PROVE  new # Blank /\ out = want
  BY <1>5, <1>s, SameDoc
<1> SUFFICES out \in Docs \cup {Blank} /\ (out # Blank => new # Blank /\ out = want)
  BY <1>0
<1>6. CASE ~ a.ok
  <2>1. new = old /\ new \in Docs /\ new.topo = g
    BY <1>6 DEF Follows
  <2>3. CASE c.op = "forget"
    <3>1. out = With(doc, c.item) /\ c.item \in Notes
      BY <1>0, <1>1, <1>6, <2>3, CallOf DEF After
    <3>2. out \in Docs /\ out.topo = g /\ out.items = doc.items \cup {c.item} /\ out.on = old.on
      BY <1>2, <3>1, WithDoc DEF Items
    <3>3. doc.items \cup {c.item} = old.items \ fs2
      BY <1>2, <1>4, <2>3
    <3> QED
      BY <2>1, <3>2, <3>3, <1>s
  <2>4. CASE c.op # "forget"
    <3>1. out = doc
      BY <1>0, <1>4, <1>6, <2>4 DEF After
    <3>2. fs2 = fs
      BY <1>4, <2>4
    <3> QED
      BY <1>2, <2>1, <3>1, <3>2, <1>s
  <2> QED
    BY <2>3, <2>4
<1>7. CASE a.ok
  <2>1. /\ new = Served(c, old) /\ a.doc = new /\ c.op # "create" /\ c.op # "drop"
        /\ c.op = "power" => c.item \in old.items
    BY <1>0, <1>7 DEF Follows
  <2>2. new \in Docs /\ new.topo = g
    <3>1. c.op # "create" /\ c.op # "drop"
      BY <2>1
    <3>2. Served(c, old) \in Docs /\ Served(c, old).topo = old.topo
      BY <1>1, <3>1, ServedDoc
    <3> QED
      BY <2>1, <3>2
  <2>3. out \in Docs /\ out.topo = g /\ out.items = new.items \ fs2 /\ out.on = new.on => new # Blank /\ out = want
    BY <2>2, <1>s
  <2>5. CASE c.op = "add"
    <3>1. out = With(doc, c.item) /\ new = With(old, c.item) /\ c.item \in Items
      BY <1>0, <1>1, <1>7, <2>1, <2>5, ServedDoc, CallOf DEF After
    <3>2. out \in Docs /\ out.topo = g /\ out.items = doc.items \cup {c.item} /\ out.on = old.on
      BY <1>2, <3>1, WithDoc
    <3>3. new.items = old.items \cup {c.item} /\ new.on = old.on
      BY <3>1, WithDoc
    <3>4. doc.items \cup {c.item} = new.items \ fs2
      BY <1>2, <1>4, <2>5, <3>3
    <3>5. out.items = new.items \ fs2 /\ out.on = new.on
      BY <3>2, <3>3, <3>4
    <3> QED
      BY <2>3, <3>2, <3>5
  <2>6. CASE c.op = "delete"
    <3>1. out = Without(doc, c.item) /\ new = Without(old, c.item)
      BY <1>0, <1>1, <1>7, <2>1, <2>6, ServedDoc DEF After
    <3>2. out \in Docs /\ out.topo = g /\ out.items = doc.items \ {c.item} /\ out.on = old.on \ {c.item}
      BY <1>2, <3>1, WithoutDoc
    <3>3. new.items = old.items \ {c.item} /\ new.on = old.on \ {c.item}
      BY <3>1, WithoutDoc
    <3>4. doc.items \ {c.item} = new.items \ fs2
      BY <1>2, <1>4, <2>6, <3>3
    <3>5. out.items = new.items \ fs2 /\ out.on = new.on
      BY <3>2, <3>3, <3>4
    <3> QED
      BY <2>3, <3>2, <3>5
  <2>7. CASE c.op = "forget"
    <3>1. out = doc /\ new = Without(old, c.item) /\ c.item \in Notes
      BY <1>0, <1>1, <1>7, <2>1, <2>7, ServedDoc, CallOf DEF After
    <3>2. new.items = old.items \ {c.item} /\ new.on = old.on \ {c.item}
      BY <3>1, WithoutDoc
    <3>3. new.on = old.on
      BY <1>3, <3>1, <3>2, ItemsAssumption
    <3>4. doc.items = new.items \ fs2
      BY <1>2, <1>4, <2>7, <3>2
    <3> QED
      BY <1>2, <2>3, <3>1, <3>3, <3>4
  <2>8. CASE c.op = "power"
    <3> DEFINE on == IF c.item \in new.on THEN old.on \cup {c.item} ELSE old.on \ {c.item}
    <3>1. c.item \in Gadgets /\ c.item \in old.items /\ c.item \notin fs
      BY <1>1, <1>3, <2>1, <2>8, CallOf
    <3>2. /\ new.items = old.items
          /\ new.on = IF c.item \in old.on THEN old.on \ {c.item} ELSE old.on \cup {c.item}
      <4>1. c.op # "create" /\ c.op # "drop" /\ new = Served(c, old)
        BY <2>1
      <4>2. Served(c, old).items = old.items
        BY <1>1, <2>8, <4>1, ServedDoc
      <4>3. Served(c, old).on = IF c.item \in old.on THEN old.on \ {c.item} ELSE old.on \cup {c.item}
        BY <1>1, <2>8, <4>1, ServedDoc, Zenon
      <4> QED
        BY <4>1, <4>2, <4>3, Zenon
    <3>3. on = new.on
      <4>1. CASE c.item \in old.on
        <5>1. new.on = old.on \ {c.item}
          BY <3>2, <4>1
        <5> QED
          BY <5>1
      <4>2. CASE c.item \notin old.on
        <5>1. new.on = old.on \cup {c.item}
          BY <3>2, <4>2
        <5> QED
          BY <5>1
      <4> QED
        BY <4>1, <4>2
    <3>4. /\ With(doc, c.item) \in Docs /\ With(doc, c.item).topo = g
          /\ With(doc, c.item).items = doc.items \cup {c.item} /\ With(doc, c.item).on = old.on
      BY <1>2, <3>1, WithDoc DEF Items
    <3>5. out = [With(doc, c.item) EXCEPT !.on = on]
      <4>1. out = Powered(doc, a)
        BY <1>0, <1>7, <2>8 DEF After
      <4> QED
        BY <1>0, <1>2, <2>1, <3>4, <4>1 DEF Powered
    <3>6. on \subseteq Gadgets
      BY <1>3, <3>1
    <3> HIDE DEF on
    <3>7. out \in Docs /\ out.topo = g /\ out.items = doc.items \cup {c.item} /\ out.on = on
      BY <3>4, <3>5, <3>6 DEF Docs
    <3>8. doc.items \cup {c.item} = new.items \ fs2
      BY <1>2, <1>4, <2>8, <3>1, <3>2
    <3> QED
      BY <2>3, <3>3, <3>7, <3>8
  <2> QED
    BY <1>4, <2>5, <2>6, <2>7, <2>8
<1> QED
  BY <1>6, <1>7

\* A selection fetches the document of what is selected.
LEMMA SelectsOne ==
  ASSUME NEW g \in Graphs \cup {Blank}, Selects(g)
  PROVE  /\ selected' = g /\ shown' = (IF g = Blank THEN Blank ELSE shown) /\ chosen' = Blank
         /\ sent' = IF g = Blank THEN sent ELSE sent \cup {Call("load", g, Blank)}
<1>1. {Call("load", g, Blank) : x \in {g} \ {Blank}} = IF g = Blank THEN {} ELSE {Call("load", g, Blank)}
  OBVIOUS
<1> QED
  BY <1>1 DEF Selects, Shows, Rendered

\* The load of a document is a call.
LEMMA LoadIsCall == ASSUME NEW g \in Graphs PROVE Call("load", g, Blank) \in CallSet
BY DEF CallSet, Call

\* What delivering an answer leaves of the types, and what is new among the calls.
LEMMA DeliverTyped ==
  ASSUME ScreenTyped, NEW i \in 1..Len(answers), Deliver(i)
  PROVE  /\ ScreenTyped' /\ answers' = RemoveAt(answers, i)
         /\ sent \subseteq sent' /\ \A c \in sent' \ sent : c.op = "load"
         /\ UNCHANGED server
<1>1. PICK a \in AnswerSet : a = answers[i]
  BY ElementOfSeq DEF ScreenTyped
<1>2. a.call \in CallSet /\ a.call.topo \in Graphs
  BY <1>1, CallOf DEF AnswerSet
<1>3. answers' = RemoveAt(answers, i) /\ UNCHANGED server
  BY DEF Deliver
<1>4. answers' \in Seq(AnswerSet)
  BY <1>3, Removed DEF ScreenTyped
<1>5. /\ selected' \in Graphs \cup {Blank} /\ chosen' \in Gadgets \cup {Blank}
      /\ sent' = sent \/ sent' = sent \cup {Call("load", a.call.topo, Blank)}
  <2>1. CASE a.ok /\ a.call.op = "create"
    <3>1. Selects(a.call.topo)
      BY <1>1, <2>1 DEF Deliver
    <3> QED
      BY <1>2, <3>1, SelectsOne
  <2>2. CASE a.ok /\ a.call.op = "drop"
    <3>1. Selects(Blank)
      BY <1>1, <2>2 DEF Deliver
    <3> QED
      BY <3>1, SelectsOne
  <2>3. CASE ~ (a.ok /\ a.call.op = "create") /\ ~ (a.ok /\ a.call.op = "drop")
    <3>1. /\ Shows(selected, After(a, shown)) /\ sent' = sent
          /\ chosen' = CASE a.ok /\ a.call.op = "add" /\ a.call.item \in Gadgets -> a.call.item
                         [] a.ok /\ a.call.op = "delete"                         -> Blank
                         [] OTHER                                                -> chosen
      BY <1>1, <2>3 DEF Deliver
    <3>2. chosen' \in Gadgets \cup {Blank}
      BY <3>1 DEF ScreenTyped
    <3> QED
      BY <3>1, <3>2 DEF Shows, Rendered, ScreenTyped
  <2> QED
    BY <2>1, <2>2, <2>3
<1>6. sent' \subseteq CallSet /\ IsFiniteSet(sent') /\ \A c \in sent' \ sent : c.op = "load"
  <2>1. Call("load", a.call.topo, Blank) \in CallSet /\ Call("load", a.call.topo, Blank).op = "load"
    BY <1>2, LoadIsCall DEF Call
  <2>2. IsFiniteSet(sent \cup {Call("load", a.call.topo, Blank)})
    BY FS_AddElement DEF ScreenTyped
  <2> QED
    BY <1>5, <2>1, <2>2 DEF ScreenTyped
<1> QED
  BY <1>3, <1>4, <1>5, <1>6 DEF ScreenTyped

\* What an answer in turn makes of the screen: nothing is shown, or what was shown and the
\* answer does not concern, or the document of its topology after the call.
LEMMA DeliverShows ==
  ASSUME ScreenTyped, shown \in Docs \cup {Blank}, Len(answers) >= 1, Deliver(1), InTurn(1),
         NEW a \in AnswerSet, a = answers[1], NEW g \in Graphs, g = a.call.topo,
         NEW S, History(g, S), ForgetsLate(g, S), AddsOnce(g, S), ShowsFirst(g, S),
         Forgotten(g)' = StillForgotten(a, Forgotten(g))
  PROVE  \/ shown' = Blank
         \/ shown' = shown /\ shown # Blank /\ (a.ok => shown.topo # g) /\ a.call.op # "forget"
         \/ S[1] \in Docs /\ S[1].topo = g /\ shown' = Less(S[1], Forgotten(g)')
<1>1. PICK c \in CallSet : c = a.call /\ c.topo = g
  BY DEF AnswerSet
<1>2. Len(answers) \in Nat /\ 0 \in 0..Len(answers) /\ 1 \in 0..Len(answers) /\ 1 \in 1..Len(answers) /\ 1 - 1 = 0
      /\ 1 \in Positions /\ 0 \in 0..1 - 1 /\ ~ (1 > Len(answers))
  BY LenProperties DEF ScreenTyped, Positions
<1>3. /\ S[0] \in Docs \cup {Blank} /\ S[1] \in Docs \cup {Blank}
      /\ S[0] # Blank => S[0].topo = g
      /\ S[1] # Blank => S[1].topo = g
      /\ Follows(a, g, S[0], S[1])
  BY <1>2 DEF History
<1>4. CASE a.ok /\ c.op = "create"
  <2>1. Selects(g)
    BY <1>1, <1>4 DEF Deliver
  <2>2. shown' = shown
    BY <2>1, SelectsOne, BlankAssumption
  <2>3. S[0] = Blank
    BY <1>1, <1>3, <1>4 DEF Follows
  <2>4. shown # Blank => shown.topo # g
    BY <2>3 DEF ShowsFirst
  <2> QED
    BY <1>1, <1>4, <2>2, <2>4
<1>5. CASE a.ok /\ c.op = "drop"
  <2>1. Selects(Blank)
    BY <1>1, <1>5 DEF Deliver
  <2> QED
    BY <2>1, SelectsOne
<1>6. CASE ~ (a.ok /\ c.op = "create") /\ ~ (a.ok /\ c.op = "drop")
  <2>1. shown' = After(a, shown)
    BY <1>1, <1>6 DEF Deliver, Shows, Rendered
  <2>2. CASE c.op = "load"
    <3>1. CASE a.ok
      <4>1. shown' = S[1] /\ a.doc = S[1]
        BY <1>1, <1>3, <2>1, <2>2, <3>1 DEF After, Follows
      <4>2. CASE S[1] # Blank
        <5>1. \A n \in Forgotten(g) : n \notin S[1].items
          <6>1. ~ Revives(a)
            BY DEF InTurn
          <6>2. \A n \in Notes : Call("forget", g, n) \in Calls => n \notin a.doc.items
            BY <1>1, <2>2, <3>1, <6>1 DEF Revives, Call
          <6> QED
            BY <4>1, <6>2 DEF Forgotten
        <5>2. Forgotten(g)' = Forgotten(g)
          BY <1>1, <2>2 DEF StillForgotten
        <5>3. S[1] \in Docs
          BY <1>3, <4>2
        <5>4. /\ Less(S[1], Forgotten(g)) \in Docs /\ Less(S[1], Forgotten(g)).topo = S[1].topo
              /\ Less(S[1], Forgotten(g)).items = S[1].items /\ Less(S[1], Forgotten(g)).on = S[1].on
          <6>1. S[1].items \ Forgotten(g) = S[1].items
            BY <5>1
          <6> QED
            BY <5>3, <6>1, LessDoc
        <5>5. Less(S[1], Forgotten(g)) = S[1]
          BY <5>3, <5>4, SameDoc
        <5> QED
          BY <1>3, <4>1, <5>2, <5>3, <5>5, BlankAssumption
      <4> QED
        BY <4>1, <4>2
    <3>2. CASE ~ a.ok
      BY <1>1, <2>1, <2>2, <3>2 DEF After
    <3> QED
      BY <3>1, <3>2
  <2>3. CASE c.op \in {"create", "drop"}
    <3>1. ~ a.ok
      BY <1>6, <2>3
    <3>2. shown' = shown
      BY <1>1, <2>1, <2>3, <3>1 DEF After
    <3> QED
      BY <1>1, <2>3, <3>1, <3>2
  <2>4. CASE c.op \notin {"load", "create", "drop"}
    <3>1. shown = Blank \/ shown.topo = g
      BY <1>1, <2>4 DEF InTurn
    <3>2. CASE shown = Blank
      BY <1>1, <2>1, <2>4, <3>2 DEF After, With, Without, Powered
    <3>3. CASE shown # Blank
      <4>1. shown.topo = g
        BY <3>1, <3>3
      <4>2. S[0] \in Docs /\ S[0].topo = g /\ shown = Less(S[0], Forgotten(g))
        BY <1>3, <3>3, <4>1 DEF ShowsFirst
      <4>3. c = Call(c.op, g, c.item) /\ CallAt(1, c) /\ c \in Calls
        <5>1. c = Call(c.op, g, c.item)
          BY <1>1, CallOf
        <5> QED
          BY <1>1, <1>2, <5>1 DEF CallAt, Calls
      <4>4. c.op = "forget" => c.item \in S[0].items \cap Forgotten(g)
        <5>1. SUFFICES ASSUME c.op = "forget" PROVE c.item \in S[0].items \cap Forgotten(g)
          OBVIOUS
        <5>2. c.item \in Notes
          BY <1>1, <5>1, CallOf
        <5>3. \A j \in 0..0 : S[j] # Blank
          BY <4>2, BlankAssumption
        <5>4. Has(S, 0, c.item)
          BY <1>2, <4>3, <5>1, <5>2, <5>3 DEF ForgetsLate
        <5> QED
          BY <4>3, <5>1, <5>2, <5>4 DEF Has, Forgotten
      <4>5. c.op = "add" => c.item \notin Forgotten(g)
        <5>1. SUFFICES ASSUME c.op = "add", c.item \in Forgotten(g) PROVE FALSE
          OBVIOUS
        <5>2. c.item \in Items /\ Call("forget", g, c.item) \in Calls
          BY <1>1, <5>1, CallOf DEF Forgotten
        <5>3. \E j \in 0..1 - 1 : S[j] = Blank
          BY <1>2, <4>3, <5>1, <5>2 DEF AddsOnce
        <5> QED
          BY <4>2, <5>3, BlankAssumption
      <4>6. Forgotten(g) \in SUBSET Notes
        BY DEF Forgotten
      <4>7. /\ After(a, shown) \in Docs \cup {Blank}
            /\ After(a, shown) # Blank => S[1] # Blank /\ After(a, shown) = Less(S[1], Forgotten(g)')
        <5>1. a.call.op = "forget" => a.call.item \in S[0].items /\ a.call.item \in Forgotten(g)
          BY <1>1, <4>4
        <5>2. a.call.op = "add" => a.call.item \notin Forgotten(g)
          BY <1>1, <4>5
        <5>3. a.call.op \in {"add", "delete", "forget", "power"}
          BY <1>1, <2>4, CallOf
        <5>4. PICK fs \in SUBSET Notes : fs = Forgotten(g)
          BY <4>6
        <5>5. /\ After(a, Less(S[0], fs)) \in Docs \cup {Blank}
              /\ After(a, Less(S[0], fs)) # Blank =>
                   S[1] # Blank /\ After(a, Less(S[0], fs)) = Less(S[1], StillForgotten(a, fs))
          BY <1>3, <4>2, <5>1, <5>2, <5>3, <5>4, AfterAnswer
        <5> QED
          BY <4>2, <5>4, <5>5
      <4> QED
        BY <1>3, <2>1, <4>7
    <3> QED
      BY <3>2, <3>3
  <2> QED
    BY <2>2, <2>3, <2>4
<1> QED
  BY <1>4, <1>5, <1>6

\* The tab gets an answer.
LEMMA DeliverKept == ASSUME ScreenInv, NEW i \in 1..Len(answers), Deliver(i) PROVE ScreenInv'
<1>1. /\ ScreenTyped /\ ScreenTyped' /\ answers' = RemoveAt(answers, i)
      /\ sent \subseteq sent' /\ \A c \in sent' \ sent : c.op = "load"
      /\ UNCHANGED server
  BY DeliverTyped DEF ScreenInv
<1> SUFFICES ASSUME ~ crossed'
             PROVE  /\ shown' \in Docs \cup {Blank} /\ ForgetsOnce'
                    /\ shown' # Blank /\ shown'.topo # selected' => Awaited("load")'
                    /\ \A g \in Graphs : InStep(g)'
  BY <1>1 DEF ScreenInv
<1>2. ~ crossed /\ InTurn(i) /\ i = 1
  BY DEF Deliver, InTurn
<1>3. /\ shown \in Docs \cup {Blank} /\ ForgetsOnce
      /\ shown # Blank /\ shown.topo # selected => Awaited("load")
      /\ \A g \in Graphs : InStep(g)
  BY <1>2 DEF ScreenInv
<1>4. PICK N \in Nat : N = Len(answers) /\ N >= 1
  BY <1>1, LenProperties DEF ScreenTyped
<1>5. /\ Len(answers') = N - 1 /\ \A j \in 1..N - 1 : answers'[j] = answers[j + 1]
  BY <1>1, <1>2, <1>4, Removed DEF ScreenTyped
<1>6. PICK a \in AnswerSet : a = answers[1]
  BY <1>1, <1>4, ElementOfSeq DEF ScreenTyped
<1>7. PICK c \in CallSet : c = a.call /\ c.topo \in Graphs
  BY <1>6, CallOf DEF AnswerSet
<1>8. Positions = 1..N + 1 /\ Positions' = 1..N
  BY <1>4, <1>5 DEF Positions
<1>9. \A d : d.op \in {"add", "forget"} => (d \in sent' <=> d \in sent)
  BY <1>1
<1>10. \A p \in 1..N : \A d : d.op \in {"add", "forget"} => (CallAt(p, d)' <=> CallAt(p + 1, d))
  <2> SUFFICES ASSUME NEW p \in 1..N, NEW d, d.op \in {"add", "forget"} PROVE CallAt(p, d)' <=> CallAt(p + 1, d)
    OBVIOUS
  <2>1. CASE p = N
    <3>1. p > N - 1 /\ p + 1 > N
      BY <1>4, <2>1
    <3>2. CallAt(p, d)' <=> d \in sent'
      BY <1>5, <3>1 DEF CallAt
    <3>3. CallAt(p + 1, d) <=> d \in sent
      BY <1>4, <3>1 DEF CallAt
    <3> QED
      BY <1>9, <3>2, <3>3
  <2>2. CASE p # N
    <3>1. ~ (p > N - 1) /\ ~ (p + 1 > N) /\ p \in 1..N - 1
      BY <1>4, <2>2
    <3> QED
      BY <1>4, <1>5, <3>1 DEF CallAt
  <2> QED
    BY <2>1, <2>2
<1>11. \A d : (d \in Calls)' => d \in Calls \/ d.op = "load"
  <2>1. \A j \in 1..N - 1 : j + 1 \in 1..N
    BY <1>4
  <2> QED
    BY <1>1, <1>4, <1>5, <2>1 DEF Calls
<1>12. \A d : d \in Calls => (d \in Calls)' \/ d = c
  <2>1. \A j \in 1..N : j = 1 \/ (j - 1 \in 1..N - 1 /\ j - 1 + 1 = j)
    BY <1>4
  <2>2. \A j \in 1..N : answers[j].call = c \/ \E k \in 1..N - 1 : answers'[k].call = answers[j].call
    BY <1>5, <1>6, <1>7, <2>1
  <2> QED
    BY <1>1, <1>4, <1>5, <2>2 DEF Calls
<1>13. ForgetsOnce'
  <2> SUFFICES ASSUME NEW p \in 1..N, NEW q \in 1..N, NEW g \in Graphs, NEW n \in Notes,
                      CallAt(p, Call("forget", g, n))', CallAt(q, Call("forget", g, n))'
               PROVE  p = q
    BY <1>8 DEF ForgetsOnce
  <2>1. CallAt(p + 1, Call("forget", g, n)) /\ CallAt(q + 1, Call("forget", g, n))
    BY <1>10 DEF Call
  <2>2. p + 1 \in 1..N + 1 /\ q + 1 \in 1..N + 1
    BY <1>4
  <2> QED
    BY <1>3, <1>4, <1>8, <2>1, <2>2 DEF ForgetsOnce
<1>14. \A g \in Graphs, n \in Notes : c = Call("forget", g, n) => ~ (Call("forget", g, n) \in Calls)'
  <2> SUFFICES ASSUME NEW g \in Graphs, NEW n \in Notes, c = Call("forget", g, n), (c \in Calls)' PROVE FALSE
    OBVIOUS
  <2>1. c.op = "forget" /\ CallAt(1, c) /\ 1 \in Positions
    BY <1>4, <1>6, <1>7, <1>8 DEF Call, CallAt
  <2>2. CASE c \in sent
    <3>1. CallAt(N + 1, c) /\ N + 1 \in Positions /\ N + 1 # 1
      BY <1>4, <1>8, <2>2 DEF CallAt
    <3> QED
      BY <1>3, <2>1, <3>1 DEF ForgetsOnce
  <2>3. CASE c \notin sent
    <3>1. PICK j \in 1..N - 1 : answers[j + 1].call = c
      BY <1>5, <1>9, <2>1, <2>3 DEF Calls
    <3>2. CallAt(j + 1, c) /\ j + 1 \in Positions /\ j + 1 # 1
      BY <1>4, <1>8, <3>1 DEF CallAt
    <3> QED
      BY <1>3, <2>1, <3>2 DEF ForgetsOnce
  <2> QED
    BY <2>2, <2>3
<1>15. \A g \in Graphs : Forgotten(g)' = IF c.topo = g THEN StillForgotten(a, Forgotten(g)) ELSE Forgotten(g)
  <2> SUFFICES ASSUME NEW g \in Graphs, NEW n \in Notes
               PROVE  (n \in Forgotten(g))' <=> n \in Forgotten(g) /\ c # Call("forget", g, n)
    BY <1>7, CallOf DEF StillForgotten, Forgotten, Call
  <2>1. Call("forget", g, n).op = "forget"
    BY DEF Call
  <2> QED
    BY <1>11, <1>12, <1>14, <2>1 DEF Forgotten
<1>16. PICK H : History(c.topo, H) /\ ForgetsLate(c.topo, H) /\ AddsOnce(c.topo, H) /\ ShowsFirst(c.topo, H)
  BY <1>3, <1>7 DEF InStep
<1>17. \A S : History(c.topo, S) /\ ForgetsLate(c.topo, S) /\ AddsOnce(c.topo, S) /\ ShowsFirst(c.topo, S) =>
         \/ shown' = Blank
         \/ shown' = shown /\ shown # Blank /\ (a.ok => shown.topo # c.topo) /\ c.op # "forget"
         \/ S[1] \in Docs /\ S[1].topo = c.topo /\ shown' = Less(S[1], Forgotten(c.topo)')
  <2>1. Deliver(1) /\ InTurn(1) /\ Len(answers) >= 1 /\ a = answers[1] /\ c.topo = a.call.topo
    BY <1>2, <1>4, <1>6, <1>7
  <2>2. Forgotten(c.topo)' = StillForgotten(a, Forgotten(c.topo))
    BY <1>7, <1>15
  <2> QED
    BY <1>1, <1>3, <1>7, <2>1, <2>2, DeliverShows
<1>18. shown' \in Docs \cup {Blank}
  BY <1>3, <1>16, <1>17, LessDoc
<1>19. ASSUME shown' # Blank, shown'.topo # selected' PROVE Awaited("load")'
  <2>1. CASE a.ok /\ c.op = "create"
    <3>1. Selects(c.topo)
      BY <1>2, <1>6, <1>7, <2>1 DEF Deliver
    <3>2. selected' = c.topo /\ Call("load", selected', Blank) \in sent'
      BY <1>7, <3>1, SelectsOne, BlankAssumption
    <3> QED
      BY <3>2 DEF Awaited, Calls, Call
  <2>2. CASE a.ok /\ c.op = "drop"
    <3>1. Selects(Blank)
      BY <1>2, <1>6, <1>7, <2>2 DEF Deliver
    <3> QED
      BY <1>19, <3>1, SelectsOne
  <2>3. CASE ~ (a.ok /\ c.op = "create") /\ ~ (a.ok /\ c.op = "drop")
    <3>1. selected' = selected /\ shown' = After(a, shown)
      BY <1>2, <1>6, <1>7, <2>3 DEF Deliver, Shows, Rendered
    <3>2. CASE c.op = "load"
      <4>1. a.ok /\ shown' = a.doc
        BY <1>7, <1>19, <3>1, <3>2 DEF After
      <4>2. c.topo = selected
        BY <1>2, <1>6, <1>7, <3>2 DEF InTurn
      <4>3. Follows(a, c.topo, H[0], H[1]) /\ (H[1] # Blank => H[1].topo = c.topo)
        <5>1. 1 \in 0..N /\ 1 \in 1..N /\ 1 - 1 = 0
          BY <1>4
        <5> QED
          BY <1>4, <1>6, <1>16, <5>1 DEF History
      <4>4. a.doc = H[1]
        BY <1>7, <4>1, <4>3 DEF Follows
      <4> QED
        BY <1>19, <3>1, <4>1, <4>2, <4>3, <4>4
    <3>3. CASE c.op # "load"
      <4>1. shown # Blank /\ shown.topo # selected
        <5>1. CASE c.op \in {"create", "drop"}
          <6>1. shown' = shown
            BY <1>7, <2>3, <3>1, <5>1 DEF After
          <6> QED
            BY <1>19, <3>1, <6>1
        <5>2. CASE c.op \notin {"load", "create", "drop"}
          <6>1. shown = Blank \/ shown.topo = c.topo
            BY <1>2, <1>6, <1>7, <5>2 DEF InTurn
          <6>2. shown # Blank
            BY <1>7, <1>19, <3>1, <5>2 DEF After, With, Without, Powered
          <6>3. shown'.topo = shown.topo
            BY <1>16, <1>17, <1>19, <6>1, <6>2, LessDoc
          <6> QED
            BY <1>19, <3>1, <6>2, <6>3
        <5> QED
          BY <3>3, <5>1, <5>2
      <4>2. PICK d \in Calls : d.op = "load" /\ d.topo = selected
        BY <1>3, <4>1 DEF Awaited
      <4>3. (d \in Calls)'
        BY <1>12, <3>3, <4>2
      <4> QED
        BY <3>1, <4>2, <4>3 DEF Awaited
    <3> QED
      BY <3>2, <3>3
  <2> QED
    BY <2>1, <2>2, <2>3
<1>20. ASSUME NEW g \in Graphs PROVE InStep(g)'
  <2>1. PICK S : History(g, S) /\ ForgetsLate(g, S) /\ AddsOnce(g, S) /\ ShowsFirst(g, S)
    BY <1>3, <1>20 DEF InStep
  <2>2. PICK T : T = [j \in 0..N - 1 |-> S[j + 1]]
    OBVIOUS
  <2>3. /\ S \in [0..N -> Docs \cup {Blank}] /\ S[N] = server[g]
        /\ \A j \in 0..N : S[j] # Blank => S[j].topo = g
        /\ \A j \in 1..N : Follows(answers[j], g, S[j - 1], S[j])
    BY <1>4, <2>1 DEF History
  <2>4. \A j \in 0..N - 1 : T[j] = S[j + 1] /\ j + 1 \in 0..N /\ j + 1 \in 1..N
    BY <1>4, <2>2
  <2>5. History(g, T)'
    <3>1. T \in [0..N - 1 -> Docs \cup {Blank}]
      BY <2>2, <2>3, <2>4
    <3>2. T[N - 1] = server'[g]
      <4>1. N - 1 \in 0..N - 1 /\ N - 1 + 1 = N
        BY <1>4
      <4> QED
        BY <1>1, <2>3, <2>4, <4>1
    <3>3. \A j \in 0..N - 1 : T[j] # Blank => T[j].topo = g
      BY <2>3, <2>4
    <3>4. \A j \in 1..N - 1 : Follows(answers'[j], g, T[j - 1], T[j])
      <4> SUFFICES ASSUME NEW j \in 1..N - 1 PROVE Follows(answers'[j], g, T[j - 1], T[j])
        OBVIOUS
      <4>1. j \in 0..N - 1 /\ j - 1 \in 0..N - 1 /\ j - 1 + 1 = j /\ j + 1 \in 1..N /\ j + 1 - 1 = j
        BY <1>4
      <4>2. Follows(answers[j + 1], g, S[j + 1 - 1], S[j + 1])
        BY <2>3, <4>1
      <4> QED
        BY <1>5, <2>4, <4>1, <4>2
    <3> QED
      BY <1>5, <3>1, <3>2, <3>3, <3>4 DEF History, Follows
  <2>6. ASSUME S[0] = Blank, S[1] # Blank, NEW n \in Notes PROVE Call("forget", g, n) \notin Calls
    <3>1. Follows(a, g, S[0], S[1])
      <4>1. 1 \in 1..N /\ 1 - 1 = 0
        BY <1>4
      <4> QED
        BY <1>6, <2>3, <4>1
    <3>2. a.ok /\ c.topo = g /\ c.op = "create"
      BY <1>7, <2>6, <3>1 DEF Follows
    <3>3. ~ Renews(a)
      BY <1>2, <1>6 DEF InTurn
    <3> QED
      BY <1>7, <3>2, <3>3 DEF Renews, Call
  <2>7. ForgetsLate(g, T)'
    <3> SUFFICES ASSUME NEW p \in 1..N, NEW n \in Notes, CallAt(p, Call("forget", g, n))',
                        NEW j \in 0..p - 1, \A k \in 0..j : T[k] # Blank
                 PROVE  Has(T, j, n)
      BY <1>8 DEF ForgetsLate, Has
    <3>1. CallAt(p + 1, Call("forget", g, n)) /\ p + 1 \in Positions /\ j + 1 \in 0..p + 1 - 1 /\ j \in 0..N - 1
      BY <1>4, <1>8, <1>10 DEF Call
    <3>2. ~ (S[0] = Blank)
      <4>1. 0 \in 0..j /\ 0 \in 0..N - 1 /\ 0 + 1 = 1
        BY <1>4
      <4>2. S[1] # Blank
        BY <2>4, <4>1
      <4>3. Call("forget", g, n) \in Calls
        BY <1>1, <3>1, CallsAre DEF ScreenTyped
      <4> QED
        BY <2>6, <4>2, <4>3
    <3>3. \A k \in 0..j + 1 : S[k] # Blank
      <4> SUFFICES ASSUME NEW k \in 0..j + 1 PROVE S[k] # Blank
        OBVIOUS
      <4>1. CASE k = 0
        BY <3>2, <4>1
      <4>2. CASE k # 0
        <5>1. k - 1 \in 0..j /\ k - 1 \in 0..N - 1 /\ k - 1 + 1 = k
          BY <1>4, <4>2
        <5> QED
          BY <2>4, <5>1
      <4> QED
        BY <4>1, <4>2
    <3>4. Has(S, j + 1, n)
      BY <2>1, <3>1, <3>3 DEF ForgetsLate
    <3> QED
      BY <2>4, <3>1, <3>4 DEF Has
  <2>8. AddsOnce(g, T)'
    <3> SUFFICES ASSUME NEW p \in 1..N, NEW x \in Items, CallAt(p, Call("add", g, x))'
                 PROVE  /\ \A j \in 0..p - 1 : Has(T, j, x) => \E k \in j + 1..p - 1 : T[k] = Blank
                        /\ (Call("forget", g, x) \in Calls)' => \E k \in 0..p - 1 : T[k] = Blank
      BY <1>8 DEF AddsOnce, Has
    <3>1. CallAt(p + 1, Call("add", g, x)) /\ p + 1 \in Positions /\ p + 1 - 1 = p
      BY <1>4, <1>8, <1>10 DEF Call
    <3>2. /\ \A j \in 0..p : Has(S, j, x) => \E k \in j + 1..p : S[k] = Blank
          /\ Call("forget", g, x) \in Calls => \E k \in 0..p : S[k] = Blank
      BY <2>1, <3>1 DEF AddsOnce
    <3>3. ASSUME NEW j \in 0..p - 1, Has(T, j, x) PROVE \E k \in j + 1..p - 1 : T[k] = Blank
      <4>1. j \in 0..N - 1 /\ j + 1 \in 0..p
        BY <1>4
      <4>2. Has(S, j + 1, x)
        BY <2>4, <3>3, <4>1 DEF Has
      <4>3. PICK k \in j + 1 + 1..p : S[k] = Blank
        BY <3>2, <4>1, <4>2
      <4>4. k - 1 \in j + 1..p - 1 /\ k - 1 \in 0..N - 1 /\ k - 1 + 1 = k
        BY <1>4
      <4> QED
        BY <2>4, <4>3, <4>4
    <3>4. ASSUME (Call("forget", g, x) \in Calls)' PROVE \E k \in 0..p - 1 : T[k] = Blank
      <4>1. Call("forget", g, x) \in Calls
        BY <1>11, <3>4 DEF Call
      <4>2. PICK k \in 0..p : S[k] = Blank
        BY <3>2, <4>1
      <4>3. CASE k # 0
        <5>1. k - 1 \in 0..p - 1 /\ k - 1 \in 0..N - 1 /\ k - 1 + 1 = k
          BY <1>4, <4>3
        <5> QED
          BY <2>4, <4>2, <5>1
      <4>4. CASE k = 0
        <5>1. 0 \in 0..p - 1 /\ 0 \in 0..N - 1 /\ 0 + 1 = 1
          BY <1>4
        <5>2. x \in Notes
          <6>1. Call("forget", g, x) \in CallSet
            BY <1>1, <4>1, CallsTyped
          <6> QED
            BY <6>1, CallOf DEF Call
        <5>3. S[1] = Blank
          BY <2>6, <4>1, <4>2, <4>4, <5>2
        <5> QED
          BY <2>4, <5>1, <5>3
      <4> QED
        BY <4>3, <4>4
    <3> QED
      BY <3>3, <3>4
  <2>9. ShowsFirst(g, T)'
    <3> SUFFICES ASSUME shown' # Blank, shown'.topo = g
                 PROVE  T[0] # Blank /\ shown' = Less(T[0], Forgotten(g)')
      BY DEF ShowsFirst
    <3>1. T[0] = S[1] /\ S[1] \in Docs \cup {Blank} /\ Follows(a, g, S[0], S[1])
      <4>1. 0 \in 0..N - 1 /\ 0 + 1 = 1 /\ 1 \in 0..N /\ 1 \in 1..N /\ 1 - 1 = 0
        BY <1>4
      <4> QED
        BY <1>6, <2>3, <2>4, <4>1
    <3>2. CASE shown' = shown /\ (a.ok => shown.topo # c.topo) /\ c.op # "forget"
      <4>1. S[0] # Blank /\ shown = Less(S[0], Forgotten(g))
        BY <2>1, <3>2 DEF ShowsFirst
      <4>2. S[1] = S[0]
        BY <1>7, <3>1, <3>2 DEF Follows
      <4>3. Forgotten(g)' = Forgotten(g)
        BY <1>7, <1>15, <3>2 DEF StillForgotten
      <4> QED
        BY <3>1, <3>2, <4>1, <4>2, <4>3
    <3>3. CASE ~ (shown' = shown /\ (a.ok => shown.topo # c.topo) /\ c.op # "forget")
      <4>1. c.topo = g
        <5>1. H[1] \in Docs /\ H[1].topo = c.topo /\ shown' = Less(H[1], Forgotten(c.topo)')
          BY <1>16, <1>17, <3>3
        <5> QED
          BY <5>1, LessDoc
      <4>2. S[1] \in Docs /\ shown' = Less(S[1], Forgotten(g)')
        BY <1>17, <2>1, <3>3, <4>1
      <4> QED
        BY <3>1, <4>2, BlankAssumption
    <3> QED
      BY <3>2, <3>3
  <2> QED
    BY <2>5, <2>7, <2>8, <2>9 DEF InStep
<1> QED
  BY <1>13, <1>18, <1>19, <1>20

\* What one more call changes.
LEMMA OneMoreCall ==
  ASSUME ScreenTyped, NEW c \in CallSet, sent' = sent \cup {c}, UNCHANGED <<server, answers>>,
         selected' = selected, chosen' \in Gadgets \cup {Blank}
  PROVE  /\ ScreenTyped' /\ Positions' = Positions /\ Calls' = Calls \cup {c}
         /\ \A p \in Positions : \A d : CallAt(p, d)' <=> CallAt(p, d) \/ (p = Len(answers) + 1 /\ d = c)
         /\ Len(answers) \in Nat /\ Positions = 1..Len(answers) + 1
<1>1. Len(answers) \in Nat
  BY LenProperties DEF ScreenTyped
<1>2. ScreenTyped'
  <2>1. IsFiniteSet(sent \cup {c})
    BY FS_AddElement DEF ScreenTyped
  <2> QED
    BY <2>1 DEF ScreenTyped
<1>3. Positions' = Positions /\ Calls' = Calls \cup {c}
  BY DEF Positions, Calls
<1>4. ASSUME NEW p \in Positions, NEW d PROVE CallAt(p, d)' <=> CallAt(p, d) \/ (p = Len(answers) + 1 /\ d = c)
  <2>1. p > Len(answers) <=> p = Len(answers) + 1
    BY <1>1 DEF Positions
  <2> QED
    BY <2>1 DEF CallAt
<1> QED
  BY <1>1, <1>2, <1>3, <1>4 DEF Positions

\* An item that goes while the topology stays is deleted by an answered call.
LEMMA LostByCall ==
  ASSUME ScreenTyped, NEW g \in Graphs, NEW S, History(g, S), NEW x,
         NEW i \in 0..Len(answers), NEW k \in 0..Len(answers), i <= k,
         Has(S, i, x), ~ Has(S, k, x), \A j \in i + 1..k : S[j] # Blank
  PROVE  \E c \in Calls : c.op \in {"delete", "forget"} /\ c.topo = g /\ c.item = x
<1>1. PICK N \in Nat : N = Len(answers)
  BY LenProperties DEF ScreenTyped
<1>2. PICK T : T = {j \in 0..N : Has(S, j, x)}
  OBVIOUS
<1>3. i \in Nat /\ k \in Nat /\ i < k /\ i \in T /\ k \notin T
  <2>1. i # k
    OBVIOUS
  <2> QED
    BY <1>1, <1>2, <2>1
<1>4. PICK m \in i + 1..k : m - 1 \in T /\ m \notin T
  BY <1>3, FirstLost
<1>5. m \in 1..N /\ m \in 0..N /\ m - 1 \in 0..N
  BY <1>1, <1>3
<1>6. S[m - 1] \in Docs \cup {Blank} /\ S[m] \in Docs \cup {Blank} /\ Follows(answers[m], g, S[m - 1], S[m])
  BY <1>1, <1>5 DEF History
<1>7. Has(S, m - 1, x) /\ ~ Has(S, m, x) /\ S[m] # Blank
  BY <1>2, <1>4, <1>5
<1>8. S[m - 1] \in Docs /\ S[m] \in Docs /\ x \in S[m - 1].items /\ x \notin S[m].items
  BY <1>6, <1>7 DEF Has
<1>9. answers[m] \in AnswerSet
  BY <1>1, <1>5, ElementOfSeq DEF ScreenTyped
<1>10. answers[m].call.op \in {"delete", "forget"} /\ answers[m].call.topo = g /\ answers[m].call.item = x
  BY <1>6, <1>8, <1>9, FollowsLoses
<1> QED
  BY <1>1, <1>5, <1>10 DEF Calls

\* An item is added.
LEMMA AddItemKept == ASSUME ScreenInv, NEW x \in Items, AddItem(x) PROVE ScreenInv'
<1>1. ScreenTyped /\ selected \in Graphs
  BY DEF ScreenInv, ScreenTyped, AddItem
<1>2. PICK c : c = Call("add", selected, x) /\ c \in CallSet
  <2>1. Call("add", selected, x) \in CallSet
    BY <1>1 DEF Call, CallSet
  <2> QED
    BY <2>1
<1>3. /\ sent' = sent \cup {c} /\ UNCHANGED <<server, answers, selected, shown, chosen, crossed>>
      /\ server[selected] # Blank => x \notin server[selected].items
      /\ \A d \in Calls : d.item # x
  BY <1>1, <1>2 DEF AddItem, Sends, screen
<1>4. /\ ScreenTyped' /\ Positions' = Positions /\ Calls' = Calls \cup {c}
      /\ \A p \in Positions : \A d : CallAt(p, d)' <=> CallAt(p, d) \/ (p = Len(answers) + 1 /\ d = c)
      /\ Len(answers) \in Nat /\ Positions = 1..Len(answers) + 1
  <2>1. chosen' \in Gadgets \cup {Blank}
    BY <1>1, <1>3 DEF ScreenTyped
  <2> QED
    BY <1>1, <1>2, <1>3, <2>1, OneMoreCall
<1> SUFFICES ASSUME ~ crossed
             PROVE  /\ shown' \in Docs \cup {Blank} /\ ForgetsOnce'
                    /\ shown' # Blank /\ shown'.topo # selected' => Awaited("load")'
                    /\ \A g \in Graphs : InStep(g)'
  BY <1>3, <1>4 DEF ScreenInv
<1>5. /\ shown \in Docs \cup {Blank} /\ ForgetsOnce
      /\ shown # Blank /\ shown.topo # selected => Awaited("load")
      /\ \A g \in Graphs : InStep(g)
  BY DEF ScreenInv
<1>6. \A g, n : Call("forget", g, n) # c /\ (Call("add", g, n) = c <=> g = selected /\ n = x)
  BY <1>2 DEF Call
<1>7. ForgetsOnce'
  BY <1>4, <1>5, <1>6 DEF ForgetsOnce
<1>8. ASSUME NEW g \in Graphs, g # selected PROVE InStep(g)'
  BY <1>1, <1>3, <1>5, <1>6, <1>8, SameTopology
<1>9. ASSUME NEW g \in Graphs, g = selected PROVE InStep(g)'
  <2>1. PICK S : History(g, S) /\ ForgetsLate(g, S) /\ AddsOnce(g, S) /\ ShowsFirst(g, S)
    BY <1>5 DEF InStep
  <2>2. History(g, S)'
    BY <1>3, <2>1 DEF History
  <2>3. ForgetsLate(g, S)'
    BY <1>4, <1>6, <2>1 DEF ForgetsLate
  <2>4. Forgotten(g)' = Forgotten(g)
    BY <1>4, <1>6 DEF Forgotten
  <2>5. ShowsFirst(g, S)'
    BY <1>3, <2>1, <2>4 DEF ShowsFirst
  <2>6. AddsOnce(g, S)'
    <3>1. PICK N \in Nat : N = Len(answers) /\ N + 1 - 1 = N
      BY <1>4
    <3> SUFFICES ASSUME NEW p \in Positions, NEW y \in Items, CallAt(p, Call("add", g, y))'
                 PROVE  /\ \A i \in 0..p - 1 : Has(S, i, y) => \E j \in i + 1..p - 1 : S[j] = Blank
                        /\ Call("forget", g, y) \in Calls => \E j \in 0..p - 1 : S[j] = Blank
      BY <1>4, <1>6 DEF AddsOnce
    <3>2. CASE CallAt(p, Call("add", g, y))
      BY <2>1, <3>2 DEF AddsOnce
    <3>3. CASE p = N + 1 /\ y = x
      <4>1. Call("forget", g, x) \notin Calls
        BY <1>3 DEF Call
      <4>2. ASSUME NEW i \in 0..N, Has(S, i, x) PROVE \E j \in i + 1..N : S[j] = Blank
        <5>1. SUFFICES ASSUME \A j \in i + 1..N : S[j] # Blank PROVE FALSE
          OBVIOUS
        <5>2. ~ Has(S, N, x) /\ N \in 0..N /\ i <= N
          BY <1>3, <1>9, <2>1, <3>1 DEF History, Has
        <5>3. \E d \in Calls : d.op \in {"delete", "forget"} /\ d.topo = g /\ d.item = x
          BY <1>1, <2>1, <3>1, <4>2, <5>1, <5>2, LostByCall
        <5> QED
          BY <1>3, <5>3
      <4> QED
        BY <3>1, <3>3, <4>1, <4>2
    <3> QED
      BY <1>4, <1>6, <3>1, <3>2, <3>3
  <2> QED
    BY <2>2, <2>3, <2>5, <2>6 DEF InStep
<1>10. shown' # Blank /\ shown'.topo # selected' => Awaited("load")'
  BY <1>3, <1>4, <1>5 DEF Awaited
<1> QED
  BY <1>3, <1>5, <1>7, <1>8, <1>9, <1>10

\* A note goes from the screen, and its deletion is called for.
LEMMA DeleteNoteKept == ASSUME ScreenInv, NEW n \in Notes, DeleteNote(n) PROVE ScreenInv'
<1>1. ScreenTyped /\ selected \in Graphs
  BY DEF ScreenInv, ScreenTyped, DeleteNote
<1>2. PICK c : c = Call("forget", selected, n) /\ c \in CallSet
  <2>1. Call("forget", selected, n) \in CallSet
    BY <1>1 DEF Call, CallSet
  <2> QED
    BY <2>1
<1>3. /\ sent' = sent \cup {c} /\ UNCHANGED <<server, answers, selected, chosen>>
      /\ shown # Blank /\ n \in shown.items /\ shown' = Without(shown, n)
      /\ crossed' = (crossed \/ shown.topo # selected)
  BY <1>1, <1>2 DEF DeleteNote, Sends, Shows, Rendered, EditsShown
<1>4. /\ ScreenTyped' /\ Positions' = Positions /\ Calls' = Calls \cup {c}
      /\ \A p \in Positions : \A d : CallAt(p, d)' <=> CallAt(p, d) \/ (p = Len(answers) + 1 /\ d = c)
      /\ Len(answers) \in Nat /\ Positions = 1..Len(answers) + 1
  <2>1. chosen' \in Gadgets \cup {Blank}
    BY <1>1, <1>3 DEF ScreenTyped
  <2> QED
    BY <1>1, <1>2, <1>3, <2>1, OneMoreCall
<1> SUFFICES ASSUME ~ crossed, shown.topo = selected
             PROVE  /\ shown' \in Docs \cup {Blank} /\ ForgetsOnce'
                    /\ shown' # Blank /\ shown'.topo # selected' => Awaited("load")'
                    /\ \A g \in Graphs : InStep(g)'
  BY <1>3, <1>4 DEF ScreenInv
<1>5. shown \in Docs /\ ForgetsOnce /\ \A g \in Graphs : InStep(g)
  BY <1>3 DEF ScreenInv
<1>6. \A g, y : Call("add", g, y) # c /\ (Call("forget", g, y) = c <=> g = selected /\ y = n)
  BY <1>2 DEF Call
<1>7. /\ shown' \in Docs /\ shown'.topo = selected /\ shown'.items = shown.items \ {n}
      /\ shown'.on = shown.on \ {n}
  BY <1>3, <1>5, WithoutDoc
<1>8. PICK S : History(selected, S) /\ ForgetsLate(selected, S) /\ AddsOnce(selected, S) /\ ShowsFirst(selected, S)
  BY <1>1, <1>5 DEF InStep
<1>9. PICK N \in Nat : N = Len(answers) /\ N + 1 - 1 = N /\ 0 \in 0..N /\ 0 <= N
  BY <1>4
<1>10. /\ S[0] \in Docs /\ S[0].topo = selected /\ shown = Less(S[0], Forgotten(selected))
       /\ Less(S[0], Forgotten(selected)).items = S[0].items \ Forgotten(selected)
       /\ Less(S[0], Forgotten(selected)).on = S[0].on
  <2>1. S[0] # Blank /\ shown = Less(S[0], Forgotten(selected))
    BY <1>3, <1>8 DEF ShowsFirst
  <2>2. S[0] \in Docs \cup {Blank} /\ (S[0] # Blank => S[0].topo = selected)
    BY <1>8, <1>9 DEF History
  <2> QED
    BY <2>1, <2>2, LessDoc
<1>11. n \in S[0].items /\ n \notin Forgotten(selected) /\ Has(S, 0, n)
  BY <1>3, <1>10, BlankAssumption DEF Has
<1>12. Call("forget", selected, n) \notin Calls
  BY <1>11 DEF Forgotten
<1>13. ForgetsOnce'
  <2>1. \A p \in Positions : ~ CallAt(p, c)
    BY <1>1, <1>2, <1>12, CallsAre DEF ScreenTyped
  <2> QED
    BY <1>4, <1>5, <1>6, <2>1 DEF ForgetsOnce
<1>14. ASSUME NEW g \in Graphs, g # selected PROVE InStep(g)'
  BY <1>1, <1>3, <1>5, <1>6, <1>7, <1>14, SameTopology
<1>15. ASSUME NEW g \in Graphs, g = selected PROVE InStep(g)'
  <2>1. History(g, S)'
    BY <1>15, <1>3, <1>8 DEF History
  <2>2. ForgetsLate(g, S)'
    <3> SUFFICES ASSUME NEW p \in Positions, NEW y \in Notes, CallAt(p, Call("forget", g, y))',
                        NEW i \in 0..p - 1, \A j \in 0..i : S[j] # Blank
                 PROVE  Has(S, i, y)
      BY <1>15, <1>3, <1>4 DEF ForgetsLate
    <3>1. CASE CallAt(p, Call("forget", g, y))
      BY <1>15, <1>8, <3>1 DEF ForgetsLate
    <3>2. CASE p = N + 1 /\ y = n
      <4>1. SUFFICES ASSUME ~ Has(S, i, n) PROVE FALSE
        BY <3>2
      <4>2. i \in 0..N /\ 0 <= i /\ \A j \in 0 + 1..i : j \in 0..i
        BY <1>15, <1>9, <3>2
      <4>3. PICK d \in Calls : d.op \in {"delete", "forget"} /\ d.topo = g /\ d.item = n
        <5>1. \A j \in 0 + 1..i : S[j] # Blank
          BY <4>2
        <5> QED
          BY <1>15, <1>1, <1>8, <1>9, <1>11, <4>1, <4>2, <5>1, LostByCall
      <4>4. d \in CallSet /\ n \notin Gadgets
        BY <1>15, <1>1, <4>3, CallsTyped, ItemsAssumption
      <4> QED
        BY <1>15, <1>12, <4>3, <4>4, CallOf
    <3> QED
      BY <1>15, <1>4, <1>6, <1>9, <3>1, <3>2
  <2>3. AddsOnce(g, S)'
    <3> SUFFICES ASSUME NEW p \in Positions, NEW y \in Items, CallAt(p, Call("add", g, y))'
                 PROVE  /\ \A i \in 0..p - 1 : Has(S, i, y) => \E j \in i + 1..p - 1 : S[j] = Blank
                        /\ (Call("forget", g, y) \in Calls)' => \E j \in 0..p - 1 : S[j] = Blank
      BY <1>15, <1>3, <1>4 DEF AddsOnce
    <3>1. CallAt(p, Call("add", g, y))
      BY <1>15, <1>4, <1>6
    <3>2. /\ \A i \in 0..p - 1 : Has(S, i, y) => \E j \in i + 1..p - 1 : S[j] = Blank
          /\ Call("forget", g, y) \in Calls => \E j \in 0..p - 1 : S[j] = Blank
      BY <1>15, <1>8, <3>1 DEF AddsOnce
    <3>3. CASE y = n
      <4>1. 0 \in 0..p - 1 /\ \A j \in 0 + 1..p - 1 : j \in 0..p - 1
        BY <1>15, <1>4
      <4>2. \E j \in 0 + 1..p - 1 : S[j] = Blank
        BY <1>15, <1>11, <3>2, <3>3, <4>1
      <4> QED
        BY <3>2, <4>1, <4>2
    <3>4. CASE y # n
      BY <1>15, <1>4, <1>6, <3>2, <3>4
    <3> QED
      BY <3>3, <3>4
  <2>4. Forgotten(g)' = Forgotten(g) \cup {n}
    <3>1. \A y \in Notes : (Call("forget", g, y) \in Calls)' <=> Call("forget", g, y) \in Calls \/ y = n
      BY <1>15, <1>3, <1>4, <1>6
    <3> QED
      BY <1>15, <1>3, <3>1 DEF Forgotten
  <2>5. ShowsFirst(g, S)'
    <3>1. PICK fs : fs = Forgotten(g)'
      OBVIOUS
    <3>2. Less(S[0], fs) \in Docs /\ Less(S[0], fs).topo = S[0].topo /\ Less(S[0], fs).items = S[0].items \ fs /\ Less(S[0], fs).on = S[0].on
      BY <1>15, <1>10, LessDoc
    <3>3. shown'.items = Less(S[0], fs).items
      BY <1>15, <1>7, <1>10, <2>4, <3>1, <3>2
    <3>4. shown'.on = Less(S[0], fs).on
      <4>1. S[0].on \subseteq Gadgets /\ n \notin Gadgets
        BY <1>15, <1>10, ItemsAssumption DEF Docs
      <4> QED
        BY <1>15, <1>7, <1>10, <3>2, <4>1
    <3>5. PICK d, e : d = shown' /\ e = Less(S[0], fs)
      OBVIOUS
    <3>6. d = e
      BY <1>15, <1>7, <1>10, <3>2, <3>3, <3>4, <3>5, SameDoc
    <3> QED
      BY <1>15, <1>3, <1>10, <3>1, <3>5, <3>6, BlankAssumption DEF ShowsFirst
  <2> QED
    BY <1>15, <1>3, <2>1, <2>2, <2>3, <2>5 DEF InStep
<1> QED
  BY <1>3, <1>7, <1>13, <1>14, <1>15, BlankAssumption

\* A call that neither adds an item nor deletes a note.
LEMMA OtherCallKept ==
  ASSUME ScreenInv, NEW c \in CallSet, c.op \notin {"add", "forget"}, sent' = sent \cup {c},
         UNCHANGED <<server, answers, selected, shown, chosen>>, crossed => crossed'
  PROVE  ScreenInv'
<1>1. ScreenTyped'
  <2>1. chosen' \in Gadgets \cup {Blank}
    BY DEF ScreenInv, ScreenTyped
  <2> QED
    BY <2>1, OneMoreCall DEF ScreenInv
<1> QED
  BY <1>1, ScreenQuiet

\* The page as it is when it has been loaded.
PageFresh ==
  /\ server \in [Graphs -> Docs \cup {Blank}] /\ \A g \in Graphs : server[g] # Blank => server[g].topo = g
  /\ selected = Blank /\ shown = Blank /\ chosen = Blank /\ sent = {} /\ answers = <<>>

\* The page begins with nothing under way.
LEMMA ScreenFresh == PageFresh => ScreenInv
<1> SUFFICES ASSUME PageFresh PROVE ScreenInv
  OBVIOUS
<1>1. ScreenTyped
  <2>1. answers \in Seq(AnswerSet)
    BY EmptySeq DEF PageFresh
  <2>2. IsFiniteSet(sent)
    BY FS_EmptySet DEF PageFresh
  <2> QED
    BY <2>1, <2>2 DEF ScreenTyped, PageFresh
<1>2. Len(answers) = 0 /\ Positions = {1}
  BY DEF Positions, PageFresh
<1>3. \A p \in Positions : \A c : ~ CallAt(p, c)
  BY <1>2 DEF CallAt, PageFresh
<1>4. ForgetsOnce
  BY <1>3 DEF ForgetsOnce
<1>5. ASSUME NEW g \in Graphs PROVE InStep(g)
  <2>1. PICK S : S = [i \in 0..0 |-> server[g]]
    OBVIOUS
  <2>2. History(g, S)
    BY <1>2, <2>1 DEF History, PageFresh
  <2>3. ForgetsLate(g, S) /\ AddsOnce(g, S)
    BY <1>3 DEF ForgetsLate, AddsOnce
  <2>4. ShowsFirst(g, S)
    BY DEF ShowsFirst, PageFresh
  <2> QED
    BY <2>2, <2>3, <2>4 DEF InStep
<1> QED
  BY <1>1, <1>4, <1>5 DEF ScreenInv, PageFresh

\* The page begins in step with the server.
LEMMA ScreenInitSound == ScreenInit => ScreenInv
<1> SUFFICES ASSUME ScreenInit PROVE PageFresh
  BY ScreenFresh
<1> QED
  BY FirstAssumption DEF ScreenInit, BlankScreen, PageFresh

\* The page is loaded again.
LEMMA ReloadKept == ASSUME ScreenInv, ReloadPage PROVE ScreenInv'
<1>1. PageFresh'
  BY DEF ScreenInv, ScreenTyped, ReloadPage, PageFresh
<1> QED
  BY <1>1, ScreenFresh, PTL

\* Every step of the tab and of the server keeps the screen in step.
LEMMA ScreenStep == ScreenInv /\ [ScreenNext]_feVars => ScreenInv'
<1> SUFFICES ASSUME ScreenInv, [ScreenNext]_feVars PROVE ScreenInv'
  OBVIOUS
<1>0. ScreenTyped
  BY DEF ScreenInv
<1>1. ASSUME NEW g \in Graphs \cup {Blank}, SelectTopology(g) PROVE ScreenInv'
  <2>1. /\ selected' = g /\ shown' = (IF g = Blank THEN Blank ELSE shown) /\ chosen' = Blank
        /\ sent' = IF g = Blank THEN sent ELSE sent \cup {Call("load", g, Blank)}
        /\ UNCHANGED <<server, answers, crossed>>
    BY <1>1, SelectsOne DEF SelectTopology
  <2>2. g # Blank => Call("load", g, Blank) \in CallSet /\ Call("load", g, Blank).op = "load"
    BY LoadIsCall DEF Call
  <2>3. ScreenTyped'
    <3>1. IsFiniteSet(sent \cup {Call("load", g, Blank)})
      BY <1>0, FS_AddElement DEF ScreenTyped
    <3>2. sent' \subseteq CallSet /\ IsFiniteSet(sent')
      BY <1>0, <2>1, <2>2, <3>1 DEF ScreenTyped
    <3> QED
      BY <1>0, <2>1, <3>2 DEF ScreenTyped
  <2>4. sent \subseteq sent' /\ \A c \in sent' \ sent : c.op # "add" /\ c.op # "forget"
    BY <2>1, <2>2
  <2>5. selected' = selected \/ shown' = Blank \/ Call("load", selected', Blank) \in sent'
    BY <2>1
  <2> QED
    BY <2>1, <2>3, <2>4, <2>5, ScreenQuiet
<1>2. ASSUME UNCHANGED <<server, answers, sent, crossed>>, selected' = selected, shown' = shown, chosen' \in Gadgets \cup {Blank}
      PROVE  ScreenInv'
  <2>1. ScreenTyped'
    BY <1>0, <1>2 DEF ScreenTyped
  <2> QED
    BY <1>2, <2>1, ScreenQuiet
<1>3. ASSUME NEW d \in Gadgets, OpenWindow(d) PROVE ScreenInv'
  BY <1>2, <1>3 DEF OpenWindow, Rendered
<1>4. ASSUME NEW d \in Gadgets, CloseWindow(d) PROVE ScreenInv'
  <2>1. chosen' \in Gadgets \cup {Blank}
    BY <1>0, <1>4 DEF CloseWindow, ScreenTyped
  <2> QED
    BY <1>2, <1>4, <2>1 DEF CloseWindow, Rendered
<1>5. ASSUME NEW c \in CallSet, c.op \notin {"add", "forget"}, Sends(c),
             UNCHANGED <<server, answers, selected, shown, chosen>>, crossed => crossed'
      PROVE  ScreenInv'
  BY <1>5, OtherCallKept DEF Sends
<1>6. ASSUME NEW d \in Gadgets, PowerDevice(d) PROVE ScreenInv'
  <2>1. Call("power", selected, d) \in CallSet /\ Call("power", selected, d).op = "power"
    BY <1>0, <1>6 DEF PowerDevice, ScreenTyped, CallSet, Call
  <2>2. /\ Sends(Call("power", selected, d)) /\ (crossed => crossed')
        /\ UNCHANGED <<server, answers, selected, shown, chosen>>
    BY <1>6 DEF PowerDevice, screen, EditsShown
  <2> QED
    BY <1>5, <2>1, <2>2
<1>7. ASSUME DeleteDevice PROVE ScreenInv'
  <2>1. Call("delete", selected, chosen) \in CallSet /\ Call("delete", selected, chosen).op = "delete"
    BY <1>0, <1>7 DEF DeleteDevice, ScreenTyped, CallSet, Call
  <2>2. /\ Sends(Call("delete", selected, chosen)) /\ (crossed => crossed')
        /\ UNCHANGED <<server, answers, selected, shown, chosen>>
    BY <1>7 DEF DeleteDevice, screen, EditsShown
  <2> QED
    BY <1>5, <2>1, <2>2
<1>8. ASSUME Refresh PROVE ScreenInv'
  <2>1. Call("load", selected, Blank) \in CallSet /\ Call("load", selected, Blank).op = "load"
    BY <1>0, <1>8 DEF Refresh, ScreenTyped, CallSet, Call
  <2>2. /\ Sends(Call("load", selected, Blank)) /\ (crossed => crossed')
        /\ UNCHANGED <<server, answers, selected, shown, chosen>>
    BY <1>8 DEF Refresh, screen
  <2> QED
    BY <1>5, <2>1, <2>2
<1>9. ASSUME NEW g \in Graphs, CreateTopology(g) PROVE ScreenInv'
  <2>1. Call("create", g, Blank) \in CallSet /\ Call("create", g, Blank).op = "create"
    BY DEF CallSet, Call
  <2>2. /\ Sends(Call("create", g, Blank)) /\ (crossed => crossed')
        /\ UNCHANGED <<server, answers, selected, shown, chosen>>
    BY <1>9 DEF CreateTopology, screen
  <2> QED
    BY <1>5, <2>1, <2>2
<1>10. ASSUME DeleteTopology PROVE ScreenInv'
  <2>1. Call("drop", selected, Blank) \in CallSet /\ Call("drop", selected, Blank).op = "drop"
    BY <1>0, <1>10 DEF DeleteTopology, ScreenTyped, CallSet, Call
  <2>2. /\ Sends(Call("drop", selected, Blank)) /\ (crossed => crossed')
        /\ UNCHANGED <<server, answers, selected, shown, chosen>>
    BY <1>10 DEF DeleteTopology, screen
  <2> QED
    BY <1>5, <2>1, <2>2
<1>11. ASSUME NEW x \in Items, AddItem(x) PROVE ScreenInv'
  BY <1>11, AddItemKept
<1>12. ASSUME NEW n \in Notes, DeleteNote(n) PROVE ScreenInv'
  BY <1>12, DeleteNoteKept
<1>13. ASSUME ReloadPage PROVE ScreenInv'
  BY <1>13, ReloadKept
<1>14. ASSUME NEW c \in sent, NEW ok \in BOOLEAN, Serve(c, ok) PROVE ScreenInv'
  BY <1>14, ServeKept
<1>15. ASSUME NEW i \in 1..Len(answers), Deliver(i) PROVE ScreenInv'
  BY <1>15, DeliverKept
<1>16. ASSUME UNCHANGED feVars PROVE ScreenInv'
  <2>1. chosen' \in Gadgets \cup {Blank}
    BY <1>0, <1>16 DEF feVars, screen, ScreenTyped
  <2> QED
    BY <1>2, <1>16, <2>1 DEF feVars, screen
<1> QED
  BY <1>1, <1>3, <1>4, <1>6, <1>7, <1>8, <1>9, <1>10, <1>11, <1>12, <1>13, <1>14, <1>15, <1>16 DEF ScreenNext, Edit

\* Once nothing is under way, the screen is the document of the server.
LEMMA ScreenInvAgrees == ScreenInv => ScreenAgrees
<1> SUFFICES ASSUME ScreenInv, ~ crossed, shown # Blank
             PROVE  (shown.topo # selected => Awaited("load")) /\ (UnderWay = 0 => shown = server[selected])
  BY DEF ScreenAgrees
<1>1. /\ ScreenTyped /\ shown \in Docs
      /\ shown.topo # selected => Awaited("load")
      /\ \A g \in Graphs : InStep(g)
  BY DEF ScreenInv
<1>2. ASSUME UnderWay = 0 PROVE shown = server[selected]
  <2>1. Len(answers) = 0 /\ sent = {}
    <3>1. Len(answers) \in Nat /\ Cardinality(sent) \in Nat
      BY <1>1, LenProperties, FS_CardinalityType DEF ScreenTyped
    <3>2. Len(answers) = 0 /\ Cardinality(sent) = 0
      BY <1>2, <3>1 DEF UnderWay
    <3> QED
      BY <1>1, <3>2, FS_EmptySet DEF ScreenTyped
  <2>2. Calls = {}
    BY <2>1 DEF Calls
  <2>3. shown.topo = selected /\ selected \in Graphs
    BY <1>1, <2>2 DEF Awaited, Docs
  <2>4. PICK S : History(selected, S) /\ ShowsFirst(selected, S)
    BY <1>1, <2>3 DEF InStep
  <2>5. S[0] = server[selected] /\ S[0] # Blank /\ shown = Less(S[0], Forgotten(selected))
    BY <2>1, <2>3, <2>4 DEF History, ShowsFirst
  <2>6. Forgotten(selected) = {}
    BY <2>2 DEF Forgotten
  <2>7. S[0] \in Docs
    BY <1>1, <2>3, <2>5 DEF ScreenTyped
  <2>8. /\ shown.items = S[0].items /\ shown.topo = S[0].topo /\ shown.on = S[0].on
    <3>1. PICK fs, d : fs = Forgotten(selected) /\ d = S[0]
      OBVIOUS
    <3>2. Less(d, fs).items = d.items \ fs /\ Less(d, fs).topo = d.topo /\ Less(d, fs).on = d.on
      BY <2>7, <3>1, LessDoc
    <3> QED
      BY <2>5, <2>6, <3>1, <3>2
  <2> QED
    BY <1>1, <2>5, <2>7, <2>8, SameDoc
<1> QED
  BY <1>1, <1>2

\* What the screen shows is what the server stores, once all calls are answered and as long
\* as edits and answers met their documents in order: the optimistic deletion of a note, its
\* rollback and the answers between them leave no trace on App.tsx's document.
THEOREM ScreenStaysRight == ScreenSpec => []ScreenAgrees
<1>1. ScreenInit => ScreenInv
  BY ScreenInitSound
<1>2. ScreenInv /\ [ScreenNext]_feVars => ScreenInv'
  BY ScreenStep
<1>3. ScreenInv => ScreenAgrees
  BY ScreenInvAgrees
<1> QED
  BY <1>1, <1>2, <1>3, PTL DEF ScreenSpec

-----------------------------------------------------------------------------
(* What watches over the server: ends of sequences.                        *)

\* w is what is left of s behind its first k elements.
EndOf(w, s, k) == k \in 0..Len(s) /\ Len(w) = Len(s) - k /\ \A i \in 1..Len(w) : w[i] = s[k + i]

\* SubSeq gives that, and nothing else is it.
LEMMA EndIs ==
  ASSUME NEW S, NEW s \in Seq(S), NEW k \in 0..Len(s)
  PROVE  /\ SubSeq(s, k + 1, Len(s)) \in Seq(S) /\ EndOf(SubSeq(s, k + 1, Len(s)), s, k)
         /\ \A w \in Seq(S) : EndOf(w, s, k) => w = SubSeq(s, k + 1, Len(s))
<1>1. PICK n \in Nat : n = Len(s)
  OBVIOUS
<1>2. PICK v : v = SubSeq(s, k + 1, n)
  OBVIOUS
<1>3. \A i \in k + 1..n : i \in 1..n /\ s[i] \in S
  BY <1>1
<1>4. v = [i \in 1..n - k |-> s[k + i]]
  <2>1. v = [i \in 1..(n - (k + 1) + 1) |-> s[i + (k + 1) - 1]]
    BY <1>2
  <2>2. (n - (k + 1) + 1) = n - k /\ \A i \in 1..n - k : i + (k + 1) - 1 = k + i
    BY <1>1
  <2> QED
    BY <2>1, <2>2
<1>5. n - k \in Nat /\ \A i \in 1..n - k : k + i \in k + 1..n
  BY <1>1
<1>6. v \in Seq(S) /\ Len(v) = n - k
  BY <1>3, <1>4, <1>5
<1>7. EndOf(v, s, k)
  BY <1>1, <1>4, <1>6 DEF EndOf
<1>8. ASSUME NEW w \in Seq(S), EndOf(w, s, k) PROVE w = v
  <2>1. Len(w) = Len(v) /\ \A i \in 1..Len(w) : w[i] = v[i]
    BY <1>7, <1>8 DEF EndOf
  <2> QED
    BY <1>6, <2>1, SeqEqual
<1> QED
  BY <1>1, <1>2, <1>6, <1>7, <1>8

\* The last n of s are one of its ends.
LEMMA LastIs ==
  ASSUME NEW S, NEW s \in Seq(S), NEW n \in Nat, NEW k, k = IF Len(s) <= n THEN 0 ELSE Len(s) - n
  PROVE  /\ k \in 0..Len(s) /\ LastOf(s, n) \in Seq(S) /\ EndOf(LastOf(s, n), s, k)
         /\ \A w \in Seq(S) : EndOf(w, s, k) => w = LastOf(s, n)
<1>1. PICK m \in Nat : m = Len(s)
  OBVIOUS
<1>2. k \in 0..Len(s)
  BY <1>1
<1>3. CASE m <= n
  <2>1. LastOf(s, n) = s /\ k = 0
    BY <1>1, <1>3 DEF LastOf
  <2>2. EndOf(s, s, 0)
    BY <1>1 DEF EndOf
  <2>3. ASSUME NEW w \in Seq(S), EndOf(w, s, 0) PROVE w = s
    <3>1. Len(w) = Len(s) /\ \A i \in 1..Len(w) : w[i] = s[i]
      BY <1>1, <2>3 DEF EndOf
    <3> QED
      BY <3>1, SeqEqual
  <2> QED
    BY <1>2, <2>1, <2>2, <2>3
<1>4. CASE ~ m <= n
  <2>1. k = m - n /\ k + 1 = m - n + 1
    BY <1>1, <1>4
  <2>2. LastOf(s, n) = SubSeq(s, k + 1, Len(s))
    BY <1>1, <1>4, <2>1 DEF LastOf
  <2>3. /\ SubSeq(s, k + 1, Len(s)) \in Seq(S) /\ EndOf(SubSeq(s, k + 1, Len(s)), s, k)
        /\ \A w \in Seq(S) : EndOf(w, s, k) => w = SubSeq(s, k + 1, Len(s))
    BY <1>2, EndIs
  <2> QED
    BY <1>2, <2>2, <2>3
<1> QED
  BY <1>3, <1>4

\* Of an end that is followed by one more, the last n are those of the whole that is.
LEMMA LastAppend ==
  ASSUME NEW S, NEW s \in Seq(S), NEW x \in S, NEW n \in Nat \ {0}
  PROVE  LastOf(Append(LastOf(s, n), x), n) = LastOf(Append(s, x), n)
<1>1. PICK m \in Nat : m = Len(s)
  OBVIOUS
<1>2. PICK k : k = IF Len(s) <= n THEN 0 ELSE Len(s) - n
  OBVIOUS
<1>3. PICK u : u = LastOf(s, n)
  OBVIOUS
<1>4. k \in 0..m /\ u \in Seq(S) /\ EndOf(u, s, k)
  BY <1>1, <1>2, <1>3, LastIs
<1>5. PICK t, v : t = Append(s, x) /\ v = Append(u, x)
  OBVIOUS
<1>6. t \in Seq(S) /\ v \in Seq(S) /\ Len(t) = m + 1 /\ Len(v) = m - k + 1
  BY <1>1, <1>4, <1>5 DEF EndOf
<1>7. EndOf(v, t, k)
  <2>1. k \in 0..Len(t) /\ Len(v) = Len(t) - k
    BY <1>4, <1>6
  <2>2. ASSUME NEW i \in 1..m - k + 1 PROVE v[i] = t[k + i]
    <3>1. CASE i = m - k + 1
      <4>1. k + i = m + 1
        BY <1>4, <3>1
      <4>2. Len(u) = m - k
        BY <1>1, <1>4 DEF EndOf
      <4>3. v[i] = x
        <5>1. i = Len(u) + 1
          BY <3>1, <4>2
        <5> QED
          BY <1>4, <1>5, <5>1
      <4>4. t[k + i] = x
        BY <1>1, <1>5, <4>1
      <4> QED
        BY <4>3, <4>4
    <3>2. CASE i # m - k + 1
      <4>1. i \in 1..m - k /\ k + i \in 1..m
        BY <1>4, <2>2, <3>2
      <4>2. v[i] = u[i] /\ t[k + i] = s[k + i]
        BY <1>1, <1>4, <1>5, <4>1 DEF EndOf
      <4>3. u[i] = s[k + i]
        BY <1>1, <1>4, <4>1 DEF EndOf
      <4> QED
        BY <4>2, <4>3
    <3> QED
      BY <3>1, <3>2
  <2>3. Len(v) = m - k + 1
    BY <1>6
  <2> QED
    BY <2>1, <2>2, <2>3 DEF EndOf
<1>8. PICK j : j = IF Len(v) <= n THEN 0 ELSE Len(v) - n
  OBVIOUS
<1>9. PICK w : w = LastOf(v, n)
  OBVIOUS
<1>10. w \in Seq(S) /\ EndOf(w, v, j) /\ j \in 0..m - k + 1
  BY <1>6, <1>8, <1>9, LastIs
<1>11. PICK l : l = IF Len(t) <= n THEN 0 ELSE Len(t) - n
  OBVIOUS
<1>12. l = k + j
  <2>1. CASE m <= n
    <3>1. k = 0 /\ Len(v) = m + 1 /\ Len(t) = m + 1
      BY <1>1, <1>2, <1>6, <2>1
    <3> QED
      BY <1>8, <1>11, <3>1
  <2>2. CASE ~ m <= n
    <3>1. k = m - n /\ Len(v) = n + 1 /\ Len(t) = m + 1
      BY <1>1, <1>2, <1>6, <2>2
    <3>2. j = 1 /\ l = m + 1 - n
      BY <1>8, <1>11, <2>2, <3>1
    <3> QED
      BY <3>1, <3>2
  <2> QED
    BY <2>1, <2>2
<1>13. EndOf(w, t, l)
  <2>1. Len(w) = m - k + 1 - j /\ l \in 0..m + 1
    BY <1>4, <1>6, <1>10, <1>12 DEF EndOf
  <2>2. ASSUME NEW i \in 1..m - k + 1 - j PROVE w[i] = t[l + i]
    <3>1. j + i \in 1..m - k + 1 /\ k + (j + i) = l + i
      BY <1>4, <1>10, <1>12
    <3>2. w[i] = v[j + i]
      BY <1>10, <2>1 DEF EndOf
    <3>3. v[j + i] = t[k + (j + i)]
      BY <1>6, <1>7, <3>1 DEF EndOf
    <3> QED
      BY <3>1, <3>2, <3>3
  <2>3. Len(w) = Len(t) - l
    BY <1>4, <1>6, <1>10, <1>12, <2>1
  <2> QED
    BY <1>6, <2>1, <2>2, <2>3 DEF EndOf
<1>14. w = LastOf(t, n)
  BY <1>6, <1>10, <1>11, <1>13, LastIs
<1> QED
  BY <1>3, <1>5, <1>9, <1>14

\* The last of the last are the last.
LEMMA LastOfLast ==
  ASSUME NEW S, NEW s \in Seq(S), NEW n \in Nat, NEW j \in 0..n
  PROVE  LastOf(LastOf(s, n), j) = LastOf(s, j)
<1>1. PICK m \in Nat : m = Len(s)
  OBVIOUS
<1>2. PICK k : k = IF Len(s) <= n THEN 0 ELSE Len(s) - n
  OBVIOUS
<1>3. PICK u : u = LastOf(s, n)
  OBVIOUS
<1>4. k \in 0..m /\ u \in Seq(S) /\ EndOf(u, s, k) /\ Len(u) = m - k
  <2>1. k \in 0..m /\ u \in Seq(S) /\ EndOf(u, s, k)
    BY <1>1, <1>2, <1>3, LastIs
  <2> QED
    BY <1>1, <2>1 DEF EndOf
<1>5. PICK a : a = IF Len(u) <= j THEN 0 ELSE Len(u) - j
  OBVIOUS
<1>6. PICK w : w = LastOf(u, j)
  OBVIOUS
<1>7. w \in Seq(S) /\ EndOf(w, u, a) /\ a \in 0..m - k
  BY <1>4, <1>5, <1>6, LastIs
<1>8. PICK l : l = IF Len(s) <= j THEN 0 ELSE Len(s) - j
  OBVIOUS
<1>9. l = k + a
  <2>1. CASE m <= n
    <3>1. k = 0 /\ Len(u) = m /\ Len(s) = m
      BY <1>1, <1>2, <1>4, <2>1
    <3> QED
      BY <1>5, <1>8, <3>1
  <2>2. CASE ~ m <= n
    <3>1. k = m - n /\ Len(u) = n /\ Len(s) = m
      BY <1>1, <1>2, <1>4, <2>2
    <3>2. a = n - j /\ l = m - j
      BY <1>5, <1>8, <2>2, <3>1
    <3> QED
      BY <3>1, <3>2
  <2> QED
    BY <2>1, <2>2
<1>10. EndOf(w, s, l)
  <2>1. Len(w) = m - k - a /\ l \in 0..m /\ Len(w) = m - l
    BY <1>4, <1>7, <1>9 DEF EndOf
  <2>2. ASSUME NEW i \in 1..m - k - a PROVE w[i] = s[l + i]
    <3>1. a + i \in 1..m - k /\ k + (a + i) = l + i
      BY <1>4, <1>7, <1>9
    <3>2. w[i] = u[a + i]
      BY <1>7, <2>1 DEF EndOf
    <3>3. u[a + i] = s[k + (a + i)]
      BY <1>4, <3>1 DEF EndOf
    <3> QED
      BY <3>1, <3>2, <3>3
  <2> QED
    BY <1>1, <2>1, <2>2 DEF EndOf
<1> QED
  BY <1>3, <1>6, <1>7, <1>8, <1>10, LastIs

\* What is appended, and once if it was not there.
LEMMA AppendOnce ==
  ASSUME NEW S, NEW s \in Seq(S), NEW x \in S
  PROVE  /\ Append(s, x) \in Seq(S) /\ Range(Append(s, x)) = Range(s) \cup {x}
         /\ IsInjective(s) /\ x \notin Range(s) => IsInjective(Append(s, x))
<1>1. PICK n \in Nat : n = Len(s)
  OBVIOUS
<1>2. PICK t : t = Append(s, x)
  OBVIOUS
<1>3. t \in Seq(S) /\ DOMAIN t = 1..n + 1 /\ DOMAIN s = 1..n /\ t[n + 1] = x /\ \A i \in 1..n : t[i] = s[i]
  BY <1>1, <1>2
<1>4. \A i : i \in 1..n + 1 <=> i \in 1..n \/ i = n + 1
  BY <1>1
<1>5. \A y : y \in Range(t) <=> y \in Range(s) \/ y = x
  BY <1>3, <1>4 DEF Range
<1>6. ASSUME IsInjective(s), x \notin Range(s) PROVE IsInjective(t)
  <2>1. \A i \in 1..n : s[i] # x
    BY <1>3, <1>6 DEF Range
  <2>2. \A i, j \in 1..n : s[i] = s[j] => i = j
    BY <1>3, <1>6 DEF IsInjective
  <2> QED
    BY <1>3, <1>4, <2>1, <2>2 DEF IsInjective
<1> QED
  BY <1>2, <1>3, <1>5, <1>6

\* What is taken from the front of a sequence that has each element once is gone.
LEMMA TailOnce ==
  ASSUME NEW S, NEW s \in Seq(S), s # <<>>, IsInjective(s)
  PROVE  /\ Head(s) \in S /\ Tail(s) \in Seq(S) /\ Head(s) \in Range(s)
         /\ Range(Tail(s)) = Range(s) \ {Head(s)} /\ IsInjective(Tail(s))
<1>1. PICK n \in Nat \ {0} : n = Len(s)
  OBVIOUS
<1>2. PICK t : t = Tail(s)
  OBVIOUS
<1>3. t \in Seq(S) /\ DOMAIN t = 1..n - 1 /\ DOMAIN s = 1..n /\ Head(s) = s[1] /\ \A i \in 1..n - 1 : t[i] = s[i + 1]
  BY <1>1, <1>2
<1>4. 1 \in 1..n /\ \A i \in 1..n - 1 : i + 1 \in 1..n /\ i + 1 # 1
  BY <1>1
<1>5. \A i \in 1..n : i # 1 => i - 1 \in 1..n - 1 /\ (i - 1) + 1 = i
  BY <1>1
<1>6. \A i, j \in 1..n : s[i] = s[j] => i = j
  BY <1>3 DEF IsInjective
<1>7. \A y : y \in Range(t) <=> y \in Range(s) /\ y # s[1]
  <2>1. ASSUME NEW i \in 1..n - 1 PROVE t[i] \in Range(s) /\ t[i] # s[1]
    <3>1. i + 1 \in 1..n /\ i + 1 # 1 /\ t[i] = s[i + 1]
      BY <1>3, <1>4
    <3> QED
      BY <1>3, <1>4, <1>6, <3>1 DEF Range
  <2>2. ASSUME NEW i \in 1..n, s[i] # s[1] PROVE s[i] \in Range(t)
    <3>1. i - 1 \in 1..n - 1 /\ t[i - 1] = s[i]
      BY <1>3, <1>5, <2>2
    <3> QED
      BY <1>3, <3>1 DEF Range
  <2> QED
    BY <1>3, <2>1, <2>2 DEF Range
<1>8. \A i, j \in 1..n - 1 : t[i] = t[j] => i = j
  <2> SUFFICES ASSUME NEW i \in 1..n - 1, NEW j \in 1..n - 1, t[i] = t[j] PROVE i = j
    OBVIOUS
  <2>1. i + 1 = j + 1
    BY <1>3, <1>4, <1>6
  <2> QED
    BY <2>1
<1> QED
  BY <1>2, <1>3, <1>4, <1>7, <1>8 DEF IsInjective, Range


-----------------------------------------------------------------------------
(* What watches over the server: its records and its events.               *)

RecordsInv ==
  /\ added \in Seq(Nat)
  /\ packetEvents = LastOf(added, MaxRecords)

EventsInv ==
  /\ emitting \in [Threads -> Nat \cup {Nothing}] /\ numbers \in Nat
  /\ eventCh \in Seq(Nat) /\ streamed \in [Viewers -> Seq(Nat)] /\ viewing \subseteq Viewers
  /\ EventsAccounted

\* A packet that is recorded is the last of the records.
LEMMA RecordsKept == ASSUME RecordsInv, AddPacketEvent \/ ClearPacketEvents \/ UNCHANGED recordVars PROVE RecordsInv'
<1>0. MaxRecords \in Nat \ {0}
  BY WatchAssumption
<1>1. CASE AddPacketEvent
  <2>1. PICK x \in Nat : x = Len(added) + 1
    BY DEF RecordsInv
  <2>2. added' = Append(added, x) /\ packetEvents' = LastOf(Append(packetEvents, x), MaxRecords)
    BY <1>1, <2>1 DEF AddPacketEvent
  <2>3. LastOf(Append(LastOf(added, MaxRecords), x), MaxRecords) = LastOf(Append(added, x), MaxRecords)
    BY <1>0, LastAppend DEF RecordsInv
  <2>4. added' \in Seq(Nat)
    BY <2>2 DEF RecordsInv
  <2> QED
    BY <2>2, <2>3, <2>4 DEF RecordsInv
<1>2. CASE ClearPacketEvents
  <2>1. LastOf(<<>>, MaxRecords) = <<>>
    BY <1>0 DEF LastOf
  <2>2. <<>> \in Seq(Nat)
    OBVIOUS
  <2> QED
    BY <1>2, <2>1, <2>2 DEF ClearPacketEvents, RecordsInv
<1>3. CASE UNCHANGED recordVars
  BY <1>3 DEF recordVars, RecordsInv
<1> QED
  BY <1>1, <1>2, <1>3

\* Any list of them is the newest.
LEMMA RecordsListed == RecordsInv => RecordsNewest
<1> SUFFICES ASSUME RecordsInv, NEW n \in 1..MaxRecords PROVE ListPacketEvents(n) = LastOf(added, n)
  BY DEF RecordsInv, RecordsNewest
<1>1. MaxRecords \in Nat \ {0} /\ n \in 0..MaxRecords /\ ~ n <= 0
  BY WatchAssumption
<1>2. LastOf(LastOf(added, MaxRecords), n) = LastOf(added, n)
  BY <1>1, LastOfLast DEF RecordsInv
<1> QED
  BY <1>1, <1>2 DEF RecordsInv, ListPacketEvents

\* An event that is new is nowhere yet.
LEMMA LogKept == ASSUME EventsInv, NEW p \in Threads, LogEvent(p) PROVE EventsInv'
<1>0. Nothing = -1 /\ Nothing \notin Nat
  BY DEF Nothing
<1>1. PICK n \in Nat : n = numbers + 1
  BY DEF EventsInv
<1>2. /\ emitting[p] = Nothing /\ numbers' = n /\ emitting' = [emitting EXCEPT ![p] = n]
      /\ history' = LastOf(Append(history, n), MaxKept)
      /\ UNCHANGED <<eventCh, viewing, streamed, dropped>>
  BY <1>1 DEF LogEvent
<1>3. numbers \in Nat /\ 1..n = (1..numbers) \cup {n} /\ n \notin 1..numbers
  BY <1>1 DEF EventsInv
<1>4. /\ Queued \cup InFlight \cup dropped \cup UNION {ShownTo(v) : v \in Viewers} = 1..numbers
      /\ IsInjective(eventCh) /\ \A v \in Viewers : IsInjective(streamed[v])
      /\ \A a, b \in Threads : a # b /\ emitting[a] = emitting[b] => emitting[a] = Nothing
      /\ Queued \cap InFlight = {} /\ (Queued \cup InFlight) \cap dropped = {}
      /\ \A v \in Viewers : ShownTo(v) \cap (Queued \cup InFlight \cup dropped \cup UNION {ShownTo(w) : w \in Viewers \ {v}}) = {}
  BY DEF EventsInv, EventsAccounted
<1>5. /\ Queued' = Queued /\ \A v \in Viewers : ShownTo(v)' = ShownTo(v)
      /\ UNION {ShownTo(v)' : v \in Viewers} = UNION {ShownTo(v) : v \in Viewers}
      /\ \A v \in Viewers : UNION {ShownTo(w)' : w \in Viewers \ {v}} = UNION {ShownTo(w) : w \in Viewers \ {v}}
  BY <1>2 DEF Queued, ShownTo
<1>6. emitting' \in [Threads -> Nat \cup {Nothing}] /\ emitting'[p] = n /\ \A a \in Threads \ {p} : emitting'[a] = emitting[a]
  BY <1>2 DEF EventsInv
<1>7. InFlight' = InFlight \cup {n}
  BY <1>0, <1>2, <1>6 DEF InFlight
<1>8. \A v \in Viewers : ShownTo(v) \subseteq 1..numbers
  BY <1>4
<1>9. \A a \in Threads : emitting[a] = Nothing \/ emitting[a] \in 1..numbers
  BY <1>4 DEF InFlight
<1>10. \A a, b \in Threads : a # b /\ emitting'[a] = emitting'[b] => emitting'[a] = Nothing
  <2> SUFFICES ASSUME NEW a \in Threads, NEW b \in Threads, a # b, emitting'[a] = emitting'[b] PROVE emitting'[a] = Nothing
    OBVIOUS
  <2>1. CASE a # p /\ b # p
    BY <1>4, <1>6, <2>1
  <2>2. CASE a = p
    BY <1>0, <1>3, <1>6, <1>9, <2>2
  <2>3. CASE b = p
    BY <1>0, <1>3, <1>6, <1>9, <2>3
  <2> QED
    BY <2>1, <2>2, <2>3
<1>11. (Queued \cup InFlight \cup dropped \cup UNION {ShownTo(v) : v \in Viewers}) \cup {n} = 1..n
  BY <1>3, <1>4
<1>12. n \notin Queued /\ n \notin dropped /\ \A v \in Viewers : n \notin ShownTo(v)
  BY <1>3, <1>4, <1>8
<1>13. history' = LastOf([i \in 1..n |-> i], MaxKept)
  <2>1. PICK s : s = [i \in 1..numbers |-> i]
    OBVIOUS
  <2>2. s \in Seq(Nat) /\ Len(s) = numbers
    BY <1>3, <2>1
  <2>3. Append(s, n) = [i \in 1..n |-> i]
    <3>1. PICK t, u : t = Append(s, n) /\ u = [i \in 1..n |-> i]
      OBVIOUS
    <3>2. t \in Seq(Nat) /\ Len(t) = n /\ t[n] = n /\ \A i \in 1..numbers : t[i] = i
      BY <1>1, <1>3, <2>1, <2>2, <3>1
    <3>3. u \in Seq(Nat) /\ Len(u) = n
      BY <3>1
    <3>4. \A i \in 1..n : t[i] = u[i]
      BY <1>3, <3>1, <3>2
    <3> QED
      BY <3>1, <3>2, <3>3, <3>4, SeqEqual
  <2>4. LastOf(Append(LastOf(s, MaxKept), n), MaxKept) = LastOf(Append(s, n), MaxKept)
    BY <2>2, WatchAssumption, LastAppend
  <2>5. history = LastOf(s, MaxKept)
    BY <2>1 DEF EventsInv, EventsAccounted
  <2> QED
    BY <1>2, <2>3, <2>4, <2>5
<1>14. Queued' \cup InFlight' \cup dropped' \cup UNION {ShownTo(v)' : v \in Viewers} = 1..numbers'
  BY <1>2, <1>5, <1>7, <1>11
<1>15. Queued' \cap InFlight' = {} /\ (Queued' \cup InFlight') \cap dropped' = {}
  BY <1>2, <1>4, <1>5, <1>7, <1>12
<1>16. \A v \in Viewers : ShownTo(v)' \cap (Queued' \cup InFlight' \cup dropped' \cup UNION {ShownTo(w)' : w \in Viewers \ {v}}) = {}
  BY <1>2, <1>4, <1>5, <1>7, <1>12
<1>17. EventsAccounted'
  BY <1>2, <1>4, <1>10, <1>13, <1>14, <1>15, <1>16 DEF EventsAccounted
<1> QED
  BY <1>2, <1>6, <1>17 DEF EventsInv

\* An event that is handed on goes to the queue or is dropped.
LEMMA SendKept == ASSUME EventsInv, NEW p \in Threads, SendEvent(p) PROVE EventsInv'
<1>0. Nothing = -1 /\ Nothing \notin Nat
  BY DEF Nothing
<1>1. PICK e \in Nat : e = emitting[p]
  BY DEF EventsInv, SendEvent
<1>2. /\ emitting' = [emitting EXCEPT ![p] = Nothing] /\ UNCHANGED <<numbers, history, viewing, streamed>>
      /\ \/ eventCh' = Append(eventCh, e) /\ UNCHANGED dropped
         \/ dropped' = dropped \cup {e} /\ UNCHANGED eventCh
  BY <1>1 DEF SendEvent
<1>4. /\ Queued \cup InFlight \cup dropped \cup UNION {ShownTo(v) : v \in Viewers} = 1..numbers
      /\ IsInjective(eventCh) /\ \A v \in Viewers : IsInjective(streamed[v])
      /\ \A a, b \in Threads : a # b /\ emitting[a] = emitting[b] => emitting[a] = Nothing
      /\ Queued \cap InFlight = {} /\ (Queued \cup InFlight) \cap dropped = {}
      /\ \A v \in Viewers : ShownTo(v) \cap (Queued \cup InFlight \cup dropped \cup UNION {ShownTo(w) : w \in Viewers \ {v}}) = {}
  BY DEF EventsInv, EventsAccounted
<1>5. /\ \A v \in Viewers : ShownTo(v)' = ShownTo(v)
      /\ UNION {ShownTo(v)' : v \in Viewers} = UNION {ShownTo(v) : v \in Viewers}
      /\ \A v \in Viewers : UNION {ShownTo(w)' : w \in Viewers \ {v}} = UNION {ShownTo(w) : w \in Viewers \ {v}}
  BY <1>2 DEF ShownTo
<1>6. emitting' \in [Threads -> Nat \cup {Nothing}] /\ emitting'[p] = Nothing /\ \A a \in Threads \ {p} : emitting'[a] = emitting[a]
  BY <1>2 DEF EventsInv
<1>7. e \in InFlight /\ InFlight' = InFlight \ {e}
  <2>1. e \in InFlight
    BY <1>0, <1>1 DEF InFlight
  <2>2. \A a \in Threads \ {p} : emitting[a] # e
    BY <1>0, <1>1, <1>4
  <2> QED
    BY <1>0, <1>1, <1>6, <2>1, <2>2 DEF InFlight
<1>8. \A a, b \in Threads : a # b /\ emitting'[a] = emitting'[b] => emitting'[a] = Nothing
  BY <1>4, <1>6
<1>9. /\ eventCh' \in Seq(Nat) /\ IsInjective(eventCh')
      /\ \/ Queued' = Queued \cup {e} /\ dropped' = dropped
         \/ Queued' = Queued /\ dropped' = dropped \cup {e}
  <2>1. eventCh \in Seq(Nat) /\ e \notin Range(eventCh) /\ IsInjective(eventCh)
    BY <1>4, <1>7 DEF EventsInv, Queued
  <2>2. PICK t : t = Append(eventCh, e)
    OBVIOUS
  <2>3. t \in Seq(Nat) /\ Range(t) = Range(eventCh) \cup {e} /\ IsInjective(t)
    BY <2>1, <2>2, AppendOnce
  <2> QED
    BY <1>2, <2>1, <2>2, <2>3 DEF Queued
<1>10. Queued' \cup InFlight' \cup dropped' = Queued \cup InFlight \cup dropped
  BY <1>7, <1>9
<1>11. Queued' \cap InFlight' = {} /\ (Queued' \cup InFlight') \cap dropped' = {}
  BY <1>4, <1>7, <1>9
<1>12. Queued' \cup InFlight' \cup dropped' \cup UNION {ShownTo(v)' : v \in Viewers} = 1..numbers'
  BY <1>2, <1>4, <1>5, <1>10
<1>13. \A v \in Viewers : ShownTo(v)' \cap (Queued' \cup InFlight' \cup dropped' \cup UNION {ShownTo(w)' : w \in Viewers \ {v}}) = {}
  BY <1>4, <1>5, <1>10
<1>14. EventsAccounted'
  BY <1>2, <1>4, <1>8, <1>9, <1>11, <1>12, <1>13 DEF EventsAccounted, EventsInv
<1> QED
  BY <1>2, <1>6, <1>9, <1>14 DEF EventsInv

\* An event that is shown leaves the queue for one viewer.
LEMMA ShowKept == ASSUME EventsInv, NEW x \in Viewers, ShowEvent(x) PROVE EventsInv'
<1>0. eventCh \in Seq(Nat) /\ eventCh # <<>> /\ IsInjective(eventCh)
  BY DEF EventsInv, EventsAccounted, ShowEvent
<1>1. PICK e \in Nat, t \in Seq(Nat) : e = Head(eventCh) /\ t = Tail(eventCh)
  BY <1>0, TailOnce
<1>2. e \in Range(eventCh) /\ Range(t) = Range(eventCh) \ {e} /\ IsInjective(t)
  BY <1>0, <1>1, TailOnce
<1>3. /\ streamed' = [streamed EXCEPT ![x] = Append(@, e)] /\ eventCh' = t
      /\ UNCHANGED <<emitting, numbers, history, viewing, dropped>>
  BY <1>1 DEF ShowEvent
<1>4. /\ Queued \cup InFlight \cup dropped \cup UNION {ShownTo(v) : v \in Viewers} = 1..numbers
      /\ IsInjective(eventCh) /\ \A v \in Viewers : IsInjective(streamed[v])
      /\ \A a, b \in Threads : a # b /\ emitting[a] = emitting[b] => emitting[a] = Nothing
      /\ Queued \cap InFlight = {} /\ (Queued \cup InFlight) \cap dropped = {}
      /\ \A v \in Viewers : ShownTo(v) \cap (Queued \cup InFlight \cup dropped \cup UNION {ShownTo(w) : w \in Viewers \ {v}}) = {}
  BY DEF EventsInv, EventsAccounted
<1>5. Queued' = Queued \ {e} /\ e \in Queued /\ InFlight' = InFlight
  BY <1>2, <1>3 DEF Queued, InFlight
<1>6. e \notin InFlight /\ e \notin dropped /\ \A v \in Viewers : e \notin ShownTo(v)
  BY <1>4, <1>5
<1>7. /\ streamed' \in [Viewers -> Seq(Nat)] /\ ShownTo(x)' = ShownTo(x) \cup {e} /\ IsInjective(streamed'[x])
      /\ \A v \in Viewers \ {x} : streamed'[v] = streamed[v] /\ ShownTo(v)' = ShownTo(v)
  <2>1. PICK s \in Seq(Nat) : s = streamed[x]
    BY DEF EventsInv
  <2>2. PICK u : u = Append(s, e)
    OBVIOUS
  <2>3. e \notin Range(s) /\ IsInjective(s)
    BY <1>4, <1>6, <2>1 DEF ShownTo
  <2>4. u \in Seq(Nat) /\ Range(u) = Range(s) \cup {e} /\ IsInjective(u)
    BY <2>2, <2>3, AppendOnce
  <2>5. streamed' = [streamed EXCEPT ![x] = u]
    BY <1>3, <2>1, <2>2
  <2> QED
    BY <2>1, <2>4, <2>5 DEF EventsInv, ShownTo
<1>8. \A v \in Viewers : ShownTo(v)' \subseteq ShownTo(v) \cup {e} /\ ShownTo(v) \subseteq ShownTo(v)'
  BY <1>7
<1>9. Queued' \cup InFlight' \cup dropped' \cup UNION {ShownTo(v)' : v \in Viewers} = 1..numbers'
  <2>1. UNION {ShownTo(v)' : v \in Viewers} = (UNION {ShownTo(v) : v \in Viewers}) \cup {e}
    BY <1>7, <1>8
  <2> QED
    BY <1>3, <1>4, <1>5, <2>1
<1>10. Queued' \cap InFlight' = {} /\ (Queued' \cup InFlight') \cap dropped' = {}
  BY <1>3, <1>4, <1>5
<1>11. \A v \in Viewers : ShownTo(v)' \cap (Queued' \cup InFlight' \cup dropped' \cup UNION {ShownTo(w)' : w \in Viewers \ {v}}) = {}
  <2> SUFFICES ASSUME NEW v \in Viewers, NEW y \in ShownTo(v)'
               PROVE  /\ y \notin Queued' /\ y \notin InFlight' /\ y \notin dropped'
                      /\ \A w \in Viewers \ {v} : y \notin ShownTo(w)'
    OBVIOUS
  <2>1. CASE y = e
    <3>1. v = x
      BY <1>6, <1>7, <2>1
    <3> QED
      BY <1>3, <1>5, <1>6, <1>7, <2>1, <3>1
  <2>2. CASE y # e
    <3>1. y \in ShownTo(v)
      BY <1>8, <2>2
    <3>2. y \notin Queued /\ y \notin InFlight /\ y \notin dropped /\ \A w \in Viewers \ {v} : y \notin ShownTo(w)
      BY <1>4, <3>1
    <3> QED
      BY <1>3, <1>5, <1>8, <2>2, <3>2
  <2> QED
    BY <2>1, <2>2
<1>12. \A v \in Viewers : IsInjective(streamed'[v])
  BY <1>4, <1>7
<1>13. EventsAccounted'
  BY <1>2, <1>3, <1>4, <1>9, <1>10, <1>11, <1>12 DEF EventsAccounted, EventsInv
<1> QED
  BY <1>1, <1>3, <1>7, <1>13 DEF EventsInv

\* The other steps leave the events where they are.
LEMMA EventsKept ==
  ASSUME EventsInv,
         \/ \E p \in Threads : LogEvent(p) \/ SendEvent(p)
         \/ \E v \in Viewers : View(v) \/ LeaveView(v) \/ ShowEvent(v)
         \/ StopEvents \/ UNCHANGED eventVars
  PROVE  EventsInv'
<1>1. ASSUME UNCHANGED <<emitting, numbers, history, eventCh, streamed, dropped>>, viewing' \subseteq Viewers PROVE EventsInv'
  BY <1>1 DEF EventsInv, EventsAccounted, Queued, InFlight, ShownTo
<1>2. ASSUME NEW v \in Viewers, View(v) \/ LeaveView(v) PROVE EventsInv'
  <2>1. viewing' \subseteq Viewers
    BY <1>2 DEF View, LeaveView, EventsInv
  <2> QED
    BY <1>1, <1>2, <2>1 DEF View, LeaveView
<1>3. CASE StopEvents \/ UNCHANGED eventVars
  BY <1>1, <1>3 DEF StopEvents, eventVars, EventsInv
<1> QED
  BY <1>2, <1>3, LogKept, SendKept, ShowKept


-----------------------------------------------------------------------------
(* What watches over the server: its counters.                             *)

\* The times of s do not go back.
InTime(s) == \A i, j \in 1..Len(s) : i <= j => s[i] <= s[j]

MetricsInv ==
  /\ now \in Nat /\ pendingMax \in Nat /\ depthsNoted \subseteq Nat
  /\ noting \in [Threads -> Seq(Nat)] /\ \A p \in Threads : noting[p] # <<>> => {noting[p][1], noting[p][2]} \subseteq Nat /\ noting[p][2] <= pendingMax
  /\ rebuildAt \in Seq(Nat) /\ InTime(rebuildAt) /\ \A i \in 1..Len(rebuildAt) : rebuildAt[i] <= now
  /\ snapshots \in [Threads -> Seq(Int)] /\ \A p \in Threads : snapshots[p] # <<>> => snapshots[p][1] \in Int /\ snapshots[p][1] <= now - Span
  /\ CountersTrue

\* A snapshot keeps an end of the times it finds, and what it drops is before the cutoff.
LEMMA TrimsFront ==
  ASSUME NEW s \in Seq(Nat), InTime(s), NEW c \in Int
  PROVE  \E k \in 0..Len(s) : KeptSince(s, c) = SubSeq(s, k + 1, Len(s)) /\ \A i \in 1..k : s[i] < c
<1>1. PICK n \in Nat : n = Len(s)
  OBVIOUS
<1> DEFINE kept[i \in 0..Len(s)] == IF i = 0 THEN <<>> ELSE IF s[i] >= c THEN Append(kept[i - 1], s[i]) ELSE kept[i - 1]
<1>2. KeptSince(s, c) = kept[n]
  BY <1>1 DEF KeptSince
<1>3. kept = [i \in 0..n |-> IF i = 0 THEN <<>> ELSE IF s[i] >= c THEN Append(kept[i - 1], s[i]) ELSE kept[i - 1]]
  <2>1. PICK next : next = [p \in (1..n) \X Seq(Nat) |-> IF s[p[1]] >= c THEN Append(p[2], s[p[1]]) ELSE p[2]]
    OBVIOUS
  <2>2. \A i \in 1..n : s[i] \in Nat
    BY <1>1, ElementOfSeq
  <2>3. next \in [(1..n) \X Seq(Nat) -> Seq(Nat)]
    BY <2>1, <2>2
  <2>4. PICK f \in [0..n -> Seq(Nat)] : \A k \in 0..n : f[k] = IF k = 0 THEN <<>> ELSE next[<<k, f[k - 1]>>]
    <3>1. PassStep(next, Seq(Nat), n) /\ <<>> \in Seq(Nat)
      BY <2>3 DEF PassStep
    <3>2. PICK f : PassOf(f, next, Seq(Nat), <<>>, n)
      BY <3>1, PassExists
    <3> QED
      BY <3>2 DEF PassOf
  <2>5. \A k \in 0..n : k = 0 \/ (k \in 1..n /\ k - 1 \in 0..n)
    OBVIOUS
  <2>6. \A k \in 1..n : k - 1 \in 0..n => next[<<k, f[k - 1]>>] = IF s[k] >= c THEN Append(f[k - 1], s[k]) ELSE f[k - 1]
    BY <2>1, <2>4
  <2>7. \A k \in 0..n : f[k] = IF k = 0 THEN <<>> ELSE IF s[k] >= c THEN Append(f[k - 1], s[k]) ELSE f[k - 1]
    BY <2>4, <2>5, <2>6
  <2>8. f = [k \in 0..n |-> IF k = 0 THEN <<>> ELSE IF s[k] >= c THEN Append(f[k - 1], s[k]) ELSE f[k - 1]]
    BY <2>4, <2>7
  <2> DEFINE Is(g) == g = [k \in 0..Len(s) |-> IF k = 0 THEN <<>> ELSE IF s[k] >= c THEN Append(g[k - 1], s[k]) ELSE g[k - 1]]
  <2>9. kept = CHOOSE g : Is(g)
    OBVIOUS
  <2>10. Is(f)
    BY <1>1, <2>8
  <2> HIDE DEF Is, kept
  <2>11. Is(kept)
    BY <2>9, <2>10
  <2> QED
    BY <1>1, <2>11 DEF Is
<1> HIDE DEF kept
\* Up to i the front that is dropped ends at k.
<1> DEFINE Upto(i, k) == /\ k \in 0..i /\ kept[i] \in Seq(Nat) /\ Len(kept[i]) = i - k
                         /\ \A j \in 1..i - k : kept[i][j] = s[k + j]
                         /\ \A j \in 1..k : s[j] < c
                         /\ \A j \in k + 1..i : s[j] >= c
<1>4. PICK T : T = {i \in 0..n : \E k : Upto(i, k)}
  OBVIOUS
<1>5. 0 \in T
  <2>1. 0 \in 0..n /\ kept[0] = <<>>
    <3>1. 0 \in 0..n
      OBVIOUS
    <3> QED
      BY <1>3, <3>1
  <2>2. Upto(0, 0)
    BY <2>1
  <2> HIDE DEF Upto
  <2> QED
    BY <1>4, <2>1, <2>2
<1>6. ASSUME NEW i \in 1..n, i - 1 \in T PROVE i \in T
  <2>1. i \in 0..n /\ i - 1 \in 0..n /\ i # 0 /\ s[i] \in Nat
    BY <1>1, ElementOfSeq
  <2>2. PICK k : Upto(i - 1, k)
    BY <1>4, <1>6
  <2>3. PICK u, v : u = kept[i - 1] /\ v = kept[i] /\ u \in Seq(Nat)
    BY <2>2
  <2>4. /\ k \in 0..i - 1 /\ Len(u) = i - 1 - k
        /\ \A j \in 1..i - 1 - k : u[j] = s[k + j]
        /\ \A j \in 1..k : s[j] < c
        /\ \A j \in k + 1..i - 1 : s[j] >= c
    BY <2>2, <2>3
  <2>5. v = IF s[i] >= c THEN Append(u, s[i]) ELSE u
    BY <1>3, <2>1, <2>3
  <2>6. CASE s[i] >= c
    <3>1. v \in Seq(Nat) /\ Len(v) = i - k
      BY <2>1, <2>3, <2>4, <2>5, <2>6
    <3>2. \A j \in 1..i - k : v[j] = s[k + j]
      <4> SUFFICES ASSUME NEW j \in 1..i - k PROVE v[j] = s[k + j]
        OBVIOUS
      <4>1. CASE j = i - k
        <5>1. k + j = i /\ j = Len(u) + 1
          BY <2>4, <4>1
        <5> QED
          BY <2>5, <2>6, <5>1
      <4>2. CASE j # i - k
        <5>1. j \in 1..i - 1 - k
          BY <2>4, <4>2
        <5> QED
          BY <2>4, <2>5, <2>6, <5>1
      <4> QED
        BY <4>1, <4>2
    <3>3. k \in 0..i /\ \A j \in k + 1..i : j \in k + 1..i - 1 \/ j = i
      BY <2>4
    <3>4. \A j \in k + 1..i : s[j] >= c
      BY <2>4, <2>6, <3>3
    <3>5. Upto(i, k)
      BY <2>3, <2>4, <3>1, <3>2, <3>3, <3>4
    <3> HIDE DEF Upto
    <3> QED
      BY <1>4, <2>1, <3>5
  <2>7. CASE ~ s[i] >= c
    <3>0. i \in 1..n /\ \A j \in 1..i : j \in 1..n /\ j <= i
      OBVIOUS
    <3>1. \A j \in 1..i : s[j] <= s[i] /\ s[j] \in Nat
      BY <1>1, <3>0 DEF InTime
    <3>2. \A j \in 1..i : s[j] < c
      BY <2>1, <2>7, <3>1
    <3>3. k = i - 1
      <4> SUFFICES ASSUME k # i - 1 PROVE FALSE
        OBVIOUS
      <4>1. k + 1 \in k + 1..i - 1 /\ k + 1 \in 1..i
        BY <2>4
      <4>2. s[k + 1] >= c /\ s[k + 1] < c /\ s[k + 1] \in Nat
        BY <2>4, <3>1, <3>2, <4>1
      <4> QED
        BY <4>2
    <3>4. v = u /\ Len(u) = 0
      BY <2>4, <2>5, <2>7, <3>3
    <3>5. i \in 0..i /\ i - i = 0 /\ (\A j \in 1..0 : FALSE) /\ \A j \in i + 1..i : FALSE
      OBVIOUS
    <3>6. Upto(i, i)
      BY <2>3, <3>2, <3>4, <3>5
    <3> HIDE DEF Upto
    <3> QED
      BY <1>4, <2>1, <3>6
  <2> QED
    BY <2>6, <2>7
<1>7. n \in T
  <2> HIDE DEF Upto
  <2> QED
    BY <1>5, <1>6, HoldsTo
<1>8. PICK k : Upto(n, k)
  BY <1>4, <1>7
<1>9. PICK w : w = kept[n]
  OBVIOUS
<1>10. w \in Seq(Nat) /\ EndOf(w, s, k) /\ k \in 0..Len(s) /\ \A j \in 1..k : s[j] < c
  BY <1>1, <1>8, <1>9 DEF EndOf
<1>11. w = SubSeq(s, k + 1, Len(s))
  BY <1>10, EndIs
<1> QED
  BY <1>2, <1>9, <1>10, <1>11

\* The deepest queue is noted whichever goroutine swaps first.
LEMMA NotedKept == ASSUME MetricsInv, NEW p \in Threads, (\E d \in Depths : LoadMax(p, d)) \/ SwapMax(p), now' = now PROVE MetricsInv'
<1>1. ASSUME NEW d \in Depths, LoadMax(p, d) PROVE MetricsInv'
  <2>1. PICK e \in Nat : e = d
    BY WatchAssumption
  <2>2. PICK m \in Nat : m = pendingMax
    BY DEF MetricsInv
  <2>3. <<e, m>> \in Seq(Nat) /\ <<e, m>>[1] = e /\ <<e, m>>[2] = m
    OBVIOUS
  <2>4. noting' = [noting EXCEPT ![p] = <<e, m>>]
    BY <1>1, <2>1, <2>2 DEF LoadMax
  <2>5. noting' \in [Threads -> Seq(Nat)] /\ \A q \in Threads : noting'[q] = <<e, m>> \/ noting'[q] = noting[q]
    BY <2>3, <2>4 DEF MetricsInv
  <2>6. \A q \in Threads : noting'[q] # <<>> => {noting'[q][1], noting'[q][2]} \subseteq Nat /\ noting'[q][2] <= pendingMax
    <3> SUFFICES ASSUME NEW q \in Threads, noting'[q] # <<>> PROVE {noting'[q][1], noting'[q][2]} \subseteq Nat /\ noting'[q][2] <= pendingMax
      OBVIOUS
    <3>1. CASE noting'[q] = <<e, m>>
      BY <2>2, <3>1
    <3>2. CASE noting'[q] = noting[q]
      BY <3>2 DEF MetricsInv
    <3> QED
      BY <2>5, <3>1, <3>2
  <2>7. UNCHANGED <<pendingMax, depthsNoted, rebuilds, rebuildWindow, rebuildAt, snapshots, now>>
    BY <1>1 DEF LoadMax
  <2> QED
    BY <2>5, <2>6, <2>7 DEF MetricsInv, CountersTrue
<1>2. CASE SwapMax(p)
  <2>1. PICK d \in Nat, old \in Nat, m \in Nat : d = noting[p][1] /\ old = noting[p][2] /\ m = pendingMax /\ old <= m
    <3>1. noting[p] \in Seq(Nat) /\ noting[p] # <<>> /\ {noting[p][1], noting[p][2]} \subseteq Nat /\ noting[p][2] <= pendingMax
      BY <1>2 DEF SwapMax, MetricsInv
    <3> QED
      BY <3>1 DEF MetricsInv
  <2>2. PICK done \in BOOLEAN : done <=> (d <= old \/ m = old)
    OBVIOUS
  <2>3. /\ pendingMax' = IF d > old /\ m = old THEN d ELSE m
        /\ noting' = [noting EXCEPT ![p] = IF done THEN <<>> ELSE <<d, m>>]
        /\ depthsNoted' = IF done THEN depthsNoted \cup {d} ELSE depthsNoted
        /\ UNCHANGED <<rebuilds, rebuildWindow, rebuildAt, snapshots>>
    BY <1>2, <2>1, <2>2 DEF SwapMax
  <2>4. pendingMax' \in Nat /\ m <= pendingMax' /\ (done => d <= pendingMax')
    BY <2>1, <2>2, <2>3
  <2>5. /\ noting' \in [Threads -> Seq(Nat)]
        /\ \A q \in Threads : noting'[q] = <<>> \/ noting'[q] = <<d, m>> \/ noting'[q] = noting[q]
    BY <2>3 DEF MetricsInv
  <2>6. \A q \in Threads : noting'[q] # <<>> => {noting'[q][1], noting'[q][2]} \subseteq Nat /\ noting'[q][2] <= pendingMax'
    <3> SUFFICES ASSUME NEW q \in Threads, noting'[q] # <<>> PROVE {noting'[q][1], noting'[q][2]} \subseteq Nat /\ noting'[q][2] <= pendingMax'
      OBVIOUS
    <3>1. CASE noting'[q] = <<d, m>>
      BY <2>4, <3>1
    <3>2. CASE noting'[q] = noting[q]
      <4>1. noting[q] \in Seq(Nat) /\ noting[q] # <<>> /\ {noting[q][1], noting[q][2]} \subseteq Nat /\ noting[q][2] <= m
        BY <2>1, <3>2 DEF MetricsInv
      <4> QED
        BY <2>4, <3>2, <4>1
    <3> QED
      BY <2>5, <3>1, <3>2
  <2>7. depthsNoted' \subseteq Nat /\ pendingMax' \in depthsNoted' /\ \A e \in depthsNoted' : e <= pendingMax'
    <3>1. m \in depthsNoted /\ depthsNoted \subseteq Nat /\ \A e \in depthsNoted : e <= m
      BY <2>1 DEF MetricsInv, CountersTrue
    <3>2. \A e \in depthsNoted : e <= pendingMax'
      BY <2>4, <3>1
    <3>3. pendingMax' = m \/ (done /\ pendingMax' = d)
      BY <2>1, <2>2, <2>3
    <3> QED
      BY <2>3, <2>4, <3>1, <3>2, <3>3
  <2> QED
    BY <2>3, <2>4, <2>5, <2>6, <2>7 DEF MetricsInv, CountersTrue
<1> QED
  BY <1>1, <1>2

\* The window stays the end of all rebuilds, whoever trims it and however late.
LEMMA RebuildsKept ==
  ASSUME MetricsInv,
         \/ Tick /\ UNCHANGED metricVars
         \/ now' = now /\ (CountRebuild \/ NoteRebuild \/ \E p \in Threads : BeginSnapshot(p) \/ EndSnapshot(p))
  PROVE  MetricsInv'
<1>0. PICK A \in Seq(Nat), n \in Nat, t \in Nat, d \in Nat : A = rebuildAt /\ n = Len(A) /\ t = now /\ d = Span
  <2>1. Len(rebuildAt) \in Nat /\ rebuildAt \in Seq(Nat) /\ now \in Nat /\ Span \in Nat
    BY WatchAssumption DEF MetricsInv
  <2> QED
    BY <2>1
<1>1. PICK k \in 0..n : /\ rebuildWindow = SubSeq(A, k + 1, n)
                        /\ \A i \in 1..k : A[i] < t - d
  BY <1>0 DEF MetricsInv, CountersTrue
<1>2. /\ InTime(A) /\ \A i \in 1..n : A[i] <= t /\ A[i] \in Nat
      /\ \A p \in Threads : snapshots[p] # <<>> => snapshots[p][1] \in Int /\ snapshots[p][1] <= t - d
  BY <1>0 DEF MetricsInv
<1>3. pendingMax \in depthsNoted /\ \A e \in depthsNoted : e <= pendingMax
  BY DEF MetricsInv, CountersTrue
<1>4. CASE Tick /\ UNCHANGED metricVars
  <2>1. now' = t + 1 /\ UNCHANGED <<pendingMax, noting, depthsNoted, rebuildWindow, rebuildAt, snapshots>>
    BY <1>0, <1>4 DEF Tick, metricVars
  <2>2. \A i \in 1..k : A[i] < t + 1 - d
    <3>1. \A i \in 1..k : i \in 1..n
      BY <1>1
    <3> QED
      BY <1>0, <1>1, <1>2, <3>1
  <2>3. CountersTrue'
    <3>1. /\ k \in 0..Len(rebuildAt') /\ rebuildWindow' = SubSeq(rebuildAt', k + 1, Len(rebuildAt'))
          /\ \A i \in 1..k : rebuildAt'[i] < now' - Span
      BY <1>0, <1>1, <2>1, <2>2
    <3>2. pendingMax' \in depthsNoted' /\ \A e \in depthsNoted' : e <= pendingMax'
      BY <1>3, <2>1
    <3> QED
      BY <3>1, <3>2 DEF CountersTrue
  <2>4. \A i \in 1..n : A[i] <= t + 1
    BY <1>0, <1>2
  <2>5. \A p \in Threads : snapshots[p] # <<>> => snapshots[p][1] \in Int /\ snapshots[p][1] <= t + 1 - d
    BY <1>0, <1>2
  <2> QED
    BY <1>0, <2>1, <2>3, <2>4, <2>5 DEF MetricsInv
<1>5. CASE now' = now /\ CountRebuild
  BY <1>5 DEF CountRebuild, MetricsInv, CountersTrue
<1>6. CASE now' = now /\ NoteRebuild
  <2>1. PICK B : B = Append(A, t)
    OBVIOUS
  <2>2. /\ B \in Seq(Nat) /\ Len(B) = n + 1 /\ B[n + 1] = t /\ \A i \in 1..n : B[i] = A[i]
    BY <1>0, <2>1
  <2>3. /\ rebuildAt' = B /\ rebuildWindow' = Append(rebuildWindow, t)
        /\ UNCHANGED <<now, pendingMax, noting, depthsNoted, rebuilds, snapshots>>
    BY <1>0, <1>6, <2>1 DEF NoteRebuild
  <2>4. PICK w : w = SubSeq(A, k + 1, n)
    OBVIOUS
  <2>5. w \in Seq(Nat) /\ EndOf(w, A, k)
    BY <1>0, <2>4, EndIs
  <2>6. PICK v : v = Append(w, t)
    OBVIOUS
  <2>7. Len(w) = n - k /\ v \in Seq(Nat) /\ Len(v) = n - k + 1 /\ k \in 0..n + 1
    BY <1>0, <2>5, <2>6 DEF EndOf
  <2>8. EndOf(v, B, k)
    <3> SUFFICES ASSUME NEW i \in 1..n - k + 1 PROVE v[i] = B[k + i]
      BY <1>0, <2>2, <2>7 DEF EndOf
    <3>1. CASE i = n - k + 1
      <4>1. k + i = n + 1
        BY <1>0, <3>1
      <4> QED
        BY <2>2, <2>5, <2>6, <2>7, <3>1, <4>1
    <3>2. CASE i # n - k + 1
      <4>1. i \in 1..n - k /\ k + i \in 1..n
        BY <1>0, <3>2
      <4>2. v[i] = w[i] /\ B[k + i] = A[k + i]
        BY <2>2, <2>5, <2>6, <2>7, <4>1
      <4> QED
        BY <2>5, <2>7, <4>1, <4>2 DEF EndOf
    <3> QED
      BY <3>1, <3>2
  <2>9. rebuildWindow' = SubSeq(B, k + 1, n + 1)
    <3>1. k \in 0..Len(B)
      BY <2>2, <2>7
    <3>2. v = SubSeq(B, k + 1, Len(B))
      BY <2>2, <2>7, <2>8, <3>1, EndIs
    <3> QED
      BY <1>1, <2>2, <2>3, <2>4, <2>6, <3>2
  <2>10. \A i \in 1..k : B[i] < t - d
    <3>1. \A i \in 1..k : i \in 1..n
      BY <1>0
    <3> QED
      BY <1>1, <2>2, <3>1
  <2>11. CountersTrue'
    BY <1>0, <1>3, <2>2, <2>3, <2>7, <2>9, <2>10 DEF CountersTrue
  <2>12. InTime(B) /\ \A i \in 1..n + 1 : B[i] <= t
    <3>1. \A i \in 1..n + 1 : B[i] <= t
      <4>1. \A i \in 1..n + 1 : i \in 1..n \/ i = n + 1
        BY <1>0
      <4> QED
        BY <1>2, <2>2, <4>1
    <3>2. \A i, j \in 1..n + 1 : i <= j => (i \in 1..n /\ j \in 1..n) \/ j = n + 1
      BY <1>0
    <3>3. \A i, j \in 1..n : i <= j => B[i] <= B[j]
      <4>1. \A i, j \in 1..n : i <= j => A[i] <= A[j]
        BY <1>0, <1>2 DEF InTime
      <4>2. \A i \in 1..n : B[i] = A[i]
        BY <2>2
      <4> QED
        BY <4>1, <4>2
    <3> QED
      BY <2>2, <3>1, <3>2, <3>3 DEF InTime
  <2> QED
    BY <1>0, <2>2, <2>3, <2>11, <2>12 DEF MetricsInv
<1>7. ASSUME now' = now, NEW p \in Threads, BeginSnapshot(p) PROVE MetricsInv'
  <2>1. PICK c \in Int : c = t - d
    BY <1>0
  <2>2. snapshots' = [snapshots EXCEPT ![p] = <<c>>]
    BY <1>0, <1>7, <2>1 DEF BeginSnapshot
  <2>3. <<c>> \in Seq(Int) /\ <<c>>[1] = c
    OBVIOUS
  <2>4. snapshots' \in [Threads -> Seq(Int)] /\ \A q \in Threads : snapshots'[q] = <<c>> \/ snapshots'[q] = snapshots[q]
    BY <2>2, <2>3 DEF MetricsInv
  <2>5. \A q \in Threads : snapshots'[q] # <<>> => snapshots'[q][1] \in Int /\ snapshots'[q][1] <= t - d
    <3> SUFFICES ASSUME NEW q \in Threads, snapshots'[q] # <<>>
                 PROVE  snapshots'[q][1] \in Int /\ snapshots'[q][1] <= t - d
      OBVIOUS
    <3>1. CASE snapshots'[q] = <<c>>
      BY <1>0, <2>1, <2>3, <3>1
    <3>2. CASE snapshots'[q] = snapshots[q]
      BY <1>2, <3>2
    <3> QED
      BY <2>4, <3>1, <3>2
  <2>6. UNCHANGED <<pendingMax, noting, depthsNoted, rebuilds, rebuildWindow, rebuildAt, now>>
    BY <1>7 DEF BeginSnapshot
  <2> QED
    BY <1>0, <2>4, <2>5, <2>6 DEF MetricsInv, CountersTrue
<1>8. ASSUME now' = now, NEW p \in Threads, EndSnapshot(p) PROVE MetricsInv'
  <2>1. PICK c \in Int : c = snapshots[p][1] /\ c <= t - d
    BY <1>2, <1>8 DEF EndSnapshot
  <2>2. /\ snapshots' = [snapshots EXCEPT ![p] = <<>>] /\ rebuildWindow' = KeptSince(rebuildWindow, c)
        /\ UNCHANGED <<pendingMax, noting, depthsNoted, rebuilds, rebuildAt, now>>
    BY <1>8, <2>1 DEF EndSnapshot
  <2>3. PICK w : w = rebuildWindow
    OBVIOUS
  <2>4. w \in Seq(Nat) /\ EndOf(w, A, k) /\ Len(w) = n - k
    <3>1. w \in Seq(Nat) /\ EndOf(w, A, k)
      BY <1>0, <1>1, <2>3, EndIs
    <3> QED
      BY <1>0, <3>1 DEF EndOf
  <2>5. InTime(w)
    <3> SUFFICES ASSUME NEW i \in 1..n - k, NEW j \in 1..n - k, i <= j PROVE w[i] <= w[j]
      BY <2>4 DEF InTime
    <3>1. w[i] = A[k + i] /\ w[j] = A[k + j]
      BY <2>4 DEF EndOf
    <3>2. k + i \in 1..n /\ k + j \in 1..n /\ k + i <= k + j
      BY <1>0
    <3> QED
      BY <1>0, <1>2, <3>1, <3>2 DEF InTime
  <2>6. PICK m \in 0..Len(w) : KeptSince(w, c) = SubSeq(w, m + 1, Len(w)) /\ \A i \in 1..m : w[i] < c
    BY <2>4, <2>5, TrimsFront
  <2>7. PICK v : v = SubSeq(w, m + 1, Len(w))
    OBVIOUS
  <2>8. v \in Seq(Nat) /\ EndOf(v, w, m)
    BY <2>4, <2>7, EndIs
  <2>9. PICK l : l = k + m
    OBVIOUS
  <2>10. l \in 0..n /\ m \in 0..n - k
    BY <1>0, <2>4, <2>6, <2>9
  <2>11. EndOf(v, A, l)
    <3>1. Len(v) = n - l /\ Len(v) = n - k - m
      BY <1>0, <2>4, <2>8, <2>9, <2>10 DEF EndOf
    <3>2. ASSUME NEW i \in 1..n - l PROVE v[i] = A[l + i]
      <4>1. m + i \in 1..n - k /\ k + (m + i) = l + i
        BY <1>0, <2>9, <2>10
      <4>2. v[i] = w[m + i]
        BY <2>8, <3>1 DEF EndOf
      <4>3. w[m + i] = A[k + (m + i)]
        BY <2>4, <4>1 DEF EndOf
      <4> QED
        BY <4>1, <4>2, <4>3
    <3> QED
      BY <1>0, <2>10, <3>1, <3>2 DEF EndOf
  <2>12. rebuildWindow' = SubSeq(A, l + 1, n)
    <3>1. v = SubSeq(A, l + 1, n)
      BY <1>0, <2>8, <2>10, <2>11, EndIs
    <3> QED
      BY <2>2, <2>3, <2>6, <2>7, <3>1
  <2>13. \A i \in 1..l : A[i] < t - d
    <3> SUFFICES ASSUME NEW i \in 1..l PROVE A[i] < t - d
      OBVIOUS
    <3>1. CASE i \in 1..k
      BY <1>1, <3>1
    <3>2. CASE i \notin 1..k
      <4>1. i - k \in 1..m /\ i - k \in 1..n - k /\ k + (i - k) = i /\ i \in 1..n
        BY <1>0, <2>9, <2>10, <3>2
      <4>2. w[i - k] = A[i] /\ w[i - k] < c
        BY <2>4, <2>6, <4>1 DEF EndOf
      <4>3. A[i] \in Nat
        BY <1>2, <4>1
      <4> QED
        BY <1>0, <2>1, <4>2, <4>3
    <3> QED
      BY <3>1, <3>2
  <2>14. CountersTrue'
    BY <1>0, <1>3, <2>2, <2>10, <2>12, <2>13 DEF CountersTrue
  <2>15. /\ snapshots' \in [Threads -> Seq(Int)]
         /\ \A q \in Threads : snapshots'[q] = <<>> \/ snapshots'[q] = snapshots[q]
    BY <2>2 DEF MetricsInv
  <2> QED
    BY <2>2, <2>14, <2>15 DEF MetricsInv
<1> QED
  BY <1>4, <1>5, <1>6, <1>7, <1>8


-----------------------------------------------------------------------------
(* What watches over the server: its limiters.                             *)

\* The requests that passed are grouped by the first of their window, g of each: at most as
\* many as the limit, within one window's time, and the next group starts after that time.
Grouped(s, g) ==
  /\ g \in [1..Len(s) -> 1..Len(s)]
  /\ \A i \in 1..Len(s) : g[i] <= i /\ i < g[i] + Limit /\ s[i] <= s[g[i]] + Window
  /\ \A i, j \in 1..Len(s) : i <= j => g[i] = g[j] \/ (i < g[j] /\ s[g[i]] + Window < s[g[j]])

\* The window of a client, if it has one, is that of the last group; if it has none, that
\* time is over.
WindowOf(s, g, t, has, w) ==
  /\ has => /\ w \in [count : Nat, resetAt : Nat] /\ s # <<>> /\ w.count \in 1..Limit
            /\ g[Len(s)] = Len(s) - w.count + 1 /\ w.resetAt = s[g[Len(s)]] + Window
  /\ ~has => s = <<>> \/ s[g[Len(s)]] + Window < t
Tracked(s, t, has, w) ==
  /\ s \in Seq(Nat) /\ InTime(s) /\ \A i \in 1..Len(s) : s[i] <= t
  /\ \E g : Grouped(s, g) /\ WindowOf(s, g, t, has, w)

\* So with a client a, which has a window when it is in D.
TrackedIn(s, t, D, a, w) ==
  /\ a \in D => Tracked(s, t, TRUE, w)
  /\ a \notin D => Tracked(s, t, FALSE, w)

\* As many as the limit passed one after the other in the time before t.
FullBefore(s, t) ==
  \E i \in Nat \ {0} : i + Limit - 1 <= Len(s) /\ \A j \in i..i + Limit - 1 : s[j] \in t - Window..t

LimiterInv ==
  /\ now \in Nat /\ passed \in [ClientAddrs -> Seq(Nat)] /\ DOMAIN limiterWindows \subseteq ClientAddrs
  /\ \A a \in ClientAddrs : TrackedIn(passed[a], now, DOMAIN limiterWindows, a, limiterWindows[a])
  /\ \A r \in turnedAway : \E a \in ClientAddrs, t \in Nat : r = <<a, t>> /\ FullBefore(passed[a], t)

\* The limit and the time of a window are numbers above zero.
LEMMA LimitsAre == Limit \in Nat \ {0} /\ Window \in Nat \ {0}
BY WatchAssumption

\* Time passes.
LEMMA TrackedLater ==
  ASSUME NEW s, NEW t \in Nat, NEW u \in Nat, t <= u, NEW has \in BOOLEAN, NEW w, Tracked(s, t, has, w)
  PROVE  Tracked(s, u, has, w)
<1>1. PICK g : Grouped(s, g) /\ WindowOf(s, g, t, has, w)
  BY DEF Tracked
<1>2. PICK n \in Nat : n = Len(s)
  BY DEF Tracked
<1>3. \A i \in 1..n : s[i] \in Nat /\ s[i] <= u
  <2>1. \A i \in 1..n : s[i] \in Nat /\ s[i] <= t
    BY <1>2 DEF Tracked
  <2> QED
    BY <2>1
<1>4. s # <<>> => n \in 1..n /\ g[n] \in 1..n
  BY <1>1, <1>2 DEF Grouped, Tracked
<1>5. s # <<>> /\ s[g[n]] + Window < t => s[g[n]] + Window < u
  BY <1>3, <1>4, LimitsAre
<1>6. WindowOf(s, g, u, has, w)
  BY <1>1, <1>2, <1>5 DEF WindowOf
<1> QED
  BY <1>1, <1>2, <1>3, <1>6 DEF Tracked

\* A window whose time is over may be swept.
LEMMA TrackedSwept ==
  ASSUME NEW s, NEW t \in Nat, NEW w, Tracked(s, t, TRUE, w), w.resetAt < t, NEW v
  PROVE  Tracked(s, t, FALSE, v)
<1>1. PICK g : Grouped(s, g) /\ WindowOf(s, g, t, TRUE, w)
  BY DEF Tracked
<1>2. WindowOf(s, g, t, FALSE, v)
  BY <1>1 DEF WindowOf
<1> QED
  BY <1>1, <1>2 DEF Tracked

\* What passes joins the last group or starts one of its own.
LEMMA TrackedPass ==
  ASSUME NEW s, NEW t \in Nat, NEW has \in BOOLEAN, NEW w, Tracked(s, t, has, w), NEW v,
         \/ (~has \/ w.resetAt < t) /\ v = [count |-> 1, resetAt |-> t + Window]
         \/ has /\ t <= w.resetAt /\ w.count < Limit /\ v = [w EXCEPT !.count = @ + 1]
  PROVE  Tracked(Append(s, t), t, TRUE, v)
<1>1. PICK g : Grouped(s, g) /\ WindowOf(s, g, t, has, w)
  BY DEF Tracked
<1>2. PICK n \in Nat, l \in Nat \ {0}, d \in Nat \ {0} : n = Len(s) /\ l = Limit /\ d = Window
  <2>1. Len(s) \in Nat
    BY DEF Tracked
  <2> QED
    BY <2>1, LimitsAre
<1>3. PICK z : z = Append(s, t)
  OBVIOUS
<1>4. /\ z \in Seq(Nat) /\ Len(z) = n + 1 /\ z[n + 1] = t /\ \A i \in 1..n : z[i] = s[i]
  BY <1>2, <1>3 DEF Tracked
<1>5. \A i \in 1..n : s[i] \in Nat /\ s[i] <= t
  BY <1>2 DEF Tracked
<1>6. \A i \in 1..n + 1 : i \in 1..n \/ i = n + 1
  OBVIOUS
<1>7. InTime(z) /\ \A i \in 1..Len(z) : z[i] <= t
  <2>1. ASSUME NEW i \in 1..n + 1 PROVE z[i] <= t
    <3>1. CASE i \in 1..n
      BY <1>4, <1>5, <3>1
    <3>2. CASE i = n + 1
      BY <1>4, <3>2
    <3> QED
      BY <1>6, <3>1, <3>2
  <2>2. ASSUME NEW i \in 1..n + 1, NEW j \in 1..n + 1, i <= j PROVE z[i] <= z[j]
    <3>1. CASE j = n + 1
      BY <1>4, <2>1, <3>1
    <3>2. CASE j # n + 1
      <4>1. i \in 1..n /\ j \in 1..n
        BY <2>2, <3>2
      <4>2. s[i] <= s[j]
        BY <1>2, <2>2, <4>1 DEF Tracked, InTime
      <4> QED
        BY <1>4, <4>1, <4>2
    <3> QED
      BY <3>1, <3>2
  <2> QED
    BY <1>4, <2>1, <2>2 DEF InTime
<1>8. /\ g \in [1..n -> 1..n]
      /\ \A i \in 1..n : g[i] <= i /\ i < g[i] + l /\ s[i] <= s[g[i]] + d
      /\ \A i, j \in 1..n : i <= j => g[i] = g[j] \/ (i < g[j] /\ s[g[i]] + d < s[g[j]])
  BY <1>1, <1>2 DEF Grouped
<1>9. s # <<>> => n \in 1..n
  BY <1>2 DEF Tracked
<1>10. s = <<>> => n = 0
  BY <1>2
\* A group of its own.
<1>11. CASE (~has \/ w.resetAt < t) /\ v = [count |-> 1, resetAt |-> t + Window]
  <2>1. \A i \in 1..n : s[g[i]] + d < t
    <3> SUFFICES ASSUME NEW i \in 1..n PROVE s[g[i]] + d < t
      OBVIOUS
    <3>1. s # <<>> /\ n \in 1..n /\ i <= n
      BY <1>9, <1>10
    <3>2. s[g[n]] + d < t
      BY <1>1, <1>2, <1>11, <3>1 DEF WindowOf
    <3>3. g[i] \in 1..n /\ g[n] \in 1..n
      BY <1>8, <3>1
    <3>4. s[g[i]] \in Nat /\ s[g[n]] \in Nat
      BY <1>5, <3>3
    <3>5. s[g[i]] <= s[g[n]]
      <4>1. g[i] = g[n] \/ s[g[i]] + d < s[g[n]]
        BY <1>8, <3>1
      <4> QED
        BY <1>2, <3>4, <4>1
    <3> QED
      BY <1>2, <3>2, <3>4, <3>5
  <2>2. PICK h : h = [i \in 1..n + 1 |-> IF i = n + 1 THEN n + 1 ELSE g[i]]
    OBVIOUS
  <2>3. h[n + 1] = n + 1 /\ \A i \in 1..n : h[i] = g[i] /\ g[i] \in 1..n
    BY <1>8, <2>2
  <2>4. h \in [1..n + 1 -> 1..n + 1]
    <3>1. n + 1 \in 1..n + 1 /\ \A k \in 1..n : k \in 1..n + 1
      OBVIOUS
    <3>2. \A i \in 1..n + 1 : h[i] \in 1..n + 1
      BY <1>6, <2>3, <3>1
    <3> QED
      BY <2>2, <3>2
  <2>5. \A i \in 1..n + 1 : h[i] <= i /\ i < h[i] + l /\ z[i] <= z[h[i]] + d
    <3>1. ASSUME NEW i \in 1..n PROVE h[i] <= i /\ i < h[i] + l /\ z[i] <= z[h[i]] + d
      BY <1>4, <1>8, <2>3
    <3>2. h[n + 1] <= n + 1 /\ n + 1 < h[n + 1] + l /\ z[n + 1] <= z[h[n + 1]] + d
      BY <1>2, <1>4, <2>3
    <3> QED
      BY <1>6, <3>1, <3>2
  <2>6. \A i, j \in 1..n + 1 : i <= j => h[i] = h[j] \/ (i < h[j] /\ z[h[i]] + d < z[h[j]])
    <3> SUFFICES ASSUME NEW i \in 1..n + 1, NEW j \in 1..n + 1, i <= j PROVE h[i] = h[j] \/ (i < h[j] /\ z[h[i]] + d < z[h[j]])
      OBVIOUS
    <3>1. CASE i = j
      BY <3>1
    <3>2. CASE i # j /\ j = n + 1
      <4>1. i \in 1..n
        BY <3>2
      <4>2. g[i] \in 1..n /\ h[i] = g[i] /\ z[g[i]] = s[g[i]]
        BY <1>4, <2>3, <4>1
      <4>3. h[j] = n + 1 /\ z[n + 1] = t /\ s[g[i]] + d < t
        BY <1>4, <2>1, <2>3, <3>2, <4>1
      <4> QED
        BY <4>1, <4>2, <4>3
    <3>3. CASE i # j /\ j # n + 1
      <4>1. i \in 1..n /\ j \in 1..n
        BY <3>3
      <4>2. g[i] = g[j] \/ (i < g[j] /\ s[g[i]] + d < s[g[j]])
        BY <1>8, <4>1
      <4> QED
        BY <1>4, <2>3, <4>1, <4>2
    <3> QED
      BY <3>1, <3>2, <3>3
  <2>7. Grouped(z, h)
    BY <1>2, <1>4, <2>4, <2>5, <2>6 DEF Grouped
  <2>8. v \in [count : Nat, resetAt : Nat] /\ v.count = 1 /\ v.resetAt = t + d
    <3>1. t + Window \in Nat
      BY LimitsAre
    <3> QED
      BY <1>2, <1>11, <3>1
  <2>9. z # <<>> /\ h[Len(z)] = Len(z) - v.count + 1 /\ v.resetAt = z[h[Len(z)]] + d /\ v.count \in 1..l
    BY <1>2, <1>4, <2>3, <2>8
  <2>10. WindowOf(z, h, t, TRUE, v)
    BY <1>2, <2>8, <2>9 DEF WindowOf
  <2> QED
    BY <1>3, <1>4, <1>7, <2>7, <2>10 DEF Tracked
\* The last group.
<1>12. CASE has /\ t <= w.resetAt /\ w.count < Limit /\ v = [w EXCEPT !.count = @ + 1]
  <2>1. /\ w \in [count : Nat, resetAt : Nat] /\ s # <<>> /\ w.count \in 1..l
        /\ g[n] = n - w.count + 1 /\ w.resetAt = s[g[n]] + d
    BY <1>1, <1>2, <1>12 DEF WindowOf
  <2>2. n \in 1..n
    BY <1>9, <2>1
  <2>3. PICK b \in 1..n, c \in 1..l : b = g[n] /\ c = w.count
    BY <1>8, <2>1, <2>2
  <2>4. b = n - c + 1 /\ c < l /\ t <= s[b] + d
    BY <1>2, <1>12, <2>1, <2>3
  <2>5. PICK h : h = [i \in 1..n + 1 |-> IF i = n + 1 THEN b ELSE g[i]]
    OBVIOUS
  <2>6. h[n + 1] = b /\ h[n] = b /\ \A i \in 1..n : h[i] = g[i] /\ g[i] \in 1..n
    <3>1. n + 1 \in 1..n + 1 /\ \A i \in 1..n : i \in 1..n + 1 /\ i # n + 1
      OBVIOUS
    <3>2. h[n + 1] = b /\ \A i \in 1..n : h[i] = g[i]
      BY <2>5, <3>1
    <3> QED
      BY <1>8, <2>2, <2>3, <3>2
  <2>7. h \in [1..n + 1 -> 1..n + 1]
    <3>1. \A k \in 1..n : k \in 1..n + 1
      OBVIOUS
    <3>2. \A i \in 1..n + 1 : h[i] \in 1..n + 1
      BY <1>6, <2>3, <2>6, <3>1
    <3> QED
      BY <2>5, <3>2
  <2>8. \A i \in 1..n + 1 : h[i] <= i /\ i < h[i] + l /\ z[i] <= z[h[i]] + d
    <3>1. ASSUME NEW i \in 1..n PROVE h[i] <= i /\ i < h[i] + l /\ z[i] <= z[h[i]] + d
      BY <1>4, <1>8, <2>6
    <3>2. h[n + 1] <= n + 1 /\ n + 1 < h[n + 1] + l
      BY <1>2, <2>3, <2>4, <2>6
    <3>3. z[n + 1] <= z[h[n + 1]] + d
      BY <1>2, <1>4, <2>3, <2>4, <2>6
    <3> QED
      BY <1>6, <3>1, <3>2, <3>3
  <2>9. \A i, j \in 1..n + 1 : i <= j => h[i] = h[j] \/ (i < h[j] /\ z[h[i]] + d < z[h[j]])
    <3> SUFFICES ASSUME NEW i \in 1..n + 1, NEW j \in 1..n + 1, i <= j PROVE h[i] = h[j] \/ (i < h[j] /\ z[h[i]] + d < z[h[j]])
      OBVIOUS
    <3>1. CASE i = j
      BY <3>1
    <3>2. CASE i # j /\ j = n + 1
      <4>1. i \in 1..n /\ i <= n
        BY <3>2
      <4>2. g[i] = b \/ (i < b /\ s[g[i]] + d < s[b])
        BY <1>8, <2>2, <2>3, <4>1
      <4> QED
        BY <1>4, <2>3, <2>6, <3>2, <4>1, <4>2
    <3>3. CASE i # j /\ j # n + 1
      <4>1. i \in 1..n /\ j \in 1..n
        BY <3>3
      <4>2. g[i] = g[j] \/ (i < g[j] /\ s[g[i]] + d < s[g[j]])
        BY <1>8, <4>1
      <4> QED
        BY <1>4, <2>6, <4>1, <4>2
    <3> QED
      BY <3>1, <3>2, <3>3
  <2>10. Grouped(z, h)
    BY <1>2, <1>4, <2>7, <2>8, <2>9 DEF Grouped
  <2>11. v \in [count : Nat, resetAt : Nat] /\ v.count = c + 1 /\ v.resetAt = s[b] + d
    BY <1>12, <2>1, <2>3
  <2>12. z # <<>> /\ h[Len(z)] = Len(z) - v.count + 1 /\ v.resetAt = z[h[Len(z)]] + d /\ v.count \in 1..l
    <3>1. Len(z) = n + 1 /\ z # <<>>
      BY <1>4
    <3>2. v.resetAt = z[h[n + 1]] + d
      BY <1>2, <1>4, <2>3, <2>4, <2>6, <2>11
    <3>3. h[n + 1] = n + 1 - v.count + 1 /\ v.count \in 1..l
      BY <1>2, <2>3, <2>4, <2>6, <2>11
    <3> QED
      BY <3>1, <3>2, <3>3
  <2>13. WindowOf(z, h, t, TRUE, v)
    BY <1>2, <2>11, <2>12 DEF WindowOf
  <2> QED
    BY <1>3, <1>4, <1>7, <2>10, <2>13 DEF Tracked
<1> QED
  BY <1>11, <1>12

\* A request is refused when the last group is full, and its time is not over.
LEMMA RefusedFull ==
  ASSUME NEW s, NEW t \in Nat, NEW w, Tracked(s, t, TRUE, w), t <= w.resetAt, ~ w.count < Limit
  PROVE  FullBefore(s, t)
<1>1. PICK g : Grouped(s, g) /\ WindowOf(s, g, t, TRUE, w)
  BY DEF Tracked
<1>2. PICK n \in Nat, l \in Nat \ {0}, d \in Nat \ {0} : n = Len(s) /\ l = Limit /\ d = Window
  <2>1. Len(s) \in Nat
    BY DEF Tracked
  <2> QED
    BY <2>1, LimitsAre
<1>3. /\ s # <<>> /\ w.count \in 1..l /\ g[n] = n - w.count + 1 /\ w.resetAt = s[g[n]] + d
  BY <1>1, <1>2 DEF WindowOf
<1>4. w.count = l
  BY <1>2, <1>3
<1>5. n \in 1..n /\ g[n] \in 1..n
  <2>1. s \in Seq(Nat)
    BY DEF Tracked
  <2>2. n # 0
    BY <1>2, <1>3, <2>1
  <2>3. n \in 1..n
    BY <2>2
  <2>4. g \in [1..n -> 1..n]
    BY <1>1, <1>2 DEF Grouped
  <2> QED
    BY <2>3, <2>4
<1>6. PICK b \in 1..n : b = g[n] /\ b + l - 1 = n /\ t <= s[b] + d
  BY <1>2, <1>3, <1>4, <1>5
<1>7. ASSUME NEW j \in b..b + l - 1 PROVE s[j] \in t - d..t
  <2>1. j \in 1..n /\ b <= j
    BY <1>2, <1>6
  <2>2. s \in Seq(Nat) /\ InTime(s) /\ \A i \in 1..n : s[i] <= t
    BY <1>2 DEF Tracked
  <2>3. s[j] \in Nat /\ s[b] \in Nat /\ s[j] <= t
    BY <1>2, <2>1, <2>2
  <2>4. s[b] <= s[j]
    BY <1>2, <2>1, <2>2 DEF InTime
  <2> QED
    BY <1>2, <1>6, <2>3, <2>4
<1>8. b \in Nat \ {0} /\ b + Limit - 1 <= Len(s) /\ \A j \in b..b + Limit - 1 : s[j] \in t - Window..t
  <2>1. b \in Nat \ {0} /\ b + l - 1 <= n
    BY <1>6
  <2> QED
    BY <1>2, <1>7, <2>1
<1> QED
  BY <1>8 DEF FullBefore

\* What is full stays so when more pass.
LEMMA FullStays ==
  ASSUME NEW s \in Seq(Nat), NEW x \in Nat, NEW t \in Nat, FullBefore(s, t)
  PROVE  FullBefore(Append(s, x), t)
<1>1. PICK n \in Nat, l \in Nat \ {0} : n = Len(s) /\ l = Limit
  BY LimitsAre
<1>2. PICK i \in Nat \ {0} : i + l - 1 <= n /\ \A j \in i..i + l - 1 : s[j] \in t - Window..t
  BY <1>1 DEF FullBefore
<1>3. PICK z : z = Append(s, x)
  OBVIOUS
<1>4. Len(z) = n + 1 /\ \A j \in 1..n : z[j] = s[j]
  BY <1>1, <1>3
<1>5. i + l - 1 <= n + 1 /\ \A j \in i..i + l - 1 : j \in 1..n
  BY <1>1, <1>2
<1>6. \A j \in i..i + l - 1 : z[j] \in t - Window..t
  BY <1>2, <1>4, <1>5
<1> QED
  BY <1>1, <1>3, <1>4, <1>5, <1>6 DEF FullBefore

\* Two requests that passed with twice the limit from one to the other are more than the time
\* of a window apart.
LEMMA GroupsApart ==
  ASSUME NEW s \in Seq(Nat), InTime(s), NEW g, Grouped(s, g),
         NEW i \in 1..Len(s), NEW j \in 1..Len(s), i + 2 * Limit <= j
  PROVE  s[i] + Window < s[j]
<1>1. PICK n \in Nat, l \in Nat \ {0}, d \in Nat \ {0} : n = Len(s) /\ l = Limit /\ d = Window
  BY LimitsAre
<1>2. /\ \A x \in 1..n : g[x] \in 1..n /\ g[x] <= x /\ x < g[x] + l /\ s[x] \in Nat
      /\ \A x, y \in 1..n : x <= y => g[x] = g[y] \/ (x < g[y] /\ s[g[x]] + d < s[g[y]])
      /\ \A x, y \in 1..n : x <= y => s[x] <= s[y]
  <2>1. \A x \in 1..n : s[x] \in Nat
    BY <1>1
  <2>2. \A x \in 1..n : g[x] \in 1..n /\ g[x] <= x /\ x < g[x] + l
    BY <1>1 DEF Grouped
  <2>3. \A x, y \in 1..n : x <= y => g[x] = g[y] \/ (x < g[y] /\ s[g[x]] + d < s[g[y]])
    BY <1>1 DEF Grouped
  <2>4. \A x, y \in 1..n : x <= y => s[x] <= s[y]
    BY <1>1 DEF InTime
  <2> QED
    BY <2>1, <2>2, <2>3, <2>4
<1>3. i \in 1..n /\ j \in 1..n /\ i + l + l <= j
  BY <1>1
<1>4. PICK c \in 1..n : c = g[j] /\ c <= j /\ j < c + l
  BY <1>2, <1>3
<1>5. PICK k \in 1..n : k = c - 1 /\ i + l <= k /\ k <= j
  BY <1>3, <1>4
<1>6. PICK b \in 1..n : b = g[k] /\ b <= k /\ k < b + l
  BY <1>2, <1>5
<1>7. i < b /\ b < c
  BY <1>3, <1>5, <1>6
<1>8. s[i] <= s[b] /\ s[c] <= s[j]
  BY <1>2, <1>3, <1>4, <1>7
<1>9. s[b] + d < s[c]
  <2>1. g[k] = g[j] \/ (k < g[j] /\ s[g[k]] + d < s[g[j]])
    BY <1>2, <1>3, <1>5
  <2>2. b # c
    BY <1>7
  <2> QED
    BY <1>4, <1>6, <2>1, <2>2
<1>10. s[i] \in Nat /\ s[b] \in Nat /\ s[c] \in Nat /\ s[j] \in Nat
  BY <1>2, <1>3
<1> QED
  BY <1>1, <1>8, <1>9, <1>10

\* So in the time of a window no more pass than twice the limit.
LEMMA TwoWindows ==
  ASSUME NEW s, NEW t, NEW has, NEW w, Tracked(s, t, has, w), NEW x \in Nat
  PROVE  Cardinality({i \in DOMAIN s : s[i] \in x..x + Window}) <= 2 * Limit
<1>1. PICK g : s \in Seq(Nat) /\ InTime(s) /\ Grouped(s, g)
  BY DEF Tracked
<1>2. PICK n \in Nat, l \in Nat \ {0}, d \in Nat \ {0} : n = Len(s) /\ l = Limit /\ d = Window
  <2>1. Len(s) \in Nat
    BY <1>1
  <2> QED
    BY <2>1, LimitsAre
<1>3. DOMAIN s = 1..n /\ \A i \in 1..n : s[i] \in Nat
  BY <1>1, <1>2
<1>4. PICK X : X = {i \in DOMAIN s : s[i] \in x..x + Window}
  OBVIOUS
<1>5. CASE X = {}
  <2>1. Cardinality(X) = 0
    BY <1>5, FS_EmptySet
  <2> QED
    BY <1>2, <1>4, <2>1
<1>6. CASE X # {}
  <2>1. X \subseteq 1..n
    BY <1>3, <1>4
  <2>2. PICK f \in X : \A i \in X : f <= i
    BY <1>6, <2>1, HasFirst
  <2>3. ASSUME NEW j \in X PROVE j \in f..f + 2 * l - 1
    <3>1. f \in 1..n /\ j \in 1..n /\ f <= j
      BY <2>1, <2>2
    <3>2. s[f] \in x..x + d /\ s[j] \in x..x + d
      BY <1>2, <1>4, <2>2
    <3>3. f + 2 * l <= j => s[f] + d < s[j]
      BY <1>1, <1>2, <3>1, GroupsApart
    <3>4. ~ f + 2 * l <= j
      BY <1>2, <1>3, <3>1, <3>2, <3>3
    <3> QED
      BY <1>2, <3>1, <3>4
  <2>4. f \in Int /\ f + 2 * l - 1 \in Int /\ f <= f + 2 * l - 1
    BY <2>1
  <2>5. IsFiniteSet(f..f + 2 * l - 1) /\ Cardinality(f..f + 2 * l - 1) = f + 2 * l - 1 - f + 1
    BY <2>4, FS_Interval
  <2>6. X \subseteq f..f + 2 * l - 1
    BY <2>3
  <2>7. Cardinality(X) <= Cardinality(f..f + 2 * l - 1)
    BY <2>5, <2>6, FS_Subset
  <2>8. f + 2 * l - 1 - f + 1 = 2 * l
    BY <2>4
  <2> QED
    BY <1>2, <1>4, <2>5, <2>7, <2>8
<1> QED
  BY <1>5, <1>6

\* And where it was full as many as the limit passed.
LEMMA FullCounts ==
  ASSUME NEW s \in Seq(Nat), NEW t \in Nat, FullBefore(s, t)
  PROVE  Cardinality({i \in DOMAIN s : s[i] \in t - Window..t}) >= Limit
<1>1. PICK n \in Nat, l \in Nat \ {0} : n = Len(s) /\ l = Limit
  BY LimitsAre
<1>2. PICK b \in Nat \ {0} : b + l - 1 <= n /\ \A j \in b..b + l - 1 : s[j] \in t - Window..t
  BY <1>1 DEF FullBefore
<1>3. PICK X : X = {i \in DOMAIN s : s[i] \in t - Window..t}
  OBVIOUS
<1>4. DOMAIN s = 1..n
  BY <1>1
<1>5. b..b + l - 1 \subseteq X
  BY <1>2, <1>3, <1>4
<1>6. IsFiniteSet(1..n)
  BY FS_Interval
<1>7. IsFiniteSet(X)
  <2>1. X \subseteq 1..n
    BY <1>3, <1>4
  <2> QED
    BY <1>6, <2>1, FS_Subset
<1>8. b \in Int /\ b + l - 1 \in Int /\ b <= b + l - 1 /\ b + l - 1 - b + 1 = l
  OBVIOUS
<1>9. Cardinality(b..b + l - 1) = l
  BY <1>8, FS_Interval
<1>10. Cardinality(b..b + l - 1) <= Cardinality(X) /\ Cardinality(X) \in Nat
  BY <1>5, <1>7, FS_Subset, FS_CardinalityType
<1> QED
  BY <1>1, <1>3, <1>9, <1>10


\* A call of allow leaves every client tracked, whatever it sweeps.
LEMMA LimiterKept ==
  ASSUME LimiterInv, \/ Tick /\ UNCHANGED limitVars
                     \/ now' = now /\ UNCHANGED limitVars
                     \/ now' = now /\ \E a \in ClientAddrs : allow(a)
  PROVE  LimiterInv'
<1>0. PICK t \in Nat, D \in SUBSET ClientAddrs : t = now /\ D = DOMAIN limiterWindows
  BY DEF LimiterInv
<1>1. /\ passed \in [ClientAddrs -> Seq(Nat)]
      /\ \A b \in ClientAddrs : TrackedIn(passed[b], t, D, b, limiterWindows[b])
      /\ \A r \in turnedAway : \E b \in ClientAddrs, u \in Nat : r = <<b, u>> /\ FullBefore(passed[b], u)
  BY <1>0 DEF LimiterInv
<1>2. CASE Tick /\ UNCHANGED limitVars
  <2>1. now' = t + 1 /\ UNCHANGED <<limiterWindows, passed, turnedAway>> /\ t + 1 \in Nat /\ t <= t + 1
    BY <1>0, <1>2 DEF Tick, limitVars
  <2>2. ASSUME NEW b \in ClientAddrs PROVE TrackedIn(passed[b], t + 1, D, b, limiterWindows[b])
    <3>1. ASSUME NEW has \in BOOLEAN, Tracked(passed[b], t, has, limiterWindows[b])
          PROVE  Tracked(passed[b], t + 1, has, limiterWindows[b])
      BY <2>1, <3>1, TrackedLater
    <3>2. TrackedIn(passed[b], t, D, b, limiterWindows[b])
      BY <1>1
    <3> QED
      BY <3>1, <3>2 DEF TrackedIn
  <2> QED
    BY <1>0, <1>1, <2>1, <2>2 DEF LimiterInv
<1>3. CASE now' = now /\ UNCHANGED limitVars
  BY <1>3 DEF limitVars, LimiterInv
<1>4. ASSUME now' = now, NEW a \in ClientAddrs, allow(a) PROVE LimiterInv'
  <2>1. PICK fresh \in BOOLEAN : fresh <=> (a \notin D \/ t > limiterWindows[a].resetAt)
    OBVIOUS
  <2>2. PICK old : old = limiterWindows[a]
    OBVIOUS
  <2>3. PICK allowed \in BOOLEAN : allowed <=> (fresh \/ old.count < Limit)
    OBVIOUS
  <2>4. PICK window : window = IF fresh THEN [count |-> 1, resetAt |-> t + Window]
                               ELSE [old EXCEPT !.count = IF allowed THEN @ + 1 ELSE @]
    OBVIOUS
  <2>5. PICK ws : ws = [b \in D \cup {a} |-> IF b = a THEN window ELSE limiterWindows[b]]
    OBVIOUS
  <2>6. /\ limiterWindows' = Swept(ws)
        /\ passed' = IF allowed THEN [passed EXCEPT ![a] = Append(@, t)] ELSE passed
        /\ turnedAway' = IF allowed THEN turnedAway ELSE turnedAway \cup {<<a, t>>}
    <3>1. Passes(a) <=> fresh
      BY <1>0, <2>1 DEF Passes
    <3> QED
      BY <1>0, <1>4, <2>2, <2>3, <2>4, <2>5, <3>1 DEF allow
  <2>7. PICK s \in Seq(Nat) : s = passed[a] /\ TrackedIn(s, t, D, a, old)
    BY <1>1, <2>2
  <2>8. ~fresh => a \in D /\ t <= old.resetAt /\ old \in [count : Nat, resetAt : Nat]
    <3> SUFFICES ASSUME ~fresh PROVE a \in D /\ t <= old.resetAt /\ old \in [count : Nat, resetAt : Nat]
      OBVIOUS
    <3>1. a \in D /\ ~ t > old.resetAt
      BY <2>1, <2>2
    <3>2. old \in [count : Nat, resetAt : Nat]
      BY <2>7, <3>1 DEF TrackedIn, Tracked, WindowOf
    <3> QED
      BY <3>1, <3>2
  <2>9. window.resetAt >= t
    BY <2>4, <2>8, LimitsAre
  <2>10. PICK z : z = IF allowed THEN Append(s, t) ELSE s
    OBVIOUS
  <2>11. z \in Seq(Nat) /\ passed' = [passed EXCEPT ![a] = z] /\ passed'[a] = z /\ \A b \in ClientAddrs \ {a} : passed'[b] = passed[b]
    <3>1. z \in Seq(Nat)
      BY <1>0, <2>7, <2>10 DEF LimiterInv
    <3>2. passed' = [passed EXCEPT ![a] = z]
      <4>1. CASE allowed
        BY <2>6, <2>7, <2>10, <4>1
      <4>2. CASE ~allowed
        BY <1>1, <2>6, <2>7, <2>10, <4>2
      <4> QED
        BY <4>1, <4>2
    <3> QED
      BY <1>1, <3>1, <3>2
  <2>12. Tracked(z, t, TRUE, window)
    <3>1. CASE fresh
      <4>1. allowed /\ window = [count |-> 1, resetAt |-> t + Window]
        BY <2>3, <2>4, <3>1
      <4>2. PICK has \in BOOLEAN : has <=> a \in D
        OBVIOUS
      <4>3. ~has \/ old.resetAt < t
        <5>1. a \in D => Tracked(s, t, TRUE, old)
          BY <2>7 DEF TrackedIn
        <5>2. a \in D => old \in [count : Nat, resetAt : Nat]
          BY <5>1 DEF Tracked, WindowOf
        <5> QED
          BY <2>1, <2>2, <3>1, <4>2, <5>2
      <4>4. Tracked(s, t, has, old)
        <5>1. CASE a \in D
          BY <2>7, <4>2, <5>1 DEF TrackedIn
        <5>2. CASE a \notin D
          BY <2>7, <4>2, <5>2 DEF TrackedIn
        <5> QED
          BY <5>1, <5>2
      <4> QED
        BY <2>10, <4>1, <4>3, <4>4, TrackedPass
    <3>2. CASE ~fresh /\ allowed
      <4>1. window = [old EXCEPT !.count = @ + 1] /\ old.count < Limit /\ t <= old.resetAt /\ a \in D
        BY <2>3, <2>4, <2>8, <3>2
      <4>2. Tracked(s, t, TRUE, old)
        BY <2>7, <4>1 DEF TrackedIn
      <4> QED
        BY <2>10, <3>2, <4>1, <4>2, TrackedPass
    <3>3. CASE ~fresh /\ ~allowed
      <4>1. window = old /\ a \in D
        BY <2>4, <2>8, <3>3
      <4> QED
        BY <2>7, <2>10, <3>3, <4>1 DEF TrackedIn
    <3> QED
      BY <3>1, <3>2, <3>3
  <2>13. ASSUME NEW b \in ClientAddrs PROVE TrackedIn(passed'[b], t, D \cup {a}, b, ws[b])
    <3>1. CASE b = a
      BY <2>5, <2>11, <2>12, <3>1 DEF TrackedIn
    <3>2. CASE b # a
      <4>1. b \in D \cup {a} <=> b \in D
        BY <3>2
      <4>2. CASE b \in D
        BY <1>1, <2>5, <2>11, <3>2, <4>1, <4>2 DEF TrackedIn
      <4>3. CASE b \notin D
        <5>1. Tracked(passed[b], t, FALSE, limiterWindows[b])
          BY <1>1, <4>3 DEF TrackedIn
        <5>2. Tracked(passed[b], t, FALSE, ws[b])
          BY <5>1 DEF Tracked, WindowOf
        <5> QED
          BY <2>11, <3>2, <4>1, <4>3, <5>2 DEF TrackedIn
      <4> QED
        BY <4>2, <4>3
    <3> QED
      BY <3>1, <3>2
  <2>14. ASSUME NEW b \in ClientAddrs PROVE TrackedIn(passed'[b], t, DOMAIN limiterWindows', b, limiterWindows'[b])
    <3>1. CASE limiterWindows' = ws
      BY <2>5, <2>13, <3>1
    <3>2. CASE limiterWindows' = [c \in {e \in DOMAIN ws : t <= ws[e].resetAt} |-> ws[c]]
      <4>1. DOMAIN ws = D \cup {a}
        BY <2>5
      <4>2. CASE b \in DOMAIN ws /\ t <= ws[b].resetAt
        <5>1. Tracked(passed'[b], t, TRUE, ws[b])
          BY <2>13, <4>1, <4>2 DEF TrackedIn
        <5>2. b \in DOMAIN limiterWindows' /\ limiterWindows'[b] = ws[b]
          BY <3>2, <4>2
        <5> QED
          BY <5>1, <5>2 DEF TrackedIn
      <4>3. CASE b \in DOMAIN ws /\ ~ t <= ws[b].resetAt
        <5>1. Tracked(passed'[b], t, TRUE, ws[b])
          BY <2>13, <4>1, <4>3 DEF TrackedIn
        <5>2. ws[b] \in [count : Nat, resetAt : Nat]
          BY <5>1 DEF Tracked, WindowOf
        <5>3. ws[b].resetAt < t
          BY <4>3, <5>2
        <5>4. Tracked(passed'[b], t, FALSE, limiterWindows'[b])
          BY <5>1, <5>3, TrackedSwept
        <5> QED
          BY <3>2, <4>3, <5>4 DEF TrackedIn
      <4>4. CASE b \notin DOMAIN ws
        <5>1. Tracked(passed'[b], t, FALSE, ws[b])
          BY <2>13, <4>1, <4>4 DEF TrackedIn
        <5>2. Tracked(passed'[b], t, FALSE, limiterWindows'[b])
          BY <5>1 DEF Tracked, WindowOf
        <5> QED
          BY <3>2, <4>4, <5>2 DEF TrackedIn
      <4> QED
        BY <4>2, <4>3, <4>4
    <3> QED
      BY <1>0, <2>6, <3>1, <3>2 DEF Swept
  <2>15. DOMAIN limiterWindows' \subseteq ClientAddrs
    <3>1. DOMAIN ws \subseteq ClientAddrs
      BY <2>5
    <3>2. DOMAIN Swept(ws) \subseteq DOMAIN ws
      BY DEF Swept
    <3> QED
      BY <2>6, <3>1, <3>2
  <2>16. \A r \in turnedAway' : \E b \in ClientAddrs, u \in Nat : r = <<b, u>> /\ FullBefore(passed'[b], u)
    <3> SUFFICES ASSUME NEW r \in turnedAway' PROVE \E b \in ClientAddrs, u \in Nat : r = <<b, u>> /\ FullBefore(passed'[b], u)
      OBVIOUS
    <3>1. CASE r \in turnedAway
      <4>1. PICK b \in ClientAddrs, u \in Nat : r = <<b, u>> /\ FullBefore(passed[b], u)
        BY <1>1, <3>1
      <4>2. FullBefore(passed'[b], u)
        <5>1. CASE b # a
          BY <2>11, <4>1, <5>1
        <5>2. CASE b = a
          <6>1. FullBefore(s, u)
            BY <2>7, <4>1, <5>2
          <6>2. FullBefore(Append(s, t), u)
            BY <6>1, FullStays
          <6> QED
            BY <2>10, <2>11, <5>2, <6>1, <6>2
        <5> QED
          BY <5>1, <5>2
      <4> QED
        BY <4>1, <4>2
    <3>2. CASE r \notin turnedAway
      <4>1. ~allowed /\ r = <<a, t>>
        BY <2>6, <3>2
      <4>2. ~fresh /\ ~ old.count < Limit
        BY <2>3, <4>1
      <4>3. Tracked(s, t, TRUE, old) /\ t <= old.resetAt
        BY <2>7, <2>8, <4>2 DEF TrackedIn
      <4>4. FullBefore(s, t)
        BY <4>2, <4>3, RefusedFull
      <4>5. passed'[a] = s
        BY <2>10, <2>11, <4>1
      <4> QED
        BY <4>1, <4>4, <4>5
    <3> QED
      BY <3>1, <3>2
  <2>17. passed' \in [ClientAddrs -> Seq(Nat)] /\ now' = t
    BY <1>0, <1>1, <1>4, <2>11
  <2> QED
    BY <2>14, <2>15, <2>16, <2>17 DEF LimiterInv
<1> QED
  BY <1>2, <1>3, <1>4

\* So it is fair.
LEMMA LimiterIsFair == LimiterInv => LimiterFair
<1> SUFFICES ASSUME LimiterInv PROVE LimiterFair
  OBVIOUS
<1>1. ASSUME NEW a \in ClientAddrs, NEW t \in 0..Clock PROVE PassedIn(a, t, t + Window) <= 2 * Limit
  <2>1. TrackedIn(passed[a], now, DOMAIN limiterWindows, a, limiterWindows[a]) /\ t \in Nat
    BY WatchAssumption DEF LimiterInv
  <2>2. Cardinality({i \in DOMAIN passed[a] : passed[a][i] \in t..t + Window}) <= 2 * Limit
    <3>1. ASSUME NEW has \in BOOLEAN, Tracked(passed[a], now, has, limiterWindows[a])
          PROVE  Cardinality({i \in DOMAIN passed[a] : passed[a][i] \in t..t + Window}) <= 2 * Limit
      BY <2>1, <3>1, TwoWindows
    <3> QED
      BY <2>1, <3>1 DEF TrackedIn
  <2> QED
    BY <2>2 DEF PassedIn
<1>2. ASSUME NEW r \in turnedAway PROVE PassedIn(r[1], r[2] - Window, r[2]) >= Limit
  <2>1. PICK a \in ClientAddrs, t \in Nat : r = <<a, t>> /\ FullBefore(passed[a], t)
    BY DEF LimiterInv
  <2>2. PICK s \in Seq(Nat) : s = passed[a]
    BY DEF LimiterInv
  <2>3. Cardinality({i \in DOMAIN s : s[i] \in t - Window..t}) >= Limit
    BY <2>1, <2>2, FullCounts
  <2>4. r[1] = a /\ r[2] = t
    BY <2>1
  <2> QED
    BY <2>2, <2>3, <2>4 DEF PassedIn
<1> QED
  BY <1>1, <1>2 DEF LimiterFair

\* For any clients, threads and viewers: in the time of one window no more than two windows of
\* requests pass and none is refused before one has; the counters are those of all goroutines,
\* the records are the newest, and an event is in one place or was dropped (allow of
\* internal/api/router.go, Collector of internal/metrics/metrics.go, AddPacketEvent of
\* internal/storage/memory_storage.go, emit of internal/sim/engine_nsx.go).
THEOREM ServerWatched == WatchSpec => []WatchSound
<1> DEFINE Inv == LimiterInv /\ MetricsInv /\ RecordsInv /\ EventsInv
<1>1. WatchInit => Inv
  <2> SUFFICES ASSUME WatchInit PROVE Inv
    OBVIOUS
  <2>0. <<>> \in Seq(Nat) /\ <<>> \in Seq(Int) /\ Len(<<>>) = 0 /\ \A i \in 1..0 : FALSE
    OBVIOUS
  <2>1. LimiterInv
    <3>1. passed \in [ClientAddrs -> Seq(Nat)] /\ turnedAway = {} /\ now = 0 /\ DOMAIN limiterWindows = {}
      BY <2>0 DEF WatchInit
    <3>2. ASSUME NEW a \in ClientAddrs PROVE TrackedIn(passed[a], now, DOMAIN limiterWindows, a, limiterWindows[a])
      <4>1. passed[a] = <<>>
        BY DEF WatchInit
      <4>2. PICK g : g = [i \in 1..0 |-> i]
        OBVIOUS
      <4>3. Grouped(<<>>, g)
        BY <2>0, <4>2 DEF Grouped
      <4>4. InTime(<<>>)
        BY <2>0 DEF InTime
      <4>5. WindowOf(<<>>, g, now, FALSE, limiterWindows[a])
        BY DEF WindowOf
      <4>6. Tracked(<<>>, now, FALSE, limiterWindows[a])
        BY <2>0, <4>3, <4>4, <4>5 DEF Tracked
      <4> QED
        BY <3>1, <4>1, <4>6 DEF TrackedIn
    <3> QED
      BY <3>1, <3>2 DEF LimiterInv
  <2>2. MetricsInv
    <3>1. /\ rebuildAt = <<>> /\ rebuildWindow = <<>> /\ now = 0 /\ pendingMax = 0 /\ depthsNoted = {0}
          /\ noting = [p \in Threads |-> <<>>] /\ snapshots = [p \in Threads |-> <<>>]
      BY DEF WatchInit
    <3>2. SubSeq(rebuildAt, 0 + 1, Len(rebuildAt)) = <<>>
      <4>1. 0 \in 0..Len(<<>>) /\ EndOf(<<>>, <<>>, 0)
        BY <2>0 DEF EndOf
      <4>2. <<>> = SubSeq(<<>>, 0 + 1, Len(<<>>))
        BY <2>0, <4>1, EndIs
      <4> QED
        BY <3>1, <4>2
    <3>3. CountersTrue
      <4>1. 0 \in 0..Len(rebuildAt)
        BY <3>1
      <4>2. pendingMax \in depthsNoted /\ \A d \in depthsNoted : d <= pendingMax
        BY <3>1
      <4> QED
        BY <2>0, <3>1, <3>2, <4>1, <4>2 DEF CountersTrue
    <3>4. InTime(rebuildAt)
      BY <2>0, <3>1 DEF InTime
    <3> QED
      BY <2>0, <3>1, <3>3, <3>4 DEF MetricsInv
  <2>3. RecordsInv
    <3>1. LastOf(<<>>, MaxRecords) = <<>>
      BY WatchAssumption DEF LastOf
    <3> QED
      BY <2>0, <3>1 DEF WatchInit, RecordsInv
  <2>4. EventsInv
    <3>1. /\ emitting = [p \in Threads |-> Nothing] /\ numbers = 0 /\ history = <<>> /\ eventCh = <<>>
          /\ viewing = {} /\ streamed = [v \in Viewers |-> <<>>] /\ dropped = {}
      BY DEF WatchInit
    <3>2. Range(<<>>) = {} /\ IsInjective(<<>>)
      BY DEF Range, IsInjective
    <3>3. Queued = {} /\ InFlight = {} /\ \A v \in Viewers : ShownTo(v) = {} /\ IsInjective(streamed[v])
      BY <3>1, <3>2 DEF Queued, InFlight, ShownTo
    <3>4. history = LastOf([i \in 1..numbers |-> i], MaxKept)
      <4>1. [i \in 1..0 |-> i] = <<>>
        OBVIOUS
      <4>2. LastOf(<<>>, MaxKept) = <<>>
        BY WatchAssumption DEF LastOf
      <4> QED
        BY <3>1, <4>1, <4>2
    <3>5. EventsAccounted
      BY <3>1, <3>2, <3>3, <3>4 DEF EventsAccounted
    <3> QED
      BY <2>0, <3>1, <3>5 DEF EventsInv
  <2> QED
    BY <2>1, <2>2, <2>3, <2>4
<1>2. Inv /\ [LimitSim \/ NoteSim \/ RebuildSim \/ RecordSim \/ EventSim]_watchVars => Inv'
  <2> SUFFICES ASSUME Inv, [LimitSim \/ NoteSim \/ RebuildSim \/ RecordSim \/ EventSim]_watchVars PROVE Inv'
    OBVIOUS
  <2>1. \/ Tick /\ UNCHANGED limitVars
        \/ now' = now /\ UNCHANGED limitVars
        \/ now' = now /\ \E a \in ClientAddrs : allow(a)
    BY DEF LimitSim, NoteSim, RebuildSim, RecordSim, EventSim, watchVars, limitVars
  <2>2. \/ Tick /\ UNCHANGED metricVars
        \/ now' = now /\ (CountRebuild \/ NoteRebuild \/ \E p \in Threads : BeginSnapshot(p) \/ EndSnapshot(p))
        \/ now' = now /\ \E p \in Threads : (\E d \in Depths : LoadMax(p, d)) \/ SwapMax(p)
        \/ now' = now /\ UNCHANGED metricVars
    BY DEF LimitSim, NoteSim, RebuildSim, RecordSim, EventSim, watchVars, metricVars
  <2>3. AddPacketEvent \/ ClearPacketEvents \/ UNCHANGED recordVars
    BY DEF LimitSim, NoteSim, RebuildSim, RecordSim, EventSim, watchVars, recordVars
  <2>4. \/ \E p \in Threads : LogEvent(p) \/ SendEvent(p)
        \/ \E v \in Viewers : View(v) \/ LeaveView(v) \/ ShowEvent(v)
        \/ StopEvents \/ UNCHANGED eventVars
    BY DEF LimitSim, NoteSim, RebuildSim, RecordSim, EventSim, watchVars, eventVars
  <2>5. LimiterInv'
    BY <2>1, LimiterKept
  <2>6. MetricsInv'
    <3>1. CASE now' = now /\ UNCHANGED metricVars
      BY <3>1 DEF metricVars, MetricsInv, CountersTrue
    <3> QED
      BY <2>2, <3>1, NotedKept, RebuildsKept
  <2>7. RecordsInv'
    BY <2>3, RecordsKept
  <2>8. EventsInv'
    BY <2>4, EventsKept
  <2> QED
    BY <2>5, <2>6, <2>7, <2>8
<1>3. Inv => WatchSound
  BY LimiterIsFair, RecordsListed DEF WatchSound, MetricsInv, EventsInv
<1> QED
  BY <1>1, <1>2, <1>3, PTL DEF WatchSpec

===============================================================================
