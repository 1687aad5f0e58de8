---------------------------- MODULE TopologyManager ----------------------------
(***************************************************************************)
(* internal/topology/manager.go: a store of documents in memory that       *)
(* rebuilds an engine and tells subscribers of every change. Each method   *)
(* holds one mutex, the rebuild included, and is a step; the callbacks of  *)
(* a change run in a goroutine of its own, which works through a copy of   *)
(* the subscriptions that it took at the change.                           *)
(* Documents are those of TopologyEdit; one of them is followed.           *)
(***************************************************************************)
EXTENDS TopologyEdit, FiniteSets, Naturals, Sequences

CONSTANTS
  Watchers,   \* subscribers
  MaxChanges, \* bounds the changes, and with them the goroutines
  MaxPlaces,  \* bounds the list of subscriptions
  Cancelled   \* the place of a cancelled subscription

ASSUME CancelledAssumption == Cancelled \notin Watchers

VARIABLES
  kept,      \* the document, or NoDoc
  closed,
  subs,      \* the subscriptions, in order, cancelled ones as Cancelled
  place,     \* the index that the cancel function of each subscriber has, 0 for none
  changes,   \* how many changes were announced
  flights,   \* the goroutines: [change, left], left the callbacks still to run
  told,      \* the changes that each subscriber has been told, in the order of the calls
  rebuilder, \* whether a rebuilder is set
  built,     \* the document it was last given
  due,       \* history: the changes made while the subscriber subscribed
  behind     \* history: the last change did not reach the rebuilder

managerVars == <<kept, closed, subs, place, changes, flights, told, rebuilder, built, due, behind>>

ManagerInit ==
  /\ kept = NoDoc /\ closed = FALSE
  /\ subs = <<>> /\ place = [w \in Watchers |-> 0]
  /\ changes = 0 /\ flights = {}
  /\ told = [w \in Watchers |-> <<>>] /\ due = [w \in Watchers |-> {}]
  /\ rebuilder = FALSE /\ built = NoDoc
  /\ behind = TRUE

-----------------------------------------------------------------------------
(* Telling and rebuilding.                                                 *)

\* Mutant of Cancel: the subscription is taken out of the list.
CancelRemoves(w) ==
  /\ place[w] # 0 /\ place' = [place EXCEPT ![w] = 0]
  /\ subs' = IF place[w] <= Len(subs) THEN SubSeq(subs, 1, place[w] - 1) \o SubSeq(subs, place[w] + 1, Len(subs)) ELSE subs
  /\ UNCHANGED <<kept, closed, changes, flights, told, rebuilder, built, due, behind>>

\* Subscribe is possible after Close, too.
Subscribe(w) ==
  /\ place[w] = 0 /\ Len(subs) < MaxPlaces
  /\ subs' = Append(subs, w) /\ place' = [place EXCEPT ![w] = Len(subs) + 1]
  /\ UNCHANGED <<kept, closed, changes, flights, told, rebuilder, built, due, behind>>

\* The function that Subscribe returned: it empties the place that it has counted.
Cancel(w) ==
  /\ place[w] # 0 /\ place' = [place EXCEPT ![w] = 0]
  /\ subs' = IF place[w] <= Len(subs) THEN [subs EXCEPT ![place[w]] = Cancelled] ELSE subs
  /\ UNCHANGED <<kept, closed, changes, flights, told, rebuilder, built, due, behind>>

\* notify: nobody is told where nobody ever subscribed.
Notify ==
  /\ changes < MaxChanges /\ changes' = changes + 1
  /\ flights' = IF subs = <<>> THEN flights ELSE flights \cup {[change |-> changes + 1, left |-> subs]}
  /\ due' = [w \in Watchers |-> IF place[w] = 0 THEN due[w] ELSE due[w] \cup {changes + 1}]

\* The callbacks of one goroutine are called in turn, the goroutines in any order.
CallBack(f) ==
  /\ f \in flights
  /\ LET rest == Tail(f.left)
     IN flights' = (flights \ {f}) \cup (IF rest = <<>> THEN {} ELSE {[f EXCEPT !.left = rest]})
  /\ told' = IF Head(f.left) = Cancelled THEN told ELSE [told EXCEPT ![Head(f.left)] = Append(@, f.change)]
  /\ UNCHANGED <<kept, closed, subs, place, changes, rebuilder, built, due, behind>>

\* rebuildLocked; that the rebuilder fails is only logged.
Rebuild(doc) ==
  \/ rebuilder /\ built' = doc /\ behind' = FALSE
  \/ UNCHANGED built /\ behind' = TRUE

SetRebuilder(on) ==
  /\ rebuilder' = on /\ behind' = TRUE
  /\ UNCHANGED <<kept, closed, subs, place, changes, flights, told, built, due>>

Change(doc) ==
  /\ kept' = doc
  /\ Rebuild(doc) /\ Notify
  /\ UNCHANGED <<closed, subs, place, told, rebuilder>>

-----------------------------------------------------------------------------
(* Changes. Documents that come whole are not checked; those of SentDocs   *)
(* that are sound are used.                                                *)

SoundDocs == {doc \in SentDocs : Anchored(doc) /\ Exclusive(doc)}

\* The only method that looks at closed.
CreateDoc == ~closed /\ kept = NoDoc /\ \E doc \in SoundDocs : Change(doc)
UpdateDoc == kept # NoDoc /\ \E doc \in SoundDocs : Change(doc)

\* The rebuilder is not told of a deletion.
DeleteDoc ==
  /\ kept # NoDoc /\ kept' = NoDoc
  /\ Notify /\ behind' = TRUE
  /\ UNCHANGED <<closed, subs, place, told, rebuilder, built>>

AddNewDevice(d, sent) == kept # NoDoc /\ ~Has(kept, d) /\ Change(WithDevice(kept, d, Initialized(sent)))

\* The device is replaced; its links stay, with or without their ports.
ReplaceDevice(d, sent) == kept # NoDoc /\ Has(kept, d) /\ Change(WithDevice(kept, d, Initialized(sent)))

RemoveDevice(d) == kept # NoDoc /\ Has(kept, d) /\ Change(WithoutDevice(kept, d))

validateLink(doc, l) ==
  /\ l.source.device # l.target.device
  /\ \A e \in Ends(l) : Has(doc, e.device) /\ e.port \in doc.devices[e.device].ports
  /\ \A k \in doc.links : k.id # l.id /\ Ends(k) \cap Ends(l) = {}

AddNewLink(l) == kept # NoDoc /\ validateLink(kept, l) /\ Change([kept EXCEPT !.links = @ \cup {l}])

RemoveLink(id) ==
  /\ kept # NoDoc /\ \E l \in kept.links : l.id = id
  /\ Change([kept EXCEPT !.links = {l \in @ : l.id # id}])

\* Close: nothing but CreateTopology is refused from here on, and who subscribes is told.
Close ==
  /\ closed' = TRUE
  /\ subs' = <<>>
  /\ UNCHANGED <<kept, place, changes, flights, told, rebuilder, built, due, behind>>

ManagerNext ==
  \/ \E w \in Watchers : Subscribe(w) \/ Cancel(w)
  \/ \E f \in flights : CallBack(f)
  \/ \E on \in BOOLEAN : SetRebuilder(on)
  \/ CreateDoc \/ UpdateDoc \/ DeleteDoc \/ Close
  \/ \E d \in Devices : RemoveDevice(d) \/ \E sent \in SentDevices : AddNewDevice(d, sent) \/ ReplaceDevice(d, sent)
  \/ \E l \in SentLinks : AddNewLink(l)
  \/ \E id \in LinkIds : RemoveLink(id)

-----------------------------------------------------------------------------
(* Properties.                                                             *)

\* The links of the document join devices of it and share no port.
DocSound == kept # NoDoc => Anchored(kept) /\ Exclusive(kept)

\* The rebuilder has the document, unless its last change did not reach it.
RebuilderFollows == ~behind => kept = built

\* A subscriber is told, or is about to be told, once, of every change made while it had
\* subscribed and of no other, whoever else cancels. Not after Close, whose empty list
\* leaves the cancel functions with places that are given again.
Awaited(w) == {f.change : f \in {g \in flights : \E i \in DOMAIN g.left : g.left[i] = w}}
ToldWhatIsDue ==
  ~closed => \A w \in Watchers :
    LET heard == {told[w][i] : i \in DOMAIN told[w]}
    IN /\ heard \cup Awaited(w) = due[w] /\ heard \cap Awaited(w) = {}
       /\ Cardinality(heard) = Len(told[w])

ManagerSound == DocSound /\ RebuilderFollows /\ ToldWhatIsDue
=============================================================================
