------------------------- MODULE TopologyEditProofs -------------------------
(***************************************************************************)
(* The invariants of TopologyEdit hold for any number of requests,         *)
(* devices, ports and links.  A request works from a document it read some *)
(* time ago, so the invariant speaks of every document it may still write  *)
(* back as well as of the stored one; each handler then has to show only   *)
(* that it makes a good document from a good one.  The manager keeps its   *)
(* document good with the same lemmas; the invariants of its subscriptions *)
(* and of the numbering of a network follow, and the demonstration, which  *)
(* has no state, is checked against who holds each address and each port.  *)
(***************************************************************************)
EXTENDS TopologyBuild, Numbers, FiniteSetTheorems, TLAPS

\* What is kept of a document: its shape, its links' ends, its ports unless reused.
Good(doc, shared) == doc \in Doc /\ Anchored(doc) /\ (~ shared => Exclusive(doc))

IInv == /\ TypeOK
        /\ store # NoDoc => Good(store, reused)
        /\ \A r \in Requests : Holds(r) => Good(snap[r], reused)

\* Storing a good document and forgetting the request keeps the invariant.
LEMMA ReplaceKeeps ==
  ASSUME IInv, NEW r \in Requests, NEW doc, Replace(r, doc),
         reused' \in BOOLEAN, reused => reused', Good(doc, reused')
  PROVE  IInv'
<1>1. /\ store' = doc
      /\ snap' = [snap EXCEPT ![r] = Idle]
  BY DEF Replace
<1>2. TypeOK'
  BY <1>1 DEF IInv, TypeOK, Good
<1>3. ASSUME NEW q \in Requests, Holds(q)' PROVE Good(snap'[q], reused')
  <2>1. q # r /\ snap'[q] = snap[q]
    BY <1>1, <1>3 DEF Holds, IInv, TypeOK
  <2>2. Good(snap[q], reused)
    BY <2>1, <1>3 DEF Holds, IInv
  <2> QED
    BY <2>1, <2>2 DEF Good
<1> QED
  BY <1>1, <1>2, <1>3 DEF IInv

\* A request that holds a document holds a good one.
LEMMA HeldIsGood ==
  ASSUME IInv, NEW r \in Requests, Holds(r)
  PROVE  Good(snap[r], reused) /\ reused \in BOOLEAN
BY DEF IInv, TypeOK

\* The shape of a document, taken apart.
LEMMA DocFields ==
  ASSUME NEW doc \in Doc
  PROVE  /\ doc = [devices |-> doc.devices, links |-> doc.links]
         /\ doc.devices \in [Devices -> Device \cup {NoDevice}]
         /\ doc.links \subseteq Link
BY DEF Doc

\* A device put in the place of another, or into a free place, leaves the links as they
\* are, and none of them dangles.
LEMMA WithDeviceGood ==
  ASSUME NEW doc, NEW shared \in BOOLEAN, Good(doc, shared),
         NEW d \in Devices, NEW device \in Device
  PROVE  Good(WithDevice(doc, d, device), shared)
<1> DEFINE new == WithDevice(doc, d, device)
<1>0. doc \in Doc
  BY DEF Good
<1>1. /\ new = [devices |-> [doc.devices EXCEPT ![d] = device], links |-> doc.links]
      /\ new.links = doc.links
      /\ new.devices = [doc.devices EXCEPT ![d] = device]
  BY <1>0, DocFields DEF WithDevice
<1>2. new \in Doc
  BY <1>0, <1>1, DocFields DEF Doc
<1>3. device # NoDevice
  BY NonesAssumption
<1>4. Anchored(new)
  <2> SUFFICES ASSUME NEW l \in new.links, NEW e \in Ends(l) PROVE Has(new, e.device)
    BY DEF Anchored
  <2>1. Has(doc, e.device)
    BY <1>1 DEF Good, Anchored
  <2>2. e.device \in Devices
    BY <1>0, <1>1, DocFields DEF Ends, Link, End
  <2> QED
    BY <1>0, <1>1, <1>3, <2>1, <2>2, DocFields DEF Has
<1>5. ~ shared => Exclusive(new)
  BY <1>1 DEF Good, Exclusive
<1> QED
  BY <1>2, <1>4, <1>5 DEF Good

\* RemoveDevice: the links that remain join devices that remain.
LEMMA WithoutDeviceGood ==
  ASSUME NEW doc, NEW shared \in BOOLEAN, Good(doc, shared), NEW d \in Devices
  PROVE  Good(WithoutDevice(doc, d), shared)
<1> DEFINE new == WithoutDevice(doc, d)
<1>0. doc \in Doc
  BY DEF Good
<1>1. /\ new.links = {l \in doc.links : ~ Touches(l, d)}
      /\ new.devices = [doc.devices EXCEPT ![d] = NoDevice]
  BY DEF WithoutDevice
<1>2. new \in Doc
  BY <1>0, DocFields DEF Doc, WithoutDevice
<1>3. Anchored(new)
  <2> SUFFICES ASSUME NEW l \in new.links, NEW e \in Ends(l) PROVE Has(new, e.device)
    BY DEF Anchored
  <2>1. Has(doc, e.device) /\ e.device # d
    BY <1>1 DEF Good, Anchored, Touches
  <2>2. e.device \in Devices
    BY <1>0, <1>1, DocFields DEF Ends, Link, End
  <2> QED
    BY <1>0, <1>1, <2>1, <2>2, DocFields DEF Has
<1>4. ~ shared => Exclusive(new)
  BY <1>1 DEF Good, Exclusive
<1> QED
  BY <1>2, <1>3, <1>4 DEF Good

\* Links taken away leave a good document good.
LEMMA FewerLinksGood ==
  ASSUME NEW doc, NEW shared \in BOOLEAN, Good(doc, shared),
         NEW links \in SUBSET doc.links
  PROVE  Good([doc EXCEPT !.links = links], shared)
<1> DEFINE new == [doc EXCEPT !.links = links]
<1>1. doc \in Doc
  BY DEF Good
<1>2. new.links = links /\ new.devices = doc.devices /\ new \in Doc
  BY <1>1, DocFields DEF Doc
<1>3. Anchored(new)
  BY <1>2 DEF Good, Anchored, Has
<1>4. ~ shared => Exclusive(new)
  BY <1>2 DEF Good, Exclusive
<1> QED
  BY <1>2, <1>3, <1>4 DEF Good

\* The checks of addLink suffice for the document it has read: the new link does not
\* dangle, and it shares no port unless it has the identifier of another or is a loop.
LEMMA LinkAddedGood ==
  ASSUME NEW doc, NEW shared \in BOOLEAN, Good(doc, shared),
         NEW l \in Link, Linkable(doc, l)
  PROVE  Good([doc EXCEPT !.links = @ \cup {l}],
              shared \/ l.source = l.target \/ \E k \in doc.links : k.id = l.id)
<1> DEFINE new == [doc EXCEPT !.links = @ \cup {l}]
           now == shared \/ l.source = l.target \/ \E k \in doc.links : k.id = l.id
<1>1. doc \in Doc
  BY DEF Good
<1>2. new.links = doc.links \cup {l} /\ new.devices = doc.devices /\ new \in Doc
  BY <1>1, DocFields DEF Doc
<1>3. Anchored(new)
  BY <1>2 DEF Good, Anchored, Has, Linkable
<1>4. ASSUME ~ now PROVE Exclusive(new)
  <2>1. /\ Exclusive(doc)
        /\ l.source # l.target
        /\ \A k \in doc.links : Ends(k) \cap Ends(l) = {}
    BY <1>4 DEF Good, Linkable
  <2> QED
    BY <1>2, <2>1 DEF Exclusive
<1> QED
  BY <1>2, <1>3, <1>4 DEF Good

\* What UpdateTopology may make of the document it has read has the shape of one.
LEMMA MergedIsDoc ==
  ASSUME NEW doc \in Doc, NEW sent \in Doc, NEW new \in Merged(doc, sent)
  PROVE  new \in Doc
BY DocFields DEF Doc, Merged

\* Every step keeps the invariant, one step of the proof per handler.
LEMMA NextKeepsInvariant == IInv /\ [Next]_vars => IInv'
<1> SUFFICES ASSUME IInv, [Next]_vars PROVE IInv'
  OBVIOUS
<1>1. ASSUME NEW r \in Requests, Read(r) PROVE IInv'
  <2>1. snap' = [snap EXCEPT ![r] = store] /\ UNCHANGED <<store, reused>> /\ store # NoDoc
    BY <1>1 DEF Read
  <2>2. TypeOK'
    BY <2>1 DEF IInv, TypeOK
  <2>3. ASSUME NEW q \in Requests, Holds(q)' PROVE Good(snap'[q], reused')
    BY <2>1, <2>3 DEF IInv, TypeOK, Holds
  <2> QED
    BY <2>1, <2>2, <2>3 DEF IInv
<1>2. ASSUME NEW r \in Requests, NEW v \in {NoDoc, Idle},
             snap' = [snap EXCEPT ![r] = v], UNCHANGED <<store, reused>>
      PROVE  IInv'
  <2>1. TypeOK'
    BY <1>2 DEF IInv, TypeOK
  <2>2. ASSUME NEW q \in Requests, Holds(q)' PROVE Good(snap'[q], reused')
    BY <1>2, <2>2 DEF IInv, TypeOK, Holds
  <2> QED
    BY <1>2, <2>1, <2>2 DEF IInv
<1>3. ASSUME NEW r \in Requests, CreateTopology(r) PROVE IInv'
  <2>1. PICK doc \in SentDocs : /\ Anchored(doc)
                                /\ Replace(r, doc)
                                /\ reused' = (reused \/ ~ Exclusive(doc))
    BY <1>3 DEF CreateTopology
  <2>2. Good(doc, reused') /\ reused' \in BOOLEAN /\ (reused => reused')
    BY <2>1, SentAssumption DEF Good
  <2> QED
    BY <2>1, <2>2, ReplaceKeeps
<1>4. ASSUME NEW r \in Requests, UpdateTopology(r) PROVE IInv'
  <2>1. Good(snap[r], reused)
    BY <1>4, HeldIsGood DEF UpdateTopology
  <2>2. PICK sent \in SentDocs : \E doc \in Merged(snap[r], sent) :
          Anchored(doc) /\ Replace(r, doc) /\ reused' = (reused \/ ~ Exclusive(doc))
    BY <1>4 DEF UpdateTopology
  <2>3. PICK doc \in Merged(snap[r], sent) :
          Anchored(doc) /\ Replace(r, doc) /\ reused' = (reused \/ ~ Exclusive(doc))
    BY <2>2
  <2>4. doc \in Doc
    BY <2>1, SentAssumption, MergedIsDoc DEF Good
  <2>5. Good(doc, reused') /\ reused' \in BOOLEAN /\ (reused => reused')
    BY <2>3, <2>4 DEF Good
  <2> QED
    BY <2>3, <2>5, ReplaceKeeps
<1>5. ASSUME NEW r \in Requests, AddDevice(r) PROVE IInv'
  <2>1. Good(snap[r], reused) /\ reused \in BOOLEAN /\ reused' = reused
    BY <1>5, HeldIsGood DEF AddDevice
  <2>2. PICK d \in Devices, sent \in SentDevices :
          Replace(r, WithDevice(snap[r], d, Initialized(sent)))
    BY <1>5 DEF AddDevice
  <2>3. Initialized(sent) \in Device
    BY SentAssumption, KindsAssumption DEF Initialized, Device, Sent
  <2>4. Good(WithDevice(snap[r], d, Initialized(sent)), reused')
    BY <2>1, <2>3, WithDeviceGood
  <2> QED
    BY <2>1, <2>2, <2>4, ReplaceKeeps
<1>6. ASSUME NEW r \in Requests, UpdateDevice(r) PROVE IInv'
  <2>1. Good(snap[r], reused) /\ reused \in BOOLEAN /\ reused' = reused
    BY <1>6, HeldIsGood DEF UpdateDevice
  <2>2. PICK d \in Devices, sent \in SentDevices :
          /\ Has(snap[r], d)
          /\ \E held \in {snap[r].devices[d].ports, {}} :
               Replace(r, WithDevice(snap[r], d,
                 [kind  |-> sent.kind, ports |-> IF sent.listed THEN held \cup sent.ports ELSE held]))
    BY <1>6 DEF UpdateDevice
  <2>3. PICK held \in {snap[r].devices[d].ports, {}} :
          Replace(r, WithDevice(snap[r], d,
            [kind  |-> sent.kind, ports |-> IF sent.listed THEN held \cup sent.ports ELSE held]))
    BY <2>2
  <2>4. snap[r].devices[d] \in Device
    BY <2>1, <2>2, DocFields DEF Good, Has
  <2> DEFINE device == [kind  |-> sent.kind,
                        ports |-> IF sent.listed THEN held \cup sent.ports ELSE held]
  <2>5. device \in Device
    BY <2>4, SentAssumption DEF Device, Sent
  <2>6. Good(WithDevice(snap[r], d, device), reused')
    BY <2>1, <2>5, WithDeviceGood
  <2> QED
    BY <2>1, <2>3, <2>6, ReplaceKeeps
<1>7. ASSUME NEW r \in Requests, DeleteDevice(r) PROVE IInv'
  <2>1. Good(snap[r], reused) /\ reused \in BOOLEAN /\ reused' = reused
    BY <1>7, HeldIsGood DEF DeleteDevice
  <2>2. PICK d \in Devices : Replace(r, WithoutDevice(snap[r], d))
    BY <1>7 DEF DeleteDevice
  <2>3. Good(WithoutDevice(snap[r], d), reused')
    BY <2>1, WithoutDeviceGood
  <2> QED
    BY <2>1, <2>2, <2>3, ReplaceKeeps
<1>8. ASSUME NEW r \in Requests, AddLink(r) PROVE IInv'
  <2>1. Good(snap[r], reused) /\ reused \in BOOLEAN
    BY <1>8, HeldIsGood DEF AddLink
  <2>2. PICK l \in SentLinks :
          /\ Linkable(snap[r], l)
          /\ Replace(r, [snap[r] EXCEPT !.links = @ \cup {l}])
          /\ reused' = (reused \/ l.source = l.target \/ \E k \in snap[r].links : k.id = l.id)
    BY <1>8 DEF AddLink
  <2>3. l \in Link
    BY SentAssumption
  <2>4. Good([snap[r] EXCEPT !.links = @ \cup {l}], reused')
    BY <2>1, <2>2, <2>3, LinkAddedGood
  <2>5. reused' \in BOOLEAN /\ (reused => reused')
    BY <2>2
  <2> QED
    BY <2>2, <2>4, <2>5, ReplaceKeeps
<1>9. ASSUME NEW r \in Requests, DeleteLink(r) PROVE IInv'
  <2>1. Good(snap[r], reused) /\ reused \in BOOLEAN /\ reused' = reused
    BY <1>9, HeldIsGood DEF DeleteLink
  <2>2. PICK id \in LinkIds : Replace(r, [snap[r] EXCEPT !.links = {l \in @ : l.id # id}])
    BY <1>9 DEF DeleteLink
  <2> DEFINE left == {l \in snap[r].links : l.id # id}
  <2>3. left \in SUBSET snap[r].links
    OBVIOUS
  <2>4. Good([snap[r] EXCEPT !.links = left], reused')
    BY <2>1, <2>3, FewerLinksGood
  <2>5. Replace(r, [snap[r] EXCEPT !.links = left])
    BY <2>2
  <2> QED
    BY <2>1, <2>4, <2>5, ReplaceKeeps
<1>10. ASSUME NEW r \in Requests, ConfigureDevice(r) PROVE IInv'
  <2>1. Good(snap[r], reused) /\ reused \in BOOLEAN /\ reused' = reused
    BY <1>10, HeldIsGood DEF ConfigureDevice
  <2>2. PICK d \in Devices, added \in {{}} \cup {{p} : p \in Ports} :
          /\ Has(snap[r], d)
          /\ LET device == [snap[r].devices[d] EXCEPT !.ports = @ \cup added]
             IN Replace(r, WithDevice(snap[r], d, [device EXCEPT !.ports = CliPorts(device)]))
    BY <1>10 DEF ConfigureDevice
  <2> DEFINE device == [snap[r].devices[d] EXCEPT !.ports = @ \cup added]
             written == [device EXCEPT !.ports = CliPorts(device)]
  <2>3. snap[r].devices[d] \in Device
    BY <2>1, <2>2, DocFields DEF Good, Has
  <2>4. device \in Device
    BY <2>3 DEF Device
  <2>5. CliPorts(device) \in SUBSET Ports
    BY <2>4, KindsAssumption DEF CliPorts, Device
  <2>6. written \in Device
    BY <2>4, <2>5 DEF Device
  <2>7. Good(WithDevice(snap[r], d, written), reused')
    BY <2>1, <2>6, WithDeviceGood
  <2>8. Replace(r, WithDevice(snap[r], d, written))
    BY <2>2
  <2> QED
    BY <2>1, <2>7, <2>8, ReplaceKeeps
<1>11. ASSUME NEW r \in Requests, WriteBack(r) PROVE IInv'
  BY <1>11, HeldIsGood, ReplaceKeeps DEF WriteBack
<1>12. CASE DeleteTopology
  <2>1. store' = NoDoc /\ snap' = snap /\ reused' = reused
    BY <1>12 DEF DeleteTopology
  <2> QED
    BY <2>1 DEF IInv, TypeOK, Holds
<1>13. CASE UNCHANGED vars
  BY <1>13 DEF vars, IInv, TypeOK, Holds
<1>14. ASSUME NEW r \in Requests, CheckAbsent(r) \/ Reject(r) PROVE IInv'
  BY <1>14, <1>2 DEF CheckAbsent, Reject
<1> QED
  BY <1>1, <1>3, <1>4, <1>5, <1>6, <1>7, <1>8, <1>9, <1>10, <1>11, <1>12, <1>13, <1>14
     DEF Next, Edit

\* The documents stored and the documents held are good, whatever the interleaving.
THEOREM Invariance == Spec => []IInv
<1>1. Init => IInv
  BY NonesAssumption DEF Init, IInv, TypeOK, Holds
<1> QED
  BY <1>1, NextKeepsInvariant, PTL DEF Spec

\* Every variable keeps its type: a handler that builds a document from a stale one still
\* builds a document.
THEOREM TypeCorrect == Spec => []TypeOK
<1>1. IInv => TypeOK
  BY DEF IInv
<1> QED
  BY <1>1, Invariance, PTL

\* No interleaving of the handlers leaves a dangling link in the stored topology.
THEOREM NoDanglingLinks == Spec => []LinksAnchored
<1>1. IInv => LinksAnchored
  BY DEF IInv, Good, LinksAnchored
<1> QED
  BY <1>1, Invariance, PTL

\* No interleaving of the handlers puts two links on one port, where identifiers of
\* links are not reused and whole documents come with exclusive ports.
THEOREM OneLinkPerPort == Spec => []PortsExclusive
<1>1. IInv => PortsExclusive
  BY DEF IInv, Good, PortsExclusive
<1> QED
  BY <1>1, Invariance, PTL

-----------------------------------------------------------------------------
(* The manager.                                                            *)

\* A device that is sent has the shape of one.
LEMMA InitializedIsDevice == ASSUME NEW sent \in SentDevices PROVE Initialized(sent) \in Device
<1>1. sent \in Sent
  BY SentAssumption
<1>2. sent.kind \in Kinds /\ sent.ports \subseteq Ports /\ Defaults[sent.kind] \subseteq Ports
  BY <1>1, KindsAssumption DEF Sent
<1> QED
  BY <1>2 DEF Initialized, Device

\* A link that validateLink lets through leaves a good document good.
LEMMA ValidLinkGood ==
  ASSUME NEW doc, Good(doc, FALSE), NEW l \in Link, validateLink(doc, l)
  PROVE  Good([doc EXCEPT !.links = @ \cup {l}], FALSE)
<1>1. PICK new : new = [doc EXCEPT !.links = @ \cup {l}]
  OBVIOUS
<1>2. doc \in Doc /\ Anchored(doc) /\ Exclusive(doc)
  BY DEF Good
<1>3. new.links = doc.links \cup {l} /\ new.devices = doc.devices /\ new \in Doc
  BY <1>1, <1>2, DocFields DEF Doc
<1>4. Anchored(new)
  BY <1>2, <1>3 DEF Anchored, Has, validateLink
<1>5. Exclusive(new)
  <2>1. l.source # l.target /\ \A k \in doc.links : Ends(k) \cap Ends(l) = {}
    BY DEF validateLink
  <2> QED
    BY <1>2, <1>3, <2>1 DEF Exclusive
<1> QED
  BY <1>1, <1>3, <1>4, <1>5 DEF Good

\* The document of the manager.
KeptInv == (kept # NoDoc => Good(kept, FALSE)) /\ (~behind => kept = built)

\* Whatever document a change leaves, the rebuilder gets it or is behind.
LEMMA ChangeKeeps == ASSUME NEW doc, Good(doc, FALSE), Change(doc) PROVE KeptInv'
<1>1. kept' = doc /\ (behind' = TRUE \/ (behind' = FALSE /\ built' = doc))
  BY DEF Change, Rebuild
<1> QED
  BY <1>1 DEF KeptInv

\* Every method leaves a good document, or none.
LEMMA KeptStays == KeptInv /\ [ManagerNext]_managerVars => KeptInv'
<1> SUFFICES ASSUME KeptInv, [ManagerNext]_managerVars PROVE KeptInv'
  OBVIOUS
<1>0. kept # NoDoc => Good(kept, FALSE)
  BY DEF KeptInv
<1>1. CASE UNCHANGED <<kept, built, behind>>
  BY <1>1 DEF KeptInv
<1>2. CASE \E on \in BOOLEAN : SetRebuilder(on)
  BY <1>2 DEF SetRebuilder, KeptInv
<1>3. CASE CreateDoc \/ UpdateDoc
  <2>1. PICK doc \in SoundDocs : Change(doc)
    BY <1>3 DEF CreateDoc, UpdateDoc
  <2>2. Good(doc, FALSE)
    BY SentAssumption DEF SoundDocs, Good
  <2> QED
    BY <2>1, <2>2, ChangeKeeps
<1>4. CASE DeleteDoc
  BY <1>4 DEF DeleteDoc, KeptInv
<1>5. CASE \E d \in Devices : RemoveDevice(d)
  <2>1. PICK d \in Devices : kept # NoDoc /\ Change(WithoutDevice(kept, d))
    BY <1>5 DEF RemoveDevice
  <2>2. Good(WithoutDevice(kept, d), FALSE)
    BY <1>0, <2>1, WithoutDeviceGood
  <2> QED
    BY <2>1, <2>2, ChangeKeeps
<1>6. CASE \E d \in Devices, sent \in SentDevices : AddNewDevice(d, sent) \/ ReplaceDevice(d, sent)
  <2>1. PICK d \in Devices, sent \in SentDevices : kept # NoDoc /\ Change(WithDevice(kept, d, Initialized(sent)))
    BY <1>6 DEF AddNewDevice, ReplaceDevice
  <2>2. Good(WithDevice(kept, d, Initialized(sent)), FALSE)
    BY <1>0, <2>1, InitializedIsDevice, WithDeviceGood
  <2> QED
    BY <2>1, <2>2, ChangeKeeps
<1>7. CASE \E l \in SentLinks : AddNewLink(l)
  <2>1. PICK l \in SentLinks : kept # NoDoc /\ validateLink(kept, l) /\ Change([kept EXCEPT !.links = @ \cup {l}])
    BY <1>7 DEF AddNewLink
  <2>2. Good([kept EXCEPT !.links = @ \cup {l}], FALSE)
    BY <1>0, <2>1, SentAssumption, ValidLinkGood
  <2> QED
    BY <2>1, <2>2, ChangeKeeps
<1>8. CASE \E id \in LinkIds : RemoveLink(id)
  <2>1. PICK id \in LinkIds : kept # NoDoc /\ Change([kept EXCEPT !.links = {l \in @ : l.id # id}])
    BY <1>8 DEF RemoveLink
  <2>2. PICK left : left = {l \in kept.links : l.id # id}
    OBVIOUS
  <2>3. Good([kept EXCEPT !.links = left], FALSE)
    BY <1>0, <2>1, <2>2, FewerLinksGood
  <2>4. Change([kept EXCEPT !.links = left])
    BY <2>1, <2>2
  <2> QED
    BY <2>3, <2>4, ChangeKeeps
<1>9. \/ UNCHANGED <<kept, built, behind>> \/ CreateDoc \/ UpdateDoc \/ DeleteDoc
      \/ \E on \in BOOLEAN : SetRebuilder(on)
      \/ \E d \in Devices : RemoveDevice(d) \/ \E sent \in SentDevices : AddNewDevice(d, sent) \/ ReplaceDevice(d, sent)
      \/ \E l \in SentLinks : AddNewLink(l)
      \/ \E id \in LinkIds : RemoveLink(id)
  <2>1. CASE ManagerNext
    <3>1. (\E w \in Watchers : Subscribe(w) \/ Cancel(w)) \/ (\E f \in flights : CallBack(f)) \/ Close => UNCHANGED <<kept, built, behind>>
      BY DEF Subscribe, Cancel, CallBack, Close
    <3> QED
      BY <2>1, <3>1 DEF ManagerNext
  <2>2. CASE UNCHANGED managerVars
    BY <2>2 DEF managerVars
  <2> QED
    BY <2>1, <2>2
<1> QED
  BY <1>1, <1>2, <1>3, <1>4, <1>5, <1>6, <1>7, <1>8, <1>9

-----------------------------------------------------------------------------
(* The manager: who is told.                                               *)

Entries == Watchers \cup {Cancelled}
Hears(f, w) == \E i \in 1..Len(f.left) : f.left[i] = w
Heard(w) == {told[w][i] : i \in 1..Len(told[w])}

\* A watcher occurs once at most.
Once(s) == \A i, j \in 1..Len(s) : s[i] = s[j] /\ s[i] \in Watchers => i = j

\* A subscriber has the place in the list that its cancel function empties.
Places ==
  /\ subs \in Seq(Entries) /\ place \in [Watchers -> Nat]
  /\ \A w \in Watchers : place[w] # 0 => place[w] \in 1..Len(subs) /\ subs[place[w]] = w
  /\ \A w \in Watchers : \A i \in 1..Len(subs) : subs[i] = w => place[w] = i

\* The goroutines are those of different changes, and each has a subscriber once.
Flights ==
  /\ changes \in Nat
  /\ \A f \in flights : /\ f \in [change : 1..changes, left : Seq(Entries)]
                        /\ f.left # <<>> /\ Once(f.left)
  /\ \A f, g \in flights : f.change = g.change => f = g

\* What a subscriber is due it has heard, once, or a goroutine is to tell it.
Tellings ==
  /\ told \in [Watchers -> Seq(Nat)] /\ due \in [Watchers -> SUBSET (1..changes)]
  /\ \A w \in Watchers : /\ Heard(w) \cup Awaited(w) = due[w] /\ Heard(w) \cap Awaited(w) = {}
                         /\ \A i, j \in 1..Len(told[w]) : told[w][i] = told[w][j] => i = j

TellInv == closed \/ (Places /\ Flights /\ Tellings)

\* Those whom goroutines are to tell, by their changes.
LEMMA AwaitedIs ==
  ASSUME Flights, NEW w, NEW c
  PROVE  c \in Awaited(w) <=> \E f \in flights : f.change = c /\ Hears(f, w)
<1>1. \A f \in flights : DOMAIN f.left = 1..Len(f.left)
  BY DEF Flights
<1> QED
  BY <1>1 DEF Awaited, Hears

\* A subscription takes the next place, a cancellation empties its own.
LEMMA PlacesKept ==
  ASSUME Places, NEW w \in Watchers, Subscribe(w) \/ Cancel(w)
  PROVE  Places'
<1>0. PICK n \in Nat, s \in Seq(Entries) : s = subs /\ n = Len(s)
  BY DEF Places
<1>1. CASE Subscribe(w)
  <2>1. place[w] = 0 /\ subs' = Append(s, w) /\ place' = [place EXCEPT ![w] = n + 1]
    BY <1>0, <1>1 DEF Subscribe
  <2>2. /\ subs' \in Seq(Entries) /\ Len(subs') = n + 1 /\ subs'[n + 1] = w
        /\ \A i \in 1..n : subs'[i] = s[i]
    BY <1>0, <2>1 DEF Entries
  <2>3. place' \in [Watchers -> Nat] /\ place'[w] = n + 1 /\ \A v \in Watchers \ {w} : place'[v] = place[v]
    BY <2>1 DEF Places
  <2>4. ASSUME NEW v \in Watchers, place'[v] # 0 PROVE place'[v] \in 1..n + 1 /\ subs'[place'[v]] = v
    <3>1. CASE v = w
      BY <2>2, <2>3, <3>1
    <3>2. CASE v # w
      <4>1. place[v] \in 1..n /\ s[place[v]] = v
        BY <1>0, <2>3, <2>4, <3>2 DEF Places
      <4> QED
        BY <2>2, <2>3, <3>2, <4>1
    <3> QED
      BY <3>1, <3>2
  <2>5. ASSUME NEW v \in Watchers, NEW i \in 1..n + 1, subs'[i] = v PROVE place'[v] = i
    <3>1. CASE i = n + 1
      BY <2>2, <2>3, <2>5, <3>1
    <3>2. CASE i # n + 1
      <4>1. i \in 1..n /\ s[i] = v
        BY <2>2, <2>5, <3>2
      <4>2. place[v] = i /\ v # w
        BY <1>0, <2>1, <4>1 DEF Places
      <4> QED
        BY <2>3, <4>2
    <3> QED
      BY <3>1, <3>2
  <2> QED
    BY <2>2, <2>3, <2>4, <2>5 DEF Places
<1>2. CASE Cancel(w)
  <2>1. place[w] \in 1..n /\ s[place[w]] = w
    BY <1>0, <1>2 DEF Cancel, Places
  <2>2. PICK k \in 1..n : k = place[w] /\ s[k] = w
    BY <2>1
  <2>3. subs' = [s EXCEPT ![k] = Cancelled] /\ place' = [place EXCEPT ![w] = 0]
    BY <1>0, <1>2, <2>2 DEF Cancel
  <2>4. /\ subs' \in Seq(Entries) /\ Len(subs') = n /\ subs'[k] = Cancelled
        /\ \A i \in 1..n \ {k} : subs'[i] = s[i]
    BY <1>0, <2>2, <2>3 DEF Entries
  <2>5. place' \in [Watchers -> Nat] /\ place'[w] = 0 /\ \A v \in Watchers \ {w} : place'[v] = place[v]
    BY <2>3 DEF Places
  <2>6. ASSUME NEW v \in Watchers, place'[v] # 0 PROVE place'[v] \in 1..n /\ subs'[place'[v]] = v
    <3>1. v # w /\ place[v] # 0 /\ place'[v] = place[v]
      BY <2>5, <2>6
    <3>2. place[v] \in 1..n /\ s[place[v]] = v
      BY <1>0, <3>1 DEF Places
    <3>3. place[v] # k
      BY <2>2, <3>1, <3>2
    <3> QED
      BY <2>4, <3>1, <3>2, <3>3
  <2>7. ASSUME NEW v \in Watchers, NEW i \in 1..n, subs'[i] = v PROVE place'[v] = i
    <3>1. i # k
      BY <2>4, <2>7, CancelledAssumption
    <3>2. s[i] = v
      BY <2>4, <2>7, <3>1
    <3>3. place[v] = i
      BY <1>0, <3>2 DEF Places
    <3>4. v # w
      BY <2>2, <3>1, <3>3
    <3> QED
      BY <2>5, <3>3, <3>4
  <2> QED
    BY <2>4, <2>5, <2>6, <2>7 DEF Places
<1> QED
  BY <1>1, <1>2

\* A change is due to those who have a place, and to nobody else.
LEMMA NotifyKeeps ==
  ASSUME Places, Flights, Tellings, Notify, UNCHANGED <<subs, place, told>>
  PROVE  Places' /\ Flights' /\ Tellings'
<1>0. PICK n \in Nat, s \in Seq(Entries), F \in {flights} : n = changes /\ s = subs /\ F = flights
  BY DEF Places, Flights
<1>1. PICK new : new = [change |-> n + 1, left |-> s]
  OBVIOUS
<1>2. /\ changes' = n + 1 /\ flights' = IF s = <<>> THEN F ELSE F \cup {new}
      /\ due' = [w \in Watchers |-> IF place[w] = 0 THEN due[w] ELSE due[w] \cup {n + 1}]
  BY <1>0, <1>1 DEF Notify
<1>3. Places'
  BY DEF Places
<1>4. new.change = n + 1 /\ new.left = s /\ new \in [change : 1..n + 1, left : Seq(Entries)]
  BY <1>1
<1>5. Once(s)
  BY <1>0 DEF Places, Once
<1>6. \A f \in F : f \in [change : 1..n, left : Seq(Entries)] /\ f.left # <<>> /\ Once(f.left)
  BY <1>0 DEF Flights
<1>7. \A f \in F : f \in [change : 1..n + 1, left : Seq(Entries)] /\ f.change # n + 1
  <2> SUFFICES ASSUME NEW f \in F PROVE f \in [change : 1..n + 1, left : Seq(Entries)] /\ f.change # n + 1
    OBVIOUS
  <2>1. f = [change |-> f.change, left |-> f.left] /\ f.change \in 1..n /\ f.left \in Seq(Entries)
    BY <1>6
  <2>2. f.change \in 1..n + 1 /\ f.change # n + 1
    BY <2>1
  <2> QED
    BY <2>1, <2>2
<1>8. Flights'
  <2>1. \A f \in flights' : f = new \/ f \in F
    BY <1>2
  <2>2. new \in flights' => s # <<>>
    BY <1>2, <1>4, <1>7
  <2>3. \A f \in flights' : f \in [change : 1..n + 1, left : Seq(Entries)] /\ f.left # <<>> /\ Once(f.left)
    BY <1>4, <1>5, <1>6, <1>7, <2>1, <2>2
  <2>4. \A f, g \in flights' : f.change = g.change => f = g
    BY <1>0, <1>4, <1>7, <2>1 DEF Flights
  <2> QED
    BY <1>2, <2>3, <2>4 DEF Flights
<1>9. ASSUME NEW w \in Watchers
      PROVE  /\ due'[w] = due[w] \cup (IF place[w] = 0 THEN {} ELSE {n + 1})
             /\ Awaited(w)' = Awaited(w) \cup (IF place[w] = 0 THEN {} ELSE {n + 1})
  <2>1. due'[w] = due[w] \cup (IF place[w] = 0 THEN {} ELSE {n + 1})
    BY <1>2
  <2>2. Hears(new, w) <=> place[w] # 0
    <3>1. Hears(new, w) <=> \E i \in 1..Len(s) : s[i] = w
      BY <1>4 DEF Hears
    <3>2. ASSUME NEW i \in 1..Len(s), s[i] = w PROVE place[w] # 0
      BY <1>0, <3>2 DEF Places
    <3>3. place[w] # 0 => place[w] \in 1..Len(s) /\ s[place[w]] = w
      BY <1>0 DEF Places
    <3> QED
      BY <3>1, <3>2, <3>3
  <2>3. place[w] # 0 => new \in flights'
    <3>1. place[w] # 0 => place[w] \in 1..Len(s)
      BY <1>0 DEF Places
    <3>2. s = <<>> => Len(s) = 0
      OBVIOUS
    <3>3. place[w] # 0 => s # <<>>
      BY <3>1, <3>2
    <3> QED
      BY <1>2, <3>3
  <2>4. \A c : c \in Awaited(w)' <=> \E f \in flights' : f.change = c /\ Hears(f, w)
    <3>1. \A f \in flights' : DOMAIN f.left = 1..Len(f.left)
      BY <1>8 DEF Flights
    <3> QED
      BY <3>1 DEF Awaited, Hears
  <2>5. \A c : c \in Awaited(w) <=> \E f \in F : f.change = c /\ Hears(f, w)
    BY <1>0, AwaitedIs
  <2>6. \A f \in flights' : f = new \/ f \in F
    BY <1>2
  <2>7. \A f \in F : f \in flights'
    BY <1>2
  <2>8. \A c : c \in Awaited(w)' <=> c \in Awaited(w) \/ (place[w] # 0 /\ c = n + 1)
    BY <1>4, <2>2, <2>3, <2>4, <2>5, <2>6, <2>7
  <2> QED
    BY <2>1, <2>8
<1>10. ASSUME NEW w \in Watchers
       PROVE  /\ due'[w] \in SUBSET (1..n + 1)
              /\ Heard(w) \cup Awaited(w)' = due'[w] /\ Heard(w) \cap Awaited(w)' = {}
  <2>1. due[w] \subseteq 1..n /\ Heard(w) \cup Awaited(w) = due[w] /\ Heard(w) \cap Awaited(w) = {}
    BY <1>0 DEF Tellings
  <2>2. 1..n \subseteq 1..n + 1 /\ n + 1 \in 1..n + 1 /\ n + 1 \notin 1..n
    BY <1>0
  <2> QED
    BY <1>9, <2>1, <2>2
<1>11. Tellings'
  <2>1. \A w : Heard(w)' = Heard(w)
    BY DEF Heard
  <2>2. due' \in [Watchers -> SUBSET (1..changes')]
    BY <1>2, <1>10
  <2> QED
    BY <1>10, <2>1, <2>2 DEF Tellings
<1> QED
  BY <1>3, <1>8, <1>11

\* A call takes the change from those that a subscriber waits for to those it has heard.
LEMMA CallBackKeeps ==
  ASSUME Flights, Tellings, NEW f \in flights, CallBack(f)
  PROVE  Flights' /\ Tellings'
<1>0. PICK n \in Nat, F \in {flights} : n = changes /\ F = flights
  BY DEF Flights
<1>1. PICK c \in 1..n, s \in Seq(Entries) : f = [change |-> c, left |-> s] /\ s # <<>> /\ Once(s)
  <2>1. f \in [change : 1..n, left : Seq(Entries)] /\ f.left # <<>> /\ Once(f.left)
    BY <1>0 DEF Flights
  <2> QED
    BY <2>1
<1>2. PICK k \in Nat : Len(s) = k + 1
  <2>1. Len(s) \in Nat \ {0}
    BY <1>1
  <2> QED
    BY <2>1
<1>3. PICK a, rest : a = Head(s) /\ rest = Tail(s)
  OBVIOUS
<1>4. a = s[1] /\ a \in Entries /\ rest \in Seq(Entries) /\ Len(rest) = k /\ \A i \in 1..k : rest[i] = s[i + 1]
  BY <1>1, <1>2, <1>3
<1>5. PICK new : new = [change |-> c, left |-> rest]
  OBVIOUS
<1>6. f.change = c /\ f.left = s /\ new.change = c /\ new.left = rest /\ [f EXCEPT !.left = rest] = new
  BY <1>1, <1>5
<1>7. flights' = (F \ {f}) \cup (IF rest = <<>> THEN {} ELSE {new})
  BY <1>0, <1>3, <1>6 DEF CallBack
<1>8. told' = IF a = Cancelled THEN told ELSE [told EXCEPT ![a] = Append(@, c)]
  BY <1>3, <1>6 DEF CallBack
<1>9. changes' = n /\ due' = due
  BY <1>0 DEF CallBack
<1>10. ASSUME NEW w \in Watchers
       PROVE  Hears(new, w) <=> w # a /\ Hears(f, w)
  <2>1. Hears(new, w) <=> \E i \in 1..k : s[i + 1] = w
    BY <1>4, <1>6 DEF Hears
  <2>2. Hears(f, w) <=> \E i \in 1..k + 1 : s[i] = w
    BY <1>2, <1>6 DEF Hears
  <2>3. ASSUME NEW i \in 1..k, s[i + 1] = w PROVE w # a /\ Hears(f, w)
    <3>1. i + 1 \in 1..k + 1 /\ 1 \in 1..k + 1 /\ i + 1 # 1
      BY <1>2
    <3>2. s[i + 1] # s[1]
      BY <1>1, <1>2, <2>3, <3>1 DEF Once
    <3> QED
      BY <1>4, <2>2, <2>3, <3>1, <3>2
  <2>4. ASSUME w # a, NEW i \in 1..k + 1, s[i] = w PROVE Hears(new, w)
    <3>1. i # 1
      BY <1>4, <2>4
    <3>2. i - 1 \in 1..k /\ (i - 1) + 1 = i
      BY <1>2, <3>1
    <3>3. s[(i - 1) + 1] = w
      BY <2>4, <3>2
    <3> QED
      BY <2>1, <3>2, <3>3
  <2> QED
    BY <2>1, <2>2, <2>3, <2>4
<1>11. Once(rest)
  <2> SUFFICES ASSUME NEW i \in 1..k, NEW j \in 1..k, rest[i] = rest[j], rest[i] \in Watchers PROVE i = j
    BY <1>4 DEF Once
  <2>1. i + 1 \in 1..Len(s) /\ j + 1 \in 1..Len(s)
    BY <1>2
  <2>2. i + 1 = j + 1
    BY <1>1, <1>4, <2>1 DEF Once
  <2> QED
    BY <2>2
<1>12. \A g \in F : g # f => g.change # c
  BY <1>0, <1>6 DEF Flights
<1>13. \A g \in flights' : (g \in F /\ g # f) \/ (g = new /\ rest # <<>>)
  BY <1>7
<1>14. Flights'
  <2>1. new \in [change : 1..n, left : Seq(Entries)]
    BY <1>4, <1>5
  <2>2. \A g \in F : g \in [change : 1..n, left : Seq(Entries)] /\ g.left # <<>> /\ Once(g.left)
    BY <1>0 DEF Flights
  <2>3. \A g \in flights' : g \in [change : 1..n, left : Seq(Entries)] /\ g.left # <<>> /\ Once(g.left)
    BY <1>6, <1>11, <1>13, <2>1, <2>2
  <2>4. \A g, h \in flights' : g.change = h.change => g = h
    <3>1. \A g, h \in F : g.change = h.change => g = h
      BY <1>0 DEF Flights
    <3> QED
      BY <1>6, <1>12, <1>13, <3>1
  <2> QED
    BY <1>9, <2>3, <2>4 DEF Flights
<1>15. ASSUME NEW w \in Watchers
       PROVE  Awaited(w)' = IF w = a THEN Awaited(w) \ {c} ELSE Awaited(w)
  <2>1. \A x : x \in Awaited(w)' <=> \E g \in flights' : g.change = x /\ Hears(g, w)
    <3>1. \A g \in flights' : DOMAIN g.left = 1..Len(g.left)
      BY <1>14 DEF Flights
    <3> QED
      BY <3>1 DEF Awaited, Hears
  <2>2. \A x : x \in Awaited(w) <=> \E g \in F : g.change = x /\ Hears(g, w)
    BY <1>0, AwaitedIs
  <2>3. Hears(new, w) => new \in flights'
    <3>1. rest = <<>> => k = 0
      BY <1>4
    <3>2. k = 0 => ~ Hears(new, w)
      BY <1>4, <1>6 DEF Hears
    <3> QED
      BY <1>7, <3>1, <3>2
  <2>4. \A g \in F : g # f => g \in flights'
    BY <1>7
  <2>5. CASE w = a
    <3>1. ~ Hears(new, w)
      BY <1>10, <2>5
    <3>2. \A x : x \in Awaited(w)' <=> x \in Awaited(w) /\ x # c
      BY <1>6, <1>12, <1>13, <2>1, <2>2, <2>4, <3>1
    <3> QED
      BY <2>5, <3>2
  <2>6. CASE w # a
    <3>1. Hears(new, w) <=> Hears(f, w)
      BY <1>10, <2>6
    <3>2. \A x : x \in Awaited(w)' <=> x \in Awaited(w)
      <4>1. ASSUME NEW x, x \in Awaited(w)' PROVE x \in Awaited(w)
        BY <1>0, <1>6, <1>13, <2>1, <2>2, <3>1, <4>1
      <4>2. ASSUME NEW x, x \in Awaited(w) PROVE x \in Awaited(w)'
        BY <1>0, <1>6, <2>1, <2>2, <2>3, <2>4, <3>1, <4>2
      <4> QED
        BY <4>1, <4>2
    <3> QED
      BY <2>6, <3>2
  <2> QED
    BY <2>5, <2>6
<1>16. ASSUME NEW w \in Watchers
       PROVE  /\ told'[w] \in Seq(Nat)
              /\ Heard(w)' \cup Awaited(w)' = due[w] /\ Heard(w)' \cap Awaited(w)' = {}
              /\ \A i, j \in 1..Len(told'[w]) : told'[w][i] = told'[w][j] => i = j
  <2>1. /\ told \in [Watchers -> Seq(Nat)]
        /\ Heard(w) \cup Awaited(w) = due[w] /\ Heard(w) \cap Awaited(w) = {}
        /\ \A i, j \in 1..Len(told[w]) : told[w][i] = told[w][j] => i = j
    BY DEF Tellings
  <2>2. CASE w # a
    <3>1. told'[w] = told[w]
      <4>1. CASE a = Cancelled
        BY <1>8, <4>1
      <4>2. CASE a # Cancelled
        <5>1. a \in Watchers /\ told' = [told EXCEPT ![a] = Append(@, c)]
          BY <1>4, <1>8, <4>2 DEF Entries
        <5> QED
          BY <2>1, <2>2, <5>1
      <4> QED
        BY <4>1, <4>2
    <3>2. Heard(w)' = Heard(w)
      BY <3>1 DEF Heard
    <3> QED
      BY <1>15, <2>1, <2>2, <3>1, <3>2
  <2>3. CASE w = a
    <3>1. PICK t \in Seq(Nat), m \in Nat : t = told[w] /\ m = Len(t)
      BY <2>1
    <3>2. PICK u : u = Append(t, c)
      OBVIOUS
    <3>3. told'[w] = u
      <4>1. a # Cancelled
        BY <2>3, CancelledAssumption
      <4> QED
        BY <1>8, <2>1, <2>3, <3>1, <3>2, <4>1
    <3>4. u \in Seq(Nat) /\ Len(u) = m + 1 /\ u[m + 1] = c /\ \A i \in 1..m : u[i] = t[i]
      BY <3>1, <3>2
    <3>5. c \in Awaited(w)
      <4>1. 1 \in 1..k + 1
        BY <1>2
      <4>2. Hears(f, w)
        BY <1>2, <1>4, <1>6, <2>3, <4>1 DEF Hears
      <4> QED
        BY <1>6, <4>2, AwaitedIs
    <3>6. Heard(w) = {t[i] : i \in 1..m}
      BY <3>1 DEF Heard
    <3>7. Heard(w)' = {u[i] : i \in 1..m + 1}
      BY <3>3, <3>4 DEF Heard
    <3>8. \A i \in 1..m + 1 : i \in 1..m \/ i = m + 1
      BY <3>1
    <3>9. 1..m \subseteq 1..m + 1 /\ m + 1 \in 1..m + 1
      BY <3>1
    <3>10. Heard(w)' = Heard(w) \cup {c}
      BY <3>4, <3>6, <3>7, <3>8, <3>9
    <3>11. \A i \in 1..m : t[i] # c
      BY <2>1, <3>5, <3>6
    <3>12. \A i, j \in 1..m + 1 : u[i] = u[j] => i = j
      <4>1. \A i, j \in 1..m : t[i] = t[j] => i = j
        BY <2>1, <3>1
      <4>2. \A i \in 1..m : u[i] = t[i] /\ u[i] # u[m + 1]
        BY <3>4, <3>11
      <4> QED
        BY <3>8, <4>1, <4>2
    <3>13. Awaited(w)' = Awaited(w) \ {c}
      BY <1>15, <2>3
    <3> QED
      BY <2>1, <3>3, <3>4, <3>5, <3>10, <3>12, <3>13
  <2> QED
    BY <2>2, <2>3
<1>17. told' \in [Watchers -> Seq(Nat)]
  BY <1>4, <1>8, <1>16 DEF Tellings, Entries
<1>18. Tellings'
  <2>1. due' \in [Watchers -> SUBSET (1..changes')]
    BY <1>0, <1>9 DEF Tellings
  <2> QED
    BY <1>9, <1>16, <1>17, <2>1 DEF Tellings
<1> QED
  BY <1>14, <1>18

\* Where nobody is told anything, all stay as they were.
LEMMA TellingsFrame ==
  ASSUME Flights, Tellings, UNCHANGED <<changes, flights, told, due>>
  PROVE  Flights' /\ Tellings'
<1>1. Flights'
  BY DEF Flights
<1>2. \A w : Heard(w)' = Heard(w) /\ Awaited(w)' = Awaited(w)
  BY DEF Heard, Awaited
<1>3. Tellings'
  BY <1>2 DEF Tellings
<1> QED
  BY <1>1, <1>3

\* Until the manager is closed, whatever is called.
LEMMA TellingStays == TellInv /\ [ManagerNext]_managerVars => TellInv'
<1> SUFFICES ASSUME TellInv, [ManagerNext]_managerVars PROVE TellInv'
  OBVIOUS
<1>9. closed => closed'
  <2>1. \A doc : Change(doc) => closed' = closed
    BY DEF Change
  <2>2. CreateDoc \/ UpdateDoc \/ DeleteDoc \/ Close => (closed => closed')
    BY <2>1 DEF CreateDoc, UpdateDoc, DeleteDoc, Close
  <2>3. \A w \in Watchers : Subscribe(w) \/ Cancel(w) => closed' = closed
    BY DEF Subscribe, Cancel
  <2>4. (\A f \in flights : CallBack(f) => closed' = closed) /\ \A on \in BOOLEAN : SetRebuilder(on) => closed' = closed
    BY DEF CallBack, SetRebuilder
  <2>5. \A d \in Devices : /\ RemoveDevice(d) => closed' = closed
                           /\ \A sent \in SentDevices : AddNewDevice(d, sent) \/ ReplaceDevice(d, sent) => closed' = closed
    BY <2>1 DEF RemoveDevice, AddNewDevice, ReplaceDevice
  <2>6. (\A l \in SentLinks : AddNewLink(l) => closed' = closed) /\ \A id \in LinkIds : RemoveLink(id) => closed' = closed
    BY <2>1 DEF AddNewLink, RemoveLink
  <2>7. UNCHANGED managerVars => closed' = closed
    BY DEF managerVars
  <2> QED
    BY <2>2, <2>3, <2>4, <2>5, <2>6, <2>7 DEF ManagerNext
<1> SUFFICES ASSUME ~ closed, ~ closed' PROVE Places' /\ Flights' /\ Tellings'
  BY <1>9 DEF TellInv
<1>0. Places /\ Flights /\ Tellings
  BY DEF TellInv
<1>1. CASE \E w \in Watchers : Subscribe(w) \/ Cancel(w)
  <2>1. Places'
    BY <1>0, <1>1, PlacesKept
  <2>2. UNCHANGED <<changes, flights, told, due>>
    BY <1>1 DEF Subscribe, Cancel
  <2> QED
    BY <1>0, <2>1, <2>2, TellingsFrame
<1>2. CASE \E f \in flights : CallBack(f)
  <2>1. Flights' /\ Tellings'
    BY <1>0, <1>2, CallBackKeeps
  <2>2. UNCHANGED <<subs, place>>
    BY <1>2 DEF CallBack
  <2> QED
    BY <1>0, <2>1, <2>2 DEF Places
<1>3. CASE Notify /\ UNCHANGED <<subs, place, told>>
  BY <1>0, <1>3, NotifyKeeps
<1>4. CASE UNCHANGED <<subs, place, changes, flights, told, due>>
  <2>1. Places'
    BY <1>0, <1>4 DEF Places
  <2> QED
    BY <1>0, <1>4, <2>1, TellingsFrame
<1>5. \/ \E w \in Watchers : Subscribe(w) \/ Cancel(w)
      \/ \E f \in flights : CallBack(f)
      \/ Notify /\ UNCHANGED <<subs, place, told>>
      \/ UNCHANGED <<subs, place, changes, flights, told, due>>
  <2>1. \A on \in BOOLEAN : SetRebuilder(on) => UNCHANGED <<subs, place, changes, flights, told, due>>
    BY DEF SetRebuilder
  <2>2. \A doc : Change(doc) => Notify /\ UNCHANGED <<subs, place, told>>
    BY DEF Change
  <2>3. CreateDoc \/ UpdateDoc \/ DeleteDoc => Notify /\ UNCHANGED <<subs, place, told>>
    BY <2>2 DEF CreateDoc, UpdateDoc, DeleteDoc
  <2>4. ~ Close
    BY DEF Close
  <2>5. \A d \in Devices : RemoveDevice(d) => Notify /\ UNCHANGED <<subs, place, told>>
    BY <2>2 DEF RemoveDevice
  <2>6. \A d \in Devices, sent \in SentDevices : AddNewDevice(d, sent) \/ ReplaceDevice(d, sent) => Notify /\ UNCHANGED <<subs, place, told>>
    BY <2>2 DEF AddNewDevice, ReplaceDevice
  <2>7. \A l \in SentLinks : AddNewLink(l) => Notify /\ UNCHANGED <<subs, place, told>>
    BY <2>2 DEF AddNewLink
  <2>8. \A id \in LinkIds : RemoveLink(id) => Notify /\ UNCHANGED <<subs, place, told>>
    BY <2>2 DEF RemoveLink
  <2>9. CASE UNCHANGED managerVars
    BY <2>9 DEF managerVars
  <2>10. CASE ManagerNext
    BY <2>10, <2>1, <2>3, <2>4, <2>5, <2>6, <2>7, <2>8 DEF ManagerNext
  <2> QED
    BY <2>9, <2>10
<1> QED
  BY <1>1, <1>2, <1>3, <1>4, <1>5

\* What a subscriber has heard is counted once.
LEMMA ToldIsDue == TellInv => ToldWhatIsDue
<1> SUFFICES ASSUME TellInv, ~ closed, NEW w \in Watchers
             PROVE  LET heard == {told[w][i] : i \in DOMAIN told[w]}
                    IN /\ heard \cup Awaited(w) = due[w] /\ heard \cap Awaited(w) = {}
                       /\ Cardinality(heard) = Len(told[w])
  BY DEF ToldWhatIsDue
<1>1. PICK t \in Seq(Nat), m \in Nat : t = told[w] /\ m = Len(t)
  BY DEF TellInv, Tellings
<1>2. DOMAIN told[w] = 1..m
  BY <1>1
<1>3. PICK H : H = {told[w][i] : i \in DOMAIN told[w]}
  OBVIOUS
<1>4. H = Heard(w) /\ H = {t[i] : i \in 1..m}
  BY <1>1, <1>2, <1>3 DEF Heard
<1>5. Cardinality(H) = m
  <2>1. PICK B : B = [i \in 1..m |-> t[i]]
    OBVIOUS
  <2>2. \A i, j \in 1..m : t[i] = t[j] => i = j
    BY <1>1 DEF TellInv, Tellings
  <2>3. ExistsBijection(1..m, H)
    <3>1. B \in [1..m -> H]
      BY <1>4, <2>1
    <3>2. \A i, j \in 1..m : B[i] = B[j] => i = j
      BY <2>1, <2>2
    <3>3. \A h \in H : \E i \in 1..m : B[i] = h
      BY <1>4, <2>1
    <3>4. B \in Bijection(1..m, H)
      BY <3>1, <3>2, <3>3 DEF Bijection, Injection, Surjection, IsInjective
    <3> QED
      BY <3>4 DEF ExistsBijection
  <2> QED
    BY <2>3, FS_CountingElements
<1> QED
  BY <1>1, <1>3, <1>4, <1>5 DEF TellInv, Tellings

-----------------------------------------------------------------------------
(* A network that is numbered.                                             *)

\* What has an address is a port of a router, or the one of a host.
HostPort(e) == \E h \in HostNodes : e = HostEnd(h)

\* How many hosts a subnet has.
Count(hosts, s) == IF s \in DOMAIN hosts THEN hosts[s] ELSE 0

\* Addresses are of subnets that were given; the hosts of a subnet are counted.
AddressesInv ==
  /\ subnetSeq \in Nat /\ subnetHost \in [DOMAIN subnetHost -> Nat]
  /\ \A e \in Numbered :
       /\ e \in RouterEnds \/ HostPort(e)
       /\ address[e] = <<address[e][1], address[e][2]>>
       /\ address[e][1] \in Nat /\ address[e][1] < subnetSeq
       /\ address[e][2] \in 1..Count(subnetHost, address[e][1]) + 1
  /\ AddressesDistinct

\* A gateway is that of a host that has an address behind it.
GatewayOf(h) ==
  /\ h \in HostNodes /\ HostEnd(h) \in Numbered
  /\ \E e \in RouterEnds, i \in DOMAIN drawn.links :
       /\ Joins(drawn.links[i], HostEnd(h), e) /\ e \in Numbered
       /\ address[e] = gateway[h] /\ address[HostEnd(h)][1] = address[e][1]

\* What shares a subnet is behind one port of a router, or that port.
Behind(e, f) ==
  \E r \in RouterEnds \cap Numbered : \A g \in {e, f} \ {r} : g[1] \in DOMAIN gateway /\ gateway[g[1]] = address[r]

GatewaysInv ==
  /\ \A h \in DOMAIN gateway : GatewayOf(h)
  /\ \A e, f \in Numbered : e # f /\ address[e][1] = address[f][1] => Behind(e, f)

BuildInv ==
  /\ AddressesInv /\ GatewaysInv
  /\ stage = "idle" => address = <<>> /\ gateway = <<>>
  /\ drawn.links \in Seq(DrawnLinks)

\* The end of a host is the host's, and no end of a router is.
LEMMA EndsApart ==
  /\ \A h \in HostNodes : HostEnd(h)[1] = h
  /\ \A e \in RouterEnds : e[1] \in RouterNodes /\ e[1] \notin HostNodes
<1>1. \A h \in HostNodes : HostEnd(h)[1] = h
  BY DEF HostEnd
<1>2. ASSUME NEW e \in RouterEnds PROVE e[1] \in RouterNodes
  <2>1. PICK n \in drawn.nodes \cap RouterNodes : e \in {n} \X NodePorts[n]
    BY DEF RouterEnds, EndsOf
  <2> QED
    BY <2>1
<1> QED
  BY <1>1, <1>2, NodesAssumption

\* Where a host is next to routers, its gateway is a port of one that a link joins it to.
LEMMA UpstreamIs ==
  ASSUME NEW h, RoutersOf(h) # {}, drawn.links \in Seq(DrawnLinks)
  PROVE  Upstream(h) \in RouterEnds /\ \E i \in DOMAIN drawn.links : Joins(drawn.links[i], HostEnd(h), Upstream(h))
<1>1. PICK n \in Nat : DOMAIN drawn.links = 1..n
  OBVIOUS
<1>2. RoutersOf(h) \subseteq 1..n
  BY <1>1 DEF RoutersOf
<1>3. PICK first : first = CHOOSE i \in RoutersOf(h) : \A j \in RoutersOf(h) : i <= j
  OBVIOUS
<1>4. first \in RoutersOf(h)
  BY <1>2, <1>3, HasFirst
<1>5. \E e \in RouterEnds : Joins(drawn.links[first], HostEnd(h), e)
  BY <1>4 DEF RoutersOf
<1>6. Upstream(h) = CHOOSE e \in RouterEnds : Joins(drawn.links[first], HostEnd(h), e)
  BY <1>3 DEF Upstream
<1>7. Upstream(h) \in RouterEnds /\ Joins(drawn.links[first], HostEnd(h), Upstream(h))
  BY <1>5, <1>6
<1> QED
  BY <1>4, <1>7 DEF RoutersOf

\* An end that gets an address that no other has.
LEMMA AddressGiven ==
  ASSUME AddressesInv, NEW e, e \notin Numbered, e \in RouterEnds \/ HostPort(e), NEW s \in Nat, NEW k \in Nat \ {0},
         address' = With(address, e, <<s, k>>), drawn' = drawn,
         NEW n1 \in Nat, subnetSeq' = n1, subnetSeq <= n1, s < n1,
         NEW H1, subnetHost' = H1, H1 \in [DOMAIN H1 -> Nat],
         \A t \in Nat : Count(subnetHost, t) <= Count(H1, t), k <= Count(H1, s) + 1,
         \A f \in Numbered : address[f][1] = s => address[f][2] # k
  PROVE  /\ AddressesInv' /\ Numbered' = Numbered \cup {e} /\ address'[e] = <<s, k>>
         /\ \A f \in Numbered : address'[f] = address[f]
<1>1. Numbered' = Numbered \cup {e} /\ address'[e] = <<s, k>> /\ \A f \in Numbered : address'[f] = address[f]
  BY DEF With, Numbered
<1>2. PICK n \in Nat, H \in {subnetHost} : n = subnetSeq /\ n <= n1 /\ H = subnetHost
  BY DEF AddressesInv
<1>3. \A t \in Nat : Count(H, t) \in Nat /\ Count(H1, t) \in Nat /\ Count(H, t) <= Count(H1, t)
  BY <1>2 DEF Count, AddressesInv
<1>4. ASSUME NEW f \in Numbered \cup {e}
      PROVE  /\ f \in RouterEnds \/ HostPort(f)
             /\ address'[f] = <<address'[f][1], address'[f][2]>>
             /\ address'[f][1] \in Nat /\ address'[f][1] < n1
             /\ address'[f][2] \in 1..Count(H1, address'[f][1]) + 1
  <2>1. CASE f = e
    <3>1. PICK u \in Nat : u = Count(H1, s) /\ k <= u + 1
      BY <1>3
    <3>2. <<s, k>>[1] = s /\ <<s, k>>[2] = k /\ k \in 1..u + 1
      BY <3>1
    <3> QED
      BY <1>1, <2>1, <3>1, <3>2
  <2>2. CASE f # e
    <3>1. f \in Numbered /\ address'[f] = address[f]
      BY <1>1, <2>2
    <3>2. /\ f \in RouterEnds \/ HostPort(f)
          /\ address[f] = <<address[f][1], address[f][2]>>
          /\ address[f][1] \in Nat /\ address[f][1] < n
          /\ address[f][2] \in 1..Count(H, address[f][1]) + 1
      BY <1>2, <3>1 DEF AddressesInv
    <3>3. PICK t \in Nat : t = address[f][1]
      BY <3>2
    <3>4. PICK v \in Nat, v1 \in Nat : v = Count(H, t) /\ v1 = Count(H1, t) /\ v <= v1
      BY <1>3
    <3>5. \A x : x \in 1..v + 1 => x \in 1..v1 + 1
      BY <3>4
    <3>6. t < n1
      BY <1>2, <3>2, <3>3
    <3> QED
      BY <3>1, <3>2, <3>3, <3>4, <3>5, <3>6
  <2> QED
    BY <2>1, <2>2
<1>5. AddressesDistinct'
  <2>1. \A f, g \in Numbered : f # g => address[f] # address[g]
    BY DEF AddressesInv, AddressesDistinct
  <2>2. \A f \in Numbered : address[f] # <<s, k>>
    OBVIOUS
  <2>3. \A f, g \in Numbered \cup {e} : f # g => address'[f] # address'[g]
    BY <1>1, <2>1, <2>2
  <2> QED
    BY <1>1, <2>3 DEF AddressesDistinct
<1>6. RouterEnds' = RouterEnds /\ \A f : HostPort(f)' = HostPort(f)
  BY DEF RouterEnds, HostPort
<1> QED
  BY <1>1, <1>4, <1>5, <1>6 DEF AddressesInv

\* A gateway stays one when another end gets an address.
LEMMA GatewaysStay ==
  ASSUME drawn' = drawn, NEW e, Numbered' = Numbered \cup {e}, \A f \in Numbered : address'[f] = address[f],
         DOMAIN gateway \subseteq DOMAIN gateway', \A h \in DOMAIN gateway : gateway'[h] = gateway[h]
  PROVE  /\ \A h \in DOMAIN gateway : GatewayOf(h) => GatewayOf(h)'
         /\ \A f, g : Behind(f, g) => Behind(f, g)'
<1>1. RouterEnds' = RouterEnds
  BY DEF RouterEnds
<1>2. ASSUME NEW h \in DOMAIN gateway, GatewayOf(h) PROVE GatewayOf(h)'
  <2>1. PICK d \in RouterEnds, i \in DOMAIN drawn.links :
          /\ Joins(drawn.links[i], HostEnd(h), d) /\ d \in Numbered
          /\ address[d] = gateway[h] /\ address[HostEnd(h)][1] = address[d][1]
    BY <1>2 DEF GatewayOf
  <2>2. h \in HostNodes /\ HostEnd(h) \in Numbered
    BY <1>2 DEF GatewayOf
  <2>3. address'[d] = address[d] /\ address'[HostEnd(h)] = address[HostEnd(h)] /\ gateway'[h] = gateway[h]
    BY <2>1, <2>2
  <2>4. d \in Numbered' /\ HostEnd(h) \in Numbered'
    BY <2>1, <2>2
  <2>5. d \in RouterEnds' /\ i \in DOMAIN drawn'.links /\ Joins(drawn'.links[i], HostEnd(h), d)
    BY <1>1, <2>1
  <2> QED
    BY <2>1, <2>2, <2>3, <2>4, <2>5 DEF GatewayOf
<1>3. ASSUME NEW f, NEW g, Behind(f, g) PROVE Behind(f, g)'
  <2>1. PICK r \in RouterEnds \cap Numbered : \A x \in {f, g} \ {r} : x[1] \in DOMAIN gateway /\ gateway[x[1]] = address[r]
    BY <1>3 DEF Behind
  <2>2. r \in RouterEnds' \cap Numbered' /\ address'[r] = address[r]
    BY <1>1, <2>1
  <2>3. \A x \in {f, g} \ {r} : x[1] \in DOMAIN gateway' /\ gateway'[x[1]] = address'[r]
    BY <2>1, <2>2
  <2> QED
    BY <2>2, <2>3 DEF Behind
<1> QED
  BY <1>2, <1>3

\* Where nobody gets a gateway and the new end has a subnet for itself, gateways stay right.
LEMMA AloneKeeps ==
  ASSUME AddressesInv, GatewaysInv, drawn' = drawn, gateway' = gateway, NEW e, Numbered' = Numbered \cup {e},
         \A f \in Numbered : address'[f] = address[f], address'[e][1] = subnetSeq
  PROVE  GatewaysInv'
<1>1. /\ \A h \in DOMAIN gateway : GatewayOf(h) => GatewayOf(h)'
      /\ \A f, g : Behind(f, g) => Behind(f, g)'
  BY GatewaysStay
<1>2. \A f \in Numbered : address'[f][1] # address'[e][1]
  <2>1. \A f \in Numbered : address[f][1] \in Nat /\ address[f][1] < subnetSeq
    BY DEF AddressesInv
  <2>2. subnetSeq \in Nat
    BY DEF AddressesInv
  <2> QED
    BY <2>1, <2>2
<1>3. ASSUME NEW f \in Numbered', NEW g \in Numbered', f # g, address'[f][1] = address'[g][1] PROVE Behind(f, g)'
  <2>1. f \in Numbered /\ g \in Numbered
    BY <1>2, <1>3
  <2>2. Behind(f, g)
    BY <1>3, <2>1 DEF GatewaysInv
  <2> QED
    BY <1>1, <2>2
<1> QED
  BY <1>1, <1>3 DEF GatewaysInv

\* A port of a router gets a subnet of its own.
LEMMA NumberPortKeeps == ASSUME BuildInv, NEW e, NumberPort(e) PROVE BuildInv'
<1>1. PICK n \in Nat : n = subnetSeq
  BY DEF BuildInv, AddressesInv
<1>2. /\ stage = "numbering" /\ e \in RouterEnds /\ e \notin Numbered
      /\ address' = With(address, e, <<n, 1>>) /\ subnetSeq' = n + 1
      /\ UNCHANGED <<drawn, stage, gateway, subnetHost>>
  BY <1>1 DEF NumberPort
<1>3. \A t \in Nat : Count(subnetHost, t) \in Nat
  BY DEF BuildInv, AddressesInv, Count
<1>4. \A f \in Numbered : address[f][1] # n
  BY <1>1 DEF BuildInv, AddressesInv
<1>5. /\ AddressesInv' /\ Numbered' = Numbered \cup {e} /\ address'[e] = <<n, 1>>
      /\ \A f \in Numbered : address'[f] = address[f]
  <2>1. PICK m \in Nat, H \in {subnetHost} : m = n + 1 /\ H = subnetHost
    BY <1>1
  <2>2. n <= m /\ n < m /\ 1 <= Count(H, n) + 1 /\ \A t \in Nat : Count(H, t) <= Count(H, t)
    BY <1>1, <1>3, <2>1
  <2>3. H \in [DOMAIN H -> Nat]
    BY <2>1 DEF BuildInv, AddressesInv
  <2> QED
    BY <1>1, <1>2, <1>4, <2>1, <2>2, <2>3, AddressGiven DEF BuildInv
<1>6. GatewaysInv'
  <2>1. address'[e][1] = subnetSeq
    BY <1>1, <1>5
  <2> QED
    BY <1>2, <1>5, <2>1, AloneKeeps DEF BuildInv
<1> QED
  BY <1>2, <1>5, <1>6 DEF BuildInv

\* A host is put behind a port, or has a subnet of its own.
LEMMA NumberHostKeeps == ASSUME BuildInv, NEW h \in HostNodes, NumberHost(h) PROVE BuildInv'
<1>0. PICK n \in Nat, H \in {subnetHost} : n = subnetSeq /\ H = subnetHost /\ H \in [DOMAIN H -> Nat]
  BY DEF BuildInv, AddressesInv
<1>1. \A t \in Nat : Count(H, t) \in Nat /\ InSubnet(t) = Count(H, t)
  BY <1>0 DEF Count, InSubnet
<1>2. PICK e : e = HostEnd(h) /\ HostPort(e) /\ e[1] = h
  BY EndsApart DEF HostPort
<1>3. e \notin Numbered /\ UNCHANGED <<drawn, stage>> /\ stage = "numbering" /\ RouterEnds \subseteq Numbered
  BY <1>2 DEF NumberHost
<1>4. ASSUME NEW s \in Nat, NEW n1 \in Nat, subnetSeq' = n1, n <= n1, s < n1, Place(h, s)
      PROVE  /\ AddressesInv' /\ Numbered' = Numbered \cup {e} /\ address'[e] = <<s, Count(H, s) + 2>>
             /\ \A f \in Numbered : address'[f] = address[f]
  <2>1. PICK k \in Nat \ {0}, c \in Nat : c = Count(H, s) /\ k = c + 2
    BY <1>1
  <2>2. PICK H1 : H1 = With(H, s, c + 1)
    OBVIOUS
  <2>3. address' = With(address, e, <<s, k>>) /\ subnetHost' = H1
    BY <1>0, <1>1, <1>2, <1>4, <2>1, <2>2 DEF Place
  <2>4. DOMAIN H1 = DOMAIN H \cup {s} /\ H1[s] = c + 1 /\ \A t \in DOMAIN H : t # s => H1[t] = H[t]
    BY <2>2 DEF With
  <2>5. H1 \in [DOMAIN H1 -> Nat]
    <3>1. \A t \in DOMAIN H1 : H1[t] \in Nat
      BY <1>0, <2>1, <2>4
    <3>2. H1 = [t \in DOMAIN H1 |-> H1[t]]
      BY <2>2 DEF With
    <3> QED
      BY <3>1, <3>2
  <2>6. Count(H1, s) = c + 1 /\ \A t \in Nat : t # s => Count(H1, t) = Count(H, t)
    BY <2>4 DEF Count
  <2>7. \A t \in Nat : Count(H, t) <= Count(H1, t)
    BY <1>1, <2>1, <2>6
  <2>8. k <= Count(H1, s) + 1
    BY <2>1, <2>6
  <2>9. \A f \in Numbered : address[f][1] = s => address[f][2] # k
    <3> SUFFICES ASSUME NEW f \in Numbered, address[f][1] = s PROVE address[f][2] # k
      OBVIOUS
    <3>1. address[f][2] \in 1..c + 1
      BY <1>0, <2>1 DEF BuildInv, AddressesInv
    <3> QED
      BY <2>1, <3>1
  <2>10. /\ AddressesInv' /\ Numbered' = Numbered \cup {e} /\ address'[e] = <<s, k>>
         /\ \A f \in Numbered : address'[f] = address[f]
    <3>1. AddressesInv /\ subnetSeq <= n1
      BY <1>0, <1>4 DEF BuildInv
    <3>2. drawn' = drawn /\ e \notin Numbered /\ HostPort(e)
      BY <1>2, <1>3
    <3> QED
      BY <1>0, <1>4, <2>3, <2>5, <2>7, <2>8, <2>9, <3>1, <3>2, AddressGiven
  <2> QED
    BY <2>1, <2>10
<1>5. CASE PlaceAlone(h)
  <2>1. Place(h, n) /\ subnetSeq' = n + 1 /\ gateway' = gateway
    BY <1>0, <1>5 DEF PlaceAlone
  <2>2. /\ AddressesInv' /\ Numbered' = Numbered \cup {e} /\ address'[e] = <<n, Count(H, n) + 2>>
        /\ \A f \in Numbered : address'[f] = address[f]
    <3>1. PICK m \in Nat : m = n + 1
      OBVIOUS
    <3> QED
      BY <1>4, <2>1, <3>1
  <2>3. address'[e][1] = subnetSeq
    BY <1>0, <2>2
  <2>4. GatewaysInv'
    BY <1>3, <2>1, <2>2, <2>3, AloneKeeps DEF BuildInv
  <2> QED
    BY <1>3, <2>2, <2>4 DEF BuildInv
<1>6. CASE PlaceBehind(h)
  <2>1. PICK u \in RouterEnds, i \in DOMAIN drawn.links : u = Upstream(h) /\ Joins(drawn.links[i], e, u)
    BY <1>2, <1>6, UpstreamIs DEF PlaceBehind, BuildInv
  <2>2. u \in Numbered /\ u[1] \notin HostNodes
    BY <1>3, EndsApart
  <2>3. PICK s \in Nat : s = address[u][1] /\ s < n
    BY <1>0, <2>2 DEF BuildInv, AddressesInv
  <2>4. Place(h, s) /\ gateway' = With(gateway, h, address[u]) /\ subnetSeq' = n
    BY <1>0, <1>6, <2>1, <2>3 DEF PlaceBehind
  <2>5. /\ AddressesInv' /\ Numbered' = Numbered \cup {e} /\ address'[e] = <<s, Count(H, s) + 2>>
        /\ \A f \in Numbered : address'[f] = address[f]
    BY <1>0, <1>4, <2>3, <2>4
  <2>6. h \notin DOMAIN gateway
    BY <1>2, <1>3 DEF BuildInv, GatewaysInv, GatewayOf
  <2>7. DOMAIN gateway' = DOMAIN gateway \cup {h} /\ gateway'[h] = address[u] /\ \A g \in DOMAIN gateway : gateway'[g] = gateway[g]
    BY <2>4, <2>6 DEF With
  <2>8. /\ \A g \in DOMAIN gateway : GatewayOf(g) => GatewayOf(g)'
        /\ \A f, g : Behind(f, g) => Behind(f, g)'
    BY <1>3, <2>5, <2>7, GatewaysStay
  <2>9. RouterEnds' = RouterEnds
    BY <1>3 DEF RouterEnds
  <2>10. address'[u] = address[u] /\ address'[e][1] = s /\ address'[u][1] = s /\ gateway'[h] = address'[u]
    BY <2>2, <2>3, <2>5, <2>7
  <2>11. GatewayOf(h)'
    <3>1. u \in RouterEnds' /\ i \in DOMAIN drawn'.links /\ Joins(drawn'.links[i], e, u) /\ u \in Numbered' /\ e \in Numbered'
      BY <1>3, <2>1, <2>2, <2>5, <2>9
    <3> QED
      BY <1>2, <2>10, <3>1 DEF GatewayOf
  <2>12. ASSUME NEW f \in Numbered, address'[f][1] = s PROVE Behind(f, e)' /\ Behind(e, f)'
    <3>1. address[f][1] = address[u][1]
      BY <2>3, <2>5, <2>12
    <3>2. f # u => f[1] \in DOMAIN gateway /\ gateway[f[1]] = address[u]
      <4> SUFFICES ASSUME f # u PROVE f[1] \in DOMAIN gateway /\ gateway[f[1]] = address[u]
        OBVIOUS
      <4>1. Behind(f, u)
        BY <2>2, <3>1 DEF BuildInv, GatewaysInv
      <4>2. PICK r \in RouterEnds \cap Numbered : \A x \in {f, u} \ {r} : x[1] \in DOMAIN gateway /\ gateway[x[1]] = address[r]
        BY <4>1 DEF Behind
      <4>3. u[1] \notin DOMAIN gateway
        BY <2>2 DEF BuildInv, GatewaysInv, GatewayOf
      <4>4. r = u
        BY <4>2, <4>3
      <4> QED
        BY <4>2, <4>4
    <3>3. f # u => f[1] \in DOMAIN gateway' /\ gateway'[f[1]] = address'[u]
      BY <2>7, <2>10, <3>2
    <3>4. e[1] \in DOMAIN gateway' /\ gateway'[e[1]] = address'[u]
      BY <1>2, <2>7, <2>10
    <3>5. u \in RouterEnds' \cap Numbered'
      BY <2>2, <2>5, <2>9
    <3>6. /\ \A x \in {f, e} \ {u} : x[1] \in DOMAIN gateway' /\ gateway'[x[1]] = address'[u]
          /\ \A x \in {e, f} \ {u} : x[1] \in DOMAIN gateway' /\ gateway'[x[1]] = address'[u]
      BY <3>3, <3>4
    <3> QED
      BY <3>5, <3>6 DEF Behind
  <2>13. GatewaysInv'
    <3>1. ASSUME NEW g \in DOMAIN gateway' PROVE GatewayOf(g)'
      BY <2>7, <2>8, <2>11 DEF BuildInv, GatewaysInv
    <3>2. ASSUME NEW f \in Numbered', NEW g \in Numbered', f # g, address'[f][1] = address'[g][1] PROVE Behind(f, g)'
      <4>1. CASE f \in Numbered /\ g \in Numbered
        <5>1. Behind(f, g)
          BY <2>5, <3>2, <4>1 DEF BuildInv, GatewaysInv
        <5> QED
          BY <2>8, <5>1
      <4>2. CASE f = e
        <5>1. g \in Numbered /\ address'[g][1] = s
          BY <2>5, <2>10, <3>2, <4>2
        <5> QED
          BY <2>12, <4>2, <5>1
      <4>3. CASE g = e
        <5>1. f \in Numbered /\ address'[f][1] = s
          BY <2>5, <2>10, <3>2, <4>3
        <5> QED
          BY <2>12, <4>3, <5>1
      <4> QED
        BY <2>5, <4>1, <4>2, <4>3
    <3> QED
      BY <3>1, <3>2 DEF GatewaysInv
  <2> QED
    BY <1>3, <2>5, <2>13 DEF BuildInv
<1> QED
  BY <1>5, <1>6 DEF NumberHost

\* Where nothing is numbered, all stays as it was.
LEMMA NumbersFrame ==
  ASSUME AddressesInv, GatewaysInv, UNCHANGED <<drawn, address, gateway, subnetSeq, subnetHost>>
  PROVE  AddressesInv' /\ GatewaysInv'
<1>1. RouterEnds' = RouterEnds /\ Numbered' = Numbered
  BY DEF RouterEnds, Numbered
<1>2. AddressesInv'
  BY <1>1 DEF AddressesInv, AddressesDistinct
<1>3. \A h \in DOMAIN gateway : GatewayOf(h)'
  BY <1>1 DEF GatewaysInv, GatewayOf
<1>4. \A e, f \in Numbered : e # f /\ address[e][1] = address[f][1] => Behind(e, f)'
  BY <1>1 DEF GatewaysInv, Behind
<1>5. GatewaysInv'
  BY <1>1, <1>3, <1>4 DEF GatewaysInv
<1> QED
  BY <1>2, <1>5

\* Requests that are numbered, one after the other.
LEMMA BuildStays == BuildInv /\ [BuildNext]_buildVars => BuildInv'
<1> SUFFICES ASSUME BuildInv, [BuildNext]_buildVars PROVE BuildInv'
  OBVIOUS
<1>1. ASSUME NEW nodes \in SUBSET Nodes, NEW links \in LinkSeqs, SendDrawing(nodes, links) PROVE BuildInv'
  <2>1. address = <<>> /\ UNCHANGED <<address, gateway, subnetSeq, subnetHost>> /\ gateway = <<>> /\ stage' = "numbering"
        /\ drawn' = [nodes |-> nodes, links |-> links]
    BY <1>1 DEF SendDrawing, BuildInv
  <2>2. DOMAIN <<>> = {}
    OBVIOUS
  <2>3. links \in Seq(DrawnLinks)
    BY DEF LinkSeqs
  <2>4. AddressesInv'
    BY <2>1, <2>2 DEF BuildInv, AddressesInv, Numbered, AddressesDistinct
  <2>5. GatewaysInv'
    BY <2>1, <2>2 DEF GatewaysInv, Numbered
  <2> QED
    BY <2>1, <2>3, <2>4, <2>5 DEF BuildInv
<1>2. ASSUME NEW e, NumberPort(e) PROVE BuildInv'
  BY <1>2, NumberPortKeeps
<1>3. ASSUME NEW h \in HostNodes, NumberHost(h) PROVE BuildInv'
  BY <1>3, NumberHostKeeps
<1>4. CASE StoreDrawing
  <2>1. UNCHANGED <<drawn, address, gateway, subnetSeq, subnetHost>> /\ stage' \in {"stored", "refused"}
    BY <1>4 DEF StoreDrawing
  <2>2. AddressesInv' /\ GatewaysInv'
    BY <2>1, NumbersFrame DEF BuildInv
  <2> QED
    BY <2>1, <2>2 DEF BuildInv
<1>5. CASE AnswerDrawing
  <2>1. stage' = "idle" /\ drawn' = Blank /\ address' = <<>> /\ gateway' = <<>> /\ subnetSeq' = FirstSubnet /\ subnetHost' = <<>>
    BY <1>5 DEF AnswerDrawing
  <2>2. DOMAIN <<>> = {} /\ <<>> \in [{} -> Nat] /\ <<>> \in Seq(DrawnLinks)
    OBVIOUS
  <2>3. AddressesInv'
    BY <2>1, <2>2, SubnetsAssumption DEF AddressesInv, Numbered, AddressesDistinct
  <2>4. GatewaysInv'
    BY <2>1, <2>2 DEF GatewaysInv, Numbered
  <2> QED
    BY <2>1, <2>2, <2>3, <2>4 DEF BuildInv, Blank
<1>6. CASE UNCHANGED buildVars
  <2>1. UNCHANGED <<drawn, stage, address, gateway, subnetSeq, subnetHost>>
    BY <1>6 DEF buildVars
  <2>2. AddressesInv' /\ GatewaysInv'
    BY <2>1, NumbersFrame DEF BuildInv
  <2> QED
    BY <2>1, <2>2 DEF BuildInv
<1> QED
  BY <1>1, <1>2, <1>3, <1>4, <1>5, <1>6 DEF BuildNext

\* At first there is nothing.
LEMMA BuildBegins == BuildInit => BuildInv
<1> SUFFICES ASSUME BuildInit PROVE BuildInv
  OBVIOUS
<1>1. stage = "idle" /\ drawn = Blank /\ address = <<>> /\ gateway = <<>> /\ subnetSeq = FirstSubnet /\ subnetHost = <<>>
  BY DEF BuildInit
<1>2. DOMAIN <<>> = {} /\ <<>> \in [{} -> Nat] /\ <<>> \in Seq(DrawnLinks)
  OBVIOUS
<1>3. AddressesInv
  BY <1>1, <1>2, SubnetsAssumption DEF AddressesInv, Numbered, AddressesDistinct
<1>4. GatewaysInv
  BY <1>1, <1>2 DEF GatewaysInv, Numbered
<1> QED
  BY <1>1, <1>2, <1>3, <1>4 DEF BuildInv, Blank

\* What has a gateway is behind it.
LEMMA NumberedWell == BuildInv => AddressesDistinct /\ HostsBehindGateways
<1> SUFFICES ASSUME BuildInv PROVE AddressesDistinct /\ HostsBehindGateways
  OBVIOUS
<1>1. AddressesDistinct
  BY DEF BuildInv, AddressesInv
<1>2. ASSUME NEW h \in DOMAIN gateway
      PROVE  \E e \in RouterEnds, i \in DOMAIN drawn.links :
               /\ Joins(drawn.links[i], HostEnd(h), e)
               /\ address[e] = gateway[h] /\ address[HostEnd(h)][1] = address[e][1]
  BY DEF BuildInv, GatewaysInv, GatewayOf
<1>3. ASSUME NEW e \in Numbered, NEW f \in Numbered, e # f, address[e][1] = address[f][1]
      PROVE  \E r \in RouterEnds : \A g \in {e, f} \ {r} : g[1] \in DOMAIN gateway /\ gateway[g[1]] = address[r]
  BY <1>3 DEF BuildInv, GatewaysInv, Behind
<1> QED
  BY <1>1, <1>2, <1>3 DEF HostsBehindGateways

-----------------------------------------------------------------------------
(* The demonstration.                                                      *)

\* The link that a port is on, where it is not that of a server.
LinkOf(e) ==
  CASE e[1] = "spine" -> <<e, <<"leaf", e[3][2], <<e[3][2], e[2]>>>>>>
    [] e[1] = "leaf" /\ e[3][1] # 5 -> <<<<"spine", e[3][2], <<e[3][2], e[2]>>>>, e>>
    [] e[1] = "leaf" /\ e[3][1] = 5 -> <<e, <<"server", e[2], e[3][2] - 1>>>>
    [] e[1] = "vm" -> <<<<"server", IF e[2] = 1 THEN 1 ELSE e[2] - 1, 0>>, e>>

\* Links have ports at both ends, and a port that is not of a server is on one link.
LEMMA LinksOfPorts ==
  ASSUME NEW l \in DemoLinks
  PROVE  /\ l[1] \in DemoPorts /\ l[2] \in DemoPorts
         /\ \A e \in {l[1], l[2]} : e[1] = "server" \/ l = LinkOf(e)
<1>1. CASE l \in Underlay
  <2>1. PICK i \in Spines, k \in Leaves : l = <<<<"spine", i, <<i, k>>>>, <<"leaf", k, <<k, i>>>>>>
    BY <1>1 DEF Underlay
  <2>2. k # 5
    BY DEF Leaves
  <2>3. PICK e, f : e = <<"spine", i, <<i, k>>>> /\ f = <<"leaf", k, <<k, i>>>>
    OBVIOUS
  <2>4. /\ e[1] = "spine" /\ e[2] = i /\ e[3] = <<i, k>> /\ e[3][1] = i /\ e[3][2] = k
        /\ f[1] = "leaf" /\ f[2] = k /\ f[3] = <<k, i>> /\ f[3][1] = k /\ f[3][2] = i
    BY <2>3
  <2>5. LinkOf(e) = <<e, <<"leaf", k, <<k, i>>>>>>
    BY <2>4 DEF LinkOf
  <2>6. LinkOf(f) = <<<<"spine", i, <<i, k>>>>, f>>
    BY <2>2, <2>4 DEF LinkOf
  <2>7. e \in DOMAIN FabricPorts /\ f \in DOMAIN LeafPorts
    BY <2>3 DEF FabricPorts, LeafPorts
  <2>8. l = <<e, f>> /\ l[1] = e /\ l[2] = f
    BY <2>1, <2>3
  <2> QED
    BY <2>3, <2>5, <2>6, <2>7, <2>8 DEF DemoPorts
<1>2. CASE l \in Access
  <2>1. PICK s \in ServerPorts : l = <<AccessPort(s.at[2], s.vlan), s.at>>
    BY <1>2 DEF Access
  <2>2. \E k \in Leaves, v \in {10, 20}, n \in {0, 1} :
          l = <<AccessPort(k, v), <<"server", k, n>>>> /\ s.at = <<"server", k, n>> /\ v \div 10 = n + 1
    <3>1. 10 \div 10 = 0 + 1 /\ 20 \div 10 = 1 + 1
      OBVIOUS
    <3>2. CASE s = [at |-> <<"server", 1, 0>>, ip |-> <<10, 0, 10, 100>>, vlan |-> 10]
      BY <2>1, <3>1, <3>2 DEF Leaves
    <3>3. CASE s = [at |-> <<"server", 1, 1>>, ip |-> <<10, 0, 20, 100>>, vlan |-> 20]
      BY <2>1, <3>1, <3>3 DEF Leaves
    <3>4. CASE s = [at |-> <<"server", 2, 0>>, ip |-> <<10, 0, 10, 200>>, vlan |-> 10]
      BY <2>1, <3>1, <3>4 DEF Leaves
    <3>5. CASE s = [at |-> <<"server", 3, 0>>, ip |-> <<10, 0, 10, 30>>, vlan |-> 10]
      BY <2>1, <3>1, <3>5 DEF Leaves
    <3> QED
      BY <3>2, <3>3, <3>4, <3>5 DEF ServerPorts
  <2>3. PICK k \in Leaves, v \in {10, 20}, n \in {0, 1} :
          l = <<AccessPort(k, v), <<"server", k, n>>>> /\ s.at = <<"server", k, n>> /\ v \div 10 = n + 1
    BY <2>2
  <2>4. PICK e, f : e = AccessPort(k, v) /\ f = <<"server", k, n>> /\ l = <<e, f>>
    BY <2>3
  <2>5. e[1] = "leaf" /\ e[2] = k /\ e[3] = <<5, n + 1>> /\ e[3][1] = 5 /\ e[3][2] = n + 1 /\ f[1] = "server"
    BY <2>3, <2>4 DEF AccessPort
  <2>6. n + 1 - 1 = n
    OBVIOUS
  <2>7. LinkOf(e) = <<e, f>>
    BY <2>4, <2>5, <2>6 DEF LinkOf
  <2>8. e \in AccessPorts /\ \E t \in ServerPorts : f = t.at
    BY <2>3, <2>4 DEF AccessPorts
  <2>9. l[1] = e /\ l[2] = f
    BY <2>4
  <2> QED
    BY <2>4, <2>5, <2>7, <2>8, <2>9 DEF DemoPorts
<1>3. CASE l \in Virtual
  <2>1. PICK m \in Machines : l = <<<<"server", m.on, 0>>, m.at>>
    BY <1>3 DEF Virtual
  <2>2. \E n \in 1..4 : m.at = <<"vm", n, 0>> /\ m.on = (IF n = 1 THEN 1 ELSE n - 1)
    BY DEF Machines
  <2>3. PICK n \in 1..4 : m.at = <<"vm", n, 0>> /\ m.on = (IF n = 1 THEN 1 ELSE n - 1)
    BY <2>2
  <2>4. PICK e, f : e = <<"server", m.on, 0>> /\ f = <<"vm", n, 0>> /\ l = <<e, f>>
    BY <2>1, <2>3
  <2>5. f[1] = "vm" /\ f[2] = n /\ e[1] = "server"
    BY <2>4
  <2>6. LinkOf(f) = <<e, f>>
    BY <2>3, <2>4, <2>5 DEF LinkOf
  <2>7. \E t \in ServerPorts : e = t.at
    <3>1. m.on = 1 \/ m.on = 2 \/ m.on = 3
      BY <2>3
    <3>2. \A k \in {1, 2, 3} : \E t \in ServerPorts : t.at = <<"server", k, 0>>
      BY DEF ServerPorts
    <3> QED
      BY <2>4, <3>1, <3>2
  <2>8. l[1] = e /\ l[2] = f
    BY <2>4
  <2> QED
    BY <2>3, <2>4, <2>5, <2>6, <2>7, <2>8 DEF DemoPorts
<1> QED
  BY <1>1, <1>2, <1>3 DEF DemoLinks

\* The address that two have, and who has any other.
Shared == <<10, 0, 10, 30>>
HolderOf(ip) ==
  CASE ip[1] = 100 -> <<<<"spine", ip[4]>>, "loopback">>
    [] ip[1] = 1 -> <<<<"leaf", 1>>, "loopback">>
    [] ip[1] = 2 -> <<<<"leaf", ip[4]>>, "loopback">>
    [] ip[1] = 10 /\ ip[2] # 0 /\ ip[4] = 2 -> <<"spine", ip[3], <<ip[3], ip[2]>>>>
    [] ip[1] = 10 /\ ip[2] # 0 /\ ip[4] = 1 -> <<"leaf", ip[2], <<ip[2], ip[3]>>>>
    [] ip[1] = 10 /\ ip[2] = 0 /\ ip[4] < 10 -> <<"leaf", ip[4], <<ip[3]>>>>
    [] ip[1] = 10 /\ ip[2] = 0 /\ ip[4] = 100 -> <<"server", 1, IF ip[3] = 10 THEN 0 ELSE 1>>
    [] ip[1] = 10 /\ ip[2] = 0 /\ ip[4] = 200 -> <<"server", 2, 0>>
    [] ip[1] = 10 /\ ip[2] = 0 /\ ip[4] = 10 -> <<"vm", 1, 0>>
    [] ip[1] = 10 /\ ip[2] = 0 /\ ip[4] = 20 -> <<"vm", 2, 0>>
    [] ip[1] = 10 /\ ip[2] = 0 /\ ip[4] = 40 -> <<"vm", 4, 0>>

HeldRight(e, ip) ==
  IF ip = Shared THEN e \in {<<"server", 3, 0>>, <<"vm", 3, 0>>} ELSE e = HolderOf(ip)

\* Whoever has an address holds it.
LEMMA HoldersOfAddresses == ASSUME NEW a \in AllAddresses PROVE a = <<a[1], a[2]>> /\ HeldRight(a[1], a[2])
<1>1. CASE \E e \in DOMAIN FabricPorts : a = <<e, FabricPorts[e]>>
  <2>1. PICK e \in DOMAIN FabricPorts : a = <<e, FabricPorts[e]>>
    BY <1>1
  <2>2. PICK i \in Spines, k \in Leaves : e = <<"spine", i, <<i, k>>>>
    BY DEF FabricPorts
  <2>3. e[2] = i /\ e[3] = <<i, k>> /\ e[3][2] = k
    BY <2>2
  <2>4. FabricPorts[e] = <<10, k, i, 2>>
    BY <2>3 DEF FabricPorts
  <2>5. PICK ip : ip = <<10, k, i, 2>>
    OBVIOUS
  <2>6. ip[1] = 10 /\ ip[2] = k /\ ip[3] = i /\ ip[4] = 2 /\ k # 0 /\ ip # Shared
    BY <2>5 DEF Leaves, Shared
  <2>7. HolderOf(ip) = e
    BY <2>2, <2>6 DEF HolderOf
  <2> QED
    BY <2>1, <2>4, <2>5, <2>6, <2>7 DEF HeldRight
<1>2. CASE \E e \in DOMAIN LeafPorts : a = <<e, LeafPorts[e]>>
  <2>1. PICK e \in DOMAIN LeafPorts : a = <<e, LeafPorts[e]>>
    BY <1>2
  <2>2. PICK k \in Leaves, i \in Spines : e = <<"leaf", k, <<k, i>>>>
    BY DEF LeafPorts
  <2>3. e[2] = k /\ e[3] = <<k, i>> /\ e[3][2] = i
    BY <2>2
  <2>4. LeafPorts[e] = <<10, k, i, 1>>
    BY <2>3 DEF LeafPorts
  <2>5. PICK ip : ip = <<10, k, i, 1>>
    OBVIOUS
  <2>6. ip[1] = 10 /\ ip[2] = k /\ ip[3] = i /\ ip[4] = 1 /\ k # 0 /\ ip # Shared
    BY <2>5 DEF Leaves, Shared
  <2>7. HolderOf(ip) = e
    BY <2>2, <2>6 DEF HolderOf
  <2> QED
    BY <2>1, <2>4, <2>5, <2>6, <2>7 DEF HeldRight
<1>3. CASE \E e \in DOMAIN LeafVlans : a = <<e, LeafVlans[e]>>
  <2>1. PICK e \in DOMAIN LeafVlans : a = <<e, LeafVlans[e]>>
    BY <1>3
  <2>2. PICK k \in Leaves, v \in {10, 20} : e = <<"leaf", k, <<v>>>>
    BY DEF LeafVlans
  <2>3. e[2] = k /\ e[3] = <<v>> /\ e[3][1] = v
    BY <2>2
  <2>4. LeafVlans[e] = <<10, 0, v, k>>
    BY <2>3 DEF LeafVlans
  <2>5. PICK ip : ip = <<10, 0, v, k>>
    OBVIOUS
  <2>6. ip[1] = 10 /\ ip[2] = 0 /\ ip[3] = v /\ ip[4] = k /\ k < 10 /\ ip # Shared
    BY <2>5 DEF Leaves, Shared
  <2>7. HolderOf(ip) = e
    BY <2>2, <2>6 DEF HolderOf
  <2> QED
    BY <2>1, <2>4, <2>5, <2>6, <2>7 DEF HeldRight
<1>4. CASE \E e \in DOMAIN Loopbacks : a = <<e, Loopbacks[e]>>
  <2>1. PICK e \in DOMAIN Loopbacks : a = <<e, Loopbacks[e]>>
    BY <1>4
  <2>2. CASE \E i \in Spines : e = <<<<"spine", i>>, "loopback">>
    <3>1. PICK i \in Spines : e = <<<<"spine", i>>, "loopback">>
      BY <2>2
    <3>2. e[1] = <<"spine", i>> /\ e[1][1] = "spine" /\ e[1][2] = i
      BY <3>1
    <3>3. Loopbacks[e] = <<100, 1, i + 1, i>>
      BY <3>2 DEF Loopbacks
    <3>4. PICK ip : ip = <<100, 1, i + 1, i>>
      OBVIOUS
    <3>5. ip[1] = 100 /\ ip[4] = i /\ ip # Shared
      BY <3>4 DEF Shared
    <3>6. HolderOf(ip) = e
      BY <3>1, <3>5 DEF HolderOf
    <3> QED
      BY <2>1, <3>3, <3>4, <3>5, <3>6 DEF HeldRight
  <2>3. CASE \E k \in Leaves : e = <<<<"leaf", k>>, "loopback">>
    <3>1. PICK k \in Leaves : e = <<<<"leaf", k>>, "loopback">>
      BY <2>3
    <3>2. e[1] = <<"leaf", k>> /\ e[1][1] = "leaf" /\ e[1][1] # "spine" /\ e[1][2] = k
      BY <3>1
    <3>3. Loopbacks[e] = <<<<1, 1, 1, 1>>, <<2, 2, 2, 2>>, <<2, 2, 2, 3>>>>[k]
      BY <3>2 DEF Loopbacks
    <3>4. PICK ip : ip = Loopbacks[e]
      OBVIOUS
    <3>5. k = 1 \/ k = 2 \/ k = 3
      BY DEF Leaves
    <3>6. IF k = 1 THEN ip = <<1, 1, 1, 1>> ELSE ip = <<2, 2, 2, k>>
      BY <3>3, <3>4, <3>5
    <3>7. IF k = 1 THEN ip[1] = 1 ELSE ip[1] = 2 /\ ip[4] = k
      BY <3>6
    <3>8. ip # Shared
      BY <3>6 DEF Shared
    <3>9. HolderOf(ip) = e
      BY <3>1, <3>7 DEF HolderOf
    <3> QED
      BY <2>1, <3>4, <3>8, <3>9 DEF HeldRight
  <2> QED
    BY <2>2, <2>3 DEF Loopbacks
<1>5. CASE \E s \in ServerPorts : a = <<s.at, s.ip>>
  <2>1. \E s \in ServerPorts : a = <<s.at, s.ip>>
    BY <1>5
  <2>2. \/ a = <<<<"server", 1, 0>>, <<10, 0, 10, 100>>>> \/ a = <<<<"server", 1, 1>>, <<10, 0, 20, 100>>>>
        \/ a = <<<<"server", 2, 0>>, <<10, 0, 10, 200>>>> \/ a = <<<<"server", 3, 0>>, Shared>>
    BY <2>1 DEF ServerPorts, Shared
  <2>3. /\ HeldRight(<<"server", 1, 0>>, <<10, 0, 10, 100>>) /\ HeldRight(<<"server", 1, 1>>, <<10, 0, 20, 100>>)
        /\ HeldRight(<<"server", 2, 0>>, <<10, 0, 10, 200>>) /\ HeldRight(<<"server", 3, 0>>, Shared)
    BY DEF HeldRight, HolderOf, Shared
  <2> QED
    BY <2>2, <2>3
<1>6. CASE \E m \in Machines : a = <<m.at, m.ip>>
  <2>1. \E m \in Machines : a = <<m.at, m.ip>>
    BY <1>6
  <2>2. \/ a = <<<<"vm", 1, 0>>, <<10, 0, 10, 10>>>> \/ a = <<<<"vm", 2, 0>>, <<10, 0, 20, 20>>>>
        \/ a = <<<<"vm", 3, 0>>, Shared>> \/ a = <<<<"vm", 4, 0>>, <<10, 0, 10, 40>>>>
    BY <2>1 DEF Machines, Shared
  <2>3. /\ HeldRight(<<"vm", 1, 0>>, <<10, 0, 10, 10>>) /\ HeldRight(<<"vm", 2, 0>>, <<10, 0, 20, 20>>)
        /\ HeldRight(<<"vm", 3, 0>>, Shared) /\ HeldRight(<<"vm", 4, 0>>, <<10, 0, 10, 40>>)
    BY DEF HeldRight, HolderOf, Shared
  <2> QED
    BY <2>2, <2>3
<1> QED
  BY <1>1, <1>2, <1>3, <1>4, <1>5, <1>6 DEF AllAddresses

\* The demonstration is wired as it should be, but for the one address.
LEMMA DemoIsSound == DemoSound
<1>1. \A l \in DemoLinks : l[1] \in DemoPorts /\ l[2] \in DemoPorts
  BY LinksOfPorts
<1>2. \A l, m \in DemoLinks : l # m => \A e \in {l[1], l[2]} \cap {m[1], m[2]} : e[1] = "server"
  <2> SUFFICES ASSUME NEW l \in DemoLinks, NEW m \in DemoLinks, l # m, NEW e \in {l[1], l[2]} \cap {m[1], m[2]}
               PROVE  e[1] = "server"
    OBVIOUS
  <2>1. e[1] = "server" \/ (l = LinkOf(e) /\ m = LinkOf(e))
    BY LinksOfPorts
  <2> QED
    BY <2>1
<1>3. ASSUME NEW l \in Underlay PROVE Subnet(AddressOf(l[1])) = Subnet(AddressOf(l[2]))
  <2>1. PICK i \in Spines, k \in Leaves : l = <<<<"spine", i, <<i, k>>>>, <<"leaf", k, <<k, i>>>>>>
    BY DEF Underlay
  <2>2. PICK e, f : e = <<"spine", i, <<i, k>>>> /\ f = <<"leaf", k, <<k, i>>>> /\ l = <<e, f>>
    BY <2>1
  <2>3. /\ e[1] = "spine" /\ e[2] = i /\ e[3] = <<i, k>> /\ e[3][1] = i /\ e[3][2] = k
        /\ f[1] = "leaf" /\ f[2] = k /\ f[3] = <<k, i>> /\ f[3][1] = k /\ f[3][2] = i
    BY <2>2
  <2>4. e \in DOMAIN FabricPorts /\ FabricPorts[e] = <<10, k, i, 2>>
    BY <2>2, <2>3 DEF FabricPorts
  <2>5. f \in DOMAIN LeafPorts /\ LeafPorts[f] = <<10, k, i, 1>>
    BY <2>2, <2>3 DEF LeafPorts
  <2>6. f \notin DOMAIN FabricPorts
    BY <2>3 DEF FabricPorts
  <2>7. AddressOf(e) = <<10, k, i, 2>> /\ AddressOf(f) = <<10, k, i, 1>>
    BY <2>4, <2>5, <2>6 DEF AddressOf
  <2>8. Subnet(AddressOf(e)) = <<10, k, i>> /\ Subnet(AddressOf(f)) = <<10, k, i>>
    BY <2>7 DEF Subnet
  <2>9. l[1] = e /\ l[2] = f
    BY <2>2
  <2> QED
    BY <2>8, <2>9
<1>4. ASSUME NEW m \in Machines
      PROVE  \E l \in Access : /\ l[1][1] = "leaf" /\ l[2][2] = m.on
                               /\ LeafVlans[<<"leaf", l[1][2], <<m.vlan>>>>] = m.gw
  <2>1. \A k \in Leaves : \E l \in Access : l[1][1] = "leaf" /\ l[1][2] = k /\ l[2][2] = k
    <3>1. \A k \in Leaves : \E s \in ServerPorts : s.at = <<"server", k, 0>> /\ s.at[2] = k
      BY DEF Leaves, ServerPorts
    <3> SUFFICES ASSUME NEW k \in Leaves PROVE \E l \in Access : l[1][1] = "leaf" /\ l[1][2] = k /\ l[2][2] = k
      OBVIOUS
    <3>2. PICK s \in ServerPorts : s.at[2] = k
      BY <3>1
    <3>3. PICK l \in Access : l = <<AccessPort(k, s.vlan), s.at>>
      BY <3>2 DEF Access
    <3>4. l[1] = AccessPort(k, s.vlan) /\ l[2] = s.at
      BY <3>3
    <3>5. l[1][1] = "leaf" /\ l[1][2] = k
      BY <3>4 DEF AccessPort
    <3> QED
      BY <3>2, <3>4, <3>5
  <2>2. \A k \in Leaves, v \in {10, 20} : LeafVlans[<<"leaf", k, <<v>>>>] = <<10, 0, v, k>>
    <3> SUFFICES ASSUME NEW k \in Leaves, NEW v \in {10, 20} PROVE LeafVlans[<<"leaf", k, <<v>>>>] = <<10, 0, v, k>>
      OBVIOUS
    <3>1. PICK e : e = <<"leaf", k, <<v>>>>
      OBVIOUS
    <3>2. e[2] = k /\ e[3] = <<v>> /\ e[3][1] = v
      BY <3>1
    <3>3. e \in {"leaf"} \X Leaves \X {<<10>>, <<20>>}
      BY <3>1
    <3>4. LeafVlans[e] = <<10, 0, v, k>>
      BY <3>2, <3>3 DEF LeafVlans
    <3> QED
      BY <3>1, <3>4
  <2>3. m.on \in Leaves /\ m.vlan \in {10, 20} /\ m.gw = <<10, 0, m.vlan, m.on>>
    BY DEF Machines, Leaves
  <2>4. PICK l \in Access : l[1][1] = "leaf" /\ l[1][2] = m.on /\ l[2][2] = m.on
    BY <2>1, <2>3
  <2>5. LeafVlans[<<"leaf", m.on, <<m.vlan>>>>] = m.gw
    BY <2>2, <2>3
  <2> QED
    BY <2>4, <2>5
<1>5. ASSUME NEW a \in AllAddresses, NEW b \in AllAddresses, a[2] = b[2], a # b
      PROVE  {a[1], b[1]} = {<<"server", 3, 0>>, <<"vm", 3, 0>>}
  <2>1. a = <<a[1], a[2]>> /\ b = <<b[1], b[2]>> /\ HeldRight(a[1], a[2]) /\ HeldRight(b[1], a[2])
    BY <1>5, HoldersOfAddresses
  <2>2. a[1] # b[1]
    BY <1>5, <2>1
  <2> QED
    BY <2>1, <2>2 DEF HeldRight
<1> QED
  BY <1>1, <1>2, <1>3, <1>4, <1>5 DEF DemoSound

-----------------------------------------------------------------------------
(* What the server keeps in memory and what it makes.                      *)

\* The manager's document has no dangling and no shared link, the rebuilder is given it,
\* subscribers are told of every change that is due to them, once and nobody else (manager.go),
\* and what the server numbers or wires itself is numbered and wired right
\* (createTopologySimple, CreateVXLANTopology).
THEOREM TopologiesStaySound == TopologiesSpec => []TopologiesSound
<1> DEFINE Inv == KeptInv /\ TellInv /\ BuildInv
<1>1. ManagerInit /\ BuildInit => Inv
  <2> SUFFICES ASSUME ManagerInit, BuildInit PROVE Inv
    OBVIOUS
  <2>1. KeptInv
    BY DEF ManagerInit, KeptInv
  <2>2. Places
    BY DEF ManagerInit, Places
  <2>3. Flights
    BY DEF ManagerInit, Flights
  <2>4. Tellings
    <3>1. told = [w \in Watchers |-> <<>>] /\ due = [w \in Watchers |-> {}] /\ flights = {}
      BY DEF ManagerInit
    <3>2. told \in [Watchers -> Seq(Nat)] /\ due \in [Watchers -> SUBSET (1..changes)]
      BY <3>1
    <3>3. \A w \in Watchers : told[w] = <<>> /\ due[w] = {} /\ 1..Len(told[w]) = {}
      BY <3>1
    <3>4. \A w \in Watchers : Heard(w) = {} /\ Awaited(w) = {}
      BY <3>1, <3>3 DEF Heard, Awaited
    <3> QED
      BY <3>2, <3>3, <3>4 DEF Tellings
  <2>5. TellInv
    BY <2>2, <2>3, <2>4 DEF TellInv
  <2>6. BuildInv
    BY BuildBegins
  <2> QED
    BY <2>1, <2>5, <2>6
<1>2. Inv /\ [\/ ManagerNext /\ UNCHANGED buildVars
              \/ BuildNext /\ UNCHANGED managerVars]_<<managerVars, buildVars>> => Inv'
  <2> SUFFICES ASSUME Inv, [ManagerNext]_managerVars, [BuildNext]_buildVars PROVE Inv'
    OBVIOUS
  <2> QED
    BY KeptStays, TellingStays, BuildStays
<1>3. Inv => TopologiesSound
  <2> SUFFICES ASSUME Inv PROVE TopologiesSound
    OBVIOUS
  <2>1. DocSound /\ RebuilderFollows
    BY DEF KeptInv, DocSound, RebuilderFollows, Good
  <2>2. ToldWhatIsDue /\ AddressesDistinct /\ HostsBehindGateways /\ DemoSound
    BY ToldIsDue, NumberedWell, DemoIsSound
  <2> QED
    BY <2>1, <2>2 DEF TopologiesSound, ManagerSound, BuildSound
<1> QED
  BY <1>1, <1>2, <1>3, PTL DEF TopologiesSpec
=============================================================================
