---------------------------- MODULE CliStateProofs ----------------------------
(***************************************************************************)
(* The sessions of a device agree with its document and no answered edit   *)
(* is lost, for any number of topologies, requests, sessions and edits.    *)
(*                                                                         *)
(* The argument: whoever uses a session that nobody has outdated uses the  *)
(* cached one, the lock lets one command at a time change it, and the      *)
(* document only gets what it has, so that a session is never behind the   *)
(* document.  A copy is as the document in every part that nobody has      *)
(* stored since it was taken, so that storing it changes nothing but what  *)
(* its handler is about.  Everything else is one of the named clashes.     *)
(***************************************************************************)
EXTENDS CliState, TLAPS

\* What a request does fits the step it has reached.
KindsFit ==
  \A r \in Requests :
    /\ pc[r] \in {"wait", "save"} => kind[r] \in Locked
    /\ pc[r] \in {"drop", "delete"} => kind[r] = "write"
    /\ pc[r] = "edit" => kind[r] = "write"
    /\ pc[r] \in {"get", "insert", "use"} => kind[r] # "write"

\* A device that is there has the defaults in every part.
Full(c) == \A p \in Parts : 0 \in c[p]

Filled ==
  /\ \A t \in Topos : stored[t] = Absent \/ Full(stored[t])
  /\ \A o \in Objects : Full(conf[o])
  /\ \A r \in Requests : /\ snap[r] = Absent \/ Full(snap[r])
                         /\ HasCopy(r) /\ kind[r] = "ip" => snap[r] # Absent

\* A session that is not cached yet is in one request's hands.
BuiltAlone ==
  \A r \in Requests : pc[r] = "insert" =>
    /\ obj[r] # cached /\ home[obj[r]] = topo[r]
    /\ \A q \in Requests \ {r} : obj[q] # obj[r]

\* A copy is as the document in the parts that nobody has stored since, but for the
\* address that setIPConfig has put into its own.
CopyLatest ==
  \A r \in Requests :
    /\ ~ HasCopy(r) => stale[r] = {}
    /\ HasCopy(r) => \A p \in Parts \ stale[r] :
         /\ stored[topo[r]][p] \subseteq snap[r][p]
         /\ p = "data" \/ kind[r] # "ip" \/ pc[r] # "save" => stored[topo[r]][p] = snap[r][p]

\* Whoever uses a session that is not out of date uses the cached one.
UsesCached ==
  \A r \in Requests : pc[r] \in {"use", "save"} /\ obj[r] \notin aged /\ clash # Parts =>
    obj[r] = cached /\ home[cached] = topo[r]

\* A session that is to be cached is as stored.
BuiltAsStored ==
  \A r \in Requests : pc[r] = "insert" /\ cached = None /\ obj[r] \notin aged =>
    \A p \in Parts \ clash : stored[topo[r]] = Absent \/ stored[topo[r]][p] = conf[obj[r]][p]

BuiltPorts ==
  \A r \in Requests : pc[r] = "insert" /\ cached = None /\ obj[r] \notin aged /\ clash = {} =>
    conf[obj[r]]["ports"] \subseteq stored[topo[r]]["ports"] \cup conf[obj[r]]["data"]

\* What a command saves of its copy nobody has stored since.
SavesFresh ==
  \A r \in Requests : pc[r] = "save" /\ obj[r] \notin aged =>
    \A p \in Parts \ clash :
      /\ kind[r] = "cli" => p \notin stale[r]
      /\ p = "ports" /\ p \notin stale[r] => snap[r][p] \subseteq conf[obj[r]][p]

\* The cached session, while it is not out of date, and the device it was built from.
CacheAgrees ==
  cached # None /\ cached \notin aged =>
    LET device == stored[home[cached]]
        session == conf[cached]
    IN /\ device # Absent =>
            /\ "data" \notin clash => device["data"] \subseteq session["data"]
            /\ "data" \notin clash /\ (\A r \in Requests : pc[r] = "save" => obj[r] # cached)
                 => session["data"] \subseteq device["data"]
            /\ "ports" \notin clash => device["ports"] \subseteq session["ports"]
       /\ clash = {} => session["ports"] \subseteq device["ports"] \cup session["data"]

\* A cached session that is out of date will be dropped, or has no device.
AgedIsDropped ==
  cached # None /\ cached \in aged /\ clash # Parts =>
    (\E r \in Requests : pc[r] = "drop") \/ stored[home[cached]] = Absent

AckedStored == \A t \in Topos, p \in Parts \ clash : acked[t][p] \subseteq stored[t][p]

Basics == TypeOK /\ KindsFit /\ Filled /\ BuiltAlone /\ CopyLatest

Cope == /\ UsesCached /\ BuiltAsStored /\ BuiltPorts /\ SavesFresh
        /\ CacheAgrees /\ AgedIsDropped /\ AckedStored

IInv == Basics /\ Cope

\* What configurations are made of.
LEMMA Configurations ==
  /\ Absent \in Configs /\ Default \in Configs
  /\ \A c, d \in Configs : Both(c, d) \in Configs
  /\ \A c \in Configs, e \in SUBSET (0..MaxEdits) : [c EXCEPT !["data"] = e] \in Configs
BY EditsAssumption DEF Absent, Default, Configs, Both, Parts

\* An edit keeps what was there, and gives what it says.
LEMMA Editing ==
  ASSUME NEW parts \in SUBSET Parts, NewEdit(parts), TypeOK
  PROVE /\ edits' \in 0..MaxEdits
        /\ \A c \in Configs : /\ Edited(c, parts) \in Configs
                              /\ \A p \in Parts : c[p] \subseteq Edited(c, parts)[p]
                              /\ \A p \in Parts \ parts : Edited(c, parts)[p] = c[p]
                              /\ \A p \in parts : Edited(c, parts)[p] = c[p] \cup {edits + 1}
<1>1. CASE parts = {}
  <2>1. edits' = edits
    BY <1>1 DEF NewEdit
  <2>2. \A c \in Configs : Edited(c, parts) = c
    BY <1>1 DEF Edited, Configs
  <2> QED
    BY <1>1, <2>1, <2>2 DEF TypeOK
<1>2. CASE parts # {}
  <2>1. edits' = edits + 1 /\ edits + 1 \in 0..MaxEdits
    BY <1>2, EditsAssumption DEF NewEdit, TypeOK
  <2> QED
    BY <2>1 DEF Edited, Configs
<1> QED
  BY <1>1, <1>2

\* What is recorded has the type of it, and is what was given while anything is claimed.
LEMMA Recording ==
  ASSUME NEW a \in [Topos -> Configs], Records(a)
  PROVE  acked' \in [Topos -> Configs] /\ (clash' # Parts => acked' = a)
BY Configurations DEF Records

\* Every step keeps the types,
LEMMA TypeKept ==
  ASSUME Basics, [Next]_vars PROVE TypeOK'
<1>1. ASSUME NEW r \in Requests, NEW t \in Topos, Begin(r, t) PROVE TypeOK'
  <2>1. PICK k \in Locked, copy \in Configs : Starts(r, k, t, copy, "wait")
    BY <1>1, Configurations DEF Begin, Locked, Basics, TypeOK
  <2> QED
    BY <1>1, <2>1 DEF Begin, Starts, cache, history, Basics, TypeOK, PC
<1>2. ASSUME NEW r \in Requests, NEW t \in Topos, Peek(r, t) PROVE TypeOK'
  BY <1>2 DEF Peek, Starts, cache, request, history, Basics, TypeOK, Configs, Absent, Locked,
     PC
<1>3. ASSUME NEW r \in Requests, NEW t \in Topos, Read(r, t) PROVE TypeOK'
  BY <1>3 DEF Read, Starts, cache, history, Basics, TypeOK, PC
<1>4. ASSUME NEW r \in Requests, Lock(r) PROVE TypeOK'
  BY <1>4, NonesAssumption DEF Lock, request, history, Basics, TypeOK, KindsFit, PC
<1>5. ASSUME NEW r \in Requests, Hit(r) PROVE TypeOK'
  <2>1. acked' \in [Topos -> Configs]
    BY <1>5, Recording DEF Hit, Basics, TypeOK
  <2> QED
    BY <1>5, <2>1 DEF Hit, AllIf, cache, Basics, TypeOK, PC
<1>6. ASSUME NEW r \in Requests, Miss(r) PROVE TypeOK'
  BY <1>6, EditsAssumption DEF Miss, Basics, TypeOK, Configs, Default, PC
<1>7. ASSUME NEW r \in Requests, Insert(r) PROVE TypeOK'
  <2>1. acked' \in [Topos -> Configs]
    BY <1>7, Recording DEF Insert, Basics, TypeOK
  <2> QED
    BY <1>7, <2>1 DEF Insert, AllIf, Basics, TypeOK, PC
<1>8. ASSUME NEW r \in Requests, Leave(r) PROVE TypeOK'
  BY <1>8, NonesAssumption, EditsAssumption DEF Leave, Ends, Forgets, cache, request, history,
     Basics, TypeOK, Configs, Absent, Default, PC
<1>9. ASSUME NEW r \in Requests, RunCommand(r) PROVE TypeOK'
  BY <1>9, EditsAssumption DEF RunCommand, NewEdit, Edited, Basics, TypeOK, Configs, PC
<1>10. ASSUME NEW r \in Requests, RunIPConfig(r) PROVE TypeOK'
  BY <1>10, EditsAssumption DEF RunIPConfig, NewEdit, Edited, history, Basics, TypeOK, Configs,
     PC
<1>11. ASSUME NEW r \in Requests, Save(r) PROVE TypeOK'
  <2>1. obj[r] \in Objects /\ snap[r] \in Configs /\ conf[obj[r]] \in Configs /\ topo[r] \in Topos
    BY <1>11 DEF Save, Basics, TypeOK
  <2> DEFINE c == [snap[r] EXCEPT !["data"] = conf[obj[r]]["data"]]
  <2>2. conf[obj[r]]["data"] \in SUBSET (0..MaxEdits)
    BY <2>1 DEF Configs, Parts
  <2>3. c \in Configs /\ Both(acked[topo[r]], c) \in Configs
    BY <2>1, <2>2, Configurations DEF Basics, TypeOK
  <2>4. Stores(r, c) /\ Records([acked EXCEPT ![topo[r]] = Both(acked[topo[r]], c)]) /\ Ends(r)
    BY <1>11 DEF Save
  <2>5. UNCHANGED <<edits, cached, home, aged>> /\ clash' \subseteq Parts /\ pc[r] = "save"
    BY <1>11 DEF Save, AllIf, Basics, TypeOK
  <2> HIDE DEF c
  <2>6. stored' \in [Topos -> Configs] /\ acked' \in [Topos -> Configs]
    BY <2>3, <2>4, Recording DEF Stores, Basics, TypeOK
  <2>7. snap' \in [Requests -> Configs] /\ stale' \in [Requests -> SUBSET Parts]
    BY <2>4, Configurations DEF Stores, Basics, TypeOK
  <2>8. conf' \in [Objects -> Configs]
    BY <2>4, Configurations DEF Ends, Basics, TypeOK
  <2>9. Ends(r)
    BY <2>4
  <2> QED
    BY <2>5, <2>6, <2>7, <2>8, <2>9, NonesAssumption DEF Ends, Basics, TypeOK, PC
<1>12. ASSUME NEW r \in Requests, NotSaved(r) PROVE TypeOK'
  <2>1. acked' \in [Topos -> Configs]
    BY <1>12, Recording DEF NotSaved, Basics, TypeOK
  <2> QED
    BY <1>12, <2>1, NonesAssumption, EditsAssumption DEF NotSaved, Ends, Forgets, AllIf, cache,
       request, history, Basics, TypeOK, Configs, Absent, Default, PC
<1>13. ASSUME NEW r \in Requests, PutBack(r) PROVE TypeOK'
  <2>1. stored' \in [Topos -> Configs] /\ snap' \in [Requests -> Configs] /\ clash' \subseteq Parts
    BY <1>13, Configurations DEF PutBack, Stores, Forgets, Basics, TypeOK
  <2>2. stale' \in [Requests -> SUBSET Parts]
    <3>1. CASE Stores(r, snap[r])
      BY <3>1 DEF Stores, Basics, TypeOK
    <3>2. CASE Forgets(r)
      BY <3>2 DEF Forgets, Basics, TypeOK
    <3> QED
      BY <1>13, <3>1, <3>2 DEF PutBack
  <2>3. conf' \in [Objects -> Configs]
    BY <1>13, Configurations DEF PutBack, Ends, Basics, TypeOK
  <2>4. Ends(r) /\ pc[r] = "edit" /\ UNCHANGED <<edits, cached, home, aged>>
    BY <1>13 DEF PutBack
  <2>5. acked' \in [Topos -> Configs]
    BY <1>13, Recording DEF PutBack, Basics, TypeOK
  <2> QED
    BY <2>1, <2>2, <2>3, <2>4, <2>5 DEF Ends, Basics, TypeOK, PC
<1>14. ASSUME NEW r \in Requests, Update(r) PROVE TypeOK'
  <2>1. ChangesDevice(r) /\ pc' = [pc EXCEPT ![r] = "drop"] /\ UNCHANGED <<cache, kind, topo, obj, home>>
    BY <1>14 DEF Update
  <2>2. PICK c \in Configs, d \in Configs :
          /\ Stores(r, c) /\ Records([acked EXCEPT ![topo[r]] = d])
          /\ edits' \in 0..MaxEdits /\ clash' \subseteq Parts
    <3>1. snap[r] \in Configs /\ acked[topo[r]] \in Configs /\ stale[r] \subseteq Parts
      BY DEF Basics, TypeOK
    <3>2. CASE NewDevice(r) /\ UNCHANGED clash
      BY <3>2, Configurations DEF NewDevice, Basics, TypeOK
    <3>3. ASSUME NEW parts \in {{}, {"data"}, {"ports"}}, NewEdit(parts), Stores(r, Edited(snap[r], parts)),
                 Records([acked EXCEPT ![topo[r]] = Edited(acked[topo[r]], parts)]), clash' = clash \cup stale[r]
          PROVE \E c \in Configs, d \in Configs :
                  /\ Stores(r, c) /\ Records([acked EXCEPT ![topo[r]] = d])
                  /\ edits' \in 0..MaxEdits /\ clash' \subseteq Parts
      <4>1. parts \in SUBSET Parts
        BY DEF Parts
      <4>2. edits' \in 0..MaxEdits /\ Edited(snap[r], parts) \in Configs /\ Edited(acked[topo[r]], parts) \in Configs
        BY <3>1, <3>3, <4>1, Editing DEF Basics
      <4> QED
        BY <3>1, <3>3, <4>2 DEF Basics, TypeOK
    <3> QED
      BY <2>1, <3>2, <3>3 DEF ChangesDevice
  <2>3. stored' \in [Topos -> Configs] /\ acked' \in [Topos -> Configs]
    BY <2>2, Recording DEF Stores, Basics, TypeOK
  <2>4. snap' \in [Requests -> Configs] /\ stale' \in [Requests -> SUBSET Parts]
    BY <2>2, Configurations DEF Stores, Basics, TypeOK
  <2>5. aged' \subseteq Objects /\ pc[r] = "edit" /\ kind[r] = "write"
    BY <2>1 DEF ChangesDevice, Outdates, InUse, Basics, TypeOK, KindsFit
  <2> QED
    BY <2>1, <2>2, <2>3, <2>4, <2>5 DEF cache, Basics, TypeOK, PC
<1>15. ASSUME NEW r \in Requests, UpdateFails(r) PROVE TypeOK'
  <2>1. acked' \in [Topos -> Configs]
    BY <1>15, Configurations, Recording DEF UpdateFails, NewDevice, Basics, TypeOK
  <2>2. stored' \in [Topos -> Configs] /\ snap' \in [Requests -> Configs] /\ stale' \in [Requests -> SUBSET Parts]
    BY <1>15, Configurations DEF UpdateFails, NewDevice, Stores, Basics, TypeOK
  <2>3. clash' \subseteq Parts /\ aged' \subseteq Objects /\ edits' = edits
    BY <1>15 DEF UpdateFails, NewDevice, AllIf, Outdates, InUse, Basics, TypeOK
  <2>4. conf' \in [Objects -> Configs]
    BY <1>15, Configurations DEF UpdateFails, Ends, Basics, TypeOK
  <2>5. Ends(r) /\ pc[r] = "edit" /\ UNCHANGED <<cached, home>>
    BY <1>15 DEF UpdateFails
  <2> QED
    BY <2>1, <2>2, <2>3, <2>4, <2>5 DEF Ends, Basics, TypeOK, PC
<1>16. ASSUME NEW r \in Requests, Remove(r) PROVE TypeOK'
  BY <1>16 DEF Remove, Removes, Stores, Outdates, InUse, cache, request, history, Basics,
     TypeOK, Configs, Absent, PC
<1>17. ASSUME NEW r \in Requests, Add(r) PROVE TypeOK'
  <2>1. acked' \in [Topos -> Configs]
    BY <1>17, Configurations, Recording DEF Add, NewDevice, Basics, TypeOK
  <2>2. stored' \in [Topos -> Configs] /\ snap' \in [Requests -> Configs] /\ stale' \in [Requests -> SUBSET Parts]
    BY <1>17, Configurations DEF Add, NewDevice, Stores, Basics, TypeOK
  <2>3. clash' \subseteq Parts /\ aged' \subseteq Objects /\ edits' = edits
    BY <1>17 DEF Add, NewDevice, AllIf, Outdates, InUse, Basics, TypeOK
  <2>4. conf' \in [Objects -> Configs]
    BY <1>17, Configurations DEF Add, Ends, Basics, TypeOK
  <2>5. Ends(r) /\ pc[r] = "edit" /\ UNCHANGED <<cached, home>>
    BY <1>17 DEF Add
  <2> QED
    BY <2>1, <2>2, <2>3, <2>4, <2>5 DEF Ends, Basics, TypeOK, PC
<1>18. ASSUME NEW r \in Requests, Drop(r) PROVE TypeOK'
  <2>1. clash' \subseteq Parts /\ acked' \in [Topos -> Configs] /\ aged' \subseteq Objects
    BY <1>18 DEF Drop, Uncaches, InUse, Basics, TypeOK
  <2>2. snap' \in [Requests -> Configs] /\ stale' \in [Requests -> SUBSET Parts] /\ conf' \in [Objects -> Configs]
    BY <1>18, Configurations DEF Drop, Forgets, Ends, Basics, TypeOK
  <2>3. Ends(r) /\ pc[r] = "drop" /\ cached' = None /\ UNCHANGED <<stored, edits, home>>
    BY <1>18 DEF Drop, Uncaches
  <2> QED
    BY <2>1, <2>2, <2>3 DEF Ends, Basics, TypeOK, PC
<1>19. ASSUME NEW r \in Requests, DropFirst(r) PROVE TypeOK'
  BY <1>19 DEF DropFirst, Uncaches, InUse, Forgets, Basics, TypeOK, Configs, Absent, PC
<1>20. ASSUME NEW r \in Requests, DeleteTopology(r) PROVE TypeOK'
  BY <1>20, EditsAssumption DEF DeleteTopology, Removes, Stores, Outdates, InUse, Ends, cache,
     request, history, Basics, TypeOK, Configs, Absent, Default, PC, KindsFit
<1>21. CASE UNCHANGED vars
  BY <1>21 DEF vars, cache, request, history, Basics, TypeOK
<1> QED
  BY <1>1, <1>2, <1>3, <1>4, <1>5, <1>6, <1>7, <1>8, <1>9, <1>10, <1>11, <1>12, <1>13, <1>14,
     <1>15, <1>16, <1>17, <1>18, <1>19, <1>20, <1>21 DEF Next, Session, Write

\* ... what a request does where,
LEMMA KindsKept ==
  ASSUME Basics, [Next]_vars PROVE KindsFit'
<1>1. ASSUME NEW r \in Requests, NEW t \in Topos, Begin(r, t) PROVE KindsFit'
  BY <1>1 DEF Begin, Starts, Basics, TypeOK, KindsFit, Locked
<1>2. ASSUME NEW r \in Requests, NEW t \in Topos, Peek(r, t) PROVE KindsFit'
  BY <1>2 DEF Peek, Starts, Basics, TypeOK, KindsFit
<1>3. ASSUME NEW r \in Requests, NEW t \in Topos, Read(r, t) PROVE KindsFit'
  BY <1>3 DEF Read, Starts, Basics, TypeOK, KindsFit
<1>4. ASSUME NEW r \in Requests, Lock(r) PROVE KindsFit'
  BY <1>4 DEF Lock, cache, request, Basics, KindsFit, Locked
<1>5. ASSUME NEW r \in Requests, Hit(r) PROVE KindsFit'
  BY <1>5 DEF Hit, Basics, KindsFit
<1>6. ASSUME NEW r \in Requests, Miss(r) PROVE KindsFit'
  BY <1>6 DEF Miss, cache, request, history, Basics, KindsFit
<1>7. ASSUME NEW r \in Requests, Insert(r) PROVE KindsFit'
  BY <1>7 DEF Insert, Basics, KindsFit
<1>8. ASSUME NEW r \in Requests, Leave(r) PROVE KindsFit'
  BY <1>8 DEF Leave, Ends, Basics, KindsFit
<1>9. ASSUME NEW r \in Requests, RunCommand(r) PROVE KindsFit'
  BY <1>9 DEF RunCommand, Basics, TypeOK, KindsFit
<1>10. ASSUME NEW r \in Requests, RunIPConfig(r) PROVE KindsFit'
  BY <1>10 DEF RunIPConfig, Basics, TypeOK, KindsFit
<1>11. ASSUME NEW r \in Requests, Save(r) PROVE KindsFit'
  BY <1>11 DEF Save, Ends, Basics, TypeOK, KindsFit
<1>12. ASSUME NEW r \in Requests, NotSaved(r) PROVE KindsFit'
  BY <1>12 DEF NotSaved, Ends, Basics, TypeOK, KindsFit
<1>13. ASSUME NEW r \in Requests, PutBack(r) PROVE KindsFit'
  BY <1>13 DEF PutBack, Ends, Basics, TypeOK, KindsFit
<1>14. ASSUME NEW r \in Requests, Update(r) PROVE KindsFit'
  BY <1>14 DEF Update, ChangesDevice, Basics, KindsFit
<1>15. ASSUME NEW r \in Requests, UpdateFails(r) PROVE KindsFit'
  BY <1>15 DEF UpdateFails, Ends, Basics, TypeOK, KindsFit
<1>16. ASSUME NEW r \in Requests, Remove(r) PROVE KindsFit'
  BY <1>16 DEF Remove, Basics, KindsFit
<1>17. ASSUME NEW r \in Requests, Add(r) PROVE KindsFit'
  BY <1>17 DEF Add, Ends, Basics, TypeOK, KindsFit
<1>18. ASSUME NEW r \in Requests, Drop(r) PROVE KindsFit'
  BY <1>18 DEF Drop, Ends, Basics, TypeOK, KindsFit
<1>19. ASSUME NEW r \in Requests, DropFirst(r) PROVE KindsFit'
  BY <1>19 DEF DropFirst, Basics, KindsFit
<1>20. ASSUME NEW r \in Requests, DeleteTopology(r) PROVE KindsFit'
  BY <1>20 DEF DeleteTopology, Ends, Basics, TypeOK, KindsFit
<1>21. CASE UNCHANGED vars
  BY <1>21 DEF vars, request, Basics, KindsFit
<1> QED
  BY <1>1, <1>2, <1>3, <1>4, <1>5, <1>6, <1>7, <1>8, <1>9, <1>10, <1>11, <1>12, <1>13, <1>14,
     <1>15, <1>16, <1>17, <1>18, <1>19, <1>20, <1>21 DEF Next, Session, Write

\* The configuration that stands for no device has nothing.
LEMMA Fills == Full(Default) /\ ~ Full(Absent) /\ Absent # Default
BY DEF Full, Default, Absent, Parts

\* ... that a device that is there has the defaults,
LEMMA FilledKept ==
  ASSUME Basics, [Next]_vars PROVE Filled'
<1>1. ASSUME NEW r \in Requests, NEW t \in Topos, Begin(r, t) PROVE Filled'
  <2>0. PICK k \in Locked, copy \in {Absent, stored[t]} : Starts(r, k, t, copy, "wait") /\ (k = "ip" => copy # Absent)
    BY <1>1 DEF Begin, Locked
  <2>1. \A u \in Topos : stored'[u] = Absent \/ Full(stored'[u])
    BY <1>1 DEF Begin, Basics, Filled
  <2>2. \A o \in Objects : Full(conf'[o])
    BY <1>1 DEF Begin, cache, Basics, Filled
  <2>3. \A q \in Requests : snap'[q] = Absent \/ Full(snap'[q])
    BY <2>0 DEF Starts, Basics, TypeOK, Filled
  <2>4. \A q \in Requests : HasCopy(q)' /\ kind'[q] = "ip" => snap'[q] # Absent
    BY <2>0 DEF Starts, HasCopy, Basics, TypeOK, Filled
  <2> QED
    BY <2>1, <2>2, <2>3, <2>4 DEF Filled
<1>2. ASSUME NEW r \in Requests, NEW t \in Topos, Peek(r, t) PROVE Filled'
  BY <1>2 DEF Peek, Starts, cache, Basics, TypeOK, Filled, HasCopy
<1>3. ASSUME NEW r \in Requests, NEW t \in Topos, Read(r, t) PROVE Filled'
  <2>0. Starts(r, "write", t, stored[t], "edit")
    BY <1>3 DEF Read
  <2>1. \A u \in Topos : stored'[u] = Absent \/ Full(stored'[u])
    BY <1>3 DEF Read, Basics, Filled
  <2>2. \A o \in Objects : Full(conf'[o])
    BY <1>3 DEF Read, cache, Basics, Filled
  <2>3. \A q \in Requests : snap'[q] = Absent \/ Full(snap'[q])
    BY <2>0 DEF Starts, Basics, TypeOK, Filled
  <2>4. \A q \in Requests : HasCopy(q)' /\ kind'[q] = "ip" => snap'[q] # Absent
    BY <2>0 DEF Starts, HasCopy, Basics, TypeOK, Filled
  <2> QED
    BY <2>1, <2>2, <2>3, <2>4 DEF Filled
<1>4. ASSUME NEW r \in Requests, Lock(r) PROVE Filled'
  BY <1>4 DEF Lock, request, Basics, Filled, HasCopy
<1>5. ASSUME NEW r \in Requests, Hit(r) PROVE Filled'
  BY <1>5 DEF Hit, cache, Basics, Filled, HasCopy
<1>6. ASSUME NEW r \in Requests, Miss(r) PROVE Filled'
  <2>1. \A u \in Topos : stored'[u] = Absent \/ Full(stored'[u])
    BY <1>6 DEF Miss, cache, request, history, Basics, Filled
  <2>2. \A o \in Objects : Full(conf'[o])
    BY <1>6, Fills DEF Miss, cache, request, history, Basics, TypeOK, Filled
  <2>3. \A q \in Requests : snap'[q] = Absent \/ Full(snap'[q])
    BY <1>6 DEF Miss, cache, request, history, Basics, Filled
  <2>4. \A q \in Requests : HasCopy(q)' /\ kind'[q] = "ip" => snap'[q] # Absent
    BY <1>6 DEF Miss, Basics, Filled, HasCopy
  <2> QED
    BY <2>1, <2>2, <2>3, <2>4 DEF Filled
<1>7. ASSUME NEW r \in Requests, Insert(r) PROVE Filled'
  BY <1>7 DEF Insert, Basics, Filled, HasCopy
<1>8. ASSUME NEW r \in Requests, Leave(r) PROVE Filled'
  BY <1>8 DEF Leave, Ends, Forgets, Basics, TypeOK, Filled, Full, HasCopy, Default
<1>9. ASSUME NEW r \in Requests, RunCommand(r) PROVE Filled'
  <2>0. PICK parts \in SUBSET Parts : NewEdit(parts) /\ conf' = [conf EXCEPT ![obj[r]] = Edited(conf[obj[r]], parts)]
    BY <1>9 DEF RunCommand, Given, Parts
  <2>5. obj[r] \in Objects /\ conf[obj[r]] \in Configs
    BY <1>9 DEF RunCommand, Basics, TypeOK
  <2>1. \A u \in Topos : stored'[u] = Absent \/ Full(stored'[u])
    BY <1>9 DEF RunCommand, Basics, Filled
  <2>2. \A o \in Objects : Full(conf'[o])
    BY <2>0, <2>5, Editing DEF Full, Basics, Filled
  <2>3. \A q \in Requests : snap'[q] = Absent \/ Full(snap'[q])
    BY <1>9 DEF RunCommand, Basics, TypeOK, Filled
  <2>4. \A q \in Requests : HasCopy(q)' /\ kind'[q] = "ip" => snap'[q] # Absent
    BY <1>9 DEF RunCommand, HasCopy, Basics, Filled
  <2> QED
    BY <2>1, <2>2, <2>3, <2>4 DEF Filled
<1>10. ASSUME NEW r \in Requests, RunIPConfig(r) PROVE Filled'
  <2>0. PICK parts \in SUBSET Parts :
          /\ NewEdit(parts) /\ conf' = [conf EXCEPT ![obj[r]] = Edited(conf[obj[r]], parts)]
          /\ snap' = [snap EXCEPT ![r] = Edited(snap[r], parts \ {"data"})]
    BY <1>10 DEF RunIPConfig, Given, Parts
  <2>5. obj[r] \in Objects /\ conf[obj[r]] \in Configs
    BY <1>10 DEF RunIPConfig, Basics, TypeOK
  <2>6. Full(snap[r])
    BY <1>10 DEF RunIPConfig, HasCopy, Basics, Filled
  <2>7. Full(Edited(snap[r], parts \ {"data"}))
    BY <2>6 DEF Full, Edited
  <2>1. \A u \in Topos : stored'[u] = Absent \/ Full(stored'[u])
    BY <1>10 DEF RunIPConfig, Basics, Filled
  <2>2. \A o \in Objects : Full(conf'[o])
    BY <2>0, <2>5, Editing DEF Full, Basics, Filled
  <2>3. \A q \in Requests : snap'[q] = Absent \/ Full(snap'[q])
    BY <2>0, <2>7 DEF Basics, TypeOK, Filled
  <2>4. \A q \in Requests : HasCopy(q)' /\ kind'[q] = "ip" => snap'[q] # Absent
    BY <1>10, <2>0, <2>7, Fills DEF RunIPConfig, HasCopy, Basics, Filled
  <2> QED
    BY <2>1, <2>2, <2>3, <2>4 DEF Filled
<1>11. ASSUME NEW r \in Requests, Save(r) PROVE Filled'
  BY <1>11 DEF Save, Stores, Ends, AllIf, Both, cache, request, history, Basics, TypeOK,
     Filled, Full, HasCopy, KindsFit, Configs, Default
<1>12. ASSUME NEW r \in Requests, NotSaved(r) PROVE Filled'
  BY <1>12 DEF NotSaved, Ends, Forgets, Basics, TypeOK, Filled, Full, HasCopy, Default
<1>13. ASSUME NEW r \in Requests, PutBack(r) PROVE Filled'
  <2>1. \A u \in Topos : stored'[u] = Absent \/ Full(stored'[u])
    BY <1>13 DEF PutBack, Stores, Basics, TypeOK, Filled
  <2>2. \A o \in Objects : Full(conf'[o])
    BY <1>13, Fills DEF PutBack, Ends, Basics, Filled
  <2>3. \A q \in Requests : snap'[q] = Absent \/ Full(snap'[q])
    BY <1>13 DEF PutBack, Stores, Forgets, Basics, TypeOK, Filled
  <2>4. \A q \in Requests : HasCopy(q)' /\ kind'[q] = "ip" => snap'[q] # Absent
    BY <1>13 DEF PutBack, Stores, Forgets, Ends, Basics, TypeOK, Filled, HasCopy
  <2> QED
    BY <2>1, <2>2, <2>3, <2>4 DEF Filled
<1>14. ASSUME NEW r \in Requests, Update(r) PROVE Filled'
  <2>5. kind[r] = "write" /\ kind' = kind
    BY <1>14 DEF Update, ChangesDevice, Basics, KindsFit
  <2>0. PICK c \in Configs : Stores(r, c) /\ Full(c)
    <3>1. CASE NewDevice(r)
      BY <3>1, Configurations, Fills DEF NewDevice
    <3>2. ASSUME NEW parts \in {{}, {"data"}, {"ports"}}, snap[r] # Absent, NewEdit(parts), Stores(r, Edited(snap[r], parts))
          PROVE \E c \in Configs : Stores(r, c) /\ Full(c)
      <4>1. parts \in SUBSET Parts /\ snap[r] \in Configs /\ Full(snap[r])
        BY <3>2 DEF Parts, Basics, TypeOK, Filled
      <4>2. Edited(snap[r], parts) \in Configs
        BY <3>2, <4>1, Editing DEF Basics
      <4>3. Full(Edited(snap[r], parts))
        BY <4>1 DEF Full, Edited
      <4> QED
        BY <3>2, <4>2, <4>3
    <3> QED
      BY <1>14, <3>1, <3>2 DEF Update, ChangesDevice
  <2>1. \A u \in Topos : stored'[u] = Absent \/ Full(stored'[u])
    BY <2>0 DEF Stores, Basics, TypeOK, Filled
  <2>2. \A o \in Objects : Full(conf'[o])
    BY <1>14 DEF Update, cache, Basics, Filled
  <2>3. \A q \in Requests : snap'[q] = Absent \/ Full(snap'[q])
    BY <2>0 DEF Stores, Basics, TypeOK, Filled
  <2>4. \A q \in Requests : HasCopy(q)' /\ kind'[q] = "ip" => snap'[q] # Absent
    BY <1>14, <2>0, <2>5 DEF Update, HasCopy, Stores, Basics, Filled
  <2> QED
    BY <2>1, <2>2, <2>3, <2>4 DEF Filled
<1>15. ASSUME NEW r \in Requests, UpdateFails(r) PROVE Filled'
  BY <1>15 DEF UpdateFails, NewDevice, Stores, Ends, Basics, Filled, Full, HasCopy, Default, KindsFit
<1>16. ASSUME NEW r \in Requests, Remove(r) PROVE Filled'
  BY <1>16 DEF Remove, Removes, Stores, cache, Basics, Filled, HasCopy, KindsFit
<1>17. ASSUME NEW r \in Requests, Add(r) PROVE Filled'
  BY <1>17 DEF Add, NewDevice, Stores, Ends, Basics, TypeOK, Filled, Full, HasCopy, Default
<1>18. ASSUME NEW r \in Requests, Drop(r) PROVE Filled'
  BY <1>18 DEF Drop, Ends, Forgets, Basics, Filled, Full, HasCopy, KindsFit, Parts, Default
<1>19. ASSUME NEW r \in Requests, DropFirst(r) PROVE Filled'
  BY <1>19 DEF DropFirst, Forgets, Basics, Filled, HasCopy, KindsFit
<1>20. ASSUME NEW r \in Requests, DeleteTopology(r) PROVE Filled'
  BY <1>20 DEF DeleteTopology, Removes, Stores, Ends, Basics, Filled, Full, HasCopy, KindsFit,
     Default
<1>21. CASE UNCHANGED vars
  BY <1>21 DEF vars, cache, request, Basics, Filled, HasCopy
<1> QED
  BY <1>1, <1>2, <1>3, <1>4, <1>5, <1>6, <1>7, <1>8, <1>9, <1>10, <1>11, <1>12, <1>13, <1>14,
     <1>15, <1>16, <1>17, <1>18, <1>19, <1>20, <1>21 DEF Next, Session, Write

\* ... that a session that is not cached is in one request's hands,
LEMMA BuiltAloneKept ==
  ASSUME Basics, [Next]_vars PROVE BuiltAlone'
<1>1. ASSUME NEW r \in Requests, NEW t \in Topos, Begin(r, t) PROVE BuiltAlone'
  BY <1>1 DEF Begin, Starts, cache, request, history, Basics, TypeOK, BuiltAlone
<1>2. ASSUME NEW r \in Requests, NEW t \in Topos, Peek(r, t) PROVE BuiltAlone'
  BY <1>2 DEF Peek, Starts, cache, request, history, Basics, BuiltAlone
<1>3. ASSUME NEW r \in Requests, NEW t \in Topos, Read(r, t) PROVE BuiltAlone'
  BY <1>3 DEF Read, Starts, cache, history, Basics, BuiltAlone
<1>4. ASSUME NEW r \in Requests, Lock(r) PROVE BuiltAlone'
  BY <1>4 DEF Lock, request, history, Basics, BuiltAlone
<1>5. ASSUME NEW r \in Requests, Hit(r) PROVE BuiltAlone'
  BY <1>5 DEF Hit, cache, Basics, BuiltAlone
<1>6. ASSUME NEW r \in Requests, Miss(r) PROVE BuiltAlone'
  BY <1>6, NonesAssumption DEF Miss, cache, request, history, Basics, TypeOK, BuiltAlone
<1>7. ASSUME NEW r \in Requests, Insert(r) PROVE BuiltAlone'
  BY <1>7 DEF Insert, Basics, TypeOK, BuiltAlone
<1>8. ASSUME NEW r \in Requests, Leave(r) PROVE BuiltAlone'
  BY <1>8, NonesAssumption DEF Leave, Ends, Basics, TypeOK, BuiltAlone
<1>9. ASSUME NEW r \in Requests, RunCommand(r) PROVE BuiltAlone'
  BY <1>9 DEF RunCommand, Basics, BuiltAlone
<1>10. ASSUME NEW r \in Requests, RunIPConfig(r) PROVE BuiltAlone'
  BY <1>10 DEF RunIPConfig, history, Basics, BuiltAlone
<1>11. ASSUME NEW r \in Requests, Save(r) PROVE BuiltAlone'
  BY <1>11, NonesAssumption DEF Save, Ends, Basics, TypeOK, BuiltAlone
<1>12. ASSUME NEW r \in Requests, NotSaved(r) PROVE BuiltAlone'
  BY <1>12, NonesAssumption DEF NotSaved, Ends, Basics, TypeOK, BuiltAlone
<1>13. ASSUME NEW r \in Requests, PutBack(r) PROVE BuiltAlone'
  BY <1>13, NonesAssumption DEF PutBack, Ends, Basics, TypeOK, BuiltAlone
<1>14. ASSUME NEW r \in Requests, Update(r) PROVE BuiltAlone'
  BY <1>14 DEF Update, cache, Basics, BuiltAlone
<1>15. ASSUME NEW r \in Requests, UpdateFails(r) PROVE BuiltAlone'
  BY <1>15, NonesAssumption DEF UpdateFails, Ends, Basics, TypeOK, BuiltAlone
<1>16. ASSUME NEW r \in Requests, Remove(r) PROVE BuiltAlone'
  BY <1>16 DEF Remove, cache, Basics, BuiltAlone
<1>17. ASSUME NEW r \in Requests, Add(r) PROVE BuiltAlone'
  BY <1>17, NonesAssumption DEF Add, Ends, Basics, TypeOK, BuiltAlone
<1>18. ASSUME NEW r \in Requests, Drop(r) PROVE BuiltAlone'
  BY <1>18, NonesAssumption DEF Drop, Uncaches, Ends, Basics, TypeOK, BuiltAlone
<1>19. ASSUME NEW r \in Requests, DropFirst(r) PROVE BuiltAlone'
  BY <1>19, NonesAssumption DEF DropFirst, Uncaches, Basics, TypeOK, BuiltAlone
<1>20. ASSUME NEW r \in Requests, DeleteTopology(r) PROVE BuiltAlone'
  BY <1>20, NonesAssumption DEF DeleteTopology, Ends, Basics, TypeOK, BuiltAlone
<1>21. CASE UNCHANGED vars
  BY <1>21 DEF vars, cache, request, history, Basics, BuiltAlone
<1> QED
  BY <1>1, <1>2, <1>3, <1>4, <1>5, <1>6, <1>7, <1>8, <1>9, <1>10, <1>11, <1>12, <1>13, <1>14,
     <1>15, <1>16, <1>17, <1>18, <1>19, <1>20, <1>21 DEF Next, Session, Write

\* What a request does by itself: the others go on with what they had.
Others(r) ==
  \A q \in Requests \ {r} :
    /\ pc'[q] = pc[q] /\ obj'[q] = obj[q] /\ kind'[q] = kind[q] /\ topo'[q] = topo[q]
    /\ obj[q] \in Objects => conf'[obj[q]] = conf[obj[q]]

SessionKept == cached' \in Objects => conf'[cached'] = conf[cached']

\* A request begins, or gets the lock.
Waits(r) ==
  /\ UNCHANGED <<stored, cached, conf, obj, history>>
  /\ pc[r] \in {"idle", "wait"} /\ pc'[r] \in {"wait", "get", "edit"}
  /\ Others(r) /\ \A q \in Requests \ {r} : snap'[q] = snap[q]

\* A command changes its session.
Runs(r) ==
  /\ pc[r] = "use" /\ pc'[r] = "save" /\ UNCHANGED <<stored, cached, kind, topo, obj, home, acked, aged, clash>>
  /\ \A q \in Requests \ {r} : pc'[q] = pc[q] /\ snap'[q] = snap[q] /\ stale'[q] = stale[q]
  /\ \E parts \in Given : /\ NewEdit(parts)
                          /\ conf' = [conf EXCEPT ![obj[r]] = Edited(conf[obj[r]], parts)]
  /\ RunCommand(r) \/ RunIPConfig(r)

\* A REST handler stores a device that is its own.
Replaces(r) ==
  /\ \E c, d \in Configs :
       /\ Stores(r, c) /\ (clash' # Parts => acked' = [acked EXCEPT ![topo[r]] = d])
       /\ \A p \in Parts \ clash' : acked[topo[r]][p] \subseteq stored[topo[r]][p] => d[p] \subseteq c[p]
  /\ pc'[r] = "idle" => clash' = Parts \/ cached = None \/ stored'[topo[r]] = Absent
  /\ Outdates(topo[r])
  /\ UNCHANGED <<cached, home, topo>> /\ clash \subseteq clash'
  /\ pc[r] \in {"edit", "delete"} /\ pc'[r] \in {"idle", "drop"}
  /\ Others(r) /\ SessionKept

\* The end of a request leaves every other one what it had.
LEMMA Ending ==
  ASSUME TypeOK, NEW r \in Requests, Ends(r)
  PROVE  Others(r) /\ SessionKept /\ pc'[r] = "idle" /\ topo' = topo
BY DEF Ends, Others, SessionKept, TypeOK

\* The beginnings, as one.
LEMMA Waiting ==
  ASSUME Basics, NEW r \in Requests, Lock(r) \/ \E t \in Topos : Begin(r, t) \/ Peek(r, t) \/ Read(r, t)
  PROVE  Waits(r)
<1>1. CASE Lock(r)
  BY <1>1 DEF Lock, Waits, Others, request
<1>2. ASSUME NEW t \in Topos, Begin(r, t) PROVE Waits(r)
  BY <1>2 DEF Begin, Starts, Waits, Others, cache, Basics, TypeOK
<1>3. ASSUME NEW t \in Topos, Peek(r, t) PROVE Waits(r)
  BY <1>3 DEF Peek, Starts, Waits, Others, cache, Basics, TypeOK
<1>4. ASSUME NEW t \in Topos, Read(r, t) PROVE Waits(r)
  <2>1. Starts(r, "write", t, stored[t], "edit")
    BY <1>4 DEF Read
  <2> QED
    BY <1>4 DEF Read, Starts, Waits, Others, cache, Basics, TypeOK
<1> QED
  BY <1>1, <1>2, <1>3, <1>4

\* The two commands, as one.
LEMMA Running ==
  ASSUME Basics, NEW r \in Requests, RunCommand(r) \/ RunIPConfig(r) PROVE Runs(r)
BY DEF RunCommand, RunIPConfig, Runs, history, Basics, TypeOK

\* The REST handlers that store a device of their own, as one.
LEMMA Replacing ==
  ASSUME Basics, NEW r \in Requests, Update(r) \/ UpdateFails(r) \/ Remove(r) \/ Add(r) \/ DeleteTopology(r)
  PROVE  Replaces(r)
<1> DEFINE Has(c, d) ==
             /\ Stores(r, c) /\ (clash' # Parts => acked' = [acked EXCEPT ![topo[r]] = d])
             /\ \A p \in Parts \ clash' : acked[topo[r]][p] \subseteq stored[topo[r]][p] => d[p] \subseteq c[p]
<1>1. CASE Update(r)
  <2>1. ChangesDevice(r) /\ pc' = [pc EXCEPT ![r] = "drop"] /\ UNCHANGED <<cache, kind, topo, obj, home>>
    BY <1>1 DEF Update
  <2>2. (\E c, d \in Configs : Has(c, d)) /\ clash \subseteq clash'
    <3>1. CASE NewDevice(r) /\ UNCHANGED clash
      <4>1. Has(Default, Default)
        BY <3>1, Configurations, Recording DEF NewDevice, Basics, TypeOK
      <4> HIDE DEF Has
      <4> QED
        BY <3>1, <4>1, Configurations
    <3>2. ASSUME NEW parts \in {{}, {"data"}, {"ports"}}, NewEdit(parts), Stores(r, Edited(snap[r], parts)),
                 Records([acked EXCEPT ![topo[r]] = Edited(acked[topo[r]], parts)]), clash' = clash \cup stale[r]
          PROVE (\E c, d \in Configs : Has(c, d)) /\ clash \subseteq clash'
      <4>1. parts \in SUBSET Parts /\ snap[r] \in Configs /\ acked[topo[r]] \in Configs
        BY DEF Parts, Basics, TypeOK
      <4>2. Edited(snap[r], parts) \in Configs /\ Edited(acked[topo[r]], parts) \in Configs
        BY <3>2, <4>1, Editing DEF Basics
      <4>3. HasCopy(r) /\ kind[r] # "ip"
        BY <2>1 DEF ChangesDevice, HasCopy, Basics, KindsFit
      <4>4. \A p \in Parts \ clash' : stored[topo[r]][p] = snap[r][p]
        BY <3>2, <4>3 DEF CopyLatest, Basics
      <4>5. \A p \in Parts \ clash' : acked[topo[r]][p] \subseteq stored[topo[r]][p] =>
              Edited(acked[topo[r]], parts)[p] \subseteq Edited(snap[r], parts)[p]
        BY <4>4 DEF Edited
      <4>6. Has(Edited(snap[r], parts), Edited(acked[topo[r]], parts))
        BY <3>2, <4>2, <4>5, Recording DEF Basics, TypeOK
      <4> HIDE DEF Has
      <4> QED
        BY <3>2, <4>2, <4>6
    <3> QED
      BY <2>1, <3>1, <3>2 DEF ChangesDevice
  <2>3. Others(r) /\ SessionKept
    BY <2>1 DEF cache, Others, SessionKept
  <2>4. Outdates(topo[r]) /\ pc[r] = "edit"
    BY <2>1 DEF ChangesDevice
  <2>5. UNCHANGED <<cached, home, topo>> /\ pc'[r] = "drop"
    BY <2>1 DEF cache, Basics, TypeOK
  <2> QED
    BY <2>2, <2>3, <2>4, <2>5 DEF Replaces
<1>2. CASE UpdateFails(r)
  <2>1. Has(Default, Default) /\ clash' = Parts
    BY <1>2 DEF UpdateFails, NewDevice
  <2>2. clash \subseteq clash' /\ Others(r) /\ SessionKept /\ pc'[r] = "idle"
    BY <1>2, Ending DEF UpdateFails, Basics, TypeOK
  <2>3. UNCHANGED <<cached, home, topo>> /\ pc[r] = "edit" /\ Outdates(topo[r])
    BY <1>2 DEF UpdateFails, Ends
  <2> QED
    BY <2>1, <2>2, <2>3, Configurations DEF Replaces
<1>3. CASE Remove(r)
  <2>1. Others(r) /\ SessionKept /\ pc'[r] = "drop" /\ clash' = clash
    BY <1>3 DEF Remove, cache, Others, SessionKept, Basics, TypeOK
  <2>2. Has(Absent, Absent) /\ Outdates(topo[r])
    BY <1>3 DEF Remove, Removes
  <2>3. UNCHANGED <<cached, home, topo>> /\ pc[r] = "edit"
    BY <1>3 DEF Remove, cache
  <2> QED
    BY <2>1, <2>2, <2>3, Configurations DEF Replaces
<1>4. CASE Add(r)
  <2>1. Has(Default, Default) /\ clash' = clash \cup AllIf(cached # None) /\ Outdates(topo[r])
    BY <1>4, Configurations, Recording DEF Add, NewDevice, Basics, TypeOK
  <2>2. Others(r) /\ SessionKept /\ pc'[r] = "idle"
    BY <1>4, Ending DEF Add, Basics
  <2>3. clash' = Parts \/ cached = None
    BY <2>1 DEF AllIf, Basics, TypeOK
  <2>4. UNCHANGED <<cached, home, topo>> /\ pc[r] = "edit"
    BY <1>4 DEF Add, Ends
  <2> QED
    BY <2>1, <2>2, <2>3, <2>4, Configurations DEF Replaces
<1>5. CASE DeleteTopology(r)
  <2>1. Has(Absent, Absent) /\ clash' = clash /\ Outdates(topo[r])
    BY <1>5 DEF DeleteTopology, Removes
  <2>2. Others(r) /\ SessionKept /\ pc'[r] = "idle"
    BY <1>5, Ending DEF DeleteTopology, Basics
  <2>3. stored'[topo[r]] = Absent
    BY <2>1 DEF Stores, Basics, TypeOK
  <2>4. UNCHANGED <<cached, home, topo>> /\ pc[r] = "delete"
    BY <1>5 DEF DeleteTopology, Ends
  <2> QED
    BY <2>1, <2>2, <2>3, <2>4, Configurations DEF Replaces
<1> QED
  BY <1>1, <1>2, <1>3, <1>4, <1>5

\* Storing a configuration leaves every copy right, but for the parts it marks.
LEMMA StoringKeeps ==
  ASSUME Basics, NEW r \in Requests, NEW c \in Configs, Stores(r, c), topo' = topo, ~ HasCopy(r)',
         \A q \in Requests \ {r} : pc'[q] = pc[q] /\ kind'[q] = kind[q]
  PROVE  CopyLatest'
<1>1. stale'[r] = {}
  BY DEF Stores, Basics, TypeOK
<1>2. ASSUME NEW q \in Requests \ {r}
      PROVE  /\ ~ HasCopy(q)' => stale'[q] = {}
             /\ HasCopy(q)' => \A p \in Parts \ stale'[q] :
                  /\ stored'[topo[q]][p] \subseteq snap'[q][p]
                  /\ p = "data" \/ kind[q] # "ip" \/ pc[q] # "save" => stored'[topo[q]][p] = snap'[q][p]
  <2>1. HasCopy(q)' = HasCopy(q) /\ snap'[q] = snap[q]
    BY DEF HasCopy, Stores, Basics, TypeOK
  <2>2. CASE ~ HasCopy(q)
    BY <2>1 DEF Stores, CopyLatest, Basics
  <2>3. CASE HasCopy(q) /\ topo[q] # topo[r]
    <3>1. stored'[topo[q]] = stored[topo[q]] /\ stale'[q] = stale[q]
      BY <2>3 DEF Stores, Basics, TypeOK
    <3> QED
      BY <2>1, <2>3, <3>1 DEF CopyLatest, Basics
  <2>4. CASE HasCopy(q) /\ topo[q] = topo[r]
    <3>1. stored'[topo[q]] = c /\ stale'[q] = stale[q] \cup {p \in Parts : c[p] # stored[topo[q]][p]}
      BY <2>4 DEF Stores, Basics, TypeOK
    <3>2. \A p \in Parts \ stale'[q] : p \notin stale[q] /\ c[p] = stored[topo[q]][p]
      BY <3>1
    <3> QED
      BY <2>1, <2>4, <3>1 DEF CopyLatest, Basics
  <2> QED
    BY <2>2, <2>3, <2>4
<1> QED
  BY <1>1, <1>2 DEF CopyLatest, Basics, TypeOK

\* ... and so does forgetting a copy.
LEMMA ForgettingKeeps ==
  ASSUME Basics, NEW r \in Requests, Forgets(r), topo' = topo, stored' = stored, ~ HasCopy(r)',
         \A q \in Requests \ {r} : pc'[q] = pc[q] /\ kind'[q] = kind[q]
  PROVE  CopyLatest'
BY DEF Forgets, HasCopy, CopyLatest, Basics, TypeOK

\* ... and whatever leaves the copies and the document alone.
LEMMA UntouchedKeeps ==
  ASSUME Basics, UNCHANGED <<stored, kind, topo, snap, stale>>, \A q \in Requests : HasCopy(q)' = HasCopy(q),
         \A q \in Requests : pc'[q] = "save" <=> pc[q] = "save"
  PROVE  CopyLatest'
BY DEF CopyLatest, Basics, TypeOK

\* ... that a copy is as the document but for what others have stored,
LEMMA CopyLatestKept ==
  ASSUME Basics, [Next]_vars PROVE CopyLatest'
<1>1. ASSUME NEW r \in Requests, NEW t \in Topos, Begin(r, t) PROVE CopyLatest'
  <2>1. PICK k \in Locked, copy \in {Absent, stored[t]} :
          Starts(r, k, t, copy, "wait") /\ (k = "ip" => copy = stored[t])
    BY <1>1 DEF Begin, Locked
  <2>2. stale[r] = {} /\ stale' = stale /\ stored' = stored
    BY <1>1 DEF Begin, Starts, history, HasCopy, CopyLatest, Basics
  <2> QED
    BY <2>1, <2>2 DEF Starts, HasCopy, CopyLatest, Basics, TypeOK
<1>2. ASSUME NEW r \in Requests, NEW t \in Topos, Peek(r, t) PROVE CopyLatest'
  <2>1. stale[r] = {} /\ stale' = stale /\ stored' = stored
    BY <1>2 DEF Peek, Starts, history, HasCopy, CopyLatest, Basics
  <2> QED
    BY <1>2, <2>1 DEF Peek, Starts, HasCopy, CopyLatest, Basics, TypeOK
<1>3. ASSUME NEW r \in Requests, NEW t \in Topos, Read(r, t) PROVE CopyLatest'
  <2>1. Starts(r, "write", t, stored[t], "edit")
    BY <1>3 DEF Read
  <2>2. stale[r] = {} /\ stale' = stale /\ stored' = stored
    BY <1>3 DEF Read, Starts, history, HasCopy, CopyLatest, Basics
  <2> QED
    BY <2>1, <2>2 DEF Starts, HasCopy, CopyLatest, Basics, TypeOK
<1>4. ASSUME NEW r \in Requests, Lock(r) PROVE CopyLatest'
  <2>1. \A q \in Requests : HasCopy(q)' = HasCopy(q) /\ (pc'[q] = "save" <=> pc[q] = "save")
    BY <1>4 DEF Lock, request, HasCopy
  <2>2. UNCHANGED <<stored, kind, topo, snap, stale>>
    BY <1>4 DEF Lock, request, history
  <2> QED
    BY <2>1, <2>2, UntouchedKeeps
<1>5. ASSUME NEW r \in Requests, Hit(r) PROVE CopyLatest'
  <2>1. \A q \in Requests : HasCopy(q)' = HasCopy(q) /\ (pc'[q] = "save" <=> pc[q] = "save")
    BY <1>5 DEF Hit, request, HasCopy
  <2>2. UNCHANGED <<stored, kind, topo, snap, stale>>
    BY <1>5 DEF Hit, request, history
  <2> QED
    BY <2>1, <2>2, UntouchedKeeps
<1>6. ASSUME NEW r \in Requests, Miss(r) PROVE CopyLatest'
  <2>1. \A q \in Requests : HasCopy(q)' = HasCopy(q) /\ (pc'[q] = "save" <=> pc[q] = "save")
    BY <1>6 DEF Miss, request, HasCopy
  <2>2. UNCHANGED <<stored, kind, topo, snap, stale>>
    BY <1>6 DEF Miss, request, history
  <2> QED
    BY <2>1, <2>2, UntouchedKeeps
<1>7. ASSUME NEW r \in Requests, Insert(r) PROVE CopyLatest'
  <2>1. \A q \in Requests : HasCopy(q)' = HasCopy(q) /\ (pc'[q] = "save" <=> pc[q] = "save")
    BY <1>7 DEF Insert, request, HasCopy
  <2>2. UNCHANGED <<stored, kind, topo, snap, stale>>
    BY <1>7 DEF Insert, request, history
  <2> QED
    BY <2>1, <2>2, UntouchedKeeps
<1>8. ASSUME NEW r \in Requests, Leave(r) PROVE CopyLatest'
  <2>1. Forgets(r) /\ stored' = stored /\ Ends(r)
    BY <1>8 DEF Leave
  <2>2. /\ topo' = topo /\ ~ HasCopy(r)'
        /\ \A q \in Requests \ {r} : pc'[q] = pc[q] /\ kind'[q] = kind[q]
    BY <2>1 DEF Ends, HasCopy, Basics, TypeOK
  <2> QED
    BY <2>1, <2>2, ForgettingKeeps
<1>9. ASSUME NEW r \in Requests, RunCommand(r) PROVE CopyLatest'
  <2>1. /\ UNCHANGED <<stored, kind, topo>> /\ snap'[r] = stored[topo[r]] /\ stale'[r] = {} /\ HasCopy(r)'
        /\ \A q \in Requests \ {r} : pc'[q] = pc[q] /\ snap'[q] = snap[q] /\ stale'[q] = stale[q]
    BY <1>9 DEF RunCommand, HasCopy, Basics, TypeOK
  <2>2. \A q \in Requests \ {r} : HasCopy(q)' = HasCopy(q)
    BY <2>1 DEF HasCopy
  <2> QED
    BY <2>1, <2>2 DEF CopyLatest, Basics
<1>10. ASSUME NEW r \in Requests, RunIPConfig(r) PROVE CopyLatest'
  <2>1. PICK parts \in Given : NewEdit(parts) /\ snap' = [snap EXCEPT ![r] = Edited(snap[r], parts \ {"data"})]
    BY <1>10 DEF RunIPConfig
  <2>2. /\ UNCHANGED <<stored, kind, topo, stale>> /\ kind[r] = "ip" /\ pc[r] = "use" /\ pc'[r] = "save"
        /\ \A q \in Requests \ {r} : pc'[q] = pc[q]
    BY <1>10 DEF RunIPConfig, history, Basics, TypeOK
  <2>3. /\ \A q \in Requests \ {r} : snap'[q] = snap[q]
        /\ \A p \in Parts : snap[r][p] \subseteq snap'[r][p]
        /\ snap'[r]["data"] = snap[r]["data"]
    BY <2>1 DEF Edited, Parts, Basics, TypeOK
  <2>4. \A q \in Requests : HasCopy(q)' = HasCopy(q)
    BY <2>2 DEF HasCopy
  <2>5. HasCopy(r)
    BY <2>2 DEF HasCopy
  <2>6. \A p \in Parts \ stale[r] :
          /\ stored[topo[r]][p] \subseteq snap'[r][p]
          /\ p = "data" => stored[topo[r]][p] = snap'[r][p]
    BY <2>3, <2>5 DEF CopyLatest, Basics
  <2>7. \A q \in Requests \ {r} :
          /\ ~ HasCopy(q) => stale[q] = {}
          /\ HasCopy(q) => \A p \in Parts \ stale[q] :
               /\ stored[topo[q]][p] \subseteq snap'[q][p]
               /\ p = "data" \/ kind[q] # "ip" \/ pc'[q] # "save" => stored[topo[q]][p] = snap'[q][p]
    BY <2>2, <2>3 DEF CopyLatest, Basics
  <2> QED
    BY <2>2, <2>4, <2>5, <2>6, <2>7 DEF CopyLatest
<1>11. ASSUME NEW r \in Requests, Save(r) PROVE CopyLatest'
  <2>1. \E c \in Configs : Stores(r, c)
    <3>1. snap[r] \in Configs /\ conf[obj[r]]["data"] \in SUBSET (0..MaxEdits)
      BY <1>11 DEF Save, Configs, Parts, Basics, TypeOK
    <3> QED
      BY <1>11, <3>1, Configurations DEF Save
  <2>2. /\ topo' = topo /\ ~ HasCopy(r)'
        /\ \A q \in Requests \ {r} : pc'[q] = pc[q] /\ kind'[q] = kind[q]
    BY <1>11 DEF Save, Ends, HasCopy, Basics, TypeOK
  <2> QED
    BY <2>1, <2>2, StoringKeeps
<1>12. ASSUME NEW r \in Requests, NotSaved(r) PROVE CopyLatest'
  <2>1. Forgets(r) /\ stored' = stored /\ Ends(r)
    BY <1>12 DEF NotSaved
  <2>2. /\ topo' = topo /\ ~ HasCopy(r)'
        /\ \A q \in Requests \ {r} : pc'[q] = pc[q] /\ kind'[q] = kind[q]
    BY <2>1 DEF Ends, HasCopy, Basics, TypeOK
  <2> QED
    BY <2>1, <2>2, ForgettingKeeps
<1>13. ASSUME NEW r \in Requests, PutBack(r) PROVE CopyLatest'
  <2>1. /\ topo' = topo /\ ~ HasCopy(r)' /\ snap[r] \in Configs
        /\ \A q \in Requests \ {r} : pc'[q] = pc[q] /\ kind'[q] = kind[q]
    BY <1>13 DEF PutBack, Ends, HasCopy, Basics, TypeOK
  <2>2. Stores(r, snap[r]) \/ (Forgets(r) /\ stored' = stored)
    BY <1>13 DEF PutBack
  <2> QED
    BY <2>1, <2>2, StoringKeeps, ForgettingKeeps
<1>14. ASSUME NEW r \in Requests, Update(r) PROVE CopyLatest'
  <2>1. \E c \in Configs : Stores(r, c)
    BY <1>14, Replacing DEF Replaces
  <2>2. /\ topo' = topo /\ ~ HasCopy(r)'
        /\ \A q \in Requests \ {r} : pc'[q] = pc[q] /\ kind'[q] = kind[q]
    BY <1>14 DEF Update, ChangesDevice, HasCopy, Basics, TypeOK, KindsFit
  <2> QED
    BY <2>1, <2>2, StoringKeeps
<1>15. ASSUME NEW r \in Requests, UpdateFails(r) PROVE CopyLatest'
  <2>1. \E c \in Configs : Stores(r, c)
    BY <1>15, Replacing DEF Replaces
  <2>2. /\ topo' = topo /\ ~ HasCopy(r)'
        /\ \A q \in Requests \ {r} : pc'[q] = pc[q] /\ kind'[q] = kind[q]
    BY <1>15 DEF UpdateFails, Ends, HasCopy, Basics, TypeOK
  <2> QED
    BY <2>1, <2>2, StoringKeeps
<1>16. ASSUME NEW r \in Requests, Remove(r) PROVE CopyLatest'
  <2>1. \E c \in Configs : Stores(r, c)
    BY <1>16, Replacing DEF Replaces
  <2>2. /\ topo' = topo /\ ~ HasCopy(r)'
        /\ \A q \in Requests \ {r} : pc'[q] = pc[q] /\ kind'[q] = kind[q]
    BY <1>16 DEF Remove, HasCopy, Basics, TypeOK, KindsFit
  <2> QED
    BY <2>1, <2>2, StoringKeeps
<1>17. ASSUME NEW r \in Requests, Add(r) PROVE CopyLatest'
  <2>1. \E c \in Configs : Stores(r, c)
    BY <1>17, Replacing DEF Replaces
  <2>2. /\ topo' = topo /\ ~ HasCopy(r)'
        /\ \A q \in Requests \ {r} : pc'[q] = pc[q] /\ kind'[q] = kind[q]
    BY <1>17 DEF Add, Ends, HasCopy, Basics, TypeOK
  <2> QED
    BY <2>1, <2>2, StoringKeeps
<1>18. ASSUME NEW r \in Requests, Drop(r) PROVE CopyLatest'
  <2>1. Forgets(r) /\ stored' = stored /\ Ends(r)
    BY <1>18 DEF Drop
  <2>2. /\ topo' = topo /\ ~ HasCopy(r)'
        /\ \A q \in Requests \ {r} : pc'[q] = pc[q] /\ kind'[q] = kind[q]
    BY <2>1 DEF Ends, HasCopy, Basics, TypeOK
  <2> QED
    BY <2>1, <2>2, ForgettingKeeps
<1>19. ASSUME NEW r \in Requests, DropFirst(r) PROVE CopyLatest'
  <2>1. Forgets(r) /\ UNCHANGED <<stored, topo, kind>> /\ pc' = [pc EXCEPT ![r] = "delete"] /\ kind[r] = "write"
    BY <1>19 DEF DropFirst, Basics, KindsFit
  <2>2. ~ HasCopy(r)' /\ \A q \in Requests \ {r} : pc'[q] = pc[q] /\ kind'[q] = kind[q]
    BY <2>1 DEF HasCopy, Basics, TypeOK
  <2> QED
    BY <2>1, <2>2, ForgettingKeeps
<1>20. ASSUME NEW r \in Requests, DeleteTopology(r) PROVE CopyLatest'
  <2>1. \E c \in Configs : Stores(r, c)
    BY <1>20, Replacing DEF Replaces
  <2>2. /\ topo' = topo /\ ~ HasCopy(r)'
        /\ \A q \in Requests \ {r} : pc'[q] = pc[q] /\ kind'[q] = kind[q]
    BY <1>20 DEF DeleteTopology, Ends, HasCopy, Basics, TypeOK
  <2> QED
    BY <2>1, <2>2, StoringKeeps
<1>21. CASE UNCHANGED vars
  <2>1. UNCHANGED <<stored, kind, topo, snap, stale>>
    BY <1>21 DEF vars, request, history
  <2>2. \A q \in Requests : HasCopy(q)' = HasCopy(q) /\ (pc'[q] = "save" <=> pc[q] = "save")
    BY <1>21 DEF vars, request, HasCopy
  <2> QED
    BY <2>1, <2>2, UntouchedKeeps
<1> QED
  BY <1>1, <1>2, <1>3, <1>4, <1>5, <1>6, <1>7, <1>8, <1>9, <1>10, <1>11, <1>12, <1>13, <1>14,
     <1>15, <1>16, <1>17, <1>18, <1>19, <1>20, <1>21 DEF Next, Session, Write

\* What a step may be.
LEMMA Shapes ==
  ASSUME Basics, [Next]_vars
  PROVE  \/ UNCHANGED vars
         \/ \E r \in Requests : \/ Waits(r) \/ Hit(r) \/ Miss(r) \/ Insert(r) \/ Leave(r) \/ Runs(r) \/ Save(r)
                                \/ NotSaved(r) \/ PutBack(r) \/ Replaces(r) \/ Drop(r) \/ DropFirst(r)
BY Waiting, Running, Replacing DEF Next, Session, Write

\* A command that saves without a clash has the cached session, of its own topology.
LEMMA Saving ==
  ASSUME IInv, NEW r \in Requests, Save(r), clash' # Parts
  PROVE  /\ obj[r] \notin aged /\ obj[r] = cached /\ cached \in Objects /\ cached # None
         /\ home[cached] = topo[r] /\ clash \subseteq clash' /\ clash # Parts /\ topo[r] \in Topos
         /\ stored' = [stored EXCEPT ![topo[r]] = [snap[r] EXCEPT !["data"] = conf[cached]["data"]]]
         /\ "ports" \notin clash' => "ports" \notin stale[r] /\ "ports" \notin clash
<1>1. clash' = clash \cup (stale[r] \ {"data"}) \cup AllIf(obj[r] \in aged) /\ pc[r] = "save"
  BY DEF Save
<1>2. obj[r] \in Objects /\ clash \subseteq Parts /\ stale[r] \subseteq Parts /\ topo[r] \in Topos
  BY <1>1 DEF IInv, Basics, TypeOK
<1>3. obj[r] \notin aged
  BY <1>1, <1>2 DEF AllIf
<1>4. clash # Parts
  BY <1>1, <1>2 DEF AllIf
<1>5. obj[r] = cached /\ home[cached] = topo[r]
  BY <1>1, <1>3, <1>4 DEF IInv, Cope, UsesCached
<1>6. stored' = [stored EXCEPT ![topo[r]] = [snap[r] EXCEPT !["data"] = conf[obj[r]]["data"]]]
  BY DEF Save, Stores
<1> QED
  BY <1>1, <1>2, <1>3, <1>4, <1>5, <1>6, NonesAssumption

\* A copy that is put back changes nothing but what it clashes with.
LEMMA PuttingBack ==
  ASSUME Basics, NEW r \in Requests, PutBack(r)
  PROVE  /\ clash \subseteq clash' /\ UNCHANGED <<cached, home, aged>> /\ pc[r] = "edit"
         /\ \A t \in Topos, p \in Parts \ clash' : stored'[t][p] = stored[t][p]
         /\ \A t \in Topos : clash' # Parts => (stored'[t] = Absent <=> stored[t] = Absent)
<1>1. UNCHANGED <<cached, home, aged>> /\ pc[r] = "edit"
  BY DEF PutBack
<1>2. CASE Forgets(r) /\ UNCHANGED <<stored, clash>>
  BY <1>1, <1>2
<1>3. CASE Stores(r, snap[r]) /\ clash' = clash \cup stale[r]
  <2>1. HasCopy(r) /\ kind[r] # "ip" /\ topo[r] \in Topos /\ snap[r] \in Configs /\ stored \in [Topos -> Configs]
    BY <1>1 DEF HasCopy, KindsFit, Basics, TypeOK
  <2>2. \A p \in Parts \ clash' : snap[r][p] = stored[topo[r]][p]
    BY <1>3, <2>1 DEF CopyLatest, Basics
  <2>3. stored' = [stored EXCEPT ![topo[r]] = snap[r]]
    BY <1>3 DEF Stores
  <2>4. \A t \in Topos, p \in Parts \ clash' : stored'[t][p] = stored[t][p]
    BY <2>1, <2>2, <2>3
  <2>5. ASSUME clash' # Parts PROVE stored[topo[r]] = Absent <=> snap[r] = Absent
    <3>1. PICK p \in Parts : p \notin clash'
      BY <1>3, <2>5 DEF Basics, TypeOK
    <3>2. snap[r][p] = stored[topo[r]][p]
      BY <2>2, <3>1
    <3>3. (stored[topo[r]] = Absent \/ 0 \in stored[topo[r]][p]) /\ (snap[r] = Absent \/ 0 \in snap[r][p])
      BY <2>1, <3>1 DEF Filled, Full, Basics
    <3>4. Absent[p] = {}
      BY <3>1 DEF Absent
    <3> QED
      BY <3>2, <3>3, <3>4
  <2> QED
    BY <1>1, <1>3, <2>3, <2>4, <2>5
<1> QED
  BY <1>2, <1>3 DEF PutBack

\* Every step keeps that whoever uses a session not outdated uses the cached one,
LEMMA UsesKept ==
  ASSUME IInv, [Next]_vars, clash \subseteq clash' PROVE UsesCached'
<1>0. (clash' # Parts => clash # Parts) /\ clash \subseteq clash' /\ clash' \subseteq Parts /\ UsesCached
  BY TypeKept DEF IInv, Cope, Basics, TypeOK
<1>1. ASSUME NEW r \in Requests, Waits(r) PROVE UsesCached'
  BY <1>1 DEF Waits, Others, history, UsesCached, IInv, Cope
<1>2. ASSUME NEW r \in Requests, Hit(r) PROVE UsesCached'
  <2>1. cached' = cached /\ UNCHANGED <<topo, home, aged>>
    BY <1>2 DEF Hit, cache
  <2>2. clash' # Parts => home[cached] = topo[r]
    BY <1>2 DEF Hit, AllIf, Foreign, IInv, Basics, TypeOK
  <2>3. obj'[r] = cached /\ \A q \in Requests \ {r} : pc'[q] = pc[q] /\ obj'[q] = obj[q]
    BY <1>2 DEF Hit, IInv, Basics, TypeOK
  <2> QED
    BY <1>0, <2>1, <2>2, <2>3 DEF UsesCached
<1>3. ASSUME NEW r \in Requests, Miss(r) PROVE UsesCached'
  <2>1. cached = None /\ cached' = None /\ topo' = topo /\ clash' = clash
    BY <1>3 DEF Miss
  <2>2. \A q \in Requests : pc'[q] \in {"use", "save"} /\ obj'[q] \notin aged' => q # r
    BY <1>3 DEF Miss, IInv, Basics, TypeOK
  <2>3. \A q \in Requests \ {r} : pc'[q] = pc[q] /\ obj'[q] = obj[q] /\ (obj[q] \notin aged' => obj[q] \notin aged)
    BY <1>3 DEF Miss, IInv, Basics, TypeOK
  <2> QED
    BY <2>1, <2>2, <2>3, NonesAssumption DEF UsesCached, IInv, Cope, Basics, TypeOK
<1>4. ASSUME NEW r \in Requests, Insert(r) PROVE UsesCached'
  <2> DEFINE o == IF cached = None THEN obj[r] ELSE cached
  <2>1. /\ cached' = o /\ obj' = [obj EXCEPT ![r] = o] /\ pc[r] = "insert" /\ UNCHANGED <<topo, home, aged>>
        /\ clash' = clash \cup AllIf(Foreign(r, o) \/ (cached = None /\ o \in aged))
    BY <1>4 DEF Insert
  <2>2. obj'[r] = cached' /\ (clash' # Parts => home[cached'] = topo[r])
    BY <2>1 DEF AllIf, Foreign, IInv, Basics, TypeOK
  <2>3. \A q \in Requests \ {r} : pc'[q] = pc[q] /\ obj'[q] = obj[q]
    BY <1>4 DEF Insert, IInv, Basics, TypeOK
  <2>4. \A q \in Requests : pc[q] \in {"use", "save"} => obj[q] # None
    BY NonesAssumption DEF IInv, Basics, TypeOK
  <2>6. cached # None => cached' = cached
    BY <2>1
  <2> HIDE DEF o
  <2> QED
    BY <1>0, <2>1, <2>2, <2>3, <2>4, <2>6 DEF UsesCached
<1>5. ASSUME NEW r \in Requests, Leave(r) PROVE UsesCached'
  <2>1. Others(r) /\ SessionKept /\ pc'[r] = "idle" /\ topo' = topo
    BY <1>5, Ending DEF Leave, IInv, Basics
  <2> QED
    BY <1>5, <2>1 DEF Leave, Others, UsesCached, IInv, Cope
<1>6. ASSUME NEW r \in Requests, Runs(r) PROVE UsesCached'
  BY <1>6 DEF Runs, UsesCached, IInv, Cope
<1>7. ASSUME NEW r \in Requests, Save(r) PROVE UsesCached'
  <2>1. Others(r) /\ SessionKept /\ pc'[r] = "idle" /\ topo' = topo
    BY <1>7, Ending DEF Save, IInv, Basics
  <2>2. UNCHANGED <<cached, home, aged>>
    BY <1>7 DEF Save
  <2> QED
    BY <1>0, <2>1, <2>2 DEF Others, UsesCached
<1>8. ASSUME NEW r \in Requests, NotSaved(r) PROVE UsesCached'
  <2>1. Others(r) /\ SessionKept /\ pc'[r] = "idle" /\ topo' = topo
    BY <1>8, Ending DEF NotSaved, IInv, Basics
  <2>2. UNCHANGED <<cached, home, aged>>
    BY <1>8 DEF NotSaved
  <2> QED
    BY <1>0, <2>1, <2>2 DEF Others, UsesCached
<1>9. ASSUME NEW r \in Requests, PutBack(r) PROVE UsesCached'
  <2>1. Others(r) /\ SessionKept /\ pc'[r] = "idle" /\ topo' = topo
    BY <1>9, Ending DEF PutBack, IInv, Basics
  <2>2. UNCHANGED <<cached, home, aged>>
    BY <1>9 DEF PutBack
  <2> QED
    BY <1>0, <2>1, <2>2 DEF Others, UsesCached
<1>10. ASSUME NEW r \in Requests, Replaces(r) PROVE UsesCached'
  <2>1. aged \subseteq aged' /\ pc'[r] \notin {"use", "save"}
    BY <1>10 DEF Replaces, Outdates
  <2>2. UNCHANGED <<cached, home, topo>> /\ Others(r)
    BY <1>10 DEF Replaces
  <2> QED
    BY <1>0, <2>1, <2>2 DEF Others, UsesCached
<1>11. ASSUME NEW r \in Requests, Drop(r) PROVE UsesCached'
  <2>1. Others(r) /\ SessionKept /\ pc'[r] = "idle" /\ topo' = topo
    BY <1>11, Ending DEF Drop, IInv, Basics
  <2>2. \A q \in Requests \ {r} : pc'[q] \in {"use", "save"} => obj'[q] \in aged'
    BY <1>11, <2>1 DEF Drop, Uncaches, InUse, Others, IInv, Basics, TypeOK
  <2> QED
    BY <2>1, <2>2 DEF UsesCached
<1>12. ASSUME NEW r \in Requests, DropFirst(r) PROVE UsesCached'
  <2>1. /\ UNCHANGED <<obj, topo, home, clash>> /\ pc' = [pc EXCEPT ![r] = "delete"]
        /\ Uncaches \/ UNCHANGED <<cached, aged>>
    BY <1>12 DEF DropFirst
  <2> QED
    BY <2>1 DEF Uncaches, InUse, UsesCached, IInv, Cope, Basics, TypeOK
<1>13. CASE UNCHANGED vars
  BY <1>13 DEF vars, cache, request, history, UsesCached, IInv, Cope
<1> QED
  BY <1>1, <1>2, <1>3, <1>4, <1>5, <1>6, <1>7, <1>8, <1>9, <1>10, <1>11, <1>12, <1>13, Shapes
     DEF IInv

\* ... that a session that is to be cached is as stored,
LEMMA BuiltKept ==
  ASSUME IInv, [Next]_vars, clash \subseteq clash' PROVE BuiltAsStored'
<1>0. (clash' # Parts => clash # Parts) /\ clash \subseteq clash' /\ clash' \subseteq Parts /\ BuiltAsStored
  BY TypeKept DEF IInv, Cope, Basics, TypeOK
<1>1. ASSUME NEW r \in Requests, Waits(r) PROVE BuiltAsStored'
  <2>1. /\ UNCHANGED <<stored, cached, conf, obj, aged, clash>> /\ pc'[r] # "insert"
        /\ \A q \in Requests \ {r} : pc'[q] = pc[q] /\ topo'[q] = topo[q]
    BY <1>1 DEF Waits, Others, history
  <2> QED
    BY <1>0, <2>1 DEF BuiltAsStored
<1>2. ASSUME NEW r \in Requests, Hit(r) PROVE BuiltAsStored'
  <2>1. cached' = cached /\ cached # None
    BY <1>2 DEF Hit, cache
  <2> QED
    BY <2>1 DEF BuiltAsStored
<1>3. ASSUME NEW r \in Requests, Miss(r) PROVE BuiltAsStored'
  <2>1. PICK o \in Objects :
          /\ \A q \in Requests : obj[q] # o
          /\ conf' = [conf EXCEPT ![o] = IF stored[topo[r]] = Absent THEN Default ELSE stored[topo[r]]]
          /\ aged' = aged \ {o} /\ obj' = [obj EXCEPT ![r] = o]
    BY <1>3 DEF Miss
  <2>2. UNCHANGED <<stored, cached, topo, clash>> /\ \A q \in Requests \ {r} : pc'[q] = pc[q]
    BY <1>3 DEF Miss, IInv, Basics, TypeOK
  <2>3. obj'[r] = o /\ conf'[o] = (IF stored[topo[r]] = Absent THEN Default ELSE stored[topo[r]])
    BY <2>1 DEF IInv, Basics, TypeOK
  <2>4. \A q \in Requests \ {r} :
          /\ obj'[q] = obj[q] /\ conf'[obj[q]] = conf[obj[q]] /\ (obj[q] \notin aged' => obj[q] \notin aged)
    BY <2>1 DEF IInv, Basics, TypeOK
  <2>5. Default["ports"] = Default["data"]
    BY DEF Default, Parts
  <2>6. \A q \in Requests \ {r} : pc'[q] = "insert" /\ cached' = None /\ obj'[q] \notin aged' =>
          pc[q] = "insert" /\ cached = None /\ obj[q] \notin aged
    BY <2>2, <2>4
  <2> QED
    BY <1>0, <2>2, <2>3, <2>4 DEF BuiltAsStored
<1>4. ASSUME NEW r \in Requests, Insert(r) PROVE BuiltAsStored'
  <2>1. cached' # None
    BY <1>4, NonesAssumption DEF Insert, IInv, Basics, TypeOK
  <2> QED
    BY <2>1 DEF BuiltAsStored
<1>5. ASSUME NEW r \in Requests, Leave(r) PROVE BuiltAsStored'
  <2>1. Others(r) /\ SessionKept /\ pc'[r] = "idle" /\ topo' = topo
    BY <1>5, Ending DEF Leave, IInv, Basics
  <2>2. UNCHANGED <<cached, stored, aged>>
    BY <1>5 DEF Leave
  <2>3. \A q \in Requests : pc'[q] = "insert" =>
          /\ pc[q] = "insert" /\ obj'[q] = obj[q] /\ topo'[q] = topo[q] /\ conf'[obj[q]] = conf[obj[q]]
    BY <2>1 DEF Others, IInv, Basics, TypeOK
  <2> QED
    BY <1>0, <2>2, <2>3 DEF BuiltAsStored
<1>6. ASSUME NEW r \in Requests, Runs(r) PROVE BuiltAsStored'
  <2>1. PICK parts \in Given : conf' = [conf EXCEPT ![obj[r]] = Edited(conf[obj[r]], parts)]
    BY <1>6 DEF Runs
  <2>2. UNCHANGED <<cached, stored, topo, obj, aged, clash>> /\ \A q \in Requests : pc'[q] = "insert" => q # r /\ pc[q] = "insert"
    BY <1>6 DEF Runs
  <2>3. \A q \in Requests : pc'[q] = "insert" => conf'[obj[q]] = conf[obj[q]]
    BY <2>1, <2>2 DEF BuiltAlone, IInv, Basics
  <2> QED
    BY <1>0, <2>2, <2>3 DEF BuiltAsStored
<1>7. ASSUME NEW r \in Requests, Save(r) PROVE BuiltAsStored'
  <2>1. ASSUME clash' # Parts PROVE cached' # None
    BY <1>7, <2>1, Saving DEF Save
  <2>2. CASE clash' = Parts
    BY <2>2 DEF BuiltAsStored, Parts
  <2> QED
    BY <2>1, <2>2 DEF BuiltAsStored
<1>8. ASSUME NEW r \in Requests, NotSaved(r) PROVE BuiltAsStored'
  <2>1. Others(r) /\ SessionKept /\ pc'[r] = "idle" /\ topo' = topo
    BY <1>8, Ending DEF NotSaved, IInv, Basics
  <2>2. UNCHANGED <<cached, stored, aged>>
    BY <1>8 DEF NotSaved
  <2>3. \A q \in Requests : pc'[q] = "insert" =>
          /\ pc[q] = "insert" /\ obj'[q] = obj[q] /\ topo'[q] = topo[q] /\ conf'[obj[q]] = conf[obj[q]]
    BY <2>1 DEF Others, IInv, Basics, TypeOK
  <2> QED
    BY <1>0, <2>2, <2>3 DEF BuiltAsStored
<1>9. ASSUME NEW r \in Requests, PutBack(r) PROVE BuiltAsStored'
  <2>1. Others(r) /\ SessionKept /\ pc'[r] = "idle" /\ topo' = topo
    BY <1>9, Ending DEF PutBack, IInv, Basics
  <2>2. /\ UNCHANGED <<cached, aged>>
        /\ \A t \in Topos, p \in Parts \ clash' : stored'[t][p] = stored[t][p]
        /\ \A t \in Topos : clash' # Parts => (stored'[t] = Absent <=> stored[t] = Absent)
    BY <1>9, PuttingBack DEF IInv
  <2>3. \A q \in Requests : pc'[q] = "insert" =>
          /\ pc[q] = "insert" /\ obj'[q] = obj[q] /\ topo'[q] = topo[q] /\ conf'[obj[q]] = conf[obj[q]]
          /\ topo[q] \in Topos
    BY <2>1 DEF Others, IInv, Basics, TypeOK
  <2>4. \A p \in Parts \ clash' : p \notin clash /\ clash' # Parts
    BY <1>0
  <2>5. clash' = {} => clash = {} /\ "ports" \in Parts \ clash'
    BY <1>0 DEF Parts
  <2> QED
    BY <1>0, <2>2, <2>3 DEF BuiltAsStored
<1>10. ASSUME NEW r \in Requests, Replaces(r) PROVE BuiltAsStored'
  <2>1. PICK c \in Configs : Stores(r, c)
    BY <1>10 DEF Replaces
  <2>2. UNCHANGED <<cached, topo>> /\ Others(r) /\ Outdates(topo[r]) /\ pc'[r] # "insert"
    BY <1>10 DEF Replaces
  <2>3. ASSUME NEW q \in Requests, pc'[q] = "insert", obj'[q] \notin aged'
        PROVE  /\ pc[q] = "insert" /\ obj'[q] = obj[q] /\ conf'[obj[q]] = conf[obj[q]] /\ obj[q] \notin aged
               /\ stored'[topo[q]] = stored[topo[q]]
    <3>1. q # r /\ pc[q] = "insert" /\ obj'[q] = obj[q] /\ conf'[obj[q]] = conf[obj[q]] /\ obj[q] \in Objects
      BY <2>2, <2>3 DEF Others, IInv, Basics, TypeOK
    <3>2. home[obj[q]] = topo[q] /\ obj[q] # None
      BY <3>1, NonesAssumption DEF BuiltAlone, IInv, Basics
    <3>3. topo[q] # topo[r] /\ obj[q] \notin aged
      BY <2>2, <2>3, <3>1, <3>2 DEF Outdates, InUse
    <3> QED
      BY <2>1, <3>1, <3>3 DEF Stores
  <2> QED
    BY <1>0, <2>2, <2>3 DEF BuiltAsStored
<1>11. ASSUME NEW r \in Requests, Drop(r) PROVE BuiltAsStored'
  <2>1. Others(r) /\ SessionKept /\ pc'[r] = "idle" /\ topo' = topo
    BY <1>11, Ending DEF Drop, IInv, Basics
  <2>2. \A q \in Requests : pc'[q] = "insert" => obj'[q] \in aged'
    BY <1>11, <2>1 DEF Drop, Uncaches, InUse, Others, IInv, Basics, TypeOK
  <2> QED
    BY <2>2 DEF BuiltAsStored
<1>12. ASSUME NEW r \in Requests, DropFirst(r) PROVE BuiltAsStored'
  <2>1. /\ UNCHANGED <<obj, topo, stored, clash, conf>> /\ \A q \in Requests : pc'[q] = "insert" => pc[q] = "insert"
        /\ Uncaches \/ UNCHANGED <<cached, aged>>
    BY <1>12 DEF DropFirst, IInv, Basics, TypeOK
  <2>2. CASE Uncaches
    <3>1. \A q \in Requests : pc'[q] = "insert" => obj'[q] \in aged'
      BY <2>1, <2>2 DEF Uncaches, InUse, IInv, Basics, TypeOK
    <3> QED
      BY <3>1 DEF BuiltAsStored
  <2>3. CASE UNCHANGED <<cached, aged>>
    BY <1>0, <2>1, <2>3 DEF BuiltAsStored
  <2> QED
    BY <2>1, <2>2, <2>3
<1>13. CASE UNCHANGED vars
  BY <1>0, <1>13 DEF vars, cache, request, history, BuiltAsStored
<1> QED
  BY <1>1, <1>2, <1>3, <1>4, <1>5, <1>6, <1>7, <1>8, <1>9, <1>10, <1>11, <1>12, <1>13, Shapes
     DEF IInv

\* ... with no other addresses than the document has,
LEMMA BuiltPortsKept ==
  ASSUME IInv, [Next]_vars, clash \subseteq clash' PROVE BuiltPorts'
<1>0. (clash' # Parts => clash # Parts) /\ clash \subseteq clash' /\ clash' \subseteq Parts /\ BuiltPorts
  BY TypeKept DEF IInv, Cope, Basics, TypeOK
<1>1. ASSUME NEW r \in Requests, Waits(r) PROVE BuiltPorts'
  <2>1. /\ UNCHANGED <<stored, cached, conf, obj, aged, clash>> /\ pc'[r] # "insert"
        /\ \A q \in Requests \ {r} : pc'[q] = pc[q] /\ topo'[q] = topo[q]
    BY <1>1 DEF Waits, Others, history
  <2> QED
    BY <1>0, <2>1 DEF BuiltPorts
<1>2. ASSUME NEW r \in Requests, Hit(r) PROVE BuiltPorts'
  <2>1. cached' = cached /\ cached # None
    BY <1>2 DEF Hit, cache
  <2> QED
    BY <2>1 DEF BuiltPorts
<1>3. ASSUME NEW r \in Requests, Miss(r) PROVE BuiltPorts'
  <2>1. PICK o \in Objects :
          /\ \A q \in Requests : obj[q] # o
          /\ conf' = [conf EXCEPT ![o] = IF stored[topo[r]] = Absent THEN Default ELSE stored[topo[r]]]
          /\ aged' = aged \ {o} /\ obj' = [obj EXCEPT ![r] = o]
    BY <1>3 DEF Miss
  <2>2. UNCHANGED <<stored, cached, topo, clash>> /\ \A q \in Requests \ {r} : pc'[q] = pc[q]
    BY <1>3 DEF Miss, IInv, Basics, TypeOK
  <2>3. obj'[r] = o /\ conf'[o] = (IF stored[topo[r]] = Absent THEN Default ELSE stored[topo[r]])
    BY <2>1 DEF IInv, Basics, TypeOK
  <2>4. \A q \in Requests \ {r} :
          /\ obj'[q] = obj[q] /\ conf'[obj[q]] = conf[obj[q]] /\ (obj[q] \notin aged' => obj[q] \notin aged)
    BY <2>1 DEF IInv, Basics, TypeOK
  <2>5. Default["ports"] = Default["data"]
    BY DEF Default, Parts
  <2>6. \A q \in Requests \ {r} : pc'[q] = "insert" /\ cached' = None /\ obj'[q] \notin aged' =>
          pc[q] = "insert" /\ cached = None /\ obj[q] \notin aged
    BY <2>2, <2>4
  <2> QED
    BY <1>0, <2>2, <2>3, <2>4, <2>5 DEF BuiltPorts
<1>4. ASSUME NEW r \in Requests, Insert(r) PROVE BuiltPorts'
  <2>1. cached' # None
    BY <1>4, NonesAssumption DEF Insert, IInv, Basics, TypeOK
  <2> QED
    BY <2>1 DEF BuiltPorts
<1>5. ASSUME NEW r \in Requests, Leave(r) PROVE BuiltPorts'
  <2>1. Others(r) /\ SessionKept /\ pc'[r] = "idle" /\ topo' = topo
    BY <1>5, Ending DEF Leave, IInv, Basics
  <2>2. UNCHANGED <<cached, stored, aged>>
    BY <1>5 DEF Leave
  <2>3. \A q \in Requests : pc'[q] = "insert" =>
          /\ pc[q] = "insert" /\ obj'[q] = obj[q] /\ topo'[q] = topo[q] /\ conf'[obj[q]] = conf[obj[q]]
    BY <2>1 DEF Others, IInv, Basics, TypeOK
  <2> QED
    BY <1>0, <2>2, <2>3 DEF BuiltPorts
<1>6. ASSUME NEW r \in Requests, Runs(r) PROVE BuiltPorts'
  <2>1. PICK parts \in Given : conf' = [conf EXCEPT ![obj[r]] = Edited(conf[obj[r]], parts)]
    BY <1>6 DEF Runs
  <2>2. UNCHANGED <<cached, stored, topo, obj, aged, clash>> /\ \A q \in Requests : pc'[q] = "insert" => q # r /\ pc[q] = "insert"
    BY <1>6 DEF Runs
  <2>3. \A q \in Requests : pc'[q] = "insert" => conf'[obj[q]] = conf[obj[q]]
    BY <2>1, <2>2 DEF BuiltAlone, IInv, Basics
  <2> QED
    BY <1>0, <2>2, <2>3 DEF BuiltPorts
<1>7. ASSUME NEW r \in Requests, Save(r) PROVE BuiltPorts'
  <2>1. ASSUME clash' # Parts PROVE cached' # None
    BY <1>7, <2>1, Saving DEF Save
  <2>2. CASE clash' = Parts
    BY <2>2 DEF BuiltPorts, Parts
  <2> QED
    BY <2>1, <2>2 DEF BuiltPorts
<1>8. ASSUME NEW r \in Requests, NotSaved(r) PROVE BuiltPorts'
  <2>1. Others(r) /\ SessionKept /\ pc'[r] = "idle" /\ topo' = topo
    BY <1>8, Ending DEF NotSaved, IInv, Basics
  <2>2. UNCHANGED <<cached, stored, aged>>
    BY <1>8 DEF NotSaved
  <2>3. \A q \in Requests : pc'[q] = "insert" =>
          /\ pc[q] = "insert" /\ obj'[q] = obj[q] /\ topo'[q] = topo[q] /\ conf'[obj[q]] = conf[obj[q]]
    BY <2>1 DEF Others, IInv, Basics, TypeOK
  <2> QED
    BY <1>0, <2>2, <2>3 DEF BuiltPorts
<1>9. ASSUME NEW r \in Requests, PutBack(r) PROVE BuiltPorts'
  <2>1. Others(r) /\ SessionKept /\ pc'[r] = "idle" /\ topo' = topo
    BY <1>9, Ending DEF PutBack, IInv, Basics
  <2>2. /\ UNCHANGED <<cached, aged>>
        /\ \A t \in Topos, p \in Parts \ clash' : stored'[t][p] = stored[t][p]
        /\ \A t \in Topos : clash' # Parts => (stored'[t] = Absent <=> stored[t] = Absent)
    BY <1>9, PuttingBack DEF IInv
  <2>3. \A q \in Requests : pc'[q] = "insert" =>
          /\ pc[q] = "insert" /\ obj'[q] = obj[q] /\ topo'[q] = topo[q] /\ conf'[obj[q]] = conf[obj[q]]
          /\ topo[q] \in Topos
    BY <2>1 DEF Others, IInv, Basics, TypeOK
  <2>4. \A p \in Parts \ clash' : p \notin clash /\ clash' # Parts
    BY <1>0
  <2>5. clash' = {} => clash = {} /\ "ports" \in Parts \ clash'
    BY <1>0 DEF Parts
  <2> QED
    BY <1>0, <2>2, <2>3, <2>5 DEF BuiltPorts
<1>10. ASSUME NEW r \in Requests, Replaces(r) PROVE BuiltPorts'
  <2>1. PICK c \in Configs : Stores(r, c)
    BY <1>10 DEF Replaces
  <2>2. UNCHANGED <<cached, topo>> /\ Others(r) /\ Outdates(topo[r]) /\ pc'[r] # "insert"
    BY <1>10 DEF Replaces
  <2>3. ASSUME NEW q \in Requests, pc'[q] = "insert", obj'[q] \notin aged'
        PROVE  /\ pc[q] = "insert" /\ obj'[q] = obj[q] /\ conf'[obj[q]] = conf[obj[q]] /\ obj[q] \notin aged
               /\ stored'[topo[q]] = stored[topo[q]]
    <3>1. q # r /\ pc[q] = "insert" /\ obj'[q] = obj[q] /\ conf'[obj[q]] = conf[obj[q]] /\ obj[q] \in Objects
      BY <2>2, <2>3 DEF Others, IInv, Basics, TypeOK
    <3>2. home[obj[q]] = topo[q] /\ obj[q] # None
      BY <3>1, NonesAssumption DEF BuiltAlone, IInv, Basics
    <3>3. topo[q] # topo[r] /\ obj[q] \notin aged
      BY <2>2, <2>3, <3>1, <3>2 DEF Outdates, InUse
    <3> QED
      BY <2>1, <3>1, <3>3 DEF Stores
  <2> QED
    BY <1>0, <2>2, <2>3 DEF BuiltPorts
<1>11. ASSUME NEW r \in Requests, Drop(r) PROVE BuiltPorts'
  <2>1. Others(r) /\ SessionKept /\ pc'[r] = "idle" /\ topo' = topo
    BY <1>11, Ending DEF Drop, IInv, Basics
  <2>2. \A q \in Requests : pc'[q] = "insert" => obj'[q] \in aged'
    BY <1>11, <2>1 DEF Drop, Uncaches, InUse, Others, IInv, Basics, TypeOK
  <2> QED
    BY <2>2 DEF BuiltPorts
<1>12. ASSUME NEW r \in Requests, DropFirst(r) PROVE BuiltPorts'
  <2>1. /\ UNCHANGED <<obj, topo, stored, clash, conf>> /\ \A q \in Requests : pc'[q] = "insert" => pc[q] = "insert"
        /\ Uncaches \/ UNCHANGED <<cached, aged>>
    BY <1>12 DEF DropFirst, IInv, Basics, TypeOK
  <2>2. CASE Uncaches
    <3>1. \A q \in Requests : pc'[q] = "insert" => obj'[q] \in aged'
      BY <2>1, <2>2 DEF Uncaches, InUse, IInv, Basics, TypeOK
    <3> QED
      BY <3>1 DEF BuiltPorts
  <2>3. CASE UNCHANGED <<cached, aged>>
    BY <1>0, <2>1, <2>3 DEF BuiltPorts
  <2> QED
    BY <2>1, <2>2, <2>3
<1>13. CASE UNCHANGED vars
  BY <1>0, <1>13 DEF vars, cache, request, history, BuiltPorts
<1> QED
  BY <1>1, <1>2, <1>3, <1>4, <1>5, <1>6, <1>7, <1>8, <1>9, <1>10, <1>11, <1>12, <1>13, Shapes
     DEF IInv

\* ... that a cached session that is outdated will be dropped,
LEMMA AgedKept ==
  ASSUME IInv, [Next]_vars, clash \subseteq clash' PROVE AgedIsDropped'
<1>0. (clash' # Parts => clash # Parts) /\ clash \subseteq clash' /\ clash' \subseteq Parts /\ AgedIsDropped
  BY TypeKept DEF IInv, Cope, Basics, TypeOK
<1>1. ASSUME NEW r \in Requests, Waits(r) PROVE AgedIsDropped'
  <2>1. UNCHANGED <<stored, cached, home, aged, clash>> /\ pc[r] # "drop" /\ \A q \in Requests \ {r} : pc'[q] = pc[q]
    BY <1>1 DEF Waits, Others, history
  <2> QED
    BY <1>0, <2>1 DEF AgedIsDropped
<1>2. ASSUME NEW r \in Requests, Hit(r) PROVE AgedIsDropped'
  <2>1. UNCHANGED <<stored, cached, home, aged>> /\ \A q \in Requests : pc[q] = "drop" => pc'[q] = "drop"
    BY <1>2 DEF Hit, cache
  <2> QED
    BY <1>0, <2>1 DEF AgedIsDropped
<1>3. ASSUME NEW r \in Requests, Miss(r) PROVE AgedIsDropped'
  BY <1>3 DEF Miss, AgedIsDropped
<1>4. ASSUME NEW r \in Requests, Insert(r) PROVE AgedIsDropped'
  <2>1. UNCHANGED <<stored, home, aged>> /\ \A q \in Requests : pc[q] = "drop" => pc'[q] = "drop"
    BY <1>4 DEF Insert, IInv, Basics, TypeOK
  <2>2. CASE cached = None /\ obj[r] \in aged
    <3>1. clash' = Parts
      BY <1>4, <2>2, <1>0 DEF Insert, AllIf
    <3> QED
      BY <3>1 DEF AgedIsDropped
  <2>3. CASE cached = None /\ obj[r] \notin aged
    BY <1>4, <2>3 DEF Insert, AgedIsDropped
  <2>4. CASE cached # None
    <3>1. cached' = cached
      BY <1>4, <2>4 DEF Insert
    <3> QED
      BY <1>0, <2>1, <3>1 DEF AgedIsDropped
  <2> QED
    BY <2>2, <2>3, <2>4
<1>5. ASSUME NEW r \in Requests, Leave(r) PROVE AgedIsDropped'
  <2>1. Others(r) /\ SessionKept /\ pc'[r] = "idle" /\ topo' = topo
    BY <1>5, Ending DEF Leave, IInv, Basics
  <2>2. UNCHANGED <<stored, cached, home, aged>> /\ pc[r] # "drop"
    BY <1>5 DEF Leave
  <2> QED
    BY <1>0, <2>1, <2>2 DEF Others, AgedIsDropped
<1>6. ASSUME NEW r \in Requests, Runs(r) PROVE AgedIsDropped'
  <2>1. UNCHANGED <<stored, cached, home, aged>> /\ pc[r] # "drop" /\ \A q \in Requests \ {r} : pc'[q] = pc[q]
    BY <1>6 DEF Runs
  <2> QED
    BY <1>0, <2>1 DEF AgedIsDropped
<1>7. ASSUME NEW r \in Requests, Save(r) PROVE AgedIsDropped'
  <2>1. UNCHANGED <<cached, aged>>
    BY <1>7 DEF Save
  <2>2. clash' # Parts => cached \notin aged
    BY <1>7, Saving
  <2> QED
    BY <2>1, <2>2 DEF AgedIsDropped
<1>8. ASSUME NEW r \in Requests, NotSaved(r) PROVE AgedIsDropped'
  <2>1. Others(r) /\ SessionKept /\ pc'[r] = "idle" /\ topo' = topo
    BY <1>8, Ending DEF NotSaved, IInv, Basics
  <2>2. UNCHANGED <<stored, cached, home, aged>> /\ pc[r] # "drop"
    BY <1>8 DEF NotSaved
  <2> QED
    BY <1>0, <2>1, <2>2 DEF Others, AgedIsDropped
<1>9. ASSUME NEW r \in Requests, PutBack(r) PROVE AgedIsDropped'
  <2>1. Others(r) /\ SessionKept /\ pc'[r] = "idle" /\ topo' = topo
    BY <1>9, Ending DEF PutBack, IInv, Basics
  <2>2. /\ UNCHANGED <<cached, home, aged>> /\ pc[r] = "edit"
        /\ \A t \in Topos : clash' # Parts => (stored'[t] = Absent <=> stored[t] = Absent)
    BY <1>9, PuttingBack DEF IInv
  <2>3. cached' # None => home[cached] \in Topos
    BY <2>2 DEF IInv, Basics, TypeOK
  <2> QED
    BY <1>0, <2>1, <2>2, <2>3 DEF Others, AgedIsDropped
<1>10. ASSUME NEW r \in Requests, Replaces(r) PROVE AgedIsDropped'
  <2>0. PICK c \in Configs : Stores(r, c)
    BY <1>10 DEF Replaces
  <2>1. /\ UNCHANGED <<cached, home, topo>> /\ Outdates(topo[r]) /\ pc[r] # "drop"
        /\ \A q \in Requests \ {r} : pc'[q] = pc[q]
    BY <1>10 DEF Replaces, Others
  <2>2. CASE pc'[r] = "drop"
    BY <2>2 DEF AgedIsDropped
  <2>3. CASE cached # None /\ home[cached] # topo[r]
    <3>1. cached \in Objects /\ home[cached] \in Topos
      BY <2>3 DEF IInv, Basics, TypeOK
    <3>2. stored'[home[cached]] = stored[home[cached]]
      BY <2>0, <2>3 DEF Stores
    <3>3. cached \in aged' => cached \in aged
      BY <2>1, <2>3 DEF Outdates
    <3> QED
      BY <1>0, <2>1, <3>2, <3>3 DEF AgedIsDropped
  <2>4. CASE cached # None /\ home[cached] = topo[r] /\ pc'[r] = "idle"
    <3>1. clash' = Parts \/ stored'[topo[r]] = Absent
      BY <1>10, <2>4 DEF Replaces
    <3> QED
      BY <2>1, <2>4, <3>1 DEF AgedIsDropped
  <2>5. CASE cached = None
    BY <2>1, <2>5 DEF AgedIsDropped
  <2> QED
    BY <1>10, <2>2, <2>3, <2>4, <2>5 DEF Replaces
<1>11. ASSUME NEW r \in Requests, Drop(r) PROVE AgedIsDropped'
  BY <1>11 DEF Drop, Uncaches, AgedIsDropped
<1>12. ASSUME NEW r \in Requests, DropFirst(r) PROVE AgedIsDropped'
  <2>1. /\ UNCHANGED <<home, stored, clash>> /\ \A q \in Requests : pc[q] = "drop" => pc'[q] = "drop"
        /\ Uncaches \/ UNCHANGED <<cached, aged>>
    BY <1>12 DEF DropFirst, IInv, Basics, TypeOK
  <2> QED
    BY <1>0, <2>1 DEF Uncaches, AgedIsDropped
<1>13. CASE UNCHANGED vars
  BY <1>0, <1>13 DEF vars, cache, history, AgedIsDropped
<1> QED
  BY <1>1, <1>2, <1>3, <1>4, <1>5, <1>6, <1>7, <1>8, <1>9, <1>10, <1>11, <1>12, <1>13, Shapes
     DEF IInv

\* ... that what a command saves of its copy nobody has stored since,
LEMMA SavesKept ==
  ASSUME IInv, [Next]_vars, clash \subseteq clash' PROVE SavesFresh'
<1>0. (clash' # Parts => clash # Parts) /\ clash \subseteq clash' /\ clash' \subseteq Parts /\ SavesFresh
  BY TypeKept DEF IInv, Cope, Basics, TypeOK
<1>1. ASSUME NEW r \in Requests, Waits(r) PROVE SavesFresh'
  <2>1. /\ UNCHANGED <<conf, obj, aged, stale, clash>> /\ pc'[r] # "save"
        /\ \A q \in Requests \ {r} : pc'[q] = pc[q] /\ kind'[q] = kind[q] /\ snap'[q] = snap[q]
    BY <1>1 DEF Waits, Others, history
  <2> QED
    BY <1>0, <2>1 DEF SavesFresh
<1>2. ASSUME NEW r \in Requests, Hit(r) PROVE SavesFresh'
  <2>1. /\ UNCHANGED <<conf, aged, stale, kind, snap>>
        /\ \A q \in Requests : pc'[q] = "save" => pc[q] = "save" /\ obj'[q] = obj[q]
    BY <1>2 DEF Hit, cache
  <2> QED
    BY <1>0, <2>1 DEF SavesFresh
<1>3. ASSUME NEW r \in Requests, Miss(r) PROVE SavesFresh'
  <2>1. /\ UNCHANGED <<stale, kind, snap>>
        /\ \A q \in Requests : pc'[q] = "save" => pc[q] = "save" /\ obj'[q] = obj[q]
        /\ \A q \in Requests : pc'[q] = "save" => conf'[obj[q]] = conf[obj[q]] /\ (obj[q] \notin aged' => obj[q] \notin aged)
    BY <1>3 DEF Miss, IInv, Basics, TypeOK
  <2> QED
    BY <1>0, <2>1 DEF SavesFresh
<1>4. ASSUME NEW r \in Requests, Insert(r) PROVE SavesFresh'
  <2>1. /\ UNCHANGED <<conf, aged, stale, kind, snap>>
        /\ \A q \in Requests : pc'[q] = "save" => pc[q] = "save" /\ obj'[q] = obj[q]
    BY <1>4 DEF Insert
  <2> QED
    BY <1>0, <2>1 DEF SavesFresh
<1>5. ASSUME NEW r \in Requests, Leave(r) PROVE SavesFresh'
  <2>1. Others(r) /\ SessionKept /\ pc'[r] = "idle" /\ topo' = topo
    BY <1>5, Ending DEF Leave, IInv, Basics
  <2>3. \A q \in Requests : pc'[q] = "save" =>
          /\ pc[q] = "save" /\ q # r /\ obj'[q] = obj[q] /\ kind'[q] = kind[q] /\ conf'[obj[q]] = conf[obj[q]]
    BY <2>1 DEF Others, IInv, Basics, TypeOK
  <2>2. aged' = aged /\ \A q \in Requests \ {r} : snap'[q] = snap[q] /\ stale'[q] = stale[q]
    BY <1>5 DEF Leave, Forgets
  <2> QED
    BY <1>0, <2>2, <2>3 DEF SavesFresh
<1>6. ASSUME NEW r \in Requests, Runs(r) PROVE SavesFresh'
  <2>0. /\ pc[r] = "use" /\ pc'[r] = "save" /\ UNCHANGED <<stored, cached, kind, topo, obj, home, acked, aged, clash>>
        /\ \A q \in Requests \ {r} : pc'[q] = pc[q] /\ snap'[q] = snap[q] /\ stale'[q] = stale[q]
    BY <1>6 DEF Runs
  <2>1. PICK parts \in SUBSET Parts : NewEdit(parts) /\ conf' = [conf EXCEPT ![obj[r]] = Edited(conf[obj[r]], parts)]
    BY <1>6 DEF Runs, Given, Parts
  <2>2. obj[r] \in Objects /\ conf \in [Objects -> Configs] /\ topo[r] \in Topos /\ (obj[r] = cached => cached # None)
    BY <2>0, NonesAssumption DEF IInv, Basics, TypeOK
  <2>3. \A q \in Requests, p \in Parts : pc[q] = "save" => conf[obj[q]][p] \subseteq conf'[obj[q]][p]
    <3>1. \A q \in Requests : pc[q] = "save" => obj[q] \in Objects
      BY DEF IInv, Basics, TypeOK
    <3>2. \A c \in Configs, p \in Parts : c[p] \subseteq Edited(c, parts)[p]
      BY <2>1, Editing DEF IInv, Basics
    <3> QED
      BY <2>1, <2>2, <3>1, <3>2
  <2>4. ASSUME obj[r] \notin aged, "ports" \notin clash PROVE stored[topo[r]]["ports"] \subseteq conf[obj[r]]["ports"]
    <3>1. obj[r] = cached /\ home[cached] = topo[r]
      BY <2>0, <2>4 DEF UsesCached, Parts, IInv, Cope
    <3>2. cached # None /\ Absent["ports"] = {}
      BY <2>2, <3>1 DEF Absent, Parts
    <3> QED
      BY <2>4, <3>1, <3>2 DEF CacheAgrees, IInv, Cope
  <2>5. "ports" \in Parts /\ conf[obj[r]]["ports"] \subseteq conf'[obj[r]]["ports"]
    <3>1. \A c \in Configs, p \in Parts : c[p] \subseteq Edited(c, parts)[p]
      BY <2>1, Editing DEF IInv, Basics
    <3> QED
      BY <2>1, <2>2, <3>1 DEF Parts
  <2>6. (kind[r] = "cli" => stale'[r] = {}) /\
        (obj[r] \notin aged /\ "ports" \notin clash /\ "ports" \notin stale'[r] => snap'[r]["ports"] \subseteq conf'[obj[r]]["ports"])
    <3>1. CASE RunCommand(r)
      <4>1. snap'[r] = stored[topo[r]] /\ stale'[r] = {}
        BY <3>1 DEF RunCommand, IInv, Basics, TypeOK
      <4> QED
        BY <2>4, <2>5, <4>1
    <3>2. CASE RunIPConfig(r)
      <4>1. PICK ps \in Given : /\ NewEdit(ps) /\ conf'[obj[r]] = Edited(conf[obj[r]], ps)
                                /\ snap'[r] = Edited(snap[r], ps \ {"data"})
        BY <3>2 DEF RunIPConfig, IInv, Basics, TypeOK
      <4>2. stale' = stale /\ HasCopy(r) /\ kind[r] = "ip" /\ pc[r] # "save"
        BY <3>2 DEF RunIPConfig, HasCopy, history
      <4>3. "ports" \notin stale[r] => stored[topo[r]]["ports"] = snap[r]["ports"]
        BY <2>5, <4>2 DEF CopyLatest, IInv, Basics
      <4>4. snap[r]["ports"] \subseteq conf[obj[r]]["ports"] => snap'[r]["ports"] \subseteq conf'[obj[r]]["ports"]
        BY <2>5, <4>1 DEF Edited
      <4> QED
        BY <2>4, <4>2, <4>3, <4>4
    <3> QED
      BY <1>6, <3>1, <3>2 DEF Runs
  <2> QED
    BY <1>0, <2>0, <2>3, <2>6 DEF SavesFresh
<1>7. ASSUME NEW r \in Requests, Save(r) PROVE SavesFresh'
  <2>1. Others(r) /\ SessionKept /\ pc'[r] = "idle" /\ topo' = topo
    BY <1>7, Ending DEF Save, IInv, Basics
  <2>2. \A q \in Requests : pc'[q] # "save"
    <3>1. lock = r /\ pc[r] = "save"
      BY <1>7 DEF Save, KindsFit, IInv, Basics, TypeOK
    <3> QED
      BY <2>1, <3>1 DEF Others, KindsFit, IInv, Basics, TypeOK
  <2> QED
    BY <2>2 DEF SavesFresh
<1>8. ASSUME NEW r \in Requests, NotSaved(r) PROVE SavesFresh'
  <2>1. Others(r) /\ SessionKept /\ pc'[r] = "idle" /\ topo' = topo
    BY <1>8, Ending DEF NotSaved, IInv, Basics
  <2>3. \A q \in Requests : pc'[q] = "save" =>
          /\ pc[q] = "save" /\ q # r /\ obj'[q] = obj[q] /\ kind'[q] = kind[q] /\ conf'[obj[q]] = conf[obj[q]]
    BY <2>1 DEF Others, IInv, Basics, TypeOK
  <2>2. aged' = aged /\ \A q \in Requests \ {r} : snap'[q] = snap[q] /\ stale'[q] = stale[q]
    BY <1>8 DEF NotSaved, Forgets
  <2> QED
    BY <1>0, <2>2, <2>3 DEF SavesFresh
<1>9. ASSUME NEW r \in Requests, PutBack(r) PROVE SavesFresh'
  <2>1. Others(r) /\ SessionKept /\ pc'[r] = "idle" /\ topo' = topo
    BY <1>9, Ending DEF PutBack, IInv, Basics
  <2>3. \A q \in Requests : pc'[q] = "save" =>
          /\ pc[q] = "save" /\ q # r /\ obj'[q] = obj[q] /\ kind'[q] = kind[q] /\ conf'[obj[q]] = conf[obj[q]]
    BY <2>1 DEF Others, IInv, Basics, TypeOK
  <2>2. /\ aged' = aged /\ \A t \in Topos, p \in Parts \ clash' : stored'[t][p] = stored[t][p]
    BY <1>9, PuttingBack DEF IInv
  <2>4. ASSUME NEW q \in Requests \ {r} PROVE snap'[q] = snap[q] /\ stale'[q] \subseteq stale[q] \cup clash' /\ stale[q] \subseteq stale'[q]
    <3>1. CASE Forgets(r)
      BY <3>1 DEF Forgets, IInv, Basics, TypeOK
    <3>2. CASE Stores(r, snap[r])
      <4>1. topo[r] \in Topos /\ stored'[topo[r]] = snap[r]
        BY <3>2 DEF Stores, IInv, Basics, TypeOK
      <4>2. {p \in Parts : snap[r][p] # stored[topo[r]][p]} \subseteq clash'
        BY <2>2, <4>1
      <4>3. snap'[q] = snap[q] /\ stale'[q] \in {stale[q], stale[q] \cup {p \in Parts : snap[r][p] # stored[topo[r]][p]}}
        BY <3>2 DEF Stores, IInv, Basics, TypeOK
      <4> QED
        BY <4>2, <4>3
    <3> QED
      BY <1>9, <3>1, <3>2 DEF PutBack
  <2> QED
    BY <1>0, <2>2, <2>3, <2>4 DEF SavesFresh
<1>10. ASSUME NEW r \in Requests, Replaces(r) PROVE SavesFresh'
  <2>0. PICK c \in Configs : Stores(r, c)
    BY <1>10 DEF Replaces
  <2>1. UNCHANGED <<cached, home, topo>> /\ Outdates(topo[r]) /\ Others(r) /\ pc'[r] # "save"
    BY <1>10 DEF Replaces
  <2>2. ASSUME NEW q \in Requests, pc'[q] = "save", obj'[q] \notin aged', clash' # Parts
        PROVE  /\ pc[q] = "save" /\ obj'[q] = obj[q] /\ kind'[q] = kind[q] /\ conf'[obj[q]] = conf[obj[q]]
               /\ obj[q] \notin aged /\ snap'[q] = snap[q] /\ stale'[q] = stale[q]
    <3>1. q # r /\ pc[q] = "save" /\ obj'[q] = obj[q] /\ kind'[q] = kind[q] /\ conf'[obj[q]] = conf[obj[q]] /\ obj[q] \in Objects
      BY <2>1, <2>2 DEF Others, IInv, Basics, TypeOK
    <3>2. obj[q] \notin aged
      BY <2>1, <2>2, <3>1 DEF Outdates
    <3>3. home[obj[q]] = topo[q] /\ obj[q] # None
      BY <1>0, <2>2, <3>1, <3>2, NonesAssumption DEF UsesCached, IInv, Cope
    <3>4. topo[q] # topo[r]
      BY <2>1, <2>2, <3>1, <3>3 DEF Outdates, InUse
    <3>5. snap'[q] = snap[q] /\ stale'[q] = stale[q]
      BY <2>0, <3>4 DEF Stores
    <3> QED
      BY <3>1, <3>2, <3>5
  <2>3. \A p \in Parts \ clash' : clash' # Parts
    BY <1>0
  <2> QED
    BY <1>0, <2>2, <2>3 DEF SavesFresh
<1>11. ASSUME NEW r \in Requests, Drop(r) PROVE SavesFresh'
  <2>1. Others(r) /\ SessionKept /\ pc'[r] = "idle" /\ topo' = topo
    BY <1>11, Ending DEF Drop, IInv, Basics
  <2>2. \A q \in Requests : pc'[q] = "save" => obj'[q] \in aged'
    BY <1>11, <2>1 DEF Drop, Uncaches, InUse, Others, IInv, Basics, TypeOK
  <2> QED
    BY <2>2 DEF SavesFresh
<1>12. ASSUME NEW r \in Requests, DropFirst(r) PROVE SavesFresh'
  <2>1. /\ UNCHANGED <<obj, kind, conf>> /\ \A q \in Requests : pc'[q] = "save" => pc[q] = "save" /\ q # r
        /\ (Uncaches \/ UNCHANGED <<cached, aged>>) /\ \A q \in Requests \ {r} : snap'[q] = snap[q] /\ stale'[q] = stale[q]
    BY <1>12 DEF DropFirst, Forgets
  <2>2. CASE Uncaches
    <3>1. \A q \in Requests : pc'[q] = "save" => obj'[q] \in aged'
      BY <2>1, <2>2 DEF Uncaches, InUse, IInv, Basics, TypeOK
    <3> QED
      BY <3>1 DEF SavesFresh
  <2>3. CASE UNCHANGED <<cached, aged>>
    BY <1>0, <2>1, <2>3 DEF SavesFresh
  <2> QED
    BY <2>1, <2>2, <2>3
<1>13. CASE UNCHANGED vars
  BY <1>0, <1>13 DEF vars, cache, request, history, SavesFresh
<1> QED
  BY <1>1, <1>2, <1>3, <1>4, <1>5, <1>6, <1>7, <1>8, <1>9, <1>10, <1>11, <1>12, <1>13, Shapes
     DEF IInv

\* ... that the cached session agrees with the device it was built from,
LEMMA AgreesKept ==
  ASSUME IInv, [Next]_vars, clash \subseteq clash' PROVE CacheAgrees'
<1>0. (clash' # Parts => clash # Parts) /\ clash \subseteq clash' /\ clash' \subseteq Parts /\ CacheAgrees
  BY TypeKept DEF IInv, Cope, Basics, TypeOK
<1>1. ASSUME NEW r \in Requests, Waits(r) PROVE CacheAgrees'
  <2>1. /\ UNCHANGED <<stored, cached, conf, home, obj, aged, clash>>
        /\ \A q \in Requests : pc[q] = "save" <=> pc'[q] = "save"
    BY <1>1 DEF Waits, Others, history
  <2> QED
    BY <1>0, <2>1 DEF CacheAgrees
<1>2. ASSUME NEW r \in Requests, Hit(r) PROVE CacheAgrees'
  <2>1. /\ UNCHANGED <<stored, cached, conf, home, aged>>
        /\ \A q \in Requests : pc[q] = "save" => pc'[q] = "save" /\ obj'[q] = obj[q]
    BY <1>2 DEF Hit, cache
  <2> QED
    BY <1>0, <2>1 DEF CacheAgrees
<1>3. ASSUME NEW r \in Requests, Miss(r) PROVE CacheAgrees'
  BY <1>3 DEF Miss, CacheAgrees
<1>4. ASSUME NEW r \in Requests, Insert(r) PROVE CacheAgrees'
  <2>1. /\ UNCHANGED <<stored, conf, home, aged>> /\ pc[r] = "insert"
        /\ \A q \in Requests : pc[q] = "save" => pc'[q] = "save" /\ obj'[q] = obj[q]
    BY <1>4 DEF Insert, IInv, Basics, TypeOK
  <2>2. CASE cached # None
    <3>1. cached' = cached
      BY <1>4, <2>2 DEF Insert
    <3> QED
      BY <1>0, <2>1, <3>1 DEF CacheAgrees
  <2>3. CASE cached = None
    <3>1. cached' = obj[r] /\ home[obj[r]] = topo[r]
      BY <1>4, <2>3 DEF Insert, BuiltAlone, IInv, Basics
    <3>2. obj[r] \notin aged => \A p \in Parts \ clash : stored[topo[r]] = Absent \/ stored[topo[r]][p] = conf[obj[r]][p]
      BY <2>1, <2>3 DEF BuiltAsStored, IInv, Cope
    <3>3. obj[r] \notin aged /\ clash = {} => conf[obj[r]]["ports"] \subseteq stored[topo[r]]["ports"] \cup conf[obj[r]]["data"]
      BY <2>1, <2>3 DEF BuiltPorts, IInv, Cope
    <3> QED
      BY <2>1, <3>1, <3>2, <3>3 DEF CacheAgrees, Parts
  <2> QED
    BY <2>2, <2>3
<1>5. ASSUME NEW r \in Requests, Leave(r) PROVE CacheAgrees'
  <2>1. Others(r) /\ SessionKept /\ pc'[r] = "idle" /\ topo' = topo
    BY <1>5, Ending DEF Leave, IInv, Basics
  <2>2. UNCHANGED <<stored, cached, home, aged>> /\ pc[r] = "use"
    BY <1>5 DEF Leave
  <2>3. cached # None => conf'[cached] = conf[cached]
    BY <2>1, <2>2 DEF SessionKept, IInv, Basics, TypeOK
  <2>4. \A q \in Requests : pc[q] = "save" => pc'[q] = "save" /\ obj'[q] = obj[q]
    BY <2>1, <2>2 DEF Others
  <2> QED
    BY <1>0, <2>2, <2>3, <2>4 DEF CacheAgrees
<1>6. ASSUME NEW r \in Requests, Runs(r) PROVE CacheAgrees'
  <2>0. /\ pc'[r] = "save" /\ UNCHANGED <<stored, cached, obj, home, aged, clash>>
        /\ \A q \in Requests : pc[q] = "save" => pc'[q] = "save"
    BY <1>6 DEF Runs
  <2>1. PICK parts \in Given : NewEdit(parts) /\ conf' = [conf EXCEPT ![obj[r]] = Edited(conf[obj[r]], parts)]
    BY <1>6 DEF Runs
  <2>2. obj[r] \in Objects /\ conf \in [Objects -> Configs]
    BY <1>6 DEF Runs, IInv, Basics, TypeOK
  <2>3. CASE cached # obj[r] /\ cached # None
    <3>1. conf'[cached] = conf[cached]
      BY <2>1, <2>2, <2>3
    <3> QED
      BY <1>0, <2>0, <3>1 DEF CacheAgrees
  <2>4. CASE cached = obj[r]
    <3>1. /\ conf[cached]["data"] \subseteq conf'[cached]["data"] /\ conf[cached]["ports"] \subseteq conf'[cached]["ports"]
          /\ conf'[cached]["ports"] \subseteq conf[cached]["ports"] \cup conf'[cached]["data"]
      BY <2>1 DEF Edited, Given, Parts
    <3> QED
      BY <1>0, <2>0, <2>4, <3>1 DEF CacheAgrees
  <2>5. CASE cached = None
    BY <2>0, <2>5 DEF CacheAgrees
  <2> QED
    BY <2>3, <2>4, <2>5
<1>7. ASSUME NEW r \in Requests, Save(r) PROVE CacheAgrees'
  <2>1. Others(r) /\ SessionKept /\ pc'[r] = "idle" /\ topo' = topo
    BY <1>7, Ending DEF Save, IInv, Basics
  <2>2. CASE clash' = Parts
    BY <2>2 DEF CacheAgrees, Parts
  <2>3. CASE clash' # Parts
    <3>1. /\ obj[r] \notin aged /\ obj[r] = cached /\ cached \in Objects /\ cached # None
          /\ home[cached] = topo[r] /\ topo[r] \in Topos
          /\ stored' = [stored EXCEPT ![topo[r]] = [snap[r] EXCEPT !["data"] = conf[cached]["data"]]]
          /\ "ports" \notin clash' => "ports" \notin stale[r] /\ "ports" \notin clash
      BY <1>7, <2>3, Saving
    <3>2. UNCHANGED <<cached, home, aged>> /\ pc[r] = "save" /\ conf'[cached] = conf[cached]
      BY <1>7, <2>1, <3>1 DEF Save, SessionKept
    <3>3. stored'[topo[r]]["data"] = conf[cached]["data"] /\ stored'[topo[r]]["ports"] = snap[r]["ports"]
      BY <3>1 DEF Configs, Parts, IInv, Basics, TypeOK
    <3>4. "ports" \notin clash' => snap[r]["ports"] \subseteq conf[cached]["ports"]
      BY <3>1, <3>2 DEF SavesFresh, Parts, IInv, Cope
    <3>5. "ports" \notin clash' => stored[topo[r]]["ports"] \subseteq snap[r]["ports"]
      BY <3>1, <3>2 DEF CopyLatest, HasCopy, Parts, IInv, Basics
    <3>6. clash = {} => conf[cached]["ports"] \subseteq stored[topo[r]]["ports"] \cup conf[cached]["data"]
      BY <1>0, <3>1 DEF CacheAgrees
    <3> QED
      BY <3>1, <3>2, <3>3, <3>4, <3>5, <3>6 DEF CacheAgrees
  <2> QED
    BY <2>2, <2>3
<1>8. ASSUME NEW r \in Requests, NotSaved(r) PROVE CacheAgrees'
  <2>1. Others(r) /\ SessionKept /\ pc'[r] = "idle" /\ topo' = topo
    BY <1>8, Ending DEF NotSaved, IInv, Basics
  <2>2. UNCHANGED <<stored, cached, home, aged>> /\ pc[r] = "save" /\ clash' = clash \cup AllIf(snap[r] # Absent)
    BY <1>8 DEF NotSaved
  <2>3. cached # None => conf'[cached] = conf[cached]
    BY <2>1, <2>2 DEF SessionKept, IInv, Basics, TypeOK
  <2>4. CASE snap[r] # Absent
    <3>1. clash' = Parts
      BY <1>0, <2>2, <2>4 DEF AllIf
    <3> QED
      BY <3>1 DEF CacheAgrees, Parts
  <2>5. CASE snap[r] = Absent /\ obj[r] # cached
    <3>1. \A q \in Requests : pc[q] = "save" /\ obj[q] = cached => pc'[q] = "save" /\ obj'[q] = cached
      BY <2>1, <2>5 DEF Others
    <3> QED
      BY <1>0, <2>2, <2>3, <3>1 DEF CacheAgrees
  <2>6. CASE snap[r] = Absent /\ obj[r] = cached
    <3>1. kind[r] = "cli" /\ HasCopy(r) /\ topo[r] \in Topos
      BY <2>2, <2>6 DEF Filled, KindsFit, HasCopy, Locked, IInv, Basics, TypeOK
    <3>2. ASSUME cached \notin aged, "data" \notin clash PROVE stored[topo[r]] = Absent /\ home[cached] = topo[r]
      <4>1. "data" \notin stale[r]
        BY <2>2, <2>6, <3>1, <3>2 DEF SavesFresh, Parts, IInv, Cope
      <4>2. stored[topo[r]]["data"] = snap[r]["data"]
        BY <3>1, <4>1 DEF CopyLatest, Parts, IInv, Basics
      <4>3. Absent["data"] = {} /\ "data" \in Parts
        BY DEF Absent, Parts
      <4>4. stored[topo[r]] = Absent
        BY <2>6, <3>1, <4>2, <4>3 DEF Filled, Full, IInv, Basics
      <4> QED
        BY <2>2, <2>6, <3>2, <4>4, <4>3 DEF UsesCached, IInv, Cope
    <3> QED
      BY <1>0, <2>2, <2>3, <3>2 DEF CacheAgrees
  <2> QED
    BY <2>4, <2>5, <2>6
<1>9. ASSUME NEW r \in Requests, PutBack(r) PROVE CacheAgrees'
  <2>1. Others(r) /\ SessionKept /\ pc'[r] = "idle" /\ topo' = topo
    BY <1>9, Ending DEF PutBack, IInv, Basics
  <2>2. /\ UNCHANGED <<cached, home, aged>> /\ pc[r] = "edit"
        /\ \A t \in Topos, p \in Parts \ clash' : stored'[t][p] = stored[t][p]
        /\ \A t \in Topos : clash' # Parts => (stored'[t] = Absent <=> stored[t] = Absent)
    BY <1>9, PuttingBack DEF IInv
  <2>3. cached # None => conf'[cached] = conf[cached] /\ home[cached] \in Topos
    BY <2>1, <2>2 DEF SessionKept, IInv, Basics, TypeOK
  <2>4. \A q \in Requests : pc[q] = "save" => pc'[q] = "save" /\ obj'[q] = obj[q]
    BY <2>1, <2>2 DEF Others
  <2>5. "data" \in Parts /\ "ports" \in Parts
    BY DEF Parts
  <2>6. \A t \in Topos : /\ "data" \notin clash' => stored'[t]["data"] = stored[t]["data"] /\ (stored'[t] = Absent <=> stored[t] = Absent)
                         /\ "ports" \notin clash' => stored'[t]["ports"] = stored[t]["ports"] /\ (stored'[t] = Absent <=> stored[t] = Absent)
    BY <2>2, <2>5
  <2>7. /\ "data" \notin clash' => "data" \notin clash
        /\ "ports" \notin clash' => "ports" \notin clash
        /\ clash' = {} => clash = {} /\ "ports" \notin clash'
    BY <1>0
  <2>8. ASSUME cached # None, cached \notin aged
        PROVE  /\ stored'[home[cached]] # Absent =>
                    /\ "data" \notin clash' => stored'[home[cached]]["data"] \subseteq conf[cached]["data"]
                    /\ "data" \notin clash' /\ (\A q \in Requests : pc[q] = "save" => obj[q] # cached)
                         => conf[cached]["data"] \subseteq stored'[home[cached]]["data"]
                    /\ "ports" \notin clash' => stored'[home[cached]]["ports"] \subseteq conf[cached]["ports"]
               /\ clash' = {} => conf[cached]["ports"] \subseteq stored'[home[cached]]["ports"] \cup conf[cached]["data"]
    <3>1. PICK t \in Topos : t = home[cached]
      BY <2>3, <2>8
    <3>2. /\ stored[t] # Absent =>
               /\ "data" \notin clash => stored[t]["data"] \subseteq conf[cached]["data"]
               /\ "data" \notin clash /\ (\A q \in Requests : pc[q] = "save" => obj[q] # cached)
                    => conf[cached]["data"] \subseteq stored[t]["data"]
               /\ "ports" \notin clash => stored[t]["ports"] \subseteq conf[cached]["ports"]
          /\ clash = {} => conf[cached]["ports"] \subseteq stored[t]["ports"] \cup conf[cached]["data"]
      BY <1>0, <2>8, <3>1 DEF CacheAgrees
    <3>3. /\ "data" \notin clash' => stored'[t]["data"] = stored[t]["data"] /\ (stored'[t] = Absent <=> stored[t] = Absent)
          /\ "ports" \notin clash' => stored'[t]["ports"] = stored[t]["ports"] /\ (stored'[t] = Absent <=> stored[t] = Absent)
      BY <2>6
    <3> QED
      BY <2>7, <3>1, <3>2, <3>3
  <2>9. (\A q \in Requests : pc'[q] = "save" => obj'[q] # cached) => \A q \in Requests : pc[q] = "save" => obj[q] # cached
    BY <2>4
  <2> QED
    BY <2>2, <2>3, <2>8, <2>9 DEF CacheAgrees
<1>10. ASSUME NEW r \in Requests, Replaces(r) PROVE CacheAgrees'
  <2>0. PICK c \in Configs : Stores(r, c)
    BY <1>10 DEF Replaces
  <2>1. UNCHANGED <<cached, home, topo>> /\ Outdates(topo[r]) /\ Others(r) /\ SessionKept /\ pc[r] # "save"
    BY <1>10 DEF Replaces
  <2>2. CASE cached # None /\ home[cached] = topo[r]
    BY <2>1, <2>2 DEF Outdates, CacheAgrees
  <2>3. CASE cached # None /\ home[cached] # topo[r]
    <3>1. stored'[home[cached]] = stored[home[cached]] /\ conf'[cached] = conf[cached] /\ aged \subseteq aged'
      BY <2>0, <2>1, <2>3 DEF Stores, SessionKept, Outdates, IInv, Basics, TypeOK
    <3>2. \A q \in Requests : pc[q] = "save" => pc'[q] = "save" /\ obj'[q] = obj[q]
      BY <2>1 DEF Others
    <3> QED
      BY <1>0, <2>1, <3>1, <3>2 DEF CacheAgrees
  <2>4. CASE cached = None
    BY <2>1, <2>4 DEF CacheAgrees
  <2> QED
    BY <2>2, <2>3, <2>4
<1>11. ASSUME NEW r \in Requests, Drop(r) PROVE CacheAgrees'
  BY <1>11 DEF Drop, Uncaches, CacheAgrees
<1>12. ASSUME NEW r \in Requests, DropFirst(r) PROVE CacheAgrees'
  <2>1. /\ UNCHANGED <<stored, home, obj, conf, clash>> /\ (Uncaches \/ UNCHANGED <<cached, aged>>)
        /\ \A q \in Requests : pc[q] = "save" => pc'[q] = "save"
    BY <1>12 DEF DropFirst, IInv, Basics, TypeOK
  <2> QED
    BY <1>0, <2>1 DEF Uncaches, CacheAgrees
<1>13. CASE UNCHANGED vars
  BY <1>0, <1>13 DEF vars, cache, request, history, CacheAgrees
<1> QED
  BY <1>1, <1>2, <1>3, <1>4, <1>5, <1>6, <1>7, <1>8, <1>9, <1>10, <1>11, <1>12, <1>13, Shapes
     DEF IInv

\* ... and that what was answered is stored.
LEMMA AckedKept ==
  ASSUME IInv, [Next]_vars, clash \subseteq clash' PROVE AckedStored'
<1>0. (clash' # Parts => clash # Parts) /\ clash \subseteq clash' /\ clash' \subseteq Parts /\ AckedStored
  BY TypeKept DEF IInv, Cope, Basics, TypeOK
<1>a. CASE clash' = Parts
  BY <1>a DEF AckedStored
<1>b. SUFFICES ASSUME clash' # Parts PROVE AckedStored'
  BY <1>a
<1>1. ASSUME NEW r \in Requests, Waits(r) PROVE AckedStored'
  BY <1>0, <1>1 DEF Waits, history, AckedStored
<1>2. ASSUME NEW r \in Requests, Hit(r) PROVE AckedStored'
  <2>1. UNCHANGED <<stored, acked>>
    BY <1>2, <1>b DEF Hit, Records
  <2> QED
    BY <1>0, <2>1 DEF AckedStored
<1>3. ASSUME NEW r \in Requests, Miss(r) PROVE AckedStored'
  <2>1. UNCHANGED <<stored, acked>>
    BY <1>3 DEF Miss
  <2> QED
    BY <1>0, <2>1 DEF AckedStored
<1>4. ASSUME NEW r \in Requests, Insert(r) PROVE AckedStored'
  <2>1. UNCHANGED <<stored, acked>>
    BY <1>4, <1>b DEF Insert, Records
  <2> QED
    BY <1>0, <2>1 DEF AckedStored
<1>5. ASSUME NEW r \in Requests, Leave(r) PROVE AckedStored'
  <2>1. UNCHANGED <<stored, acked>>
    BY <1>5 DEF Leave
  <2> QED
    BY <1>0, <2>1 DEF AckedStored
<1>6. ASSUME NEW r \in Requests, Runs(r) PROVE AckedStored'
  BY <1>0, <1>6 DEF Runs, AckedStored
<1>7. ASSUME NEW r \in Requests, Save(r) PROVE AckedStored'
  <2>1. CASE clash' = Parts
    BY <2>1 DEF AckedStored
  <2>2. CASE clash' # Parts
    <3>1. /\ obj[r] \notin aged /\ obj[r] = cached /\ cached \in Objects /\ cached # None
          /\ home[cached] = topo[r] /\ topo[r] \in Topos
          /\ stored' = [stored EXCEPT ![topo[r]] = [snap[r] EXCEPT !["data"] = conf[cached]["data"]]]
          /\ "ports" \notin clash' => "ports" \notin stale[r] /\ "ports" \notin clash
      BY <1>7, <2>2, Saving
    <3>2. pc[r] = "save" /\ acked' = [acked EXCEPT ![topo[r]] = Both(acked[topo[r]], [snap[r] EXCEPT !["data"] = conf[obj[r]]["data"]])]
      BY <1>7, <2>2 DEF Save, Records
    <3>3. stored'[topo[r]]["data"] = conf[cached]["data"] /\ stored'[topo[r]]["ports"] = snap[r]["ports"]
      BY <3>1 DEF Configs, Parts, IInv, Basics, TypeOK
    <3>4. acked' = [acked EXCEPT ![topo[r]] = [p \in Parts |-> acked[topo[r]][p] \cup stored'[topo[r]][p]]]
      BY <3>1, <3>2 DEF Both, IInv, Basics, TypeOK
    <3>5. "ports" \notin clash' => stored[topo[r]]["ports"] \subseteq snap[r]["ports"]
      BY <3>1, <3>2 DEF CopyLatest, HasCopy, Parts, IInv, Basics
    <3>6. "data" \notin clash' => stored[topo[r]]["data"] \subseteq conf[cached]["data"]
      <4>1. Absent["data"] = {}
        BY DEF Absent, Parts
      <4> QED
        BY <3>1, <4>1 DEF CacheAgrees, IInv, Cope
    <3>7. \A p \in Parts \ clash' : acked[topo[r]][p] \subseteq stored'[topo[r]][p]
      BY <1>0, <3>1, <3>3, <3>5, <3>6 DEF AckedStored, Parts
    <3>8. \A p \in Parts \ clash' : acked'[topo[r]][p] \subseteq stored'[topo[r]][p]
      BY <3>4, <3>7
    <3>9. \A t \in Topos \ {topo[r]} : acked'[t] = acked[t] /\ stored'[t] = stored[t]
      BY <3>1, <3>2 DEF IInv, Basics, TypeOK
    <3> QED
      BY <1>0, <3>8, <3>9 DEF AckedStored
  <2> QED
    BY <2>1, <2>2
<1>8. ASSUME NEW r \in Requests, NotSaved(r) PROVE AckedStored'
  <2>1. UNCHANGED <<stored, acked>>
    BY <1>8, <1>b DEF NotSaved, Records
  <2> QED
    BY <1>0, <2>1 DEF AckedStored
<1>9. ASSUME NEW r \in Requests, PutBack(r) PROVE AckedStored'
  <2>1. acked' = acked /\ \A t \in Topos, p \in Parts \ clash' : stored'[t][p] = stored[t][p]
    BY <1>9, <1>b, PuttingBack DEF PutBack, Records, IInv
  <2> QED
    BY <1>0, <2>1 DEF AckedStored
<1>10. ASSUME NEW r \in Requests, Replaces(r) PROVE AckedStored'
  <2>1. PICK c \in Configs, d \in Configs :
          /\ Stores(r, c) /\ acked' = [acked EXCEPT ![topo[r]] = d]
          /\ \A p \in Parts \ clash' : acked[topo[r]][p] \subseteq stored[topo[r]][p] => d[p] \subseteq c[p]
    BY <1>10, <1>b DEF Replaces
  <2>2. stored'[topo[r]] = c /\ acked'[topo[r]] = d /\ topo[r] \in Topos
    BY <2>1 DEF Stores, IInv, Basics, TypeOK
  <2>3. \A t \in Topos \ {topo[r]} : acked'[t] = acked[t] /\ stored'[t] = stored[t]
    BY <2>1 DEF Stores, IInv, Basics, TypeOK
  <2> QED
    BY <1>0, <2>1, <2>2, <2>3 DEF AckedStored
<1>11. ASSUME NEW r \in Requests, Drop(r) PROVE AckedStored'
  <2>1. stored' = stored /\ (acked' = acked \/ acked' = stored)
    BY <1>11 DEF Drop
  <2> QED
    BY <1>0, <2>1 DEF AckedStored
<1>12. ASSUME NEW r \in Requests, DropFirst(r) PROVE AckedStored'
  <2>1. UNCHANGED <<stored, acked>>
    BY <1>12 DEF DropFirst
  <2> QED
    BY <1>0, <2>1 DEF AckedStored
<1>13. CASE UNCHANGED vars
  BY <1>0, <1>13 DEF vars, history, AckedStored
<1> QED
  BY <1>1, <1>2, <1>3, <1>4, <1>5, <1>6, <1>7, <1>8, <1>9, <1>10, <1>11, <1>12, <1>13, Shapes
     DEF IInv

\* Only the drop of a session with nobody else at work makes a clash past, and then
\* nothing is cached and whatever is stored is what counts.
LEMMA Recovers ==
  ASSUME IInv, [Next]_vars, ~ (clash \subseteq clash') PROVE Cope'
<1>0. Basics
  BY DEF IInv
<1>1. PICK r \in Requests : Drop(r)
  <2>1. UNCHANGED vars => clash \subseteq clash'
    BY DEF vars, history
  <2>2. ASSUME NEW r \in Requests, Waits(r) \/ Hit(r) \/ Miss(r) \/ Insert(r) \/ Leave(r) \/ Runs(r) \/ NotSaved(r)
               \/ Save(r) \/ Replaces(r) \/ DropFirst(r)
        PROVE  clash \subseteq clash'
    BY <2>2 DEF Waits, history, Hit, Miss, Insert, Leave, Runs, NotSaved, Save, Replaces,
       DropFirst
  <2>3. \A r \in Requests : PutBack(r) => clash \subseteq clash'
    BY <1>0, PuttingBack
  <2> QED
    BY <1>0, <2>1, <2>2, <2>3, Shapes
<1>2. Alone(r) /\ acked' = stored /\ cached' = None /\ stored' = stored
  BY <1>1 DEF Drop, Uncaches
<1>3. Ends(r)
  BY <1>1 DEF Drop
<1>4. Others(r) /\ pc'[r] = "idle"
  BY <1>0, <1>3, Ending DEF Basics
<1>5. \A q \in Requests : pc'[q] = "idle"
  BY <1>2, <1>4 DEF Alone, Others
<1>6. UsesCached' /\ BuiltAsStored' /\ BuiltPorts' /\ SavesFresh'
  BY <1>5 DEF UsesCached, BuiltAsStored, BuiltPorts, SavesFresh
<1>7. CacheAgrees' /\ AgedIsDropped' /\ AckedStored'
  BY <1>2 DEF CacheAgrees, AgedIsDropped, AckedStored
<1> QED
  BY <1>6, <1>7 DEF Cope

\* The conditions above hold whatever the requests do.
THEOREM Invariance == Spec => []IInv
<1>1. Init => IInv
  <2> SUFFICES ASSUME Init PROVE IInv
    OBVIOUS
  <2>1. \A r \in Requests : pc[r] = "idle" /\ lock # r /\ kind[r] = "peek"
    BY NonesAssumption DEF Init
  <2>2. (CHOOSE t \in Topos : TRUE) \in Topos
    BY ToposAssumption
  <2>3. /\ stored \in [Topos -> Configs] /\ conf \in [Objects -> Configs]
        /\ snap \in [Requests -> Configs] /\ acked \in [Topos -> Configs]
    BY Configurations DEF Init
  <2>4. topo \in [Requests -> Topos] /\ home \in [Objects -> Topos]
    BY <2>2 DEF Init
  <2>5. edits \in 0..MaxEdits
    BY EditsAssumption DEF Init
  <2>6. TypeOK
    BY <2>1, <2>3, <2>4, <2>5 DEF Init, TypeOK, PC
  <2>7. KindsFit /\ BuiltAlone
    BY <2>1 DEF KindsFit, BuiltAlone
  <2>8. Filled /\ CopyLatest
    BY Fills DEF Init, Filled, CopyLatest, HasCopy
  <2>9. UsesCached /\ BuiltAsStored /\ BuiltPorts /\ SavesFresh
    BY <2>1 DEF UsesCached, BuiltAsStored, BuiltPorts, SavesFresh
  <2>10. CacheAgrees /\ AgedIsDropped /\ AckedStored
    BY DEF Init, CacheAgrees, AgedIsDropped, AckedStored
  <2> QED
    BY <2>6, <2>7, <2>8, <2>9, <2>10 DEF IInv, Basics, Cope
<1>2. IInv /\ [Next]_vars => IInv'
  <2> SUFFICES ASSUME IInv, [Next]_vars PROVE IInv'
    OBVIOUS
  <2>0. Basics
    BY DEF IInv
  <2>1. Basics'
    <3>1. TypeOK' /\ KindsFit'
      BY <2>0, TypeKept, KindsKept
    <3>2. Filled' /\ BuiltAlone' /\ CopyLatest'
      BY <2>0, FilledKept, BuiltAloneKept, CopyLatestKept
    <3> QED
      BY <3>1, <3>2 DEF Basics
  <2>2. ASSUME clash \subseteq clash' PROVE Cope'
    <3>1. UsesCached' /\ BuiltAsStored' /\ BuiltPorts' /\ SavesFresh'
      BY <2>2, UsesKept, BuiltKept, BuiltPortsKept, SavesKept
    <3>2. CacheAgrees' /\ AgedIsDropped' /\ AckedStored'
      BY <2>2, AgreesKept, AgedKept, AckedKept
    <3> QED
      BY <3>1, <3>2 DEF Cope
  <2>3. ASSUME ~ (clash \subseteq clash') PROVE Cope'
    BY <2>3, Recovers
  <2> QED
    BY <2>1, <2>2, <2>3 DEF IInv
<1> QED
  BY <1>1, <1>2, PTL DEF Spec

\* Types, and: who is between the lock and the end of a request that takes it holds it.
THEOREM TypeCorrect == Spec => []TypeOK
<1>1. IInv => TypeOK
  BY DEF IInv, Basics
<1> QED
  BY <1>1, Invariance, PTL

\* getOrInitCLIState builds a session outside cliMu, the diagnostics come without the
\* device's lock, setIPConfig takes its copy before it: the cached session has what is
\* stored all the same when nobody is at work, but in the parts with a named clash.
THEOREM SessionsAgree == Spec => []SessionAgrees
<1>1. IInv => SessionAgrees
  <2> SUFFICES ASSUME IInv, Quiet, cached # None, stored[home[cached]] # Absent
               PROVE  /\ "data" \notin clash => stored[home[cached]]["data"] = conf[cached]["data"]
                      /\ "ports" \notin clash => stored[home[cached]]["ports"] \subseteq conf[cached]["ports"]
                      /\ clash = {} => conf[cached]["ports"] \subseteq
                                         stored[home[cached]]["ports"] \cup stored[home[cached]]["data"]
    BY DEF SessionAgrees
  <2>1. CASE clash = Parts
    BY <2>1 DEF Parts
  <2>2. CASE clash # Parts
    <3>1. cached \notin aged
      BY <2>2 DEF IInv, Cope, AgedIsDropped, Quiet
    <3>2. \A r \in Requests : pc[r] # "save"
      BY DEF Quiet
    <3> QED
      BY <3>1, <3>2 DEF IInv, Cope, CacheAgrees
  <2> QED
    BY <2>1, <2>2
<1> QED
  BY <1>1, Invariance, PTL

\* executeCLI, setIPConfig and the REST handlers: an edit that was answered is in the
\* document until the device goes, unless its part of the device has met a named clash.
THEOREM EditsAreKept == Spec => []NoEditLost
<1>1. IInv => NoEditLost
  BY DEF IInv, Cope, AckedStored, NoEditLost
<1> QED
  BY <1>1, Invariance, PTL
=============================================================================
