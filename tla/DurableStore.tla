---------------------------- MODULE DurableStore ----------------------------
(***************************************************************************)
(* What the topology store promises: a map in memory and a durable copy of *)
(* it that a restart reads back.  Changes reach the copy later, one        *)
(* topology at a time and whole; a copy whose fate the store does not      *)
(* promise (a save raced with another) is Unknown until the next restart.  *)
(***************************************************************************)
CONSTANTS Topos, Docs, NoDoc, Unknown

VARIABLES mem, durable

Init == /\ mem = [id \in Topos |-> NoDoc]
        /\ durable = [id \in Topos |-> NoDoc]

\* A document is put or deleted; the promise for it may lapse.
Change(id, v) ==
  /\ mem' = [mem EXCEPT ![id] = v]
  /\ durable' \in {durable, [durable EXCEPT ![id] = Unknown]}

\* The copy of one topology becomes what memory holds.
Persist(id) ==
  /\ durable' = [durable EXCEPT ![id] = mem[id]]
  /\ UNCHANGED mem

\* The promise lapses for some topologies.
Lapse(ids) ==
  /\ durable' = [id \in Topos |-> IF id \in ids THEN Unknown ELSE durable[id]]
  /\ UNCHANGED mem

\* After a restart memory is the durable copy wherever that was promised.
Restart ==
  /\ mem' \in [Topos -> Docs \cup {NoDoc}]
  /\ durable' \in [Topos -> Docs \cup {NoDoc, Unknown}]
  /\ \A id \in Topos :
       IF durable[id] = Unknown
         THEN durable'[id] \in {mem'[id], Unknown}
         ELSE mem'[id] = durable[id] /\ durable'[id] = durable[id]

Next == \/ \E id \in Topos : \/ \E v \in Docs \cup {NoDoc} : Change(id, v)
                             \/ Persist(id)
        \/ \E ids \in SUBSET Topos : Lapse(ids)
        \/ Restart

Spec == Init /\ [][Next]_<<mem, durable>>
=============================================================================
