-------------------------- MODULE FileStorageProofs --------------------------
(***************************************************************************)
(* Proofs about FileStorage, for any number of topologies, documents,      *)
(* request goroutines and disk errors.                                     *)
(***************************************************************************)
EXTENDS FileStorage, TLAPS

(***************************************************************************)
(* The inductive invariant.                                                *)
(***************************************************************************)
Saving == {"open", "write", "rename", "cleanup"}

\* What the program counter says about the locals of a goroutine and the lock.
Locals ==
  /\ \A p \in Procs : cur[p] # NoTopo <=> pc[p] \in Saving \cup {"unlink"}
  /\ \A p \in Procs : pc[p] \in Saving => todo[p][cur[p]] # NoDoc
  /\ \A w \in Writers : /\ pc[w] # "next"
                        /\ pc[w] # "idle" <=> lock = w
                        /\ \A id \in Topos : todo[w][id] # NoDoc => cur[w] = id
                        /\ pc[w] = "unlink" => todo[w] = NoTodo
  /\ \A f \in Flushers : pc[f] # "unlink" /\ (pc[f] = "idle" => todo[f] = NoTodo)

\* A file is open only between os.WriteFile's open and its write, and what it is named
\* after exists.
OpenFiles ==
  \A p \in Procs : /\ fd[p] # "none" => pc[p] = "write"
                   /\ fd[p] = "tmp" => tmp[cur[p]] # NoFile
                   /\ fd[p] = "json" => file[cur[p]] # NoFile

\* A topology nobody raced for has one goroutine at work on it at most.
Exclusive ==
  \A id \in Topos : ~ raced[id] =>
    \A p, q \in Procs : Busy(p, id) /\ Busy(q, id) => p = q

\* What that goroutine will save is what memory holds; the one that deletes it has
\* emptied memory; and the temporary file is its own.
Sole ==
  \A id \in Topos, p \in Procs : ~ raced[id] =>
    /\ todo[p][id] # NoDoc => todo[p][id] = mem[id]
    /\ cur[p] = id /\ pc[p] = "unlink" => mem[id] = NoDoc
    /\ cur[p] = id /\ pc[p] = "write" => fd[p] = "tmp" /\ tmp[id] = Empty
    /\ cur[p] = id /\ pc[p] = "rename" =>
         tmp[id] = [head |-> todo[p][id], len |-> Length[todo[p][id]]]

IInv == TypeOK /\ Locals /\ OpenFiles /\ Exclusive /\ Sole /\ AtomicUnlessRaced /\ DurableUnlessRaced

USE LengthAssumption, ProcsAssumption, NonesAssumption, FaultsAssumption

\* The initial states satisfy the invariant.
LEMMA InitInv == Init => IInv
  BY SMT DEF Init, IInv, TypeOK, Locals, OpenFiles, Exclusive, Sole, AtomicUnlessRaced, DurableUnlessRaced,
     Busy, Torn, Loaded, NoTodo, Procs, Flushers, Saving, PC, Content

\* A step in which the only goroutine to take up work on an unraced topology is one
\* that finds nobody else at work on it.
LEMMA ExclusiveStep ==
  ASSUME Exclusive, NEW q \in Procs,
         \A i \in Topos : ~ raced'[i] =>
            /\ ~ raced[i]
            /\ \A p \in Procs : Busy(p, i)' => Busy(p, i) \/ (p = q /\ ~ Contended(q, i))
  PROVE  Exclusive'
  BY DEF Exclusive, Contended

\* CreateTopology and UpdateTopology, up to saveTopology, preserve the invariant.
LEMMA PutInv == ASSUME IInv, NEW w \in Writers, NEW id \in Topos, NEW d \in Docs, Put(w, id, d)
                PROVE  IInv'
<1> USE DEF IInv, Put, Procs, Flushers, disk
<1>1. TypeOK'
  BY DEF TypeOK, PC, Busy, Contended
<1>2. Locals'
  BY DEF TypeOK, PC, Locals, Saving, NoTodo
<1>o. OpenFiles'
  BY DEF TypeOK, OpenFiles, Locals, Saving, NoTodo
<1>r. \A i \in Topos : ~ raced'[i] => ~ raced[i] /\ (i = id => ~ Contended(w, id))
  BY Zenon DEF TypeOK
<1>b. \A i \in Topos, p \in Procs : Busy(p, i)' <=> Busy(p, i) \/ (p = w /\ i = id)
  BY DEF TypeOK, Locals, Busy, Saving, NoTodo
<1>3. Exclusive'
  BY <1>r, <1>b, ExclusiveStep DEF TypeOK, Locals, Exclusive, Busy, Contended
<1>4. Sole'
  BY <1>r, <1>b DEF TypeOK, Locals, Sole, Busy, Contended
<1>5. AtomicUnlessRaced'
  BY <1>r DEF TypeOK, AtomicUnlessRaced, Torn, Whole
<1>6. DurableUnlessRaced'
  BY <1>r, <1>b DEF TypeOK, DurableUnlessRaced, Loaded, Whole
<1>7. QED
  BY <1>1, <1>2, <1>o, <1>3, <1>4, <1>5, <1>6

\* DeleteTopology, up to the unlink, preserves the invariant.
LEMMA DeleteInv == ASSUME IInv, NEW w \in Writers, NEW id \in Topos, Delete(w, id) PROVE IInv'
<1> USE DEF IInv, Delete, Procs, Flushers, memory, disk, history
<1>1. TypeOK'
  BY DEF TypeOK, PC
<1>2. Locals'
  BY DEF TypeOK, PC, Locals, Saving, NoTodo
<1>o. OpenFiles'
  BY DEF TypeOK, OpenFiles, Locals, Saving, NoTodo
<1>r. \A i \in Topos : ~ raced'[i] => ~ raced[i] /\ (i = id => ~ Contended(w, id))
  BY Zenon DEF TypeOK
<1>b. \A i \in Topos, p \in Procs : Busy(p, i)' <=> Busy(p, i) \/ (p = w /\ i = id)
  BY DEF TypeOK, Locals, Busy, Saving, NoTodo
<1>3. Exclusive'
  BY <1>r, <1>b, ExclusiveStep DEF TypeOK, Locals, Exclusive, Busy, Contended
<1>4. Sole'
  BY <1>r, <1>b DEF TypeOK, Locals, Exclusive, Sole, Busy, Contended, Saving
<1>5. AtomicUnlessRaced'
  BY <1>r DEF TypeOK, Locals, Exclusive, Sole, Busy, Saving, AtomicUnlessRaced, Torn, Whole
<1>6. DurableUnlessRaced'
  BY <1>r, <1>b DEF TypeOK, Locals, Exclusive, Sole, Busy, Saving, DurableUnlessRaced, Loaded, Whole
<1>7. QED
  BY <1>1, <1>2, <1>o, <1>3, <1>4, <1>5, <1>6

\* deleteTopologyFile preserves the invariant: memory no longer has the topology either.
LEMMA UnlinkInv == ASSUME IInv, NEW w \in Writers, Unlink(w) PROVE IInv'
<1> USE DEF IInv, Unlink, Procs, Flushers, memory, disk, history, Finish, Fault, Renamed
<1>c. cur[w] \in Topos /\ (pc[w] \in Saving => todo[w][cur[w]] \in Docs)
  BY DEF TypeOK, Locals, Saving
<1>1. TypeOK'
  BY <1>c DEF TypeOK, Saving, PC
<1>2. Locals'
  BY DEF TypeOK, PC, Locals, Saving, NoTodo
<1>o. OpenFiles'
  BY <1>c DEF TypeOK, OpenFiles, Locals, Saving, NoTodo
<1>r. \A i \in Topos : ~ raced'[i] => ~ raced[i]
  BY DEF TypeOK
<1>b. \A i \in Topos, p \in Procs : Busy(p, i)' <=> Busy(p, i) /\ ~ (p = w /\ i = cur[w])
  BY DEF TypeOK, Locals, Busy, Saving, NoTodo
<1>3. Exclusive'
  BY <1>r, <1>b, ExclusiveStep DEF TypeOK, Locals, Exclusive, Busy, Contended
<1>4. Sole'
  BY <1>c, <1>r, <1>b DEF TypeOK, Locals, Exclusive, Sole, Busy, Contended, Saving
<1>5. AtomicUnlessRaced'
  BY <1>c, <1>r DEF TypeOK, Locals, Exclusive, Sole, Busy, Saving, AtomicUnlessRaced, Torn, Whole
<1>u. \A i \in Topos : ~ unsaved'[i] => i = cur[w] \/ ~ unsaved[i]
  BY <1>c DEF TypeOK
<1>m. ~ raced[cur[w]] => mem[cur[w]] = NoDoc
  BY <1>c DEF Sole
<1>6. DurableUnlessRaced'
  <2> SUFFICES ASSUME NEW i \in Topos, \A p \in Procs : ~ Busy(p, i)', ~ raced'[i], ~ unsaved'[i]
               PROVE  Loaded(i)' = mem'[i]
    BY DEF DurableUnlessRaced
  <2>1. CASE i = cur[w]
    BY <2>1, <1>c, <1>m, <1>r DEF TypeOK, Loaded
  <2>2. CASE i # cur[w]
    <3>1. \A p \in Procs : ~ Busy(p, i)
      BY <2>2, <1>b
    <3>2. file'[i] = file[i]
      BY <2>2, <1>c DEF TypeOK
    <3> QED
      BY <2>2, <3>1, <3>2, <1>u, <1>r DEF DurableUnlessRaced, Loaded
  <2> QED
    BY <2>1, <2>2
<1>7. QED
  BY <1>1, <1>2, <1>o, <1>3, <1>4, <1>5, <1>6

\* So does a deletion whose unlink fails.
LEMMA UnlinkFailsInv == ASSUME IInv, NEW w \in Writers, UnlinkFails(w) PROVE IInv'
<1> USE DEF IInv, UnlinkFails, Procs, Flushers, memory, disk, history, Finish, Fault, Renamed
<1>c. cur[w] \in Topos /\ (pc[w] \in Saving => todo[w][cur[w]] \in Docs)
  BY DEF TypeOK, Locals, Saving
<1>1. TypeOK'
  BY <1>c DEF TypeOK, Saving, PC
<1>2. Locals'
  BY DEF TypeOK, PC, Locals, Saving, NoTodo
<1>o. OpenFiles'
  BY <1>c DEF TypeOK, OpenFiles, Locals, Saving, NoTodo
<1>r. \A i \in Topos : ~ raced'[i] => ~ raced[i]
  BY DEF TypeOK
<1>b. \A i \in Topos, p \in Procs : Busy(p, i)' <=> Busy(p, i) /\ ~ (p = w /\ i = cur[w])
  BY DEF TypeOK, Locals, Busy, Saving, NoTodo
<1>3. Exclusive'
  BY <1>r, <1>b, ExclusiveStep DEF TypeOK, Locals, Exclusive, Busy, Contended
<1>4. Sole'
  BY <1>c, <1>r, <1>b DEF TypeOK, Locals, Exclusive, Sole, Busy, Contended, Saving
<1>5. AtomicUnlessRaced'
  BY <1>c, <1>r DEF TypeOK, Locals, Exclusive, Sole, Busy, Saving, AtomicUnlessRaced, Torn, Whole
<1>6. DurableUnlessRaced'
  BY <1>c, <1>r, <1>b DEF TypeOK, Locals, Exclusive, Sole, Busy, Saving, DurableUnlessRaced, Loaded, Whole
<1>7. QED
  BY <1>1, <1>2, <1>o, <1>3, <1>4, <1>5, <1>6

\* Opening the temporary file preserves the invariant: an unraced one belongs to the saver.
LEMMA SaveOpenInv == ASSUME IInv, NEW p0 \in Procs, SaveOpen(p0) PROVE IInv'
<1> USE DEF IInv, SaveOpen, Procs, Flushers, memory, disk, history, Fault
<1>c. cur[p0] \in Topos /\ (pc[p0] \in Saving => todo[p0][cur[p0]] \in Docs)
  BY DEF TypeOK, Locals, Saving
<1>1. TypeOK'
  BY <1>c DEF TypeOK, Saving, PC, Overlay, Content, Empty
<1>2. Locals'
  BY DEF TypeOK, PC, Locals, Saving, NoTodo
<1>o. OpenFiles'
  BY <1>c DEF TypeOK, OpenFiles, Locals, Saving, NoTodo, Empty, Content
<1>r. \A i \in Topos : ~ raced'[i] => ~ raced[i]
  BY DEF TypeOK
<1>b. \A i \in Topos, p \in Procs : Busy(p, i)' <=> Busy(p, i)
  BY DEF TypeOK, Locals, Busy, Saving, NoTodo
<1>3. Exclusive'
  BY <1>r, <1>b, ExclusiveStep DEF TypeOK, Locals, Exclusive, Busy, Contended
<1>4. Sole'
  BY <1>c, <1>r, <1>b DEF TypeOK, Locals, Exclusive, Sole, Busy, Contended, Saving, Overlay, Content, Empty
<1>5. AtomicUnlessRaced'
  BY <1>c, <1>r DEF TypeOK, Locals, Exclusive, Sole, Busy, Saving, AtomicUnlessRaced, Torn, Whole, Overlay, Content, Empty
<1>6. DurableUnlessRaced'
  BY <1>c, <1>r, <1>b DEF TypeOK, Locals, Exclusive, Sole, Busy, Saving, DurableUnlessRaced, Loaded, Whole, Overlay, Content, Empty
<1>7. QED
  BY <1>1, <1>2, <1>o, <1>3, <1>4, <1>5, <1>6

\* Writing preserves the invariant: an unraced write is to the saver's own, empty, file.
LEMMA SaveWriteInv == ASSUME IInv, NEW p0 \in Procs, SaveWrite(p0) PROVE IInv'
<1> USE DEF IInv, SaveWrite, Procs, Flushers, memory, disk, history, Fault
<1>c. cur[p0] \in Topos /\ (pc[p0] \in Saving => todo[p0][cur[p0]] \in Docs)
  BY DEF TypeOK, Locals, Saving
<1>v. \A c \in Content, d \in Docs : Overlay(c, d) \in Content
  BY DEF Overlay, Content
<1>1. TypeOK'
  <2>1. tmp' \in [Topos -> Content \cup {NoFile}]
    BY <1>c, <1>v DEF TypeOK, OpenFiles, Saving
  <2>2. file' \in [Topos -> Content \cup {NoFile}]
    BY <1>c, <1>v DEF TypeOK, OpenFiles, Saving
  <2> QED
    BY <2>1, <2>2 DEF TypeOK, PC
<1>2. Locals'
  BY DEF TypeOK, PC, Locals, Saving, NoTodo
<1>o. OpenFiles'
  BY <1>c, <1>v DEF TypeOK, OpenFiles, Locals, Saving, NoTodo
<1>r. \A i \in Topos : ~ raced'[i] => ~ raced[i]
  BY DEF TypeOK
<1>b. \A i \in Topos, p \in Procs : Busy(p, i)' <=> Busy(p, i)
  BY DEF TypeOK, Locals, Busy, Saving, NoTodo
<1>3. Exclusive'
  BY <1>r, <1>b, ExclusiveStep DEF TypeOK, Locals, Exclusive, Busy, Contended
<1>4. Sole'
  BY <1>c, <1>r, <1>b DEF TypeOK, Locals, Exclusive, Sole, Busy, Contended, Saving, Overlay, Content, Empty
<1>5. AtomicUnlessRaced'
  BY <1>c, <1>r DEF TypeOK, Locals, Exclusive, Sole, Busy, Saving, AtomicUnlessRaced, Torn, Whole, Overlay, Content, Empty
<1>6. DurableUnlessRaced'
  BY <1>c, <1>r, <1>b DEF TypeOK, Locals, Exclusive, Sole, Busy, Saving, DurableUnlessRaced, Loaded, Whole, Overlay, Content, Empty
<1>7. QED
  BY <1>1, <1>2, <1>o, <1>3, <1>4, <1>5, <1>6

\* A failed rename preserves the invariant.
LEMMA SaveRenameFailsInv == ASSUME IInv, NEW p0 \in Procs, SaveRenameFails(p0) PROVE IInv'
<1> USE DEF IInv, SaveRenameFails, Procs, Flushers, memory, disk, history, Fault
<1>c. cur[p0] \in Topos /\ (pc[p0] \in Saving => todo[p0][cur[p0]] \in Docs)
  BY DEF TypeOK, Locals, Saving
<1>1. TypeOK'
  BY <1>c DEF TypeOK, Saving, PC, Overlay, Content, Empty
<1>2. Locals'
  BY DEF TypeOK, PC, Locals, Saving, NoTodo
<1>o. OpenFiles'
  BY <1>c DEF TypeOK, OpenFiles, Locals, Saving, NoTodo
<1>r. \A i \in Topos : ~ raced'[i] => ~ raced[i]
  BY DEF TypeOK
<1>b. \A i \in Topos, p \in Procs : Busy(p, i)' <=> Busy(p, i)
  BY DEF TypeOK, Locals, Busy, Saving, NoTodo
<1>3. Exclusive'
  BY <1>r, <1>b, ExclusiveStep DEF TypeOK, Locals, Exclusive, Busy, Contended
<1>4. Sole'
  BY <1>c, <1>r, <1>b DEF TypeOK, Locals, Exclusive, Sole, Busy, Contended, Saving, Overlay, Content, Empty
<1>5. AtomicUnlessRaced'
  BY <1>c, <1>r DEF TypeOK, Locals, Exclusive, Sole, Busy, Saving, AtomicUnlessRaced, Torn, Whole, Overlay, Content, Empty
<1>6. DurableUnlessRaced'
  BY <1>c, <1>r, <1>b DEF TypeOK, Locals, Exclusive, Sole, Busy, Saving, DurableUnlessRaced, Loaded, Whole, Overlay, Content, Empty
<1>7. QED
  BY <1>1, <1>2, <1>o, <1>3, <1>4, <1>5, <1>6

\* A failed open or write preserves the invariant.
LEMMA SaveWriteFailsInv == ASSUME IInv, NEW p0 \in Procs, SaveWriteFails(p0) PROVE IInv'
<1> USE DEF IInv, SaveWriteFails, Procs, Flushers, memory, disk, history, Finish, Fault, Renamed
<1>c. cur[p0] \in Topos /\ (pc[p0] \in Saving => todo[p0][cur[p0]] \in Docs)
  BY DEF TypeOK, Locals, Saving
<1>1. TypeOK'
  BY <1>c DEF TypeOK, Saving, PC
<1>2. Locals'
  BY DEF TypeOK, PC, Locals, Saving, NoTodo
<1>o. OpenFiles'
  BY <1>c DEF TypeOK, OpenFiles, Locals, Saving, NoTodo
<1>r. \A i \in Topos : ~ raced'[i] => ~ raced[i]
  BY DEF TypeOK
<1>b. \A i \in Topos, p \in Procs : Busy(p, i)' <=> Busy(p, i) /\ ~ (p = p0 /\ i = cur[p0])
  BY DEF TypeOK, Locals, Busy, Saving, NoTodo
<1>3. Exclusive'
  BY <1>r, <1>b, ExclusiveStep DEF TypeOK, Locals, Exclusive, Busy, Contended
<1>4. Sole'
  BY <1>c, <1>r, <1>b DEF TypeOK, Locals, Exclusive, Sole, Busy, Contended, Saving, Content
<1>5. AtomicUnlessRaced'
  BY <1>c, <1>r DEF TypeOK, Locals, Exclusive, Sole, Busy, Saving, AtomicUnlessRaced, Torn, Whole, Content
<1>6. DurableUnlessRaced'
  BY <1>c, <1>r, <1>b DEF TypeOK, Locals, Exclusive, Sole, Busy, Saving, DurableUnlessRaced, Loaded, Whole, Content
<1>7. QED
  BY <1>1, <1>2, <1>o, <1>3, <1>4, <1>5, <1>6

\* The rename preserves the invariant: an unraced temporary file is whole and current.
LEMMA SaveRenameInv == ASSUME IInv, NEW p0 \in Procs, SaveRename(p0) PROVE IInv'
<1> USE DEF IInv, SaveRename, Procs, Flushers, memory, disk, history, Finish, Fault, Renamed
<1>c. cur[p0] \in Topos /\ (pc[p0] \in Saving => todo[p0][cur[p0]] \in Docs)
  BY DEF TypeOK, Locals, Saving
<1>1. TypeOK'
  BY <1>c DEF TypeOK, Saving, PC
<1>2. Locals'
  BY DEF TypeOK, PC, Locals, Saving, NoTodo
<1>o. OpenFiles'
  BY <1>c DEF TypeOK, OpenFiles, Locals, Saving, NoTodo
<1>r. \A i \in Topos : ~ raced'[i] => ~ raced[i]
  BY DEF TypeOK
<1>b. \A i \in Topos, p \in Procs : Busy(p, i)' <=> Busy(p, i) /\ ~ (p = p0 /\ i = cur[p0])
  BY DEF TypeOK, Locals, Busy, Saving, NoTodo
<1>3. Exclusive'
  BY <1>r, <1>b, ExclusiveStep DEF TypeOK, Locals, Exclusive, Busy, Contended
<1>4. Sole'
  BY <1>c, <1>r, <1>b DEF TypeOK, Locals, Exclusive, Sole, Busy, Contended, Saving, Content
<1>5. AtomicUnlessRaced'
  BY <1>c, <1>r DEF TypeOK, Locals, Exclusive, Sole, Busy, Saving, AtomicUnlessRaced, Torn, Whole, Content
<1>6. DurableUnlessRaced'
  BY <1>c, <1>r, <1>b, SMTT(20) DEF TypeOK, Locals, Exclusive, Sole, Busy, Saving, DurableUnlessRaced, Loaded, Whole, Content
<1>7. QED
  BY <1>1, <1>2, <1>o, <1>3, <1>4, <1>5, <1>6

\* The removal of the temporary file after a failed rename preserves the invariant.
LEMMA SaveCleanupInv == ASSUME IInv, NEW p0 \in Procs, SaveCleanup(p0) PROVE IInv'
<1> USE DEF IInv, SaveCleanup, Procs, Flushers, memory, disk, history, Finish, Fault, Renamed
<1>c. cur[p0] \in Topos /\ (pc[p0] \in Saving => todo[p0][cur[p0]] \in Docs)
  BY DEF TypeOK, Locals, Saving
<1>1. TypeOK'
  BY <1>c DEF TypeOK, Saving, PC
<1>2. Locals'
  BY DEF TypeOK, PC, Locals, Saving, NoTodo
<1>o. OpenFiles'
  BY <1>c DEF TypeOK, OpenFiles, Locals, Saving, NoTodo
<1>r. \A i \in Topos : ~ raced'[i] => ~ raced[i]
  BY DEF TypeOK
<1>b. \A i \in Topos, p \in Procs : Busy(p, i)' <=> Busy(p, i) /\ ~ (p = p0 /\ i = cur[p0])
  BY DEF TypeOK, Locals, Busy, Saving, NoTodo
<1>3. Exclusive'
  BY <1>r, <1>b, ExclusiveStep DEF TypeOK, Locals, Exclusive, Busy, Contended
<1>4. Sole'
  BY <1>c, <1>r, <1>b DEF TypeOK, Locals, Exclusive, Sole, Busy, Contended, Saving, Content
<1>5. AtomicUnlessRaced'
  BY <1>c, <1>r DEF TypeOK, Locals, Exclusive, Sole, Busy, Saving, AtomicUnlessRaced, Torn, Whole, Content
<1>6. DurableUnlessRaced'
  BY <1>c, <1>r, <1>b DEF TypeOK, Locals, Exclusive, Sole, Busy, Saving, DurableUnlessRaced, Loaded, Whole, Content
<1>7. QED
  BY <1>1, <1>2, <1>o, <1>3, <1>4, <1>5, <1>6

\* Flush's copies preserve the invariant: they are memory, or the topology is raced.
LEMMA FlushSnapshotInv == ASSUME IInv, NEW f \in Flushers, FlushSnapshot(f) PROVE IInv'
<1> USE DEF IInv, FlushSnapshot, Procs, Flushers, memory, disk, history
<1>1. TypeOK'
  BY DEF TypeOK, PC
<1>2. Locals'
  BY DEF TypeOK, PC, Locals, Saving, NoTodo
<1>o. OpenFiles'
  BY DEF TypeOK, OpenFiles, Locals, Saving, NoTodo
<1>r. \A i \in Topos : ~ raced'[i] => ~ raced[i] /\ (mem[i] # NoDoc => ~ Contended(f, i))
  BY Zenon DEF TypeOK
<1>b. \A i \in Topos, p \in Procs : Busy(p, i)' <=> Busy(p, i) \/ (p = f /\ mem[i] # NoDoc)
  BY DEF TypeOK, Locals, Busy, Saving, NoTodo
<1>3. Exclusive'
  BY <1>r, <1>b, ExclusiveStep DEF TypeOK, Locals, Exclusive, Busy, Contended
<1>4. Sole'
  BY <1>r, <1>b DEF TypeOK, Locals, Exclusive, Sole, Busy, Contended, Saving
<1>5. AtomicUnlessRaced'
  BY <1>r DEF TypeOK, Locals, Exclusive, Sole, Busy, Saving, AtomicUnlessRaced, Torn, Whole
<1>6. DurableUnlessRaced'
  BY <1>r, <1>b DEF TypeOK, Locals, Exclusive, Sole, Busy, Saving, DurableUnlessRaced, Loaded, Whole
<1>7. QED
  BY <1>1, <1>2, <1>o, <1>3, <1>4, <1>5, <1>6

\* Flush's choice of its next topology preserves the invariant.
LEMMA FlushNextInv == ASSUME IInv, NEW f \in Flushers, NEW id \in Topos, FlushNext(f, id) PROVE IInv'
<1> USE DEF IInv, FlushNext, Procs, Flushers, memory, disk, history
<1>1. TypeOK'
  BY DEF TypeOK, PC
<1>2. Locals'
  BY DEF TypeOK, PC, Locals, Saving, NoTodo
<1>o. OpenFiles'
  BY DEF TypeOK, OpenFiles, Locals, Saving, NoTodo
<1>r. \A i \in Topos : ~ raced'[i] => ~ raced[i]
  BY DEF TypeOK
<1>b. \A i \in Topos, p \in Procs : Busy(p, i)' <=> Busy(p, i)
  BY DEF TypeOK, Locals, Busy, Saving, NoTodo
<1>3. Exclusive'
  BY <1>r, <1>b, ExclusiveStep DEF TypeOK, Locals, Exclusive, Busy, Contended
<1>4. Sole'
  BY <1>r, <1>b DEF TypeOK, Locals, Exclusive, Sole, Busy, Contended, Saving
<1>5. AtomicUnlessRaced'
  BY <1>r DEF TypeOK, Locals, Exclusive, Sole, Busy, Saving, AtomicUnlessRaced, Torn, Whole
<1>6. DurableUnlessRaced'
  BY <1>r, <1>b DEF TypeOK, Locals, Exclusive, Sole, Busy, Saving, DurableUnlessRaced, Loaded, Whole
<1>7. QED
  BY <1>1, <1>2, <1>o, <1>3, <1>4, <1>5, <1>6

\* The return of Flush preserves the invariant.
LEMMA FlushReturnsInv == ASSUME IInv, NEW f \in Flushers, FlushReturns(f) PROVE IInv'
<1> USE DEF IInv, FlushReturns, Procs, Flushers, memory, disk, history
<1>1. TypeOK'
  BY DEF TypeOK, PC
<1>2. Locals'
  BY DEF TypeOK, PC, Locals, Saving, NoTodo
<1>o. OpenFiles'
  BY DEF TypeOK, OpenFiles, Locals, Saving, NoTodo
<1>r. \A i \in Topos : ~ raced'[i] => ~ raced[i]
  BY DEF TypeOK
<1>b. \A i \in Topos, p \in Procs : Busy(p, i)' <=> Busy(p, i)
  BY DEF TypeOK, Locals, Busy, Saving, NoTodo
<1>3. Exclusive'
  BY <1>r, <1>b, ExclusiveStep DEF TypeOK, Locals, Exclusive, Busy, Contended
<1>4. Sole'
  BY <1>r, <1>b DEF TypeOK, Locals, Exclusive, Sole, Busy, Contended, Saving
<1>5. AtomicUnlessRaced'
  BY <1>r DEF TypeOK, Locals, Exclusive, Sole, Busy, Saving, AtomicUnlessRaced, Torn, Whole
<1>6. DurableUnlessRaced'
  BY <1>r, <1>b DEF TypeOK, Locals, Exclusive, Sole, Busy, Saving, DurableUnlessRaced, Loaded, Whole
<1>7. QED
  BY <1>1, <1>2, <1>o, <1>3, <1>4, <1>5, <1>6

\* A crash and the start after it preserve the invariant.
LEMMA CrashRestartInv == ASSUME IInv, CrashRestart PROVE IInv'
<1> USE DEF IInv, CrashRestart, Procs, Flushers, memory, disk, history, Loaded, Torn
<1>1. TypeOK'
  BY DEF TypeOK, PC, NoTodo, Whole, Content
<1>2. Locals'
  BY DEF TypeOK, PC, Locals, Saving, NoTodo
<1>o. OpenFiles'
  BY DEF TypeOK, OpenFiles, Locals, Saving, NoTodo
<1>r. \A i \in Topos : ~ raced'[i] /\ raced[i] => ~ Torn(i)
  BY Zenon DEF TypeOK
<1>b. \A i \in Topos, p \in Procs : Busy(p, i)' => FALSE
  BY DEF TypeOK, Locals, Busy, Saving, NoTodo
<1>3. Exclusive'
  BY <1>r, <1>b, ExclusiveStep DEF TypeOK, Locals, Exclusive, Busy, Contended
<1>4. Sole'
  BY <1>r, <1>b DEF TypeOK, Locals, Exclusive, Sole, Busy, Contended, Saving, NoTodo
<1>5. AtomicUnlessRaced'
  BY <1>r DEF TypeOK, Locals, Exclusive, Sole, Busy, Saving, AtomicUnlessRaced, Torn, Whole, NoTodo
<1>6. DurableUnlessRaced'
  BY <1>r, <1>b DEF TypeOK, Locals, Exclusive, Sole, Busy, Saving, DurableUnlessRaced, Loaded, Whole, NoTodo
<1>7. QED
  BY <1>1, <1>2, <1>o, <1>3, <1>4, <1>5, <1>6

-----------------------------------------------------------------------------
(* The invariants.                                                         *)

\* A step that changes nothing preserves the invariant.
LEMMA StutterInv == ASSUME IInv, UNCHANGED vars PROVE IInv'
  BY DEF IInv, TypeOK, Locals, OpenFiles, Exclusive, Sole, AtomicUnlessRaced, DurableUnlessRaced,
     Busy, Torn, Loaded, Whole, vars, memory, disk, procs, history

\* Every step preserves the invariant: the lemma of each action.
LEMMA NextInv == ASSUME IInv, [Next]_vars PROVE IInv'
<1>1. ASSUME NEW w \in Writers, Request(w) \/ Unlink(w) \/ UnlinkFails(w) PROVE IInv'
  BY <1>1, PutInv, DeleteInv, UnlinkInv, UnlinkFailsInv DEF Request
<1>2. ASSUME NEW p \in Procs, Save(p) PROVE IInv'
  BY <1>2, SaveOpenInv, SaveWriteInv, SaveWriteFailsInv, SaveRenameInv, SaveRenameFailsInv,
     SaveCleanupInv DEF Save
<1>3. ASSUME NEW f \in Flushers, Flush(f) PROVE IInv'
  BY <1>3, FlushSnapshotInv, FlushNextInv, FlushReturnsInv DEF Flush
<1>4. CASE CrashRestart
  BY <1>4, CrashRestartInv
<1>5. CASE UNCHANGED vars
  BY <1>5, StutterInv
<1> QED
  BY <1>1, <1>2, <1>3, <1>4, <1>5 DEF Next

\* The strengthened invariant holds in every reachable state.
THEOREM Invariance == Spec => []IInv
  BY InitInv, NextInv, PTL DEF Spec

\* Every variable keeps its type, for any number of topologies, requests and faults.
THEOREM TypeCorrect == Spec => []TypeOK
<1>1. IInv => TypeOK
  BY DEF IInv
<1> QED
  BY <1>1, Invariance, PTL

\* saveTopology's write-then-rename is atomic: a file is torn only if two goroutines
\* had work on its topology at one time.
THEOREM SaveIsAtomic == Spec => []AtomicUnlessRaced
<1>1. IInv => AtomicUnlessRaced
  BY DEF IInv
<1> QED
  BY <1>1, Invariance, PTL

\* Every update and deletion that has returned is on the disk, unless its disk operation
\* failed or raced with another.
THEOREM ReturnedIsDurable == Spec => []DurableUnlessRaced
<1>1. IInv => DurableUnlessRaced
  BY DEF IInv
<1> QED
  BY <1>1, Invariance, PTL

-----------------------------------------------------------------------------
(* The refinement of DurableStore.                                         *)

\* The durable copy is a function on the topologies, whose value is Unknown exactly
\* where a race has made it so.
LEMMA DurableValue ==
  ASSUME IInv
  PROVE  \A i \in Topos : /\ durable[i] = Unknown <=> raced[i]
                          /\ ~ raced[i] => durable[i] = Loaded(i)
  BY DEF IInv, TypeOK, durable, Loaded, Unknown, Content

\* A step that leaves memory, the races and the loadable content of unraced files
\* alone is a stutter of DurableStore.
LEMMA SameDurable ==
  ASSUME UNCHANGED <<mem, raced>>, \A i \in Topos : ~ raced[i] => file'[i] = file[i]
  PROVE  UNCHANGED <<mem, durable>>
  BY DEF durable, Loaded

\* Put and Delete are a Change of DurableStore.
LEMMA RequestMaps == ASSUME IInv, NEW w \in Writers, Request(w) PROVE Promise!Next
<1>1. ASSUME NEW id \in Topos, NEW v \in Docs \cup {NoDoc},
             mem' = [mem EXCEPT ![id] = v], UNCHANGED file,
             raced' = [raced EXCEPT ![id] = @ \/ Contended(w, id)]
      PROVE  Promise!Next
  <2>1. \A i \in Topos : i # id => raced'[i] = raced[i]
    BY <1>1 DEF IInv, TypeOK
  <2>2. durable' \in {durable, [durable EXCEPT ![id] = Unknown]}
    <3>1. CASE raced'[id] = raced[id]
      BY <2>1, <3>1, <1>1 DEF durable, Loaded
    <3>2. CASE raced'[id] # raced[id]
      <4>1. raced'[id]
        BY <1>1, <3>2, Zenon DEF IInv, TypeOK
      <4> QED
        BY <2>1, <4>1, <1>1 DEF durable, Loaded
    <3> QED
      BY <3>1, <3>2
  <2> QED
    BY <1>1, <2>2 DEF Promise!Next, Promise!Change
<1>2. ASSUME NEW id \in Topos, NEW d \in Docs, Put(w, id, d) PROVE Promise!Next
  BY <1>1, <1>2 DEF Put, disk
<1>3. ASSUME NEW id \in Topos, Delete(w, id) PROVE Promise!Next
  BY <1>1, <1>3 DEF Delete, disk
<1> QED
  BY <1>2, <1>3 DEF Request

\* A step that makes the file of one topology hold what memory holds is a Persist, or
\* a stutter where somebody raced.
LEMMA DiskMaps ==
  ASSUME IInv, NEW id \in Topos, UNCHANGED <<mem, raced>>,
         \A i \in Topos \ {id} : file'[i] = file[i],
         ~ raced[id] => Loaded(id)' = mem[id]
  PROVE  Promise!Next \/ UNCHANGED <<mem, durable>>
<1>1. CASE raced[id]
  BY <1>1, SameDurable
<1>2. CASE ~ raced[id]
  <2>1. durable' = [durable EXCEPT ![id] = mem[id]]
    BY <1>2 DEF durable, Loaded
  <2> QED
    BY <2>1 DEF Promise!Next, Promise!Persist
<1> QED
  BY <1>1, <1>2

\* An unlink makes a deletion durable, where nobody raced.
LEMMA UnlinkMaps ==
  ASSUME IInv, NEW w \in Writers, Unlink(w) PROVE Promise!Next \/ UNCHANGED <<mem, durable>>
<1>1. cur[w] \in Topos /\ (~ raced[cur[w]] => mem[cur[w]] = NoDoc)
  BY DEF IInv, TypeOK, Locals, Sole, Unlink, Procs
<1>2. file' = [file EXCEPT ![cur[w]] = NoFile] /\ UNCHANGED <<mem, raced>>
  BY DEF Unlink, Finish
<1>3. file'[cur[w]] = NoFile /\ \A i \in Topos \ {cur[w]} : file'[i] = file[i]
  BY <1>1, <1>2 DEF IInv, TypeOK
<1>4. ~ raced[cur[w]] => (IF file'[cur[w]] # NoFile /\ Whole(file'[cur[w]])
                            THEN file'[cur[w]].head ELSE NoDoc) = mem[cur[w]]
  BY <1>1, <1>3
<1>5. ASSUME NEW id \in Topos, id = cur[w] PROVE Promise!Next \/ UNCHANGED <<mem, durable>>
  BY <1>2, <1>3, <1>4, <1>5, DiskMaps DEF Loaded
<1> QED
  BY <1>1, <1>5

\* A rename makes a saved document durable, where nobody raced.
LEMMA RenameMaps ==
  ASSUME IInv, NEW p \in Procs, SaveRename(p) PROVE Promise!Next \/ UNCHANGED <<mem, durable>>
<1>1. cur[p] \in Topos /\ todo[p][cur[p]] \in Docs
  BY DEF IInv, TypeOK, Locals, SaveRename, Saving
<1>2. ~ raced[cur[p]] => /\ todo[p][cur[p]] = mem[cur[p]]
                         /\ tmp[cur[p]] = [head |-> todo[p][cur[p]], len |-> Length[todo[p][cur[p]]]]
  <2>1. pc[p] = "rename" /\ todo[p][cur[p]] # NoDoc
    BY <1>1 DEF SaveRename
  <2> QED
    BY <1>1, <2>1 DEF IInv, Sole
<1>3. ~ raced[cur[p]] => mem[cur[p]] \in Docs
  BY <1>1, <1>2
<1>4. file'[cur[p]] = tmp[cur[p]] /\ \A i \in Topos \ {cur[p]} : file'[i] = file[i]
  BY <1>1 DEF IInv, TypeOK, SaveRename
<1>5. UNCHANGED <<mem, raced>> /\ file'[cur[p]] # NoFile
  BY <1>4 DEF SaveRename, Finish
<1>6. ASSUME NEW id \in Topos, id = cur[p] PROVE Promise!Next \/ UNCHANGED <<mem, durable>>
  <2>1. ~ raced[id] => Loaded(id)' = mem[id]
    BY <1>2, <1>3, <1>4, <1>5, <1>6 DEF Loaded, Whole
  <2> QED
    BY <2>1, <1>4, <1>5, <1>6, DiskMaps
<1> QED
  BY <1>1, <1>6

\* A write reaches the file of a topology only after a race.
LEMMA WriteMaps == ASSUME IInv, NEW p \in Procs, SaveWrite(p) PROVE UNCHANGED <<mem, durable>>
<1>1. cur[p] \in Topos /\ (~ raced[cur[p]] => fd[p] = "tmp")
  BY DEF IInv, TypeOK, Locals, Sole, SaveWrite, Saving
<1>2. \A i \in Topos : ~ raced[i] => file'[i] = file[i]
  BY <1>1 DEF IInv, TypeOK, SaveWrite
<1> QED
  BY <1>2, SameDurable DEF SaveWrite, memory, history

\* The start of a Flush lets the promise lapse where it meets another goroutine.
LEMMA SnapshotMaps == ASSUME IInv, NEW f \in Flushers, FlushSnapshot(f) PROVE Promise!Next
<1> DEFINE ids == {i \in Topos : raced'[i]}
<1>1. \A i \in Topos : raced[i] => raced'[i]
  BY Zenon DEF FlushSnapshot
<1>2. \A i \in Topos : ~ raced'[i] => ~ raced[i]
  BY <1>1, Zenon
<1>3. durable' = [i \in Topos |-> IF i \in ids THEN Unknown ELSE durable[i]]
  BY <1>2 DEF durable, Loaded, FlushSnapshot, disk
<1> QED
  BY <1>3 DEF Promise!Next, Promise!Lapse, FlushSnapshot

\* A crash and the start after it are a Restart.
LEMMA RestartMaps == ASSUME IInv, CrashRestart PROVE Promise!Next
<1>1. IInv'
  BY CrashRestartInv
<1>2. mem' \in [Topos -> Docs \cup {NoDoc}]
  BY <1>1 DEF IInv, TypeOK
<1>3. \A i \in Topos : Loaded(i)' = Loaded(i) /\ mem'[i] = Loaded(i)
  BY DEF CrashRestart, disk, Loaded
<1>4. durable' \in [Topos -> Docs \cup {NoDoc, Unknown}]
  BY <1>2, <1>3 DEF durable
<1>5. \A i \in Topos : ~ raced[i] => ~ raced'[i]
  BY Zenon DEF CrashRestart
<1>6. \A i \in Topos : IF durable[i] = Unknown THEN durable'[i] \in {mem'[i], Unknown}
                       ELSE mem'[i] = durable[i] /\ durable'[i] = durable[i]
  BY <1>3, <1>5, DurableValue DEF durable
<1> QED
  BY <1>2, <1>4, <1>6 DEF Promise!Next, Promise!Restart

\* The store implements DurableStore: a crash at any instant brings back the document
\* last made durable wherever no race has voided the promise.
THEOREM StoreImplementsPromise == Spec => ImplementsDurableStore
<1>1. Init => Promise!Init
  BY DEF Init, Promise!Init, durable, Loaded, NoTodo
<1>2. IInv /\ [Next]_vars => [Promise!Next]_<<mem, durable>>
  <2> SUFFICES ASSUME IInv, [Next]_vars PROVE Promise!Next \/ UNCHANGED <<mem, durable>>
    OBVIOUS
  <2>1. ASSUME NEW w \in Writers, Request(w) \/ Unlink(w) \/ UnlinkFails(w)
        PROVE  Promise!Next \/ UNCHANGED <<mem, durable>>
    BY <2>1, RequestMaps, UnlinkMaps, SameDurable DEF UnlinkFails, Finish, disk
  <2>2. ASSUME NEW p \in Procs, Save(p) PROVE Promise!Next \/ UNCHANGED <<mem, durable>>
    BY <2>2, WriteMaps, RenameMaps, SameDurable
       DEF Save, SaveOpen, SaveWriteFails, SaveRenameFails, SaveCleanup, Finish, memory, disk, history
  <2>3. ASSUME NEW f \in Flushers, Flush(f) PROVE Promise!Next \/ UNCHANGED <<mem, durable>>
    BY <2>3, SnapshotMaps, SameDurable DEF Flush, FlushNext, FlushReturns, memory, disk, history
  <2>4. CASE CrashRestart
    BY <2>4, RestartMaps
  <2>5. CASE UNCHANGED vars
    BY <2>5, SameDurable DEF vars, memory, disk, history
  <2> QED
    BY <2>1, <2>2, <2>3, <2>4, <2>5 DEF Next
<1> QED
  BY <1>1, <1>2, Invariance, PTL DEF Spec, ImplementsDurableStore, Promise!Spec
=============================================================================
