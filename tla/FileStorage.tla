---------------------------- MODULE FileStorage ----------------------------
(***************************************************************************)
(* internal/storage/file_storage.go: the topology store.  Memory is a map  *)
(* guarded by an RWMutex; the disk holds one JSON file per topology.       *)
(* CreateTopology, UpdateTopology and DeleteTopology hold the lock through *)
(* their disk operations; Flush (the autosave ticker, and main on a signal *)
(* or a panic) copies the map under the read lock and writes the copies    *)
(* with no lock at all.  Every save of a topology goes through the same    *)
(* temporary file, <id>.json.tmp, which is then renamed over <id>.json.    *)
(*                                                                         *)
(* The disk is modelled at the level the saves interact at: O_TRUNC, a     *)
(* write at offset 0, rename and unlink, with the POSIX rule that an open  *)
(* file stays the file it was when its name is moved or removed.           *)
(***************************************************************************)
EXTENDS Naturals

CONSTANTS
  Topos,       \* topology ids accepted by topoFilePath
  Docs,        \* topology documents that pass ValidateIPConfig
  Length,      \* the length of a document's JSON encoding
  Writers,     \* request goroutines
  Ticker,        \* the goroutine of StartAutoSave
  Main,        \* the goroutine of main, which flushes when it is told to stop
  NoDoc, NoFile, NoTopo, Free,
  MaxFaults    \* bound on the disk errors of a behaviour

Flushers == {Ticker, Main}
Procs    == Writers \cup Flushers

(***************************************************************************)
(* Contents.  Writing a document over a longer content leaves the tail of  *)
(* the old one, which json.Unmarshal refuses ("after top-level value").    *)
(***************************************************************************)
Content == [head : Docs \cup {NoDoc}, len : Nat]
Empty   == [head |-> NoDoc, len |-> 0]

Overlay(c, d) == [head |-> d, len |-> IF c.len > Length[d] THEN c.len ELSE Length[d]]

Whole(c) == c.head # NoDoc /\ c.len = Length[c.head]

ASSUME LengthAssumption == Length \in [Docs -> Nat \ {0}]
ASSUME ProcsAssumption  == Ticker # Main /\ Flushers \cap Writers = {} /\ Free \notin Procs
ASSUME NonesAssumption  == NoDoc \notin Docs /\ "unknown" \notin Docs \cup {NoDoc} /\ NoFile \notin Content /\ NoTopo \notin Topos
ASSUME FaultsAssumption == MaxFaults \in Nat

VARIABLES
  mem,      \* FileStorage.topologies
  lock,     \* FileStorage.mu: the goroutine that holds it exclusively, or Free
  file,     \* the content of <id>.json, or NoFile
  tmp,      \* the content of <id>.json.tmp, or NoFile
  phase,    \* where main is: serving, in its last Flush, or draining requests
  pc,       \* the step each goroutine has reached
  cur,      \* the topology it is saving or deleting
  todo,     \* the documents it still has to save (for Flush, its snapshots)
  fd,       \* what the file os.WriteFile has open is now named, if at all
  faults,   \* disk errors so far
  raced,    \* history: two goroutines had work on this topology at one time
  unsaved   \* history: the last disk operation on this topology failed

memory  == <<mem, lock, phase>>
disk    == <<file, tmp>>
procs   == <<pc, cur, todo, fd>>
history == <<raced, unsaved>>
vars    == <<memory, disk, procs, faults, history>>

NoTodo == [id \in Topos |-> NoDoc]

\* Mutant: loadAll recovers <id>.json.tmp.
LoadedFromTmp(id) ==
  IF file[id] # NoFile /\ Whole(file[id]) THEN file[id].head
  ELSE IF tmp[id] # NoFile /\ Whole(tmp[id]) THEN tmp[id].head ELSE NoDoc

\* What loadAll makes of the file of a topology.
Loaded(id) ==
  IF file[id] # NoFile /\ Whole(file[id]) THEN file[id].head ELSE NoDoc

Torn(id) == file[id] # NoFile /\ ~ Whole(file[id])

\* A goroutine has work on a topology: it is saving or deleting it, or will save it.
Busy(p, id) == todo[p][id] # NoDoc \/ cur[p] = id

Contended(p, id) == \E q \in Procs \ {p} : Busy(q, id)

\* What the open files of a topology are named when its names move: becomes[n] for n.
Renamed(id, becomes) ==
  [p \in Procs |-> IF cur[p] = id /\ fd[p] \in DOMAIN becomes THEN becomes[fd[p]] ELSE fd[p]]

Init ==
  /\ mem = NoTodo /\ lock = Free /\ phase = "serving"
  /\ file = [id \in Topos |-> NoFile]
  /\ tmp = [id \in Topos |-> NoFile]
  /\ pc = [p \in Procs |-> "idle"]
  /\ cur = [p \in Procs |-> NoTopo]
  /\ todo = [p \in Procs |-> NoTodo]
  /\ fd = [p \in Procs |-> "none"]
  /\ faults = 0
  /\ raced = [id \in Topos |-> FALSE]
  /\ unsaved = [id \in Topos |-> FALSE]

-----------------------------------------------------------------------------
(* Operations of the request goroutines.                                   *)

\* CreateTopology and UpdateTopology: the map first, then the file.
Put(w, id, d) ==
  /\ pc[w] = "idle" /\ lock = Free
  /\ lock' = w
  /\ mem' = [mem EXCEPT ![id] = d]
  /\ pc' = [pc EXCEPT ![w] = "open"]
  /\ cur' = [cur EXCEPT ![w] = id]
  /\ todo' = [todo EXCEPT ![w][id] = d]
  /\ raced' = [raced EXCEPT ![id] = @ \/ Contended(w, id)]
  /\ UNCHANGED <<phase, disk, fd, faults, unsaved>>

\* DeleteTopology up to deleteTopologyFile.
Delete(w, id) ==
  /\ pc[w] = "idle" /\ lock = Free
  /\ lock' = w
  /\ mem' = [mem EXCEPT ![id] = NoDoc]
  /\ pc' = [pc EXCEPT ![w] = "unlink"]
  /\ cur' = [cur EXCEPT ![w] = id]
  /\ raced' = [raced EXCEPT ![id] = @ \/ Contended(w, id)]
  /\ UNCHANGED <<phase, disk, todo, fd, faults, unsaved>>

\* The operation on cur[p] is over: a request unlocks and returns, Flush goes on.
Finish(p, failed) ==
  /\ pc' = [pc EXCEPT ![p] = IF p \in Flushers THEN "next" ELSE "idle"]
  /\ lock' = IF p \in Writers THEN Free ELSE lock
  /\ cur' = [cur EXCEPT ![p] = NoTopo]
  /\ todo' = [todo EXCEPT ![p][cur[p]] = NoDoc]
  /\ unsaved' = [unsaved EXCEPT ![cur[p]] = failed]
  /\ UNCHANGED <<mem, phase, raced>>

Fault == faults < MaxFaults /\ faults' = faults + 1

\* Mutant: the deletion reports success and leaves the file.
UnlinkNothing(w) ==
  /\ pc[w] = "unlink"
  /\ Finish(w, FALSE)
  /\ UNCHANGED <<disk, fd, faults>>

\* deleteTopologyFile: a file that is not there is no error.
Unlink(w) ==
  /\ pc[w] = "unlink"
  /\ file' = [file EXCEPT ![cur[w]] = NoFile]
  /\ fd' = Renamed(cur[w], [json |-> "gone"])
  /\ Finish(w, FALSE)
  /\ UNCHANGED <<tmp, faults>>

UnlinkFails(w) ==
  /\ pc[w] = "unlink" /\ Fault
  /\ Finish(w, TRUE)
  /\ UNCHANGED <<disk, fd>>

-----------------------------------------------------------------------------
(* saveTopology, run by requests under the lock and by Flush without it.   *)

\* os.WriteFile opens the temporary file with O_CREATE and O_TRUNC.
SaveOpen(p) ==
  /\ pc[p] = "open"
  /\ tmp' = [tmp EXCEPT ![cur[p]] = Empty]
  /\ fd' = [fd EXCEPT ![p] = "tmp"]
  /\ pc' = [pc EXCEPT ![p] = "write"]
  /\ UNCHANGED <<memory, file, cur, todo, faults, history>>

\* ... writes the encoded document and closes it.
SaveWrite(p) ==
  /\ pc[p] = "write"
  /\ LET Written(c) == Overlay(c, todo[p][cur[p]])
     IN /\ tmp' = IF fd[p] = "tmp" THEN [tmp EXCEPT ![cur[p]] = Written(@)] ELSE tmp
        /\ file' = IF fd[p] = "json" THEN [file EXCEPT ![cur[p]] = Written(@)] ELSE file
  /\ fd' = [fd EXCEPT ![p] = "none"]
  /\ pc' = [pc EXCEPT ![p] = "rename"]
  /\ UNCHANGED <<memory, cur, todo, faults, history>>

\* Mutant: the error of os.WriteFile is ignored and the rename goes ahead.
SaveWriteErrorIgnored(p) ==
  /\ pc[p] \in {"open", "write"} /\ Fault
  /\ fd' = [fd EXCEPT ![p] = "none"]
  /\ pc' = [pc EXCEPT ![p] = "rename"]
  /\ UNCHANGED <<memory, disk, cur, todo, history>>

\* MkdirAll or WriteFile fails: the temporary file is left as it is.
SaveWriteFails(p) ==
  /\ pc[p] \in {"open", "write"} /\ Fault
  /\ fd' = [fd EXCEPT ![p] = "none"]
  /\ Finish(p, TRUE)
  /\ UNCHANGED disk

\* os.Rename moves whatever the temporary name now names over the file.
SaveRename(p) ==
  /\ pc[p] = "rename" /\ tmp[cur[p]] # NoFile
  /\ file' = [file EXCEPT ![cur[p]] = tmp[cur[p]]]
  /\ tmp' = [tmp EXCEPT ![cur[p]] = NoFile]
  /\ fd' = Renamed(cur[p], [tmp |-> "json", json |-> "gone"])
  /\ Finish(p, FALSE)
  /\ UNCHANGED faults

\* The temporary file has gone, or the disk refuses.
SaveRenameFails(p) ==
  /\ pc[p] = "rename"
  /\ \/ tmp[cur[p]] = NoFile /\ UNCHANGED faults
     \/ tmp[cur[p]] # NoFile /\ Fault
  /\ pc' = [pc EXCEPT ![p] = "cleanup"]
  /\ UNCHANGED <<memory, disk, cur, todo, fd, history>>

\* os.Remove of the temporary name, its error ignored.
SaveCleanup(p) ==
  /\ pc[p] = "cleanup"
  /\ tmp' = [tmp EXCEPT ![cur[p]] = NoFile]
  /\ fd' = Renamed(cur[p], [tmp |-> "gone"])
  /\ Finish(p, TRUE)
  /\ UNCHANGED <<file, faults>>

-----------------------------------------------------------------------------
(* Flush.                                                                  *)

\* Mutant: Flush skips the topologies that have a file.
FlushOnlyMissing(f) ==
  /\ pc[f] = "idle" /\ lock = Free
  /\ phase = "serving" \/ (f = Ticker /\ phase = "flushing")
  /\ phase' = IF f = Main THEN "flushing" ELSE phase
  /\ todo' = [todo EXCEPT ![f] = [id \in Topos |-> IF file[id] = NoFile THEN mem[id] ELSE NoDoc]]
  /\ pc' = [pc EXCEPT ![f] = "next"]
  /\ UNCHANGED <<mem, lock, disk, cur, fd, faults, history>>

\* The copies are taken under the read lock.  The ticker flushes until main
\* cancels its context; main flushes once, when it is told to stop.
FlushSnapshot(f) ==
  /\ pc[f] = "idle" /\ lock = Free
  /\ phase = "serving" \/ (f = Ticker /\ phase = "flushing")
  /\ phase' = IF f = Main THEN "flushing" ELSE phase
  /\ todo' = [todo EXCEPT ![f] = mem]
  /\ raced' = [id \in Topos |-> raced[id] \/ (mem[id] # NoDoc /\ Contended(f, id))]
  /\ pc' = [pc EXCEPT ![f] = "next"]
  /\ UNCHANGED <<mem, lock, disk, cur, fd, faults, unsaved>>

\* The copies are saved in the random order of a map's iteration.
FlushNext(f, id) ==
  /\ pc[f] = "next" /\ todo[f][id] # NoDoc
  /\ cur' = [cur EXCEPT ![f] = id]
  /\ pc' = [pc EXCEPT ![f] = "open"]
  /\ UNCHANGED <<memory, disk, todo, fd, faults, history>>

\* When main's Flush returns, it cancels the ticker and drains the requests.
FlushReturns(f) ==
  /\ pc[f] = "next" /\ todo[f] = NoTodo
  /\ pc' = [pc EXCEPT ![f] = "idle"]
  /\ phase' = IF f = Main THEN "draining" ELSE phase
  /\ UNCHANGED <<mem, lock, disk, cur, todo, fd, faults, history>>

-----------------------------------------------------------------------------
\* The process ends, at any step, and is started again: NewFileStorage and
\* loadAll.  Temporary files stay on the disk and are not read.
CrashRestart ==
  /\ mem' = [id \in Topos |-> Loaded(id)]
  /\ lock' = Free /\ phase' = "serving"
  /\ pc' = [p \in Procs |-> "idle"]
  /\ cur' = [p \in Procs |-> NoTopo]
  /\ todo' = [p \in Procs |-> NoTodo]
  /\ fd' = [p \in Procs |-> "none"]
  /\ raced' = [id \in Topos |-> raced[id] /\ Torn(id)]
  /\ unsaved' = [id \in Topos |-> FALSE]
  /\ UNCHANGED <<disk, faults>>

Save(p) == \/ SaveOpen(p) \/ SaveWrite(p) \/ SaveWriteFails(p)
           \/ SaveRename(p) \/ SaveRenameFails(p) \/ SaveCleanup(p)

Flush(f) == \/ FlushSnapshot(f) \/ FlushReturns(f)
            \/ \E id \in Topos : FlushNext(f, id)

Request(w) == \/ \E id \in Topos, d \in Docs : Put(w, id, d)
              \/ \E id \in Topos : Delete(w, id)

Next == \/ \E w \in Writers : Request(w) \/ Unlink(w) \/ UnlinkFails(w)
        \/ \E p \in Procs : Save(p)
        \/ \E f \in Flushers : Flush(f)
        \/ CrashRestart

Spec == Init /\ [][Next]_vars

\* The ticker never stops while main serves, and a system call that has been
\* issued returns: the autosave goroutine and the saves are scheduled fairly.
Fairness == /\ WF_vars(Flush(Ticker))
            /\ \A p \in Procs : WF_vars(Save(p))
            /\ \A w \in Writers : WF_vars(Unlink(w))

FairSpec == Spec /\ Fairness

-----------------------------------------------------------------------------
(* Properties.                                                             *)

PC == {"idle", "open", "write", "rename", "cleanup", "unlink", "next"}

\* The values each variable takes.
TypeOK ==
  /\ mem \in [Topos -> Docs \cup {NoDoc}]
  /\ lock \in Writers \cup {Free}
  /\ file \in [Topos -> Content \cup {NoFile}]
  /\ tmp \in [Topos -> Content \cup {NoFile}]
  /\ phase \in {"serving", "flushing", "draining"}
  /\ pc \in [Procs -> PC]
  /\ cur \in [Procs -> Topos \cup {NoTopo}]
  /\ todo \in [Procs -> [Topos -> Docs \cup {NoDoc}]]
  /\ fd \in [Procs -> {"none", "tmp", "json", "gone"}]
  /\ faults \in 0..MaxFaults
  /\ raced \in [Topos -> BOOLEAN]
  /\ unsaved \in [Topos -> BOOLEAN]

\* saveTopology's write-then-rename: at every instant, so at every crash, the
\* file of a topology is absent or a whole document, as long as no two
\* goroutines ever had work on that topology at the same time.
AtomicUnlessRaced ==
  \A id \in Topos : Torn(id) => raced[id]

\* Once nobody works on a topology the disk agrees with the map, a deletion
\* included, unless the last disk operation failed or two goroutines had work
\* on it at the same time (a Flush that began before an update or a deletion).
DurableUnlessRaced ==
  \A id \in Topos :
    (\A p \in Procs : ~ Busy(p, id)) /\ ~ raced[id] /\ ~ unsaved[id]
      => Loaded(id) = mem[id]

-----------------------------------------------------------------------------
(* The store implements its abstract specification.                        *)

Unknown == "unknown"

\* The durable copy is what loadAll would read, where that is promised.
durable == [id \in Topos |-> IF raced[id] THEN Unknown ELSE Loaded(id)]

Promise == INSTANCE DurableStore
             WITH mem <- mem, durable <- durable, Topos <- Topos, Docs <- Docs,
                  NoDoc <- NoDoc, Unknown <- Unknown

\* Every step of the store is a change, a durable step, a restart or a stutter of
\* DurableStore: a crash at any instant brings back the document last made durable,
\* never another one, except where two goroutines worked on a topology at once.
ImplementsDurableStore == Promise!Spec

\* Every topology held in memory has exactly that document on the disk.
Mirrored == \A id \in Topos : mem[id] # NoDoc => Loaded(id) = mem[id]

\* StartAutoSave's promise: whatever races or failed saves came before, once the
\* requests stop and main goes on serving, the disk comes to mirror memory for good.
AutosaveRepairs == <>[](lock = Free /\ phase = "serving") => <>[]Mirrored

\* The comment on saveTopology: a crash never leaves a half-written JSON file,
\* which loadAll would skip at the next start.
FilesAlwaysLoadable == \A id \in Topos : ~ Torn(id)
=============================================================================
