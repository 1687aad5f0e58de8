----------------------------- MODULE RouterBackend -----------------------------
(***************************************************************************)
(* internal/router/router.go: FRR routers, each with a mutex, a network    *)
(* namespace and three daemons. Namespaces share the file system, so the   *)
(* routers of all networks use the same files under /etc/frr; reading and  *)
(* writing those are steps of their own here, and so is the truncation     *)
(* with which a write begins.                                              *)
(* A file is the sequence of its sections [head, lines]; a line is found   *)
(* where its text is a part of another line, too (Within).                 *)
(***************************************************************************)
EXTENDS Integers, Sequences, SequencesExt

CONSTANTS
  Frrs,               \* routers
  OspfLines,          \* "network N area A"
  AnAs,               \* 65000, the local AS number of the default file
  BgpRequests,        \* [as, lines]: a local AS number and lines "neighbor N remote-as A"
  Within,             \* pairs of lines, the text of the first a part of that of the second
  MaxApplies,         \* bounds the changes asked for
  MaxFaults           \* bounds the failures of processes, of kills and of vtysh

Daemons == <<"zebra", "ospfd", "bgpd">>
Files   == {"ospfd.conf", "bgpd.conf"}

ASSUME BackendAssumption ==
  /\ {MaxApplies, MaxFaults} \subseteq Nat
  /\ \A q \in BgpRequests : q.lines \in Seq(ToSet(q.lines))

VARIABLES
  running,
  daemons,    \* the processes that a router knows: for each daemon 0 or the number of one
  processes,  \* the live ones: <<router, daemon, number>>
  file,       \* the two files
  call,       \* what the call that holds the mutex of a router does: [at, want, copy]
  applies, faults,
  failed,     \* history: routers whose Start once failed halfway, or a kill of theirs
  overlapped, \* history: calls of two routers were at the files at once
  acked,      \* history: the lines applied with success since the files were last reset
  repeated    \* history: a request that made a section had a neighbour twice

backendVars == <<running, daemons, processes, file, call, applies, faults, failed, overlapped, acked, repeated>>

Rest    == [at |-> "rest"]
NoProcs == [d \in ToSet(Daemons) |-> 0]
Default(f) == <<[head |-> IF f = "ospfd.conf" THEN "ospf" ELSE AnAs, lines |-> <<>>]>>

BackendInit ==
  /\ running = [r \in Frrs |-> FALSE] /\ daemons = [r \in Frrs |-> NoProcs] /\ processes = {}
  /\ file = [f \in Files |-> Default(f)]
  /\ call = [r \in Frrs |-> Rest]
  /\ applies = 0 /\ faults = 0
  /\ failed = {} /\ overlapped = FALSE /\ acked = {} /\ repeated = FALSE

At(r, at)  == call[r].at = at
Fails      == faults < MaxFaults /\ faults' = faults + 1
AtFiles(r) == call[r].at \in {"resetting", "copied", "truncated"}

-----------------------------------------------------------------------------
(* Start and Stop.                                                         *)

\* Start of a router that does not run: the configuration directory and its files are made.
BeginStart(r) ==
  /\ At(r, "rest") /\ ~running[r]
  /\ call' = [call EXCEPT ![r] = [at |-> "resetting"]]
  /\ overlapped' = (overlapped \/ \E o \in Frrs \ {r} : AtFiles(o))
  /\ UNCHANGED <<running, daemons, processes, file, applies, faults, failed, acked, repeated>>

\* writeDefaultConfigs: what was applied before is gone, that of other routers included.
WriteDefaults(r) ==
  /\ At(r, "resetting")
  /\ file' = [f \in Files |-> Default(f)] /\ acked' = {} /\ repeated' = FALSE
  /\ call' = [call EXCEPT ![r] = [at |-> "launching", next |-> 1]]
  /\ UNCHANGED <<running, daemons, processes, applies, faults, failed, overlapped>>

\* A number that no process of the daemon has, and none that the router knows.
Fresh(r, d) == CHOOSE n \in 1..MaxFaults + 2 : <<r, d, n>> \notin processes /\ n # daemons[r][d]

\* startDaemons: the first that cannot be started ends Start, and the others stay.
LaunchDaemon(r) ==
  /\ At(r, "launching")
  /\ LET d == Daemons[call[r].next]
         n == Fresh(r, d)
     IN \/ /\ daemons' = [daemons EXCEPT ![r][d] = n]
           /\ processes' = processes \cup {<<r, d, n>>}
           /\ call' = [call EXCEPT ![r] = IF d = "bgpd" THEN Rest ELSE [at |-> "launching", next |-> call[r].next + 1]]
           /\ running' = [running EXCEPT ![r] = (d = "bgpd")]
           /\ UNCHANGED <<failed, faults>>
        \/ /\ Fails /\ failed' = failed \cup {r}
           /\ call' = [call EXCEPT ![r] = Rest]
           /\ UNCHANGED <<daemons, processes, running>>
  /\ UNCHANGED <<file, applies, overlapped, acked, repeated>>

\* Stop, and stopDaemons: the processes are killed in any order.
BeginStop(r) ==
  /\ At(r, "rest") /\ running[r]
  /\ call' = [call EXCEPT ![r] = [at |-> "killing", left |-> {d \in ToSet(Daemons) : daemons[r][d] # 0}]]
  /\ UNCHANGED <<running, daemons, processes, file, applies, faults, failed, overlapped, acked, repeated>>

\* A process that an earlier Stop waited for cannot be killed again: Stop fails for good.
KillDaemon(r) ==
  /\ At(r, "killing")
  /\ \E d \in call[r].left :
       LET process == <<r, d, daemons[r][d]>>
       IN \/ /\ process \in processes /\ processes' = processes \ {process}
             /\ call' = [call EXCEPT ![r].left = @ \ {d}]
             /\ UNCHANGED <<faults, failed>>
          \/ /\ IF process \in processes THEN Fails ELSE UNCHANGED faults
             /\ failed' = failed \cup {r}
             /\ call' = [call EXCEPT ![r] = Rest]
             /\ UNCHANGED processes
  /\ UNCHANGED <<running, daemons, file, applies, overlapped, acked, repeated>>

\* Mutant of EndStop: the table of processes is emptied before every process is killed.
EndStopForgets(r) ==
  /\ At(r, "killing") /\ call[r].left # {} /\ daemons' = [daemons EXCEPT ![r] = NoProcs]
  /\ running' = [running EXCEPT ![r] = FALSE]
  /\ call' = [call EXCEPT ![r] = Rest]
  /\ UNCHANGED <<processes, file, applies, faults, failed, overlapped, acked, repeated>>

EndStop(r) ==
  /\ At(r, "killing") /\ call[r].left = {}
  /\ daemons' = [daemons EXCEPT ![r] = NoProcs] /\ running' = [running EXCEPT ![r] = FALSE]
  /\ call' = [call EXCEPT ![r] = Rest]
  /\ UNCHANGED <<processes, file, applies, faults, failed, overlapped, acked, repeated>>

-----------------------------------------------------------------------------
(* ApplyOSPFConfig and ApplyBGPConfig.                                     *)

LinesIn(conf) == UNION {ToSet(conf[i].lines) : i \in DOMAIN conf}
Mentions(conf, line) == \E l \in LinesIn(conf) : l = line \/ <<line, l>> \in Within

\* The line goes behind the first such head; there may be none in a file read too early.
Insert(conf, head, line) ==
  LET hits == {i \in DOMAIN conf : conf[i].head = head}
      hit  == CHOOSE i \in hits : \A j \in hits : i <= j
  IN IF hits = {} THEN conf ELSE [conf EXCEPT ![hit].lines = <<line>> \o @]

AddLine(conf, head, line) == IF Mentions(conf, line) THEN conf ELSE Insert(conf, head, line)

WithNetwork(conf, line) == AddLine(conf, "ospf", line)

\* The neighbours of an AS that has no section are written as they came. Those of another
\* are added where no line of any section holds them.
WithNeighbors(conf, as, nbrs) ==
  LET added[i \in 0..Len(nbrs)] == IF i = 0 THEN conf ELSE AddLine(added[i - 1], as, nbrs[i])
  IN IF \E i \in DOMAIN conf : conf[i].head = as THEN added[Len(nbrs)]
     ELSE Append(conf, [head |-> as, lines |-> nbrs])

Wants == [f : {"ospfd.conf"}, as : {"ospf"}, lines : {<<l>> : l \in OspfLines}]
         \cup {[f |-> "bgpd.conf", as |-> q.as, lines |-> q.lines] : q \in BgpRequests}

ReadConfig(r, want) ==
  /\ At(r, "rest") /\ running[r] /\ applies < MaxApplies /\ applies' = applies + 1
  /\ call' = [call EXCEPT ![r] = [at |-> "copied", want |-> want, copy |-> file[want.f]]]
  /\ overlapped' = (overlapped \/ \E o \in Frrs \ {r} : AtFiles(o))
  /\ UNCHANGED <<running, daemons, processes, file, faults, failed, acked, repeated>>

\* Any failure of vtysh is answered although the file is changed. A network that is there is
\* answered at once, and nothing is written.
Acknowledge(r) ==
  \/ /\ acked' = acked \cup {[f |-> call[r].want.f, line |-> l] : l \in ToSet(call[r].want.lines)}
     /\ UNCHANGED faults
  \/ Fails /\ UNCHANGED acked

TruncateConfig(r) ==
  /\ At(r, "copied")
  /\ LET want == call[r].want
         there == want.f = "ospfd.conf" /\ Mentions(call[r].copy, want.lines[1])
     IN \/ /\ there /\ call' = [call EXCEPT ![r] = Rest]
           /\ acked' = acked \cup {[f |-> want.f, line |-> want.lines[1]]}
           /\ UNCHANGED file
        \/ /\ ~there /\ call' = [call EXCEPT ![r].at = "truncated"]
           /\ file' = [file EXCEPT ![want.f] = <<>>]
           /\ UNCHANGED acked
  /\ UNCHANGED <<running, daemons, processes, applies, faults, failed, overlapped, repeated>>

WriteConfig(r) ==
  /\ At(r, "truncated")
  /\ LET want == call[r].want
         copy == call[r].copy
     IN /\ file' = [file EXCEPT ![want.f] =
             IF want.f = "ospfd.conf" THEN WithNetwork(copy, want.lines[1]) ELSE WithNeighbors(copy, want.as, want.lines)]
        /\ repeated' = (repeated \/ (~IsInjective(want.lines) /\ \A i \in DOMAIN copy : copy[i].head # want.as))
  /\ Acknowledge(r)
  /\ call' = [call EXCEPT ![r] = Rest]
  /\ UNCHANGED <<running, daemons, processes, applies, failed, overlapped>>

BackendNext ==
  \E r \in Frrs :
    \/ BeginStart(r) \/ WriteDefaults(r) \/ LaunchDaemon(r)
    \/ BeginStop(r) \/ KillDaemon(r) \/ EndStop(r)
    \/ \E want \in Wants : ReadConfig(r, want)
    \/ TruncateConfig(r) \/ WriteConfig(r)

BackendSpec == BackendInit /\ [][BackendNext]_backendVars

-----------------------------------------------------------------------------
(* Properties.                                                             *)

\* A router that runs knows a process of every daemon. One that does not has none that
\* lives, unless a daemon of it could once not be started or killed.
ProcessesKnown ==
  \A r \in Frrs \ failed :
    /\ \A p \in processes : p[1] = r => daemons[r][p[2]] = p[3]
    /\ At(r, "rest") => {p[2] : p \in {q \in processes : q[1] = r}} = (IF running[r] THEN ToSet(Daemons) ELSE {})

\* Lines that were applied stay in their file until a router is started, and no neighbour
\* comes twice into a section, unless the calls of two routers overlapped. The comment of
\* internal/router/router.go:174 asks for the second.
ConfigKept ==
  ~overlapped /\ (\A r \in Frrs : ~AtFiles(r)) =>
    /\ \A a \in acked : Mentions(file[a.f], a.line)
    /\ ~repeated => \A i \in DOMAIN file["bgpd.conf"] : IsInjective(file["bgpd.conf"][i].lines)

BackendSound == ProcessesKnown /\ ConfigKept
=============================================================================
