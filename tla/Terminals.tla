------------------------------ MODULE Terminals ------------------------------
(***************************************************************************)
(* frontend/src/components/CliTerminal.tsx: the terminals of one topology. *)
(* Every open window has one, and so has the telnet tool.  A terminal has  *)
(* a copy of the sessions of all devices, read from localStorage when it   *)
(* is mounted, and stores the whole copy after each change of it.  A       *)
(* session is the device's log, its command history and the view the       *)
(* server answered last.                                                   *)
(***************************************************************************)
EXTENDS Naturals, Sequences

CONSTANTS
  Boxes,       \* devices
  Consoles,    \* terminals
  BoxOf,       \* the device of each terminal
  Off,         \* no command
  MaxLogs, MaxHistory, \* MAX_LOGS, MAX_HISTORY
  MaxCommands  \* bound on the commands of a behaviour

ASSUME ConsolesAssumption == BoxOf \in [Consoles -> Boxes] /\ {MaxLogs, MaxHistory} \subseteq Nat \ {0}

VARIABLES
  disk,     \* localStorage: the sessions
  mounted,  \* the terminals on the screen
  copy,     \* each terminal's sessions
  running,  \* the command each terminal waits for, and its view once the server ran it
  cliView,  \* the view of each device's session on the server
  entered,  \* the number of commands so far
  typed,    \* history: the newest entries of each device's log, in the order they were made
  told,     \* history: the view the server told of a device last
  torn      \* history: an entry was made while two terminals were mounted, or came too late

termVars == <<disk, mounted, copy, running, cliView, entered, typed, told, torn>>

TermViews == {"user", "system"}
Fresh(b) == [logs |-> <<>>, history |-> <<>>, view |-> "user"]
Empty    == [b \in Boxes |-> Fresh(b)]

TermInit ==
  /\ disk = Empty /\ mounted = {} /\ copy = [c \in Consoles |-> Empty]
  /\ running = [c \in Consoles |-> Off]
  /\ cliView = [b \in Boxes |-> "user"]
  /\ entered = 0 /\ typed = [b \in Boxes |-> <<>>] /\ told = [b \in Boxes |-> "user"] /\ torn = FALSE

Newest(s, n) == SubSeq(s, IF Len(s) > n THEN Len(s) - n + 1 ELSE 1, Len(s))

\* appendLog: the entry comes after the newest MAX_LOGS.
Logged(s, e) == [s EXCEPT !.logs = Append(Newest(@, MaxLogs), e)]

\* A command that repeats the last one is not kept twice.
Noted(s, cmd) ==
  [s EXCEPT !.history = IF @ # <<>> /\ @[Len(@)] = cmd THEN @ ELSE Newest(Append(@, cmd), MaxHistory)]

\* Mutant of Changes: nothing is stored.
ChangesOnScreen(c, session) ==
  /\ copy' = [copy EXCEPT ![c] = [@ EXCEPT ![BoxOf[c]] = session]]
  /\ UNCHANGED disk

\* The terminal changes its session of a device, and stores its copy of all.
Changes(c, session) ==
  /\ copy' = [copy EXCEPT ![c] = [@ EXCEPT ![BoxOf[c]] = session]]
  /\ disk' = copy'[c]

\* The entry is kept when the terminal is the only one.
Records(c, e) == /\ typed' = [typed EXCEPT ![BoxOf[c]] = Newest(Append(@, e), MaxLogs + 1)]
                 /\ torn' = (torn \/ ~ mounted \subseteq {c})

-----------------------------------------------------------------------------
(* A terminal is mounted, used and unmounted.                              *)

\* Mounted with an empty log a terminal begins a new one, in the user view, whatever view
\* the server's session is in.
Mount(c) ==
  /\ c \notin mounted /\ running[c] = Off
  /\ mounted' = mounted \cup {c}
  /\ LET session == disk[BoxOf[c]]
         welcome == [session EXCEPT !.logs = <<<<"welcome", 0>>>>, !.view = "user"]
     IN IF session.logs # <<>>
          THEN copy' = [copy EXCEPT ![c] = disk] /\ UNCHANGED <<disk, typed, torn>>
          ELSE /\ disk' = [disk EXCEPT ![BoxOf[c]] = welcome]
               /\ copy' = [copy EXCEPT ![c] = disk']
               /\ typed' = [typed EXCEPT ![BoxOf[c]] = welcome.logs]
               /\ torn' = (torn \/ mounted # {} \/ told[BoxOf[c]] # "user")
  /\ UNCHANGED <<running, cliView, entered, told>>

Unmount(c) ==
  /\ c \in mounted
  /\ mounted' = mounted \ {c}
  /\ UNCHANGED <<disk, copy, running, cliView, entered, typed, told, torn>>

\* Ctrl-L.
ClearScreen(c) ==
  /\ c \in mounted
  /\ Changes(c, [copy[c][BoxOf[c]] EXCEPT !.logs = <<>>])
  /\ typed' = [typed EXCEPT ![BoxOf[c]] = <<>>]
  /\ torn' = (torn \/ ~ mounted \subseteq {c})
  /\ UNCHANGED <<mounted, running, cliView, entered, told>>

\* executeCommandFor: the echo is logged at once; the input is disabled until the answer.
\* A mounted terminal of a host enters ipconfig by itself.
EnterCommand(c, cmd) ==
  /\ c \in mounted /\ running[c] = Off /\ entered < MaxCommands
  /\ entered' = entered + 1
  /\ Changes(c, Logged(Noted(copy[c][BoxOf[c]], cmd), <<"echo", entered'>>))
  /\ Records(c, <<"echo", entered'>>)
  /\ running' = [running EXCEPT ![c] = [cmd |-> cmd, n |-> entered', view |-> Off]]
  /\ UNCHANGED <<mounted, cliView, told>>

\* A command that enters a view, or one that does not.
Typeable == {"system-view", "display"}
ViewAfter(cmd, v) == IF cmd = "system-view" THEN "system" ELSE v

ServerRuns(c) ==
  /\ running[c] # Off /\ running[c].view = Off
  /\ LET v == ViewAfter(running[c].cmd, cliView[BoxOf[c]])
     IN /\ cliView' = [cliView EXCEPT ![BoxOf[c]] = v]
        /\ running' = [running EXCEPT ![c].view = v]
  /\ UNCHANGED <<disk, mounted, copy, entered, typed, told, torn>>

\* The session is dropped by an edit of the device and begins again in the user view.
ServerForgets(b) ==
  /\ cliView' = [cliView EXCEPT ![b] = "user"]
  /\ UNCHANGED <<disk, mounted, copy, running, entered, typed, told, torn>>

\* The answer's view and output go into the session of the terminal that asked.
Answered(c) ==
  /\ running[c] # Off /\ running[c].view # Off /\ c \in mounted
  /\ Changes(c, Logged([copy[c][BoxOf[c]] EXCEPT !.view = running[c].view], <<"output", running[c].n>>))
  /\ Records(c, <<"output", running[c].n>>)
  /\ told' = [told EXCEPT ![BoxOf[c]] = running[c].view]
  /\ running' = [running EXCEPT ![c] = Off]
  /\ UNCHANGED <<mounted, cliView, entered>>

\* A call that fails is logged, and the view stays.
Failed(c) ==
  /\ running[c] # Off /\ c \in mounted
  /\ Changes(c, Logged(copy[c][BoxOf[c]], <<"error", running[c].n>>))
  /\ Records(c, <<"error", running[c].n>>)
  /\ running' = [running EXCEPT ![c] = Off]
  /\ UNCHANGED <<mounted, cliView, entered, told>>

\* The terminal was closed meanwhile: the answer has nowhere to go.
TooLate(c) ==
  /\ running[c] # Off /\ c \notin mounted
  /\ running' = [running EXCEPT ![c] = Off]
  /\ torn' = TRUE
  /\ UNCHANGED <<disk, mounted, copy, cliView, entered, typed, told>>

TermNext == \/ \E c \in Consoles : \/ Mount(c) \/ Unmount(c) \/ ClearScreen(c)
                                   \/ \E cmd \in Typeable : EnterCommand(c, cmd)
                                   \/ ServerRuns(c) \/ Answered(c) \/ Failed(c) \/ TooLate(c)
            \/ \E b \in Boxes : ServerForgets(b)

TermSpec == TermInit /\ [][TermNext]_termVars

-----------------------------------------------------------------------------
(* Properties.                                                             *)

\* CliTerminal.tsx promises that nothing is lost when terminals are closed, opened and
\* the page is loaded again.  With one terminal at a time that waits for its answers it
\* is so: the storage has the newest entries of every device's log, in order, and the
\* view the server told last.
HistoryKept ==
  ~ torn => \A b \in Boxes : /\ disk[b].logs = typed[b]
                             /\ disk[b].view = told[b]
===============================================================================
