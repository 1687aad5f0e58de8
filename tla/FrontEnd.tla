------------------------------- MODULE FrontEnd -------------------------------
(***************************************************************************)
(* frontend/src/App.tsx: a browser tab that edits topologies.  The user    *)
(* selects a topology and works on the document the tab shows; every edit  *)
(* is a call to the server, which is answered later and changes the shown  *)
(* document then.  Calls are answered in any order, whatever the user has  *)
(* done in the meantime.  The windows of devices are kept in localStorage, *)
(* by topology.                                                            *)
(*                                                                         *)
(* A render and the effects it triggers, with the renders those trigger,   *)
(* are one step: React runs the effects of a render before the next.       *)
(***************************************************************************)
EXTENDS Naturals, Sequences, FiniteSets, SequencesExt

CONSTANTS
  Graphs,      \* identifiers of topologies
  Gadgets,     \* identifiers of devices
  Notes,       \* identifiers of annotations
  FirstDocs,   \* the documents the server may begin with
  Blank,       \* no topology, no document, no device
  MaxCalls,    \* bound on the calls under way
  MaxEdits,    \* bound on the edits of a behaviour
  MaxFailures  \* bound on the calls that fail for no reason of their own

Items == Gadgets \cup Notes
Docs  == [topo : Graphs, items : SUBSET Items, on : SUBSET Gadgets]

ASSUME BlankAssumption == Blank \notin Graphs \cup Gadgets \cup Docs
ASSUME FirstAssumption ==
  \A first \in FirstDocs : /\ first \in [Graphs -> Docs \cup {Blank}]
                           /\ \A g \in Graphs : first[g] # Blank => first[g].topo = g
ASSUME ItemsAssumption == Gadgets \cap Notes = {}

VARIABLES
  server,   \* the document of each topology, or Blank
  selected, \* selectedTopoId
  shown,    \* topology
  chosen,   \* selectedDeviceId
  windows,  \* the devices whose windows are open
  layout,   \* localStorage: the windows of each topology
  sent,     \* the calls the server has not served
  answers,  \* those it has, in the order it has
  made, failures, \* how many edits there were, and how many failures
  crossed   \* history: an answer came out of order or to another document than its own, or an
            \* edit was made in the document of a topology that is not selected

screen  == <<selected, shown, chosen, windows, layout>>
bounds  == <<made, failures>>
feVars  == <<server, screen, sent, answers, bounds, crossed>>

Call(op, g, x) == [op |-> op, topo |-> g, item |-> x]

BlankScreen ==
  /\ selected = Blank /\ shown = Blank /\ chosen = Blank
  /\ windows = {} /\ layout = [g \in Graphs |-> {}]
  /\ sent = {} /\ answers = <<>>
  /\ made = 0 /\ failures = 0
  /\ crossed = FALSE

ScreenInit == server \in FirstDocs /\ BlankScreen

TopoOf(doc) == IF doc = Blank THEN Blank ELSE doc.topo

-----------------------------------------------------------------------------
(* Renders and effects.                                                    *)

\* The windows after a render that shows doc with g selected: those of the storage when
\* one of the two changed, filtered by the devices of the document that is shown then.
WindowsFor(g, doc) ==
  IF g = selected /\ TopoOf(doc) = TopoOf(shown) THEN windows
  ELSE IF g = Blank \/ doc = Blank THEN {}
  ELSE layout[g] \cap doc.items

\* The tab shows doc with g selected and the windows ws, and stores the windows.
Rendered(g, doc, ws) ==
  /\ selected' = g /\ shown' = doc /\ windows' = ws
  /\ layout' = IF g = Blank THEN layout ELSE [layout EXCEPT ![g] = ws]

Shows(g, doc) == Rendered(g, doc, WindowsFor(g, doc))

\* The effect of a new selection: the document is fetched, and the old one stays until
\* the answer; without a selection it goes at once.
Selects(g) ==
  /\ Shows(g, IF g = Blank THEN Blank ELSE shown)
  /\ chosen' = Blank
  /\ sent' = sent \cup {Call("load", g, Blank) : x \in {g} \ {Blank}}

-----------------------------------------------------------------------------
(* What the user does.                                                     *)

Calls == sent \cup {answers[i].call : i \in 1..Len(answers)}

UnderWay == Cardinality(sent) + Len(answers)

Sends(c) ==
  /\ UnderWay < MaxCalls /\ c \notin sent
  /\ sent' = sent \cup {c}

Edits == made < MaxEdits /\ made' = made + 1 /\ UNCHANGED failures

\* The edit is of the document that is shown, which may still be another topology's.
EditsShown == crossed' = (crossed \/ shown.topo # selected)

SelectTopology(g) ==
  /\ g # selected
  /\ g # Blank => server[g] # Blank /\ UnderWay < MaxCalls
  /\ Selects(g)
  /\ UNCHANGED <<server, answers, bounds, crossed>>

OpenWindow(d) ==
  /\ shown # Blank /\ d \in shown.items
  /\ Rendered(selected, shown, windows \cup {d})
  /\ chosen' = d
  /\ UNCHANGED <<server, sent, answers, bounds, crossed>>

CloseWindow(d) ==
  /\ d \in windows
  /\ Rendered(selected, shown, windows \ {d})
  /\ UNCHANGED <<server, chosen, sent, answers, bounds, crossed>>

\* handleAddDeviceAt needs a selection only, the other edits a document, and none compares
\* the two.  Identifiers come from the clock: an item is added once.
AddItem(x) ==
  /\ selected # Blank /\ (x \in Notes => shown # Blank)
  /\ \A g \in Graphs : server[g] # Blank => x \notin server[g].items
  /\ \A c \in Calls : c.item # x
  /\ Edits /\ Sends(Call("add", selected, x))
  /\ UNCHANGED <<server, screen, answers, crossed>>

PowerDevice(d) ==
  /\ selected # Blank /\ shown # Blank /\ d \in shown.items
  /\ Edits /\ Sends(Call("power", selected, d)) /\ EditsShown
  /\ UNCHANGED <<server, screen, answers>>

DeleteDevice ==
  /\ selected # Blank /\ shown # Blank /\ chosen # Blank
  /\ Edits /\ Sends(Call("delete", selected, chosen)) /\ EditsShown
  /\ UNCHANGED <<server, screen, answers>>

Without(doc, x) == IF doc = Blank THEN doc ELSE [doc EXCEPT !.items = @ \ {x}, !.on = @ \ {x}]
With(doc, x)    == IF doc = Blank THEN doc ELSE [doc EXCEPT !.items = @ \cup {x}]

\* The note goes from the screen at once, and comes back if the call fails.
DeleteNote(n) ==
  /\ selected # Blank /\ shown # Blank /\ n \in shown.items
  /\ Edits /\ Sends(Call("forget", selected, n))
  /\ Shows(selected, Without(shown, n)) /\ EditsShown
  /\ UNCHANGED <<server, chosen, answers>>

\* A configuration was applied in a window: the document is fetched again.
Refresh ==
  /\ selected # Blank /\ windows # {}
  /\ Edits /\ Sends(Call("load", selected, Blank))
  /\ UNCHANGED <<server, screen, answers, crossed>>

CreateTopology(g) ==
  /\ server[g] = Blank
  /\ Edits /\ Sends(Call("create", g, Blank))
  /\ UNCHANGED <<server, screen, answers, crossed>>

DeleteTopology ==
  /\ selected # Blank
  /\ Edits /\ Sends(Call("drop", selected, Blank))
  /\ UNCHANGED <<server, screen, answers, crossed>>

\* The page is loaded again: the calls under way are abandoned.
ReloadPage ==
  /\ selected # Blank
  /\ selected' = Blank /\ shown' = Blank /\ chosen' = Blank /\ windows' = {}
  /\ sent' = {} /\ answers' = <<>> /\ crossed' = FALSE
  /\ UNCHANGED <<server, layout, bounds>>

-----------------------------------------------------------------------------
(* The server serves a call, and the tab gets the answer.                  *)

New(g) == [topo |-> g, items |-> {}, on |-> {}]

\* The document after a call that succeeds.
Served(c, doc) ==
  CASE c.op = "load"                    -> doc
    [] c.op = "create"                  -> New(c.topo)
    [] c.op = "drop"                    -> Blank
    [] c.op = "add"                     -> With(doc, c.item)
    [] c.op \in {"delete", "forget"}    -> Without(doc, c.item)
    [] c.op = "power"                   -> [doc EXCEPT !.on = IF c.item \in @ THEN @ \ {c.item} ELSE @ \cup {c.item}]

Succeeds(c) ==
  CASE c.op = "create" -> server[c.topo] = Blank
    [] c.op = "power"  -> server[c.topo] # Blank /\ c.item \in server[c.topo].items
    [] OTHER           -> server[c.topo] # Blank

Serve(c, ok) ==
  /\ c \in sent /\ (ok => Succeeds(c))
  /\ sent' = sent \ {c}
  /\ server' = IF ok THEN [server EXCEPT ![c.topo] = Served(c, @)] ELSE server
  /\ answers' = Append(answers, [call |-> c, ok |-> ok, doc |-> IF ok THEN server'[c.topo] ELSE Blank])
  /\ failures' = IF ~ ok /\ Succeeds(c) THEN failures + 1 ELSE failures
  /\ failures' <= MaxFailures
  /\ UNCHANGED <<screen, made, crossed>>

\* The device of an answer, powered as the server says, there or not.
Powered(doc, a) ==
  IF doc = Blank THEN doc
  ELSE [With(doc, a.call.item) EXCEPT
          !.on = IF a.call.item \in a.doc.on THEN @ \cup {a.call.item} ELSE @ \ {a.call.item}]

\* Mutant of After: a failed deletion of a note is not undone.
AfterNoRollback(a, doc) ==
  CASE a.ok /\ a.call.op = "load"       -> a.doc
    [] a.ok /\ a.call.op = "add"        -> With(doc, a.call.item)
    [] a.ok /\ a.call.op = "delete"     -> Without(doc, a.call.item)
    [] a.ok /\ a.call.op = "power"      -> Powered(doc, a)
    [] ~ a.ok /\ a.call.op = "load"     -> Blank
    [] OTHER                            -> doc

\* What an answer makes of the document that is shown by then.
After(a, doc) ==
  CASE a.ok /\ a.call.op = "load"       -> a.doc
    [] a.ok /\ a.call.op = "add"        -> With(doc, a.call.item)
    [] a.ok /\ a.call.op = "delete"     -> Without(doc, a.call.item)
    [] a.ok /\ a.call.op = "power"      -> Powered(doc, a)
    [] ~ a.ok /\ a.call.op = "load"     -> Blank
    [] ~ a.ok /\ a.call.op = "forget"   -> With(doc, a.call.item)
    [] OTHER                            -> doc

\* A fetched document brings back to the screen a note that is being deleted.
Revives(a) == a.ok /\ a.call.op = "load" /\ \E c \in Calls : c.op = "forget" /\ c.topo = a.call.topo /\ c.item \in a.doc.items

\* A topology is created under the name of one that a note is being deleted from.
Renews(a) == a.ok /\ a.call.op = "create" /\ \E c \in Calls : c.op = "forget" /\ c.topo = a.call.topo

\* An answer that finds the document it is about, after those before it.
InTurn(i) == i = 1 /\ ~ Revives(answers[i]) /\ ~ Renews(answers[i]) /\ LET c == answers[i].call
                      IN IF c.op \in {"load", "create", "drop"} THEN c.op = "create" \/ c.topo = selected
                         ELSE shown = Blank \/ shown.topo = c.topo

Deliver(i) ==
  LET a == answers[i]
      op == a.call.op
      chose == CASE a.ok /\ op = "add" /\ a.call.item \in Gadgets -> a.call.item
                 [] a.ok /\ op = "delete"                         -> Blank
                 [] OTHER                                         -> chosen
  IN /\ answers' = RemoveAt(answers, i)
     /\ CASE a.ok /\ op = "create" -> Selects(a.call.topo)
          [] a.ok /\ op = "drop"   -> Selects(Blank)
          [] OTHER -> Shows(selected, After(a, shown)) /\ chosen' = chose /\ UNCHANGED sent
     /\ crossed' = (crossed \/ ~ InTurn(i))
     /\ UNCHANGED <<server, bounds>>

Edit == \/ \E x \in Items : AddItem(x)
        \/ \E d \in Gadgets : PowerDevice(d)
        \/ \E n \in Notes : DeleteNote(n)
        \/ \E g \in Graphs : CreateTopology(g)
        \/ DeleteDevice \/ Refresh \/ DeleteTopology

ScreenNext == \/ \E g \in Graphs \cup {Blank} : SelectTopology(g)
              \/ \E d \in Gadgets : OpenWindow(d) \/ CloseWindow(d)
              \/ Edit \/ ReloadPage
              \/ \E c \in sent : Serve(c, TRUE) \/ Serve(c, FALSE)
              \/ \E i \in 1..Len(answers) : Deliver(i)

ScreenSpec == ScreenInit /\ [][ScreenNext]_feVars

-----------------------------------------------------------------------------
(* Properties.                                                             *)

Awaited(op) == \E c \in Calls : c.op = op /\ c.topo = selected

\* As long as edits and answers met the document they are about, in order, a document of
\* a topology that is not selected is on the screen only while the selected one is being
\* fetched, and once all calls are answered the screen shows what the server stores.
ScreenAgrees ==
  ~ crossed /\ shown # Blank =>
    /\ shown.topo # selected => Awaited("load")
    /\ UnderWay = 0 => shown = server[selected]

===============================================================================
