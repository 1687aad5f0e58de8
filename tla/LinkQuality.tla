----------------------------- MODULE LinkQuality -----------------------------
(***************************************************************************)
(* internal/api/link_quality_sync.go with executeCLI: the delay and loss   *)
(* of a link.  They are configured at the interfaces of its two ends, kept *)
(* in the sessions of the two devices and in the document, and the link    *)
(* has the worse of the two; a command recomputes the link of the          *)
(* interface it is given on, from the sessions that are cached.            *)
(*                                                                         *)
(* executeCLI holds the lock of its own device only.  It copies the        *)
(* document, runs the command on the session, recomputes the link in the   *)
(* copy, and stores the copy.                                              *)
(***************************************************************************)
EXTENDS Naturals, Sequences, FiniteSets, FiniteSetsExt

CONSTANTS
  QDevices,
  QPorts,
  Wires,      \* the links there may be: sets of two ends, <<device, port>> each
  Qualities,  \* delay, loss
  Values,     \* the values that are configured
  NoSetting       \* not configured

ASSUME WiresAssumption ==
  /\ \A w \in Wires : w \subseteq QDevices \X QPorts /\ IsFiniteSet(w) /\ Cardinality(w) = 2
  /\ Values \subseteq Nat /\ NoSetting \notin Values

Unused     == [p \in QPorts |-> [f \in Qualities |-> NoSetting]]
Perfect    == [f \in Qualities |-> 0]

VARIABLES
  document,  \* the links that are there, their quality, and the configuration of each device
  sessions,  \* the configuration in the session of each device
  cached,      \* the devices whose session is cached
  step,      \* the step the command of each device has reached
  registry,  \* the cached sessions as each command saw them
  copyOf,    \* the document as each command copied it
  overtaken, \* history: the commands whose copy is older than the document
  doubtful   \* history: links whose quality something else has determined

qVars == <<document, sessions, cached, step, registry, copyOf, overtaken, doubtful>>

NoCopy == [wired |-> {}, quality |-> [w \in Wires |-> Perfect], kept |-> [d \in QDevices |-> Unused]]

QualityInit ==
  /\ document = [NoCopy EXCEPT !.wired = Wires]
  /\ sessions = [d \in QDevices |-> Unused] /\ cached = {}
  /\ step = [d \in QDevices |-> "idle"]
  /\ registry = [d \in QDevices |-> {}]
  /\ copyOf = [d \in QDevices |-> NoCopy]
  /\ overtaken = {} /\ doubtful = {}

\* findLinkByEndpoint: a port has one link at most.
LinksAt(doc, d, p) == {w \in doc.wired : <<d, p>> \in w}
LinksOf(doc, d)    == UNION {LinksAt(doc, d, p) : p \in QPorts}

Level(x) == IF x = NoSetting THEN 0 ELSE x

\* Mutant of Effective: the interface configured last decides.
EffectiveHere(w, d, known) ==
  [f \in Qualities |-> Max({0} \cup {Level(sessions'[e[1]][e[2]][f]) : e \in {x \in w : x[1] = d}})]

\* effectiveLinkQuality: the worse of the two ends, as far as their sessions are known.
Effective(w, d, known) ==
  [f \in Qualities |-> Max({0} \cup {Level(sessions'[e[1]][e[2]][f]) : e \in {x \in w : x[1] \in known}})]

\* What is configured for a device: in its session, or else in the document.
Settings(d) == IF d \in cached THEN sessions[d] ELSE document.kept[d]

Idle(d) == step[d] = "idle"
Goes(d, s) == step' = [step EXCEPT ![d] = s]

\* The document is stored: the copies that were made of it are old now.
Copied    == {d \in QDevices : step[d] \in {"copied", "ran"}}
Overtakes == overtaken' = Copied

-----------------------------------------------------------------------------
(* A command.                                                              *)

Load(d) ==
  /\ cached' = cached \cup {d}
  /\ sessions' = IF d \in cached THEN sessions ELSE [sessions EXCEPT ![d] = document.kept[d]]

\* The session is found or built, and the cached sessions are listed.
BeginCommand(d) ==
  /\ Idle(d) /\ Goes(d, "begun")
  /\ Load(d)
  /\ registry' = [registry EXCEPT ![d] = cached']
  /\ UNCHANGED <<document, copyOf, overtaken, doubtful>>

CopyDocument(d) ==
  /\ step[d] = "begun" /\ Goes(d, "copied")
  /\ copyOf' = [copyOf EXCEPT ![d] = document]
  /\ overtaken' = overtaken \ {d}
  /\ UNCHANGED <<document, sessions, cached, registry, doubtful>>

\* delay, loss and their undo, in the view of an interface.  A link whose ends' sessions
\* are both known now has the quality they give it.
RunQuality(d, p, f, v) ==
  /\ step[d] = "copied" /\ Goes(d, "ran")
  /\ sessions' = [sessions EXCEPT ![d][p][f] = v]
  /\ LET synced  == LinksAt(copyOf[d], d, p)
         certain == {w \in synced : \A e \in w : e[1] \in registry[d] \/ Settings(e[1]) = Unused}
     IN /\ copyOf' = [copyOf EXCEPT ![d].quality = [w \in Wires |-> IF w \in synced THEN Effective(w, d, registry[d]) ELSE @[w]]]
        /\ doubtful' = (doubtful \ certain) \cup (synced \ certain)
  /\ UNCHANGED <<document, cached, registry, overtaken>>

\* Any other command leaves the quality alone.
RunOther(d) ==
  /\ step[d] = "copied" /\ Goes(d, "ran")
  /\ UNCHANGED <<document, sessions, cached, registry, copyOf, overtaken, doubtful>>

\* Whatever was stored since the copy was made is overwritten.
SaveCommand(d) ==
  /\ step[d] = "ran" /\ Goes(d, "idle")
  /\ document' = [copyOf[d] EXCEPT !.kept = [@ EXCEPT ![d] = sessions[d]]]
  /\ overtaken' = Copied \ {d}
  /\ doubtful' = IF d \in overtaken THEN Wires ELSE doubtful
  /\ registry' = [registry EXCEPT ![d] = {}] /\ copyOf' = [copyOf EXCEPT ![d] = NoCopy]
  /\ UNCHANGED <<sessions, cached>>

-----------------------------------------------------------------------------
(* The handlers that write the document, and the cache.                    *)

Resting == \A d \in QDevices : Idle(d)

\* updateLink sets a delay that is not 0, whatever the interfaces say.
SetLinkDelay(w, f, v) ==
  /\ w \in document.wired /\ f # "loss" /\ v # 0
  /\ document' = [document EXCEPT !.quality[w][f] = v]
  /\ doubtful' = doubtful \cup {w}
  /\ Overtakes
  /\ UNCHANGED <<sessions, cached, step, registry, copyOf>>

RemoveLink(w) ==
  /\ w \in document.wired
  /\ document' = [document EXCEPT !.wired = @ \ {w}, !.quality[w] = Perfect]
  /\ doubtful' = doubtful \ {w}
  /\ Overtakes
  /\ UNCHANGED <<sessions, cached, step, registry, copyOf>>

\* A link comes without delay and loss, whatever its interfaces have been given before.
PlugLink(w) ==
  /\ w \in Wires \ document.wired
  /\ \A e \in w : LinksAt(document, e[1], e[2]) = {}
  /\ document' = [document EXCEPT !.wired = @ \cup {w}]
  /\ doubtful' = IF \E e \in w : Settings(e[1])[e[2]] # Unused[e[2]] THEN doubtful \cup {w} ELSE doubtful
  /\ Overtakes
  /\ UNCHANGED <<sessions, cached, step, registry, copyOf>>

\* A session is built for a display or a diagnostic, or dropped by an edit of the device
\* or by a restart, which takes along what the document does not have.  A drop while a
\* command runs is CliState's subject.
LoadSession(d) ==
  /\ d \notin cached /\ Load(d)
  /\ UNCHANGED <<document, step, registry, copyOf, overtaken, doubtful>>

DropSession(d) ==
  /\ Resting /\ d \in cached
  /\ cached' = cached \ {d}
  /\ sessions' = [sessions EXCEPT ![d] = Unused]
  /\ doubtful' = IF sessions[d] = document.kept[d] THEN doubtful ELSE doubtful \cup LinksOf(document, d)
  /\ UNCHANGED <<document, step, registry, copyOf, overtaken>>

QualityNext ==
  \/ \E d \in QDevices :
       \/ BeginCommand(d) \/ CopyDocument(d) \/ RunOther(d) \/ SaveCommand(d)
       \/ \E p \in QPorts, f \in Qualities, v \in {NoSetting} \cup Values : RunQuality(d, p, f, v)
       \/ LoadSession(d) \/ DropSession(d)
  \/ \E w \in Wires : \/ RemoveLink(w) \/ PlugLink(w)
                      \/ \E f \in Qualities, v \in Values : SetLinkDelay(w, f, v)

QualitySpec == QualityInit /\ [][QualityNext]_qVars

-----------------------------------------------------------------------------
(* Properties.                                                             *)

Worse(w, f) == Max({0} \cup {Level(Settings(e[1])[e[2]][f]) : e \in w})

\* link_quality_sync.go says that a link has the worse quality of its two ends, whatever
\* the order of the commands.  So it has, between commands, unless the configured other
\* end had no cached session, a command overwrote another's document, the delay was set
\* at the link, or the link was plugged into a configured interface; and the next command
\* on one of its ends with both sessions cached makes it so again.
QualityAgrees ==
  Resting => \A w \in document.wired \ doubtful : \A f \in Qualities : document.quality[w][f] = Worse(w, f)
=============================================================================
