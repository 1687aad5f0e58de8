------------------------------- MODULE GontEngine -------------------------------
(***************************************************************************)
(* How a server built with the tag gont comes to an engine:                *)
(* getOrCreateEngine of internal/api/router.go, NewEngine of               *)
(* internal/sim/platform.go and Start of internal/sim/gont_emulator.go,    *)
(* for one topology. Locks have their holders; a thread that wants a lock  *)
(* waits until it is free, a lock that it holds itself included, as Go's   *)
(* mutexes are.                                                            *)
(***************************************************************************)
EXTENDS Naturals

CONSTANTS
  Callers,     \* handlers that want the engine
  RouterCount, \* the routers of the topology
  None         \* holds no lock

VARIABLES
  engMu, mu,  \* the holders of the locks of the server and of the engine
  engine,     \* what runs for the topology: "none", "gont", "ns-x"
  at,         \* where each caller is
  emits       \* how many events it has still to emit

gontVars == <<engMu, mu, engine, at, emits>>

GontInit ==
  /\ engMu = None /\ mu = None
  /\ engine = "none"
  /\ at = [c \in Callers |-> "idle"] /\ emits = [c \in Callers |-> 0]

Goes(c, from, to) == at[c] = from /\ at' = [at EXCEPT ![c] = to]

\* getOrCreateEngine holds the lock of the server until it returns.
AskEngine(c) ==
  /\ Goes(c, "idle", "creating")
  /\ engMu = None /\ engMu' = c
  /\ UNCHANGED <<mu, engine, emits>>

FindEngine(c) ==
  /\ Goes(c, "creating", "idle") /\ engine # "none"
  /\ engMu' = None
  /\ UNCHANGED <<mu, engine, emits>>

\* NewEngine: without privileges, or without a network, the engine is that of ns-x, which
\* starts without waiting.
CreateNsx(c) ==
  /\ Goes(c, "creating", "idle") /\ engine = "none"
  /\ engine' = "ns-x" /\ engMu' = None
  /\ UNCHANGED <<mu, emits>>

CreateGont(c) ==
  /\ Goes(c, "creating", "starting") /\ engine = "none"
  /\ UNCHANGED <<engMu, mu, engine, emits>>

\* Start takes the lock of the engine for as long as it runs, and emits an event for every
\* router, whether its FRR starts or not, and one of its own.
EnterStart(c) ==
  /\ Goes(c, "starting", "emitting")
  /\ mu = None /\ mu' = c
  /\ emits' = [emits EXCEPT ![c] = RouterCount + 1]
  /\ UNCHANGED <<engMu, engine>>

\* emit takes the lock of the engine to write the history.
Emit(c) ==
  /\ at[c] = "emitting" /\ emits[c] > 0
  /\ mu = None
  /\ emits' = [emits EXCEPT ![c] = @ - 1]
  /\ UNCHANGED <<engMu, mu, engine, at>>

ReturnStart(c) ==
  /\ Goes(c, "emitting", "idle") /\ emits[c] = 0
  /\ mu' = None /\ engMu' = None
  /\ engine' = "gont"
  /\ UNCHANGED emits

GontStep(c) ==
  \/ FindEngine(c) \/ CreateNsx(c) \/ CreateGont(c)
  \/ EnterStart(c) \/ Emit(c) \/ ReturnStart(c)

GontNext == \E c \in Callers : AskEngine(c) \/ GontStep(c)

\* A handler that has the lock of the server goes on.
GontSpec == GontInit /\ [][GontNext]_gontVars /\ \A c \in Callers : WF_gontVars(GontStep(c))

-----------------------------------------------------------------------------

\* getOrCreateEngine returns. Its comment, internal/api/router.go:82, says that it does:
\* it returns the engine of the topology and starts its event loop on the first call.
EngineIsReturned == \A c \in Callers : at[c] = "creating" ~> at[c] = "idle"
=============================================================================
