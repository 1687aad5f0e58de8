------------------------------ MODULE MCAnswers ------------------------------
(***************************************************************************)
(* What a user gets to see: the answer to a ping by the engine and by the  *)
(* ACL evaluation, the document in the browser tab, the log of a terminal. *)
(* The modules share no state; a behaviour is one scene, in which one      *)
(* module moves and the others keep a fixed state.                         *)
(***************************************************************************)
EXTENDS MCForwarding, MCPathAcl, FrontEnd, Terminals

CONSTANTS ga, gb, d0, d1, n0, b1, b2, c1, c2, Scenes

VARIABLE scene

searchVars == <<vars, aclVars>>

MCFirst ==
  { (ga :> [topo |-> ga, items |-> {d0, n0}, on |-> {}]) @@ (gb :> [topo |-> gb, items |-> {d0}, on |-> {}]),
    (ga :> [topo |-> ga, items |-> {n0}, on |-> {}]) @@ (gb :> Blank) }

MCBoxOf == (c1 :> b1) @@ (c2 :> b2)

\* The fixed states of the modules that do not move.
NoFlood ==
  /\ fabric = CHOOSE f \in PlainFabrics : Len(f.links) = 1
  /\ pinger = h1 /\ pinged = h2 /\ inflight = {} /\ answered = TRUE

NoSearch == set = Quiet /\ links = {} /\ src = h /\ dst = s /\ target = as /\ AclInit

NoScreen == server = [g0 \in Graphs |-> Blank] /\ BlankScreen

AnswersInit ==
  /\ scene \in Scenes
  /\ IF scene = "flood" THEN FloodInit ELSE NoFlood
  /\ IF scene = "path" THEN PathInit ELSE NoSearch
  /\ IF scene = "screen" THEN ScreenInit ELSE NoScreen
  /\ TermInit

\* With windows open, or kept for a topology, one edit at most, and no failure.
FewWindows ==
  /\ windows' = {} \/ (made' <= 1 /\ failures' = 0 /\ windows' \subseteq {d0})
  /\ made' + failures' <= 1 \/ \A g0 \in Graphs : layout'[g0] = {}

Flooding  == scene = "flood" /\ Hop /\ UNCHANGED <<searchVars, feVars, termVars>>
Searching == scene = "path" /\ AclNext /\ UNCHANGED <<floodVars, feVars, termVars>>
Screening == scene = "screen" /\ ScreenNext /\ FewWindows /\ UNCHANGED <<floodVars, searchVars, termVars>>
Typing    == scene = "terminals" /\ TermNext /\ ~ torn /\ UNCHANGED <<floodVars, searchVars, feVars>>

AnswersNext == UNCHANGED scene /\ (Flooding \/ Searching \/ Screening \/ Typing)

answersVars == <<scene, floodVars, searchVars, feVars, termVars>>

\* The event loop of the engine runs while packets are under way.
AnswersSpec == AnswersInit /\ [][AnswersNext]_answersVars /\ WF_answersVars(scene' = scene /\ Flooding)
=============================================================================
