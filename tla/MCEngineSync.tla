---------------------------- MODULE MCEngineSync ----------------------------
(* Two requests and two timers: enough for an edit that overtakes another. *)
EXTENDS EngineSync
=============================================================================
