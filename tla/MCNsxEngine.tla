---------------------------- MODULE MCNsxEngine ----------------------------
(* NsxEngine on small instances: two pings against one or two slots, a queue *)
(* of one packet, two readings of the clock, and a restart.                  *)
EXTENDS NsxEngine
=============================================================================
