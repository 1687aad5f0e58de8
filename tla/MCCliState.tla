----------------------------- MODULE MCCliState -----------------------------
(* Two requests for a device of one topology and one edit.  What becomes of *)
(* an edit does not depend on the others; requests that change nothing      *)
(* stand for the second actor.                                              *)
EXTENDS CliState
=============================================================================
