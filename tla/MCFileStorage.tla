--------------------------- MODULE MCFileStorage ---------------------------
(* A small store: short and long documents, so that one can overwrite only *)
(* the head of the other.                                                  *)
EXTENDS FileStorage

CONSTANTS short, long

MCLength == [d \in Docs |-> IF d = short THEN 1 ELSE 2]
=============================================================================
