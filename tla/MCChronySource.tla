--------------------------- MODULE MCChronySource ---------------------------
(* ChronySource for TLC: the .cfg files give the bounds. *)
EXTENDS ChronySource
============================================================================
