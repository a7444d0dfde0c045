--------------------------- MODULE MCPtp4lSource ---------------------------
(* Ptp4lSource for TLC: the .cfg files give the bounds. *)
EXTENDS Ptp4lSource

\* Eight synchronisation messages a second.
EighthSecond == -3
============================================================================
