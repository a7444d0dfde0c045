-------------------------- MODULE MCClientRuntime --------------------------
(* ClientRuntime for TLC: the .cfg files give the bounds. *)
EXTENDS ClientRuntime
============================================================================
