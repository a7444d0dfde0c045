------------------------------- MODULE MCPmc -------------------------------
(***************************************************************************)
(* Pmc for TLC: a list that may be empty, and an id that is set.           *)
(***************************************************************************)
EXTENDS Pmc

MCCommands == {<<"GET", "PATH_TRACE_LIST">>, <<"SET", "PRIORITY1">>}
MCAuths == {"none", "wrong", "good"}
=============================================================================
