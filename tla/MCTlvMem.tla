------------------------------ MODULE MCTlvMem ------------------------------
(***************************************************************************)
(* TlvMem for TLC: four addresses, two C++ copies, ids of each kind (the   *)
(* copies of a CLOCK_DESCRIPTION run out of memory at each of its parts),  *)
(* and texts that need padding and that do not.                            *)
(***************************************************************************)
EXTENDS TlvMem, TLC

CONSTANTS b1, b2, b3, b4, o1, o2

MCBlocks == {b1, b2, b3, b4}
MCObjects == {o1, o2}
MCIds == {"USER_DESCRIPTION", "CLOCK_DESCRIPTION", "ENABLE_PORT",
          "PORT_DATA_SET_NP"}
MCTextLengths == {0, 1, 2}

Symmetry == Permutations(MCBlocks) \union Permutations(MCObjects)
=============================================================================
