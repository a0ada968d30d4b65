--------------------------- MODULE MCPlayersFile ---------------------------
(* Two players, interchangeable. *)
EXTENDS PlayersFile, TLC

CONSTANTS Ann, Bob

MCPeople == {Ann, Bob}
MCSymmetry == Permutations(MCPeople)
=============================================================================
