--------------------------- MODULE MCExecuteQueue ---------------------------
(***************************************************************************)
(* A binary heap of up to five commands of two clients, with three         *)
(* priority values: three levels, ties, and every order of arrival.  The   *)
(* command objects are interchangeable, and no property names one.         *)
(***************************************************************************)
EXTENDS ExecuteQueue, TLC

MCRanks == 0..2

MCSymmetry == Permutations(Commands) \cup Permutations(Handles)

=============================================================================
