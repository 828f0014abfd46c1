-------------------------- MODULE MCCommandStatus --------------------------
(* Two commands, one callback, an event of each kind.                       *)
EXTENDS CommandStatus, TLC

CONSTANTS c1, c2

Interchangeable == Permutations({c1, c2})

=============================================================================
