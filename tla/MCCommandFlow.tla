--------------------------- MODULE MCCommandFlow ---------------------------
(***************************************************************************)
(* Two clients that send one or two commands each, and limits low enough   *)
(* to be met.                                                              *)
(***************************************************************************)
EXTENDS CommandFlow, TLC

CONSTANTS a, b

MCClients == {a, b}

TwoAndOne == a :> 2 @@ b :> 1

OneEach == a :> 1 @@ b :> 1

=============================================================================
