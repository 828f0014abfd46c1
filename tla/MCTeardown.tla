---------------------------- MODULE MCTeardown ----------------------------
(***************************************************************************)
(* Three clients at two addresses, one of them critical.                   *)
(***************************************************************************)
EXTENDS Teardown

=============================================================================
