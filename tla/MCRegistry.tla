----------------------------- MODULE MCRegistry -----------------------------
(***************************************************************************)
(* Three clients ever, at two addresses, so that an address is used again; *)
(* one is the server's own.                                                *)
(***************************************************************************)
EXTENDS Registry, TLC

MCFirst       == {"admin", "server", "resource", "monitor"}
MCPermissions == {{"admin", "resource"}}
MCRequests    == {{"admin", "server", "resource", "monitor"}, {"monitor"}}

MCSymmetry == Permutations(Handles) \cup Permutations(Names)

=============================================================================
