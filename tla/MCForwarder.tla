---------------------------- MODULE MCForwarder ----------------------------
(***************************************************************************)
(* One local client; two numbers for listening sockets, one of which may   *)
(* be bound twice; two connections, made while nobody listens on the other *)
(* number; limits that are met.                                            *)
(***************************************************************************)
EXTENDS Forwarder

CONSTANTS client, port, other

MCClients == {client}
MCListens == {port, other}
MCEarly == {other}

=============================================================================
