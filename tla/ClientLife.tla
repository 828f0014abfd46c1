----------------------------- MODULE ClientLife -----------------------------
(***************************************************************************)
(* What the server promises about the life of a client, whoever ends it:   *)
(* the client is in the table as long as its thread works for it, leaves   *)
(* the table for good, and its thread ends only after it has left by       *)
(* itself or in the step that takes it from the table.                     *)
(*                                                                         *)
(* CommandFlow, where removal and termination are single steps, implements *)
(* this specification, and so does Teardown, where they are many.          *)
(***************************************************************************)
CONSTANT Clients

VARIABLES life,    (* unborn, serving, leaving or done: the client's thread *)
          listed   (* the clients in the table                              *)

lifeVars == <<life, listed>>

\* Those attached at the start serve, and nobody else is listed.
Init == /\ life \in [Clients -> {"unborn", "serving"}]
        /\ listed = {c \in Clients : life[c] = "serving"}

\* start_new_client, add_detached_client
Attach(c) == /\ life[c] = "unborn"
             /\ life' = [life EXCEPT ![c] = "serving"]
             /\ listed' = listed \cup {c}

\* Its thread has left its loop and will remove it, unless somebody else does.
Leave(c) == /\ life[c] = "serving"
            /\ life' = [life EXCEPT ![c] = "leaving"]
            /\ UNCHANGED listed

\* Its thread is done.  It has removed the client, has found it removed, or leaves
\* a critical client where it is.
Withdraw(c) == /\ life[c] = "leaving"
               /\ life' = [life EXCEPT ![c] = "done"]
               /\ listed' \in {listed, listed \ {c}}

\* The clients of D are taken from the table together with the threads of K.  A
\* thread that is left alone does not use its client any more.
Terminate(D, K) == /\ \A c \in D \ K : life[c] \in {"leaving", "done"}
                   /\ life' = [c \in Clients |-> IF c \in K THEN "done" ELSE life[c]]
                   /\ listed' = listed \ D

Next == \/ \E c \in Clients : Attach(c) \/ Leave(c) \/ Withdraw(c)
        \/ \E D \in SUBSET listed : \E K \in SUBSET D : Terminate(D, K)

Spec == Init /\ [][Next]_lifeVars

-----------------------------------------------------------------------------
(* What follows, for all that implement it.                                 *)

\* The thread of a client that serves uses a client of the table.
ServersListed == /\ life \in [Clients -> {"unborn", "serving", "leaving", "done"}]
                 /\ \A c \in Clients : life[c] = "serving" => c \in listed

\* Who has left the table does not come back, and whose thread has left its loop
\* does not serve again.
NoReturn == [][\A c \in Clients : life[c] # "unborn" =>
                  /\ c \in listed' => c \in listed
                  /\ life'[c] = "serving" => life[c] = "serving"]_lifeVars

=============================================================================
