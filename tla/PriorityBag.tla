----------------------------- MODULE PriorityBag -----------------------------
(***************************************************************************)
(* What the server's execution queue promises to the threads that use it:  *)
(* a bag of waiting commands from which a command of least priority value  *)
(* is moved to the execution cache.  Nothing is lost, nothing is copied,   *)
(* and cancelling the commands of a client changes neither the contents of *)
(* the bag nor what leaves it next.                                        *)
(*                                                                         *)
(* ExecuteQueue implements this specification with an array heap.          *)
(***************************************************************************)
EXTENDS Integers, Sequences

CONSTANTS Commands,  (* the command objects                                *)
          Handles,   (* handles of attached clients: the keys of the queue *)
          NoHandle,  (* the NULL key of a cancelled command                *)
          Ranks      (* the priority values a command may be queued with   *)

VARIABLES waiting,  (* the set of queued entries                           *)
          cache     (* the entries taken, in the order they were taken     *)

bagVars == <<waiting, cache>>

(***************************************************************************)
(* An element of the queue: the command, its client and its priority value. *)
(* The code compares priority_value(command, counter), which subtracts the *)
(* same counter from both sides of every comparison; rank is what is left: *)
(* priority + penalty + wait_start * time_priority_factor.                 *)
(***************************************************************************)
Entry == [cmd : Commands, rank : Ranks, key : Handles \cup {NoHandle}]

\* No entry of the set S has a lower priority value than e.
IsLeast(e, S) == \A f \in S : e.rank <= f.rank

\* The entry e once the commands of client h are cancelled.
Cancelled(e, h) == IF e.key = h THEN [e EXCEPT !.key = NoHandle] ELSE e

-----------------------------------------------------------------------------

Init == /\ waiting = {}
        /\ cache = <<>>

\* A command that is not queued and not cached arrives.
Put == \E e \in Entry :
         /\ e.key # NoHandle
         /\ \A f \in waiting : f.cmd # e.cmd
         /\ \A i \in 1..Len(cache) : cache[i].cmd # e.cmd
         /\ waiting' = waiting \cup {e}
         /\ cache' = cache

\* An entry of least value leaves for the execution cache.
TakeLeast == \E e \in waiting :
               /\ IsLeast(e, waiting)
               /\ waiting' = waiting \ {e}
               /\ cache' = Append(cache, e)

Cancel == \E h \in Handles :
            /\ waiting' = {Cancelled(e, h) : e \in waiting}
            /\ cache' = cache

\* The execution thread is done with the first cached command.
Execute == /\ cache # <<>>
           /\ cache' = Tail(cache)
           /\ waiting' = waiting

Next == Put \/ TakeLeast \/ Cancel \/ Execute

Spec == Init /\ [][Next]_bagVars

=============================================================================
