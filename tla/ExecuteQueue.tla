---------------------------- MODULE ExecuteQueue ----------------------------
(***************************************************************************)
(* The execution queue of the server: execute_queue_multi <Order>, a heap  *)
(* of order Order in an array (libs/server/local-include/execute-queue.hpp) *)
(* compared with priority_adjust (priority-adjust.hpp).                    *)
(*                                                                         *)
(* insert_command appends the element and sifts it up; transfer_top_command *)
(* moves the first element to the execution cache, puts the last one in its *)
(* place and sifts that one down; remove_commands cancels the commands of  *)
(* a client in place.  Each turn of a sifting loop is one step, so that the *)
(* loop invariants can be stated; other operations wait for pc = "idle",   *)
(* since every caller holds the queue's mutex for a whole operation.       *)
(***************************************************************************)
EXTENDS Integers, Sequences

CONSTANTS Commands, Handles, NoHandle, Ranks,
          Order       (* children per node, PARAM_EXECUTE_HEAP_ORDER       *)

ASSUME QueueAssumption == /\ Ranks \subseteq Int
                          /\ NoHandle \notin Handles
                          /\ Order \in Nat \ {0}

VARIABLES heap,   (* the array: a function on 0 .. size-1                  *)
          size,   (* number_waiting()                                      *)
          cache,  (* the list transfer_top_command appends to              *)
          pc,     (* "idle", or the sifting loop that is running           *)
          cur     (* the loops' variable current                           *)

vars == <<heap, size, cache, pc, cur>>

\* Which entries there are, and what a cancelled one looks like.
Bag == INSTANCE PriorityBag WITH waiting <- {heap[i] : i \in 0..(size - 1)}

Entry == Bag!Entry

Parent(i)   == (i - 1) \div Order
Children(i) == {c \in (i * Order + 1)..(i * Order + Order) : c < size}

Value(i) == heap[i].rank

\* Fault: the exchange without its temporary.
SwitchedNoTemporary(i, j) == [heap EXCEPT ![i] = heap[j]]

\* The array with the elements at i and j exchanged.
Switched(i, j) == [heap EXCEPT ![i] = heap[j], ![j] = heap[i]]

Queued(c) == \/ \E i \in 0..(size - 1) : heap[i].cmd = c
             \/ \E i \in 1..Len(cache) : cache[i].cmd = c

-----------------------------------------------------------------------------

Init == /\ heap = [i \in {} |-> i]
        /\ size = 0
        /\ cache = <<>>
        /\ pc = "idle"
        /\ cur = 0

\* The element goes to the end of the array and will be sifted up from there.
InsertCommand(e) ==
    /\ pc = "idle"
    /\ e.key # NoHandle
    /\ ~Queued(e.cmd)
    /\ heap' = [i \in 0..size |-> IF i = size THEN e ELSE heap[i]]
    /\ size' = size + 1
    /\ pc' = "up"
    /\ cur' = size
    /\ UNCHANGED cache

\* The parent is not '<=' the element: they change places.
SiftUpSwitch ==
    /\ pc = "up"
    /\ cur > 0
    /\ ~(Value(Parent(cur)) <= Value(cur))
    /\ heap' = Switched(cur, Parent(cur))
    /\ cur' = Parent(cur)
    /\ UNCHANGED <<size, cache, pc>>

\* Fault: sift_up stops one place short of the root.
SiftUpEndEarly ==
    /\ pc = "up"
    /\ cur > 1 => Value(Parent(cur)) <= Value(cur)
    /\ pc' = "idle"
    /\ cur' = 0
    /\ UNCHANGED <<heap, size, cache>>

SiftUpEnd ==
    /\ pc = "up"
    /\ cur > 0 => Value(Parent(cur)) <= Value(cur)
    /\ pc' = "idle"
    /\ cur' = 0
    /\ UNCHANGED <<heap, size, cache>>

\* Fault: the last element is sifted down although none is left.
TransferTopAlwaysSifts ==
    /\ pc = "idle"
    /\ size > 0
    /\ cache' = Append(cache, heap[0])
    /\ heap' = [i \in 0..(size - 2) |-> IF i = 0 THEN heap[size - 1] ELSE heap[i]]
    /\ size' = size - 1
    /\ pc' = "down"
    /\ cur' = 0

\* The first element leaves, the last one takes its place.
TransferTopCommand ==
    /\ pc = "idle"
    /\ size > 0
    /\ cache' = Append(cache, heap[0])
    /\ heap' = [i \in 0..(size - 2) |-> IF i = 0 THEN heap[size - 1] ELSE heap[i]]
    /\ size' = size - 1
    /\ pc' = IF size - 1 > 1 THEN "down" ELSE "idle"
    /\ cur' = 0

\* Fault: the scan takes the first child that is '<=' the element.
IsFirstFit(g, i) ==
    /\ g \in Children(i)
    /\ Value(g) <= Value(i)
    /\ \A c \in Children(i) : c < g => ~(Value(c) <= Value(i))

\* The child the scan of the children ends with: the last of the least ones, if
\* that one is '<=' the element at i.
IsGreatest(g, i) ==
    /\ g \in Children(i)
    /\ Value(g) <= Value(i)
    /\ \A c \in Children(i) : IF c > g THEN Value(g) < Value(c) ELSE Value(g) <= Value(c)

\* Fault: the loop goes on with the same element.
SiftDownStays ==
    /\ pc = "down"
    /\ cur < size - 1
    /\ \E g \in Children(cur) : IsGreatest(g, cur) /\ heap' = Switched(g, cur)
    /\ UNCHANGED <<size, cache, pc, cur>>

SiftDownSwitch ==
    /\ pc = "down"
    /\ cur < size - 1
    /\ \E g \in Children(cur) :
         /\ IsGreatest(g, cur)
         /\ heap' = Switched(g, cur)
         /\ cur' = g
    /\ UNCHANGED <<size, cache, pc>>

SiftDownEnd ==
    /\ pc = "down"
    /\ cur < size - 1 => \A c \in Children(cur) : ~(Value(c) <= Value(cur))
    /\ pc' = "idle"
    /\ cur' = 0
    /\ UNCHANGED <<heap, size, cache>>

\* Fault: a cancelled command at the end of the array is taken off it.
RemoveCommandsTrims(h) ==
    /\ pc = "idle"
    /\ size > 0 /\ heap[size - 1].key = h
    /\ heap' = [i \in 0..(size - 2) |-> Bag!Cancelled(heap[i], h)]
    /\ size' = size - 1
    /\ UNCHANGED <<cache, pc, cur>>

\* The commands of client h lose their handle and keep their places.
RemoveCommands(h) ==
    /\ pc = "idle"
    /\ heap' = [i \in 0..(size - 1) |-> Bag!Cancelled(heap[i], h)]
    /\ UNCHANGED <<size, cache, pc, cur>>

\* The execution thread is done with the first cached command.
RemoveSingle ==
    /\ pc = "idle"
    /\ cache # <<>>
    /\ cache' = Tail(cache)
    /\ UNCHANGED <<heap, size, pc, cur>>

Sift == SiftUpSwitch \/ SiftUpEnd \/ SiftDownSwitch \/ SiftDownEnd

Next == \/ \E e \in Entry : InsertCommand(e)
        \/ TransferTopCommand
        \/ Sift
        \/ \E h \in Handles : RemoveCommands(h)
        \/ RemoveSingle

Spec == Init /\ [][Next]_vars

-----------------------------------------------------------------------------

(***************************************************************************)
(* Types: the array has size elements, and the index of a sifting loop is  *)
(* inside it.                                                              *)
(***************************************************************************)
TypeOK == /\ size \in Nat
          /\ heap \in [0..(size - 1) -> Entry]
          /\ cache \in Seq(Entry)
          /\ pc \in {"idle", "up", "down"}
          /\ cur \in Nat
          /\ pc = "idle" => cur = 0
          /\ pc # "idle" => cur < size

\* Element i has a parent in the array and is not below it in value.
Ordered(i) == Value(Parent(i)) <= Value(i)

\* The children of the element at cur are not below the parent of cur: the
\* element at cur may be exchanged with its parent or with a child.
Bridged == cur > 0 => \A c \in Children(cur) : Value(Parent(cur)) <= Value(c)

(***************************************************************************)
(* The loop invariants: between operations every element is ordered after  *)
(* its parent; while an element is sifted, the one place that may be out of *)
(* order is the element against its parent (sift_up) or against its        *)
(* children (sift_down).                                                   *)
(***************************************************************************)
HeapOrder ==
    /\ pc = "idle" => \A i \in 1..(size - 1) : Ordered(i)
    /\ pc = "up"   => /\ \A i \in 1..(size - 1) : i # cur => Ordered(i)
                      /\ Bridged
    /\ pc = "down" => /\ \A i \in 1..(size - 1) : Parent(i) # cur => Ordered(i)
                      /\ Bridged

(***************************************************************************)
(* What transfer_top_command hands out is always a command of least        *)
(* priority value among all that wait, however deep the heap is.           *)
(***************************************************************************)
TopIsLeast == pc = "idle" => \A i \in 0..(size - 1) : Value(0) <= Value(i)

(***************************************************************************)
(* A command is in one place: sifting, transferring and cancelling never   *)
(* duplicate an element, in the array or across the array and the cache.   *)
(***************************************************************************)
OnePlace ==
    /\ \A i, j \in 0..(size - 1) : heap[i].cmd = heap[j].cmd => i = j
    /\ \A i, j \in 1..Len(cache) : cache[i].cmd = cache[j].cmd => i = j
    /\ \A i \in 0..(size - 1), j \in 1..Len(cache) : heap[i].cmd # cache[j].cmd

(***************************************************************************)
(* Both sifting loops end, although sift_down also exchanges elements of   *)
(* equal value: every turn brings current nearer to the root (sift_up) or  *)
(* to the end of the array (sift_down).                                    *)
(***************************************************************************)
TurnsLeft == IF pc = "up" THEN cur ELSE size - cur

SiftingEnds == [][pc # "idle" /\ pc' = pc => TurnsLeft' < TurnsLeft]_vars

(***************************************************************************)
(* The queue implements the abstract bag of waiting commands: what leaves  *)
(* is a least one, sifting and cancelling lose and copy nothing.           *)
(***************************************************************************)
ImplementsBag == Bag!Spec

=============================================================================
