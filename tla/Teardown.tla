------------------------------ MODULE Teardown ------------------------------
(***************************************************************************)
(* The end of a client: its thread (client_thread, monitor_response)       *)
(* against whoever destroys its object (~client_id), which is that thread  *)
(* itself, the execution thread for a command or at the end of the server, *)
(* or another client's thread that mistakes the object for its own.        *)
(*                                                                         *)
(* Objects live at addresses that are used again.  The table is under      *)
(* set_one, the queue under set_two; response_thread and process_id are    *)
(* under nothing, so that each access to them is a step.  A thread makes   *)
(* one object's life: the fields of the object of thread t are indexed by  *)
(* t.                                                                      *)
(***************************************************************************)
EXTENDS FiniteSets, Naturals

CONSTANTS Threads, None,     (* the threads of clients, pthread_t of 0      *)
          Executor,          (* the execution thread                        *)
          Handles,           (* addresses of client_id objects              *)
          Critical           (* threads whose client is critical            *)

ASSUME TeardownAssumption == /\ None \notin Threads
                             /\ Executor \notin Threads \cup {None}
                             /\ Critical \subseteq Threads

VARIABLES object,      (* table: whose object is listed at an address       *)
          address,     (* the address a thread was given                    *)
          responder,   (* response_thread is set                            *)
          process,     (* process_id is not negative                        *)
          pc,          (* where a thread is                                 *)
          firstExit,   (* first_exit                                        *)
          cancelled,   (* a cancellation is pending                         *)
          status,      (* how the thread may be, or has been, disposed of   *)
          holder,      (* who holds set_one                                 *)
          todo,        (* addresses the holder is still to remove           *)
          victim,      (* whose object it is destroying                     *)
          stage,       (* where the destructor is                           *)
          exited,      (* the server has left its loop                      *)
          crashed,     (* cancelled or joined the thread 0                  *)
          between      (* history: threads that had looked at their process *)
                       (* and not cleared their id when it was forgotten    *)

fields == <<responder, process, firstExit>>
thread == <<pc, cancelled, status>>
lock   == <<holder, todo, victim, stage>>
vars   == <<object, address, fields, thread, lock, exited, crashed, between>>

Alive(t)  == t \in Threads /\ \E h \in Handles : object[h] = t
Listed    == {h \in Handles : object[h] # None}

\* Where a thread uses its object.
Using == {"starting", "monitoring", "queueing", "selecting", "returned", "read"}

\* Fault: set_two is taken by whoever takes set_one.
QueueLockedByAll == holder # None

\* set_two is held for as long as set_one by a client's thread that removes,
\* which takes both; all else that is done under set_two is one step.
QueueLocked == holder \in Threads

Init == /\ object = [h \in Handles |-> None]
        /\ address \in [Threads -> Handles]
        /\ responder = [t \in Threads |-> FALSE]
        /\ process = [t \in Threads |-> FALSE]
        /\ pc = [t \in Threads |-> "unborn"]
        /\ firstExit = [t \in Threads |-> FALSE]
        /\ cancelled = [t \in Threads |-> FALSE]
        /\ status = [t \in Threads |-> "joinable"]
        /\ holder = None
        /\ todo = {}
        /\ victim = None
        /\ stage = "idle"
        /\ exited = FALSE
        /\ crashed = FALSE
        /\ between = {}

\* start_new_client, add_detached_client: a command, in one step under set_one.
Start(t) ==
    /\ holder = None
    /\ ~exited
    /\ pc[t] = "unborn"
    /\ object[address[t]] = None
    /\ object' = [object EXCEPT ![address[t]] = t]
    /\ responder' = [responder EXCEPT ![t] = TRUE]
    /\ process' = [process EXCEPT ![t] = TRUE]
    /\ pc' = [pc EXCEPT ![t] = "starting"]
    /\ UNCHANGED <<address, firstExit, cancelled, status, lock, exited, crashed, between>>

-----------------------------------------------------------------------------
(* client_thread.                                                           *)

Goes(t, from, to) == pc[t] = from /\ pc' = [pc EXCEPT ![t] = to]

\* monitor_response disables cancellation ...
Enter(t) ==
    /\ Goes(t, "starting", "monitoring")
    /\ UNCHANGED <<object, address, fields, cancelled, status, lock, exited, crashed, between>>

\* ... has read a command and is about to lock set_two for it, cancellation
\* being disabled ...
Parse(t) ==
    /\ Goes(t, "monitoring", "queueing")
    /\ UNCHANGED <<object, address, fields, cancelled, status, lock, exited, crashed, between>>

\* ... queues it and goes on as long as the client is active, that is, until
\* kill_ipc ...
Queue(t) ==
    /\ ~QueueLocked
    /\ Goes(t, "queueing", IF process[t] THEN "monitoring" ELSE "returned")
    /\ UNCHANGED <<object, address, fields, cancelled, status, lock, exited, crashed, between>>

\* ... enables it for select and disables it afterwards ...
Select(t) ==
    /\ Goes(t, "monitoring", "selecting")
    /\ UNCHANGED <<object, address, fields, cancelled, status, lock, exited, crashed, between>>

Input(t) ==
    /\ ~cancelled[t]
    /\ Goes(t, "selecting", "monitoring")
    /\ UNCHANGED <<object, address, fields, cancelled, status, lock, exited, crashed, between>>

\* ... and leaves it disabled when it returns (closed, inactive, too many
\* errors).
Return(t) ==
    /\ Goes(t, "monitoring", "returned")
    /\ UNCHANGED <<object, address, fields, cancelled, status, lock, exited, crashed, between>>

\* A pending cancellation is acted upon where it is enabled.
ActCancel(t) ==
    /\ cancelled[t]
    /\ pc[t] \in {"starting", "selecting"}
    /\ pc' = [pc EXCEPT ![t] = "ended"]
    /\ UNCHANGED <<object, address, fields, cancelled, status, lock, exited, crashed, between>>

ReadProcess(t) ==
    /\ Goes(t, "returned", "read")
    /\ firstExit' = [firstExit EXCEPT ![t] = process[t]]
    /\ UNCHANGED <<object, address, responder, process, cancelled, status, lock,
                   exited, crashed, between>>

ClearResponder(t) ==
    /\ Goes(t, "read", IF firstExit[t] THEN "sleeping" ELSE "ended")
    /\ responder' = [responder EXCEPT ![t] = FALSE]
    /\ UNCHANGED <<object, address, process, firstExit, cancelled, status, lock,
                   exited, crashed, between>>

\* Fault: the thread is left to be joined by somebody.
DetachNot(t) ==
    /\ Goes(t, "sleeping", "removing")
    /\ UNCHANGED <<object, address, fields, cancelled, status, lock, exited, crashed, between>>

\* pthread_detach does nothing if somebody joins the thread already.
Detach(t) ==
    /\ Goes(t, "sleeping", "removing")
    /\ status' = [status EXCEPT ![t] = IF @ = "joining" THEN @ ELSE "detached"]
    /\ UNCHANGED <<object, address, fields, cancelled, lock, exited, crashed, between>>

\* remove_local_client takes set_one and set_two, which is then free too, and
\* looks for the address.
Remove(t) ==
    /\ pc[t] = "removing"
    /\ holder = None
    /\ holder' = t
    /\ todo' = {address[t]} \cap Listed
    /\ UNCHANGED <<object, address, fields, thread, victim, stage, exited, crashed, between>>

-----------------------------------------------------------------------------
(* Removal: remove_client_common and ~client_id, by who holds set_one.      *)

\* A command terminates or kills one client or all that match, with set_one
\* alone (get_common).
Command(H) ==
    /\ holder = None
    /\ ~exited
    /\ H # {}
    /\ holder' = Executor
    /\ todo' = H
    /\ UNCHANGED <<object, address, fields, thread, victim, stage, exited, crashed, between>>

\* disconnect_all_clients destroys the critical ones too.
DisconnectAll ==
    /\ holder = None
    /\ ~exited
    /\ exited' = TRUE
    /\ holder' = Executor
    /\ todo' = Listed
    /\ UNCHANGED <<object, address, fields, thread, victim, stage, crashed, between>>

\* A critical client stays in the table as long as the server runs; with it
\* the search for more to remove is over.
Spare == /\ stage = "idle"
         /\ ~exited
         /\ \E h \in todo : object[h] \in Critical
         /\ todo' = {}
         /\ UNCHANGED <<object, address, fields, thread, holder, victim, stage,
                        exited, crashed, between>>

Take == /\ stage = "idle"
        /\ \E h \in todo : /\ exited \/ object[h] \notin Critical
                           /\ victim' = object[h]
                           /\ todo' = todo \ {h}
        /\ stage' = "test"
        /\ UNCHANGED <<object, address, fields, thread, holder, exited, crashed, between>>

Test ==
    /\ stage = "test"
    /\ stage' = IF responder[victim] /\ process[victim] THEN "mark" ELSE "delete"
    /\ UNCHANGED <<object, address, fields, thread, holder, todo, victim, exited, crashed, between>>

\* Fault: the process is forgotten only when the thread is gone.
MarkNot ==
    /\ stage = "mark"
    /\ stage' = "cancel"
    /\ UNCHANGED <<object, address, fields, thread, holder, todo, victim, exited, crashed, between>>

\* The directive, kill_ipc, and the process that is no more.
Mark ==
    /\ stage = "mark"
    /\ stage' = "cancel"
    /\ process' = [process EXCEPT ![victim] = FALSE]
    /\ between' = between \cup {t \in {victim} : pc[t] = "read"}
    /\ UNCHANGED <<object, address, responder, firstExit, thread, holder, todo,
                   victim, exited, crashed>>

\* Fault: the thread is left to notice by itself.
CancelNot ==
    /\ stage = "cancel"
    /\ stage' = "load"
    /\ UNCHANGED <<object, address, fields, thread, holder, todo, victim, exited, crashed, between>>

Cancel ==
    /\ stage = "cancel"
    /\ responder[victim]
    /\ stage' = "load"
    /\ cancelled' = [cancelled EXCEPT ![victim] = TRUE]
    /\ UNCHANGED <<object, address, fields, pc, status, holder, todo, victim,
                   exited, crashed, between>>

\* The argument of pthread_join is read again.
LoadJoin ==
    /\ stage = "load"
    /\ responder[victim]
    /\ stage' = "join"
    /\ UNCHANGED <<object, address, fields, thread, holder, todo, victim, exited, crashed, between>>

\* Cancelling or joining the thread 0.
Crash ==
    /\ stage \in {"cancel", "load"}
    /\ ~responder[victim]
    /\ crashed' = TRUE
    /\ UNCHANGED <<object, address, fields, thread, lock, exited, between>>

\* A detached thread cannot be joined, and pthread_join says so at once.
Join ==
    /\ stage = "join"
    /\ stage' = IF status[victim] = "detached" THEN "delete" ELSE "wait"
    /\ status' = [status EXCEPT ![victim] = IF @ = "detached" THEN @ ELSE "joining"]
    /\ UNCHANGED <<object, address, fields, pc, cancelled, holder, todo, victim,
                   exited, crashed, between>>

\* Fault: the thread is not waited for.
JoinedAtOnce ==
    /\ stage = "wait"
    /\ stage' = "delete"
    /\ status' = [status EXCEPT ![victim] = "joined"]
    /\ UNCHANGED <<object, address, fields, pc, cancelled, holder, todo, victim,
                   exited, crashed, between>>

Joined ==
    /\ stage = "wait"
    /\ pc[victim] = "ended"
    /\ stage' = "delete"
    /\ status' = [status EXCEPT ![victim] = "joined"]
    /\ UNCHANGED <<object, address, fields, pc, cancelled, holder, todo, victim,
                   exited, crashed, between>>

Delete ==
    /\ stage = "delete"
    /\ stage' = "idle"
    /\ object' = [h \in Handles |-> IF object[h] = victim THEN None ELSE object[h]]
    /\ victim' = None
    /\ UNCHANGED <<address, fields, thread, holder, todo, exited, crashed, between>>

\* Fault: set_one is given back before the destructor runs.
ReleaseEarly ==
    /\ holder # None
    /\ todo = {}
    /\ holder' = None
    /\ pc' = [t \in Threads |-> IF t = holder THEN "ended" ELSE pc[t]]
    /\ UNCHANGED <<object, address, fields, cancelled, status, todo, victim, stage,
                   exited, crashed, between>>

\* set_one is given back, and set_two with it; a client's thread then ends.
Release ==
    /\ holder # None
    /\ stage = "idle"
    /\ todo = {}
    /\ holder' = None
    /\ pc' = [t \in Threads |-> IF t = holder THEN "ended" ELSE pc[t]]
    /\ UNCHANGED <<object, address, fields, cancelled, status, todo, victim, stage,
                   exited, crashed, between>>

-----------------------------------------------------------------------------

ClientThread(t) ==
    /\ ~crashed
    /\ \/ Enter(t) \/ Parse(t) \/ Queue(t) \/ Select(t) \/ Input(t) \/ Return(t)
       \/ ActCancel(t) \/ ReadProcess(t) \/ ClearResponder(t) \/ Detach(t)

Removal == /\ ~crashed
           /\ \/ Spare \/ Take \/ Test \/ Mark \/ Cancel \/ LoadJoin \/ Crash
              \/ Join \/ Joined \/ Delete \/ Release

Begin == /\ ~crashed
         /\ \/ \E t \in Threads : Start(t) \/ Remove(t)
            \/ \E H \in SUBSET Listed : Command(H)
            \/ DisconnectAll

Next == Begin \/ Removal \/ \E t \in Threads : ClientThread(t)

Spec == Init /\ [][Next]_vars

\* The threads run; nobody is made to begin a removal.
FairSpec == Spec /\ WF_vars(Removal) /\ \A t \in Threads : WF_vars(ClientThread(t))

-----------------------------------------------------------------------------
(* Properties.                                                              *)

\* Every part of the state has its type.
TypeOK ==
    /\ object \in [Handles -> Threads \cup {None}]
    /\ address \in [Threads -> Handles]
    /\ responder \in [Threads -> BOOLEAN]
    /\ process \in [Threads -> BOOLEAN]
    /\ pc \in [Threads -> Using \cup {"unborn", "sleeping", "removing", "ended"}]
    /\ firstExit \in [Threads -> BOOLEAN]
    /\ cancelled \in [Threads -> BOOLEAN]
    /\ status \in [Threads -> {"joinable", "joining", "detached", "joined"}]
    /\ holder \in Threads \cup {None, Executor}
    /\ todo \subseteq Handles
    /\ victim \in Threads \cup {None}
    /\ stage \in {"idle", "test", "mark", "cancel", "load", "join", "wait", "delete"}
    /\ exited \in BOOLEAN
    /\ crashed \in BOOLEAN
    /\ between \subseteq Threads
    /\ stage # "idle" => victim \in Threads /\ holder # None

\* A thread that may still read or write its object finds it there: whoever
\* destroys the object has joined the thread, or has found the id cleared,
\* which is the thread's last access.
TouchesLiving == \A t \in Threads : pc[t] \in Using => object[address[t]] = t

\* A thread that cannot go on before the mutexes are free.
WaitsForLock(t) == \/ pc[t] = "removing" /\ holder \notin {None, t}
                   \/ pc[t] = "queueing" /\ QueueLocked

\* Everybody waits for everybody: the holder of the mutexes joins a thread
\* that waits for one of them.
Stuck == stage = "wait" /\ WaitsForLock(victim)

\* A thread that removes what is now at the address of its own client, which
\* somebody else has destroyed before.
Mistaken == holder \in Threads /\ ~Alive(holder) /\ address[holder] = address[victim]

\* Everybody waits for everybody in two histories only.  Either the destructor
\* has forgotten the process exactly between the thread's look at it and the
\* thread's clearing its id (two statements): in any other order one of the two
\* finds out that the other is at it.  Or a thread removes another's client by
\* mistake, holding set_two, and that client is just about to queue a command.
StuckTwoWays == Stuck => \/ pc[victim] = "removing" /\ victim \in between
                         \/ pc[victim] = "queueing" /\ Mistaken

\* A thread that has ended is joined or detached, by exactly one side, unless
\* who destroys its object is still about to.
Reaped ==
    \A t \in Threads : pc[t] = "ended" =>
        \/ status[t] \in {"joined", "detached"}
        \/ victim = t /\ (stage \in {"mark", "cancel", "load", "join", "wait"} \/ crashed)

\* A removal that has begun comes to its end and the client is gone: the thread
\* that is joined ends, because it is cancelled or finds that somebody else
\* removes its client, in every history but the two of StuckTwoWays and those
\* that cancel or join the thread 0.
RemovalEnds == \A t \in Threads : (victim = t) ~> (~Alive(t) \/ crashed \/ Stuck)

=============================================================================
