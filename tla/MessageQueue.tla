---------------------------- MODULE MessageQueue ----------------------------
(***************************************************************************)
(* The message queue of a client: the thread that reads from the server,   *)
(* the user's thread that starts, stops, pauses and empties the queue and  *)
(* waits for messages, and the threads that end a pause after a time.      *)
(*                                                                         *)
(* Only the list of messages is under a mutex.  Everything else, the       *)
(* pausing condition above all, is read and written by all threads as it   *)
(* comes.  What a thread still has to do is a sequence of steps, code[a],  *)
(* in which the functions they share appear as steps of the same name.     *)
(***************************************************************************)
EXTENDS Naturals, Sequences, FiniteSets

CONSTANTS User, Queues, Timers,   (* threads                                *)
          None,                   (* pthread_t()                            *)
          Limits,                 (* for how many messages; 0: any number   *)
          MaxSize,                (* bound: messages there are at a time    *)
          Threshold, Restore,     (* of automatic pausing, in per cent      *)
          Timed,                  (* an automatic pause has a timeout       *)
          MaxCalls                (* bound: calls the user makes            *)

ASSUME MessageQueueAssumption ==
    /\ User \notin Queues \cup Timers \cup {None}
    /\ Queues \cap Timers = {}
    /\ None \notin Queues \cup Timers
    /\ Limits \subseteq 0..MaxSize
    /\ Limits # {}
    /\ MaxSize \in Nat
    /\ Threshold \in 0..100
    /\ Restore \in 0..100
    /\ Restore < Threshold \/ Threshold = 0
    /\ Timed \in BOOLEAN
    /\ MaxCalls \in Nat

Threads == {User} \cup Queues \cup Timers

\* Why a pause lasts: no time was given for it; the timer was cancelled before
\* it paused, or came to its end after the queue's; no timer could be started.
Reasons == {"asked", "lost", "failed"}

VARIABLES code,       (* what a thread still does; none: it does not exist  *)
          calls,      (* the user has made                                  *)
          size, limit,(* of the list of messages                            *)
          listLock,   (* who holds the list's mutex                         *)
          internal,   (* internal_thread                                    *)
          exitState,  (* exit_state                                         *)
          exitLock,   (* who holds queue_exit_mutex                         *)
          paused,     (* queue_pause_condition is active                    *)
          syncing,    (* message_sync_resume is active                      *)
          current,    (* current_timeout_thread                             *)
          cancelled,  (* threads with a pending cancellation                *)
          disposed,   (* queue threads that are joined or detached          *)
          without,    (* history: why nothing may end the pause by itself   *)
          overlap     (* history: the latest queue thread was started while *)
                      (* an earlier one was still leaving                   *)

list    == <<size, limit, listLock>>
control == <<internal, exitState, exitLock>>
threads == <<cancelled, disposed>>
pausing == <<paused, current, without>>
vars    == <<code, calls, list, control, threads, pausing, syncing, overlap>>

At(a, s) == code[a] # <<>> /\ Head(code[a]) = s

\* Thread a goes on with s and then with what it had to do before.
Then(a, s) == code' = [code EXCEPT ![a] = s \o Tail(@)]

\* A condition is deactivated: whoever waits for it at the step s goes on.
Wakes(a, s) == code' = [x \in Threads |-> IF x = a \/ At(x, s) THEN Tail(code[x])
                                          ELSE code[x]]

\* Thread a does s now or later.
Will(a, s) == \E i \in DOMAIN code[a] : code[a][i] = s

\* The queue thread q may still execute commands.
InLoop(q) == \E s \in {"begin", "loop", "input", "select"} : Will(q, s)

\* message_queue_status
Running == internal # None

\* A thread of S to start; which one does not matter.
Unused(S) == LET ended == {x \in S : code[x] = <<>>}
             IN  {x \in ended : x = CHOOSE y \in ended : TRUE}

Init == /\ code = [a \in Threads |-> <<>>]
        /\ calls = 0
        /\ size = 0
        /\ limit \in Limits
        /\ listLock = None
        /\ internal = None
        /\ exitState = TRUE
        /\ exitLock = None
        /\ paused = FALSE
        /\ syncing = FALSE
        /\ current = None
        /\ cancelled = {}
        /\ disposed = Queues
        /\ without = {}
        /\ overlap = FALSE

-----------------------------------------------------------------------------
(* Pausing, by any thread.                                                  *)

\* message_queue_pause
Pause(a) ==
    /\ At(a, "pause")
    /\ Then(a, <<>>)
    /\ paused' = (paused \/ Running)
    /\ without' = IF Running THEN without \cup {"asked"} ELSE without
    /\ UNCHANGED <<list, control, threads, current, syncing, overlap>>

\* message_queue_unpause
Unpause(a) ==
    /\ At(a, "unpause")
    /\ Then(a, IF Running /\ paused THEN <<"cancel timer", "deactivate">> ELSE <<>>)
    /\ without' = IF a \in Timers /\ paused /\ ~Running THEN without \cup {"lost"}
                  ELSE without
    /\ UNCHANGED <<list, control, threads, paused, current, syncing, overlap>>

\* cancel_pause_timeout; a thread that has ended, or never began, is not there to
\* be cancelled.
CancelTimer(a) ==
    /\ At(a, "cancel timer")
    /\ Then(a, <<>>)
    /\ cancelled' = cancelled \cup {p \in Timers : p = current /\ code[p] # <<>>}
    /\ current' = None
    /\ UNCHANGED <<list, control, disposed, paused, without, syncing, overlap>>

\* auto_condition::deactivate
Deactivate(a) ==
    /\ At(a, "deactivate")
    /\ Wakes(a, "asleep")
    /\ paused' = FALSE
    /\ without' = {}
    /\ UNCHANGED <<list, control, threads, current, syncing, overlap>>

\* Fault: the timer is started first, and then cancelled for being the current.
TimedPauseSwapped(a) ==
    /\ At(a, "timed")
    /\ Then(a, IF Running THEN <<"create timer", "cancel timer">> ELSE <<>>)
    /\ UNCHANGED <<list, control, threads, pausing, syncing, overlap>>

\* message_queue_timed_pause
TimedPause(a) ==
    /\ At(a, "timed")
    /\ Then(a, IF Running THEN <<"cancel timer", "create timer">> ELSE <<>>)
    /\ UNCHANGED <<list, control, threads, pausing, syncing, overlap>>

CreateTimer(a) ==
    /\ At(a, "create timer")
    /\ \E p \in Unused(Timers) :
          /\ code' = [code EXCEPT ![a] = Tail(@), ![p] = <<"begin pause">>]
          /\ current' = p
    /\ UNCHANGED <<list, control, threads, paused, without, syncing, overlap>>

\* The thread cannot be created, when the timer before it is cancelled already:
\* a pause that the latter made, or is about to make, stays.  What is left for an
\* id is unspecified.
TimerFails(a) ==
    /\ At(a, "create timer")
    /\ Then(a, <<>>)
    /\ current' \in {current} \cup Unused(Timers)
    /\ without' = IF paused \/ \E p \in Timers \cap cancelled : At(p, "begin pause")
                  THEN without \cup {"failed"} ELSE without
    /\ UNCHANGED <<list, control, threads, paused, syncing, overlap>>

AtRestore   == limit = 0 \/ Threshold = 0 \/ size * 100 <= limit * Restore
AtThreshold == size * 100 >= limit * Threshold

\* auto_pause_check
Check(a) ==
    /\ At(a, "check")
    /\ Then(a, CASE AtRestore                 -> <<"unpause">>
                 [] AtThreshold /\ ~AtRestore -> <<IF Timed THEN "timed" ELSE "pause">>
                 [] OTHER                     -> <<>>)
    /\ UNCHANGED <<list, control, threads, pausing, syncing, overlap>>

\* auto_unpause_check
Uncheck(a) ==
    /\ At(a, "uncheck")
    /\ Then(a, IF AtRestore THEN <<"unpause">> ELSE <<>>)
    /\ UNCHANGED <<list, control, threads, pausing, syncing, overlap>>

Unlock(a) ==
    /\ At(a, "unlock")
    /\ Then(a, <<>>)
    /\ listLock' = None
    /\ UNCHANGED <<size, limit, control, threads, pausing, syncing, overlap>>

Shared(a) == \/ Pause(a) \/ Unpause(a) \/ CancelTimer(a) \/ Deactivate(a)
             \/ TimedPause(a) \/ CreateTimer(a) \/ TimerFails(a)
             \/ Check(a) \/ Uncheck(a) \/ Unlock(a)

-----------------------------------------------------------------------------
(* pause_timeout_thread.  It can be cancelled only while it sleeps.         *)

BeginPause(p) ==
    /\ At(p, "begin pause")
    /\ Then(p, IF Running THEN <<"sleep">> ELSE <<"end timer">>)
    /\ paused' = (paused \/ Running)
    /\ without' = IF IF Running THEN p \in cancelled ELSE paused
                  THEN without \cup {"lost"} ELSE without
    /\ UNCHANGED <<list, control, threads, current, syncing, overlap>>

Sleep(p) ==
    /\ At(p, "sleep")
    /\ Then(p, IF p \in cancelled THEN <<>> ELSE <<"unpause", "end timer">>)
    /\ cancelled' = cancelled \ {p}
    /\ UNCHANGED <<list, control, disposed, pausing, syncing, overlap>>

EndTimer(p) ==
    /\ At(p, "end timer")
    /\ Then(p, <<>>)
    /\ current' = None
    /\ cancelled' = cancelled \ {p}
    /\ UNCHANGED <<list, control, disposed, paused, without, syncing, overlap>>

Timer(p) == BeginPause(p) \/ Sleep(p) \/ EndTimer(p)

-----------------------------------------------------------------------------
(* message_queue_thread and internal_queue_loop.                            *)

Begin(q) ==
    /\ At(q, "begin")
    /\ Then(q, <<"loop">>)
    /\ exitState' = FALSE
    /\ syncing' = TRUE
    /\ UNCHANGED <<list, internal, exitLock, threads, pausing, overlap>>

Loop(q) ==
    /\ At(q, "loop")
    /\ Then(q, CASE exitState            -> <<"end">>
                 [] ~exitState /\ paused  -> <<"wait", "input">>
                 [] ~exitState /\ ~paused -> <<"input">>)
    /\ UNCHANGED <<list, control, threads, pausing, syncing, overlap>>

\* auto_condition::block tests once more and then waits, for a condition that
\* may have been deactivated, and destroyed, before the test or after it.
Wait(q) ==
    /\ At(q, "wait")
    /\ IF paused THEN Then(q, <<"asleep">>) ELSE Then(q, <<>>) \/ Then(q, <<"lost">>)
    /\ UNCHANGED <<list, control, threads, pausing, syncing, overlap>>

SpuriousWakeup(a) ==
    /\ \E s \in {"asleep", "lost", "sync asleep", "sync lost"} : At(a, s)
    /\ Then(a, <<>>)
    /\ UNCHANGED <<list, control, threads, pausing, syncing, overlap>>

\* There is nothing to read, a command that leaves no message or finds the
\* list full, or the end.
Input(q) ==
    /\ At(q, "input")
    /\ \E s \in IF exitState THEN {"end"} ELSE {"select", "loop", "end"} : Then(q, <<s>>)
    /\ UNCHANGED <<list, control, threads, pausing, syncing, overlap>>

\* Fault: the list grows beyond its limit.
AddMessageUnlimited(q) ==
    /\ At(q, "input")
    /\ ~exitState
    /\ listLock = None
    /\ size < MaxSize
    /\ Then(q, <<"check", "unlock", "signal", "loop">>)
    /\ size' = size + 1
    /\ listLock' = q
    /\ UNCHANGED <<limit, control, threads, pausing, syncing, overlap>>

\* A command that leaves a message: add_new_message.
AddMessage(q) ==
    /\ At(q, "input")
    /\ ~exitState
    /\ listLock = None
    /\ limit = 0 \/ size < limit
    /\ size < MaxSize
    /\ Then(q, <<"check", "unlock", "signal", "loop">>)
    /\ size' = size + 1
    /\ listLock' = q
    /\ UNCHANGED <<limit, control, threads, pausing, syncing, overlap>>

\* Something arrives, or reading fails.
Select(q) ==
    /\ At(q, "select")
    /\ q \notin cancelled
    /\ \E s \in {"input", "end"} : Then(q, <<s>>)
    /\ UNCHANGED <<list, control, threads, pausing, syncing, overlap>>

\* A cancelled thread ends without a trace.
ActCancel(q) ==
    /\ At(q, "select")
    /\ q \in cancelled
    /\ Then(q, <<>>)
    /\ cancelled' = cancelled \ {q}
    /\ UNCHANGED <<list, control, disposed, pausing, syncing, overlap>>

\* queue_sync_continue
Signal(q) ==
    /\ At(q, "signal")
    /\ IF syncing THEN Wakes(q, "sync asleep") ELSE Then(q, <<>>)
    /\ UNCHANGED <<list, control, threads, pausing, syncing, overlap>>

End(q) ==
    /\ At(q, "end")
    /\ Then(q, <<"end sync", "try">>)
    /\ exitState' = TRUE
    /\ UNCHANGED <<list, internal, exitLock, threads, pausing, syncing, overlap>>

\* Fault: who waits is not woken.
EndSyncSilent(a) ==
    /\ At(a, "end sync")
    /\ Then(a, <<>>)
    /\ syncing' = FALSE
    /\ UNCHANGED <<list, control, threads, pausing, overlap>>

EndSync(a) ==
    /\ At(a, "end sync")
    /\ Wakes(a, "sync asleep")
    /\ syncing' = FALSE
    /\ UNCHANGED <<list, control, threads, pausing, overlap>>

\* Fault: the outcome of the attempt is ignored.
TryIgnored(q) ==
    /\ At(q, "try")
    /\ Then(q, <<"detach", "leave">>)
    /\ UNCHANGED <<list, control, threads, pausing, syncing, overlap>>

\* Who gets the mutex disposes of the thread; who does not, leaves it alone.
Try(q) ==
    /\ At(q, "try")
    /\ Then(q, IF exitLock = None THEN <<"detach", "leave">> ELSE <<>>)
    /\ exitLock' = IF exitLock = None THEN q ELSE exitLock
    /\ cancelled' = IF exitLock = None THEN cancelled ELSE cancelled \ {q}
    /\ UNCHANGED <<list, internal, exitState, disposed, pausing, syncing, overlap>>

Detach(q) ==
    /\ At(q, "detach")
    /\ Then(q, <<>>)
    /\ disposed' = IF Running THEN disposed \cup {q} ELSE disposed
    /\ UNCHANGED <<list, control, cancelled, pausing, syncing, overlap>>

Leave(q) ==
    /\ At(q, "leave")
    /\ Then(q, <<>>)
    /\ internal' = None
    /\ exitLock' = None
    /\ cancelled' = cancelled \ {q}
    /\ UNCHANGED <<list, exitState, disposed, pausing, syncing, overlap>>

Queue(q) == \/ Begin(q) \/ Loop(q) \/ Wait(q) \/ Input(q) \/ AddMessage(q)
            \/ ActCancel(q) \/ Signal(q) \/ End(q) \/ EndSync(q)
            \/ Try(q) \/ Detach(q) \/ Leave(q)

-----------------------------------------------------------------------------
(* The user's thread calls one function after the other.                    *)

Calls(s) == code[User] = <<>> /\ code' = [code EXCEPT ![User] = s]

\* start_message_queue
Start ==
    /\ code[User] = <<>>
    /\ ~Running
    /\ \E q \in Unused(disposed) :
          /\ code' = [code EXCEPT ![q] = <<"begin">>]
          /\ internal' = q
          /\ disposed' = disposed \ {q}
    /\ overlap' = (\E x \in Queues : code[x] # <<>> /\ (overlap \/ ~InLoop(x)))
    /\ UNCHANGED <<list, exitState, exitLock, cancelled, pausing, syncing>>

\* pause, unpause (message_queue_pause_state too, when there is no message), a
\* timed pause, stop, waiting for a message; without a queue they do nothing.
Call == /\ Running
        /\ \E s \in {"pause", "unpause", "timed", "sync", "stop"} : Calls(<<s>>)
        /\ UNCHANGED <<list, control, threads, pausing, syncing, overlap>>

\* The current message, or any number of responses, is removed.
RemoveMessages ==
    /\ listLock = None
    /\ \E n \in 0..size : size' = n
    /\ listLock' = User
    /\ Calls(<<"uncheck", "unlock">>)
    /\ UNCHANGED <<limit, control, threads, pausing, syncing, overlap>>

\* set_message_list_max
SetLimit(l) ==
    /\ listLock = None
    /\ limit' = l
    /\ size' = IF l > 0 /\ l < size THEN l ELSE size
    /\ listLock' = User
    /\ Calls(<<"check", "unlock">>)
    /\ UNCHANGED <<control, threads, pausing, syncing, overlap>>

\* stop_message_queue
Stop ==
    /\ At(User, "stop")
    /\ Then(User, IF exitLock = None THEN <<"unpause", "kill", "join", "end sync">>
                  ELSE <<"unpause", "forget", "end sync">>)
    /\ exitLock' = IF exitLock = None THEN User ELSE exitLock
    /\ exitState' = TRUE
    /\ UNCHANGED <<list, internal, threads, pausing, syncing, overlap>>

\* Fault: the thread is not cancelled.
KillNot ==
    /\ At(User, "kill")
    /\ IF Running THEN Then(User, <<>>) ELSE code' = [code EXCEPT ![User] = <<"crashed">>]
    /\ UNCHANGED <<list, control, threads, pausing, syncing, overlap>>

\* The thread may have left between the look at internal and the mutex; then
\* the thread 0 is cancelled, which is a crash.
Kill ==
    /\ At(User, "kill")
    /\ IF Running THEN Then(User, <<>>) ELSE code' = [code EXCEPT ![User] = <<"crashed">>]
    /\ cancelled' = cancelled \cup ({internal} \ {None})
    /\ UNCHANGED <<list, control, disposed, pausing, syncing, overlap>>

\* Fault: the thread is not waited for.
JoinAtOnce ==
    /\ At(User, "join")
    /\ Then(User, <<>>)
    /\ disposed' = disposed \cup {internal}
    /\ internal' = None
    /\ exitLock' = None
    /\ UNCHANGED <<list, exitState, cancelled, pausing, syncing, overlap>>

Join ==
    /\ At(User, "join")
    /\ code[internal] = <<>>
    /\ Then(User, <<>>)
    /\ disposed' = disposed \cup {internal}
    /\ cancelled' = cancelled \ {internal}
    /\ internal' = None
    /\ exitLock' = None
    /\ UNCHANGED <<list, exitState, pausing, syncing, overlap>>

Forget ==
    /\ At(User, "forget")
    /\ Then(User, <<>>)
    /\ internal' = None
    /\ UNCHANGED <<list, exitState, exitLock, threads, pausing, syncing, overlap>>

\* message_queue_sync: the size, whether there is a queue, and the condition
\* are looked at, the pause ends, and the condition is looked at again and
\* waited for.
Sync ==
    /\ At(User, "sync")
    /\ Then(User, IF size = 0 /\ Running /\ syncing THEN <<"unpause", "sync wait">> ELSE <<>>)
    /\ UNCHANGED <<list, control, threads, pausing, syncing, overlap>>

SyncWait ==
    /\ At(User, "sync wait")
    /\ IF syncing THEN Then(User, <<"sync asleep">>)
       ELSE Then(User, <<>>) \/ Then(User, <<"sync lost">>)
    /\ UNCHANGED <<list, control, threads, pausing, syncing, overlap>>

Operation == \/ Start \/ Call \/ RemoveMessages
             \/ \E l \in Limits : SetLimit(l)

UserSteps == \/ Stop \/ Kill \/ Join \/ Forget \/ EndSync(User)
             \/ Sync \/ SyncWait

-----------------------------------------------------------------------------

Crashed == At(User, "crashed")

Thread(a) == \/ Shared(a)
             \/ a \in Queues /\ Queue(a)
             \/ a \in Timers /\ Timer(a)
             \/ a = User /\ UserSteps

Next == /\ ~Crashed
        /\ \/ /\ Operation
              /\ calls < MaxCalls
              /\ calls' = calls + 1
           \/ /\ \/ \E a \in Threads : Thread(a) \/ SpuriousWakeup(a)
                 \/ \E q \in Queues : Select(q)
              /\ UNCHANGED calls

Spec == Init /\ [][Next]_vars

\* The threads run, once they have something to do; nobody is made to call, and
\* the server need not send anything.
FairSpec == Spec /\ \A a \in Threads : WF_vars(~Crashed /\ Thread(a) /\ UNCHANGED calls)

-----------------------------------------------------------------------------
(* Properties.                                                              *)

Steps == {"pause", "unpause", "cancel timer", "deactivate", "timed", "create timer",
          "check", "uncheck", "unlock", "begin pause", "sleep", "end timer", "begin",
          "loop", "wait", "asleep", "lost", "input", "select", "signal", "end",
          "end sync", "try", "detach", "leave", "stop", "kill", "join", "forget",
          "crashed", "sync", "sync wait", "sync asleep", "sync lost"}

\* Every part of the state has its type, and there are never more messages than
\* the limit allows.
TypeOK == /\ \A a \in Threads : \A i \in DOMAIN code[a] : code[a][i] \in Steps
          /\ calls \in 0..MaxCalls
          /\ limit \in Limits
          /\ size \in 0..(IF limit = 0 THEN MaxSize ELSE limit)
          /\ listLock \in {None, User} \cup Queues
          /\ internal \in Queues \cup {None}
          /\ exitLock \in {None, User} \cup Queues
          /\ exitState \in BOOLEAN
          /\ paused \in BOOLEAN
          /\ syncing \in BOOLEAN
          /\ current \in Timers \cup {None}
          /\ cancelled \subseteq Queues \cup Timers
          /\ disposed \subseteq Queues
          /\ without \subseteq Reasons
          /\ overlap \in BOOLEAN

\* As long as the queue is paused, and there is no reason in S for it to stay so,
\* some timer sleeps or is about to, or somebody is about to end the pause or to
\* start a timer.
EndsUnless(S) ==
    paused => \/ without \cap S # {}
              \/ \E a \in Threads : Will(a, "deactivate") \/ Will(a, "create timer")
              \/ \E p \in Timers : \/ Will(p, "begin pause")
                                   \/ Will(p, "sleep") /\ p \notin cancelled
                                   \/ Will(p, "unpause")

\* A pause that somebody has to end always has somebody who will: replacing a
\* timer, ending one and unpausing by hand lose no pause, in whatever order they
\* meet.  It lasts only if no time was given for it, if its timer was cancelled
\* before it paused or outlived the queue, or if the thread of the next one could
\* not be created after the timer had been cancelled.
PauseEnds == EndsUnless(Reasons)

\* message-queue.h on message_queue_timed_pause and message_queue_auto_pause: the
\* queue remains paused until there are few enough messages or the time has
\* elapsed, whichever is sooner.  So a pause for which a time was given ends,
\* unless the caller was told that there is no timer.
TimedPauseEnds == EndsUnless({"asked", "failed"})

\* Only the thread whose id is kept reads from the server: a queue that is
\* stopped and started again does not leave an earlier thread at work, unless it
\* was started while the earlier one, which is known no longer, was leaving.
\* (That one then clears the new thread's id, and so does a stop that finds
\* the mutex taken by it.)
OneQueue == \A q \in Queues : InLoop(q) => internal = q \/ overlap

\* A thread is joined or detached once, by itself or by who stops it.
DisposedOnce == /\ \A q \in Queues : At(q, "detach") => q \notin disposed
                /\ At(User, "join") => internal \notin disposed

\* Who waits for a message is woken by a message or the end of the queue: some
\* thread still reads, or is about to deactivate the condition.
SyncWatched ==
    At(User, "sync asleep") =>
        \E q \in Queues : InLoop(q) \/ Will(q, "end") \/ Will(q, "end sync")

\* stop_message_queue returns, even if nothing more is read, unless the queue
\* thread has missed the end of a pause or sleeps in a pause that nothing ends, or
\* exit_state is false again, reset by a thread that had just been started, so that
\* the one waited for may keep reading.
StopEnds ==
    At(User, "stop") ~>
        \/ code[User] = <<>>
        \/ Crashed
        \/ At(User, "join") /\ (At(internal, "lost") \/ ~exitState)
        \/ At(User, "join") /\ At(internal, "asleep") /\ without # {}

=============================================================================
