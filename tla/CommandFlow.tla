----------------------------- MODULE CommandFlow -----------------------------
(***************************************************************************)
(* The way of a command through the server.                                *)
(*                                                                         *)
(* One thread per client (local_client::monitor_response) reads commands   *)
(* from the client's pipe, checks the limits, queues the command and wakes *)
(* the execution thread, which (execute_server_thread) sleeps on a         *)
(* condition until commands wait, moves a batch of them to its cache and   *)
(* executes or forwards one at a time; a command for a busy client is      *)
(* queued again with a penalty.                                            *)
(*                                                                         *)
(* The queue, guarded by set_two, is a set here: which command leaves first *)
(* is the subject of ExecuteQueue, and any may.  The table of clients is   *)
(* guarded by set_one, which execute_single holds from its first step to   *)
(* its last.  What the threads read and write without a mutex is a step of *)
(* its own: the number of waiting commands and total_waiting of a client.  *)
(* total_errors and total_invalid decide when a command is refused and when *)
(* a thread leaves; both are free choices.                                 *)
(***************************************************************************)
EXTENDS Integers, Sequences, FiniteSets

CONSTANTS Clients,        (* the handles of the attached clients            *)
          Critical,       (* those attached with execute_critical           *)
          NoHandle,       (* the NULL key of a cancelled command            *)
          Sends,          (* bound: commands each client sends in a run     *)
          MaxWaiting,     (* server_settings->max_client_commands           *)
          MaxCommands,    (* server_settings->max_commands                  *)
          Floor,          (* PARAM_BULK_EXECUTE_FLOOR                       *)
          RequeuePenalty, (* PARAM_REQUEUE_PENALTY                          *)
          PenaltyMax      (* PARAM_PENALTY_MAX                              *)

ASSUME FlowAssumption ==
    /\ IsFiniteSet(Clients) /\ Critical \subseteq Clients /\ NoHandle \notin Clients
    /\ Sends \in [Clients -> Nat]
    /\ PenaltyMax \in Nat
    /\ {MaxWaiting, MaxCommands, Floor, RequeuePenalty} \subseteq Nat \ {0}

VARIABLES
    pc,            (* where the thread of each client is                    *)
    sent,          (* how many commands each client has sent                *)
    reg,           (* what the thread loaded for an increment, or 0         *)
    totalWaiting,  (* client_id::total_waiting                              *)
    listed,        (* the clients in the table                              *)
    waiting,       (* the execution queue                                   *)
    xpc,           (* where the execution thread is                         *)
    cache,         (* command_cache                                         *)
    xreg,          (* what the execution thread will store in total_waiting *)
    exitFlag,      (* exit_flag                                             *)
    outcome        (* history: what became of each command                  *)

clientVars == <<pc, sent, reg>>
tableVars  == <<totalWaiting, listed>>
execVars   == <<cache, xreg>>
vars == <<clientVars, tableVars, waiting, xpc, execVars, exitFlag, outcome>>

-----------------------------------------------------------------------------

\* The nth command of client c; the one in the thread's hands is the last sent.
InHand(c) == <<c, sent[c]>>

\* What kind of command a client has sent is not looked at before it is executed;
\* one that requeue_server_command has queued again is to be forwarded to a
\* client, or for the server.
Fresh(c) == [cmd |-> InHand(c), key |-> c, kind |-> "sent", penalty |-> 0]

Entry == [cmd : Clients \X Nat, key : Clients \cup {NoHandle},
          kind : {"sent", "server", "forward"}, penalty : 0..PenaltyMax]

\* The entry e once the commands of client c are cancelled.
Cancelled(e, c) == IF e.key = c THEN [e EXCEPT !.key = NoHandle] ELSE e

\* execute_continue: a broadcast reaches the thread only while it sleeps.
Woken == IF xpc = "asleep" THEN "check" ELSE xpc

\* execute_single does not hold set_one; no step leaves set_two locked.
OneFree == xpc \notin {"decrement", "deliver", "settle"}

Init == /\ pc = [c \in Clients |-> "read"]
        /\ sent = [c \in Clients |-> 0]
        /\ reg = [c \in Clients |-> 0]
        /\ totalWaiting = [c \in Clients |-> 0]
        /\ listed = Clients
        /\ waiting = {}
        /\ xpc = "idle"
        /\ cache = <<>>
        /\ xreg = 0
        /\ exitFlag = FALSE
        /\ outcome = [c \in Clients |-> [n \in 1..Sends[c] |-> "unsent"]]

-----------------------------------------------------------------------------
(* The thread of client c. *)

\* The model ends when the loop of the execution thread has ended.
Go(c, from, to) == /\ xpc # "stopped"
                   /\ pc[c] = from
                   /\ pc' = [pc EXCEPT ![c] = to]

\* The history o once the outcome of command cmd is known.
Marked(o, cmd, what) == [o EXCEPT ![cmd[1]][cmd[2]] = what]

Become(c, n, what) == outcome' = Marked(outcome, <<c, n>>, what)

\* A command arrives and is within the client's limit.
Admit(c) ==
    /\ Go(c, "read", "limit")
    /\ sent[c] < Sends[c]
    /\ totalWaiting[c] < MaxWaiting
    /\ sent' = [sent EXCEPT ![c] = sent[c] + 1]
    /\ Become(c, sent[c] + 1, "open")
    /\ UNCHANGED <<reg, tableVars, waiting, xpc, execVars, exitFlag>>

\* The commands that wait and the errors reach the limit (event_retry), or the
\* command is malformed (event_error).
Refuse(c) ==
    /\ sent[c] < Sends[c]
    /\ Go(c, "read", "read")
    /\ sent' = [sent EXCEPT ![c] = sent[c] + 1]
    /\ Become(c, sent[c] + 1, "refused")
    /\ UNCHANGED <<reg, tableVars, waiting, xpc, execVars, exitFlag>>

\* Fault: the limit is compared with '>'.
PassLimitOffByOne(c) ==
    /\ Go(c, "limit", "insert")
    /\ Cardinality(waiting) <= MaxCommands
    /\ UNCHANGED <<sent, reg, tableVars, waiting, xpc, execVars, exitFlag, outcome>>

\* queue_client_command reads the number of waiting commands without a mutex.
PassLimit(c) ==
    /\ Go(c, "limit", "insert")
    /\ Cardinality(waiting) < MaxCommands
    /\ UNCHANGED <<sent, reg, tableVars, waiting, xpc, execVars, exitFlag, outcome>>

FailLimit(c) ==
    /\ Go(c, "limit", "read")
    /\ Cardinality(waiting) >= MaxCommands
    /\ Become(c, sent[c], "refused")
    /\ UNCHANGED <<sent, reg, tableVars, waiting, xpc, execVars, exitFlag>>

QueueNewExecute(e) == waiting' = waiting \cup {e}

Insert(c) ==
    /\ Go(c, "insert", "wake")
    /\ QueueNewExecute(Fresh(c))
    /\ UNCHANGED <<sent, reg, tableVars, xpc, execVars, exitFlag, outcome>>

Wake(c) ==
    /\ Go(c, "wake", "count")
    /\ xpc' = Woken
    /\ UNCHANGED <<sent, reg, tableVars, waiting, execVars, exitFlag, outcome>>

\* ++total_waiting, only now that the command may have been executed already
LoadCount(c) ==
    /\ Go(c, "count", "counted")
    /\ reg' = [reg EXCEPT ![c] = totalWaiting[c]]
    /\ UNCHANGED <<sent, tableVars, waiting, xpc, execVars, exitFlag, outcome>>

StoreCount(c) ==
    /\ Go(c, "counted", "read")
    /\ totalWaiting' = [totalWaiting EXCEPT ![c] = reg[c] + 1]
    /\ reg' = [reg EXCEPT ![c] = 0]
    /\ UNCHANGED <<sent, listed, waiting, xpc, execVars, exitFlag, outcome>>

\* The pipe is closed, the process is gone, or a limit is reached.
Leave(c) ==
    /\ Go(c, "read", "leaving")
    /\ UNCHANGED <<sent, reg, tableVars, waiting, xpc, execVars, exitFlag, outcome>>

\* Fault: the queue is not searched for the client's commands.
RemoveKeepsCommands(c) ==
    /\ Go(c, "leaving", "gone")
    /\ OneFree
    /\ listed' = listed \ {c}
    /\ UNCHANGED <<sent, reg, totalWaiting, waiting, xpc, execVars, exitFlag, outcome>>

\* Fault: the table is changed without its mutex.
RemoveUnlocked(c) ==
    /\ Go(c, "leaving", "gone")
    /\ waiting' = {Cancelled(e, c) : e \in waiting}
    /\ listed' = listed \ {c}
    /\ UNCHANGED <<sent, reg, totalWaiting, xpc, execVars, exitFlag, outcome>>

\* remove_local_client: with both mutexes, cancel the client's commands and take
\* it from the table.  A critical client stays listed; with it, or when the table
\* is empty, exit_server ends the loop of the execution thread.
Remove(c) ==
    /\ Go(c, "leaving", "gone")
    /\ OneFree
    /\ waiting' = {Cancelled(e, c) : e \in waiting}
    /\ listed' = IF c \in Critical THEN listed ELSE listed \ {c}
    /\ IF c \in Critical \/ listed' = {}
       THEN exitFlag' = TRUE /\ xpc' = Woken
       ELSE UNCHANGED <<exitFlag, xpc>>
    /\ UNCHANGED <<sent, reg, totalWaiting, execVars, outcome>>

-----------------------------------------------------------------------------
(* The execution thread. *)

Step(from, to) == xpc = from /\ xpc' = to

Head1 == Head(cache)

\* The head of execute_server_thread's loop: client_check and the exit flag.
LoopHead ==
    /\ IF listed = {} \/ exitFlag THEN Step("idle", "stopped") ELSE Step("idle", "check")
    /\ UNCHANGED <<clientVars, tableVars, waiting, execVars, exitFlag, outcome>>

\* block_execute_command looks at the queue without a mutex, the exit flag is
\* read just before; the same once it is back from the wait.
Check ==
    /\ IF exitFlag \/ waiting # {} THEN Step("check", "execute") ELSE Step("check", "block")
    /\ UNCHANGED <<clientVars, tableVars, waiting, execVars, exitFlag, outcome>>

\* pthread_cond_wait, with a mutex no other thread ever takes.
Sleep ==
    /\ Step("block", "asleep")
    /\ UNCHANGED <<clientVars, tableVars, waiting, execVars, exitFlag, outcome>>

SpuriousWakeup ==
    /\ Step("asleep", "check")
    /\ UNCHANGED <<clientVars, tableVars, waiting, execVars, exitFlag, outcome>>

\* calculate_execution: at least the floor and at most all n.  The rest of its
\* arithmetic depends on the time and is left open.
Batch(n) == {k \in 1..n : k >= Floor \/ k = n}

\* server_execute_next, with set_two: so many are transferred.
Fetch ==
    /\ Step("execute", "execute")
    /\ ~exitFlag /\ cache = <<>> /\ waiting # {}
    /\ \E k \in Batch(Cardinality(waiting)) : \E s \in [1..k -> waiting] :
          /\ \A i, j \in 1..k : s[i] = s[j] => i = j
          /\ waiting' = waiting \ {s[i] : i \in 1..k}
          /\ cache' = s
    /\ UNCHANGED <<clientVars, tableVars, xreg, exitFlag, outcome>>

\* Both inner loops end: the exit flag is set, or nothing is cached and nothing waits.
ExecuteEnd ==
    /\ Step("execute", "idle")
    /\ exitFlag \/ (cache = <<>> /\ waiting = {})
    /\ UNCHANGED <<clientVars, tableVars, waiting, execVars, exitFlag, outcome>>

\* remove_single(0) of internal_execute, after an execute_single that failed.
DropFirst(q, what) ==
    IF q = <<>> THEN cache' = q /\ outcome' = what
    ELSE cache' = Tail(q) /\ outcome' = Marked(what, Head(q).cmd, "lost")

\* The indices of I, the smallest first.
InOrder(I) == {s \in [1..Cardinality(I) -> I] : \A i, j \in DOMAIN s : i < j => s[i] < s[j]}

\* decrement_client_waiting does not find the client: all its cached commands go.
ExecuteUnknown ==
    /\ Step("execute", "execute")
    /\ ~exitFlag /\ cache # <<>>
    /\ Head1.key \notin listed
    /\ LET kept == {i \in 1..Len(cache) : cache[i].key # Head1.key}
           gone == {cache[i].cmd : i \in (1..Len(cache)) \ kept}
       IN  \E s \in InOrder(kept) :
              DropFirst([i \in DOMAIN s |-> cache[s[i]]],
                        [c \in Clients |-> [n \in 1..Sends[c] |->
                            IF <<c, n>> \in gone THEN "refused" ELSE outcome[c][n]]])
    /\ UNCHANGED <<clientVars, tableVars, waiting, xreg, exitFlag>>

\* decrement_client_waiting finds the client and loads its total_waiting ...
ExecuteKnown ==
    /\ Step("execute", "decrement")
    /\ ~exitFlag /\ cache # <<>>
    /\ Head1.key \in listed
    /\ xreg' = IF totalWaiting[Head1.key] > 0 THEN totalWaiting[Head1.key] - 1 ELSE 0
    /\ UNCHANGED <<clientVars, tableVars, waiting, cache, exitFlag, outcome>>

StoreWaiting == /\ totalWaiting' = [totalWaiting EXCEPT ![Head1.key] = xreg]
                /\ xreg' = 0

\* ... and stores it decremented.
Decrement ==
    /\ Step("decrement", "deliver")
    /\ StoreWaiting
    /\ UNCHANGED <<clientVars, listed, waiting, cache, exitFlag, outcome>>

\* The rest of execute_single: the command is removed with its outcome, and
\* internal_execute removes one more if the function returns false.
Finish(what, ok) ==
    /\ Step("deliver", "execute")
    /\ LET after == Marked(outcome, Head1.cmd, what)
       IN  IF ok THEN cache' = Tail(cache) /\ outcome' = after
           ELSE DropFirst(Tail(cache), after)
    /\ UNCHANGED <<sent, reg, totalWaiting, xreg>>

\* execute_single has a command of this kind before it.
Deciding(k) == xpc = "deliver" /\ Head1.kind \in {"sent", k}

\* send_client_command writes the command to its target.
Forward == /\ Deciding("forward")
           /\ Finish("delivered", TRUE)
           /\ UNCHANGED <<pc, listed, waiting, exitFlag>>

\* It answers: a bad originator or target, a missing permission, a closed pipe,
\* an internal rejection, or a busy target and no penalty left (event_discarded).
ForwardFails == /\ Deciding("forward")
                /\ Finish("refused", FALSE)
                /\ UNCHANGED <<pc, listed, waiting, exitFlag>>

Penalised(e) == [e EXCEPT !.kind = "forward", !.penalty = @ + RequeuePenalty]
ForServer(e) == [e EXCEPT !.kind = "server"]

\* requeue_server_command puts a copy into the queue and loads total_waiting ...
Requeue(e) == /\ Step("deliver", "settle")
              /\ QueueNewExecute(e)
              /\ xreg' = totalWaiting[e.key] + 1
              /\ UNCHANGED <<clientVars, tableVars, cache, exitFlag, outcome>>

\* Fault: the penalty is not compared with its limit.
RequeueBusyUnlimited ==
    /\ Deciding("forward")
    /\ Requeue(Penalised(Head1))

\* Fault: the command is queued again without a penalty.
RequeueBusyFree ==
    /\ Deciding("forward")
    /\ Head1.penalty + RequeuePenalty <= PenaltyMax
    /\ Requeue([Head1 EXCEPT !.kind = "forward"])

\* The target is busy.
RequeueBusy == /\ Deciding("forward")
               /\ Head1.penalty + RequeuePenalty <= PenaltyMax
               /\ Requeue(Penalised(Head1))

\* A command for a local service turns out to be one for the server.
RequeueReparsed == /\ Deciding("forward")
                   /\ Requeue(ForServer(Head1))

\* Fault: the original stays in the cache.
SettleKeeps ==
    /\ Step("settle", "execute")
    /\ StoreWaiting
    /\ UNCHANGED <<clientVars, listed, waiting, cache, exitFlag, outcome>>

\* ... stores it incremented, and execute_single removes the original.
Settle ==
    /\ Step("settle", "execute")
    /\ StoreWaiting
    /\ cache' = Tail(cache)
    /\ UNCHANGED <<clientVars, listed, waiting, exitFlag, outcome>>

\* A server command is executed; terminate_server sets the exit flag.
Execute == /\ Deciding("server")
           /\ Finish("delivered", TRUE)
           /\ exitFlag' \in {exitFlag, TRUE}
           /\ UNCHANGED <<pc, listed, waiting>>

\* It may terminate other clients, one or all that match, up to a critical one.
\* ~client_id cancels and joins their threads (one that handles a command gets to
\* its end first), but not those that had begun to leave and have cleared
\* response_thread; the queue is not searched.
Terminate ==
    /\ Deciding("server")
    /\ Finish("delivered", TRUE)
    /\ \E D \in SUBSET (listed \ (Critical \cup {Head1.key})) : \E K \in SUBSET D :
          /\ \A d \in D : pc[d] = "leaving" \/ (d \in K /\ pc[d] = "read")
          /\ listed' = listed \ D
          /\ pc' = [c \in Clients |-> IF c \in K THEN "killed" ELSE pc[c]]
    /\ \/ listed' # listed /\ UNCHANGED exitFlag
       \/ ~(listed \cap Critical \subseteq {Head1.key}) /\ exitFlag' = TRUE
    /\ UNCHANGED waiting

\* validate_and_execute refuses it, and its return value is ignored; or
\* set_effective_handle does, because the client may not execute the command.
ExecuteFails == /\ Deciding("server")
                /\ \E ok \in BOOLEAN : Finish("refused", ok)
                /\ UNCHANGED <<pc, listed, waiting, exitFlag>>

-----------------------------------------------------------------------------

\* What the thread of c does by itself once it has received a command.
Proceed(c) == \/ PassLimit(c) \/ FailLimit(c) \/ Insert(c) \/ Wake(c)
              \/ LoadCount(c) \/ StoreCount(c) \/ Remove(c)

\* execute_single once it has decremented total_waiting.
Deliver == \/ Forward \/ ForwardFails \/ RequeueBusy \/ RequeueReparsed
           \/ Execute \/ Terminate \/ ExecuteFails

ExecuteThread == \/ LoopHead \/ Check \/ Sleep \/ Fetch \/ ExecuteEnd
                 \/ ExecuteUnknown \/ ExecuteKnown \/ Decrement \/ Deliver \/ Settle

Next == \/ \E c \in Clients :
              \/ Admit(c) \/ Refuse(c)
              \/ Proceed(c)
              \/ Leave(c)
        \/ ExecuteThread
        \/ SpuriousWakeup

Spec == Init /\ [][Next]_vars

\* The threads run; clients need not send, and need not leave.
FairSpec == /\ Spec
            /\ WF_vars(ExecuteThread)
            /\ \A c \in Clients : WF_vars(Proceed(c))

-----------------------------------------------------------------------------

Outcomes == {"unsent", "open", "delivered", "refused", "lost"}

IsHistory(o) == /\ o \in [Clients -> UNION {[1..Sends[c] -> Outcomes] : c \in Clients}]
                /\ \A c \in Clients : o[c] \in [1..Sends[c] -> Outcomes]

(***************************************************************************)
(* Types of the shared state and of each thread's position.                *)
(***************************************************************************)
TypeOK ==
    /\ pc \in [Clients -> {"read", "limit", "insert", "wake", "count", "counted",
                            "leaving", "gone", "killed"}]
    /\ sent \in [Clients -> Nat]
    /\ reg \in [Clients -> Nat]
    /\ totalWaiting \in [Clients -> Nat]
    /\ listed \subseteq Clients
    /\ waiting \subseteq Entry
    /\ xpc \in {"idle", "check", "block", "asleep", "execute",
                 "decrement", "deliver", "settle", "stopped"}
    /\ cache \in Seq(Entry)
    /\ xreg \in Nat
    /\ exitFlag \in BOOLEAN
    /\ IsHistory(outcome)

(***************************************************************************)
(* A command that has no outcome yet is in exactly one place, its thread's *)
(* hands, the queue or the cache, and one that has an outcome is nowhere:  *)
(* queueing again, cancelling and the removals from the cache never copy a *)
(* command, revive it, or take it away unnoticed.  (While a command is     *)
(* queued again its cached original is not counted.)                       *)
(***************************************************************************)
Settled == IF xpc = "settle" THEN {1} ELSE {}

Places(c, n) ==
    Cardinality({e \in waiting : e.cmd = <<c, n>>})
      + Cardinality({i \in (1..Len(cache)) \ Settled : cache[i].cmd = <<c, n>>})
      + IF n = sent[c] /\ pc[c] \in {"limit", "insert"} THEN 1 ELSE 0

OnePlace == \A c \in Clients : \A n \in 1..Sends[c] :
                Places(c, n) = IF outcome[c][n] = "open" THEN 1 ELSE 0

(***************************************************************************)
(* How far the unlocked test of max_commands lets the queue grow: commands *)
(* that were not queued again exceed the limit by less than one for every  *)
(* client thread, those past the test but not yet in the queue included.   *)
(***************************************************************************)
Admitted == {e \in waiting : e.kind = "sent"}
Entering == {c \in Clients : pc[c] = "insert"}

AdmissionBound ==
    Cardinality(Admitted) + Cardinality(Entering) <= (MaxCommands - 1) + Cardinality(Clients)

(***************************************************************************)
(* A client that leaves by itself leaves no command with its handle in the *)
(* queue: removal cancels them under both mutexes, and a command is queued *)
(* again only while its client is listed.                                  *)
(***************************************************************************)
LeavesNoHandle ==
    \A e \in waiting : \/ e.key \in listed \cup {NoHandle}
                       \/ pc[e.key] \in {"leaving", "killed"}

(***************************************************************************)
(* No command is executed or forwarded for a client that has been removed, *)
(* although removal leaves the commands in the cache alone.                *)
(***************************************************************************)
OnlyForListed ==
    [][\A c \in Clients : \A n \in 1..Sends[c] :
          outcome[c][n] = "open" /\ outcome'[c][n] = "delivered" => c \in listed]_vars

\* The execution thread sleeps while a command waits, and nobody is about to wake it.
Overslept == xpc = "asleep" /\ waiting # {} /\ \A c \in Clients : pc[c] # "wake"

(***************************************************************************)
(* Every command gets its outcome unless the server ends: again and again  *)
(* there is none without one, and they are finitely many.  Busy targets,   *)
(* penalties, repeated queueing and clients that leave only delay it.  The *)
(* one thing that may leave it open is a wakeup that came too early.       *)
(***************************************************************************)
Answered ==
    []<>(\/ \A c \in Clients : \A n \in 1..Sends[c] : outcome[c][n] # "open"
         \/ Overslept
         \/ xpc = "stopped")

-----------------------------------------------------------------------------

(***************************************************************************)
(* The server exits when exit_server was called for the last or a critical *)
(* client: "the server exits when this client exits"                       *)
(* (examples/passthru/sender.c, lines 76-77).                              *)
(***************************************************************************)
ServerExits == exitFlag ~> xpc = "stopped"

(***************************************************************************)
(* A client that is no longer in the table has no command with its handle  *)
(* in the queue, where it could be taken for a later client at the same    *)
(* address: "client termination will cause this [remove_local_client,      *)
(* which cancels the commands] to be called in thread"                     *)
(* (libs/server/api-server.cpp, line 1157).                                *)
(***************************************************************************)
NoStaleHandle ==
    \A e \in waiting : \/ e.key \in listed \cup {NoHandle}
                       \/ pc[e.key] = "leaving"

(***************************************************************************)
(* Every command taken from the cache gets to send_client_command or       *)
(* validate_and_execute: "all 'false' returns below here need a server     *)
(* response" (libs/server/client-list.cpp, line 1054).                     *)
(***************************************************************************)
NoSilentDrop == \A c \in Clients : \A n \in 1..Sends[c] : outcome[c][n] # "lost"

(***************************************************************************)
(* What counts against the "limit for waiting client commands" (param.h,   *)
(* line 141) are waiting commands: a client with no unfinished command has *)
(* a count of zero.                                                        *)
(***************************************************************************)
NoPhantomWaiting ==
    \A c \in Clients : pc[c] = "read" /\ (\A n \in 1..Sends[c] : outcome[c][n] # "open")
                          => totalWaiting[c] = 0

=============================================================================
