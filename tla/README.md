# Resourcerver in TLA+

Models, model checking and proofs of the core of *resourcerver* (`rservr`), a
server that starts or accepts client processes and passes commands between them.
All paths are relative to the repository.

| module | what it is |
|---|---|
| `PriorityBag` | what the execution queue promises: a bag that gives up a least element |
| `ExecuteQueue` | the execution queue itself, an array heap, one turn of a loop a step |
| `MCExecuteQueue` | its instance for TLC |
| `ExecuteQueueProofs` | its invariants and the refinement of `PriorityBag`, proved |
| `CommandFlow` | the reading threads, the execution thread, the way of a command |
| `MCCommandFlow` | its instance for TLC (five configurations) |
| `CommandFlowProofs`, `CommandPlaceProofs` | its safety properties, proved |
| `Registry` | the client table with names, services, monitors, notices and the terminal |
| `MCRegistry`, `RegistryProofs` | its instance for TLC; its properties, proved |
| `Teardown` | the end of a client: its thread against who destroys its object |
| `MCTeardown`, `TeardownProofs` | its instance for TLC; its safety properties, proved |
| `ClientLife` | what the server promises about the life of a client; `CommandFlow` and `Teardown` implement it |
| `MessageQueue` | the client's message queue: queue thread, user's thread, timers of pauses |
| `MCMessageQueue`, `MessageQueueProofs` | its instance for TLC (two configurations); its safety properties, proved |
| `CommandStatus` | what a client knows of the commands it has sent, several threads at a time |
| `MCCommandStatus`, `CommandStatusProofs` | its instance for TLC; its properties, proved |
| `Forwarder` | the forwarder's tables of connections and listening sockets, and its four threads |
| `MCForwarder`, `ForwarderProofs` | its instance for TLC; its safety properties, proved |

`PROJECT.json` lists the runs, the mutants, the source lines behind each
definition, the hazards and the findings.

## The system

### Server (`src/libs/server`)

* **Execution queue** (`local-include/execute-queue.hpp`, `priority-adjust.hpp`).
  State: an array of commands, each with the handle (address) of its client.
  Operations: `insert_command`, `transfer_top_command` to the execution cache,
  `remove_commands`, which cancels a client's commands by clearing their handle.
  Correct if what leaves is always a command of least priority value and nothing
  is lost or copied. Hard: eight children a node, comparison by `<=`, ties.
* **Reading threads** (`client-thread.cpp`, `local-client.cpp`). One per client:
  reads commands from the client's pipe, compares the client's number of waiting
  commands (`total_waiting`) and errors with the limits, queues the command, wakes
  the execution thread. When the pipe closes or a limit is hit the thread takes its
  client from the table (`remove_local_client`). Correct if every command is queued
  once or refused with an answer, the limits hold, and a client that is gone leaves
  no trace. Hard: unlocked counters, check-then-act, and the removal racing the rest.
* **Execution thread** (`execute-thread.cpp`). Sleeps on a condition until commands
  wait, moves a batch of them to its cache, executes or forwards one at a time.
  `exit_flag` ends its loop. Correct if every command is executed, forwarded or
  answered, in the order of the queue, and the server exits when it should. Hard:
  the wakeup, a client removed between two commands of one batch, the return values.
* **Client table** (`client-list.cpp`). Attached clients with names, permissions,
  counters; registration under a unique name, forwarding (`send_client_command`),
  termination. Correct if names are unique, permissions respected, a busy target
  only delays a command. Hard: busy targets and penalties, critical clients, the
  notice sent when the last fresh client has registered.
* **Teardown** (`~client_id`, `client_thread`). Destruction of a client in either
  thread. Correct if the thread is joined or detached exactly once and never while
  it waits for a mutex the joiner holds. Hard: the joiner may hold both mutexes.
* **Services** (`service-list.cpp`), **monitors** (`monitor-list.cpp`,
  `monitors.cpp`), **terminal control** (`execute-thread.cpp`,
  `server-command.cpp`): tables that refer to clients by handle or process.
  Correct if nothing in them outlives the client it refers to.
* **Load calculation** (`server-load.c`): how large a batch is.
* **Two mutexes** (`api-server.cpp`, lines 216-400): `set_one` guards clients,
  services and monitors, `set_two` the queue; who needs both takes `set_one` first. The execution
  thread removes clients with `set_one` alone (`get_common`), a client's thread with both (`get_transfer`).

### Clients (`src/libs/client`) and the rest

The **message queue** (`api-message-queue.cpp`) is a thread that reads from the
server, executes commands, stores messages and can be paused, timed, stopped. The
**command queue** (`api-command-queue.cpp`, `command-queue.cpp`,
`client-command.cpp`) keeps sent commands and the events that come back for them.
The **forwarder** (`programs/clients/rsv-forward`) connects servers: a table of
connections, a table of sockets it listens on with a count and a limit of connections
each, requests of clients to connect, listen, reserve and steal a connection, a thread that accepts, one that
reads and one that forwards. Correct if the counts are those of the connections, a connection given away is
left alone, and everything in the tables is watched. Hard: numbers that are used again, what is found and used
under two separate locks, `select` and the signal that breaks it.
`libs/protocol` and `libs/proto` define and parse commands. Other programs: `rservr` (the
server), `rsv-respawn`, `rsv-terminal`, `rservrd`, `rsv-echo`; plugins, security filters,
the Python extension and examples use the client library.

### How they interact

A client writes a command to its pipe; its reading thread parses it and calls
`queue_client_command` (`set_two`), which answers `event_received_server` and
broadcasts a condition. The execution thread fetches a batch (`set_two`), and for
each command takes `set_one`, decrements the sender's `total_waiting`, and executes
the command, writes it to its target's pipe, or queues it again. Reading threads
take both mutexes to remove their client. The counters, the queue's size, the exit
flag and the condition are touched by all of them without a mutex.

## What is modelled

### ExecuteQueue

`heap` and `size` are the array, `cache` the list commands are moved to, `pc` and
`cur` say which sifting loop runs and where. `InsertCommand`,
`TransferTopCommand` and `RemoveCommands` are the operations; `SiftUpSwitch` /
`SiftUpEnd` and `SiftDownSwitch` / `SiftDownEnd` are one turn of their loops, since
the interesting invariants are those of the loops. Callers hold `set_two` for a
whole operation, hence `pc = "idle"` in the guards. `IsGreatest` is the child the
scan of `sift_down` ends with.

`rank` stands for `priority + penalty + wait_start * time_priority_factor`: the code
compares `priority_value(command, counter)`, which subtracts the same
`counter * factor` on both sides. That the counter is incremented by several threads
without a mutex, and is subtracted unsigned, is not modelled: see the end.

The bag is `PriorityBag`, instantiated with the set of the array's elements;
`ImplementsBag` is the refinement. A sifting step is a stutter there.

### CommandFlow

| model | code |
|---|---|
| `pc[c]` | where `monitor_response` / `client_thread` of client `c` is |
| `totalWaiting`, `reg`, `xreg` | `client_id::total_waiting`, and what a thread has loaded to store incremented or decremented |
| `listed` | the client table |
| `waiting` | the execution queue, as a set: which element leaves first is the subject of `ExecuteQueue`, and here any may |
| `cache` | `command_cache` |
| `xpc` | where `execute_server_thread` is |
| `exitFlag` | `exit_flag` |
| `outcome` | history: delivered, refused (with an answer or a log entry), or lost |

Client `c`: `Admit` or `Refuse` (limit of the client, malformed command), then
`PassLimit` or `FailLimit` (`max_commands`), `Insert`, `Wake`, `LoadCount`,
`StoreCount` (`++total_waiting`), or `Leave` and `Remove`.

Execution thread: `LoopHead`; `Check` and `Sleep` (`block_execute_command`);
`Fetch` (`server_execute_next`); then for the head of the cache `ExecuteUnknown`, or
`ExecuteKnown` and `Decrement` followed by one of `Forward`, `ForwardFails`,
`RequeueBusy`, `RequeueReparsed` (both then `Settle`), `Execute`, `Terminate`,
`ExecuteFails`; `ExecuteEnd`.

How fine the steps are: everything under `set_two` is one step. `set_one` is held from
`ExecuteKnown` until the command is finished or settled, and `Remove` waits for it
(`OneFree`). Whatever is read or written outside a mutex is a step of its own: the
size of the queue compared with the limit, the wakeup, both halves of an increment,
the look at the queue before the wait.

What is left out on purpose: what a command is (its kind is decided when it is
executed); `total_errors` and `total_invalid`, which decide when a command is refused
and when a thread leaves (both are free choices); the order of the queue; the size of a
batch beyond what `calculate_execution` guarantees (`Batch`); clients that attach during
the run, so that an address is never used again (in `Registry` and `Teardown` it is);
services, monitors, terminal. A destroyed client's thread is joined in one step: the guard of
`Terminate` waits until the thread is where it can be cancelled, and `Teardown` shows what happens
where it is not. The model ends when the loop has ended (`"stopped"`).

### Registry

`table` maps the address of each listed `client_id` to its name, type, permissions and flags;
`services`, `events` and `exits` are the service list and the two kinds of monitors; `terminal` is who
controls the terminal; `notifying` is `register_process`, the signal that is still owed to who started the server.
Every operation holds `set_one` from beginning to end, hence one action is one whole operation,
with the monitor updates and notices it ends with.

| actions | code |
|---|---|
| `CreateClient`, `ConnectDetached` | `start_new_client`, `add_detached_client` |
| `Register`, `RegisterRejected`, `Deregister`, `DeregisterNamed`, `IndicateReady` | `register_client` with what it resets first, and `indicate_ready` |
| `RegisterService`, `DeregisterService`, `DeregisterAll`, `DeregisterRemote` | the service list |
| `SetMonitorTypes`, `DeregisterMonitor`, `MonitorDisconnect`, `UnmonitorDisconnect` | the monitor lists |
| `Leave`, `TerminateClient`, `KillClient`, `TerminateFound`, `KillFound`, `DisconnectAll` | `remove_client_common` and `~client_id`, by who calls them |
| `TerminateServer`, `RequestTerminal`, `ReturnTerminal` | the rest of the interface of server commands |

A failed registration has already dropped the client's own monitors and services (`Reset`): the code
does this before it looks at the type. `Removal` is shared by all who remove; a critical client stays
in the table and ends the server, and a search that removes several stops there.

An address is used again by a later client. `id`, `by`, `of` and `open` are history that tells clients
apart; no guard reads them but as the position in the table, which is the order of arrival. Assumed of
the requests is that they name at least one kind of client. Commands remain possible after the exit
flag is set, which allows more than the code. Left out: `abort_all_clients` (the server is killed),
inquiries, and the wording of updates.

`ExitsReported` has two exceptions, both of which the code shows: a client that left under another
name than the one it was watched by, and one that left without ever being ready. `AnsweredOnce` has
one: a client that deregisters drops the request it was started for.

### Teardown

`client_thread` runs `Enter`, `Parse` and `Queue` for each command, `Select`, `Input`, `Return`, then `ReadProcess` and
`ClearResponder`, and if it is the one to end the client, `Detach` and `Remove`. Who destroys objects runs `Take`,
`Test`, `Mark`, `Cancel`, `LoadJoin`, `Join`, `Joined`, `Delete` and at last `Release`: `~client_id` with every access to
`response_thread` and `process_id` a step, since no mutex protects them. It holds `set_one` all the time (`holder`), and is a
client's thread, which holds `set_two` as well (`QueueLocked`), or the execution thread for a command (`Command`) or at the
end of the server (`DisconnectAll`). `Queue`, with cancellation disabled, waits for `set_two`. What other threads do
under `set_two` is one step of theirs, so that it is never in their hands between two steps.

Threads behave as those of glibc: a detach while somebody joins does nothing, joining a detached thread returns at once,
and cancelling or joining the thread 0 is a crash (`Crash`), after which nothing is claimed. Cancellation is
acted upon before `monitor_response` and in its `select` only: it is disabled when `monitor_response` has
returned. Closing pipes and the directive written to the client are left out.

`StuckTwoWays` is about deadlock: the destructor waits for a thread that waits for a mutex of the destructor's thread. It allows two
histories. In one, kept in `between`, the thread had looked at its process and not yet cleared its id when the destructor
forgot the process; the thread then waits for `set_one`. In the other a client's thread removes a client that is not its own, but is now at
the address its own was at (`Mistaken`), while that client's thread is about to queue a command and waits for `set_two`.
Both are reachable in the run.

### ClientLife

The abstract specification that the flow and the teardown share. `life` is what the thread of a client is doing, `listed` the client table.
`Attach` is `start_new_client`; `Leave` is a thread that has left `monitor_response` and will remove its client; `Withdraw` is its end;
`Terminate(D, K)` takes the clients `D` from the table, together with the threads of `K`: the others of `D` do not use their client any more.
In the flow, `life` is a function of `pc[c]`. In the teardown, where `~client_id` is eight steps, a thread still serves, though it may have
ended, until its object is deleted, and the refinement has to find the one step of `ClientLife` in `Delete` or in
`Release`; everything before is a stutter. So the flow's atomic `Terminate` is an abstraction of the destructor's steps in the
sense of this specification. It is in no run of its own: `ImplementsLife` is a theorem of both modules.

### MessageQueue

The functions of `api-message-queue.cpp` call one another from three kinds of threads: `code[a]` is the sequence
of steps thread `a` still has to do, in which shared functions (`message_queue_pause`, `unpause`,
`timed_message_queue_pause`, `deactivate`) are steps of the same name. The list of messages is under a mutex,
`queue_exit_mutex` is another; all else is read and written as it comes. Starting, stopping (`stop`, `kill`, `join`), pausing,
limits, removal of messages and `message_queue_sync` are calls of the user's thread; `begin` to `leave` is the
queue thread; `begin pause` to `end timer` is a timer. An auto condition that is deactivated wakes all who wait.
A thread that looks at the condition and waits without the mutex may miss that: `lost` and `sync lost`.

Left out: the inline queue, in which the user's thread runs the loop, and stopping or pausing from
inside the queue thread; what a message holds, and rotation of messages. There is one user's thread:
with several, the code protects nothing of what they share. The thread of a timer may fail to be
created (`TimerFails`); what `pthread_create` then leaves for its id is the old value or that of a thread that does not
exist, and cancelling the latter does nothing. `message_queue_pause_state` is part of the call that follows it; a `trylock` and the
flag set after it are one step, and so are the two reads at the head of the loop.

`without` is history: why the pause there is may have nobody to end it (`Reasons`). `PauseEnds` says that there is somebody
in every case but these: no time was asked for (`"asked"`); the timer was cancelled before it paused, or its queue
had ended when its time was up (`"lost"`); the thread could not be created after the old timer had been cancelled, or while one that was
cancelled was about to pause (`"failed"`). `TimedPauseEnds` is what `message-queue.h` promises and allows the first and the last only;
it is violated.

### CommandStatus

`Send`, `Number`, `Numbered` (the unprotected `internal_reference++` in its two halves), `Register`, `RegisterFunctors`, `Transmit` or
`TransmitFails` with `UpdateUnsent` and `Deregister` are `send_command_functors`; `Answer` is the queue thread
that updates the status an answer refers to, and calls and drops callbacks; `Wait` to `Result` is `cancelable_wait_command_event`
with its last look after the queue has ended; `Clear` and `NewFunctor` may come at any time. Each access to
the list is one step, as it is under a mutex.

`raced` is history: two threads were between reading and writing the counter. The properties that
rest on distinct references say so. The queue thread does not start again; the callback that
cancels waiting, and the list of unsent commands, whose entries one thread creates, sends and
destroys, are left out.

### Forwarder

| model | code |
|---|---|
| `conn[c]` | whether connection `c` is held by a thread, listed in `internal_connection_list`, stolen or gone |
| `via`, `resv` | `socket_set::listen`, `connection_data::reserved` |
| `listening`, `count`, `total` | `listen_data::sockets`, `listen_info::connections`, `listen_data::total_connections` |
| `cond` | `connection_hold_cond` is active |
| `qpc`, `qc`, `qx` | the message queue's thread in a hook, the number it found, for which client |
| `apc`, `awatch`, `aready`, `al`, `ac` | `select_thread_loop`: its set before and after `select`, the socket and connection at hand |
| `ipc`, `watch`, `round`, `ic` | `input_receive`: its set before `select`, `iteration_list`, the connection to remove |
| `mpc`, `mc` | the main loop, the number it found |
| `old`, `robbed`, `ideaf`, `adeaf`, `touched` | history, read by no guard |

Each function that locks a table is one step (`Add` locks both, `add_new_connection` calling
`add_connection_count`); between two of them anything may happen. So a hook that looks for a connection is two steps,
`FindFor` and what it does with it (`Disconnect`, `Reserve`, `Release`, `Steal`); the main thread's `Forward`, `Put` and
`DropTarget` are `find_socket`, `forward_command` with `add_socket_error`, and `remove_socket`. `Look`, `FillConnections`, `SelectInput`,
`Ready` are the beginning of a round of the input thread; `FillListen`, `SelectListen`, `Arrival`, `Precheck`, `Accept` one of
the accepting thread. `WakeInput`, `SignalInput` and `WakeSelect` say whom a signal and a broadcast wake. A connection is shut down and
never closed, so numbers of connections are new each time; a listening socket is closed and its number is used again.

Left out: the two threads that copy a stolen connection; the end of the program
(`remove_connection_sockets`, `stop_select_thread`); the limits of `FD_SETSIZE` and `total_listen_max`; failures to create a
thread; the variants of the program over pipes; what filters do, which may refuse a connection at will. What is left in
a connection's buffer is covered by the free choice of `Ready`. The signal and the broadcast of `unblock_connection_wait` are one step.

`CountsExact` says what a removed connection of an earlier socket of the same number takes from the new one (`robbed`), and
that a stolen connection counts forever. `Watched` excuses a wakeup that came between a thread's look at its table and its
sleep, one that met the accepting thread about to end, a wait on a condition that has been destroyed, and `Retrying`: after
`remove_bad_socket(set_sockets[I--])` the accepting thread is at the same number again, as the list it goes through is a copy
from which nothing is removed. It does so without end (`RemoveBad`, `Precheck`, `Accept`), watching none of the other
sockets, until somebody listens on the number again or the limit of connections is reached.

### Faults

Definitions whose comment starts with "Fault:" are variations of the one that follows
them, as a plausible bug would make it. No specification uses them; each shows that one
property notices the bug (`mutants`).

## What is checked

| run | shows | instance | distinct states |
|---|---|---|---|
| `queue_heap` | `TypeOK`, `HeapOrder` (loop invariants), `TopIsLeast`, `OnePlace`, `SiftingEnds`, `ImplementsBag` | 5 commands, 2 clients, 3 ranks, order 2 | 276,189 |
| `flow_safety` | `TypeOK`, `OnePlace`, `AdmissionBound`, `LeavesNoHandle`, `OnlyForListed`, `Answered` | 2 clients, 2 and 1 commands | 1,447,727 |
| `flow_exit`, `flow_drop`, `flow_phantom`, `flow_stale` | `ServerExits`, `NoSilentDrop`, `NoPhantomWaiting`, `NoStaleHandle` violated | 2 clients, 1 command each | |
| `registry` | `TypeOK`, `UniqueNames`, `ServicesOwned`, `MonitorsOwned`, `SignalInTime`, `TerminalListed`, `ExitsReported`, `AnsweredOnce` | 3 clients at 2 addresses, 2 names, 2 services | 102,955 |
| `teardown` | `TypeOK`, `TouchesLiving`, `StuckTwoWays`, `Reaped`, `RemovalEnds` | 3 threads at 2 addresses, one critical | 349,352 |
| `message_queue` | `TypeOK`, `PauseEnds`, `OneQueue`, `DisposedOnce`, `SyncWatched`, `StopEnds` | 2 queue threads, 2 timers, 4 calls, a limit of 1 | 759,176 |
| `pause_ends` | `TimedPauseEnds` violated | the same | |
| `command_status` | `TypeOK`, `OwnAnswer`, `StatusExact`, `NothingLeft`, `NoFalseDisconnect` | 2 commands, 1 callback, waiting twice | 2,794,141 |
| `forwarder` | `TypeOK`, `CountsExact`, `StolenAlone`, `Watched` | 2 connections, 2 numbers, one of them bound twice, 1 client | 1,080,934 |

Bounds. Five commands in a binary heap are three levels, an inner node with one child and
with two; three ranks give ties above and below an element. The proofs cover every
order and size, which is why order 2 is enough here (the release has 8). Commands and clients are interchangeable there, no
property names one, and the symmetry sets are sound. In the flow, `MaxCommands = 1` lets two
threads pass the limit together, `MaxWaiting = 2` and two commands let a client meet its own
limit, `Floor = 1` gives batches of one and of more, a penalty of 2 with a limit of 2 lets a command
be queued again once and be discarded at the next attempt. The flow's invariants
speak of a command, its client and one other thread; two clients with three commands hold all of these,
and all five safety properties are also proved for any number.

In `registry`, three clients at two addresses let an address be used again while a monitor, a service or a
request still refers to it; two names and two services let a name be taken from either side. There is one
client at the start, the server's own. With two addresses an operation that removes
several clients leaves nobody; one that leaves others behind is covered by the theorems only. Addresses and names are interchangeable (no definition names one), so
the symmetry set is sound; there is no liveness property in that run. In `teardown`, two threads at one address are what it
takes to mistake an object for one's own, and the third, critical, client is spared by a command and
destroyed at the end. In `message_queue`, two queue threads let a queue be started while an earlier one leaves, two timers let a
pause be prolonged, and four calls of the user are start, a pause, a stop and one more; with a limit of 1
and a threshold of 100 per cent one message pauses the queue. In `command_status`, two threads are what it takes to share a
number; `MaxCycles = 2` has a wait that times out and one that does not. One progress, one success and one
failure event stand for all masks of each kind. In `forwarder`, one number bound twice, a connection accepted
each time and a limit of 1 are what it takes to take from a new socket's count and to exceed its limit; the second number is there for the
sockets that are not watched while the accepting thread tries a closed number, and to keep the run small (`Early`) it is one
nobody listens on any more when the first connection is made; one
client is enough to have a connection stolen after the main or the input thread has found it. That the total limit is
reached between `Precheck` and `Add` takes a third connection (five million states and more): the theorem has it, the run does not.

Deadlock is checked for the heap only. A server without commands does block, a queue that is never started
does nothing, and the other models stop when a bound is reached or all clients are gone.

Fairness. `FairSpec` has weak fairness of the execution thread and of each reading thread
once it has received a command or leaves: they are threads of an operating system that
schedules them, and the code gives up no step voluntarily except in the waits the
model keeps. A `Remove` that waits for `set_one` stays enabled whenever the mutex is free;
since the execution thread may take it again first, weak fairness promises nothing there, and
no property relies on it. There is no fairness for a client's sending or leaving, nor for spurious wakeups.
`Teardown!FairSpec` has it for whoever removes and for each client's thread, not for who begins a
removal; `MessageQueue!FairSpec` for the steps of each thread once it has some, not for the user's calls nor
for input from the server (`Select`); `Forwarder!FairSpec` for hooks that have begun and for both loops, not for requests, peers, the
return of `select` nor the main thread.

`Answered` excuses two cases: the loop has ended, and `Overslept`, the lost wakeup that
`flow_exit` is about. Without `RequeuePenalty` it fails (a mutant), because a target may be busy forever. `RemovalEnds` excuses the
two deadlocks of `StuckTwoWays` and the crash. `StopEnds` excuses a queue thread that missed the end of a pause, one that
sleeps in a pause that nothing ends, and one that has reset `exit_state` after it was set.

The exceptions named in a property are races the code has; each is a hazard in `PROJECT.json`. They are
written into the properties, instead of a run that shows the violation, where no comment or document of
the repository says otherwise.

### Findings

1. `flow_exit`: `exit_server` sets the flag and broadcasts while the execution thread is between
   its look at the flag and its wait; nobody wakes it again.
2. `flow_drop`: a command that fails is removed by `execute_single`, and `internal_execute`
   removes the next one as well.
3. `flow_phantom`: a command executed before `++total_waiting` stays counted forever.
4. `flow_stale`: a client terminated by command never reaches `remove_local_client`; its queued
   commands keep the address of a destroyed object.
5. `pause_ends`: a timed pause that is cancelled before its thread has paused the queue pauses it all the same and is never
   ended, although `message-queue.h` gives the time as the maximum length of the pause.

## What is proved

For every value of the constants that satisfies the assumptions named in the modules
(`QueueAssumption`, `FlowAssumption`, `RegistryAssumption`, `TeardownAssumption`,
`MessageQueueAssumption`, `CommandStatusAssumption`, `ForwarderAssumption`): sets of clients, names and threads of any size, except that
`CommandStatus` and the counting in the flow need finite ones.

* `ExecuteQueueProofs`. The inductive invariant is `TypeOK /\ HeapOrder /\ OnePlace`. `HeapOrder`
  says which comparison may be wrong while a loop runs: only that of the element at `cur`, and its
  children are not below its parent (`Bridged`), without which the exchange could not be shown to
  keep the order. `TopIsLeast` follows by induction along the parents, with the well-known fact that
  every non-empty set of naturals has a least element standing in for induction over an operator.
  `SiftingEnds` and the refinement `ImplementsBag` use the same invariant; the refinement needs
  `OnePlace`, as the bag is a set.
* `CommandFlowProofs`. The inductive invariant `Inv` adds to `TypeOK` and `LeavesNoHandle` that the queue is finite,
  that the command of every entry with a key is one of that client (`OwnEntry`), that the execution thread
  is inside a command only with a command in its cache (`Busy`) and that the client of that command is
  listed as long as `set_one` is held (`Present`). `LeavesNoHandle` is not inductive without the last two: the copy queued by
  `RequeueBusy` carries the head's key, and only the mutex keeps that client in the table. `OnlyForListed`
  is `Present` seen from the step that delivers; `AdmissionBound` is shown by counting the threads
  between the limit and the queue.

  Three more results are stated there. `OnlyMissedWakeups`: the execution thread comes to oversleep something only in the step from its
  look to its wait, since everything that queues a command or ends the server leaves a thread in `"wake"` or wakes it itself. `RequeueingEnds`:
  what is new in the queue was sent, was cancelled, or is the command at the head with less `Patience` (its
  penalties still possible, and whether it was already reparsed), a natural number; the run has one penalty, the theorem
  any limit. `ImplementsLife`, and from it `ClientsLiveOnce`.
* `CommandPlaceProofs`. `OnePlace` of the flow. On top of `Inv` the invariant `Single` says that places are apart, that the commands
  without an outcome are exactly those queued, cached or in a thread's hands, and that those a client has
  not sent yet are nowhere (`Later`). From it follow two action properties: an outcome is final (`OutcomeIsFinal`), and how far the defect of
  `flow_drop` reaches (`LossFollowsRefusal`): a command is lost only in a step that refuses the first of the cache, and only one is.
  The first needs that no command has two entries, or the second entry could be answered after the first.
* `RegistryProofs`. `Inv` adds two parts to the six properties of states. `Processes`: the terminal is never that of a client
  without a process, as such a client is of a detached type; without it the terminal could be held by a process
  that no client in the table has. `Asked`: no two clients have one id, and an open request whose requester is in
  the table is addressed to it, and its client fresh; without it another client at the requester's former address could hear
  of it. The two action properties follow from `Inv` in each action.
* `TeardownProofs`. `IInv` says where objects are and which the holder may still remove (`Placed`), what the fields of an object are in
  each position of its thread (`Fields`), who has disposed of a thread (`Disposal`) and what the destructor knows of its victim at
  each stage (`Knows`). The last is the heart: where the object is deleted, its thread does not use it any more, and
  unless it was met in between, it neither waits for `set_one` nor will. `StuckTwoWays` follows, as the holder of both mutexes joins another's thread only if its
own object was destroyed before (`Mistaken`). `JoinIsTold`, `RemovalDescends` and `NotKept` are what `RemovalEnds` rests on:
  who is joined has been cancelled, so that it reads nothing more (`Input` is impossible) and has ever less of its way before
  it; the destructor has ever fewer steps left, the holder ever fewer objects. `NotKept` says that who is joined
  has ended, or has a step that waits for nobody, or for `set_two` while the execution thread is the holder and does not have it, or else is
  `Stuck`: in one of the two deadlocks, which nothing ends. What is left to fairness is that these steps are taken. `ImplementsLife` is the refinement of `ClientLife`. It needs that the table, as a set of threads,
  is the set of those whose object is at their own address (`TableIsOfLiving`), although addresses are used again, and that
  only the thread that is joined has the status `"joining"` while the destructor waits.
* `CommandStatusProofs`. `Inv` bounds the numbers by the commands that have one, and unless `raced` makes them distinct
  (`Numbers`); says what can have arrived in which position (`Arrived`); and, unless `raced`, that every entry of the list
  belongs to a command with a number, that it holds what has come back (`Course`), and what a waiting thread has
  seen (`Waits`).
* `MessageQueueProofs`. A thread's code is a sequence, so that the first part of the invariant (`Shaped`) says that it is one of
  few: a set of forms for each kind of thread, with lemmas about the head of each and what is left of it. The others
  speak of shared variables in terms of what threads have left to do: who holds `queue_exit_mutex` (`Locks`), what a thread that is disposed
  of still does (`Disposals`), that one thread at most is at work and known (`Known`), who wakes a waiting user
  (`Watched`) and who ends a pause (`Paused`). The first four need one another, the last only the types. `StopKnows`, what `StopEnds`
  rests on, is a part of them: a stop that waits holds the mutex, knows a thread, and has cancelled it unless it has ended.
  `PausesEnd` is about `PauseEnds`, with its three exceptions; `TimedPauseEnds` without the second is false.

* `ForwarderProofs`. `IInv` adds to the types what each thread holds between two locks, above all that the hook and the accepting thread
  never hold the same new connection (`Hands`), that numbers not yet given are those of no connection (`Fresh`), that only what is counted carries
  the mark of a listening socket (`Marks`), and that nothing is known of a number nobody listens on (`Closed`); without it
  a new socket could start with connections of its own. Each operation on the tables has a lemma that
  compares the sets counted before and after; the steps of the threads cite them. `InputWoken /\ AcceptWoken`, what `Watched` rests on,
  is an invariant by itself, given the types: a connection or a socket in its table that a sleeping thread does not watch has its wakeup
  on the way, or the wakeup was missed (`ideaf`, `adeaf`) in the window the property names. That the accepting thread comes back to `select`
  is left to fairness, with the exception `Retrying`.

Only model-checked: liveness (`Answered`, `RemovalEnds`, `StopEnds`, `Watched`) and the violations. Liveness
under fairness, and induction over data, are out of the prover's reach; of each of the four liveness properties the part that is an
invariant or a property of steps is proved (`OnlyMissedWakeups` and `RequeueingEnds`, `JoinIsTold`, `RemovalDescends` and `NotKept`, `StopKnows`,
`InputWoken /\ AcceptWoken`), and what is left to TLC is that fairness then makes the steps happen.

## What is done and what is left

The plan was to begin with the way of a command through the server (queue, flow), then what it relies on (teardown of
a client, the tables), then the client's side (message queue, status of commands) and the forwarder, and to prove for each what
is checked. That is done. Left, in this order:

1. The inline message queue, and calls to the queue from inside its own thread.
2. `rsv-forward`: the threads of stolen connections, whose list is under a mutex of its own, and the end of the program.

## What is not modelled

* **Aging.** The counter of commands that gives a rank its age is incremented by all reading threads
  without a mutex, and is part of a comparison in floating point, with a 64-bit unsigned subtraction. TLC has
  no such numbers; scaled to integers the rounding, which is the question, is gone.
* **Load calculation** (`server-load.c`): floating point over real time. The flow keeps what it guarantees.
* **Server timing and signals**: tables of waiting times and exit messages without state shared with the rest beyond the exit flag.
* **Protocol, parsing, formatting** (`libs/protocol`, `libs/proto`, the generated lexer and parser): data formats. Their outcomes (a
  command, a malformed one, a busy or a closed target) are choices of the flow.
* **Client interface, other programs, plugins, security filters, the Python extension, examples**:
  sequential code over the client library, or system calls.
* **Containers and mutexes**: vendored; the list operations the queue uses are in `ExecuteQueue`, and mutexes
  are modelled by what they protect.

Known hazards outside what is modelled: the counter of commands above (`api-server.cpp:1043`); a receipt written to a
client's pipe while `set_two` is locked (`execute-module.cpp:66`), so that a slow reader holds up all queueing; the estimate of the load,
which becomes 0 times infinity with exactly `PARAM_MAX_COMMANDS` waiting (`server-load.c:193`); the time of two pauses in
quick succession, handed over in one variable (`api-message-queue.cpp:1169`); and `interface_kill_pid_client`, which
passes the mode of terminate (`api-server.cpp:1569`).

Details per component are in `PROJECT.json`, as are the hazards without a property and why.
