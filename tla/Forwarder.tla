----------------------------- MODULE Forwarder -----------------------------
(***************************************************************************)
(* The tables of the socket forwarder: connections, and the sockets it     *)
(* listens on with their counts of connections.  Four threads use them:    *)
(*   - the message queue's thread, in the hooks by which clients connect,  *)
(*     disconnect, listen, stop listening, reserve, release and steal a    *)
(*     connection, and in which it hears that a client has gone;           *)
(*   - the accepting thread (select_thread_loop);                          *)
(*   - the input thread (input_receive);                                   *)
(*   - the main thread, which forwards commands.                           *)
(*                                                                         *)
(* Each table has a mutex, held for one function and not from one to the   *)
(* next: find_socket gives a number, the function that then uses it looks  *)
(* again.  Numbers of connections are not used twice, for a connection is  *)
(* shut down and not closed; those of listening sockets are.  The two      *)
(* threads that copy what comes over a stolen connection are left out.     *)
(* What peers and filters do is a free choice.                             *)
(***************************************************************************)
EXTENDS Integers, FiniteSets

CONSTANTS Clients, NoOne,       (* local clients that use passthru; nobody  *)
          Listens, NoListen,    (* numbers of listening sockets; -1         *)
          TotalMax,             (* total_connection_max, 0 for none         *)
          ListenMax,            (* individual_connection_max, 0 for none    *)
          Sockets,              (* bound: connections made in a run         *)
          Binds,                (* bound: requests to listen in a run       *)
          Early                 (* bound: numbers nobody listens on any     *)
                                (* more when the first connection is made   *)

ASSUME ForwarderAssumption == /\ NoOne \notin Clients /\ NoListen \notin Listens
                              /\ Early \subseteq Listens
                              /\ {TotalMax, ListenMax, Sockets, Binds} \subseteq Nat

VARIABLES
    conn,       (* what became of each connection                           *)
    via,        (* socket_set::listen                                       *)
    resv,       (* connection_data::reserved                                *)
    old,        (* history: accepted on a socket that is closed meanwhile   *)
    opened,     (* how many connections there have been                     *)
    listening,  (* listen_data::sockets                                     *)
    count,      (* listen_info::connections                                 *)
    robbed,     (* history: decrements of it for a connection that is old   *)
    total,      (* listen_data::total_connections                           *)
    binds,      (* how many requests to listen there have been              *)
    cond,       (* connection_hold_cond is active                           *)
    qpc, qc, qx,          (* the hooks: where, which connection, for whom   *)
    apc, awatch, aready, al, ac,  (* accepting: where, the set before and   *)
                          (* after select, the socket, the connection       *)
    ipc, watch, round, ic,        (* input: where, the set before and after *)
                          (* select (iteration_list), the connection        *)
    mpc, mc,              (* main: where, which connection                  *)
    ideaf, adeaf,         (* history: a wakeup came too early for the       *)
                          (* input thread, for the accepting thread         *)
    touched     (* history: connections that one of the four threads wrote, *)
                (* read or shut down after they were stolen                 *)

table == <<conn, via, resv, old, opened>>
counts == <<listening, count, robbed, total, binds>>
hook == <<qpc, qc, qx>>
accepting == <<apc, awatch, aready, al, ac>>
input == <<ipc, watch, round, ic>>
main == <<mpc, mc>>
wakeups == <<cond, ideaf, adeaf>>
vars == <<table, counts, hook, accepting, input, main, wakeups, touched>>

-----------------------------------------------------------------------------

Conns == 1..Sockets

\* The value of qc, ac, ic and mc when there is none.
NoConn == 0

Listed == {c \in Conns : conn[c] = "listed"}

Init == /\ conn = [c \in Conns |-> "none"]
        /\ via = [c \in Conns |-> NoListen]
        /\ resv = [c \in Conns |-> NoOne]
        /\ old = {}
        /\ opened = 0
        /\ listening = {}
        /\ count = [l \in Listens |-> 0]
        /\ robbed = [l \in Listens |-> 0]
        /\ total = 0
        /\ binds = 0
        /\ cond = FALSE
        /\ qpc = "idle" /\ qc = NoConn /\ qx = NoOne
        /\ apc = "none" /\ awatch = {} /\ aready = {} /\ al = NoListen /\ ac = NoConn
        /\ ipc = "head" /\ watch = {} /\ round = {} /\ ic = NoConn
        /\ mpc = "idle" /\ mc = NoConn
        /\ ideaf = FALSE /\ adeaf = FALSE
        /\ touched = {}

-----------------------------------------------------------------------------
(* The tables. *)

\* A limit of zero is none.
Below(n, max) == max = 0 \/ n < max

\* add_connection_precheck, and the same tests in add_connection_count.
Room(l) == /\ Below(total, TotalMax)
           /\ l \in listening => Below(count[l], ListenMax)

Touch(c) == touched' = touched \cup {d \in {c} : conn[d] = "stolen"}

\* A connection is made.
Open(c) == /\ c = opened + 1 /\ c <= Sockets
           /\ Early \cap listening = {}
           /\ opened' = c

\* add_new_connection, with both mutexes: counted if accepted on a socket that is
\* still there, whoever opened it; else taken off the list again, and shut down.
Add(c, l) ==
    IF Room(l)
    THEN /\ conn' = [conn EXCEPT ![c] = "listed"]
         /\ via' = [via EXCEPT ![c] = l]
         /\ old' = IF l \in listening \cup {NoListen} THEN old ELSE old \cup {c}
         /\ count' = IF l \in listening THEN [count EXCEPT ![l] = @ + 1] ELSE count
         /\ total' = total + 1
    ELSE /\ conn' = [conn EXCEPT ![c] = "gone"]
         /\ UNCHANGED <<via, old, count, total>>

Less(n) == IF n > 0 THEN n - 1 ELSE 0

\* Fault: the count of a listening socket is not tested.
UncountUnchecked(c) ==
    LET l == via[c]
    IN  /\ total' = Less(total)
        /\ IF l \in listening
           THEN /\ count' = [count EXCEPT ![l] = @ - 1]
                /\ robbed' = IF c \in old THEN [robbed EXCEPT ![l] = @ + 1] ELSE robbed
           ELSE UNCHANGED <<count, robbed>>

\* remove_connection_count: the number may be that of a socket opened later.
Uncount(c) ==
    LET l == via[c]
    IN  /\ total' = Less(total)
        /\ IF l \in listening /\ count[l] > 0
           THEN /\ count' = [count EXCEPT ![l] = @ - 1]
                /\ robbed' = IF c \in old THEN [robbed EXCEPT ![l] = @ + 1] ELSE robbed
           ELSE UNCHANGED <<count, robbed>>

\* Fault: the connection is shut down before it is looked for.
RemoveBlind(c) ==
    /\ Touch(c)
    /\ IF c \in Listed
       THEN /\ conn' = [conn EXCEPT ![c] = "gone"]
            /\ via' = [via EXCEPT ![c] = NoListen]
            /\ resv' = [resv EXCEPT ![c] = NoOne]
            /\ old' = old \ {c}
            /\ Uncount(c)
       ELSE UNCHANGED <<conn, via, resv, old, count, robbed, total>>

\* remove_connection
Remove(c) ==
    IF c \in Listed
    THEN /\ conn' = [conn EXCEPT ![c] = "gone"]
         /\ via' = [via EXCEPT ![c] = NoListen]
         /\ resv' = [resv EXCEPT ![c] = NoOne]
         /\ old' = old \ {c}
         /\ Uncount(c) /\ Touch(c)
    ELSE UNCHANGED <<conn, via, resv, old, count, robbed, total, touched>>

\* Fault: what is known of a socket outlives it.
CloseKeeps(l) ==
    IF l \in listening
    THEN /\ listening' = listening \ {l}
         /\ robbed' = [robbed EXCEPT ![l] = 0]
         /\ old' = old \cup {c \in Conns : via[c] = l}
         /\ UNCHANGED count
    ELSE UNCHANGED <<listening, count, robbed, old>>

\* remove_common: a listening socket is closed.
Close(l) ==
    IF l \in listening
    THEN /\ listening' = listening \ {l}
         /\ count' = [count EXCEPT ![l] = 0]
         /\ robbed' = [robbed EXCEPT ![l] = 0]
         /\ old' = old \cup {c \in Conns : via[c] = l}
    ELSE UNCHANGED <<listening, count, robbed, old>>

-----------------------------------------------------------------------------
(* Wakeups: unblock_connection_wait. *)

\* Fault: the input thread gets no signal.
WakeInputNot == \/ /\ ipc = "select" /\ UNCHANGED <<ipc, watch, ideaf>>
                \/ /\ ipc = "blocked"
                   /\ ipc' = "head" /\ ideaf' = FALSE
                   /\ UNCHANGED watch
                \/ /\ ipc \notin {"select", "blocked"}
                   /\ UNCHANGED <<ipc, watch, ideaf>>

\* A signal ends select, and the broadcast the wait of the input thread; both are
\* lost if it has looked at the table and does not sleep yet.  If the condition it
\* waits on was destroyed and initialised again it may wake or not.
WakeInput == \/ /\ ipc \in {"select", "blocked", "stuck"}
                /\ ipc' = "head" /\ watch' = {} /\ ideaf' = FALSE
             \/ /\ ipc \notin {"select", "blocked"}
                /\ ideaf' = (ideaf \/ (ipc \in {"filled", "toblock"} /\ ~(Listed \subseteq watch)))
                /\ UNCHANGED <<ipc, watch>>

\* The signal alone, which a wait for a connection does not end for.
SignalInput == \/ /\ ipc = "select"
                  /\ ipc' = "head" /\ watch' = {} /\ ideaf' = FALSE
               \/ /\ ipc # "select"
                  /\ ideaf' = (ideaf \/ (ipc = "filled" /\ ~(Listed \subseteq watch)))
                  /\ UNCHANGED <<ipc, watch>>

\* The signal to the accepting thread.
WakeSelect == \/ /\ apc = "select"
                 /\ apc' = "fill" /\ awatch' = {} /\ adeaf' = FALSE
              \/ /\ apc # "select"
                 /\ adeaf' = (adeaf \/ (apc = "filled" /\ ~(listening \subseteq awatch)))
                 /\ UNCHANGED <<apc, awatch>>

-----------------------------------------------------------------------------
(* The hooks. *)

Hook(from, to) == qpc = from /\ qpc' = to

\* pre_initiation_check, then a connection to the address is made ...
Initiate == /\ Hook("idle", "add")
            /\ Room(NoListen)
            /\ \E c \in Conns : /\ Open(c)
                                /\ conn' = [conn EXCEPT ![c] = "held"]
                                /\ qc' = c
            /\ UNCHANGED <<via, resv, old, counts, qx, accepting, input, main, wakeups, touched>>

\* ... and added; the other threads are woken if that succeeds.
AddInitiated == /\ qpc = "add"
                /\ Add(qc, NoListen)
                /\ qpc' = IF Room(NoListen) THEN "wake" ELSE "idle"
                /\ qc' = NoConn
                /\ UNCHANGED <<resv, opened, listening, robbed, binds, qx, accepting, input, main, wakeups, touched>>

HookWakes == /\ Hook("wake", "idle")
             /\ WakeInput /\ WakeSelect
             /\ UNCHANGED <<table, counts, qc, qx, aready, al, ac, round, ic, main, cond, touched>>

\* find_socket: not one that is reserved by another.
Found(x, c) == c \in Listed /\ resv[c] \in {NoOne, x}

\* The hooks that look for a connection first; which of them it is shows later.
FindFor(x, c) == /\ Hook("idle", "found")
                 /\ Found(x, c)
                 /\ qc' = c /\ qx' = x
                 /\ UNCHANGED <<table, counts, accepting, input, main, wakeups, touched>>

FoundDone(to) == Hook("found", to) /\ qc' = NoConn /\ qx' = NoOne

Disconnect == /\ FoundDone("idle")
              /\ Remove(qc)
              /\ UNCHANGED <<opened, listening, binds, accepting, input, main, wakeups>>

\* reserve_connection for a name, and its refusals: the connection is gone, reserved,
\* or not for passthru.
Reserve == /\ FoundDone("idle")
           /\ \/ /\ qc \in Listed /\ resv[qc] = NoOne
                 /\ resv' = [resv EXCEPT ![qc] = qx]
              \/ UNCHANGED resv
           /\ UNCHANGED <<conn, via, old, opened, counts, accepting, input, main, wakeups, touched>>

Mine == qc \in Listed /\ resv[qc] = qx

\* reserve_connection, to release it; like steal_connection it fails if it is not
\* reserved for the client.
Release == /\ FoundDone("idle")
           /\ resv' = IF Mine THEN [resv EXCEPT ![qc] = NoOne] ELSE resv
           /\ UNCHANGED <<conn, via, old, opened, counts, accepting, input, main, wakeups, touched>>

\* steal_connection: the element is removed, its count stays.
Steal == /\ FoundDone("stolen")
         /\ Mine
         /\ conn' = [conn EXCEPT ![qc] = "stolen"]
         /\ resv' = [resv EXCEPT ![qc] = NoOne]
         /\ UNCHANGED <<via, old, opened, counts, accepting, input, main, wakeups, touched>>

\* send_select_break
StealWakes == /\ Hook("stolen", "idle")
              /\ SignalInput /\ WakeSelect
              /\ UNCHANGED <<table, counts, qc, qx, aready, al, ac, round, ic, main, cond, touched>>

\* __monitor_update_hook: the client x has gone, and what it reserved is released.
ClientGone(x) == /\ qpc = "idle"
                 /\ resv' = [c \in Conns |-> IF resv[c] = x THEN NoOne ELSE resv[c]]
                 /\ UNCHANGED <<conn, via, old, opened, counts, hook, accepting, input, main, wakeups, touched>>

\* A socket is bound and added.
Bind(l) == /\ Hook("idle", "start")
           /\ l \notin listening /\ binds < Binds
           /\ opened = 0 \/ l \notin Early
           /\ listening' = listening \cup {l}
           /\ binds' = binds + 1
           /\ UNCHANGED <<table, count, robbed, total, qc, qx, accepting, input, main, wakeups, touched>>

\* The accepting thread is started, unless its id is set.  It may have found no
\* socket to listen on and be about to clear it.
StartSelect == /\ Hook("start", "wake")
               /\ IF apc = "none"
                  THEN apc' = "fill" /\ cond' = TRUE /\ adeaf' = FALSE
                  ELSE adeaf' = (adeaf \/ apc \in {"ending", "ended"}) /\ UNCHANGED <<apc, cond>>
               /\ UNCHANGED <<table, counts, qc, qx, awatch, aready, al, ac, input, main, ideaf, touched>>

\* It is closed; nobody is woken.
Unlisten(l) == /\ qpc = "idle" /\ l \in listening
               /\ Close(l)
               /\ UNCHANGED <<conn, via, resv, opened, total, binds, hook, accepting, input, main, wakeups, touched>>

-----------------------------------------------------------------------------
(* The accepting thread. *)

Accepting(from, to) == apc = from /\ apc' = to

FillListen == /\ apc = "fill"
              /\ apc' = IF listening = {} THEN "ending" ELSE "filled"
              /\ awatch' = listening
              /\ UNCHANGED <<table, counts, hook, aready, al, ac, input, main, wakeups, touched>>

SelectListen == /\ Accepting("filled", "select")
                /\ UNCHANGED <<table, counts, hook, awatch, aready, al, ac, input, main, wakeups, touched>>

\* select returns; those of its set that are still there are looked at.
Arrival == /\ Accepting("select", "serve")
           /\ awatch' = {} /\ adeaf' = FALSE
           /\ aready' \in SUBSET (awatch \cap listening)
           /\ UNCHANGED <<table, counts, hook, al, ac, input, main, cond, ideaf, touched>>

Next1(l) == aready' = aready \ {l} /\ al' = NoListen

\* pre_connection_check, of any of them, or of the one that was bad.
Precheck(l) == /\ l \in aready /\ al \in {NoListen, l}
               /\ \/ Room(l) /\ Accepting("serve", "accept") /\ al' = l /\ UNCHANGED aready
                  \/ ~Room(l) /\ Accepting("serve", "serve") /\ Next1(l)
               /\ UNCHANGED <<table, counts, hook, awatch, ac, input, main, wakeups, touched>>

ServeEnd == /\ Accepting("serve", "fill")
            /\ aready = {}
            /\ UNCHANGED <<table, counts, hook, awatch, aready, al, ac, input, main, wakeups, touched>>

Accept == /\ Accepting("accept", "add")
          /\ al \in listening
          /\ \E c \in Conns : /\ Open(c)
                              /\ conn' = [conn EXCEPT ![c] = "held"]
                              /\ ac' = c
          /\ UNCHANGED <<via, resv, old, counts, hook, awatch, aready, al, input, main, wakeups, touched>>

\* Nobody is there any more.
AcceptNothing == /\ Accepting("accept", "serve")
                 /\ al \in listening
                 /\ Next1(al)
                 /\ UNCHANGED <<table, counts, hook, awatch, ac, input, main, wakeups, touched>>

\* accept fails: the socket was closed meanwhile, or there are no more files ...
AcceptFails == /\ Accepting("accept", "bad")
               /\ UNCHANGED <<table, counts, hook, awatch, aready, al, ac, input, main, wakeups, touched>>

\* ... and whatever has its number is closed.  The list that is gone through is a
\* copy: nothing leaves it, and the step back in it leads to the same number again.
RemoveBad == /\ Accepting("bad", "serve")
             /\ Close(al)
             /\ UNCHANGED <<conn, via, resv, opened, total, binds, hook, awatch, aready, al, ac, input, main, wakeups, touched>>

\* A filter refuses the address or the connection.
FilterRefuses == /\ Accepting("add", "serve")
                 /\ conn' = [conn EXCEPT ![ac] = "gone"]
                 /\ Next1(al) /\ ac' = NoConn
                 /\ UNCHANGED <<via, resv, old, opened, counts, hook, awatch, input, main, wakeups, touched>>

AddAccepted == /\ apc = "add"
               /\ Add(ac, al)
               /\ apc' = IF Room(al) THEN "wake" ELSE "serve"
               /\ Next1(al) /\ ac' = NoConn
               /\ UNCHANGED <<resv, opened, listening, robbed, binds, hook, awatch, input, main, wakeups, touched>>

\* Its own signal does nothing to it.
AcceptWakes == /\ Accepting("wake", "serve")
               /\ WakeInput
               /\ UNCHANGED <<table, counts, hook, awatch, aready, al, ac, round, ic, main, cond, adeaf, touched>>

\* The end: the condition is deactivated, which wakes the input thread ...
Deactivate == /\ Accepting("ending", "ended")
              /\ cond' = FALSE
              /\ ipc' = IF ipc = "blocked" THEN "head" ELSE ipc
              /\ ideaf' = (ideaf /\ ipc # "blocked")
              /\ UNCHANGED <<table, counts, hook, awatch, aready, al, ac, watch, round, ic, main, adeaf, touched>>

\* ... and select_thread is cleared.
SelectEnd == /\ Accepting("ended", "none")
             /\ UNCHANGED <<table, counts, hook, awatch, aready, al, ac, input, main, wakeups, touched>>

-----------------------------------------------------------------------------
(* The input thread. *)

Input(from, to) == ipc = from /\ ipc' = to

\* set_socket_list: without connections it waits, or, if there is no accepting
\* thread, sleeps for a time and looks again.
Look == /\ \/ Listed # {} /\ Input("head", "fill")
           \/ Listed = {} /\ cond /\ Input("head", "toblock")
        /\ UNCHANGED <<table, counts, hook, accepting, watch, round, ic, main, wakeups, touched>>

\* block_for_connect; nothing holds the mutex while it wakes others.
Block == /\ Input("toblock", "blocked")
         /\ cond
         /\ UNCHANGED <<table, counts, hook, accepting, watch, round, ic, main, wakeups, touched>>

\* The condition has been deactivated: it is noticed, or waited on all the same.
BlockInactive == /\ ipc = "toblock" /\ ~cond
                 /\ ipc' \in {"head", "stuck"}
                 /\ ideaf' = FALSE
                 /\ UNCHANGED <<table, counts, hook, accepting, watch, round, ic, main, cond, adeaf, touched>>

SpuriousWakeup == /\ Input("blocked", "head")
                  /\ ideaf' = FALSE
                  /\ UNCHANGED <<table, counts, hook, accepting, watch, round, ic, main, cond, adeaf, touched>>

FillConnections == /\ ipc = "fill"
                   /\ ipc' = IF Listed = {} THEN "head" ELSE "filled"
                   /\ watch' = Listed
                   /\ UNCHANGED <<table, counts, hook, accepting, round, ic, main, wakeups, touched>>

SelectInput == /\ Input("filled", "select")
               /\ UNCHANGED <<table, counts, hook, accepting, watch, round, ic, main, wakeups, touched>>

\* select returns, and store_socket_list keeps what is ready and still listed.
Ready == /\ Input("select", "serve")
         /\ watch' = {} /\ ideaf' = FALSE
         /\ round' \in SUBSET (watch \cap Listed)
         /\ UNCHANGED <<table, counts, hook, accepting, ic, main, cond, adeaf, touched>>

\* receive_command: a command or nothing; or the connection is not there any more,
\* and remove_socket does not find it either.
Receive(c) == /\ Input("serve", "serve")
              /\ c \in round
              /\ IF c \in Listed THEN Touch(c) ELSE UNCHANGED touched
              /\ round' = round \ {c}
              /\ UNCHANGED <<table, counts, hook, accepting, watch, ic, main, wakeups>>

\* Its end, or too many errors ...
ReceiveFails(c) == /\ Input("serve", "drop")
                   /\ c \in round /\ c \in Listed
                   /\ Touch(c)
                   /\ round' = round \ {c} /\ ic' = c
                   /\ UNCHANGED <<table, counts, hook, accepting, watch, main, wakeups>>

\* ... and remove_socket.
Drop == /\ Input("drop", "serve")
        /\ Remove(ic)
        /\ ic' = NoConn
        /\ UNCHANGED <<opened, listening, binds, hook, accepting, watch, round, main, wakeups>>

RoundEnd == /\ Input("serve", "head")
            /\ round = {}
            /\ UNCHANGED <<table, counts, hook, accepting, watch, round, ic, main, wakeups, touched>>

-----------------------------------------------------------------------------
(* The main thread. *)

\* find_socket for a command of client x ...
Forward(x, c) == /\ mpc = "idle" /\ mpc' = "put"
                 /\ Found(x, c)
                 /\ mc' = c
                 /\ UNCHANGED <<table, counts, hook, accepting, input, wakeups, touched>>

\* ... forward_command: it is written, or fails but not too often, or fails and
\* the connection is to be removed.  If it is not there any more, the functions
\* that would remove it do not find it either.
Put == /\ mpc = "put"
       /\ \/ /\ mc \in Listed /\ Touch(mc)
             /\ \/ mpc' = "idle" /\ mc' = NoConn
                \/ mpc' = "drop" /\ UNCHANGED mc
          \/ /\ mc \notin Listed /\ UNCHANGED touched
             /\ mpc' = "idle" /\ mc' = NoConn
       /\ UNCHANGED <<table, counts, hook, accepting, input, wakeups>>

DropTarget == /\ mpc = "drop" /\ mpc' = "idle"
              /\ Remove(mc)
              /\ mc' = NoConn
              /\ UNCHANGED <<opened, listening, binds, hook, accepting, input, wakeups>>

-----------------------------------------------------------------------------

\* What goes on without a request, a peer or a client.
HookStep == \/ AddInitiated \/ HookWakes \/ Disconnect \/ Reserve \/ Release
            \/ Steal \/ StealWakes \/ StartSelect

AcceptStep == \/ FillListen \/ SelectListen \/ ServeEnd \/ (\E l \in Listens : Precheck(l))
              \/ Accept \/ AcceptNothing \/ AcceptFails \/ RemoveBad \/ FilterRefuses
              \/ AddAccepted \/ AcceptWakes \/ Deactivate \/ SelectEnd

InputStep == \/ Look \/ Block \/ BlockInactive \/ FillConnections \/ SelectInput \/ RoundEnd
             \/ (\E c \in Conns : Receive(c) \/ ReceiveFails(c)) \/ Drop

Request == \/ Initiate
           \/ \E x \in Clients : ClientGone(x) \/ \E c \in Conns : FindFor(x, c)
           \/ \E l \in Listens : Bind(l) \/ Unlisten(l)

MainStep == \/ \E x \in Clients, c \in Conns : Forward(x, c)
            \/ Put \/ DropTarget

Next == \/ Request \/ HookStep
        \/ Arrival \/ AcceptStep
        \/ Ready \/ SpuriousWakeup \/ InputStep
        \/ MainStep

Spec == Init /\ [][Next]_vars

\* Hooks, filters and select's preparations come to an end; select itself need not.
FairSpec == Spec /\ WF_vars(HookStep) /\ WF_vars(AcceptStep) /\ WF_vars(InputStep)

-----------------------------------------------------------------------------

TablesTyped ==
    /\ conn \in [Conns -> {"none", "held", "listed", "stolen", "gone"}]
    /\ via \in [Conns -> Listens \cup {NoListen}]
    /\ resv \in [Conns -> Clients \cup {NoOne}]
    /\ old \subseteq Conns
    /\ opened \in 0..Sockets
    /\ listening \subseteq Listens
    /\ count \in [Listens -> Nat]
    /\ robbed \in [Listens -> Nat]
    /\ total \in Nat
    /\ binds \in 0..Binds

ThreadsTyped ==
    /\ cond \in BOOLEAN /\ ideaf \in BOOLEAN /\ adeaf \in BOOLEAN
    /\ qpc \in {"idle", "add", "wake", "found", "stolen", "start"}
    /\ apc \in {"none", "fill", "filled", "select", "serve", "accept", "bad", "add", "wake",
                "ending", "ended"}
    /\ ipc \in {"head", "toblock", "blocked", "stuck", "fill", "filled", "select", "serve", "drop"}
    /\ mpc \in {"idle", "put", "drop"}
    /\ qc \in 0..Sockets /\ ac \in 0..Sockets /\ ic \in 0..Sockets /\ mc \in 0..Sockets
    /\ qx \in Clients \cup {NoOne}
    /\ al \in Listens \cup {NoListen}
    /\ awatch \subseteq Listens /\ aready \subseteq Listens
    /\ watch \subseteq Conns /\ round \subseteq Conns /\ touched \subseteq Conns

(***************************************************************************)
(* Types of the tables and of the threads' positions.                      *)
(***************************************************************************)
TypeOK == TablesTyped /\ ThreadsTyped

(***************************************************************************)
(* The counts are those of the connections: all that are in the list or    *)
(* ever were stolen, and for a listening socket those accepted on it, less *)
(* what removals of connections of an earlier socket of the same number    *)
(* took from it.  By so much, and no more, may its limit be exceeded.      *)
(***************************************************************************)
Counted == {c \in Conns : conn[c] \in {"listed", "stolen"}}
Own(l) == {c \in Counted : via[c] = l /\ c \notin old}

CountsExact ==
    /\ total = Cardinality(Counted)
    /\ TotalMax # 0 => total <= TotalMax
    /\ \A l \in listening :
          /\ count[l] <= Cardinality(Own(l))
          /\ Cardinality(Own(l)) <= count[l] + robbed[l]
          /\ ListenMax # 0 => count[l] <= ListenMax

(***************************************************************************)
(* Once a connection is stolen, the threads that found it before neither   *)
(* write to it, read from it nor shut it down: it belongs to its passthru. *)
(***************************************************************************)
StolenAlone == touched = {}

(***************************************************************************)
(* The accepting thread tries a number again that nobody listens on: it    *)
(* goes on doing so, and back to select for none of the others, until the  *)
(* number is that of a listening socket again or the limit is reached.     *)
(***************************************************************************)
Retrying == apc = "serve" /\ al \notin listening \cup {NoListen}

(***************************************************************************)
(* Again and again everything in the tables is watched: a connection by    *)
(* the input thread and a listening socket by the accepting thread, unless *)
(* the wakeup came between that thread's look at the table and its sleep,  *)
(* or found it about to end, or the accepting thread is at a bad number.   *)
(***************************************************************************)
Watched == /\ []<>(Listed \subseteq watch \/ ideaf \/ ipc = "stuck")
           /\ []<>(listening \subseteq awatch \/ adeaf \/ Retrying)

=============================================================================
