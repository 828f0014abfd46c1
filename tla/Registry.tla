------------------------------ MODULE Registry ------------------------------
(***************************************************************************)
(* The client table of the server and what refers to its clients: names,   *)
(* services, event and exit monitors, the notice for who requested a       *)
(* client, the signal for who started the server, and the terminal.        *)
(*                                                                         *)
(* Every operation holds set_one from beginning to end (execute_single and *)
(* remove_local_client), so that one action is one whole operation, the    *)
(* monitor updates it ends with included.  A client is known by its        *)
(* address, which a later client may get again: id tells them apart.       *)
(***************************************************************************)
EXTENDS Integers, FiniteSets, Sequences

CONSTANTS Handles, NoHandle,    (* addresses of client_id objects, NULL     *)
          Names, NoName,        (* names of clients and services, and ""    *)
          Permissions,          (* what a new client may be allowed         *)
          Requests,             (* the types clients register with          *)
          First,                (* permissions of the server's own client   *)
          MaxClients, MaxServices,
          MaxBorn               (* bound: clients there ever are            *)

\* The flags of a client's type that the code distinguishes; "server" is
\* type_server_control.
Flags   == {"admin", "resource", "monitor", "server", "detached"}
Clients == {"admin", "resource", "monitor"}       (* type_all_clients       *)
Equal   == {"admin", "resource", "server"}        (* type_terminal_equal    *)

ASSUME RegistryAssumption == /\ NoHandle \notin Handles
                             /\ NoName \notin Names
                             /\ Permissions \subseteq SUBSET Flags
                             /\ Requests \subseteq SUBSET Flags
                             /\ \A t \in Requests : t \cap Clients # {}
                             /\ First \subseteq Flags
                             /\ MaxClients \in Nat
                             /\ MaxServices \in Nat
                             /\ MaxBorn \in Nat \ {0}

VARIABLES table,      (* the listed clients by address                      *)
          services,   (* service_list                                       *)
          events,     (* owners of an event monitor, with their id          *)
          exits,      (* exit monitors                                      *)
          terminal,   (* pid and type of who controls the terminal          *)
          notifying,  (* register_process: a signal is still to be sent     *)
          exiting,    (* exit_flag                                          *)
          born,       (* clients there ever were; their ids are 1 .. born   *)
          notices     (* what the last operation told who requested clients *)

tables == <<services, events, exits>>
vars   == <<table, tables, terminal, notifying, exiting, born, notices>>

Listed    == DOMAIN table
Free      == [pid |-> -1, type |-> {}]
Has(h, f) == h \in Listed /\ f \in table[h].type
UsedNames == {table[h].name : h \in Listed} \cup {s.name : s \in services}

Fresh(tab) == \E h \in DOMAIN tab : tab[h].fresh

\* Owner of a name: the client that has it, or else whoever serves it.
Named(n) == {h \in Listed : table[h].name = n}
Bearer(n) == IF Named(n) # {} THEN Named(n)
             ELSE {s.handle : s \in {x \in services : x.name = n}} \cap Listed

\* A client that the one at q with the id by has requested, or the server if
\* q is NoHandle.  by and open are history: open until the request is answered,
\* or dropped because the client deregisters.
NewClient(i, pid, max, q, by, critical) ==
    [id |-> i, pid |-> pid, max |-> max, type |-> {}, name |-> NoName,
     fresh |-> TRUE, critical |-> critical, reading |-> TRUE, notify |-> q,
     by |-> by, open |-> by # 0]

-----------------------------------------------------------------------------
(* Monitors: what leaves reports pairs of an address and a name.            *)

\* Fault: a report without a name concerns nobody.
ConcernsByName(r, m) == r.handle = m.client /\ r.name = m.name

\* get_exit_current_clients removes the monitors a report is about.
Concerns(r, m) == r.handle = m.client /\ (r.name = m.name \/ r.name = NoName)

\* What deregistering these services reports.
Reports(S) == {[handle |-> s.handle, name |-> s.name] : s \in S}

Unreported(M, R) == {m \in M : ~\E r \in R : Concerns(r, m)}

OwnedBy(H, S) == {s \in S : s.handle \in H}

\* Fault: monitors are left to look after themselves.
ClearedNever(H, M) == M

\* clear_client_monitoring
Cleared(H, M) == {m \in M : m.owner \notin H}

\* notify_register_attempt: the client that hears of c is looked up by address.
Notice(c, ok) ==
    IF c.notify \in Listed
    THEN {[about |-> c.id, to |-> table[c.notify].id, ok |-> ok]} ELSE {}

\* c when its request is closed by a notice, and after.
Told(c) == [c EXCEPT !.notify = NoHandle, !.open = @ /\ Notice(c, TRUE) = {}]

-----------------------------------------------------------------------------

Init == \E h \in Handles, critical \in BOOLEAN :
    /\ table = [x \in {h} |-> NewClient(1, 1, First, NoHandle, 0, critical)]
    /\ services = {}
    /\ events = {}
    /\ exits = {}
    /\ terminal = Free
    /\ notifying = TRUE
    /\ exiting = FALSE
    /\ born = 1
    /\ notices = {}

Create(q, pid, max) ==
    /\ Cardinality(Listed) < MaxClients
    /\ born < MaxBorn
    /\ \E h \in Handles \ Listed :
          table' = [x \in Listed \cup {h} |->
                       IF x = h
                       THEN NewClient(born + 1, pid, max, q, table[q].id, FALSE)
                       ELSE table[x]]
    /\ born' = born + 1
    /\ notices' = {}
    /\ UNCHANGED <<tables, terminal, notifying, exiting>>

\* An administrator starts a process.
CreateClient(q) ==
    /\ Has(q, "admin")
    /\ \E p \in Permissions : Create(q, born + 1, (p \cap table[q].max) \ {"server", "detached"})

\* An administrator attaches a process that runs already.
ConnectDetached(q) ==
    /\ Has(q, "admin")
    /\ Has(q, "server")
    /\ \E p \in Permissions :
          Create(q, 0, (p \cap table[q].max \cap {"resource"})
                          \cup {"detached"})

-----------------------------------------------------------------------------
(* Registration.                                                            *)

\* The type a client asks for is covered by its permissions; the ability to
\* monitor is dropped from a larger type.
Permitted(t, max) ==
    IF t \cap Clients \subseteq {"monitor"} THEN t \cap Clients \subseteq max
    ELSE (t \cap Clients) \ {"monitor"} \subseteq max

\* Administrators need a name and mere monitors must not have one.
NameFits(t, n) == IF n = NoName THEN "admin" \notin t
                  ELSE t \cap Clients # {"monitor"}

\* Fault: services outlive a registration under another type.
ResetMonitors(h) ==
    /\ events' = Cleared({h}, events)
    /\ exits' = Cleared({h}, exits)
    /\ UNCHANGED services

\* The part before set_registered_client_type: the client's own monitors and,
\* if it is a resource client, its services are gone whatever comes next.
Reset(h) ==
    LET mine == IF Has(h, "resource") THEN OwnedBy({h}, services) ELSE {}
    IN  /\ services' = services \ mine
        /\ events' = Cleared({h}, events)
        /\ exits' = Unreported(Cleared({h}, exits), Reports(mine))

\* Fault: services are not looked at.
NameFreeOfClients(n) == n = NoName \/ Named(n) = {}

\* The name is free, or no name is asked for.
NameFree(n) == n = NoName \/ n \notin UsedNames

RegisterRejected(h, t, n) ==
    /\ h \in Listed
    /\ NameFree(n)
    /\ \/ ~Permitted(t, table[h].max)
       \/ ~NameFits(t, n)
       \/ table[h].type # {}
    /\ Reset(h)
    /\ table' = [table EXCEPT ![h] = Told(@)]
    /\ notices' = Notice(table[h], FALSE)
    /\ UNCHANGED <<terminal, notifying, exiting, born>>

\* A type of none: refused without a notice if there is a name, else the
\* client is a stranger again; both forget who requested it.
Dropped(c) == [c EXCEPT !.notify = NoHandle, !.open = FALSE]

DeregisterNamed(h, n) ==
    /\ h \in Listed
    /\ NameFree(n)
    /\ Reset(h)
    /\ table' = [table EXCEPT ![h] = Dropped(@)]
    /\ notices' = {}
    /\ UNCHANGED <<terminal, notifying, exiting, born>>

Deregister(h) ==
    /\ h \in Listed
    /\ Reset(h)
    /\ table' = [table EXCEPT ![h] = [Dropped(@) EXCEPT !.type = {}, !.name = NoName]]
    /\ notices' = {}
    /\ UNCHANGED <<terminal, notifying, exiting, born>>

\* Fault: what the client asks for is not masked.
TypeUnmasked(t, max) == t

\* What the client becomes: monitoring it is not allowed, and control of the
\* server in another type than an administrator's, are masked out.
Type(t, max) == (t \cup {"detached"}) \cap max

\* Fault: nobody looks for fresh clients that are left.
StillNotifyingAlways(tab) == notifying

\* The signal goes out once no client is fresh.
StillNotifying(tab) == notifying /\ Fresh(tab)

\* With disable a fresh client stays fresh until it says that it is ready, and
\* the request stays open if who made it is still there.
Registered(c, t, n, disable) ==
    LET d == [c EXCEPT !.type = Type(t, c.max), !.name = n]
    IN  IF c.fresh /\ disable
        THEN [d EXCEPT !.notify = IF @ \in Listed THEN @ ELSE NoHandle]
        ELSE [Told(d) EXCEPT !.fresh = FALSE]

Register(h, t, n, disable) ==
    /\ h \in Listed
    /\ NameFree(n)
    /\ Permitted(t, table[h].max)
    /\ NameFits(t, n)
    /\ table[h].type = {}
    /\ Reset(h)
    /\ table' = [table EXCEPT ![h] = Registered(@, t, n, disable)]
    /\ IF table[h].fresh /\ ~disable
       THEN /\ notices' = Notice(table[h], TRUE)
            /\ notifying' = StillNotifying(table')
       ELSE /\ notices' = {}
            /\ UNCHANGED notifying
    /\ UNCHANGED <<terminal, exiting, born>>

\* Fault: the request is answered again when the client leaves.
IndicateReadyKeeps(h) ==
    /\ h \in Listed
    /\ table' = [table EXCEPT ![h].fresh = FALSE, ![h].open = FALSE]
    /\ notices' = Notice(table[h], TRUE)
    /\ notifying' = StillNotifying(table')
    /\ UNCHANGED <<tables, terminal, exiting, born>>

IndicateReady(h) ==
    /\ h \in Listed
    /\ table' = [table EXCEPT ![h] = [Told(@) EXCEPT !.fresh = FALSE]]
    /\ notices' = Notice(table[h], TRUE)
    /\ notifying' = StillNotifying(table')
    /\ UNCHANGED <<tables, terminal, exiting, born>>

-----------------------------------------------------------------------------
(* Services.                                                                *)

RegisterService(h, n, remote) ==
    /\ Has(h, "resource")
    /\ Cardinality(services) < MaxServices
    /\ n \notin UsedNames
    /\ services' = services \cup {[name |-> n, handle |-> h, of |-> table[h].id,
                                   remote |-> remote]}
    /\ UNCHANGED <<table, events, exits, terminal, notifying, exiting, born>>
    /\ notices' = {}

\* The services S of h are deregistered, one, all or the remote ones.
Withdraw(h, S) ==
    /\ Has(h, "resource")
    /\ S # {}
    /\ services' = services \ S
    /\ exits' = Unreported(exits, Reports(S))
    /\ UNCHANGED <<table, events, terminal, notifying, exiting, born>>
    /\ notices' = {}

DeregisterService(h, n) == Withdraw(h, {s \in OwnedBy({h}, services) : s.name = n})
DeregisterAll(h)        == Withdraw(h, OwnedBy({h}, services))
DeregisterRemote(h)     == Withdraw(h, {s \in OwnedBy({h}, services) : s.remote})

-----------------------------------------------------------------------------
(* Monitors.                                                                *)

SetMonitorTypes(h, some) ==
    /\ Has(h, "monitor")
    /\ events' = Cleared({h}, events) \cup
                 {e \in {[owner |-> h, by |-> table[h].id]} : some}
    /\ UNCHANGED <<table, services, exits, terminal, notifying, exiting, born>>
    /\ notices' = {}

DeregisterMonitor(h) ==
    /\ Has(h, "monitor")
    /\ events' = Cleared({h}, events)
    /\ exits' = Cleared({h}, exits)
    /\ UNCHANGED <<table, services, terminal, notifying, exiting, born>>
    /\ notices' = {}

\* A monitor of the same client and name is refused whoever owns it.
MonitorDisconnect(h, n) ==
    /\ Has(h, "resource")
    /\ n # NoName
    /\ n # table[h].name
    /\ \E c \in Bearer(n) :
          /\ Has(c, "resource")
          /\ ~\E m \in exits : m.client = c /\ m.name = n
          /\ exits' = exits \cup {[owner |-> h, by |-> table[h].id,
                                   client |-> c, of |-> table[c].id, name |-> n]}
    /\ UNCHANGED <<table, services, events, terminal, notifying, exiting, born>>
    /\ notices' = {}

UnmonitorDisconnect(h, n) ==
    /\ Has(h, "resource")
    /\ n # NoName
    /\ \E c \in Bearer(n) :
          exits' = {m \in exits : ~(m.client = c /\ m.name = n)}
    /\ UNCHANGED <<table, services, events, terminal, notifying, exiting, born>>
    /\ notices' = {}

-----------------------------------------------------------------------------
(* Removal.                                                                 *)

\* Among several that leave, the earlier is removed before the later one's
\* notice is looked up; the position in the table is the order of arrival.
Hears(c, R) == ~(c.notify \in R /\ table[c.notify].id < c.id)

\* The reports of ~client_id: a client that never became ready makes none.
LastReports(R) == {[handle |-> h, name |-> table[h].name] :
                       h \in {x \in R : ~table[x].fresh}}

\* Fault: a client that leaves by itself keeps the terminal.
QuitsKilledOnly(R, K, mode) == IF mode = "kill" THEN R \cup K ELSE {}

\* Whose terminal is returned: the destructor does it, and so does a kill.
Quits(R, K, mode) == IF mode = "kill" THEN R \cup K ELSE R

\* remove_client_common for the clients R, and for the critical client in K,
\* which stays in the table and ends the server.  mode is "leave" if the
\* client's own thread calls, "terminate" or "kill" if a command does.
Removal(R, K, mode) ==
    LET gone == R \cup K
        lost == OwnedBy(gone, services)
    IN  /\ table' = [h \in Listed \ R |->
               IF h \in K THEN [Told(table[h]) EXCEPT !.reading = @ /\ mode # "leave"]
               ELSE table[h]]
        /\ services' = services \ lost
        /\ events' = Cleared(gone, events)
        /\ exits' = Unreported(Cleared(gone, exits),
                               Reports(lost) \cup LastReports(R))
        /\ terminal' = IF \E h \in Quits(R, K, mode) :
                              /\ table[h].pid > 0
                              /\ table[h].pid = terminal.pid
                       THEN Free ELSE terminal
        /\ notifying' = StillNotifying(table')
        /\ exiting' = (exiting \/ K # {} \/ Listed \ R = {})
        /\ notices' = UNION {Notice(table[h], FALSE) :
                                h \in {x \in gone : Hears(table[x], R)}}
        /\ UNCHANGED born

\* A critical client is never taken from the table.
RemoveOne(h, mode) == IF table[h].critical THEN Removal({}, {h}, mode)
                      ELSE Removal({h}, {}, mode)

\* remove_local_client, in the client's own thread.
Leave(h) ==
    /\ h \in Listed
    /\ table[h].reading
    /\ RemoveOne(h, "leave")

\* terminate_client and terminate_client_pid: not oneself, as the pid tells.
TerminateClient(q, h) ==
    /\ Has(q, "admin")
    /\ h \in Listed
    /\ table[h].pid # table[q].pid
    /\ RemoveOne(h, "terminate")

\* kill_client; kill_client_pid only terminates.
KillClient(q, h) ==
    /\ Has(q, "admin")
    /\ Has(q, "server")
    /\ h \in Listed
    /\ table[h].pid # table[q].pid
    /\ RemoveOne(h, "kill")

\* All clients with a name that matches, in the order of the table, up to a
\* critical one; nothing if the requester is found by its pid and matches.
RemoveFound(q, P, mode) ==
    LET found    == {h \in Listed : table[h].name \in P}
        critical == {h \in found : table[h].critical}
        stops    == {h \in critical : \A k \in critical : table[h].id <= table[k].id}
        before   == {h \in found : \A k \in stops : table[h].id < table[k].id}
    IN  /\ table[q].pid > 0 => q \notin found
        /\ found # {}
        /\ Removal(before, stops, mode)

TerminateFound(q, P) == Has(q, "admin") /\ RemoveFound(q, P, "terminate")

KillFound(q, P) == Has(q, "admin") /\ Has(q, "server") /\ RemoveFound(q, P, "kill")

TerminateServer(q) ==
    /\ Has(q, "admin")
    /\ Has(q, "server")
    /\ exiting' = TRUE
    /\ UNCHANGED <<table, tables, terminal, notifying, born>>
    /\ notices' = {}

\* The end of the execution thread.
DisconnectAll ==
    /\ exiting
    /\ Listed # {}
    /\ table' = [h \in {} |-> table[h]]
    /\ services' = {s \in services : s.handle \notin Listed}
    /\ events' = Cleared(Listed, events)
    /\ exits' = Cleared(Listed, exits)
    /\ terminal' = IF \E h \in Listed : table[h].pid = terminal.pid THEN Free ELSE terminal
    /\ notifying' = FALSE
    /\ UNCHANGED <<exiting, born>>
    /\ notices' = {}

-----------------------------------------------------------------------------
(* The terminal.                                                            *)

Held == terminal.pid >= 0 /\ terminal.type # {}

\* Who may take it from whom; higher says that the command's priority is.
MayTake(t, higher) ==
    \/ ~Held
    \/ /\ t \cap Equal # terminal.type \cap Equal
       /\ \/ "server" \in t
          \/ "admin" \in t /\ "server" \notin terminal.type
          \/ "resource" \in t /\ terminal.type \cap {"admin", "server"} = {}
          \/ t \cap Clients = terminal.type \cap Clients /\ higher

RequestTerminal(h, higher) ==
    /\ h \in Listed
    /\ table[h].type \cap {"admin", "resource"} # {}   (* type_active_client *)
    /\ "detached" \notin table[h].type
    /\ MayTake(table[h].type, higher)
    /\ table[h].pid # terminal.pid
    /\ terminal' = [pid |-> table[h].pid, type |-> table[h].type]
    /\ UNCHANGED <<table, tables, notifying, exiting, born>>
    /\ notices' = {}

ReturnTerminal(h) ==
    /\ h \in Listed
    /\ table[h].type \cap {"admin", "resource"} # {}
    /\ "detached" \notin table[h].type
    /\ terminal.pid = table[h].pid
    /\ terminal' = Free
    /\ UNCHANGED <<table, tables, notifying, exiting, born>>
    /\ notices' = {}

-----------------------------------------------------------------------------

AnyName == Names \cup {NoName}

RegistryCommand(h) ==
    \/ CreateClient(h)
    \/ ConnectDetached(h)
    \/ \E t \in Requests, n \in AnyName :
          \/ RegisterRejected(h, t, n)
          \/ \E disable \in BOOLEAN : Register(h, t, n, disable)
    \/ \E n \in Names : DeregisterNamed(h, n)
    \/ Deregister(h)
    \/ IndicateReady(h)

ServiceCommand(h) ==
    \/ \E n \in AnyName, remote \in BOOLEAN : RegisterService(h, n, remote)
    \/ \E n \in AnyName : DeregisterService(h, n)
    \/ DeregisterAll(h)
    \/ DeregisterRemote(h)

MonitorCommand(h) ==
    \/ \E some \in BOOLEAN : SetMonitorTypes(h, some)
    \/ DeregisterMonitor(h)
    \/ \E n \in Names : MonitorDisconnect(h, n)
    \/ \E n \in Names : UnmonitorDisconnect(h, n)

ControlCommand(q) ==
    \/ \E h \in Handles : TerminateClient(q, h)
    \/ \E h \in Handles : KillClient(q, h)
    \/ \E P \in SUBSET AnyName : TerminateFound(q, P)
    \/ \E P \in SUBSET AnyName : KillFound(q, P)
    \/ TerminateServer(q)
    \/ \E higher \in BOOLEAN : RequestTerminal(q, higher)
    \/ ReturnTerminal(q)

Next == \/ \E h \in Handles : \/ RegistryCommand(h)
                              \/ ServiceCommand(h)
                              \/ MonitorCommand(h)
                              \/ ControlCommand(h)
                              \/ Leave(h)
        \/ DisconnectAll

Spec == Init /\ [][Next]_vars

-----------------------------------------------------------------------------
(* Properties.                                                              *)

ClientRecord == [id : 1..MaxBorn, pid : 0..MaxBorn, max : SUBSET Flags,
                 type : SUBSET Flags, name : AnyName, fresh : BOOLEAN,
                 critical : BOOLEAN, reading : BOOLEAN,
                 notify : Handles \cup {NoHandle}, by : 0..MaxBorn, open : BOOLEAN]

\* Every part of the state has its type, and a client never is more than it is
\* allowed to be.
TypeOK ==
    /\ Listed \subseteq Handles
    /\ \A h \in Listed : table[h] \in ClientRecord /\ table[h].type \subseteq table[h].max
    /\ services \subseteq [name : AnyName, handle : Handles, of : 1..MaxBorn,
                          remote : BOOLEAN]
    /\ events \subseteq [owner : Handles, by : 1..MaxBorn]
    /\ exits \subseteq [owner : Handles, by : 1..MaxBorn, client : Handles,
                       of : 1..MaxBorn, name : Names]
    /\ terminal \in [pid : -1..MaxBorn, type : SUBSET Flags]
    /\ notifying \in BOOLEAN
    /\ exiting \in BOOLEAN
    /\ born \in 1..MaxBorn
    /\ notices \subseteq [about : 1..MaxBorn, to : 1..MaxBorn, ok : BOOLEAN]

IsListed(h, i)    == h \in Listed /\ table[h].id = i
StaysListed(h, i) == h \in DOMAIN table' /\ table'[h].id = i

\* No two clients or services share a name: a name leads to one client.
\* (check_names, against registration, deregistration and removal.)
UniqueNames ==
    /\ \A h, k \in Listed : table[h].name # NoName /\ h # k => table[h].name # table[k].name
    /\ \A h \in Listed, s \in services : s.name # NoName => table[h].name # s.name
    /\ \A r, s \in services : r # s => r.name # s.name

\* A service is offered by a client that is in the table, that has been the
\* one to register it and that still is a resource client: no service
\* outlives its client, nor goes over to one that gets the same address.
ServicesOwned ==
    \A s \in services : IsListed(s.handle, s.of) /\ Has(s.handle, "resource")

\* No monitor outlives the client that asked for it (updates are written to
\* the address kept here).
MonitorsOwned ==
    /\ \A e \in events : IsListed(e.owner, e.by)
    /\ \A m \in exits : IsListed(m.owner, m.by)

\* When a client leaves, or withdraws a service, no exit monitor of it stays
\* behind, except in two cases: it has left under another name than the one it
\* was watched by, or has left without ever being ready.  (A monitor that does
\* stay is taken for one of the next client at that address.)
ReportsExits ==
    /\ \A m \in exits \cap exits' :
          IsListed(m.client, m.of) /\ ~StaysListed(m.client, m.of) =>
             \/ table[m.client].name \notin {m.name, NoName}
             \/ table[m.client].fresh
    /\ \A m \in exits', s \in services \ services' :
          ~(m.client = s.handle /\ m.name = s.name)

ExitsReported == [][ReportsExits]_vars

\* Who requested a client hears of it when the client is ready, is refused or
\* leaves, and hears of it once, as long as it is there itself and the client has
\* not sent a deregistration first, which drops the request without a word.
Answers ==
    /\ \A h \in Listed :
          (/\ table[h].open
           /\ \E q \in Listed : StaysListed(q, table[h].by)
           /\ ~(StaysListed(h, table[h].id) /\ table'[h].fresh))
          => \E n \in notices' : n.about = table[h].id /\ n.to = table[h].by
    /\ \A n \in notices' : \E h \in Listed : table[h].id = n.about /\ table[h].open

AnsweredOnce == [][Answers]_vars

\* The signal to who started the server is outstanding only as long as some
\* client is fresh: whichever event makes the last one ready, or removes it,
\* sends the signal.
SignalInTime == notifying => Fresh(table)

\* The terminal is controlled by a client in the table, or by none.
TerminalListed == terminal.pid >= 0 => \E h \in Listed : table[h].pid = terminal.pid

=============================================================================
