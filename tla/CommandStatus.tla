--------------------------- MODULE CommandStatus ---------------------------
(***************************************************************************)
(* What a client knows of the commands it has sent: reference numbers, the *)
(* list of status objects with their callbacks, and waiting for an event.  *)
(*                                                                         *)
(* Every command is sent by a thread of its own; the message queue's       *)
(* thread updates the status when the server or the target answers.  The   *)
(* list and the queue of commands are each under a mutex, so that one      *)
(* access to them is one step; the counter of references is under none.    *)
(***************************************************************************)
EXTENDS Naturals, FiniteSets

CONSTANTS Commands,
          Callbacks,     (* functions called upon an event                  *)
          Progress,      (* events that say how far a command has come      *)
          Success,       (* events a thread waits for                       *)
          NoSuccess,     (* event_no_success, without the three below       *)
          MaxCycles      (* how often a waiting thread looks                *)

Unavailable  == "unavailable"
Unsent       == "unsent"
NoConnection == "no connection"

ASSUME CommandStatusAssumption ==
    /\ Success \cap (NoSuccess \cup Progress) = {}
    /\ NoSuccess \cap Progress = {}
    /\ {Unavailable, Unsent, NoConnection} \cap (Progress \cup Success \cup NoSuccess) = {}
    /\ IsFiniteSet(Commands)
    /\ MaxCycles \in Nat

\* check_event_any(.., sStatus | event_no_success)
Decisive == Success \cup NoSuccess \cup {Unavailable, Unsent, NoConnection}

\* A lost increment of the counter repeats a number, and none is left out.
References == 1..(Cardinality(Commands) + 1)

VARIABLES counter,    (* internal_reference                                 *)
          raced,      (* history: two have taken a number at a time         *)
          pc,         (* where a command's thread is                        *)
          ref,        (* next_reference                                     *)
          functors,   (* the callbacks a command is sent with               *)
          silent,     (* it is sent without a status                        *)
          list,       (* status objects: events and callbacks by reference  *)
          current,    (* current_status                                     *)
          cycles,     (* total_cycle                                        *)
          outcome,    (* what waiting has returned                          *)
          running,    (* message_queue_status                               *)
          answers,    (* what may still arrive for a command                *)
          received,   (* history: what has arrived for it                   *)
          intime      (* history: what had when the queue ended             *)

fixed   == <<functors, silent>>
waiting == <<current, cycles, outcome>>
server  == <<running, answers, received, intime>>
vars    == <<counter, raced, pc, ref, fixed, list, waiting, server>>

Init == /\ counter = 1
        /\ raced = FALSE
        /\ pc = [c \in Commands |-> "idle"]
        /\ ref = [c \in Commands |-> 0]
        /\ functors \in [Commands -> SUBSET Callbacks]
        /\ silent \in [Commands -> BOOLEAN]
        /\ list = [r \in {} |-> {}]
        /\ current = [c \in Commands |-> {Unavailable}]
        /\ cycles = [c \in Commands |-> 0]
        /\ outcome = [c \in Commands |-> {}]
        /\ running = TRUE
        /\ answers = [c \in Commands |-> {}]
        /\ received = [c \in Commands |-> {}]
        /\ intime = [c \in Commands |-> {}]

Listed == DOMAIN list

Goes(c, from, to) == pc[c] = from /\ pc' = [pc EXCEPT ![c] = to]

\* list without r, and with r as s.
Without(r) == [x \in Listed \ {r} |-> list[x]]
With(r, s) == [x \in Listed \cup {r} |-> IF x = r THEN s ELSE list[x]]

NewStatus == [events |-> {}, callbacks |-> {}]

\* retrieve_status
Status(r) == IF r \in Listed THEN list[r].events ELSE {Unavailable}

-----------------------------------------------------------------------------
(* Sending: send_command_functors, send_command_no_status.                  *)

Send(c) ==
    /\ running
    /\ Goes(c, "idle", "number")
    /\ UNCHANGED <<counter, raced, ref, fixed, list, waiting, server>>

\* manual_message_number reads the counter ...
Number(c) ==
    /\ Goes(c, "number", "numbered")
    /\ ref' = [ref EXCEPT ![c] = counter]
    /\ raced' = (raced \/ \E d \in Commands : pc[d] = "numbered")
    /\ UNCHANGED <<counter, fixed, list, waiting, server>>

AfterNumber(c) == IF silent[c] THEN "transmit" ELSE "register"

\* Fault: the number is not used up.
NumberedNot(c) ==
    /\ Goes(c, "numbered", AfterNumber(c))
    /\ UNCHANGED <<counter, raced, ref, fixed, list, waiting, server>>

\* Fault: the number is taken twice.
NumberedTwice(c) ==
    /\ Goes(c, "numbered", AfterNumber(c))
    /\ counter' = counter + 2
    /\ UNCHANGED <<raced, ref, fixed, list, waiting, server>>

\* ... and writes it.
Numbered(c) ==
    /\ Goes(c, "numbered", AfterNumber(c))
    /\ counter' = ref[c] + 1
    /\ UNCHANGED <<raced, ref, fixed, list, waiting, server>>

\* register_reference: of two with the same reference one is removed.
Register(c) ==
    /\ Goes(c, "register", IF functors[c] = {} THEN "transmit" ELSE "functors")
    /\ \/ list' = With(ref[c], NewStatus)
       \/ ref[c] \in Listed /\ UNCHANGED list
    /\ UNCHANGED <<counter, raced, ref, fixed, waiting, server>>

\* Fault: the status starts anew.
AddFunctorsResets(r, F) ==
    list' = IF r \in Listed THEN With(r, [NewStatus EXCEPT !.callbacks = F]) ELSE list

\* register_functor, before the command is sent and for one that is sent.
AddFunctors(r, F) ==
    list' = IF r \in Listed THEN With(r, [list[r] EXCEPT !.callbacks = @ \cup F]) ELSE list

RegisterFunctors(c) ==
    /\ Goes(c, "functors", "transmit")
    /\ AddFunctors(ref[c], functors[c])
    /\ UNCHANGED <<counter, raced, ref, fixed, waiting, server>>

\* transmit_command writes the command, ...
Transmit(c) ==
    /\ Goes(c, "transmit", "sent")
    /\ answers' = [answers EXCEPT ![c] =
                      IF silent[c] THEN {} ELSE Progress \cup Success \cup NoSuccess]
    /\ UNCHANGED <<counter, raced, ref, fixed, list, waiting, running, received, intime>>

\* Fault: the status of what was not sent stays.
TransmitFailsKeeps(c) ==
    /\ Goes(c, "transmit", "failed")
    /\ UNCHANGED <<counter, raced, ref, fixed, list, waiting, server>>

\* ... or fails.
TransmitFails(c) ==
    /\ Goes(c, "transmit", IF silent[c] THEN "failed" ELSE "unsent")
    /\ UNCHANGED <<counter, raced, ref, fixed, list, waiting, server>>

\* update_status, with T the callbacks that are satisfied, and erased: with the
\* last one the status goes.
Updated(r, e, T) ==
    IF T # {} /\ T = list[r].callbacks
    THEN Without(r)
    ELSE With(r, [events |-> list[r].events \cup {e}, callbacks |-> list[r].callbacks \ T])

Update(r, e) ==
    \/ r \notin Listed /\ UNCHANGED list
    \/ r \in Listed /\ \E T \in SUBSET list[r].callbacks : list' = Updated(r, e, T)

UpdateUnsent(c) ==
    /\ Goes(c, "unsent", "deregister")
    /\ Update(ref[c], Unsent)
    /\ UNCHANGED <<counter, raced, ref, fixed, waiting, server>>

\* deregister_reference
Deregister(c) ==
    /\ Goes(c, "deregister", "failed")
    /\ list' = Without(ref[c])
    /\ UNCHANGED <<counter, raced, ref, fixed, waiting, server>>

-----------------------------------------------------------------------------
(* The queue thread.                                                        *)

\* update_local_command_status, update_remote_command_status: the reference is
\* all an answer knows of the command.
Answer(c, e) ==
    /\ running
    /\ e \in answers[c]
    /\ answers' = [answers EXCEPT ![c] = IF e \in Progress THEN @ \ {e} ELSE {}]
    /\ received' = [received EXCEPT ![c] = @ \cup {e}]
    /\ Update(ref[c], e)
    /\ UNCHANGED <<counter, raced, pc, ref, fixed, waiting, running, intime>>

QueueEnds ==
    /\ running
    /\ running' = FALSE
    /\ intime' = received
    /\ UNCHANGED <<counter, raced, pc, ref, fixed, list, waiting, answers, received>>

-----------------------------------------------------------------------------
(* What is done with a command that is sent.                                *)

Sent == {"sent", "look", "running", "ended", "again", "result", "done"}

\* new_status_functors
NewFunctor(c, f) ==
    /\ pc[c] \in Sent
    /\ AddFunctors(ref[c], {f})
    /\ UNCHANGED <<counter, raced, pc, ref, fixed, waiting, server>>

\* clear_command_status
Clear(c) ==
    /\ pc[c] \in Sent
    /\ list' = Without(ref[c])
    /\ UNCHANGED <<counter, raced, pc, ref, fixed, waiting, server>>

\* cancelable_wait_command_event, not from the queue thread.
Wait(c) ==
    /\ Goes(c, "sent", "look")
    /\ UNCHANGED <<counter, raced, ref, fixed, list, waiting, server>>

\* With the queue paused nothing would arrive.
Refused(c) ==
    /\ Goes(c, "sent", "done")
    /\ outcome' = [outcome EXCEPT ![c] = {Unavailable}]
    /\ UNCHANGED <<counter, raced, ref, fixed, list, current, cycles, server>>

\* The loop looks at the status, ...
Look(c) ==
    /\ cycles[c] < MaxCycles
    /\ current' = [current EXCEPT ![c] = Status(ref[c])]
    /\ Goes(c, "look", IF current'[c] \cap Decisive = {} THEN "running" ELSE "ended")
    /\ UNCHANGED <<counter, raced, ref, fixed, list, cycles, outcome, server>>

\* ... unless it has for too long, ...
TimesUp(c) ==
    /\ cycles[c] = MaxCycles
    /\ Goes(c, "look", "ended")
    /\ UNCHANGED <<counter, raced, ref, fixed, list, waiting, server>>

\* ... then whether there is a queue, and sleeps.
Sleep(c) ==
    /\ Goes(c, "running", IF running THEN "look" ELSE "ended")
    /\ cycles' = [cycles EXCEPT ![c] = IF running THEN @ + 1 ELSE @]
    /\ UNCHANGED <<counter, raced, ref, fixed, list, current, outcome, server>>

\* Fault: without the queue the status is not looked at again.
EndedAtOnce(c) ==
    /\ Goes(c, "ended", "result")
    /\ UNCHANGED <<counter, raced, ref, fixed, list, waiting, server>>

\* After the loop: without the queue it sleeps and looks once more.
Ended(c) ==
    /\ Goes(c, "ended", IF ~running /\ current[c] \cap Success = {} THEN "again" ELSE "result")
    /\ UNCHANGED <<counter, raced, ref, fixed, list, waiting, server>>

Again(c) ==
    /\ Goes(c, "again", "result")
    /\ current' = [current EXCEPT ![c] = Status(ref[c])]
    /\ UNCHANGED <<counter, raced, ref, fixed, list, cycles, outcome, server>>

Returned(c) ==
    IF current[c] \cap Success # {} THEN current[c]
    ELSE IF ~running THEN {NoConnection}
    ELSE IF cycles[c] = MaxCycles THEN {Unavailable}
    ELSE current[c]

Result(c) ==
    /\ Goes(c, "result", "done")
    /\ outcome' = [outcome EXCEPT ![c] = Returned(c)]
    /\ UNCHANGED <<counter, raced, ref, fixed, list, current, cycles, server>>

-----------------------------------------------------------------------------
Sending(c) == \/ Send(c) \/ Number(c) \/ Numbered(c) \/ Register(c) \/ RegisterFunctors(c)
              \/ Transmit(c) \/ TransmitFails(c) \/ UpdateUnsent(c) \/ Deregister(c)

Waiting(c) == \/ Wait(c) \/ Refused(c) \/ Look(c) \/ TimesUp(c) \/ Sleep(c)
              \/ Ended(c) \/ Again(c) \/ Result(c)

Next == \/ \E c \in Commands : Sending(c) \/ Waiting(c) \/ Clear(c)
        \/ \E c \in Commands, f \in Callbacks : NewFunctor(c, f)
        \/ \E c \in Commands, e \in Progress \cup Success \cup NoSuccess : Answer(c, e)
        \/ QueueEnds

Spec == Init /\ [][Next]_vars

-----------------------------------------------------------------------------
(* Correctness.                                                             *)

AllEvents == Progress \cup Decisive

\* The variables have the values the code gives them; no more numbers are used
\* than commands sent (manual_message_number).
TypeOK ==
    /\ counter \in References
    /\ raced \in BOOLEAN
    /\ pc \in [Commands -> Sent \cup {"idle", "number", "numbered", "register", "functors",
                                      "transmit", "unsent", "deregister", "failed"}]
    /\ ref \in [Commands -> References \cup {0}]
    /\ functors \in [Commands -> SUBSET Callbacks]
    /\ silent \in [Commands -> BOOLEAN]
    /\ Listed \subseteq References
    /\ \A r \in Listed : list[r] \in [events : SUBSET AllEvents, callbacks : SUBSET Callbacks]
    /\ current \in [Commands -> SUBSET AllEvents]
    /\ cycles \in [Commands -> 0..MaxCycles]
    /\ outcome \in [Commands -> SUBSET AllEvents]
    /\ running \in BOOLEAN
    /\ answers \in [Commands -> SUBSET AllEvents]
    /\ received \in [Commands -> SUBSET AllEvents]
    /\ intime \in [Commands -> SUBSET AllEvents]

\* What waiting for a command returns has arrived for this command, or says
\* that nothing is known: unless two threads have incremented the counter at
\* once, no thread takes the answer to another's command for its own
\* (manual_message_number, update_status by reference alone).
OwnAnswer ==
    ~raced => \A c \in Commands : outcome[c] \subseteq received[c] \cup {Unavailable, NoConnection}

\* The status of a sent command is what has arrived for it, nothing lost: it is
\* registered before the command is written, so that no answer can overtake it,
\* and a callback added later does not disturb it.
StatusExact ==
    ~raced => \A c \in Commands :
                  pc[c] \in Sent /\ ref[c] \in Listed => list[ref[c]].events = received[c]

\* A command that could not be sent has left no status behind, whose callbacks
\* nobody would ever call or free, and which would be waited for in vain.
NothingLeft ==
    ~raced => \A c \in Commands : pc[c] = "failed" => ref[c] \notin Listed

\* A step that makes waiting return "no connection" does so for a reason.
Disconnects ==
    \A c \in Commands :
        outcome'[c] # outcome[c] /\ NoConnection \in outcome'[c] =>
            \/ intime[c] \cap Success = {}
            \/ cycles[c] = MaxCycles
            \/ ref[c] \notin Listed
            \/ raced

\* Success that arrived before the queue ended is not reported as a lost
\* connection ("this allows processing of a success response to a server
\* termination request"): unless the time was up, the status had been removed
\* by clear_command_status or its last callback, or references were shared.
NoFalseDisconnect == [][Disconnects]_vars

=============================================================================
