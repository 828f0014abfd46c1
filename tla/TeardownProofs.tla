--------------------------- MODULE TeardownProofs ---------------------------
(***************************************************************************)
(* Proofs about Teardown, for every set of threads and of addresses.       *)
(***************************************************************************)
EXTENDS Teardown, TLAPS

\* Where the destructor has forgotten the process of its victim.
Forgotten == {"cancel", "load", "join", "wait"}

\* An object is at the address of its thread; the destructor's victim and those
\* still to be removed have one; without a holder nothing is to be removed, and
\* a client's thread that is the holder is removing what is at its own address, and
\* does not wait for itself.
Placed ==
    /\ \A h \in Handles : object[h] # None => address[object[h]] = h
    /\ stage = "idle" => victim = None
    /\ stage # "idle" => object[address[victim]] = victim
    /\ \A h \in todo : object[h] \notin {None, victim}
    /\ holder = None => todo = {}
    /\ holder \in Threads => /\ pc[holder] = "removing"
                             /\ todo \subseteq {address[holder]}
                             /\ stage # "idle" => address[victim] = address[holder]
    /\ stage \in {"mark"} \cup Forgotten => victim # holder

\* The fields of t agree with where it is.
Fields(t) ==
    /\ pc[t] = "unborn" => object[address[t]] # t /\ ~cancelled[t]
    /\ pc[t] \in Using => object[address[t]] = t /\ responder[t]
    /\ responder[t] => pc[t] \in Using \cup {"ended"}
    /\ pc[t] = "read" /\ ~firstExit[t] => ~process[t]
    /\ pc[t] \in Using /\ cancelled[t] => victim = t /\ stage \in {"load", "join", "wait"}
    /\ object[address[t]] = t /\ ~process[t] => victim = t /\ stage \in Forgotten \cup {"delete"}

\* Who disposes of t.
Disposal(t) ==
    /\ status[t] = "detached" => pc[t] \in {"removing", "ended"}
    /\ status[t] = "joining" => victim = t /\ stage = "wait"
    /\ status[t] = "joined" => pc[t] = "ended"
    /\ pc[t] = "removing" => status[t] \in {"detached", "joining"}
    /\ pc[t] = "ended" => \/ status[t] \in {"joined", "detached"}
                          \/ victim = t /\ stage \in {"mark"} \cup Forgotten

\* What the destructor knows of its victim.
Knows ==
    /\ stage = "delete" => pc[victim] \notin Using
    /\ stage = "wait" => status[victim] = "joining"
    /\ stage \in {"load", "join", "wait"} => cancelled[victim]
    /\ stage \in Forgotten => ~process[victim]
    /\ stage \in Forgotten /\ victim \notin between =>
          /\ pc[victim] = "read" => ~firstExit[victim]
          /\ stage # "cancel" => pc[victim] \notin {"sleeping", "removing"}

\* The inductive invariant.  That a thread finds its object alive depends on
\* what the destructor has seen of the thread, and this on whose object lives
\* at which address.
IInv == /\ TypeOK
        /\ Placed
        /\ \A t \in Threads : Fields(t) /\ Disposal(t)
        /\ Knows

-----------------------------------------------------------------------------
LEMMA StartKeeps ==
    ASSUME IInv, NEW t \in Threads, Start(t)
    PROVE  IInv'
<1> USE TeardownAssumption DEF Start, IInv, TypeOK, fields, thread, lock
<1>1. TypeOK'
  BY DEF Using
<1>2. Placed'
  BY DEF Placed
<1>3. \A u \in Threads : Fields(u)'
  BY DEF Fields, Using
<1>4. \A u \in Threads : Disposal(u)'
  BY DEF Disposal
<1>5. Knows'
  BY DEF Knows, Forgotten
<1> QED
  BY <1>1, <1>2, <1>3, <1>4, <1>5

LEMMA EnterKeeps ==
    ASSUME IInv, NEW t \in Threads, Enter(t)
    PROVE  IInv'
<1> USE TeardownAssumption DEF Enter, Goes, IInv, TypeOK, fields, thread, lock
<1>1. TypeOK'
  BY DEF Using
<1>2. Placed'
  BY DEF Placed
<1>3. \A u \in Threads : Fields(u)'
  BY DEF Fields, Using
<1>4. \A u \in Threads : Disposal(u)'
  BY DEF Disposal
<1>5. Knows'
  BY DEF Knows
<1> QED
  BY <1>1, <1>2, <1>3, <1>4, <1>5

LEMMA ParseKeeps ==
    ASSUME IInv, NEW t \in Threads, Parse(t)
    PROVE  IInv'
<1> USE TeardownAssumption DEF Parse, Goes, IInv, TypeOK, fields, thread, lock
<1>1. TypeOK'
  BY DEF Using
<1>2. Placed'
  BY DEF Placed
<1>3. \A u \in Threads : Fields(u)'
  BY DEF Fields, Using
<1>4. \A u \in Threads : Disposal(u)'
  BY DEF Disposal
<1>5. Knows'
  BY DEF Knows
<1> QED
  BY <1>1, <1>2, <1>3, <1>4, <1>5

LEMMA QueueKeeps ==
    ASSUME IInv, NEW t \in Threads, Queue(t)
    PROVE  IInv'
<1> USE TeardownAssumption DEF Queue, Goes, IInv, TypeOK, fields, thread, lock
<1>1. TypeOK'
  BY DEF Using
<1>2. Placed'
  BY DEF Placed
<1>3. \A u \in Threads : Fields(u)'
  BY DEF Fields, Using
<1>4. \A u \in Threads : Disposal(u)'
  BY DEF Disposal
<1>5. Knows'
  BY DEF Knows
<1> QED
  BY <1>1, <1>2, <1>3, <1>4, <1>5

LEMMA SelectKeeps ==
    ASSUME IInv, NEW t \in Threads, Select(t)
    PROVE  IInv'
<1> USE TeardownAssumption DEF Select, Goes, IInv, TypeOK, fields, thread, lock
<1>1. TypeOK'
  BY DEF Using
<1>2. Placed'
  BY DEF Placed
<1>3. \A u \in Threads : Fields(u)'
  BY DEF Fields, Using
<1>4. \A u \in Threads : Disposal(u)'
  BY DEF Disposal
<1>5. Knows'
  BY DEF Knows
<1> QED
  BY <1>1, <1>2, <1>3, <1>4, <1>5

LEMMA InputKeeps ==
    ASSUME IInv, NEW t \in Threads, Input(t)
    PROVE  IInv'
<1> USE TeardownAssumption DEF Input, Goes, IInv, TypeOK, fields, thread, lock
<1>1. TypeOK'
  BY DEF Using
<1>2. Placed'
  BY DEF Placed
<1>3. \A u \in Threads : Fields(u)'
  BY DEF Fields, Using
<1>4. \A u \in Threads : Disposal(u)'
  BY DEF Disposal
<1>5. Knows'
  BY DEF Knows
<1> QED
  BY <1>1, <1>2, <1>3, <1>4, <1>5

LEMMA ReturnKeeps ==
    ASSUME IInv, NEW t \in Threads, Return(t)
    PROVE  IInv'
<1> USE TeardownAssumption DEF Return, Goes, IInv, TypeOK, fields, thread, lock
<1>1. TypeOK'
  BY DEF Using
<1>2. Placed'
  BY DEF Placed
<1>3. \A u \in Threads : Fields(u)'
  BY DEF Fields, Using
<1>4. \A u \in Threads : Disposal(u)'
  BY DEF Disposal
<1>5. Knows'
  BY DEF Knows
<1> QED
  BY <1>1, <1>2, <1>3, <1>4, <1>5

LEMMA ActCancelKeeps ==
    ASSUME IInv, NEW t \in Threads, ActCancel(t)
    PROVE  IInv'
<1> USE TeardownAssumption DEF ActCancel, IInv, TypeOK, fields, thread, lock
<1>1. TypeOK'
  OBVIOUS
<1>2. Placed'
  BY DEF Placed
<1>3. \A u \in Threads : Fields(u)'
  BY DEF Fields
<1>4. \A u \in Threads : Disposal(u)'
  BY DEF Fields, Disposal, Forgotten
<1>5. Knows'
  BY DEF Knows
<1> QED
  BY <1>1, <1>2, <1>3, <1>4, <1>5

LEMMA ReadProcessKeeps ==
    ASSUME IInv, NEW t \in Threads, ReadProcess(t)
    PROVE  IInv'
<1> USE TeardownAssumption DEF ReadProcess, Goes, IInv, TypeOK, fields, thread, lock
<1>1. TypeOK'
  BY DEF Using
<1>2. Placed'
  BY DEF Placed
<1>3. \A u \in Threads : Fields(u)'
  BY DEF Fields, Using
<1>4. \A u \in Threads : Disposal(u)'
  BY DEF Disposal
<1>5. Knows'
  BY DEF Knows
<1> QED
  BY <1>1, <1>2, <1>3, <1>4, <1>5

LEMMA ClearResponderKeeps ==
    ASSUME IInv, NEW t \in Threads, ClearResponder(t)
    PROVE  IInv'
<1> USE TeardownAssumption DEF ClearResponder, Goes, IInv, TypeOK, fields, thread, lock
<1>1. TypeOK'
  OBVIOUS
<1>2. Placed'
  BY DEF Placed
<1>3. \A u \in Threads : Fields(u)'
  BY DEF Fields, Using
<1>4. \A u \in Threads : Disposal(u)'
  BY DEF Fields, Disposal, Knows
<1>5. Knows'
  BY DEF Knows
<1> QED
  BY <1>1, <1>2, <1>3, <1>4, <1>5

LEMMA DetachKeeps ==
    ASSUME IInv, NEW t \in Threads, Detach(t)
    PROVE  IInv'
<1> USE TeardownAssumption DEF Detach, Goes, IInv, TypeOK, fields, thread, lock
<1>1. TypeOK'
  OBVIOUS
<1>2. Placed'
  BY DEF Placed
<1>3. \A u \in Threads : Fields(u)'
  BY DEF Fields, Using
<1>4. \A u \in Threads : Disposal(u)'
  BY DEF Disposal
<1>5. Knows'
  BY DEF Knows, Using
<1> QED
  BY <1>1, <1>2, <1>3, <1>4, <1>5

LEMMA RemoveKeeps ==
    ASSUME IInv, NEW t \in Threads, Remove(t)
    PROVE  IInv'
<1> USE TeardownAssumption DEF Remove, IInv, TypeOK, fields, thread, lock
<1>1. TypeOK'
  OBVIOUS
<1>2. Placed'
  BY DEF Placed, Listed
<1>3. \A u \in Threads : Fields(u)'
  BY DEF Fields
<1>4. \A u \in Threads : Disposal(u)'
  BY DEF Disposal
<1>5. Knows'
  BY DEF Knows
<1> QED
  BY <1>1, <1>2, <1>3, <1>4, <1>5

LEMMA CommandKeeps ==
    ASSUME IInv, NEW H \in SUBSET Listed, Command(H)
    PROVE  IInv'
<1> USE TeardownAssumption DEF Command, IInv, TypeOK, fields, thread, lock
<1>1. TypeOK'
  BY DEF Listed
<1>2. Placed'
  BY DEF Placed, Listed
<1>3. \A u \in Threads : Fields(u)'
  BY DEF Fields
<1>4. \A u \in Threads : Disposal(u)'
  BY DEF Disposal
<1>5. Knows'
  BY DEF Knows
<1> QED
  BY <1>1, <1>2, <1>3, <1>4, <1>5

LEMMA SpareKeeps ==
    ASSUME IInv, Spare
    PROVE  IInv'
<1> USE TeardownAssumption DEF Spare, IInv, TypeOK, fields, thread, lock
<1>1. TypeOK'
  OBVIOUS
<1>2. Placed'
  BY DEF Placed
<1>3. \A u \in Threads : Fields(u)'
  BY DEF Fields
<1>4. \A u \in Threads : Disposal(u)'
  BY DEF Disposal
<1>5. Knows'
  BY DEF Knows
<1> QED
  BY <1>1, <1>2, <1>3, <1>4, <1>5

LEMMA TakeKeeps ==
    ASSUME IInv, Take
    PROVE  IInv'
<1> USE TeardownAssumption DEF Take, IInv, TypeOK, fields, thread, lock
<1>1. TypeOK'
  BY DEF Placed
<1>2. Placed'
  BY DEF Placed, Forgotten
<1>3. \A u \in Threads : Fields(u)'
  BY DEF Fields, Forgotten
<1>4. \A u \in Threads : Disposal(u)'
  BY DEF Disposal, Forgotten
<1>5. Knows'
  BY DEF Knows, Forgotten
<1> QED
  BY <1>1, <1>2, <1>3, <1>4, <1>5

LEMMA TestKeeps ==
    ASSUME IInv, Test
    PROVE  IInv'
<1> USE TeardownAssumption DEF Test, IInv, TypeOK, fields, thread, lock
<1>1. TypeOK'
  OBVIOUS
<1>2. Placed'
  BY DEF Placed, Fields, Using, Forgotten
<1>3. \A u \in Threads : Fields(u)'
  BY DEF Fields
<1>4. \A u \in Threads : Disposal(u)'
  BY DEF Disposal, Forgotten
<1>5. Knows'
  BY DEF Fields, Knows, Forgotten
<1> QED
  BY <1>1, <1>2, <1>3, <1>4, <1>5

LEMMA MarkKeeps ==
    ASSUME IInv, Mark
    PROVE  IInv'
<1> USE TeardownAssumption DEF Mark, IInv, TypeOK, fields, thread, lock
<1>1. TypeOK'
  OBVIOUS
<1>2. Placed'
  BY DEF Placed
<1>3. \A u \in Threads : Fields(u)'
  BY DEF Fields, Forgotten
<1>4. \A u \in Threads : Disposal(u)'
  BY DEF Disposal, Forgotten
<1>5. Knows'
  BY DEF Knows
<1> QED
  BY <1>1, <1>2, <1>3, <1>4, <1>5

LEMMA CancelKeeps ==
    ASSUME IInv, Cancel
    PROVE  IInv'
<1> USE TeardownAssumption DEF Cancel, IInv, TypeOK, fields, thread, lock
<1>1. TypeOK'
  OBVIOUS
<1>2. Placed'
  BY DEF Placed, Forgotten
<1>3. \A u \in Threads : Fields(u)'
  BY DEF Fields, Forgotten
<1>4. \A u \in Threads : Disposal(u)'
  BY DEF Disposal, Forgotten
<1>5. Knows'
  BY DEF Fields, Knows, Using, Forgotten
<1> QED
  BY <1>1, <1>2, <1>3, <1>4, <1>5

LEMMA LoadJoinKeeps ==
    ASSUME IInv, LoadJoin
    PROVE  IInv'
<1> USE TeardownAssumption DEF LoadJoin, IInv, TypeOK, fields, thread, lock
<1>1. TypeOK'
  BY DEF Using, Placed, Listed
<1>2. Placed'
  BY DEF Placed, Forgotten
<1>3. \A u \in Threads : Fields(u)'
  BY DEF Placed, Fields, Disposal, Knows, Using, Forgotten
<1>4. \A u \in Threads : Disposal(u)'
  BY DEF Disposal, Forgotten
<1>5. Knows'
  BY DEF Knows, Forgotten
<1> QED
  BY <1>1, <1>2, <1>3, <1>4, <1>5

LEMMA CrashKeeps ==
    ASSUME IInv, Crash
    PROVE  IInv'
<1> USE TeardownAssumption DEF Crash, IInv, TypeOK, fields, thread, lock
<1>1. TypeOK'
  OBVIOUS
<1>2. Placed'
  BY DEF Placed
<1>3. \A u \in Threads : Fields(u)'
  BY DEF Fields
<1>4. \A u \in Threads : Disposal(u)'
  BY DEF Disposal
<1>5. Knows'
  BY DEF Knows
<1> QED
  BY <1>1, <1>2, <1>3, <1>4, <1>5

LEMMA JoinKeeps ==
    ASSUME IInv, Join
    PROVE  IInv'
<1> USE TeardownAssumption DEF Join, IInv, TypeOK, fields, thread, lock
<1>1. TypeOK'
  OBVIOUS
<1>2. Placed'
  BY DEF Placed, Forgotten
<1>3. \A u \in Threads : Fields(u)'
  BY DEF Fields, Disposal, Using, Forgotten
<1>4. \A u \in Threads : Disposal(u)'
  BY DEF Disposal, Forgotten
<1>5. Knows'
  BY DEF Disposal, Knows, Using, Forgotten
<1> QED
  BY <1>1, <1>2, <1>3, <1>4, <1>5

LEMMA JoinedKeeps ==
    ASSUME IInv, Joined
    PROVE  IInv'
<1> USE TeardownAssumption DEF Joined, IInv, TypeOK, fields, thread, lock
<1>1. TypeOK'
  OBVIOUS
<1>2. Placed'
  BY DEF Placed
<1>3. \A u \in Threads : Fields(u)'
  BY DEF Fields, Using
<1>4. \A u \in Threads : Disposal(u)'
  BY DEF Disposal
<1>5. Knows'
  BY DEF Knows, Using, Forgotten
<1> QED
  BY <1>1, <1>2, <1>3, <1>4, <1>5

LEMMA DeleteKeeps ==
    ASSUME IInv, Delete
    PROVE  IInv'
<1> USE TeardownAssumption DEF Delete, IInv, TypeOK, fields, thread, lock
<1>1. TypeOK'
  OBVIOUS
<1>2. Placed'
  BY DEF Placed
<1>3. \A u \in Threads : Fields(u)'
  BY DEF Fields, Knows
<1>4. \A u \in Threads : Disposal(u)'
  BY DEF Disposal, Forgotten
<1>5. Knows'
  BY DEF Knows, Forgotten
<1> QED
  BY <1>1, <1>2, <1>3, <1>4, <1>5

LEMMA ReleaseKeeps ==
    ASSUME IInv, Release
    PROVE  IInv'
<1> USE TeardownAssumption DEF Release, IInv, TypeOK, fields, thread, lock
<1>1. TypeOK'
  OBVIOUS
<1>2. Placed'
  BY DEF Placed, Forgotten
<1>3. \A u \in Threads : Fields(u)'
  BY DEF Fields, Using
<1>4. \A u \in Threads : Disposal(u)'
  BY DEF Placed, Disposal
<1>5. Knows'
  BY DEF Knows, Forgotten
<1> QED
  BY <1>1, <1>2, <1>3, <1>4, <1>5

LEMMA DisconnectAllKeeps ==
    ASSUME IInv, DisconnectAll
    PROVE  IInv'
<1> USE TeardownAssumption DEF DisconnectAll, IInv, TypeOK, fields, thread, lock
<1>1. TypeOK'
  BY DEF Listed
<1>2. Placed'
  BY DEF Placed, Listed
<1>3. \A u \in Threads : Fields(u)'
  BY DEF Fields
<1>4. \A u \in Threads : Disposal(u)'
  BY DEF Disposal
<1>5. Knows'
  BY DEF Knows
<1> QED
  BY <1>1, <1>2, <1>3, <1>4, <1>5

-----------------------------------------------------------------------------
(* The invariant holds, and with it what it implies. *)

LEMMA InitInv == Init => IInv
<1> SUFFICES ASSUME Init PROVE IInv
  OBVIOUS
<1>1. TypeOK
  BY DEF Init, TypeOK
<1>2. Placed /\ Knows
  BY TeardownAssumption DEF Init, Placed, Knows, Forgotten
<1>3. \A t \in Threads : Fields(t) /\ Disposal(t)
  BY TeardownAssumption DEF Init, Fields, Disposal, Using
<1> QED
  BY <1>1, <1>2, <1>3 DEF IInv

LEMMA NextInv == IInv /\ [Next]_vars => IInv'
<1> SUFFICES ASSUME IInv, [Next]_vars PROVE IInv'
  OBVIOUS
<1>1. ASSUME NEW t \in Threads, ClientThread(t) PROVE IInv'
  BY <1>1, EnterKeeps, ParseKeeps, QueueKeeps, SelectKeeps, InputKeeps, ReturnKeeps, ActCancelKeeps,
     ReadProcessKeeps, ClearResponderKeeps, DetachKeeps
     DEF ClientThread
<1>2. CASE Removal
  BY <1>2, SpareKeeps, TakeKeeps, TestKeeps, MarkKeeps, CancelKeeps, LoadJoinKeeps,
     CrashKeeps, JoinKeeps, JoinedKeeps, DeleteKeeps, ReleaseKeeps
     DEF Removal
<1>3. CASE Begin
  BY <1>3, StartKeeps, RemoveKeeps, CommandKeeps, DisconnectAllKeeps DEF Begin
<1>4. CASE UNCHANGED vars
  BY <1>4
     DEF vars, fields, thread, lock, IInv, TypeOK, Placed, Fields, Disposal, Knows, Listed
<1> QED
  BY <1>1, <1>2, <1>3, <1>4 DEF Next

\* The inductive invariant holds in every reachable state, however many clients
\* there are and whoever removes them.
THEOREM Invariance == Spec => []IInv
BY InitInv, NextInv, PTL DEF Spec

\* Every part of the state has its type, and a destructor at work has a victim
\* and set_one.
THEOREM TypeCorrect == Spec => []TypeOK
<1>1. IInv => TypeOK
  BY DEF IInv
<1> QED
  BY <1>1, Invariance, PTL

\* A thread that may still use its object finds it there: nobody destroys it
\* before the thread is joined or has cleared its id.
THEOREM ObjectsOutliveUse == Spec => []TouchesLiving
<1>1. IInv => TouchesLiving
  BY DEF IInv, Fields, TouchesLiving
<1> QED
  BY <1>1, Invariance, PTL

\* All wait for all only if the process was forgotten exactly between the
\* thread's look at it and the clearing of its id, or if a thread removes another's
\* client by mistake just when that client queues a command.
THEOREM OnlyTwoDeadlocks == Spec => []StuckTwoWays
<1>1. IInv => StuckTwoWays
  <2> SUFFICES ASSUME IInv, Stuck
               PROVE  \/ pc[victim] = "removing" /\ victim \in between
                      \/ pc[victim] = "queueing" /\ Mistaken
    BY DEF StuckTwoWays
  <2>1. CASE pc[victim] = "removing"
    BY <2>1 DEF IInv, Knows, Forgotten, Stuck
  <2>2. CASE pc[victim] = "queueing" /\ holder \in Threads
    <3>1. pc[holder] = "removing" /\ address[victim] = address[holder]
      BY <2>2 DEF IInv, Placed, Stuck
    <3>2. object[address[victim]] = victim /\ victim # holder
      BY <2>2, <3>1 DEF IInv, Placed, Stuck
    <3>3. ~Alive(holder)
      BY <2>2, <3>1, <3>2, TeardownAssumption DEF IInv, Placed, Alive
    <3> QED
      BY <2>2, <3>1, <3>3 DEF Mistaken
  <2> QED
    BY <2>1, <2>2 DEF Stuck, WaitsForLock, QueueLocked
<1> QED
  BY <1>1, Invariance, PTL

\* A thread that has ended is joined or detached, or about to be joined by who
\* destroys its object.
THEOREM EndedAreReaped == Spec => []Reaped
<1>1. IInv => Reaped
  BY DEF IInv, Disposal, Forgotten, Reaped
<1> QED
  BY <1>1, Invariance, PTL

-----------------------------------------------------------------------------
(* Why a removal comes to its end: what RemovalEnds rests on.               *)

\* The steps of ~client_id that are still to come, and those of a thread that is
\* cancelled: at its next select it ends, and after one more command it finds its
\* client inactive.
StepsLeft(s) == CASE s = "test"   -> 7
                  [] s = "mark"   -> 6
                  [] s = "cancel" -> 5
                  [] s = "load"   -> 4
                  [] s = "join"   -> 3
                  [] s = "wait"   -> 2
                  [] s = "delete" -> 1
                  [] s = "idle"   -> 0
PathLeft(p)  == CASE p = "starting"   -> 7
                  [] p = "monitoring" -> 6
                  [] p = "queueing"   -> 5
                  [] p = "selecting"  -> 4
                  [] p = "returned"   -> 3
                  [] p = "read"       -> 2
                  [] p = "sleeping"   -> 1
                  [] p \in {"removing", "ended"} -> 0

(***************************************************************************)
(* Who is waited for has been cancelled and is told not to look after its  *)
(* client itself, and nobody else disposes of it (~client_id).             *)
(***************************************************************************)
JoinIsTold == stage = "wait" => /\ cancelled[victim] /\ ~process[victim]
                                /\ status[victim] = "joining"
                                /\ pc[victim] # "unborn"

(***************************************************************************)
(* Who is waited for is at an end, or has a step that waits for nobody, or *)
(* for set_two, which the execution thread does not hold while it joins;   *)
(* else it is one of the two deadlocks of StuckTwoWays, in which neither   *)
(* side ever moves.                                                        *)
(***************************************************************************)
NotKept == stage = "wait" =>
    \/ pc[victim] \in {"starting", "monitoring", "selecting", "returned", "read",
                       "sleeping", "ended"}
    \/ pc[victim] = "queueing" /\ holder = Executor
    \/ Stuck

(***************************************************************************)
(* While set_one is held, every step brings the removal nearer to its end: *)
(* fewer objects are to be removed, or fewer steps of the destructor are   *)
(* left, or the thread that is waited for has less of its way before it.   *)
(* What else can happen is a step of another client's thread.  That there  *)
(* is such a step is NotKept.                                              *)
(***************************************************************************)
RemovalDescends ==
    [][holder # None =>
          \/ crashed'
          \/ holder' = None /\ stage = "idle" /\ todo = {}
          \/ holder' = holder /\ todo' \subseteq todo /\ todo' # todo
          \/ holder' = holder /\ todo' = todo /\ StepsLeft(stage') < StepsLeft(stage)
          \/ /\ UNCHANGED <<holder, todo, stage, victim>>
             /\ \E t \in Threads :
                   /\ pc'[t] # pc[t]
                   /\ stage = "wait" /\ t = victim => PathLeft(pc'[t]) < PathLeft(pc[t])
                   /\ \A u \in Threads \ {t} : pc'[u] = pc[u]]_vars

LEMMA RemovalStep ==
    ASSUME IInv, Removal
    PROVE  \/ crashed'
           \/ holder' = None /\ stage = "idle" /\ todo = {}
           \/ holder' = holder /\ todo' \subseteq todo /\ todo' # todo
           \/ holder' = holder /\ todo' = todo /\ StepsLeft(stage') < StepsLeft(stage)
<1> USE DEF lock, thread, fields
<1>1. CASE Spare \/ Take
  BY <1>1 DEF Spare, Take
<1>2. CASE Test
  BY <1>2 DEF Test, StepsLeft
<1>3. CASE Mark
  BY <1>3 DEF Mark, StepsLeft
<1>4. CASE Cancel
  BY <1>4 DEF Cancel, StepsLeft
<1>5. CASE LoadJoin
  BY <1>5 DEF LoadJoin, StepsLeft
<1>6. CASE Crash
  BY <1>6 DEF Crash
<1>7. CASE Join
  BY <1>7 DEF Join, StepsLeft
<1>8. CASE Joined
  BY <1>8 DEF Joined, StepsLeft
<1>9. CASE Delete
  BY <1>9 DEF Delete, StepsLeft
<1>10. CASE Release
  BY <1>10 DEF Release
<1> QED
  BY <1>1, <1>2, <1>3, <1>4, <1>5, <1>6, <1>7, <1>8, <1>9, <1>10 DEF Removal

\* A client's thread that is waited for is cancelled, so that it reads nothing
\* more and goes only forwards.
LEMMA WayForward ==
    ASSUME IInv, NEW t \in Threads, ClientThread(t)
    PROVE  /\ UNCHANGED <<holder, todo, stage, victim>>
           /\ pc'[t] # pc[t]
           /\ stage = "wait" /\ t = victim => PathLeft(pc'[t]) < PathLeft(pc[t])
           /\ \A u \in Threads \ {t} : pc'[u] = pc[u]
<1> USE DEF lock, Goes, IInv, TypeOK, Knows
<1>1. CASE Enter(t)
  BY <1>1 DEF Enter, PathLeft
<1>2. CASE Select(t)
  BY <1>2 DEF Select, PathLeft
<1>9. CASE Parse(t)
  BY <1>9 DEF Parse, PathLeft
<1>10. CASE Queue(t)
  BY <1>10 DEF Queue, PathLeft, Forgotten
<1>3. CASE Input(t)
  BY <1>3 DEF Input, PathLeft
<1>4. CASE Return(t)
  BY <1>4 DEF Return, PathLeft
<1>5. CASE ActCancel(t)
  BY <1>5 DEF ActCancel, PathLeft
<1>6. CASE ReadProcess(t)
  BY <1>6 DEF ReadProcess, PathLeft
<1>7. CASE ClearResponder(t)
  BY <1>7 DEF ClearResponder, PathLeft
<1>8. CASE Detach(t)
  BY <1>8 DEF Detach, PathLeft
<1> QED
  BY <1>1, <1>2, <1>3, <1>4, <1>5, <1>6, <1>7, <1>8, <1>9, <1>10 DEF ClientThread

\* A thread that is waited for was cancelled first, and finds its process forgotten.
THEOREM JoinsAreTold == Spec => []JoinIsTold
<1>1. IInv => JoinIsTold
  BY DEF IInv, TypeOK, Fields, Knows, Forgotten, JoinIsTold
<1> QED
  BY <1>1, Invariance, PTL

\* With set_one held, no step but another client's leaves the removal as far from
\* its end as it was, and the thread that is waited for is kept from its next step in
\* the two deadlocks only.
THEOREM RemovalAdvances == Spec => RemovalDescends /\ []NotKept
<1>1. IInv /\ [Next]_vars =>
        [holder # None =>
          \/ crashed'
          \/ holder' = None /\ stage = "idle" /\ todo = {}
          \/ holder' = holder /\ todo' \subseteq todo /\ todo' # todo
          \/ holder' = holder /\ todo' = todo /\ StepsLeft(stage') < StepsLeft(stage)
          \/ /\ UNCHANGED <<holder, todo, stage, victim>>
             /\ \E t \in Threads :
                   /\ pc'[t] # pc[t]
                   /\ stage = "wait" /\ t = victim => PathLeft(pc'[t]) < PathLeft(pc[t])
                   /\ \A u \in Threads \ {t} : pc'[u] = pc[u]]_vars
  <2>1. ASSUME IInv, Begin
        PROVE  holder = None
    BY <2>1 DEF Begin, Start, Remove, Command, DisconnectAll
  <2> QED
    BY <2>1, RemovalStep, WayForward DEF Next
<1>2. IInv => NotKept
  <2> SUFFICES ASSUME IInv, stage = "wait"
               PROVE  \/ pc[victim] \in {"starting", "monitoring", "selecting", "returned",
                                         "read", "sleeping", "ended"}
                      \/ pc[victim] = "queueing" /\ holder = Executor
                      \/ Stuck
    BY DEF NotKept
  <2>1. /\ victim \in Threads /\ holder \in Threads \cup {Executor}
        /\ pc[victim] \in Using \cup {"unborn", "sleeping", "removing", "ended"}
    BY DEF IInv, TypeOK
  <2>2. pc[victim] # "unborn" /\ victim # holder
    BY <2>1 DEF IInv, Placed, Fields, Knows, Forgotten
  <2> QED
    BY <2>1, <2>2, TeardownAssumption DEF Using, Stuck, WaitsForLock, QueueLocked
<1> QED
  BY <1>1, <1>2, Invariance, PTL DEF Spec, RemovalDescends

-----------------------------------------------------------------------------
(* The refinement of ClientLife.                                            *)

\* Whose object is in the table, at the address its thread was given.
InTable == {t \in Threads : object[address[t]] = t}

\* The life of a thread at a place, with or without something left to destroy.
LifeOf(place, left) == CASE place = "unborn" -> "unborn"
                         [] place \in Using -> "serving"
                         [] place \in {"sleeping", "removing"} -> "leaving"
                         [] place = "ended" -> IF left = {} THEN "done" ELSE "serving"

\* A thread whose object is about to be destroyed with it still serves when it
\* has ended: the destructor's steps are one step there, its last.
Lives == [t \in Threads |-> LifeOf(pc[t], {u \in InTable : u = t /\ status[t] # "detached"})]

Life == INSTANCE ClientLife WITH Clients <- Threads, life <- Lives, listed <- InTable

\* However finely the destructor and the thread interleave, at whatever address and
\* whoever destroys: a client is in the table as long as its thread works for it,
\* and leaves it once.
ImplementsLife == Life!Spec

\* Nobody is in the table but at the address of its thread.
LEMMA TableIsOfLiving ==
    ASSUME IInv
    PROVE  InTable = {t \in Threads : Alive(t)}
BY TeardownAssumption DEF IInv, TypeOK, Placed, Alive, InTable

\* Who neither moves nor is detached nor loses its object lives as before.
LEMMA SameLife ==
    ASSUME NEW t \in Threads, pc'[t] = pc[t], t \in InTable' <=> t \in InTable,
           status'[t] = "detached" <=> status[t] = "detached"
    PROVE  Lives'[t] = Lives[t]
<1>1. {u \in InTable : u = t /\ status[t] # "detached"}'
         = {u \in InTable : u = t /\ status[t] # "detached"}
  OBVIOUS
<1> QED
  BY <1>1 DEF Lives

LEMMA LivesIsFunction == Lives = [t \in Threads |-> Lives[t]] /\ Lives' = [t \in Threads |-> Lives'[t]]
BY DEF Lives

\* What a thread's life is, by where it is.
LEMMA LifeAt ==
    ASSUME NEW t \in Threads
    PROVE  /\ pc[t] = "unborn" => Lives[t] = "unborn"
           /\ pc[t] \in Using => Lives[t] = "serving"
           /\ pc[t] \in {"sleeping", "removing"} => Lives[t] = "leaving"
           /\ pc[t] = "ended" /\ t \in InTable /\ status[t] # "detached" => Lives[t] = "serving"
           /\ pc[t] = "ended" /\ (t \notin InTable \/ status[t] = "detached") => Lives[t] = "done"
BY DEF Lives, LifeOf, Using

LEMMA LifeThen ==
    ASSUME NEW t \in Threads
    PROVE  /\ pc'[t] \in Using => Lives'[t] = "serving"
           /\ pc'[t] \in {"sleeping", "removing"} => Lives'[t] = "leaving"
           /\ pc'[t] = "ended" /\ t \in InTable' /\ status'[t] # "detached" => Lives'[t] = "serving"
           /\ pc'[t] = "ended" /\ (t \notin InTable' \/ status'[t] = "detached")
                 => Lives'[t] = "done"
BY DEF Lives, LifeOf, Using

LEMMA StartRefines ==
    ASSUME IInv, NEW t \in Threads, Start(t)
    PROVE  Life!Attach(t)
<1>1. /\ pc[t] = "unborn" /\ pc' = [pc EXCEPT ![t] = "starting"]
      /\ object[address[t]] = None
      /\ object' = [object EXCEPT ![address[t]] = t] /\ UNCHANGED <<address, status>>
  BY DEF Start
<1>2. /\ object \in [Handles -> Threads \cup {None}] /\ address \in [Threads -> Handles]
      /\ pc \in [Threads -> Using \cup {"unborn", "sleeping", "removing", "ended"}]
      /\ None \notin Threads
  BY TeardownAssumption DEF IInv, TypeOK
<1>3. InTable' = InTable \cup {t}
  BY <1>1, <1>2 DEF InTable
<1>4. \A u \in Threads \ {t} : Lives'[u] = Lives[u]
  <2> SUFFICES ASSUME NEW u \in Threads \ {t} PROVE Lives'[u] = Lives[u]
    OBVIOUS
  <2>1. pc'[u] = pc[u] /\ status'[u] = status[u] /\ (u \in InTable' <=> u \in InTable)
    BY <1>1, <1>2, <1>3
  <2> QED
    BY <2>1, SameLife
<1>5. Lives[t] = "unborn"
  BY <1>1, LifeAt
<1>6. pc'[t] \in Using
  BY <1>1, <1>2 DEF Using
<1>7. Lives' = [Lives EXCEPT ![t] = "serving"]
  BY <1>4, <1>6, LifeThen, LivesIsFunction
<1> QED
  BY <1>3, <1>5, <1>7 DEF Life!Attach

\* A step that changes neither lives nor the table.
LEMMA SilentStep ==
    ASSUME UNCHANGED <<object, address>>, \A u \in Threads : Lives'[u] = Lives[u]
    PROVE  UNCHANGED Life!lifeVars
<1>1. Lives' = Lives
  BY LivesIsFunction
<1>2. InTable' = InTable
  BY DEF InTable
<1> QED
  BY <1>1, <1>2 DEF Life!lifeVars

LEMMA ThreadRefines ==
    ASSUME IInv, NEW t \in Threads, ClientThread(t)
    PROVE  Life!Leave(t) \/ UNCHANGED Life!lifeVars
<1>1. UNCHANGED <<object, address>>
  BY DEF ClientThread, Enter, Parse, Queue, Select, Input, Return, ActCancel,
         ReadProcess, ClearResponder, Detach
<1>2. InTable' = InTable
  BY <1>1 DEF InTable
<1>3. \A u \in Threads \ {t} : Lives'[u] = Lives[u]
  <2> SUFFICES ASSUME NEW u \in Threads \ {t} PROVE Lives'[u] = Lives[u]
    OBVIOUS
  <2>1. pc'[u] = pc[u] /\ status'[u] = status[u]
    BY DEF ClientThread, Enter, Parse, Queue, Select, Input, Return, ActCancel, ReadProcess, ClearResponder,
       Detach, Goes, IInv, TypeOK, fields, thread
  <2> QED
    BY <1>2, <2>1, SameLife
<1>4. CASE Lives'[t] = Lives[t]
  BY <1>1, <1>3, <1>4, SilentStep
<1>5. CASE Lives[t] = "serving" /\ Lives'[t] = "leaving"
  <2>1. Lives' = [Lives EXCEPT ![t] = "leaving"]
    BY <1>3, <1>5, LivesIsFunction
  <2> QED
    BY <1>2, <1>5, <2>1 DEF Life!Leave
<1>6. pc \in [Threads -> Using \cup {"unborn", "sleeping", "removing", "ended"}]
  BY DEF IInv, TypeOK
<1>7. pc[t] \in Using => t \in InTable /\ status[t] # "detached"
  BY DEF IInv, Fields, Disposal, Using, InTable
<1>8. CASE ClearResponder(t)
  <2>1. pc[t] \in Using /\ pc'[t] \in {"sleeping", "ended"} /\ status'[t] = status[t]
    BY <1>6, <1>8 DEF ClearResponder, Goes, Using
  <2>2. Lives[t] = "serving" /\ Lives'[t] \in {"serving", "leaving"}
    BY <1>2, <1>7, <2>1, LifeAt, LifeThen
  <2> QED
    BY <1>4, <1>5, <2>2
<1>9. CASE ActCancel(t)
  <2>1. pc[t] \in Using /\ pc'[t] = "ended" /\ status'[t] = status[t]
    BY <1>6, <1>9 DEF ActCancel, Using
  <2>2. Lives[t] = "serving" /\ Lives'[t] = "serving"
    BY <1>2, <1>7, <2>1, LifeAt, LifeThen
  <2> QED
    BY <1>4, <2>2
<1>10. CASE Detach(t)
  <2>1. pc[t] = "sleeping" /\ pc'[t] = "removing"
    BY <1>6, <1>10 DEF Detach, Goes
  <2>2. Lives[t] = "leaving" /\ Lives'[t] = "leaving"
    BY <2>1, LifeAt, LifeThen
  <2> QED
    BY <1>4, <2>2
<1>11. CASE Enter(t) \/ Parse(t) \/ Queue(t) \/ Select(t) \/ Input(t) \/ Return(t) \/ ReadProcess(t)
  <2>1. pc[t] \in Using /\ pc'[t] \in Using
    BY <1>6, <1>11 DEF Enter, Parse, Queue, Select, Input, Return, ReadProcess, Goes, Using
  <2>2. Lives[t] = "serving" /\ Lives'[t] = "serving"
    BY <2>1, LifeAt, LifeThen
  <2> QED
    BY <1>4, <2>2
<1> QED
  BY <1>8, <1>9, <1>10, <1>11 DEF ClientThread

\* The destructor's last step is the one that counts.
LEMMA DeleteRefines ==
    ASSUME IInv, Delete
    PROVE  \E D \in SUBSET InTable : \E K \in SUBSET D : Life!Terminate(D, K)
<1> DEFINE v == victim
           K == {t \in {v} : pc[t] = "ended"}
<1>1. /\ v \in Threads /\ object[address[v]] = v
      /\ pc[v] \in {"sleeping", "removing", "ended"}
  BY DEF Delete, IInv, TypeOK, Placed, Fields, Knows
<1>2. /\ object' = [h \in Handles |-> IF object[h] = v THEN None ELSE object[h]]
      /\ UNCHANGED <<address, pc, status>>
  BY DEF Delete, thread
<1>3. InTable' = InTable \ {v}
  BY <1>1, <1>2, TeardownAssumption DEF IInv, TypeOK, InTable
<1>4. v \in InTable
  BY <1>1 DEF InTable
<1>5. \A u \in Threads \ {v} : Lives'[u] = Lives[u]
  <2> SUFFICES ASSUME NEW u \in Threads \ {v} PROVE Lives'[u] = Lives[u]
    OBVIOUS
  <2>1. pc'[u] = pc[u] /\ status'[u] = status[u] /\ (u \in InTable' <=> u \in InTable)
    BY <1>2, <1>3
  <2> QED
    BY <2>1, SameLife
<1>6. Lives'[v] = IF v \in K THEN "done" ELSE Lives[v]
  <2>1. CASE pc[v] = "ended"
    BY <1>1, <1>2, <1>3, <2>1, LifeThen
  <2>2. CASE pc[v] \in {"sleeping", "removing"}
    BY <1>1, <1>2, <2>2, LifeAt, LifeThen
  <2> QED
    BY <1>1, <2>1, <2>2
<1>7. \A c \in {v} \ K : Lives[c] = "leaving"
  BY <1>1, LifeAt
<1>8. Lives' = [c \in Threads |-> IF c \in K THEN "done" ELSE Lives[c]]
  <2>1. \A u \in Threads : Lives'[u] = IF u \in K THEN "done" ELSE Lives[u]
    BY <1>5, <1>6
  <2> HIDE DEF K
  <2> QED
    BY <2>1, LivesIsFunction
<1>9. Life!Terminate({v}, K)
  BY <1>3, <1>7, <1>8 DEF Life!Terminate
<1>10. {v} \in SUBSET InTable /\ K \in SUBSET {v}
  BY <1>4
<1> QED
  BY <1>9, <1>10

\* A client's thread that gives back set_one is done; the execution thread is not
\* a client's.
LEMMA ReleaseRefines ==
    ASSUME IInv, Release
    PROVE  (\E t \in Threads : Life!Withdraw(t)) \/ UNCHANGED Life!lifeVars
<1> DEFINE h == holder
<1>1. /\ UNCHANGED <<object, address, status>> /\ stage = "idle"
      /\ pc' = [t \in Threads |-> IF t = h THEN "ended" ELSE pc[t]]
  BY DEF Release
<1>2. InTable' = InTable
  BY <1>1 DEF InTable
<1>3. \A u \in Threads : u # h => Lives'[u] = Lives[u]
  <2> SUFFICES ASSUME NEW u \in Threads, u # h PROVE Lives'[u] = Lives[u]
    OBVIOUS
  <2>1. pc'[u] = pc[u] /\ status'[u] = status[u]
    BY <1>1
  <2> QED
    BY <1>2, <2>1, SameLife
<1>4. CASE h \notin Threads
  BY <1>1, <1>3, <1>4, SilentStep
<1>5. CASE h \in Threads
  <2>1. pc[h] = "removing" /\ status[h] = "detached"
    BY <1>1, <1>5 DEF IInv, Placed, Disposal
  <2>2. pc'[h] = "ended" /\ status'[h] = "detached"
    BY <1>1, <1>5, <2>1
  <2>3. Lives[h] = "leaving" /\ Lives'[h] = "done"
    BY <1>5, <2>1, <2>2, LifeAt, LifeThen
  <2>4. Lives' = [Lives EXCEPT ![h] = "done"]
    BY <1>3, <2>3, LivesIsFunction
  <2>5. Life!Withdraw(h)
    BY <1>2, <2>3, <2>4 DEF Life!Withdraw
  <2> QED
    BY <1>5, <2>5
<1> QED
  BY <1>4, <1>5

LEMMA RemovalRefines ==
    ASSUME IInv, Spare \/ Take \/ Test \/ Mark \/ Cancel \/ LoadJoin \/ Crash \/ Join \/ Joined
    PROVE  UNCHANGED Life!lifeVars
<1>1. UNCHANGED <<object, address, pc>>
  BY DEF Spare, Take, Test, Mark, Cancel, LoadJoin, Crash, Join, Joined, thread, lock
<1>2. InTable' = InTable
  BY <1>1 DEF InTable
<1>3. \A u \in Threads : status'[u] = "detached" <=> status[u] = "detached"
  <2>1. CASE Spare \/ Take \/ Test \/ Mark \/ Cancel \/ LoadJoin \/ Crash
    BY <2>1 DEF Spare, Take, Test, Mark, Cancel, LoadJoin, Crash, thread
  <2>2. CASE Join
    <3>1. /\ status' = [status EXCEPT ![victim] = IF @ = "detached" THEN @ ELSE "joining"]
          /\ status \in [Threads -> {"joinable", "joining", "detached", "joined"}]
      BY <2>2 DEF Join, IInv, TypeOK
    <3> QED
      BY <3>1
  <2>3. CASE Joined
    <3>1. /\ stage = "wait" /\ status' = [status EXCEPT ![victim] = "joined"]
          /\ status \in [Threads -> {"joinable", "joining", "detached", "joined"}]
      BY <2>3 DEF Joined, IInv, TypeOK
    <3>2. status[victim] # "detached"
      BY <3>1 DEF IInv, Knows
    <3> QED
      BY <3>1, <3>2
  <2> QED
    BY <2>1, <2>2, <2>3
<1>4. \A u \in Threads : Lives'[u] = Lives[u]
  <2> SUFFICES ASSUME NEW u \in Threads PROVE Lives'[u] = Lives[u]
    OBVIOUS
  <2> QED
    BY <1>1, <1>2, <1>3, SameLife
<1> QED
  BY <1>1, <1>4, SilentStep

\* A step that starts, cancels and joins nobody.
LEMMA OtherRefines ==
    ASSUME UNCHANGED <<object, address, pc, status>>
    PROVE  UNCHANGED Life!lifeVars
<1>1. InTable' = InTable
  BY DEF InTable
<1>2. \A u \in Threads : Lives'[u] = Lives[u]
  <2> SUFFICES ASSUME NEW u \in Threads PROVE Lives'[u] = Lives[u]
    OBVIOUS
  <2> QED
    BY <1>1, SameLife
<1> QED
  BY <1>2, SilentStep

LEMMA BeginRefines ==
    ASSUME IInv, Begin
    PROVE  (\E t \in Threads : Life!Attach(t)) \/ UNCHANGED Life!lifeVars
<1>1. ASSUME NEW t \in Threads, Remove(t) PROVE UNCHANGED <<object, address, pc, status>>
  BY <1>1 DEF Remove, thread
<1>2. ASSUME NEW H \in SUBSET Listed, Command(H) PROVE UNCHANGED <<object, address, pc, status>>
  BY <1>2 DEF Command, thread
<1>3. ASSUME DisconnectAll PROVE UNCHANGED <<object, address, pc, status>>
  BY <1>3 DEF DisconnectAll, thread
<1>4. ASSUME NEW t \in Threads, Start(t) PROVE Life!Attach(t)
  BY <1>4, StartRefines
<1> QED
  BY <1>1, <1>2, <1>3, <1>4, OtherRefines DEF Begin

\* The destruction of clients, with every access to their fields a step of its own
\* and addresses used again, implements the life of a client.
THEOREM TeardownImplementsLife == Spec => ImplementsLife
<1>1. Init => Life!Init
  <2> SUFFICES ASSUME Init PROVE Life!Init
    OBVIOUS
  <2>1. InTable = {}
    BY TeardownAssumption DEF Init, InTable
  <2>2. \A t \in Threads : Lives[t] = "unborn"
    <3> SUFFICES ASSUME NEW t \in Threads PROVE Lives[t] = "unborn"
      OBVIOUS
    <3>1. pc[t] = "unborn"
      BY DEF Init
    <3> QED
      BY <3>1, LifeAt
  <2> QED
    BY <2>1, <2>2, LivesIsFunction DEF Life!Init
<1>2. IInv /\ [Next]_vars => [Life!Next]_(Life!lifeVars)
  <2> SUFFICES ASSUME IInv, [Next]_vars PROVE Life!Next \/ UNCHANGED Life!lifeVars
    OBVIOUS
  <2>1. CASE Begin
    BY <2>1, BeginRefines DEF Life!Next
  <2>2. CASE Delete
    BY <2>2, DeleteRefines DEF Life!Next
  <2>3. CASE Release
    BY <2>3, ReleaseRefines DEF Life!Next
  <2>4. CASE Spare \/ Take \/ Test \/ Mark \/ Cancel \/ LoadJoin \/ Crash \/ Join \/ Joined
    BY <2>4, RemovalRefines
  <2>5. CASE \E t \in Threads : ClientThread(t)
    BY <2>5, ThreadRefines DEF Life!Next
  <2>6. CASE UNCHANGED vars
    BY <2>6, OtherRefines DEF vars, thread
  <2> QED
    BY <2>1, <2>2, <2>3, <2>4, <2>5, <2>6 DEF Next, Removal
<1> QED
  BY <1>1, <1>2, Invariance, PTL DEF Spec, ImplementsLife, Life!Spec

\* The step of the abstract specification.
LEMMA LifeStep ==
    ASSUME Life!ServersListed, [Life!Next]_(Life!lifeVars)
    PROVE  /\ Life!ServersListed'
           /\ \A c \in Threads : Lives[c] # "unborn" =>
                 /\ c \in InTable' => c \in InTable
                 /\ Lives'[c] = "serving" => Lives[c] = "serving"
<1> DEFINE life == Lives
           listed == InTable
<1>1. /\ life \in [Threads -> {"unborn", "serving", "leaving", "done"}]
      /\ \A c \in Threads : life[c] = "serving" => c \in listed
  BY DEF Life!ServersListed
<1>2. \/ UNCHANGED <<life, listed>>
      \/ \E c \in Threads : Life!Attach(c) \/ Life!Leave(c) \/ Life!Withdraw(c)
      \/ \E D \in SUBSET listed : \E K \in SUBSET D : Life!Terminate(D, K)
  BY DEF Life!Next, Life!lifeVars
<1> SUFFICES /\ life' \in [Threads -> {"unborn", "serving", "leaving", "done"}]
             /\ \A c \in Threads : life'[c] = "serving" => c \in listed'
             /\ \A c \in Threads : life[c] # "unborn" =>
                   /\ c \in listed' => c \in listed
                   /\ life'[c] = "serving" => life[c] = "serving"
  BY DEF Life!ServersListed
<1>3. CASE UNCHANGED <<life, listed>>
  <2>1. life' = life /\ listed' = listed
    BY <1>3
  <2> HIDE DEF life, listed
  <2> QED
    BY <1>1, <2>1
<1>4. ASSUME NEW c \in Threads, Life!Attach(c)
      PROVE  /\ life[c] = "unborn" /\ life' = [life EXCEPT ![c] = "serving"]
             /\ listed' = listed \cup {c}
  BY <1>4 DEF Life!Attach
<1>5. ASSUME NEW c \in Threads, Life!Leave(c)
      PROVE  life' = [life EXCEPT ![c] = "leaving"] /\ listed' = listed
  BY <1>5 DEF Life!Leave
<1>6. ASSUME NEW c \in Threads, Life!Withdraw(c)
      PROVE  life' = [life EXCEPT ![c] = "done"] /\ listed' \in {listed, listed \ {c}}
  BY <1>6 DEF Life!Withdraw
<1>7. ASSUME NEW D \in SUBSET listed, NEW K \in SUBSET D, Life!Terminate(D, K)
      PROVE  /\ \A c \in D \ K : life[c] \in {"leaving", "done"}
             /\ life' = [c \in Threads |-> IF c \in K THEN "done" ELSE life[c]]
             /\ listed' = listed \ D
  BY <1>7 DEF Life!Terminate
<1>8. ASSUME NEW c \in Threads, Life!Attach(c) \/ Life!Leave(c) \/ Life!Withdraw(c)
      PROVE  \/ /\ life[c] = "unborn" /\ life' = [life EXCEPT ![c] = "serving"]
                /\ listed' = listed \cup {c}
             \/ life' = [life EXCEPT ![c] = "leaving"] /\ listed' = listed
             \/ life' = [life EXCEPT ![c] = "done"] /\ listed' \in {listed, listed \ {c}}
  BY <1>4, <1>5, <1>6, <1>8
<1> HIDE DEF life, listed
<1>9. CASE \E c \in Threads : Life!Attach(c) \/ Life!Leave(c) \/ Life!Withdraw(c)
  BY <1>1, <1>8, <1>9
<1>10. CASE \E D \in SUBSET listed : \E K \in SUBSET D : Life!Terminate(D, K)
  <2>1. PICK D \in SUBSET listed : \E K \in SUBSET D : Life!Terminate(D, K)
    BY <1>10
  <2>2. PICK K \in SUBSET D : Life!Terminate(D, K)
    BY <2>1
  <2>3. /\ \A c \in D \ K : life[c] \in {"leaving", "done"}
        /\ life' = [c \in Threads |-> IF c \in K THEN "done" ELSE life[c]]
        /\ listed' = listed \ D
    BY <1>7, <2>2
  <2>4. \A c \in Threads : life'[c] = IF c \in K THEN "done" ELSE life[c]
    BY <2>3
  <2>5. life' \in [Threads -> {"unborn", "serving", "leaving", "done"}]
    BY <1>1, <2>3
  <2>6. \A c \in Threads : life'[c] = "serving" => life[c] = "serving" /\ c \notin D
    BY <2>3, <2>4
  <2> QED
    BY <1>1, <2>3, <2>5, <2>6
<1> QED
  BY <1>2, <1>3, <1>9, <1>10

\* A thread that serves has its object in the table, an object that was removed
\* does not come back, and no thread serves twice: from the refinement alone.
THEOREM ThreadsLiveOnce == Spec => []Life!ServersListed /\ Life!NoReturn
<1>1. Life!Init => Life!ServersListed
  BY DEF Life!Init, Life!ServersListed
<1>2. Life!ServersListed /\ [Life!Next]_(Life!lifeVars) => Life!ServersListed'
  BY LifeStep
<1>3. Life!ServersListed /\ [Life!Next]_(Life!lifeVars) =>
         [\A c \in Threads : Lives[c] # "unborn" =>
             /\ c \in InTable' => c \in InTable
             /\ Lives'[c] = "serving" => Lives[c] = "serving"]_(Life!lifeVars)
  BY LifeStep
<1> QED
  BY <1>1, <1>2, <1>3, TeardownImplementsLife, PTL DEF ImplementsLife, Life!Spec, Life!NoReturn

=============================================================================
