-------------------------- MODULE CommandFlowProofs --------------------------
(***************************************************************************)
(* Proofs about CommandFlow, for every set of clients, every number of     *)
(* commands they send and every value of the limits.                       *)
(***************************************************************************)
EXTENDS CommandFlow, TLAPS, FiniteSetTheorems, SequenceTheorems

\* An entry with the key it was queued with, or cancelled.
OwnEntry == {e \in Entry : e.key \in {e.cmd[1], NoHandle}}

\* While execute_single is at work, the first command is there and its client
\* is in the table.
Busy == xpc \in {"decrement", "deliver", "settle"} => cache # <<>> /\ Head1.key \in listed

\* A client whose thread handles commands is in the table.
Present == \A c \in Clients : pc[c] \notin {"leaving", "gone", "killed"} => c \in listed

\* The inductive invariant.  TypeOK alone is not inductive: that the penalty, the
\* counter and the history of the first command are changed at places of their
\* own needs Busy, which needs the keys to be the clients that sent the commands.
Inv == /\ TypeOK
       /\ IsFiniteSet(waiting)
       /\ waiting \subseteq OwnEntry
       /\ cache \in Seq(OwnEntry)
       /\ Busy
       /\ Present
       /\ LeavesNoHandle

-----------------------------------------------------------------------------
(* What the operators of the model do to the types. *)

LEMMA OwnFields ==
    ASSUME NEW e \in OwnEntry
    PROVE  /\ e \in Entry
           /\ e.cmd \in Clients \X Nat
           /\ e.cmd[1] \in Clients
           /\ e.key \in {e.cmd[1], NoHandle}
           /\ e.penalty \in 0..PenaltyMax
           /\ e.kind \in {"sent", "server", "forward"}
BY DEF OwnEntry, Entry

LEMMA FreshIsOwn ==
    ASSUME NEW c \in Clients, TypeOK
    PROVE  Fresh(c) \in OwnEntry /\ Fresh(c).key = c
BY FlowAssumption DEF Fresh, InHand, OwnEntry, Entry, TypeOK

LEMMA CancelledIsOwn ==
    ASSUME NEW e \in OwnEntry, NEW c \in Clients
    PROVE  /\ Cancelled(e, c) \in OwnEntry
           /\ Cancelled(e, c).kind = e.kind
           /\ Cancelled(e, c).key # c
           /\ Cancelled(e, c).key \in {e.key, NoHandle}
BY FlowAssumption DEF Cancelled, OwnEntry, Entry

LEMMA MarkedIsHistory ==
    ASSUME NEW o, IsHistory(o), NEW cmd \in Clients \X Nat, NEW w \in Outcomes
    PROVE  /\ IsHistory(Marked(o, cmd, w))
           /\ \A c \in Clients : \A n \in 1..Sends[c] :
                 Marked(o, cmd, w)[c][n] = IF <<c, n>> = cmd THEN w ELSE o[c][n]
<1> DEFINE p == Marked(o, cmd, w)
           h == cmd[1]
           k == cmd[2]
<1>1. /\ o \in [Clients -> UNION {[1..Sends[c] -> Outcomes] : c \in Clients}]
      /\ \A c \in Clients : o[c] \in [1..Sends[c] -> Outcomes]
  BY DEF IsHistory
<1>2. h \in Clients /\ \A c, n : <<c, n>> = cmd <=> c = h /\ n = k
  OBVIOUS
<1>3. p = [o EXCEPT ![h] = [o[h] EXCEPT ![k] = w]]
  BY DEF Marked
<1> HIDE DEF p, h, k
<1>4. DOMAIN p = Clients /\ p[h] = [o[h] EXCEPT ![k] = w] /\ \A c \in Clients : c # h => p[c] = o[c]
  BY <1>1, <1>2, <1>3
<1>5. ASSUME NEW c \in Clients
      PROVE  /\ p[c] \in [1..Sends[c] -> Outcomes]
             /\ \A n \in 1..Sends[c] : p[c][n] = IF c = h /\ n = k THEN w ELSE o[c][n]
  <2> DEFINE row == o[c]
             D == 1..Sends[c]
  <2>1. row \in [D -> Outcomes]
    BY <1>1
  <2>2. CASE c = h
    <3>1. p[c] = [row EXCEPT ![k] = w]
      BY <1>4, <2>2
    <3> HIDE DEF row, D
    <3>2. p[c] \in [D -> Outcomes] /\ \A n \in D : p[c][n] = IF n = k THEN w ELSE row[n]
      BY <2>1, <3>1
    <3> QED
      BY <2>2, <3>2 DEF row, D
  <2>3. CASE c # h
    BY <1>4, <2>1, <2>3
  <2> QED
    BY <2>2, <2>3
<1>6. p \in [Clients -> UNION {[1..Sends[c] -> Outcomes] : c \in Clients}]
  <2>1. p = [c \in Clients |-> p[c]]
    BY <1>1, <1>3
  <2> QED
    BY <1>5, <2>1
<1>7. IsHistory(p)
  BY <1>5, <1>6 DEF IsHistory
<1> QED
  BY <1>2, <1>5, <1>7 DEF p

LEMMA DropFirstTyped ==
    ASSUME NEW q \in Seq(OwnEntry), NEW what, IsHistory(what), DropFirst(q, what)
    PROVE  /\ cache' \in Seq(OwnEntry)
           /\ IsHistory(outcome')
           /\ \A c \in Clients : \A n \in 1..Sends[c] :
                 outcome'[c][n] = "delivered" => what[c][n] = "delivered"
<1>1. CASE q = <<>>
  BY <1>1 DEF DropFirst
<1>2. CASE q # <<>>
  <2>1. Head(q) \in OwnEntry /\ Tail(q) \in Seq(OwnEntry)
    BY <1>2
  <2>2. Head(q).cmd \in Clients \X Nat
    BY <2>1, OwnFields
  <2>3. cache' = Tail(q) /\ outcome' = Marked(what, Head(q).cmd, "lost")
    BY <1>2 DEF DropFirst
  <2>4. "lost" \in Outcomes
    BY DEF Outcomes
  <2>5. /\ IsHistory(outcome')
        /\ \A c \in Clients : \A n \in 1..Sends[c] :
              outcome'[c][n] = IF <<c, n>> = Head(q).cmd THEN "lost" ELSE what[c][n]
    BY <2>2, <2>3, <2>4, MarkedIsHistory
  <2> QED
    BY <2>1, <2>3, <2>5
<1> QED
  BY <1>1, <1>2

-----------------------------------------------------------------------------

LEMMA InvInit == Init => Inv
<1> SUFFICES ASSUME Init PROVE Inv
  OBVIOUS
<1>1. IsHistory(outcome)
  BY FlowAssumption DEF Init, IsHistory, Outcomes
<1>2. IsFiniteSet(waiting)
  BY FS_EmptySet DEF Init
<1>3. cache \in Seq(OwnEntry) /\ cache \in Seq(Entry)
  BY DEF Init
<1> QED
  BY <1>1, <1>2, <1>3 DEF Init, Inv, TypeOK, Busy, Head1, Present, LeavesNoHandle

\* A step of a client's thread that changes only its own state, its counter and
\* the history.
LEMMA OwnStateKeepsInv ==
    ASSUME Inv, NEW c \in Clients, NEW from \in {"read", "limit", "count", "counted"},
           NEW to \in {"read", "limit", "insert", "counted", "leaving"},
           Go(c, from, to),
           sent' \in [Clients -> Nat], reg' \in [Clients -> Nat],
           totalWaiting' \in [Clients -> Nat], IsHistory(outcome'),
           UNCHANGED <<listed, waiting, xpc, cache, xreg, exitFlag>>
    PROVE  Inv'
<1>1. /\ pc' \in [Clients -> {"read", "limit", "insert", "wake", "count", "counted",
                             "leaving", "gone", "killed"}]
      /\ \A d \in Clients : \/ pc'[d] = pc[d]
                            \/ d = c /\ pc[c] \notin {"leaving", "gone", "killed"}
  BY DEF Inv, TypeOK, Go
<1>2. TypeOK'
  BY <1>1 DEF Inv, TypeOK
<1>3. Busy'
  BY DEF Inv, Busy, Head1
<1>4. Present' /\ LeavesNoHandle'
  BY <1>1 DEF Inv, TypeOK, Present, LeavesNoHandle, Go
<1> QED
  BY <1>2, <1>3, <1>4 DEF Inv

LEMMA ClientKeepsInv ==
    ASSUME Inv, NEW c \in Clients
    PROVE  /\ Admit(c) => Inv'
           /\ Refuse(c) => Inv'
           /\ PassLimit(c) => Inv'
           /\ FailLimit(c) => Inv'
           /\ LoadCount(c) => Inv'
           /\ StoreCount(c) => Inv'
           /\ Leave(c) => Inv'
<1> USE DEF tableVars, execVars, clientVars
<1>1. "open" \in Outcomes /\ "refused" \in Outcomes
  BY DEF Outcomes
<1>2. /\ sent \in [Clients -> Nat] /\ reg \in [Clients -> Nat]
      /\ totalWaiting \in [Clients -> Nat] /\ IsHistory(outcome)
  BY DEF Inv, TypeOK
<1>3. ASSUME NEW n \in Nat, NEW w \in Outcomes, Become(c, n, w) PROVE IsHistory(outcome')
  BY <1>2, <1>3, MarkedIsHistory DEF Become
<1>4. ASSUME Admit(c) PROVE Inv'
  BY <1>1, <1>2, <1>3, <1>4, OwnStateKeepsInv DEF Admit
<1>5. ASSUME Refuse(c) PROVE Inv'
  BY <1>1, <1>2, <1>3, <1>5, OwnStateKeepsInv DEF Refuse
<1>6. ASSUME PassLimit(c) PROVE Inv'
  BY <1>2, <1>6, OwnStateKeepsInv DEF PassLimit
<1>7. ASSUME FailLimit(c) PROVE Inv'
  BY <1>1, <1>2, <1>3, <1>7, OwnStateKeepsInv DEF FailLimit
<1>8. ASSUME LoadCount(c) PROVE Inv'
  BY <1>2, <1>8, OwnStateKeepsInv DEF LoadCount
<1>9. ASSUME StoreCount(c) PROVE Inv'
  BY <1>2, <1>9, OwnStateKeepsInv DEF StoreCount
<1>10. ASSUME Leave(c) PROVE Inv'
  BY <1>2, <1>10, OwnStateKeepsInv DEF Leave
<1> QED
  BY <1>4, <1>5, <1>6, <1>7, <1>8, <1>9, <1>10

LEMMA InsertKeepsInv ==
    ASSUME Inv, NEW c \in Clients, Insert(c)
    PROVE  Inv'
<1>1. Fresh(c) \in OwnEntry /\ Fresh(c).key = c
  BY FreshIsOwn DEF Inv
<1>2. Fresh(c) \in Entry
  BY <1>1, OwnFields
<1>3. c \in listed
  BY DEF Inv, Present, Insert, Go
<1>4. waiting' = waiting \cup {Fresh(c)}
  BY DEF Insert, QueueNewExecute
<1>5. IsFiniteSet(waiting')
  BY <1>4, FS_AddElement DEF Inv
<1> HIDE DEF Fresh
<1> QED
  BY <1>1, <1>2, <1>3, <1>4, <1>5
     DEF Inv, TypeOK, Busy, Head1, Present, LeavesNoHandle, Insert, Go, tableVars, execVars

LEMMA WakeKeepsInv ==
    ASSUME Inv, NEW c \in Clients, Wake(c)
    PROVE  Inv'
BY DEF Inv, TypeOK, Busy, Head1, Present, LeavesNoHandle, Wake, Woken, Go, tableVars, execVars

LEMMA RemoveKeepsInv ==
    ASSUME Inv, NEW c \in Clients, Remove(c)
    PROVE  Inv'
<1> DEFINE f == [e \in waiting |-> Cancelled(e, c)]
<1>1. waiting' = {Cancelled(e, c) : e \in waiting}
  BY DEF Remove
<1>2. f \in Surjection(waiting, waiting')
  BY <1>1 DEF Surjection
<1>3. IsFiniteSet(waiting')
  BY <1>2, FS_Surjection DEF Inv
<1>4. waiting' \subseteq OwnEntry /\ waiting' \subseteq Entry
  BY <1>1, CancelledIsOwn, OwnFields DEF Inv
<1>5. \A e \in waiting' :
          \/ e.key \in (listed \ {c}) \cup {NoHandle}
          \/ e.key # c /\ pc[e.key] \in {"leaving", "killed"}
  BY <1>1, CancelledIsOwn DEF Inv, LeavesNoHandle
<1>6. listed' \subseteq listed /\ listed \ {c} \subseteq listed'
  BY DEF Remove
<1>7. xpc \notin {"decrement", "deliver", "settle"}
  BY DEF Remove, OneFree
<1>8. pc[c] = "leaving" /\ pc' = [pc EXCEPT ![c] = "gone"]
  BY DEF Remove, Go
<1>9. TypeOK' /\ Busy'
  BY <1>3, <1>4, <1>6, <1>7, <1>8 DEF Inv, TypeOK, Busy, Head1, Remove, Woken, execVars
<1>10. Present'
  BY <1>6, <1>8 DEF Inv, TypeOK, Present
<1>11. LeavesNoHandle'
  <2>1. \A e \in waiting' : e.key \in Clients \cup {NoHandle}
    BY <1>4, OwnFields
  <2> QED
    BY <1>5, <1>6, <1>8, <2>1 DEF Inv, TypeOK, LeavesNoHandle
<1> QED
  BY <1>3, <1>4, <1>9, <1>10, <1>11 DEF Inv, Remove, execVars

-----------------------------------------------------------------------------

\* execute_single works on a command of the client it looked up, which stays in
\* the table: removal cannot come between.
LEMMA HeadIsListed ==
    ASSUME Inv, xpc \in {"decrement", "deliver", "settle"}
    PROVE  /\ cache # <<>>
           /\ Head1 \in OwnEntry
           /\ Tail(cache) \in Seq(OwnEntry)
           /\ Head1.key \in listed
           /\ Head1.key = Head1.cmd[1]
           /\ Head1.key \in Clients
<1>1. cache # <<>> /\ Head1.key \in listed /\ cache \in Seq(OwnEntry) /\ listed \subseteq Clients
  BY DEF Inv, Busy, TypeOK
<1>2. Head1 \in OwnEntry /\ Tail(cache) \in Seq(OwnEntry)
  BY <1>1 DEF Head1
<1>3. Head1.key \in {Head1.cmd[1], NoHandle}
  BY <1>2, OwnFields
<1> QED
  BY <1>1, <1>2, <1>3, FlowAssumption

\* A step that changes only the position of the execution thread.
LEMMA MoveKeepsInv ==
    ASSUME Inv, NEW from, NEW to \in {"idle", "check", "block", "asleep", "execute", "stopped"},
           Step(from, to),
           UNCHANGED <<clientVars, tableVars, waiting, execVars, exitFlag, outcome>>
    PROVE  Inv'
BY DEF Inv, TypeOK, Busy, Head1, Present, LeavesNoHandle, Step, clientVars, tableVars, execVars

\* Some clients leave the table, and their threads have ended or are leaving.
Expelled == /\ UNCHANGED <<sent, reg>>
            /\ pc' \in [Clients -> {"read", "limit", "insert", "wake", "count", "counted",
                                    "leaving", "gone", "killed"}]
            /\ listed' \subseteq listed
            /\ \A c \in Clients :
                  \/ pc'[c] = pc[c] /\ (c \in listed => c \in listed')
                  \/ c \notin listed' /\ pc'[c] \in {"leaving", "killed"}

\* A step after which execute_single is done.
LEMMA RestKeepsInv ==
    ASSUME Inv, xpc' = "execute",
           waiting' \subseteq waiting, cache' \in Seq(OwnEntry), IsHistory(outcome'),
           totalWaiting' \in [Clients -> Nat], xreg' \in Nat, exitFlag' \in BOOLEAN,
           UNCHANGED <<clientVars, listed>> \/ Expelled
    PROVE  Inv'
<1>1. cache' \in Seq(Entry)
  BY DEF OwnEntry
<1>2. IsFiniteSet(waiting')
  BY FS_Subset DEF Inv
<1>3. TypeOK'
  BY <1>1 DEF Inv, TypeOK, clientVars, Expelled
<1>4. Present'
  BY DEF Inv, Present, clientVars, Expelled
<1>5. LeavesNoHandle'
  <2>1. \A e \in waiting' : e.key \in Clients \cup {NoHandle}
    BY OwnFields DEF Inv
  <2> QED
    BY <2>1 DEF Inv, LeavesNoHandle, clientVars, Expelled
<1> QED
  BY <1>2, <1>3, <1>4, <1>5 DEF Inv, Busy

LEMMA FinishStep ==
    ASSUME Inv, NEW w \in {"delivered", "refused"}, NEW ok \in BOOLEAN, Finish(w, ok),
           UNCHANGED waiting, exitFlag' \in BOOLEAN,
           UNCHANGED <<pc, listed>> \/ Expelled
    PROVE  /\ Inv'
           /\ \A c \in Clients : \A n \in 1..Sends[c] :
                 outcome'[c][n] = "delivered" => outcome[c][n] = "delivered" \/ c \in listed
<1> DEFINE after == Marked(outcome, Head1.cmd, w)
<1>1. /\ Tail(cache) \in Seq(OwnEntry) /\ Head1.cmd \in Clients \X Nat
      /\ Head1.cmd[1] \in listed
  BY HeadIsListed, OwnFields DEF Finish, Step
<1>2. IsHistory(outcome) /\ w \in Outcomes
  BY DEF Inv, TypeOK, Outcomes
<1>3. /\ IsHistory(after)
      /\ \A c \in Clients : \A n \in 1..Sends[c] :
            after[c][n] = IF <<c, n>> = Head1.cmd THEN w ELSE outcome[c][n]
  BY <1>1, <1>2, MarkedIsHistory
<1>4. \A c \in Clients : \A n \in 1..Sends[c] :
            after[c][n] = "delivered" => outcome[c][n] = "delivered" \/ c \in listed
  BY <1>1, <1>3
<1>5. IF ok THEN cache' = Tail(cache) /\ outcome' = after ELSE DropFirst(Tail(cache), after)
  BY DEF Finish
<1> HIDE DEF after
<1>6. /\ cache' \in Seq(OwnEntry) /\ IsHistory(outcome')
      /\ \A c \in Clients : \A n \in 1..Sends[c] :
            outcome'[c][n] = "delivered" => after[c][n] = "delivered"
  <2>1. CASE ok
    BY <1>1, <1>3, <1>5, <2>1
  <2>2. CASE ~ok
    <3>1. DropFirst(Tail(cache), after)
      BY <1>5, <2>2
    <3>2. Tail(cache) \in Seq(OwnEntry) /\ IsHistory(after)
      BY <1>1, <1>3
    <3> QED
      BY <3>1, <3>2, DropFirstTyped
  <2> QED
    BY <2>1, <2>2
<1>7. /\ xpc' = "execute" /\ (UNCHANGED <<clientVars, listed>> \/ Expelled)
      /\ totalWaiting' \in [Clients -> Nat] /\ xreg' \in Nat
  BY DEF Finish, Step, clientVars, Inv, TypeOK
<1>8. Inv'
  BY <1>6, <1>7, RestKeepsInv
<1> QED
  BY <1>4, <1>6, <1>8

LEMMA FetchKeepsInv == Inv /\ Fetch => Inv'
<1> SUFFICES ASSUME Inv, Fetch PROVE Inv'
  OBVIOUS
<1>1. PICK k \in 1..Cardinality(waiting) :
          \E s \in [1..k -> waiting] : waiting' = waiting \ {s[i] : i \in 1..k} /\ cache' = s
  BY DEF Fetch, Batch
<1>2. Cardinality(waiting) \in Nat
  BY FS_CardinalityType DEF Inv
<1>3. waiting' \subseteq waiting /\ cache' \in Seq(OwnEntry)
  BY <1>1, <1>2 DEF Inv
<1> QED
  BY <1>3, RestKeepsInv DEF Inv, TypeOK, Fetch, Step, tableVars, clientVars

LEMMA UnknownStep ==
    ASSUME Inv, ExecuteUnknown
    PROVE  /\ Inv'
           /\ \A c \in Clients : \A n \in 1..Sends[c] :
                 outcome'[c][n] = "delivered" => outcome[c][n] = "delivered"
<1> DEFINE kept == {i \in 1..Len(cache) : cache[i].key # Head1.key}
           gone == {cache[i].cmd : i \in (1..Len(cache)) \ kept}
           what == [c \in Clients |-> [n \in 1..Sends[c] |->
                       IF <<c, n>> \in gone THEN "refused" ELSE outcome[c][n]]]
<1>1. PICK s \in InOrder(kept) : DropFirst([i \in DOMAIN s |-> cache[s[i]]], what)
  BY DEF ExecuteUnknown
<1> DEFINE q == [i \in DOMAIN s |-> cache[s[i]]]
<1>2. q \in Seq(OwnEntry)
  <2>1. s \in [1..Cardinality(kept) -> kept]
    BY DEF InOrder
  <2>2. cache \in Seq(OwnEntry)
    BY DEF Inv
  <2>3. Len(cache) \in Nat /\ IsFiniteSet(1..Len(cache))
    BY <2>2, FS_Interval
  <2>4. Cardinality(kept) \in Nat
    BY <2>3, FS_Subset, FS_CardinalityType
  <2>5. \A i \in kept : cache[i] \in OwnEntry
    BY <2>2
  <2> HIDE DEF kept
  <2> QED
    BY <2>1, <2>4, <2>5
<1>3. \A c \in Clients : \A n \in 1..Sends[c] :
          /\ what[c][n] \in Outcomes
          /\ what[c][n] = "delivered" => outcome[c][n] = "delivered"
  <2> HIDE DEF gone
  <2> QED
    BY DEF Inv, TypeOK, IsHistory, Outcomes
<1>4. IsHistory(what)
  <2>1. \A c \in Clients : what[c] \in [1..Sends[c] -> Outcomes]
    BY <1>3
  <2> QED
    BY <2>1 DEF IsHistory
<1> HIDE DEF q, what
<1>5. /\ cache' \in Seq(OwnEntry) /\ IsHistory(outcome')
      /\ \A c \in Clients : \A n \in 1..Sends[c] :
            outcome'[c][n] = "delivered" => what[c][n] = "delivered"
  <2>1. DropFirst(q, what)
    BY <1>1 DEF q
  <2> QED
    BY <1>2, <1>4, <2>1, DropFirstTyped
<1>6. Inv'
  BY <1>5, RestKeepsInv
     DEF Inv, TypeOK, ExecuteUnknown, Step, tableVars, clientVars
<1> QED
  BY <1>3, <1>5, <1>6

LEMMA KnownKeepsInv == Inv /\ ExecuteKnown => Inv'
BY DEF Inv, TypeOK, Busy, Present, LeavesNoHandle, ExecuteKnown, Head1, Step, clientVars, tableVars

LEMMA DecrementKeepsInv == Inv /\ Decrement => Inv'
BY HeadIsListed
   DEF Inv, TypeOK, Busy, Present, LeavesNoHandle, Decrement, StoreWaiting, Head1, Step, clientVars

LEMMA SettleKeepsInv == Inv /\ Settle => Inv'
<1> SUFFICES ASSUME Inv, Settle PROVE Inv'
  OBVIOUS
<1>1. /\ cache' \in Seq(OwnEntry)
      /\ totalWaiting' \in [Clients -> Nat] /\ xreg' \in Nat
  BY HeadIsListed DEF Settle, Step, StoreWaiting, Inv, TypeOK
<1> QED
  BY <1>1, RestKeepsInv DEF Settle, Step, Inv, TypeOK, clientVars

LEMMA RequeueKeepsInv ==
    ASSUME Inv, NEW e \in OwnEntry, e.key = Head1.key, Requeue(e)
    PROVE  Inv'
<1>1. e.key \in listed /\ e.key \in Clients /\ cache # <<>>
  BY HeadIsListed DEF Requeue, Step
<1>2. waiting' = waiting \cup {e} /\ IsFiniteSet(waiting')
  BY FS_AddElement DEF Requeue, QueueNewExecute, Inv
<1>3. e \in Entry
  BY OwnFields
<1> QED
  BY <1>1, <1>2, <1>3
     DEF Inv, TypeOK, Busy, Present, LeavesNoHandle, Requeue, Head1, Step, clientVars, tableVars

LEMMA RequeuedIsOwn ==
    ASSUME NEW e \in OwnEntry
    PROVE  /\ ForServer(e) \in OwnEntry /\ ForServer(e).key = e.key
           /\ Penalised(e).key = e.key
           /\ e.penalty + RequeuePenalty <= PenaltyMax => Penalised(e) \in OwnEntry
<1>1. e \in Entry /\ e.key \in {e.cmd[1], NoHandle} /\ e.penalty \in Int /\ e.penalty >= 0
  BY OwnFields DEF Entry
<1>2. ForServer(e) \in OwnEntry /\ ForServer(e).key = e.key /\ Penalised(e).key = e.key
  BY <1>1 DEF OwnEntry, Entry, ForServer, Penalised
<1>3. ASSUME e.penalty + RequeuePenalty <= PenaltyMax
      PROVE  Penalised(e) \in OwnEntry
  <2>1. e.penalty + RequeuePenalty \in 0..PenaltyMax
    BY <1>1, <1>3, FlowAssumption
  <2> QED
    BY <1>1, <2>1 DEF OwnEntry, Entry, Penalised
<1> QED
  BY <1>2, <1>3

\* What execute_single does with a command whose client it has found; only there
\* may a command be delivered.
LEMMA DeliverStep ==
    ASSUME Inv, Deliver
    PROVE  /\ Inv'
           /\ \A c \in Clients : \A n \in 1..Sends[c] :
                 outcome'[c][n] = "delivered" => outcome[c][n] = "delivered" \/ c \in listed
<1>1. exitFlag \in BOOLEAN
  BY DEF Inv, TypeOK
<1>2. CASE Forward
  BY <1>1, <1>2, FinishStep DEF Forward
<1>3. CASE ForwardFails
  BY <1>1, <1>3, FinishStep DEF ForwardFails
<1>4. CASE Execute
  BY <1>1, <1>4, FinishStep DEF Execute
<1>5. CASE ExecuteFails
  BY <1>1, <1>5, FinishStep DEF ExecuteFails
<1>6. CASE RequeueBusy
  <2>1. Penalised(Head1) \in OwnEntry /\ Penalised(Head1).key = Head1.key
    BY <1>6, HeadIsListed, RequeuedIsOwn DEF RequeueBusy, Deciding
  <2>2. Requeue(Penalised(Head1)) /\ outcome' = outcome
    BY <1>6 DEF RequeueBusy, Requeue
  <2>3. Inv'
    BY <2>1, <2>2, RequeueKeepsInv
  <2> QED
    BY <2>2, <2>3
<1>7. CASE RequeueReparsed
  <2>1. ForServer(Head1) \in OwnEntry /\ ForServer(Head1).key = Head1.key
    BY <1>7, HeadIsListed, RequeuedIsOwn DEF RequeueReparsed, Deciding
  <2>2. Requeue(ForServer(Head1)) /\ outcome' = outcome
    BY <1>7 DEF RequeueReparsed, Requeue
  <2>3. Inv'
    BY <2>1, <2>2, RequeueKeepsInv
  <2> QED
    BY <2>2, <2>3
<1>8. CASE Terminate
  <2>1. exitFlag' \in BOOLEAN
    BY <1>1, <1>8 DEF Terminate
  <2>2. PICK D \in SUBSET (listed \ (Critical \cup {Head1.key})) : \E K \in SUBSET D :
            /\ \A d \in D : pc[d] = "leaving" \/ (d \in K /\ pc[d] = "read")
            /\ listed' = listed \ D
            /\ pc' = [c \in Clients |-> IF c \in K THEN "killed" ELSE pc[c]]
    BY <1>8 DEF Terminate
  <2>3. pc \in [Clients -> {"read", "limit", "insert", "wake", "count", "counted",
                             "leaving", "gone", "killed"}]
    BY DEF Inv, TypeOK
  <2>4. UNCHANGED <<sent, reg>>
    BY <1>8 DEF Terminate, Finish
  <2>5. Expelled
    <3>1. pc' \in [Clients -> {"read", "limit", "insert", "wake", "count", "counted",
                              "leaving", "gone", "killed"}]
      BY <2>2, <2>3
    <3>2. ASSUME NEW c \in Clients
          PROVE  \/ pc'[c] = pc[c] /\ (c \in listed => c \in listed')
                 \/ c \notin listed' /\ pc'[c] \in {"leaving", "killed"}
      BY <2>2, <2>3
    <3>3. listed' \subseteq listed
      BY <2>2
    <3> QED
      BY <2>4, <3>1, <3>2, <3>3 DEF Expelled
  <2> QED
    BY <1>8, <2>1, <2>5, FinishStep DEF Terminate
<1> QED
  BY <1>2, <1>3, <1>4, <1>5, <1>6, <1>7, <1>8 DEF Deliver

-----------------------------------------------------------------------------

\* A stutter leaves everything as it is.
LEMMA StutterKeepsInv == Inv /\ UNCHANGED vars => Inv'
BY DEF Inv, TypeOK, Busy, Head1, Present, LeavesNoHandle, vars, clientVars, tableVars, execVars

LEMMA MovesKeepInv ==
    ASSUME Inv, LoopHead \/ Check \/ Sleep \/ SpuriousWakeup \/ ExecuteEnd
    PROVE  Inv'
<1>1. CASE LoopHead
  BY <1>1, MoveKeepsInv DEF LoopHead
<1>2. CASE Check
  BY <1>2, MoveKeepsInv DEF Check
<1>3. CASE Sleep
  BY <1>3, MoveKeepsInv DEF Sleep
<1>4. CASE SpuriousWakeup
  BY <1>4, MoveKeepsInv DEF SpuriousWakeup
<1>5. CASE ExecuteEnd
  BY <1>5, MoveKeepsInv DEF ExecuteEnd
<1> QED
  BY <1>1, <1>2, <1>3, <1>4, <1>5

LEMMA InvStep == Inv /\ [Next]_vars => Inv'
<1> SUFFICES ASSUME Inv, [Next]_vars PROVE Inv'
  OBVIOUS
<1>1. ASSUME NEW c \in Clients, Admit(c) \/ Refuse(c) \/ Proceed(c) \/ Leave(c)
      PROVE  Inv'
  BY <1>1, ClientKeepsInv, InsertKeepsInv, WakeKeepsInv, RemoveKeepsInv DEF Proceed
<1>2. CASE ExecuteThread
  BY <1>2, MovesKeepInv, FetchKeepsInv, UnknownStep, KnownKeepsInv, DecrementKeepsInv,
     DeliverStep, SettleKeepsInv DEF ExecuteThread
<1>3. CASE SpuriousWakeup
  BY <1>3, MovesKeepInv
<1>4. CASE UNCHANGED vars
  BY <1>4, StutterKeepsInv
<1> QED
  BY <1>1, <1>2, <1>3, <1>4 DEF Next

THEOREM Invariance == Spec => []Inv
BY InvInit, InvStep, PTL DEF Spec

(***************************************************************************)
(* Type correctness: penalties stay within PARAM_PENALTY_MAX however often *)
(* a command is queued again, counters never become negative, and the      *)
(* first command of the cache is there whenever it is used.                *)
(***************************************************************************)
THEOREM TypeCorrect == Spec => []TypeOK
<1>1. Inv => TypeOK
  BY DEF Inv
<1> QED
  BY <1>1, Invariance, PTL

(***************************************************************************)
(* A client that leaves by itself leaves no command with its handle.       *)
(***************************************************************************)
THEOREM QueueForgetsClients == Spec => []LeavesNoHandle
<1>1. Inv => LeavesNoHandle
  BY DEF Inv
<1> QED
  BY <1>1, Invariance, PTL

-----------------------------------------------------------------------------

\* Only the execution thread delivers, and only for a listed client.
LEMMA DeliveredStep ==
    ASSUME Inv, [Next]_vars, NEW c \in Clients, NEW n \in 1..Sends[c],
           outcome[c][n] = "open", outcome'[c][n] = "delivered"
    PROVE  c \in listed
<1>1. IsHistory(outcome) /\ sent \in [Clients -> Nat] /\ "open" # "delivered"
  BY DEF Inv, TypeOK
<1>2. outcome' # outcome
  BY <1>1
<1>3. ASSUME NEW d \in Clients, NEW m \in Nat, NEW w \in {"open", "refused"}, Become(d, m, w)
      PROVE  FALSE
  <2>1. w \in Outcomes /\ w # "delivered" /\ <<d, m>> \in Clients \X Nat
    BY DEF Outcomes
  <2>2. outcome'[c][n] = IF <<c, n>> = <<d, m>> THEN w ELSE outcome[c][n]
    BY <1>1, <1>3, <2>1, MarkedIsHistory DEF Become
  <2> QED
    BY <2>1, <2>2
<1>4. ASSUME NEW d \in Clients, Admit(d) \/ Refuse(d) \/ Proceed(d) \/ Leave(d)
      PROVE  FALSE
  <2>1. CASE Admit(d)
    BY <1>1, <1>3, <2>1 DEF Admit
  <2>2. CASE Refuse(d)
    BY <1>1, <1>3, <2>2 DEF Refuse
  <2>3. CASE FailLimit(d)
    BY <1>1, <1>3, <2>3 DEF FailLimit
  <2> QED
    BY <1>2, <1>4, <2>1, <2>2, <2>3
       DEF Proceed, PassLimit, Insert, Wake, LoadCount, StoreCount, Remove, Leave
<1>5. CASE Deliver
  BY <1>5, DeliverStep
<1>6. CASE ExecuteUnknown
  BY <1>6, UnknownStep
<1>7. CASE ExecuteThread /\ ~Deliver /\ ~ExecuteUnknown
  BY <1>2, <1>7
     DEF ExecuteThread, LoopHead, Check, Sleep, Fetch, ExecuteEnd, ExecuteKnown, Decrement, Settle
<1>8. CASE SpuriousWakeup \/ UNCHANGED vars
  BY <1>2, <1>8 DEF SpuriousWakeup, vars
<1> QED
  BY <1>4, <1>5, <1>6, <1>7, <1>8 DEF Next

(***************************************************************************)
(* No command is executed or forwarded for a client that has been removed, *)
(* although its commands may still be in the cache: the table is locked    *)
(* from the lookup of the client to the end of execute_single.             *)
(***************************************************************************)
THEOREM ServesListedOnly == Spec => OnlyForListed
<1>1. Inv /\ [Next]_vars =>
         [\A c \in Clients : \A n \in 1..Sends[c] :
             outcome[c][n] = "open" /\ outcome'[c][n] = "delivered" => c \in listed]_vars
  BY DeliveredStep
<1> QED
  BY <1>1, Invariance, PTL DEF Spec, OnlyForListed

-----------------------------------------------------------------------------

LEMMA CountsAreNat ==
    ASSUME Inv
    PROVE  /\ IsFiniteSet(Admitted) /\ Cardinality(Admitted) \in Nat
           /\ IsFiniteSet(Entering) /\ Cardinality(Entering) \in Nat
           /\ Cardinality(Entering) <= Cardinality(Clients)
           /\ Cardinality(Admitted) <= Cardinality(waiting)
           /\ Cardinality(waiting) \in Nat /\ Cardinality(Clients) \in Nat
<1>1. IsFiniteSet(waiting) /\ IsFiniteSet(Clients)
  BY FlowAssumption DEF Inv
<1>2. Admitted \in SUBSET waiting /\ Entering \in SUBSET Clients
  BY DEF Admitted, Entering
<1> QED
  BY <1>1, <1>2, FS_Subset, FS_CardinalityType

\* As long as no set gains an element, no sum of their sizes grows.
LEMMA BoundShrinks ==
    ASSUME Inv, Inv', AdmissionBound,
           Cardinality(Admitted') <= Cardinality(Admitted), Entering' \subseteq Entering
    PROVE  AdmissionBound'
<1>1. Cardinality(Entering') <= Cardinality(Entering)
  BY CountsAreNat, FS_Subset
<1>2. /\ Cardinality(Admitted) \in Nat /\ Cardinality(Entering) \in Nat
      /\ Cardinality(Clients) \in Nat /\ MaxCommands \in Nat
  BY CountsAreNat, FlowAssumption
<1>3. IsFiniteSet(Admitted') /\ IsFiniteSet(Entering')
  BY FS_Subset, FlowAssumption DEF Inv, Admitted, Entering
<1>4. Cardinality(Admitted') \in Nat /\ Cardinality(Entering') \in Nat
  BY <1>3, FS_CardinalityType
<1> QED
  BY <1>1, <1>2, <1>4 DEF AdmissionBound

LEMMA BoundKept ==
    ASSUME Inv, Inv', AdmissionBound, Admitted' \subseteq Admitted, Entering' \subseteq Entering
    PROVE  AdmissionBound'
BY CountsAreNat, FS_Subset, BoundShrinks

\* A thread that passes the test of max_commands saw less than max_commands in the
\* queue at that moment, whatever the others are about to do.
LEMMA PassLimitKeepsBound ==
    ASSUME Inv, Inv', NEW c \in Clients, PassLimit(c)
    PROVE  AdmissionBound'
<1>1. waiting' = waiting /\ Cardinality(waiting) < MaxCommands
  BY DEF PassLimit
<1>2. Admitted' = Admitted
  BY <1>1 DEF Admitted
<1>3. Entering' \in SUBSET Clients
  BY DEF Entering
<1>4. /\ Cardinality(Entering') \in Nat
      /\ Cardinality(Entering') <= Cardinality(Clients)
  BY <1>3, FlowAssumption, FS_Subset, FS_CardinalityType
<1> QED
  BY <1>1, <1>2, <1>4, CountsAreNat, FlowAssumption DEF AdmissionBound

LEMMA InsertKeepsBound ==
    ASSUME Inv, AdmissionBound, NEW c \in Clients, Insert(c)
    PROVE  AdmissionBound'
<1>1. Admitted' = Admitted \cup {Fresh(c)}
  BY DEF Admitted, Insert, QueueNewExecute, Fresh
<1>2. c \in Entering /\ Entering' = Entering \ {c}
  BY DEF Entering, Insert, Go, Inv, TypeOK
<1>3. /\ Cardinality(Admitted') \in Nat
      /\ Cardinality(Admitted') <= Cardinality(Admitted) + 1
  <2>1. IsFiniteSet(Admitted) /\ Cardinality(Admitted) \in Nat
    BY CountsAreNat
  <2>2. \/ Cardinality(Admitted') = Cardinality(Admitted)
        \/ Cardinality(Admitted') = Cardinality(Admitted) + 1
    BY <1>1, <2>1, FS_AddElement, Zenon
  <2> QED
    BY <2>1, <2>2
<1>4. Cardinality(Entering') = Cardinality(Entering) - 1
  BY <1>2, CountsAreNat, FS_RemoveElement
<1> QED
  BY <1>3, <1>4, CountsAreNat, FlowAssumption DEF AdmissionBound

LEMMA RemoveKeepsBound ==
    ASSUME Inv, Inv', AdmissionBound, NEW c \in Clients, Remove(c)
    PROVE  AdmissionBound'
<1> DEFINE f == [e \in Admitted |-> Cancelled(e, c)]
<1>1. waiting' = {Cancelled(e, c) : e \in waiting}
  BY DEF Remove
<1>2. \A e \in waiting : Cancelled(e, c).kind = e.kind
  BY CancelledIsOwn DEF Inv
<1>3. Admitted' = {Cancelled(e, c) : e \in Admitted}
  BY <1>1, <1>2 DEF Admitted
<1>4. f \in Surjection(Admitted, Admitted')
  BY <1>3 DEF Surjection
<1>5. Cardinality(Admitted') <= Cardinality(Admitted)
  BY <1>4, CountsAreNat, FS_Surjection
<1>6. Entering' \subseteq Entering
  BY DEF Entering, Remove, Go, Inv, TypeOK
<1> QED
  BY <1>5, <1>6, BoundShrinks

LEMMA BoundStep == Inv /\ AdmissionBound /\ [Next]_vars => AdmissionBound'
<1> SUFFICES ASSUME Inv, AdmissionBound, [Next]_vars PROVE AdmissionBound'
  OBVIOUS
<1>1. Inv'
  BY InvStep
<1>2. ASSUME NEW c \in Clients, Admit(c) \/ Refuse(c) \/ Proceed(c) \/ Leave(c)
      PROVE  AdmissionBound'
  <2>1. CASE PassLimit(c)
    BY <1>1, <2>1, PassLimitKeepsBound
  <2>2. CASE Insert(c)
    BY <2>2, InsertKeepsBound
  <2>3. CASE Remove(c)
    BY <1>1, <2>3, RemoveKeepsBound
  <2>4. ASSUME NEW from, NEW to \in {"read", "limit", "wake", "count", "counted", "leaving"},
               Go(c, from, to), UNCHANGED waiting
        PROVE  AdmissionBound'
    <3>1. Entering' \subseteq Entering /\ Admitted' \subseteq Admitted
      BY <2>4 DEF Entering, Admitted, Go, Inv, TypeOK
    <3> QED
      BY <1>1, <3>1, BoundKept
  <2>5. CASE Admit(c) \/ Refuse(c) \/ FailLimit(c) \/ Leave(c)
    BY <2>4, <2>5 DEF Admit, Refuse, FailLimit, Leave
  <2>6. CASE Wake(c) \/ LoadCount(c) \/ StoreCount(c)
    BY <2>4, <2>6 DEF Wake, LoadCount, StoreCount
  <2> QED
    BY <1>2, <2>1, <2>2, <2>3, <2>5, <2>6 DEF Proceed
<1>3. ASSUME Entering' \subseteq Entering, Admitted' \subseteq Admitted
      PROVE  AdmissionBound'
  BY <1>1, <1>3, BoundKept
<1>4. CASE ExecuteThread
  <2>1. Entering' \subseteq Entering
    <3>1. CASE Terminate
      BY <3>1 DEF Terminate, Entering
    <3>2. CASE ~Terminate
      BY <1>4, <3>2
         DEF Entering, ExecuteThread, Deliver, LoopHead, Check, Sleep, Fetch, ExecuteEnd,
         ExecuteUnknown, ExecuteKnown, Decrement, Settle, Forward, ForwardFails,
         RequeueBusy, RequeueReparsed, Requeue, Execute, ExecuteFails, clientVars
    <3> QED
      BY <3>1, <3>2
  <2>2. CASE RequeueBusy
    <3>1. waiting' = waiting \cup {Penalised(Head1)} /\ Head1 \in OwnEntry
      BY <2>2, HeadIsListed DEF RequeueBusy, Requeue, QueueNewExecute, Step
    <3>2. Penalised(Head1).kind # "sent"
      BY <3>1 DEF Penalised, OwnEntry, Entry
    <3> QED
      BY <1>3, <2>1, <3>1, <3>2 DEF Admitted
  <2>3. CASE RequeueReparsed
    <3>1. waiting' = waiting \cup {ForServer(Head1)} /\ Head1 \in OwnEntry
      BY <2>3, HeadIsListed DEF RequeueReparsed, Requeue, QueueNewExecute, Step
    <3>2. ForServer(Head1).kind # "sent"
      BY <3>1 DEF ForServer, OwnEntry, Entry
    <3> QED
      BY <1>3, <2>1, <3>1, <3>2 DEF Admitted
  <2>4. CASE ~RequeueBusy /\ ~RequeueReparsed
    <3>1. waiting' \subseteq waiting
      BY <1>4, <2>4 DEF ExecuteThread, Deliver, LoopHead, Check, Sleep, Fetch, ExecuteEnd,
         ExecuteUnknown, ExecuteKnown, Decrement, Settle, Forward, ForwardFails, Execute,
         Terminate, ExecuteFails
    <3> QED
      BY <1>3, <2>1, <3>1 DEF Admitted
  <2> QED
    BY <2>2, <2>3, <2>4
<1>5. CASE SpuriousWakeup \/ UNCHANGED vars
  BY <1>3, <1>5 DEF SpuriousWakeup, Admitted, Entering, vars, clientVars
<1> QED
  BY <1>2, <1>4, <1>5 DEF Next

(***************************************************************************)
(* How far the unlocked test of max_commands lets the queue grow: commands *)
(* that were not queued again exceed the limit by less than one for every  *)
(* client thread, for any number of them.                                  *)
(***************************************************************************)
THEOREM QueueIsBounded == Spec => []AdmissionBound
<1>1. Init => AdmissionBound
  <2> SUFFICES ASSUME Init PROVE AdmissionBound
    OBVIOUS
  <2>1. Admitted = {} /\ Entering = {}
    BY DEF Init, Admitted, Entering
  <2>2. Cardinality(Clients) \in Nat
    BY FlowAssumption, FS_CardinalityType
  <2> QED
    BY <2>1, <2>2, FS_EmptySet, FlowAssumption DEF AdmissionBound
<1> QED
  BY <1>1, Invariance, BoundStep, PTL DEF Spec

-----------------------------------------------------------------------------
(* What of the liveness of the flow can be said of single steps.            *)

\* The execution thread sleeps although it has to execute or to end, and nobody
\* is about to wake it.
Neglected == xpc = "asleep" /\ (exitFlag \/ waiting # {}) /\ \A c \in Clients : pc[c] # "wake"

(***************************************************************************)
(* The one way to oversleep a command, or the end of the server, is that   *)
(* it came between the thread's look and its wait: no step of a client or  *)
(* of a removal makes a sleeping execution thread one that is forgotten.   *)
(***************************************************************************)
OnlyMissedWakeups ==
    [][/\ ~Neglected /\ Neglected' => xpc = "block" /\ (exitFlag \/ waiting # {})
       /\ ~Overslept /\ Overslept' => xpc = "block" /\ waiting # {}]_vars

\* While the execution thread sleeps, what comes for it brings a wakeup along.
LEMMA SleepStep ==
    ASSUME Inv, [Next]_vars, xpc' = "asleep", xpc # "block"
    PROVE  /\ xpc = "asleep" /\ exitFlag' = exitFlag
           /\ waiting' # {} => waiting # {} \/ \E c \in Clients : pc'[c] = "wake"
           /\ \A c \in Clients : pc[c] = "wake" => pc'[c] = "wake"
<1> DEFINE Goal == /\ xpc = "asleep" /\ exitFlag' = exitFlag
                   /\ waiting' # {} => waiting # {} \/ \E c \in Clients : pc'[c] = "wake"
                   /\ \A c \in Clients : pc[c] = "wake" => pc'[c] = "wake"
<1>1. DOMAIN pc = Clients
  BY DEF Inv, TypeOK
<1>2. ASSUME NEW c \in Clients, Admit(c) \/ Refuse(c) \/ Proceed(c) \/ Leave(c)
      PROVE  Goal
  <2>1. CASE Insert(c)
    BY <1>1, <2>1 DEF Insert, Go
  <2>2. CASE Wake(c)
    BY <2>2 DEF Wake, Woken
  <2>3. CASE Remove(c)
    <3>1. /\ pc[c] = "leaving" /\ pc' = [pc EXCEPT ![c] = "gone"]
          /\ waiting' = {Cancelled(e, c) : e \in waiting}
          /\ (exitFlag' = TRUE /\ xpc' = Woken) \/ UNCHANGED <<exitFlag, xpc>>
      BY <2>3 DEF Remove, Go
    <3> QED
      BY <1>1, <3>1 DEF Woken
  <2>4. CASE Admit(c) \/ Refuse(c) \/ Leave(c)
    BY <1>1, <2>4 DEF Admit, Refuse, Leave, Go
  <2>5. CASE PassLimit(c) \/ FailLimit(c) \/ LoadCount(c) \/ StoreCount(c)
    BY <1>1, <2>5 DEF PassLimit, FailLimit, LoadCount, StoreCount, Go
  <2> QED
    BY <1>2, <2>1, <2>2, <2>3, <2>4, <2>5 DEF Proceed
<1>3. CASE ExecuteThread
  BY <1>3 DEF ExecuteThread, LoopHead, Check, Sleep, Fetch, ExecuteEnd, ExecuteUnknown,
     ExecuteKnown, Decrement, Deliver, Settle, Step, Forward, ForwardFails, RequeueBusy,
     RequeueReparsed, Requeue, Execute, Terminate, ExecuteFails, Finish
<1>4. CASE SpuriousWakeup
  BY <1>4 DEF SpuriousWakeup, Step
<1>5. CASE UNCHANGED vars
  BY <1>5 DEF vars, clientVars
<1> QED
  BY <1>2, <1>3, <1>4, <1>5 DEF Next

LEMMA BlockStep ==
    ASSUME Inv, [Next]_vars, xpc' = "asleep", xpc = "block"
    PROVE  UNCHANGED <<exitFlag, waiting>>
<1>1. ASSUME NEW c \in Clients, Admit(c) \/ Refuse(c) \/ Proceed(c) \/ Leave(c)
      PROVE  FALSE
  BY <1>1 DEF Admit, Refuse, Proceed, Leave, PassLimit, FailLimit, Insert, Wake, LoadCount,
     StoreCount, Remove, Woken
<1>2. CASE ExecuteThread
  BY <1>2 DEF ExecuteThread, LoopHead, Check, Sleep, Fetch, ExecuteEnd, ExecuteUnknown,
     ExecuteKnown, Decrement, Deliver, Settle, Step, Forward, ForwardFails, RequeueBusy,
     RequeueReparsed, Requeue, Execute, Terminate, ExecuteFails, Finish
<1>3. CASE SpuriousWakeup \/ UNCHANGED vars
  BY <1>3 DEF SpuriousWakeup, Step, vars
<1> QED
  BY <1>1, <1>2, <1>3 DEF Next

\* Nobody but the unlocked window before the wait makes the execution thread
\* oversleep a command or the end of the server.
THEOREM OversleepsOnlyTheWindow == Spec => OnlyMissedWakeups
<1>1. ASSUME Inv, [Next]_vars, ~Neglected, Neglected'
      PROVE  xpc = "block" /\ (exitFlag \/ waiting # {})
  <2>1. xpc' = "asleep"
    BY <1>1 DEF Neglected
  <2>2. CASE xpc = "block"
    BY <1>1, <2>1, <2>2, BlockStep DEF Neglected
  <2>3. CASE xpc # "block"
    BY <1>1, <2>1, <2>3, SleepStep DEF Neglected
  <2> QED
    BY <2>2, <2>3
<1>2. ASSUME Inv, [Next]_vars, ~Overslept, Overslept'
      PROVE  xpc = "block" /\ waiting # {}
  <2>1. xpc' = "asleep"
    BY <1>2 DEF Overslept
  <2>2. CASE xpc = "block"
    BY <1>2, <2>1, <2>2, BlockStep DEF Overslept
  <2>3. CASE xpc # "block"
    BY <1>2, <2>1, <2>3, SleepStep DEF Overslept
  <2> QED
    BY <2>2, <2>3
<1>3. Inv /\ [Next]_vars =>
         [/\ ~Neglected /\ Neglected' => xpc = "block" /\ (exitFlag \/ waiting # {})
          /\ ~Overslept /\ Overslept' => xpc = "block" /\ waiting # {}]_vars
  BY <1>1, <1>2
<1> QED
  BY <1>3, Invariance, PTL DEF Spec, OnlyMissedWakeups

-----------------------------------------------------------------------------

\* How often a command may still be queued again, at most: a busy target costs a
\* penalty, and a command that was reparsed is one for the server.
Patience(e) == CASE e.kind = "server"  -> 0
                 [] e.kind = "forward" -> 1 + (PenaltyMax - e.penalty)
                 [] e.kind = "sent"    -> 2 + (PenaltyMax - e.penalty)

(***************************************************************************)
(* Queueing again comes to an end: what is new in the queue was sent, was  *)
(* cancelled, or is the command just executed with less patience left.     *)
(***************************************************************************)
RequeueingEnds ==
    [][\A e \in waiting' \ waiting :
          \/ \E c \in Clients : pc[c] = "insert" /\ e = Fresh(c)
          \/ \E c \in Clients : \E f \in waiting : pc[c] = "leaving" /\ e = Cancelled(f, c)
          \/ /\ cache # <<>> /\ e.cmd = Head1.cmd /\ e.key = Head1.key
             /\ Patience(e) \in Nat /\ Patience(e) < Patience(Head1)]_vars

LEMMA PatienceIsNat ==
    ASSUME NEW e \in OwnEntry
    PROVE  Patience(e) \in Nat
<1>1. e.penalty \in 0..PenaltyMax /\ PenaltyMax \in Nat /\ e.kind \in {"sent", "server", "forward"}
  BY OwnFields, FlowAssumption
<1>2. PenaltyMax - e.penalty \in Nat
  BY <1>1
<1> QED
  BY <1>1, <1>2 DEF Patience

LEMMA RequeuedHasLess ==
    ASSUME NEW e \in OwnEntry, e.kind \in {"sent", "forward"}
    PROVE  /\ ForServer(e).cmd = e.cmd /\ Patience(ForServer(e)) < Patience(e)
           /\ e.penalty + RequeuePenalty <= PenaltyMax =>
                 Penalised(e).cmd = e.cmd /\ Patience(Penalised(e)) < Patience(e)
<1>1. /\ e.penalty \in Nat /\ e.penalty <= PenaltyMax
      /\ PenaltyMax \in Nat /\ RequeuePenalty \in Nat /\ RequeuePenalty > 0
  BY OwnFields, FlowAssumption
<1>2. /\ ForServer(e).cmd = e.cmd /\ ForServer(e).kind = "server"
      /\ Penalised(e).cmd = e.cmd /\ Penalised(e).kind = "forward"
      /\ Penalised(e).penalty = e.penalty + RequeuePenalty
  BY DEF OwnEntry, Entry, ForServer, Penalised
<1>3. /\ Patience(e) = (IF e.kind = "sent" THEN 2 ELSE 1) + (PenaltyMax - e.penalty)
      /\ Patience(ForServer(e)) = 0
      /\ Patience(Penalised(e)) = 1 + (PenaltyMax - (e.penalty + RequeuePenalty))
  BY <1>2 DEF Patience
<1> QED
  BY <1>1, <1>2, <1>3

LEMMA NewInQueue ==
    ASSUME Inv, [Next]_vars, NEW e \in waiting', e \notin waiting
    PROVE  \/ \E c \in Clients : pc[c] = "insert" /\ e = Fresh(c)
           \/ \E c \in Clients : \E f \in waiting : pc[c] = "leaving" /\ e = Cancelled(f, c)
           \/ /\ cache # <<>> /\ e.cmd = Head1.cmd /\ e.key = Head1.key
              /\ Patience(e) \in Nat /\ Patience(e) < Patience(Head1)
<1>1. waiting' # waiting
  OBVIOUS
<1>2. ASSUME NEW c \in Clients, Admit(c) \/ Refuse(c) \/ Proceed(c) \/ Leave(c)
      PROVE  \/ pc[c] = "insert" /\ e = Fresh(c)
             \/ \E f \in waiting : pc[c] = "leaving" /\ e = Cancelled(f, c)
  <2>1. Insert(c) \/ Remove(c)
    BY <1>1, <1>2 DEF Admit, Refuse, Proceed, Leave, PassLimit, FailLimit, Wake, LoadCount,
       StoreCount
  <2>2. CASE Insert(c)
    BY <2>2 DEF Insert, Go, QueueNewExecute
  <2>3. CASE Remove(c)
    BY <2>3 DEF Remove, Go
  <2> QED
    BY <2>1, <2>2, <2>3
<1>3. CASE ExecuteThread
  <2>1. ASSUME RequeueBusy \/ RequeueReparsed
        PROVE  /\ xpc = "deliver" /\ Head1.kind \in {"sent", "forward"}
               /\ waiting' = waiting \cup {ForServer(Head1)}
                  \/ /\ waiting' = waiting \cup {Penalised(Head1)}
                     /\ Head1.penalty + RequeuePenalty <= PenaltyMax
    BY <2>1 DEF RequeueBusy, RequeueReparsed, Requeue, Deciding, QueueNewExecute
  <2>2. CASE RequeueBusy \/ RequeueReparsed
    <3>1. cache # <<>> /\ Head1 \in OwnEntry /\ xpc = "deliver" /\ Head1.kind \in {"sent", "forward"}
      BY <2>1, <2>2, HeadIsListed
    <3>2. \/ e = ForServer(Head1)
          \/ e = Penalised(Head1) /\ Head1.penalty + RequeuePenalty <= PenaltyMax
      BY <2>1, <2>2
    <3>3. e.key = Head1.key
      BY <3>1, <3>2 DEF ForServer, Penalised, OwnEntry, Entry
    <3>4. e.cmd = Head1.cmd /\ Patience(e) < Patience(Head1)
      BY <3>1, <3>2, RequeuedHasLess
    <3>5. e \in OwnEntry
      BY <3>1, <3>2, RequeuedIsOwn
    <3>6. Patience(e) \in Nat
      BY <3>5, PatienceIsNat
    <3> QED
      BY <3>1, <3>3, <3>4, <3>6
  <2>3. CASE Fetch
    BY <2>3 DEF Fetch
  <2> QED
    BY <1>1, <1>3, <2>2, <2>3 DEF ExecuteThread, LoopHead, Check, Sleep, ExecuteEnd,
       ExecuteUnknown, ExecuteKnown, Decrement, Deliver, Settle, Forward, ForwardFails, Execute,
       Terminate, ExecuteFails
<1>4. CASE SpuriousWakeup \/ UNCHANGED vars
  BY <1>1, <1>4 DEF SpuriousWakeup, vars
<1> QED
  BY <1>2, <1>3, <1>4 DEF Next

\* Every copy that queueing again puts into the queue has strictly less patience
\* than the command it copies, and patience never falls below zero.
THEOREM RequeueingDescends == Spec => RequeueingEnds
<1>1. Inv /\ [Next]_vars =>
         [\A e \in waiting' \ waiting :
             \/ \E c \in Clients : pc[c] = "insert" /\ e = Fresh(c)
             \/ \E c \in Clients : \E f \in waiting : pc[c] = "leaving" /\ e = Cancelled(f, c)
             \/ /\ cache # <<>> /\ e.cmd = Head1.cmd /\ e.key = Head1.key
                /\ Patience(e) \in Nat /\ Patience(e) < Patience(Head1)]_vars
  BY NewInQueue
<1> QED
  BY <1>1, Invariance, PTL DEF Spec, RequeueingEnds

-----------------------------------------------------------------------------
(* The refinement of ClientLife.                                            *)

\* A thread that handles a command serves; one that is cancelled is done.
LifeOf(place) == CASE place = "leaving" -> "leaving"
                   [] place \in {"gone", "killed"} -> "done"
                   [] OTHER -> "serving"

Lives == [c \in Clients |-> LifeOf(pc[c])]

Life == INSTANCE ClientLife WITH life <- Lives

\* Here removal and termination are steps; what a client may rely on is the same as
\* where they are taken apart: it is listed as long as its thread works for it, and
\* nobody takes it from the table whose thread goes on.
ImplementsLife == Life!Spec

LEMMA LifeAt ==
    ASSUME NEW c \in Clients
    PROVE  /\ pc[c] = "leaving" => Lives[c] = "leaving"
           /\ pc[c] \in {"gone", "killed"} => Lives[c] = "done"
           /\ pc[c] \notin {"leaving", "gone", "killed"} => Lives[c] = "serving"
BY DEF Lives, LifeOf

LEMMA LifeThen ==
    ASSUME NEW c \in Clients
    PROVE  /\ pc'[c] = "leaving" => Lives'[c] = "leaving"
           /\ pc'[c] \in {"gone", "killed"} => Lives'[c] = "done"
           /\ pc'[c] \notin {"leaving", "gone", "killed"} => Lives'[c] = "serving"
           /\ pc'[c] = pc[c] => Lives'[c] = Lives[c]
BY DEF Lives, LifeOf

LEMMA LivesIsFunction == Lives = [c \in Clients |-> Lives[c]] /\ Lives' = [c \in Clients |-> Lives'[c]]
BY DEF Lives

\* A client's thread that receives, queues and counts still serves.
LEMMA WorkRefines ==
    ASSUME TypeOK, NEW c \in Clients,
           \/ Admit(c) \/ Refuse(c) \/ PassLimit(c) \/ FailLimit(c)
           \/ Insert(c) \/ Wake(c) \/ LoadCount(c) \/ StoreCount(c)
    PROVE  UNCHANGED Life!lifeVars
<1> DEFINE Working == {"read", "limit", "insert", "wake", "count", "counted"}
<1>1. listed' = listed
  BY DEF Admit, Refuse, PassLimit, FailLimit, Insert, Wake, LoadCount, StoreCount, tableVars
<1>2. \E to \in Working : pc[c] \in Working /\ pc' = [pc EXCEPT ![c] = to]
  BY DEF Admit, Refuse, PassLimit, FailLimit, Insert, Wake, LoadCount, StoreCount, Go
<1>3. pc[c] \in Working /\ pc'[c] \in Working /\ \A d \in Clients \ {c} : pc'[d] = pc[d]
  BY <1>2 DEF TypeOK
<1>4. \A d \in Clients : Lives'[d] = Lives[d]
  BY <1>3, LifeAt, LifeThen
<1>5. Lives' = Lives
  BY <1>4, LivesIsFunction
<1> QED
  BY <1>1, <1>5 DEF Life!lifeVars

LEMMA LeaveRefines ==
    ASSUME TypeOK, NEW c \in Clients, Leave(c)
    PROVE  Life!Leave(c)
<1>1. pc[c] = "read" /\ pc' = [pc EXCEPT ![c] = "leaving"] /\ listed' = listed
  BY DEF Leave, Go, tableVars
<1>2. pc'[c] = "leaving" /\ \A d \in Clients \ {c} : pc'[d] = pc[d]
  BY <1>1 DEF TypeOK
<1>3. Lives[c] = "serving"
  BY <1>1, LifeAt
<1>4. Lives' = [Lives EXCEPT ![c] = "leaving"]
  BY <1>2, LifeThen, LivesIsFunction
<1> QED
  BY <1>1, <1>3, <1>4 DEF Life!Leave

LEMMA RemoveRefines ==
    ASSUME TypeOK, NEW c \in Clients, Remove(c)
    PROVE  Life!Withdraw(c)
<1>1. pc[c] = "leaving" /\ pc' = [pc EXCEPT ![c] = "gone"]
  BY DEF Remove, Go
<1>2. pc'[c] = "gone" /\ \A d \in Clients \ {c} : pc'[d] = pc[d]
  BY <1>1 DEF TypeOK
<1>3. Lives[c] = "leaving"
  BY <1>1, LifeAt
<1>4. Lives' = [Lives EXCEPT ![c] = "done"]
  BY <1>2, LifeThen, LivesIsFunction
<1>5. listed' \in {listed, listed \ {c}}
  BY DEF Remove
<1> QED
  BY <1>3, <1>4, <1>5 DEF Life!Withdraw

LEMMA TerminateRefines ==
    ASSUME TypeOK, Terminate
    PROVE  \E D \in SUBSET listed : \E K \in SUBSET D : Life!Terminate(D, K)
<1> DEFINE Takes(D, K) == /\ \A d \in D : pc[d] = "leaving" \/ (d \in K /\ pc[d] = "read")
                          /\ listed' = listed \ D
                          /\ pc' = [c \in Clients |-> IF c \in K THEN "killed" ELSE pc[c]]
<1>0. PICK D \in SUBSET listed : \E K \in SUBSET D : Takes(D, K)
  BY DEF Terminate
<1>1. PICK K \in SUBSET D : Takes(D, K)
  BY <1>0
<1>2. \A d \in D \ K : Lives[d] = "leaving"
  BY <1>1, LifeAt DEF TypeOK
<1>3. \A c \in Clients : pc'[c] = IF c \in K THEN "killed" ELSE pc[c]
  BY <1>1
<1>4. \A c \in Clients : Lives'[c] = IF c \in K THEN "done" ELSE Lives[c]
  BY <1>3, LifeThen
<1>5. Lives' = [c \in Clients |-> IF c \in K THEN "done" ELSE Lives[c]]
  BY <1>4, LivesIsFunction
<1>6. Life!Terminate(D, K)
  BY <1>1, <1>2, <1>5 DEF Life!Terminate
<1> QED
  BY <1>6

\* The execution thread touches neither threads nor the table but for Terminate.
LEMMA ExecutionRefines ==
    ASSUME \/ LoopHead \/ Check \/ Sleep \/ Fetch \/ ExecuteEnd \/ ExecuteUnknown
           \/ ExecuteKnown \/ Decrement \/ Forward \/ ForwardFails \/ RequeueBusy
           \/ RequeueReparsed \/ Execute \/ ExecuteFails \/ Settle
           \/ SpuriousWakeup \/ UNCHANGED vars
    PROVE  UNCHANGED Life!lifeVars
<1>1. UNCHANGED <<pc, listed>>
  BY DEF LoopHead, Check, Sleep, Fetch, ExecuteEnd, ExecuteUnknown, ExecuteKnown, Decrement,
     Forward, ForwardFails, RequeueBusy, RequeueReparsed, Requeue, Execute, ExecuteFails, Settle,
     SpuriousWakeup, vars, clientVars, tableVars
<1>2. Lives' = Lives
  BY <1>1 DEF Lives
<1> QED
  BY <1>1, <1>2 DEF Life!lifeVars

\* The way of a command through the server treats its clients as ClientLife says.
THEOREM FlowImplementsLife == Spec => ImplementsLife
<1>1. Init => Life!Init
  <2> SUFFICES ASSUME Init PROVE Life!Init
    OBVIOUS
  <2>1. \A c \in Clients : pc[c] = "read"
    BY DEF Init
  <2>2. \A c \in Clients : Lives[c] = "serving"
    BY <2>1, LifeAt
  <2>3. Lives \in [Clients -> {"unborn", "serving"}]
    BY <2>2, LivesIsFunction
  <2>4. listed = {c \in Clients : Lives[c] = "serving"}
    BY <2>2 DEF Init
  <2> QED
    BY <2>3, <2>4 DEF Life!Init
<1>2. TypeOK /\ [Next]_vars => [Life!Next]_(Life!lifeVars)
  <2> SUFFICES ASSUME TypeOK, [Next]_vars PROVE Life!Next \/ UNCHANGED Life!lifeVars
    OBVIOUS
  <2>1. ASSUME NEW c \in Clients, Admit(c) \/ Refuse(c) \/ Proceed(c) \/ Leave(c)
        PROVE  Life!Next \/ UNCHANGED Life!lifeVars
    <3>1. CASE Leave(c)
      BY <3>1, LeaveRefines DEF Life!Next
    <3>2. CASE Remove(c)
      BY <3>2, RemoveRefines DEF Life!Next
    <3>3. CASE ~Leave(c) /\ ~Remove(c)
      BY <2>1, <3>3, WorkRefines DEF Proceed
    <3> QED
      BY <3>1, <3>2, <3>3
  <2>2. CASE Terminate
    BY <2>2, TerminateRefines DEF Life!Next
  <2>3. CASE (ExecuteThread /\ ~Terminate) \/ SpuriousWakeup \/ UNCHANGED vars
    BY <2>3, ExecutionRefines DEF ExecuteThread, Deliver
  <2> QED
    BY <2>1, <2>2, <2>3 DEF Next
<1> QED
  BY <1>1, <1>2, TypeCorrect, PTL DEF Spec, ImplementsLife, Life!Spec

\* The step of the abstract specification.
LEMMA LifeStep ==
    ASSUME Life!ServersListed, [Life!Next]_(Life!lifeVars)
    PROVE  /\ Life!ServersListed'
           /\ \A c \in Clients : Lives[c] # "unborn" =>
                 /\ c \in listed' => c \in listed
                 /\ Lives'[c] = "serving" => Lives[c] = "serving"
<1> DEFINE life == Lives
<1>1. /\ life \in [Clients -> {"unborn", "serving", "leaving", "done"}]
      /\ \A c \in Clients : life[c] = "serving" => c \in listed
  BY DEF Life!ServersListed
<1>2. \/ UNCHANGED <<life, listed>>
      \/ \E c \in Clients : Life!Attach(c) \/ Life!Leave(c) \/ Life!Withdraw(c)
      \/ \E D \in SUBSET listed : \E K \in SUBSET D : Life!Terminate(D, K)
  BY DEF Life!Next, Life!lifeVars
<1> SUFFICES /\ life' \in [Clients -> {"unborn", "serving", "leaving", "done"}]
             /\ \A c \in Clients : life'[c] = "serving" => c \in listed'
             /\ \A c \in Clients : life[c] # "unborn" =>
                   /\ c \in listed' => c \in listed
                   /\ life'[c] = "serving" => life[c] = "serving"
  BY DEF Life!ServersListed
<1>3. CASE UNCHANGED <<life, listed>>
  <2>1. life' = life /\ listed' = listed
    BY <1>3
  <2> HIDE DEF life
  <2> QED
    BY <1>1, <2>1
<1>4. ASSUME NEW c \in Clients, Life!Attach(c)
      PROVE  /\ life[c] = "unborn" /\ life' = [life EXCEPT ![c] = "serving"]
             /\ listed' = listed \cup {c}
  BY <1>4 DEF Life!Attach
<1>5. ASSUME NEW c \in Clients, Life!Leave(c)
      PROVE  life' = [life EXCEPT ![c] = "leaving"] /\ listed' = listed
  BY <1>5 DEF Life!Leave
<1>6. ASSUME NEW c \in Clients, Life!Withdraw(c)
      PROVE  life' = [life EXCEPT ![c] = "done"] /\ listed' \in {listed, listed \ {c}}
  BY <1>6 DEF Life!Withdraw
<1>7. ASSUME NEW D \in SUBSET listed, NEW K \in SUBSET D, Life!Terminate(D, K)
      PROVE  /\ \A c \in D \ K : life[c] \in {"leaving", "done"}
             /\ life' = [c \in Clients |-> IF c \in K THEN "done" ELSE life[c]]
             /\ listed' = listed \ D
  BY <1>7 DEF Life!Terminate
<1>8. ASSUME NEW c \in Clients, Life!Attach(c) \/ Life!Leave(c) \/ Life!Withdraw(c)
      PROVE  \/ /\ life[c] = "unborn" /\ life' = [life EXCEPT ![c] = "serving"]
                /\ listed' = listed \cup {c}
             \/ life' = [life EXCEPT ![c] = "leaving"] /\ listed' = listed
             \/ life' = [life EXCEPT ![c] = "done"] /\ listed' \in {listed, listed \ {c}}
  BY <1>4, <1>5, <1>6, <1>8
<1> HIDE DEF life
<1>9. CASE \E c \in Clients : Life!Attach(c) \/ Life!Leave(c) \/ Life!Withdraw(c)
  BY <1>1, <1>8, <1>9
<1>10. CASE \E D \in SUBSET listed : \E K \in SUBSET D : Life!Terminate(D, K)
  <2>1. PICK D \in SUBSET listed : \E K \in SUBSET D : Life!Terminate(D, K)
    BY <1>10
  <2>2. PICK K \in SUBSET D : Life!Terminate(D, K)
    BY <2>1
  <2>3. /\ \A c \in D \ K : life[c] \in {"leaving", "done"}
        /\ life' = [c \in Clients |-> IF c \in K THEN "done" ELSE life[c]]
        /\ listed' = listed \ D
    BY <1>7, <2>2
  <2>4. \A c \in Clients : life'[c] = IF c \in K THEN "done" ELSE life[c]
    BY <2>3
  <2>5. life' \in [Clients -> {"unborn", "serving", "leaving", "done"}]
    BY <1>1, <2>3
  <2>6. \A c \in Clients : life'[c] = "serving" => life[c] = "serving" /\ c \notin D
    BY <2>3, <2>4
  <2> QED
    BY <1>1, <2>3, <2>5, <2>6
<1> QED
  BY <1>2, <1>3, <1>9, <1>10

\* A client whose thread still handles commands is listed, one that left or was
\* terminated is never listed again, and no thread serves twice.
THEOREM ClientsLiveOnce == Spec => []Life!ServersListed /\ Life!NoReturn
<1>1. Life!Init => Life!ServersListed
  BY DEF Life!Init, Life!ServersListed
<1>2. Life!ServersListed /\ [Life!Next]_(Life!lifeVars) => Life!ServersListed'
  BY LifeStep
<1>3. Life!ServersListed /\ [Life!Next]_(Life!lifeVars) =>
         [\A c \in Clients : Lives[c] # "unborn" =>
             /\ c \in listed' => c \in listed
             /\ Lives'[c] = "serving" => Lives[c] = "serving"]_(Life!lifeVars)
  BY LifeStep
<1> QED
  BY <1>1, <1>2, <1>3, FlowImplementsLife, PTL DEF ImplementsLife, Life!Spec, Life!NoReturn

=============================================================================
