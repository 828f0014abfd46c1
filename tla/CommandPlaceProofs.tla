------------------------- MODULE CommandPlaceProofs -------------------------
(***************************************************************************)
(* The proof that every command of CommandFlow is in one place at a time,  *)
(* on top of the invariant of CommandFlowProofs.  OnePlace counts; here it *)
(* is said without counting: the entries of the queue, of the cache and of *)
(* the threads' hands are of different commands, and these are the open    *)
(* ones.                                                                   *)
(***************************************************************************)
EXTENDS CommandFlowProofs

\* The commands of the entries of a sequence, and that they are different.
Cmds(q) == {q[i].cmd : i \in 1..Len(q)}
Distinct(q) == \A i, j \in 1..Len(q) : q[i].cmd = q[j].cmd => i = j

\* Where commands are.  While one is queued again its original does not count.
Queued == {e.cmd : e \in waiting}
Cached == IF xpc = "settle" THEN Cmds(Tail(cache)) ELSE Cmds(cache)
Hands  == {InHand(c) : c \in {d \in Clients : pc[d] \in {"limit", "insert"}}}

\* The open commands of a history, and that those not yet sent are unsent.
OpenIn(o) == {x \in Clients \X Nat : x[2] \in 1..Sends[x[1]] /\ o[x[1]][x[2]] = "open"}
Later(o) == \A c \in Clients : \A n \in 1..Sends[c] : n > sent[c] => o[c][n] = "unsent"

\* The inductive invariant, with Inv.
Apart == /\ \A e, f \in waiting : e.cmd = f.cmd => e = f
         /\ Distinct(cache)
         /\ Queued \cap Cached = {}
         /\ Queued \cap Hands = {}
         /\ Cached \cap Hands = {}

Single == /\ Apart
          /\ OpenIn(outcome) = Queued \cup Cached \cup Hands
          /\ Later(outcome)

-----------------------------------------------------------------------------
(* Sequences and histories.                                                *)

LEMMA TailCmds ==
    ASSUME NEW q \in Seq(OwnEntry), q # <<>>, Distinct(q)
    PROVE  /\ Distinct(Tail(q))
           /\ Cmds(Tail(q)) = Cmds(q) \ {Head(q).cmd}
           /\ Head(q).cmd \in Cmds(q)
<1>1. /\ Len(q) \in Nat /\ Len(q) >= 1 /\ Len(Tail(q)) = Len(q) - 1
      /\ \A i \in 1..Len(Tail(q)) : Tail(q)[i] = q[i + 1] /\ i + 1 \in 1..Len(q)
      /\ Head(q) = q[1] /\ 1 \in 1..Len(q)
  OBVIOUS
<1>2. Distinct(Tail(q))
  BY <1>1 DEF Distinct
<1>3. \A x \in Cmds(Tail(q)) : x \in Cmds(q) \ {Head(q).cmd}
  BY <1>1 DEF Cmds, Distinct
<1>4. ASSUME NEW x \in Cmds(q), x # Head(q).cmd
      PROVE  x \in Cmds(Tail(q))
  <2>1. PICK i \in 1..Len(q) : x = q[i].cmd
    BY DEF Cmds
  <2>2. i # 1
    BY <1>1, <1>4, <2>1
  <2>3. i - 1 \in 1..Len(Tail(q)) /\ Tail(q)[i - 1] = q[i]
    BY <1>1, <2>2
  <2> QED
    BY <2>1, <2>3 DEF Cmds
<1> QED
  BY <1>1, <1>2, <1>3, <1>4 DEF Cmds

LEMMA CmdsType ==
    ASSUME NEW q \in Seq(OwnEntry)
    PROVE  Cmds(q) \subseteq Clients \X Nat
BY OwnFields DEF Cmds

\* The cached commands by position.
LEMMA CachedCmds ==
    ASSUME Inv, Apart
    PROVE  /\ xpc # "settle" => Cached = Cmds(cache)
           /\ xpc = "settle" => Cached = Cmds(cache) \ {Head1.cmd}
<1>1. cache \in Seq(OwnEntry) /\ Distinct(cache)
  BY DEF Inv, Apart
<1>2. ASSUME xpc = "settle" PROVE cache # <<>>
  BY <1>2 DEF Inv, Busy
<1> QED
  BY <1>1, <1>2, TailCmds DEF Cached, Head1

LEMMA MarkedOpen ==
    ASSUME NEW o, IsHistory(o), NEW cmd \in Clients \X Nat, NEW w \in Outcomes
    PROVE  /\ w # "open" => OpenIn(Marked(o, cmd, w)) = OpenIn(o) \ {cmd}
           /\ w = "open" /\ cmd[2] \in 1..Sends[cmd[1]] =>
                 OpenIn(Marked(o, cmd, w)) = OpenIn(o) \cup {cmd}
<1>1. \A c \in Clients : \A n \in 1..Sends[c] :
          Marked(o, cmd, w)[c][n] = IF <<c, n>> = cmd THEN w ELSE o[c][n]
  BY MarkedIsHistory
<1>2. \A x \in Clients \X Nat : x = <<x[1], x[2]>> /\ x[1] \in Clients
  OBVIOUS
<1> QED
  BY <1>1, <1>2 DEF OpenIn

\* A command that is open has been sent, and closing it does not unsend another.
LEMMA ClosedLater ==
    ASSUME TypeOK, NEW o, IsHistory(o), Later(o), NEW cmd \in OpenIn(o), NEW w \in Outcomes
    PROVE  Later(Marked(o, cmd, w))
<1>1. cmd \in Clients \X Nat
  BY DEF OpenIn
<1>2. \A c \in Clients : \A n \in 1..Sends[c] :
          Marked(o, cmd, w)[c][n] = IF <<c, n>> = cmd THEN w ELSE o[c][n]
  BY <1>1, MarkedIsHistory
<1>3. \A c \in Clients : \A n \in 1..Sends[c] : <<c, n>> = cmd => ~(n > sent[c])
  BY DEF OpenIn, Later
<1> QED
  BY <1>2, <1>3 DEF Later

\* remove_single in a history where the commands of the sequence are open.
LEMMA DropFirstOpen ==
    ASSUME TypeOK, NEW q \in Seq(OwnEntry), NEW o, IsHistory(o), Later(o),
           Distinct(q), Cmds(q) \subseteq OpenIn(o), DropFirst(q, o)
    PROVE  /\ cache' \in Seq(OwnEntry) /\ Distinct(cache')
           /\ Cmds(cache') \subseteq Cmds(q)
           /\ OpenIn(outcome') = OpenIn(o) \ (Cmds(q) \ Cmds(cache'))
           /\ Later(outcome')
<1>1. CASE q = <<>>
  BY <1>1 DEF DropFirst
<1>2. CASE q # <<>>
  <2>1. cache' = Tail(q) /\ outcome' = Marked(o, Head(q).cmd, "lost")
    BY <1>2 DEF DropFirst
  <2>2. Tail(q) \in Seq(OwnEntry)
    BY <1>2
  <2>3. /\ Distinct(Tail(q)) /\ Cmds(Tail(q)) = Cmds(q) \ {Head(q).cmd}
        /\ Head(q).cmd \in Cmds(q)
    BY <1>2, TailCmds
  <2>4. Head(q).cmd \in OpenIn(o) /\ Head(q).cmd \in Clients \X Nat
    BY <2>3 DEF OpenIn
  <2>5. "lost" \in Outcomes /\ "lost" # "open"
    BY DEF Outcomes
  <2>6. OpenIn(outcome') = OpenIn(o) \ {Head(q).cmd}
    BY <2>1, <2>4, <2>5, MarkedOpen
  <2>7. Later(outcome')
    BY <2>1, <2>4, <2>5, ClosedLater
  <2> QED
    BY <2>1, <2>2, <2>3, <2>6, <2>7
<1> QED
  BY <1>1, <1>2

-----------------------------------------------------------------------------
(* Steps that move no command.                                             *)

LEMMA SingleInit == Init => Single
<1> SUFFICES ASSUME Init PROVE Single
  OBVIOUS
<1>1. Queued = {} /\ Cached = {} /\ Hands = {}
  BY DEF Init, Queued, Cached, Cmds, Hands
<1>2. Distinct(cache) /\ waiting = {}
  BY DEF Init, Distinct
<1>3. OpenIn(outcome) = {}
  BY DEF Init, OpenIn
<1>4. Later(outcome)
  BY DEF Init, Later
<1> QED
  BY <1>1, <1>2, <1>3, <1>4 DEF Single, Apart

LEMMA StillSingle ==
    ASSUME Inv, Single, UNCHANGED <<waiting, cache, sent, outcome>>,
           xpc' = "settle" <=> xpc = "settle",
           \A c \in Clients : pc'[c] \in {"limit", "insert"} <=> pc[c] \in {"limit", "insert"}
    PROVE  Single'
<1>1. Queued' = Queued /\ Cached' = Cached
  BY DEF Queued, Cached
<1>2. Hands' = Hands
  BY DEF Hands, InHand
<1>3. Later(outcome)'
  BY DEF Single, Later
<1>4. OpenIn(outcome)' = OpenIn(outcome)
  BY DEF OpenIn
<1> QED
  BY <1>1, <1>2, <1>3, <1>4 DEF Single, Apart, Distinct

LEMMA MovesKeepSingle ==
    ASSUME Inv, Single,
           \/ LoopHead \/ Check \/ Sleep \/ SpuriousWakeup \/ ExecuteEnd
           \/ ExecuteKnown \/ Decrement \/ UNCHANGED vars
    PROVE  Single'
<1>1. UNCHANGED <<waiting, cache, sent, outcome, pc>> /\ (xpc' = "settle" <=> xpc = "settle")
  BY DEF LoopHead, Check, Sleep, SpuriousWakeup, ExecuteEnd, ExecuteKnown, Decrement, Step,
         clientVars, execVars, vars
<1> QED
  BY <1>1, StillSingle

LEMMA ThreadKeepsSingle ==
    ASSUME Inv, Single, NEW c \in Clients,
           PassLimit(c) \/ Wake(c) \/ LoadCount(c) \/ StoreCount(c) \/ Leave(c)
    PROVE  Single'
<1>1. UNCHANGED <<waiting, cache, sent, outcome>>
  BY DEF PassLimit, Wake, LoadCount, StoreCount, Leave, tableVars, execVars
<1>2. xpc' = "settle" <=> xpc = "settle"
  BY DEF PassLimit, Wake, LoadCount, StoreCount, Leave, Woken
<1>3. \A d \in Clients : pc'[d] \in {"limit", "insert"} <=> pc[d] \in {"limit", "insert"}
  BY DEF PassLimit, Wake, LoadCount, StoreCount, Leave, Go, Inv, TypeOK
<1> QED
  BY <1>1, <1>2, <1>3, StillSingle

-----------------------------------------------------------------------------
(* Steps of a client's thread.                                             *)

LEMMA HandsChange ==
    ASSUME Inv, NEW c \in Clients, NEW from, NEW to, Go(c, from, to),
           \A d \in Clients : d # c => sent'[d] = sent[d]
    PROVE  /\ to \in {"limit", "insert"} =>
                 Hands' = {x \in Hands : x[1] # c} \cup {<<c, sent'[c]>>}
           /\ to \notin {"limit", "insert"} => Hands' = {x \in Hands : x[1] # c}
           /\ \A x \in Hands : x[1] = c => x = <<c, sent[c]>>
           /\ from \notin {"limit", "insert"} => {x \in Hands : x[1] # c} = Hands
           /\ from \notin {"limit", "insert"} /\ to \notin {"limit", "insert"} => Hands' = Hands
           /\ from \in {"limit", "insert"} => <<c, sent[c]>> \in Hands
<1>1. pc[c] = from /\ pc'[c] = to /\ \A d \in Clients : d # c => pc'[d] = pc[d]
  BY DEF Go, Inv, TypeOK
<1>2. to \notin {"limit", "insert"} => Hands' = {x \in Hands : x[1] # c}
  BY <1>1 DEF Hands, InHand
<1>3. from \notin {"limit", "insert"} => {x \in Hands : x[1] # c} = Hands
  BY <1>1 DEF Hands, InHand
<1>4. to \in {"limit", "insert"} =>
          Hands' = {x \in Hands : x[1] # c} \cup {<<c, sent'[c]>>}
  BY <1>1 DEF Hands, InHand
<1>5. /\ \A x \in Hands : x[1] = c => x = <<c, sent[c]>>
      /\ from \in {"limit", "insert"} => <<c, sent[c]>> \in Hands
  BY <1>1 DEF Hands, InHand
<1> QED
  BY <1>2, <1>3, <1>4, <1>5

\* Admit and Refuse: the command is unsent before.
LEMMA NextIsUnsent ==
    ASSUME Inv, Single, NEW c \in Clients, sent[c] < Sends[c],
           sent' = [sent EXCEPT ![c] = sent[c] + 1],
           NEW w \in Outcomes, Become(c, sent[c] + 1, w)
    PROVE  /\ <<c, sent[c] + 1>> \notin OpenIn(outcome)
           /\ Later(outcome)'
           /\ w = "open" => OpenIn(outcome)' = OpenIn(outcome) \cup {<<c, sent[c] + 1>>}
           /\ w # "open" => OpenIn(outcome)' = OpenIn(outcome)
           /\ sent'[c] = sent[c] + 1
<1> DEFINE x == <<c, sent[c] + 1>>
<1>1. /\ sent[c] \in Nat /\ Sends[c] \in Nat /\ IsHistory(outcome)
      /\ sent'[c] = sent[c] + 1 /\ \A d \in Clients : d # c => sent'[d] = sent[d]
      /\ \A d \in Clients : sent[d] \in Nat
  BY FlowAssumption DEF Inv, TypeOK
<1>2. x \in Clients \X Nat /\ x[1] = c /\ x[2] = sent[c] + 1 /\ x[2] \in 1..Sends[x[1]]
  BY <1>1
<1>3. outcome[c][sent[c] + 1] = "unsent"
  BY <1>1, <1>2 DEF Single, Later
<1>4. x \notin OpenIn(outcome)
  BY <1>2, <1>3 DEF OpenIn
<1>5. outcome' = Marked(outcome, x, w)
  BY DEF Become
<1>6. \A d \in Clients : \A n \in 1..Sends[d] :
          outcome'[d][n] = IF <<d, n>> = x THEN w ELSE outcome[d][n]
  BY <1>1, <1>2, <1>5, MarkedIsHistory
<1>7. ASSUME NEW d \in Clients, NEW n \in 1..Sends[d], n > sent'[d]
      PROVE  outcome'[d][n] = "unsent"
  <2>1. n > sent[d] /\ <<d, n>> # x
    BY <1>1, <1>7, FlowAssumption
  <2> QED
    BY <1>6, <2>1 DEF Single, Later
<1>8. Later(outcome)'
  BY <1>7 DEF Later
<1>9. /\ w = "open" => OpenIn(outcome') = OpenIn(outcome) \cup {x}
      /\ w # "open" => OpenIn(outcome') = OpenIn(outcome) \ {x}
  BY <1>1, <1>2, <1>5, MarkedOpen
<1>10. OpenIn(outcome)' = OpenIn(outcome')
  BY DEF OpenIn
<1> QED
  BY <1>1, <1>4, <1>8, <1>9, <1>10

LEMMA AdmitKeepsSingle ==
    ASSUME Inv, Single, NEW c \in Clients, Admit(c)
    PROVE  Single'
<1>1. /\ Go(c, "read", "limit") /\ sent[c] < Sends[c]
      /\ sent' = [sent EXCEPT ![c] = sent[c] + 1] /\ Become(c, sent[c] + 1, "open")
      /\ UNCHANGED <<waiting, xpc, cache>>
  BY DEF Admit, execVars
<1>2. \A d \in Clients : d # c => sent'[d] = sent[d]
  BY <1>1 DEF Inv, TypeOK
<1> DEFINE x == <<c, sent[c] + 1>>
<1>3. /\ x \notin OpenIn(outcome) /\ Later(outcome)'
      /\ OpenIn(outcome)' = OpenIn(outcome) \cup {x} /\ sent'[c] = sent[c] + 1
  BY <1>1, NextIsUnsent DEF Outcomes
<1>4. Hands' = Hands \cup {x}
  BY <1>1, <1>2, <1>3, HandsChange
<1>5. Queued' = Queued /\ Cached' = Cached
  BY <1>1 DEF Queued, Cached
<1> QED
  BY <1>1, <1>3, <1>4, <1>5 DEF Single, Apart, Distinct

LEMMA RefuseKeepsSingle ==
    ASSUME Inv, Single, NEW c \in Clients, Refuse(c)
    PROVE  Single'
<1>1. /\ Go(c, "read", "read") /\ sent[c] < Sends[c]
      /\ sent' = [sent EXCEPT ![c] = sent[c] + 1] /\ Become(c, sent[c] + 1, "refused")
      /\ UNCHANGED <<waiting, xpc, cache>>
  BY DEF Refuse, execVars
<1>2. \A d \in Clients : d # c => sent'[d] = sent[d]
  BY <1>1 DEF Inv, TypeOK
<1>3. Later(outcome)' /\ OpenIn(outcome)' = OpenIn(outcome)
  BY <1>1, NextIsUnsent DEF Outcomes
<1>4. Hands' = Hands
  <2>1. "read" \notin {"limit", "insert"}
    OBVIOUS
  <2> QED
    BY ONLY <1>1, <1>2, <2>1, Inv, c \in Clients, HandsChange
<1>5. Queued' = Queued /\ Cached' = Cached
  BY <1>1 DEF Queued, Cached
<1> QED
  BY <1>1, <1>3, <1>4, <1>5 DEF Single, Apart, Distinct

LEMMA FailLimitKeepsSingle ==
    ASSUME Inv, Single, NEW c \in Clients, FailLimit(c)
    PROVE  Single'
<1> DEFINE x == <<c, sent[c]>>
<1>1. /\ Go(c, "limit", "read") /\ outcome' = Marked(outcome, x, "refused")
      /\ UNCHANGED <<sent, waiting, xpc, cache>>
  BY DEF FailLimit, execVars, Become
<1>2. Hands' = Hands \ {x} /\ x \in Hands
  BY <1>1, HandsChange
<1>3. x \in OpenIn(outcome) /\ x \in Clients \X Nat
  BY <1>2 DEF Single, OpenIn
<1>4. IsHistory(outcome) /\ "refused" \in Outcomes /\ "refused" # "open" /\ TypeOK
  BY DEF Inv, TypeOK, Outcomes
<1>5. OpenIn(outcome)' = OpenIn(outcome) \ {x}
  BY <1>1, <1>3, <1>4, MarkedOpen DEF OpenIn
<1>6. Later(outcome)'
  BY <1>1, <1>3, <1>4, ClosedLater DEF Single, Later
<1>7. Queued' = Queued /\ Cached' = Cached
  BY <1>1 DEF Queued, Cached
<1> QED
  BY <1>1, <1>2, <1>5, <1>6, <1>7 DEF Single, Apart, Distinct

LEMMA InsertKeepsSingle ==
    ASSUME Inv, Single, NEW c \in Clients, Insert(c)
    PROVE  Single'
<1> DEFINE x == <<c, sent[c]>>
<1>1. /\ Go(c, "insert", "wake") /\ waiting' = waiting \cup {Fresh(c)}
      /\ UNCHANGED <<sent, xpc, cache, outcome>>
  BY DEF Insert, QueueNewExecute, execVars
<1>2. Fresh(c).cmd = x
  BY DEF Fresh, InHand
<1>3. Hands' = Hands \ {x} /\ x \in Hands
  BY <1>1, HandsChange
<1>4. x \notin Queued /\ x \notin Cached
  BY <1>3 DEF Single, Apart
<1> HIDE DEF Fresh, x
<1>5. Queued' = Queued \cup {x} /\ Cached' = Cached
  BY <1>1, <1>2 DEF Queued, Cached
<1>6. \A e, f \in waiting' : e.cmd = f.cmd => e = f
  BY <1>1, <1>2, <1>4 DEF Single, Apart, Queued
<1>7. Apart'
  BY <1>1, <1>3, <1>4, <1>5, <1>6 DEF Single, Apart, Distinct
<1>8. Later(outcome)' /\ OpenIn(outcome)' = OpenIn(outcome)
  BY <1>1 DEF Single, Later, OpenIn
<1> QED
  BY <1>3, <1>5, <1>7, <1>8 DEF Single

LEMMA RemoveKeepsSingle ==
    ASSUME Inv, Single, NEW c \in Clients, Remove(c)
    PROVE  Single'
<1>1. /\ Go(c, "leaving", "gone") /\ waiting' = {Cancelled(e, c) : e \in waiting}
      /\ UNCHANGED <<sent, cache, outcome>> /\ xpc # "settle" /\ xpc' # "settle"
  BY DEF Remove, OneFree, Woken, execVars
<1>2. \A e \in waiting : Cancelled(e, c).cmd = e.cmd
  BY DEF Inv, OwnEntry, Entry, Cancelled
<1>3. Hands' = Hands
  <2>1. "leaving" \notin {"limit", "insert"} /\ "gone" \notin {"limit", "insert"}
    OBVIOUS
  <2>2. Go(c, "leaving", "gone") /\ \A d \in Clients : d # c => sent'[d] = sent[d]
    BY <1>1
  <2> QED
    BY ONLY <2>1, <2>2, Inv, c \in Clients, HandsChange
<1>4. Queued' = Queued /\ Cached' = Cached
  BY <1>1, <1>2 DEF Queued, Cached
<1>5. \A e, f \in waiting' : e.cmd = f.cmd => e = f
  BY <1>1, <1>2 DEF Single, Apart
<1>6. Later(outcome)' /\ OpenIn(outcome)' = OpenIn(outcome)
  BY <1>1 DEF Single, Later, OpenIn
<1> QED
  BY <1>1, <1>3, <1>4, <1>5, <1>6 DEF Single, Apart, Distinct

-----------------------------------------------------------------------------
(* Steps of the execution thread.                                          *)

\* All that a step after which execute_single is done must show.
LEMMA DoneKeepsSingle ==
    ASSUME Inv, Single, NEW Gone,
           xpc' # "settle", UNCHANGED <<waiting, sent>>, Distinct(cache'),
           Cmds(cache') = Cached \ Gone, Gone \subseteq Cached, Hands' = Hands,
           OpenIn(outcome') = OpenIn(outcome) \ Gone, Later(outcome')
    PROVE  Single'
<1>1. Queued' = Queued /\ Cached' = Cached \ Gone
  BY DEF Queued, Cached
<1>2. Later(outcome)' /\ OpenIn(outcome)' = OpenIn(outcome')
  BY DEF Later, OpenIn
<1> QED
  BY <1>1, <1>2 DEF Single, Apart

LEMMA FinishKeepsSingle ==
    ASSUME Inv, Single, NEW w \in {"delivered", "refused"}, NEW ok \in BOOLEAN, Finish(w, ok),
           UNCHANGED waiting, Hands' = Hands
    PROVE  Single'
<1> DEFINE x == Head1.cmd
           after == Marked(outcome, x, w)
<1>1. xpc = "deliver" /\ xpc' = "execute" /\ UNCHANGED sent
  BY DEF Finish, Step
<1>2. /\ cache # <<>> /\ cache \in Seq(OwnEntry) /\ Tail(cache) \in Seq(OwnEntry)
      /\ x \in Clients \X Nat /\ TypeOK /\ IsHistory(outcome)
  BY <1>1, HeadIsListed, OwnFields DEF Inv, TypeOK
<1>3. /\ Distinct(Tail(cache)) /\ Cmds(Tail(cache)) = Cached \ {x} /\ x \in Cached
  BY <1>1, <1>2, TailCmds DEF Single, Apart, Cached, Head1
<1>4. w \in Outcomes /\ w # "open" /\ x \in OpenIn(outcome)
  BY <1>3 DEF Outcomes, Single
<1>5. IsHistory(after) /\ OpenIn(after) = OpenIn(outcome) \ {x} /\ Later(after)
  BY <1>2, <1>4, MarkedIsHistory, MarkedOpen, ClosedLater DEF Single
<1>6. IF ok THEN cache' = Tail(cache) /\ outcome' = after ELSE DropFirst(Tail(cache), after)
  BY DEF Finish
<1> HIDE DEF after, x
<1>7. CASE ok
  <2>1. /\ Distinct(cache') /\ Cmds(cache') = Cached \ {x} /\ {x} \subseteq Cached
        /\ OpenIn(outcome') = OpenIn(outcome) \ {x} /\ Later(outcome')
    BY <1>3, <1>5, <1>6, <1>7
  <2> QED
    BY <1>1, <2>1, DoneKeepsSingle
<1>8. CASE ~ok
  <2> DEFINE q == Tail(cache)
             Gone == Cached \ Cmds(cache')
  <2>1. Cmds(q) \subseteq OpenIn(after)
    BY <1>3, <1>5 DEF Single
  <2>2. /\ Distinct(cache') /\ Cmds(cache') \subseteq Cmds(q)
        /\ OpenIn(outcome') = OpenIn(after) \ (Cmds(q) \ Cmds(cache'))
        /\ Later(outcome')
    BY <1>2, <1>3, <1>5, <1>6, <1>8, <2>1, DropFirstOpen
  <2>3. /\ Cmds(cache') = Cached \ Gone /\ Gone \subseteq Cached
        /\ OpenIn(outcome') = OpenIn(outcome) \ Gone
    BY <1>3, <1>5, <2>2
  <2> HIDE DEF Gone
  <2> QED
    BY <1>1, <2>2, <2>3, DoneKeepsSingle
<1> QED
  BY <1>7, <1>8

LEMMA RequeueKeepsSingle ==
    ASSUME Inv, Single, NEW e \in OwnEntry, e.cmd = Head1.cmd, Requeue(e)
    PROVE  Single'
<1>1. /\ xpc = "deliver" /\ xpc' = "settle" /\ waiting' = waiting \cup {e}
      /\ UNCHANGED <<pc, sent, cache, outcome>>
  BY DEF Requeue, Step, QueueNewExecute, clientVars
<1>2. cache # <<>> /\ cache \in Seq(OwnEntry)
  BY <1>1 DEF Inv, Busy
<1>3. /\ Cached' = Cached \ {e.cmd} /\ e.cmd \in Cached
  BY <1>1, <1>2, TailCmds DEF Single, Apart, Cached, Head1
<1>4. Queued' = Queued \cup {e.cmd} /\ e.cmd \notin Queued /\ e.cmd \notin Hands
  BY <1>1, <1>3 DEF Queued, Single, Apart
<1>5. \A f, g \in waiting' : f.cmd = g.cmd => f = g
  BY <1>1, <1>4 DEF Single, Apart, Queued
<1>6. Hands' = Hands /\ Later(outcome)' /\ OpenIn(outcome)' = OpenIn(outcome)
  BY <1>1 DEF Hands, InHand, Single, Later, OpenIn
<1>7. Distinct(cache)'
  BY <1>1 DEF Single, Apart, Distinct
<1> QED
  BY <1>3, <1>4, <1>5, <1>6, <1>7 DEF Single, Apart

LEMMA SettleKeepsSingle ==
    ASSUME Inv, Single, Settle
    PROVE  Single'
<1>1. /\ xpc = "settle" /\ xpc' # "settle" /\ cache' = Tail(cache)
      /\ UNCHANGED <<pc, sent, waiting, outcome>>
  BY DEF Settle, Step, clientVars
<1>2. cache # <<>> /\ cache \in Seq(OwnEntry)
  BY <1>1 DEF Inv, Busy
<1>3. Distinct(cache') /\ Cmds(cache') = Cached \ {} /\ Hands' = Hands
  BY <1>1, <1>2, TailCmds DEF Single, Apart, Cached, Hands, InHand
<1>4. OpenIn(outcome') = OpenIn(outcome) \ {} /\ Later(outcome')
  BY <1>1 DEF Single
<1> QED
  BY <1>1, <1>3, <1>4, DoneKeepsSingle

LEMMA DeliverKeepsSingle ==
    ASSUME Inv, Single, Deliver
    PROVE  Single'
<1>1. ASSUME pc' = pc, sent' = sent PROVE Hands' = Hands
  BY <1>1 DEF Hands, InHand
<1>2. CASE Forward
  BY <1>1, <1>2, FinishKeepsSingle DEF Forward, Finish
<1>3. CASE ForwardFails
  BY <1>1, <1>3, FinishKeepsSingle DEF ForwardFails, Finish
<1>4. CASE Execute
  BY <1>1, <1>4, FinishKeepsSingle DEF Execute, Finish
<1>5. CASE ExecuteFails
  BY <1>1, <1>5, FinishKeepsSingle DEF ExecuteFails, Finish
<1>6. CASE RequeueBusy
  <2>1. Head1 \in OwnEntry /\ xpc = "deliver"
    BY <1>6, HeadIsListed DEF RequeueBusy, Deciding
  <2>2. Penalised(Head1).cmd = Head1.cmd
    BY <2>1 DEF Penalised, OwnEntry, Entry
  <2> QED
    BY <1>6, <2>1, <2>2, RequeuedIsOwn, RequeueKeepsSingle DEF RequeueBusy
<1>7. CASE RequeueReparsed
  <2>1. Head1 \in OwnEntry /\ xpc = "deliver"
    BY <1>7, HeadIsListed DEF RequeueReparsed, Deciding
  <2>2. ForServer(Head1).cmd = Head1.cmd
    BY <2>1 DEF ForServer, OwnEntry, Entry
  <2> QED
    BY <1>7, <2>1, <2>2, RequeuedIsOwn, RequeueKeepsSingle DEF RequeueReparsed
<1>8. CASE Terminate
  <2>1. PICK K \in SUBSET Clients :
            /\ \A d \in K : pc[d] \in {"leaving", "read"}
            /\ pc' = [c \in Clients |-> IF c \in K THEN "killed" ELSE pc[c]]
    BY <1>8 DEF Terminate, Inv, TypeOK
  <2>2. UNCHANGED sent
    BY <1>8 DEF Terminate, Finish
  <2>3. Hands' = Hands
    BY <2>1, <2>2 DEF Hands, InHand
  <2> QED
    BY <1>8, <2>3, FinishKeepsSingle DEF Terminate
<1> QED
  BY <1>2, <1>3, <1>4, <1>5, <1>6, <1>7, <1>8 DEF Deliver

\* A batch is a sequence of different entries of the queue.
LEMMA FetchKeepsSingle ==
    ASSUME Inv, Single, Fetch
    PROVE  Single'
<1>1. PICK k \in 1..Cardinality(waiting) :
          \E s \in [1..k -> waiting] :
             /\ \A i, j \in 1..k : s[i] = s[j] => i = j
             /\ waiting' = waiting \ {s[i] : i \in 1..k}
             /\ cache' = s
  BY DEF Fetch, Batch
<1>2. k \in Nat
  BY FS_CardinalityType DEF Inv
<1>3. /\ cache' \in [1..k -> waiting] /\ Len(cache') = k
      /\ \A i, j \in 1..k : cache'[i] = cache'[j] => i = j
      /\ waiting' = waiting \ {cache'[i] : i \in 1..k}
  BY <1>1, <1>2
<1>4. xpc # "settle" /\ xpc' # "settle" /\ cache = <<>> /\ UNCHANGED <<pc, sent, outcome>>
  BY DEF Fetch, Step, clientVars
<1>5. Distinct(cache')
  BY <1>3 DEF Distinct, Single, Apart
<1>6. Cached = {} /\ Cached' = {cache'[i].cmd : i \in 1..k}
  BY <1>3, <1>4 DEF Cached, Cmds
<1>7. Queued' = Queued \ Cached' /\ Cached' \subseteq Queued
  BY <1>3, <1>6 DEF Queued, Single, Apart
<1>8. \A e, f \in waiting' : e.cmd = f.cmd => e = f
  BY <1>3 DEF Single, Apart
<1>9. Hands' = Hands /\ Later(outcome)' /\ OpenIn(outcome)' = OpenIn(outcome)
  BY <1>4 DEF Hands, InHand, Single, Later, OpenIn
<1>10. Distinct(cache)'
  BY <1>5 DEF Distinct
<1> QED
  BY <1>6, <1>7, <1>8, <1>9, <1>10 DEF Single, Apart

\* InOrder arranges a finite set of positions completely and without repetition.
LEMMA OrderedAll ==
    ASSUME NEW I, I \subseteq Nat, IsFiniteSet(I), NEW s \in InOrder(I)
    PROVE  /\ Cardinality(I) \in Nat /\ s \in [1..Cardinality(I) -> I]
           /\ \A i, j \in 1..Cardinality(I) : s[i] = s[j] => i = j
           /\ \A x \in I : \E i \in 1..Cardinality(I) : s[i] = x
<1> DEFINE k == Cardinality(I)
<1>1. k \in Nat
  BY FS_CardinalityType
<1>2. s \in [1..k -> I] /\ DOMAIN s = 1..k /\ \A i, j \in 1..k : i < j => s[i] < s[j]
  BY DEF InOrder
<1>3. \A i \in 1..k : s[i] \in Nat
  BY <1>2
<1> HIDE DEF k
<1>4. \A i, j \in 1..k : s[i] = s[j] => i = j
  <2> SUFFICES ASSUME NEW i \in 1..k, NEW j \in 1..k, s[i] = s[j]
               PROVE  i = j
    OBVIOUS
  <2>1. ~(i < j) /\ ~(j < i)
    BY <1>2, <1>3
  <2> QED
    BY <1>1, <2>1
<1>5. s \in Injection(1..k, I)
  BY <1>2, <1>4 DEF Injection, IsInjective
<1>6. Cardinality(1..k) = k
  BY <1>1, FS_Interval
<1>7. s \in Surjection(1..k, I)
  BY <1>5, <1>6, FS_Injection DEF k
<1> QED
  BY <1>1, <1>2, <1>4, <1>7 DEF Surjection, k

\* What ExecuteUnknown does to the cache and the history before it may remove one
\* more: the commands of the first one's client go, and the first with them.
LEMMA UnknownParts ==
    ASSUME Inv, Single, ExecuteUnknown
    PROVE  \E q \in Seq(OwnEntry), gone \in SUBSET Cached : \E what :
              /\ DropFirst(q, what) /\ IsHistory(what)
              /\ Distinct(q) /\ Cmds(q) = Cached \ gone /\ Head1.cmd \in gone
              /\ \A c \in Clients : \A n \in 1..Sends[c] :
                    what[c][n] = IF <<c, n>> \in gone THEN "refused" ELSE outcome[c][n]
<1> DEFINE kept == {i \in 1..Len(cache) : cache[i].key # Head1.key}
           gone == {cache[i].cmd : i \in (1..Len(cache)) \ kept}
           what == [c \in Clients |-> [n \in 1..Sends[c] |->
                       IF <<c, n>> \in gone THEN "refused" ELSE outcome[c][n]]]
<1>1. PICK s \in InOrder(kept) : DropFirst([i \in DOMAIN s |-> cache[s[i]]], what)
  BY DEF ExecuteUnknown
<1>2. /\ cache \in Seq(OwnEntry) /\ Len(cache) \in Nat
      /\ xpc = "execute" /\ cache # <<>>
  BY DEF Inv, ExecuteUnknown, Step
<1>3. kept \subseteq 1..Len(cache) /\ kept \subseteq Nat /\ IsFiniteSet(kept)
  <2>1. kept \subseteq 1..Len(cache) /\ 1..Len(cache) \subseteq Nat
    BY <1>2
  <2>2. IsFiniteSet(1..Len(cache))
    BY <1>2, FS_Interval
  <2> HIDE DEF kept
  <2> QED
    BY <2>1, <2>2, FS_Subset
<1> DEFINE q == [i \in DOMAIN s |-> cache[s[i]]]
           k == Cardinality(kept)
<1>4. /\ k \in Nat /\ s \in [1..k -> kept]
      /\ \A i, j \in 1..k : s[i] = s[j] => i = j
      /\ \A x \in kept : \E i \in 1..k : s[i] = x
  <2> HIDE DEF kept
  <2> QED
    BY <1>3, OrderedAll
<1>5. Cached = Cmds(cache) /\ Distinct(cache)
  BY <1>2 DEF Cached, Single, Apart
<1>6. gone \subseteq Cmds(cache) /\ {cache[i].cmd : i \in kept} = Cmds(cache) \ gone
  BY <1>5 DEF Cmds, Distinct
<1>0. Head1.cmd \in gone
  <2>1. 1 \in 1..Len(cache) /\ Head1 = cache[1]
    BY <1>2 DEF Head1
  <2> QED
    BY <2>1
<1> HIDE DEF kept, gone, k
<1>7. /\ q \in Seq(OwnEntry) /\ Len(q) = k
      /\ \A i \in 1..k : q[i] = cache[s[i]] /\ s[i] \in 1..Len(cache)
  <2>1. DOMAIN s = 1..k /\ \A i \in 1..k : s[i] \in 1..Len(cache)
    BY <1>3, <1>4
  <2>2. q = [i \in 1..k |-> cache[s[i]]]
    BY <2>1
  <2>3. \A i \in 1..k : cache[s[i]] \in OwnEntry
    BY <1>2, <2>1
  <2> HIDE DEF q
  <2> QED
    BY <1>4, <2>1, <2>2, <2>3
<1> HIDE DEF q
<1>8. Distinct(q)
  BY <1>4, <1>5, <1>7 DEF Distinct
<1>9. Cmds(q) = Cached \ gone
  <2>1. Cmds(q) = {cache[i].cmd : i \in kept}
    BY <1>4, <1>7 DEF Cmds
  <2> QED
    BY <1>5, <1>6, <2>1
<1>10. \A c \in Clients : \A n \in 1..Sends[c] :
           what[c][n] = IF <<c, n>> \in gone THEN "refused" ELSE outcome[c][n]
  OBVIOUS
<1>11. IsHistory(what)
  <2>1. \A c \in Clients : what[c] \in [1..Sends[c] -> Outcomes]
    BY DEF Inv, TypeOK, IsHistory, Outcomes
  <2> QED
    BY <2>1 DEF IsHistory
<1> HIDE DEF what
<1> QED
  BY <1>0, <1>1, <1>5, <1>6, <1>7, <1>8, <1>9, <1>10, <1>11 DEF q

LEMMA UnknownKeepsSingle ==
    ASSUME Inv, Single, ExecuteUnknown
    PROVE  Single'
<1>1. PICK q \in Seq(OwnEntry), gone \in SUBSET Cached : \E what :
              /\ DropFirst(q, what) /\ IsHistory(what)
              /\ Distinct(q) /\ Cmds(q) = Cached \ gone /\ Head1.cmd \in gone
              /\ \A c \in Clients : \A n \in 1..Sends[c] :
                    what[c][n] = IF <<c, n>> \in gone THEN "refused" ELSE outcome[c][n]
  BY UnknownParts
<1>2. PICK what :
              /\ DropFirst(q, what) /\ IsHistory(what)
              /\ Distinct(q) /\ Cmds(q) = Cached \ gone /\ Head1.cmd \in gone
              /\ \A c \in Clients : \A n \in 1..Sends[c] :
                    what[c][n] = IF <<c, n>> \in gone THEN "refused" ELSE outcome[c][n]
  BY <1>1
<1>3. TypeOK /\ xpc' # "settle" /\ UNCHANGED <<pc, sent, waiting>>
  BY DEF Inv, ExecuteUnknown, Step, clientVars
<1>4. OpenIn(what) = OpenIn(outcome) \ gone
  <2>1. \A x \in Clients \X Nat : x = <<x[1], x[2]>> /\ x[1] \in Clients
    OBVIOUS
  <2> QED
    BY <1>2, <2>1 DEF OpenIn
<1>5. Later(what)
  <2>1. gone \subseteq OpenIn(outcome)
    BY DEF Single
  <2>2. \A c \in Clients : \A n \in 1..Sends[c] : <<c, n>> \in gone => ~(n > sent[c])
    BY <2>1 DEF OpenIn, Single, Later
  <2> QED
    BY <1>2, <2>2 DEF Single, Later
<1>6. Cmds(q) \subseteq OpenIn(what)
  BY <1>2, <1>4 DEF Single
<1>7. /\ Distinct(cache') /\ Cmds(cache') \subseteq Cmds(q)
      /\ OpenIn(outcome') = OpenIn(what) \ (Cmds(q) \ Cmds(cache'))
      /\ Later(outcome')
  BY <1>2, <1>3, <1>5, <1>6, DropFirstOpen
<1> DEFINE Gone == Cached \ Cmds(cache')
<1>8. /\ Cmds(cache') = Cached \ Gone /\ Gone \subseteq Cached
      /\ OpenIn(outcome') = OpenIn(outcome) \ Gone
  BY <1>2, <1>4, <1>7
<1>9. Hands' = Hands
  BY <1>3 DEF Hands, InHand
<1> HIDE DEF Gone
<1> QED
  BY <1>3, <1>7, <1>8, <1>9, DoneKeepsSingle

-----------------------------------------------------------------------------

LEMMA SingleStep == Inv /\ Single /\ [Next]_vars => Single'
<1> SUFFICES ASSUME Inv, Single, [Next]_vars PROVE Single'
  OBVIOUS
<1>1. ASSUME NEW c \in Clients, Admit(c) \/ Refuse(c) \/ Proceed(c) \/ Leave(c)
      PROVE  Single'
  BY <1>1, AdmitKeepsSingle, RefuseKeepsSingle, ThreadKeepsSingle, FailLimitKeepsSingle,
     InsertKeepsSingle, RemoveKeepsSingle DEF Proceed
<1>2. CASE ExecuteThread
  BY <1>2, MovesKeepSingle, FetchKeepsSingle, UnknownKeepsSingle, DeliverKeepsSingle,
     SettleKeepsSingle DEF ExecuteThread
<1>3. CASE SpuriousWakeup \/ UNCHANGED vars
  BY <1>3, MovesKeepSingle
<1> QED
  BY <1>1, <1>2, <1>3 DEF Next

\* Counting again: a set of entries with the same command has at most one.
LEMMA CountOne ==
    ASSUME NEW S, \A x, y \in S : x = y
    PROVE  Cardinality(S) = IF S = {} THEN 0 ELSE 1
<1>1. CASE S = {}
  BY <1>1, FS_EmptySet
<1>2. CASE S # {}
  <2>1. PICK x \in S : S = {x}
    BY <1>2
  <2> QED
    BY <1>2, <2>1, FS_Singleton
<1> QED
  BY <1>1, <1>2

LEMMA SingleCounts ==
    ASSUME Inv, Single
    PROVE  OnePlace
<1> SUFFICES ASSUME NEW c \in Clients, NEW n \in 1..Sends[c]
             PROVE  Places(c, n) = IF outcome[c][n] = "open" THEN 1 ELSE 0
  BY DEF OnePlace
<1> DEFINE x == <<c, n>>
           Qs == {e \in waiting : e.cmd = x}
           Xs == {i \in (1..Len(cache)) \ Settled : cache[i].cmd = x}
           held == n = sent[c] /\ pc[c] \in {"limit", "insert"}
<1>1. Cardinality(Qs) = IF x \in Queued THEN 1 ELSE 0
  <2>1. \A e, f \in Qs : e = f
    BY DEF Single, Apart
  <2>2. Qs = {} <=> x \notin Queued
    BY DEF Queued
  <2> HIDE DEF Qs
  <2> QED
    BY <2>1, <2>2, CountOne
<1>2. Cardinality(Xs) = IF x \in Cached THEN 1 ELSE 0
  <2>1. \A i, j \in Xs : i = j
    BY DEF Single, Apart, Distinct
  <2>2. Xs = {} <=> x \notin Cached
    <3>1. CASE xpc # "settle"
      BY <3>1 DEF Settled, Cached, Cmds
    <3>2. CASE xpc = "settle"
      <4>1. /\ cache # <<>> /\ cache \in Seq(OwnEntry) /\ Distinct(cache)
            /\ Head1 = cache[1] /\ 1 \in 1..Len(cache)
        BY <3>2 DEF Inv, Busy, Single, Apart, Head1
      <4>2. Cached = Cmds(cache) \ {cache[1].cmd}
        BY <3>2, <4>1, CachedCmds DEF Single
      <4> QED
        BY <3>2, <4>1, <4>2 DEF Settled, Cmds, Distinct
    <3> QED
      BY <3>1, <3>2
  <2> HIDE DEF Xs
  <2> QED
    BY <2>1, <2>2, CountOne
<1>3. held <=> x \in Hands
  BY DEF Hands, InHand
<1>4. outcome[c][n] = "open" <=> x \in Queued \cup Cached \cup Hands
  <2>1. x \in Clients \X Nat /\ x[1] = c /\ x[2] = n
    BY FlowAssumption
  <2>2. outcome[c][n] = "open" <=> x \in OpenIn(outcome)
    BY <2>1 DEF OpenIn
  <2> QED
    BY <2>2 DEF Single
<1>5. Places(c, n) = Cardinality(Qs) + Cardinality(Xs) + IF held THEN 1 ELSE 0
  BY DEF Places
<1> HIDE DEF x, Qs, Xs, held
<1> QED
  BY <1>1, <1>2, <1>3, <1>4, <1>5 DEF Single, Apart

(***************************************************************************)
(* Every command without an outcome is in exactly one place, whatever is   *)
(* queued again, cancelled or removed, for any clients and commands.       *)
(***************************************************************************)
THEOREM NothingLostOrCopied == Spec => []OnePlace
<1>1. Init => Single
  BY SingleInit
<1>2. Inv /\ Single /\ [Next]_vars => Single'
  BY SingleStep
<1>3. Inv /\ Single => OnePlace
  BY SingleCounts
<1> QED
  BY <1>1, <1>2, <1>3, Invariance, PTL DEF Spec

-----------------------------------------------------------------------------
(* What becomes of a command is decided once.                              *)

\* Between the histories o and p commands were closed, and nothing else happened.
Closes(o, p) == \A c \in Clients : \A n \in 1..Sends[c] :
                   \/ p[c][n] = o[c][n]
                   \/ o[c][n] = "open" /\ p[c][n] \in {"delivered", "refused", "lost"}

\* Between them no command was lost, at most the command x was.
LosesNone(o, p) == \A c \in Clients : \A n \in 1..Sends[c] :
                      p[c][n] = "lost" => o[c][n] = "lost"
LosesOnly(o, p, x) == \A c \in Clients : \A n \in 1..Sends[c] :
                         o[c][n] # "lost" /\ p[c][n] = "lost" => <<c, n>> = x

(***************************************************************************)
(* A command gets at most one outcome, for good: nobody is answered twice, *)
(* whatever is queued again, cancelled or removed; a client's commands are *)
(* taken up one after the other.                                           *)
(***************************************************************************)
OutcomeIsFinal ==
    [][\A c \in Clients : \A n \in 1..Sends[c] :
          \/ outcome'[c][n] = outcome[c][n]
          \/ /\ outcome[c][n] = "unsent" /\ outcome'[c][n] \in {"open", "refused"}
             /\ n = sent[c] + 1 /\ sent'[c] = n
          \/ outcome[c][n] = "open" /\ outcome'[c][n] \in {"delivered", "refused", "lost"}]_vars

(***************************************************************************)
(* How far internal_execute's second removal can reach: a command is lost  *)
(* only in a step that refuses the first of the cache, and only one is.    *)
(***************************************************************************)
LossFollowsRefusal ==
    [][\A c \in Clients : \A n \in 1..Sends[c] :
          outcome[c][n] # "lost" /\ outcome'[c][n] = "lost" =>
             /\ cache # <<>> /\ Head1.cmd # <<c, n>>
             /\ outcome[Head1.cmd[1]][Head1.cmd[2]] = "open"
             /\ outcome'[Head1.cmd[1]][Head1.cmd[2]] = "refused"
             /\ LosesOnly(outcome, outcome', <<c, n>>)]_vars

LEMMA ClosesTwice ==
    ASSUME NEW o, NEW p, NEW q, Closes(o, p), Closes(p, q)
    PROVE  Closes(o, q)
BY DEF Closes

LEMMA OpenIsOpen ==
    ASSUME NEW o, NEW x \in OpenIn(o)
    PROVE  x \in Clients \X Nat /\ x[1] \in Clients /\ x[2] \in 1..Sends[x[1]]
           /\ o[x[1]][x[2]] = "open" /\ x = <<x[1], x[2]>>
BY DEF OpenIn

LEMMA MarkedCloses ==
    ASSUME NEW o, IsHistory(o), NEW x \in OpenIn(o), NEW w \in {"delivered", "refused", "lost"}
    PROVE  /\ Closes(o, Marked(o, x, w))
           /\ Marked(o, x, w)[x[1]][x[2]] = w
           /\ LosesOnly(o, Marked(o, x, w), x)
           /\ w # "lost" => LosesNone(o, Marked(o, x, w))
<1> DEFINE p == Marked(o, x, w)
<1>1. w \in Outcomes
  BY DEF Outcomes
<1>2. /\ x \in Clients \X Nat /\ x[1] \in Clients /\ x[2] \in 1..Sends[x[1]]
      /\ o[x[1]][x[2]] = "open" /\ x = <<x[1], x[2]>>
  BY OpenIsOpen
<1>3. \A c \in Clients : \A n \in 1..Sends[c] :
          p[c][n] = IF <<c, n>> = x THEN w ELSE o[c][n]
  BY <1>1, <1>2, MarkedIsHistory
<1> HIDE DEF p
<1>4. \A c \in Clients : \A n \in 1..Sends[c] : <<c, n>> = x => o[c][n] = "open"
  BY <1>2
<1>5. p[x[1]][x[2]] = w
  BY <1>2, <1>3
<1>6. Closes(o, p)
  BY <1>3, <1>4 DEF Closes
<1>7. LosesOnly(o, p, x) /\ (w # "lost" => LosesNone(o, p))
  BY <1>3 DEF LosesOnly, LosesNone
<1> QED
  BY <1>5, <1>6, <1>7 DEF p

\* remove_single loses the first command there is, and touches no other.
LEMMA DropFirstCloses ==
    ASSUME NEW q \in Seq(OwnEntry), NEW o, IsHistory(o), Cmds(q) \subseteq OpenIn(o),
           DropFirst(q, o)
    PROVE  /\ Closes(o, outcome')
           /\ \/ outcome' = o
              \/ \E x \in Cmds(q) : outcome' = Marked(o, x, "lost")
<1>1. CASE q = <<>>
  BY <1>1 DEF DropFirst, Closes
<1>2. CASE q # <<>>
  <2>1. outcome' = Marked(o, Head(q).cmd, "lost")
    BY <1>2 DEF DropFirst
  <2>2. Head(q).cmd \in Cmds(q)
    <3>1. Len(q) \in Nat /\ 1 \in 1..Len(q) /\ Head(q) = q[1]
      BY <1>2
    <3> QED
      BY <3>1 DEF Cmds
  <2> QED
    BY <2>1, <2>2, MarkedCloses
<1> QED
  BY <1>1, <1>2

\* A step that refuses or delivers the first command of the cache, perhaps with
\* others, and then perhaps loses one of the rest.
LEMMA RefuseThenDrop ==
    ASSUME NEW o, IsHistory(o), NEW p, IsHistory(p), Closes(o, p), LosesNone(o, p),
           NEW h \in OpenIn(o), p[h[1]][h[2]] \in {"delivered", "refused"},
           NEW q \in Seq(OwnEntry), Cmds(q) \subseteq OpenIn(p), DropFirst(q, p)
    PROVE  /\ Closes(o, outcome')
           /\ \A c \in Clients : \A n \in 1..Sends[c] :
                 o[c][n] # "lost" /\ outcome'[c][n] = "lost" =>
                    /\ h # <<c, n>>
                    /\ outcome'[h[1]][h[2]] = p[h[1]][h[2]]
                    /\ LosesOnly(o, outcome', <<c, n>>)
<1>1. Closes(p, outcome') /\ (outcome' = p \/ \E x \in Cmds(q) : outcome' = Marked(p, x, "lost"))
  BY DropFirstCloses
<1>2. Closes(o, outcome')
  BY <1>1, ClosesTwice
<1>3. h[1] \in Clients /\ h[2] \in 1..Sends[h[1]] /\ h = <<h[1], h[2]>>
  BY OpenIsOpen
<1>4. outcome'[h[1]][h[2]] = p[h[1]][h[2]]
  BY <1>1, <1>3 DEF Closes
<1>5. ASSUME NEW c \in Clients, NEW n \in 1..Sends[c], o[c][n] # "lost", outcome'[c][n] = "lost"
      PROVE  h # <<c, n>> /\ LosesOnly(o, outcome', <<c, n>>)
  <2>1. p[c][n] # "lost"
    BY <1>5 DEF LosesNone
  <2>2. PICK x \in OpenIn(p) : outcome' = Marked(p, x, "lost")
    BY <1>1, <1>5, <2>1
  <2>3. LosesOnly(p, outcome', x)
    BY <2>2, MarkedCloses
  <2>4. <<c, n>> = x
    BY <1>5, <2>1, <2>3 DEF LosesOnly
  <2>5. h # <<c, n>>
    BY <1>4, <1>5
  <2>6. ASSUME NEW d \in Clients, NEW m \in 1..Sends[d], o[d][m] # "lost", outcome'[d][m] = "lost"
        PROVE  <<d, m>> = <<c, n>>
    <3>1. p[d][m] # "lost"
      BY <2>6 DEF LosesNone
    <3> QED
      BY <2>3, <2>4, <2>6, <3>1 DEF LosesOnly
  <2> QED
    BY <2>5, <2>6 DEF LosesOnly
<1> QED
  BY <1>2, <1>4, <1>5

\* The steps by which the execution thread closes commands.
Closing == /\ Closes(outcome, outcome')
           /\ \A c \in Clients : \A n \in 1..Sends[c] :
                 outcome[c][n] # "lost" /\ outcome'[c][n] = "lost" =>
                    /\ cache # <<>> /\ Head1.cmd # <<c, n>>
                    /\ outcome[Head1.cmd[1]][Head1.cmd[2]] = "open"
                    /\ outcome'[Head1.cmd[1]][Head1.cmd[2]] = "refused"
                    /\ LosesOnly(outcome, outcome', <<c, n>>)

LEMMA UnchangedCloses == outcome' = outcome => Closing
BY DEF Closing, Closes

LEMMA FinishCloses ==
    ASSUME Inv, Single, NEW w \in {"delivered", "refused"}, NEW ok \in BOOLEAN, Finish(w, ok),
           ok \/ w = "refused"
    PROVE  Closing
<1> DEFINE x == Head1.cmd
           after == Marked(outcome, x, w)
<1>1. xpc = "deliver"
  BY DEF Finish, Step
<1>2. /\ cache # <<>> /\ cache \in Seq(OwnEntry) /\ Tail(cache) \in Seq(OwnEntry)
      /\ IsHistory(outcome)
  BY <1>1, HeadIsListed DEF Inv, TypeOK
<1>3. Cmds(Tail(cache)) = Cached \ {x} /\ x \in Cached
  BY <1>1, <1>2, TailCmds DEF Single, Apart, Cached, Head1
<1>4. x \in OpenIn(outcome) /\ x \in Clients \X Nat /\ w \in Outcomes /\ w # "open"
  BY <1>3 DEF Single, OpenIn, Outcomes
<1>5. IsHistory(after) /\ OpenIn(after) = OpenIn(outcome) \ {x}
  BY <1>2, <1>4, MarkedIsHistory, MarkedOpen
<1>6. /\ Closes(outcome, after) /\ after[x[1]][x[2]] = w
      /\ LosesNone(outcome, after)
  BY <1>2, <1>4, MarkedCloses
<1>7. outcome[x[1]][x[2]] = "open"
  BY <1>4, OpenIsOpen
<1>8. Cmds(Tail(cache)) \subseteq OpenIn(after)
  BY <1>3, <1>5 DEF Single
<1>9. IF ok THEN outcome' = after ELSE DropFirst(Tail(cache), after)
  BY DEF Finish
<1> HIDE DEF after, x
<1>10. CASE ok
  BY <1>6, <1>9, <1>10 DEF Closing, LosesNone
<1>11. CASE ~ok
  <2> DEFINE q == Tail(cache)
  <2>1. w = "refused" /\ DropFirst(q, after)
    BY <1>9, <1>11
  <2>4. /\ IsHistory(outcome) /\ IsHistory(after) /\ x \in OpenIn(outcome)
        /\ after[x[1]][x[2]] \in {"delivered", "refused"}
        /\ q \in Seq(OwnEntry) /\ Cmds(q) \subseteq OpenIn(after)
        /\ Closes(outcome, after) /\ LosesNone(outcome, after)
    BY <1>2, <1>4, <1>5, <1>6, <1>8
  <2> HIDE DEF q
  <2>2. /\ Closes(outcome, outcome')
        /\ \A c \in Clients : \A n \in 1..Sends[c] :
              outcome[c][n] # "lost" /\ outcome'[c][n] = "lost" =>
                 /\ x # <<c, n>> /\ outcome'[x[1]][x[2]] = after[x[1]][x[2]]
                 /\ LosesOnly(outcome, outcome', <<c, n>>)
    BY ONLY <2>1, <2>4, RefuseThenDrop
  <2>3. ASSUME NEW c \in Clients, NEW n \in 1..Sends[c],
               outcome[c][n] # "lost", outcome'[c][n] = "lost"
        PROVE  /\ cache # <<>> /\ x # <<c, n>> /\ outcome[x[1]][x[2]] = "open"
               /\ outcome'[x[1]][x[2]] = "refused" /\ LosesOnly(outcome, outcome', <<c, n>>)
    BY <1>2, <1>6, <1>7, <2>1, <2>2, <2>3
  <2> QED
    BY <2>2, <2>3 DEF Closing, x
<1> QED
  BY <1>10, <1>11

LEMMA UnknownCloses ==
    ASSUME Inv, Single, ExecuteUnknown
    PROVE  Closing
<1> DEFINE x == Head1.cmd
<1>1. PICK q \in Seq(OwnEntry), gone \in SUBSET Cached : \E what :
              /\ DropFirst(q, what) /\ IsHistory(what)
              /\ Distinct(q) /\ Cmds(q) = Cached \ gone /\ Head1.cmd \in gone
              /\ \A c \in Clients : \A n \in 1..Sends[c] :
                    what[c][n] = IF <<c, n>> \in gone THEN "refused" ELSE outcome[c][n]
  BY UnknownParts
<1>2. PICK what :
              /\ DropFirst(q, what) /\ IsHistory(what)
              /\ Distinct(q) /\ Cmds(q) = Cached \ gone /\ Head1.cmd \in gone
              /\ \A c \in Clients : \A n \in 1..Sends[c] :
                    what[c][n] = IF <<c, n>> \in gone THEN "refused" ELSE outcome[c][n]
  BY <1>1
<1>3. gone \subseteq OpenIn(outcome) /\ IsHistory(outcome) /\ cache # <<>>
  BY DEF Single, Inv, TypeOK, ExecuteUnknown
<1>4. \A c \in Clients : \A n \in 1..Sends[c] : <<c, n>> \in gone => outcome[c][n] = "open"
  BY <1>3 DEF OpenIn
<1>5. Closes(outcome, what) /\ LosesNone(outcome, what)
  BY <1>2, <1>4 DEF Closes, LosesNone
<1>6. /\ x \in OpenIn(outcome) /\ outcome[x[1]][x[2]] = "open" /\ what[x[1]][x[2]] = "refused"
  <2>1. x \in gone
    BY <1>2
  <2>2. x \in OpenIn(outcome)
    BY <1>3, <2>1
  <2> HIDE DEF x
  <2> QED
    BY <1>2, <2>1, <2>2, OpenIsOpen
<1>7. Cmds(q) \subseteq OpenIn(what)
  <2>1. \A y \in Clients \X Nat : y = <<y[1], y[2]>> /\ y[1] \in Clients
    OBVIOUS
  <2>2. OpenIn(what) = OpenIn(outcome) \ gone
    BY <1>2, <2>1 DEF OpenIn
  <2> QED
    BY <1>2, <2>2 DEF Single
<1> HIDE DEF x
<1>8. /\ Closes(outcome, outcome')
      /\ \A c \in Clients : \A n \in 1..Sends[c] :
            outcome[c][n] # "lost" /\ outcome'[c][n] = "lost" =>
               /\ x # <<c, n>> /\ outcome'[x[1]][x[2]] = what[x[1]][x[2]]
               /\ LosesOnly(outcome, outcome', <<c, n>>)
  BY <1>2, <1>3, <1>5, <1>6, <1>7, RefuseThenDrop
<1>9. ASSUME NEW c \in Clients, NEW n \in 1..Sends[c],
             outcome[c][n] # "lost", outcome'[c][n] = "lost"
      PROVE  /\ cache # <<>> /\ x # <<c, n>> /\ outcome[x[1]][x[2]] = "open"
             /\ outcome'[x[1]][x[2]] = "refused" /\ LosesOnly(outcome, outcome', <<c, n>>)
  BY <1>3, <1>6, <1>8, <1>9
<1> QED
  BY <1>8, <1>9 DEF Closing, x

\* A client's thread takes up one command and refuses at most the one it holds.
LEMMA ThreadOutcome ==
    ASSUME Inv, Single, NEW d \in Clients, Admit(d) \/ Refuse(d) \/ Proceed(d) \/ Leave(d),
           NEW c \in Clients, NEW n \in 1..Sends[c]
    PROVE  /\ \/ outcome'[c][n] = outcome[c][n]
              \/ /\ outcome[c][n] = "unsent" /\ outcome'[c][n] \in {"open", "refused"}
                 /\ n = sent[c] + 1 /\ sent'[c] = n
              \/ outcome[c][n] = "open" /\ outcome'[c][n] \in {"delivered", "refused", "lost"}
           /\ outcome'[c][n] = "lost" => outcome[c][n] = "lost"
<1>1. /\ IsHistory(outcome) /\ sent \in [Clients -> Nat] /\ Sends \in [Clients -> Nat]
      /\ {"open", "refused"} \subseteq Outcomes
  BY FlowAssumption DEF Inv, TypeOK, Outcomes
<1>2. CASE Admit(d) \/ Refuse(d)
  <2>1. PICK w \in {"open", "refused"} : Become(d, sent[d] + 1, w)
    BY <1>2 DEF Admit, Refuse
  <2>2. sent[d] < Sends[d] /\ sent' = [sent EXCEPT ![d] = sent[d] + 1]
    BY <1>2 DEF Admit, Refuse
  <2>3. <<d, sent[d] + 1>> \in Clients \X Nat /\ sent[d] + 1 \in 1..Sends[d]
    BY <1>1, <2>2
  <2>4. outcome'[c][n] = IF <<c, n>> = <<d, sent[d] + 1>> THEN w ELSE outcome[c][n]
    BY <1>1, <2>1, <2>3, MarkedIsHistory DEF Become
  <2>5. outcome[d][sent[d] + 1] = "unsent"
    BY <1>1, <2>3 DEF Single, Later
  <2>6. sent'[d] = sent[d] + 1
    BY <1>1, <2>2
  <2> QED
    BY <2>4, <2>5, <2>6
<1>3. CASE FailLimit(d)
  <2>1. Go(d, "limit", "read") /\ Become(d, sent[d], "refused") /\ pc[d] = "limit"
    BY <1>3 DEF FailLimit, Go
  <2>2. <<d, sent[d]>> \in OpenIn(outcome)
    BY <2>1 DEF Single, Hands, InHand
  <2>3. <<d, sent[d]>> \in Clients \X Nat /\ outcome[d][sent[d]] = "open"
    BY <2>2 DEF OpenIn
  <2>4. outcome'[c][n] = IF <<c, n>> = <<d, sent[d]>> THEN "refused" ELSE outcome[c][n]
    BY <1>1, <2>1, <2>3, MarkedIsHistory DEF Become
  <2> QED
    BY <2>3, <2>4
<1>4. CASE ~Admit(d) /\ ~Refuse(d) /\ ~FailLimit(d)
  <2>1. outcome' = outcome
    BY <1>4 DEF Proceed, PassLimit, Insert, Wake, LoadCount, StoreCount, Remove, Leave
  <2> QED
    BY <2>1
<1> QED
  BY <1>2, <1>3, <1>4

LEMMA ExecuteCloses ==
    ASSUME Inv, Single, ExecuteThread \/ SpuriousWakeup \/ UNCHANGED vars
    PROVE  Closing
<1>1. CASE Forward
  BY <1>1, FinishCloses DEF Forward
<1>2. CASE ForwardFails
  BY <1>2, FinishCloses DEF ForwardFails
<1>3. CASE Execute
  BY <1>3, FinishCloses DEF Execute
<1>4. CASE ExecuteFails
  BY <1>4, FinishCloses DEF ExecuteFails
<1>5. CASE Terminate
  BY <1>5, FinishCloses DEF Terminate
<1>6. CASE ExecuteUnknown
  BY <1>6, UnknownCloses
<1>7. CASE RequeueBusy \/ RequeueReparsed
  BY <1>7, UnchangedCloses DEF RequeueBusy, RequeueReparsed, Requeue
<1>8. CASE LoopHead \/ Check \/ Sleep \/ Fetch \/ ExecuteEnd \/ ExecuteKnown \/ Decrement \/ Settle
  BY <1>8, UnchangedCloses
     DEF LoopHead, Check, Sleep, Fetch, ExecuteEnd, ExecuteKnown, Decrement, Settle
<1>9. CASE SpuriousWakeup \/ UNCHANGED vars
  BY <1>9, UnchangedCloses DEF SpuriousWakeup, vars
<1> QED
  BY <1>1, <1>2, <1>3, <1>4, <1>5, <1>6, <1>7, <1>8, <1>9 DEF ExecuteThread, Deliver

LEMMA OutcomeStep ==
    ASSUME Inv, Single, [Next]_vars, NEW c \in Clients, NEW n \in 1..Sends[c]
    PROVE  /\ \/ outcome'[c][n] = outcome[c][n]
              \/ /\ outcome[c][n] = "unsent" /\ outcome'[c][n] \in {"open", "refused"}
                 /\ n = sent[c] + 1 /\ sent'[c] = n
              \/ outcome[c][n] = "open" /\ outcome'[c][n] \in {"delivered", "refused", "lost"}
           /\ outcome[c][n] # "lost" /\ outcome'[c][n] = "lost" => Closing
<1>1. CASE \E d \in Clients : Admit(d) \/ Refuse(d) \/ Proceed(d) \/ Leave(d)
  BY <1>1, ThreadOutcome
<1>2. CASE ExecuteThread \/ SpuriousWakeup \/ UNCHANGED vars
  BY <1>2, ExecuteCloses DEF Closing, Closes
<1> QED
  BY <1>1, <1>2 DEF Next

THEOREM PlaceInvariance == Spec => [](Inv /\ Single)
BY SingleInit, SingleStep, Invariance, PTL DEF Spec

\* Every command gets at most one outcome, and keeps it.
THEOREM NobodyAnsweredTwice == Spec => OutcomeIsFinal
<1>1. Inv /\ Single /\ [Next]_vars =>
         [\A c \in Clients : \A n \in 1..Sends[c] :
             \/ outcome'[c][n] = outcome[c][n]
             \/ /\ outcome[c][n] = "unsent" /\ outcome'[c][n] \in {"open", "refused"}
                /\ n = sent[c] + 1 /\ sent'[c] = n
             \/ outcome[c][n] = "open" /\ outcome'[c][n] \in {"delivered", "refused", "lost"}]_vars
  BY OutcomeStep
<1> QED
  BY <1>1, PlaceInvariance, PTL DEF Spec, OutcomeIsFinal

\* A step loses one command at most, and only one that refuses the first.
THEOREM LossIsLimited == Spec => LossFollowsRefusal
<1>1. Inv /\ Single /\ [Next]_vars =>
         [\A c \in Clients : \A n \in 1..Sends[c] :
             outcome[c][n] # "lost" /\ outcome'[c][n] = "lost" =>
                /\ cache # <<>> /\ Head1.cmd # <<c, n>>
                /\ outcome[Head1.cmd[1]][Head1.cmd[2]] = "open"
                /\ outcome'[Head1.cmd[1]][Head1.cmd[2]] = "refused"
                /\ LosesOnly(outcome, outcome', <<c, n>>)]_vars
  BY OutcomeStep DEF Closing
<1> QED
  BY <1>1, PlaceInvariance, PTL DEF Spec, LossFollowsRefusal

=============================================================================
