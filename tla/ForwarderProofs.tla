-------------------------- MODULE ForwarderProofs --------------------------
(***************************************************************************)
(* Proofs about Forwarder, for every set of clients and of numbers, every  *)
(* limit and any number of connections.                                    *)
(***************************************************************************)
EXTENDS Forwarder, FiniteSetTheorems, TLAPS

\* What the threads hold between two locked functions: a connection that is not
\* in the list yet is held by one of them alone.
Hands ==
    /\ qpc = "add" => qc \in Conns /\ conn[qc] = "held"
    /\ apc = "add" => ac \in Conns /\ conn[ac] = "held"
    /\ qpc = "add" /\ apc = "add" => qc # ac
    /\ apc \in {"accept", "bad", "add"} => al \in Listens
    /\ qpc = "found" => qc \in Conns /\ qx \in Clients
    /\ ipc = "drop" => ic \in Conns
    /\ mpc \in {"put", "drop"} => mc \in Conns

\* Numbers that are still to be given are those of no connection.
Fresh == \A c \in Conns : c > opened => conn[c] = "none"

\* Only what is counted is marked with a listening socket, or as old.
Marks ==
    /\ old \subseteq Counted
    /\ \A c \in Conns : via[c] # NoListen => c \in Counted

\* Nothing is known of a number that nobody listens on.
Closed == \A l \in Listens \ listening : count[l] = 0 /\ Own(l) = {}

\* The inductive invariant.  That the counts are exact depends on a new socket
\* with an old number starting from none, and on nothing being counted twice.
Books == TablesTyped /\ Fresh /\ Marks /\ Closed /\ CountsExact
IInv == ThreadsTyped /\ Hands /\ Books /\ StolenAlone

-----------------------------------------------------------------------------
(* The operations on the tables. *)

LEMMA Finite ==
    /\ IsFiniteSet(Conns)
    /\ \A S \in SUBSET Conns : IsFiniteSet(S) /\ Cardinality(S) \in Nat
<1>1. IsFiniteSet(Conns)
  BY FS_Interval, ForwarderAssumption DEF Conns
<1>2. ASSUME NEW S \in SUBSET Conns
      PROVE  IsFiniteSet(S) /\ Cardinality(S) \in Nat
  BY <1>1, FS_Subset, FS_CardinalityType
<1> QED
  BY <1>1, <1>2

\* What leaves the tables alone leaves the books as they were.
LEMMA Quiet ==
    ASSUME Books, UNCHANGED <<table, counts>>
    PROVE  Books'
<1> QED
  BY DEF Books, TablesTyped, Fresh, Marks, Closed, CountsExact, Counted, Own, table, counts

\* So does a change of what is reserved.
LEMMA QuietReserved ==
    ASSUME Books, UNCHANGED <<conn, via, old, opened, counts>>,
           resv' \in [Conns -> Clients \cup {NoOne}]
    PROVE  Books'
<1> QED
  BY DEF Books, TablesTyped, Fresh, Marks, Closed, CountsExact, Counted, Own, counts

\* A connection is made: it is not counted yet.
LEMMA OpenKeeps ==
    ASSUME Books, NEW c \in Conns, Open(c),
           conn' = [conn EXCEPT ![c] = "held"],
           UNCHANGED <<via, resv, old, counts>>
    PROVE  Books'
<1>1. conn[c] = "none" /\ opened \in Nat /\ c \in Nat
  BY ForwarderAssumption DEF Open, Books, Fresh, TablesTyped, Conns
<1>2. Counted' = Counted
  BY <1>1 DEF Counted, TablesTyped, Books
<1>3. \A k \in Listens : Own(k)' = Own(k)
  BY <1>2 DEF Own
<1>4. Fresh' /\ TablesTyped'
  BY <1>1 DEF Fresh, Books, Open, TablesTyped, Conns, counts
<1> QED
  BY <1>2, <1>3, <1>4 DEF Books, Marks, Closed, CountsExact, counts, TablesTyped

\* A connection that is held and dropped was never counted.
LEMMA RefuseKeeps ==
    ASSUME Books, NEW c \in Conns, conn[c] = "held",
           conn' = [conn EXCEPT ![c] = "gone"],
           UNCHANGED <<via, resv, old, opened, counts>>
    PROVE  Books'
<1>1. Counted' = Counted
  BY DEF Counted, TablesTyped, Books
<1>2. \A k \in Listens : Own(k)' = Own(k)
  BY <1>1 DEF Own
<1>3. Fresh' /\ TablesTyped'
  BY DEF Fresh, Books, TablesTyped, Conns, counts
<1> QED
  BY <1>1, <1>2, <1>3 DEF Books, Marks, Closed, CountsExact, counts, TablesTyped

LEMMA AddKeeps ==
    ASSUME Books, NEW c \in Conns, conn[c] = "held",
           NEW l \in Listens \cup {NoListen}, Add(c, l),
           UNCHANGED <<resv, opened, listening, robbed, binds>>
    PROVE  Books'
<1>1. CASE ~Room(l)
  BY <1>1, RefuseKeeps DEF Add, counts
<1>2. CASE Room(l)
  <2>1. /\ conn' = [conn EXCEPT ![c] = "listed"]
        /\ via' = [via EXCEPT ![c] = l]
        /\ old' = IF l \in listening \cup {NoListen} THEN old ELSE old \cup {c}
        /\ count' = IF l \in listening THEN [count EXCEPT ![l] = @ + 1] ELSE count
        /\ total' = total + 1
    BY <1>2 DEF Add
  <2>2. c \notin Counted /\ c \notin old /\ Counted \in SUBSET Conns
    BY DEF Counted, Books, Marks
  <2>3. Counted' = Counted \cup {c}
    BY <2>1 DEF Counted, TablesTyped, Books
  <2>4. Cardinality(Counted') = Cardinality(Counted) + 1
    BY <2>2, <2>3, Finite, FS_AddElement
  <2>5. \A k \in Listens : Own(k) \in SUBSET Conns /\ c \notin Own(k)
    BY <2>2 DEF Own
  <2>6. \A k \in Listens : Own(k)' = IF k = l /\ l \in listening THEN Own(k) \cup {c} ELSE Own(k)
    BY <2>1, <2>2, <2>3, ForwarderAssumption DEF Own, TablesTyped, Books
  <2>7. \A k \in Listens : Cardinality(Own(k)) \in Nat /\ Cardinality(Own(k) \cup {c}) = Cardinality(Own(k)) + 1
    BY <2>5, Finite, FS_AddElement
  <2>8. Fresh' /\ TablesTyped'
    BY <2>1 DEF Fresh, Books, TablesTyped, Conns
  <2>9. Marks'
    BY <2>1, <2>2, <2>3 DEF Marks, Books, TablesTyped
  <2>10. Closed'
    BY <2>1, <2>6 DEF Closed, Books, TablesTyped
  <2>11. CountsExact'
    <3>1. total' = Cardinality(Counted') /\ (TotalMax # 0 => total' <= TotalMax)
      BY <1>2, <2>1, <2>4, ForwarderAssumption DEF Room, Below, Books, CountsExact, TablesTyped
    <3>2. ASSUME NEW k \in listening
          PROVE  /\ count'[k] <= Cardinality(Own(k)')
                 /\ Cardinality(Own(k)') <= count'[k] + robbed[k]
                 /\ ListenMax # 0 => count'[k] <= ListenMax
      <4>1. k \in Listens /\ count[k] \in Nat /\ robbed[k] \in Nat
        BY DEF TablesTyped, Books
      <4>2. /\ count[k] <= Cardinality(Own(k))
            /\ Cardinality(Own(k)) <= count[k] + robbed[k]
            /\ ListenMax # 0 => count[k] <= ListenMax
        BY DEF Books, CountsExact
      <4>3. CASE k = l
        <5>1. count'[k] = count[k] + 1
          BY <2>1, <4>3 DEF TablesTyped, Books
        <5>2. Cardinality(Own(k)') = Cardinality(Own(k)) + 1
          BY <2>6, <2>7, <4>1, <4>3
        <5>3. ListenMax = 0 \/ count[k] < ListenMax
          BY <1>2, <4>3 DEF Room, Below
        <5>4. Cardinality(Own(k)) \in Nat /\ ListenMax \in Nat
          BY <2>7, <4>1, ForwarderAssumption
        <5> QED
          BY <4>1, <4>2, <5>1, <5>2, <5>3, <5>4
      <4>4. CASE k # l
        BY <2>1, <2>6, <4>1, <4>2, <4>4 DEF TablesTyped, Books
      <4> QED
        BY <4>3, <4>4
    <3> QED
      BY <3>1, <3>2 DEF CountsExact
  <2> QED
    BY <2>8, <2>9, <2>10, <2>11 DEF Books
<1> QED
  BY <1>1, <1>2

\* A stolen connection goes on being counted.
LEMMA StealKeeps ==
    ASSUME Books, NEW c \in Listed,
           conn' = [conn EXCEPT ![c] = "stolen"],
           resv' = [resv EXCEPT ![c] = NoOne],
           UNCHANGED <<via, old, opened, counts>>
    PROVE  Books'
<1>1. Counted' = Counted
  BY DEF Counted, Listed, TablesTyped, Books
<1>2. \A k \in Listens : Own(k)' = Own(k)
  BY <1>1 DEF Own
<1>3. Fresh' /\ TablesTyped'
  BY DEF Fresh, Books, Listed, TablesTyped, Conns, counts
<1> QED
  BY <1>1, <1>2, <1>3 DEF Books, Marks, Closed, CountsExact, counts, TablesTyped

LEMMA RemoveKeeps ==
    ASSUME Books, StolenAlone, NEW c \in Conns, Remove(c),
           UNCHANGED <<opened, listening, binds>>
    PROVE  /\ Books' /\ StolenAlone'
           /\ \A d \in Conns : conn[d] = "held" => conn'[d] = "held"
<1>1. CASE c \notin Listed
  BY <1>1, QuietReserved DEF Remove, counts, StolenAlone, Books, TablesTyped
<1>2. CASE c \in Listed
  <2> DEFINE l == via[c]
  <2>1. /\ conn' = [conn EXCEPT ![c] = "gone"]
        /\ via' = [via EXCEPT ![c] = NoListen]
        /\ resv' = [resv EXCEPT ![c] = NoOne]
        /\ old' = old \ {c}
        /\ total' = Less(total)
        /\ count' = IF l \in listening /\ count[l] > 0 THEN [count EXCEPT ![l] = @ - 1] ELSE count
        /\ robbed' = IF l \in listening /\ count[l] > 0 /\ c \in old
                     THEN [robbed EXCEPT ![l] = @ + 1] ELSE robbed
        /\ Touch(c)
    BY <1>2 DEF Remove, Uncount
  <2>2. c \in Counted /\ Counted \in SUBSET Conns
    BY <1>2 DEF Counted, Listed
  <2>3. Counted' = Counted \ {c}
    BY <2>1 DEF Counted, TablesTyped, Books
  <2>4. /\ Cardinality(Counted) \in Nat
        /\ Cardinality(Counted') = Cardinality(Counted) - 1
        /\ Cardinality(Counted') \in Nat
    BY <2>2, <2>3, Finite, FS_RemoveElement
  <2>5. \A k \in Listens : Own(k) \in SUBSET Conns
    BY <2>2 DEF Own
  <2>6. \A k \in Listens : Own(k)' = Own(k) \ {c}
    BY <2>1, <2>2, <2>3 DEF Own, TablesTyped, Books
  <2>7. \A k \in Listens :
            /\ Cardinality(Own(k)) \in Nat
            /\ Cardinality(Own(k)') \in Nat
            /\ Cardinality(Own(k)') = IF c \in Own(k) THEN Cardinality(Own(k)) - 1 ELSE Cardinality(Own(k))
    BY <2>5, <2>6, Finite, FS_RemoveElement
  <2>8. StolenAlone'
    BY <1>2, <2>1 DEF StolenAlone, Touch, Listed
  <2>9. Fresh'
    BY <1>2, <2>1 DEF Fresh, Books, Listed, TablesTyped, Conns
  <2>10. TablesTyped'
    BY <2>1 DEF Books, TablesTyped, Less
  <2>11. Marks'
    BY <2>1, <2>3 DEF Marks, Books, TablesTyped
  <2>12. Closed'
    BY <2>1, <2>6 DEF Closed, Books, TablesTyped
  <2>13. CountsExact'
    <3>1. total' = Cardinality(Counted') /\ (TotalMax # 0 => total' <= TotalMax)
      BY <2>1, <2>4, ForwarderAssumption DEF Less, Books, CountsExact, TablesTyped
    <3>2. ASSUME NEW k \in listening
          PROVE  /\ count'[k] <= Cardinality(Own(k)')
                 /\ Cardinality(Own(k)') <= count'[k] + robbed'[k]
                 /\ ListenMax # 0 => count'[k] <= ListenMax
      <4>1. k \in Listens /\ count[k] \in Nat /\ robbed[k] \in Nat
        BY DEF TablesTyped, Books
      <4>2. /\ count[k] <= Cardinality(Own(k))
            /\ Cardinality(Own(k)) <= count[k] + robbed[k]
            /\ ListenMax # 0 => count[k] <= ListenMax
        BY DEF Books, CountsExact
      <4>3. CASE k # l
        <5>1. c \notin Own(k)
          BY <4>3 DEF Own
        <5> QED
          BY <2>1, <2>7, <4>1, <4>2, <4>3, <5>1 DEF TablesTyped, Books
      <4>4. CASE k = l /\ c \in old
        <5>1. c \notin Own(k)
          BY <4>4 DEF Own
        <5>2. Cardinality(Own(k)') = Cardinality(Own(k)) /\ Cardinality(Own(k)) \in Nat
          BY <2>7, <4>1, <5>1
        <5>3. \/ count'[k] = count[k] - 1 /\ robbed'[k] = robbed[k] + 1
              \/ count'[k] = count[k] /\ robbed'[k] = robbed[k]
          BY <2>1, <4>1, <4>4 DEF TablesTyped, Books
        <5> QED
          BY <4>1, <4>2, <5>2, <5>3, ForwarderAssumption
      <4>5. CASE k = l /\ c \notin old
        <5>1. c \in Own(k)
          BY <2>2, <4>5 DEF Own
        <5>2. /\ Cardinality(Own(k)') = Cardinality(Own(k)) - 1
              /\ Cardinality(Own(k)) \in Nat /\ Cardinality(Own(k)') \in Nat
          BY <2>7, <4>1, <5>1
        <5>3. /\ robbed'[k] = robbed[k]
              /\ count'[k] = IF count[k] > 0 THEN count[k] - 1 ELSE count[k]
          BY <2>1, <4>1, <4>5 DEF TablesTyped, Books
        <5> QED
          BY <4>1, <4>2, <5>2, <5>3, ForwarderAssumption
      <4> QED
        BY <4>3, <4>4, <4>5
    <3> QED
      BY <2>1, <3>1, <3>2 DEF CountsExact
  <2> QED
    BY <1>2, <2>1, <2>8, <2>9, <2>11, <2>12, <2>13, <2>10 DEF Books, TablesTyped, Listed
<1> QED
  BY <1>1, <1>2

LEMMA UnlistenKeeps ==
    ASSUME Books, NEW l \in Listens, Close(l),
           UNCHANGED <<conn, via, resv, opened, total, binds>>
    PROVE  Books'
<1>1. CASE l \notin listening
  BY <1>1, QuietReserved DEF Close, counts, Books, TablesTyped
<1>2. CASE l \in listening
  <2>1. /\ listening' = listening \ {l}
        /\ count' = [count EXCEPT ![l] = 0]
        /\ robbed' = [robbed EXCEPT ![l] = 0]
        /\ old' = old \cup {c \in Conns : via[c] = l}
    BY <1>2 DEF Close
  <2>2. Counted' = Counted
    BY DEF Counted
  <2>3. Own(l)' = {}
    BY <2>1 DEF Own, Counted
  <2>4. \A k \in Listens \ {l} : Own(k)' = Own(k)
    BY <2>1, <2>2 DEF Own
  <2>5. Fresh' /\ TablesTyped'
    BY <2>1 DEF Fresh, Books, TablesTyped
  <2>6. Marks'
    BY <2>1, <2>2, ForwarderAssumption DEF Marks, Books
  <2>7. Closed'
    BY <2>1, <2>3, <2>4 DEF Closed, Books, TablesTyped
  <2>8. CountsExact'
    BY <2>1, <2>2, <2>4 DEF CountsExact, Books, TablesTyped
  <2> QED
    BY <2>5, <2>6, <2>7, <2>8 DEF Books
<1> QED
  BY <1>1, <1>2

LEMMA BindKeeps ==
    ASSUME Books, NEW l \in Listens \ listening,
           listening' = listening \cup {l}, binds' \in 0..Binds,
           UNCHANGED <<table, count, robbed, total>>
    PROVE  Books'
<1>1. Counted' = Counted /\ \A k \in Listens : Own(k)' = Own(k)
  BY DEF Counted, Own, table
<1>2. Own(l) = {} /\ count[l] = 0 /\ robbed[l] \in Nat /\ Cardinality(Own(l)) = 0
  BY FS_EmptySet DEF Books, Closed, TablesTyped
<1>3. CountsExact'
  <2>1. total' = Cardinality(Counted') /\ (TotalMax # 0 => total' <= TotalMax)
    BY <1>1 DEF Books, CountsExact
  <2>2. ASSUME NEW k \in listening'
        PROVE  /\ count'[k] <= Cardinality(Own(k)')
               /\ Cardinality(Own(k)') <= count'[k] + robbed'[k]
               /\ ListenMax # 0 => count'[k] <= ListenMax
    <3>1. k \in Listens /\ Own(k)' = Own(k)
      BY <1>1 DEF TablesTyped, Books
    <3>2. CASE k = l
      <4>1. ListenMax \in Nat
        BY ForwarderAssumption
      <4> QED
        BY <1>2, <3>1, <3>2, <4>1
    <3>3. CASE k # l
      BY <3>1, <3>3 DEF Books, CountsExact
    <3> QED
      BY <3>2, <3>3
  <2> QED
    BY <2>1, <2>2 DEF CountsExact
<1>4. Closed'
  BY <1>1 DEF Books, Closed
<1>5. Fresh' /\ Marks' /\ TablesTyped'
  BY <1>1 DEF Books, Fresh, Marks, TablesTyped, table
<1> QED
  BY <1>3, <1>4, <1>5 DEF Books

-----------------------------------------------------------------------------
(* The steps. *)

\* What clients ask for.
LEMMA RequestKeeps ==
    ASSUME IInv, Request
    PROVE  IInv'
<1> USE ForwarderAssumption DEF IInv, ThreadsTyped, table, counts, hook, accepting, input, main, wakeups
<1>1. CASE Initiate
  <2>1. ThreadsTyped'
    BY <1>1 DEF Initiate, Hook, Open, Conns, Books, TablesTyped, Fresh
  <2>2. Hands'
    BY <1>1 DEF Initiate, Hook, Open, Conns, Books, TablesTyped, Fresh, Hands
  <2>3. Books' /\ StolenAlone'
    <3>1. PICK c \in Conns : Open(c) /\ conn' = [conn EXCEPT ![c] = "held"]
      BY <1>1 DEF Initiate
    <3> QED
      BY <1>1, <3>1, OpenKeeps DEF Initiate, StolenAlone
  <2> QED
    BY <2>1, <2>2, <2>3 DEF IInv
<1>2. CASE \E x \in Clients : ClientGone(x)
  <2>1. ThreadsTyped'
    BY <1>2 DEF ClientGone
  <2>2. Hands'
    BY <1>2 DEF ClientGone, Hands
  <2>3. Books' /\ StolenAlone'
    BY <1>2, QuietReserved DEF ClientGone, StolenAlone, Books, TablesTyped
  <2> QED
    BY <2>1, <2>2, <2>3 DEF IInv
<1>3. CASE \E x \in Clients, c \in Conns : FindFor(x, c)
  <2>1. ThreadsTyped'
    BY <1>3 DEF FindFor, Found, Hook, Conns
  <2>2. Hands'
    BY <1>3 DEF FindFor, Found, Hook, Conns, Hands
  <2>3. Books' /\ StolenAlone'
    BY <1>3, Quiet DEF FindFor, Found, Hook, Conns, StolenAlone
  <2> QED
    BY <2>1, <2>2, <2>3 DEF IInv
<1>4. CASE \E l \in Listens : Bind(l)
  <2>1. ThreadsTyped'
    BY <1>4 DEF Bind, Hook
  <2>2. Hands'
    BY <1>4 DEF Bind, Hook, Hands
  <2>3. Books' /\ StolenAlone'
    BY <1>4, BindKeeps DEF Bind, StolenAlone, Books, TablesTyped
  <2> QED
    BY <2>1, <2>2, <2>3 DEF IInv
<1>5. CASE \E l \in Listens : Unlisten(l)
  <2>1. ThreadsTyped'
    BY <1>5 DEF Unlisten, Close
  <2>2. Hands'
    BY <1>5 DEF Unlisten, Close, Hands
  <2>3. Books' /\ StolenAlone'
    BY <1>5, UnlistenKeeps DEF Unlisten, StolenAlone
  <2> QED
    BY <2>1, <2>2, <2>3 DEF IInv
<1> QED
  BY <1>1, <1>2, <1>3, <1>4, <1>5 DEF Request

\* The hooks.
LEMMA HookKeeps ==
    ASSUME IInv, HookStep
    PROVE  IInv'
<1> USE ForwarderAssumption DEF IInv, ThreadsTyped, table, counts, hook, accepting, input, main, wakeups
<1>1. CASE AddInitiated
  <2>1. ThreadsTyped'
    BY <1>1 DEF AddInitiated, Add, NoConn, Books, TablesTyped
  <2>2. Hands'
    BY <1>1 DEF AddInitiated, Add, NoConn, Books, TablesTyped, Hands
  <2>3. Books' /\ StolenAlone'
    BY <1>1, AddKeeps DEF AddInitiated, Hands, StolenAlone
  <2> QED
    BY <2>1, <2>2, <2>3 DEF IInv
<1>2. CASE HookWakes
  <2>1. ThreadsTyped'
    <3>1. cond' \in BOOLEAN /\ ideaf' \in BOOLEAN /\ adeaf' \in BOOLEAN
      BY <1>2 DEF HookWakes, Hook, WakeInput, WakeSelect
    <3> QED
      BY <1>2, <3>1 DEF HookWakes, Hook, WakeInput, WakeSelect
  <2>2. Hands'
    BY <1>2 DEF HookWakes, Hook, WakeInput, WakeSelect, Hands
  <2>3. Books' /\ StolenAlone'
    BY <1>2, Quiet DEF HookWakes, Hook, WakeInput, WakeSelect, StolenAlone
  <2> QED
    BY <2>1, <2>2, <2>3 DEF IInv
<1>3. CASE Disconnect
  <2>1. /\ Books' /\ StolenAlone'
        /\ \A d \in Conns : conn[d] = "held" => conn'[d] = "held"
    BY <1>3, RemoveKeeps DEF Disconnect, FoundDone, Hook, Hands
  <2>2. ThreadsTyped'
    BY <1>3, <2>1 DEF Disconnect, FoundDone, Hook, NoConn, StolenAlone
  <2>3. Hands'
    BY <1>3, <2>1 DEF Disconnect, FoundDone, Hook, NoConn, Hands
  <2> QED
    BY <2>1, <2>2, <2>3 DEF IInv
<1>4. CASE Reserve
  <2>1. ThreadsTyped'
    BY <1>4 DEF Reserve, FoundDone, Hook, NoConn
  <2>2. Hands'
    BY <1>4 DEF Reserve, FoundDone, Hook, NoConn, Hands
  <2>3. Books' /\ StolenAlone'
    BY <1>4, QuietReserved DEF Reserve, Hands, FoundDone, Hook, StolenAlone, Books, TablesTyped
  <2> QED
    BY <2>1, <2>2, <2>3 DEF IInv
<1>5. CASE Release
  <2>1. ThreadsTyped'
    BY <1>5 DEF Release, FoundDone, Hook, NoConn
  <2>2. Hands'
    BY <1>5 DEF Release, FoundDone, Hook, NoConn, Hands
  <2>3. Books' /\ StolenAlone'
    BY <1>5, QuietReserved DEF Release, StolenAlone, Books, TablesTyped
  <2> QED
    BY <2>1, <2>2, <2>3 DEF IInv
<1>6. CASE Steal
  <2>1. ThreadsTyped'
    BY <1>6 DEF Steal, FoundDone, Hook, Mine, Listed, NoConn
  <2>2. Hands'
    BY <1>6 DEF Steal, FoundDone, Hook, Mine, Listed, NoConn, Hands
  <2>3. Books' /\ StolenAlone'
    BY <1>6, StealKeeps DEF Steal, Mine, StolenAlone
  <2> QED
    BY <2>1, <2>2, <2>3 DEF IInv
<1>7. CASE StealWakes
  <2>1. ThreadsTyped'
    <3>1. cond' \in BOOLEAN /\ ideaf' \in BOOLEAN /\ adeaf' \in BOOLEAN
      BY <1>7 DEF StealWakes, Hook, SignalInput, WakeSelect
    <3> QED
      BY <1>7, <3>1 DEF StealWakes, Hook, SignalInput, WakeSelect
  <2>2. Hands'
    BY <1>7 DEF StealWakes, Hook, SignalInput, WakeSelect, Hands
  <2>3. Books' /\ StolenAlone'
    BY <1>7, Quiet DEF StealWakes, Hook, SignalInput, WakeSelect, StolenAlone
  <2> QED
    BY <2>1, <2>2, <2>3 DEF IInv
<1>8. CASE StartSelect
  <2>1. ThreadsTyped'
    <3>1. cond' \in BOOLEAN
      BY <1>8 DEF StartSelect
    <3>2. CASE apc = "none"
      BY <1>8, <3>1, <3>2 DEF StartSelect, Hook
    <3>3. CASE apc # "none"
      <4>1. adeaf' \in BOOLEAN
        BY <1>8, <3>3 DEF StartSelect
      <4> QED
        BY <1>8, <3>1, <3>3, <4>1 DEF StartSelect, Hook
    <3> QED
      BY <3>2, <3>3
  <2>2. Hands'
    BY <1>8 DEF StartSelect, Hook, Hands
  <2>3. Books' /\ StolenAlone'
    BY <1>8, Quiet DEF StartSelect, StolenAlone
  <2> QED
    BY <2>1, <2>2, <2>3 DEF IInv
<1> QED
  BY <1>1, <1>2, <1>3, <1>4, <1>5, <1>6, <1>7, <1>8 DEF HookStep

\* The accepting thread.
LEMMA AcceptKeeps ==
    ASSUME IInv, AcceptStep
    PROVE  IInv'
<1> USE ForwarderAssumption DEF IInv, ThreadsTyped, table, counts, hook, accepting, input, main, wakeups
<1>1. CASE FillListen
  <2>1. ThreadsTyped'
    BY <1>1 DEF FillListen, Books, TablesTyped
  <2>2. Hands'
    BY <1>1 DEF FillListen, Books, TablesTyped, Hands
  <2>3. Books' /\ StolenAlone'
    BY <1>1, Quiet DEF FillListen, Books, TablesTyped, StolenAlone
  <2> QED
    BY <2>1, <2>2, <2>3 DEF IInv
<1>2. CASE SelectListen
  <2>1. ThreadsTyped'
    BY <1>2 DEF SelectListen, Accepting
  <2>2. Hands'
    BY <1>2 DEF SelectListen, Accepting, Hands
  <2>3. Books' /\ StolenAlone'
    BY <1>2, Quiet DEF SelectListen, Accepting, StolenAlone
  <2> QED
    BY <2>1, <2>2, <2>3 DEF IInv
<1>3. CASE ServeEnd
  <2>1. ThreadsTyped'
    BY <1>3 DEF ServeEnd, Accepting
  <2>2. Hands'
    BY <1>3 DEF ServeEnd, Accepting, Hands
  <2>3. Books' /\ StolenAlone'
    BY <1>3, Quiet DEF ServeEnd, Accepting, StolenAlone
  <2> QED
    BY <2>1, <2>2, <2>3 DEF IInv
<1>4. CASE \E l \in Listens : Precheck(l)
  <2>1. ThreadsTyped'
    BY <1>4 DEF Precheck, Accepting, Next1
  <2>2. Hands'
    BY <1>4 DEF Precheck, Accepting, Next1, Hands
  <2>3. Books' /\ StolenAlone'
    BY <1>4, Quiet DEF Precheck, Accepting, Next1, StolenAlone
  <2> QED
    BY <2>1, <2>2, <2>3 DEF IInv
<1>5. CASE Accept
  <2>1. ThreadsTyped'
    <3>1. PICK c \in Conns : ac' = c
      BY <1>5 DEF Accept
    <3>2. ac' \in 0..Sockets
      BY <3>1, ForwarderAssumption DEF Conns
    <3> QED
      BY <1>5, <3>2 DEF Accept, Accepting
  <2>2. Hands'
    BY <1>5 DEF Accept, Accepting, Open, Conns, Books, TablesTyped, Fresh, Hands
  <2>3. Books' /\ StolenAlone'
    <3>1. PICK c \in Conns : Open(c) /\ conn' = [conn EXCEPT ![c] = "held"]
      BY <1>5 DEF Accept
    <3> QED
      BY <1>5, <3>1, OpenKeeps DEF Accept, StolenAlone
  <2> QED
    BY <2>1, <2>2, <2>3 DEF IInv
<1>6. CASE AcceptNothing
  <2>1. ThreadsTyped'
    BY <1>6 DEF AcceptNothing, Accepting, Next1
  <2>2. Hands'
    BY <1>6 DEF AcceptNothing, Accepting, Next1, Hands
  <2>3. Books' /\ StolenAlone'
    BY <1>6, Quiet DEF AcceptNothing, Accepting, Next1, StolenAlone
  <2> QED
    BY <2>1, <2>2, <2>3 DEF IInv
<1>7. CASE AcceptFails
  <2>1. ThreadsTyped'
    BY <1>7 DEF AcceptFails, Accepting
  <2>2. Hands'
    BY <1>7 DEF AcceptFails, Accepting, Hands
  <2>3. Books' /\ StolenAlone'
    BY <1>7, Quiet DEF AcceptFails, Accepting, StolenAlone
  <2> QED
    BY <2>1, <2>2, <2>3 DEF IInv
<1>8. CASE RemoveBad
  <2>1. ThreadsTyped'
    BY <1>8 DEF RemoveBad, Accepting, Close, Next1
  <2>2. Hands'
    BY <1>8 DEF RemoveBad, Accepting, Close, Next1, Hands
  <2>3. Books' /\ StolenAlone'
    BY <1>8, UnlistenKeeps DEF RemoveBad, Accepting, Hands, StolenAlone
  <2> QED
    BY <2>1, <2>2, <2>3 DEF IInv
<1>9. CASE FilterRefuses
  <2>1. ThreadsTyped'
    BY <1>9 DEF FilterRefuses, Accepting, Next1, NoConn
  <2>2. Hands'
    BY <1>9 DEF FilterRefuses, Accepting, Next1, NoConn, Hands
  <2>3. Books' /\ StolenAlone'
    BY <1>9, RefuseKeeps DEF FilterRefuses, Accepting, Hands, StolenAlone
  <2> QED
    BY <2>1, <2>2, <2>3 DEF IInv
<1>10. CASE AddAccepted
  <2>1. ThreadsTyped'
    BY <1>10 DEF AddAccepted, Add, Next1, NoConn, Books, TablesTyped
  <2>2. Hands'
    BY <1>10 DEF AddAccepted, Add, Next1, NoConn, Books, TablesTyped, Hands
  <2>3. Books' /\ StolenAlone'
    BY <1>10, AddKeeps DEF AddAccepted, Hands, StolenAlone
  <2> QED
    BY <2>1, <2>2, <2>3 DEF IInv
<1>11. CASE AcceptWakes
  <2>1. ThreadsTyped'
    <3>1. cond' \in BOOLEAN /\ ideaf' \in BOOLEAN /\ adeaf' \in BOOLEAN
      BY <1>11 DEF AcceptWakes, Accepting, WakeInput
    <3> QED
      BY <1>11, <3>1 DEF AcceptWakes, Accepting, WakeInput
  <2>2. Hands'
    BY <1>11 DEF AcceptWakes, Accepting, WakeInput, Hands
  <2>3. Books' /\ StolenAlone'
    BY <1>11, Quiet DEF AcceptWakes, Accepting, WakeInput, StolenAlone
  <2> QED
    BY <2>1, <2>2, <2>3 DEF IInv
<1>12. CASE Deactivate
  <2>1. ThreadsTyped'
    <3>1. cond' \in BOOLEAN /\ ideaf' \in BOOLEAN /\ adeaf' \in BOOLEAN
      BY <1>12 DEF Deactivate, Accepting
    <3> QED
      BY <1>12, <3>1 DEF Deactivate, Accepting
  <2>2. Hands'
    BY <1>12 DEF Deactivate, Accepting, Hands
  <2>3. Books' /\ StolenAlone'
    BY <1>12, Quiet DEF Deactivate, Accepting, StolenAlone
  <2> QED
    BY <2>1, <2>2, <2>3 DEF IInv
<1>13. CASE SelectEnd
  <2>1. ThreadsTyped'
    BY <1>13 DEF SelectEnd, Accepting
  <2>2. Hands'
    BY <1>13 DEF SelectEnd, Accepting, Hands
  <2>3. Books' /\ StolenAlone'
    BY <1>13, Quiet DEF SelectEnd, Accepting, StolenAlone
  <2> QED
    BY <2>1, <2>2, <2>3 DEF IInv
<1> QED
  BY <1>1, <1>2, <1>3, <1>4, <1>5, <1>6, <1>7, <1>8, <1>9, <1>10, <1>11, <1>12, <1>13 DEF AcceptStep

\* The input thread, and what wakes it.
LEMMA InputKeeps ==
    ASSUME IInv, InputStep \/ Ready \/ SpuriousWakeup
    PROVE  IInv'
<1> USE ForwarderAssumption DEF IInv, ThreadsTyped, table, counts, hook, accepting, input, main, wakeups
<1>1. CASE Look
  <2>1. ThreadsTyped'
    BY <1>1 DEF Look, Input
  <2>2. Hands'
    BY <1>1 DEF Look, Input, Hands
  <2>3. Books' /\ StolenAlone'
    BY <1>1, Quiet DEF Look, Input, StolenAlone
  <2> QED
    BY <2>1, <2>2, <2>3 DEF IInv
<1>2. CASE Block
  <2>1. ThreadsTyped'
    BY <1>2 DEF Block, Input
  <2>2. Hands'
    BY <1>2 DEF Block, Input, Hands
  <2>3. Books' /\ StolenAlone'
    BY <1>2, Quiet DEF Block, Input, StolenAlone
  <2> QED
    BY <2>1, <2>2, <2>3 DEF IInv
<1>3. CASE BlockInactive
  <2>1. ThreadsTyped'
    <3>1. cond' \in BOOLEAN /\ ideaf' \in BOOLEAN /\ adeaf' \in BOOLEAN
      BY <1>3 DEF BlockInactive
    <3> QED
      BY <1>3, <3>1 DEF BlockInactive
  <2>2. Hands'
    BY <1>3 DEF BlockInactive, Hands
  <2>3. Books' /\ StolenAlone'
    BY <1>3, Quiet DEF BlockInactive, StolenAlone
  <2> QED
    BY <2>1, <2>2, <2>3 DEF IInv
<1>4. CASE FillConnections
  <2>1. ThreadsTyped'
    BY <1>4 DEF FillConnections, Listed
  <2>2. Hands'
    BY <1>4 DEF FillConnections, Listed, Hands
  <2>3. Books' /\ StolenAlone'
    BY <1>4, Quiet DEF FillConnections, Listed, StolenAlone
  <2> QED
    BY <2>1, <2>2, <2>3 DEF IInv
<1>5. CASE SelectInput
  <2>1. ThreadsTyped'
    BY <1>5 DEF SelectInput, Input
  <2>2. Hands'
    BY <1>5 DEF SelectInput, Input, Hands
  <2>3. Books' /\ StolenAlone'
    BY <1>5, Quiet DEF SelectInput, Input, StolenAlone
  <2> QED
    BY <2>1, <2>2, <2>3 DEF IInv
<1>6. CASE RoundEnd
  <2>1. ThreadsTyped'
    BY <1>6 DEF RoundEnd, Input
  <2>2. Hands'
    BY <1>6 DEF RoundEnd, Input, Hands
  <2>3. Books' /\ StolenAlone'
    BY <1>6, Quiet DEF RoundEnd, Input, StolenAlone
  <2> QED
    BY <2>1, <2>2, <2>3 DEF IInv
<1>7. CASE \E c \in Conns : Receive(c)
  <2>1. Books' /\ StolenAlone'
    BY <1>7, Quiet DEF Receive, Touch, Listed, StolenAlone
  <2>2. ThreadsTyped'
    BY <1>7, <2>1 DEF Receive, Input, StolenAlone
  <2>3. Hands'
    BY <1>7, <2>1 DEF Receive, Input, Hands
  <2> QED
    BY <2>1, <2>2, <2>3 DEF IInv
<1>8. CASE \E c \in Conns : ReceiveFails(c)
  <2>1. Books' /\ StolenAlone'
    BY <1>8, Quiet DEF ReceiveFails, Touch, Listed, StolenAlone
  <2>2. ThreadsTyped'
    <3>1. cond' \in BOOLEAN /\ ideaf' \in BOOLEAN /\ adeaf' \in BOOLEAN
      BY <1>8, <2>1 DEF ReceiveFails, Input, Conns, StolenAlone
    <3> QED
      BY <1>8, <2>1, <3>1 DEF ReceiveFails, Input, Conns, StolenAlone
  <2>3. Hands'
    BY <1>8, <2>1 DEF ReceiveFails, Input, Conns, Hands
  <2> QED
    BY <2>1, <2>2, <2>3 DEF IInv
<1>9. CASE Drop
  <2>1. /\ Books' /\ StolenAlone'
        /\ \A d \in Conns : conn[d] = "held" => conn'[d] = "held"
    BY <1>9, RemoveKeeps DEF Drop, Input, Hands
  <2>2. ThreadsTyped'
    BY <1>9, <2>1 DEF Drop, Input, NoConn, StolenAlone
  <2>3. Hands'
    BY <1>9, <2>1 DEF Drop, Input, NoConn, Hands
  <2> QED
    BY <2>1, <2>2, <2>3 DEF IInv
<1>10. CASE Ready
  <2>1. ThreadsTyped'
    <3>1. cond' \in BOOLEAN /\ ideaf' \in BOOLEAN /\ adeaf' \in BOOLEAN
      BY <1>10 DEF Ready, Input
    <3> QED
      BY <1>10, <3>1 DEF Ready, Input
  <2>2. Hands'
    BY <1>10 DEF Ready, Input, Hands
  <2>3. Books' /\ StolenAlone'
    BY <1>10, Quiet DEF Ready, Input, StolenAlone
  <2> QED
    BY <2>1, <2>2, <2>3 DEF IInv
<1>11. CASE SpuriousWakeup
  <2>1. ThreadsTyped'
    <3>1. cond' \in BOOLEAN /\ ideaf' \in BOOLEAN /\ adeaf' \in BOOLEAN
      BY <1>11 DEF SpuriousWakeup, Input
    <3> QED
      BY <1>11, <3>1 DEF SpuriousWakeup, Input
  <2>2. Hands'
    BY <1>11 DEF SpuriousWakeup, Input, Hands
  <2>3. Books' /\ StolenAlone'
    BY <1>11, Quiet DEF SpuriousWakeup, Input, StolenAlone
  <2> QED
    BY <2>1, <2>2, <2>3 DEF IInv
<1> QED
  BY <1>1, <1>2, <1>3, <1>4, <1>5, <1>6, <1>7, <1>8, <1>9, <1>10, <1>11 DEF InputStep

\* The main thread.
LEMMA MainKeeps ==
    ASSUME IInv, MainStep
    PROVE  IInv'
<1> USE ForwarderAssumption DEF IInv, ThreadsTyped, table, counts, hook, accepting, input, main, wakeups
<1>1. CASE \E x \in Clients, c \in Conns : Forward(x, c)
  <2>1. ThreadsTyped'
    BY <1>1 DEF Forward, Conns
  <2>2. Hands'
    BY <1>1 DEF Forward, Conns, Hands
  <2>3. Books' /\ StolenAlone'
    BY <1>1, Quiet DEF Forward, Conns, StolenAlone
  <2> QED
    BY <2>1, <2>2, <2>3 DEF IInv
<1>2. CASE Put
  <2>1. Books' /\ StolenAlone'
    BY <1>2, Quiet DEF Put, Touch, Listed, StolenAlone
  <2>2. ThreadsTyped'
    BY <1>2, <2>1 DEF Put, NoConn, StolenAlone
  <2>3. Hands'
    BY <1>2, <2>1 DEF Put, NoConn, Hands
  <2> QED
    BY <2>1, <2>2, <2>3 DEF IInv
<1>3. CASE DropTarget
  <2>1. /\ Books' /\ StolenAlone'
        /\ \A d \in Conns : conn[d] = "held" => conn'[d] = "held"
    BY <1>3, RemoveKeeps DEF DropTarget, Hands
  <2>2. ThreadsTyped'
    BY <1>3, <2>1 DEF DropTarget, NoConn, StolenAlone
  <2>3. Hands'
    BY <1>3, <2>1 DEF DropTarget, NoConn, Hands
  <2> QED
    BY <2>1, <2>2, <2>3 DEF IInv
<1> QED
  BY <1>1, <1>2, <1>3 DEF MainStep

\* Somebody connects.
LEMMA ArrivalTyped ==
    ASSUME ThreadsTyped, Arrival
    PROVE  ThreadsTyped'
<1>1. /\ apc' = "serve" /\ awatch' = {} /\ adeaf' = FALSE
      /\ aready' \in SUBSET (awatch \cap listening)
      /\ UNCHANGED <<al, ac, cond, ideaf, touched, hook, input, main>>
  BY DEF Arrival, Accepting
<1>2. aready' \subseteq Listens /\ awatch' \subseteq Listens
  BY <1>1 DEF ThreadsTyped
<1>3. apc' \in {"none", "fill", "filled", "select", "serve", "accept", "bad", "add", "wake",
                "ending", "ended"}
  BY <1>1
<1>4. cond' \in BOOLEAN /\ ideaf' \in BOOLEAN /\ adeaf' \in BOOLEAN
  BY <1>1 DEF ThreadsTyped
<1>5. UNCHANGED <<qpc, qc, qx, ipc, watch, round, ic, mpc, mc, al, ac, touched>>
  BY <1>1 DEF hook, input, main
<1> QED
  BY <1>2, <1>3, <1>4, <1>5 DEF ThreadsTyped

LEMMA ArrivalKeeps ==
    ASSUME IInv, Arrival
    PROVE  IInv'
<1>1. ThreadsTyped'
  BY ArrivalTyped DEF IInv
<1>2. Hands'
  BY DEF Arrival, Accepting, Hands, IInv, table, hook, input, main
<1>3. Books' /\ StolenAlone'
  BY Quiet DEF Arrival, IInv, StolenAlone
<1> QED
  BY <1>1, <1>2, <1>3 DEF IInv

LEMMA InitHolds ==
    Init => IInv
<1> SUFFICES ASSUME Init
             PROVE  IInv
  OBVIOUS
<1>1. Counted = {} /\ \A l \in Listens : Own(l) = {}
  BY DEF Init, Counted, Own
<1>2. ThreadsTyped /\ TablesTyped
  <2>1. Sockets \in Nat /\ Binds \in Nat
    BY ForwarderAssumption
  <2>2. ThreadsTyped
    <3>1. cond \in BOOLEAN /\ ideaf \in BOOLEAN /\ adeaf \in BOOLEAN
      BY DEF Init
    <3>2. {qc, ac, ic, mc} \subseteq 0..Sockets
      BY <2>1 DEF Init, NoConn
    <3> QED
      BY <3>1, <3>2 DEF Init, ThreadsTyped
  <2>3. TablesTyped
    BY <2>1 DEF Init, TablesTyped
  <2> QED
    BY <2>2, <2>3
<1>3. Hands
  BY DEF Init, Hands
<1>4. Books
  BY <1>1, <1>2, FS_EmptySet, ForwarderAssumption DEF Init, Books, Fresh, Marks, Closed, CountsExact
<1> QED
  BY <1>2, <1>3, <1>4 DEF Init, IInv, StolenAlone

LEMMA StepKeeps ==
    IInv /\ [Next]_vars => IInv'
<1> SUFFICES ASSUME IInv, [Next]_vars
             PROVE  IInv'
  OBVIOUS
<1>1. CASE Next
  BY <1>1, RequestKeeps, HookKeeps, AcceptKeeps, InputKeeps, MainKeeps, ArrivalKeeps DEF Next
<1>2. CASE UNCHANGED vars
  <2>1. ThreadsTyped' /\ Hands' /\ StolenAlone'
    BY <1>2 DEF IInv, ThreadsTyped, Hands, StolenAlone, vars, table, counts, hook, accepting, input, main, wakeups
  <2>2. Books'
    BY <1>2, Quiet DEF IInv, vars
  <2> QED
    BY <2>1, <2>2 DEF IInv
<1> QED
  BY <1>1, <1>2

\* The inductive invariant holds in every state.
THEOREM Invariance == Spec => []IInv
<1> QED
  BY InitHolds, StepKeeps, PTL DEF Spec

\* The tables and the threads' positions keep their types.
THEOREM TypeCorrect == Spec => []TypeOK
<1>1. IInv => TypeOK
  BY DEF IInv, Books, TypeOK
<1> QED
  BY <1>1, Invariance, PTL

\* The counts never drift from the connections, however many sockets are opened
\* and closed under one number and however many connections are stolen.
THEOREM CountsAreExact == Spec => []CountsExact
<1>1. IInv => CountsExact
  BY DEF IInv, Books
<1> QED
  BY <1>1, Invariance, PTL

\* Nobody touches a stolen connection, wherever the stealing falls between the
\* finding of it and its use.
THEOREM StolenAreAlone == Spec => []StolenAlone
<1>1. IInv => StolenAlone
  BY DEF IInv
<1> QED
  BY <1>1, Invariance, PTL

-----------------------------------------------------------------------------
(* Wakeups.                                                                 *)

\* Where the input thread sleeps, or has looked at the table and is about to.
Settling == {"toblock", "blocked", "filled", "select"}

\* A listed connection that the input thread does not watch while it sleeps is about
\* to be announced, or its announcement came between the look and the sleep; and
\* what was missed is made good when the thread looks again.
InputWoken ==
    /\ ipc \in Settling => Listed \subseteq watch \/ ideaf \/ qpc = "wake" \/ apc = "wake"
    /\ ideaf => ipc \in Settling

\* The same of a listening socket and the accepting thread, which is started if it
\* is not there; but it may be missed by one that is ending, too.
AcceptWoken ==
    /\ apc \in {"filled", "select"} =>
          listening \subseteq awatch \/ adeaf \/ qpc = "start" \/ qpc = "wake"
    /\ apc \in {"ending", "ended", "none"} => listening = {} \/ adeaf \/ qpc = "start"
    /\ adeaf => apc \in {"filled", "select", "ending", "ended", "none"}

\* The signal and the broadcast leave nothing that is neither watched nor missed.
LEMMA WakeInputWakes ==
    ASSUME InputWoken, WakeInput, conn' = conn
    PROVE  /\ ipc' \in Settling => Listed' \subseteq watch' \/ ideaf'
           /\ ideaf' => ipc' \in Settling
<1>0. Listed' = Listed
  BY DEF Listed
<1>1. CASE ipc' = "head" /\ watch' = {} /\ ideaf' = FALSE
  BY <1>1 DEF Settling
<1>2. CASE /\ ipc \notin {"select", "blocked"}
           /\ ideaf' = (ideaf \/ (ipc \in {"filled", "toblock"} /\ ~(Listed \subseteq watch)))
           /\ UNCHANGED <<ipc, watch>>
  <2>1. ideaf' <=> ideaf \/ (ipc \in {"filled", "toblock"} /\ ~(Listed \subseteq watch))
    BY <1>2
  <2>2. ipc' = ipc /\ watch' = watch /\ ipc \notin {"select", "blocked"}
    BY <1>2
  <2> QED
    BY <1>0, <2>1, <2>2 DEF InputWoken, Settling
<1> QED
  BY <1>1, <1>2 DEF WakeInput

LEMMA WakeSelectWakes ==
    ASSUME AcceptWoken, WakeSelect, UNCHANGED listening
    PROVE  /\ apc' \in {"filled", "select"} => listening' \subseteq awatch' \/ adeaf'
           /\ adeaf' => apc' \in {"filled", "select", "ending", "ended", "none"}
           /\ apc' # apc => apc' = "fill"
           /\ apc' = apc => (adeaf => adeaf')
<1>1. CASE apc' = "fill" /\ awatch' = {} /\ adeaf' = FALSE /\ apc = "select"
  BY <1>1
<1>2. CASE /\ apc # "select"
           /\ adeaf' = (adeaf \/ (apc = "filled" /\ ~(listening \subseteq awatch)))
           /\ UNCHANGED <<apc, awatch>>
  <2>1. adeaf' <=> adeaf \/ (apc = "filled" /\ ~(listening \subseteq awatch))
    BY <1>2
  <2>2. apc' = apc /\ awatch' = awatch /\ apc # "select"
    BY <1>2
  <2> QED
    BY <2>1, <2>2 DEF AcceptWoken
<1> QED
  BY <1>1, <1>2 DEF WakeSelect

\* What only takes connections from the list, and moves neither a waker nor the input
\* thread, leaves nothing unwatched that was watched.
LEMMA InputStill ==
    ASSUME InputWoken, Listed' \subseteq Listed, UNCHANGED <<ipc, watch, ideaf>>,
           qpc = "wake" => qpc' = "wake", apc = "wake" => apc' = "wake"
    PROVE  InputWoken'
BY DEF InputWoken

LEMMA AcceptStill ==
    ASSUME AcceptWoken, listening' \subseteq listening, UNCHANGED <<apc, awatch, adeaf>>,
           qpc = "wake" => qpc' = "wake", qpc = "start" => qpc' = "start"
    PROVE  AcceptWoken'
BY DEF AcceptWoken

\* No step but an adding one puts a connection into the list.
LEMMA ListedShrinks ==
    ASSUME TablesTyped,
           \/ conn' = conn
           \/ \E c \in Conns : conn' = [conn EXCEPT ![c] = "held"]
           \/ \E c \in Conns : conn' = [conn EXCEPT ![c] = "gone"]
           \/ \E c \in Conns : conn' = [conn EXCEPT ![c] = "stolen"]
    PROVE  Listed' \subseteq Listed
BY DEF Listed, TablesTyped

LEMMA RemoveShrinks ==
    ASSUME TablesTyped, NEW c \in Conns, Remove(c)
    PROVE  Listed' \subseteq Listed
BY ListedShrinks DEF Remove

LEMMA RequestWakes ==
    ASSUME IInv, InputWoken, AcceptWoken, Request
    PROVE  InputWoken' /\ AcceptWoken'
<1> USE DEF accepting, input, counts, wakeups, table, hook
<1>0. TablesTyped
  BY DEF IInv, Books
<1>1. CASE Initiate
  <2>1. /\ qpc = "idle" /\ UNCHANGED <<ipc, watch, ideaf, apc, awatch, adeaf, listening>>
        /\ \E c \in Conns : conn' = [conn EXCEPT ![c] = "held"]
    BY <1>1 DEF Initiate, Hook
  <2> QED
    BY <1>0, <2>1, ListedShrinks, InputStill, AcceptStill
<1>2. CASE \E x \in Clients : ClientGone(x) \/ \E c \in Conns : FindFor(x, c)
  <2>1. /\ qpc = "idle" /\ UNCHANGED <<ipc, watch, ideaf, apc, awatch, adeaf, listening, conn>>
    BY <1>2 DEF ClientGone, FindFor, Hook
  <2> QED
    BY <1>0, <2>1, ListedShrinks, InputStill, AcceptStill
<1>3. CASE \E l \in Listens : Bind(l)
  <2>1. /\ qpc = "idle" /\ qpc' = "start" /\ UNCHANGED <<ipc, watch, ideaf, apc, awatch, adeaf, conn>>
    BY <1>3 DEF Bind, Hook
  <2>2. InputWoken'
    BY <1>0, <2>1, ListedShrinks, InputStill
  <2>3. AcceptWoken'
    BY <2>1 DEF AcceptWoken
  <2> QED
    BY <2>2, <2>3
<1>4. CASE \E l \in Listens : Unlisten(l)
  <2>1. /\ qpc = "idle" /\ UNCHANGED <<ipc, watch, ideaf, apc, awatch, adeaf, conn>>
        /\ listening' \subseteq listening
    BY <1>4 DEF Unlisten, Close
  <2> QED
    BY <1>0, <2>1, ListedShrinks, InputStill, AcceptStill
<1> QED
  BY <1>1, <1>2, <1>3, <1>4 DEF Request

LEMMA HookStepWakes ==
    ASSUME IInv, InputWoken, AcceptWoken, HookStep
    PROVE  InputWoken' /\ AcceptWoken'
<1> USE DEF accepting, input, counts, wakeups, table, hook
<1>0. TablesTyped /\ ThreadsTyped
  BY DEF IInv, Books
<1>1. CASE AddInitiated
  <2>1. /\ qpc = "add" /\ UNCHANGED <<ipc, watch, ideaf, apc, awatch, adeaf, listening>>
        /\ qc \in Conns /\ Add(qc, NoListen)
        /\ qpc' = IF Room(NoListen) THEN "wake" ELSE "idle"
    BY <1>1 DEF AddInitiated, IInv, Hands
  <2>2. AcceptWoken'
    BY <2>1, AcceptStill
  <2>3. CASE Room(NoListen)
    BY <2>1, <2>2, <2>3 DEF InputWoken
  <2>4. CASE ~Room(NoListen)
    <3>1. conn' = [conn EXCEPT ![qc] = "gone"]
      BY <2>1, <2>4 DEF Add
    <3> QED
      BY <1>0, <2>1, <2>2, <3>1, ListedShrinks, InputStill
  <2> QED
    BY <2>2, <2>3, <2>4
<1>2. CASE HookWakes
  <2>1. WakeInput /\ WakeSelect /\ UNCHANGED <<conn, listening>> /\ qpc = "wake"
    BY <1>2 DEF HookWakes, Hook
  <2>2. InputWoken'
    BY <2>1, WakeInputWakes DEF InputWoken
  <2>3. AcceptWoken'
    BY <2>1, WakeSelectWakes DEF AcceptWoken
  <2> QED
    BY <2>2, <2>3
<1>3. CASE Disconnect
  <2>1. /\ qpc = "found" /\ qc \in Conns /\ Remove(qc)
        /\ UNCHANGED <<ipc, watch, ideaf, apc, awatch, adeaf, listening>>
    BY <1>3 DEF Disconnect, FoundDone, Hook, IInv, Hands
  <2> QED
    BY <1>0, <2>1, RemoveShrinks, InputStill, AcceptStill
<1>4. CASE Reserve \/ Release
  <2>1. qpc = "found" /\ UNCHANGED <<ipc, watch, ideaf, apc, awatch, adeaf, listening, conn>>
    BY <1>4 DEF Reserve, Release, FoundDone, Hook
  <2> QED
    BY <1>0, <2>1, ListedShrinks, InputStill, AcceptStill
<1>5. CASE Steal
  <2>1. /\ qpc = "found" /\ UNCHANGED <<ipc, watch, ideaf, apc, awatch, adeaf, listening>>
        /\ qc \in Conns /\ conn' = [conn EXCEPT ![qc] = "stolen"]
    BY <1>5 DEF Steal, FoundDone, Hook, IInv, Hands
  <2> QED
    BY <1>0, <2>1, ListedShrinks, InputStill, AcceptStill
<1>6. CASE StealWakes
  <2>1. /\ SignalInput /\ WakeSelect /\ UNCHANGED <<conn, listening>>
        /\ qpc = "stolen" /\ qpc' = "idle"
    BY <1>6 DEF StealWakes, Hook
  <2>2. Listed' = Listed
    BY <2>1 DEF Listed
  <2>3. AcceptWoken'
    BY <2>1, WakeSelectWakes DEF AcceptWoken
  <2>4. CASE ipc = "select"
    BY <2>1, <2>3, <2>4 DEF SignalInput, InputWoken, Settling
  <2>5. CASE ipc # "select"
    <3>1. ideaf' = (ideaf \/ (ipc = "filled" /\ ~(Listed \subseteq watch))) /\ UNCHANGED <<ipc, watch>>
      BY <2>1, <2>5 DEF SignalInput
    <3>2. ideaf' <=> ideaf \/ (ipc = "filled" /\ ~(Listed \subseteq watch))
      BY <3>1
    <3>3. apc = "wake" => apc' = "wake"
      BY <2>1 DEF WakeSelect
    <3> QED
      BY <2>1, <2>2, <2>3, <3>1, <3>2, <3>3 DEF InputWoken, Settling
  <2> QED
    BY <2>3, <2>4, <2>5
<1>7. CASE StartSelect
  <2>1. qpc = "start" /\ qpc' = "wake" /\ UNCHANGED <<ipc, watch, ideaf, conn, listening, awatch>>
    BY <1>7 DEF StartSelect, Hook
  <2>2. CASE apc = "none"
    <3>1. apc' = "fill" /\ adeaf' = FALSE
      BY <1>7, <2>2 DEF StartSelect
    <3> QED
      BY <1>0, <2>1, <2>2, <3>1, ListedShrinks, InputStill DEF AcceptWoken
  <2>3. CASE apc # "none"
    <3>1. apc' = apc /\ adeaf' = (adeaf \/ apc \in {"ending", "ended"})
      BY <1>7, <2>3 DEF StartSelect
    <3>2. adeaf' <=> adeaf \/ apc \in {"ending", "ended"}
      BY <3>1
    <3>3. AcceptWoken'
      BY <2>1, <2>3, <3>1, <3>2 DEF AcceptWoken
    <3> QED
      BY <1>0, <2>1, <3>1, <3>3, ListedShrinks, InputStill
  <2> QED
    BY <2>2, <2>3
<1> QED
  BY <1>1, <1>2, <1>3, <1>4, <1>5, <1>6, <1>7 DEF HookStep

LEMMA AcceptStepWakes ==
    ASSUME IInv, InputWoken, AcceptWoken, Arrival \/ AcceptStep
    PROVE  InputWoken' /\ AcceptWoken'
<1> USE DEF accepting, input, counts, wakeups, table, hook
<1>0. TablesTyped /\ ThreadsTyped
  BY DEF IInv, Books
<1>1. CASE FillListen
  <2>1. /\ apc = "fill" /\ apc' = IF listening = {} THEN "ending" ELSE "filled"
        /\ awatch' = listening
        /\ UNCHANGED <<qpc, ipc, watch, ideaf, adeaf, conn, listening>>
    BY <1>1 DEF FillListen
  <2> QED
    BY <1>0, <2>1, ListedShrinks, InputStill DEF AcceptWoken
<1>2. CASE SelectListen
  <2>1. /\ apc = "filled" /\ apc' = "select"
        /\ UNCHANGED <<qpc, ipc, watch, ideaf, adeaf, awatch, conn, listening>>
    BY <1>2 DEF SelectListen, Accepting
  <2> QED
    BY <1>0, <2>1, ListedShrinks, InputStill DEF AcceptWoken
<1>3. CASE Arrival
  <2>1. /\ apc = "select" /\ apc' = "serve" /\ adeaf' = FALSE
        /\ UNCHANGED <<qpc, ipc, watch, ideaf, conn, listening>>
    BY <1>3 DEF Arrival, Accepting
  <2> QED
    BY <1>0, <2>1, ListedShrinks, InputStill DEF AcceptWoken
<1>4. CASE ServeEnd \/ (\E l \in Listens : Precheck(l)) \/ Accept \/ AcceptNothing
           \/ AcceptFails \/ RemoveBad \/ FilterRefuses
  <2>1. /\ apc \in {"serve", "accept", "bad", "add"} /\ apc' \in {"fill", "serve", "accept", "bad", "add"}
        /\ UNCHANGED <<qpc, ipc, watch, ideaf, adeaf>>
    BY <1>4 DEF ServeEnd, Precheck, Accept, AcceptNothing, AcceptFails, RemoveBad, FilterRefuses,
       Accepting
  <2>2. Listed' \subseteq Listed
    <3>1. CASE ServeEnd \/ (\E l \in Listens : Precheck(l)) \/ AcceptNothing \/ AcceptFails \/ RemoveBad
      BY <1>0, <3>1, ListedShrinks DEF ServeEnd, Precheck, AcceptNothing, AcceptFails, RemoveBad
    <3>2. CASE Accept
      BY <1>0, <3>2, ListedShrinks DEF Accept
    <3>3. CASE FilterRefuses
      BY <1>0, <3>3, ListedShrinks DEF FilterRefuses, Accepting, IInv, Hands
    <3> QED
      BY <1>4, <3>1, <3>2, <3>3
  <2> QED
    BY <2>1, <2>2, InputStill DEF AcceptWoken
<1>5. CASE AddAccepted
  <2>1. /\ apc = "add" /\ apc' = IF Room(al) THEN "wake" ELSE "serve"
        /\ ac \in Conns /\ Add(ac, al)
        /\ UNCHANGED <<qpc, ipc, watch, ideaf, adeaf, listening>>
    BY <1>5 DEF AddAccepted, IInv, Hands
  <2>2. AcceptWoken'
    BY <2>1 DEF AcceptWoken
  <2>3. CASE Room(al)
    BY <2>1, <2>2, <2>3 DEF InputWoken
  <2>4. CASE ~Room(al)
    <3>1. conn' = [conn EXCEPT ![ac] = "gone"]
      BY <2>1, <2>4 DEF Add
    <3> QED
      BY <1>0, <2>1, <2>2, <3>1, ListedShrinks, InputStill
  <2> QED
    BY <2>3, <2>4
<1>6. CASE AcceptWakes
  <2>1. /\ apc = "wake" /\ apc' = "serve" /\ WakeInput
        /\ UNCHANGED <<qpc, adeaf, conn, listening>>
    BY <1>6 DEF AcceptWakes, Accepting
  <2>2. InputWoken'
    BY <2>1, WakeInputWakes DEF InputWoken
  <2> QED
    BY <2>1, <2>2 DEF AcceptWoken
<1>7. CASE Deactivate
  <2>1. /\ apc = "ending" /\ apc' = "ended" /\ ipc' = IF ipc = "blocked" THEN "head" ELSE ipc
        /\ ideaf' = (ideaf /\ ipc # "blocked")
        /\ UNCHANGED <<qpc, adeaf, watch, conn, listening>>
    BY <1>7 DEF Deactivate, Accepting
  <2>2. ideaf' <=> ideaf /\ ipc # "blocked"
    BY <2>1
  <2>3. Listed' = Listed
    BY <2>1 DEF Listed
  <2>4. InputWoken'
    BY <2>1, <2>2, <2>3 DEF InputWoken, Settling
  <2> QED
    BY <2>1, <2>4 DEF AcceptWoken
<1>8. CASE SelectEnd
  <2>1. /\ apc = "ended" /\ apc' = "none"
        /\ UNCHANGED <<qpc, adeaf, ipc, watch, ideaf, conn, listening>>
    BY <1>8 DEF SelectEnd, Accepting
  <2> QED
    BY <1>0, <2>1, ListedShrinks, InputStill DEF AcceptWoken
<1> QED
  BY <1>1, <1>2, <1>3, <1>4, <1>5, <1>6, <1>7, <1>8 DEF AcceptStep

LEMMA InputStepWakes ==
    ASSUME IInv, InputWoken, AcceptWoken, Ready \/ SpuriousWakeup \/ InputStep
    PROVE  InputWoken' /\ AcceptWoken'
<1> USE DEF accepting, input, counts, wakeups, table, hook
<1>0. TablesTyped
  BY DEF IInv, Books
<1>1. AcceptWoken'
  <2>1. UNCHANGED <<qpc, apc, awatch, adeaf, listening>>
    BY DEF Ready, SpuriousWakeup, InputStep, Look, Block, BlockInactive, FillConnections,
       SelectInput, RoundEnd, Receive, ReceiveFails, Drop
  <2> QED
    BY <2>1, AcceptStill
<1>2. CASE Look
  <2>1. /\ ipc = "head" /\ ipc' \in {"fill", "toblock"} /\ (ipc' = "toblock" => Listed = {})
        /\ UNCHANGED <<conn, watch, ideaf, qpc, apc>>
    BY <1>2 DEF Look, Input
  <2>2. Listed' = Listed
    BY <2>1 DEF Listed
  <2> QED
    BY <1>1, <2>1, <2>2 DEF InputWoken, Settling
<1>3. CASE Block \/ SelectInput
  <2>1. /\ ipc \in Settling /\ ipc' \in Settling
        /\ UNCHANGED <<conn, watch, ideaf, qpc, apc>>
    BY <1>3 DEF Block, SelectInput, Input, Settling
  <2>2. Listed' = Listed
    BY <2>1 DEF Listed
  <2> QED
    BY <1>1, <2>1, <2>2 DEF InputWoken
<1>4. CASE BlockInactive \/ SpuriousWakeup \/ Ready
  <2>1. ipc' \in {"head", "stuck", "serve"} /\ ideaf' = FALSE
    BY <1>4 DEF BlockInactive, SpuriousWakeup, Ready, Input
  <2> QED
    BY <1>1, <2>1 DEF InputWoken, Settling
<1>5. CASE FillConnections
  <2>1. /\ ipc = "fill" /\ ipc' = IF Listed = {} THEN "head" ELSE "filled"
        /\ watch' = Listed /\ UNCHANGED <<conn, ideaf, qpc, apc>>
    BY <1>5 DEF FillConnections
  <2>2. Listed' = Listed
    BY <2>1 DEF Listed
  <2> QED
    BY <1>1, <2>1, <2>2 DEF InputWoken, Settling
<1>6. CASE RoundEnd \/ (\E c \in Conns : Receive(c) \/ ReceiveFails(c)) \/ Drop
  <2>1. ipc \in {"serve", "drop"} /\ ipc' \in {"head", "serve", "drop"} /\ ideaf' = ideaf
    BY <1>6 DEF RoundEnd, Receive, ReceiveFails, Drop, Input
  <2> QED
    BY <1>1, <2>1 DEF InputWoken, Settling
<1> QED
  BY <1>2, <1>3, <1>4, <1>5, <1>6 DEF InputStep

LEMMA MainStepWakes ==
    ASSUME IInv, InputWoken, AcceptWoken, MainStep \/ UNCHANGED vars
    PROVE  InputWoken' /\ AcceptWoken'
<1> USE DEF accepting, input, counts, wakeups, table, hook
<1>0. TablesTyped
  BY DEF IInv, Books
<1>1. UNCHANGED <<ipc, watch, ideaf, apc, awatch, adeaf, qpc, listening>>
  BY DEF MainStep, Forward, Put, DropTarget, vars
<1>2. Listed' \subseteq Listed
  <2>1. CASE DropTarget
    BY <1>0, <2>1, RemoveShrinks DEF DropTarget, IInv, Hands
  <2>2. CASE (\E x \in Clients, c \in Conns : Forward(x, c)) \/ Put \/ UNCHANGED vars
    BY <1>0, <2>2, ListedShrinks DEF Forward, Put, vars
  <2> QED
    BY <2>1, <2>2 DEF MainStep
<1> QED
  BY <1>1, <1>2, InputStill, AcceptStill

\* The safety core of Watched: a thread of the forwarder sleeps through a connection
\* or a socket only if it was announced between the thread's look at the table and
\* its sleep, or while the thread was about to end; never otherwise, whatever the
\* other three threads do.
THEOREM MissesOnlyTheWindow == Spec => [](InputWoken /\ AcceptWoken)
<1>1. Init => InputWoken /\ AcceptWoken
  BY DEF Init, InputWoken, AcceptWoken, Settling
<1>2. IInv /\ InputWoken /\ AcceptWoken /\ [Next]_vars => (InputWoken /\ AcceptWoken)'
  <2> SUFFICES ASSUME IInv, InputWoken, AcceptWoken, [Next]_vars
               PROVE  InputWoken' /\ AcceptWoken'
    OBVIOUS
  <2> QED
    BY RequestWakes, HookStepWakes, AcceptStepWakes, InputStepWakes, MainStepWakes DEF Next
<1> QED
  BY <1>1, <1>2, Invariance, PTL DEF Spec

=============================================================================
