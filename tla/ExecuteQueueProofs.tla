------------------------- MODULE ExecuteQueueProofs -------------------------
(***************************************************************************)
(* Proofs about ExecuteQueue, for every order of the heap, every number of *)
(* commands and every set of priority values.                              *)
(***************************************************************************)
EXTENDS ExecuteQueue, TLAPS, SequenceTheorems, WellFoundedInduction

\* Arithmetic of the array: the parent of an index is below it.
LEMMA ParentBelow ==
    ASSUME NEW c \in Nat \ {0}
    PROVE  Parent(c) \in Nat /\ Parent(c) < c
<1> DEFINE d == c - 1
<1>1. d \in Nat /\ Order \in Nat /\ Order > 0
  BY QueueAssumption
<1>2. d \div Order \in Nat /\ d \div Order <= d
  BY <1>1, SMT
<1> QED
  BY <1>1, <1>2 DEF Parent

\* The indices computed by sift_down are those whose parent, as computed by
\* sift_up, is the index they were computed from.
LEMMA ChildrenHaveParent ==
    ASSUME NEW p \in Nat, NEW c \in Nat
    PROVE  c \in (p * Order + 1)..(p * Order + Order) <=> c # 0 /\ Parent(c) = p
<1> DEFINE q == p * Order
<1>1. Order \in Nat /\ Order > 0 /\ q \in Nat
  BY QueueAssumption
<1>2. ASSUME c \in (q + 1)..(q + Order) PROVE c # 0 /\ Parent(c) = p
  BY <1>1, <1>2, SMT DEF Parent
<1>3. ASSUME c # 0, Parent(c) = p PROVE c \in (q + 1)..(q + Order)
  BY <1>1, <1>3, SMT DEF Parent
<1> QED
  BY <1>2, <1>3

\* The children of p in an array of n elements.
LEMMA ChildrenAre ==
    ASSUME NEW n \in Nat, NEW p \in Nat
    PROVE  {c \in (p * Order + 1)..(p * Order + Order) : c < n}
              = {c \in 1..(n - 1) : Parent(c) = p}
<1> DEFINE q == p * Order
<1>1. Order \in Nat /\ Order > 0 /\ q \in Nat
  BY QueueAssumption
<1>2. \A c \in (q + 1)..(q + Order) : c \in Nat /\ c # 0
  BY <1>1
<1>3. \A c \in Nat : c \in (q + 1)..(q + Order) <=> c # 0 /\ Parent(c) = p
  BY ChildrenHaveParent
<1> HIDE DEF q
<1>4. {c \in (q + 1)..(q + Order) : c < n} = {c \in 1..(n - 1) : Parent(c) = p}
  BY <1>1, <1>2, <1>3
<1> QED
  BY <1>4 DEF q

-----------------------------------------------------------------------------

LEMMA EntryFields ==
    ASSUME NEW e \in Entry
    PROVE  /\ e.cmd \in Commands
           /\ e.rank \in Int
           /\ e.key \in Handles \cup {NoHandle}
BY QueueAssumption DEF Entry, Bag!Entry

\* Cancelling changes the key of an entry and nothing else.
LEMMA CancelledEntry ==
    ASSUME NEW e \in Entry, NEW h \in Handles
    PROVE  /\ Bag!Cancelled(e, h) \in Entry
           /\ Bag!Cancelled(e, h).cmd = e.cmd
           /\ Bag!Cancelled(e, h).rank = e.rank
BY DEF Entry, Bag!Entry, Bag!Cancelled

LEMMA TypeInit == Init => TypeOK
BY DEF Init, TypeOK

\* Every step keeps the array, the loop index and the cache well formed.
LEMMA TypeStep == TypeOK /\ [Next]_vars => TypeOK'
<1> SUFFICES ASSUME TypeOK, [Next]_vars PROVE TypeOK'
  OBVIOUS
<1> USE DEF TypeOK
<1>1. ASSUME NEW e \in Entry, InsertCommand(e) PROVE TypeOK'
  BY <1>1 DEF InsertCommand
<1>2. CASE SiftUpSwitch
  <2>1. Parent(cur) \in Nat /\ Parent(cur) < cur
    BY <1>2, ParentBelow DEF SiftUpSwitch
  <2> QED
    BY <1>2, <2>1 DEF SiftUpSwitch, Switched
<1>3. CASE SiftUpEnd
  BY <1>3 DEF SiftUpEnd
<1>4. CASE TransferTopCommand
  BY <1>4 DEF TransferTopCommand
<1>5. CASE SiftDownSwitch
  <2>1. PICK g \in Children(cur) : heap' = Switched(g, cur) /\ cur' = g
    BY <1>5 DEF SiftDownSwitch
  <2>2. g \in 1..(size - 1)
    BY <2>1, ChildrenAre DEF Children
  <2> QED
    BY <1>5, <2>1, <2>2 DEF SiftDownSwitch, Switched
<1>6. CASE SiftDownEnd
  BY <1>6 DEF SiftDownEnd
<1>7. ASSUME NEW h \in Handles, RemoveCommands(h) PROVE TypeOK'
  BY <1>7, CancelledEntry DEF RemoveCommands
<1>8. CASE RemoveSingle
  BY <1>8 DEF RemoveSingle
<1>9. CASE UNCHANGED vars
  BY <1>9 DEF vars
<1> QED
  BY <1>1, <1>2, <1>3, <1>4, <1>5, <1>6, <1>7, <1>8, <1>9 DEF Next, Sift

(***************************************************************************)
(* Type correctness: the array always has exactly size elements, the index *)
(* of a running sifting loop stays inside it.                              *)
(***************************************************************************)
THEOREM TypeCorrect == Spec => []TypeOK
BY TypeInit, TypeStep, PTL DEF Spec

-----------------------------------------------------------------------------

LEMMA ValueType == TypeOK => \A i \in 0..(size - 1) : Value(i) \in Int
BY EntryFields DEF TypeOK, Value

\* Bridged as a fact about parents, without the set of children.
LEMMA BridgedOnParents ==
    TypeOK => (Bridged <=> (cur > 0 => \A c \in 1..(size - 1) :
                                Parent(c) = cur => Value(Parent(cur)) <= Value(c)))
BY ChildrenAre DEF Bridged, Children, TypeOK

\* The same in the next state.
LEMMA BridgedOnParentsNext ==
    TypeOK' => (Bridged' <=> (cur' > 0 => \A c \in 1..(size' - 1) :
                     Parent(c) = cur' => heap'[Parent(cur')].rank <= heap'[c].rank))
BY ChildrenAre DEF Bridged, Children, TypeOK, Value

LEMMA HeapOrderInit == Init => HeapOrder
BY DEF Init, HeapOrder

\* Appending an element: only the new last one may be below its parent.
LEMMA InsertKeepsOrder ==
    ASSUME TypeOK, TypeOK', HeapOrder, NEW e \in Entry, InsertCommand(e)
    PROVE  HeapOrder'
<1>1. /\ size' = size + 1 /\ cur' = size /\ pc = "idle" /\ pc' = "up" /\ size \in Nat
      /\ \A i \in 0..(size - 1) : heap'[i] = heap[i]
  BY DEF InsertCommand, TypeOK
<1>2. \A i \in 1..size : i # size => heap'[Parent(i)].rank <= heap'[i].rank
  BY <1>1, ParentBelow DEF HeapOrder, Ordered, Value
<1>3. \A c \in 1..size : Parent(c) # size
  BY <1>1, ParentBelow
<1>4. Bridged'
  BY <1>1, <1>3, BridgedOnParentsNext
<1> QED
  BY <1>1, <1>2, <1>4 DEF HeapOrder, Ordered, Value

\* A turn of sift_up: the parent moves down over the children of the element,
\* which were not below it, and the element goes above a value it is below.
LEMMA SiftUpKeepsOrder ==
    ASSUME TypeOK, TypeOK', HeapOrder, SiftUpSwitch
    PROVE  HeapOrder'
<1> DEFINE p == Parent(cur)
           New(i) == heap'[i].rank
<1>1. cur \in 1..(size - 1) /\ size \in Nat /\ pc' = "up" /\ pc = "up" /\ size' = size
  BY DEF SiftUpSwitch, TypeOK
<1>2. p \in Nat /\ p < cur /\ cur' = p
  BY <1>1, ParentBelow DEF SiftUpSwitch
<1>3. heap' = Switched(cur, p)
  BY DEF SiftUpSwitch
<1>4. Value(cur) < Value(p) /\ \A i \in 0..(size - 1) : Value(i) \in Int
  BY <1>1, <1>2, ValueType DEF SiftUpSwitch
<1>5. \A i \in 1..(size - 1) : i # cur => Value(Parent(i)) <= Value(i)
  BY <1>1 DEF HeapOrder, Ordered
<1>6. \A c \in 1..(size - 1) : Parent(c) = cur => Value(p) <= Value(c)
  BY <1>1, BridgedOnParents DEF HeapOrder
<1> HIDE DEF p
<1>7. /\ New(cur) = Value(p) /\ New(p) = Value(cur)
      /\ \A i \in 0..(size - 1) : i # cur /\ i # p => New(i) = Value(i)
  BY <1>1, <1>2, <1>3 DEF Switched, Value, TypeOK
<1> HIDE DEF New
<1>8. ASSUME NEW i \in 1..(size - 1), i # p PROVE New(Parent(i)) <= New(i)
  <2>1. Parent(i) \in 0..(size - 1) /\ Parent(i) < i
    BY <1>1, ParentBelow
  <2>2. CASE i = cur
    BY <2>2, <1>1, <1>2, <1>4, <1>7 DEF p
  <2>3. CASE i # cur /\ Parent(i) = p
    BY <2>1, <2>3, <1>1, <1>2, <1>4, <1>5, <1>7, <1>8
  <2>4. CASE i # cur /\ Parent(i) = cur
    BY <2>1, <2>4, <1>1, <1>2, <1>4, <1>6, <1>7, <1>8
  <2>5. CASE i # cur /\ Parent(i) # p /\ Parent(i) # cur
    BY <2>1, <2>5, <1>1, <1>2, <1>4, <1>5, <1>7, <1>8
  <2> QED
    BY <2>2, <2>3, <2>4, <2>5
<1>9. ASSUME p > 0, NEW c \in 1..(size - 1), Parent(c) = p PROVE New(Parent(p)) <= New(c)
  <2>1. Parent(p) \in 0..(size - 1) /\ Parent(p) < p /\ p < c
    BY <1>1, <1>2, <1>9, ParentBelow
  <2>2. Value(Parent(p)) <= Value(p) /\ New(Parent(p)) = Value(Parent(p))
    BY <1>1, <1>2, <1>5, <1>7, <2>1
  <2>3. Value(p) <= New(c) /\ New(c) \in Int
    BY <1>1, <1>2, <1>4, <1>5, <1>7, <1>9, <2>1
  <2> QED
    BY <1>1, <1>2, <1>4, <2>1, <2>2, <2>3
<1>10. Bridged'
  BY <1>1, <1>2, <1>9, BridgedOnParentsNext DEF New
<1> QED
  BY <1>1, <1>2, <1>8, <1>10 DEF HeapOrder, Ordered, Value, New

\* The last element in the place of the first: only the root may be out of order.
LEMMA TransferKeepsOrder ==
    ASSUME TypeOK, TypeOK', HeapOrder, TransferTopCommand
    PROVE  HeapOrder'
<1>1. /\ size \in Nat /\ size > 0 /\ size' = size - 1 /\ pc = "idle" /\ cur' = 0
      /\ \A i \in 1..(size - 2) : heap'[i] = heap[i]
      /\ pc' = IF size - 1 > 1 THEN "down" ELSE "idle"
  BY DEF TransferTopCommand, TypeOK
<1>2. \A i \in 1..(size - 2) : Parent(i) # 0 => heap'[Parent(i)].rank <= heap'[i].rank
  BY <1>1, ParentBelow DEF HeapOrder, Ordered, Value
<1>3. Bridged'
  BY <1>1 DEF Bridged
<1> QED
  BY <1>1, <1>2, <1>3 DEF HeapOrder, Ordered, Value

\* A turn of sift_down: a least child moves up over its siblings; the parent of
\* the place was not below that child.
LEMMA SiftDownKeepsOrder ==
    ASSUME TypeOK, TypeOK', HeapOrder, SiftDownSwitch
    PROVE  HeapOrder'
<1> DEFINE New(i) == heap'[i].rank
<1>1. PICK g \in Children(cur) : IsGreatest(g, cur) /\ heap' = Switched(g, cur) /\ cur' = g
  BY DEF SiftDownSwitch
<1>2. /\ cur \in 0..(size - 1) /\ size \in Nat /\ size' = size
      /\ pc = "down" /\ pc' = "down"
  BY DEF SiftDownSwitch, TypeOK
<1>3. Children(cur) = {c \in 1..(size - 1) : Parent(c) = cur}
  BY <1>2, ChildrenAre DEF Children
<1>4. g \in 1..(size - 1) /\ Parent(g) = cur /\ cur < g
  BY <1>1, <1>2, <1>3, ParentBelow
<1>5. /\ Value(g) <= Value(cur)
      /\ \A i \in 0..(size - 1) : Value(i) \in Int
  BY <1>1, ValueType DEF IsGreatest
<1>6. \A c \in 1..(size - 1) : Parent(c) = cur => Value(g) <= Value(c)
  BY <1>1, <1>3, <1>4, <1>5 DEF IsGreatest
<1>7. \A i \in 1..(size - 1) : Parent(i) # cur => Value(Parent(i)) <= Value(i)
  BY <1>2 DEF HeapOrder, Ordered
<1>8. cur > 0 => Value(Parent(cur)) <= Value(g)
  BY <1>2, <1>4, BridgedOnParents DEF HeapOrder
<1>9. /\ New(cur) = Value(g) /\ New(g) = Value(cur)
      /\ \A i \in 0..(size - 1) : i # cur /\ i # g => New(i) = Value(i)
  BY <1>1, <1>2, <1>4 DEF Switched, Value, TypeOK
<1> HIDE DEF New
<1>10. ASSUME NEW i \in 1..(size - 1), Parent(i) # g PROVE New(Parent(i)) <= New(i)
  <2>1. Parent(i) \in 0..(size - 1) /\ Parent(i) < i
    BY <1>2, ParentBelow
  <2>2. CASE i = g
    BY <2>2, <1>4, <1>5, <1>9
  <2>3. CASE i # g /\ Parent(i) = cur
    BY <2>1, <2>3, <1>2, <1>4, <1>6, <1>9, <1>10
  <2>4. CASE i = cur
    BY <2>1, <2>4, <1>2, <1>4, <1>8, <1>9, <1>10
  <2>5. CASE i # g /\ i # cur /\ Parent(i) # cur
    BY <2>1, <2>5, <1>2, <1>4, <1>7, <1>9, <1>10
  <2> QED
    BY <2>2, <2>3, <2>4, <2>5
<1>11. ASSUME NEW c \in 1..(size - 1), Parent(c) = g PROVE New(Parent(g)) <= New(c)
  BY <1>2, <1>4, <1>7, <1>9, <1>11, ParentBelow
<1>12. Bridged'
  BY <1>1, <1>2, <1>4, <1>11, BridgedOnParentsNext DEF New
<1> QED
  BY <1>1, <1>2, <1>10, <1>12 DEF HeapOrder, Ordered, Value, New

\* The loops end where nothing is out of order any more.
LEMMA EndsKeepOrder ==
    ASSUME TypeOK, TypeOK', HeapOrder, SiftUpEnd \/ SiftDownEnd
    PROVE  HeapOrder'
<1>1. heap' = heap /\ size' = size /\ pc' = "idle" /\ size \in Nat /\ cur \in 0..(size - 1)
  BY DEF SiftUpEnd, SiftDownEnd, TypeOK
<1>2. CASE SiftUpEnd
  BY <1>1, <1>2 DEF SiftUpEnd, HeapOrder, Ordered, Value
<1>3. CASE SiftDownEnd
  <2> SUFFICES ASSUME NEW i \in 1..(size - 1) PROVE Value(Parent(i)) <= Value(i)
    BY <1>1 DEF HeapOrder, Ordered, Value
  <2>1. CASE Parent(i) # cur
    BY <1>3, <2>1 DEF SiftDownEnd, HeapOrder, Ordered
  <2>2. CASE Parent(i) = cur
    <3>1. cur < size - 1 /\ i \in Children(cur)
      BY <1>1, <2>2, ParentBelow, ChildrenAre DEF Children
    <3>2. ~(Value(i) <= Value(cur))
      BY <1>3, <3>1 DEF SiftDownEnd
    <3>3. Value(i) \in Int /\ Value(cur) \in Int
      BY <1>1, ValueType
    <3> QED
      BY <2>2, <3>2, <3>3
  <2> QED
    BY <2>1, <2>2
<1> QED
  BY <1>2, <1>3

\* Cancelling changes no value.
LEMMA RemoveKeepsOrder ==
    ASSUME TypeOK, HeapOrder, NEW h \in Handles, RemoveCommands(h)
    PROVE  HeapOrder'
<1>1. /\ size' = size /\ pc = "idle" /\ pc' = "idle" /\ size \in Nat
      /\ heap' = [i \in 0..(size - 1) |-> Bag!Cancelled(heap[i], h)]
  BY DEF RemoveCommands, TypeOK
<1>2. \A i \in 0..(size - 1) : heap'[i].rank = heap[i].rank
  BY <1>1, CancelledEntry DEF TypeOK
<1> QED
  BY <1>1, <1>2, ParentBelow DEF HeapOrder, Ordered, Value

LEMMA HeapOrderStep == TypeOK /\ HeapOrder /\ [Next]_vars => HeapOrder'
<1> SUFFICES ASSUME TypeOK, HeapOrder, [Next]_vars PROVE HeapOrder'
  OBVIOUS
<1>1. TypeOK'
  BY TypeStep
<1>2. ASSUME NEW e \in Entry, InsertCommand(e) PROVE HeapOrder'
  BY <1>1, <1>2, InsertKeepsOrder
<1>3. CASE SiftUpSwitch
  BY <1>1, <1>3, SiftUpKeepsOrder
<1>4. CASE SiftUpEnd \/ SiftDownEnd
  BY <1>1, <1>4, EndsKeepOrder
<1>5. CASE TransferTopCommand
  BY <1>1, <1>5, TransferKeepsOrder
<1>6. CASE SiftDownSwitch
  BY <1>1, <1>6, SiftDownKeepsOrder
<1>7. ASSUME NEW h \in Handles, RemoveCommands(h) PROVE HeapOrder'
  BY <1>7, RemoveKeepsOrder
<1>8. CASE RemoveSingle \/ UNCHANGED vars
  BY <1>8 DEF RemoveSingle, vars, HeapOrder, Ordered, Bridged, Children, Value
<1> QED
  BY <1>2, <1>3, <1>4, <1>5, <1>6, <1>7, <1>8 DEF Next, Sift

(***************************************************************************)
(* The loop invariants of both sifting loops, for every order of the heap: *)
(* between operations no element is below its parent in value.             *)
(***************************************************************************)
THEOREM HeapOrderHolds == Spec => []HeapOrder
BY TypeInit, TypeStep, HeapOrderInit, HeapOrderStep, PTL DEF Spec

\* Local order along the tree makes the root least: take the first index whose
\* value is below the root's, its parent comes earlier and is not above it.
LEMMA OrderMakesRootLeast == TypeOK /\ HeapOrder => TopIsLeast
<1> SUFFICES ASSUME TypeOK, HeapOrder, pc = "idle" PROVE \A i \in 0..(size - 1) : Value(0) <= Value(i)
  BY DEF TopIsLeast
<1> DEFINE Below == {i \in 0..(size - 1) : Value(i) < Value(0)}
<1>1. size \in Nat /\ \A i \in 0..(size - 1) : Value(i) \in Int
  BY ValueType DEF TypeOK
<1>2. Below = {}
  <2> SUFFICES ASSUME Below # {} PROVE FALSE
    OBVIOUS
  <2>1. Below \subseteq Nat
    BY <1>1
  <2>2. PICK i \in Below : \A j \in Below : ~(<<j, i>> \in OpToRel(<, Nat))
    <3> HIDE DEF Below
    <3> QED
      BY <2>1, NatLessThanWellFounded, WFMin, Zenon
  <2>3. \A j \in Below : ~(j < i)
    BY <2>1, <2>2 DEF OpToRel
  <2>4. i \in 1..(size - 1) /\ Value(i) < Value(0) /\ Value(0) \in Int
    <3>1. i \in 0..(size - 1) /\ Value(i) < Value(0)
      BY <2>2
    <3>2. 0 \in 0..(size - 1)
      BY <1>1, <3>1
    <3>3. Value(i) \in Int /\ Value(0) \in Int
      BY <1>1, <3>1, <3>2
    <3> QED
      BY <3>1, <3>3
  <2>5. Parent(i) \in 0..(size - 1) /\ Parent(i) < i /\ Value(Parent(i)) <= Value(i)
    BY <1>1, <2>4, ParentBelow DEF HeapOrder, Ordered
  <2>6. Value(Parent(i)) < Value(0)
    BY <1>1, <2>4, <2>5
  <2> QED
    BY <2>3, <2>5, <2>6
<1>3. ASSUME NEW i \in 0..(size - 1) PROVE ~(Value(i) < Value(0))
  BY <1>2
<1> QED
  BY <1>1, <1>3

(***************************************************************************)
(* transfer_top_command always hands out a command of least priority value, *)
(* for every order of the heap and however many commands wait.             *)
(***************************************************************************)
THEOREM LeastLeavesFirst == Spec => []TopIsLeast
BY TypeCorrect, HeapOrderHolds, OrderMakesRootLeast, PTL

-----------------------------------------------------------------------------

LEMMA OnePlaceInit == Init => OnePlace
BY DEF Init, OnePlace

\* An exchange of two elements is injective on places and keeps what is queued.
LEMMA SwitchKeepsPlaces ==
    ASSUME TypeOK, OnePlace, NEW i \in 0..(size - 1), NEW j \in 0..(size - 1),
           heap' = Switched(i, j), UNCHANGED <<size, cache>>
    PROVE  OnePlace'
<1>1. /\ heap'[i] = heap[j] /\ heap'[j] = heap[i]
      /\ \A k \in 0..(size - 1) : k # i /\ k # j => heap'[k] = heap[k]
  BY DEF Switched, TypeOK
<1> QED
  BY <1>1 DEF OnePlace

LEMMA OnePlaceStep == TypeOK /\ OnePlace /\ [Next]_vars => OnePlace'
<1> SUFFICES ASSUME TypeOK, OnePlace, [Next]_vars PROVE OnePlace'
  OBVIOUS
<1>1. ASSUME NEW e \in Entry, InsertCommand(e) PROVE OnePlace'
  <2>1. /\ size \in Nat /\ size' = size + 1 /\ cache' = cache /\ heap'[size] = e
        /\ \A i \in 0..(size - 1) : heap'[i] = heap[i]
    BY <1>1 DEF InsertCommand, TypeOK
  <2>2. /\ \A i \in 0..(size - 1) : heap[i].cmd # e.cmd
        /\ \A i \in 1..Len(cache) : cache[i].cmd # e.cmd
    BY <1>1 DEF InsertCommand, Queued
  <2>3. \A i \in 0..(size' - 1) : i = size \/ i \in 0..(size - 1)
    BY <2>1
  <2>4. \A i, j \in 0..(size' - 1) : heap'[i].cmd = heap'[j].cmd => i = j
    BY <2>1, <2>2, <2>3 DEF OnePlace
  <2>5. \A i \in 0..(size' - 1), j \in 1..Len(cache) : heap'[i].cmd # cache[j].cmd
    BY <2>1, <2>2, <2>3 DEF OnePlace
  <2> QED
    BY <2>1, <2>4, <2>5 DEF OnePlace
<1>2. CASE SiftUpSwitch
  <2>1. cur \in 0..(size - 1) /\ Parent(cur) \in 0..(size - 1)
    BY <1>2, ParentBelow DEF SiftUpSwitch, TypeOK
  <2> QED
    BY <1>2, <2>1, SwitchKeepsPlaces DEF SiftUpSwitch
<1>3. CASE SiftDownSwitch
  <2>1. PICK g \in Children(cur) : heap' = Switched(g, cur)
    BY <1>3 DEF SiftDownSwitch
  <2>2. cur \in 0..(size - 1) /\ g \in 0..(size - 1)
    BY <1>3, <2>1, ChildrenAre DEF SiftDownSwitch, TypeOK, Children
  <2> QED
    BY <1>3, <2>1, <2>2, SwitchKeepsPlaces DEF SiftDownSwitch
<1>4. CASE TransferTopCommand
  <2>1. /\ size \in Nat /\ size > 0 /\ size' = size - 1
        /\ cache \in Seq(Entry) /\ heap[0] \in Entry /\ cache' = Append(cache, heap[0])
    BY <1>4 DEF TransferTopCommand, TypeOK
  <2>2. /\ Len(cache') = Len(cache) + 1 /\ cache'[Len(cache) + 1] = heap[0]
        /\ \A i \in 1..Len(cache) : cache'[i] = cache[i]
        /\ Len(cache) \in Nat
    BY <2>1
  <2>3. \A i \in 0..(size - 2) : heap'[i] = IF i = 0 THEN heap[size - 1] ELSE heap[i]
    BY <1>4 DEF TransferTopCommand
  <2>4. /\ \A i \in 0..(size' - 1) : \E k \in 1..(size - 1) :
             heap'[i] = heap[k] /\ (k = i \/ (i = 0 /\ k = size - 1))
        /\ \A i \in 1..Len(cache') : i = Len(cache) + 1 \/ i \in 1..Len(cache)
    BY <2>1, <2>2, <2>3
  <2>5. \A i, j \in 0..(size' - 1) : heap'[i].cmd = heap'[j].cmd => i = j
    BY <2>1, <2>4 DEF OnePlace
  <2>6. \A i, j \in 1..Len(cache') : cache'[i].cmd = cache'[j].cmd => i = j
    BY <2>1, <2>2, <2>4 DEF OnePlace
  <2>7. \A i \in 0..(size' - 1), j \in 1..Len(cache') : heap'[i].cmd # cache'[j].cmd
    BY <2>1, <2>2, <2>4 DEF OnePlace
  <2> QED
    BY <2>5, <2>6, <2>7 DEF OnePlace
<1>5. CASE SiftUpEnd \/ SiftDownEnd \/ UNCHANGED vars
  BY <1>5 DEF SiftUpEnd, SiftDownEnd, vars, OnePlace
<1>6. ASSUME NEW h \in Handles, RemoveCommands(h) PROVE OnePlace'
  <2>1. /\ size' = size /\ cache' = cache
        /\ \A i \in 0..(size - 1) : heap'[i].cmd = heap[i].cmd
    BY <1>6, CancelledEntry DEF RemoveCommands, TypeOK
  <2> QED
    BY <2>1 DEF OnePlace
<1>7. CASE RemoveSingle
  <2>1. /\ cache # <<>> /\ cache' = Tail(cache) /\ cache \in Seq(Entry)
        /\ heap' = heap /\ size' = size
    BY <1>7 DEF RemoveSingle, TypeOK
  <2>2. /\ Len(cache') = Len(cache) - 1 /\ Len(cache) \in Nat
        /\ \A i \in 1..Len(cache') : cache'[i] = cache[i + 1]
    BY <2>1
  <2> QED
    BY <2>1, <2>2 DEF OnePlace
<1> QED
  BY <1>1, <1>2, <1>3, <1>4, <1>5, <1>6, <1>7 DEF Next, Sift

(***************************************************************************)
(* No operation of the queue duplicates a command: exchanging, appending,  *)
(* transferring and cancelling keep every command in one place.            *)
(***************************************************************************)
THEOREM NeverTwice == Spec => []OnePlace
BY TypeInit, TypeStep, OnePlaceInit, OnePlaceStep, PTL DEF Spec

-----------------------------------------------------------------------------

LEMMA SiftingEndsStep ==
    TypeOK /\ [Next]_vars => [pc # "idle" /\ pc' = pc => TurnsLeft' < TurnsLeft]_vars
<1> SUFFICES ASSUME TypeOK, Next, pc # "idle", pc' = pc PROVE TurnsLeft' < TurnsLeft
  OBVIOUS
<1>1. CASE SiftUpSwitch
  BY <1>1, ParentBelow DEF SiftUpSwitch, TypeOK, TurnsLeft
<1>2. CASE SiftDownSwitch
  <2>1. PICK g \in Children(cur) : cur' = g
    BY <1>2 DEF SiftDownSwitch
  <2>2. size \in Nat /\ cur \in Nat /\ pc = "down" /\ size' = size
    BY <1>2 DEF SiftDownSwitch, TypeOK
  <2>3. g \in 1..(size - 1) /\ Parent(g) = cur
    BY <2>1, <2>2, ChildrenAre DEF Children
  <2>4. cur < g
    BY <2>2, <2>3, ParentBelow
  <2> QED
    BY <2>1, <2>2, <2>3, <2>4 DEF TurnsLeft
<1> QED
  BY <1>1, <1>2 DEF Next, Sift, InsertCommand, TransferTopCommand, SiftUpEnd, SiftDownEnd,
                    RemoveCommands, RemoveSingle

(***************************************************************************)
(* Both sifting loops end, whatever the order of the heap and the values:  *)
(* every turn makes the number of turns left smaller.                      *)
(***************************************************************************)
THEOREM LoopsEnd == Spec => SiftingEnds
BY TypeInit, TypeStep, SiftingEndsStep, PTL DEF Spec, SiftingEnds

-----------------------------------------------------------------------------

\* The contents of the array, in this state: what Bag calls waiting.
Contents == {heap[i] : i \in 0..(size - 1)}

LEMMA BagInit == Init => Bag!Init
BY DEF Init, Bag!Init

\* Exchanging two elements of the array does not change its contents.
LEMMA SwitchKeepsContents ==
    ASSUME TypeOK, NEW i \in 0..(size - 1), NEW j \in 0..(size - 1),
           heap' = Switched(i, j), size' = size
    PROVE  Contents' = Contents
<1>1. /\ heap'[i] = heap[j] /\ heap'[j] = heap[i]
      /\ \A k \in 0..(size - 1) : k # i /\ k # j => heap'[k] = heap[k]
  BY DEF Switched, TypeOK
<1> QED
  BY <1>1 DEF Contents

LEMMA BagStep ==
    TypeOK /\ OnePlace /\ TopIsLeast /\ [Next]_vars => [Bag!Next]_(Bag!bagVars)
<1> SUFFICES ASSUME TypeOK, OnePlace, TopIsLeast, [Next]_vars
             PROVE  Bag!Next \/ (Contents' = Contents /\ cache' = cache)
  BY DEF Bag!bagVars, Contents
<1>1. ASSUME NEW e \in Entry, InsertCommand(e) PROVE Bag!Put
  <2>1. /\ size \in Nat /\ size' = size + 1 /\ cache' = cache /\ heap'[size] = e
        /\ \A i \in 0..(size - 1) : heap'[i] = heap[i]
    BY <1>1 DEF InsertCommand, TypeOK
  <2>2. \A i : i \in 0..(size' - 1) <=> i = size \/ i \in 0..(size - 1)
    BY <2>1
  <2>3. Contents' = Contents \cup {e}
    BY <2>1, <2>2 DEF Contents
  <2>4. /\ e.key # NoHandle
        /\ \A f \in Contents : f.cmd # e.cmd
        /\ \A i \in 1..Len(cache) : cache[i].cmd # e.cmd
    BY <1>1 DEF InsertCommand, Queued, Contents
  <2> QED
    BY <2>1, <2>3, <2>4 DEF Bag!Put, Entry, Contents
<1>2. CASE SiftUpSwitch
  <2>1. cur \in 0..(size - 1) /\ Parent(cur) \in 0..(size - 1)
    BY <1>2, ParentBelow DEF SiftUpSwitch, TypeOK
  <2> QED
    BY <1>2, <2>1, SwitchKeepsContents DEF SiftUpSwitch
<1>3. CASE SiftDownSwitch
  <2>1. PICK g \in Children(cur) : heap' = Switched(g, cur)
    BY <1>3 DEF SiftDownSwitch
  <2>2. cur \in 0..(size - 1) /\ g \in 0..(size - 1)
    BY <1>3, <2>1, ChildrenAre DEF SiftDownSwitch, TypeOK, Children
  <2> QED
    BY <1>3, <2>1, <2>2, SwitchKeepsContents DEF SiftDownSwitch
<1>4. CASE TransferTopCommand
  <2>1. /\ size \in Nat /\ size > 0 /\ size' = size - 1 /\ pc = "idle"
        /\ cache' = Append(cache, heap[0])
    BY <1>4 DEF TransferTopCommand, TypeOK
  <2>2. \A i \in 0..(size - 2) : heap'[i] = IF i = 0 THEN heap[size - 1] ELSE heap[i]
    BY <1>4 DEF TransferTopCommand
  <2>3. \A i, j \in 0..(size - 1) : heap[i] = heap[j] => i = j
    BY DEF OnePlace
  <2>4. Contents' = {heap[k] : k \in 1..(size - 1)}
    <3>1. size' = size - 1 /\ 0..(size' - 1) = 0..(size - 2)
      BY <2>1
    <3>2. Contents' = {heap'[i] : i \in 0..(size - 2)}
      BY <3>1 DEF Contents
    <3>3. \A k \in 1..(size - 2) : k \in 0..(size - 2) /\ k # 0
      BY <2>1
    <3>4. ASSUME size > 1
          PROVE  0 \in 0..(size - 2) /\ size - 1 \in 1..(size - 1)
      BY <2>1, <3>4
    <3>5. ASSUME NEW k \in 1..(size - 1) PROVE k = size - 1 \/ k \in 1..(size - 2)
      BY <2>1
    <3>6. ASSUME NEW i \in 0..(size - 2)
          PROVE  heap'[i] \in {heap[k] : k \in 1..(size - 1)}
      BY <2>1, <2>2
    <3>7. ASSUME NEW k \in 1..(size - 1)
          PROVE  heap[k] \in {heap'[i] : i \in 0..(size - 2)}
      <4>1. CASE k = size - 1
        BY <2>1, <2>2, <3>4, <4>1
      <4>2. CASE k \in 1..(size - 2)
        BY <2>2, <3>3, <4>2
      <4> QED
        BY <3>5, <4>1, <4>2
    <3> QED
      BY <3>2, <3>6, <3>7
  <2>5. Contents' = Contents \ {heap[0]} /\ heap[0] \in Contents
    <3>1. 0 \in 0..(size - 1) /\ \A k : k \in 0..(size - 1) <=> k = 0 \/ k \in 1..(size - 1)
      BY <2>1
    <3>2. \A k \in 1..(size - 1) : heap[k] # heap[0]
      BY <2>3, <3>1
    <3> QED
      BY <2>4, <3>1, <3>2 DEF Contents
  <2>6. Bag!IsLeast(heap[0], Contents)
    BY <2>1 DEF Bag!IsLeast, TopIsLeast, Value, Contents
  <2>7. Bag!TakeLeast
    BY <2>1, <2>5, <2>6 DEF Bag!TakeLeast, Contents
  <2> QED
    BY <2>7 DEF Bag!Next
<1>5. ASSUME NEW h \in Handles, RemoveCommands(h) PROVE Bag!Cancel
  <2>1. /\ size' = size /\ cache' = cache
        /\ \A i \in 0..(size - 1) : heap'[i] = Bag!Cancelled(heap[i], h)
    BY <1>5 DEF RemoveCommands
  <2>2. Contents' = {Bag!Cancelled(e, h) : e \in Contents}
    BY <2>1 DEF Contents
  <2> QED
    BY <2>1, <2>2 DEF Bag!Cancel, Contents
<1>6. CASE RemoveSingle
  BY <1>6 DEF RemoveSingle, Bag!Next, Bag!Execute
<1>7. CASE SiftUpEnd \/ SiftDownEnd \/ UNCHANGED vars
  BY <1>7 DEF SiftUpEnd, SiftDownEnd, vars, Contents
<1> QED
  BY <1>1, <1>2, <1>3, <1>4, <1>5, <1>6, <1>7 DEF Next, Sift, Bag!Next

(***************************************************************************)
(* The heap implements the bag of waiting commands: whatever its order, an *)
(* observer of the waiting commands and the cache sees PriorityBag.        *)
(***************************************************************************)
THEOREM HeapImplementsBag == Spec => ImplementsBag
BY TypeCorrect, NeverTwice, LeastLeavesFirst, BagInit, BagStep, PTL
   DEF Spec, ImplementsBag, Bag!Spec

=============================================================================
