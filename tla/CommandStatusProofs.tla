------------------------ MODULE CommandStatusProofs ------------------------
(***************************************************************************)
(* Proofs about CommandStatus, for every set of commands, of callbacks and *)
(* of events, and every time a thread may wait.                            *)
(***************************************************************************)
EXTENDS CommandStatus, TLAPS, FiniteSetTheorems

\* Commands that have their number.
Done == {c \in Commands : pc[c] \notin {"idle", "number", "numbered"}}

\* As many numbers are used as commands have taken one, at most; without a race
\* nobody has the number of another.
Numbers ==
    /\ counter <= Cardinality(Done) + 1
    /\ \A c \in Commands : /\ ref[c] <= Cardinality(Done) + 1
                           /\ pc[c] \notin {"idle", "number"} => ref[c] # 0
    /\ ~raced => /\ \A c \in Done : ref[c] < counter
                 /\ \A c, d \in Done : ref[c] = ref[d] => c = d
                 /\ \A c, d \in Commands : pc[c] = "numbered" =>
                       ref[c] = counter /\ (pc[d] = "numbered" => c = d)

\* Where a command has no status, and what nobody has answered.
Course(c) ==
    /\ pc[c] \in {"register", "failed"} => ref[c] \notin Listed
    /\ silent[c] => ref[c] \notin Listed
    /\ silent[c] => pc[c] \notin {"register", "functors", "unsent", "deregister"}
    /\ pc[c] # "deregister" /\ ref[c] \in Listed => list[ref[c]].events = received[c]

\* What the waiting thread of c knows: at the end of its loop a decisive event,
\* or the queue has ended.
Waits(c) ==
    /\ current[c] \subseteq received[c] \cup {Unavailable}
    /\ current[c] \cap (Success \cup NoSuccess) # {} => received[c] \subseteq current[c]
    /\ outcome[c] \subseteq received[c] \cup {Unavailable, NoConnection}
    /\ (pc[c] = "ended" /\ ref[c] \in Listed /\ cycles[c] < MaxCycles /\ running)
       => current[c] \cap (Success \cup NoSuccess) # {}
    /\ (pc[c] = "result" /\ ref[c] \in Listed /\ cycles[c] < MaxCycles)
       => \/ current[c] \cap (Success \cup NoSuccess) # {}
          \/ ~running /\ intime[c] \subseteq current[c]

\* What has arrived, and where a thread is while it may sleep, or may not.
Arrived(c) ==
    /\ pc[c] \notin Sent => answers[c] = {} /\ received[c] = {}
    /\ received[c] \cap (Success \cup NoSuccess) # {} => answers[c] = {}
    /\ answers[c] \subseteq Progress \cup Success \cup NoSuccess
    /\ received[c] \subseteq Progress \cup Success \cup NoSuccess
    /\ intime[c] \subseteq received[c]
    /\ pc[c] = "running" => cycles[c] < MaxCycles
    /\ pc[c] = "again" => ~running

\* The inductive invariant.  An answer finds its own command because numbers
\* are unique; the rest of it follows a command from there to the end.
Inv == /\ TypeOK
       /\ Numbers
       /\ \A c \in Commands : Arrived(c)
       /\ ~raced => /\ \A r \in Listed : \E c \in Done : ref[c] = r
                    /\ \A c \in Done : Course(c)
                    /\ \A c \in Commands : Waits(c)

-----------------------------------------------------------------------------
(* What is done to the list. *)

StatusObject == [events : SUBSET AllEvents, callbacks : SUBSET Callbacks]

LEMMA UpdateList ==
    ASSUME TypeOK, NEW r \in References, NEW e \in AllEvents, Update(r, e)
    PROVE  /\ Listed' \subseteq Listed
           /\ \A x \in Listed' : /\ list'[x] \in StatusObject
                                 /\ x # r => list'[x] = list[x]
                                 /\ x = r => list'[x].events = list[x].events \cup {e}
<1>1. CASE r \notin Listed
  BY <1>1 DEF Update, Listed, TypeOK, StatusObject
<1>2. CASE r \in Listed
  <2>1. PICK T \in SUBSET list[r].callbacks : list' = Updated(r, e, T)
    BY <1>2 DEF Update
  <2>2. list[r] \in StatusObject
    BY <1>2 DEF TypeOK, StatusObject
  <2>3. CASE T # {} /\ T = list[r].callbacks
    BY <2>1, <2>3 DEF Updated, Without, Listed, TypeOK, StatusObject
  <2>4. CASE ~(T # {} /\ T = list[r].callbacks)
    <3> DEFINE s == [events |-> list[r].events \cup {e}, callbacks |-> list[r].callbacks \ T]
    <3>1. s \in StatusObject /\ s.events = list[r].events \cup {e}
      BY <2>2 DEF StatusObject
    <3>2. list' = With(r, s)
      BY <2>1, <2>4 DEF Updated
    <3> HIDE DEF s
    <3> QED
      BY <1>2, <3>1, <3>2 DEF With, Listed, TypeOK, StatusObject
  <2> QED
    BY <2>3, <2>4
<1> QED
  BY <1>1, <1>2

LEMMA WithoutList ==
    ASSUME TypeOK, NEW r, list' = Without(r)
    PROVE  /\ Listed' = Listed \ {r}
           /\ \A x \in Listed' : list'[x] = list[x] /\ list'[x] \in StatusObject
BY DEF Without, Listed, TypeOK, StatusObject

LEMMA AddFunctorsList ==
    ASSUME TypeOK, NEW r, NEW F \in SUBSET Callbacks, AddFunctors(r, F)
    PROVE  /\ Listed' = Listed
           /\ \A x \in Listed' : list'[x] \in StatusObject /\ list'[x].events = list[x].events
<1>1. CASE r \in Listed
  <2> DEFINE s == [list[r] EXCEPT !.callbacks = @ \cup F]
  <2>1. s \in StatusObject /\ s.events = list[r].events
    BY <1>1 DEF TypeOK, StatusObject
  <2>2. list' = With(r, s)
    BY <1>1 DEF AddFunctors
  <2> HIDE DEF s
  <2> QED
    <3>1. /\ Listed' = Listed
          /\ \A x \in Listed : list'[x] = IF x = r THEN s ELSE list[x]
      BY <1>1, <2>2 DEF With, Listed
    <3>2. \A x \in Listed : list[x] \in StatusObject
      BY DEF TypeOK, StatusObject
    <3>3. ASSUME NEW x \in Listed
          PROVE  list'[x] \in StatusObject /\ list'[x].events = list[x].events
      BY <2>1, <3>1, <3>2
    <3> QED
      BY <3>1, <3>3
<1>2. CASE r \notin Listed
  BY <1>2 DEF AddFunctors, Listed, TypeOK, StatusObject
<1> QED
  BY <1>1, <1>2

LEMMA CardinalityDone ==
    ASSUME TypeOK
    PROVE  /\ IsFiniteSet(Done) /\ IsFiniteSet(Commands)
           /\ Cardinality(Done) \in Nat /\ Cardinality(Commands) \in Nat
           /\ Cardinality(Done) <= Cardinality(Commands)
           /\ \A c \in Commands \ Done : /\ Cardinality(Done \cup {c}) = Cardinality(Done) + 1
                                        /\ Cardinality(Done) + 1 <= Cardinality(Commands)
<1>1. Done \subseteq Commands /\ IsFiniteSet(Commands)
  BY CommandStatusAssumption DEF Done
<1>2. /\ IsFiniteSet(Done) /\ Cardinality(Done) <= Cardinality(Commands)
      /\ Cardinality(Done) \in Nat /\ Cardinality(Commands) \in Nat
  BY <1>1, FS_Subset, FS_CardinalityType
<1>3. ASSUME NEW c \in Commands \ Done
      PROVE  /\ Cardinality(Done \cup {c}) = Cardinality(Done) + 1
             /\ Cardinality(Done) + 1 <= Cardinality(Commands)
  <2>1. Cardinality(Done \cup {c}) = Cardinality(Done) + 1
    BY <1>2, FS_AddElement
  <2>2. Done \cup {c} \subseteq Commands
    BY <1>1
  <2> QED
    BY <1>1, <2>1, <2>2, FS_Subset
<1> QED
  BY <1>1, <1>2, <1>3

LEMMA NumbersKept ==
    ASSUME Inv, Done' = Done, UNCHANGED <<counter, ref, raced>>,
           \A d \in Commands : /\ pc'[d] = "numbered" => pc[d] = "numbered"
                               /\ pc[d] \in {"idle", "number"} => pc'[d] \in {"idle", "number"}
    PROVE  Numbers'
<1>1. Numbers
  BY DEF Inv
<1>2. \A c \in Commands : ref'[c] <= Cardinality(Done') + 1
  BY <1>1 DEF Numbers
<1>6. \A c \in Commands : pc'[c] \notin {"idle", "number"} => ref'[c] # 0
  BY <1>1, Zenon DEF Numbers
<1>3. ~raced' => /\ \A c \in Done' : ref'[c] < counter'
                 /\ \A c, d \in Done' : ref'[c] = ref'[d] => c = d
  BY <1>1 DEF Numbers
<1>4. ~raced' => \A c, d \in Commands : pc'[c] = "numbered" =>
                    ref'[c] = counter' /\ (pc'[d] = "numbered" => c = d)
  BY <1>1, Zenon DEF Numbers
<1>5. counter' <= Cardinality(Done') + 1
  BY <1>1 DEF Numbers
<1> QED
  BY <1>2, <1>3, <1>4, <1>5, <1>6, Zenon DEF Numbers

LEMMA EventKinds ==
    /\ Unavailable \in AllEvents /\ NoConnection \in AllEvents /\ Unsent \in AllEvents
    /\ Progress \subseteq AllEvents /\ Success \subseteq AllEvents /\ NoSuccess \subseteq AllEvents
BY DEF AllEvents, Decisive

LEMMA SendStep ==
    ASSUME Inv, NEW c \in Commands, Send(c)
    PROVE  Inv'
<1> USE DEF Send
<1>1. Done' = Done
  BY DEF Goes, Done, Sent, AfterNumber, Inv, TypeOK
<1>2. list' = list
  BY DEF fixed, waiting, server
<1>3. TypeOK'
  BY DEF Goes, fixed, waiting, server, Inv, TypeOK, Listed
<1>4. Numbers'
  BY <1>1, NumbersKept DEF Goes, AfterNumber, fixed, waiting, server, Inv, TypeOK
<1>5. \A d \in Commands : Arrived(d)'
  BY DEF Send, Goes, fixed, waiting, server, Inv, TypeOK, Arrived, Sent
<1>6. ~raced' => \A r \in Listed' : \E d \in Done' : ref'[d] = r
  BY <1>1, <1>2 DEF Send, Goes, fixed, waiting, server, Inv, TypeOK, Listed, Done
<1>7. ~raced' => \A d \in Done' : Course(d)'
  BY <1>1 DEF Goes, fixed, server, Inv, Course, Listed
<1>8. ~raced' => \A d \in Commands : Waits(d)'
  BY DEF Goes, waiting, server, Inv, Waits, Listed
<1> QED
  BY <1>3, <1>4, <1>5, <1>6, <1>7, <1>8 DEF Inv

LEMMA NumberStep ==
    ASSUME Inv, NEW c \in Commands, Number(c)
    PROVE  Inv'
<1> USE DEF Number
<1>1. Done' = Done
  BY DEF Goes, Done, Sent, AfterNumber, Inv, TypeOK
<1>2. list' = list
  BY DEF fixed, waiting, server
<1>3. TypeOK'
  BY DEF Goes, fixed, waiting, server, Inv, TypeOK, Listed
<1>4. Numbers'
  <2>1. Cardinality(Done') = Cardinality(Done) /\ Cardinality(Done) \in Nat
    BY <1>1, CardinalityDone DEF Inv
  <2>2. /\ counter' = counter /\ ref' = [ref EXCEPT ![c] = counter] /\ pc[c] = "number"
        /\ pc' = [pc EXCEPT ![c] = "numbered"]
        /\ raced' = (raced \/ \E d \in Commands : pc[d] = "numbered")
    BY DEF Goes
  <2>3. c \notin Done
    BY <2>2 DEF Done
  <2>4. counter \in Nat \ {0} /\ \A d \in Commands : ref[d] \in Nat
    BY CardinalityDone DEF Inv, TypeOK, References
  <2>5. /\ counter' <= Cardinality(Done') + 1
        /\ \A d \in Commands : /\ ref'[d] <= Cardinality(Done') + 1
                               /\ pc'[d] \notin {"idle", "number"} => ref'[d] # 0
    BY <2>1, <2>2, <2>4 DEF Inv, TypeOK, Numbers
  <2>6. \A d \in Done : ref'[d] = ref[d] /\ d \in Commands
    BY <2>2, <2>3 DEF Inv, TypeOK, Done
  <2>7. ~raced' => \A d \in Commands : pc'[d] = "numbered" => d = c
    BY <2>2 DEF Inv, TypeOK
  <2>8. ~raced' => /\ \A d \in Done' : ref'[d] < counter'
                   /\ \A d, x \in Done' : ref'[d] = ref'[x] => d = x
    <3>1. ~raced => /\ \A d \in Done : ref[d] < counter
                    /\ \A d, x \in Done : ref[d] = ref[x] => d = x
      BY DEF Inv, Numbers
    <3>2. ~raced' => ~raced
      BY <2>2
    <3> QED
      BY <1>1, <2>2, <2>6, <3>1, <3>2
  <2>9. ref'[c] = counter'
    BY <2>2 DEF Inv, TypeOK
  <2> QED
    BY <2>5, <2>7, <2>8, <2>9 DEF Numbers
<1>5. \A d \in Commands : Arrived(d)'
  BY DEF Number, Goes, fixed, waiting, server, Inv, TypeOK, Arrived, Sent
<1>6. ~raced' => \A r \in Listed' : \E d \in Done' : ref'[d] = r
  BY <1>1, <1>2 DEF Number, Goes, fixed, waiting, server, Inv, TypeOK, Listed, Done
<1>7. ~raced' => \A d \in Done' : Course(d)'
  BY DEF Goes, fixed, server, Inv, TypeOK, Course, Done, Listed
<1>8. ~raced' => \A d \in Commands : Waits(d)'
  BY DEF Goes, waiting, server, Inv, TypeOK, Waits, Listed
<1> QED
  BY <1>3, <1>4, <1>5, <1>6, <1>7, <1>8 DEF Inv

LEMMA NumberedStep ==
    ASSUME Inv, NEW c \in Commands, Numbered(c)
    PROVE  Inv'
<1> USE DEF Numbered
<1>1. Done' = Done \cup {c}
  BY DEF Goes, Done, Sent, AfterNumber, Inv, TypeOK
<1>2. list' = list
  BY DEF fixed, waiting, server
<1>A. /\ pc[c] = "numbered" /\ pc' = [pc EXCEPT ![c] = AfterNumber(c)]
      /\ AfterNumber(c) \in {"transmit", "register"} /\ counter' = ref[c] + 1
      /\ UNCHANGED <<raced, ref, fixed, list, waiting, server>>
      /\ c \notin Done
  BY DEF Goes, AfterNumber, Done
<1>B. /\ Cardinality(Done') = Cardinality(Done) + 1 /\ Cardinality(Done) \in Nat
      /\ Cardinality(Done') <= Cardinality(Commands) /\ Cardinality(Commands) \in Nat
      /\ ref[c] \in Nat /\ ref[c] <= Cardinality(Done) + 1
  BY <1>1, <1>A, CardinalityDone DEF Inv, TypeOK, References, Numbers
<1>3. TypeOK'
  <2>1. counter' \in References
    BY <1>A, <1>B DEF References
  <2> QED
    BY <1>A, <2>1 DEF Inv, TypeOK, Sent, References, fixed, waiting, server, Listed
<1>C. /\ counter \in Nat /\ \A d \in Commands : ref[d] \in Nat
  BY CardinalityDone DEF Inv, TypeOK, References
<1>D. ~raced => /\ ref[c] = counter /\ \A d \in Done : ref[d] < counter
                /\ \A d \in Commands : pc[d] = "numbered" => d = c
  BY <1>A DEF Inv, Numbers
<1>4. Numbers'
  <2>1. /\ counter' <= Cardinality(Done') + 1
        /\ \A d \in Commands : /\ ref'[d] <= Cardinality(Done') + 1
                               /\ pc'[d] \notin {"idle", "number"} => ref'[d] # 0
    <3>1. \A d \in Commands : pc'[d] \notin {"idle", "number"} => pc[d] \notin {"idle", "number"}
      BY <1>A DEF Inv, TypeOK
    <3> QED
      BY <1>A, <1>B, <1>C, <3>1 DEF Inv, Numbers
  <2>2. ~raced' => /\ \A d \in Done' : ref'[d] < counter'
                   /\ \A d, x \in Done' : ref'[d] = ref'[x] => d = x
    <3>1. ~raced => \A d, x \in Done : ref[d] = ref[x] => d = x
      BY DEF Inv, Numbers
    <3>2. Done \subseteq Commands
      BY DEF Done
    <3> QED
      BY <1>1, <1>A, <1>C, <1>D, <3>1, <3>2
  <2>3. ~raced' => \A d \in Commands : pc'[d] # "numbered"
    BY <1>A, <1>D DEF Inv, TypeOK
  <2> QED
    BY <2>1, <2>2, <2>3 DEF Numbers
<1>5. \A d \in Commands : Arrived(d)'
  <2>1. \A d \in Commands : /\ pc'[d] \in Sent => pc'[d] = pc[d]
                           /\ pc'[d] \notin Sent => pc[d] \notin Sent
    BY <1>A DEF Inv, TypeOK, Sent
  <2>2. \A d \in Commands : pc'[d] \in {"running", "again"} => pc'[d] = pc[d]
    BY <1>A DEF Inv, TypeOK
  <2> QED
    BY <1>A, <2>1, <2>2 DEF Inv, Arrived, waiting, server
<1>6. ~raced' => \A r \in Listed' : \E d \in Done' : ref'[d] = r
  BY <1>1, <1>2 DEF Numbered, Goes, fixed, waiting, server, Inv, TypeOK, Listed, Done
<1>7. ~raced' => \A d \in Done' : Course(d)'
  <2>1. ~raced => ref[c] \notin Listed
    BY <1>A, <1>C, <1>D DEF Inv, Done
  <2>2. ASSUME ~raced', NEW d \in Done'
        PROVE  Course(d)'
    <3>1. CASE d = c
      <4>1. pc'[c] = AfterNumber(c) /\ (silent[c] => pc'[c] = "transmit")
        BY <1>A DEF Inv, TypeOK, AfterNumber
      <4> QED
        BY <1>A, <2>1, <2>2, <3>1, <4>1 DEF Course, Listed, fixed, waiting, server
    <3>2. CASE d # c
      <4>1. d \in Done /\ d \in Commands
        BY <1>1, <3>2 DEF Done
      <4>2. pc'[d] = pc[d]
        BY <1>A, <3>2, <4>1 DEF Inv, TypeOK
      <4> QED
        BY <1>A, <2>2, <4>1, <4>2 DEF Inv, Course, Listed, fixed, waiting, server
    <3> QED
      BY <3>1, <3>2
  <2> QED
    BY <2>2
<1>8. ~raced' => \A d \in Commands : Waits(d)'
  <2>1. \A d \in Commands : pc'[d] \in {"ended", "result"} => pc'[d] = pc[d]
    BY <1>A DEF Inv, TypeOK
  <2> QED
    BY <1>A, <2>1 DEF Inv, Waits, Listed, fixed, waiting, server
<1> QED
  BY <1>3, <1>4, <1>5, <1>6, <1>7, <1>8 DEF Inv

LEMMA RegisterStep ==
    ASSUME Inv, NEW c \in Commands, Register(c)
    PROVE  Inv'
<1> USE DEF Register
<1>1. Done' = Done
  BY DEF Goes, Done, Sent, AfterNumber, Inv, TypeOK
<1>A. ref[c] \in References /\ NewStatus \in StatusObject /\ NewStatus.events = {}
  BY DEF Goes, Inv, TypeOK, Numbers, NewStatus, StatusObject
<1>2. /\ Listed' = Listed \cup {ref[c]}
      /\ \A x \in Listed' : /\ list'[x] \in StatusObject
                            /\ x # ref[c] => list'[x] = list[x]
                            /\ ref[c] \notin Listed /\ x = ref[c] => list'[x].events = {}
  <2>1. CASE list' = With(ref[c], NewStatus)
    BY <1>A, <2>1 DEF With, StatusObject, Listed, Inv, TypeOK
  <2>2. CASE ref[c] \in Listed /\ UNCHANGED list
    <3>1. Listed' = Listed /\ ref[c] \in Listed
      BY <2>2 DEF Listed
    <3>2. \A x \in Listed : list'[x] = list[x] /\ list[x] \in StatusObject
      BY <2>2 DEF Inv, TypeOK, StatusObject
    <3> QED
      BY <3>1, <3>2
  <2> QED
    BY <2>1, <2>2
<1>3. TypeOK'
  BY <1>A, <1>2 DEF Register, Goes, fixed, waiting, server, Inv, TypeOK, Sent, StatusObject
<1>4. Numbers'
  BY <1>1, NumbersKept DEF Goes, AfterNumber, fixed, waiting, server, Inv, TypeOK
<1>5. \A d \in Commands : Arrived(d)'
  BY DEF Register, Goes, fixed, waiting, server, Inv, TypeOK, Arrived, Sent
<1>6. ~raced' => \A r \in Listed' : \E d \in Done' : ref'[d] = r
  BY <1>1, <1>2 DEF Register, Goes, fixed, waiting, server, Inv, TypeOK, Listed, Done
<1>7. ~raced' => \A d \in Done' : Course(d)'
  <2>1. /\ c \in Done /\ pc[c] = "register" /\ received[c] = {}
        /\ pc' = [pc EXCEPT ![c] = IF functors[c] = {} THEN "transmit" ELSE "functors"]
        /\ UNCHANGED <<counter, raced, ref, fixed, waiting, server>>
    BY DEF Goes, Done, Inv, Arrived, Sent
  <2>2. ~raced => ref[c] \notin Listed /\ ~silent[c]
    BY <2>1 DEF Inv, Course
  <2>3. ASSUME ~raced', NEW d \in Done'
        PROVE  Course(d)'
    <3>1. CASE d = c
      <4>1. pc'[c] \in {"transmit", "functors"}
        BY <2>1 DEF Inv, TypeOK
      <4> QED
        <5>1. ref'[c] = ref[c] /\ silent'[c] = silent[c] /\ received'[c] = {} /\ ~silent[c]
          BY <2>1, <2>2, <2>3 DEF fixed, server
        <5>2. ref[c] \in Listed' => list'[ref[c]].events = {}
          BY <1>2, <2>1, <2>2, <2>3
        <5> QED
          BY <3>1, <4>1, <5>1, <5>2 DEF Course
    <3>2. CASE d # c
      <4>1. d \in Done /\ d \in Commands
        BY <1>1 DEF Done
      <4>2. pc'[d] = pc[d] /\ ref[d] # ref[c]
        BY <2>1, <2>3, <3>2, <4>1 DEF Inv, TypeOK, Numbers
      <4> QED
        BY <1>2, <2>1, <2>3, <4>1, <4>2 DEF Inv, Course, fixed, waiting, server
    <3> QED
      BY <3>1, <3>2
  <2> QED
    BY <2>3
<1>8. ~raced' => \A d \in Commands : Waits(d)'
  BY <1>2 DEF Goes, waiting, server, Inv, Numbers, Waits, Done
<1> QED
  BY <1>3, <1>4, <1>5, <1>6, <1>7, <1>8 DEF Inv

LEMMA RegisterFunctorsStep ==
    ASSUME Inv, NEW c \in Commands, RegisterFunctors(c)
    PROVE  Inv'
<1> USE DEF RegisterFunctors
<1>1. Done' = Done
  BY DEF Goes, Done, Sent, AfterNumber, Inv, TypeOK
<1>2. /\ Listed' = Listed
      /\ \A x \in Listed' : list'[x] \in StatusObject /\ list'[x].events = list[x].events
  <2>1. functors[c] \in SUBSET Callbacks
    BY DEF Inv, TypeOK
  <2> QED
    BY <2>1, AddFunctorsList DEF Inv
<1>3. TypeOK'
  BY <1>2 DEF Goes, fixed, waiting, server, Inv, TypeOK, StatusObject
<1>4. Numbers'
  BY <1>1, NumbersKept DEF Goes, AfterNumber, fixed, waiting, server, Inv, TypeOK
<1>5. \A d \in Commands : Arrived(d)'
  BY DEF RegisterFunctors, Goes, fixed, waiting, server, Inv, TypeOK, Arrived, Sent
<1>6. ~raced' => \A r \in Listed' : \E d \in Done' : ref'[d] = r
  BY <1>1, <1>2 DEF RegisterFunctors, Goes, fixed, waiting, server, Inv, TypeOK, Listed, Done
<1>7. ~raced' => \A d \in Done' : Course(d)'
  BY <1>1, <1>2 DEF Goes, fixed, server, Inv, Course
<1>8. ~raced' => \A d \in Commands : Waits(d)'
  BY <1>2 DEF Goes, waiting, server, Inv, Waits
<1> QED
  BY <1>3, <1>4, <1>5, <1>6, <1>7, <1>8 DEF Inv

LEMMA TransmitStep ==
    ASSUME Inv, NEW c \in Commands, Transmit(c)
    PROVE  Inv'
<1> USE DEF Transmit
<1>1. Done' = Done
  BY DEF Goes, Done, Sent, AfterNumber, Inv, TypeOK
<1>2. list' = list
  BY DEF fixed, waiting, server
<1>3. TypeOK'
  BY EventKinds DEF Goes, fixed, waiting, Inv, TypeOK, Sent, Listed
<1>4. Numbers'
  BY <1>1, NumbersKept DEF Goes, AfterNumber, fixed, waiting, server, Inv, TypeOK
<1>5. \A d \in Commands : Arrived(d)'
  BY DEF Transmit, Goes, fixed, waiting, server, Inv, TypeOK, Arrived, Sent
<1>6. ~raced' => \A r \in Listed' : \E d \in Done' : ref'[d] = r
  BY <1>1, <1>2 DEF Transmit, Goes, fixed, waiting, server, Inv, TypeOK, Listed, Done
<1>7. ~raced' => \A d \in Done' : Course(d)'
  BY <1>1 DEF Goes, fixed, Inv, Course, Listed
<1>8. ~raced' => \A d \in Commands : Waits(d)'
  BY DEF Goes, waiting, Inv, Waits, Listed
<1> QED
  BY <1>3, <1>4, <1>5, <1>6, <1>7, <1>8 DEF Inv

LEMMA TransmitFailsStep ==
    ASSUME Inv, NEW c \in Commands, TransmitFails(c)
    PROVE  Inv'
<1> USE DEF TransmitFails
<1>1. Done' = Done
  BY DEF Goes, Done, Sent, AfterNumber, Inv, TypeOK
<1>2. list' = list
  BY DEF fixed, waiting, server
<1>3. TypeOK'
  BY DEF Goes, fixed, waiting, server, Inv, TypeOK, Listed
<1>4. Numbers'
  BY <1>1, NumbersKept DEF Goes, AfterNumber, fixed, waiting, server, Inv, TypeOK
<1>5. \A d \in Commands : Arrived(d)'
  BY DEF TransmitFails, Goes, fixed, waiting, server, Inv, TypeOK, Arrived, Sent
<1>6. ~raced' => \A r \in Listed' : \E d \in Done' : ref'[d] = r
  BY <1>1, <1>2 DEF TransmitFails, Goes, fixed, waiting, server, Inv, TypeOK, Listed, Done
<1>7. ~raced' => \A d \in Done' : Course(d)'
  BY <1>1 DEF Goes, fixed, server, Inv, Course, Listed
<1>8. ~raced' => \A d \in Commands : Waits(d)'
  BY DEF Goes, waiting, server, Inv, Waits, Listed
<1> QED
  BY <1>3, <1>4, <1>5, <1>6, <1>7, <1>8 DEF Inv

LEMMA UpdateUnsentStep ==
    ASSUME Inv, NEW c \in Commands, UpdateUnsent(c)
    PROVE  Inv'
<1> USE DEF UpdateUnsent
<1>1. Done' = Done
  BY DEF Goes, Done, Sent, AfterNumber, Inv, TypeOK
<1>2. /\ Listed' \subseteq Listed
      /\ \A x \in Listed' : /\ list'[x] \in StatusObject
                            /\ x # ref[c] => list'[x] = list[x]
                            /\ x = ref[c] => list'[x].events = list[x].events \cup {Unsent}
  <2>1. Unsent \in AllEvents /\ (ref[c] \in References \/ ref[c] \notin Listed)
    BY DEF AllEvents, Decisive, Inv, TypeOK
  <2> QED
    BY <2>1, UpdateList DEF Inv, Update, Listed, TypeOK, StatusObject
<1>3. TypeOK'
  BY <1>2 DEF Goes, fixed, waiting, server, Inv, TypeOK, StatusObject
<1>4. Numbers'
  BY <1>1, NumbersKept DEF Goes, AfterNumber, fixed, waiting, server, Inv, TypeOK
<1>5. \A d \in Commands : Arrived(d)'
  BY DEF UpdateUnsent, Goes, fixed, waiting, server, Inv, TypeOK, Arrived, Sent
<1>6. ~raced' => \A r \in Listed' : \E d \in Done' : ref'[d] = r
  BY <1>1, <1>2 DEF UpdateUnsent, Goes, fixed, waiting, server, Inv, TypeOK, Listed, Done
<1>7. ~raced' => \A d \in Done' : Course(d)'
  BY <1>2 DEF Goes, fixed, server, Inv, TypeOK, Numbers, Course, Done
<1>8. ~raced' => \A d \in Commands : Waits(d)'
  BY <1>2 DEF Goes, waiting, server, Inv, Waits
<1> QED
  BY <1>3, <1>4, <1>5, <1>6, <1>7, <1>8 DEF Inv

LEMMA DeregisterStep ==
    ASSUME Inv, NEW c \in Commands, Deregister(c)
    PROVE  Inv'
<1> USE DEF Deregister
<1>1. Done' = Done
  BY DEF Goes, Done, Sent, AfterNumber, Inv, TypeOK
<1>2. /\ Listed' = Listed \ {ref[c]}
      /\ \A x \in Listed' : list'[x] = list[x] /\ list'[x] \in StatusObject
  BY WithoutList DEF Inv
<1>3. TypeOK'
  BY <1>2 DEF Goes, fixed, waiting, server, Inv, TypeOK
<1>4. Numbers'
  BY <1>1, NumbersKept DEF Goes, AfterNumber, fixed, waiting, server, Inv, TypeOK
<1>5. \A d \in Commands : Arrived(d)'
  BY DEF Deregister, Goes, fixed, waiting, server, Inv, TypeOK, Arrived, Sent
<1>6. ~raced' => \A r \in Listed' : \E d \in Done' : ref'[d] = r
  BY <1>1, <1>2 DEF Deregister, Goes, fixed, waiting, server, Inv, TypeOK, Listed, Done
<1>7. ~raced' => \A d \in Done' : Course(d)'
  BY <1>1, <1>2 DEF Goes, fixed, server, Inv, Course
<1>8. ~raced' => \A d \in Commands : Waits(d)'
  BY <1>2 DEF Goes, waiting, server, Inv, Waits
<1> QED
  BY <1>3, <1>4, <1>5, <1>6, <1>7, <1>8 DEF Inv

LEMMA AnswerStep ==
    ASSUME Inv, NEW c \in Commands, NEW e \in Progress \cup Success \cup NoSuccess, Answer(c, e)
    PROVE  Inv'
<1> USE DEF Answer
<1>1. Done' = Done
  BY DEF Done, Sent, AfterNumber, Inv, TypeOK
<1>2. /\ Listed' \subseteq Listed
      /\ \A x \in Listed' : /\ list'[x] \in StatusObject
                            /\ x # ref[c] => list'[x] = list[x]
                            /\ x = ref[c] => list'[x].events = list[x].events \cup {e}
  <2>1. e \in AllEvents /\ (ref[c] \in References \/ ref[c] \notin Listed)
    BY DEF AllEvents, Decisive, Inv, TypeOK
  <2> QED
    BY <2>1, UpdateList DEF Inv, Update, Listed, TypeOK, StatusObject
<1>3. TypeOK'
  BY <1>2 DEF fixed, waiting, Inv, TypeOK, StatusObject
<1>4. Numbers'
  BY <1>1, NumbersKept DEF fixed, waiting, server, Inv, TypeOK
<1>5. \A d \in Commands : Arrived(d)'
  BY CommandStatusAssumption DEF Answer, fixed, waiting, server, Inv, TypeOK, Arrived, Sent
<1>6. ~raced' => \A r \in Listed' : \E d \in Done' : ref'[d] = r
  BY <1>1, <1>2 DEF Answer, fixed, waiting, server, Inv, TypeOK, Listed, Done
<1>7. ~raced' => \A d \in Done' : Course(d)'
  <2>1. /\ c \in Done /\ received' = [received EXCEPT ![c] = @ \cup {e}]
        /\ UNCHANGED <<counter, raced, pc, ref, fixed, waiting, running, intime>>
    BY DEF Done, Inv, Arrived, Sent
  <2>2. ASSUME ~raced', NEW d \in Done'
        PROVE  Course(d)'
    <3>1. d \in Done /\ d \in Commands /\ Course(d)
      BY <1>1, <2>1, <2>2 DEF Done, Inv
    <3>2. CASE d = c
      <4>1. received'[c] = received[c] \cup {e}
        BY <2>1 DEF Inv, TypeOK
      <4> QED
        BY <1>2, <2>1, <3>1, <3>2, <4>1 DEF Course, fixed
    <3>3. CASE d # c
      <4>1. received'[d] = received[d] /\ ref[d] # ref[c]
        BY <2>1, <2>2, <3>1, <3>3 DEF Inv, TypeOK, Numbers
      <4> QED
        BY <1>2, <2>1, <3>1, <4>1 DEF Course, fixed
    <3> QED
      BY <3>2, <3>3
  <2> QED
    BY <2>2
<1>8. ~raced' => \A d \in Commands : Waits(d)'
  BY CommandStatusAssumption, <1>2 DEF waiting, Inv, Arrived, Waits
<1> QED
  BY <1>3, <1>4, <1>5, <1>6, <1>7, <1>8 DEF Inv

LEMMA QueueEndsStep ==
    ASSUME Inv, QueueEnds
    PROVE  Inv'
<1> USE DEF QueueEnds
<1>1. Done' = Done
  BY DEF Done, Sent, AfterNumber, Inv, TypeOK
<1>2. list' = list
  BY DEF fixed, waiting, server
<1>3. TypeOK'
  BY DEF fixed, waiting, Inv, TypeOK, Listed
<1>4. Numbers'
  BY <1>1, NumbersKept DEF fixed, waiting, server, Inv, TypeOK
<1>5. \A d \in Commands : Arrived(d)'
  BY DEF QueueEnds, fixed, waiting, server, Inv, TypeOK, Arrived, Sent
<1>6. ~raced' => \A r \in Listed' : \E d \in Done' : ref'[d] = r
  BY <1>1, <1>2 DEF QueueEnds, fixed, waiting, server, Inv, TypeOK, Listed, Done
<1>7. ~raced' => \A d \in Done' : Course(d)'
  BY <1>1 DEF fixed, Inv, Course, Listed
<1>8. ~raced' => \A d \in Commands : Waits(d)'
  BY DEF waiting, Inv, Waits, Listed
<1> QED
  BY <1>3, <1>4, <1>5, <1>6, <1>7, <1>8 DEF Inv

LEMMA NewFunctorStep ==
    ASSUME Inv, NEW c \in Commands, NEW f \in Callbacks, NewFunctor(c, f)
    PROVE  Inv'
<1> USE DEF NewFunctor
<1>1. Done' = Done
  BY DEF Done, Sent, AfterNumber, Inv, TypeOK
<1>2. /\ Listed' = Listed
      /\ \A x \in Listed' : list'[x] \in StatusObject /\ list'[x].events = list[x].events
  <2>1. {f} \in SUBSET Callbacks
    BY DEF Inv, TypeOK
  <2> QED
    BY <2>1, AddFunctorsList DEF Inv
<1>3. TypeOK'
  BY <1>2 DEF fixed, waiting, server, Inv, TypeOK, StatusObject
<1>4. Numbers'
  BY <1>1, NumbersKept DEF fixed, waiting, server, Inv, TypeOK
<1>5. \A d \in Commands : Arrived(d)'
  BY DEF NewFunctor, fixed, waiting, server, Inv, TypeOK, Arrived, Sent
<1>6. ~raced' => \A r \in Listed' : \E d \in Done' : ref'[d] = r
  BY <1>1, <1>2 DEF NewFunctor, fixed, waiting, server, Inv, TypeOK, Listed, Done
<1>7. ~raced' => \A d \in Done' : Course(d)'
  BY <1>1, <1>2 DEF fixed, server, Inv, Course
<1>8. ~raced' => \A d \in Commands : Waits(d)'
  BY <1>2 DEF waiting, server, Inv, Waits
<1> QED
  BY <1>3, <1>4, <1>5, <1>6, <1>7, <1>8 DEF Inv

LEMMA ClearStep ==
    ASSUME Inv, NEW c \in Commands, Clear(c)
    PROVE  Inv'
<1> USE DEF Clear
<1>1. Done' = Done
  BY DEF Done, Sent, AfterNumber, Inv, TypeOK
<1>2. /\ Listed' = Listed \ {ref[c]}
      /\ \A x \in Listed' : list'[x] = list[x] /\ list'[x] \in StatusObject
  BY WithoutList DEF Inv
<1>3. TypeOK'
  BY <1>2 DEF fixed, waiting, server, Inv, TypeOK
<1>4. Numbers'
  BY <1>1, NumbersKept DEF fixed, waiting, server, Inv, TypeOK
<1>5. \A d \in Commands : Arrived(d)'
  BY DEF Clear, fixed, waiting, server, Inv, TypeOK, Arrived, Sent
<1>6. ~raced' => \A r \in Listed' : \E d \in Done' : ref'[d] = r
  BY <1>1, <1>2 DEF Clear, fixed, waiting, server, Inv, TypeOK, Listed, Done
<1>7. ~raced' => \A d \in Done' : Course(d)'
  BY <1>1, <1>2 DEF fixed, server, Inv, Course
<1>8. ~raced' => \A d \in Commands : Waits(d)'
  BY <1>2 DEF waiting, server, Inv, Waits
<1> QED
  BY <1>3, <1>4, <1>5, <1>6, <1>7, <1>8 DEF Inv

LEMMA WaitStep ==
    ASSUME Inv, NEW c \in Commands, Wait(c)
    PROVE  Inv'
<1> USE DEF Wait
<1>1. Done' = Done
  BY DEF Goes, Done, Sent, AfterNumber, Inv, TypeOK
<1>2. list' = list
  BY DEF fixed, waiting, server
<1>3. TypeOK'
  BY DEF Goes, fixed, waiting, server, Inv, TypeOK, Sent, Listed
<1>4. Numbers'
  BY <1>1, NumbersKept DEF Goes, AfterNumber, fixed, waiting, server, Inv, TypeOK
<1>5. \A d \in Commands : Arrived(d)'
  BY DEF Wait, Goes, fixed, waiting, server, Inv, TypeOK, Arrived, Sent
<1>6. ~raced' => \A r \in Listed' : \E d \in Done' : ref'[d] = r
  BY <1>1, <1>2 DEF Wait, Goes, fixed, waiting, server, Inv, TypeOK, Listed, Done
<1>7. ~raced' => \A d \in Done' : Course(d)'
  BY <1>1 DEF Goes, fixed, server, Inv, Course, Listed
<1>8. ~raced' => \A d \in Commands : Waits(d)'
  BY DEF Goes, waiting, server, Inv, Waits, Listed
<1> QED
  BY <1>3, <1>4, <1>5, <1>6, <1>7, <1>8 DEF Inv

LEMMA RefusedStep ==
    ASSUME Inv, NEW c \in Commands, Refused(c)
    PROVE  Inv'
<1> USE DEF Refused
<1>1. Done' = Done
  BY DEF Goes, Done, Sent, AfterNumber, Inv, TypeOK
<1>2. list' = list
  BY DEF fixed, waiting, server
<1>3. TypeOK'
  BY EventKinds DEF Goes, fixed, server, Inv, TypeOK, Sent, Listed
<1>4. Numbers'
  BY <1>1, NumbersKept DEF Goes, AfterNumber, fixed, waiting, server, Inv, TypeOK
<1>5. \A d \in Commands : Arrived(d)'
  BY DEF Refused, Goes, fixed, waiting, server, Inv, TypeOK, Arrived, Sent
<1>6. ~raced' => \A r \in Listed' : \E d \in Done' : ref'[d] = r
  BY <1>1, <1>2 DEF Refused, Goes, fixed, waiting, server, Inv, TypeOK, Listed, Done
<1>7. ~raced' => \A d \in Done' : Course(d)'
  BY <1>1 DEF Goes, fixed, server, Inv, Course, Listed
<1>8. ~raced' => \A d \in Commands : Waits(d)'
  BY DEF Goes, server, Inv, Waits, Listed
<1> QED
  BY <1>3, <1>4, <1>5, <1>6, <1>7, <1>8 DEF Inv

LEMMA LookStep ==
    ASSUME Inv, NEW c \in Commands, Look(c)
    PROVE  Inv'
<1> USE DEF Look
<1>1. Done' = Done
  BY DEF Goes, Done, Sent, AfterNumber, Inv, TypeOK
<1>2. list' = list
  BY DEF fixed, waiting, server
<1>3. TypeOK'
  BY EventKinds DEF Goes, fixed, server, Inv, TypeOK, Sent, Listed, Status
<1>4. Numbers'
  BY <1>1, NumbersKept DEF Goes, AfterNumber, fixed, waiting, server, Inv, TypeOK
<1>5. \A d \in Commands : Arrived(d)'
  BY DEF Look, Goes, fixed, waiting, server, Inv, TypeOK, Arrived, Sent
<1>6. ~raced' => \A r \in Listed' : \E d \in Done' : ref'[d] = r
  BY <1>1, <1>2 DEF Look, Goes, fixed, waiting, server, Inv, TypeOK, Listed, Done
<1>7. ~raced' => \A d \in Done' : Course(d)'
  BY <1>1 DEF Goes, fixed, server, Inv, Course, Listed
<1>8. ~raced' => \A d \in Commands : Waits(d)'
  BY CommandStatusAssumption
     DEF Goes, server, Inv, TypeOK, Arrived, Course, Waits, Done, Listed, Status, Decisive
<1> QED
  BY <1>3, <1>4, <1>5, <1>6, <1>7, <1>8 DEF Inv

LEMMA TimesUpStep ==
    ASSUME Inv, NEW c \in Commands, TimesUp(c)
    PROVE  Inv'
<1> USE DEF TimesUp
<1>1. Done' = Done
  BY DEF Goes, Done, Sent, AfterNumber, Inv, TypeOK
<1>2. list' = list
  BY DEF fixed, waiting, server
<1>3. TypeOK'
  BY DEF Goes, fixed, waiting, server, Inv, TypeOK, Sent, Listed
<1>4. Numbers'
  BY <1>1, NumbersKept DEF Goes, AfterNumber, fixed, waiting, server, Inv, TypeOK
<1>5. \A d \in Commands : Arrived(d)'
  BY DEF TimesUp, Goes, fixed, waiting, server, Inv, TypeOK, Arrived, Sent
<1>6. ~raced' => \A r \in Listed' : \E d \in Done' : ref'[d] = r
  BY <1>1, <1>2 DEF TimesUp, Goes, fixed, waiting, server, Inv, TypeOK, Listed, Done
<1>7. ~raced' => \A d \in Done' : Course(d)'
  BY <1>1 DEF Goes, fixed, server, Inv, Course, Listed
<1>8. ~raced' => \A d \in Commands : Waits(d)'
  BY DEF Goes, waiting, server, Inv, TypeOK, Waits, Listed
<1> QED
  BY <1>3, <1>4, <1>5, <1>6, <1>7, <1>8 DEF Inv

LEMMA SleepStep ==
    ASSUME Inv, NEW c \in Commands, Sleep(c)
    PROVE  Inv'
<1> USE DEF Sleep
<1>1. Done' = Done
  BY DEF Goes, Done, Sent, AfterNumber, Inv, TypeOK
<1>2. list' = list
  BY DEF fixed, waiting, server
<1>3. TypeOK'
  <2>1. cycles[c] \in Nat /\ cycles[c] + 1 <= MaxCycles
    BY CommandStatusAssumption DEF Goes, Inv, TypeOK, Arrived
  <2>2. cycles' \in [Commands -> 0..MaxCycles]
    BY <2>1 DEF Inv, TypeOK
  <2> QED
    BY <1>2, <2>2 DEF Goes, fixed, waiting, server, Inv, TypeOK, Sent, Listed
<1>4. Numbers'
  BY <1>1, NumbersKept DEF Goes, AfterNumber, fixed, waiting, server, Inv, TypeOK
<1>5. \A d \in Commands : Arrived(d)'
  BY DEF Sleep, Goes, fixed, waiting, server, Inv, TypeOK, Arrived, Sent
<1>6. ~raced' => \A r \in Listed' : \E d \in Done' : ref'[d] = r
  BY <1>1, <1>2 DEF Sleep, Goes, fixed, waiting, server, Inv, TypeOK, Listed, Done
<1>7. ~raced' => \A d \in Done' : Course(d)'
  BY <1>1 DEF Goes, fixed, server, Inv, Course, Listed
<1>8. ~raced' => \A d \in Commands : Waits(d)'
  BY DEF Goes, server, Inv, Waits, Listed
<1> QED
  BY <1>3, <1>4, <1>5, <1>6, <1>7, <1>8 DEF Inv

LEMMA EndedStep ==
    ASSUME Inv, NEW c \in Commands, Ended(c)
    PROVE  Inv'
<1> USE DEF Ended
<1>1. Done' = Done
  BY DEF Goes, Done, Sent, AfterNumber, Inv, TypeOK
<1>2. list' = list
  BY DEF fixed, waiting, server
<1>3. TypeOK'
  BY DEF Goes, fixed, waiting, server, Inv, TypeOK, Sent, Listed
<1>4. Numbers'
  BY <1>1, NumbersKept DEF Goes, AfterNumber, fixed, waiting, server, Inv, TypeOK
<1>5. \A d \in Commands : Arrived(d)'
  BY DEF Ended, Goes, fixed, waiting, server, Inv, TypeOK, Arrived, Sent
<1>6. ~raced' => \A r \in Listed' : \E d \in Done' : ref'[d] = r
  BY <1>1, <1>2 DEF Ended, Goes, fixed, waiting, server, Inv, TypeOK, Listed, Done
<1>7. ~raced' => \A d \in Done' : Course(d)'
  BY <1>1 DEF Goes, fixed, server, Inv, Course, Listed
<1>8. ~raced' => \A d \in Commands : Waits(d)'
  BY DEF Goes, waiting, server, Inv, Waits, Listed
<1> QED
  BY <1>3, <1>4, <1>5, <1>6, <1>7, <1>8 DEF Inv

LEMMA AgainStep ==
    ASSUME Inv, NEW c \in Commands, Again(c)
    PROVE  Inv'
<1> USE DEF Again
<1>1. Done' = Done
  BY DEF Goes, Done, Sent, AfterNumber, Inv, TypeOK
<1>2. list' = list
  BY DEF fixed, waiting, server
<1>3. TypeOK'
  BY EventKinds DEF Goes, fixed, server, Inv, TypeOK, Sent, Listed, Status
<1>4. Numbers'
  BY <1>1, NumbersKept DEF Goes, AfterNumber, fixed, waiting, server, Inv, TypeOK
<1>5. \A d \in Commands : Arrived(d)'
  BY DEF Again, Goes, fixed, waiting, server, Inv, TypeOK, Arrived, Sent
<1>6. ~raced' => \A r \in Listed' : \E d \in Done' : ref'[d] = r
  BY <1>1, <1>2 DEF Again, Goes, fixed, waiting, server, Inv, TypeOK, Listed, Done
<1>7. ~raced' => \A d \in Done' : Course(d)'
  BY <1>1 DEF Goes, fixed, server, Inv, Course, Listed
<1>8. ~raced' => \A d \in Commands : Waits(d)'
  BY CommandStatusAssumption
     DEF Goes, server, Inv, TypeOK, Arrived, Course, Waits, Done, Listed, Status
<1> QED
  BY <1>3, <1>4, <1>5, <1>6, <1>7, <1>8 DEF Inv

LEMMA ResultStep ==
    ASSUME Inv, NEW c \in Commands, Result(c)
    PROVE  Inv'
<1> USE DEF Result
<1>1. Done' = Done
  BY DEF Goes, Done, Sent, AfterNumber, Inv, TypeOK
<1>2. list' = list
  BY DEF fixed, waiting, server
<1>3. TypeOK'
  BY EventKinds DEF Goes, fixed, server, Inv, TypeOK, Sent, Listed, Returned
<1>4. Numbers'
  BY <1>1, NumbersKept DEF Goes, AfterNumber, fixed, waiting, server, Inv, TypeOK
<1>5. \A d \in Commands : Arrived(d)'
  BY DEF Result, Goes, fixed, waiting, server, Inv, TypeOK, Arrived, Sent
<1>6. ~raced' => \A r \in Listed' : \E d \in Done' : ref'[d] = r
  BY <1>1, <1>2 DEF Result, Goes, fixed, waiting, server, Inv, TypeOK, Listed, Done
<1>7. ~raced' => \A d \in Done' : Course(d)'
  BY <1>1 DEF Goes, fixed, server, Inv, Course, Listed
<1>8. ~raced' => \A d \in Commands : Waits(d)'
  BY DEF Goes, server, Inv, Waits, Listed, Returned
<1> QED
  BY <1>3, <1>4, <1>5, <1>6, <1>7, <1>8 DEF Inv

-----------------------------------------------------------------------------
(* The invariant and what it gives. *)

LEMMA InitInv ==
    ASSUME Init
    PROVE  Inv
<1> USE CommandStatusAssumption DEF Init
<1>1. Done = {} /\ Listed = {}
  BY DEF Done, Listed
<1>2. /\ IsFiniteSet(Commands) /\ Cardinality(Done) = 0
      /\ Cardinality(Commands) \in Nat
  BY <1>1, FS_EmptySet, FS_CardinalityType
<1>3. counter \in References
  BY <1>2 DEF References
<1>4. TypeOK
  <2>1. \A r \in Listed : list[r] \in [events : SUBSET AllEvents, callbacks : SUBSET Callbacks]
    BY <1>1
  <2>2. Listed \subseteq References
    BY <1>1
  <2>3. cycles \in [Commands -> 0..MaxCycles]
    OBVIOUS
  <2>4. current \in [Commands -> SUBSET AllEvents]
    BY EventKinds
  <2> QED
    BY <1>3, <2>1, <2>2, <2>3, <2>4 DEF TypeOK, Sent
<1>5. Numbers
  BY <1>1, <1>2 DEF Numbers
<1>6. \A c \in Commands : Arrived(c) /\ Waits(c)
  BY <1>1 DEF Arrived, Waits, Sent
<1> QED
  BY <1>1, <1>4, <1>5, <1>6 DEF Inv

LEMMA NextInv ==
    ASSUME Inv, [Next]_vars
    PROVE  Inv'
<1>1. CASE \E c \in Commands : Send(c)
  BY <1>1, SendStep
<1>2. CASE \E c \in Commands : Number(c)
  BY <1>2, NumberStep
<1>3. CASE \E c \in Commands : Numbered(c)
  BY <1>3, NumberedStep
<1>4. CASE \E c \in Commands : Register(c)
  BY <1>4, RegisterStep
<1>5. CASE \E c \in Commands : RegisterFunctors(c)
  BY <1>5, RegisterFunctorsStep
<1>6. CASE \E c \in Commands : Transmit(c)
  BY <1>6, TransmitStep
<1>7. CASE \E c \in Commands : TransmitFails(c)
  BY <1>7, TransmitFailsStep
<1>8. CASE \E c \in Commands : UpdateUnsent(c)
  BY <1>8, UpdateUnsentStep
<1>9. CASE \E c \in Commands : Deregister(c)
  BY <1>9, DeregisterStep
<1>10. CASE \E c \in Commands : Wait(c)
  BY <1>10, WaitStep
<1>11. CASE \E c \in Commands : Refused(c)
  BY <1>11, RefusedStep
<1>12. CASE \E c \in Commands : Look(c)
  BY <1>12, LookStep
<1>13. CASE \E c \in Commands : TimesUp(c)
  BY <1>13, TimesUpStep
<1>14. CASE \E c \in Commands : Sleep(c)
  BY <1>14, SleepStep
<1>15. CASE \E c \in Commands : Ended(c)
  BY <1>15, EndedStep
<1>16. CASE \E c \in Commands : Again(c)
  BY <1>16, AgainStep
<1>17. CASE \E c \in Commands : Result(c)
  BY <1>17, ResultStep
<1>18. CASE \E c \in Commands : Clear(c)
  BY <1>18, ClearStep
<1>19. CASE \E c \in Commands, f \in Callbacks : NewFunctor(c, f)
  BY <1>19, NewFunctorStep
<1>20. CASE \E c \in Commands, e \in Progress \cup Success \cup NoSuccess : Answer(c, e)
  BY <1>20, AnswerStep
<1>21. CASE QueueEnds
  BY <1>21, QueueEndsStep
<1>22. CASE UNCHANGED vars
  <2> USE DEF vars, fixed, waiting, server
  <2>1. Done' = Done /\ Listed' = Listed
    BY <1>22 DEF Done, Listed
  <2>2. TypeOK' /\ Numbers'
    BY <1>22, <2>1 DEF Inv, TypeOK, Numbers
  <2>3. \A c \in Commands : /\ Arrived(c)' <=> Arrived(c)
                            /\ Course(c)' <=> Course(c)
                            /\ Waits(c)' <=> Waits(c)
    BY <1>22, <2>1 DEF Arrived, Course, Waits
  <2>4. Done \subseteq Commands
    BY DEF Done
  <2> QED
    BY <1>22, <2>1, <2>2, <2>3, <2>4 DEF Inv
<1> QED
  BY <1>1, <1>2, <1>3, <1>4, <1>5, <1>6, <1>7, <1>8, <1>9, <1>10, <1>11,
     <1>12, <1>13, <1>14, <1>15, <1>16, <1>17, <1>18, <1>19, <1>20, <1>21, <1>22 DEF Next, Sending, Waiting

\* The invariant holds in every state that is reached, for every number of
\* commands, every set of callbacks and of events, and every time to wait.
THEOREM Invariance == Spec => []Inv
<1>1. Init => Inv
  BY InitInv
<1>2. Inv /\ [Next]_vars => Inv'
  BY NextInv
<1> QED
  BY <1>1, <1>2, PTL DEF Spec

\* The variables keep their types; no more reference numbers are used than
\* commands are sent.
THEOREM TypeCorrect == Spec => []TypeOK
<1>1. Inv => TypeOK
  BY DEF Inv
<1> QED
  BY <1>1, Invariance, PTL

\* Waiting returns what has arrived for the command waited for, or that nothing
\* is known, unless the counter of references was raced for.
THEOREM AnswersAreOwn == Spec => []OwnAnswer
<1>1. Inv => OwnAnswer
  BY DEF Inv, OwnAnswer, Waits
<1> QED
  BY <1>1, Invariance, PTL

\* The status of a command that is sent is what has arrived for it.
THEOREM StatusIsExact == Spec => []StatusExact
<1>1. ASSUME Inv
      PROVE  StatusExact
  <2>1. \A c \in Commands : pc[c] \in Sent => c \in Done /\ pc[c] # "deregister"
    BY DEF Done, Sent
  <2> QED
    BY <1>1, <2>1 DEF Inv, StatusExact, Course
<1> QED
  BY <1>1, Invariance, PTL

\* What could not be sent leaves no status.
THEOREM FailureLeavesNothing == Spec => []NothingLeft
<1>1. ASSUME Inv
      PROVE  NothingLeft
  <2>1. \A c \in Commands : pc[c] = "failed" => c \in Done
    BY DEF Done
  <2> QED
    BY <1>1, <2>1 DEF Inv, NothingLeft, Course
<1> QED
  BY <1>1, Invariance, PTL

LEMMA ResultDisconnects ==
    ASSUME Inv, NEW c \in Commands, Result(c)
    PROVE  Disconnects
<1> SUFFICES ASSUME NEW d \in Commands, outcome'[d] # outcome[d],
                    NoConnection \in outcome'[d],
                    cycles[d] # MaxCycles, ref[d] \in Listed, ~raced
             PROVE  intime[d] \cap Success = {}
  BY DEF Disconnects
<1>1. d = c /\ outcome'[c] = Returned(c) /\ pc[c] = "result"
  BY DEF Result, Goes, Inv, TypeOK
<1>2. Waits(c) /\ Arrived(c) /\ cycles[c] < MaxCycles
  BY <1>1, CommandStatusAssumption DEF Inv, TypeOK
<1>3. NoConnection \notin current[c]
  BY <1>2, CommandStatusAssumption DEF Waits, Arrived, Unavailable, NoConnection
<1>4. current[c] \cap Success = {}
  BY <1>1, <1>3 DEF Returned
<1>5. intime[c] \subseteq current[c]
  BY <1>1, <1>2 DEF Waits, Arrived
<1> QED
  BY <1>1, <1>4, <1>5

LEMMA NextDisconnects ==
    ASSUME Inv, [Next]_vars
    PROVE  Disconnects
<1>1. CASE \E c \in Commands : Result(c)
  BY <1>1, ResultDisconnects
<1>2. CASE \E c \in Commands : Refused(c)
  <2>1. PICK c \in Commands : outcome' = [outcome EXCEPT ![c] = {Unavailable}]
    BY <1>2 DEF Refused
  <2>2. NoConnection \notin {Unavailable}
    BY DEF Unavailable, NoConnection
  <2>3. \A d \in Commands : outcome'[d] # outcome[d] => outcome'[d] = {Unavailable}
    BY <2>1 DEF Inv, TypeOK
  <2> QED
    BY <2>2, <2>3 DEF Disconnects
<1>3. CASE outcome' = outcome
  BY <1>3 DEF Disconnects
<1> QED
  <2>1. [Next]_vars => \/ \E c \in Commands : Result(c) \/ Refused(c)
                       \/ outcome' = outcome
    BY DEF Next, Sending, Waiting, vars, waiting, Send, Number, Numbered, Register,
           RegisterFunctors, Transmit, TransmitFails, UpdateUnsent, Deregister, Wait, Look,
           TimesUp, Sleep, Ended, Again, Clear, NewFunctor, Answer, QueueEnds
  <2> QED
    BY <1>1, <1>2, <1>3, <2>1

\* Success that arrived in time is not reported as a lost connection.
THEOREM NoDisconnectIsFalse == Spec => NoFalseDisconnect
<1>1. Inv /\ [Next]_vars => Disconnects
  BY NextDisconnects
<1> QED
  BY <1>1, Invariance, PTL DEF Spec, NoFalseDisconnect

=============================================================================
