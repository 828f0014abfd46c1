------------------------ MODULE MessageQueueProofs ------------------------
(***************************************************************************)
(* Proofs about MessageQueue, for every number of queue threads, timers,   *)
(* messages and calls.                                                     *)
(***************************************************************************)
EXTENDS MessageQueue, TLAPS, SequenceTheorems

\* What a thread still does is one of few sequences: x and then k.
Cons(x, k) == <<x>> \o k
Last(x)    == Cons(x, <<>>)

\* The functions that pause and end pauses, called before k.
PauseSteps == {"pause", "unpause", "deactivate", "timed", "create timer", "check", "uncheck"}

Pauses(k) == {k} \cup {Cons(x, k) : x \in PauseSteps}
                 \cup {Cons("cancel timer", Cons(x, k)) : x \in {"deactivate", "create timer"}}

Stopping == Cons("kill", Cons("join", Last("end sync")))
Removed  == Cons("forget", Last("end sync"))
Stored   == Cons("unlock", Cons("signal", Last("loop")))

\* What may follow such calls, and what the code of a thread is otherwise.
Conts(a) == IF a = User THEN {<<>>, Last("unlock"), Last("sync wait"), Stopping, Removed}
            ELSE IF a \in Queues THEN {Stored} ELSE {Last("end timer")}

Others(a) ==
    IF a = User
    THEN {Last("sync"), Last("sync asleep"), Last("sync lost"), Last("stop"),
          Cons("join", Last("end sync")), Last("end sync"), Last("crashed")}
    ELSE IF a \in Queues
    THEN {<<>>, Last("begin"), Last("loop"), Cons("wait", Last("input")),
          Cons("asleep", Last("input")), Cons("lost", Last("input")), Last("input"),
          Last("select"), Cons("signal", Last("loop")), Last("end"),
          Cons("end sync", Last("try")), Last("try"), Cons("detach", Last("leave")),
          Last("leave")}
    ELSE {<<>>, Last("begin pause"), Last("sleep")}

Shapes(a) == Others(a) \cup UNION {Pauses(k) : k \in Conts(a)}

Shaped == code \in [Threads -> Seq(Steps)] /\ \A a \in Threads : code[a] \in Shapes(a)

\* The steps a sequence has; what a thread will do.
Ran(c)  == {c[i] : i \in DOMAIN c}
Plan(a) == Ran(code[a])

-----------------------------------------------------------------------------
(* Sequences. *)

LEMMA ConsFacts ==
    ASSUME NEW x \in Steps, NEW k \in Seq(Steps)
    PROVE  /\ Cons(x, k) \in Seq(Steps) /\ Cons(x, k) # <<>>
           /\ Head(Cons(x, k)) = x
           /\ Tail(Cons(x, k)) = k
           /\ Ran(Cons(x, k)) = {x} \cup Ran(k)
<1> DEFINE c == Cons(x, k)
<1>1. /\ c \in Seq(Steps) /\ Len(c) = Len(k) + 1 /\ c[1] = x
      /\ \A i \in 1..Len(k) : c[i + 1] = k[i]
  BY DEF Cons
<1> HIDE DEF c
<1>2. c # <<>> /\ Head(c) = x
  BY <1>1
<1>3. Tail(c) = k
  <2>1. /\ Tail(c) \in Seq(Steps) /\ Len(Tail(c)) = Len(c) - 1
        /\ \A i \in 1..Len(Tail(c)) : Tail(c)[i] = c[i + 1]
    BY <1>1, <1>2, HeadTailProperties, Zenon
  <2>2. Len(k) \in Nat /\ Len(c) - 1 = Len(k)
    BY <1>1
  <2>3. Len(Tail(c)) = Len(k)
    BY <2>1, <2>2
  <2>4. \A i \in 1..Len(Tail(c)) : Tail(c)[i] = k[i]
    BY <1>1, <2>1, <2>3
  <2> QED
    BY <2>1, <2>3, <2>4, SeqEqual, Zenon
<1>4. Ran(c) = {x} \cup Ran(k)
  <2>1. /\ DOMAIN c = 1..Len(c) /\ DOMAIN k = 1..Len(k) /\ Len(k) \in Nat
        /\ 1 \in 1..Len(c) /\ \A i \in 1..Len(k) : i + 1 \in 1..Len(c)
    BY <1>1
  <2>2. \A i \in 1..Len(c) : i # 1 => i - 1 \in 1..Len(k) /\ c[i] = k[i - 1]
    <3>1. ASSUME NEW i \in 1..Len(c), i # 1
          PROVE  i - 1 \in 1..Len(k) /\ i = (i - 1) + 1
      BY <1>1, <2>1, <3>1
    <3> QED
      BY <1>1, <3>1
  <2>3. Ran(c) \subseteq {x} \cup Ran(k)
    <3>1. \A i \in 1..Len(c) : c[i] \in {x} \cup Ran(k)
      BY <1>1, <2>1, <2>2 DEF Ran
    <3> QED
      BY <2>1, <3>1 DEF Ran
  <2>4. {x} \cup Ran(k) \subseteq Ran(c)
    BY <1>1, <2>1 DEF Ran
  <2> QED
    BY <2>3, <2>4
<1> QED
  BY <1>1, <1>2, <1>3, <1>4 DEF c

LEMMA NilFacts == <<>> \in Seq(Steps) /\ Ran(<<>>) = {} /\ \A k \in Seq(Steps) : <<>> \o k = k
BY DEF Ran

LEMMA LastFacts ==
    ASSUME NEW x \in Steps
    PROVE  Last(x) \in Seq(Steps) /\ <<x>> = Last(x) /\ Ran(Last(x)) = {x}
<1>1. <<x>> = Last(x)
  BY ConcatEmptySeq DEF Last, Cons
<1>2. <<>> \in Seq(Steps)
  BY NilFacts
<1>3. Cons(x, <<>>) \in Seq(Steps) /\ Ran(Cons(x, <<>>)) = {x} \cup Ran(<<>>)
  BY <1>2, ConsFacts
<1> QED
  BY <1>1, <1>3, NilFacts DEF Last

LEMMA Concat ==
    ASSUME NEW k \in Seq(Steps), NEW x \in Steps, NEW y \in Steps
    PROVE  /\ <<x>> \o k = Cons(x, k)
           /\ <<x, y>> \o k = Cons(x, Cons(y, k))
<1>1. <<x>> \in Seq(Steps) /\ <<y>> \in Seq(Steps) /\ <<x, y>> \in Seq(Steps)
  OBVIOUS
<1>2. <<x, y>> = <<x>> \o <<y>>
  <2> DEFINE c == <<x>> \o <<y>>
  <2>1. c \in Seq(Steps) /\ Len(c) = Len(<<x, y>>) /\ c[1] = x /\ c[2] = y
    BY <1>1
  <2> HIDE DEF c
  <2>2. \A i \in 1..Len(c) : c[i] = <<x, y>>[i]
    BY <2>1
  <2>3. c = <<x, y>>
    BY <1>1, <2>1, <2>2, SeqEqual, Zenon
  <2> QED
    BY <2>3 DEF c
<1>3. (<<x>> \o <<y>>) \o k = <<x>> \o (<<y>> \o k)
  BY <1>1, ConcatAssociative
<1> QED
  BY <1>2, <1>3 DEF Cons

-----------------------------------------------------------------------------
(* Where a thread is. *)

LEMMA Longer ==
    ASSUME NEW w \in Steps, NEW x \in Steps, NEW y \in Steps, NEW z \in Steps
    PROVE  /\ <<x, y>> = Cons(x, Last(y))
           /\ <<w, x, y>> = Cons(w, Cons(x, Last(y)))
           /\ <<w, x, y, z>> = Cons(w, Cons(x, Cons(y, Last(z))))
<1>1. \A a, b \in Steps : <<a, b>> = Cons(a, Last(b))
  <2>1. ASSUME NEW a \in Steps, NEW b \in Steps
        PROVE  <<a, b>> = Cons(a, Last(b))
    <3>1. <<a, b>> \in Seq(Steps)
      OBVIOUS
    <3>2. <<a, b>> \o <<>> = <<a, b>>
      BY <3>1, ConcatEmptySeq, Zenon
    <3> QED
      BY <3>2, Concat, NilFacts DEF Last
  <2> QED
    BY <2>1
<1>2. <<w, x, y>> = <<w>> \o <<x, y>>
  <2> DEFINE c == <<w>> \o <<x, y>>  d == <<w, x, y>>
  <2>1. /\ c \in Seq(Steps) /\ Len(c) = 3 /\ c[1] = w /\ c[2] = x /\ c[3] = y
        /\ d \in Seq(Steps) /\ Len(d) = 3 /\ d[1] = w /\ d[2] = x /\ d[3] = y
    OBVIOUS
  <2> HIDE DEF c, d
  <2>2. \A i \in 1..Len(c) : c[i] = d[i]
    BY <2>1
  <2>3. c = d
    BY <2>1, <2>2, SeqEqual
  <2> QED
    BY <2>3 DEF c, d
<1>3. <<w, x, y, z>> = <<w, x>> \o <<y, z>>
  <2> DEFINE c == <<w, x>> \o <<y, z>>  d == <<w, x, y, z>>
  <2>1. /\ c \in Seq(Steps) /\ Len(c) = 4
        /\ c[1] = w /\ c[2] = x /\ c[3] = y /\ c[4] = z
        /\ d \in Seq(Steps) /\ Len(d) = 4
        /\ d[1] = w /\ d[2] = x /\ d[3] = y /\ d[4] = z
    OBVIOUS
  <2> HIDE DEF c, d
  <2>2. \A i \in 1..Len(c) : c[i] = d[i]
    BY <2>1
  <2>3. c = d
    BY <2>1, <2>2, SeqEqual
  <2> QED
    BY <2>3 DEF c, d
<1>4. <<x, y>> \in Seq(Steps) /\ <<y, z>> \in Seq(Steps)
  OBVIOUS
<1>5. /\ <<w>> \o <<x, y>> = Cons(w, <<x, y>>)
      /\ <<w, x>> \o <<y, z>> = Cons(w, Cons(x, <<y, z>>))
  BY <1>4, Concat
<1> QED
  BY <1>1, <1>2, <1>3, <1>5, Zenon

\* All steps, by name.
LEMMA Words ==
    /\ PauseSteps \subseteq Steps
    /\ {"cancel timer", "unlock", "begin pause", "sleep", "end timer", "begin"} \subseteq Steps
    /\ {"loop", "wait", "asleep", "lost", "input", "select", "signal", "end"} \subseteq Steps
    /\ {"end sync", "try", "detach", "leave", "stop", "kill", "join"} \subseteq Steps
    /\ {"forget", "crashed", "sync", "sync wait", "sync asleep", "sync lost"} \subseteq Steps
BY DEF Steps, PauseSteps

LEMMA Lasts ==
    \A x \in Steps : /\ Last(x) \in Seq(Steps) /\ Last(x) # <<>>
                     /\ Head(Last(x)) = x
                     /\ Tail(Last(x)) = <<>>
                     /\ Ran(Last(x)) = {x}
BY LastFacts, ConsFacts, NilFacts DEF Last

LEMMA Conses ==
    \A x \in Steps : \A k \in Seq(Steps) :
        /\ Cons(x, k) \in Seq(Steps) /\ Cons(x, k) # <<>>
        /\ Head(Cons(x, k)) = x
        /\ Tail(Cons(x, k)) = k
        /\ Ran(Cons(x, k)) = {x} \cup Ran(k)
BY ConsFacts

LEMMA Pairs ==
    \A x, y \in Steps : /\ Cons(x, Last(y)) \in Seq(Steps)
                        /\ Ran(Cons(x, Last(y))) = {x, y}
<1> SUFFICES ASSUME NEW x \in Steps, NEW y \in Steps
             PROVE  Cons(x, Last(y)) \in Seq(Steps) /\ Ran(Cons(x, Last(y))) = {x, y}
  OBVIOUS
<1>1. Last(y) \in Seq(Steps) /\ Ran(Last(y)) = {y}
  BY Lasts
<1>2. Cons(x, Last(y)) \in Seq(Steps) /\ Ran(Cons(x, Last(y))) = {x} \cup Ran(Last(y))
  BY <1>1, Conses
<1> QED
  BY <1>1, <1>2

\* The longer pieces.
LEMMA StoredFacts ==
    LET k == Cons("signal", Last("loop"))
    IN  /\ k \in Seq(Steps) /\ Ran(k) = {"signal", "loop"}
        /\ Stored \in Seq(Steps) /\ Ran(Stored) = {"unlock", "signal", "loop"}
<1> DEFINE k1 == Last("loop")  k2 == Cons("signal", k1)  k3 == Cons("unlock", k2)
<1>1. {"loop", "signal", "unlock"} \subseteq Steps
  BY Words
<1>2. k1 \in Seq(Steps) /\ Ran(k1) = {"loop"}
  BY <1>1, Lasts
<1> HIDE DEF k1
<1>3. k2 \in Seq(Steps) /\ Ran(k2) = {"signal"} \cup Ran(k1)
  BY <1>1, <1>2, Conses
<1> HIDE DEF k2
<1>4. k3 \in Seq(Steps) /\ Ran(k3) = {"unlock"} \cup Ran(k2)
  BY <1>1, <1>3, Conses
<1> HIDE DEF k3
<1>5. Ran(k2) = {"signal", "loop"} /\ Ran(k3) = {"unlock", "signal", "loop"}
  BY <1>2, <1>3, <1>4
<1> QED
  BY <1>3, <1>4, <1>5 DEF k1, k2, k3, Stored

LEMMA StoppingFacts ==
    LET k == Cons("join", Last("end sync"))
    IN  /\ k \in Seq(Steps) /\ Ran(k) = {"join", "end sync"}
        /\ Stopping \in Seq(Steps) /\ Ran(Stopping) = {"kill", "join", "end sync"}
        /\ Removed \in Seq(Steps) /\ Ran(Removed) = {"forget", "end sync"}
<1> DEFINE k1 == Last("end sync")    k2 == Cons("join", k1)
           k3 == Cons("kill", k2)    k4 == Cons("forget", k1)
<1>1. {"end sync", "join", "kill", "forget"} \subseteq Steps
  BY Words
<1>2. k1 \in Seq(Steps) /\ Ran(k1) = {"end sync"}
  BY <1>1, Lasts
<1> HIDE DEF k1
<1>3. /\ k2 \in Seq(Steps) /\ Ran(k2) = {"join"} \cup Ran(k1)
      /\ k4 \in Seq(Steps) /\ Ran(k4) = {"forget"} \cup Ran(k1)
  BY <1>1, <1>2, Conses
<1> HIDE DEF k2, k4
<1>4. k3 \in Seq(Steps) /\ Ran(k3) = {"kill"} \cup Ran(k2)
  BY <1>1, <1>3, Conses
<1> HIDE DEF k3
<1>5. /\ Ran(k2) = {"join", "end sync"} /\ Ran(k3) = {"kill", "join", "end sync"}
      /\ Ran(k4) = {"forget", "end sync"}
  BY <1>2, <1>3, <1>4
<1> QED
  BY <1>3, <1>4, <1>5 DEF k1, k2, k3, k4, Stopping, Removed

\* What follows pausing.
LEMMA ContsFacts ==
    ASSUME NEW a \in Threads, NEW k \in Conts(a)
    PROVE  /\ k \in Seq(Steps)
           /\ k = <<>> \/ Head(k) \notin PauseSteps \cup {"cancel timer"}
<1>1. \A x \in {"unlock", "sync wait", "end timer"} :
          Last(x) \in Seq(Steps) /\ Head(Last(x)) = x
  BY Words, Lasts
<1>2. /\ Stopping \in Seq(Steps) /\ Head(Stopping) = "kill"
      /\ Removed \in Seq(Steps) /\ Head(Removed) = "forget"
      /\ Stored \in Seq(Steps) /\ Head(Stored) = "unlock"
  BY StoredFacts, StoppingFacts, Words, Lasts, Conses DEF Stopping, Removed, Stored
<1>3. k \in {<<>>, Last("unlock"), Last("sync wait"), Last("end timer"), Stopping, Removed,
              Stored}
  BY DEF Conts
<1> QED
  BY <1>1, <1>2, <1>3, NilFacts DEF PauseSteps

LEMMA OthersFacts ==
    ASSUME NEW a \in Threads, NEW k \in Others(a)
    PROVE  /\ k \in Seq(Steps)
           /\ k = <<>> \/ Head(k) \notin PauseSteps \cup {"cancel timer"}
<1> DEFINE H == {"sync", "sync asleep", "sync lost", "stop", "join", "end sync", "crashed",
                 "begin", "loop", "wait", "asleep", "lost", "input", "select", "signal",
                 "end", "try", "detach", "leave", "begin pause", "sleep"}
<1>1. H \subseteq Steps /\ H \cap (PauseSteps \cup {"cancel timer"}) = {}
  BY DEF Steps, PauseSteps
<1>2. \A x \in H : /\ Last(x) \in Seq(Steps) /\ Head(Last(x)) = x
                   /\ \A y \in H : /\ Cons(x, Last(y)) \in Seq(Steps)
                                   /\ Head(Cons(x, Last(y))) = x
  BY <1>1, Lasts, Conses
<1>3. \/ k = <<>>
      \/ \E x \in H : k = Last(x) \/ \E y \in H : k = Cons(x, Last(y))
  BY DEF Others
<1> HIDE DEF H
<1> QED
  BY <1>1, <1>2, <1>3, NilFacts

\* Which calls to the functions that pause are on the way, and what follows.
LEMMA PausesAt ==
    ASSUME Shaped, NEW a \in Threads,
           NEW x \in PauseSteps \cup {"cancel timer"}, At(a, x)
    PROVE  \E k \in Conts(a) :
               \/ x # "cancel timer" /\ code[a] = Cons(x, k)
               \/ /\ x = "cancel timer"
                  /\ \E y \in {"deactivate", "create timer"} : code[a] = Cons(x, Cons(y, k))
<1>1. code[a] # <<>> /\ Head(code[a]) = x
  BY DEF At
<1>2. code[a] \notin Others(a)
  BY <1>1, OthersFacts
<1>3. PICK k \in Conts(a) : code[a] \in Pauses(k)
  BY <1>2 DEF Shaped, Shapes
<1>4. code[a] # k /\ k \in Seq(Steps)
  BY <1>1, ContsFacts
<1>5. \A y \in PauseSteps : Head(Cons(y, k)) = y /\ Cons(y, k) \in Seq(Steps)
  BY <1>4, Conses, Words
<1>6. \A y \in {"deactivate", "create timer"} :
          Head(Cons("cancel timer", Cons(y, k))) = "cancel timer"
  <2>1. {"deactivate", "create timer"} \subseteq PauseSteps
    BY DEF PauseSteps
  <2> QED
    BY <1>5, <2>1, Conses, Words
<1>7. "cancel timer" \notin PauseSteps
  BY DEF PauseSteps
<1>8. CASE \E y \in PauseSteps : code[a] = Cons(y, k)
  BY <1>1, <1>5, <1>7, <1>8
<1>9. CASE \E y \in {"deactivate", "create timer"} : code[a] = Cons("cancel timer", Cons(y, k))
  BY <1>1, <1>6, <1>9
<1> QED
  BY <1>3, <1>4, <1>8, <1>9 DEF Pauses

\* Where the others are.
LEMMA OtherAt ==
    ASSUME Shaped, NEW a \in Threads, NEW x, At(a, x),
           x \notin PauseSteps \cup {"cancel timer"}
    PROVE  code[a] \in (Others(a) \cup Conts(a)) \ {<<>>}
<1>1. code[a] # <<>> /\ Head(code[a]) = x
  BY DEF At
<1>2. SUFFICES ASSUME NEW k \in Conts(a), code[a] \in Pauses(k)
               PROVE  code[a] = k
  BY <1>1 DEF Shaped, Shapes
<1>3. k \in Seq(Steps)
  BY ContsFacts
<1>4. \A y \in PauseSteps : Head(Cons(y, k)) = y /\ Cons(y, k) \in Seq(Steps)
  BY <1>3, Conses, Words
<1>5. \A y \in {"deactivate", "create timer"} :
          Head(Cons("cancel timer", Cons(y, k))) = "cancel timer"
  <2>1. {"deactivate", "create timer"} \subseteq PauseSteps
    BY DEF PauseSteps
  <2> QED
    BY <1>4, <2>1, Conses, Words
<1> QED
  BY <1>1, <1>2, <1>4, <1>5 DEF Pauses

LEMMA UserAt ==
    ASSUME Shaped, User \in Threads, NEW x, At(User, x)
    PROVE  /\ x = "unlock" => code[User] = Last("unlock")
           /\ x = "sync wait" => code[User] = Last("sync wait")
           /\ x = "kill" => code[User] = Stopping
           /\ x = "join" => code[User] = Cons("join", Last("end sync"))
           /\ x = "end sync" => code[User] = Last("end sync")
           /\ x = "forget" => code[User] = Removed
           /\ x = "sync" => code[User] = Last("sync")
           /\ x = "sync asleep" => code[User] = Last("sync asleep")
           /\ x = "sync lost" => code[User] = Last("sync lost")
           /\ x = "stop" => code[User] = Last("stop")
           /\ x = "crashed" => code[User] = Last("crashed")
           /\ x \notin {"asleep", "lost"}
<1> DEFINE S == {Last("unlock"), Last("sync wait"), Stopping, Removed, Last("sync"),
                 Last("sync asleep"), Last("sync lost"), Last("stop"),
                 Cons("join", Last("end sync")), Last("end sync"), Last("crashed")}
<1>1. x \notin PauseSteps \cup {"cancel timer"} =>
          code[User] \in S /\ Head(code[User]) = x
  BY OtherAt DEF Others, Conts, At
<1>2. /\ Head(Stopping) = "kill" /\ Head(Removed) = "forget"
      /\ Head(Cons("join", Last("end sync"))) = "join"
  BY Words, Lasts, Conses DEF Stopping, Removed
<1>3. \A y \in {"unlock", "sync wait", "sync", "sync asleep", "sync lost", "stop", "end sync",
                "crashed"} : Head(Last(y)) = y
  BY Words, Lasts
<1> QED
  BY <1>1, <1>2, <1>3 DEF PauseSteps

LEMMA QueueAt ==
    ASSUME Shaped, NEW q \in Queues, NEW x, At(q, x)
    PROVE  /\ x = "begin" => code[q] = Last("begin")
           /\ x = "loop" => code[q] = Last("loop")
           /\ x = "wait" => code[q] = Cons("wait", Last("input"))
           /\ x = "asleep" => code[q] = Cons("asleep", Last("input"))
           /\ x = "lost" => code[q] = Cons("lost", Last("input"))
           /\ x = "input" => code[q] = Last("input")
           /\ x = "select" => code[q] = Last("select")
           /\ x = "unlock" => code[q] = Stored
           /\ x = "signal" => code[q] = Cons("signal", Last("loop"))
           /\ x = "end" => code[q] = Last("end")
           /\ x = "end sync" => code[q] = Cons("end sync", Last("try"))
           /\ x = "try" => code[q] = Last("try")
           /\ x = "detach" => code[q] = Cons("detach", Last("leave"))
           /\ x = "leave" => code[q] = Last("leave")
           /\ x \notin {"sync asleep", "sync lost"}
<1> DEFINE S == {Last("begin"), Last("loop"), Cons("wait", Last("input")),
                 Cons("asleep", Last("input")), Cons("lost", Last("input")), Last("input"),
                 Last("select"), Cons("signal", Last("loop")), Last("end"),
                 Cons("end sync", Last("try")), Last("try"), Cons("detach", Last("leave")),
                 Last("leave"), Stored}
<1>1. x \notin PauseSteps \cup {"cancel timer"} =>
          code[q] \in S /\ Head(code[q]) = x
  BY OtherAt, MessageQueueAssumption DEF Others, Conts, At, Threads
<1>2. /\ Head(Stored) = "unlock"
      /\ Head(Cons("wait", Last("input"))) = "wait"
      /\ Head(Cons("asleep", Last("input"))) = "asleep"
      /\ Head(Cons("lost", Last("input"))) = "lost"
      /\ Head(Cons("signal", Last("loop"))) = "signal"
      /\ Head(Cons("end sync", Last("try"))) = "end sync"
      /\ Head(Cons("detach", Last("leave"))) = "detach"
  BY Words, Lasts, Conses DEF Stored
<1>3. \A y \in {"begin", "loop", "input", "select", "end", "try", "leave"} : Head(Last(y)) = y
  BY Words, Lasts
<1> QED
  BY <1>1, <1>2, <1>3 DEF PauseSteps

LEMMA TimerAt ==
    ASSUME Shaped, NEW p \in Timers, NEW x, At(p, x)
    PROVE  /\ x = "begin pause" => code[p] = Last("begin pause")
           /\ x = "sleep" => code[p] = Last("sleep")
           /\ x = "end timer" => code[p] = Last("end timer")
           /\ x \notin {"unlock", "asleep", "lost", "sync asleep", "sync lost"}
<1>1. x \notin PauseSteps \cup {"cancel timer"} =>
          /\ code[p] \in {Last("begin pause"), Last("sleep"), Last("end timer")}
          /\ Head(code[p]) = x
  BY OtherAt, MessageQueueAssumption DEF Others, Conts, At, Threads
<1>2. \A y \in {"begin pause", "sleep", "end timer"} : Head(Last(y)) = y
  BY Words, Lasts
<1> QED
  BY <1>1, <1>2 DEF PauseSteps

-----------------------------------------------------------------------------
(* Where a thread goes. *)

LEMMA Goes ==
    ASSUME Shaped, NEW a \in Threads, NEW x \in Steps, NEW k \in Seq(Steps),
           code[a] = Cons(x, k)
    PROVE  /\ Tail(code[a]) = k
           /\ Then(a, <<>>) => code' = [code EXCEPT ![a] = k]
           /\ \A y \in Steps : Then(a, <<y>>) => code' = [code EXCEPT ![a] = Cons(y, k)]
           /\ \A y, z \in Steps :
                 Then(a, <<y, z>>) => code' = [code EXCEPT ![a] = Cons(y, Cons(z, k))]
<1>1. Tail(code[a]) = k
  BY ConsFacts
<1>2. <<>> \o k = k
  BY NilFacts
<1>3. ASSUME NEW y \in Steps
      PROVE  /\ <<y>> \o k = Cons(y, k)
             /\ \A z \in Steps : <<y, z>> \o k = Cons(y, Cons(z, k))
  BY <1>3, Concat
<1> QED
  BY <1>1, <1>2, <1>3, Zenon DEF Then

LEMMA GoesLast ==
    ASSUME Shaped, NEW a \in Threads, NEW x \in Steps, code[a] = Last(x)
    PROVE  /\ Tail(code[a]) = <<>>
           /\ Then(a, <<>>) => code' = [code EXCEPT ![a] = <<>>]
           /\ \A y \in Steps : Then(a, <<y>>) => code' = [code EXCEPT ![a] = Last(y)]
           /\ \A y, z \in Steps :
                 Then(a, <<y, z>>) => code' = [code EXCEPT ![a] = Cons(y, Last(z))]
BY Goes, NilFacts DEF Last

LEMMA Moves ==
    ASSUME Shaped, NEW a \in Threads, NEW k \in Shapes(a) \cap Seq(Steps),
           code' = [code EXCEPT ![a] = k]
    PROVE  /\ Shaped'
           /\ code'[a] = k /\ Plan(a)' = Ran(k)
           /\ \A b \in Threads \ {a} : code'[b] = code[b] /\ Plan(b)' = Plan(b)
BY DEF Shaped, Plan

LEMMA PausesShapes ==
    ASSUME NEW a \in Threads, NEW k \in Conts(a)
    PROVE  /\ k \in Shapes(a)
           /\ \A x \in PauseSteps : Cons(x, k) \in Shapes(a)
           /\ \A x \in {"deactivate", "create timer"} :
                 Cons("cancel timer", Cons(x, k)) \in Shapes(a)
<1>1. Pauses(k) \subseteq Shapes(a)
  BY DEF Shapes
<1>2. k \in Pauses(k)
  BY DEF Pauses
<1>3. \A x \in PauseSteps : Cons(x, k) \in Pauses(k)
  BY DEF Pauses
<1>4. \A x \in {"deactivate", "create timer"} : Cons("cancel timer", Cons(x, k)) \in Pauses(k)
  BY DEF Pauses
<1> QED
  BY <1>1, <1>2, <1>3, <1>4

-----------------------------------------------------------------------------
(* The inductive invariant. *)

\* Steps that decide whose the queue is, and those that pause it or end that.
Matters == {"begin", "loop", "input", "select", "end", "end sync", "try", "detach", "leave",
            "kill", "join", "forget", "crashed", "sync asleep"}
Ending  == {"deactivate", "create timer", "begin pause", "sleep", "unpause"}

Left(a) == Plan(a) \cap Matters
Ends(a) == Plan(a) \cap Ending

Works(q)   == Left(q) \cap {"begin", "loop", "input", "select"} # {}
Watches(q) == Left(q) \cap {"begin", "loop", "input", "select", "end", "end sync"} # {}

Types == /\ calls \in 0..MaxCalls
         /\ limit \in Limits
         /\ size \in 0..(IF limit = 0 THEN MaxSize ELSE limit)
         /\ listLock \in {None, User} \cup Queues
         /\ internal \in Queues \cup {None}
         /\ exitLock \in {None, User} \cup Queues
         /\ exitState \in BOOLEAN
         /\ paused \in BOOLEAN
         /\ syncing \in BOOLEAN
         /\ current \in Timers \cup {None}
         /\ cancelled \subseteq Queues \cup Timers
         /\ disposed \subseteq Queues
         /\ without \subseteq Reasons
         /\ overlap \in BOOLEAN

\* queue_exit_mutex is held from the moment a thread has it to its last step, or
\* until the queue thread is joined; whoever cancels or joins knows a thread.
Locks ==
    /\ "join" \in Left(User) => exitLock = User
    /\ exitLock = User => Left(User) \cap {"join", "crashed"} # {}
    /\ \A q \in Queues : "leave" \in Left(q) <=> exitLock = q
    /\ "join" \in Left(User) /\ "kill" \notin Left(User) => internal # None

\* A thread that is disposed of has at most its last step before it; the one that
\* is known has done so itself; only the one to be joined is cancelled, and it is.
Disposals ==
    /\ \A q \in disposed \cap Queues : Left(q) \subseteq {"leave"}
    /\ internal \in disposed => exitLock = internal
    /\ \A q \in cancelled \cap Queues :
          q = internal /\ "join" \in Left(User) /\ "kill" \notin Left(User)
    /\ \A q \in Queues :
          q = internal /\ "join" \in Left(User) /\ "kill" \notin Left(User) =>
              Left(q) = {} \/ q \in cancelled

\* Unless threads overlap there is one at most, which is known while it works;
\* a stop that does not wait comes after the end of its work.
Known ==
    ~overlap => /\ \A q \in Queues : Works(q) => internal = q
                /\ \A q, r \in Queues : Left(q) # {} /\ Left(r) # {} => q = r
                /\ "forget" \in Left(User) => \A q \in Queues : ~Works(q)

\* While the condition is active somebody will deactivate it.
Watched ==
    /\ syncing => \/ \E q \in Queues : Watches(q)
                  \/ Left(User) \cap {"end sync", "crashed"} # {}
    /\ "sync asleep" \in Left(User) => \E q \in Queues : Watches(q)

\* Somebody will end the pause (PauseEnds).
Paused ==
    paused => \/ without # {}
              \/ \E a \in Threads : Ends(a) \cap {"deactivate", "create timer"} # {}
              \/ \E t \in Timers : \/ Ends(t) \cap {"begin pause", "unpause"} # {}
                                   \/ "sleep" \in Ends(t) /\ t \notin cancelled

Core == Locks /\ Disposals /\ Known /\ Watched
Inv  == Shaped /\ Types /\ Core /\ Paused

-----------------------------------------------------------------------------
(* Which parts most steps leave alone. *)

LEMMA CoreFrame ==
    ASSUME Core, \A a \in Threads : Left(a)' = Left(a),
           UNCHANGED <<internal, exitLock, disposed, syncing, overlap>>,
           cancelled' \cap Queues = cancelled \cap Queues
    PROVE  Core'
<1>1. User \in Threads /\ Queues \subseteq Threads
  BY DEF Threads
<1>2. \A q \in Queues : (Works(q)' <=> Works(q)) /\ (Watches(q)' <=> Watches(q))
  BY <1>1 DEF Works, Watches
<1>3. Locks'
  BY <1>1 DEF Core, Locks
<1>4. Disposals'
  BY <1>1 DEF Core, Disposals
<1>5. Known'
  BY <1>1, <1>2 DEF Core, Known
<1>6. Watched'
  BY <1>1, <1>2 DEF Core, Watched
<1> QED
  BY <1>3, <1>4, <1>5, <1>6 DEF Core

LEMMA PausedFrame ==
    ASSUME Paused, \A a \in Threads : Ends(a) \subseteq Ends(a)',
           UNCHANGED <<paused, without>>, cancelled' \cap Timers = cancelled \cap Timers
    PROVE  Paused'
<1>1. Timers \subseteq Threads
  BY DEF Threads
<1> QED
  BY <1>1 DEF Paused

\* A queue thread that does not exist has nothing left to do, and conversely.
LEMMA NothingLeft ==
    ASSUME Shaped, NEW q \in Queues
    PROVE  code[q] = <<>> <=> Left(q) = {}
<1> DEFINE H == {"begin", "loop", "wait", "asleep", "lost", "input", "select", "signal",
                 "end", "end sync", "try", "detach", "leave"}
           M == {"loop", "input", "try", "leave"}
<1>1. H \subseteq Steps /\ M \subseteq H /\ M \subseteq Matters
  BY DEF Steps, Matters
<1>2. /\ \/ code[q] = <<>>
         \/ \E x \in H \cap Matters : code[q] = Last(x)
         \/ \E x \in H, y \in M : code[q] = Cons(x, Last(y))
         \/ code[q] \in Pauses(Stored)
  BY MessageQueueAssumption DEF Shaped, Shapes, Others, Conts, Threads, Matters
<1> HIDE DEF H, M
<1>3. \A x \in H : Ran(Last(x)) = {x}
  BY <1>1, Lasts
<1>4. \A x \in H, y \in M : y \in Ran(Cons(x, Last(y)))
  <2>1. \A y \in M : Last(y) \in Seq(Steps) /\ y \in Ran(Last(y))
    BY <1>1, Lasts
  <2> QED
    BY <1>1, <2>1, Conses
<1>5. "loop" \in Ran(Stored) /\ Stored \in Seq(Steps)
  BY StoredFacts
<1>6. \A x \in Steps : "loop" \in Ran(Cons(x, Stored)) /\ Cons(x, Stored) \in Seq(Steps)
  BY <1>5, Conses
<1>7. \A x, y \in Steps : "loop" \in Ran(Cons(y, Cons(x, Stored)))
  BY <1>6, Conses
<1>8. code[q] \in Pauses(Stored) => "loop" \in Ran(code[q])
  BY <1>5, <1>6, <1>7, Words DEF Pauses, PauseSteps
<1>9. CASE code[q] # <<>>
  <2>1. \E x \in Matters : x \in Ran(code[q])
    <3>1. CASE \E x \in H \cap Matters : code[q] = Last(x)
      BY <1>3, <3>1
    <3>2. CASE \E x \in H, y \in M : code[q] = Cons(x, Last(y))
      BY <1>1, <1>4, <3>2
    <3>3. CASE code[q] \in Pauses(Stored)
      BY <1>8, <3>3 DEF Matters
    <3> QED
      BY <1>2, <1>9, <3>1, <3>2, <3>3
  <2> QED
    BY <1>9, <2>1 DEF Left, Plan
<1> QED
  BY <1>9, NilFacts DEF Left, Plan

LEMMA PlanFrame ==
    ASSUME Shaped, NEW a \in Threads, NEW k \in Shapes(a) \cap Seq(Steps),
           code' = [code EXCEPT ![a] = k]
    PROVE  /\ Shaped'
           /\ Left(a)' = Ran(k) \cap Matters
           /\ Ends(a)' = Ran(k) \cap Ending
           /\ \A b \in Threads \ {a} : Left(b)' = Left(b) /\ Ends(b)' = Ends(b)
BY Moves DEF Left, Ends

\* A queue thread goes on while it would still wake who waits for a message.
LEMMA QueueCore ==
    ASSUME Core, NEW q \in Queues,
           \A b \in Threads \ {q} : Left(b)' = Left(b),
           Watches(q), Watches(q)', Works(q)' => Works(q),
           "leave" \notin Left(q) \cup Left(q)',
           UNCHANGED <<internal, exitLock, disposed, cancelled, overlap>>
    PROVE  Core'
<1>1. /\ User \in Threads \ {q} /\ Queues \subseteq Threads
      /\ Left(User)' = Left(User)
  BY MessageQueueAssumption DEF Threads
<1>2. Left(q) # {} /\ Left(q)' # {} /\ q \notin disposed
  BY DEF Watches, Core, Disposals
<1>3. Locks'
  BY <1>1, <1>2 DEF Core, Locks
<1>4. Disposals'
  BY <1>1, <1>2 DEF Core, Disposals
<1>5. \A r \in Queues : Works(r)' => Works(r)
  BY <1>1 DEF Works
<1>6. \A r \in Queues : Watches(r) => Watches(r)'
  BY <1>1 DEF Watches
<1>7. Known'
  BY <1>1, <1>2, <1>5 DEF Core, Known
<1>8. Watched'
  BY <1>1, <1>6 DEF Core, Watched
<1> QED
  BY <1>3, <1>4, <1>7, <1>8 DEF Core

\* The user's thread does what has nothing to do with whose the queue is.
LEMMA UserCore ==
    ASSUME Core,
           \A b \in Queues : Left(b)' = Left(b),
           Left(User)' \ {"sync asleep"} = Left(User) \ {"sync asleep"},
           "sync asleep" \in Left(User)' => "sync asleep" \in Left(User),
           UNCHANGED <<internal, exitLock, disposed, cancelled, syncing, overlap>>
    PROVE  Core'
<1>1. \A x \in {"join", "kill", "forget", "crashed", "end sync"} :
          x \in Left(User)' <=> x \in Left(User)
  OBVIOUS
<1>2. \A q \in Queues : (Works(q)' <=> Works(q)) /\ (Watches(q)' <=> Watches(q))
  BY DEF Works, Watches
<1>3. Locks'
  BY <1>1 DEF Core, Locks
<1>4. Disposals'
  BY <1>1 DEF Core, Disposals
<1>5. Known'
  BY <1>1, <1>2 DEF Core, Known
<1>6. Watched'
  BY <1>1, <1>2 DEF Core, Watched
<1> QED
  BY <1>3, <1>4, <1>5, <1>6 DEF Core

\* What the threads may do next, of those of one step or two.
LEMMA QueueShapes ==
    ASSUME NEW q \in Queues
    PROVE  /\ q \in Threads
           /\ <<>> \in Shapes(q) \cap Seq(Steps)
           /\ \A x \in {"begin", "loop", "input", "select", "end", "try", "leave"} :
                 Last(x) \in Shapes(q) \cap Seq(Steps)
           /\ \A x \in {"wait", "asleep", "lost"} :
                 Cons(x, Last("input")) \in Shapes(q) \cap Seq(Steps)
           /\ Cons("signal", Last("loop")) \in Shapes(q) \cap Seq(Steps)
           /\ Cons("end sync", Last("try")) \in Shapes(q) \cap Seq(Steps)
           /\ Cons("detach", Last("leave")) \in Shapes(q) \cap Seq(Steps)
           /\ Cons("check", Stored) \in Shapes(q) \cap Seq(Steps)
<1>1. q \in Threads /\ q # User /\ Stored \in Conts(q)
  BY MessageQueueAssumption DEF Threads, Conts
<1>2. Cons("check", Stored) \in Shapes(q)
  BY <1>1, PausesShapes DEF PauseSteps
<1>3. \A k \in Others(q) : k \in Shapes(q) \cap Seq(Steps)
  BY <1>1, OthersFacts DEF Shapes
<1>4. Cons("check", Stored) \in Seq(Steps)
  BY StoredFacts, Conses DEF Steps
<1> QED
  BY <1>1, <1>2, <1>3, <1>4 DEF Others

LEMMA UserShapes ==
    /\ User \in Threads
    /\ <<>> \in Shapes(User) \cap Seq(Steps)
    /\ \A x \in {"sync", "sync asleep", "sync lost", "stop", "end sync", "crashed", "unlock",
                  "sync wait", "pause", "unpause", "timed"} :
          Last(x) \in Shapes(User) \cap Seq(Steps)
    /\ \A x \in {"check", "uncheck"} :
          Cons(x, Last("unlock")) \in Shapes(User) \cap Seq(Steps)
    /\ Cons("unpause", Last("sync wait")) \in Shapes(User) \cap Seq(Steps)
    /\ Cons("join", Last("end sync")) \in Shapes(User) \cap Seq(Steps)
    /\ {Stopping, Removed} \subseteq Shapes(User) \cap Seq(Steps)
    /\ \A k \in {Stopping, Removed} : Cons("unpause", k) \in Shapes(User) \cap Seq(Steps)
<1>1. /\ User \in Threads
      /\ {<<>>, Last("unlock"), Last("sync wait"), Stopping, Removed} = Conts(User)
  BY DEF Threads, Conts
<1>2. \A k \in Conts(User) : k \in Shapes(User) \cap Seq(Steps)
  BY <1>1, PausesShapes, ContsFacts
<1>3. ASSUME NEW k \in Conts(User), NEW x \in PauseSteps
      PROVE  Cons(x, k) \in Shapes(User) \cap Seq(Steps)
  BY <1>1, <1>2, PausesShapes, Conses, Words
<1>4. \A k \in Others(User) : k \in Shapes(User) \cap Seq(Steps)
  BY <1>1, OthersFacts DEF Shapes
<1>5. {"pause", "unpause", "timed", "check", "uncheck"} \subseteq PauseSteps
  BY DEF PauseSteps
<1>6. \A x \in {"pause", "unpause", "timed"} : Last(x) \in Shapes(User) \cap Seq(Steps)
  BY <1>1, <1>3, <1>5 DEF Last
<1> QED
  BY <1>1, <1>2, <1>3, <1>4, <1>5, <1>6 DEF Others

LEMMA TimerShapes ==
    ASSUME NEW t \in Timers
    PROVE  /\ t \in Threads
           /\ <<>> \in Shapes(t) \cap Seq(Steps)
           /\ \A x \in {"begin pause", "sleep", "end timer"} :
                 Last(x) \in Shapes(t) \cap Seq(Steps)
           /\ Cons("unpause", Last("end timer")) \in Shapes(t) \cap Seq(Steps)
<1>1. t \in Threads /\ t # User /\ t \notin Queues /\ Last("end timer") \in Conts(t)
  BY MessageQueueAssumption DEF Threads, Conts
<1>2. Cons("unpause", Last("end timer")) \in Shapes(t) /\ Last("end timer") \in Shapes(t)
  BY <1>1, PausesShapes DEF PauseSteps
<1>3. \A k \in Others(t) : k \in Shapes(t) \cap Seq(Steps)
  BY <1>1, OthersFacts DEF Shapes
<1>4. Last("end timer") \in Seq(Steps) /\ Cons("unpause", Last("end timer")) \in Seq(Steps)
  BY Lasts, Pairs, Words DEF PauseSteps
<1> QED
  BY <1>1, <1>2, <1>3, <1>4 DEF Others

-----------------------------------------------------------------------------
(* The queue thread. *)

\* From which steps to which it goes while it would still wake who waits for a
\* message, and takes messages only if it did.
Working  == {"begin", "loop", "input", "select"}
Watching == Working \cup {"end", "end sync"}

Stays(from, to) == /\ from \cap Watching # {} /\ to \cap Watching # {}
                   /\ to \cap Working # {} => from \cap Working # {}
                   /\ "leave" \notin from \cup to
                   /\ from \cap Ending = {}

\* Everything it does while it would still wake who waits for a message.
LEMMA QueueStep ==
    ASSUME Inv, NEW q \in Queues, NEW k \in Shapes(q) \cap Seq(Steps),
           code' = [code EXCEPT ![q] = k],
           Stays(Ran(code[q]), Ran(k)),
           UNCHANGED <<internal, exitLock, disposed, cancelled, overlap, paused, without>>,
           Types'
    PROVE  Inv'
<1>1. q \in Threads
  BY QueueShapes
<1>2. /\ Shaped'
      /\ Left(q) = Ran(code[q]) \cap Matters /\ Ends(q) = Ran(code[q]) \cap Ending
      /\ Left(q)' = Ran(k) \cap Matters
      /\ \A b \in Threads \ {q} : Left(b)' = Left(b) /\ Ends(b)' = Ends(b)
  BY <1>1, PlanFrame DEF Inv, Left, Ends, Plan
<1>3. Watches(q) /\ Watches(q)' /\ (Works(q)' => Works(q))
  <2>1. Watching \subseteq Matters /\ Working \subseteq Matters
    BY DEF Watching, Working, Matters
  <2> QED
    BY <1>2, <2>1 DEF Stays, Watches, Works, Watching, Working
<1>4. Core'
  <2>1. "leave" \notin Left(q) \cup Left(q)'
    BY <1>2 DEF Stays
  <2> QED
    BY <1>2, <1>3, <2>1, QueueCore DEF Inv
<1>5. Paused'
  <2>1. Ends(q) = {}
    BY <1>2 DEF Stays
  <2> QED
    BY <1>1, <1>2, <2>1, PausedFrame DEF Inv
<1> QED
  BY <1>2, <1>4, <1>5 DEF Inv

\* The steps it may be at, with what they say of it.
LEMMA QueueRan ==
    /\ \A x \in {"begin", "loop", "input", "select", "end", "try", "leave"} :
          x \in Steps /\ Ran(Last(x)) = {x}
    /\ \A x \in {"wait", "asleep", "lost"} :
          x \in Steps /\ Ran(Cons(x, Last("input"))) = {x, "input"}
    /\ Ran(Cons("signal", Last("loop"))) = {"signal", "loop"}
    /\ Ran(Stored) = {"unlock", "signal", "loop"}
    /\ Ran(Cons("check", Stored)) = {"check", "unlock", "signal", "loop"}
    /\ Ran(Cons("end sync", Last("try"))) = {"end sync", "try"}
    /\ Ran(Cons("detach", Last("leave"))) = {"detach", "leave"}
<1>1. /\ {"begin", "loop", "input", "select", "end", "try", "leave"} \subseteq Steps
      /\ {"wait", "asleep", "lost", "signal", "check", "end sync", "detach"} \subseteq Steps
  BY DEF Steps
<1>2. Ran(Cons("check", Stored)) = {"check"} \cup Ran(Stored)
  BY <1>1, StoredFacts, Conses
<1>3. Ran(Cons("check", Stored)) = {"check", "unlock", "signal", "loop"}
  BY <1>2, StoredFacts
<1>4. \A x \in {"begin", "loop", "input", "select", "end", "try", "leave"} :
          x \in Steps /\ Ran(Last(x)) = {x}
  BY <1>1, Lasts
<1>5. \A x \in {"wait", "asleep", "lost"} :
          x \in Steps /\ Ran(Cons(x, Last("input"))) = {x, "input"}
  BY <1>1, Pairs
<1>6. /\ Ran(Cons("signal", Last("loop"))) = {"signal", "loop"}
      /\ Ran(Cons("end sync", Last("try"))) = {"end sync", "try"}
      /\ Ran(Cons("detach", Last("leave"))) = {"detach", "leave"}
  BY <1>1, Pairs
<1> QED
  BY <1>3, <1>4, <1>5, <1>6, StoredFacts

\* What is left of a sequence that pauses is what comes after the pausing.
LEMMA ContRan ==
    ASSUME NEW a \in Threads, NEW k \in Conts(a)
    PROVE  Ran(k) \cap Ending = {}
<1>1. /\ Ran(<<>>) = {} /\ Ran(Stored) = {"unlock", "signal", "loop"}
      /\ Ran(Stopping) = {"kill", "join", "end sync"} /\ Ran(Removed) = {"forget", "end sync"}
  BY NilFacts, StoredFacts, StoppingFacts
<1>2. \A x \in {"unlock", "sync wait", "end timer"} : Ran(Last(x)) = {x}
  BY Words, Lasts
<1>3. k \in {<<>>, Last("unlock"), Last("sync wait"), Last("end timer"), Stopping, Removed,
              Stored}
  BY DEF Conts
<1> QED
  BY <1>1, <1>2, <1>3 DEF Ending

LEMMA PauseRan ==
    ASSUME NEW a \in Threads, NEW k \in Conts(a), NEW x \in PauseSteps
    PROVE  /\ k \in Shapes(a) \cap Seq(Steps) /\ Ran(k) \cap Ending = {} /\ x \in Steps
           /\ Cons(x, k) \in Shapes(a) \cap Seq(Steps)
           /\ Ran(Cons(x, k)) = {x} \cup Ran(k)
           /\ Ran(Cons(x, k)) \cap Matters = Ran(k) \cap Matters
           /\ Ran(Cons(x, k)) \cap Ending = {x} \cap Ending
<1>1. k \in Shapes(a) \cap Seq(Steps) /\ Ran(k) \cap Ending = {}
  BY ContsFacts, PausesShapes, ContRan
<1>2. x \in Steps /\ x \notin Matters
  BY DEF PauseSteps, Steps, Matters
<1>3. /\ Cons(x, k) \in Shapes(a) \cap Seq(Steps)
      /\ Ran(Cons(x, k)) = {x} \cup Ran(k)
  BY <1>1, <1>2, PausesShapes, ConsFacts
<1> QED
  BY <1>1, <1>2, <1>3

LEMMA CancelRan ==
    ASSUME NEW a \in Threads, NEW k \in Conts(a), NEW x \in {"deactivate", "create timer"}
    PROVE  LET c == Cons("cancel timer", Cons(x, k))
           IN  /\ c \in Shapes(a) \cap Seq(Steps)
               /\ Ran(c) \cap Matters = Ran(k) \cap Matters
               /\ Ran(c) \cap Ending = {x}
<1>1. /\ x \in PauseSteps /\ x \in Ending /\ "cancel timer" \in Steps
      /\ "cancel timer" \notin Matters \cup Ending
  BY DEF PauseSteps, Steps, Ending, Matters
<1> DEFINE d == Cons(x, k)
<1>2. /\ d \in Seq(Steps) /\ Ran(d) \cap Matters = Ran(k) \cap Matters
      /\ Ran(d) \cap Ending = {x}
  <2>1. k \in Seq(Steps) /\ Ran(k) \cap Ending = {}
    BY ContsFacts, ContRan
  <2>2. x \in Steps /\ x \notin Matters
    BY DEF Steps, Matters
  <2>3. d \in Seq(Steps) /\ Ran(d) = {x} \cup Ran(k)
    BY <2>1, <2>2, ConsFacts
  <2> QED
    BY <1>1, <2>1, <2>2, <2>3
<1>3. Cons("cancel timer", d) \in Shapes(a)
  BY PausesShapes
<1> HIDE DEF d
<1>4. /\ Cons("cancel timer", d) \in Seq(Steps)
      /\ Ran(Cons("cancel timer", d)) = {"cancel timer"} \cup Ran(d)
  BY <1>1, <1>2, ConsFacts
<1> QED
  BY <1>1, <1>2, <1>3, <1>4 DEF d

LEMMA PauseAt ==
    ASSUME Shaped, NEW a \in Threads, NEW x \in PauseSteps, At(a, x)
    PROVE  \E k \in Conts(a) : code[a] = Cons(x, k)
BY PausesAt DEF PauseSteps

LEMMA PausesLeft ==
    ASSUME NEW a \in Threads, NEW k \in Conts(a), NEW c \in Pauses(k)
    PROVE  Ran(c) \cap Matters = Ran(k) \cap Matters
<1>1. CASE c = k
  BY <1>1
<1>2. ASSUME NEW x \in PauseSteps, c = Cons(x, k)
      PROVE  Ran(c) \cap Matters = Ran(k) \cap Matters
  BY <1>2, PauseRan
<1>3. ASSUME NEW x \in {"deactivate", "create timer"}, c = Cons("cancel timer", Cons(x, k))
      PROVE  Ran(c) \cap Matters = Ran(k) \cap Matters
  BY <1>3, CancelRan
<1> QED
  BY <1>1, <1>2, <1>3 DEF Pauses

LEMMA UserLeft ==
    ASSUME Shaped
    PROVE  /\ Left(User) \in {{}, {"sync asleep"}, {"kill", "join", "end sync"}, {"crashed"},
                              {"forget", "end sync"}, {"join", "end sync"}, {"end sync"}}
           /\ "sync asleep" \in Left(User) => code[User] = Last("sync asleep")
<1> DEFINE L == {{}, {"sync asleep"}, {"kill", "join", "end sync"}, {"crashed"},
                 {"forget", "end sync"}, {"join", "end sync"}, {"end sync"}}
           M(c) == Ran(c) \cap Matters
<1>1. User \in Threads /\ Left(User) = M(code[User])
  BY DEF Threads, Left, Plan
<1>2. \A x \in {"unlock", "sync wait", "sync", "sync lost", "stop"} : M(Last(x)) = {}
  <2>1. {"unlock", "sync wait", "sync", "sync lost", "stop"} \subseteq Steps
    BY Words
  <2>2. \A x \in {"unlock", "sync wait", "sync", "sync lost", "stop"} : Ran(Last(x)) = {x}
    BY <2>1, Lasts
  <2>3. {"unlock", "sync wait", "sync", "sync lost", "stop"} \cap Matters = {}
    BY DEF Matters
  <2> QED
    BY <2>2, <2>3
<1>3. \A x \in {"sync asleep", "end sync", "crashed"} : M(Last(x)) = {x}
  <2>1. {"sync asleep", "end sync", "crashed"} \subseteq Steps
    BY Words
  <2>2. \A x \in {"sync asleep", "end sync", "crashed"} : Ran(Last(x)) = {x}
    BY <2>1, Lasts
  <2>3. {"sync asleep", "end sync", "crashed"} \subseteq Matters
    BY DEF Matters
  <2> QED
    BY <2>2, <2>3
<1>4. /\ M(<<>>) = {} /\ M(Stopping) = {"kill", "join", "end sync"}
      /\ M(Removed) = {"forget", "end sync"}
      /\ M(Cons("join", Last("end sync"))) = {"join", "end sync"}
  BY NilFacts, StoppingFacts DEF Matters
<1> HIDE DEF M
<1>5. \A c \in Conts(User) \cup Others(User) :
          M(c) \in L /\ ("sync asleep" \in M(c) => c = Last("sync asleep"))
  <2> SUFFICES ASSUME NEW c \in Conts(User) \cup Others(User)
               PROVE  M(c) \in L /\ ("sync asleep" \in M(c) => c = Last("sync asleep"))
    OBVIOUS
  <2>1. CASE c = Last("sync asleep")
    BY <1>3, <2>1
  <2>2. CASE c \in {Last("unlock"), Last("sync wait"), Last("sync"), Last("sync lost"),
                    Last("stop"), <<>>}
    <3>1. M(c) = {}
      BY <1>2, <1>4, <2>2
    <3> QED
      BY <3>1
  <2>3. CASE c \in {Last("end sync"), Last("crashed")}
    <3>1. M(c) = {"end sync"} \/ M(c) = {"crashed"}
      BY <1>3, <2>3
    <3> QED
      BY <3>1
  <2>4. CASE c \in {Stopping, Removed, Cons("join", Last("end sync"))}
    <3>1. \/ M(c) = {"kill", "join", "end sync"} \/ M(c) = {"forget", "end sync"}
          \/ M(c) = {"join", "end sync"}
      BY <1>4, <2>4
    <3> QED
      BY <3>1
  <2> QED
    BY <2>1, <2>2, <2>3, <2>4 DEF Conts, Others
<1>6. CASE code[User] \in Others(User)
  BY <1>1, <1>5, <1>6
<1>7. CASE \E k \in Conts(User) : code[User] \in Pauses(k)
  <2>1. PICK k \in Conts(User) : code[User] \in Pauses(k)
    BY <1>7
  <2>2. M(code[User]) = M(k)
    BY <1>1, <2>1, PausesLeft DEF M
  <2>3. "sync asleep" \notin M(k)
    <3>1. k \in {<<>>, Last("unlock"), Last("sync wait"), Stopping, Removed}
      BY DEF Conts
    <3>2. \/ M(k) = {} \/ M(k) = {"kill", "join", "end sync"}
          \/ M(k) = {"forget", "end sync"}
      BY <1>2, <1>4, <3>1
    <3>3. "sync asleep" \notin {} \cup {"kill", "join", "end sync", "forget"}
      OBVIOUS
    <3>4. M(k) \subseteq {"kill", "join", "end sync", "forget"}
      BY <3>2, Zenon
    <3> QED
      BY <3>3, <3>4
  <2> QED
    BY <1>1, <1>5, <2>2, <2>3
<1> QED
  BY <1>1, <1>6, <1>7 DEF Shaped, Shapes

LEMMA QueueLeft ==
    ASSUME Shaped, NEW q \in Queues
    PROVE  "leave" \in Left(q) => Left(q) \subseteq {"detach", "leave"}
<1>1. q \in Threads /\ q # User
  BY MessageQueueAssumption DEF Threads
<1>2. CASE code[q] \in Others(q)
  <2> DEFINE S == {"begin", "loop", "input", "select", "end", "try"}
  <2>1. \/ code[q] \in {Cons("detach", Last("leave")), Last("leave")}
        \/ code[q] \in {<<>>, Cons("signal", Last("loop")), Cons("end sync", Last("try"))}
        \/ \E x \in S : code[q] = Last(x)
        \/ \E x \in {"wait", "asleep", "lost"} : code[q] = Cons(x, Last("input"))
    BY <1>1, <1>2 DEF Others
  <2>2. \A x \in S : Ran(Last(x)) = {x} /\ x # "leave"
    BY QueueRan
  <2> HIDE DEF S
  <2>3. \A x \in {"wait", "asleep", "lost"} : "leave" \notin Ran(Cons(x, Last("input")))
    BY QueueRan
  <2>4. /\ "leave" \notin Ran(<<>>)
        /\ "leave" \notin Ran(Cons("signal", Last("loop")))
        /\ "leave" \notin Ran(Cons("end sync", Last("try")))
    <3>1. /\ Ran(<<>>) = {} /\ Ran(Cons("signal", Last("loop"))) = {"signal", "loop"}
          /\ Ran(Cons("end sync", Last("try"))) = {"end sync", "try"}
      BY NilFacts, QueueRan
    <3>2. "leave" \notin {} \cup {"signal", "loop", "end sync", "try"}
      OBVIOUS
    <3> QED
      BY <3>1, <3>2
  <2>5. \/ code[q] \in {Cons("detach", Last("leave")), Last("leave")}
        \/ "leave" \notin Ran(code[q])
    <3>1. CASE \E x \in S : code[q] = Last(x)
      BY <2>2, <3>1
    <3>2. CASE \E x \in {"wait", "asleep", "lost"} : code[q] = Cons(x, Last("input"))
      BY <2>3, <3>2
    <3>3. CASE code[q] = <<>>
      BY <2>4, <3>3
    <3>4. CASE code[q] = Cons("signal", Last("loop"))
      BY <2>4, <3>4
    <3>5. CASE code[q] = Cons("end sync", Last("try"))
      BY <2>4, <3>5
    <3> QED
      BY <2>1, <3>1, <3>2, <3>3, <3>4, <3>5
  <2>6. /\ Ran(Cons("detach", Last("leave"))) = {"detach", "leave"}
        /\ Ran(Last("leave")) = {"leave"}
    BY QueueRan
  <2> QED
    BY <2>5, <2>6 DEF Left, Plan
<1>3. CASE \E k \in Conts(q) : code[q] \in Pauses(k)
  <2>1. code[q] \in Pauses(Stored) /\ Stored \in Conts(q)
    BY <1>1, <1>3 DEF Conts
  <2>2. Left(q) = Ran(Stored) \cap Matters
    BY <1>1, <2>1, PausesLeft DEF Left, Plan
  <2> QED
    BY <2>2, QueueRan
<1> QED
  BY <1>1, <1>2, <1>3 DEF Shaped, Shapes

LEMMA LongMoves ==
    ASSUME Shaped, NEW a \in Threads, NEW x \in Steps, code[a] = Last(x)
    PROVE  /\ Then(a, <<"check", "unlock", "signal", "loop">>) =>
                 code' = [code EXCEPT ![a] = Cons("check", Stored)]
           /\ Then(a, <<"unpause", "kill", "join", "end sync">>) =>
                 code' = [code EXCEPT ![a] = Cons("unpause", Stopping)]
           /\ Then(a, <<"unpause", "forget", "end sync">>) =>
                 code' = [code EXCEPT ![a] = Cons("unpause", Removed)]
<1>1. Tail(code[a]) = <<>>
  BY GoesLast
<1>2. {"check", "unlock", "signal", "loop"} \subseteq Steps
  BY DEF Steps
<1>3. {"unpause", "kill", "join", "end sync", "forget"} \subseteq Steps
  BY DEF Steps
<1>4. /\ <<"check", "unlock", "signal", "loop">> = Cons("check", Stored)
      /\ Cons("check", Stored) \in Seq(Steps)
  BY <1>2, Longer, StoredFacts, Conses DEF Stored
<1>5. /\ <<"unpause", "kill", "join", "end sync">> = Cons("unpause", Stopping)
      /\ Cons("unpause", Stopping) \in Seq(Steps)
  <2>1. "unpause" \in Steps /\ "kill" \in Steps /\ "join" \in Steps /\ "end sync" \in Steps
    BY <1>3
  <2>2. ASSUME NEW w \in Steps, NEW x1 \in Steps, NEW y \in Steps, NEW z \in Steps
        PROVE  <<w, x1, y, z>> = Cons(w, Cons(x1, Cons(y, Last(z))))
    BY Longer
  <2>3. <<"unpause", "kill", "join", "end sync">> =
            Cons("unpause", Cons("kill", Cons("join", Last("end sync"))))
    <3>1. \A y, z \in Steps :
              <<"unpause", "kill", y, z>> = Cons("unpause", Cons("kill", Cons(y, Last(z))))
      BY <2>1, <2>2, Zenon
    <3> QED
      BY <2>1, <3>1, Zenon
  <2>4. <<"unpause", "kill", "join", "end sync">> = Cons("unpause", Stopping)
    BY <2>3 DEF Stopping
  <2> QED
    BY <1>3, <2>4, StoppingFacts, Conses
<1>6. /\ <<"unpause", "forget", "end sync">> = Cons("unpause", Removed)
      /\ Cons("unpause", Removed) \in Seq(Steps)
  <2>1. "unpause" \in Steps /\ "forget" \in Steps /\ "end sync" \in Steps
    BY <1>3
  <2>2. \A w, x1, y \in Steps : <<w, x1, y>> = Cons(w, Cons(x1, Last(y)))
    BY Longer
  <2>3. \A y \in Steps : <<"unpause", "forget", y>> = Cons("unpause", Cons("forget", Last(y)))
    BY <2>1, <2>2, Zenon
  <2>4. <<"unpause", "forget", "end sync">> = Cons("unpause", Removed)
    BY <2>1, <2>3, Zenon DEF Removed
  <2> QED
    BY <1>3, <2>4, StoppingFacts, Conses
<1>7. \A k \in Seq(Steps) : k \o <<>> = k
  BY ConcatEmptySeq, Zenon
<1> QED
  BY <1>1, <1>4, <1>5, <1>6, <1>7, Zenon DEF Then

LEMMA BeginKeeps ==
    ASSUME Inv, NEW q \in Queues, Begin(q), UNCHANGED calls
    PROVE  Inv'
<1>1. code[q] = Last("begin") /\ code' = [code EXCEPT ![q] = Last("loop")]
  BY QueueAt, QueueShapes, QueueRan, GoesLast DEF Inv, Begin
<1>2. Types'
  BY DEF Begin, Inv, Types, list, threads, pausing
<1>3. Last("loop") \in Shapes(q) \cap Seq(Steps)
  BY QueueShapes
<1>4. Stays(Ran(code[q]), Ran(Last("loop")))
  <2>1. Ran(code[q]) = {"begin"} /\ Ran(Last("loop")) \in {{"loop"}}
    BY <1>1, QueueRan
  <2>2. \A to \in {{"loop"}} : Stays({"begin"}, to)
    BY DEF Stays, Working, Watching, Ending
  <2> QED
    BY <2>1, <2>2
<1>5. UNCHANGED <<internal, exitLock, disposed, cancelled, overlap, paused, without>>
  BY DEF Begin, threads, pausing
<1> QED
  BY <1>1, <1>2, <1>3, <1>4, <1>5, QueueStep

LEMMA LoopKeeps ==
    ASSUME Inv, NEW q \in Queues, Loop(q), UNCHANGED calls
    PROVE  Inv'
<1>1. code[q] = Last("loop")
  BY QueueAt, QueueShapes DEF Inv, Loop
<1>2. PICK k \in {Last("end"), Cons("wait", Last("input")), Last("input")} :
          code' = [code EXCEPT ![q] = k]
  <2>1. q \in Threads /\ {"loop", "end", "wait", "input"} \subseteq Steps /\ Shaped
    BY QueueShapes, QueueRan DEF Inv
  <2>2. /\ Then(q, <<"end">>) => code' = [code EXCEPT ![q] = Last("end")]
        /\ Then(q, <<"wait", "input">>) =>
              code' = [code EXCEPT ![q] = Cons("wait", Last("input"))]
        /\ Then(q, <<"input">>) => code' = [code EXCEPT ![q] = Last("input")]
    BY <1>1, <2>1, GoesLast
  <2>3. Then(q, <<"end">>) \/ Then(q, <<"wait", "input">>) \/ Then(q, <<"input">>)
    BY DEF Loop
  <2> QED
    BY <2>2, <2>3
<1>3. Types'
  BY DEF Loop, Inv, Types, list, control, threads, pausing
<1>4. k \in Shapes(q) \cap Seq(Steps)
  BY QueueShapes
<1>5. Ran(k) \in {{"end"}, {"wait", "input"}, {"input"}}
  BY QueueRan
<1>6. Stays(Ran(code[q]), Ran(k))
  <2>1. Ran(code[q]) = {"loop"} /\ Ran(k) \in {{"end"}, {"wait", "input"}, {"input"}}
    BY <1>1, <1>5, QueueRan
  <2>2. \A to \in {{"end"}, {"wait", "input"}, {"input"}} : Stays({"loop"}, to)
    BY DEF Stays, Working, Watching, Ending
  <2> QED
    BY <2>1, <2>2
<1>7. UNCHANGED <<internal, exitLock, disposed, cancelled, overlap, paused, without>>
  BY DEF Loop, control, threads, pausing
<1> QED
  BY <1>2, <1>3, <1>4, <1>6, <1>7, QueueStep

LEMMA WaitKeeps ==
    ASSUME Inv, NEW q \in Queues, Wait(q), UNCHANGED calls
    PROVE  Inv'
<1>1. code[q] = Cons("wait", Last("input")) /\ Last("input") \in Seq(Steps)
  BY QueueAt, QueueShapes DEF Inv, Wait
<1>2. PICK k \in {Cons("asleep", Last("input")), Cons("lost", Last("input")), Last("input")} :
          code' = [code EXCEPT ![q] = k]
  <2>1. q \in Threads /\ {"wait", "asleep", "lost"} \subseteq Steps
    BY QueueShapes, QueueRan
  <2>2. Shaped
    BY DEF Inv
  <2>3. /\ Then(q, <<>>) => code' = [code EXCEPT ![q] = Last("input")]
        /\ Then(q, <<"asleep">>) => code' = [code EXCEPT ![q] = Cons("asleep", Last("input"))]
        /\ Then(q, <<"lost">>) => code' = [code EXCEPT ![q] = Cons("lost", Last("input"))]
    BY <1>1, <2>1, <2>2, Goes
  <2> QED
    BY <2>3 DEF Wait
<1>3. Types'
  BY DEF Wait, Inv, Types, list, control, threads, pausing
<1>4. k \in Shapes(q) \cap Seq(Steps)
  BY QueueShapes
<1>5. Ran(k) \in {{"asleep", "input"}, {"lost", "input"}, {"input"}}
  BY QueueRan
<1>6. Stays(Ran(code[q]), Ran(k))
  <2>1. Ran(code[q]) = {"wait", "input"} /\ Ran(k) \in {{"asleep", "input"}, {"lost", "input"}, {"input"}}
    BY <1>1, <1>5, QueueRan
  <2>2. \A to \in {{"asleep", "input"}, {"lost", "input"}, {"input"}} : Stays({"wait", "input"}, to)
    BY DEF Stays, Working, Watching, Ending
  <2> QED
    BY <2>1, <2>2
<1>7. UNCHANGED <<internal, exitLock, disposed, cancelled, overlap, paused, without>>
  BY DEF Wait, control, threads, pausing
<1> QED
  BY <1>2, <1>3, <1>4, <1>6, <1>7, QueueStep

LEMMA InputKeeps ==
    ASSUME Inv, NEW q \in Queues, Input(q), UNCHANGED calls
    PROVE  Inv'
<1>1. code[q] = Last("input")
  BY QueueAt, QueueShapes DEF Inv, Input
<1>2. PICK k \in {Last("end"), Last("select"), Last("loop")} : code' = [code EXCEPT ![q] = k]
  BY <1>1, QueueShapes, QueueRan, GoesLast DEF Inv, Input
<1>3. Types'
  BY DEF Input, Inv, Types, list, control, threads, pausing
<1>4. k \in Shapes(q) \cap Seq(Steps)
  BY QueueShapes
<1>5. Ran(k) \in {{"end"}, {"select"}, {"loop"}}
  BY QueueRan
<1>6. Stays(Ran(code[q]), Ran(k))
  <2>1. Ran(code[q]) = {"input"} /\ Ran(k) \in {{"end"}, {"select"}, {"loop"}}
    BY <1>1, <1>5, QueueRan
  <2>2. \A to \in {{"end"}, {"select"}, {"loop"}} : Stays({"input"}, to)
    BY DEF Stays, Working, Watching, Ending
  <2> QED
    BY <2>1, <2>2
<1>7. UNCHANGED <<internal, exitLock, disposed, cancelled, overlap, paused, without>>
  BY DEF Input, control, threads, pausing
<1> QED
  BY <1>2, <1>3, <1>4, <1>6, <1>7, QueueStep

LEMMA SelectKeeps ==
    ASSUME Inv, NEW q \in Queues, Select(q), UNCHANGED calls
    PROVE  Inv'
<1>1. code[q] = Last("select")
  BY QueueAt, QueueShapes DEF Inv, Select
<1>2. PICK k \in {Last("input"), Last("end")} : code' = [code EXCEPT ![q] = k]
  BY <1>1, QueueShapes, QueueRan, GoesLast DEF Inv, Select
<1>3. Types'
  BY DEF Select, Inv, Types, list, control, threads, pausing
<1>4. k \in Shapes(q) \cap Seq(Steps)
  BY QueueShapes
<1>5. Ran(k) \in {{"input"}, {"end"}}
  BY QueueRan
<1>6. Stays(Ran(code[q]), Ran(k))
  <2>1. Ran(code[q]) = {"select"} /\ Ran(k) \in {{"input"}, {"end"}}
    BY <1>1, <1>5, QueueRan
  <2>2. \A to \in {{"input"}, {"end"}} : Stays({"select"}, to)
    BY DEF Stays, Working, Watching, Ending
  <2> QED
    BY <2>1, <2>2
<1>7. UNCHANGED <<internal, exitLock, disposed, cancelled, overlap, paused, without>>
  BY DEF Select, control, threads, pausing
<1> QED
  BY <1>2, <1>3, <1>4, <1>6, <1>7, QueueStep

LEMMA AddMessageKeeps ==
    ASSUME Inv, NEW q \in Queues, AddMessage(q), UNCHANGED calls
    PROVE  Inv'
<1>1. code[q] = Last("input") /\ code' = [code EXCEPT ![q] = Cons("check", Stored)]
  BY QueueAt, QueueShapes, QueueRan, LongMoves DEF Inv, AddMessage
<1>2. Types'
  BY MessageQueueAssumption DEF AddMessage, Inv, Types, control, threads, pausing
<1>3. Cons("check", Stored) \in Shapes(q) \cap Seq(Steps)
  BY QueueShapes
<1>4. Stays(Ran(code[q]), Ran(Cons("check", Stored)))
  <2>1. Ran(code[q]) = {"input"} /\ Ran(Cons("check", Stored)) \in {{"check", "unlock", "signal", "loop"}}
    BY <1>1, QueueRan
  <2>2. \A to \in {{"check", "unlock", "signal", "loop"}} : Stays({"input"}, to)
    BY DEF Stays, Working, Watching, Ending
  <2> QED
    BY <2>1, <2>2
<1>5. UNCHANGED <<internal, exitLock, disposed, cancelled, overlap, paused, without>>
  BY DEF AddMessage, control, threads, pausing
<1> QED
  BY <1>1, <1>2, <1>3, <1>4, <1>5, QueueStep

LEMMA EndKeeps ==
    ASSUME Inv, NEW q \in Queues, End(q), UNCHANGED calls
    PROVE  Inv'
<1>1. "try" \in Steps /\ "end sync" \in Steps
  BY DEF Steps
<1>2. code[q] = Last("end") /\ code' = [code EXCEPT ![q] = Cons("end sync", Last("try"))]
  <2>1. code[q] = Last("end") /\ q \in Threads /\ "end" \in Steps /\ Shaped
    BY QueueAt, QueueShapes, QueueRan DEF Inv, End
  <2>2. Then(q, <<"end sync", "try">>) =>
            code' = [code EXCEPT ![q] = Cons("end sync", Last("try"))]
    BY <1>1, <2>1, GoesLast
  <2> QED
    BY <2>1, <2>2 DEF End
<1>3. Types'
  BY DEF End, Inv, Types, list, threads, pausing
<1>4. Cons("end sync", Last("try")) \in Shapes(q) \cap Seq(Steps)
  BY QueueShapes
<1>5. Stays(Ran(code[q]), Ran(Cons("end sync", Last("try"))))
  <2>1. Ran(code[q]) = {"end"} /\ Ran(Cons("end sync", Last("try"))) \in {{"end sync", "try"}}
    BY <1>2, QueueRan
  <2>2. \A to \in {{"end sync", "try"}} : Stays({"end"}, to)
    BY DEF Stays, Working, Watching, Ending
  <2> QED
    BY <2>1, <2>2
<1>6. UNCHANGED <<internal, exitLock, disposed, cancelled, overlap, paused, without>>
  BY DEF End, threads, pausing
<1> QED
  BY <1>2, <1>3, <1>4, <1>5, <1>6, QueueStep

LEMMA QueueUnlockKeeps ==
    ASSUME Inv, NEW q \in Queues, Unlock(q), UNCHANGED calls
    PROVE  Inv'
<1>1. "unlock" \in Steps
  BY DEF Steps
<1>2. code[q] = Stored /\ code' = [code EXCEPT ![q] = Cons("signal", Last("loop"))]
  <2>1. code[q] = Stored
    BY QueueAt DEF Inv, Unlock
  <2>2. q \in Threads /\ Shaped /\ Cons("signal", Last("loop")) \in Seq(Steps)
    BY QueueShapes DEF Inv
  <2>3. Then(q, <<>>) => code' = [code EXCEPT ![q] = Cons("signal", Last("loop"))]
    BY <1>1, <2>1, <2>2, Goes DEF Stored
  <2> QED
    BY <2>1, <2>3 DEF Unlock
<1>3. Types'
  BY DEF Unlock, Inv, Types, control, threads, pausing
<1>4. Cons("signal", Last("loop")) \in Shapes(q) \cap Seq(Steps)
  BY QueueShapes
<1>5. Stays(Ran(code[q]), Ran(Cons("signal", Last("loop"))))
  <2>1. Ran(code[q]) = {"unlock", "signal", "loop"} /\ Ran(Cons("signal", Last("loop"))) \in {{"signal", "loop"}}
    BY <1>2, QueueRan
  <2>2. \A to \in {{"signal", "loop"}} : Stays({"unlock", "signal", "loop"}, to)
    BY DEF Stays, Working, Watching, Ending
  <2> QED
    BY <2>1, <2>2
<1>6. UNCHANGED <<internal, exitLock, disposed, cancelled, overlap, paused, without>>
  BY DEF Unlock, control, threads, pausing
<1> QED
  BY <1>2, <1>3, <1>4, <1>5, <1>6, QueueStep

LEMMA QueueWakeupKeeps ==
    ASSUME Inv, NEW q \in Queues, SpuriousWakeup(q), UNCHANGED calls
    PROVE  Inv'
<1>1. PICK x \in {"asleep", "lost"} : code[q] = Cons(x, Last("input"))
  BY QueueAt DEF Inv, SpuriousWakeup
<1>2. code' = [code EXCEPT ![q] = Last("input")] /\ Last("input") \in Shapes(q) \cap Seq(Steps)
  <2>1. /\ q \in Threads /\ x \in Steps /\ Shaped
        /\ Last("input") \in Shapes(q) \cap Seq(Steps)
    BY QueueShapes, QueueRan DEF Inv
  <2>2. Then(q, <<>>) => code' = [code EXCEPT ![q] = Last("input")]
    BY <1>1, <2>1, Goes
  <2> QED
    BY <2>1, <2>2 DEF SpuriousWakeup
<1>3. Types'
  BY DEF SpuriousWakeup, Inv, Types, list, control, threads, pausing
<1>4. Ran(code[q]) = {x, "input"}
  BY <1>1, QueueRan
<1>5. Stays(Ran(code[q]), Ran(Last("input")))
  <2>1. Ran(Last("input")) = {"input"}
    BY QueueRan
  <2>2. \A y \in {"asleep", "lost"} : Stays({y, "input"}, {"input"})
    BY DEF Stays, Working, Watching, Ending
  <2> QED
    BY <1>4, <2>1, <2>2
<1>6. UNCHANGED <<internal, exitLock, disposed, cancelled, overlap, paused, without>>
  BY DEF SpuriousWakeup, control, threads, pausing
<1> QED
  BY <1>2, <1>3, <1>5, <1>6, QueueStep

LEMMA TryKeeps ==
    ASSUME Inv, NEW q \in Queues, Try(q), UNCHANGED calls
    PROVE  Inv'
<1>1. /\ code[q] = Last("try") /\ q \in Threads /\ "try" \in Steps /\ Shaped
      /\ "detach" \in Steps /\ "leave" \in Steps
  BY QueueAt, QueueShapes, QueueRan, Words DEF Inv, Try
<1>2. Types'
  BY DEF Try, Inv, Types, list, pausing
<1>3. UNCHANGED <<paused, without, internal, disposed, syncing, overlap>>
  BY DEF Try, pausing
<1>4. Left(q) = {"try"} /\ Ends(q) = {}
  BY <1>1, QueueRan DEF Left, Ends, Plan, Matters, Ending
<1>5. \A r \in Queues \cup {User} : r # q => r \in Threads \ {q}
  BY MessageQueueAssumption DEF Threads
<1>6. CASE exitLock = None
  <2>1. code' = [code EXCEPT ![q] = Cons("detach", Last("leave"))]
    BY <1>1, <1>6, GoesLast DEF Try
  <2>2. Cons("detach", Last("leave")) \in Shapes(q) \cap Seq(Steps)
    BY QueueShapes
  <2>3. /\ Shaped' /\ Left(q)' = {"detach", "leave"}
        /\ \A b \in Threads \ {q} : Left(b)' = Left(b) /\ Ends(b)' = Ends(b)
    <3>1. Ran(Cons("detach", Last("leave"))) \cap Matters = {"detach", "leave"}
      BY QueueRan DEF Matters
    <3> QED
      BY <1>1, <2>1, <2>2, <3>1, PlanFrame
  <2>4. exitLock' = q /\ cancelled' = cancelled
    BY <1>6 DEF Try
  <2>5. /\ \A r \in Queues : r # q => Left(r)' = Left(r)
        /\ Left(User)' = Left(User) /\ User # q
    BY <1>5, <2>3, MessageQueueAssumption
  <2>6. /\ \A r \in Queues : Works(r)' => Works(r)
        /\ \A r \in Queues : Watches(r) => Watches(r)'
    BY <1>4, <2>3, <2>5 DEF Works, Watches
  <2>7. Locks'
    BY <1>3, <1>6, <2>3, <2>4, <2>5, MessageQueueAssumption DEF Inv, Core, Locks
  <2>8. Disposals'
    <3>1. internal \notin disposed
      BY <1>6, MessageQueueAssumption DEF Inv, Types, Core, Disposals
    <3> QED
      BY <1>3, <1>4, <2>3, <2>4, <2>5, <3>1 DEF Inv, Core, Disposals
  <2>9. Known'
    BY <1>3, <1>4, <2>3, <2>5, <2>6 DEF Inv, Core, Known
  <2>10. Watched'
    BY <1>3, <2>5, <2>6 DEF Inv, Core, Watched
  <2>11. Paused'
    BY <1>1, <1>3, <1>4, <2>3, <2>4, PausedFrame DEF Inv
  <2> QED
    BY <1>2, <2>3, <2>7, <2>8, <2>9, <2>10, <2>11 DEF Inv, Core
<1>7. CASE exitLock # None
  <2>1. code' = [code EXCEPT ![q] = <<>>]
    BY <1>1, <1>7, GoesLast DEF Try
  <2>2. <<>> \in Shapes(q) \cap Seq(Steps)
    BY QueueShapes
  <2>3. /\ Shaped' /\ Left(q)' = {}
        /\ \A b \in Threads \ {q} : Left(b)' = Left(b) /\ Ends(b)' = Ends(b)
    BY <1>1, <2>1, <2>2, PlanFrame, NilFacts DEF Matters
  <2>4. exitLock' = exitLock /\ cancelled' = cancelled \ {q}
    BY <1>7 DEF Try
  <2>5. /\ \A r \in Queues : r # q => Left(r)' = Left(r)
        /\ Left(User)' = Left(User) /\ User # q
    BY <1>5, <2>3, MessageQueueAssumption
  <2>6. /\ \A r \in Queues : Works(r)' => Works(r)
        /\ \A r \in Queues : Watches(r) => Watches(r)'
    BY <1>4, <2>3, <2>5 DEF Works, Watches
  <2>7. Locks'
    BY <1>3, <1>4, <2>3, <2>4, <2>5 DEF Inv, Core, Locks
  <2>8. Disposals'
    BY <1>3, <1>4, <2>3, <2>4, <2>5 DEF Inv, Core, Disposals
  <2>9. Known'
    BY <1>3, <1>4, <2>3, <2>5, <2>6 DEF Inv, Core, Known
  <2>10. Watched'
    BY <1>3, <2>5, <2>6 DEF Inv, Core, Watched
  <2>11. cancelled' \cap Timers = cancelled \cap Timers
    BY <2>4, MessageQueueAssumption
  <2>12. Paused'
    BY <1>1, <1>3, <1>4, <2>3, <2>11, PausedFrame DEF Inv
  <2> QED
    BY <1>2, <2>3, <2>7, <2>8, <2>9, <2>10, <2>12 DEF Inv, Core
<1> QED
  BY <1>6, <1>7

-----------------------------------------------------------------------------
(* Pausing. *)

\* Where a call goes on, with k to come after it.
LEMMA PauseMove ==
    ASSUME Shaped, NEW a \in Threads, NEW k \in Conts(a), NEW x \in PauseSteps,
           code[a] = Cons(x, k), NEW c \in Shapes(a) \cap Seq(Steps),
           Ran(c) \cap Matters = Ran(k) \cap Matters, code' = [code EXCEPT ![a] = c]
    PROVE  /\ Shaped'
           /\ \A b \in Threads : Left(b)' = Left(b)
           /\ Ends(a) = {x} \cap Ending /\ Ends(a)' = Ran(c) \cap Ending
           /\ \A b \in Threads \ {a} : Ends(b)' = Ends(b)
<1>1. /\ Ran(Cons(x, k)) \cap Matters = Ran(k) \cap Matters
      /\ Ran(Cons(x, k)) \cap Ending = {x} \cap Ending
  BY PauseRan
<1>2. Left(a) = Ran(k) \cap Matters /\ Ends(a) = {x} \cap Ending
  BY <1>1 DEF Left, Ends, Plan
<1>3. /\ Shaped'
      /\ Left(a)' = Ran(c) \cap Matters
      /\ Ends(a)' = Ran(c) \cap Ending
      /\ \A b \in Threads \ {a} : Left(b)' = Left(b) /\ Ends(b)' = Ends(b)
  BY PlanFrame
<1> QED
  BY <1>2, <1>3

LEMMA PauseReturns ==
    ASSUME Shaped, NEW a \in Threads, NEW x \in PauseSteps, At(a, x), Then(a, <<>>)
    PROVE  /\ Shaped'
           /\ \A b \in Threads : Left(b)' = Left(b)
           /\ Ends(a) = {x} \cap Ending /\ Ends(a)' = {}
           /\ \A b \in Threads \ {a} : Ends(b)' = Ends(b)
<1>1. PICK k \in Conts(a) : code[a] = Cons(x, k)
  BY PauseAt
<1>2. k \in Shapes(a) \cap Seq(Steps) /\ Ran(k) \cap Ending = {} /\ x \in Steps
  BY PauseRan
<1>3. code' = [code EXCEPT ![a] = k]
  BY <1>1, <1>2, Goes
<1> QED
  BY <1>1, <1>2, <1>3, PauseMove

LEMMA PauseCalls ==
    ASSUME Shaped, NEW a \in Threads, NEW x \in PauseSteps, At(a, x),
           NEW y \in PauseSteps, Then(a, <<y>>)
    PROVE  /\ Shaped'
           /\ \A b \in Threads : Left(b)' = Left(b)
           /\ Ends(a) = {x} \cap Ending /\ Ends(a)' = {y} \cap Ending
           /\ \A b \in Threads \ {a} : Ends(b)' = Ends(b)
<1>1. PICK k \in Conts(a) : code[a] = Cons(x, k)
  BY PauseAt
<1>2. k \in Seq(Steps) /\ x \in Steps /\ y \in Steps
  BY PauseRan
<1>3. code' = [code EXCEPT ![a] = Cons(y, k)]
  BY <1>1, <1>2, Goes
<1>4. /\ Cons(y, k) \in Shapes(a) \cap Seq(Steps)
      /\ Ran(Cons(y, k)) \cap Matters = Ran(k) \cap Matters
      /\ Ran(Cons(y, k)) \cap Ending = {y} \cap Ending
  BY PauseRan
<1> DEFINE c == Cons(y, k)
<1>5. /\ c \in Shapes(a) \cap Seq(Steps) /\ code' = [code EXCEPT ![a] = c]
      /\ Ran(c) \cap Matters = Ran(k) \cap Matters
      /\ Ran(c) \cap Ending = {y} \cap Ending
  BY <1>3, <1>4
<1> HIDE DEF c
<1>6. /\ Shaped'
      /\ \A b \in Threads : Left(b)' = Left(b)
      /\ Ends(a) = {x} \cap Ending /\ Ends(a)' = Ran(c) \cap Ending
      /\ \A b \in Threads \ {a} : Ends(b)' = Ends(b)
  BY <1>1, <1>5, PauseMove, Zenon
<1> QED
  BY <1>5, <1>6

LEMMA PauseCancels ==
    ASSUME Shaped, NEW a \in Threads, NEW x \in PauseSteps, At(a, x),
           NEW y \in {"deactivate", "create timer"}, Then(a, <<"cancel timer", y>>)
    PROVE  /\ Shaped'
           /\ \A b \in Threads : Left(b)' = Left(b)
           /\ Ends(a) = {x} \cap Ending /\ Ends(a)' = {y}
           /\ \A b \in Threads \ {a} : Ends(b)' = Ends(b)
<1>1. PICK k \in Conts(a) : code[a] = Cons(x, k)
  BY PauseAt
<1>2. k \in Seq(Steps) /\ x \in Steps /\ y \in Steps /\ "cancel timer" \in Steps
  <2>1. y \in PauseSteps
    BY DEF PauseSteps
  <2> QED
    BY <2>1, PauseRan DEF Steps
<1> DEFINE c == Cons("cancel timer", Cons(y, k))
<1>3. code' = [code EXCEPT ![a] = c]
  <2>1. \A w, z \in Steps :
            Then(a, <<w, z>>) => code' = [code EXCEPT ![a] = Cons(w, Cons(z, k))]
    BY <1>1, <1>2, Goes
  <2>2. Then(a, <<"cancel timer", y>>) =>
            code' = [code EXCEPT ![a] = Cons("cancel timer", Cons(y, k))]
    BY <1>2, <2>1, Zenon
  <2> QED
    BY <2>2
<1>4. /\ c \in Shapes(a) \cap Seq(Steps)
      /\ Ran(c) \cap Matters = Ran(k) \cap Matters
      /\ Ran(c) \cap Ending = {y}
  BY CancelRan
<1> HIDE DEF c
<1>5. /\ Shaped'
      /\ \A b \in Threads : Left(b)' = Left(b)
      /\ Ends(a) = {x} \cap Ending /\ Ends(a)' = Ran(c) \cap Ending
      /\ \A b \in Threads \ {a} : Ends(b)' = Ends(b)
  BY <1>1, <1>3, <1>4, PauseMove, Zenon
<1> QED
  BY <1>4, <1>5

\* What pausing does to the rest of the invariant is that of the pause alone.
LEMMA SharedKeeps ==
    ASSUME Inv, Shaped', \A b \in Threads : Left(b)' = Left(b), Types', Paused',
           UNCHANGED <<internal, exitLock, disposed, syncing, overlap>>,
           cancelled' \cap Queues = cancelled \cap Queues
    PROVE  Inv'
<1>1. Core'
  BY CoreFrame DEF Inv
<1> QED
  BY <1>1 DEF Inv

LEMMA PauseKeeps ==
    ASSUME Inv, NEW a \in Threads, Pause(a), UNCHANGED calls
    PROVE  Inv'
<1>1. /\ Shaped /\ At(a, "pause") /\ "pause" \in PauseSteps
      /\ Then(a, <<>>) /\ "pause" \notin Ending
  BY DEF Inv, Pause, PauseSteps, Ending
<1>2. /\ Shaped' /\ \A b \in Threads : Left(b)' = Left(b)
      /\ Ends(a) = {} /\ \A b \in Threads \ {a} : Ends(b)' = Ends(b)
  BY <1>1, PauseReturns
<1>3. Types'
  BY DEF Pause, Inv, Types, list, control, threads, Reasons
<1>4. Paused'
  <2>1. CASE Running
    BY <2>1 DEF Pause, Paused
  <2>2. CASE ~Running
    <3>1. UNCHANGED <<paused, without, cancelled>>
      BY <2>2 DEF Pause, Inv, Types, threads
    <3> QED
      BY <1>2, <3>1, PausedFrame DEF Inv
  <2> QED
    BY <2>1, <2>2
<1> QED
  BY <1>2, <1>3, <1>4, SharedKeeps DEF Pause, control, threads

LEMMA UnpauseKeeps ==
    ASSUME Inv, NEW a \in Threads, Unpause(a), UNCHANGED calls
    PROVE  Inv'
<1>1. /\ Shaped /\ At(a, "unpause") /\ "unpause" \in PauseSteps
      /\ {"unpause"} \cap Ending = {"unpause"}
  BY DEF Inv, Unpause, PauseSteps, Ending
<1>2. /\ Shaped' /\ \A b \in Threads : Left(b)' = Left(b)
      /\ Ends(a) = {"unpause"}
      /\ Running /\ paused => Ends(a)' = {"deactivate"}
      /\ \A b \in Threads \ {a} : Ends(b)' = Ends(b)
  <2>1. CASE Running /\ paused
    <3>1. Then(a, <<"cancel timer", "deactivate">>)
      BY <2>1 DEF Unpause
    <3> QED
      BY <1>1, <3>1, PauseCancels
  <2>2. CASE ~(Running /\ paused)
    <3>1. Then(a, <<>>)
      BY <2>2 DEF Unpause
    <3> QED
      BY <1>1, <2>2, <3>1, PauseReturns
  <2> QED
    BY <2>1, <2>2
<1>3. Types'
  BY DEF Unpause, Inv, Types, list, control, threads, Reasons
<1>4. UNCHANGED <<paused, cancelled, internal>>
  BY DEF Unpause, control, threads
<1>5. Paused'
  <2>1. CASE Running /\ paused
    BY <1>2, <2>1 DEF Paused
  <2>2. CASE ~paused
    BY <1>4, <2>2 DEF Paused
  <2>3. CASE paused /\ ~Running /\ a \in Timers
    BY <2>3 DEF Unpause, Paused
  <2>4. CASE paused /\ ~Running /\ a \notin Timers
    <3>1. Timers \subseteq Threads \ {a}
      BY <2>4 DEF Threads
    <3>2. without' = without
      BY <2>4 DEF Unpause, Inv, Types
    <3>3. /\ \A t \in Timers : Ends(t)' = Ends(t)
          /\ \A b \in Threads : Ends(b) \cap {"deactivate", "create timer"} # {}
                                => Ends(b)' = Ends(b)
      BY <1>2, <3>1
    <3> QED
      BY <1>4, <3>2, <3>3 DEF Inv, Paused
  <2> QED
    BY <2>1, <2>2, <2>3, <2>4 DEF Inv, Types
<1> QED
  BY <1>2, <1>3, <1>5, SharedKeeps DEF Unpause, control, threads

LEMMA CancelTimerKeeps ==
    ASSUME Inv, NEW a \in Threads, CancelTimer(a), UNCHANGED calls
    PROVE  Inv'
<1>1. Shaped /\ At(a, "cancel timer") /\ Then(a, <<>>)
  BY DEF Inv, CancelTimer
<1>2. PICK k \in Conts(a), y \in {"deactivate", "create timer"} :
          code[a] = Cons("cancel timer", Cons(y, k))
  BY <1>1, PausesAt
<1> DEFINE c == Cons("cancel timer", Cons(y, k))  d == Cons(y, k)
<1>3. Ran(c) \cap Matters = Ran(k) \cap Matters /\ Ran(c) \cap Ending = {y}
  BY CancelRan
<1>4. y \in PauseSteps /\ y \in Ending /\ "cancel timer" \in Steps
  BY DEF PauseSteps, Ending, Steps
<1>5. /\ d \in Shapes(a) \cap Seq(Steps) /\ Ran(d) \cap Matters = Ran(k) \cap Matters
      /\ Ran(d) \cap Ending = {y}
  <2>1. k \in Seq(Steps) /\ Ran(k) \cap Ending = {}
    BY ContsFacts, ContRan
  <2>2. y \in Steps /\ y \notin Matters
    BY DEF Steps, Matters
  <2>3. d \in Seq(Steps) /\ Ran(d) = {y} \cup Ran(k)
    BY <2>1, <2>2, ConsFacts
  <2>4. d \in Shapes(a)
    BY <1>4, PausesShapes
  <2> QED
    BY <1>4, <2>1, <2>2, <2>3, <2>4
<1>6. code[a] = Cons("cancel timer", d)
  BY <1>2
<1> HIDE DEF c, d
<1>7. code' = [code EXCEPT ![a] = d]
  BY <1>1, <1>4, <1>5, <1>6, Goes
<1>8. /\ Shaped' /\ Left(a)' = Ran(d) \cap Matters /\ Ends(a)' = {y}
      /\ \A b \in Threads \ {a} : Left(b)' = Left(b)
  BY <1>1, <1>5, <1>7, PlanFrame
<1>9. Left(a) = Ran(k) \cap Matters
  BY <1>2, <1>3 DEF c, Left, Plan
<1>10. \A b \in Threads : Left(b)' = Left(b)
  BY <1>5, <1>8, <1>9
<1>11. Types'
  BY DEF CancelTimer, Inv, Types, list, control
<1>12. Paused'
  BY <1>8 DEF Paused
<1>13. cancelled' \cap Queues = cancelled \cap Queues
  BY MessageQueueAssumption DEF CancelTimer, Inv, Types
<1> QED
  BY <1>8, <1>10, <1>11, <1>12, <1>13, SharedKeeps DEF CancelTimer, control

LEMMA DeactivateKeeps ==
    ASSUME Inv, NEW a \in Threads, Deactivate(a), UNCHANGED calls
    PROVE  Inv'
<1>1. Shaped /\ At(a, "deactivate") /\ "deactivate" \in PauseSteps /\ "asleep" \in Steps
  BY DEF Inv, Deactivate, PauseSteps, Steps
<1>2. PICK k \in Conts(a) : code[a] = Cons("deactivate", k)
  BY <1>1, PauseAt
<1>3. /\ k \in Shapes(a) \cap Seq(Steps) /\ Tail(code[a]) = k
      /\ Ran(code[a]) \cap Matters = Ran(k) \cap Matters
  <2>1. /\ k \in Shapes(a) \cap Seq(Steps) /\ "deactivate" \in Steps
        /\ Ran(Cons("deactivate", k)) \cap Matters = Ran(k) \cap Matters
    BY <1>1, PauseRan
  <2> QED
    BY <1>2, <2>1, ConsFacts
<1>4. \A b \in Threads \ {a} : At(b, "asleep") => b \in Queues
  BY <1>1, UserAt, TimerAt DEF Threads
<1>5. ASSUME NEW b \in Threads \ {a}, At(b, "asleep")
      PROVE  /\ Tail(code[b]) = Last("input")
             /\ Ran(code[b]) \cap Matters = Ran(Last("input")) \cap Matters
             /\ Last("input") \in Shapes(b) \cap Seq(Steps)
  <2>1. b \in Queues /\ code[b] = Cons("asleep", Last("input"))
    BY <1>1, <1>4, <1>5, QueueAt
  <2>2. /\ Last("input") \in Shapes(b) \cap Seq(Steps)
        /\ Ran(Last("input")) = {"input"} /\ Ran(code[b]) = {"asleep", "input"}
    BY <2>1, QueueShapes, QueueRan
  <2>3. "asleep" \notin Matters
    BY DEF Matters
  <2>4. Tail(Cons("asleep", Last("input"))) = Last("input")
    BY <1>1, <2>2, ConsFacts
  <2> QED
    BY <2>1, <2>2, <2>3, <2>4
<1>6. \A b \in Threads : /\ code'[b] \in Shapes(b) \cap Seq(Steps)
                         /\ Ran(code'[b]) \cap Matters = Ran(code[b]) \cap Matters
  <2>1. code'[a] = k
    BY <1>3 DEF Deactivate, Wakes
  <2>2. ASSUME NEW b \in Threads \ {a}, At(b, "asleep")
        PROVE  code'[b] = Last("input")
    BY <1>5, <2>2 DEF Deactivate, Wakes
  <2>3. ASSUME NEW b \in Threads \ {a}, ~At(b, "asleep")
        PROVE  code'[b] = code[b] /\ code[b] \in Shapes(b) \cap Seq(Steps)
    BY <1>1, <2>3 DEF Deactivate, Wakes, Shaped
  <2> QED
    BY <1>3, <1>5, <2>1, <2>2, <2>3
<1>7. Shaped' /\ \A b \in Threads : Left(b)' = Left(b)
  <2>1. code' = [b \in Threads |-> code'[b]]
    BY DEF Deactivate, Wakes
  <2>2. \A b \in Threads : Left(b)' = Left(b)
    BY <1>6 DEF Left, Plan
  <2>3. code' \in [Threads -> Seq(Steps)] /\ \A b \in Threads : code'[b] \in Shapes(b)
    BY <1>6, <2>1
  <2> QED
    BY <2>2, <2>3 DEF Shaped
<1>8. Types'
  BY DEF Deactivate, Inv, Types, list, control, threads
<1>9. Paused'
  BY DEF Deactivate, Paused
<1> QED
  BY <1>7, <1>8, <1>9, SharedKeeps DEF Deactivate, control, threads

\* The steps that only call others.
LEMMA CallKeeps ==
    ASSUME Inv, NEW a \in Threads, NEW x \in {"timed", "check", "uncheck"}, At(a, x),
           NEW s, Then(a, s),
           \/ s = <<>>
           \/ s = <<"cancel timer", "create timer">>
           \/ \E y \in {"unpause", "timed", "pause"} : s = <<y>>,
           UNCHANGED <<calls, list, control, threads, pausing, syncing, overlap>>
    PROVE  Inv'
<1>1. Shaped /\ x \in PauseSteps /\ {x} \cap Ending = {}
  BY DEF Inv, PauseSteps, Ending
<1>2. /\ Shaped' /\ \A b \in Threads : Left(b)' = Left(b)
      /\ Ends(a) = {} /\ \A b \in Threads \ {a} : Ends(b)' = Ends(b)
  <2>1. CASE s = <<>>
    BY <1>1, <2>1, PauseReturns
  <2>2. CASE s = <<"cancel timer", "create timer">>
    <3>1. Then(a, <<"cancel timer", "create timer">>)
      BY <2>2
    <3>2. "create timer" \in {"deactivate", "create timer"}
      OBVIOUS
    <3>3. /\ Shaped' /\ \A b \in Threads : Left(b)' = Left(b)
          /\ Ends(a) = {x} \cap Ending
          /\ \A b \in Threads \ {a} : Ends(b)' = Ends(b)
      BY <1>1, <3>1, <3>2, PauseCancels
    <3> QED
      BY <1>1, <3>3
  <2>3. ASSUME NEW y \in {"unpause", "timed", "pause"}, s = <<y>>
        PROVE  /\ Shaped' /\ \A b \in Threads : Left(b)' = Left(b)
               /\ Ends(a) = {} /\ \A b \in Threads \ {a} : Ends(b)' = Ends(b)
    <3>1. y \in PauseSteps /\ Then(a, <<y>>)
      BY <2>3 DEF PauseSteps
    <3>2. /\ Shaped' /\ \A b \in Threads : Left(b)' = Left(b)
          /\ Ends(a) = {x} \cap Ending
          /\ \A b \in Threads \ {a} : Ends(b)' = Ends(b)
      BY <1>1, <3>1, PauseCalls
    <3> QED
      BY <1>1, <3>2
  <2> QED
    BY <2>1, <2>2, <2>3
<1>3. Types'
  BY DEF Inv, Types, list, control, threads, pausing
<1>4. Paused'
  BY <1>2, PausedFrame DEF Inv, threads, pausing
<1> QED
  BY <1>2, <1>3, <1>4, SharedKeeps DEF control, threads

LEMMA CallsKeep ==
    ASSUME Inv, NEW a \in Threads, TimedPause(a) \/ Check(a) \/ Uncheck(a), UNCHANGED calls
    PROVE  Inv'
<1>1. CASE TimedPause(a)
  <2>1. Then(a, <<"cancel timer", "create timer">>) \/ Then(a, <<>>)
    BY <1>1 DEF TimedPause
  <2> QED
    BY <1>1, <2>1, CallKeeps DEF TimedPause
<1>2. CASE Check(a)
  <2>1. \E y \in {"unpause", "timed", "pause"} : Then(a, <<y>>) \/ Then(a, <<>>)
    BY <1>2 DEF Check
  <2> QED
    BY <1>2, <2>1, CallKeeps DEF Check
<1>3. CASE Uncheck(a)
  <2>1. Then(a, <<"unpause">>) \/ Then(a, <<>>)
    BY <1>3 DEF Uncheck
  <2> QED
    BY <1>3, <2>1, CallKeeps DEF Uncheck
<1> QED
  BY <1>1, <1>2, <1>3

\* A thread to start has nothing left to do.
LEMMA UnusedFacts ==
    ASSUME NEW S, NEW x \in Unused(S)
    PROVE  x \in S /\ code[x] = <<>>
BY DEF Unused

LEMMA CreateTimerKeeps ==
    ASSUME Inv, NEW a \in Threads, CreateTimer(a), UNCHANGED calls
    PROVE  Inv'
<1>1. Shaped /\ At(a, "create timer") /\ "create timer" \in PauseSteps
  BY DEF Inv, CreateTimer, PauseSteps
<1>2. PICK p \in Unused(Timers) :
          /\ code' = [code EXCEPT ![a] = Tail(@), ![p] = <<"begin pause">>]
          /\ current' = p
  BY DEF CreateTimer
<1>3. p \in Timers /\ code[p] = <<>> /\ p \in Threads /\ p # a
  BY <1>1, <1>2, UnusedFacts DEF At, Threads
<1>4. PICK k \in Conts(a) : code[a] = Cons("create timer", k)
  BY <1>1, PauseAt
<1>5. /\ k \in Shapes(a) \cap Seq(Steps) /\ "create timer" \in Steps
      /\ Ran(Cons("create timer", k)) \cap Matters = Ran(k) \cap Matters
  <2>1. \A x \in PauseSteps : /\ k \in Shapes(a) \cap Seq(Steps) /\ x \in Steps
                              /\ Ran(Cons(x, k)) \cap Matters = Ran(k) \cap Matters
    BY PauseRan
  <2> QED
    BY <1>1, <2>1, Zenon
<1>6. Tail(code[a]) = k /\ Left(a) = Ran(k) \cap Matters
  BY <1>4, <1>5, ConsFacts DEF Left, Plan
<1>7. /\ <<"begin pause">> = Last("begin pause")
      /\ Last("begin pause") \in Shapes(p) \cap Seq(Steps)
      /\ Ran(Last("begin pause")) = {"begin pause"} /\ Left(p) = {}
  <2>1. "begin pause" \in Steps
    BY DEF Steps
  <2>2. /\ <<"begin pause">> = Last("begin pause")
        /\ Ran(Last("begin pause")) = {"begin pause"}
    BY <2>1, LastFacts
  <2>3. Last("begin pause") \in Shapes(p) \cap Seq(Steps)
    BY <1>3, TimerShapes
  <2>4. Left(p) = {}
    BY <1>3, NilFacts DEF Left, Plan
  <2> QED
    BY <2>2, <2>3, <2>4
<1>8. /\ code'[a] = k /\ code'[p] = Last("begin pause")
      /\ \A b \in Threads \ {a, p} : code'[b] = code[b]
      /\ code' \in [Threads -> Seq(Steps)]
  BY <1>1, <1>2, <1>3, <1>5, <1>6, <1>7 DEF Shaped
<1>9. Shaped'
  BY <1>1, <1>5, <1>7, <1>8 DEF Shaped
<1>10. /\ Left(a)' = Left(a)
       /\ \A b \in Threads \ {a, p} : Left(b)' = Left(b)
  BY <1>6, <1>8 DEF Left, Plan
<1>11. Left(p)' = {} /\ Ends(p)' = {"begin pause"}
  <2>1. "begin pause" \in Ending /\ "begin pause" \notin Matters
    BY DEF Ending, Matters
  <2> QED
    BY <1>7, <1>8, <2>1 DEF Left, Ends, Plan
<1>12. \A b \in Threads : Left(b)' = Left(b)
  BY <1>7, <1>10, <1>11
<1>13. Types'
  BY <1>2, <1>3 DEF CreateTimer, Inv, Types, list, control, threads
<1>14. Paused'
  BY <1>3, <1>11 DEF Paused
<1> QED
  BY <1>9, <1>12, <1>13, <1>14, SharedKeeps DEF CreateTimer, control, threads

LEMMA TimerFailsKeeps ==
    ASSUME Inv, NEW a \in Threads, TimerFails(a), UNCHANGED calls
    PROVE  Inv'
<1>1. /\ Shaped /\ At(a, "create timer") /\ "create timer" \in PauseSteps
      /\ Then(a, <<>>)
  BY DEF Inv, TimerFails, PauseSteps
<1>2. /\ Shaped' /\ \A b \in Threads : Left(b)' = Left(b)
      /\ \A b \in Threads \ {a} : Ends(b)' = Ends(b)
  BY <1>1, PauseReturns
<1>3. Types'
  BY UnusedFacts DEF TimerFails, Inv, Types, list, control, threads, Reasons
<1>4. Paused'
  BY DEF TimerFails, Paused
<1> QED
  BY <1>2, <1>3, <1>4, SharedKeeps DEF TimerFails, control, threads

-----------------------------------------------------------------------------
(* The threads that end a pause. *)

LEMMA TimerRan ==
    /\ \A x \in {"begin pause", "sleep", "end timer"} : x \in Steps /\ Ran(Last(x)) = {x}
    /\ Ran(Cons("unpause", Last("end timer"))) = {"unpause", "end timer"}
    /\ "unpause" \in Steps
<1>1. {"begin pause", "sleep", "end timer", "unpause"} \subseteq Steps
  BY DEF Steps
<1> QED
  BY <1>1, Lasts, Pairs

\* What they do concerns the pause only.
LEMMA TimerStep ==
    ASSUME Inv, NEW p \in Timers,
           code[p] \in {Last("begin pause"), Last("sleep"), Last("end timer")},
           NEW k \in {<<>>, Last("sleep"), Last("end timer"),
                      Cons("unpause", Last("end timer"))},
           code' = [code EXCEPT ![p] = k]
    PROVE  /\ Shaped' /\ \A b \in Threads : Left(b)' = Left(b)
           /\ Ends(p)' = Ran(k) \cap Ending
           /\ \A b \in Threads \ {p} : Ends(b)' = Ends(b)
<1>1. p \in Threads /\ k \in Shapes(p) \cap Seq(Steps)
  BY TimerShapes
<1>2. {"begin pause", "sleep", "end timer", "unpause"} \cap Matters = {}
  BY DEF Matters
<1>3. Ran(code[p]) \subseteq {"begin pause", "sleep", "end timer"}
  BY TimerRan
<1>4. Ran(k) \subseteq {"sleep", "end timer", "unpause"}
  BY TimerRan, NilFacts
<1>5. Ran(code[p]) \cap Matters = {} /\ Ran(k) \cap Matters = {}
  BY <1>2, <1>3, <1>4
<1>6. /\ Shaped' /\ Left(p)' = Ran(k) \cap Matters /\ Ends(p)' = Ran(k) \cap Ending
      /\ \A b \in Threads \ {p} : Left(b)' = Left(b) /\ Ends(b)' = Ends(b)
  BY <1>1, PlanFrame DEF Inv
<1> QED
  BY <1>5, <1>6 DEF Left, Plan

LEMMA BeginPauseKeeps ==
    ASSUME Inv, NEW p \in Timers, BeginPause(p), UNCHANGED calls
    PROVE  Inv'
<1>1. p \in Threads /\ Shaped /\ code[p] = Last("begin pause")
  BY TimerShapes, TimerAt DEF Inv, BeginPause
<1>2. code' = [code EXCEPT ![p] = IF Running THEN Last("sleep") ELSE Last("end timer")]
  BY <1>1, TimerRan, GoesLast DEF BeginPause
<1>3. /\ Shaped' /\ \A b \in Threads : Left(b)' = Left(b)
      /\ Running => Ends(p)' = {"sleep"} \cap Ending
  <2>1. CASE Running
    BY <1>1, <1>2, <2>1, TimerStep, TimerRan
  <2>2. CASE ~Running
    BY <1>1, <1>2, <2>2, TimerStep
  <2> QED
    BY <2>1, <2>2
<1>4. Types'
  BY DEF BeginPause, Inv, Types, list, control, threads, Reasons
<1>5. Paused'
  <2>1. CASE Running
    BY <1>3, <2>1 DEF BeginPause, Paused, Ending, threads
  <2>2. CASE ~Running
    BY <2>2 DEF BeginPause, Paused, Inv, Types
  <2> QED
    BY <2>1, <2>2
<1> QED
  BY <1>3, <1>4, <1>5, SharedKeeps DEF BeginPause, control, threads

LEMMA SleepKeeps ==
    ASSUME Inv, NEW p \in Timers, Sleep(p), UNCHANGED calls
    PROVE  Inv'
<1>1. p \in Threads /\ Shaped /\ code[p] = Last("sleep")
  BY TimerShapes, TimerAt DEF Inv, Sleep
<1>2. code' = [code EXCEPT ![p] = IF p \in cancelled THEN <<>>
                                  ELSE Cons("unpause", Last("end timer"))]
  <2>1. /\ Then(p, <<>>) => code' = [code EXCEPT ![p] = <<>>]
        /\ Then(p, <<"unpause", "end timer">>) =>
              code' = [code EXCEPT ![p] = Cons("unpause", Last("end timer"))]
    <3>1. "sleep" \in Steps /\ "unpause" \in Steps /\ "end timer" \in Steps
      BY TimerRan
    <3> QED
      BY <1>1, <3>1, GoesLast
  <2> QED
    BY <2>1 DEF Sleep
<1>3. /\ Shaped' /\ \A b \in Threads : Left(b)' = Left(b)
      /\ p \notin cancelled => "unpause" \in Ends(p)'
      /\ \A b \in Threads \ {p} : Ends(b)' = Ends(b)
  <2>1. CASE p \in cancelled
    BY <1>1, <1>2, <2>1, TimerStep
  <2>2. CASE p \notin cancelled
    <3>1. "unpause" \in Ran(Cons("unpause", Last("end timer"))) \cap Ending
      BY TimerRan DEF Ending
    <3> QED
      BY <1>1, <1>2, <2>2, <3>1, TimerStep
  <2> QED
    BY <2>1, <2>2
<1>4. Types'
  BY DEF Sleep, Inv, Types, list, control, pausing
<1>5. Ends(p) \subseteq {"sleep"}
  BY <1>1, TimerRan DEF Ends, Plan
<1>6. Paused'
  <2>1. CASE p \notin cancelled
    BY <1>3, <2>1 DEF Paused
  <2>2. CASE p \in cancelled
    <3>1. UNCHANGED <<paused, without>> /\ cancelled' = cancelled \ {p}
      BY DEF Sleep, pausing
    <3>2. \A b \in Threads : Ends(b) \cap {"deactivate", "create timer"} # {}
                              => Ends(b)' = Ends(b)
      BY <1>3, <1>5
    <3>3. \A t \in Timers : t # p => Ends(t)' = Ends(t)
      BY <1>3 DEF Threads
    <3>4. Ends(p) \cap {"begin pause", "unpause"} = {}
      BY <1>5
    <3> QED
      BY <2>2, <3>1, <3>2, <3>3, <3>4 DEF Inv, Paused
  <2> QED
    BY <2>1, <2>2
<1>7. cancelled' \cap Queues = cancelled \cap Queues
  BY MessageQueueAssumption DEF Sleep
<1> QED
  BY <1>3, <1>4, <1>6, <1>7, SharedKeeps DEF Sleep, control

LEMMA EndTimerKeeps ==
    ASSUME Inv, NEW p \in Timers, EndTimer(p), UNCHANGED calls
    PROVE  Inv'
<1>1. p \in Threads /\ Shaped /\ code[p] = Last("end timer")
  BY TimerShapes, TimerAt DEF Inv, EndTimer
<1>2. code' = [code EXCEPT ![p] = <<>>]
  BY <1>1, TimerRan, GoesLast DEF EndTimer
<1>3. /\ Shaped' /\ \A b \in Threads : Left(b)' = Left(b)
      /\ \A b \in Threads \ {p} : Ends(b)' = Ends(b)
  BY <1>1, <1>2, TimerStep
<1>4. Types'
  BY DEF EndTimer, Inv, Types, list, control
<1>5. Ends(p) = {}
  BY <1>1, TimerRan DEF Ends, Plan, Ending
<1>6. Paused'
  <2>1. UNCHANGED <<paused, without>> /\ cancelled' = cancelled \ {p}
    BY DEF EndTimer
  <2>2. \A b \in Threads : Ends(b) \cap {"deactivate", "create timer"} # {}
                           => Ends(b)' = Ends(b)
    BY <1>3, <1>5
  <2>3. \A t \in Timers : t # p => Ends(t)' = Ends(t)
    BY <1>3 DEF Threads
  <2> QED
    BY <1>5, <2>1, <2>2, <2>3 DEF Inv, Paused
<1>7. cancelled' \cap Queues = cancelled \cap Queues
  BY MessageQueueAssumption DEF EndTimer
<1> QED
  BY <1>3, <1>4, <1>6, <1>7, SharedKeeps DEF EndTimer, control

-----------------------------------------------------------------------------
(* The user's thread. *)

LEMMA UserRan ==
    /\ \A x \in {"sync", "sync asleep", "sync lost", "stop", "end sync", "crashed", "unlock",
                  "sync wait", "pause", "unpause", "timed"} : x \in Steps /\ Ran(Last(x)) = {x}
    /\ \A x \in {"check", "uncheck"} :
          x \in Steps /\ Ran(Cons(x, Last("unlock"))) = {x, "unlock"}
    /\ Ran(Cons("unpause", Last("sync wait"))) = {"unpause", "sync wait"}
    /\ Ran(Cons("join", Last("end sync"))) = {"join", "end sync"}
    /\ Ran(Cons("unpause", Stopping)) = {"unpause", "kill", "join", "end sync"}
    /\ Ran(Cons("unpause", Removed)) = {"unpause", "forget", "end sync"}
    /\ Ran(Stopping) = {"kill", "join", "end sync"}
    /\ Ran(Removed) = {"forget", "end sync"}
    /\ Ran(<<>>) = {}
<1>1. /\ {"sync", "sync asleep", "sync lost", "stop", "end sync", "crashed"} \subseteq Steps
      /\ {"unlock", "sync wait", "pause", "unpause", "timed", "check"} \subseteq Steps
      /\ {"uncheck", "join"} \subseteq Steps
  BY DEF Steps
<1>2. /\ Ran(Cons("unpause", Stopping)) = {"unpause"} \cup Ran(Stopping)
      /\ Ran(Cons("unpause", Removed)) = {"unpause"} \cup Ran(Removed)
  BY <1>1, StoppingFacts, Conses
<1>3. /\ Ran(Cons("unpause", Stopping)) = {"unpause", "kill", "join", "end sync"}
      /\ Ran(Cons("unpause", Removed)) = {"unpause", "forget", "end sync"}
  BY <1>2, StoppingFacts
<1>4. /\ \A x \in {"check", "uncheck"} : Ran(Cons(x, Last("unlock"))) = {x, "unlock"}
      /\ Ran(Cons("unpause", Last("sync wait"))) = {"unpause", "sync wait"}
  BY <1>1, Pairs
<1>5. \A x \in {"sync", "sync asleep", "sync lost", "stop", "end sync", "crashed", "unlock",
                "sync wait", "pause", "unpause", "timed"} : x \in Steps /\ Ran(Last(x)) = {x}
  BY <1>1, Lasts
<1>6. "check" \in Steps /\ "uncheck" \in Steps /\ "unpause" \in Steps
  BY <1>1
<1>7. Ran(Cons("join", Last("end sync"))) = {"join", "end sync"}
  BY StoppingFacts
<1>8. /\ Ran(Stopping) = {"kill", "join", "end sync"}
      /\ Ran(Removed) = {"forget", "end sync"}
      /\ Ran(<<>>) = {}
  BY StoppingFacts, NilFacts
<1> QED
  BY <1>3, <1>4, <1>5, <1>6, <1>7, <1>8

\* Where its code goes, what is left of it, and that the others stay.
LEMMA UserMove ==
    ASSUME Inv, NEW k \in Shapes(User) \cap Seq(Steps), code' = [code EXCEPT ![User] = k]
    PROVE  /\ Shaped' /\ Left(User)' = Ran(k) \cap Matters /\ Ends(User)' = Ran(k) \cap Ending
           /\ \A b \in Queues \cup Timers : Left(b)' = Left(b) /\ Ends(b)' = Ends(b)
           /\ \A q \in Queues : (Works(q)' <=> Works(q)) /\ (Watches(q)' <=> Watches(q))
<1>1. User \in Threads /\ Queues \cup Timers \subseteq Threads \ {User}
  BY MessageQueueAssumption DEF Threads
<1>2. /\ Shaped' /\ Left(User)' = Ran(k) \cap Matters /\ Ends(User)' = Ran(k) \cap Ending
      /\ \A b \in Threads \ {User} : Left(b)' = Left(b) /\ Ends(b)' = Ends(b)
  BY <1>1, PlanFrame DEF Inv
<1>3. \A q \in Queues : Left(q)' = Left(q)
  BY <1>1, <1>2
<1>4. \A q \in Queues : (Works(q)' <=> Works(q)) /\ (Watches(q)' <=> Watches(q))
  BY <1>3 DEF Works, Watches
<1> QED
  BY <1>1, <1>2, <1>4

\* While it does not end a pause, what it does next cannot prolong one.
LEMMA UserPaused ==
    ASSUME Inv, Ends(User) = {},
           \A b \in Queues \cup Timers : Ends(b)' = Ends(b),
           UNCHANGED <<paused, without>>, cancelled' \cap Timers = cancelled \cap Timers
    PROVE  Paused'
<1>1. \A a \in Threads : Ends(a) \subseteq Ends(a)'
  BY DEF Threads
<1> QED
  BY <1>1, PausedFrame DEF Inv

\* Everything it does that has nothing to do with whose the queue is.
LEMMA UserStep ==
    ASSUME Inv, NEW k \in Shapes(User) \cap Seq(Steps), code' = [code EXCEPT ![User] = k],
           Ran(code[User]) \cap (Matters \ {"sync asleep"}) = {},
           Ran(k) \cap (Matters \ {"sync asleep"}) = {},
           "sync asleep" \in Ran(k) => syncing,
           Ran(code[User]) \cap Ending = {},
           UNCHANGED <<internal, exitLock, disposed, cancelled, syncing, overlap,
                       paused, without>>,
           Types'
    PROVE  Inv'
<1>1. /\ Shaped' /\ Left(User)' = Ran(k) \cap Matters
      /\ \A b \in Queues \cup Timers : Left(b)' = Left(b) /\ Ends(b)' = Ends(b)
      /\ \A q \in Queues : (Works(q)' <=> Works(q)) /\ (Watches(q)' <=> Watches(q))
  BY UserMove
<1>2. Left(User) \subseteq {"sync asleep"} /\ Ends(User) = {}
  BY DEF Left, Ends, Plan
<1>3. Left(User)' \subseteq {"sync asleep"}
  BY <1>1
<1>4. Locks'
  BY <1>1, <1>2, <1>3 DEF Inv, Core, Locks
<1>5. Disposals'
  <2>1. "join" \notin Left(User) /\ "join" \notin Left(User)'
    BY <1>2, <1>3
  <2> QED
    BY <1>1, <2>1 DEF Inv, Core, Disposals
<1>6. Known'
  BY <1>1, <1>2, <1>3 DEF Inv, Core, Known
<1>7. Watched'
  <2>1. "sync asleep" \in Left(User)' => syncing
    BY <1>1
  <2>2. syncing => \E q \in Queues : Watches(q)
    BY <1>2 DEF Inv, Core, Watched
  <2> QED
    BY <1>1, <1>3, <2>1, <2>2 DEF Inv, Core, Watched
<1>8. Paused'
  BY <1>1, <1>2, UserPaused
<1> QED
  BY <1>1, <1>4, <1>5, <1>6, <1>7, <1>8 DEF Inv, Core

LEMMA CallsGo ==
    ASSUME NEW x \in Steps, NEW y \in Steps
    PROVE  /\ Calls(<<x>>) => code[User] = <<>> /\ code' = [code EXCEPT ![User] = Last(x)]
           /\ Calls(<<x, y>>) =>
                 code[User] = <<>> /\ code' = [code EXCEPT ![User] = Cons(x, Last(y))]
BY LastFacts, Longer DEF Calls

LEMMA CallKeepsInv ==
    ASSUME Inv, Call, calls' \in 0..MaxCalls
    PROVE  Inv'
<1>1. PICK x \in {"pause", "unpause", "timed", "sync", "stop"} : Calls(<<x>>)
  BY DEF Call
<1>2. code[User] = <<>> /\ code' = [code EXCEPT ![User] = Last(x)]
  BY <1>1, UserRan, CallsGo
<1>3. Last(x) \in Shapes(User) \cap Seq(Steps) /\ Ran(Last(x)) = {x} /\ Ran(code[User]) = {}
  BY <1>2, UserShapes, UserRan
<1>4. x \notin Matters /\ x # "sync asleep"
  BY DEF Matters
<1>5. Types'
  BY DEF Call, Inv, Types, list, control, threads, pausing
<1> QED
  BY <1>2, <1>3, <1>4, <1>5, UserStep DEF Call, control, threads, pausing

LEMMA RemoveMessagesKeeps ==
    ASSUME Inv, RemoveMessages, calls' \in 0..MaxCalls
    PROVE  Inv'
<1>1. code[User] = <<>> /\ code' = [code EXCEPT ![User] = Cons("uncheck", Last("unlock"))]
  BY UserRan, CallsGo DEF RemoveMessages
<1>2. /\ Cons("uncheck", Last("unlock")) \in Shapes(User) \cap Seq(Steps)
      /\ Ran(Cons("uncheck", Last("unlock"))) = {"uncheck", "unlock"} /\ Ran(code[User]) = {}
  BY <1>1, UserShapes, UserRan
<1>3. {"uncheck", "unlock"} \cap Matters = {}
  BY DEF Matters
<1>4. Types'
  <2>1. size' \in 0..size
    BY DEF RemoveMessages
  <2> QED
    BY <2>1, MessageQueueAssumption DEF RemoveMessages, Inv, Types, control, threads, pausing
<1> QED
  BY <1>1, <1>2, <1>3, <1>4, UserStep DEF RemoveMessages, control, threads, pausing

LEMMA SetLimitKeeps ==
    ASSUME Inv, NEW l \in Limits, SetLimit(l), calls' \in 0..MaxCalls
    PROVE  Inv'
<1>1. code[User] = <<>> /\ code' = [code EXCEPT ![User] = Cons("check", Last("unlock"))]
  BY UserRan, CallsGo DEF SetLimit
<1>2. /\ Cons("check", Last("unlock")) \in Shapes(User) \cap Seq(Steps)
      /\ Ran(Cons("check", Last("unlock"))) = {"check", "unlock"} /\ Ran(code[User]) = {}
  BY <1>1, UserShapes, UserRan
<1>3. {"check", "unlock"} \cap Matters = {}
  BY DEF Matters
<1>4. Types'
  <2>1. size' \in 0..(IF limit' = 0 THEN MaxSize ELSE limit')
    BY MessageQueueAssumption DEF SetLimit, Inv, Types
  <2> QED
    BY <2>1 DEF SetLimit, Inv, Types, control, threads, pausing
<1> QED
  BY <1>1, <1>2, <1>3, <1>4, UserStep DEF SetLimit, control, threads, pausing

LEMMA UserUnlockKeeps ==
    ASSUME Inv, Unlock(User), UNCHANGED calls
    PROVE  Inv'
<1>1. User \in Threads /\ Shaped /\ code[User] = Last("unlock")
  BY UserShapes, UserAt DEF Inv, Unlock
<1>2. code' = [code EXCEPT ![User] = <<>>]
  BY <1>1, UserRan, GoesLast DEF Unlock
<1>3. <<>> \in Shapes(User) \cap Seq(Steps) /\ Ran(<<>>) = {} /\ Ran(code[User]) = {"unlock"}
  BY <1>1, UserShapes, UserRan
<1>4. "unlock" \notin Matters \cup Ending
  BY DEF Matters, Ending
<1>5. Types'
  BY DEF Unlock, Inv, Types, control, threads, pausing
<1> QED
  BY <1>2, <1>3, <1>4, <1>5, UserStep DEF Unlock, control, threads, pausing

LEMMA SyncKeeps ==
    ASSUME Inv, Sync, UNCHANGED calls
    PROVE  Inv'
<1>1. User \in Threads /\ Shaped /\ code[User] = Last("sync")
  BY UserShapes, UserAt DEF Inv, Sync
<1>2. PICK k \in {<<>>, Cons("unpause", Last("sync wait"))} : code' = [code EXCEPT ![User] = k]
  <2>1. "sync" \in Steps /\ "unpause" \in Steps /\ "sync wait" \in Steps
    BY UserRan
  <2>2. /\ Then(User, <<>>) => code' = [code EXCEPT ![User] = <<>>]
        /\ Then(User, <<"unpause", "sync wait">>) =>
              code' = [code EXCEPT ![User] = Cons("unpause", Last("sync wait"))]
    BY <1>1, <2>1, GoesLast
  <2> QED
    BY <2>2 DEF Sync
<1>3. k \in Shapes(User) \cap Seq(Steps) /\ Ran(k) \subseteq {"unpause", "sync wait"}
  BY UserShapes, UserRan
<1>4. {"unpause", "sync wait"} \cap Matters = {} /\ Ran(code[User]) = {"sync"}
  BY <1>1, UserRan DEF Matters
<1>5. "sync" \notin Matters \cup Ending
  BY DEF Matters, Ending
<1>6. Types'
  BY DEF Sync, Inv, Types, list, control, threads, pausing
<1> QED
  BY <1>2, <1>3, <1>4, <1>5, <1>6, UserStep DEF Sync, control, threads, pausing

LEMMA SyncWaitKeeps ==
    ASSUME Inv, SyncWait, UNCHANGED calls
    PROVE  Inv'
<1>1. User \in Threads /\ Shaped /\ code[User] = Last("sync wait")
  BY UserShapes, UserAt DEF Inv, SyncWait
<1>2. PICK k \in {<<>>, Last("sync asleep"), Last("sync lost")} :
          code' = [code EXCEPT ![User] = k] /\ (k = Last("sync asleep") => syncing)
  <2>1. /\ Then(User, <<>>) => code' = [code EXCEPT ![User] = <<>>]
        /\ Then(User, <<"sync asleep">>) => code' = [code EXCEPT ![User] = Last("sync asleep")]
        /\ Then(User, <<"sync lost">>) => code' = [code EXCEPT ![User] = Last("sync lost")]
    BY <1>1, UserRan, GoesLast
  <2>2. Last("sync asleep") # <<>> /\ Last("sync asleep") # Last("sync lost")
    BY Words, Lasts
  <2> QED
    BY <2>1, <2>2 DEF SyncWait
<1>3. /\ k \in Shapes(User) \cap Seq(Steps) /\ Ran(k) \subseteq {"sync asleep", "sync lost"}
      /\ "sync asleep" \in Ran(k) => syncing
  <2>1. \A x \in {"sync asleep", "sync lost"} :
            Last(x) \in Shapes(User) \cap Seq(Steps) /\ Ran(Last(x)) = {x}
    BY UserShapes, UserRan
  <2>2. <<>> \in Shapes(User) \cap Seq(Steps) /\ Ran(<<>>) = {}
    BY UserShapes, UserRan
  <2>3. CASE k = <<>>
    BY <2>2, <2>3
  <2>4. CASE k = Last("sync asleep")
    BY <1>2, <2>1, <2>4
  <2>5. CASE k = Last("sync lost")
    BY <2>1, <2>5
  <2> QED
    BY <1>2, <2>3, <2>4, <2>5
<1>4. "sync lost" \notin Matters /\ Ran(code[User]) = {"sync wait"}
  BY <1>1, UserRan DEF Matters
<1>5. "sync wait" \notin Matters \cup Ending
  BY DEF Matters, Ending
<1>6. Types'
  BY DEF SyncWait, Inv, Types, list, control, threads, pausing
<1> QED
  BY <1>2, <1>3, <1>4, <1>5, <1>6, UserStep DEF SyncWait, control, threads, pausing

LEMMA UserWakeupKeeps ==
    ASSUME Inv, SpuriousWakeup(User), UNCHANGED calls
    PROVE  Inv'
<1>1. User \in Threads /\ Shaped
  BY UserShapes DEF Inv
<1>2. PICK x \in {"sync asleep", "sync lost"} : code[User] = Last(x)
  BY <1>1, UserAt DEF SpuriousWakeup
<1>3. code' = [code EXCEPT ![User] = <<>>]
  BY <1>1, <1>2, UserRan, GoesLast DEF SpuriousWakeup
<1>4. /\ <<>> \in Shapes(User) \cap Seq(Steps) /\ Ran(<<>>) = {}
      /\ Ran(code[User]) \subseteq {"sync asleep", "sync lost"}
  <2>1. Ran(Last(x)) = {x} /\ Ran(<<>>) = {}
    BY UserRan
  <2>2. <<>> \in Shapes(User) \cap Seq(Steps)
    BY UserShapes
  <2> QED
    BY <1>2, <2>1, <2>2
<1>5. "sync lost" \notin Matters \cup Ending /\ "sync asleep" \notin Ending
  BY DEF Matters, Ending
<1>6. Types'
  BY DEF SpuriousWakeup, Inv, Types, list, control, threads, pausing
<1> QED
  BY <1>3, <1>4, <1>5, <1>6, UserStep DEF SpuriousWakeup, control, threads, pausing

LEMMA StopKeeps ==
    ASSUME Inv, Stop, UNCHANGED calls
    PROVE  Inv'
<1>1. User \in Threads /\ Shaped /\ code[User] = Last("stop")
  BY UserShapes, UserAt DEF Inv, Stop
<1>2. Left(User) = {} /\ Ends(User) = {}
  <2>1. Ran(code[User]) = {"stop"}
    BY <1>1, UserRan
  <2>2. "stop" \notin Matters \cup Ending
    BY DEF Matters, Ending
  <2> QED
    BY <2>1, <2>2 DEF Left, Ends, Plan
<1>3. code' = [code EXCEPT ![User] = IF exitLock = None THEN Cons("unpause", Stopping)
                                     ELSE Cons("unpause", Removed)]
  BY <1>1, UserRan, LongMoves DEF Stop
<1> DEFINE k == IF exitLock = None THEN Cons("unpause", Stopping) ELSE Cons("unpause", Removed)
<1>4. k \in Shapes(User) \cap Seq(Steps)
  BY UserShapes
<1>5. /\ Shaped' /\ Left(User)' = Ran(k) \cap Matters
      /\ \A b \in Queues \cup Timers : Left(b)' = Left(b) /\ Ends(b)' = Ends(b)
      /\ \A q \in Queues : (Works(q)' <=> Works(q)) /\ (Watches(q)' <=> Watches(q))
  BY <1>3, <1>4, UserMove
<1>6. Left(User)' = IF exitLock = None THEN {"kill", "join", "end sync"}
                    ELSE {"forget", "end sync"}
  <2>1. /\ {"unpause", "kill", "join", "end sync"} \cap Matters = {"kill", "join", "end sync"}
        /\ {"unpause", "forget", "end sync"} \cap Matters = {"forget", "end sync"}
    BY DEF Matters
  <2>2. /\ Ran(Cons("unpause", Stopping)) = {"unpause", "kill", "join", "end sync"}
        /\ Ran(Cons("unpause", Removed)) = {"unpause", "forget", "end sync"}
    BY UserRan
  <2>3. CASE exitLock = None
    BY <1>5, <2>1, <2>2, <2>3
  <2>4. CASE exitLock # None
    BY <1>5, <2>1, <2>2, <2>4
  <2> QED
    BY <2>3, <2>4
<1> HIDE DEF k
<1> DEFINE L == Left(User)'
<1>7. /\ "end sync" \in L /\ "sync asleep" \notin L
      /\ exitLock = None => "join" \in L /\ "kill" \in L /\ "forget" \notin L
      /\ exitLock # None => "join" \notin L
  <2>1. CASE exitLock = None
    <3>1. L = {"kill", "join", "end sync"}
      BY <1>6, <2>1
    <3> HIDE DEF L
    <3> QED
      BY <2>1, <3>1
  <2>2. CASE exitLock # None
    <3>1. L = {"forget", "end sync"}
      BY <1>6, <2>2
    <3> HIDE DEF L
    <3> QED
      BY <2>2, <3>1
  <2> QED
    BY <2>1, <2>2
<1> HIDE DEF L
<1>8. /\ UNCHANGED <<paused, without, cancelled, internal, disposed, syncing, overlap>>
      /\ exitLock' = IF exitLock = None THEN User ELSE exitLock
  BY DEF Stop, threads, pausing
<1>9. Types'
  BY DEF Stop, Inv, Types, list, threads, pausing
<1>10. exitLock # User /\ (exitLock # None => exitLock \in Queues)
  BY <1>2, MessageQueueAssumption DEF Inv, Types, Core, Locks
<1>11. Locks'
  <2>1. \A q \in Queues : "leave" \in Left(q)' <=> exitLock' = q
    <3>1. \A q \in Queues : exitLock' = q <=> exitLock = q
      BY <1>8, <1>10, MessageQueueAssumption
    <3> QED
      BY <1>5, <3>1 DEF Inv, Core, Locks
  <2>2. /\ "join" \in L <=> exitLock' = User
        /\ "join" \in L => "kill" \in L
    BY <1>7, <1>8, <1>10
  <2> QED
    BY <2>1, <2>2 DEF Locks, L
<1>12. Disposals'
  <2>1. exitLock = None => internal \notin disposed
    BY MessageQueueAssumption DEF Inv, Types, Core, Disposals
  <2>2. "join" \in Left(User)' => "kill" \in Left(User)'
    BY <1>7, <1>10 DEF L
  <2>3. /\ \A q \in disposed \cap Queues : Left(q)' \subseteq {"leave"}
        /\ internal \in disposed => exitLock' = internal
        /\ cancelled \cap Queues = {}
    BY <1>2, <1>5, <1>8, <2>1 DEF Inv, Core, Disposals
  <2> QED
    BY <1>8, <2>2, <2>3 DEF Disposals
<1>13. Known'
  <2>1. ASSUME ~overlap, exitLock # None
        PROVE  \A q \in Queues : ~Works(q)
    <3>1. PICK r \in Queues : "leave" \in Left(r)
      BY <1>10, <2>1 DEF Inv, Core, Locks
    <3>2. Left(r) \subseteq {"detach", "leave"}
      BY <1>1, <3>1, QueueLeft
    <3>3. \A q \in Queues : Works(q) => q = r
      BY <2>1, <3>1 DEF Inv, Core, Known, Works
    <3> QED
      BY <3>2, <3>3 DEF Works
  <2> QED
    <3>1. \A q \in Queues : Left(q)' = Left(q)
      BY <1>5
    <3>2. "forget" \in L => exitLock # None
      BY <1>7
    <3> QED
      BY <1>5, <1>8, <2>1, <3>1, <3>2 DEF Inv, Core, Known, L
<1>14. Watched'
  BY <1>7 DEF Watched, L
<1>15. Paused'
  BY <1>2, <1>5, <1>8, UserPaused
<1> QED
  BY <1>5, <1>9, <1>11, <1>12, <1>13, <1>14, <1>15 DEF Inv, Core

\* What it has left while it stops the queue, and at the end.
LEMMA UserStopping ==
    ASSUME Shaped
    PROVE  /\ At(User, "kill") => Left(User) = {"kill", "join", "end sync"} /\ Ends(User) = {}
           /\ At(User, "join") => Left(User) = {"join", "end sync"} /\ Ends(User) = {}
           /\ At(User, "forget") => Left(User) = {"forget", "end sync"} /\ Ends(User) = {}
           /\ At(User, "end sync") => Left(User) = {"end sync"} /\ Ends(User) = {}
<1>1. {"kill", "join", "forget", "end sync"} \cap Ending = {}
  BY DEF Ending
<1>2. {"kill", "join", "forget", "end sync"} \subseteq Matters
  BY DEF Matters
<1>3. User \in Threads
  BY UserShapes
<1>4. CASE At(User, "kill")
  <2>1. Ran(code[User]) = {"kill", "join", "end sync"}
    BY <1>3, <1>4, UserAt, UserRan
  <2> QED
    BY <1>1, <1>2, <1>4, <2>1 DEF Left, Ends, Plan, At
<1>5. CASE At(User, "join")
  <2>1. Ran(code[User]) = {"join", "end sync"}
    BY <1>3, <1>5, UserAt, UserRan
  <2> QED
    BY <1>1, <1>2, <1>5, <2>1 DEF Left, Ends, Plan, At
<1>6. CASE At(User, "forget")
  <2>1. Ran(code[User]) = {"forget", "end sync"}
    BY <1>3, <1>6, UserAt, UserRan
  <2> QED
    BY <1>1, <1>2, <1>6, <2>1 DEF Left, Ends, Plan, At
<1>7. CASE At(User, "end sync")
  <2>1. Ran(code[User]) = {"end sync"}
    BY <1>3, <1>7, UserAt, UserRan
  <2> QED
    BY <1>1, <1>2, <1>7, <2>1 DEF Left, Ends, Plan, At
<1> QED
  BY <1>4, <1>5, <1>6, <1>7

LEMMA KillKeeps ==
    ASSUME Inv, Kill, UNCHANGED calls
    PROVE  Inv'
<1>1. User \in Threads /\ Shaped /\ code[User] = Stopping /\ At(User, "kill")
  BY UserShapes, UserAt DEF Inv, Kill
<1>2. Left(User) = {"kill", "join", "end sync"} /\ Ends(User) = {}
  BY <1>1, UserStopping
<1> DEFINE k == IF Running THEN Cons("join", Last("end sync")) ELSE Last("crashed")
<1>3. code' = [code EXCEPT ![User] = k]
  <2>1. CASE Running
    <3>1. "kill" \in Steps /\ Cons("join", Last("end sync")) \in Seq(Steps)
      BY StoppingFacts DEF Steps
    <3> QED
      BY <1>1, <2>1, <3>1, Goes DEF Stopping, Kill
  <2>2. CASE ~Running
    <3>1. <<"crashed">> = Last("crashed")
      BY LastFacts DEF Steps
    <3> QED
      BY <2>2, <3>1 DEF Kill
  <2> QED
    BY <2>1, <2>2
<1>4. k \in Shapes(User) \cap Seq(Steps)
  BY UserShapes
<1>5. /\ Shaped' /\ Left(User)' = Ran(k) \cap Matters
      /\ \A b \in Queues \cup Timers : Left(b)' = Left(b) /\ Ends(b)' = Ends(b)
      /\ \A q \in Queues : (Works(q)' <=> Works(q)) /\ (Watches(q)' <=> Watches(q))
  BY <1>3, <1>4, UserMove
<1> DEFINE L == Left(User)'
<1>6. /\ "kill" \notin L /\ "forget" \notin L /\ "sync asleep" \notin L
      /\ Running => "join" \in L /\ "end sync" \in L
      /\ ~Running => "join" \notin L /\ "crashed" \in L
  <2>1. CASE Running
    <3>1. L = {"join", "end sync"}
      BY <1>5, <2>1, UserRan DEF Matters
    <3> HIDE DEF L
    <3> QED
      BY <2>1, <3>1
  <2>2. CASE ~Running
    <3>1. L = {"crashed"}
      BY <1>5, <2>2, UserRan DEF Matters
    <3> HIDE DEF L
    <3> QED
      BY <2>2, <3>1
  <2> QED
    BY <2>1, <2>2
<1> HIDE DEF k, L
<1>7. /\ UNCHANGED <<paused, without, internal, exitLock, disposed, syncing, overlap>>
      /\ cancelled' = cancelled \cup ({internal} \ {None})
  BY DEF Kill, control, pausing
<1>8. Types'
  BY DEF Kill, Inv, Types, list, control, pausing
<1>9. exitLock = User
  BY <1>2 DEF Inv, Core, Locks
<1>10. Locks'
  BY <1>5, <1>6, <1>7, <1>9 DEF Inv, Core, Locks, L, Running
<1>11. Disposals'
  <2>1. cancelled \cap Queues = {}
    BY <1>2 DEF Inv, Core, Disposals
  <2> QED
    BY <1>5, <1>6, <1>7, <2>1 DEF Inv, Core, Disposals, L, Running
<1>12. Known'
  BY <1>5, <1>6, <1>7 DEF Inv, Core, Known, L
<1>13. Watched'
  BY <1>5, <1>6, <1>7 DEF Inv, Core, Watched, L
<1>14. Paused'
  <2>1. cancelled' \cap Timers = cancelled \cap Timers
    BY <1>7, MessageQueueAssumption DEF Inv, Types
  <2> QED
    BY <1>2, <1>5, <1>7, <2>1, UserPaused
<1> QED
  BY <1>5, <1>8, <1>10, <1>11, <1>12, <1>13, <1>14 DEF Inv, Core

LEMMA JoinKeeps ==
    ASSUME Inv, Join, UNCHANGED calls
    PROVE  Inv'
<1>1. /\ User \in Threads /\ Shaped /\ At(User, "join")
      /\ code[User] = Cons("join", Last("end sync"))
  BY UserShapes, UserAt DEF Inv, Join
<1>2. Left(User) = {"join", "end sync"} /\ Ends(User) = {}
  BY <1>1, UserStopping
<1>3. /\ code' = [code EXCEPT ![User] = Last("end sync")]
      /\ Last("end sync") \in Shapes(User) \cap Seq(Steps)
  <2>1. "join" \in Steps /\ Last("end sync") \in Shapes(User) \cap Seq(Steps)
    BY UserShapes DEF Steps
  <2> QED
    BY <1>1, <2>1, Goes DEF Join
<1>4. /\ Shaped' /\ Left(User)' = Ran(Last("end sync")) \cap Matters
      /\ \A b \in Queues \cup Timers : Left(b)' = Left(b) /\ Ends(b)' = Ends(b)
      /\ \A q \in Queues : (Works(q)' <=> Works(q)) /\ (Watches(q)' <=> Watches(q))
  BY <1>3, UserMove
<1>5. Left(User)' = {"end sync"}
  BY <1>4, UserRan DEF Matters
<1>6. /\ UNCHANGED <<paused, without, syncing, overlap>>
      /\ internal' = None /\ exitLock' = None /\ disposed' = disposed \cup {internal}
      /\ cancelled' = cancelled \ {internal}
  BY DEF Join, pausing
<1>7. internal \in Queues /\ exitLock = User /\ Left(internal) = {}
  <2>1. internal \in Queues /\ exitLock = User
    BY <1>2 DEF Inv, Types, Core, Locks
  <2>2. code[internal] = <<>>
    BY DEF Join
  <2> QED
    BY <1>1, <2>1, <2>2, NothingLeft
<1>8. Types'
  BY <1>6, <1>7 DEF Join, Inv, Types, list, pausing
<1>9. Locks'
  BY <1>4, <1>5, <1>6, <1>7, MessageQueueAssumption DEF Inv, Core, Locks
<1>10. Disposals'
  <2>1. None \notin disposed'
    BY <1>6, <1>7, MessageQueueAssumption DEF Inv, Types
  <2>2. cancelled' \cap Queues = {}
    BY <1>6 DEF Inv, Core, Disposals
  <2>3. \A q \in disposed' \cap Queues : Left(q)' \subseteq {"leave"}
    <3>1. \A q \in disposed \cap Queues : Left(q) \subseteq {"leave"}
      BY DEF Inv, Core, Disposals
    <3>2. \A q \in Queues : Left(q)' = Left(q)
      BY <1>4
    <3> QED
      BY <1>6, <1>7, <3>1, <3>2
  <2>4. \A q \in Queues : q # internal'
    BY <1>6, MessageQueueAssumption
  <2> QED
    BY <1>6, <2>1, <2>2, <2>3, <2>4 DEF Disposals
<1>11. Known'
  <2>1. ~overlap => \A q \in Queues : ~Works(q)
    BY <1>7 DEF Inv, Core, Known, Works
  <2> QED
    BY <1>4, <1>5, <1>6, <2>1 DEF Inv, Core, Known
<1>12. Watched'
  BY <1>4, <1>5, <1>6 DEF Inv, Core, Watched
<1>13. Paused'
  <2>1. cancelled' \cap Timers = cancelled \cap Timers
    BY <1>6, <1>7, MessageQueueAssumption
  <2> QED
    BY <1>2, <1>4, <1>6, <2>1, UserPaused
<1> QED
  BY <1>4, <1>8, <1>9, <1>10, <1>11, <1>12, <1>13 DEF Inv, Core

LEMMA ForgetKeeps ==
    ASSUME Inv, Forget, UNCHANGED calls
    PROVE  Inv'
<1>1. User \in Threads /\ Shaped /\ At(User, "forget") /\ code[User] = Removed
  BY UserShapes, UserAt DEF Inv, Forget
<1>2. Left(User) = {"forget", "end sync"} /\ Ends(User) = {}
  BY <1>1, UserStopping
<1>3. /\ code' = [code EXCEPT ![User] = Last("end sync")]
      /\ Last("end sync") \in Shapes(User) \cap Seq(Steps)
  <2>1. "forget" \in Steps /\ Last("end sync") \in Shapes(User) \cap Seq(Steps)
    BY UserShapes DEF Steps
  <2> QED
    BY <1>1, <2>1, Goes DEF Removed, Forget
<1>4. /\ Shaped' /\ Left(User)' = Ran(Last("end sync")) \cap Matters
      /\ \A b \in Queues \cup Timers : Left(b)' = Left(b) /\ Ends(b)' = Ends(b)
      /\ \A q \in Queues : (Works(q)' <=> Works(q)) /\ (Watches(q)' <=> Watches(q))
  BY <1>3, UserMove
<1>5. Left(User)' = {"end sync"}
  BY <1>4, UserRan DEF Matters
<1>6. /\ UNCHANGED <<paused, without, exitLock, cancelled, disposed, syncing, overlap>>
      /\ internal' = None
  BY DEF Forget, threads, pausing
<1>7. Types'
  BY <1>6 DEF Forget, Inv, Types, list, threads, pausing
<1>8. Locks'
  BY <1>2, <1>4, <1>5, <1>6 DEF Inv, Core, Locks
<1>9. Disposals'
  <2>1. None \notin disposed
    BY MessageQueueAssumption DEF Inv, Types
  <2>2. cancelled \cap Queues = {}
    BY <1>2 DEF Inv, Core, Disposals
  <2>3. \A q \in disposed \cap Queues : Left(q)' \subseteq {"leave"}
    BY <1>4 DEF Inv, Core, Disposals
  <2>4. \A q \in Queues : q # internal'
    BY <1>6, MessageQueueAssumption
  <2> QED
    BY <1>6, <2>1, <2>2, <2>3, <2>4 DEF Disposals
<1>10. Known'
  BY <1>2, <1>4, <1>5, <1>6 DEF Inv, Core, Known
<1>11. Watched'
  BY <1>4, <1>5, <1>6 DEF Inv, Core, Watched
<1>12. Paused'
  BY <1>2, <1>4, <1>6, UserPaused
<1> QED
  BY <1>4, <1>7, <1>8, <1>9, <1>10, <1>11, <1>12 DEF Inv, Core

LEMMA UserEndSyncKeeps ==
    ASSUME Inv, EndSync(User), UNCHANGED calls
    PROVE  Inv'
<1>1. /\ User \in Threads /\ Shaped /\ At(User, "end sync")
      /\ code[User] = Last("end sync") /\ "end sync" \in Steps
  BY UserShapes, UserAt DEF Inv, EndSync, Steps
<1>2. Left(User) = {"end sync"} /\ Ends(User) = {}
  BY <1>1, UserStopping
<1>3. code' = [code EXCEPT ![User] = <<>>] /\ <<>> \in Shapes(User) \cap Seq(Steps)
  <2>1. Tail(code[User]) = <<>>
    BY <1>1, GoesLast
  <2>2. \A b \in Threads \ {User} : ~At(b, "sync asleep")
    BY <1>1, QueueAt, TimerAt DEF Threads
  <2>3. DOMAIN code = Threads /\ code = [b \in Threads |-> code[b]]
    BY <1>1 DEF Shaped
  <2> QED
    BY <1>1, <2>1, <2>2, <2>3, UserShapes DEF EndSync, Wakes
<1>4. /\ Shaped' /\ Left(User)' = Ran(<<>>) \cap Matters
      /\ \A b \in Queues \cup Timers : Left(b)' = Left(b) /\ Ends(b)' = Ends(b)
      /\ \A q \in Queues : (Works(q)' <=> Works(q)) /\ (Watches(q)' <=> Watches(q))
  BY <1>3, UserMove
<1>5. Left(User)' = {}
  BY <1>4, UserRan
<1>6. /\ UNCHANGED <<paused, without, internal, exitLock, cancelled, disposed, overlap>>
      /\ syncing' = FALSE
  BY DEF EndSync, control, threads, pausing
<1>7. Types'
  BY DEF EndSync, Inv, Types, list, control, threads, pausing
<1>8. Locks'
  BY <1>2, <1>4, <1>5, <1>6 DEF Inv, Core, Locks
<1>9. Disposals'
  BY <1>2, <1>4, <1>5, <1>6 DEF Inv, Core, Disposals
<1>10. Known'
  BY <1>2, <1>4, <1>5, <1>6 DEF Inv, Core, Known
<1>11. Watched'
  BY <1>5, <1>6 DEF Watched
<1>12. Paused'
  BY <1>2, <1>4, <1>6, UserPaused
<1> QED
  BY <1>4, <1>7, <1>8, <1>9, <1>10, <1>11, <1>12 DEF Inv, Core

\* The new thread is one that is disposed of; overlap notes what still runs.
LEMMA StartKeeps ==
    ASSUME Inv, Start, calls' \in 0..MaxCalls
    PROVE  Inv'
<1>1. PICK q \in Unused(disposed) : /\ code' = [code EXCEPT ![q] = <<"begin">>]
                                    /\ internal' = q /\ disposed' = disposed \ {q}
  BY DEF Start
<1>2. /\ q \in disposed /\ q \in Queues /\ code[q] = <<>> /\ q \in Threads /\ q # User
      /\ Shaped /\ internal = None /\ code[User] = <<>>
  BY <1>1, UnusedFacts, MessageQueueAssumption DEF Inv, Types, Threads, Start, Running
<1>3. Left(q) = {} /\ Ends(q) = {} /\ Left(User) = {}
  BY <1>2, NilFacts DEF Left, Ends, Plan
<1>4. /\ <<"begin">> = Last("begin") /\ Last("begin") \in Shapes(q) \cap Seq(Steps)
      /\ Ran(Last("begin")) = {"begin"}
  BY <1>2, QueueShapes, QueueRan, LastFacts
<1>5. /\ Shaped' /\ Left(q)' = Ran(Last("begin")) \cap Matters
      /\ \A b \in Threads \ {q} : Left(b)' = Left(b) /\ Ends(b)' = Ends(b)
  BY <1>1, <1>2, <1>4, PlanFrame
<1>6. Left(q)' = {"begin"}
  BY <1>4, <1>5 DEF Matters
<1>7. /\ \A r \in Queues : r # q => Left(r)' = Left(r)
      /\ Left(User)' = {}
  BY <1>2, <1>3, <1>5 DEF Threads
<1>8. UNCHANGED <<exitLock, cancelled, paused, without, syncing>>
  BY DEF Start, pausing
<1>9. Types'
  BY <1>1, <1>2 DEF Start, Inv, Types, list, pausing
<1>10. Locks'
  BY <1>3, <1>6, <1>7, <1>8 DEF Inv, Core, Locks
<1>11. Disposals'
  <2>1. cancelled \cap Queues = {}
    BY <1>3 DEF Inv, Core, Disposals
  <2> QED
    BY <1>1, <1>7, <1>8, <2>1 DEF Inv, Core, Disposals
<1>12. Known'
  <2>1. ASSUME ~overlap', NEW x \in Queues
        PROVE  code[x] = <<>>
    <3>1. SUFFICES ASSUME code[x] # <<>>
                   PROVE  FALSE
      OBVIOUS
    <3>2. ~overlap /\ InLoop(x)
      BY <2>1, <3>1 DEF Start
    <3>3. Works(x)
      BY <3>2 DEF InLoop, Will, Works, Left, Plan, Ran, Matters
    <3>4. internal = x
      BY <3>2, <3>3 DEF Inv, Core, Known
    <3> QED
      BY <1>2, <3>4, MessageQueueAssumption
  <2>2. ~overlap' => \A x \in Queues : x # q => Left(x)' = {}
    BY <1>2, <1>7, <2>1, NothingLeft
  <2> QED
    BY <1>1, <1>7, <2>2 DEF Known, Works
<1>13. Watched'
  <2>1. Watches(q)'
    BY <1>6 DEF Watches
  <2> QED
    BY <1>2, <2>1 DEF Watched
<1>14. Paused'
  <2>1. \A b \in Threads : Ends(b) \subseteq Ends(b)'
    BY <1>3, <1>5
  <2> QED
    BY <1>8, <2>1, PausedFrame DEF Inv
<1> QED
  BY <1>5, <1>9, <1>10, <1>11, <1>12, <1>13, <1>14 DEF Inv, Core

-----------------------------------------------------------------------------
(* The queue thread and who waits for it. *)

\* What it has left at its end.
LEMMA QueueLeaving ==
    ASSUME Shaped, NEW q \in Queues
    PROVE  /\ At(q, "select") => Left(q) = {"select"} /\ Ends(q) = {}
           /\ At(q, "signal") => Left(q) = {"loop"} /\ Ends(q) = {}
           /\ At(q, "end sync") => Left(q) = {"end sync", "try"} /\ Ends(q) = {}
           /\ At(q, "detach") => Left(q) = {"detach", "leave"} /\ Ends(q) = {}
           /\ At(q, "leave") => Left(q) = {"leave"} /\ Ends(q) = {}
<1>1. {"select", "signal", "loop", "end sync", "try", "detach", "leave"} \cap Ending = {}
  BY DEF Ending
<1>2. /\ {"select", "loop", "end sync", "try", "detach", "leave"} \subseteq Matters
      /\ "signal" \notin Matters
  BY DEF Matters
<1>3. CASE At(q, "select")
  <2>1. Ran(code[q]) = {"select"}
    BY <1>3, QueueAt, QueueRan
  <2> QED
    BY <1>1, <1>2, <1>3, <2>1 DEF Left, Ends, Plan, At
<1>4. CASE At(q, "signal")
  <2>1. Ran(code[q]) = {"signal", "loop"}
    BY <1>4, QueueAt, QueueRan
  <2> QED
    BY <1>1, <1>2, <1>4, <2>1 DEF Left, Ends, Plan, At
<1>5. CASE At(q, "end sync")
  <2>1. Ran(code[q]) = {"end sync", "try"}
    BY <1>5, QueueAt, QueueRan
  <2> QED
    BY <1>1, <1>2, <1>5, <2>1 DEF Left, Ends, Plan, At
<1>6. CASE At(q, "detach")
  <2>1. Ran(code[q]) = {"detach", "leave"}
    BY <1>6, QueueAt, QueueRan
  <2> QED
    BY <1>1, <1>2, <1>6, <2>1 DEF Left, Ends, Plan, At
<1>7. CASE At(q, "leave")
  <2>1. Ran(code[q]) = {"leave"}
    BY <1>7, QueueAt, QueueRan
  <2> QED
    BY <1>1, <1>2, <1>7, <2>1 DEF Left, Ends, Plan, At
<1> QED
  BY <1>3, <1>4, <1>5, <1>6, <1>7

\* Where it goes, what is left of it, and that the others stay.
LEMMA QueueMove ==
    ASSUME Inv, NEW q \in Queues, NEW k \in Shapes(q) \cap Seq(Steps),
           code' = [code EXCEPT ![q] = k]
    PROVE  /\ Shaped' /\ Left(q)' = Ran(k) \cap Matters
           /\ \A r \in Queues : r # q => Left(r)' = Left(r)
           /\ Left(User)' = Left(User)
           /\ \A b \in Threads \ {q} : Ends(b)' = Ends(b)
<1>1. q \in Threads /\ User \in Threads \ {q} /\ \A r \in Queues : r # q => r \in Threads \ {q}
  BY MessageQueueAssumption DEF Threads
<1>2. /\ Shaped' /\ Left(q)' = Ran(k) \cap Matters
      /\ \A b \in Threads \ {q} : Left(b)' = Left(b) /\ Ends(b)' = Ends(b)
  BY <1>1, PlanFrame DEF Inv
<1> QED
  BY <1>1, <1>2

\* It goes on and wakes who waits for a message.
LEMMA QueueWakes ==
    ASSUME Inv, NEW q \in Queues, NEW x \in Steps, NEW k \in Shapes(q) \cap Seq(Steps),
           code[q] = Cons(x, k), Wakes(q, "sync asleep")
    PROVE  /\ Shaped' /\ Left(q)' = Ran(k) \cap Matters
           /\ \A r \in Queues : r # q => Left(r)' = Left(r)
           /\ Left(User)' = Left(User) \ {"sync asleep"}
           /\ \A b \in Threads \ {q} : Ends(b) \subseteq Ends(b)'
<1>1. /\ q \in Threads /\ User \in Threads /\ q # User /\ Shaped
      /\ \A r \in Queues : r # q => r \in Threads \ {q, User}
  BY MessageQueueAssumption DEF Threads, Inv
<1>2. \A b \in Threads \ {User} : ~At(b, "sync asleep")
  BY <1>1, QueueAt, TimerAt DEF Threads
<1>3. code'[q] = k
  BY <1>1, ConsFacts DEF Wakes
<1>4. \A b \in Threads \ {q, User} : code'[b] = code[b]
  BY <1>2 DEF Wakes
<1>5. \/ code'[User] = code[User] /\ ~At(User, "sync asleep")
      \/ At(User, "sync asleep") /\ code'[User] = <<>> /\ code[User] = Last("sync asleep")
  <2>1. CASE At(User, "sync asleep")
    <3>1. code[User] = Last("sync asleep")
      BY <1>1, <2>1, UserAt
    <3>2. Tail(code[User]) = <<>>
      BY <1>1, <3>1, UserRan, GoesLast
    <3> QED
      BY <1>1, <2>1, <3>1, <3>2 DEF Wakes
  <2>2. CASE ~At(User, "sync asleep")
    BY <1>1, <2>2 DEF Wakes
  <2> QED
    BY <2>1, <2>2
<1>6. /\ code'[User] \in Shapes(User) \cap Seq(Steps)
      /\ Left(User)' = Left(User) \ {"sync asleep"} /\ Ends(User) \subseteq Ends(User)'
  <2>1. CASE code'[User] = code[User] /\ ~At(User, "sync asleep")
    <3>1. "sync asleep" \notin Left(User)
      <4>1. "sync asleep" \in Steps
        BY DEF Steps
      <4>2. code[User] = Last("sync asleep") => At(User, "sync asleep")
        BY <4>1, Lasts DEF At
      <4> QED
        BY <1>1, <2>1, <4>2, UserLeft
    <3> QED
      BY <1>1, <2>1, <3>1 DEF Shaped, Left, Ends, Plan
  <2>2. CASE code'[User] = <<>> /\ code[User] = Last("sync asleep")
    <3>1. Ran(code[User]) = {"sync asleep"} /\ Ran(code'[User]) = {}
      BY <2>2, UserRan
    <3>2. "sync asleep" \notin Ending
      BY DEF Ending
    <3>3. code'[User] \in Shapes(User) \cap Seq(Steps)
      BY <2>2, UserShapes
    <3> QED
      BY <3>1, <3>2, <3>3 DEF Left, Ends, Plan
  <2> QED
    BY <1>5, <2>1, <2>2
<1>7. \A b \in Threads : code'[b] \in Shapes(b) \cap Seq(Steps)
  BY <1>1, <1>3, <1>4, <1>6 DEF Shaped
<1>8. Shaped'
  <2>1. code' = [b \in Threads |-> code'[b]]
    BY DEF Wakes
  <2>2. code' \in [Threads -> Seq(Steps)]
    BY <1>7, <2>1
  <2> QED
    BY <1>7, <2>2 DEF Shaped
<1>9. \A b \in Threads \ {q, User} : Left(b)' = Left(b) /\ Ends(b)' = Ends(b)
  BY <1>4 DEF Left, Ends, Plan
<1>10. Left(q)' = Ran(k) \cap Matters
  BY <1>3 DEF Left, Plan
<1> QED
  BY <1>1, <1>6, <1>8, <1>9, <1>10

LEMMA SignalKeeps ==
    ASSUME Inv, NEW q \in Queues, Signal(q), UNCHANGED calls
    PROVE  Inv'
<1>1. /\ q \in Threads /\ Shaped /\ code[q] = Cons("signal", Last("loop"))
      /\ Left(q) = {"loop"} /\ Ends(q) = {} /\ "signal" \in Steps
      /\ Last("loop") \in Shapes(q) \cap Seq(Steps) /\ Ran(Last("loop")) = {"loop"}
  <2>1. At(q, "signal") /\ Shaped
    BY DEF Inv, Signal
  <2>2. Last("loop") \in Shapes(q) \cap Seq(Steps) /\ q \in Threads
    BY QueueShapes
  <2>3. Ran(Last("loop")) = {"loop"}
    BY QueueRan
  <2> QED
    BY <2>1, <2>2, <2>3, QueueAt, QueueLeaving DEF Steps
<1>2. UNCHANGED <<internal, exitLock, disposed, cancelled, syncing, overlap, paused, without>>
  BY DEF Signal, control, threads, pausing
<1>3. Types'
  BY DEF Signal, Inv, Types, list, control, threads, pausing
<1>4. CASE syncing
  <2>1. Wakes(q, "sync asleep")
    BY <1>4 DEF Signal
  <2>2. /\ Shaped' /\ Left(q)' = Ran(Last("loop")) \cap Matters
        /\ \A r \in Queues : r # q => Left(r)' = Left(r)
        /\ Left(User)' = Left(User) \ {"sync asleep"}
        /\ \A b \in Threads \ {q} : Ends(b) \subseteq Ends(b)'
    BY <1>1, <2>1, QueueWakes
  <2>3. Left(q)' = Left(q)
    BY <1>1, <2>2 DEF Matters
  <2>4. Core'
    BY <1>2, <2>2, <2>3, UserCore DEF Inv
  <2>5. Paused'
    BY <1>1, <1>2, <2>2, PausedFrame DEF Inv
  <2> QED
    BY <1>3, <2>2, <2>4, <2>5 DEF Inv
<1>5. CASE ~syncing
  <2>1. code' = [code EXCEPT ![q] = Last("loop")]
    BY <1>1, <1>5, Goes DEF Signal
  <2>2. Ran(code[q]) = {"signal", "loop"}
    BY <1>1, QueueRan
  <2>3. Ran(Last("loop")) = {"loop"} /\ Last("loop") \in Shapes(q) \cap Seq(Steps)
    BY QueueRan, QueueShapes
  <2>4. Stays(Ran(code[q]), Ran(Last("loop")))
    BY <2>2, <2>3 DEF Stays, Working, Watching, Ending
  <2> QED
    BY <1>2, <1>3, <2>1, <2>3, <2>4, QueueStep
<1> QED
  BY <1>4, <1>5

LEMMA QueueEndSyncKeeps ==
    ASSUME Inv, NEW q \in Queues, EndSync(q), UNCHANGED calls
    PROVE  Inv'
<1>1. /\ q \in Threads /\ Shaped /\ code[q] = Cons("end sync", Last("try"))
      /\ Left(q) = {"end sync", "try"} /\ Ends(q) = {} /\ "end sync" \in Steps
      /\ Last("try") \in Shapes(q) \cap Seq(Steps) /\ Ran(Last("try")) = {"try"}
  <2>1. At(q, "end sync") /\ Shaped
    BY DEF Inv, EndSync
  <2>2. Last("try") \in Shapes(q) \cap Seq(Steps) /\ q \in Threads
    BY QueueShapes
  <2>3. Ran(Last("try")) = {"try"}
    BY QueueRan
  <2> QED
    BY <2>1, <2>2, <2>3, QueueAt, QueueLeaving DEF Steps
<1>2. /\ UNCHANGED <<internal, exitLock, disposed, cancelled, overlap, paused, without>>
      /\ syncing' = FALSE
  BY DEF EndSync, control, threads, pausing
<1>3. Types'
  BY DEF EndSync, Inv, Types, list, control, threads, pausing
<1>4. /\ Shaped' /\ Left(q)' = Ran(Last("try")) \cap Matters
      /\ \A r \in Queues : r # q => Left(r)' = Left(r)
      /\ Left(User)' = Left(User) \ {"sync asleep"}
      /\ \A b \in Threads \ {q} : Ends(b) \subseteq Ends(b)'
  BY <1>1, QueueWakes DEF EndSync
<1>5. Left(q)' = {"try"}
  BY <1>1, <1>4 DEF Matters
<1>6. /\ \A x \in {"join", "kill", "forget", "crashed"} :
            x \in Left(User)' <=> x \in Left(User)
      /\ "sync asleep" \notin Left(User)'
  BY <1>4
<1>7. \A r \in Queues : /\ Works(r)' => Works(r)
                        /\ Left(r)' # {} => Left(r) # {}
                        /\ "leave" \in Left(r)' <=> "leave" \in Left(r)
  BY <1>1, <1>4, <1>5 DEF Works
<1>8. Locks'
  BY <1>2, <1>6, <1>7 DEF Inv, Core, Locks
<1>9. Disposals'
  <2>1. q \notin disposed
    BY <1>1 DEF Inv, Core, Disposals
  <2>2. \A r \in Queues : Left(r) = {} => Left(r)' = {}
    BY <1>7
  <2>3. \A r \in disposed \cap Queues : Left(r)' \subseteq {"leave"}
    BY <1>4, <2>1 DEF Inv, Core, Disposals
  <2> QED
    BY <1>2, <1>6, <2>2, <2>3 DEF Inv, Core, Disposals
<1>10. Known'
  BY <1>2, <1>6, <1>7 DEF Inv, Core, Known
<1>11. Watched'
  BY <1>2, <1>6 DEF Watched
<1>12. Paused'
  BY <1>1, <1>2, <1>4, PausedFrame DEF Inv
<1> QED
  BY <1>3, <1>4, <1>8, <1>9, <1>10, <1>11, <1>12 DEF Inv, Core

LEMMA DetachKeeps ==
    ASSUME Inv, NEW q \in Queues, Detach(q), UNCHANGED calls
    PROVE  Inv'
<1>1. /\ q \in Threads /\ Shaped /\ code[q] = Cons("detach", Last("leave"))
      /\ Left(q) = {"detach", "leave"} /\ Ends(q) = {} /\ "detach" \in Steps
      /\ Last("leave") \in Shapes(q) \cap Seq(Steps) /\ Ran(Last("leave")) = {"leave"}
  <2>1. At(q, "detach") /\ Shaped
    BY DEF Inv, Detach
  <2>2. Last("leave") \in Shapes(q) \cap Seq(Steps) /\ q \in Threads
    BY QueueShapes
  <2>3. Ran(Last("leave")) = {"leave"}
    BY QueueRan
  <2> QED
    BY <2>1, <2>2, <2>3, QueueAt, QueueLeaving DEF Steps
<1>2. /\ UNCHANGED <<internal, exitLock, cancelled, syncing, overlap, paused, without>>
      /\ disposed' \subseteq disposed \cup {q} /\ disposed \subseteq disposed'
  BY DEF Detach, control, pausing
<1>3. Types'
  BY <1>2 DEF Detach, Inv, Types, list, control, pausing
<1>4. code' = [code EXCEPT ![q] = Last("leave")]
  BY <1>1, Goes DEF Detach
<1>5. /\ Shaped' /\ Left(q)' = Ran(Last("leave")) \cap Matters
      /\ \A r \in Queues : r # q => Left(r)' = Left(r)
      /\ Left(User)' = Left(User)
      /\ \A b \in Threads \ {q} : Ends(b)' = Ends(b)
  BY <1>1, <1>4, QueueMove
<1>6. Left(q)' = {"leave"}
  BY <1>1, <1>5 DEF Matters
<1>7. \A r \in Queues : /\ Works(r)' <=> Works(r)
                        /\ Watches(r)' <=> Watches(r)
                        /\ Left(r)' # {} => Left(r) # {}
                        /\ "leave" \in Left(r)' <=> "leave" \in Left(r)
  BY <1>1, <1>5, <1>6 DEF Works, Watches
<1>8. Locks'
  BY <1>2, <1>5, <1>7 DEF Inv, Core, Locks
<1>9. Disposals'
  <2>1. exitLock = q
    BY <1>1 DEF Inv, Core, Locks
  <2>2. \A r \in disposed' \cap Queues : Left(r)' \subseteq {"leave"}
    BY <1>2, <1>5, <1>6 DEF Inv, Core, Disposals
  <2>3. \A r \in Queues : Left(r) = {} => Left(r)' = {}
    BY <1>7
  <2> QED
    BY <1>2, <1>5, <2>1, <2>2, <2>3 DEF Inv, Core, Disposals
<1>10. Known'
  BY <1>2, <1>5, <1>7 DEF Inv, Core, Known
<1>11. Watched'
  BY <1>2, <1>5, <1>7 DEF Inv, Core, Watched
<1>12. Paused'
  BY <1>1, <1>2, <1>5, PausedFrame DEF Inv
<1> QED
  BY <1>3, <1>5, <1>8, <1>9, <1>10, <1>11, <1>12 DEF Inv, Core

LEMMA LeaveKeeps ==
    ASSUME Inv, NEW q \in Queues, Leave(q), UNCHANGED calls
    PROVE  Inv'
<1>1. /\ q \in Threads /\ Shaped /\ code[q] = Last("leave")
      /\ Left(q) = {"leave"} /\ Ends(q) = {} /\ "leave" \in Steps
  <2>1. At(q, "leave") /\ Shaped
    BY DEF Inv, Leave
  <2> QED
    BY <2>1, QueueShapes, QueueAt, QueueLeaving DEF Steps
<1>2. /\ UNCHANGED <<disposed, syncing, overlap, paused, without>>
      /\ internal' = None /\ exitLock' = None /\ cancelled' = cancelled \ {q}
  BY DEF Leave, pausing
<1>3. Types'
  BY DEF Leave, Inv, Types, list, pausing
<1>4. code' = [code EXCEPT ![q] = <<>>] /\ <<>> \in Shapes(q) \cap Seq(Steps) /\ Ran(<<>>) = {}
  BY <1>1, GoesLast, QueueShapes, NilFacts DEF Leave
<1>5. /\ Shaped' /\ Left(q)' = Ran(<<>>) \cap Matters
      /\ \A r \in Queues : r # q => Left(r)' = Left(r)
      /\ Left(User)' = Left(User)
      /\ \A b \in Threads \ {q} : Ends(b)' = Ends(b)
  BY <1>4, QueueMove
<1>6. Left(q)' = {}
  BY <1>4, <1>5
<1>7. /\ exitLock = q /\ "join" \notin Left(User)
      /\ \A r \in Queues : "leave" \in Left(r) => r = q
  BY <1>1, MessageQueueAssumption DEF Inv, Core, Locks
<1>8. \A r \in Queues : (Works(r)' <=> Works(r)) /\ (Watches(r)' <=> Watches(r))
  BY <1>1, <1>5, <1>6 DEF Works, Watches
<1>9. Locks'
  BY <1>2, <1>5, <1>6, <1>7, MessageQueueAssumption DEF Inv, Core, Locks
<1>10. Disposals'
  <2>1. None \notin disposed /\ cancelled \cap Queues = {}
    BY <1>7, MessageQueueAssumption DEF Inv, Types, Core, Disposals
  <2>2. \A r \in Queues : r # internal'
    BY <1>2, MessageQueueAssumption
  <2> QED
    BY <1>2, <1>5, <1>6, <2>1, <2>2 DEF Inv, Core, Disposals
<1>11. Known'
  <2>1. ~overlap => \A r \in Queues : ~Works(r)
    BY <1>1 DEF Inv, Core, Known, Works
  <2>2. \A r \in Queues : Left(r)' # {} => Left(r) # {}
    BY <1>5, <1>6
  <2> QED
    BY <1>2, <1>5, <1>8, <2>1, <2>2 DEF Inv, Core, Known
<1>12. Watched'
  BY <1>2, <1>5, <1>8 DEF Inv, Core, Watched
<1>13. Paused'
  <2>1. cancelled' \cap Timers = cancelled \cap Timers
    BY <1>2, MessageQueueAssumption
  <2> QED
    BY <1>1, <1>2, <1>5, <2>1, PausedFrame DEF Inv
<1> QED
  BY <1>3, <1>5, <1>9, <1>10, <1>11, <1>12, <1>13 DEF Inv, Core

\* Only the thread to be joined is cancelled, and who joins it will wake others.
LEMMA ActCancelKeeps ==
    ASSUME Inv, NEW q \in Queues, ActCancel(q), UNCHANGED calls
    PROVE  Inv'
<1>1. /\ q \in Threads /\ Shaped /\ code[q] = Last("select") /\ "select" \in Steps
      /\ Left(q) = {"select"} /\ Ends(q) = {} /\ q \in cancelled
  <2>1. At(q, "select") /\ Shaped /\ q \in cancelled
    BY DEF Inv, ActCancel
  <2> QED
    BY <2>1, QueueShapes, QueueAt, QueueLeaving DEF Steps
<1>2. /\ UNCHANGED <<internal, exitLock, disposed, syncing, overlap, paused, without>>
      /\ cancelled' = cancelled \ {q}
  BY DEF ActCancel, control, pausing
<1>3. Types'
  BY DEF ActCancel, Inv, Types, list, control, pausing
<1>4. code' = [code EXCEPT ![q] = <<>>] /\ <<>> \in Shapes(q) \cap Seq(Steps) /\ Ran(<<>>) = {}
  BY <1>1, GoesLast, QueueShapes, NilFacts DEF ActCancel
<1>5. /\ Shaped' /\ Left(q)' = Ran(<<>>) \cap Matters
      /\ \A r \in Queues : r # q => Left(r)' = Left(r)
      /\ Left(User)' = Left(User)
      /\ \A b \in Threads \ {q} : Ends(b)' = Ends(b)
  BY <1>4, QueueMove
<1>6. Left(q)' = {}
  BY <1>4, <1>5
<1>7. "end sync" \in Left(User) /\ "sync asleep" \notin Left(User)
  <2>1. "join" \in Left(User)
    BY <1>1 DEF Inv, Core, Disposals
  <2>2. \/ Left(User) = {"kill", "join", "end sync"} \/ Left(User) = {"join", "end sync"}
        \/ Left(User) = {} \/ Left(User) = {"sync asleep"} \/ Left(User) = {"crashed"}
        \/ Left(User) = {"forget", "end sync"} \/ Left(User) = {"end sync"}
    BY <1>1, UserLeft
  <2> DEFINE L == Left(User)
  <2> HIDE DEF L
  <2>3. \/ L = {"kill", "join", "end sync"} \/ L = {"join", "end sync"} \/ "join" \notin L
    <3>1. /\ "join" \notin {} /\ "join" \notin {"sync asleep"} /\ "join" \notin {"crashed"}
          /\ "join" \notin {"forget", "end sync"} /\ "join" \notin {"end sync"}
      OBVIOUS
    <3> QED
      BY <2>2, <3>1, Zenon DEF L
  <2>4. "join" \in L
    BY <2>1 DEF L
  <2>5. "end sync" \in L /\ "sync asleep" \notin L
    BY <2>3, <2>4
  <2> QED
    BY <2>5 DEF L
<1>8. \A r \in Queues : /\ Works(r)' => Works(r)
                        /\ Left(r)' # {} => Left(r) # {}
                        /\ "leave" \in Left(r)' <=> "leave" \in Left(r)
  BY <1>1, <1>5, <1>6 DEF Works
<1>9. Locks'
  BY <1>2, <1>5, <1>8 DEF Inv, Core, Locks
<1>10. Disposals'
  BY <1>2, <1>5, <1>6 DEF Inv, Core, Disposals
<1>11. Known'
  BY <1>2, <1>5, <1>8 DEF Inv, Core, Known
<1>12. Watched'
  BY <1>2, <1>5, <1>7 DEF Watched
<1>13. Paused'
  <2>1. cancelled' \cap Timers = cancelled \cap Timers
    BY <1>2, MessageQueueAssumption
  <2> QED
    BY <1>1, <1>2, <1>5, <2>1, PausedFrame DEF Inv
<1> QED
  BY <1>3, <1>5, <1>9, <1>10, <1>11, <1>12, <1>13 DEF Inv, Core

-----------------------------------------------------------------------------
(* All steps. *)

LEMMA InitInv == Init => Inv
<1> SUFFICES ASSUME Init
             PROVE  Inv
  OBVIOUS
<1>1. \A a \in Threads : code[a] = <<>>
  BY DEF Init
<1>2. Shaped
  <2>1. \A a \in Threads : <<>> \in Shapes(a) \cap Seq(Steps)
    BY QueueShapes, UserShapes, TimerShapes DEF Threads
  <2> QED
    BY <1>1, <2>1 DEF Init, Shaped
<1>3. \A a \in Threads : Left(a) = {} /\ Ends(a) = {}
  BY <1>1, NilFacts DEF Left, Ends, Plan
<1>4. \A q \in Queues : Left(q) = {} /\ ~Works(q)
  BY <1>3 DEF Works, Threads
<1>5. Left(User) = {}
  BY <1>3 DEF Threads
<1>6. Types
  <2>1. 0 \in 0..(IF limit = 0 THEN MaxSize ELSE limit) /\ 0 \in 0..MaxCalls
    BY MessageQueueAssumption DEF Init
  <2> QED
    BY <2>1 DEF Init, Types
<1>7. Core
  BY <1>4, <1>5, MessageQueueAssumption DEF Init, Core, Locks, Disposals, Known, Watched
<1>8. Paused
  BY DEF Init, Paused
<1> QED
  BY <1>2, <1>6, <1>7, <1>8 DEF Inv

LEMMA SharedStep ==
    ASSUME Inv, NEW a \in Threads, Shared(a), UNCHANGED calls
    PROVE  Inv'
<1>1. CASE Pause(a)
  BY <1>1, PauseKeeps
<1>2. CASE Unpause(a)
  BY <1>2, UnpauseKeeps
<1>3. CASE CancelTimer(a)
  BY <1>3, CancelTimerKeeps
<1>4. CASE Deactivate(a)
  BY <1>4, DeactivateKeeps
<1>5. CASE TimedPause(a) \/ Check(a) \/ Uncheck(a)
  BY <1>5, CallsKeep
<1>6. CASE CreateTimer(a) \/ TimerFails(a)
  BY <1>6, CreateTimerKeeps, TimerFailsKeeps
<1>7. CASE Unlock(a)
  <2>1. a \notin Timers
    BY <1>7, TimerAt DEF Inv, Unlock
  <2> QED
    BY <1>7, <2>1, QueueUnlockKeeps, UserUnlockKeeps DEF Threads
<1> QED
  BY <1>1, <1>2, <1>3, <1>4, <1>5, <1>6, <1>7 DEF Shared

LEMMA ThreadStep ==
    ASSUME Inv, NEW a \in Threads, Thread(a) \/ SpuriousWakeup(a), UNCHANGED calls
    PROVE  Inv'
<1>1. CASE Shared(a)
  BY <1>1, SharedStep
<1>2. CASE a \in Queues /\ Queue(a)
  BY <1>2, BeginKeeps, LoopKeeps, WaitKeeps, InputKeeps, AddMessageKeeps, ActCancelKeeps,
     SignalKeeps, EndKeeps, QueueEndSyncKeeps, TryKeeps, DetachKeeps, LeaveKeeps DEF Queue
<1>3. CASE a \in Timers /\ Timer(a)
  BY <1>3, BeginPauseKeeps, SleepKeeps, EndTimerKeeps DEF Timer
<1>4. CASE a = User /\ UserSteps
  BY <1>4, StopKeeps, KillKeeps, JoinKeeps, ForgetKeeps, UserEndSyncKeeps, SyncKeeps,
     SyncWaitKeeps DEF UserSteps
<1>5. CASE SpuriousWakeup(a)
  <2>1. a \notin Timers
    BY <1>5, TimerAt DEF Inv, SpuriousWakeup
  <2> QED
    BY <1>5, <2>1, QueueWakeupKeeps, UserWakeupKeeps DEF Threads
<1> QED
  BY <1>1, <1>2, <1>3, <1>4, <1>5 DEF Thread

\* The user's operations leave everything that does not count calls to the step.
LEMMA OperationStep ==
    ASSUME Inv, Operation, calls < MaxCalls, calls' = calls + 1
    PROVE  Inv'
<1>1. calls' \in 0..MaxCalls
  BY MessageQueueAssumption DEF Inv, Types
<1>2. CASE Start
  BY <1>1, <1>2, StartKeeps
<1>3. CASE Call
  BY <1>1, <1>3, CallKeepsInv
<1>4. CASE RemoveMessages
  BY <1>1, <1>4, RemoveMessagesKeeps
<1>5. CASE \E l \in Limits : SetLimit(l)
  BY <1>1, <1>5, SetLimitKeeps
<1> QED
  BY <1>2, <1>3, <1>4, <1>5 DEF Operation

LEMMA NextInv ==
    ASSUME Inv, [Next]_vars
    PROVE  Inv'
<1>1. CASE Operation /\ calls < MaxCalls /\ calls' = calls + 1
  BY <1>1, OperationStep
<1>2. CASE (\E a \in Threads : Thread(a) \/ SpuriousWakeup(a)) /\ UNCHANGED calls
  BY <1>2, ThreadStep
<1>3. CASE (\E q \in Queues : Select(q)) /\ UNCHANGED calls
  BY <1>3, SelectKeeps
<1>4. CASE UNCHANGED vars
  <2>1. code' = code
    BY <1>4 DEF vars
  <2>2. /\ UNCHANGED <<calls, size, limit, listLock, internal, exitState, exitLock>>
        /\ UNCHANGED <<paused, syncing, current, cancelled, disposed, without, overlap>>
    BY <1>4 DEF vars, list, control, threads, pausing
  <2>3. \A a \in Threads : Left(a)' = Left(a) /\ Ends(a)' = Ends(a)
    BY <2>1 DEF Left, Ends, Plan
  <2>4. Shaped' /\ Types'
    BY <2>1, <2>2 DEF Inv, Shaped, Types
  <2>5. Core'
    BY <2>2, <2>3, CoreFrame DEF Inv
  <2>6. Paused'
    BY <2>2, <2>3, PausedFrame DEF Inv
  <2> QED
    BY <2>4, <2>5, <2>6 DEF Inv
<1> QED
  BY <1>1, <1>2, <1>3, <1>4 DEF Next

\* The shapes of the code and the six parts after it are an invariant.
THEOREM Invariance == Spec => []Inv
<1>1. Inv /\ [Next]_vars => Inv'
  BY NextInv
<1> QED
  BY <1>1, InitInv, PTL DEF Spec

-----------------------------------------------------------------------------
(* The properties. *)

\* What a thread will do is what is in its code.
LEMMA WillFacts ==
    ASSUME NEW a, NEW x
    PROVE  /\ Will(a, x) <=> x \in Plan(a)
           /\ x \in Matters => (Will(a, x) <=> x \in Left(a))
           /\ x \in Ending => (Will(a, x) <=> x \in Ends(a))
BY DEF Will, Plan, Ran, Left, Ends

\* The state keeps its types, and the list its limit.
THEOREM TypeCorrect == Spec => []TypeOK
<1>1. Inv => TypeOK
  <2> SUFFICES ASSUME Inv
               PROVE  TypeOK
    OBVIOUS
  <2>1. \A a \in Threads : \A i \in DOMAIN code[a] : code[a][i] \in Steps
    BY DEF Inv, Shaped
  <2> QED
    BY <2>1 DEF Inv, Types, TypeOK
<1> QED
  BY <1>1, Invariance, PTL

\* A pause that was given a time has somebody who ends it, unless its timer was
\* cancelled before it paused or outlived the queue, or the next one's thread could
\* not be created (auto_pause_check, message_queue_timed_pause, pause_timeout_thread).
\* The first of these breaks what message-queue.h says: see TimedPauseEnds.
THEOREM PausesEnd == Spec => []PauseEnds
<1>1. Inv => PauseEnds
  <2> SUFFICES ASSUME Inv, paused, without \cap Reasons = {}
               PROVE  \/ \E a \in Threads : Will(a, "deactivate") \/ Will(a, "create timer")
                      \/ \E p \in Timers : \/ Will(p, "begin pause")
                                           \/ Will(p, "sleep") /\ p \notin cancelled
                                           \/ Will(p, "unpause")
    BY DEF PauseEnds, EndsUnless
  <2>1. \A x \in {"deactivate", "create timer", "begin pause", "sleep", "unpause"} :
            \A a : Will(a, x) <=> x \in Ends(a)
    BY WillFacts DEF Ending
  <2>2. \/ \E a \in Threads : Ends(a) \cap {"deactivate", "create timer"} # {}
        \/ \E t \in Timers : \/ Ends(t) \cap {"begin pause", "unpause"} # {}
                             \/ "sleep" \in Ends(t) /\ t \notin cancelled
    BY DEF Inv, Paused, Types
  <2> QED
    BY <2>1, <2>2
<1> QED
  BY <1>1, Invariance, PTL

\* Only the thread whose id is kept reads from the server (start_message_queue,
\* stop_message_queue, message_queue_thread).
THEOREM OneQueueReads == Spec => []OneQueue
<1>1. Inv => OneQueue
  <2> SUFFICES ASSUME Inv, NEW q \in Queues, InLoop(q), ~overlap
               PROVE  internal = q
    BY DEF OneQueue
  <2>1. Works(q)
    BY WillFacts DEF InLoop, Works, Matters
  <2> QED
    BY <2>1 DEF Inv, Core, Known
<1> QED
  BY <1>1, Invariance, PTL

\* A queue thread is joined or detached once.
THEOREM DisposedOfOnce == Spec => []DisposedOnce
<1>1. Inv => DisposedOnce
  <2> SUFFICES ASSUME Inv
               PROVE  DisposedOnce
    OBVIOUS
  <2>1. ASSUME NEW q \in Queues, At(q, "detach")
        PROVE  q \notin disposed
    <3>1. "detach" \in Left(q)
      BY <2>1, QueueLeaving DEF Inv
    <3> QED
      BY <3>1 DEF Inv, Core, Disposals
  <2>2. ASSUME At(User, "join")
        PROVE  internal \notin disposed
    <3>1. exitLock = User
      BY <2>2, UserStopping DEF Inv, Core, Locks
    <3> QED
      BY <3>1, MessageQueueAssumption DEF Inv, Types, Core, Disposals
  <2> QED
    BY <2>1, <2>2 DEF DisposedOnce
<1> QED
  BY <1>1, Invariance, PTL

\* Who waits for a message will be woken (message_queue_sync, queue_sync_continue,
\* queue_sync_end).
THEOREM WaitersAreWatched == Spec => []SyncWatched
<1>1. Inv => SyncWatched
  <2> SUFFICES ASSUME Inv, At(User, "sync asleep")
               PROVE  \E q \in Queues : InLoop(q) \/ Will(q, "end") \/ Will(q, "end sync")
    BY DEF SyncWatched
  <2>1. "sync asleep" \in Left(User)
    <3>1. code[User] = Last("sync asleep") /\ Ran(Last("sync asleep")) = {"sync asleep"}
      BY UserShapes, UserAt, UserRan DEF Inv
    <3> QED
      BY <3>1 DEF Left, Plan, Matters
  <2>2. PICK q \in Queues : Watches(q)
    BY <2>1 DEF Inv, Core, Watched
  <2>3. PICK x \in {"begin", "loop", "input", "select", "end", "end sync"} : x \in Left(q)
    BY <2>2 DEF Watches
  <2>4. Will(q, x)
    BY <2>3, WillFacts DEF Left
  <2> QED
    BY <2>4 DEF InLoop
<1> QED
  BY <1>1, Invariance, PTL

\* A stop that waits holds queue_exit_mutex and knows a thread, which has ended or
\* was cancelled, and which neither detaches itself nor forgets the id that is to
\* be joined (stop_message_queue, message_queue_thread): so a join that lasts waits
\* for a cancelled thread, never for nobody and never for one told nothing.
StopKnows ==
    At(User, "join") =>
        /\ exitLock = User
        /\ internal \in Queues
        /\ code[internal] = <<>> \/ internal \in cancelled
        /\ ~At(internal, "detach") /\ ~At(internal, "leave")

THEOREM StopsKnowTheirThread == Spec => []StopKnows
<1>1. Inv => StopKnows
  <2> SUFFICES ASSUME Inv, At(User, "join")
               PROVE  /\ exitLock = User
                      /\ internal \in Queues
                      /\ code[internal] = <<>> \/ internal \in cancelled
                      /\ ~At(internal, "detach") /\ ~At(internal, "leave")
    BY DEF StopKnows
  <2>1. "join" \in Left(User) /\ "kill" \notin Left(User)
    BY UserStopping DEF Inv
  <2>2. exitLock = User /\ internal \in Queues
    BY <2>1 DEF Inv, Types, Core, Locks
  <2>3. Left(internal) = {} \/ internal \in cancelled
    BY <2>1, <2>2 DEF Inv, Core, Disposals
  <2>4. code[internal] = <<>> \/ internal \in cancelled
    BY <2>2, <2>3, NothingLeft DEF Inv
  <2>5. "leave" \notin Left(internal)
    BY <2>2, MessageQueueAssumption DEF Inv, Core, Locks
  <2>6. ~At(internal, "detach") /\ ~At(internal, "leave")
    BY <2>2, <2>5, QueueLeaving DEF Inv
  <2> QED
    BY <2>2, <2>4, <2>6
<1> QED
  BY <1>1, Invariance, PTL
====
