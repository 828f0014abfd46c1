--------------------------- MODULE RegistryProofs ---------------------------
(***************************************************************************)
(* Proofs about Registry, for every set of addresses, names and types and  *)
(* every value of the limits.                                              *)
(***************************************************************************)
EXTENDS Registry, TLAPS

\* A client without a process is a detached one, in its type too, so that it
\* never has the terminal.
Processes ==
    /\ terminal.pid # 0
    /\ \A h \in Listed : /\ table[h].pid = 0 => "detached" \in table[h].max
                         /\ table[h].type # {} /\ "detached" \in table[h].max
                               => "detached" \in table[h].type

\* No two clients have one id.  An open request of a client whose requester is
\* in the table is addressed to it, and the client is fresh.
Asked ==
    /\ \A h \in Listed : /\ table[h].id <= born
                         /\ table[h].notify # NoHandle => table[h].open
                         /\ table[h].open => table[h].by \in 1..born
    /\ \A h, q \in Listed :
          /\ table[h].id = table[q].id => h = q
          /\ table[h].open /\ table[h].by = table[q].id
                => table[h].notify = q /\ table[h].fresh

\* The inductive invariant.  Each part but TypeOK needs others: names are those
\* of services too, services need the types of their owners, the terminal needs
\* Processes, and that requests are answered needs Asked.
Inv == /\ TypeOK
       /\ UniqueNames
       /\ ServicesOwned
       /\ MonitorsOwned
       /\ SignalInTime
       /\ TerminalListed
       /\ Processes
       /\ Asked

-----------------------------------------------------------------------------
(* What happens to the record of one client. *)

\* The request of c is closed in d, or kept while its requester is listed.
Closed(c, d) == d.notify = NoHandle /\ (d.open => c.open /\ c.notify \notin Listed)
Kept(c, d)   == d.notify \in {c.notify, NoHandle} /\ d.open = c.open
                /\ (c.notify \in Listed => d.notify = c.notify)

\* What never changes.
Same(c, d) == d.id = c.id /\ d.pid = c.pid /\ d.max = c.max /\ d.by = c.by

LEMMA ToldType ==
    ASSUME NEW c \in ClientRecord
    PROVE  /\ Told(c) \in ClientRecord /\ Same(c, Told(c)) /\ Closed(c, Told(c))
           /\ Told(c).type = c.type /\ Told(c).name = c.name
           /\ Told(c).fresh = c.fresh
BY DEF Told, Notice, ClientRecord, Same, Closed

LEMMA DroppedType ==
    ASSUME NEW c \in ClientRecord
    PROVE  /\ Dropped(c) \in ClientRecord /\ Same(c, Dropped(c)) /\ Closed(c, Dropped(c))
           /\ Dropped(c).type = c.type /\ Dropped(c).name = c.name
           /\ Dropped(c).fresh = c.fresh
BY DEF Dropped, ClientRecord, Same, Closed

LEMMA StrangerType ==
    ASSUME NEW c \in ClientRecord
    PROVE  LET d == [Dropped(c) EXCEPT !.type = {}, !.name = NoName]
           IN  /\ d \in ClientRecord /\ Same(c, d) /\ Closed(c, d)
               /\ d.type = {} /\ d.name = NoName /\ d.fresh = c.fresh
<1> DEFINE e == Dropped(c)
<1>1. e \in ClientRecord /\ Same(c, e) /\ Closed(c, e) /\ e.fresh = c.fresh
  BY DroppedType
<1> HIDE DEF e
<1>2. LET d == [e EXCEPT !.type = {}, !.name = NoName]
      IN  /\ d \in ClientRecord /\ Same(c, d) /\ Closed(c, d)
          /\ d.type = {} /\ d.name = NoName /\ d.fresh = c.fresh
  BY <1>1 DEF ClientRecord, AnyName, Same, Closed
<1> QED
  BY <1>2 DEF e

LEMMA ReadyType ==
    ASSUME NEW c \in ClientRecord
    PROVE  LET d == [Told(c) EXCEPT !.fresh = FALSE]
           IN  /\ d \in ClientRecord /\ Same(c, d) /\ Closed(c, d)
               /\ d.type = c.type /\ d.name = c.name /\ d.fresh = FALSE
<1> DEFINE e == Told(c)
<1>1. /\ e \in ClientRecord /\ Same(c, e) /\ Closed(c, e)
      /\ e.type = c.type /\ e.name = c.name
  BY ToldType
<1> HIDE DEF e
<1>2. LET d == [e EXCEPT !.fresh = FALSE]
      IN  /\ d \in ClientRecord /\ Same(c, d) /\ Closed(c, d)
          /\ d.type = c.type /\ d.name = c.name /\ d.fresh = FALSE
  BY <1>1 DEF ClientRecord, Same, Closed
<1> QED
  BY <1>2 DEF e

\* What registration makes of a client.
LEMMA RegisteredType ==
    ASSUME NEW c \in ClientRecord, NEW t \in Requests, NEW n \in AnyName,
           NEW disable \in BOOLEAN, Listed \subseteq Handles
    PROVE  LET d == Registered(c, t, n, disable)
           IN  /\ d \in ClientRecord /\ Same(c, d)
               /\ d.type = Type(t, c.max) /\ d.name = n
               /\ d.fresh = (c.fresh /\ disable)
               /\ IF c.fresh /\ disable THEN Kept(c, d) ELSE Closed(c, d)
<1> DEFINE e == [c EXCEPT !.type = Type(t, c.max), !.name = n]
<1>1. /\ e \in ClientRecord /\ Same(c, e)
      /\ e.type = Type(t, c.max) /\ e.name = n /\ e.fresh = c.fresh
      /\ e.notify = c.notify /\ e.open = c.open
  BY DEF ClientRecord, Type, Same
<1> HIDE DEF e
<1>2. CASE c.fresh /\ disable
  <2> DEFINE d == [e EXCEPT !.notify = IF @ \in Listed THEN @ ELSE NoHandle]
  <2>1. /\ d \in ClientRecord /\ Same(e, d) /\ Kept(e, d)
        /\ d.type = e.type /\ d.name = e.name /\ d.fresh = e.fresh
    BY <1>1 DEF ClientRecord, Same, Kept
  <2>2. Registered(c, t, n, disable) = d
    BY <1>2 DEF Registered, e
  <2> HIDE DEF d
  <2> QED
    BY <1>1, <1>2, <2>1, <2>2 DEF Same, Kept
<1>3. CASE ~(c.fresh /\ disable)
  <2>1. Registered(c, t, n, disable) = [Told(e) EXCEPT !.fresh = FALSE]
    BY <1>3 DEF Registered, e
  <2>2. LET d == [Told(e) EXCEPT !.fresh = FALSE]
        IN  /\ d \in ClientRecord /\ Same(e, d) /\ Closed(e, d)
            /\ d.type = e.type /\ d.name = e.name /\ d.fresh = FALSE
    BY <1>1, ReadyType
  <2> DEFINE d == Registered(c, t, n, disable)
  <2>3. /\ d \in ClientRecord /\ Same(e, d) /\ Closed(e, d)
        /\ d.type = e.type /\ d.name = e.name /\ d.fresh = FALSE
    BY <2>1, <2>2
  <2> HIDE DEF d
  <2>4. /\ d \in ClientRecord /\ Same(c, d) /\ Closed(c, d)
        /\ d.type = Type(t, c.max) /\ d.name = n /\ d.fresh = FALSE
    BY <1>1, <2>3 DEF Same, Closed
  <2> QED
    BY <1>3, <2>4 DEF d
<1> QED
  BY <1>2, <1>3

LEMMA NoticeType ==
    ASSUME TypeOK, NEW h \in Listed, NEW ok \in BOOLEAN
    PROVE  Notice(table[h], ok) \subseteq [about : 1..MaxBorn, to : 1..MaxBorn, ok : BOOLEAN]
BY DEF TypeOK, Notice, ClientRecord

\* The tables lose entries only.
LEMMA ResetShrinks ==
    ASSUME NEW h \in Listed, Reset(h)
    PROVE  services' \subseteq services /\ events' \subseteq events /\ exits' \subseteq exits
BY DEF Reset, Cleared, Unreported

\* The client at h is changed to d.
Changed(h, d) == /\ Listed' = Listed
                 /\ table'[h] = d
                 /\ d \in ClientRecord
                 /\ d.type \subseteq d.max
                 /\ Same(table[h], d)
                 /\ \A k \in Listed : k # h => table'[k] = table[k]

LEMMA ChangedTable ==
    ASSUME TypeOK, NEW h \in Listed, NEW d \in ClientRecord, d.type \subseteq d.max,
           Same(table[h], d), table' = [table EXCEPT ![h] = d]
    PROVE  Changed(h, d)
BY DEF TypeOK, Listed, Changed

\* No client leaves by a change of one.
LEMMA ChangedStays ==
    ASSUME NEW h \in Listed, NEW d, Changed(h, d)
    PROVE  \A k \in Listed : \A i : StaysListed(k, i) <=> table[k].id = i
BY DEF Changed, Same, StaysListed, Listed

\* Whoever withdraws services reports them.
LEMMA ReportedServices ==
    ASSUME NEW S, NEW M, NEW m \in Unreported(M, Reports(S)), NEW s \in S
    PROVE  ~(m.client = s.handle /\ m.name = s.name)
<1> DEFINE r == [handle |-> s.handle, name |-> s.name]
<1>1. r \in Reports(S) /\ r.handle = s.handle /\ r.name = s.name
  BY DEF Reports
<1> QED
  BY <1>1 DEF Unreported, Concerns

LEMMA ResetReports ==
    ASSUME NEW h \in Listed, Reset(h), NEW m \in exits', NEW s \in services \ services'
    PROVE  ~(m.client = s.handle /\ m.name = s.name)
<1> DEFINE mine == IF Has(h, "resource") THEN OwnedBy({h}, services) ELSE {}
<1>1. s \in mine /\ m \in Unreported(Cleared({h}, exits), Reports(mine))
  BY DEF Reset
<1> HIDE DEF mine
<1> QED
  BY <1>1, ReportedServices

LEMMA ChangedAnswers ==
    ASSUME Inv, NEW h \in Listed, NEW d, Changed(h, d), NEW ok,
           \/ notices' = Notice(table[h], ok)
           \/ notices' = {} /\ (table[h].fresh => d.fresh)
    PROVE  Answers
<1>1. ASSUME NEW k \in Listed, table[k].open,
             NEW q \in Listed, StaysListed(q, table[k].by),
             ~(StaysListed(k, table[k].id) /\ table'[k].fresh)
      PROVE  \E n \in notices' : n.about = table[k].id /\ n.to = table[k].by
  <2>1. table[q].id = table[k].by /\ StaysListed(k, table[k].id)
    BY <1>1, ChangedStays
  <2>2. table[k].notify = q /\ table[k].fresh
    BY <1>1, <2>1 DEF Inv, Asked
  <2>3. k = h /\ ~d.fresh
    BY <1>1, <2>1, <2>2 DEF Changed
  <2> DEFINE n == [about |-> table[h].id, to |-> table[q].id, ok |-> ok]
  <2>4. n \in notices'
    BY <2>2, <2>3 DEF Notice
  <2>5. n.about = table[k].id /\ n.to = table[k].by
    BY <2>1, <2>3
  <2> QED
    BY <2>4, <2>5
<1>2. ASSUME NEW n \in notices'
      PROVE  n.about = table[h].id /\ table[h].open
  <2>1. table[h].notify \in Listed /\ n.about = table[h].id
    BY <1>2 DEF Notice
  <2> QED
    BY <2>1, RegistryAssumption DEF Inv, TypeOK, Asked
<1> QED
  BY <1>1, <1>2 DEF Answers

-----------------------------------------------------------------------------
(* Operations on one client's record. *)

LEMMA RegisterRejectedTable ==
    ASSUME Inv, NEW h \in Handles, NEW t \in Requests, NEW n \in AnyName,
           RegisterRejected(h, t, n)
    PROVE  h \in Listed /\
           \E d : /\ Changed(h, d)
                  /\ d.type = table[h].type /\ d.name = table[h].name /\ d.fresh = table[h].fresh
                  /\ Closed(table[h], d)
<1> DEFINE d == Told(table[h])
<1>1. h \in Listed /\ table[h] \in ClientRecord /\ Listed \subseteq Handles
  BY DEF RegisterRejected, Inv, TypeOK
<1>2. /\ d \in ClientRecord /\ Same(table[h], d)
      /\ d.type = table[h].type /\ d.name = table[h].name /\ d.fresh = table[h].fresh
      /\ Closed(table[h], d)
  BY <1>1, ToldType
<1>3. table' = [table EXCEPT ![h] = d]
  BY DEF RegisterRejected
<1>4. d.type \subseteq d.max
  BY <1>1, <1>2 DEF Inv, TypeOK, Type, Same
<1> HIDE DEF d
<1> QED
  BY <1>1, <1>2, <1>3, <1>4, ChangedTable DEF Inv

LEMMA RegisterRejectedStep ==
    ASSUME Inv, NEW h \in Handles, NEW t \in Requests, NEW n \in AnyName,
           RegisterRejected(h, t, n)
    PROVE  Inv' /\ ReportsExits /\ Answers
<1>1. h \in Listed
  BY RegisterRejectedTable
<1>2. PICK d : /\ Changed(h, d)
               /\ d.type = table[h].type /\ d.name = table[h].name /\ d.fresh = table[h].fresh
               /\ Closed(table[h], d)
  BY RegisterRejectedTable
<1>3. services' \subseteq services /\ events' \subseteq events /\ exits' \subseteq exits
  BY <1>1, ResetShrinks DEF RegisterRejected
<1>4. TypeOK'
  <2>1. notices' \subseteq [about : 1..MaxBorn, to : 1..MaxBorn, ok : BOOLEAN]
    BY <1>1, NoticeType DEF RegisterRejected, Inv
  <2>2. terminal' = terminal /\ notifying' \in BOOLEAN /\ exiting' = exiting /\ born' = born
    BY DEF RegisterRejected, Inv, TypeOK, StillNotifying, Fresh
  <2> QED
    BY <1>1, <1>2, <1>3, <2>1, <2>2 DEF Inv, TypeOK, Changed
<1>5. UniqueNames'
  BY <1>1, <1>2, <1>3 DEF Changed, Inv, UniqueNames
<1>6. ServicesOwned'
  BY <1>1, <1>2, <1>3 DEF RegisterRejected, Reset, OwnedBy, Has, Changed, Same, Inv,
                          ServicesOwned, IsListed, tables
<1>7. MonitorsOwned'
  BY <1>1, <1>2, <1>3 DEF Changed, Same, Inv, MonitorsOwned, IsListed
<1>8. SignalInTime'
  BY <1>1, <1>2 DEF RegisterRejected, StillNotifying, Changed, Inv, SignalInTime, Fresh
<1>9. TerminalListed'
  BY <1>1, <1>2 DEF RegisterRejected, Changed, Same, Inv, TerminalListed
<1>10. Processes'
  <2>1. terminal' = terminal
    BY DEF RegisterRejected
  <2> QED
    BY <1>1, <1>2, <2>1 DEF Changed, Same, Inv, Processes, Type
<1>11. Asked'
  <2>1. born' = born
    BY DEF RegisterRejected
  <2> QED
    BY <1>1, <1>2, <2>1, RegistryAssumption DEF Changed, Same, Closed, Kept, Inv, TypeOK, Asked
<1>12. ReportsExits
  <2>1. \A m \in exits', s \in services \ services' : ~(m.client = s.handle /\ m.name = s.name)
    BY <1>1, ResetReports DEF RegisterRejected
  <2>2. \A m \in exits : IsListed(m.client, m.of) => StaysListed(m.client, m.of)
    BY <1>1, <1>2, ChangedStays DEF IsListed
  <2> QED
    BY <2>1, <2>2 DEF ReportsExits
<1>13. Answers
  BY <1>1, <1>2, ChangedAnswers DEF RegisterRejected
<1> QED
  BY <1>4, <1>5, <1>6, <1>7, <1>8, <1>9, <1>10, <1>11, <1>12, <1>13 DEF Inv

LEMMA DeregisterNamedTable ==
    ASSUME Inv, NEW h \in Handles, NEW n \in Names, DeregisterNamed(h, n)
    PROVE  h \in Listed /\
           \E d : /\ Changed(h, d)
                  /\ d.type = table[h].type /\ d.name = table[h].name /\ d.fresh = table[h].fresh
                  /\ Closed(table[h], d)
<1> DEFINE d == Dropped(table[h])
<1>1. h \in Listed /\ table[h] \in ClientRecord /\ Listed \subseteq Handles
  BY DEF DeregisterNamed, Inv, TypeOK
<1>2. /\ d \in ClientRecord /\ Same(table[h], d)
      /\ d.type = table[h].type /\ d.name = table[h].name /\ d.fresh = table[h].fresh
      /\ Closed(table[h], d)
  BY <1>1, DroppedType
<1>3. table' = [table EXCEPT ![h] = d]
  BY DEF DeregisterNamed
<1>4. d.type \subseteq d.max
  BY <1>1, <1>2 DEF Inv, TypeOK, Type, Same
<1> HIDE DEF d
<1> QED
  BY <1>1, <1>2, <1>3, <1>4, ChangedTable DEF Inv

LEMMA DeregisterNamedStep ==
    ASSUME Inv, NEW h \in Handles, NEW n \in Names, DeregisterNamed(h, n)
    PROVE  Inv' /\ ReportsExits /\ Answers
<1>1. h \in Listed
  BY DeregisterNamedTable
<1>2. PICK d : /\ Changed(h, d)
               /\ d.type = table[h].type /\ d.name = table[h].name /\ d.fresh = table[h].fresh
               /\ Closed(table[h], d)
  BY DeregisterNamedTable
<1>3. services' \subseteq services /\ events' \subseteq events /\ exits' \subseteq exits
  BY <1>1, ResetShrinks DEF DeregisterNamed
<1>4. TypeOK'
  <2>1. notices' \subseteq [about : 1..MaxBorn, to : 1..MaxBorn, ok : BOOLEAN]
    BY DEF DeregisterNamed
  <2>2. terminal' = terminal /\ notifying' \in BOOLEAN /\ exiting' = exiting /\ born' = born
    BY DEF DeregisterNamed, Inv, TypeOK, StillNotifying, Fresh
  <2> QED
    BY <1>1, <1>2, <1>3, <2>1, <2>2 DEF Inv, TypeOK, Changed
<1>5. UniqueNames'
  BY <1>1, <1>2, <1>3 DEF Changed, Inv, UniqueNames
<1>6. ServicesOwned'
  BY <1>1, <1>2, <1>3 DEF DeregisterNamed, Reset, OwnedBy, Has, Changed, Same, Inv,
                          ServicesOwned, IsListed, tables
<1>7. MonitorsOwned'
  BY <1>1, <1>2, <1>3 DEF Changed, Same, Inv, MonitorsOwned, IsListed
<1>8. SignalInTime'
  BY <1>1, <1>2 DEF DeregisterNamed, StillNotifying, Changed, Inv, SignalInTime, Fresh
<1>9. TerminalListed'
  BY <1>1, <1>2 DEF DeregisterNamed, Changed, Same, Inv, TerminalListed
<1>10. Processes'
  <2>1. terminal' = terminal
    BY DEF DeregisterNamed
  <2> QED
    BY <1>1, <1>2, <2>1 DEF Changed, Same, Inv, Processes, Type
<1>11. Asked'
  <2>1. born' = born
    BY DEF DeregisterNamed
  <2> QED
    BY <1>1, <1>2, <2>1, RegistryAssumption DEF Changed, Same, Closed, Kept, Inv, TypeOK, Asked
<1>12. ReportsExits
  <2>1. \A m \in exits', s \in services \ services' : ~(m.client = s.handle /\ m.name = s.name)
    BY <1>1, ResetReports DEF DeregisterNamed
  <2>2. \A m \in exits : IsListed(m.client, m.of) => StaysListed(m.client, m.of)
    BY <1>1, <1>2, ChangedStays DEF IsListed
  <2> QED
    BY <2>1, <2>2 DEF ReportsExits
<1>13. Answers
  BY <1>1, <1>2, ChangedAnswers DEF DeregisterNamed
<1> QED
  BY <1>4, <1>5, <1>6, <1>7, <1>8, <1>9, <1>10, <1>11, <1>12, <1>13 DEF Inv

LEMMA DeregisterTable ==
    ASSUME Inv, NEW h \in Handles, Deregister(h)
    PROVE  h \in Listed /\
           \E d : /\ Changed(h, d)
                  /\ d.type = {} /\ d.name = NoName /\ d.fresh = table[h].fresh
                  /\ Closed(table[h], d)
<1> DEFINE d == [Dropped(table[h]) EXCEPT !.type = {}, !.name = NoName]
<1>1. h \in Listed /\ table[h] \in ClientRecord /\ Listed \subseteq Handles
  BY DEF Deregister, Inv, TypeOK
<1>2. /\ d \in ClientRecord /\ Same(table[h], d)
      /\ d.type = {} /\ d.name = NoName /\ d.fresh = table[h].fresh
      /\ Closed(table[h], d)
  BY <1>1, StrangerType
<1>3. table' = [table EXCEPT ![h] = d]
  BY DEF Deregister
<1>4. d.type \subseteq d.max
  BY <1>1, <1>2 DEF Inv, TypeOK, Type, Same
<1> HIDE DEF d
<1> QED
  BY <1>1, <1>2, <1>3, <1>4, ChangedTable DEF Inv

LEMMA DeregisterStep ==
    ASSUME Inv, NEW h \in Handles, Deregister(h)
    PROVE  Inv' /\ ReportsExits /\ Answers
<1>1. h \in Listed
  BY DeregisterTable
<1>2. PICK d : /\ Changed(h, d)
               /\ d.type = {} /\ d.name = NoName /\ d.fresh = table[h].fresh
               /\ Closed(table[h], d)
  BY DeregisterTable
<1>3. services' \subseteq services /\ events' \subseteq events /\ exits' \subseteq exits
  BY <1>1, ResetShrinks DEF Deregister
<1>4. TypeOK'
  <2>1. notices' \subseteq [about : 1..MaxBorn, to : 1..MaxBorn, ok : BOOLEAN]
    BY DEF Deregister
  <2>2. terminal' = terminal /\ notifying' \in BOOLEAN /\ exiting' = exiting /\ born' = born
    BY DEF Deregister, Inv, TypeOK, StillNotifying, Fresh
  <2> QED
    BY <1>1, <1>2, <1>3, <2>1, <2>2 DEF Inv, TypeOK, Changed
<1>5. UniqueNames'
  BY <1>1, <1>2, <1>3 DEF Changed, Inv, UniqueNames
<1>6. ServicesOwned'
  BY <1>1, <1>2, <1>3 DEF Deregister, Reset, OwnedBy, Has, Changed, Same, Inv,
                          ServicesOwned, IsListed, tables
<1>7. MonitorsOwned'
  BY <1>1, <1>2, <1>3 DEF Changed, Same, Inv, MonitorsOwned, IsListed
<1>8. SignalInTime'
  BY <1>1, <1>2 DEF Deregister, StillNotifying, Changed, Inv, SignalInTime, Fresh
<1>9. TerminalListed'
  BY <1>1, <1>2 DEF Deregister, Changed, Same, Inv, TerminalListed
<1>10. Processes'
  <2>1. terminal' = terminal
    BY DEF Deregister
  <2> QED
    BY <1>1, <1>2, <2>1 DEF Changed, Same, Inv, Processes, Type
<1>11. Asked'
  <2>1. born' = born
    BY DEF Deregister
  <2> QED
    BY <1>1, <1>2, <2>1, RegistryAssumption DEF Changed, Same, Closed, Kept, Inv, TypeOK, Asked
<1>12. ReportsExits
  <2>1. \A m \in exits', s \in services \ services' : ~(m.client = s.handle /\ m.name = s.name)
    BY <1>1, ResetReports DEF Deregister
  <2>2. \A m \in exits : IsListed(m.client, m.of) => StaysListed(m.client, m.of)
    BY <1>1, <1>2, ChangedStays DEF IsListed
  <2> QED
    BY <2>1, <2>2 DEF ReportsExits
<1>13. Answers
  BY <1>1, <1>2, ChangedAnswers DEF Deregister
<1> QED
  BY <1>4, <1>5, <1>6, <1>7, <1>8, <1>9, <1>10, <1>11, <1>12, <1>13 DEF Inv

LEMMA RegisterTable ==
    ASSUME Inv, NEW h \in Handles, NEW t \in Requests, NEW n \in AnyName, NEW disable \in BOOLEAN,
           Register(h, t, n, disable)
    PROVE  h \in Listed /\
           \E d : /\ Changed(h, d)
                  /\ d.type = Type(t, table[h].max) /\ d.name = n
                  /\ d.fresh = (table[h].fresh /\ disable)
                  /\ IF table[h].fresh /\ disable THEN Kept(table[h], d) ELSE Closed(table[h], d)
<1> DEFINE d == Registered(table[h], t, n, disable)
<1>1. h \in Listed /\ table[h] \in ClientRecord /\ Listed \subseteq Handles
  BY DEF Register, Inv, TypeOK
<1>2. /\ d \in ClientRecord /\ Same(table[h], d)
      /\ d.type = Type(t, table[h].max) /\ d.name = n
      /\ d.fresh = (table[h].fresh /\ disable)
      /\ IF table[h].fresh /\ disable THEN Kept(table[h], d) ELSE Closed(table[h], d)
  BY <1>1, RegisteredType
<1>3. table' = [table EXCEPT ![h] = d]
  BY DEF Register
<1>4. d.type \subseteq d.max
  BY <1>1, <1>2 DEF Inv, TypeOK, Type, Same
<1> HIDE DEF d
<1> QED
  BY <1>1, <1>2, <1>3, <1>4, ChangedTable DEF Inv

LEMMA RegisterStep ==
    ASSUME Inv, NEW h \in Handles, NEW t \in Requests, NEW n \in AnyName, NEW disable \in BOOLEAN,
           Register(h, t, n, disable)
    PROVE  Inv' /\ ReportsExits /\ Answers
<1>1. h \in Listed
  BY RegisterTable
<1>2. PICK d : /\ Changed(h, d)
               /\ d.type = Type(t, table[h].max) /\ d.name = n
               /\ d.fresh = (table[h].fresh /\ disable)
               /\ IF table[h].fresh /\ disable THEN Kept(table[h], d) ELSE Closed(table[h], d)
  BY RegisterTable
<1>3. services' \subseteq services /\ events' \subseteq events /\ exits' \subseteq exits
  BY <1>1, ResetShrinks DEF Register
<1>4. TypeOK'
  <2>1. notices' \subseteq [about : 1..MaxBorn, to : 1..MaxBorn, ok : BOOLEAN]
    BY <1>1, NoticeType DEF Register, Inv
  <2>2. terminal' = terminal /\ notifying' \in BOOLEAN /\ exiting' = exiting /\ born' = born
    BY DEF Register, Inv, TypeOK, StillNotifying, Fresh
  <2> QED
    BY <1>1, <1>2, <1>3, <2>1, <2>2 DEF Inv, TypeOK, Changed
<1>5. UniqueNames'
  BY <1>1, <1>2, <1>3 DEF Register, Changed, Inv, UniqueNames, NameFree, UsedNames
<1>6. ServicesOwned'
  BY <1>1, <1>2, <1>3 DEF Register, Reset, OwnedBy, Has, Changed, Same, Inv, ServicesOwned,
                          IsListed, tables
<1>7. MonitorsOwned'
  BY <1>1, <1>2, <1>3 DEF Changed, Same, Inv, MonitorsOwned, IsListed
<1>8. SignalInTime'
  BY <1>1, <1>2 DEF Register, StillNotifying, Changed, Inv, SignalInTime, Fresh
<1>9. TerminalListed'
  BY <1>1, <1>2 DEF Register, Changed, Same, Inv, TerminalListed
<1>10. Processes'
  <2>1. terminal' = terminal
    BY DEF Register
  <2> QED
    BY <1>1, <1>2, <2>1 DEF Changed, Same, Inv, Processes, Type
<1>11. Asked'
  <2>1. born' = born
    BY DEF Register
  <2> QED
    BY <1>1, <1>2, <2>1, RegistryAssumption DEF Changed, Same, Closed, Kept, Inv, TypeOK, Asked
<1>12. ReportsExits
  <2>1. \A m \in exits', s \in services \ services' : ~(m.client = s.handle /\ m.name = s.name)
    BY <1>1, ResetReports DEF Register
  <2>2. \A m \in exits : IsListed(m.client, m.of) => StaysListed(m.client, m.of)
    BY <1>1, <1>2, ChangedStays DEF IsListed
  <2> QED
    BY <2>1, <2>2 DEF ReportsExits
<1>13. Answers
  BY <1>1, <1>2, ChangedAnswers DEF Register
<1> QED
  BY <1>4, <1>5, <1>6, <1>7, <1>8, <1>9, <1>10, <1>11, <1>12, <1>13 DEF Inv

LEMMA IndicateReadyTable ==
    ASSUME Inv, NEW h \in Handles, IndicateReady(h)
    PROVE  h \in Listed /\
           \E d : /\ Changed(h, d)
                  /\ d.type = table[h].type /\ d.name = table[h].name /\ d.fresh = FALSE
                  /\ Closed(table[h], d)
<1> DEFINE d == [Told(table[h]) EXCEPT !.fresh = FALSE]
<1>1. h \in Listed /\ table[h] \in ClientRecord /\ Listed \subseteq Handles
  BY DEF IndicateReady, Inv, TypeOK
<1>2. /\ d \in ClientRecord /\ Same(table[h], d)
      /\ d.type = table[h].type /\ d.name = table[h].name /\ d.fresh = FALSE
      /\ Closed(table[h], d)
  BY <1>1, ReadyType
<1>3. table' = [table EXCEPT ![h] = d]
  BY DEF IndicateReady
<1>4. d.type \subseteq d.max
  BY <1>1, <1>2 DEF Inv, TypeOK, Type, Same
<1> HIDE DEF d
<1> QED
  BY <1>1, <1>2, <1>3, <1>4, ChangedTable DEF Inv

LEMMA IndicateReadyStep ==
    ASSUME Inv, NEW h \in Handles, IndicateReady(h)
    PROVE  Inv' /\ ReportsExits /\ Answers
<1>1. h \in Listed
  BY IndicateReadyTable
<1>2. PICK d : /\ Changed(h, d)
               /\ d.type = table[h].type /\ d.name = table[h].name /\ d.fresh = FALSE
               /\ Closed(table[h], d)
  BY IndicateReadyTable
<1>3. services' \subseteq services /\ events' \subseteq events /\ exits' \subseteq exits
  BY DEF IndicateReady, tables
<1>4. TypeOK'
  <2>1. notices' \subseteq [about : 1..MaxBorn, to : 1..MaxBorn, ok : BOOLEAN]
    BY <1>1, NoticeType DEF IndicateReady, Inv
  <2>2. terminal' = terminal /\ notifying' \in BOOLEAN /\ exiting' = exiting /\ born' = born
    BY DEF IndicateReady, Inv, TypeOK, StillNotifying, Fresh
  <2> QED
    BY <1>1, <1>2, <1>3, <2>1, <2>2 DEF Inv, TypeOK, Changed
<1>5. UniqueNames'
  BY <1>1, <1>2, <1>3 DEF Changed, Inv, UniqueNames
<1>6. ServicesOwned'
  BY <1>1, <1>2, <1>3 DEF IndicateReady, Reset, OwnedBy, Has, Changed, Same, Inv,
                          ServicesOwned, IsListed, tables
<1>7. MonitorsOwned'
  BY <1>1, <1>2, <1>3 DEF Changed, Same, Inv, MonitorsOwned, IsListed
<1>8. SignalInTime'
  BY <1>1, <1>2 DEF IndicateReady, StillNotifying, Changed, Inv, SignalInTime, Fresh
<1>9. TerminalListed'
  BY <1>1, <1>2 DEF IndicateReady, Changed, Same, Inv, TerminalListed
<1>10. Processes'
  <2>1. terminal' = terminal
    BY DEF IndicateReady
  <2> QED
    BY <1>1, <1>2, <2>1 DEF Changed, Same, Inv, Processes, Type
<1>11. Asked'
  <2>1. born' = born
    BY DEF IndicateReady
  <2> QED
    BY <1>1, <1>2, <2>1, RegistryAssumption DEF Changed, Same, Closed, Kept, Inv, TypeOK, Asked
<1>12. ReportsExits
  <2>1. \A m \in exits', s \in services \ services' : ~(m.client = s.handle /\ m.name = s.name)
    BY DEF IndicateReady, tables
  <2>2. \A m \in exits : IsListed(m.client, m.of) => StaysListed(m.client, m.of)
    BY <1>1, <1>2, ChangedStays DEF IsListed
  <2> QED
    BY <2>1, <2>2 DEF ReportsExits
<1>13. Answers
  BY <1>1, <1>2, ChangedAnswers DEF IndicateReady
<1> QED
  BY <1>4, <1>5, <1>6, <1>7, <1>8, <1>9, <1>10, <1>11, <1>12, <1>13 DEF Inv

-----------------------------------------------------------------------------
(* Operations that leave the table alone. *)

LEMMA TableKept ==
    ASSUME Inv, table' = table, born' = born, notices' = {}
    PROVE  /\ Asked'
           /\ Answers
           /\ \A m \in exits : IsListed(m.client, m.of) => StaysListed(m.client, m.of)
           /\ notifying' = notifying => SignalInTime'
           /\ terminal' = terminal => TerminalListed' /\ Processes'
<1>1. Asked'
  BY DEF Inv, Asked, Listed
<1>2. Answers
  <2>1. ASSUME NEW h \in Listed, table[h].open,
               NEW q \in Listed, StaysListed(q, table[h].by),
               ~(StaysListed(h, table[h].id) /\ table'[h].fresh)
        PROVE  FALSE
    BY <2>1 DEF Inv, Asked, StaysListed, Listed
  <2> QED
    BY <2>1 DEF Answers
<1>3. \A m \in exits : IsListed(m.client, m.of) => StaysListed(m.client, m.of)
  BY DEF IsListed, StaysListed, Listed
<1>4. notifying' = notifying => SignalInTime'
  BY DEF Inv, SignalInTime, Fresh
<1>5. terminal' = terminal => TerminalListed' /\ Processes'
  BY DEF Inv, TerminalListed, Processes, Listed
<1> QED
  BY <1>1, <1>2, <1>3, <1>4, <1>5

LEMMA RegisterServiceStep ==
    ASSUME Inv, NEW h \in Handles, NEW n \in AnyName, NEW remote \in BOOLEAN,
           RegisterService(h, n, remote)
    PROVE  Inv' /\ ReportsExits /\ Answers
<1>1. TypeOK'
  BY RegistryAssumption DEF RegisterService, ClientRecord, Has, Inv, TypeOK, Listed
<1>2. UniqueNames'
  BY DEF RegisterService, UsedNames, Listed, Inv, UniqueNames
<1>3. ServicesOwned'
  BY DEF RegisterService, Has, Listed, Inv, ServicesOwned, IsListed
<1>4. MonitorsOwned'
  BY DEF RegisterService, Listed, Inv, MonitorsOwned, IsListed
<1>5. SignalInTime' /\ Asked' /\ Answers
  BY TableKept DEF RegisterService
<1>6. TerminalListed' /\ Processes'
  BY TableKept DEF RegisterService
<1>7. ReportsExits
  <2>1. \A m \in exits', s \in services \ services' : ~(m.client = s.handle /\ m.name = s.name)
    BY DEF RegisterService
  <2>2. \A m \in exits : IsListed(m.client, m.of) => StaysListed(m.client, m.of)
    BY TableKept DEF RegisterService
  <2> QED
    BY <2>1, <2>2 DEF ReportsExits
<1> QED
  BY <1>1, <1>2, <1>3, <1>4, <1>5, <1>6, <1>7 DEF Inv

LEMMA WithdrawStep ==
    ASSUME Inv, NEW h \in Handles, NEW S \in SUBSET services, Withdraw(h, S)
    PROVE  Inv' /\ ReportsExits /\ Answers
<1>1. TypeOK'
  BY RegistryAssumption DEF Withdraw, Unreported, Inv, TypeOK, Listed
<1>2. UniqueNames'
  BY DEF Withdraw, Listed, Inv, UniqueNames
<1>3. ServicesOwned'
  BY DEF Withdraw, Has, Listed, Inv, ServicesOwned, IsListed
<1>4. MonitorsOwned'
  BY DEF Withdraw, Unreported, Listed, Inv, MonitorsOwned, IsListed
<1>5. SignalInTime' /\ Asked' /\ Answers
  BY TableKept DEF Withdraw
<1>6. TerminalListed' /\ Processes'
  BY TableKept DEF Withdraw
<1>7. ReportsExits
  <2>1. \A m \in exits', s \in services \ services' : ~(m.client = s.handle /\ m.name = s.name)
    BY ReportedServices DEF Withdraw
  <2>2. \A m \in exits : IsListed(m.client, m.of) => StaysListed(m.client, m.of)
    BY TableKept DEF Withdraw
  <2> QED
    BY <2>1, <2>2 DEF ReportsExits
<1> QED
  BY <1>1, <1>2, <1>3, <1>4, <1>5, <1>6, <1>7 DEF Inv

LEMMA SetMonitorTypesStep ==
    ASSUME Inv, NEW h \in Handles, NEW some \in BOOLEAN, SetMonitorTypes(h, some)
    PROVE  Inv' /\ ReportsExits /\ Answers
<1>1. TypeOK'
  BY RegistryAssumption DEF SetMonitorTypes, Cleared, ClientRecord, Has, Inv, TypeOK, Listed
<1>2. UniqueNames'
  BY DEF SetMonitorTypes, Listed, Inv, UniqueNames
<1>3. ServicesOwned'
  BY DEF SetMonitorTypes, Has, Listed, Inv, ServicesOwned, IsListed
<1>4. MonitorsOwned'
  BY DEF SetMonitorTypes, Cleared, Has, Listed, Inv, MonitorsOwned, IsListed
<1>5. SignalInTime' /\ Asked' /\ Answers
  BY TableKept DEF SetMonitorTypes
<1>6. TerminalListed' /\ Processes'
  BY TableKept DEF SetMonitorTypes
<1>7. ReportsExits
  <2>1. \A m \in exits', s \in services \ services' : ~(m.client = s.handle /\ m.name = s.name)
    BY DEF SetMonitorTypes
  <2>2. \A m \in exits : IsListed(m.client, m.of) => StaysListed(m.client, m.of)
    BY TableKept DEF SetMonitorTypes
  <2> QED
    BY <2>1, <2>2 DEF ReportsExits
<1> QED
  BY <1>1, <1>2, <1>3, <1>4, <1>5, <1>6, <1>7 DEF Inv

LEMMA DeregisterMonitorStep ==
    ASSUME Inv, NEW h \in Handles, DeregisterMonitor(h)
    PROVE  Inv' /\ ReportsExits /\ Answers
<1>1. TypeOK'
  BY RegistryAssumption DEF DeregisterMonitor, Cleared, Inv, TypeOK, Listed
<1>2. UniqueNames'
  BY DEF DeregisterMonitor, Listed, Inv, UniqueNames
<1>3. ServicesOwned'
  BY DEF DeregisterMonitor, Has, Listed, Inv, ServicesOwned, IsListed
<1>4. MonitorsOwned'
  BY DEF DeregisterMonitor, Cleared, Listed, Inv, MonitorsOwned, IsListed
<1>5. SignalInTime' /\ Asked' /\ Answers
  BY TableKept DEF DeregisterMonitor
<1>6. TerminalListed' /\ Processes'
  BY TableKept DEF DeregisterMonitor
<1>7. ReportsExits
  <2>1. \A m \in exits', s \in services \ services' : ~(m.client = s.handle /\ m.name = s.name)
    BY DEF DeregisterMonitor
  <2>2. \A m \in exits : IsListed(m.client, m.of) => StaysListed(m.client, m.of)
    BY TableKept DEF DeregisterMonitor
  <2> QED
    BY <2>1, <2>2 DEF ReportsExits
<1> QED
  BY <1>1, <1>2, <1>3, <1>4, <1>5, <1>6, <1>7 DEF Inv

LEMMA MonitorDisconnectStep ==
    ASSUME Inv, NEW h \in Handles, NEW n \in Names, MonitorDisconnect(h, n)
    PROVE  Inv' /\ ReportsExits /\ Answers
<1>1. TypeOK'
  BY RegistryAssumption DEF MonitorDisconnect, ClientRecord, Has, Inv, TypeOK, Listed
<1>2. UniqueNames'
  BY DEF MonitorDisconnect, Listed, Inv, UniqueNames
<1>3. ServicesOwned'
  BY DEF MonitorDisconnect, Has, Listed, Inv, ServicesOwned, IsListed
<1>4. MonitorsOwned'
  BY DEF MonitorDisconnect, Has, Listed, Inv, MonitorsOwned, IsListed
<1>5. SignalInTime' /\ Asked' /\ Answers
  BY TableKept DEF MonitorDisconnect
<1>6. TerminalListed' /\ Processes'
  BY TableKept DEF MonitorDisconnect
<1>7. ReportsExits
  <2>1. \A m \in exits', s \in services \ services' : ~(m.client = s.handle /\ m.name = s.name)
    BY DEF MonitorDisconnect
  <2>2. \A m \in exits : IsListed(m.client, m.of) => StaysListed(m.client, m.of)
    BY TableKept DEF MonitorDisconnect
  <2> QED
    BY <2>1, <2>2 DEF ReportsExits
<1> QED
  BY <1>1, <1>2, <1>3, <1>4, <1>5, <1>6, <1>7 DEF Inv

LEMMA UnmonitorDisconnectStep ==
    ASSUME Inv, NEW h \in Handles, NEW n \in Names, UnmonitorDisconnect(h, n)
    PROVE  Inv' /\ ReportsExits /\ Answers
<1>1. TypeOK'
  BY RegistryAssumption DEF UnmonitorDisconnect, Inv, TypeOK, Listed
<1>2. UniqueNames'
  BY DEF UnmonitorDisconnect, Listed, Inv, UniqueNames
<1>3. ServicesOwned'
  BY DEF UnmonitorDisconnect, Has, Listed, Inv, ServicesOwned, IsListed
<1>4. MonitorsOwned'
  BY DEF UnmonitorDisconnect, Listed, Inv, MonitorsOwned, IsListed
<1>5. SignalInTime' /\ Asked' /\ Answers
  BY TableKept DEF UnmonitorDisconnect
<1>6. TerminalListed' /\ Processes'
  BY TableKept DEF UnmonitorDisconnect
<1>7. ReportsExits
  <2>1. \A m \in exits', s \in services \ services' : ~(m.client = s.handle /\ m.name = s.name)
    BY DEF UnmonitorDisconnect
  <2>2. \A m \in exits : IsListed(m.client, m.of) => StaysListed(m.client, m.of)
    BY TableKept DEF UnmonitorDisconnect
  <2> QED
    BY <2>1, <2>2 DEF ReportsExits
<1> QED
  BY <1>1, <1>2, <1>3, <1>4, <1>5, <1>6, <1>7 DEF Inv

LEMMA TerminateServerStep ==
    ASSUME Inv, NEW q \in Handles, TerminateServer(q)
    PROVE  Inv' /\ ReportsExits /\ Answers
<1>1. TypeOK'
  BY RegistryAssumption DEF TerminateServer, tables, Inv, TypeOK, Listed
<1>2. UniqueNames'
  BY DEF TerminateServer, tables, Listed, Inv, UniqueNames
<1>3. ServicesOwned'
  BY DEF TerminateServer, tables, Has, Listed, Inv, ServicesOwned, IsListed
<1>4. MonitorsOwned'
  BY DEF TerminateServer, tables, Listed, Inv, MonitorsOwned, IsListed
<1>5. SignalInTime' /\ Asked' /\ Answers
  BY TableKept DEF TerminateServer
<1>6. TerminalListed' /\ Processes'
  BY TableKept DEF TerminateServer
<1>7. ReportsExits
  <2>1. \A m \in exits', s \in services \ services' : ~(m.client = s.handle /\ m.name = s.name)
    BY DEF TerminateServer, tables
  <2>2. \A m \in exits : IsListed(m.client, m.of) => StaysListed(m.client, m.of)
    BY TableKept DEF TerminateServer
  <2> QED
    BY <2>1, <2>2 DEF ReportsExits
<1> QED
  BY <1>1, <1>2, <1>3, <1>4, <1>5, <1>6, <1>7 DEF Inv

LEMMA RequestTerminalStep ==
    ASSUME Inv, NEW h \in Handles, NEW higher \in BOOLEAN, RequestTerminal(h, higher)
    PROVE  Inv' /\ ReportsExits /\ Answers
<1>1. TypeOK'
  BY RegistryAssumption DEF RequestTerminal, tables, ClientRecord, Inv, TypeOK, Listed
<1>2. UniqueNames'
  BY DEF RequestTerminal, tables, Listed, Inv, UniqueNames
<1>3. ServicesOwned'
  BY DEF RequestTerminal, tables, Has, Listed, Inv, ServicesOwned, IsListed
<1>4. MonitorsOwned'
  BY DEF RequestTerminal, tables, Listed, Inv, MonitorsOwned, IsListed
<1>5. SignalInTime' /\ Asked' /\ Answers
  BY TableKept DEF RequestTerminal
<1>6. TerminalListed' /\ Processes'
  <2>1. h \in Listed /\ table[h].type # {} /\ "detached" \notin table[h].type
    BY DEF RequestTerminal
  <2>2. table[h].pid # 0
    BY <2>1 DEF Inv, Processes
  <2> QED
    BY <2>1, <2>2 DEF RequestTerminal, Inv, TerminalListed, Processes, Listed
<1>7. ReportsExits
  <2>1. \A m \in exits', s \in services \ services' : ~(m.client = s.handle /\ m.name = s.name)
    BY DEF RequestTerminal, tables
  <2>2. \A m \in exits : IsListed(m.client, m.of) => StaysListed(m.client, m.of)
    BY TableKept DEF RequestTerminal
  <2> QED
    BY <2>1, <2>2 DEF ReportsExits
<1> QED
  BY <1>1, <1>2, <1>3, <1>4, <1>5, <1>6, <1>7 DEF Inv

LEMMA ReturnTerminalStep ==
    ASSUME Inv, NEW h \in Handles, ReturnTerminal(h)
    PROVE  Inv' /\ ReportsExits /\ Answers
<1>1. TypeOK'
  BY RegistryAssumption DEF ReturnTerminal, tables, Free, Flags, Inv, TypeOK, Listed
<1>2. UniqueNames'
  BY DEF ReturnTerminal, tables, Listed, Inv, UniqueNames
<1>3. ServicesOwned'
  BY DEF ReturnTerminal, tables, Has, Listed, Inv, ServicesOwned, IsListed
<1>4. MonitorsOwned'
  BY DEF ReturnTerminal, tables, Listed, Inv, MonitorsOwned, IsListed
<1>5. SignalInTime' /\ Asked' /\ Answers
  BY TableKept DEF ReturnTerminal
<1>6. TerminalListed' /\ Processes'
  BY DEF ReturnTerminal, Free, Inv, TerminalListed, Processes, Listed
<1>7. ReportsExits
  <2>1. \A m \in exits', s \in services \ services' : ~(m.client = s.handle /\ m.name = s.name)
    BY DEF ReturnTerminal, tables
  <2>2. \A m \in exits : IsListed(m.client, m.of) => StaysListed(m.client, m.of)
    BY TableKept DEF ReturnTerminal
  <2> QED
    BY <2>1, <2>2 DEF ReportsExits
<1> QED
  BY <1>1, <1>2, <1>3, <1>4, <1>5, <1>6, <1>7 DEF Inv

-----------------------------------------------------------------------------
(* Clients come and go. *)

LEMMA CreateStep ==
    ASSUME Inv, NEW q \in Listed, NEW pid \in 0..MaxBorn, NEW max \in SUBSET Flags,
           pid = 0 => "detached" \in max, Create(q, pid, max)
    PROVE  Inv' /\ ReportsExits /\ Answers
<1>1. PICK x \in Handles \ Listed :
          table' = [y \in Listed \cup {x} |->
                      IF y = x THEN NewClient(born + 1, pid, max, q, table[q].id, FALSE)
                      ELSE table[y]]
  BY DEF Create
<1> DEFINE d == NewClient(born + 1, pid, max, q, table[q].id, FALSE)
<1>2. /\ Listed' = Listed \cup {x} /\ table'[x] = d
      /\ \A h \in Listed : h # x /\ table'[h] = table[h]
  BY <1>1 DEF Listed
<1>3. /\ d \in ClientRecord /\ d.id = born + 1 /\ d.pid = pid /\ d.max = max /\ d.type = {}
      /\ d.name = NoName /\ d.fresh /\ d.notify = q /\ d.by = table[q].id /\ d.open
  <2>1. /\ table[q].id \in 1..MaxBorn /\ table[q].id # 0 /\ q \in Handles
        /\ born + 1 \in 1..MaxBorn /\ (table[q].id # 0) = TRUE
    BY RegistryAssumption DEF Create, Inv, TypeOK, ClientRecord
  <2>2. d = [id |-> born + 1, pid |-> pid, max |-> max, type |-> {}, name |-> NoName,
             fresh |-> TRUE, critical |-> FALSE, reading |-> TRUE, notify |-> q,
             by |-> table[q].id, open |-> TRUE]
    BY <2>1 DEF NewClient
  <2> HIDE DEF d
  <2>3. 1..MaxBorn \subseteq 0..MaxBorn
    OBVIOUS
  <2> QED
    BY <2>1, <2>2, <2>3 DEF ClientRecord, AnyName
<1> HIDE DEF d
<1>4. /\ services' = services /\ events' = events /\ exits' = exits /\ terminal' = terminal
      /\ notifying' = notifying /\ exiting' = exiting /\ born' = born + 1 /\ notices' = {}
  BY DEF Create, tables
<1>5. TypeOK'
  <2>1. born' \in 1..MaxBorn
    BY <1>4, RegistryAssumption DEF Create, Inv, TypeOK
  <2>2. Listed' \subseteq Handles
    BY <1>2 DEF Inv, TypeOK
  <2>3. \A h \in Listed' : table'[h] \in ClientRecord /\ table'[h].type \subseteq table'[h].max
    BY <1>2, <1>3 DEF Inv, TypeOK
  <2> QED
    BY <1>4, <2>1, <2>2, <2>3 DEF Inv, TypeOK
<1>6. UniqueNames'
  BY <1>2, <1>3, <1>4 DEF Inv, UniqueNames
<1>7. ServicesOwned' /\ MonitorsOwned'
  BY <1>2, <1>4 DEF Inv, ServicesOwned, MonitorsOwned, IsListed, Has
<1>8. SignalInTime'
  BY <1>2, <1>3, <1>4 DEF Inv, SignalInTime, Fresh, Listed
<1>9. TerminalListed'
  BY <1>2, <1>4 DEF Inv, TerminalListed
<1>10. Processes'
  BY <1>2, <1>3, <1>4 DEF Inv, Processes
<1>11. Asked'
  <2>1. born \in Nat /\ \A h \in Listed : table[h].id \in Nat /\ table[h].id <= born
    BY DEF Inv, TypeOK, Asked, ClientRecord
  <2>2. ASSUME NEW h \in Listed'
        PROVE  /\ table'[h].id <= born + 1
               /\ table'[h].notify # NoHandle => table'[h].open
               /\ table'[h].open => table'[h].by \in 1..(born + 1)
    BY <1>2, <1>3, <2>1 DEF Inv, Asked, TypeOK, ClientRecord
  <2>3. ASSUME NEW h \in Listed', NEW k \in Listed'
        PROVE  /\ table'[h].id = table'[k].id => h = k
               /\ table'[h].open /\ table'[h].by = table'[k].id
                     => table'[h].notify = k /\ table'[h].fresh
    <3>1. CASE h \in Listed /\ k \in Listed
      BY <1>2, <3>1 DEF Inv, Asked
    <3>2. CASE h \in Listed /\ k = x
      <4>1. table[h].open => table[h].by <= born
        BY <3>2 DEF Inv, Asked
      <4> QED
        BY <1>2, <1>3, <2>1, <3>2, <4>1 DEF Inv, Asked
    <3>3. CASE h = x /\ k \in Listed
      BY <1>2, <1>3, <2>1, <3>3 DEF Inv, Asked
    <3>4. CASE h = x /\ k = x
      BY <1>2, <1>3, <2>1, <3>4
    <3> QED
      BY <1>2, <3>1, <3>2, <3>3, <3>4
  <2> QED
    BY <1>4, <2>2, <2>3 DEF Asked
<1>12. ReportsExits
  BY <1>2, <1>4 DEF ReportsExits, IsListed, StaysListed, Listed
<1>13. Answers
  <2>1. ASSUME NEW h \in Listed, table[h].open,
               NEW k \in Listed, StaysListed(k, table[h].by),
               ~(StaysListed(h, table[h].id) /\ table'[h].fresh)
        PROVE  FALSE
    BY <1>2, <2>1 DEF Inv, Asked, StaysListed, Listed
  <2> QED
    BY <1>4, <2>1 DEF Answers
<1> QED
  BY <1>5, <1>6, <1>7, <1>8, <1>9, <1>10, <1>11, <1>12, <1>13 DEF Inv

\* What a removal of the clients R leaves of the others.
LEMMA RemovalTable ==
    ASSUME Inv, NEW R \in SUBSET Listed, NEW K \in SUBSET (Listed \ R), NEW mode,
           Removal(R, K, mode)
    PROVE  /\ Listed' = Listed \ R
           /\ \A k \in Listed \ R :
                 /\ table'[k] \in ClientRecord /\ Same(table[k], table'[k])
                 /\ table'[k].type = table[k].type /\ table'[k].name = table[k].name
                 /\ table'[k].fresh = table[k].fresh
                 /\ IF k \in K THEN Closed(table[k], table'[k]) ELSE table'[k] = table[k]
<1>1. Listed' = Listed \ R
  BY DEF Removal, Listed
<1>2. ASSUME NEW k \in Listed \ R
      PROVE  /\ table'[k] \in ClientRecord /\ Same(table[k], table'[k])
             /\ table'[k].type = table[k].type /\ table'[k].name = table[k].name
             /\ table'[k].fresh = table[k].fresh
             /\ IF k \in K THEN Closed(table[k], table'[k]) ELSE table'[k] = table[k]
  <2>1. table[k] \in ClientRecord
    BY DEF Inv, TypeOK
  <2> DEFINE e == Told(table[k])
  <2>2. /\ e \in ClientRecord /\ Same(table[k], e) /\ Closed(table[k], e)
        /\ e.type = table[k].type /\ e.name = table[k].name /\ e.fresh = table[k].fresh
    BY <2>1, ToldType
  <2>3. table'[k] = IF k \in K THEN [e EXCEPT !.reading = @ /\ mode # "leave"] ELSE table[k]
    BY DEF Removal
  <2> HIDE DEF e
  <2>4. ASSUME NEW b \in BOOLEAN
        PROVE  LET f == [e EXCEPT !.reading = b]
               IN  /\ f \in ClientRecord /\ Same(table[k], f) /\ Closed(table[k], f)
                   /\ f.type = table[k].type /\ f.name = table[k].name
                   /\ f.fresh = table[k].fresh
    BY <2>2 DEF ClientRecord, Same, Closed
  <2>5. (e.reading /\ mode # "leave") \in BOOLEAN
    OBVIOUS
  <2>6. CASE k \in K
    BY <2>3, <2>4, <2>5, <2>6
  <2>7. CASE k \notin K
    BY <2>1, <2>3, <2>7 DEF Same
  <2> QED
    BY <2>6, <2>7
<1> QED
  BY <1>1, <1>2

LEMMA RemovalStep ==
    ASSUME Inv, NEW R \in SUBSET Listed, NEW K \in SUBSET (Listed \ R), NEW mode,
           Removal(R, K, mode)
    PROVE  Inv' /\ ReportsExits /\ Answers
<1> DEFINE lost == OwnedBy(R \cup K, services)
<1>1. /\ Listed' = Listed \ R
      /\ \A k \in Listed \ R :
            /\ table'[k] \in ClientRecord /\ Same(table[k], table'[k])
            /\ table'[k].type = table[k].type /\ table'[k].name = table[k].name
            /\ table'[k].fresh = table[k].fresh
            /\ IF k \in K THEN Closed(table[k], table'[k]) ELSE table'[k] = table[k]
  BY RemovalTable
<1>2. /\ services' = services \ lost
      /\ events' = Cleared(R \cup K, events)
      /\ exits' = Unreported(Cleared(R \cup K, exits), Reports(lost) \cup LastReports(R))
      /\ born' = born
  BY DEF Removal
<1>3. TypeOK'
  <2>1. notices' \subseteq [about : 1..MaxBorn, to : 1..MaxBorn, ok : BOOLEAN]
    <3> SUFFICES ASSUME NEW x \in notices'
                 PROVE  x \in [about : 1..MaxBorn, to : 1..MaxBorn, ok : BOOLEAN]
      OBVIOUS
    <3>1. PICK h \in R \cup K : x \in Notice(table[h], FALSE)
      BY DEF Removal
    <3> QED
      BY <3>1, NoticeType DEF Inv
  <2>2. services' \subseteq services /\ events' \subseteq events /\ exits' \subseteq exits
    BY <1>2 DEF Cleared, Unreported
  <2>3. terminal' \in {terminal, Free} /\ exiting' \in BOOLEAN /\ notifying' \in BOOLEAN
    BY DEF Removal, StillNotifying, Fresh, Inv, TypeOK
  <2>4. terminal' \in [pid : -1..MaxBorn, type : SUBSET Flags]
    BY <2>3, RegistryAssumption DEF Free, Inv, TypeOK
  <2> QED
    BY <1>1, <1>2, <2>1, <2>2, <2>3, <2>4 DEF Inv, TypeOK, Same
<1>4. UniqueNames'
  BY <1>1, <1>2 DEF Inv, UniqueNames
<1>5. ServicesOwned'
  BY <1>1, <1>2 DEF OwnedBy, Inv, ServicesOwned, IsListed, Has, Same
<1>6. MonitorsOwned'
  BY <1>1, <1>2 DEF Cleared, Unreported, Inv, MonitorsOwned, IsListed, Same
<1>7. SignalInTime'
  BY DEF Removal, StillNotifying, SignalInTime
<1>8. TerminalListed'
  <2>1. CASE terminal' = Free
    BY <2>1 DEF Free, TerminalListed
  <2>2. CASE terminal' = terminal /\ \A h \in R : ~(table[h].pid > 0 /\ table[h].pid = terminal.pid)
    <3>1. SUFFICES ASSUME terminal.pid >= 0
                   PROVE  \E h \in Listed' : table'[h].pid = terminal.pid
      BY <2>2 DEF TerminalListed
    <3>2. PICK h \in Listed : table[h].pid = terminal.pid
      BY <3>1 DEF Inv, TerminalListed
    <3>3. table[h].pid > 0
      BY <3>1, <3>2 DEF Inv, Processes, TypeOK
    <3> QED
      BY <1>1, <2>2, <3>2, <3>3 DEF Same
  <2> QED
    BY <2>1, <2>2 DEF Removal, Quits
<1>9. Processes'
  <2>1. terminal'.pid # 0
    BY DEF Removal, Free, Inv, Processes
  <2> QED
    BY <1>1, <2>1 DEF Inv, Processes, Same
<1>10. Asked'
  BY <1>1, <1>2, RegistryAssumption DEF Same, Closed, Inv, TypeOK, Asked
<1>11. ReportsExits
  <2>1. ASSUME NEW m \in exits \cap exits', IsListed(m.client, m.of),
               ~StaysListed(m.client, m.of), ~table[m.client].fresh,
               table[m.client].name \in {m.name, NoName}
        PROVE  FALSE
    <3>1. m.client \in R
      BY <1>1, <2>1 DEF IsListed, StaysListed, Same, Listed
    <3> DEFINE r == [handle |-> m.client, name |-> table[m.client].name]
    <3>2. r \in LastReports(R) /\ r.handle = m.client /\ r.name \in {m.name, NoName}
      BY <2>1, <3>1 DEF LastReports
    <3> QED
      BY <1>2, <2>1, <3>2 DEF Unreported, Concerns
  <2>2. ASSUME NEW m \in exits', NEW s \in services \ services'
        PROVE  ~(m.client = s.handle /\ m.name = s.name)
    <3>1. s \in lost /\ m \in Unreported(exits, Reports(lost))
      BY <1>2 DEF Unreported, Cleared
    <3> HIDE DEF lost
    <3> QED
      BY <3>1, ReportedServices
  <2> QED
    BY <2>1, <2>2 DEF ReportsExits
<1>12. Answers
  <2>1. ASSUME NEW h \in Listed, table[h].open,
               NEW q \in Listed, StaysListed(q, table[h].by),
               ~(StaysListed(h, table[h].id) /\ table'[h].fresh)
        PROVE  \E n \in notices' : n.about = table[h].id /\ n.to = table[h].by
    <3>1. q \in Listed \ R /\ table[q].id = table[h].by
      BY <1>1, <2>1 DEF StaysListed, Same, Listed
    <3>2. table[h].notify = q /\ table[h].fresh
      BY <2>1, <3>1 DEF Inv, Asked
    <3>3. h \in R
      BY <1>1, <2>1, <3>2 DEF StaysListed, Same, Listed
    <3> DEFINE n == [about |-> table[h].id, to |-> table[q].id, ok |-> FALSE]
    <3>4. n \in Notice(table[h], FALSE) /\ n.about = table[h].id /\ n.to = table[h].by
      BY <3>1, <3>2 DEF Notice
    <3>5. Hears(table[h], R)
      BY <3>1, <3>2 DEF Hears
    <3>6. n \in notices'
      BY <3>3, <3>4, <3>5 DEF Removal
    <3> QED
      BY <3>4, <3>6
  <2>2. ASSUME NEW n \in notices'
        PROVE  \E h \in Listed : table[h].id = n.about /\ table[h].open
    <3>1. PICK h \in R \cup K : n \in Notice(table[h], FALSE)
      BY DEF Removal
    <3>2. table[h].notify \in Listed /\ n.about = table[h].id
      BY <3>1 DEF Notice
    <3> QED
      BY <3>1, <3>2, RegistryAssumption DEF Inv, TypeOK, Asked
  <2> QED
    BY <2>1, <2>2 DEF Answers
<1> QED
  BY <1>3, <1>4, <1>5, <1>6, <1>7, <1>8, <1>9, <1>10, <1>11, <1>12 DEF Inv

LEMMA DisconnectAllStep ==
    ASSUME Inv, DisconnectAll
    PROVE  Inv' /\ ReportsExits /\ Answers
<1>1. Listed' = {} /\ services' \subseteq {} /\ events' = {} /\ exits' = {}
  BY DEF DisconnectAll, Listed, Cleared, Inv, ServicesOwned, MonitorsOwned, IsListed
<1>2. /\ terminal' = IF \E h \in Listed : table[h].pid = terminal.pid THEN Free ELSE terminal
      /\ notifying' = FALSE /\ exiting' = exiting /\ born' = born /\ notices' = {}
  BY DEF DisconnectAll
<1>3. terminal'.pid < 0 /\ terminal' \in [pid : -1..MaxBorn, type : SUBSET Flags]
  BY <1>2, RegistryAssumption DEF Free, Inv, TypeOK, TerminalListed
<1>4. TypeOK'
  BY <1>1, <1>2, <1>3 DEF Inv, TypeOK
<1>5. /\ UniqueNames' /\ ServicesOwned' /\ MonitorsOwned' /\ SignalInTime' /\ TerminalListed'
      /\ Processes' /\ Asked'
  BY <1>1, <1>2, <1>3
     DEF UniqueNames, ServicesOwned, MonitorsOwned, SignalInTime, TerminalListed, Processes, Asked
<1>6. ReportsExits /\ Answers
  BY <1>1, <1>2 DEF ReportsExits, Answers, StaysListed, Listed
<1> QED
  BY <1>4, <1>5, <1>6 DEF Inv

-----------------------------------------------------------------------------
(* Every step. *)

LEMMA InitInv == Init => Inv
<1> SUFFICES ASSUME Init PROVE Inv
  OBVIOUS
<1>1. PICK h \in Handles, critical \in BOOLEAN :
          table = [x \in {h} |-> NewClient(1, 1, First, NoHandle, 0, critical)]
  BY DEF Init
<1> DEFINE d == NewClient(1, 1, First, NoHandle, 0, critical)
<1>2. /\ d \in ClientRecord /\ d.id = 1 /\ d.pid = 1 /\ d.type = {} /\ d.name = NoName
      /\ d.fresh /\ d.notify = NoHandle /\ ~d.open
  <2>1. d = [id |-> 1, pid |-> 1, max |-> First, type |-> {}, name |-> NoName,
             fresh |-> TRUE, critical |-> critical, reading |-> TRUE, notify |-> NoHandle,
             by |-> 0, open |-> FALSE]
    BY DEF NewClient
  <2> HIDE DEF d
  <2>2. 1 \in 1..MaxBorn /\ 1 \in 0..MaxBorn /\ 0 \in 0..MaxBorn /\ First \subseteq Flags
    BY RegistryAssumption
  <2> QED
    BY <2>1, <2>2 DEF ClientRecord, AnyName
<1>3. Listed = {h} /\ table[h] = d
  BY <1>1 DEF Listed
<1> HIDE DEF d
<1>4. TypeOK
  <2>1. /\ services = {} /\ events = {} /\ exits = {} /\ notices = {}
        /\ terminal = [pid |-> -1, type |-> {}] /\ notifying = TRUE /\ exiting = FALSE /\ born = 1
    BY DEF Init, Free
  <2>2. terminal \in [pid : -1..MaxBorn, type : SUBSET Flags] /\ born \in 1..MaxBorn
    BY <2>1, RegistryAssumption
  <2> QED
    BY <1>2, <1>3, <2>1, <2>2 DEF TypeOK
<1>5. UniqueNames /\ ServicesOwned /\ MonitorsOwned
  BY <1>3 DEF Init, UniqueNames, ServicesOwned, MonitorsOwned
<1>6. SignalInTime /\ TerminalListed /\ Processes
  BY <1>2, <1>3 DEF Init, Free, SignalInTime, Fresh, Listed, TerminalListed, Processes
<1>7. Asked
  BY <1>2, <1>3 DEF Init, Asked
<1> QED
  BY <1>4, <1>5, <1>6, <1>7 DEF Inv

LEMMA RegistryCommandStep ==
    ASSUME Inv, NEW h \in Handles, RegistryCommand(h)
    PROVE  Inv' /\ ReportsExits /\ Answers
<1>1. CASE CreateClient(h)
  <2>1. PICK p \in Permissions :
            Create(h, born + 1, (p \cap table[h].max) \ {"server", "detached"})
    BY <1>1 DEF CreateClient
  <2>2. h \in Listed /\ born + 1 \in 0..MaxBorn /\ born + 1 # 0
    BY <1>1, <2>1, RegistryAssumption DEF CreateClient, Has, Create, Inv, TypeOK
  <2>3. (p \cap table[h].max) \ {"server", "detached"} \in SUBSET Flags
    BY RegistryAssumption
  <2> QED
    BY <2>1, <2>2, <2>3, CreateStep
<1>2. CASE ConnectDetached(h)
  <2>1. PICK p \in Permissions :
            Create(h, 0, (p \cap table[h].max \cap {"resource"}) \cup {"detached"})
    BY <1>2 DEF ConnectDetached
  <2>2. h \in Listed /\ 0 \in 0..MaxBorn
    BY <1>2, RegistryAssumption DEF ConnectDetached, Has
  <2>3. (p \cap table[h].max \cap {"resource"}) \cup {"detached"} \in SUBSET Flags
    BY DEF Flags
  <2> QED
    BY <2>1, <2>2, <2>3, CreateStep
<1>3. CASE \E t \in Requests, n \in AnyName : RegisterRejected(h, t, n)
  BY <1>3, RegisterRejectedStep
<1>4. CASE \E t \in Requests, n \in AnyName, disable \in BOOLEAN : Register(h, t, n, disable)
  BY <1>4, RegisterStep
<1>5. CASE \E n \in Names : DeregisterNamed(h, n)
  BY <1>5, DeregisterNamedStep
<1>6. CASE Deregister(h)
  BY <1>6, DeregisterStep
<1>7. CASE IndicateReady(h)
  BY <1>7, IndicateReadyStep
<1> QED
  BY <1>1, <1>2, <1>3, <1>4, <1>5, <1>6, <1>7 DEF RegistryCommand

LEMMA ServiceCommandStep ==
    ASSUME Inv, NEW h \in Handles, ServiceCommand(h)
    PROVE  Inv' /\ ReportsExits /\ Answers
<1>1. CASE \E n \in AnyName, remote \in BOOLEAN : RegisterService(h, n, remote)
  BY <1>1, RegisterServiceStep
<1>2. CASE \E S \in SUBSET services : Withdraw(h, S)
  BY <1>2, WithdrawStep
<1>3. ServiceCommand(h) =>
         \/ \E n \in AnyName, remote \in BOOLEAN : RegisterService(h, n, remote)
         \/ \E S \in SUBSET services : Withdraw(h, S)
  <2>1. \A n : DeregisterService(h, n) => \E S \in SUBSET services : Withdraw(h, S)
    <3> TAKE n
    <3>1. {s \in OwnedBy({h}, services) : s.name = n} \in SUBSET services
      BY DEF OwnedBy
    <3> QED
      BY <3>1 DEF DeregisterService
  <2>2. DeregisterAll(h) => \E S \in SUBSET services : Withdraw(h, S)
    <3>1. OwnedBy({h}, services) \in SUBSET services
      BY DEF OwnedBy
    <3> QED
      BY <3>1 DEF DeregisterAll
  <2>3. DeregisterRemote(h) => \E S \in SUBSET services : Withdraw(h, S)
    <3>1. {s \in OwnedBy({h}, services) : s.remote} \in SUBSET services
      BY DEF OwnedBy
    <3> QED
      BY <3>1 DEF DeregisterRemote
  <2> QED
    BY <2>1, <2>2, <2>3 DEF ServiceCommand
<1> QED
  BY <1>1, <1>2, <1>3

LEMMA MonitorCommandStep ==
    ASSUME Inv, NEW h \in Handles, MonitorCommand(h)
    PROVE  Inv' /\ ReportsExits /\ Answers
BY SetMonitorTypesStep, DeregisterMonitorStep, MonitorDisconnectStep, UnmonitorDisconnectStep
   DEF MonitorCommand

\* Removing one client is a removal, and so is removing all that are found.
LEMMA RemoveOneStep ==
    ASSUME Inv, NEW h \in Listed, NEW mode, RemoveOne(h, mode)
    PROVE  Inv' /\ ReportsExits /\ Answers
<1>1. CASE table[h].critical
  <2>1. Removal({}, {h}, mode)
    BY <1>1 DEF RemoveOne
  <2>2. {} \in SUBSET Listed /\ {h} \in SUBSET (Listed \ {})
    OBVIOUS
  <2> QED
    BY <2>1, <2>2, RemovalStep
<1>2. CASE ~table[h].critical
  <2>1. Removal({h}, {}, mode)
    BY <1>2 DEF RemoveOne
  <2>2. {h} \in SUBSET Listed /\ {} \in SUBSET (Listed \ {h})
    OBVIOUS
  <2> QED
    BY <2>1, <2>2, RemovalStep
<1> QED
  BY <1>1, <1>2

LEMMA RemoveFoundStep ==
    ASSUME Inv, NEW q, NEW P, NEW mode, RemoveFound(q, P, mode)
    PROVE  Inv' /\ ReportsExits /\ Answers
<1> DEFINE found    == {h \in Listed : table[h].name \in P}
           critical == {h \in found : table[h].critical}
           stops    == {h \in critical : \A k \in critical : table[h].id <= table[k].id}
           before   == {h \in found : \A k \in stops : table[h].id < table[k].id}
<1>1. Removal(before, stops, mode)
  BY DEF RemoveFound
<1>2. before \in SUBSET Listed /\ stops \in SUBSET Listed
  OBVIOUS
<1>3. \A h \in stops : h \notin before
  <2> SUFFICES ASSUME NEW h \in stops, h \in before PROVE FALSE
    OBVIOUS
  <2>1. table[h].id < table[h].id /\ table[h].id \in 1..MaxBorn
    BY DEF Inv, TypeOK, ClientRecord
  <2> QED
    BY <2>1, RegistryAssumption
<1> HIDE DEF before, stops
<1>4. stops \in SUBSET (Listed \ before)
  BY <1>2, <1>3
<1> QED
  BY <1>1, <1>2, <1>4, RemovalStep

LEMMA ControlCommandStep ==
    ASSUME Inv, NEW q \in Handles, ControlCommand(q)
    PROVE  Inv' /\ ReportsExits /\ Answers
<1>1. CASE \E h \in Handles : TerminateClient(q, h)
  BY <1>1, RemoveOneStep DEF TerminateClient
<1>2. CASE \E h \in Handles : KillClient(q, h)
  BY <1>2, RemoveOneStep DEF KillClient
<1>3. CASE \E P \in SUBSET AnyName : TerminateFound(q, P)
  BY <1>3, RemoveFoundStep DEF TerminateFound
<1>4. CASE \E P \in SUBSET AnyName : KillFound(q, P)
  BY <1>4, RemoveFoundStep DEF KillFound
<1>5. CASE TerminateServer(q)
  BY <1>5, TerminateServerStep
<1>6. CASE \E higher \in BOOLEAN : RequestTerminal(q, higher)
  BY <1>6, RequestTerminalStep
<1>7. CASE ReturnTerminal(q)
  BY <1>7, ReturnTerminalStep
<1> QED
  BY <1>1, <1>2, <1>3, <1>4, <1>5, <1>6, <1>7 DEF ControlCommand

LEMMA NextStep ==
    ASSUME Inv, Next
    PROVE  Inv' /\ ReportsExits /\ Answers
<1>1. ASSUME NEW h \in Handles, Leave(h)
      PROVE  Inv' /\ ReportsExits /\ Answers
  BY <1>1, RemoveOneStep DEF Leave
<1>2. CASE DisconnectAll
  BY <1>2, DisconnectAllStep
<1> QED
  BY <1>1, <1>2, RegistryCommandStep, ServiceCommandStep, MonitorCommandStep,
     ControlCommandStep
     DEF Next

LEMMA NextInv == Inv /\ [Next]_vars => Inv'
<1>1. CASE Next
  BY <1>1, NextStep
<1>2. CASE UNCHANGED vars
  BY <1>2 DEF vars, tables, Inv, TypeOK, UniqueNames, ServicesOwned, MonitorsOwned,
              SignalInTime,
              TerminalListed, Processes, Asked, Listed, Fresh, IsListed, Has
<1> QED
  BY <1>1, <1>2

-----------------------------------------------------------------------------
(* The theorems. *)

\* The inductive invariant holds in every reachable state.
THEOREM Invariance == Spec => []Inv
BY InitInv, NextInv, PTL DEF Spec

\* Every part of the state has its type, and no client ever is more than it was
\* allowed to be when it was started or attached.
THEOREM TypeCorrect == Spec => []TypeOK
<1>1. Inv => TypeOK
  BY DEF Inv
<1> QED
  BY <1>1, Invariance, PTL

\* No two clients or services have the same name, through all registrations,
\* deregistrations and removals (check_names).
THEOREM NamesAreUnique == Spec => []UniqueNames
<1>1. Inv => UniqueNames
  BY DEF Inv
<1> QED
  BY <1>1, Invariance, PTL

\* A service belongs to the client that registered it, which is in the table as a
\* resource client.
THEOREM ServicesHaveOwners == Spec => []ServicesOwned
<1>1. Inv => ServicesOwned
  BY DEF Inv
<1> QED
  BY <1>1, Invariance, PTL

\* A monitor belongs to the client that asked for it, which is in the table; none
\* passes to a later client at the same address.
THEOREM MonitorsHaveOwners == Spec => []MonitorsOwned
<1>1. Inv => MonitorsOwned
  BY DEF Inv
<1> QED
  BY <1>1, Invariance, PTL

\* The signal to who started the server is outstanding only while a client is
\* fresh.
THEOREM SignalNotForgotten == Spec => []SignalInTime
<1>1. Inv => SignalInTime
  BY DEF Inv
<1> QED
  BY <1>1, Invariance, PTL

\* Who controls the terminal is in the table.
THEOREM TerminalHasClient == Spec => []TerminalListed
<1>1. Inv => TerminalListed
  BY DEF Inv
<1> QED
  BY <1>1, Invariance, PTL

\* When a client leaves or withdraws a service its exit monitors go with a report,
\* with the two exceptions ReportsExits names.
THEOREM ExitsAreReported == Spec => ExitsReported
<1>1. Inv /\ [Next]_vars => [ReportsExits]_vars
  BY NextStep
<1> QED
  BY <1>1, Invariance, PTL DEF Spec, ExitsReported

\* Who requested a client gets exactly one notice about it, while it is there.
THEOREM RequestsAreAnswered == Spec => AnsweredOnce
<1>1. Inv /\ [Next]_vars => [Answers]_vars
  BY NextStep
<1> QED
  BY <1>1, Invariance, PTL DEF Spec, AnsweredOnce

=============================================================================
