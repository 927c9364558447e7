-------------------------- MODULE TicketsGraphProofs -------------------------
(***************************************************************************)
(* Theorems about the work tree and the dependency graph, for every number *)
(* of concurrent handlers, as long as no ticket is deleted for good.       *)
(***************************************************************************)
EXTENDS TicketsProofs

-----------------------------------------------------------------------------
(* Graph lemmas *)

(* Replacing the edges of i keeps a graph free of cycles if a walk from    *)
(* the new targets does not come back to i.                                *)
LEMMA AcyclicReplace ==
  ASSUME NEW E, NEW N, Acyclic(E, N), NEW i, NEW targets \in SUBSET N,
         i \notin Reach(ReplaceLinks(E, i, targets), N, targets)
  PROVE  Acyclic(ReplaceLinks(E, i, targets), N)
<1> DEFINE F == ReplaceLinks(E, i, targets)
           R == Reach(F, N, targets)
<1> SUFFICES ASSUME NEW S \in SUBSET N, S # {}
             PROVE  \E x \in S : \A e \in F : e[1] = x => e[2] \notin S
  BY DEF Acyclic
<1>1. \A e \in F : e[1] # i => e \in E
  BY DEF ReplaceLinks
<1>2. \A e \in F : e[1] = i => e[2] \in targets
  BY DEF ReplaceLinks
<1>3. /\ targets \subseteq R
      /\ \A e \in F : e[1] \in R /\ e[2] \in N => e[2] \in R
  BY ReachProperties
<1> HIDE DEF F, R
<1>4. CASE i \notin S
  <2>1. PICK x \in S : \A e \in E : e[1] = x => e[2] \notin S
    BY DEF Acyclic
  <2> QED
    BY <1>1, <1>4, <2>1
<1>5. CASE i \in S /\ S \intersect R = {}
  BY <1>2, <1>3, <1>5
<1>6. CASE i \in S /\ S \intersect R # {}
  <2>1. i \notin R
    BY DEF F, R
  <2>2. PICK x \in S \intersect R : \A e \in E : e[1] = x => e[2] \notin S \intersect R
    BY <1>6 DEF Acyclic
  <2>3. ASSUME NEW e \in F, e[1] = x PROVE e[2] \notin S
    <3>1. e \in E
      BY <1>1, <2>1, <2>2, <2>3
    <3>2. e[2] \in N => e[2] \in R
      BY <1>3, <2>2, <2>3
    <3> QED
      BY <2>2, <2>3, <3>1, <3>2
  <2> QED
    BY <2>2, <2>3
<1> QED
  BY <1>4, <1>5, <1>6

(* The edges of i play no role on a walk that ends where a walk from i     *)
(* does not come.                                                          *)
LEMMA ReachAvoiding ==
  ASSUME NEW E, NEW F, NEW N, NEW start, NEW i \in N, NEW e,
         \A edge \in F : edge[1] # i => edge \in E,
         \A edge \in F : edge[2] \in N,
         e \in Reach(F, N, start), e \notin Reach(F, N, {i})
  PROVE  e \in Reach(E, N, start)
<1>1. e \in N
  BY DEF Reach
<1> SUFFICES ASSUME NEW S \in SUBSET N, start \subseteq S, IsClosed(E, S)
             PROVE  e \in S
  BY <1>1 DEF Reach
<1> DEFINE R == Reach(F, N, {i})
           U == S \union R
<1>2. /\ R \subseteq N /\ i \in R
      /\ \A edge \in F : edge[1] \in R => edge[2] \in R
  <2>1. /\ R \subseteq N /\ {i} \intersect N \subseteq R
        /\ \A edge \in F : edge[1] \in R /\ edge[2] \in N => edge[2] \in R
    BY ReachProperties
  <2> QED
    BY <2>1
<1> HIDE DEF R
<1>3. IsClosed(F, U)
  BY <1>2 DEF IsClosed
<1>4. U \in SUBSET N /\ start \subseteq U
  BY <1>2
<1>5. e \in U
  BY <1>3, <1>4 DEF Reach
<1> QED
  BY <1>5 DEF R

LEMMA ReachEmpty ==
  ASSUME NEW E, NEW N
  PROVE  Reach(E, N, {}) = {}
<1>1. IsClosed(E, {}) /\ {} \in SUBSET N
  BY DEF IsClosed
<1> QED
  BY <1>1 DEF Reach

(* A walk from one edge further is part of the walk.                       *)
LEMMA ReachStep ==
  ASSUME NEW E, NEW N, NEW a, NEW b, a \in N, <<a, b>> \in E
  PROVE  Reach(E, N, {b}) \subseteq Reach(E, N, {a})
BY DEF Reach, IsClosed

(* Adding a node without incoming edges changes no walk from other nodes.  *)
LEMMA ReachFresh ==
  ASSUME NEW E, NEW F, NEW N, NEW start, NEW n, NEW e,
         \A edge \in F : edge[1] # n => edge \in E,
         \A edge \in E : edge[2] # n,
         n \notin start,
         e \in Reach(F, N, start)
  PROVE  e \in Reach(E, N, start)
<1>1. e \in N
  BY DEF Reach
<1> SUFFICES ASSUME NEW S \in SUBSET N, start \subseteq S, IsClosed(E, S)
             PROVE  e \in S
  BY <1>1 DEF Reach
<1>2. IsClosed(F, S \ {n})
  BY DEF IsClosed
<1>3. start \subseteq S \ {n}
  OBVIOUS
<1> QED
  BY <1>2, <1>3 DEF Reach

-----------------------------------------------------------------------------
(* Work below closed epics *)

(* The rows agree on everything but order, repeat interval and start.      *)
SameWork(new, old) ==
  /\ new.type = old.type /\ new.parent = old.parent /\ new.column = old.column
  /\ new.backlog = old.backlog /\ new.archived = old.archived
  /\ new.deleted = old.deleted /\ new.completed = old.completed

LEMMA ParentEdgesIn ==
  ASSUME NEW T, IsTable(T), NEW e \in ParentEdges(T)
  PROVE  e[1] \in DOMAIN T /\ e[2] = T[e[1]].parent /\ e[2] # 0 /\ e[2] \in Ids
<1>1. PICK i \in {j \in DOMAIN T : T[j].parent # 0} : e = <<i, T[i].parent>>
  BY DEF ParentEdges
<1>2. T[i] \in Ticket
  BY TableRow
<1> QED
  BY <1>1, <1>2 DEF Ticket

LEMMA ParentEdge ==
  ASSUME NEW T, NEW i \in DOMAIN T, T[i].parent # 0
  PROVE  <<i, T[i].parent>> \in ParentEdges(T)
BY DEF ParentEdges

(* A validated write of ticket i puts no open work below a closed epic     *)
(* that was not there before.                                              *)
LEMMA ValidatedWrite ==
  ASSUME NEW T, IsTable(T), NEW U, IsTable(U), NEW i \in DOMAIN U,
         DOMAIN U \subseteq DOMAIN T \union {i},
         \A j \in DOMAIN U \ {i} : SameWork(U[j], T[j]),
         EpicsRespected(U, i),
         NEW e \in DOMAIN U, NEW d \in DOMAIN U, OpenUnder(U, d, e)
  PROVE  /\ e \in DOMAIN T /\ d \in DOMAIN T
         /\ OpenUnder(T, d, e)
<1> DEFINE E == ParentEdges(T)
           F == ParentEdges(U)
           start == {U[d].parent} \ {0}
<1>1. i \in Ids /\ d \in Ids /\ e \in Ids
  BY TableRow
<1>2. e \notin Reach(F, Ids, {i})
  <2>1. SUFFICES ASSUME e \in Reach(F, Ids, {i}) PROVE FALSE
    OBVIOUS
  <2>2. e \in Above(U, {i})
    <3>1. {i} \ {0} = {i}
      BY <1>1 DEF Ids
    <3> QED
      BY <2>1, <3>1 DEF Above
  <2> QED
    BY <2>2 DEF EpicsRespected, OpenUnder
<1>3. e # i
  BY <1>1, <1>2, ReachProperties
<1>4. e \in Reach(F, Ids, start)
  BY DEF OpenUnder, Above
<1>5. d # i
  <2>1. SUFFICES ASSUME d = i PROVE FALSE
    OBVIOUS
  <2>2. CASE U[i].parent = 0
    <3>1. start = {}
      BY <2>1, <2>2
    <3>2. Reach(F, Ids, {}) = {}
      BY ReachEmpty
    <3> QED
      BY <1>4, <3>1, <3>2
  <2>3. CASE U[i].parent # 0
    <3>1. start = {U[i].parent}
      BY <2>1, <2>3
    <3>2. Reach(F, Ids, {U[i].parent}) \subseteq Reach(F, Ids, {i})
      BY <1>1, <2>3, ParentEdge, ReachStep
    <3> QED
      BY <1>2, <1>4, <3>1, <3>2
  <2> QED
    BY <2>2, <2>3
<1>6. ASSUME NEW edge \in F PROVE edge[2] \in Ids /\ (edge[1] # i => edge \in E)
  <2>1. PICK j \in DOMAIN U : edge = <<j, U[j].parent>> /\ U[j].parent # 0
    BY DEF ParentEdges
  <2>2. edge[2] \in Ids
    BY ParentEdgesIn
  <2>3. CASE j # i
    BY <2>1, <2>2, <2>3, ParentEdge DEF SameWork
  <2> QED
    BY <2>1, <2>2, <2>3
<1> HIDE DEF E, F
<1>7. e \in Reach(E, Ids, start)
  BY <1>1, <1>2, <1>4, <1>6, ReachAvoiding
<1>8. SameWork(U[d], T[d]) /\ SameWork(U[e], T[e]) /\ d \in DOMAIN T /\ e \in DOMAIN T
  BY <1>3, <1>5
<1>9. e \in Above(T, {T[d].parent})
  BY <1>7, <1>8 DEF Above, SameWork, E
<1> QED
  BY <1>8, <1>9 DEF OpenUnder, SameWork, ClosedEpic, OpenWork, Active

(* Taking tickets out of the active scope opens no work.                   *)
LEMMA NothingOpened ==
  ASSUME NEW T, NEW U, DOMAIN U = DOMAIN T,
         \A j \in DOMAIN T : /\ U[j].type = T[j].type /\ U[j].parent = T[j].parent
                             /\ U[j].column = T[j].column
                             /\ Active(U[j]) => Active(T[j]),
         NEW e \in DOMAIN U, NEW d \in DOMAIN U, OpenUnder(U, d, e)
  PROVE  OpenUnder(T, d, e)
<1>1. ParentEdges(U) = ParentEdges(T)
  BY DEF ParentEdges
<1>2. Above(U, {U[d].parent}) = Above(T, {T[d].parent})
  BY <1>1 DEF Above
<1> QED
  BY <1>2 DEF OpenUnder, ClosedEpic, OpenWork

(* A new ticket outside Done that nothing names as its parent puts no      *)
(* other ticket below a closed epic.                                       *)
LEMMA FreshWrite ==
  ASSUME NEW T, IsTable(T), ParentsExist(T), NEW n \in Ids, n \notin DOMAIN T,
         NEW row \in Ticket, ~IsDone(row.column),
         NEW e \in DOMAIN T \union {n}, NEW d \in DOMAIN T,
         NEW U, U = Put(T, n, row), OpenUnder(U, d, e)
  PROVE  e \in DOMAIN T /\ OpenUnder(T, d, e)
<1> DEFINE E == ParentEdges(T)
           F == ParentEdges(U)
           start == {T[d].parent} \ {0}
<1>1. /\ IsTable(U) /\ DOMAIN U = DOMAIN T \union {n} /\ U[n] = row
      /\ \A j \in DOMAIN T : U[j] = T[j]
  <2>1. IsTable(U)
    BY PutType
  <2>2. U = [j \in DOMAIN T \union {n} |-> IF j = n THEN row ELSE T[j]]
    BY DEF Put
  <2> QED
    BY <2>1, <2>2
<1>2. OpenUnder(U, d, e)
  OBVIOUS
<1>3. e # n
  BY <1>1, <1>2 DEF OpenUnder, ClosedEpic
<1>4. \A edge \in F : edge[1] # n => edge \in E
  BY <1>1 DEF ParentEdges
<1>5. \A edge \in E : edge[2] # n
  BY ParentEdgesIn DEF ParentsExist
<1>6. n \notin start
  BY DEF ParentsExist
<1>7. e \in Reach(F, Ids, start)
  BY <1>1, <1>2 DEF OpenUnder, Above
<1>8. e \in Reach(E, Ids, start)
  BY <1>4, <1>5, <1>6, <1>7, ReachFresh
<1> QED
  BY <1>1, <1>2, <1>3, <1>8 DEF OpenUnder, ClosedEpic, OpenWork, Above

-----------------------------------------------------------------------------
(* The inductive invariant: parents and links name stored tickets, also    *)
(* those that a handler has checked and not yet written.                   *)

NoDeletes == \A q \in Requests : q.kind # "delete"

Known(d) == d.parent \in {0} \union DOMAIN tickets /\ d.links \subseteq DOMAIN tickets

HandlersKnow ==
  \A c \in Clients : Busy(c) =>
    LET q == handler[c].request
    IN /\ q.kind # "delete"
       /\ handler[c].phase = "parentChecked" =>
            q.ticket.parent \in {0} \union DOMAIN tickets
       /\ handler[c].phase \in {"checked", "ready"} => Known(q.ticket)

Grounded == TypeOK /\ NothingDangles /\ HandlersKnow

(* Table saved is written, with the next occurrence of row i or without.   *)
AddsOccurrence(i, saved) ==
  \E n \in Ids : \E row \in Ticket :
    /\ n \notin DOMAIN saved /\ tickets' = Put(saved, n, row)
    /\ ~IsDone(row.column) /\ row.parent = saved[i].parent
    /\ \E r \in repetitions' : r.next = n
    /\ repetitions \subseteq repetitions'

Finished(T, i, saved) ==
  /\ IsTable(saved) /\ DOMAIN saved = DOMAIN T
  /\ \A j \in DOMAIN T : SameWork(saved[j], T[j])
  /\ EpicsRespected(T, i)
  /\ (tickets' = saved /\ repetitions' = repetitions) \/ AddsOccurrence(i, saved)

(* What the common end of the workflow writes does to the table.           *)
LEMMA FinishTable ==
  ASSUME TypeOK, NEW T, IsTable(T), NEW i \in DOMAIN T, NEW before,
         NEW days \in Days, FinishWorkflow(T, i, before, days)
  PROVE  \E saved : Finished(T, i, saved)
<1> DEFINE row   == [T[i] EXCEPT !.started = StartedAt(T[i], before, clock)]
           saved == [T EXCEPT ![i] = row]
<1>1. T[i] \in Ticket /\ clock \in Nat \ {0}
  BY TableRow DEF TypeOK
<1>2. row \in Ticket /\ SameWork(row, T[i])
  BY <1>1 DEF StartedAt, Ticket, SameWork
<1> HIDE DEF row
<1>3. /\ IsTable(saved) /\ DOMAIN saved = DOMAIN T
      /\ saved[i] = row /\ \A j \in DOMAIN T \ {i} : saved[j] = T[j]
  BY <1>2, ExceptType
<1>4. \A j \in DOMAIN T : SameWork(saved[j], T[j])
  BY <1>2, <1>3 DEF SameWork
<1>5. EpicsRespected(T, i)
  BY DEF FinishWorkflow
<1>6. CASE Repeats(repetitions, i, before, row, days)
  <2> DEFINE next == NextOccurrence(row, days)
  <2>1. PICK n \in NewRowIds(saved) :
          /\ tickets' = Put(saved, n, next)
          /\ repetitions' = repetitions \union
               {[ticket |-> i, completed |-> row.completed, next |-> n]}
    BY <1>6 DEF FinishWorkflow, row
  <2>2. n \in Ids /\ n \notin DOMAIN saved
    <3>1. DOMAIN saved \subseteq Nat
      BY <1>3, TableRow DEF Ids
    <3> HIDE DEF saved
    <3> QED
      BY <3>1 DEF NewRowIds, Ids
  <2>3. days \in RepeatDays
    BY <1>6 DEF Repeats, Days, NoExtras
  <2>4. next \in Ticket /\ ~IsDone(next.column) /\ next.parent = row.parent
    BY <1>2, <2>3, FirstColumnType DEF NextOccurrence, Ticket
  <2>5. /\ \E r \in repetitions' : r.next = n
        /\ repetitions \subseteq repetitions'
    <3> DEFINE r == [ticket |-> i, completed |-> row.completed, next |-> n]
    <3>1. r.next = n
      OBVIOUS
    <3>2. repetitions' = repetitions \union {r}
      BY <2>1
    <3> HIDE DEF r
    <3> QED
      BY <3>1, <3>2
  <2>6. row.parent = saved[i].parent
    BY <1>3
  <2> HIDE DEF saved, next
  <2>7. AddsOccurrence(i, saved)
    BY <2>1, <2>2, <2>4, <2>5, <2>6 DEF AddsOccurrence
  <2> QED
    BY <1>3, <1>4, <1>5, <2>7 DEF Finished
<1>7. CASE ~Repeats(repetitions, i, before, row, days)
  <2>1. tickets' = saved /\ repetitions' = repetitions
    BY <1>7 DEF FinishWorkflow, row
  <2> HIDE DEF saved
  <2> QED
    BY <1>3, <1>4, <1>5, <2>1 DEF Finished
<1> QED
  BY <1>6, <1>7

LEMMA FinishParents ==
  ASSUME TypeOK, NEW T, IsTable(T), ParentsExist(T), NEW i \in DOMAIN T,
         NEW before, NEW days \in Days, FinishWorkflow(T, i, before, days)
  PROVE  ParentsExist(tickets') /\ DOMAIN T \subseteq DOMAIN tickets'
<1>1. PICK saved : Finished(T, i, saved)
  BY FinishTable
<1>2. IsTable(saved) /\ DOMAIN saved = DOMAIN T /\ ParentsExist(saved)
  BY <1>1 DEF Finished, ParentsExist, SameWork
<1>3. CASE tickets' = saved
  BY <1>2, <1>3
<1>4. CASE AddsOccurrence(i, saved)
  <2>1. PICK n \in Ids, row \in Ticket :
          /\ n \notin DOMAIN saved /\ tickets' = Put(saved, n, row)
          /\ row.parent = saved[i].parent
    BY <1>4 DEF AddsOccurrence
  <2>2. tickets' = [j \in DOMAIN saved \union {n} |-> IF j = n THEN row ELSE saved[j]]
    BY <2>1 DEF Put
  <2> QED
    BY <1>2, <2>1, <2>2 DEF ParentsExist
<1> QED
  BY <1>1, <1>3, <1>4 DEF Finished

LEMMA FinishEpics ==
  ASSUME TypeOK, EpicsClosed, NEW T, IsTable(T), ParentsExist(T), NEW i \in DOMAIN T,
         DOMAIN T \subseteq DOMAIN tickets \union {i},
         \A j \in DOMAIN T \ {i} : SameWork(T[j], tickets[j]),
         NEW before, NEW days \in Days, FinishWorkflow(T, i, before, days)
  PROVE  EpicsClosed'
<1>1. PICK saved : Finished(T, i, saved)
  BY FinishTable
<1>2. /\ IsTable(saved) /\ DOMAIN saved = DOMAIN T /\ ParentsExist(saved)
      /\ repetitions \subseteq repetitions'
  BY <1>1 DEF Finished, AddsOccurrence, ParentsExist, SameWork
<1>3. ASSUME NEW e \in DOMAIN saved, NEW d \in DOMAIN saved, OpenUnder(saved, d, e)
      PROVE  \E r \in repetitions' : r.next = d
  <2>1. \A j \in DOMAIN T : SameWork(saved[j], T[j])
    BY <1>1 DEF Finished
  <2>2. OpenUnder(T, d, e)
    BY <1>2, <1>3, <2>1, NothingOpened DEF SameWork, Active
  <2>3. EpicsRespected(T, i) /\ e \in DOMAIN T /\ d \in DOMAIN T
    BY <1>1, <1>2, <1>3 DEF Finished
  <2>4. IsTable(tickets)
    BY TypedTable
  <2>5. e \in DOMAIN tickets /\ d \in DOMAIN tickets /\ OpenUnder(tickets, d, e)
    BY <2>2, <2>3, <2>4, ValidatedWrite
  <2> QED
    BY <1>2, <2>5 DEF EpicsClosed
<1>4. CASE tickets' = saved
  BY <1>3, <1>4 DEF EpicsClosed
<1>5. CASE AddsOccurrence(i, saved)
  <2>1. PICK n \in Ids, row \in Ticket :
          /\ n \notin DOMAIN saved /\ tickets' = Put(saved, n, row)
          /\ ~IsDone(row.column)
          /\ \E r \in repetitions' : r.next = n
    BY <1>5 DEF AddsOccurrence
  <2>2. DOMAIN tickets' = DOMAIN saved \union {n}
    BY <2>1 DEF Put
  <2> SUFFICES ASSUME NEW e \in DOMAIN tickets', NEW d \in DOMAIN tickets',
                      OpenUnder(tickets', d, e)
               PROVE  \E r \in repetitions' : r.next = d
    BY DEF EpicsClosed
  <2>3. CASE d = n
    BY <2>1, <2>3
  <2>4. CASE d # n
    <3>1. e \in DOMAIN saved \union {n} /\ d \in DOMAIN saved
      BY <2>2, <2>4
    <3>2. e \in DOMAIN saved /\ OpenUnder(saved, d, e)
      BY <1>2, <2>1, <3>1, FreshWrite
    <3> QED
      BY <1>3, <3>1, <3>2
  <2> QED
    BY <2>3, <2>4
<1> QED
  BY <1>1, <1>4, <1>5 DEF Finished

-----------------------------------------------------------------------------
(* Grounded is inductive *)

LEMMA InitGrounded == Init => Grounded
<1> SUFFICES ASSUME Init PROVE Grounded
  OBVIOUS
<1>1. PICK s \in InitialStores : tickets = s.tickets /\ links = s.links
  BY DEF Init
<1>2. WellFormed(s)
  BY StoresAssumption
<1>3. NothingDangles
  BY <1>1, <1>2 DEF WellFormed, NothingDangles
<1>4. HandlersKnow
  BY DEF Init, HandlersKnow, Busy, Idle
<1> QED
  BY <1>3, <1>4, InitType DEF Grounded

LEMMA RepliesKnow ==
  ASSUME Grounded, NEW c \in Clients, Reply(c), DOMAIN tickets \subseteq DOMAIN tickets'
  PROVE  HandlersKnow'
<1>1. handler' = [handler EXCEPT ![c] = Idle] /\ DOMAIN handler = Clients
  BY DEF Reply, Grounded, TypeOK
<1> SUFFICES ASSUME NEW b \in Clients, Busy(b)'
             PROVE  LET q == handler[b].request
                    IN (/\ q.kind # "delete"
                        /\ handler[b].phase = "parentChecked" =>
                             q.ticket.parent \in {0} \union DOMAIN tickets
                        /\ handler[b].phase \in {"checked", "ready"} => Known(q.ticket))'
  BY DEF HandlersKnow
<1>2. b # c /\ handler'[b] = handler[b]
  BY <1>1 DEF Busy, Idle
<1>3. Busy(b)
  BY <1>2 DEF Busy
<1> QED
  BY <1>2, <1>3 DEF Grounded, HandlersKnow, Known

(* A step of handler c that leaves the store alone keeps what the handlers *)
(* know if it keeps what c knows.                                          *)
LEMMA StepsKnow ==
  ASSUME Grounded, NEW c \in Clients, NEW h, handler' = [handler EXCEPT ![c] = h],
         tickets' = tickets,
         h.request.kind # "delete",
         h.phase = "parentChecked" =>
           h.request.ticket.parent \in {0} \union DOMAIN tickets,
         h.phase \in {"checked", "ready"} => Known(h.request.ticket)
  PROVE  HandlersKnow'
<1>1. DOMAIN handler = Clients
  BY DEF Grounded, TypeOK
<1> SUFFICES ASSUME NEW b \in Clients, Busy(b)'
             PROVE  LET q == handler[b].request
                    IN (/\ q.kind # "delete"
                        /\ handler[b].phase = "parentChecked" =>
                             q.ticket.parent \in {0} \union DOMAIN tickets
                        /\ handler[b].phase \in {"checked", "ready"} => Known(q.ticket))'
  BY DEF HandlersKnow
<1>2. CASE b = c
  BY <1>1, <1>2 DEF Known
<1>3. CASE b # c
  <2>1. handler'[b] = handler[b]
    BY <1>1, <1>3
  <2>2. Busy(b)
    BY <2>1 DEF Busy
  <2> QED
    BY <2>1, <2>2 DEF Grounded, HandlersKnow, Known
<1> QED
  BY <1>2, <1>3

(* The steps before a transaction, and failures, touch neither tickets nor *)
(* links.                                                                  *)
LEMMA PreparingKnows ==
  ASSUME Grounded, NoDeletes, NEW c \in Clients,
         \/ Receive(c) \/ CheckParent(c) \/ CheckDependencies(c)
         \/ LoadPrevious(c) \/ LoadOriginal(c) \/ Fail(c)
  PROVE  HandlersKnow' /\ UNCHANGED store
<1>1. UNCHANGED store /\ tickets' = tickets
  BY DEF Receive, CheckParent, CheckDependencies, LoadPrevious, LoadOriginal, Fail, store
<1>2. CASE Receive(c)
  <2>1. PICK q \in Requests :
          handler' = [handler EXCEPT ![c] =
            [phase |-> "received", request |-> Normalized(q), stamp |-> 0]]
    BY <1>2 DEF Receive
  <2>2. Normalized(q).kind # "delete"
    BY NoDeletes, RequestsAssumption DEF NoDeletes, Normalized, Request
  <2> DEFINE h == [phase |-> "received", request |-> Normalized(q), stamp |-> 0]
  <2>3. h.request.kind # "delete" /\ h.phase = "received"
    BY <2>2
  <2>4. handler' = [handler EXCEPT ![c] = h]
    BY <2>1
  <2> HIDE DEF h
  <2> QED
    BY <1>1, <2>3, <2>4, StepsKnow
<1>3. CASE CheckParent(c)
  <2> DEFINE h == [handler[c] EXCEPT !.phase = "parentChecked"]
  <2>1. handler[c] \in Handling /\ Busy(c)
    BY <1>3, HandlingFields DEF CheckParent, Busy, Grounded
  <2>2. handler' = [handler EXCEPT ![c] = h]
    BY <1>3 DEF CheckParent, Advance
  <2>3. /\ h.request.kind # "delete" /\ h.phase = "parentChecked"
        /\ h.request.ticket.parent \in {0} \union DOMAIN tickets
    BY <1>3, <2>1 DEF CheckParent, Handling
  <2> HIDE DEF h
  <2> QED
    BY <1>1, <2>2, <2>3, StepsKnow
<1>4. CASE CheckDependencies(c)
  <2> DEFINE q == handler[c].request
             stamp == IF q.kind = "create"
                      THEN CompletionTimestamp(q.ticket.column, 0, clock) ELSE 0
             next == IF q.kind = "create" THEN "ready" ELSE "checked"
  <2>1. /\ next \in {"checked", "ready"}
        /\ handler' = [handler EXCEPT ![c].phase = next, ![c].stamp = stamp]
    BY <1>4 DEF CheckDependencies
  <2> HIDE DEF stamp, next
  <2> DEFINE h == [handler[c] EXCEPT !.phase = next, !.stamp = stamp]
  <2>2. /\ handler[c] \in Handling /\ Busy(c)
        /\ handler[c].request.kind # "delete"
        /\ handler[c].request.ticket.parent \in {0} \union DOMAIN tickets
    BY <1>4, HandlingFields DEF CheckDependencies, Busy, Grounded, HandlersKnow
  <2>3. handler' = [handler EXCEPT ![c] = h]
    BY <2>1 DEF Grounded, TypeOK
  <2>4. handler[c].request.ticket.links \subseteq DOMAIN tickets
    BY <1>4 DEF CheckDependencies
  <2>5. /\ h.request.kind # "delete" /\ h.phase # "parentChecked"
        /\ Known(h.request.ticket)
    BY <2>1, <2>2, <2>4 DEF Known, Handling
  <2> HIDE DEF h
  <2> QED
    BY <1>1, <2>3, <2>5, StepsKnow
<1>5. CASE LoadPrevious(c)
  <2>1. PICK extras :
          handler' = [handler EXCEPT ![c].phase = "ready",
                                     ![c].request.ticket.repeat = extras]
    BY <1>5 DEF LoadPrevious
  <2> DEFINE form == [handler[c].request.ticket EXCEPT !.repeat = extras]
             h == [handler[c] EXCEPT !.phase = "ready",
                     !.request = [handler[c].request EXCEPT !.ticket = form]]
  <2>2. /\ handler[c] \in Handling /\ Busy(c) /\ handler[c].request.kind = "update"
        /\ handler[c].request \in Request(Columns)
        /\ handler[c].request.ticket \in Draft(Columns)
        /\ Known(handler[c].request.ticket)
    BY <1>5, HandlingFields, DraftFields DEF LoadPrevious, At, Busy, Grounded, HandlersKnow
  <2>3. handler' = [handler EXCEPT ![c] = h]
    BY <2>1 DEF Grounded, TypeOK
  <2>4. Known(form)
    BY <2>2 DEF Known, Draft
  <2> HIDE DEF form
  <2>5. /\ h.request.kind # "delete" /\ h.phase = "ready" /\ h.request.ticket = form
    BY <2>2 DEF Handling, Request
  <2> HIDE DEF h
  <2> QED
    BY <1>1, <2>3, <2>4, <2>5, StepsKnow
<1>6. CASE LoadOriginal(c)
  <2>1. PICK copy :
          handler' = [handler EXCEPT ![c].request =
                        Normalized([kind |-> "create", ticket |-> copy])]
    BY <1>6 DEF LoadOriginal
  <2> DEFINE q == Normalized([kind |-> "create", ticket |-> copy])
             h == [handler[c] EXCEPT !.request = q]
  <2>2. q.kind # "delete"
    BY DEF Normalized
  <2>3. handler[c] \in Handling /\ handler[c].phase = "received"
    BY <1>6, HandlingFields DEF LoadOriginal, At, Busy, Grounded
  <2>4. handler' = [handler EXCEPT ![c] = h]
    BY <2>1
  <2> HIDE DEF q
  <2>5. h.request.kind # "delete" /\ h.phase = "received"
    BY <2>2, <2>3 DEF Handling
  <2> HIDE DEF h
  <2> QED
    BY <1>1, <2>4, <2>5, StepsKnow
<1>7. CASE Fail(c)
  BY <1>1, <1>7, RepliesKnow DEF Fail
<1> QED
  BY <1>1, <1>2, <1>3, <1>4, <1>5, <1>6, <1>7

-----------------------------------------------------------------------------
(* What the transactions write *)

(* Table T is the stored one with row i written, and the common end of the *)
(* workflow follows.                                                       *)
Writes(T, i) ==
  /\ IsTable(T) /\ i \in DOMAIN T /\ DOMAIN T = DOMAIN tickets \union {i}
  /\ \A j \in DOMAIN T \ {i} : SameWork(T[j], tickets[j])
  /\ \E before : \E days \in Days : FinishWorkflow(T, i, before, days)

WritesForm(c, i) ==
  LET d == handler[c].request.ticket
  IN /\ i \in Ids /\ d.links \in SUBSET Ids
     /\ \E T : Writes(T, i) /\ T[i].parent = d.parent
     /\ links' = ReplaceLinks(links, i, d.links)

LEMMA CreateWrites ==
  ASSUME TypeOK, NEW c \in Clients, CommitCreate(c)
  PROVE  \E n : n \notin DOMAIN tickets /\ WritesForm(c, n)
<1> DEFINE d == handler[c].request.ticket
           row == [type |-> d.type, parent |-> d.parent, column |-> d.column,
                   position |-> d.position, backlog |-> d.backlog,
                   archived |-> FALSE, deleted |-> FALSE,
                   repeat |-> SavedExtras(d.repeat, 0),
                   completed |-> handler[c].stamp, started |-> 0]
<1>1. d \in Draft(Columns) /\ handler[c].stamp \in Nat
  BY HandlingFields, DraftFields DEF CommitCreate, At, Busy
<1>2. PICK n \in NewRowIds(tickets) :
        /\ FinishWorkflow(Put(tickets, n, row), n, Unplaced, 0)
        /\ links' = ReplaceLinks(links, n, d.links)
  BY DEF CommitCreate
<1> DEFINE T == Put(tickets, n, row)
<1>3. IsTable(tickets) /\ DOMAIN tickets \subseteq Nat
  BY TypedTable, TypedRow DEF Ids
<1>4. n \in Ids /\ n \notin DOMAIN tickets
  BY <1>3 DEF NewRowIds, Ids
<1>5. row \in Ticket /\ row.parent = d.parent
  BY <1>1, RulesAssumption DEF Draft, Ticket, SavedExtras, NoExtras
<1> HIDE DEF row
<1>6. /\ IsTable(T) /\ DOMAIN T = DOMAIN tickets \union {n} /\ T[n] = row
      /\ \A j \in DOMAIN tickets \ {n} : T[j] = tickets[j]
  BY <1>3, <1>4, <1>5, PutType
<1>7. 0 \in Days /\ d.links \in SUBSET Ids
  BY <1>1, RulesAssumption DEF Days, Draft
<1>8. FinishWorkflow(T, n, Unplaced, 0)
  BY <1>2
<1> HIDE DEF T
<1>9. Writes(T, n)
  BY <1>6, <1>7, <1>8 DEF Writes, SameWork
<1> QED
  BY <1>2, <1>4, <1>5, <1>6, <1>7, <1>9 DEF WritesForm

LEMMA UpdateWrites ==
  ASSUME TypeOK, NEW c \in Clients, CommitUpdate(c)
  PROVE  /\ handler[c].request.id \in DOMAIN tickets
         /\ WritesForm(c, handler[c].request.id)
<1> DEFINE i == handler[c].request.id
           d == handler[c].request.ticket
           was == tickets[i]
           row == [was EXCEPT !.type = d.type, !.parent = d.parent,
                     !.column = d.column, !.position = d.position,
                     !.backlog = d.backlog,
                     !.repeat = SavedExtras(d.repeat, @),
                     !.completed = CompletionTimestamp(d.column, @, clock)]
           T == [tickets EXCEPT ![i] = row]
<1>1. d \in Draft(Columns)
  BY HandlingFields, DraftFields DEF CommitUpdate, At, Busy
<1>2. i \in DOMAIN tickets /\ i \in Ids /\ was \in Ticket
  BY TypedRow DEF CommitUpdate
<1>3. /\ FinishWorkflow(T, i, was, d.repeat)
      /\ links' = ReplaceLinks(links, i, d.links)
  BY DEF CommitUpdate
<1>4. CompletionTimestamp(d.column, was.completed, clock) \in Nat
  BY <1>2, TimestampType DEF TypeOK, Ticket
<1>5. row \in Ticket /\ row.parent = d.parent
  BY <1>1, <1>2, <1>4 DEF Draft, Ticket, SavedExtras
<1> HIDE DEF row
<1>6. /\ IsTable(T) /\ DOMAIN T = DOMAIN tickets /\ T[i] = row
      /\ \A j \in DOMAIN tickets \ {i} : T[j] = tickets[j]
  BY <1>2, <1>5, ExceptType DEF TypeOK
<1>7. d.repeat \in Days /\ d.links \in SUBSET Ids
  BY <1>1 DEF Draft, Days
<1> HIDE DEF T
<1>8. Writes(T, i)
  BY <1>2, <1>3, <1>6, <1>7 DEF Writes, SameWork
<1> QED
  BY <1>2, <1>3, <1>5, <1>6, <1>7, <1>8 DEF WritesForm

(* A move within the column writes positions only.                         *)
KeepsWork ==
  /\ IsTable(tickets') /\ DOMAIN tickets' = DOMAIN tickets
  /\ \A j \in DOMAIN tickets : SameWork(tickets'[j], tickets[j])
  /\ history' = history /\ repetitions' = repetitions

LEMMA MoveWrites ==
  ASSUME TypeOK, NEW c \in Clients, CommitMove(c)
  PROVE  \/ KeepsWork
         \/ \E T : \E i \in DOMAIN tickets :
              Writes(T, i) /\ T[i].parent = tickets[i].parent
<1> DEFINE q == handler[c].request
           i == q.id
           was == tickets[i]
           T == Reordered(tickets, i, q.column, q.anchor, q.place)
           row == [T[i] EXCEPT !.completed = CompletionTimestamp(q.column, @, clock)]
<1>1. q.column \in Columns /\ q.place \in {"before", "after", "end"}
  BY HandlingFields, MoveFields DEF CommitMove, At, Busy
<1>2. i \in DOMAIN tickets /\ was \in Ticket
  BY TypedRow DEF CommitMove
<1>3. /\ IsTable(T) /\ DOMAIN T = DOMAIN tickets
      /\ \A j \in DOMAIN tickets :
           SameButPlace(T[j], tickets[j], IF j = i THEN q.column ELSE tickets[j].column)
  <2>1. IsTable(tickets)
    BY TypedTable
  <2>2. T = Reordered(tickets, i, q.column, q.anchor, q.place)
    OBVIOUS
  <2> HIDE DEF q, i, T
  <2>3. i \in DOMAIN tickets
    BY <1>2
  <2> QED
    BY <1>1, <2>1, <2>2, <2>3, ReorderedType
<1>4. CASE was.column = q.column
  <2>1. tickets' = T /\ history' = history /\ repetitions' = repetitions
    BY <1>4 DEF CommitMove
  <2> HIDE DEF T
  <2>2. KeepsWork
    BY <1>3, <1>4, <2>1 DEF KeepsWork, SameButPlace, SameWork
  <2> QED
    BY <2>2
<1>5. CASE was.column # q.column
  <2> DEFINE U == [T EXCEPT ![i] = row]
  <2>1. FinishWorkflow(U, i, was, was.repeat)
    BY <1>5, <1>2, <1>3 DEF CommitMove
  <2> HIDE DEF T
  <2>2. T[i] \in Ticket
    BY <1>2, <1>3, TableRow
  <2>3. CompletionTimestamp(q.column, T[i].completed, clock) \in Nat
    BY <2>2, TimestampType DEF TypeOK, Ticket
  <2>4. row \in Ticket /\ row.parent = T[i].parent
    BY <2>2, <2>3 DEF Ticket
  <2> HIDE DEF row
  <2>5. /\ IsTable(U) /\ DOMAIN U = DOMAIN T /\ U[i] = row
        /\ \A j \in DOMAIN T \ {i} : U[j] = T[j]
    <3>1. i \in DOMAIN T
      BY <1>2, <1>3
    <3> QED
      BY <1>3, <2>4, <3>1, ExceptType
  <2>6. was.repeat \in Days
    BY <1>2 DEF Ticket, Days
  <2> HIDE DEF U
  <2>7. \A j \in DOMAIN U \ {i} : SameWork(U[j], tickets[j])
    BY <1>3, <2>5 DEF SameButPlace, SameWork
  <2>8. Writes(U, i)
    BY <1>2, <1>3, <2>1, <2>5, <2>6, <2>7 DEF Writes
  <2>9. U[i].parent = tickets[i].parent
    BY <1>2, <1>3, <2>4, <2>5 DEF SameButPlace
  <2> QED
    BY <1>2, <2>8, <2>9
<1> QED
  BY <1>4, <1>5

(* Archiving, the trash, restoring and the start change no parent, type or *)
(* column.                                                                 *)
KeepsTree ==
  /\ DOMAIN tickets' = DOMAIN tickets
  /\ \A j \in DOMAIN tickets :
       /\ tickets'[j].parent = tickets[j].parent
       /\ tickets'[j].type = tickets[j].type
       /\ tickets'[j].column = tickets[j].column
  /\ links' = links /\ repetitions' = repetitions

LEMMA RowKeepsTree ==
  ASSUME TypeOK, NEW c \in Clients,
         CommitArchive(c) \/ CommitTrash(c) \/ CommitRestore(c)
  PROVE  KeepsTree
<1> DEFINE i == handler[c].request.id
           Rows == {[tickets[i] EXCEPT !.archived = @ \/ ~tickets[i].deleted],
                    [tickets[i] EXCEPT !.deleted = TRUE],
                    [tickets[i] EXCEPT !.archived = FALSE, !.deleted = FALSE]}
<1>1. i \in DOMAIN tickets => \A row \in Rows :
        /\ row.parent = tickets[i].parent /\ row.type = tickets[i].type
        /\ row.column = tickets[i].column
  BY TypedRow DEF Ticket
<1>2. PICK row \in Rows : SetRow(i, row)
  BY DEF CommitArchive, CommitTrash, CommitRestore
<1>3. links' = links /\ repetitions' = repetitions
  BY DEF CommitArchive, CommitTrash, CommitRestore
<1> HIDE DEF Rows
<1> QED
  BY <1>1, <1>2, <1>3 DEF KeepsTree, SetRow

LEMMA StartKeepsTree ==
  ASSUME TypeOK, Startup
  PROVE  KeepsTree
<1>1. tickets' = [i \in DOMAIN tickets |->
                   [tickets[i] EXCEPT !.backlog = @ \/ tickets[i].type = "idea"]]
  BY DEF Startup
<1>2. \A i \in DOMAIN tickets : tickets[i] \in Ticket
  BY TypedRow
<1> QED
  BY <1>1, <1>2 DEF KeepsTree, Startup, Ticket

-----------------------------------------------------------------------------
(* No step leaves a parent or a link that names nothing *)

LEMMA WrittenParents ==
  ASSUME NEW T, NEW i, Grounded, Writes(T, i),
         T[i].parent \in {0} \union DOMAIN tickets
  PROVE  /\ ParentsExist(T) /\ ParentsExist(tickets')
         /\ DOMAIN tickets \subseteq DOMAIN tickets' /\ i \in DOMAIN tickets'
<1>1. TypeOK /\ ParentsExist(tickets)
  BY DEF Grounded, NothingDangles
<1>2. ParentsExist(T)
  BY <1>1 DEF Writes, ParentsExist, SameWork
<1>3. PICK before : \E days \in Days : FinishWorkflow(T, i, before, days)
  BY DEF Writes
<1>4. IsTable(T) /\ i \in DOMAIN T /\ DOMAIN tickets \subseteq DOMAIN T
  BY DEF Writes
<1> QED
  BY <1>1, <1>2, <1>3, <1>4, FinishParents

(* A create or update that is ready to be written knows its parent and     *)
(* its prerequisites.                                                      *)
LEMMA ReadyKnows ==
  ASSUME Grounded, NEW c \in Clients, CommitCreate(c) \/ CommitUpdate(c)
  PROVE  Known(handler[c].request.ticket)
BY DEF Grounded, HandlersKnow, CommitCreate, CommitUpdate, At, Busy

LEMMA FormGrounds ==
  ASSUME Grounded, NEW c \in Clients, CommitCreate(c) \/ CommitUpdate(c),
         NEW i, WritesForm(c, i)
  PROVE  NothingDangles' /\ DOMAIN tickets \subseteq DOMAIN tickets'
<1> DEFINE d == handler[c].request.ticket
<1>1. PICK T : Writes(T, i) /\ T[i].parent = d.parent
  BY DEF WritesForm
<1>2. d.parent \in {0} \union DOMAIN tickets /\ d.links \subseteq DOMAIN tickets
  BY ReadyKnows DEF Known
<1>3. /\ ParentsExist(tickets') /\ DOMAIN tickets \subseteq DOMAIN tickets'
      /\ i \in DOMAIN tickets'
  BY <1>1, <1>2, WrittenParents
<1>4. links' = ReplaceLinks(links, i, d.links)
  BY DEF WritesForm
<1>5. links \subseteq (DOMAIN tickets) \X (DOMAIN tickets)
  BY DEF Grounded, NothingDangles
<1>6. links' \subseteq (DOMAIN tickets') \X (DOMAIN tickets')
  BY <1>2, <1>3, <1>4, <1>5 DEF ReplaceLinks
<1> QED
  BY <1>3, <1>6 DEF NothingDangles

LEMMA TreeGrounds ==
  ASSUME Grounded, KeepsTree
  PROVE  NothingDangles' /\ DOMAIN tickets \subseteq DOMAIN tickets'
BY DEF Grounded, NothingDangles, ParentsExist, KeepsTree

LEMMA MoveGrounds ==
  ASSUME Grounded, NEW c \in Clients, CommitMove(c)
  PROVE  NothingDangles' /\ DOMAIN tickets \subseteq DOMAIN tickets'
<1>1. TypeOK /\ links' = links /\ NothingDangles
  BY DEF Grounded, CommitMove
<1>2. CASE KeepsWork
  BY <1>1, <1>2 DEF KeepsWork, NothingDangles, ParentsExist, SameWork
<1>3. ASSUME NEW T, NEW i \in DOMAIN tickets,
             Writes(T, i), T[i].parent = tickets[i].parent
      PROVE  NothingDangles' /\ DOMAIN tickets \subseteq DOMAIN tickets'
  <2>1. T[i].parent \in {0} \union DOMAIN tickets
    BY <1>1, <1>3 DEF NothingDangles, ParentsExist
  <2>2. ParentsExist(tickets') /\ DOMAIN tickets \subseteq DOMAIN tickets'
    BY <1>3, <2>1, WrittenParents
  <2> QED
    BY <1>1, <2>2 DEF NothingDangles
<1> QED
  BY <1>1, <1>2, <1>3, MoveWrites

LEMMA NoDeleteRuns ==
  ASSUME Grounded, NEW c \in Clients
  PROVE  ~CommitDelete(c)
BY DEF Grounded, HandlersKnow, CommitDelete, At, Busy

LEMMA CommitGrounds ==
  ASSUME Grounded, NEW c \in Clients, Commit(c)
  PROVE  NothingDangles' /\ HandlersKnow'
<1>1. NothingDangles' /\ DOMAIN tickets \subseteq DOMAIN tickets'
  <2>1. CASE CommitCreate(c)
    BY <2>1, CreateWrites, FormGrounds DEF Grounded
  <2>2. CASE CommitUpdate(c)
    BY <2>2, UpdateWrites, FormGrounds DEF Grounded
  <2>3. CASE CommitMove(c)
    BY <2>3, MoveGrounds
  <2>4. CASE CommitArchive(c) \/ CommitTrash(c) \/ CommitRestore(c)
    BY <2>4, RowKeepsTree, TreeGrounds DEF Grounded
  <2> QED
    BY <2>1, <2>2, <2>3, <2>4, NoDeleteRuns DEF Commit
<1>2. Reply(c)
  BY DEF Commit, CommitCreate, CommitUpdate, CommitMove, CommitArchive, CommitTrash,
         CommitRestore, CommitDelete
<1> QED
  BY <1>1, <1>2, RepliesKnow

LEMMA NextGrounded == NoDeletes /\ Grounded /\ [Next]_vars => Grounded'
<1> SUFFICES ASSUME NoDeletes, Grounded, [Next]_vars PROVE Grounded'
  OBVIOUS
<1>1. TypeOK /\ TypeOK'
  BY NextType DEF Grounded
<1>2. CASE Startup
  <2>1. NothingDangles' /\ DOMAIN tickets' = DOMAIN tickets
    BY <1>1, <1>2, StartKeepsTree, TreeGrounds DEF KeepsTree
  <2>2. handler' = handler
    BY <1>2 DEF Startup
  <2>3. HandlersKnow'
    BY <2>1, <2>2 DEF Grounded, HandlersKnow, Known, Busy
  <2> QED
    BY <1>1, <2>1, <2>3 DEF Grounded
<1>3. CASE Crash
  <2>1. handler' = [c \in Clients |-> Idle] /\ tickets' = tickets /\ links' = links
    BY <1>3 DEF Crash, store
  <2>2. HandlersKnow'
    BY <2>1 DEF HandlersKnow, Busy, Idle
  <2>3. NothingDangles'
    BY <2>1 DEF Grounded, NothingDangles
  <2> QED
    BY <1>1, <2>2, <2>3 DEF Grounded
<1>4. ASSUME NEW c \in Clients, Handle(c) PROVE Grounded'
  <2>1. CASE Commit(c)
    BY <1>1, <2>1, CommitGrounds DEF Grounded
  <2>2. CASE ~Commit(c)
    <3>1. HandlersKnow' /\ UNCHANGED store
      BY <1>4, <2>2, PreparingKnows DEF Handle
    <3>2. NothingDangles'
      BY <3>1 DEF Grounded, NothingDangles, store
    <3> QED
      BY <1>1, <3>1, <3>2 DEF Grounded
  <2> QED
    BY <2>1, <2>2
<1>5. CASE UNCHANGED vars
  BY <1>1, <1>5 DEF vars, Grounded, NothingDangles, HandlersKnow, Known, Busy
<1> QED
  BY <1>2, <1>3, <1>4, <1>5 DEF Next

(* While nothing is deleted for good, every parent and every dependency    *)
(* link names a stored ticket, although handlers check both in statements  *)
(* of their own before the transaction that writes them.                   *)
THEOREM NothingEverDangles == ASSUME NoDeletes PROVE Spec => []NothingDangles
<1>1. Grounded /\ [Next]_vars => Grounded'
  BY NoDeletes, NextGrounded
<1>2. Grounded => NothingDangles
  BY DEF Grounded
<1> QED
  BY <1>1, <1>2, InitGrounded, PTL DEF Spec

-----------------------------------------------------------------------------
(* The dependency graph *)

(* No walk from stored tickets comes back to one that is not stored yet.   *)
LEMMA FreshLinks ==
  ASSUME TypeOK, NothingDangles, LinksAcyclic, NEW n \in Ids, n \notin DOMAIN tickets,
         NEW targets \in SUBSET DOMAIN tickets, links' = ReplaceLinks(links, n, targets)
  PROVE  LinksAcyclic'
<1> DEFINE F == ReplaceLinks(links, n, targets)
<1>1. links \subseteq (DOMAIN tickets) \X (DOMAIN tickets) /\ DOMAIN tickets \in SUBSET Ids
  BY TypedRow DEF NothingDangles
<1>2. IsClosed(F, DOMAIN tickets)
  BY <1>1 DEF IsClosed, ReplaceLinks
<1>3. n \notin Reach(F, Ids, targets)
  BY <1>1, <1>2 DEF Reach
<1>4. Acyclic(links, Ids) /\ targets \in SUBSET Ids
  BY <1>1 DEF LinksAcyclic
<1>5. Acyclic(ReplaceLinks(links, n, targets), Ids)
  BY <1>3, <1>4, AcyclicReplace
<1> QED
  BY <1>5 DEF LinksAcyclic

(* The walk of validateDependencyGraph is enough for an update.            *)
LEMMA ValidatedLinks ==
  ASSUME TypeOK, NothingDangles, LinksAcyclic, NEW i, NEW targets \in SUBSET Ids,
         ~DependencyCycle(i, targets), links' = ReplaceLinks(links, i, targets)
  PROVE  LinksAcyclic'
<1>1. links = {e \in links : e[1] \in DOMAIN tickets}
  BY DEF NothingDangles
<1>2. i \notin Reach(ReplaceLinks(links, i, targets), Ids, targets)
  BY <1>1 DEF DependencyCycle
<1>3. Acyclic(links, Ids)
  BY DEF LinksAcyclic
<1>4. Acyclic(ReplaceLinks(links, i, targets), Ids)
  BY <1>2, <1>3, AcyclicReplace
<1> QED
  BY <1>4 DEF LinksAcyclic

LEMMA CreateAcyclic ==
  ASSUME Grounded, LinksAcyclic, NEW c \in Clients, CommitCreate(c)
  PROVE  LinksAcyclic'
<1> DEFINE targets == handler[c].request.ticket.links
<1>1. PICK n : n \notin DOMAIN tickets /\ WritesForm(c, n)
  BY CreateWrites DEF Grounded
<1>2. links' = ReplaceLinks(links, n, targets) /\ n \in Ids
  BY <1>1 DEF WritesForm
<1>3. targets \in SUBSET DOMAIN tickets
  BY ReadyKnows DEF Known
<1> HIDE DEF targets
<1> QED
  BY <1>1, <1>2, <1>3, FreshLinks DEF Grounded

LEMMA UpdateAcyclic ==
  ASSUME Grounded, LinksAcyclic, NEW c \in Clients, CommitUpdate(c)
  PROVE  LinksAcyclic'
<1> DEFINE targets == handler[c].request.ticket.links
           i == handler[c].request.id
<1>1. links' = ReplaceLinks(links, i, targets) /\ targets \in SUBSET Ids
  BY UpdateWrites DEF Grounded, WritesForm
<1>2. ~DependencyCycle(i, targets)
  BY DEF CommitUpdate
<1> HIDE DEF i, targets
<1> QED
  BY <1>1, <1>2, ValidatedLinks DEF Grounded

LEMMA NextLinksAcyclic ==
  Grounded /\ LinksAcyclic /\ [Next]_vars => LinksAcyclic'
<1> SUFFICES ASSUME Grounded, LinksAcyclic, [Next]_vars PROVE LinksAcyclic'
  OBVIOUS
<1>1. ASSUME links' = links PROVE LinksAcyclic'
  BY <1>1 DEF LinksAcyclic
<1>2. CASE Startup \/ Crash \/ UNCHANGED vars
  BY <1>1, <1>2 DEF Startup, Crash, vars, store
<1>3. ASSUME NEW c \in Clients, Handle(c) PROVE LinksAcyclic'
  <2>1. CASE CommitCreate(c)
    BY <2>1, CreateAcyclic
  <2>2. CASE CommitUpdate(c)
    BY <2>2, UpdateAcyclic
  <2>3. CASE \/ CommitMove(c) \/ CommitArchive(c) \/ CommitTrash(c) \/ CommitRestore(c)
    BY <1>1, <2>3 DEF CommitMove, CommitArchive, CommitTrash, CommitRestore
  <2>4. CASE \/ Receive(c) \/ CheckParent(c) \/ CheckDependencies(c)
             \/ LoadPrevious(c) \/ LoadOriginal(c) \/ Fail(c)
    BY <1>1, <2>4 DEF Receive, CheckParent, CheckDependencies, LoadPrevious,
       LoadOriginal, Fail, store
  <2> QED
    BY <1>3, <2>1, <2>2, <2>3, <2>4, NoDeleteRuns DEF Handle, Commit
<1> QED
  BY <1>2, <1>3 DEF Next

(* While nothing is deleted for good, the dependency links never form a    *)
(* cycle, however the handlers of different requests interleave: checking  *)
(* the graph inside the transaction of an update is enough, and a create   *)
(* needs no check.                                                         *)
THEOREM LinksStayAcyclic == ASSUME NoDeletes PROVE Spec => []LinksAcyclic
<1>1. Init => Grounded /\ LinksAcyclic
  <2>1. ASSUME Init PROVE LinksAcyclic
    BY <2>1, StoresAssumption DEF Init, WellFormed, LinksAcyclic
  <2> QED
    BY <2>1, InitGrounded
<1>2. Grounded /\ LinksAcyclic /\ [Next]_vars => (Grounded /\ LinksAcyclic)'
  BY NoDeletes, NextGrounded, NextLinksAcyclic
<1> QED
  BY <1>1, <1>2, PTL DEF Spec

-----------------------------------------------------------------------------
(* Epics in Done *)

LEMMA WriteClosesEpics ==
  ASSUME NEW T, NEW i, Grounded, EpicsClosed, Writes(T, i),
         T[i].parent \in {0} \union DOMAIN tickets
  PROVE  EpicsClosed'
<1>1. ParentsExist(T)
  BY WrittenParents
<1>2. PICK before : \E days \in Days : FinishWorkflow(T, i, before, days)
  BY DEF Writes
<1>3. /\ IsTable(T) /\ i \in DOMAIN T /\ DOMAIN T \subseteq DOMAIN tickets \union {i}
      /\ \A j \in DOMAIN T \ {i} : SameWork(T[j], tickets[j])
  BY DEF Writes
<1>4. TypeOK
  BY DEF Grounded
<1> QED
  BY <1>1, <1>2, <1>3, <1>4, FinishEpics

LEMMA FormClosesEpics ==
  ASSUME Grounded, EpicsClosed, NEW c \in Clients, CommitCreate(c) \/ CommitUpdate(c)
  PROVE  EpicsClosed'
<1>1. PICK i : WritesForm(c, i)
  BY CreateWrites, UpdateWrites DEF Grounded
<1>2. PICK T : Writes(T, i) /\ T[i].parent = handler[c].request.ticket.parent
  BY <1>1 DEF WritesForm
<1>3. handler[c].request.ticket.parent \in {0} \union DOMAIN tickets
  BY ReadyKnows DEF Known
<1>4. T[i].parent \in {0} \union DOMAIN tickets
  BY <1>2, <1>3
<1> QED
  BY <1>2, <1>4, WriteClosesEpics

(* Steps that only take tickets out of the active scope.                   *)
LEMMA NarrowingClosesEpics ==
  ASSUME EpicsClosed, DOMAIN tickets' = DOMAIN tickets, repetitions' = repetitions,
         \A j \in DOMAIN tickets :
           /\ tickets'[j].type = tickets[j].type
           /\ tickets'[j].parent = tickets[j].parent
           /\ tickets'[j].column = tickets[j].column
           /\ Active(tickets'[j]) => Active(tickets[j])
  PROVE  EpicsClosed'
<1> SUFFICES ASSUME NEW e \in DOMAIN tickets', NEW d \in DOMAIN tickets',
                    OpenUnder(tickets', d, e)
             PROVE  \E r \in repetitions' : r.next = d
  BY DEF EpicsClosed
<1>1. OpenUnder(tickets, d, e)
  BY NothingOpened
<1> QED
  BY <1>1 DEF EpicsClosed

LEMMA RowNarrows ==
  ASSUME TypeOK, NEW c \in Clients, CommitArchive(c) \/ CommitTrash(c),
         NEW j \in DOMAIN tickets, Active(tickets'[j])
  PROVE  Active(tickets[j])
<1> DEFINE i == handler[c].request.id
           Rows == {[tickets[i] EXCEPT !.archived = @ \/ ~tickets[i].deleted],
                    [tickets[i] EXCEPT !.deleted = TRUE]}
<1>1. i \in DOMAIN tickets => \A row \in Rows : Active(row) => Active(tickets[i])
  BY TypedRow DEF Ticket, Active
<1>2. PICK row \in Rows : SetRow(i, row)
  BY DEF CommitArchive, CommitTrash
<1> HIDE DEF Rows
<1> QED
  BY <1>1, <1>2 DEF SetRow

LEMMA RestoreClosesEpics ==
  ASSUME Grounded, EpicsClosed, NEW c \in Clients, CommitRestore(c)
  PROVE  EpicsClosed'
<1> DEFINE i == handler[c].request.id
<1>1. EpicsRespected(tickets', i)
  BY DEF CommitRestore
<1>2. KeepsTree
  BY RowKeepsTree DEF Grounded
<1>3. \A j \in DOMAIN tickets \ {i} : tickets'[j] = tickets[j]
  BY DEF CommitRestore, SetRow
<1>4. IsTable(tickets) /\ IsTable(tickets')
  <2>1. TypeOK /\ TypeOK'
    BY CommitRowType DEF Grounded
  <2> QED
    BY <2>1 DEF TypeOK
<1> HIDE DEF i
<1> SUFFICES ASSUME NEW e \in DOMAIN tickets', NEW d \in DOMAIN tickets',
                    OpenUnder(tickets', d, e)
             PROVE  \E r \in repetitions' : r.next = d
  BY DEF EpicsClosed
<1>5. DOMAIN tickets' = DOMAIN tickets /\ repetitions' = repetitions
  BY <1>2 DEF KeepsTree
<1>6. CASE i \in DOMAIN tickets
  <2>1. \A j \in DOMAIN tickets' \ {i} : SameWork(tickets'[j], tickets[j])
    BY <1>3, <1>5 DEF SameWork
  <2>2. e \in DOMAIN tickets /\ d \in DOMAIN tickets /\ OpenUnder(tickets, d, e)
    BY <1>1, <1>4, <1>5, <1>6, <2>1, ValidatedWrite
  <2> QED
    BY <1>5, <2>2 DEF EpicsClosed
<1>7. CASE i \notin DOMAIN tickets
  <2>1. \A j \in DOMAIN tickets : tickets'[j] = tickets[j]
    BY <1>3, <1>7
  <2>2. OpenUnder(tickets, d, e)
    BY <1>5, <2>1, NothingOpened
  <2> QED
    BY <1>5, <2>2 DEF EpicsClosed
<1> QED
  BY <1>6, <1>7

LEMMA MoveClosesEpics ==
  ASSUME Grounded, EpicsClosed, NEW c \in Clients, CommitMove(c)
  PROVE  EpicsClosed'
<1>1. TypeOK
  BY DEF Grounded
<1>2. CASE KeepsWork
  <2>1. /\ DOMAIN tickets' = DOMAIN tickets /\ repetitions' = repetitions
        /\ \A j \in DOMAIN tickets : SameWork(tickets'[j], tickets[j])
    BY <1>2 DEF KeepsWork
  <2> QED
    BY <2>1, NarrowingClosesEpics DEF SameWork, Active
<1>3. ASSUME NEW T, NEW i \in DOMAIN tickets,
             Writes(T, i), T[i].parent = tickets[i].parent
      PROVE  EpicsClosed'
  <2>1. T[i].parent \in {0} \union DOMAIN tickets
    BY <1>3 DEF Grounded, NothingDangles, ParentsExist
  <2> QED
    BY <1>3, <2>1, WriteClosesEpics
<1> QED
  BY <1>1, <1>2, <1>3, MoveWrites

LEMMA StartClosesEpics ==
  ASSUME TypeOK, EpicsClosed, Startup
  PROVE  EpicsClosed'
<1>1. KeepsTree
  BY StartKeepsTree
<1>2. \A j \in DOMAIN tickets : Active(tickets'[j]) => Active(tickets[j])
  <2>1. tickets' = [i \in DOMAIN tickets |->
                     [tickets[i] EXCEPT !.backlog = @ \/ tickets[i].type = "idea"]]
    BY DEF Startup
  <2>2. \A i \in DOMAIN tickets : tickets[i] \in Ticket
    BY TypedRow
  <2> QED
    BY <2>1, <2>2 DEF Active, Ticket
<1> QED
  BY <1>1, <1>2, NarrowingClosesEpics DEF KeepsTree

LEMMA NextEpicsClosed ==
  Grounded /\ EpicsClosed /\ [Next]_vars => EpicsClosed'
<1> SUFFICES ASSUME Grounded, EpicsClosed, [Next]_vars PROVE EpicsClosed'
  OBVIOUS
<1>1. TypeOK
  BY DEF Grounded
<1>2. ASSUME tickets' = tickets, repetitions' = repetitions PROVE EpicsClosed'
  BY <1>2 DEF EpicsClosed
<1>3. CASE Startup
  BY <1>1, <1>3, StartClosesEpics
<1>4. CASE Crash \/ UNCHANGED vars
  BY <1>2, <1>4 DEF Crash, vars, store
<1>5. ASSUME NEW c \in Clients, Handle(c) PROVE EpicsClosed'
  <2>1. CASE CommitCreate(c) \/ CommitUpdate(c)
    BY <2>1, FormClosesEpics
  <2>2. CASE CommitMove(c)
    BY <2>2, MoveClosesEpics
  <2>3. CASE CommitArchive(c) \/ CommitTrash(c)
    <3>1. KeepsTree
      BY <1>1, <2>3, RowKeepsTree
    <3>2. \A j \in DOMAIN tickets : Active(tickets'[j]) => Active(tickets[j])
      BY <1>1, <2>3, RowNarrows
    <3> QED
      BY <3>1, <3>2, NarrowingClosesEpics DEF KeepsTree
  <2>4. CASE CommitRestore(c)
    BY <2>4, RestoreClosesEpics
  <2>5. CASE \/ Receive(c) \/ CheckParent(c) \/ CheckDependencies(c)
             \/ LoadPrevious(c) \/ LoadOriginal(c) \/ Fail(c)
    BY <1>2, <2>5 DEF Receive, CheckParent, CheckDependencies, LoadPrevious,
       LoadOriginal, Fail, store
  <2> QED
    BY <1>5, <2>1, <2>2, <2>3, <2>4, <2>5, NoDeleteRuns DEF Handle, Commit
<1> QED
  BY <1>3, <1>4, <1>5 DEF Next

(* While nothing is deleted for good, no interleaving of handlers puts     *)
(* open work below an epic in Done, except the next occurrence of a        *)
(* repeating task: looking only at the epics above the changed ticket, in  *)
(* every transaction that may open work, is enough.                        *)
THEOREM ClosedEpicsStayClosed == ASSUME NoDeletes PROVE Spec => []EpicsClosed
<1>1. Init => Grounded /\ EpicsClosed
  <2>1. ASSUME Init PROVE EpicsClosed
    BY <2>1, StoresAssumption DEF Init, WellFormed, EpicsClosed
  <2> QED
    BY <2>1, InitGrounded
<1>2. Grounded /\ EpicsClosed /\ [Next]_vars => (Grounded /\ EpicsClosed)'
  BY NoDeletes, NextGrounded, NextEpicsClosed
<1> QED
  BY <1>1, <1>2, PTL DEF Spec
=============================================================================
