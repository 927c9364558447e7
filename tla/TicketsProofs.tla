---------------------------- MODULE TicketsProofs ----------------------------
(***************************************************************************)
(* Theorems about Tickets for every board, store, request set and number   *)
(* of concurrent handlers.                                                 *)
(***************************************************************************)
EXTENDS Tickets, FiniteSetTheorems, TLAPS

-----------------------------------------------------------------------------
(* Facts about the rules *)

LEMMA FirstColumnType == FirstColumn \in Columns /\ ~IsDone(FirstColumn)
BY ColumnsAssumption DEF FirstColumn, Columns, IsDone

(* A walk stays among the nodes, contains the nodes it starts from and     *)
(* follows every edge between nodes.                                       *)
LEMMA ReachProperties ==
  ASSUME NEW E, NEW N, NEW start
  PROVE  /\ Reach(E, N, start) \subseteq N
         /\ start \intersect N \subseteq Reach(E, N, start)
         /\ \A e \in E : e[1] \in Reach(E, N, start) /\ e[2] \in N
                           => e[2] \in Reach(E, N, start)
BY DEF Reach, IsClosed

LEMMA TableRow ==
  ASSUME NEW T, IsTable(T), NEW i \in DOMAIN T
  PROVE  i \in Ids /\ T[i] \in Ticket
BY DEF IsTable

LEMMA TableFinite ==
  ASSUME NEW T, IsTable(T)
  PROVE  IsFiniteSet(DOMAIN T)
<1>1. IsFiniteSet(Ids)
  BY RulesAssumption, FS_Interval DEF Ids
<1> QED
  BY <1>1, FS_Subset DEF IsTable

LEMMA PutType ==
  ASSUME NEW T, IsTable(T), NEW i \in Ids, NEW row \in Ticket
  PROVE  /\ IsTable(Put(T, i, row))
         /\ DOMAIN Put(T, i, row) = DOMAIN T \union {i}
         /\ Put(T, i, row)[i] = row
         /\ \A j \in DOMAIN T \ {i} : Put(T, i, row)[j] = T[j]
BY DEF Put, IsTable

LEMMA ExceptType ==
  ASSUME NEW T, IsTable(T), NEW i \in DOMAIN T, NEW row \in Ticket
  PROVE  /\ IsTable([T EXCEPT ![i] = row])
         /\ DOMAIN [T EXCEPT ![i] = row] = DOMAIN T
         /\ [T EXCEPT ![i] = row][i] = row
         /\ \A j \in DOMAIN T \ {i} : [T EXCEPT ![i] = row][j] = T[j]
BY DEF IsTable

LEMMA RankType ==
  ASSUME NEW T, IsTable(T), NEW G \in SUBSET DOMAIN T, NEW j
  PROVE  Rank(T, G, j) \in Nat
<1>1. IsFiniteSet({k \in G : Before(T, k, j)})
  BY TableFinite, FS_Subset
<1> QED
  BY <1>1, FS_CardinalityType DEF Rank

LEMMA EpicAboveType ==
  ASSUME NEW T, IsTable(T), NEW N, NEW i
  PROVE  EpicAbove(T, N, i) \in {0} \union Ids
<1> DEFINE steps == {e \in ParentEdges(T) : T[e[1]].type # "epic" /\ e[2] \in N}
           epics == {p \in Reach(steps, Ids, {T[i].parent} \intersect N) :
                        p # i /\ T[p].type = "epic"}
<1>1. epics \subseteq Ids
  BY ReachProperties
<1>2. EpicAbove(T, N, i) = IF epics = {} THEN 0 ELSE CHOOSE p \in epics : TRUE
  BY DEF EpicAbove
<1> HIDE DEF epics
<1> QED
  BY <1>1, <1>2

LEMMA EpisodeType ==
  ASSUME NEW T, IsTable(T), NEW i \in DOMAIN T, T[i].completed # 0
  PROVE  Episode(T, i) \in Episodes
<1>1. EpicAbove(T, DOMAIN T, i) \in {0} \union Ids
  BY EpicAboveType
<1>2. i \in Ids /\ T[i] \in Ticket
  BY TableRow
<1> QED
  BY <1>1, <1>2 DEF Episode, Episodes, Ticket

(* The rows agree on everything but position and column.                   *)
SameButPlace(new, old, column) ==
  /\ new.column = column
  /\ new.type = old.type /\ new.parent = old.parent /\ new.backlog = old.backlog
  /\ new.archived = old.archived /\ new.deleted = old.deleted
  /\ new.repeat = old.repeat /\ new.completed = old.completed
  /\ new.started = old.started

(* Reordered changes nothing but positions and the column of the moved     *)
(* ticket.                                                                 *)
LEMMA ReorderedType ==
  ASSUME NEW T, IsTable(T), NEW i \in DOMAIN T, NEW column \in Columns,
         NEW anchor, NEW place \in {"before", "after", "end"}
  PROVE  /\ IsTable(Reordered(T, i, column, anchor, place))
         /\ DOMAIN Reordered(T, i, column, anchor, place) = DOMAIN T
         /\ \A j \in DOMAIN T :
              SameButPlace(Reordered(T, i, column, anchor, place)[j], T[j],
                           IF j = i THEN column ELSE T[j].column)
<1> DEFINE target == Group(T, i, column)
           source == IF T[i].column = column THEN {} ELSE Group(T, i, T[i].column)
           slot   == Slot(T, target, anchor, place)
           PositionOf(j) ==
             IF j = i THEN slot + 1
             ELSE IF j \in target
             THEN Rank(T, target, j) + (IF Rank(T, target, j) >= slot THEN 2 ELSE 1)
             ELSE IF j \in source THEN Rank(T, source, j) + 1
             ELSE T[j].position
           R == [j \in DOMAIN T |-> [T[j] EXCEPT !.position = PositionOf(j),
                                      !.column = IF j = i THEN column ELSE @]]
<1>1. Reordered(T, i, column, anchor, place) = R
  BY DEF Reordered
<1>2. target \subseteq DOMAIN T /\ source \subseteq DOMAIN T
  BY DEF Group
<1>3. slot \in Nat
  <2>1. Rank(T, target, anchor) \in Nat
    BY <1>2, RankType
  <2>2. Cardinality(target) \in Nat
    BY <1>2, TableFinite, FS_Subset, FS_CardinalityType
  <2> HIDE DEF target
  <2> QED
    BY <2>1, <2>2 DEF Slot
<1>4. ASSUME NEW j \in DOMAIN T PROVE PositionOf(j) \in Nat
  <2>1. Rank(T, target, j) \in Nat /\ Rank(T, source, j) \in Nat
    BY <1>2, RankType
  <2>2. T[j].position \in Nat
    BY TableRow DEF Ticket
  <2> HIDE DEF target, source, slot
  <2> QED
    BY <1>3, <2>1, <2>2
<1> HIDE DEF PositionOf
<1>5. ASSUME NEW j \in DOMAIN T PROVE R[j] \in Ticket
  <2>1. T[j] \in Ticket /\ PositionOf(j) \in Nat
    BY <1>4, TableRow
  <2>2. /\ (IF j = i THEN column ELSE T[j].column) \in Columns
        /\ R[j] = [T[j] EXCEPT !.position = PositionOf(j),
                               !.column = IF j = i THEN column ELSE @]
    BY <2>1 DEF Ticket
  <2> HIDE DEF R
  <2> QED
    BY <2>1, <2>2 DEF Ticket
<1>6. DOMAIN R = DOMAIN T
  OBVIOUS
<1>7. ASSUME NEW j \in DOMAIN T
      PROVE  SameButPlace(R[j], T[j], IF j = i THEN column ELSE T[j].column)
  <2>1. R[j] = [T[j] EXCEPT !.position = PositionOf(j),
                            !.column = IF j = i THEN column ELSE @]
    OBVIOUS
  <2>2. T[j] \in Ticket
    BY TableRow
  <2> QED
    BY <2>1, <2>2 DEF SameButPlace, Ticket
<1> HIDE DEF R
<1>8. IsTable(R)
  <2>1. R = [j \in DOMAIN R |-> R[j]]
    BY DEF R
  <2> QED
    BY <1>5, <1>6, <2>1 DEF IsTable
<1> QED
  BY <1>1, <1>6, <1>7, <1>8

-----------------------------------------------------------------------------
(* Type correctness *)

Days == RepeatDays \union {NoExtras}

LEMMA TypedTable == TypeOK => IsTable(tickets)
BY DEF TypeOK

LEMMA TypedRow ==
  ASSUME TypeOK, NEW i \in DOMAIN tickets
  PROVE  i \in Ids /\ tickets[i] \in Ticket
BY TableRow DEF TypeOK

LEMMA TimestampType ==
  ASSUME NEW column, NEW current \in Nat, NEW now \in Nat \ {0}
  PROVE  /\ CompletionTimestamp(column, current, now) \in Nat
         /\ CompletionTimestamp(column, current, now) # 0 <=> IsDone(column)
         /\ IsDone(column) /\ current # 0 =>
              CompletionTimestamp(column, current, now) = current
BY DEF CompletionTimestamp

(* The tables that the common end of the workflow writes leaves behind.    *)
LEMMA FinishType ==
  ASSUME TypeOK, NEW T, IsTable(T), NEW i \in DOMAIN T, NEW before,
         NEW days \in Days, FinishWorkflow(T, i, before, days)
  PROVE  /\ IsTable(tickets')
         /\ history' \subseteq Episodes
         /\ repetitions' \subseteq Repetitions
         /\ clock' \in Nat \ {0}
<1> DEFINE row   == [T[i] EXCEPT !.started = StartedAt(T[i], before, clock)]
           saved == [T EXCEPT ![i] = row]
<1>1. i \in Ids /\ T[i] \in Ticket /\ clock \in Nat \ {0}
  BY TableRow DEF TypeOK
<1>2. row \in Ticket /\ row.completed \in Nat
  BY <1>1 DEF StartedAt, Ticket
<1>3. /\ IsTable(saved) /\ DOMAIN saved = DOMAIN T /\ saved[i] = row
  BY <1>2, ExceptType
<1> HIDE DEF row
<1>4. history' = Recorded(history, saved, i)
  BY DEF FinishWorkflow, row
<1>5. history' \subseteq Episodes
  <2> HIDE DEF saved
  <2>1. saved[i].completed # 0 => Episode(saved, i) \in Episodes
    BY <1>3, EpisodeType
  <2> QED
    BY <1>4, <2>1 DEF Recorded, TypeOK
<1>6. clock' \in Nat \ {0}
  BY <1>1 DEF FinishWorkflow
<1>7. CASE Repeats(repetitions, i, before, row, days)
  <2>1. PICK n \in NewRowIds(saved) :
          /\ tickets' = Put(saved, n, NextOccurrence(row, days))
          /\ repetitions' = repetitions \union
               {[ticket |-> i, completed |-> row.completed, next |-> n]}
    BY <1>7 DEF FinishWorkflow, row
  <2>2. n \in Ids
    BY DEF NewRowIds
  <2>3. days \in RepeatDays /\ row.completed # 0
    BY <1>7, RulesAssumption DEF Repeats, Days, NoExtras
  <2>4. NextOccurrence(row, days) \in Ticket
    BY <1>2, <2>3, FirstColumnType DEF NextOccurrence, Ticket
  <2>5. IsTable(tickets')
    BY <1>3, <2>1, <2>2, <2>4, PutType
  <2>6. repetitions' \subseteq Repetitions
    BY <1>1, <1>2, <2>1, <2>2, <2>3 DEF Repetitions, TypeOK
  <2> QED
    BY <1>5, <1>6, <2>5, <2>6
<1>8. CASE ~Repeats(repetitions, i, before, row, days)
  <2>1. tickets' = saved /\ repetitions' = repetitions
    BY <1>8 DEF FinishWorkflow, row
  <2> QED
    BY <1>3, <1>5, <1>6, <2>1 DEF TypeOK
<1> QED
  BY <1>7, <1>8

LEMMA NormalizedType ==
  ASSUME NEW q \in Request({0} \union Columns),
         q.kind = "update" => q.ticket.column # 0
  PROVE  Normalized(q) \in Request(Columns) /\ Normalized(q).kind = q.kind
<1>1. CASE q.kind \notin {"create", "update"}
  <2>1. Normalized(q) = q
    BY <1>1 DEF Normalized
  <2> QED
    BY <1>1, <2>1 DEF Request
<1>2. CASE q.kind \in {"create", "update"}
  <2>1. q.ticket \in Draft({0} \union Columns)
    BY <1>2 DEF Request
  <2> DEFINE idea == q.ticket.type = "idea"
             d    == q.ticket
             form == [d EXCEPT !.backlog = d.backlog \/ idea,
                        !.parent = IF idea THEN 0 ELSE d.parent,
                        !.links = IF idea THEN {} ELSE d.links,
                        !.column = IF d.column = 0 /\ q.kind = "create"
                                   THEN FirstColumn ELSE d.column]
  <2>2. form \in Draft(Columns)
    BY <1>2, <2>1, FirstColumnType DEF Draft
  <2>3. Normalized(q) = [q EXCEPT !.ticket = form]
    BY <1>2 DEF Normalized
  <2> HIDE DEF form
  <2>4. CASE q.kind = "create"
    BY <2>2, <2>3, <2>4 DEF Request
  <2>5. CASE q.kind = "update"
    BY <2>2, <2>3, <2>5 DEF Request
  <2> QED
    BY <1>2, <2>4, <2>5
<1> QED
  BY <1>1, <1>2

LEMMA HandlingFields ==
  ASSUME TypeOK, NEW c \in Clients, Busy(c)
  PROVE  /\ handler[c] \in Handling
         /\ handler[c].request \in Request(Columns)
         /\ handler[c].stamp \in Nat
         /\ handler[c].phase \in {"received", "parentChecked", "checked", "ready"}
<1>1. handler[c] \in {Idle} \union Handling
  BY DEF TypeOK
<1>2. handler[c] # Idle
  BY DEF Busy, Idle
<1> QED
  BY <1>1, <1>2 DEF Handling

LEMMA DraftFields ==
  ASSUME NEW q \in Request(Columns), q.kind \in {"create", "update"}
  PROVE  /\ q.ticket \in Draft(Columns)
         /\ q.kind = "update" => q.id \in Ids
BY DEF Request

LEMMA InitType == Init => TypeOK
<1> SUFFICES ASSUME Init PROVE TypeOK
  OBVIOUS
<1>1. PICK s \in InitialStores : tickets = s.tickets /\ links = s.links /\ clock = s.clock
  BY DEF Init
<1>2. WellFormed(s)
  BY StoresAssumption
<1>3. IsTable(tickets) /\ links \subseteq Ids \X Ids /\ clock \in Nat \ {0}
  BY <1>1, <1>2 DEF WellFormed, IsTable
<1> QED
  BY <1>3 DEF Init, TypeOK

(* The steps before a transaction leave the store alone.                   *)
LEMMA StepType ==
  ASSUME TypeOK, NEW c \in Clients,
         \/ Receive(c) \/ CheckParent(c) \/ CheckDependencies(c)
         \/ LoadPrevious(c) \/ LoadOriginal(c) \/ Fail(c)
  PROVE  TypeOK'
<1> DEFINE Handlers == {Idle} \union Handling
<1>1. ASSUME NEW h \in Handlers PROVE [handler EXCEPT ![c] = h] \in [Clients -> Handlers]
  BY DEF TypeOK
<1>2. CASE Receive(c)
  <2>1. PICK q \in Requests :
          /\ q.kind = "update" => q.ticket.column # 0
          /\ handler' = [handler EXCEPT ![c] =
               [phase |-> "received", request |-> Normalized(q), stamp |-> 0]]
    BY <1>2 DEF Receive
  <2>2. Normalized(q) \in Request(Columns)
    BY <2>1, NormalizedType, RequestsAssumption
  <2>3. [phase |-> "received", request |-> Normalized(q), stamp |-> 0] \in Handlers
    BY <2>2 DEF Handling
  <2> QED
    BY <1>1, <1>2, <2>1, <2>3 DEF Receive, TypeOK, store
<1>3. CASE CheckParent(c)
  <2>1. handler[c] \in Handling
    BY <1>3, HandlingFields DEF CheckParent, Busy
  <2>2. [handler[c] EXCEPT !.phase = "parentChecked"] \in Handlers
    BY <2>1 DEF Handling
  <2>3. handler' = [handler EXCEPT ![c] = [handler[c] EXCEPT !.phase = "parentChecked"]]
    BY <1>3 DEF CheckParent, Advance
  <2> QED
    BY <1>1, <1>3, <2>2, <2>3 DEF CheckParent, TypeOK, store
<1>4. CASE CheckDependencies(c)
  <2> DEFINE q == handler[c].request
             stamp == IF q.kind = "create"
                      THEN CompletionTimestamp(q.ticket.column, 0, clock) ELSE 0
             next == IF q.kind = "create" THEN "ready" ELSE "checked"
  <2>1. handler[c] \in Handling
    BY <1>4, HandlingFields DEF CheckDependencies, Busy
  <2>2. stamp \in Nat
    BY TimestampType DEF TypeOK
  <2>3. handler' = [handler EXCEPT ![c] = [handler[c] EXCEPT !.phase = next, !.stamp = stamp]]
    BY <1>4 DEF CheckDependencies, TypeOK
  <2>4. clock' \in Nat \ {0}
    BY <1>4 DEF CheckDependencies, TypeOK
  <2> HIDE DEF stamp
  <2>5. [handler[c] EXCEPT !.phase = next, !.stamp = stamp] \in Handlers
    BY <2>1, <2>2 DEF Handling
  <2>6. UNCHANGED <<store, up>>
    BY <1>4 DEF CheckDependencies
  <2>7. handler' \in [Clients -> Handlers]
    BY <1>1, <2>3, <2>5
  <2> QED
    BY <2>4, <2>6, <2>7 DEF TypeOK, store
<1>5. CASE LoadPrevious(c)
  <2> DEFINE q == handler[c].request
             extras == FilledIn(q.ticket.repeat, tickets, q.id)
             form == [q.ticket EXCEPT !.repeat = extras]
             filled == [q EXCEPT !.ticket = form]
  <2>1. /\ handler[c] \in Handling /\ q \in Request(Columns) /\ q.kind = "update"
        /\ q.ticket \in Draft(Columns)
    BY <1>5, HandlingFields, DraftFields DEF LoadPrevious, At, Busy
  <2>2. extras \in Days
    <3>1. q.ticket.repeat \in Days
      BY <2>1 DEF Draft, Days
    <3>2. q.id \in DOMAIN tickets => tickets[q.id].repeat \in Days
      BY TypedRow DEF Ticket, Days
    <3> QED
      BY <3>1, <3>2 DEF FilledIn
  <2> HIDE DEF extras
  <2>3. form \in Draft(Columns)
    BY <2>1, <2>2 DEF Draft, Days
  <2>4. handler' = [handler EXCEPT ![c] =
                     [handler[c] EXCEPT !.phase = "ready", !.request = filled]]
    BY <1>5 DEF LoadPrevious, TypeOK, extras
  <2> HIDE DEF form
  <2>5. filled \in Request(Columns)
    BY <2>1, <2>3 DEF Request
  <2> HIDE DEF filled
  <2>6. [handler[c] EXCEPT !.phase = "ready", !.request = filled] \in Handlers
    BY <2>1, <2>5 DEF Handling
  <2> QED
    BY <1>1, <1>5, <2>4, <2>6 DEF LoadPrevious, TypeOK, store
<1>6. CASE LoadOriginal(c)
  <2> DEFINE i == handler[c].request.id
             copy == [type |-> tickets[i].type, parent |-> 0, column |-> FirstColumn,
                      position |-> tickets[i].position, backlog |-> tickets[i].backlog,
                      repeat |-> 0, links |-> {}]
             q == [kind |-> "create", ticket |-> copy]
  <2>1. handler[c] \in Handling
    BY <1>6, HandlingFields DEF LoadOriginal, At, Busy
  <2>2. i \in DOMAIN tickets
    BY <1>6 DEF LoadOriginal
  <2>3. copy \in Draft({0} \union Columns)
    BY <2>2, TypedRow, FirstColumnType, RulesAssumption DEF Draft, Ticket
  <2>4. handler' = [handler EXCEPT ![c] = [handler[c] EXCEPT !.request = Normalized(q)]]
    BY <1>6 DEF LoadOriginal
  <2> HIDE DEF copy
  <2>5. Normalized(q) \in Request(Columns)
    BY <2>3, NormalizedType DEF Request
  <2> HIDE DEF q
  <2>6. [handler[c] EXCEPT !.request = Normalized(q)] \in Handlers
    BY <2>1, <2>5 DEF Handling
  <2> QED
    BY <1>1, <1>6, <2>4, <2>6 DEF LoadOriginal, TypeOK, store
<1>7. CASE Fail(c)
  BY <1>1, <1>7 DEF Fail, Reply, TypeOK, store
<1> QED
  BY <1>2, <1>3, <1>4, <1>5, <1>6, <1>7

LEMMA ReplaceLinksType ==
  ASSUME TypeOK, NEW i \in Ids, NEW targets \in SUBSET Ids
  PROVE  ReplaceLinks(links, i, targets) \subseteq Ids \X Ids
BY DEF ReplaceLinks, TypeOK

LEMMA ReplyType ==
  ASSUME TypeOK, NEW c \in Clients, Reply(c)
  PROVE  handler' \in [Clients -> {Idle} \union Handling]
BY DEF TypeOK, Reply

LEMMA CommitCreateType ==
  ASSUME TypeOK, NEW c \in Clients, CommitCreate(c)
  PROVE  TypeOK'
<1> DEFINE d == handler[c].request.ticket
           row == [type |-> d.type, parent |-> d.parent, column |-> d.column,
                   position |-> d.position, backlog |-> d.backlog,
                   archived |-> FALSE, deleted |-> FALSE,
                   repeat |-> SavedExtras(d.repeat, 0),
                   completed |-> handler[c].stamp, started |-> 0]
<1>1. d \in Draft(Columns) /\ handler[c].stamp \in Nat
  BY HandlingFields, DraftFields DEF CommitCreate, At, Busy
<1>2. PICK n \in NewRowIds(tickets) :
        /\ FinishWorkflow(Put(tickets, n, row), n, Unplaced, 0)
        /\ links' = ReplaceLinks(links, n, d.links)
  BY DEF CommitCreate
<1>3. n \in Ids
  BY DEF NewRowIds
<1>4. row \in Ticket
  BY <1>1, RulesAssumption DEF Draft, Ticket, SavedExtras, NoExtras
<1> HIDE DEF row
<1>5. IsTable(Put(tickets, n, row)) /\ n \in DOMAIN Put(tickets, n, row)
  <2>1. IsTable(tickets)
    BY TypedTable
  <2>2. /\ IsTable(Put(tickets, n, row))
        /\ DOMAIN Put(tickets, n, row) = DOMAIN tickets \union {n}
    BY <1>3, <1>4, <2>1, PutType
  <2> QED
    BY <2>2
<1>6. 0 \in Days
  BY RulesAssumption DEF Days
<1>7. /\ IsTable(tickets') /\ history' \subseteq Episodes
      /\ repetitions' \subseteq Repetitions /\ clock' \in Nat \ {0}
  BY <1>2, <1>5, <1>6, FinishType
<1>8. links' \subseteq Ids \X Ids
  BY <1>1, <1>2, <1>3, ReplaceLinksType DEF Draft
<1>9. handler' \in [Clients -> {Idle} \union Handling] /\ up' = up
  BY ReplyType DEF CommitCreate
<1> QED
  BY <1>7, <1>8, <1>9 DEF TypeOK

LEMMA CommitUpdateType ==
  ASSUME TypeOK, NEW c \in Clients, CommitUpdate(c)
  PROVE  TypeOK'
<1> DEFINE i == handler[c].request.id
           d == handler[c].request.ticket
           was == tickets[i]
           row == [was EXCEPT !.type = d.type, !.parent = d.parent,
                     !.column = d.column, !.position = d.position,
                     !.backlog = d.backlog,
                     !.repeat = SavedExtras(d.repeat, @),
                     !.completed = CompletionTimestamp(d.column, @, clock)]
<1>1. d \in Draft(Columns)
  BY HandlingFields, DraftFields DEF CommitUpdate, At, Busy
<1>2. i \in DOMAIN tickets /\ i \in Ids /\ was \in Ticket
  BY TypedRow DEF CommitUpdate
<1>3. /\ FinishWorkflow([tickets EXCEPT ![i] = row], i, was, d.repeat)
      /\ links' = ReplaceLinks(links, i, d.links)
  BY DEF CommitUpdate
<1>4. CompletionTimestamp(d.column, was.completed, clock) \in Nat
  BY <1>2, TimestampType DEF TypeOK, Ticket
<1>5. row \in Ticket
  BY <1>1, <1>2, <1>4 DEF Draft, Ticket, SavedExtras
<1> HIDE DEF row
<1>6. /\ IsTable([tickets EXCEPT ![i] = row])
      /\ DOMAIN [tickets EXCEPT ![i] = row] = DOMAIN tickets
  BY <1>2, <1>5, ExceptType DEF TypeOK
<1>7. d.repeat \in Days
  BY <1>1 DEF Draft, Days
<1>8. /\ IsTable(tickets') /\ history' \subseteq Episodes
      /\ repetitions' \subseteq Repetitions /\ clock' \in Nat \ {0}
  BY <1>2, <1>3, <1>6, <1>7, FinishType
<1>9. links' \subseteq Ids \X Ids
  BY <1>1, <1>2, <1>3, ReplaceLinksType DEF Draft
<1>10. handler' \in [Clients -> {Idle} \union Handling] /\ up' = up
  BY ReplyType DEF CommitUpdate
<1> QED
  BY <1>8, <1>9, <1>10 DEF TypeOK

LEMMA MoveFields ==
  ASSUME NEW q \in Request(Columns), q.kind = "move"
  PROVE  q.column \in Columns /\ q.place \in {"before", "after", "end"}
BY DEF Request

LEMMA CommitMoveType ==
  ASSUME TypeOK, NEW c \in Clients, CommitMove(c)
  PROVE  TypeOK'
<1> DEFINE q == handler[c].request
           i == q.id
           was == tickets[i]
           T == Reordered(tickets, i, q.column, q.anchor, q.place)
           row == [T[i] EXCEPT !.completed = CompletionTimestamp(q.column, @, clock)]
<1>1. q.column \in Columns /\ q.place \in {"before", "after", "end"}
  BY HandlingFields, MoveFields DEF CommitMove, At, Busy
<1>2. i \in DOMAIN tickets /\ was \in Ticket
  BY TypedRow DEF CommitMove
<1>3. IsTable(T) /\ DOMAIN T = DOMAIN tickets
  <2>1. IsTable(tickets)
    BY TypedTable
  <2>2. T = Reordered(tickets, i, q.column, q.anchor, q.place)
    OBVIOUS
  <2> HIDE DEF q, i, T
  <2>3. i \in DOMAIN tickets
    BY <1>2
  <2> QED
    BY <1>1, <2>1, <2>2, <2>3, ReorderedType
<1>4. handler' \in [Clients -> {Idle} \union Handling] /\ UNCHANGED <<links, up>>
  BY ReplyType DEF CommitMove
<1>5. CASE was.column = q.column
  <2>1. tickets' = T /\ UNCHANGED <<history, repetitions, clock>>
    BY <1>5 DEF CommitMove
  <2> QED
    BY <1>3, <1>4, <2>1 DEF TypeOK
<1>6. CASE was.column # q.column
  <2>1. FinishWorkflow([T EXCEPT ![i] = row], i, was, was.repeat)
    BY <1>6, <1>2, <1>3 DEF CommitMove
  <2> HIDE DEF T
  <2>2. T[i] \in Ticket
    BY <1>2, <1>3, TableRow
  <2>3. CompletionTimestamp(q.column, T[i].completed, clock) \in Nat
    BY <2>2, TimestampType DEF TypeOK, Ticket
  <2>4. row \in Ticket
    BY <2>2, <2>3 DEF Ticket
  <2> HIDE DEF row
  <2>5. /\ IsTable([T EXCEPT ![i] = row])
        /\ DOMAIN [T EXCEPT ![i] = row] = DOMAIN T
    <3>1. i \in DOMAIN T
      BY <1>2, <1>3
    <3> QED
      BY <1>3, <2>4, <3>1, ExceptType
  <2>6. was.repeat \in Days
    BY <1>2 DEF Ticket, Days
  <2>7. /\ IsTable(tickets') /\ history' \subseteq Episodes
        /\ repetitions' \subseteq Repetitions /\ clock' \in Nat \ {0}
    BY <1>2, <1>3, <2>1, <2>5, <2>6, FinishType
  <2> QED
    BY <1>4, <2>7 DEF TypeOK
<1> QED
  BY <1>5, <1>6

LEMMA SetRowType ==
  ASSUME TypeOK, NEW i \in Ids, NEW row,
         i \in DOMAIN tickets => row \in Ticket, SetRow(i, row)
  PROVE  IsTable(tickets')
BY DEF SetRow, TypeOK, IsTable

LEMMA CommitRowType ==
  ASSUME TypeOK, NEW c \in Clients,
         CommitArchive(c) \/ CommitTrash(c) \/ CommitRestore(c)
  PROVE  TypeOK'
<1> DEFINE i == handler[c].request.id
           Rows == {[tickets[i] EXCEPT !.archived = @ \/ ~tickets[i].deleted],
                    [tickets[i] EXCEPT !.deleted = TRUE],
                    [tickets[i] EXCEPT !.archived = FALSE, !.deleted = FALSE]}
<1>1. i \in Ids
  <2>1. /\ handler[c].request \in Request(Columns)
        /\ handler[c].request.kind \in {"archive", "trash", "restore"}
    BY HandlingFields DEF CommitArchive, CommitTrash, CommitRestore, At, Busy
  <2> QED
    BY <2>1 DEF Request
<1>2. i \in DOMAIN tickets => \A row \in Rows : row \in Ticket
  <2> SUFFICES ASSUME i \in DOMAIN tickets PROVE \A row \in Rows : row \in Ticket
    OBVIOUS
  <2> DEFINE t == tickets[i]
  <2>1. t \in Ticket
    BY TypedRow
  <2> HIDE DEF t, i
  <2>2. [t EXCEPT !.archived = @ \/ ~t.deleted] \in Ticket
    BY <2>1 DEF Ticket
  <2>3. [t EXCEPT !.deleted = TRUE] \in Ticket
    BY <2>1 DEF Ticket
  <2>4. [t EXCEPT !.archived = FALSE, !.deleted = FALSE] \in Ticket
    BY <2>1 DEF Ticket
  <2> QED
    BY <2>2, <2>3, <2>4 DEF t
<1>3. \E row \in Rows : SetRow(i, row)
  BY DEF CommitArchive, CommitTrash, CommitRestore
<1> HIDE DEF Rows
<1>4. IsTable(tickets')
  BY <1>1, <1>2, <1>3, SetRowType
<1>5. /\ handler' \in [Clients -> {Idle} \union Handling]
      /\ UNCHANGED <<links, history, repetitions, clock, up>>
  BY ReplyType DEF CommitArchive, CommitTrash, CommitRestore
<1> QED
  BY <1>4, <1>5 DEF TypeOK

LEMMA WithoutType ==
  ASSUME NEW T, IsTable(T), NEW i
  PROVE  IsTable(Without(T, i)) /\ DOMAIN Without(T, i) = DOMAIN T \ {i}
<1>1. \A j \in DOMAIN T : [T[j] EXCEPT !.parent = IF @ = i THEN 0 ELSE @] \in Ticket
  BY TableRow DEF Ticket
<1> QED
  BY <1>1 DEF Without, IsTable

LEMMA CommitDeleteType ==
  ASSUME TypeOK, NEW c \in Clients, CommitDelete(c)
  PROVE  TypeOK'
<1>1. IsTable(tickets')
  BY WithoutType DEF CommitDelete, TypeOK
<1>2. handler' \in [Clients -> {Idle} \union Handling] /\ UNCHANGED <<clock, up>>
  BY ReplyType DEF CommitDelete
<1>3. links' \subseteq links /\ history' \subseteq history /\ repetitions' \subseteq repetitions
  BY DEF CommitDelete
<1> QED
  BY <1>1, <1>2, <1>3 DEF TypeOK

LEMMA StartupType ==
  ASSUME TypeOK, Startup
  PROVE  TypeOK'
<1>1. \A i \in DOMAIN tickets :
        [tickets[i] EXCEPT !.backlog = @ \/ tickets[i].type = "idea"] \in Ticket
  BY TypedRow DEF Ticket
<1>2. IsTable(tickets')
  BY <1>1 DEF Startup, TypeOK, IsTable
<1>3. \A i \in Unrecorded(history, tickets') : Episode(tickets', i) \in Episodes
  BY <1>2, EpisodeType DEF Unrecorded
<1>4. history' \subseteq Episodes
  BY <1>3 DEF Startup, TypeOK
<1>5. UNCHANGED <<links, repetitions, clock, handler>> /\ up' \in BOOLEAN
  BY DEF Startup
<1> QED
  BY <1>2, <1>4, <1>5 DEF TypeOK

LEMMA NextType == TypeOK /\ [Next]_vars => TypeOK'
<1> SUFFICES ASSUME TypeOK, [Next]_vars PROVE TypeOK'
  OBVIOUS
<1>1. CASE Startup
  BY <1>1, StartupType
<1>2. CASE Crash
  BY <1>2 DEF Crash, TypeOK, store
<1>3. ASSUME NEW c \in Clients, Handle(c) PROVE TypeOK'
  <2>1. CASE \/ Receive(c) \/ CheckParent(c) \/ CheckDependencies(c)
             \/ LoadPrevious(c) \/ LoadOriginal(c) \/ Fail(c)
    BY <2>1, StepType
  <2>2. CASE Commit(c)
    BY <2>2, CommitCreateType, CommitUpdateType, CommitMoveType, CommitRowType,
       CommitDeleteType DEF Commit
  <2> QED
    BY <1>3, <2>1, <2>2 DEF Handle
<1>4. CASE UNCHANGED vars
  BY <1>4 DEF vars, TypeOK
<1> QED
  BY <1>1, <1>2, <1>3, <1>4 DEF Next

(* The database and the handlers always hold values of the right kind:     *)
(* ids and times in range, positions natural numbers, a column on every    *)
(* request that a handler works on.                                        *)
THEOREM TypeCorrect == Spec => []TypeOK
BY InitType, NextType, PTL DEF Spec
=============================================================================
