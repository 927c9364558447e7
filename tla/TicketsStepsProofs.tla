------------------------- MODULE TicketsStepsProofs --------------------------
(***************************************************************************)
(* Theorems about what one step of the server does to tickets, history and *)
(* repetitions: completion times and the work history, the order of the    *)
(* episodes, the next occurrences of repeating tasks and the manual order  *)
(* of a lane, for every number of concurrent handlers; and what holds in   *)
(* addition while requests come one at a time.                             *)
(***************************************************************************)
EXTENDS TicketsGraphProofs

-----------------------------------------------------------------------------
(* The work history is complete *)

LEMMA RecordedProperties ==
  ASSUME NEW H, NEW T, NEW i
  PROVE  /\ H \subseteq Recorded(H, T, i)
         /\ T[i].completed # 0 /\ Planned(T[i]) =>
              HasEpisode(Recorded(H, T, i), i, T[i].completed)
<1>1. H \subseteq Recorded(H, T, i)
  BY DEF Recorded
<1>2. ASSUME T[i].completed # 0, Planned(T[i])
      PROVE  HasEpisode(Recorded(H, T, i), i, T[i].completed)
  <2>1. CASE HasEpisode(H, i, T[i].completed)
    BY <2>1 DEF Recorded
  <2>2. CASE ~HasEpisode(H, i, T[i].completed)
    <3>1. Recorded(H, T, i) = H \union {Episode(T, i)}
      BY <1>2, <2>2 DEF Recorded
    <3>2. Episode(T, i).ticket = i /\ Episode(T, i).completed = T[i].completed
      BY DEF Episode
    <3> QED
      BY <3>1, <3>2 DEF HasEpisode
  <2> QED
    BY <2>1, <2>2
<1> QED
  BY <1>1, <1>2

(* The episode of row i, if it needs one, is in the history.               *)
Covered(H, row, i) ==
  row.completed # 0 /\ Planned(row) => HasEpisode(H, i, row.completed)

LEMMA CoveredKept ==
  ASSUME NEW H, NEW G, H \subseteq G, NEW old, NEW new, NEW i, Covered(H, old, i),
         new.completed = old.completed, new.type = old.type, new.backlog = old.backlog
  PROVE  Covered(G, new, i)
BY DEF Covered, Planned, HasEpisode

LEMMA CompleteIsCovered ==
  HistoryComplete <=> (up => \A i \in DOMAIN tickets : Covered(history, tickets[i], i))
BY DEF HistoryComplete, Covered

LEMMA CompleteIsCoveredNext ==
  HistoryComplete' <=>
    (up' => \A i \in DOMAIN tickets' : Covered(history', tickets'[i], i))
BY DEF HistoryComplete, Covered

(* A step that keeps the history and, in the rows it keeps, completion,    *)
(* type and backlog.                                                       *)
LEMMA KeptHistory ==
  ASSUME HistoryComplete, up' = up, history \subseteq history',
         DOMAIN tickets' \subseteq DOMAIN tickets,
         \A j \in DOMAIN tickets' :
           /\ tickets'[j].completed = tickets[j].completed
           /\ tickets'[j].type = tickets[j].type
           /\ tickets'[j].backlog = tickets[j].backlog
  PROVE  HistoryComplete'
<1> SUFFICES ASSUME up, NEW j \in DOMAIN tickets'
             PROVE  Covered(history', tickets'[j], j)
  BY CompleteIsCoveredNext
<1>1. Covered(history, tickets[j], j)
  BY CompleteIsCovered
<1> QED
  BY <1>1, CoveredKept

LEMMA WrittenHistory ==
  ASSUME NEW T, NEW i, TypeOK, HistoryComplete, up' = up, Writes(T, i)
  PROVE  HistoryComplete'
<1>1. PICK before : \E days \in Days : FinishWorkflow(T, i, before, days)
  BY DEF Writes
<1>2. PICK days \in Days : FinishWorkflow(T, i, before, days)
  BY <1>1
<1> DEFINE row   == [T[i] EXCEPT !.started = StartedAt(T[i], before, clock)]
           saved == [T EXCEPT ![i] = row]
<1>3. /\ IsTable(T) /\ i \in DOMAIN T /\ T[i] \in Ticket
      /\ \A j \in DOMAIN T \ {i} : j \in DOMAIN tickets /\ SameWork(T[j], tickets[j])
  BY TableRow DEF Writes
<1>4. history' = Recorded(history, saved, i)
  BY <1>2 DEF FinishWorkflow
<1>5. /\ DOMAIN saved = DOMAIN T /\ saved[i] = row
      /\ \A j \in DOMAIN T \ {i} : saved[j] = T[j]
  BY <1>3
<1>6. \/ tickets' = saved
      \/ \E n : \E next : tickets' = Put(saved, n, next) /\ next.completed = 0
  <2>1. CASE Repeats(repetitions, i, before, row, days)
    <3>1. PICK n : tickets' = Put(saved, n, NextOccurrence(row, days))
      BY <1>2, <2>1 DEF FinishWorkflow
    <3>2. NextOccurrence(row, days).completed = 0
      BY <1>3 DEF NextOccurrence, Ticket
    <3> HIDE DEF saved, row
    <3> QED
      BY <3>1, <3>2
  <2>2. CASE ~Repeats(repetitions, i, before, row, days)
    BY <1>2, <2>2 DEF FinishWorkflow
  <2> QED
    BY <2>1, <2>2
<1> HIDE DEF saved, row
<1> SUFFICES ASSUME up PROVE \A j \in DOMAIN tickets' : Covered(history', tickets'[j], j)
  BY CompleteIsCoveredNext
<1>7. ASSUME NEW j \in DOMAIN saved PROVE Covered(history', saved[j], j)
  <2>1. CASE j = i
    BY <1>4, <2>1, RecordedProperties DEF Covered
  <2>2. CASE j # i
    <3>1. j \in DOMAIN tickets /\ SameWork(saved[j], tickets[j])
      BY <1>3, <1>5, <2>2
    <3>2. Covered(history, tickets[j], j)
      BY <3>1, CompleteIsCovered
    <3>3. history \subseteq history'
      BY <1>4, RecordedProperties
    <3> QED
      BY <3>1, <3>2, <3>3, CoveredKept DEF SameWork
  <2> QED
    BY <2>1, <2>2
<1>8. CASE tickets' = saved
  BY <1>7, <1>8
<1>9. ASSUME NEW n, NEW next, tickets' = Put(saved, n, next), next.completed = 0
      PROVE  \A j \in DOMAIN tickets' : Covered(history', tickets'[j], j)
  <2>1. tickets' = [j \in DOMAIN saved \union {n} |-> IF j = n THEN next ELSE saved[j]]
    BY <1>9 DEF Put
  <2>2. Covered(history', next, n)
    BY <1>9 DEF Covered
  <2> QED
    BY <1>7, <2>1, <2>2
<1> QED
  BY <1>6, <1>8, <1>9

LEMMA RowHistory ==
  ASSUME TypeOK, HistoryComplete, NEW c \in Clients,
         CommitArchive(c) \/ CommitTrash(c) \/ CommitRestore(c)
  PROVE  HistoryComplete'
<1> DEFINE i == handler[c].request.id
           Rows == {[tickets[i] EXCEPT !.archived = @ \/ ~tickets[i].deleted],
                    [tickets[i] EXCEPT !.deleted = TRUE],
                    [tickets[i] EXCEPT !.archived = FALSE, !.deleted = FALSE]}
<1>1. i \in DOMAIN tickets => \A row \in Rows :
        /\ row.completed = tickets[i].completed /\ row.type = tickets[i].type
        /\ row.backlog = tickets[i].backlog
  BY TypedRow DEF Ticket
<1>2. PICK row \in Rows : SetRow(i, row)
  BY DEF CommitArchive, CommitTrash, CommitRestore
<1>3. history' = history /\ up' = up
  BY DEF CommitArchive, CommitTrash, CommitRestore
<1> HIDE DEF Rows, i
<1>4. \A j \in DOMAIN tickets' :
        /\ j \in DOMAIN tickets
        /\ tickets'[j].completed = tickets[j].completed
        /\ tickets'[j].type = tickets[j].type
        /\ tickets'[j].backlog = tickets[j].backlog
  BY <1>1, <1>2 DEF SetRow
<1> QED
  BY <1>3, <1>4, KeptHistory

LEMMA DeleteHistory ==
  ASSUME TypeOK, HistoryComplete, NEW c \in Clients, CommitDelete(c)
  PROVE  HistoryComplete'
<1> DEFINE i == handler[c].request.id
<1>1. /\ tickets' = Without(tickets, i) /\ up' = up
      /\ history' = {h \in history : h.ticket # i}
  BY DEF CommitDelete
<1> HIDE DEF i
<1> SUFFICES ASSUME up, NEW j \in DOMAIN tickets'
             PROVE  Covered(history', tickets'[j], j)
  BY <1>1, CompleteIsCoveredNext
<1>2. j \in DOMAIN tickets \ {i}
  BY <1>1 DEF Without
<1>3. tickets'[j] = [tickets[j] EXCEPT !.parent = IF @ = i THEN 0 ELSE @]
  BY <1>1, <1>2 DEF Without
<1>4. /\ tickets'[j].completed = tickets[j].completed
      /\ tickets'[j].type = tickets[j].type /\ tickets'[j].backlog = tickets[j].backlog
  BY <1>2, <1>3, TypedRow DEF Ticket
<1>5. Covered(history, tickets[j], j)
  BY <1>2, CompleteIsCovered
<1>6. Covered(history', tickets[j], j)
  BY <1>1, <1>2, <1>5 DEF Covered, HasEpisode
<1> QED
  BY <1>4, <1>6, CoveredKept

(* The migration adds what is missing.                                     *)
LEMMA StartHistory ==
  ASSUME Startup
  PROVE  HistoryComplete'
<1> SUFFICES ASSUME NEW j \in DOMAIN tickets', tickets'[j].completed # 0,
                    Planned(tickets'[j])
             PROVE  HasEpisode(history', j, tickets'[j].completed)
  BY CompleteIsCoveredNext DEF Covered
<1>1. history' = history \union {Episode(tickets', i) : i \in Unrecorded(history, tickets')}
  BY DEF Startup
<1>2. CASE HasEpisode(history, j, tickets'[j].completed)
  BY <1>1, <1>2 DEF HasEpisode
<1>3. CASE ~HasEpisode(history, j, tickets'[j].completed)
  <2>1. j \in Unrecorded(history, tickets')
    BY <1>3 DEF Unrecorded
  <2>2. Episode(tickets', j) \in history'
    BY <1>1, <2>1
  <2>3. /\ Episode(tickets', j).ticket = j
        /\ Episode(tickets', j).completed = tickets'[j].completed
    BY DEF Episode
  <2> QED
    BY <2>2, <2>3 DEF HasEpisode
<1> QED
  BY <1>2, <1>3

LEMMA CommitHistory ==
  ASSUME TypeOK, HistoryComplete, NEW c \in Clients, Commit(c)
  PROVE  HistoryComplete'
<1>1. CASE CommitCreate(c)
  <2>1. up' = up
    BY <1>1 DEF CommitCreate
  <2> QED
    BY <1>1, <2>1, CreateWrites, WrittenHistory DEF WritesForm
<1>2. CASE CommitUpdate(c)
  <2>1. up' = up
    BY <1>2 DEF CommitUpdate
  <2> QED
    BY <1>2, <2>1, UpdateWrites, WrittenHistory DEF WritesForm
<1>3. CASE CommitMove(c)
  <2>1. up' = up
    BY <1>3 DEF CommitMove
  <2>2. CASE KeepsWork
    BY <2>1, <2>2, KeptHistory DEF KeepsWork, SameWork
  <2>3. CASE ~KeepsWork
    BY <1>3, <2>1, <2>3, MoveWrites, WrittenHistory
  <2> QED
    BY <2>2, <2>3
<1>4. CASE CommitArchive(c) \/ CommitTrash(c) \/ CommitRestore(c)
  BY <1>4, RowHistory
<1>5. CASE CommitDelete(c)
  BY <1>5, DeleteHistory
<1> QED
  BY <1>1, <1>2, <1>3, <1>4, <1>5 DEF Commit

LEMMA NextHistoryComplete ==
  TypeOK /\ HistoryComplete /\ [Next]_vars => HistoryComplete'
<1> SUFFICES ASSUME TypeOK, HistoryComplete, [Next]_vars PROVE HistoryComplete'
  OBVIOUS
<1>1. CASE Startup
  BY <1>1, StartHistory
<1>2. CASE Crash
  BY <1>2 DEF Crash, HistoryComplete
<1>3. ASSUME NEW c \in Clients, Handle(c) PROVE HistoryComplete'
  <2>1. CASE Commit(c)
    BY <2>1, CommitHistory
  <2>2. CASE \/ Receive(c) \/ CheckParent(c) \/ CheckDependencies(c)
             \/ LoadPrevious(c) \/ LoadOriginal(c) \/ Fail(c)
    <3>1. UNCHANGED <<tickets, history, up>>
      BY <2>2 DEF Receive, CheckParent, CheckDependencies, LoadPrevious, LoadOriginal,
         Fail, store
    <3> QED
      BY <3>1 DEF HistoryComplete
  <2> QED
    BY <1>3, <2>1, <2>2 DEF Handle
<1>4. CASE UNCHANGED vars
  BY <1>4 DEF vars, HistoryComplete
<1> QED
  BY <1>1, <1>2, <1>3, <1>4 DEF Next

(* Whatever handlers, crashes, deletions and reused ids came before, a     *)
(* running server has the episode of every completion that a planned       *)
(* ticket carries.                                                         *)
THEOREM HistoryIsComplete == Spec => []HistoryComplete
<1>1. Init => TypeOK /\ HistoryComplete
  BY InitType DEF Init, HistoryComplete
<1>2. TypeOK /\ HistoryComplete /\ [Next]_vars => (TypeOK /\ HistoryComplete)'
  BY NextType, NextHistoryComplete
<1> QED
  BY <1>1, <1>2, PTL DEF Spec

-----------------------------------------------------------------------------
(* Episodes are immutable *)

LEMMA NextImmutable ==
  [Next]_vars => \A h \in history : h \in history' \/ h.ticket \notin DOMAIN tickets'
<1> SUFFICES ASSUME [Next]_vars, NEW h \in history
             PROVE  h \in history' \/ h.ticket \notin DOMAIN tickets'
  OBVIOUS
<1>1. ASSUME NEW T, NEW i, NEW before, NEW days, FinishWorkflow(T, i, before, days)
      PROVE  h \in history'
  <2>1. \E saved : history' = Recorded(history, saved, i)
    BY <1>1 DEF FinishWorkflow
  <2> QED
    BY <2>1, RecordedProperties
<1>2. CASE Startup
  BY <1>2 DEF Startup
<1>3. CASE Crash \/ UNCHANGED vars
  BY <1>3 DEF Crash, vars, store
<1>4. ASSUME NEW c \in Clients, Handle(c)
      PROVE  h \in history' \/ h.ticket \notin DOMAIN tickets'
  <2>1. CASE CommitCreate(c)
    <3>1. \E T, n : FinishWorkflow(T, n, Unplaced, 0)
      BY <2>1 DEF CommitCreate
    <3> QED
      BY <1>1, <3>1
  <2>2. CASE CommitUpdate(c)
    <3>1. \E T, i, was, days : FinishWorkflow(T, i, was, days)
      BY <2>2 DEF CommitUpdate
    <3> QED
      BY <1>1, <3>1
  <2>3. CASE CommitMove(c)
    <3>1. history' = history \/ \E T, i, was, days : FinishWorkflow(T, i, was, days)
      BY <2>3 DEF CommitMove
    <3> QED
      BY <1>1, <3>1
  <2>4. CASE CommitDelete(c)
    BY <2>4 DEF CommitDelete, Without
  <2>5. CASE \/ CommitArchive(c) \/ CommitTrash(c) \/ CommitRestore(c)
             \/ Receive(c) \/ CheckParent(c) \/ CheckDependencies(c)
             \/ LoadPrevious(c) \/ LoadOriginal(c) \/ Fail(c)
    BY <2>5 DEF CommitArchive, CommitTrash, CommitRestore, Receive, CheckParent,
       CheckDependencies, LoadPrevious, LoadOriginal, Fail, store
  <2> QED
    BY <1>4, <2>1, <2>2, <2>3, <2>4, <2>5 DEF Handle, Commit
<1> QED
  BY <1>2, <1>3, <1>4 DEF Next

(* No step rewrites or drops an episode whose ticket stays: reopening,     *)
(* renaming, moving and the migration at a restart leave it as it is.      *)
THEOREM EpisodesAreImmutable == Spec => HistoryImmutable
BY NextImmutable, PTL DEF Spec, HistoryImmutable

-----------------------------------------------------------------------------
(* Completion follows the column *)

(* A create that is ready to be written took a completion time exactly if  *)
(* it goes to Done.                                                        *)
StampFits(h) == h.stamp # 0 <=> IsDone(h.request.ticket.column)

StampsFit == \A c \in Clients : At(c, "ready", "create") => StampFits(handler[c])

CompletionInv == TypeOK /\ CompletedOnlyInDone(tickets) /\ StampsFit

(* The body of CompletionFollowsColumn for one row of a table U.           *)
Follows(U, i) ==
  LET stayed == i \in DOMAIN tickets /\ IsDone(tickets[i].column)
  IN IF IsDone(U[i].column)
     THEN IF stayed THEN tickets[i].completed \in {0, U[i].completed}
          ELSE U[i].completed # 0
     ELSE U[i].completed = 0

FollowsAll == \A i \in DOMAIN tickets' : Follows(tickets', i)

LEMMA SameFollows ==
  ASSUME CompletedOnlyInDone(tickets), NEW U, NEW j \in DOMAIN tickets,
         U[j].completed = tickets[j].completed, U[j].column = tickets[j].column
  PROVE  Follows(U, j)
BY DEF Follows, CompletedOnlyInDone

LEMMA FollowsOnlyDone ==
  ASSUME FollowsAll
  PROVE  CompletedOnlyInDone(tickets')
BY DEF FollowsAll, Follows, CompletedOnlyInDone

(* The common end of the workflow adds at most an open ticket.             *)
LEMMA FinishFollows ==
  ASSUME CompletionInv, NEW T, IsTable(T), NEW i \in DOMAIN T,
         \A j \in DOMAIN T \ {i} : /\ j \in DOMAIN tickets
                                   /\ T[j].completed = tickets[j].completed
                                   /\ T[j].column = tickets[j].column,
         Follows(T, i),
         NEW before, NEW days, FinishWorkflow(T, i, before, days)
  PROVE  FollowsAll
<1> DEFINE row   == [T[i] EXCEPT !.started = StartedAt(T[i], before, clock)]
           saved == [T EXCEPT ![i] = row]
<1>1. /\ T[i] \in Ticket /\ row.completed = T[i].completed /\ row.column = T[i].column
      /\ DOMAIN saved = DOMAIN T /\ saved[i] = row
      /\ \A j \in DOMAIN T \ {i} : saved[j] = T[j]
  BY TableRow DEF Ticket
<1>2. \/ tickets' = saved
      \/ \E n : \E next : /\ n \notin DOMAIN saved /\ tickets' = Put(saved, n, next)
                          /\ next.completed = 0 /\ ~IsDone(next.column)
                          /\ next.column = FirstColumn
  <2>1. CASE Repeats(repetitions, i, before, row, days)
    <3>1. PICK n \in NewRowIds(saved) : tickets' = Put(saved, n, NextOccurrence(row, days))
      BY <2>1 DEF FinishWorkflow
    <3>2. /\ NextOccurrence(row, days).completed = 0
          /\ NextOccurrence(row, days).column = FirstColumn
      BY <1>1 DEF NextOccurrence, Ticket
    <3>3. DOMAIN saved \subseteq Nat
      BY <1>1, TableRow DEF Ids
    <3> HIDE DEF saved, row
    <3>4. n \notin DOMAIN saved
      BY <3>3 DEF NewRowIds, Ids
    <3> QED
      BY <3>1, <3>2, <3>4, FirstColumnType
  <2>2. CASE ~Repeats(repetitions, i, before, row, days)
    BY <2>2 DEF FinishWorkflow
  <2> QED
    BY <2>1, <2>2
<1> HIDE DEF saved, row
<1>3. \A j \in DOMAIN saved : Follows(saved, j)
  <2> SUFFICES ASSUME NEW j \in DOMAIN saved PROVE Follows(saved, j)
    OBVIOUS
  <2>1. CASE j = i
    BY <1>1, <2>1 DEF Follows
  <2>2. CASE j # i
    BY <1>1, <2>2, SameFollows DEF CompletionInv
  <2> QED
    BY <2>1, <2>2
<1>4. CASE tickets' = saved
  BY <1>3, <1>4 DEF FollowsAll
<1>5. ASSUME NEW n, NEW next, n \notin DOMAIN saved, tickets' = Put(saved, n, next),
             next.completed = 0, ~IsDone(next.column)
      PROVE  FollowsAll
  <2>1. tickets' = [j \in DOMAIN saved \union {n} |-> IF j = n THEN next ELSE saved[j]]
    BY <1>5 DEF Put
  <2> SUFFICES ASSUME NEW j \in DOMAIN tickets' PROVE Follows(tickets', j)
    BY DEF FollowsAll
  <2>2. CASE j = n
    BY <1>5, <2>1, <2>2 DEF Follows
  <2>3. CASE j # n
    <3>1. j \in DOMAIN saved /\ tickets'[j] = saved[j]
      BY <2>1, <2>3
    <3> QED
      BY <1>3, <3>1 DEF Follows
  <2> QED
    BY <2>2, <2>3
<1> QED
  BY <1>2, <1>4, <1>5

LEMMA CreateFollows ==
  ASSUME CompletionInv, NEW c \in Clients, CommitCreate(c)
  PROVE  FollowsAll
<1> DEFINE d == handler[c].request.ticket
           row == [type |-> d.type, parent |-> d.parent, column |-> d.column,
                   position |-> d.position, backlog |-> d.backlog,
                   archived |-> FALSE, deleted |-> FALSE,
                   repeat |-> SavedExtras(d.repeat, 0),
                   completed |-> handler[c].stamp, started |-> 0]
<1>1. TypeOK /\ StampFits(handler[c])
  BY DEF CompletionInv, StampsFit, CommitCreate
<1>2. d \in Draft(Columns) /\ handler[c].stamp \in Nat
  BY <1>1, HandlingFields, DraftFields DEF CommitCreate, At, Busy
<1>3. PICK n \in NewRowIds(tickets) :
        FinishWorkflow(Put(tickets, n, row), n, Unplaced, 0)
  BY DEF CommitCreate
<1>4. IsTable(tickets) /\ DOMAIN tickets \subseteq Nat
  BY <1>1, TypedTable, TypedRow DEF Ids
<1>5. n \in Ids /\ n \notin DOMAIN tickets
  BY <1>4 DEF NewRowIds, Ids
<1>6. row \in Ticket /\ (row.completed # 0 <=> IsDone(row.column))
  BY <1>1, <1>2, RulesAssumption DEF Draft, Ticket, SavedExtras, NoExtras, StampFits
<1> HIDE DEF row
<1> DEFINE T == Put(tickets, n, row)
<1>7. /\ IsTable(T) /\ DOMAIN T = DOMAIN tickets \union {n} /\ T[n] = row
      /\ \A j \in DOMAIN tickets \ {n} : T[j] = tickets[j]
  <2>1. row \in Ticket /\ n \in Ids /\ IsTable(tickets)
    BY <1>4, <1>5, <1>6
  <2> QED
    BY <2>1 DEF Put, IsTable
<1>8. FinishWorkflow(T, n, Unplaced, 0)
  BY <1>3
<1> HIDE DEF T
<1>9. Follows(T, n)
  BY <1>5, <1>6, <1>7 DEF Follows
<1> QED
  BY <1>7, <1>8, <1>9, FinishFollows

LEMMA UpdateFollows ==
  ASSUME CompletionInv, NEW c \in Clients, CommitUpdate(c)
  PROVE  FollowsAll
<1> DEFINE i == handler[c].request.id
           d == handler[c].request.ticket
           was == tickets[i]
           stamp == CompletionTimestamp(d.column, was.completed, clock)
           row == [was EXCEPT !.type = d.type, !.parent = d.parent,
                     !.column = d.column, !.position = d.position,
                     !.backlog = d.backlog,
                     !.repeat = SavedExtras(d.repeat, @),
                     !.completed = stamp]
           T == [tickets EXCEPT ![i] = row]
<1>1. TypeOK /\ IsTable(tickets) /\ clock \in Nat \ {0}
  BY TypedTable DEF CompletionInv, TypeOK
<1>2. d \in Draft(Columns)
  BY <1>1, HandlingFields, DraftFields DEF CommitUpdate, At, Busy
<1>3. i \in DOMAIN tickets /\ was \in Ticket
  BY <1>1, TypedRow DEF CommitUpdate
<1>4. FinishWorkflow(T, i, was, d.repeat)
  BY DEF CommitUpdate
<1>5. /\ stamp \in Nat /\ (stamp # 0 <=> IsDone(d.column))
      /\ IsDone(d.column) /\ was.completed # 0 => stamp = was.completed
  <2>1. was.completed \in Nat
    BY <1>3 DEF Ticket
  <2> QED
    BY <1>1, <2>1, TimestampType
<1> HIDE DEF stamp
<1>6. row \in Ticket /\ row.completed = stamp /\ row.column = d.column
  BY <1>2, <1>3, <1>5 DEF Draft, Ticket, SavedExtras
<1> HIDE DEF row
<1>7. /\ IsTable(T) /\ DOMAIN T = DOMAIN tickets /\ T[i] = row
      /\ \A j \in DOMAIN tickets \ {i} : T[j] = tickets[j]
  BY <1>1, <1>3, <1>6, ExceptType
<1> HIDE DEF T
<1>8. Follows(T, i)
  BY <1>3, <1>5, <1>6, <1>7 DEF Follows
<1> QED
  BY <1>3, <1>4, <1>7, <1>8, FinishFollows

LEMMA MoveFollows ==
  ASSUME CompletionInv, NEW c \in Clients, CommitMove(c)
  PROVE  FollowsAll
<1> DEFINE q == handler[c].request
           i == q.id
           was == tickets[i]
           T == Reordered(tickets, i, q.column, q.anchor, q.place)
           stamp == CompletionTimestamp(q.column, T[i].completed, clock)
           row == [T[i] EXCEPT !.completed = stamp]
<1>1. TypeOK /\ IsTable(tickets) /\ clock \in Nat \ {0}
  BY TypedTable DEF CompletionInv, TypeOK
<1>2. q.column \in Columns /\ q.place \in {"before", "after", "end"}
  BY <1>1, HandlingFields, MoveFields DEF CommitMove, At, Busy
<1>3. i \in DOMAIN tickets /\ was \in Ticket
  BY <1>1, TypedRow DEF CommitMove
<1>4. /\ IsTable(T) /\ DOMAIN T = DOMAIN tickets
      /\ \A j \in DOMAIN tickets :
           SameButPlace(T[j], tickets[j], IF j = i THEN q.column ELSE tickets[j].column)
  <2>1. T = Reordered(tickets, i, q.column, q.anchor, q.place)
    OBVIOUS
  <2> HIDE DEF q, i, T
  <2> QED
    BY <1>1, <1>2, <1>3, <2>1, ReorderedType
<1>5. CASE was.column = q.column
  <2>1. tickets' = T
    BY <1>5 DEF CommitMove
  <2> HIDE DEF T
  <2>2. \A j \in DOMAIN tickets : /\ tickets'[j].completed = tickets[j].completed
                                  /\ tickets'[j].column = tickets[j].column
    BY <1>4, <1>5, <2>1 DEF SameButPlace
  <2>3. CompletedOnlyInDone(tickets)
    BY DEF CompletionInv
  <2> QED
    BY <1>4, <2>1, <2>2, <2>3, SameFollows DEF FollowsAll
<1>6. CASE was.column # q.column
  <2> DEFINE U == [T EXCEPT ![i] = row]
  <2>1. FinishWorkflow(U, i, was, was.repeat)
    BY <1>6, <1>3, <1>4 DEF CommitMove
  <2> HIDE DEF T
  <2>2. T[i] \in Ticket /\ T[i].completed = was.completed /\ T[i].column = q.column
    BY <1>3, <1>4, TableRow DEF SameButPlace
  <2>3. /\ stamp \in Nat /\ (stamp # 0 <=> IsDone(q.column))
        /\ IsDone(q.column) /\ was.completed # 0 => stamp = was.completed
    <3>1. T[i].completed \in Nat
      BY <2>2 DEF Ticket
    <3> QED
      BY <1>1, <2>2, <3>1, TimestampType
  <2> HIDE DEF stamp
  <2>4. row \in Ticket /\ row.completed = stamp /\ row.column = q.column
    BY <2>2, <2>3 DEF Ticket
  <2> HIDE DEF row
  <2>5. /\ IsTable(U) /\ DOMAIN U = DOMAIN T /\ U[i] = row
        /\ \A j \in DOMAIN T \ {i} : U[j] = T[j]
    <3>1. i \in DOMAIN T
      BY <1>3, <1>4
    <3> QED
      BY <1>4, <2>4, <3>1, ExceptType
  <2> HIDE DEF U
  <2>6. \A j \in DOMAIN U \ {i} : /\ j \in DOMAIN tickets
                                  /\ U[j].completed = tickets[j].completed
                                  /\ U[j].column = tickets[j].column
    BY <1>4, <2>5 DEF SameButPlace
  <2>7. Follows(U, i)
    BY <1>3, <2>3, <2>4, <2>5 DEF Follows
  <2>8. i \in DOMAIN U
    BY <1>3, <1>4, <2>5
  <2> QED
    BY <2>1, <2>5, <2>6, <2>7, <2>8, FinishFollows
<1> QED
  BY <1>5, <1>6

(* Steps that leave completion and column of the rows they keep.           *)
LEMMA KeptFollows ==
  ASSUME CompletedOnlyInDone(tickets), DOMAIN tickets' \subseteq DOMAIN tickets,
         \A j \in DOMAIN tickets' : /\ tickets'[j].completed = tickets[j].completed
                                    /\ tickets'[j].column = tickets[j].column
  PROVE  FollowsAll
BY SameFollows DEF FollowsAll

LEMMA RowFollows ==
  ASSUME CompletionInv, NEW c \in Clients,
         \/ CommitArchive(c) \/ CommitTrash(c) \/ CommitRestore(c) \/ CommitDelete(c)
  PROVE  FollowsAll
<1> DEFINE i == handler[c].request.id
           Rows == {[tickets[i] EXCEPT !.archived = @ \/ ~tickets[i].deleted],
                    [tickets[i] EXCEPT !.deleted = TRUE],
                    [tickets[i] EXCEPT !.archived = FALSE, !.deleted = FALSE]}
<1>1. TypeOK /\ CompletedOnlyInDone(tickets)
  BY DEF CompletionInv
<1>2. CASE CommitDelete(c)
  <2>1. tickets' = Without(tickets, i)
    BY <1>2 DEF CommitDelete
  <2>2. \A j \in DOMAIN tickets' : /\ j \in DOMAIN tickets
                                   /\ tickets'[j].completed = tickets[j].completed
                                   /\ tickets'[j].column = tickets[j].column
    BY <1>1, <2>1, TypedRow DEF Without, Ticket
  <2> QED
    BY <1>1, <2>2, KeptFollows
<1>3. CASE CommitArchive(c) \/ CommitTrash(c) \/ CommitRestore(c)
  <2>1. i \in DOMAIN tickets => \A row \in Rows :
          row.completed = tickets[i].completed /\ row.column = tickets[i].column
    BY <1>1, TypedRow DEF Ticket
  <2>2. PICK row \in Rows : SetRow(i, row)
    BY <1>3 DEF CommitArchive, CommitTrash, CommitRestore
  <2> HIDE DEF Rows, i
  <2>3. \A j \in DOMAIN tickets' : /\ j \in DOMAIN tickets
                                   /\ tickets'[j].completed = tickets[j].completed
                                   /\ tickets'[j].column = tickets[j].column
    BY <2>1, <2>2 DEF SetRow
  <2> QED
    BY <1>1, <2>3, KeptFollows
<1> QED
  BY <1>2, <1>3

LEMMA StartFollows ==
  ASSUME CompletionInv, Startup
  PROVE  FollowsAll
<1>1. TypeOK /\ CompletedOnlyInDone(tickets)
  BY DEF CompletionInv
<1>2. tickets' = [i \in DOMAIN tickets |->
                   [tickets[i] EXCEPT !.backlog = @ \/ tickets[i].type = "idea"]]
  BY DEF Startup
<1>3. \A j \in DOMAIN tickets' : /\ j \in DOMAIN tickets
                                 /\ tickets'[j].completed = tickets[j].completed
                                 /\ tickets'[j].column = tickets[j].column
  BY <1>1, <1>2, TypedRow DEF Ticket
<1> QED
  BY <1>1, <1>3, KeptFollows

(* A step of handler c that leaves its stamp right leaves all right.       *)
LEMMA StampsKept ==
  ASSUME TypeOK, StampsFit, NEW c \in Clients, NEW h,
         handler' = [handler EXCEPT ![c] = h],
         h.phase = "ready" /\ h.request.kind = "create" => StampFits(h)
  PROVE  StampsFit'
<1>1. DOMAIN handler = Clients
  BY DEF TypeOK
<1> SUFFICES ASSUME NEW b \in Clients, At(b, "ready", "create")'
             PROVE  StampFits(handler'[b])
  BY DEF StampsFit, StampFits
<1>2. CASE b = c
  BY <1>1, <1>2 DEF At
<1>3. CASE b # c
  BY <1>1, <1>3 DEF At, StampsFit
<1> QED
  BY <1>2, <1>3

LEMMA NextStampsFit == TypeOK /\ StampsFit /\ [Next]_vars => StampsFit'
<1> SUFFICES ASSUME TypeOK, StampsFit, [Next]_vars PROVE StampsFit'
  OBVIOUS
<1>1. CASE Startup \/ UNCHANGED vars
  BY <1>1 DEF Startup, vars, StampsFit, StampFits, At
<1>2. CASE Crash
  BY <1>2 DEF Crash, StampsFit, StampFits, At, Idle
<1>3. ASSUME NEW c \in Clients, Handle(c) PROVE StampsFit'
  <2>1. CASE Reply(c)
    <3>1. Idle.phase # "ready"
      BY DEF Idle
    <3> QED
      BY <2>1, <3>1, StampsKept DEF Reply
  <2>2. CASE Receive(c)
    <3>1. PICK q : handler' = [handler EXCEPT ![c] =
                     [phase |-> "received", request |-> q, stamp |-> 0]]
      BY <2>2 DEF Receive
    <3> DEFINE h == [phase |-> "received", request |-> q, stamp |-> 0]
    <3>2. h.phase # "ready" /\ handler' = [handler EXCEPT ![c] = h]
      BY <3>1
    <3> HIDE DEF h
    <3> QED
      BY <3>2, StampsKept
  <2>3. CASE CheckParent(c)
    <3> DEFINE h == [handler[c] EXCEPT !.phase = "parentChecked"]
    <3>1. handler[c] \in Handling
      BY <2>3, HandlingFields DEF CheckParent, Busy
    <3>2. h.phase # "ready" /\ handler' = [handler EXCEPT ![c] = h]
      BY <2>3, <3>1 DEF CheckParent, Advance, Handling
    <3> HIDE DEF h
    <3> QED
      BY <3>2, StampsKept
  <2>4. CASE CheckDependencies(c)
    <3> DEFINE q == handler[c].request
               stamp == IF q.kind = "create"
                        THEN CompletionTimestamp(q.ticket.column, 0, clock) ELSE 0
               next == IF q.kind = "create" THEN "ready" ELSE "checked"
               h == [handler[c] EXCEPT !.phase = next, !.stamp = stamp]
    <3>1. handler[c] \in Handling
      BY <2>4, HandlingFields DEF CheckDependencies, Busy
    <3>2. handler' = [handler EXCEPT ![c] = h]
      BY <2>4 DEF CheckDependencies, TypeOK
    <3>3. q.kind = "create" => (stamp # 0 <=> IsDone(q.ticket.column))
      BY TimestampType DEF TypeOK
    <3> HIDE DEF stamp
    <3>4. h.stamp = stamp /\ h.request = q /\ h.phase = next
      BY <3>1 DEF Handling
    <3> HIDE DEF h
    <3> QED
      BY <3>2, <3>3, <3>4, StampsKept DEF StampFits
  <2>5. CASE LoadPrevious(c)
    <3>1. PICK extras :
            handler' = [handler EXCEPT ![c].phase = "ready",
                                       ![c].request.ticket.repeat = extras]
      BY <2>5 DEF LoadPrevious
    <3> DEFINE h == [handler[c] EXCEPT !.phase = "ready",
                       !.request.ticket.repeat = extras]
    <3>2. /\ handler[c] \in Handling /\ handler[c].request.kind = "update"
          /\ handler[c].request \in Request(Columns)
      BY <2>5, HandlingFields DEF LoadPrevious, At, Busy
    <3>3. handler' = [handler EXCEPT ![c] = h]
      BY <3>1 DEF TypeOK
    <3>4. h.request.kind # "create"
      BY <3>2 DEF Handling, Request
    <3> HIDE DEF h
    <3> QED
      BY <3>3, <3>4, StampsKept
  <2>6. CASE LoadOriginal(c)
    <3>1. PICK q : handler' = [handler EXCEPT ![c].request = q]
      BY <2>6 DEF LoadOriginal
    <3> DEFINE h == [handler[c] EXCEPT !.request = q]
    <3>2. handler[c] \in Handling /\ handler[c].phase = "received"
      BY <2>6, HandlingFields DEF LoadOriginal, At, Busy
    <3>3. h.phase # "ready" /\ handler' = [handler EXCEPT ![c] = h]
      BY <3>1, <3>2 DEF Handling
    <3> HIDE DEF h
    <3> QED
      BY <3>3, StampsKept
  <2>7. CASE Commit(c) \/ Fail(c)
    <3>1. Reply(c)
      BY <2>7 DEF Commit, CommitCreate, CommitUpdate, CommitMove, CommitArchive,
         CommitTrash, CommitRestore, CommitDelete, Fail
    <3> QED
      BY <2>1, <3>1
  <2> QED
    BY <1>3, <2>2, <2>3, <2>4, <2>5, <2>6, <2>7 DEF Handle
<1> QED
  BY <1>1, <1>2, <1>3 DEF Next

LEMMA NextCompletion == CompletionInv /\ [Next]_vars => CompletionInv' /\ FollowsAll
<1> SUFFICES ASSUME CompletionInv, [Next]_vars PROVE CompletionInv' /\ FollowsAll
  OBVIOUS
<1>1. TypeOK /\ StampsFit /\ CompletedOnlyInDone(tickets)
  BY DEF CompletionInv
<1>2. ASSUME tickets' = tickets PROVE FollowsAll
  BY <1>1, <1>2, KeptFollows
<1>3. FollowsAll
  <2>1. CASE Startup
    BY <2>1, StartFollows
  <2>2. CASE Crash \/ UNCHANGED vars
    BY <1>2, <2>2 DEF Crash, vars, store
  <2>3. ASSUME NEW c \in Clients, Commit(c) PROVE FollowsAll
    BY <2>3, CreateFollows, UpdateFollows, MoveFollows, RowFollows DEF Commit
  <2>4. ASSUME NEW c \in Clients, Handle(c), ~Commit(c) PROVE FollowsAll
    BY <1>2, <2>4 DEF Handle, Receive, CheckParent, CheckDependencies, LoadPrevious,
       LoadOriginal, Fail, store
  <2> QED
    BY <2>1, <2>2, <2>3, <2>4 DEF Next
<1>4. TypeOK' /\ StampsFit' /\ CompletedOnlyInDone(tickets')
  BY <1>1, <1>3, NextType, NextStampsFit, FollowsOnlyDone
<1>5. CompletedOnlyInDone(tickets)'
  BY <1>4 DEF CompletedOnlyInDone
<1> QED
  BY <1>3, <1>4, <1>5 DEF CompletionInv

(* In every step only tickets in Done carry a completion time, one that    *)
(* enters Done gets it, and one that stays there keeps it, also when a     *)
(* create took its time before other transactions committed.               *)
THEOREM CompletionIsInDone == Spec => CompletionFollowsColumn
<1>1. Init => CompletionInv
  <2> SUFFICES ASSUME Init PROVE CompletionInv
    OBVIOUS
  <2>1. CompletedOnlyInDone(tickets)
    BY StoresAssumption DEF Init, WellFormed, CompletedOnlyInDone
  <2>2. StampsFit
    BY DEF Init, StampsFit, At, Idle
  <2> QED
    BY <2>1, <2>2, InitType DEF CompletionInv
<1>2. FollowsAll =>
        \A i \in DOMAIN tickets' :
          LET stayed == i \in DOMAIN tickets /\ IsDone(tickets[i].column)
          IN IF IsDone(tickets'[i].column)
             THEN IF stayed THEN tickets[i].completed \in {0, tickets'[i].completed}
                  ELSE tickets'[i].completed # 0
             ELSE tickets'[i].completed = 0
  BY DEF FollowsAll, Follows
<1> QED
  BY <1>1, <1>2, NextCompletion, PTL DEF Spec, CompletionFollowsColumn


-----------------------------------------------------------------------------
(* What a step writes *)

(* The rows agree on everything but their place in the lane.               *)
SameRow(new, old) ==
  SameWork(new, old) /\ new.repeat = old.repeat /\ new.started = old.started

(* Table T is the stored one with row i written, moved rows apart, and     *)
(* FinishWorkflow follows for what row i was before.                       *)
WritesRow(T, i, before, days) ==
  /\ IsTable(T) /\ i \in DOMAIN T /\ DOMAIN T = DOMAIN tickets \union {i}
  /\ \A j \in DOMAIN T \ {i} : SameRow(T[j], tickets[j])
  /\ days \in Days /\ FinishWorkflow(T, i, before, days)
  /\ i \in DOMAIN tickets =>
       /\ before = tickets[i] /\ T[i].started = tickets[i].started
       /\ T[i].completed = CompletionTimestamp(T[i].column, tickets[i].completed, clock)
  /\ i \notin DOMAIN tickets => before = Unplaced /\ days = 0 /\ T[i].started = 0

Creates(c, T, n) ==
  LET d == handler[c].request.ticket
  IN /\ n \notin DOMAIN tickets /\ WritesRow(T, n, Unplaced, 0)
     /\ T[n].parent = d.parent /\ T[n].column = d.column
     /\ T[n].completed = handler[c].stamp
     /\ d.links \in SUBSET Ids /\ links' = ReplaceLinks(links, n, d.links)

Updates(c, T) ==
  LET i == handler[c].request.id
      d == handler[c].request.ticket
  IN /\ i \in DOMAIN tickets /\ WritesRow(T, i, tickets[i], d.repeat)
     /\ T[i].parent = d.parent /\ T[i].column = d.column
     /\ T[i].repeat = SavedExtras(d.repeat, tickets[i].repeat)
     /\ d.links \in SUBSET Ids /\ links' = ReplaceLinks(links, i, d.links)

Moves(c, T) ==
  LET i == handler[c].request.id
      column == handler[c].request.column
  IN /\ i \in DOMAIN tickets /\ WritesRow(T, i, tickets[i], tickets[i].repeat)
     /\ T[i].parent = tickets[i].parent /\ T[i].column = column
     /\ T[i].repeat = tickets[i].repeat
     /\ ~Blocked(tickets, {e[2] : e \in EdgesFrom(links, i)}, column)

(* A step that rewrites no history and, in the rows it keeps, neither      *)
(* dates, column nor interval.                                             *)
KeepsDates ==
  /\ DOMAIN tickets' \subseteq DOMAIN tickets
  /\ \A j \in DOMAIN tickets' :
       /\ tickets'[j].completed = tickets[j].completed
       /\ tickets'[j].started = tickets[j].started
       /\ tickets'[j].column = tickets[j].column
       /\ tickets'[j].repeat = tickets[j].repeat
  /\ history' \subseteq history /\ repetitions' \subseteq repetitions /\ clock' = clock
  /\ \A h \in history' : h.ticket \notin DOMAIN tickets \ DOMAIN tickets'

LEMMA CreateStep ==
  ASSUME TypeOK, NEW c \in Clients, CommitCreate(c)
  PROVE  \E T, n : Creates(c, T, n)
<1> DEFINE d == handler[c].request.ticket
           row == [type |-> d.type, parent |-> d.parent, column |-> d.column,
                   position |-> d.position, backlog |-> d.backlog,
                   archived |-> FALSE, deleted |-> FALSE,
                   repeat |-> SavedExtras(d.repeat, 0),
                   completed |-> handler[c].stamp, started |-> 0]
<1>1. d \in Draft(Columns) /\ handler[c].stamp \in Nat
  BY HandlingFields, DraftFields DEF CommitCreate, At, Busy
<1>2. PICK n \in NewRowIds(tickets) :
        /\ FinishWorkflow(Put(tickets, n, row), n, Unplaced, 0)
        /\ links' = ReplaceLinks(links, n, d.links)
  BY DEF CommitCreate
<1> DEFINE T == Put(tickets, n, row)
<1>3. IsTable(tickets) /\ DOMAIN tickets \subseteq Nat
  BY TypedTable, TypedRow DEF Ids
<1>4. n \in Ids /\ n \notin DOMAIN tickets
  BY <1>3 DEF NewRowIds, Ids
<1>5. /\ row \in Ticket /\ row.parent = d.parent /\ row.column = d.column
      /\ row.completed = handler[c].stamp /\ row.started = 0
  BY <1>1, RulesAssumption DEF Draft, Ticket, SavedExtras, NoExtras
<1> HIDE DEF row
<1>6. /\ IsTable(T) /\ DOMAIN T = DOMAIN tickets \union {n} /\ T[n] = row
      /\ \A j \in DOMAIN tickets \ {n} : T[j] = tickets[j]
  BY <1>3, <1>4, <1>5, PutType
<1>7. 0 \in Days /\ d.links \in SUBSET Ids
  BY <1>1, RulesAssumption DEF Days, Draft
<1>8. FinishWorkflow(T, n, Unplaced, 0)
  BY <1>2
<1> HIDE DEF T
<1>9. WritesRow(T, n, Unplaced, 0)
  BY <1>4, <1>5, <1>6, <1>7, <1>8 DEF WritesRow, SameRow, SameWork
<1> QED
  BY <1>2, <1>4, <1>5, <1>6, <1>7, <1>9 DEF Creates

LEMMA UpdateStep ==
  ASSUME TypeOK, NEW c \in Clients, CommitUpdate(c)
  PROVE  \E T : Updates(c, T)
<1> DEFINE i == handler[c].request.id
           d == handler[c].request.ticket
           was == tickets[i]
           stamp == CompletionTimestamp(d.column, was.completed, clock)
           row == [was EXCEPT !.type = d.type, !.parent = d.parent,
                     !.column = d.column, !.position = d.position,
                     !.backlog = d.backlog,
                     !.repeat = SavedExtras(d.repeat, @),
                     !.completed = stamp]
           T == [tickets EXCEPT ![i] = row]
<1>1. d \in Draft(Columns)
  BY HandlingFields, DraftFields DEF CommitUpdate, At, Busy
<1>2. i \in DOMAIN tickets /\ i \in Ids /\ was \in Ticket /\ was = tickets[i]
  BY TypedRow DEF CommitUpdate
<1>3. /\ FinishWorkflow(T, i, was, d.repeat)
      /\ links' = ReplaceLinks(links, i, d.links)
  BY DEF CommitUpdate
<1>4. stamp \in Nat /\ stamp = CompletionTimestamp(d.column, was.completed, clock)
  BY <1>2, TimestampType DEF TypeOK, Ticket
<1> HIDE DEF stamp
<1>5. /\ row \in Ticket /\ row.parent = d.parent /\ row.column = d.column
      /\ row.repeat = SavedExtras(d.repeat, was.repeat)
      /\ row.completed = stamp /\ row.started = was.started
  BY <1>1, <1>2, <1>4 DEF Draft, Ticket, SavedExtras
<1> HIDE DEF row
<1>6. /\ IsTable(T) /\ DOMAIN T = DOMAIN tickets /\ T[i] = row
      /\ \A j \in DOMAIN tickets \ {i} : T[j] = tickets[j]
  BY <1>2, <1>5, ExceptType DEF TypeOK
<1>7. d.repeat \in Days /\ d.links \in SUBSET Ids
  BY <1>1 DEF Draft, Days
<1> HIDE DEF T, was
<1>8. WritesRow(T, i, was, d.repeat)
  BY <1>2, <1>3, <1>4, <1>5, <1>6, <1>7 DEF WritesRow, SameRow, SameWork
<1> QED
  BY <1>2, <1>3, <1>5, <1>6, <1>7, <1>8 DEF Updates

LEMMA MoveStep ==
  ASSUME TypeOK, NEW c \in Clients, CommitMove(c)
  PROVE  \/ KeepsDates /\ KeepsWork
         \/ \E T : Moves(c, T)
<1> DEFINE q == handler[c].request
           i == q.id
           was == tickets[i]
           T == Reordered(tickets, i, q.column, q.anchor, q.place)
           stamp == CompletionTimestamp(q.column, T[i].completed, clock)
           row == [T[i] EXCEPT !.completed = stamp]
<1>1. q.column \in Columns /\ q.place \in {"before", "after", "end"}
  BY HandlingFields, MoveFields DEF CommitMove, At, Busy
<1>2. i \in DOMAIN tickets /\ was \in Ticket /\ was = tickets[i]
  BY TypedRow DEF CommitMove
<1>3. /\ IsTable(T) /\ DOMAIN T = DOMAIN tickets
      /\ \A j \in DOMAIN tickets :
           SameButPlace(T[j], tickets[j], IF j = i THEN q.column ELSE tickets[j].column)
  <2>1. IsTable(tickets)
    BY TypedTable
  <2>2. T = Reordered(tickets, i, q.column, q.anchor, q.place)
    OBVIOUS
  <2> HIDE DEF q, i, T
  <2>3. i \in DOMAIN tickets
    BY <1>2
  <2> QED
    BY <1>1, <2>1, <2>2, <2>3, ReorderedType
<1>4. CASE was.column = q.column
  <2>1. /\ tickets' = T /\ history' = history /\ repetitions' = repetitions
        /\ clock' = clock
    BY <1>4 DEF CommitMove
  <2> HIDE DEF T
  <2>2. KeepsWork
    BY <1>3, <1>4, <2>1 DEF KeepsWork, SameButPlace, SameWork
  <2>3. KeepsDates
    BY <1>3, <1>4, <2>1 DEF KeepsDates, SameButPlace
  <2> QED
    BY <2>2, <2>3
<1>5. CASE was.column # q.column
  <2> DEFINE U == [T EXCEPT ![i] = row]
  <2>1. /\ FinishWorkflow(U, i, was, was.repeat)
        /\ ~Blocked(tickets, {e[2] : e \in EdgesFrom(links, i)}, q.column)
    BY <1>5, <1>2, <1>3 DEF CommitMove
  <2> HIDE DEF T
  <2>2. /\ T[i] \in Ticket /\ T[i].completed = was.completed /\ T[i].column = q.column
        /\ T[i].parent = was.parent /\ T[i].repeat = was.repeat
        /\ T[i].started = was.started
    BY <1>2, <1>3, TableRow DEF SameButPlace
  <2>3. stamp \in Nat /\ stamp = CompletionTimestamp(q.column, was.completed, clock)
    BY <2>2, TimestampType DEF TypeOK, Ticket
  <2> HIDE DEF stamp
  <2>4. /\ row \in Ticket /\ row.parent = was.parent /\ row.repeat = was.repeat
        /\ row.completed = stamp /\ row.started = was.started /\ row.column = q.column
    BY <2>2, <2>3 DEF Ticket
  <2> HIDE DEF row
  <2>5. /\ IsTable(U) /\ DOMAIN U = DOMAIN T /\ U[i] = row
        /\ \A j \in DOMAIN T \ {i} : U[j] = T[j]
    <3>1. i \in DOMAIN T
      BY <1>2, <1>3
    <3> QED
      BY <1>3, <2>4, <3>1, ExceptType
  <2>6. was.repeat \in Days
    BY <1>2 DEF Ticket, Days
  <2> HIDE DEF U
  <2>7. \A j \in DOMAIN U \ {i} : SameRow(U[j], tickets[j])
    BY <1>3, <2>5 DEF SameButPlace, SameWork, SameRow
  <2> HIDE DEF was
  <2>8. WritesRow(U, i, was, was.repeat)
    BY <1>2, <1>3, <2>1, <2>3, <2>4, <2>5, <2>6, <2>7 DEF WritesRow
  <2>9. Moves(c, U)
    BY <1>2, <1>3, <2>1, <2>4, <2>5, <2>8 DEF Moves
  <2> QED
    BY <2>9
<1> QED
  BY <1>4, <1>5

(* The other commits and the start.                                        *)
LEMMA RowStep ==
  ASSUME TypeOK, NEW c \in Clients,
         \/ CommitArchive(c) \/ CommitTrash(c) \/ CommitRestore(c) \/ CommitDelete(c)
  PROVE  KeepsDates
<1> DEFINE i == handler[c].request.id
           Rows == {[tickets[i] EXCEPT !.archived = @ \/ ~tickets[i].deleted],
                    [tickets[i] EXCEPT !.deleted = TRUE],
                    [tickets[i] EXCEPT !.archived = FALSE, !.deleted = FALSE]}
           Same(new, old) ==
             /\ new.completed = old.completed /\ new.started = old.started
             /\ new.column = old.column /\ new.repeat = old.repeat
<1>1. CASE CommitDelete(c)
  <2>1. /\ tickets' = Without(tickets, i) /\ clock' = clock
        /\ history' = {h \in history : h.ticket # i} /\ repetitions' \subseteq repetitions
    BY <1>1 DEF CommitDelete
  <2>2. \A j \in DOMAIN tickets' : j \in DOMAIN tickets /\ Same(tickets'[j], tickets[j])
    BY <2>1, TypedRow DEF Without, Ticket
  <2>3. DOMAIN tickets \ DOMAIN tickets' \subseteq {i}
    BY <2>1 DEF Without
  <2> QED
    BY <2>1, <2>2, <2>3 DEF KeepsDates
<1>2. CASE CommitArchive(c) \/ CommitTrash(c) \/ CommitRestore(c)
  <2>1. i \in DOMAIN tickets => \A row \in Rows : Same(row, tickets[i])
    BY TypedRow DEF Ticket
  <2>2. /\ \E row \in Rows : SetRow(i, row)
        /\ history' = history /\ repetitions' = repetitions /\ clock' = clock
    BY <1>2 DEF CommitArchive, CommitTrash, CommitRestore
  <2> HIDE DEF Rows, i
  <2>3. /\ DOMAIN tickets' = DOMAIN tickets
        /\ \A j \in DOMAIN tickets' : Same(tickets'[j], tickets[j])
    BY <2>1, <2>2 DEF SetRow
  <2> QED
    BY <2>2, <2>3 DEF KeepsDates
<1> QED
  BY <1>1, <1>2

(* The table that FinishWorkflow writes before it adds a next occurrence.  *)
Saved(T, i, before) == [T EXCEPT ![i].started = StartedAt(T[i], before, clock)]

AddsNext(i, saved, days) ==
  \E n \in Ids \ DOMAIN saved : \E next \in Ticket :
    /\ next.completed = 0 /\ next.started = 0 /\ next.column = FirstColumn
    /\ next.parent = saved[i].parent
    /\ tickets' = Put(saved, n, next)
    /\ repetitions' = repetitions \union
         {[ticket |-> i, completed |-> saved[i].completed, next |-> n]}

Finishes(T, i, before, days, saved) ==
  /\ IsTable(saved) /\ DOMAIN saved = DOMAIN tickets \union {i}
  /\ saved[i] \in Ticket /\ SameWork(saved[i], T[i])
  /\ saved[i].repeat = T[i].repeat
  /\ saved[i].started = StartedAt(T[i], before, clock)
  /\ \A j \in DOMAIN saved \ {i} : j \in DOMAIN tickets /\ SameRow(saved[j], tickets[j])
  /\ history' = Recorded(history, saved, i)
  /\ clock' = IF clock \in {saved[i].completed, saved[i].started}
              THEN clock + 1 ELSE clock
  /\ \/ Repeats(repetitions, i, before, saved[i], days) /\ AddsNext(i, saved, days)
     \/ /\ ~Repeats(repetitions, i, before, saved[i], days)
        /\ tickets' = saved /\ repetitions' = repetitions

LEMMA FinishStep ==
  ASSUME TypeOK, NEW T, NEW i, NEW before, NEW days, WritesRow(T, i, before, days)
  PROVE  \E saved : Finishes(T, i, before, days, saved)
<1> PICK saved : saved = Saved(T, i, before)
  OBVIOUS
<1> DEFINE row   == [T[i] EXCEPT !.started = StartedAt(T[i], before, clock)]
<1>1. /\ IsTable(T) /\ i \in DOMAIN T /\ i \in Ids /\ T[i] \in Ticket
      /\ clock \in Nat \ {0} /\ days \in Days
      /\ FinishWorkflow(T, i, before, days)
  BY TableRow DEF WritesRow, TypeOK
<1>2. /\ row \in Ticket /\ SameWork(row, T[i]) /\ row.repeat = T[i].repeat
      /\ row.started = StartedAt(T[i], before, clock)
  BY <1>1 DEF StartedAt, Ticket, SameWork
<1>3. saved = [T EXCEPT ![i] = row]
  BY <1>1 DEF Saved
<1>4. /\ history' = Recorded(history, [T EXCEPT ![i] = row], i)
      /\ clock' = IF clock \in {row.completed, row.started} THEN clock + 1 ELSE clock
      /\ IF Repeats(repetitions, i, before, row, days)
         THEN \E n \in NewRowIds([T EXCEPT ![i] = row]) :
                /\ tickets' = Put([T EXCEPT ![i] = row], n, NextOccurrence(row, days))
                /\ repetitions' = repetitions \union
                     {[ticket |-> i, completed |-> row.completed, next |-> n]}
         ELSE tickets' = [T EXCEPT ![i] = row] /\ repetitions' = repetitions
  BY <1>1 DEF FinishWorkflow
<1> HIDE DEF row
<1>5. /\ IsTable(saved) /\ DOMAIN saved = DOMAIN T /\ saved[i] = row
      /\ \A j \in DOMAIN T \ {i} : saved[j] = T[j]
  <2>1. DOMAIN saved = DOMAIN T /\ \A j \in DOMAIN T : saved[j] = IF j = i THEN row ELSE T[j]
    BY <1>3
  <2>2. saved = [j \in DOMAIN saved |-> saved[j]]
    BY <1>3
  <2>3. row \in Ticket /\ \A j \in DOMAIN T : T[j] \in Ticket
    BY <1>1, <1>2, TableRow
  <2> QED
    BY <1>1, <2>1, <2>2, <2>3 DEF IsTable
<1>6. \A j \in DOMAIN saved \ {i} : j \in DOMAIN tickets /\ SameRow(saved[j], tickets[j])
  BY <1>5 DEF WritesRow
<1>7. ASSUME Repeats(repetitions, i, before, row, days)
      PROVE  AddsNext(i, saved, days)
  <2>1. PICK n \in NewRowIds(saved) :
          /\ tickets' = Put(saved, n, NextOccurrence(row, days))
          /\ repetitions' = repetitions \union
               {[ticket |-> i, completed |-> row.completed, next |-> n]}
    BY <1>3, <1>4, <1>7
  <2>2. DOMAIN saved \subseteq Nat
    BY <1>5, TableRow DEF Ids
  <2>3. n \in Ids \ DOMAIN saved
    BY <2>2 DEF NewRowIds, Ids
  <2>4. days \in RepeatDays
    BY <1>1, <1>7, RulesAssumption DEF Repeats, Days, NoExtras
  <2> DEFINE next == NextOccurrence(row, days)
  <2>5. /\ next \in Ticket /\ next.completed = 0 /\ next.started = 0
        /\ next.column = FirstColumn /\ next.parent = row.parent
    BY <1>2, <2>4, FirstColumnType DEF NextOccurrence, Ticket
  <2> HIDE DEF next
  <2> QED
    BY <1>5, <2>1, <2>3, <2>5 DEF AddsNext, next
<1>8. DOMAIN saved = DOMAIN tickets \union {i}
  BY <1>5 DEF WritesRow
<1>9. ~Repeats(repetitions, i, before, row, days) =>
        tickets' = saved /\ repetitions' = repetitions
  BY <1>3, <1>4
<1>10. /\ history' = Recorded(history, saved, i)
       /\ clock' = IF clock \in {row.completed, row.started} THEN clock + 1 ELSE clock
  BY <1>3, <1>4
<1> QED
  BY <1>2, <1>5, <1>6, <1>7, <1>8, <1>9, <1>10 DEF Finishes

-----------------------------------------------------------------------------
(* The episodes of one ticket do not overlap *)

(* The episodes of a completed row are not later than its completion, and  *)
(* all but that of this completion ended before the row was last started.  *)
Dated(H, row, i) ==
  \A h \in H : h.ticket = i =>
    /\ row.completed # 0 => h.completed <= row.completed
    /\ row.started # 0 /\ h.completed # row.completed => h.completed < row.started

Ordered(H) ==
  \A h \in H :
    /\ h.started <= h.completed
    /\ \A g \in H : g.ticket = h.ticket /\ g.completed < h.completed =>
         h.started = 0 \/ h.started > g.completed

(* Everything that happened happened before now, to tickets that exist.    *)
StorePast ==
  /\ \A i \in DOMAIN tickets : tickets[i].completed < clock
  /\ \A h \in history : h.ticket \in DOMAIN tickets /\ h.completed < clock
  /\ \A r \in repetitions : r.completed < clock

StampsPast == \A c \in Clients : Busy(c) => handler[c].stamp < clock

StoreDated ==
  /\ StorePast /\ Ordered(history)
  /\ \A i \in DOMAIN tickets : Dated(history, tickets[i], i)

DatesInv == TypeOK /\ StampsPast /\ StoreDated

(* Episodes are added for the current completions of the rows in S.        *)
WithEpisodes(H, T, S) == H \union {Episode(T, k) : k \in S}

LEMMA AddedEpisodes ==
  ASSUME NEW H, H \subseteq Episodes, NEW T, IsTable(T), NEW S \in SUBSET DOMAIN T,
         Ordered(H), \A k \in DOMAIN T : Dated(H, T[k], k)
  PROVE  /\ Ordered(WithEpisodes(H, T, S))
         /\ \A k \in DOMAIN T : Dated(WithEpisodes(H, T, S), T[k], k)
<1> DEFINE G == H \union {Episode(T, k) : k \in S}
<1>1. \A k \in DOMAIN T : T[k].completed \in Nat /\ T[k].started \in Nat
  BY TableRow DEF Ticket
<1>2. \A k \in S : /\ Episode(T, k).ticket = k
                   /\ Episode(T, k).completed = T[k].completed
                   /\ \/ Episode(T, k).started = 0
                      \/ Episode(T, k).started = T[k].started
  BY DEF Episode
<1>3. \A h \in H : h.completed \in Nat \ {0} /\ h.started \in Nat
  BY DEF Episodes
<1>4. \A h \in G : h \in H \/ (h.ticket \in S /\ h = Episode(T, h.ticket))
  BY <1>2
<1>5. \A k \in DOMAIN T : Dated(G, T[k], k)
  <2> SUFFICES ASSUME NEW k \in DOMAIN T, NEW h \in G, h.ticket = k
               PROVE  /\ T[k].completed # 0 => h.completed <= T[k].completed
                      /\ T[k].started # 0 /\ h.completed # T[k].completed =>
                           h.completed < T[k].started
    BY DEF Dated
  <2>1. CASE h \in H
    BY <2>1 DEF Dated
  <2>2. CASE h \notin H
    BY <1>1, <1>2, <1>4, <2>2
  <2> QED
    BY <2>1, <2>2
<1>6. ASSUME NEW h \in G, NEW g \in G, g.ticket = h.ticket, g.completed < h.completed
      PROVE  h.started = 0 \/ h.started > g.completed
  <2>1. CASE h \in H /\ g \in H
    BY <1>6, <2>1 DEF Ordered
  <2>2. CASE h \in H /\ g \notin H
    <3>1. /\ g.ticket \in S /\ g.completed = T[g.ticket].completed
      BY <1>2, <1>4, <2>2
    <3>2. T[g.ticket].completed # 0 => h.completed <= T[g.ticket].completed
      BY <1>6, <2>2, <3>1 DEF Dated
    <3>3. /\ g.completed \in Nat /\ h.completed \in Nat
          /\ g.completed # 0 => h.completed <= g.completed
      BY <1>1, <1>3, <2>2, <3>1, <3>2
    <3>4. g.completed = 0
      BY <1>6, <3>3
    <3>5. h.started = 0 \/ h.started > 0
      BY <1>3, <2>2
    <3> QED
      BY <3>4, <3>5
  <2>3. CASE h \notin H /\ g \in H
    <3>1. /\ h.ticket \in S /\ h.completed = T[h.ticket].completed
          /\ h.started = 0 \/ h.started = T[h.ticket].started
      BY <1>2, <1>4, <2>3
    <3>2. T[h.ticket].started # 0 /\ g.completed # T[h.ticket].completed =>
            g.completed < T[h.ticket].started
      BY <1>6, <2>3, <3>1 DEF Dated
    <3>3. g.completed \in Nat /\ h.completed \in Nat /\ T[h.ticket].started \in Nat
      BY <1>1, <1>3, <2>3, <3>1
    <3>4. g.completed # T[h.ticket].completed
      BY <1>6, <3>1, <3>3
    <3> QED
      BY <3>1, <3>2, <3>3, <3>4
  <2>4. CASE h \notin H /\ g \notin H
    <3>1. g = h
      BY <1>4, <1>6, <2>4
    <3>2. h.completed \in Nat
      BY <1>1, <1>2, <1>4, <2>4
    <3> QED
      BY <1>6, <3>1, <3>2
  <2> QED
    BY <2>1, <2>2, <2>3, <2>4
<1>7. ASSUME NEW h \in G PROVE h.started <= h.completed
  <2>1. CASE h \in H
    BY <2>1 DEF Ordered
  <2>2. CASE h \notin H
    <3>1. PICK k \in S : h = Episode(T, k)
      BY <2>2
    <3> QED
      BY <1>1, <3>1 DEF Episode
  <2> QED
    BY <2>1, <2>2
<1> QED
  BY <1>5, <1>6, <1>7 DEF Ordered, WithEpisodes

(* The dates of a written row fit the episodes there are.                  *)
LEMMA WrittenRowDated ==
  ASSUME DatesInv, NEW T, NEW i, NEW before, NEW days, WritesRow(T, i, before, days),
         NEW saved, Finishes(T, i, before, days, saved)
  PROVE  Dated(history, saved[i], i)
<1>1. TypeOK /\ StorePast
  BY DEF DatesInv, StoreDated
<1>2. /\ saved[i] \in Ticket /\ saved[i].completed = T[i].completed
      /\ saved[i].started = StartedAt(T[i], before, clock)
  BY DEF Finishes, SameWork
<1>3. clock \in Nat \ {0} /\ \A h \in history : h.completed \in Nat \ {0}
  BY <1>1 DEF TypeOK, Episodes
<1> SUFFICES ASSUME NEW h \in history, h.ticket = i
             PROVE  /\ saved[i].completed # 0 => h.completed <= saved[i].completed
                    /\ saved[i].started # 0 /\ h.completed # saved[i].completed =>
                         h.completed < saved[i].started
  BY DEF Dated
<1>4. h.completed < clock /\ i \in DOMAIN tickets
  BY <1>1 DEF StorePast
<1>5. /\ before = tickets[i] /\ T[i].started = tickets[i].started
      /\ T[i].completed = CompletionTimestamp(T[i].column, tickets[i].completed, clock)
  BY <1>4 DEF WritesRow
<1>6. tickets[i].completed \in Nat /\ tickets[i].started \in Nat
  BY <1>1, <1>4, TypedRow DEF Ticket
<1>7. /\ tickets[i].completed # 0 => h.completed <= tickets[i].completed
      /\ tickets[i].started # 0 /\ h.completed # tickets[i].completed =>
           h.completed < tickets[i].started
  BY <1>4 DEF DatesInv, StoreDated, Dated
<1>8. saved[i].completed \in {0, clock, tickets[i].completed}
  BY <1>2, <1>5 DEF CompletionTimestamp
<1>9. saved[i].completed # 0 => h.completed <= saved[i].completed
  BY <1>3, <1>4, <1>6, <1>7, <1>8
<1>10. \/ saved[i].started = clock
       \/ saved[i].started = 0
       \/ /\ saved[i].started = tickets[i].started
          /\ tickets[i].completed # 0 => saved[i].completed # 0
  BY <1>2, <1>5 DEF StartedAt
<1>11. tickets[i].completed # 0 /\ saved[i].completed # 0 =>
         saved[i].completed = tickets[i].completed
  BY <1>2, <1>5 DEF CompletionTimestamp
<1> QED
  BY <1>3, <1>4, <1>6, <1>7, <1>9, <1>10, <1>11

LEMMA WriteDates ==
  ASSUME DatesInv, NEW T, NEW i, NEW before, NEW days, WritesRow(T, i, before, days),
         i \notin DOMAIN tickets => T[i].completed < clock
  PROVE  StoreDated' /\ clock <= clock'
<1>1. TypeOK /\ StorePast /\ StoreDated
  BY DEF DatesInv, StoreDated
<1> PICK saved : Finishes(T, i, before, days, saved)
  BY <1>1, FinishStep
<1>2. Dated(history, saved[i], i)
  BY WrittenRowDated
<1>3. /\ IsTable(saved) /\ DOMAIN saved = DOMAIN tickets \union {i}
      /\ saved[i] \in Ticket /\ saved[i].completed = T[i].completed
      /\ \A j \in DOMAIN saved \ {i} : j \in DOMAIN tickets /\ SameRow(saved[j], tickets[j])
      /\ history' = Recorded(history, saved, i)
      /\ clock' = IF clock \in {saved[i].completed, saved[i].started}
                  THEN clock + 1 ELSE clock
      /\ \/ AddsNext(i, saved, days)
         \/ tickets' = saved /\ repetitions' = repetitions
  BY DEF Finishes, SameWork
<1>4. i \in DOMAIN tickets =>
        T[i].completed = CompletionTimestamp(T[i].column, tickets[i].completed, clock)
  BY DEF WritesRow
<1>5. clock \in Nat \ {0} /\ saved[i].completed \in Nat
  BY <1>1, <1>3 DEF TypeOK, Ticket
<1>6. clock' \in Nat /\ clock <= clock'
  BY <1>3, <1>5
<1>7. saved[i].completed < clock'
  <2>1. CASE i \notin DOMAIN tickets
    BY <1>3, <1>5, <1>6, <2>1
  <2>2. CASE i \in DOMAIN tickets
    <3>1. tickets[i].completed < clock /\ tickets[i].completed \in Nat
      BY <1>1, <2>2, TypedRow DEF StorePast, Ticket
    <3>2. saved[i].completed \in {0, clock, tickets[i].completed}
      BY <1>3, <1>4, <2>2 DEF CompletionTimestamp
    <3> QED
      BY <1>3, <1>5, <1>6, <3>1, <3>2
  <2> QED
    BY <2>1, <2>2
<1>8. \A j \in DOMAIN saved : saved[j].completed < clock' /\ Dated(history, saved[j], j)
  <2> SUFFICES ASSUME NEW j \in DOMAIN saved, j # i
               PROVE  saved[j].completed < clock' /\ Dated(history, saved[j], j)
    BY <1>2, <1>7
  <2>1. /\ j \in DOMAIN tickets /\ saved[j].completed = tickets[j].completed
        /\ saved[j].started = tickets[j].started
    BY <1>3 DEF SameRow, SameWork
  <2>2. tickets[j].completed < clock /\ tickets[j].completed \in Nat
    BY <1>1, <2>1, TypedRow DEF StorePast, Ticket
  <2> QED
    BY <1>1, <1>5, <1>6, <2>1, <2>2 DEF StoreDated, Dated
<1>9. PICK S \in SUBSET {i} : history' = WithEpisodes(history, saved, S)
  <2>1. \/ history' = WithEpisodes(history, saved, {})
        \/ history' = WithEpisodes(history, saved, {i})
    BY <1>3 DEF Recorded, WithEpisodes
  <2> QED
    BY <2>1
<1>10. Ordered(history') /\ \A k \in DOMAIN saved : Dated(history', saved[k], k)
  <2>1. /\ history \subseteq Episodes /\ Ordered(history) /\ S \in SUBSET DOMAIN saved
        /\ IsTable(saved) /\ \A k \in DOMAIN saved : Dated(history, saved[k], k)
    BY <1>1, <1>3, <1>8, <1>9 DEF TypeOK, StoreDated
  <2> QED
    BY <1>9, <2>1, AddedEpisodes
<1>11. \A h \in history' : h.ticket \in DOMAIN saved /\ h.completed < clock'
  <2> SUFFICES ASSUME NEW h \in history'
               PROVE  h.ticket \in DOMAIN saved /\ h.completed < clock'
    OBVIOUS
  <2>1. CASE h \in history
    <3>1. h.ticket \in DOMAIN tickets /\ h.completed < clock /\ h.completed \in Nat
      BY <1>1, <2>1 DEF StorePast, TypeOK, Episodes
    <3> QED
      BY <1>3, <1>5, <1>6, <3>1
  <2>2. CASE h \notin history
    <3>1. h = Episode(saved, i)
      BY <1>9, <2>2 DEF WithEpisodes
    <3>2. h.ticket = i /\ h.completed = saved[i].completed
      BY <3>1 DEF Episode
    <3> QED
      BY <1>3, <1>7, <3>2
  <2> QED
    BY <2>1, <2>2
<1>12. \A r \in repetitions : r.completed < clock'
  <2>1. \A r \in repetitions : r.completed < clock /\ r.completed \in Nat
    BY <1>1 DEF StorePast, TypeOK, Repetitions
  <2> QED
    BY <1>5, <1>6, <2>1
<1>13. CASE tickets' = saved /\ repetitions' = repetitions
  BY <1>6, <1>8, <1>10, <1>11, <1>12, <1>13 DEF StoreDated, StorePast
<1>14. CASE AddsNext(i, saved, days)
  <2>1. PICK n \in Ids \ DOMAIN saved, next \in Ticket :
          /\ next.completed = 0 /\ next.started = 0
          /\ tickets' = Put(saved, n, next)
          /\ repetitions' = repetitions \union
               {[ticket |-> i, completed |-> saved[i].completed, next |-> n]}
    BY <1>14 DEF AddsNext
  <2>2. /\ DOMAIN tickets' = DOMAIN saved \union {n} /\ tickets'[n] = next
        /\ \A j \in DOMAIN saved : tickets'[j] = saved[j]
    BY <2>1 DEF Put
  <2>3. \A j \in DOMAIN tickets' : tickets'[j].completed < clock'
    <3>1. 0 < clock'
      BY <1>5, <1>6
    <3> QED
      BY <1>8, <2>1, <2>2, <3>1
  <2>4. \A r \in repetitions' : r.completed < clock'
    BY <1>7, <1>12, <2>1
  <2>5. \A j \in DOMAIN tickets' : Dated(history', tickets'[j], j)
    <3>1. Dated(history', next, n)
      BY <1>11, <2>1 DEF Dated
    <3> QED
      BY <1>10, <2>2, <3>1
  <2>6. \A h \in history' : h.ticket \in DOMAIN tickets' /\ h.completed < clock'
    BY <1>11, <2>2
  <2> QED
    BY <1>6, <1>10, <2>3, <2>4, <2>5, <2>6 DEF StoreDated, StorePast
<1> QED
  BY <1>3, <1>13, <1>14

LEMMA KeptDates ==
  ASSUME DatesInv, KeepsDates
  PROVE  StoreDated'
<1>1. TypeOK /\ StorePast /\ StoreDated
  BY DEF DatesInv, StoreDated
<1>2. Ordered(history')
  BY <1>1 DEF StoreDated, Ordered, KeepsDates
<1>3. \A j \in DOMAIN tickets' : Dated(history', tickets'[j], j)
  <2> SUFFICES ASSUME NEW j \in DOMAIN tickets', NEW h \in history', h.ticket = j
               PROVE  /\ tickets'[j].completed # 0 => h.completed <= tickets'[j].completed
                      /\ tickets'[j].started # 0 /\ h.completed # tickets'[j].completed =>
                           h.completed < tickets'[j].started
    BY DEF Dated
  <2>1. /\ j \in DOMAIN tickets /\ h \in history
        /\ tickets'[j].completed = tickets[j].completed
        /\ tickets'[j].started = tickets[j].started
    BY DEF KeepsDates
  <2> QED
    BY <1>1, <2>1 DEF StoreDated, Dated
<1>4. StorePast'
  BY <1>1 DEF StorePast, KeepsDates
<1> QED
  BY <1>2, <1>3, <1>4 DEF StoreDated

(* The start records episodes of the completions it finds.                 *)
LEMMA StartDates ==
  ASSUME DatesInv, Startup
  PROVE  StoreDated'
<1>1. TypeOK /\ StorePast /\ StoreDated /\ TypeOK'
  BY StartupType DEF DatesInv, StoreDated
<1> DEFINE S == Unrecorded(history, tickets')
<1>2. /\ history' = WithEpisodes(history, tickets', S)
      /\ clock' = clock /\ repetitions' = repetitions
      /\ tickets' = [i \in DOMAIN tickets |->
                      [tickets[i] EXCEPT !.backlog = @ \/ tickets[i].type = "idea"]]
  BY DEF Startup, WithEpisodes
<1>3. /\ DOMAIN tickets' = DOMAIN tickets
      /\ \A j \in DOMAIN tickets' : /\ tickets'[j].completed = tickets[j].completed
                                    /\ tickets'[j].started = tickets[j].started
  BY <1>1, <1>2, TypedRow DEF Ticket
<1>4. \A j \in DOMAIN tickets' : Dated(history, tickets'[j], j)
  BY <1>1, <1>3 DEF StoreDated, Dated
<1>5. S \in SUBSET DOMAIN tickets' /\ IsTable(tickets') /\ history \subseteq Episodes
  BY <1>1 DEF Unrecorded, TypeOK
<1> HIDE DEF S
<1>6. Ordered(history') /\ \A k \in DOMAIN tickets' : Dated(history', tickets'[k], k)
  <2>1. Ordered(history)
    BY <1>1 DEF StoreDated
  <2> QED
    BY <1>2, <1>4, <1>5, <2>1, AddedEpisodes
<1>7. \A h \in history' : h.ticket \in DOMAIN tickets' /\ h.completed < clock'
  <2> SUFFICES ASSUME NEW h \in history', h \notin history
               PROVE  h.ticket \in DOMAIN tickets' /\ h.completed < clock'
    BY <1>1, <1>2, <1>3 DEF StorePast
  <2>1. PICK k \in S : h = Episode(tickets', k)
    BY <1>2 DEF WithEpisodes
  <2>2. h.ticket = k /\ h.completed = tickets'[k].completed
    BY <2>1 DEF Episode
  <2> QED
    BY <1>1, <1>2, <1>3, <1>5, <2>2 DEF StorePast
<1>8. StorePast'
  BY <1>1, <1>2, <1>3, <1>7 DEF StorePast
<1> QED
  BY <1>6, <1>8 DEF StoreDated

LEMMA CommitDates ==
  ASSUME DatesInv, NEW c \in Clients, Commit(c)
  PROVE  StoreDated' /\ clock <= clock'
<1>1. TypeOK /\ StampsPast /\ clock \in Nat
  BY DEF DatesInv, TypeOK
<1>2. CASE CommitCreate(c)
  <2>1. PICK T, n : Creates(c, T, n)
    BY <1>1, <1>2, CreateStep
  <2>2. T[n].completed < clock
    BY <1>1, <1>2, <2>1 DEF CommitCreate, At, Busy, StampsPast, Creates
  <2> QED
    BY <2>1, <2>2, WriteDates DEF Creates
<1>3. CASE CommitUpdate(c)
  BY <1>1, <1>3, UpdateStep, WriteDates DEF Updates
<1>4. CASE KeepsDates
  BY <1>1, <1>4, KeptDates DEF KeepsDates
<1>5. CASE CommitMove(c)
  BY <1>1, <1>4, <1>5, MoveStep, WriteDates DEF Moves
<1>6. CASE CommitArchive(c) \/ CommitTrash(c) \/ CommitRestore(c) \/ CommitDelete(c)
  BY <1>1, <1>4, <1>6, RowStep
<1> QED
  BY <1>2, <1>3, <1>5, <1>6 DEF Commit

(* A step of handler c whose new stamp lies in the past.                   *)
LEMMA StampsStayPast ==
  ASSUME TypeOK, StampsPast, NEW c \in Clients, NEW h,
         handler' = [handler EXCEPT ![c] = h], clock' \in Nat, clock <= clock',
         h.phase # "idle" => h.stamp < clock'
  PROVE  StampsPast'
<1> SUFFICES ASSUME NEW b \in Clients, Busy(b)' PROVE handler'[b].stamp < clock'
  BY DEF StampsPast
<1>1. DOMAIN handler = Clients /\ clock \in Nat
  BY DEF TypeOK
<1>2. CASE b = c
  BY <1>1, <1>2 DEF Busy
<1>3. CASE b # c
  <2>1. handler'[b] = handler[b] /\ Busy(b)
    BY <1>1, <1>3 DEF Busy
  <2>2. handler[b].stamp \in Nat /\ handler[b].stamp < clock
    BY <2>1, HandlingFields DEF StampsPast
  <2> QED
    BY <1>1, <2>1, <2>2
<1> QED
  BY <1>2, <1>3

LEMMA PreparingStamps ==
  ASSUME TypeOK, StampsPast, NEW c \in Clients,
         \/ Receive(c) \/ CheckParent(c) \/ CheckDependencies(c)
         \/ LoadPrevious(c) \/ LoadOriginal(c) \/ Fail(c)
  PROVE  StampsPast'
<1>1. clock \in Nat \ {0}
  BY DEF TypeOK
<1>2. CASE Receive(c)
  <2>1. PICK q : /\ handler' = [handler EXCEPT ![c] =
                      [phase |-> "received", request |-> q, stamp |-> 0]]
                 /\ clock' = clock
    BY <1>2 DEF Receive
  <2> DEFINE h == [phase |-> "received", request |-> q, stamp |-> 0]
  <2>2. handler' = [handler EXCEPT ![c] = h] /\ h.stamp < clock'
    BY <1>1, <2>1
  <2> HIDE DEF h
  <2>3. clock' \in Nat /\ clock <= clock'
    BY <1>1, <2>1
  <2> QED
    BY <2>2, <2>3, StampsStayPast
<1>3. CASE CheckDependencies(c)
  <2> DEFINE q == handler[c].request
             stamp == IF q.kind = "create"
                      THEN CompletionTimestamp(q.ticket.column, 0, clock) ELSE 0
             next == IF q.kind = "create" THEN "ready" ELSE "checked"
             h == [handler[c] EXCEPT !.phase = next, !.stamp = stamp]
  <2>1. handler[c] \in Handling
    BY <1>3, HandlingFields DEF CheckDependencies, Busy
  <2>2. /\ handler' = [handler EXCEPT ![c] = h]
        /\ clock' = IF stamp = clock THEN clock + 1 ELSE clock
    BY <1>3 DEF CheckDependencies, TypeOK
  <2>3. stamp \in {0, clock}
    BY DEF CompletionTimestamp
  <2> HIDE DEF stamp
  <2>4. h.stamp = stamp
    BY <2>1 DEF Handling
  <2> HIDE DEF h
  <2>5. clock' \in Nat /\ clock <= clock' /\ stamp < clock'
    BY <1>1, <2>2, <2>3
  <2> QED
    BY <2>2, <2>4, <2>5, StampsStayPast
<1>4. CASE CheckParent(c) \/ LoadPrevious(c) \/ LoadOriginal(c)
  <2>1. /\ handler[c] \in Handling /\ handler[c].stamp \in Nat
        /\ handler[c].stamp < clock
    BY <1>4, HandlingFields DEF CheckParent, LoadPrevious, LoadOriginal, At, Busy, StampsPast
  <2>2. clock' = clock
    BY <1>4 DEF CheckParent, LoadPrevious, LoadOriginal
  <2>3. \E h : handler' = [handler EXCEPT ![c] = h] /\ h.stamp = handler[c].stamp
    <3>1. CASE CheckParent(c)
      <4> DEFINE h == [handler[c] EXCEPT !.phase = "parentChecked"]
      <4>1. h.stamp = handler[c].stamp
        BY <2>1 DEF Handling
      <4>2. handler' = [handler EXCEPT ![c] = h]
        BY <3>1 DEF CheckParent, Advance
      <4> QED
        BY <4>1, <4>2
    <3>2. CASE LoadPrevious(c)
      <4>1. PICK extras :
              handler' = [handler EXCEPT ![c].phase = "ready",
                                         ![c].request.ticket.repeat = extras]
        BY <3>2 DEF LoadPrevious
      <4> DEFINE h == [handler[c] EXCEPT !.phase = "ready",
                         !.request.ticket.repeat = extras]
      <4>2. h.stamp = handler[c].stamp
        BY <2>1 DEF Handling
      <4>3. handler' = [handler EXCEPT ![c] = h]
        BY <4>1 DEF TypeOK
      <4> QED
        BY <4>2, <4>3
    <3>3. CASE LoadOriginal(c)
      <4>1. PICK q : handler' = [handler EXCEPT ![c].request = q]
        BY <3>3 DEF LoadOriginal
      <4> DEFINE h == [handler[c] EXCEPT !.request = q]
      <4>2. h.stamp = handler[c].stamp
        BY <2>1 DEF Handling
      <4>3. handler' = [handler EXCEPT ![c] = h]
        BY <4>1
      <4> QED
        BY <4>2, <4>3
    <3> QED
      BY <1>4, <3>1, <3>2, <3>3
  <2>4. PICK h : handler' = [handler EXCEPT ![c] = h] /\ h.stamp = handler[c].stamp
    BY <2>3
  <2>5. clock' \in Nat /\ clock <= clock' /\ h.stamp < clock'
    BY <1>1, <2>1, <2>2, <2>4
  <2> QED
    BY <2>4, <2>5, StampsStayPast
<1>5. CASE Fail(c)
  <2>1. handler' = [handler EXCEPT ![c] = Idle] /\ Idle.phase = "idle" /\ clock' = clock
    BY <1>5 DEF Fail, Reply, Idle
  <2>2. clock' \in Nat /\ clock <= clock'
    BY <1>1, <2>1
  <2> QED
    BY <2>1, <2>2, StampsStayPast
<1> QED
  BY <1>2, <1>3, <1>4, <1>5

LEMMA NextDates == DatesInv /\ [Next]_vars => DatesInv'
<1> SUFFICES ASSUME DatesInv, [Next]_vars PROVE DatesInv'
  OBVIOUS
<1>1. TypeOK /\ StampsPast /\ StoreDated /\ TypeOK' /\ clock \in Nat /\ clock' \in Nat
  BY NextType DEF DatesInv, TypeOK
<1>2. CASE Startup
  <2>1. StampsPast'
    BY <1>1, <1>2 DEF Startup, StampsPast, Busy
  <2> QED
    BY <1>1, <1>2, <2>1, StartDates DEF DatesInv
<1>3. ASSUME UNCHANGED store, clock <= clock' PROVE StoreDated'
  <2>1. /\ tickets' = tickets /\ history' = history /\ repetitions' = repetitions
    BY <1>3 DEF store
  <2>2. \A n \in Nat : n < clock => n < clock'
    BY <1>1, <1>3
  <2>3. StorePast'
    <3>1. /\ \A i \in DOMAIN tickets : tickets[i].completed \in Nat
          /\ \A h \in history : h.completed \in Nat
          /\ \A r \in repetitions : r.completed \in Nat
      BY <1>1, TypedRow DEF TypeOK, Ticket, Episodes, Repetitions
    <3>2. StorePast
      BY <1>1 DEF StoreDated
    <3> QED
      BY <2>1, <2>2, <3>1, <3>2 DEF StorePast
  <2> QED
    BY <1>1, <2>1, <2>3 DEF StoreDated
<1>4. CASE Crash
  <2>1. StampsPast'
    BY <1>4 DEF Crash, StampsPast, Busy, Idle
  <2>2. UNCHANGED store /\ clock <= clock'
    BY <1>1, <1>4 DEF Crash
  <2> QED
    BY <1>1, <1>3, <2>1, <2>2 DEF DatesInv
<1>5. ASSUME NEW c \in Clients, Handle(c) PROVE DatesInv'
  <2>1. CASE Commit(c)
    <3>1. StoreDated' /\ clock <= clock'
      BY <2>1, CommitDates
    <3>2. handler' = [handler EXCEPT ![c] = Idle] /\ Idle.phase = "idle"
      BY <2>1 DEF Commit, CommitCreate, CommitUpdate, CommitMove, CommitArchive,
         CommitTrash, CommitRestore, CommitDelete, Reply, Idle
    <3>3. StampsPast'
      BY <1>1, <3>1, <3>2, StampsStayPast
    <3> QED
      BY <1>1, <3>1, <3>3 DEF DatesInv
  <2>2. CASE ~Commit(c)
    <3>1. StampsPast'
      BY <1>1, <1>5, <2>2, PreparingStamps DEF Handle
    <3>2. UNCHANGED store
      BY <1>5, <2>2 DEF Handle, Receive, CheckParent, CheckDependencies, LoadPrevious,
         LoadOriginal, Fail
    <3>3. clock <= clock'
      <4>1. clock' = clock \/ clock' = clock + 1
        BY <1>5, <2>2 DEF Handle, Receive, CheckParent, CheckDependencies, LoadPrevious,
           LoadOriginal, Fail
      <4> QED
        BY <1>1, <4>1
    <3> QED
      BY <1>1, <1>3, <3>1, <3>2, <3>3 DEF DatesInv
  <2> QED
    BY <2>1, <2>2
<1>6. CASE UNCHANGED vars
  BY <1>1, <1>6 DEF vars, DatesInv, StampsPast, StoreDated, StorePast, Busy
<1> QED
  BY <1>2, <1>4, <1>5, <1>6 DEF Next

LEMMA InitDates == Init => DatesInv
<1> SUFFICES ASSUME Init PROVE DatesInv
  OBVIOUS
<1>1. PICK s \in InitialStores : tickets = s.tickets /\ clock = s.clock
  BY DEF Init
<1>2. WellFormed(s)
  BY StoresAssumption
<1>3. StorePast
  BY <1>1, <1>2 DEF Init, StorePast, WellFormed
<1>4. StoreDated
  BY <1>3 DEF Init, StoreDated, Ordered, Dated
<1>5. StampsPast
  BY DEF Init, StampsPast, Busy, Idle
<1> QED
  BY <1>4, <1>5, InitType DEF DatesInv

(* However handlers interleave, with crashes, deletions and reused ids:    *)
(* an episode starts after the ticket's earlier ones were completed, and   *)
(* never after its own completion.  A row that is completed late, with the *)
(* time its create took before other transactions, has no episodes yet.    *)
THEOREM EpisodesStayOrdered == Spec => []EpisodesOrdered
<1>1. DatesInv => EpisodesOrdered
  BY DEF DatesInv, StoreDated, Ordered, EpisodesOrdered
<1> QED
  BY <1>1, InitDates, NextDates, PTL DEF Spec

-----------------------------------------------------------------------------
(* Next occurrences *)

(* One request at a time.                                                  *)
OneAtATime == \A c, d \in Clients : c = d

(* No row is deleted for good while another request works on it.           *)
RowsStay == NoDeletes \/ OneAtATime

(* The row a handler works on is among ids; an update that is ready to be  *)
(* written has its extras, from the form or from the stored ticket.        *)
Finds(h, ids) ==
  /\ h.request.kind # "create" => h.request.id \in ids
  /\ NoDeletes => h.request.kind # "delete"
  /\ h.phase = "ready" /\ h.request.kind = "update" => h.request.ticket.repeat # NoExtras

HandlersFind == \A c \in Clients : Busy(c) => Finds(handler[c], DOMAIN tickets)

LEMMA StepsFind ==
  ASSUME TypeOK, HandlersFind, NEW c \in Clients, NEW h,
         handler' = [handler EXCEPT ![c] = h],
         OneAtATime \/ DOMAIN tickets \subseteq DOMAIN tickets',
         h.phase # "idle" => Finds(h, DOMAIN tickets')
  PROVE  HandlersFind'
<1> SUFFICES ASSUME NEW b \in Clients, Busy(b)'
             PROVE  Finds(handler'[b], DOMAIN tickets')
  BY DEF HandlersFind
<1>1. DOMAIN handler = Clients
  BY DEF TypeOK
<1>2. CASE b = c
  BY <1>1, <1>2 DEF Busy
<1>3. CASE b # c
  <2>1. handler'[b] = handler[b] /\ Busy(b)
    BY <1>1, <1>3 DEF Busy
  <2>2. DOMAIN tickets \subseteq DOMAIN tickets'
    BY <1>3 DEF OneAtATime
  <2>3. Finds(handler[b], DOMAIN tickets)
    BY <2>1 DEF HandlersFind
  <2> QED
    BY <2>1, <2>2, <2>3 DEF Finds
<1> QED
  BY <1>2, <1>3

LEMMA PreparingFinds ==
  ASSUME TypeOK, HandlersFind, NEW c \in Clients,
         \/ Receive(c) \/ CheckParent(c) \/ CheckDependencies(c)
         \/ LoadPrevious(c) \/ LoadOriginal(c) \/ Fail(c)
  PROVE  HandlersFind'
<1>1. tickets' = tickets
  BY DEF Receive, CheckParent, CheckDependencies, LoadPrevious, LoadOriginal, Fail, store
<1>2. CASE Receive(c)
  <2>1. PICK q \in Requests :
          /\ q.kind # "create" => q.id \in DOMAIN tickets
          /\ q.kind = "update" => q.ticket.column # 0
          /\ handler' = [handler EXCEPT ![c] =
               [phase |-> "received", request |-> Normalized(q), stamp |-> 0]]
    BY <1>2 DEF Receive
  <2>2. q \in Request({0} \union Columns)
    BY RequestsAssumption
  <2>3. Normalized(q).kind = q.kind /\ (q.kind # "create" => Normalized(q).id = q.id)
    BY <2>2 DEF Normalized, Request
  <2> DEFINE h == [phase |-> "received", request |-> Normalized(q), stamp |-> 0]
  <2>4. /\ handler' = [handler EXCEPT ![c] = h] /\ h.phase = "received"
        /\ h.request.kind = q.kind /\ (q.kind # "create" => h.request.id = q.id)
    BY <2>1, <2>3
  <2> HIDE DEF h
  <2>5. Finds(h, DOMAIN tickets')
    BY <1>1, <2>1, <2>4 DEF Finds, NoDeletes
  <2> QED
    BY <1>1, <2>4, <2>5, StepsFind
<1>3. CASE CheckParent(c)
  <2> DEFINE h == [handler[c] EXCEPT !.phase = "parentChecked"]
  <2>1. handler[c] \in Handling /\ Finds(handler[c], DOMAIN tickets)
    BY <1>3, HandlingFields DEF CheckParent, Busy, HandlersFind
  <2>2. handler' = [handler EXCEPT ![c] = h]
    BY <1>3 DEF CheckParent, Advance
  <2>3. h.phase = "parentChecked" /\ h.request = handler[c].request
    BY <2>1 DEF Handling
  <2> HIDE DEF h
  <2>4. Finds(h, DOMAIN tickets')
    BY <1>1, <2>1, <2>3 DEF Finds
  <2> QED
    BY <1>1, <2>2, <2>4, StepsFind
<1>4. CASE CheckDependencies(c)
  <2> DEFINE q == handler[c].request
             stamp == IF q.kind = "create"
                      THEN CompletionTimestamp(q.ticket.column, 0, clock) ELSE 0
             next == IF q.kind = "create" THEN "ready" ELSE "checked"
             h == [handler[c] EXCEPT !.phase = next, !.stamp = stamp]
  <2>1. handler[c] \in Handling /\ Finds(handler[c], DOMAIN tickets)
    BY <1>4, HandlingFields DEF CheckDependencies, Busy, HandlersFind
  <2>2. handler' = [handler EXCEPT ![c] = h]
    BY <1>4 DEF CheckDependencies, TypeOK
  <2> HIDE DEF stamp
  <2>3. h.phase = next /\ h.request = q
    BY <2>1 DEF Handling
  <2> HIDE DEF h
  <2>4. Finds(h, DOMAIN tickets')
    BY <1>1, <2>1, <2>3 DEF Finds
  <2> QED
    BY <1>1, <2>2, <2>4, StepsFind
<1>5. CASE LoadPrevious(c)
  <2> DEFINE q == handler[c].request
             extras == FilledIn(q.ticket.repeat, tickets, q.id)
             form == [q.ticket EXCEPT !.repeat = extras]
             h == [handler[c] EXCEPT !.phase = "ready", !.request = [q EXCEPT !.ticket = form]]
  <2>1. /\ handler[c] \in Handling /\ Finds(handler[c], DOMAIN tickets)
        /\ q \in Request(Columns) /\ q.kind = "update" /\ q.ticket \in Draft(Columns)
    BY <1>5, HandlingFields, DraftFields DEF LoadPrevious, At, Busy, HandlersFind
  <2>2. extras # NoExtras
    <3>1. q.id \in DOMAIN tickets
      BY <2>1 DEF Finds
    <3>2. tickets[q.id].repeat # NoExtras
      BY <3>1, TypedRow, RulesAssumption DEF Ticket, NoExtras
    <3> QED
      BY <3>1, <3>2 DEF FilledIn
  <2>3. handler' = [handler EXCEPT ![c] = h]
    BY <1>5 DEF LoadPrevious, TypeOK
  <2> HIDE DEF extras
  <2>4. form.repeat = extras
    BY <2>1 DEF Draft
  <2> HIDE DEF form
  <2>5. /\ h.request.kind = "update" /\ h.request.id = q.id
        /\ h.request.ticket = form
    BY <2>1 DEF Handling, Request
  <2> HIDE DEF h
  <2>6. Finds(h, DOMAIN tickets')
    BY <1>1, <2>1, <2>2, <2>4, <2>5 DEF Finds
  <2> QED
    BY <1>1, <2>3, <2>6, StepsFind
<1>6. CASE LoadOriginal(c)
  <2>1. PICK copy :
          handler' = [handler EXCEPT ![c].request =
                        Normalized([kind |-> "create", ticket |-> copy])]
    BY <1>6 DEF LoadOriginal
  <2> DEFINE q == Normalized([kind |-> "create", ticket |-> copy])
             h == [handler[c] EXCEPT !.request = q]
  <2>2. q.kind = "create"
    BY DEF Normalized
  <2>3. handler[c] \in Handling
    BY <1>6, HandlingFields DEF LoadOriginal, At, Busy
  <2>4. handler' = [handler EXCEPT ![c] = h]
    BY <2>1
  <2> HIDE DEF q
  <2>5. h.request = q
    BY <2>3 DEF Handling
  <2> HIDE DEF h
  <2>6. Finds(h, DOMAIN tickets')
    BY <2>2, <2>5 DEF Finds
  <2> QED
    BY <1>1, <2>4, <2>6, StepsFind
<1>7. CASE Fail(c)
  <2>1. handler' = [handler EXCEPT ![c] = Idle] /\ Idle.phase = "idle"
    BY <1>7 DEF Fail, Reply, Idle
  <2> QED
    BY <1>1, <2>1, StepsFind
<1> QED
  BY <1>2, <1>3, <1>4, <1>5, <1>6, <1>7

(* No transaction but a deletion removes a row.                            *)
LEMMA CommitKeepsRows ==
  ASSUME TypeOK, NEW c \in Clients, Commit(c), ~CommitDelete(c)
  PROVE  DOMAIN tickets \subseteq DOMAIN tickets'
<1>1. ASSUME NEW T, NEW i, NEW before, NEW days, WritesRow(T, i, before, days)
      PROVE  DOMAIN tickets \subseteq DOMAIN tickets'
  <2>1. PICK saved : Finishes(T, i, before, days, saved)
    BY <1>1, FinishStep
  <2> QED
    BY <2>1 DEF Finishes, AddsNext, Put
<1>2. CASE CommitCreate(c)
  BY <1>1, <1>2, CreateStep DEF Creates
<1>3. CASE CommitUpdate(c)
  BY <1>1, <1>3, UpdateStep DEF Updates
<1>4. CASE CommitMove(c)
  BY <1>1, <1>4, MoveStep DEF Moves, KeepsWork
<1>5. CASE CommitArchive(c) \/ CommitTrash(c) \/ CommitRestore(c)
  BY <1>5 DEF CommitArchive, CommitTrash, CommitRestore, SetRow
<1> QED
  BY <1>2, <1>3, <1>4, <1>5 DEF Commit

LEMMA NextFinds == RowsStay /\ TypeOK /\ HandlersFind /\ [Next]_vars => HandlersFind'
<1> SUFFICES ASSUME RowsStay, TypeOK, HandlersFind, [Next]_vars PROVE HandlersFind'
  OBVIOUS
<1>1. CASE Startup
  BY <1>1 DEF Startup, HandlersFind, Finds, Busy
<1>2. CASE Crash
  BY <1>2 DEF Crash, HandlersFind, Busy, Idle
<1>3. ASSUME NEW c \in Clients, Handle(c) PROVE HandlersFind'
  <2>1. CASE Commit(c)
    <3>1. handler' = [handler EXCEPT ![c] = Idle] /\ Idle.phase = "idle"
      BY <2>1 DEF Commit, CommitCreate, CommitUpdate, CommitMove, CommitArchive,
         CommitTrash, CommitRestore, CommitDelete, Reply, Idle
    <3>2. OneAtATime \/ DOMAIN tickets \subseteq DOMAIN tickets'
      <4>1. CASE NoDeletes
        <5>1. ~CommitDelete(c)
          BY <4>1 DEF CommitDelete, At, Busy, HandlersFind, Finds
        <5> QED
          BY <2>1, <5>1, CommitKeepsRows
      <4> QED
        BY <4>1 DEF RowsStay
    <3> QED
      BY <3>1, <3>2, StepsFind
  <2>2. CASE ~Commit(c)
    BY <1>3, <2>2, PreparingFinds DEF Handle
  <2> QED
    BY <2>1, <2>2
<1>4. CASE UNCHANGED vars
  BY <1>4 DEF vars, HandlersFind, Busy
<1> QED
  BY <1>1, <1>2, <1>3, <1>4 DEF Next

(* What RepeatsExactlyOnce says of a step.                                 *)
CompletesRepeating(i) ==
  /\ i \in DOMAIN tickets /\ i \in DOMAIN tickets'
  /\ tickets[i].completed = 0 /\ tickets'[i].completed # 0 /\ tickets'[i].repeat # 0

RepeatsOnce ==
  LET added == repetitions' \ repetitions
  IN /\ \A r \in added : /\ CompletesRepeating(r.ticket)
                         /\ r.completed = tickets'[r.ticket].completed
                         /\ r.next \in DOMAIN tickets' \ DOMAIN tickets
                         /\ tickets'[r.next].completed = 0
     /\ \A i \in DOMAIN tickets : CompletesRepeating(i) =>
          Cardinality({r \in added : r.ticket = i}) = 1

LEMMA QuietRepeats == KeepsDates \/ UNCHANGED store => RepeatsOnce
BY DEF KeepsDates, store, RepeatsOnce, CompletesRepeating

(* A write that completes row i, whose interval is the one that the next   *)
(* occurrence gets.  The completion is new, so no repetition names it yet. *)
LEMMA WriteRepeats ==
  ASSUME DatesInv, NEW T, NEW i, NEW before, NEW days, WritesRow(T, i, before, days),
         i \in DOMAIN tickets => (T[i].repeat # 0 <=> days > 0)
  PROVE  RepeatsOnce
<1>1. TypeOK /\ StorePast
  BY DEF DatesInv, StoreDated
<1> PICK saved : Finishes(T, i, before, days, saved)
  BY <1>1, FinishStep
<1>2. /\ DOMAIN saved = DOMAIN tickets \union {i}
      /\ saved[i].completed = T[i].completed /\ saved[i].repeat = T[i].repeat
      /\ \A j \in DOMAIN saved \ {i} :
           j \in DOMAIN tickets /\ saved[j].completed = tickets[j].completed
  BY DEF Finishes, SameWork, SameRow
<1>3. /\ i \in DOMAIN tickets => before = tickets[i]
      /\ i \in DOMAIN tickets =>
           T[i].completed = CompletionTimestamp(T[i].column, tickets[i].completed, clock)
      /\ i \notin DOMAIN tickets => days = 0
  BY DEF WritesRow
<1>4. CASE Repeats(repetitions, i, before, saved[i], days) /\ AddsNext(i, saved, days)
  <2>1. PICK n \in Ids \ DOMAIN saved, next \in Ticket :
          /\ next.completed = 0
          /\ tickets' = Put(saved, n, next)
          /\ repetitions' = repetitions \union
               {[ticket |-> i, completed |-> saved[i].completed, next |-> n]}
    BY <1>4 DEF AddsNext
  <2> DEFINE r == [ticket |-> i, completed |-> saved[i].completed, next |-> n]
  <2>2. /\ DOMAIN tickets' = DOMAIN saved \union {n} /\ tickets'[n] = next
        /\ \A j \in DOMAIN saved : tickets'[j] = saved[j]
    BY <2>1 DEF Put
  <2>3. /\ days > 0 /\ before.completed = 0 /\ saved[i].completed # 0
        /\ ~\E old \in repetitions : old.ticket = i /\ old.completed = saved[i].completed
    BY <1>4 DEF Repeats
  <2>4. i \in DOMAIN tickets
    BY <1>3, <2>3
  <2>5. repetitions' \ repetitions = {r}
    BY <2>1, <2>3
  <2>6. CompletesRepeating(i) /\ tickets'[i].completed = saved[i].completed
    BY <1>2, <1>3, <2>2, <2>3, <2>4 DEF CompletesRepeating
  <2>7. \A j \in DOMAIN tickets : CompletesRepeating(j) => j = i
    BY <1>2, <2>2 DEF CompletesRepeating
  <2>8. /\ r.ticket = i /\ r.completed = saved[i].completed /\ r.next = n
        /\ n \in DOMAIN tickets' \ DOMAIN tickets
    BY <1>2, <2>1, <2>2
  <2> HIDE DEF r
  <2>9. \A j \in DOMAIN tickets : CompletesRepeating(j) =>
          Cardinality({a \in repetitions' \ repetitions : a.ticket = j}) = 1
    <3>1. \A j \in DOMAIN tickets : CompletesRepeating(j) =>
            {a \in repetitions' \ repetitions : a.ticket = j} = {r}
      BY <2>5, <2>7, <2>8
    <3>2. Cardinality({r}) = 1
      BY FS_Singleton
    <3> QED
      BY <3>1, <3>2
  <2> QED
    BY <2>1, <2>2, <2>5, <2>6, <2>8, <2>9 DEF RepeatsOnce
<1>5. CASE /\ ~Repeats(repetitions, i, before, saved[i], days)
           /\ tickets' = saved /\ repetitions' = repetitions
  <2>1. ASSUME NEW j \in DOMAIN tickets, CompletesRepeating(j) PROVE FALSE
    <3>1. j = i /\ i \in DOMAIN tickets
      BY <1>2, <1>5, <2>1 DEF CompletesRepeating
    <3>2. /\ tickets[i].completed = 0 /\ saved[i].completed # 0 /\ saved[i].repeat # 0
      BY <1>5, <2>1, <3>1 DEF CompletesRepeating
    <3>3. days > 0 /\ saved[i].completed = clock
      BY <1>2, <1>3, <3>1, <3>2 DEF CompletionTimestamp
    <3>4. PICK r \in repetitions : r.completed = clock
      BY <1>3, <1>5, <3>1, <3>2, <3>3 DEF Repeats
    <3>5. r.completed < clock /\ clock \in Nat
      BY <1>1, <3>4 DEF StorePast, TypeOK
    <3> QED
      BY <3>4, <3>5
  <2> QED
    BY <1>5, <2>1 DEF RepeatsOnce, CompletesRepeating
<1> QED
  BY <1>4, <1>5 DEF Finishes

LEMMA DaysAreNumbers == \A days \in RepeatDays : days \in Nat
BY RulesAssumption

LEMMA CommitRepeats ==
  ASSUME DatesInv, HandlersFind, NEW c \in Clients, Commit(c)
  PROVE  RepeatsOnce
<1>1. TypeOK
  BY DEF DatesInv
<1>2. CASE CommitCreate(c)
  BY <1>1, <1>2, CreateStep, WriteRepeats DEF Creates
<1>3. CASE CommitUpdate(c)
  <2>1. PICK T : Updates(c, T)
    BY <1>1, <1>3, UpdateStep
  <2> DEFINE i == handler[c].request.id
             days == handler[c].request.ticket.repeat
  <2>2. days # NoExtras
    BY <1>3 DEF CommitUpdate, At, Busy, HandlersFind, Finds
  <2>3. days \in Days
    BY <2>1 DEF Updates, WritesRow
  <2>4. days \in Nat
    BY <2>2, <2>3, DaysAreNumbers DEF Days
  <2>5. T[i].repeat = days
    BY <2>1, <2>2 DEF Updates, SavedExtras
  <2> QED
    BY <2>1, <2>4, <2>5, WriteRepeats DEF Updates
<1>4. CASE CommitMove(c)
  <2>1. CASE KeepsDates
    BY <2>1, QuietRepeats
  <2>2. ASSUME NEW T, Moves(c, T) PROVE RepeatsOnce
    <3> DEFINE i == handler[c].request.id
    <3>1. tickets[i].repeat \in Nat
      BY <1>1, <2>2, TypedRow, DaysAreNumbers DEF Moves, Ticket
    <3> QED
      BY <2>2, <3>1, WriteRepeats DEF Moves
  <2> QED
    BY <1>1, <1>4, <2>1, <2>2, MoveStep
<1>5. CASE CommitArchive(c) \/ CommitTrash(c) \/ CommitRestore(c) \/ CommitDelete(c)
  BY <1>1, <1>5, RowStep, QuietRepeats
<1> QED
  BY <1>2, <1>3, <1>4, <1>5 DEF Commit

(* Whatever the interleaving: a step completes a stored repeating task if  *)
(* and only if it adds its one next occurrence, open and under an id of    *)
(* its own.  Needed is that no row is deleted for good while another       *)
(* request works on it: an older client's update that loads its extras     *)
(* after the deletion, and is written after the id was given out again,    *)
(* completes the new row without repeating it.                             *)
THEOREM RepeatingTasksRepeat ==
  ASSUME RowsStay
  PROVE  Spec => RepeatsExactlyOnce
<1>1. ASSUME DatesInv, HandlersFind, [Next]_vars PROVE [RepeatsOnce]_vars
  <2>1. ASSUME NEW c \in Clients, Handle(c) PROVE RepeatsOnce
    <3>1. CASE Commit(c)
      BY <1>1, <3>1, CommitRepeats
    <3>2. CASE ~Commit(c)
      BY <2>1, <3>2, QuietRepeats DEF Handle, Receive, CheckParent, CheckDependencies,
         LoadPrevious, LoadOriginal, Fail
    <3> QED
      BY <3>1, <3>2
  <2>2. CASE Startup
    <3>1. \A j \in DOMAIN tickets : tickets'[j].completed = tickets[j].completed
      BY <1>1, <2>2, TypedRow DEF Startup, DatesInv, Ticket
    <3> QED
      BY <2>2, <3>1 DEF Startup, RepeatsOnce, CompletesRepeating
  <2>3. CASE Crash
    BY <2>3, QuietRepeats DEF Crash
  <2> QED
    BY <1>1, <2>1, <2>2, <2>3 DEF Next
<1>2. [RepeatsOnce]_vars <=>
        [LET Completes(i) ==
               /\ i \in DOMAIN tickets /\ i \in DOMAIN tickets'
               /\ tickets[i].completed = 0 /\ tickets'[i].completed # 0
               /\ tickets'[i].repeat # 0
             added == repetitions' \ repetitions
         IN /\ \A r \in added : /\ Completes(r.ticket)
                                /\ r.completed = tickets'[r.ticket].completed
                                /\ r.next \in DOMAIN tickets' \ DOMAIN tickets
                                /\ tickets'[r.next].completed = 0
            /\ \A i \in DOMAIN tickets : Completes(i) =>
                 Cardinality({r \in added : r.ticket = i}) = 1]_vars
  BY DEF RepeatsOnce, CompletesRepeating
<1>3. Init => HandlersFind
  BY DEF Init, HandlersFind, Busy, Idle
<1>4. DatesInv /\ HandlersFind /\ [Next]_vars => HandlersFind'
  BY NextFinds DEF DatesInv
<1> QED
  BY <1>1, <1>2, <1>3, <1>4, InitDates, NextDates, PTL DEF Spec, RepeatsExactlyOnce

-----------------------------------------------------------------------------
(* The manual order of a lane *)

(* Equal positions are ordered by number: Before is a strict total order.  *)
LEMMA BeforeOrder ==
  ASSUME NEW T, IsTable(T), NEW a \in DOMAIN T, NEW b \in DOMAIN T
  PROVE  /\ ~Before(T, a, a)
         /\ a = b \/ Before(T, a, b) \/ Before(T, b, a)
         /\ \A k \in DOMAIN T : Before(T, k, a) /\ Before(T, a, b) => Before(T, k, b)
<1>1. \A k \in DOMAIN T : k \in Nat /\ T[k].position \in Nat
  BY TableRow DEF Ids, Ticket
<1> QED
  BY <1>1 DEF Before

(* The rank of a member is its index from 0 in the order of the group.     *)
LEMMA RankOrder ==
  ASSUME NEW T, IsTable(T), NEW G \in SUBSET DOMAIN T
  PROVE  /\ Cardinality(G) \in Nat
         /\ \A a \in G : Rank(T, G, a) \in Nat /\ Rank(T, G, a) < Cardinality(G)
         /\ \A a, b \in G : Before(T, a, b) <=> Rank(T, G, a) < Rank(T, G, b)
         /\ \A a, b \in G : Rank(T, G, a) = Rank(T, G, b) => a = b
<1> DEFINE Lower(a) == {k \in G : Before(T, k, a)}
<1>1. IsFiniteSet(G) /\ Cardinality(G) \in Nat
  BY TableFinite, FS_Subset, FS_CardinalityType
<1>2. \A a \in G : /\ IsFiniteSet(Lower(a)) /\ Rank(T, G, a) = Cardinality(Lower(a))
                   /\ Cardinality(Lower(a)) \in Nat
  BY <1>1, FS_Subset, FS_CardinalityType DEF Rank
<1>3. \A a \in G : Rank(T, G, a) < Cardinality(G)
  <2> SUFFICES ASSUME NEW a \in G PROVE Rank(T, G, a) < Cardinality(G)
    OBVIOUS
  <2>1. Lower(a) \in SUBSET G /\ a \notin Lower(a)
    BY BeforeOrder
  <2>2. /\ Cardinality(Lower(a)) <= Cardinality(G)
        /\ Cardinality(G) = Cardinality(Lower(a)) => G = Lower(a)
    BY <1>1, <2>1, FS_Subset
  <2> HIDE DEF Lower
  <2> QED
    BY <1>1, <1>2, <2>1, <2>2
<1>4. ASSUME NEW a \in G, NEW b \in G, Before(T, a, b)
      PROVE  Rank(T, G, a) < Rank(T, G, b)
  <2>1. Lower(a) \in SUBSET Lower(b)
    BY <1>4, BeforeOrder
  <2>2. a \in Lower(b) /\ a \notin Lower(a)
    BY <1>4, BeforeOrder
  <2>3. IsFiniteSet(Lower(b))
    BY <1>2
  <2> HIDE DEF Lower
  <2>4. /\ Cardinality(Lower(a)) <= Cardinality(Lower(b))
        /\ Cardinality(Lower(b)) = Cardinality(Lower(a)) => Lower(b) = Lower(a)
    BY <2>1, <2>3, FS_Subset
  <2> QED
    BY <1>2, <2>2, <2>4
<1>5. \A a \in G : Rank(T, G, a) \in Nat
  BY <1>2
<1>6. \A a, b \in G : Before(T, a, b) <=> Rank(T, G, a) < Rank(T, G, b)
  <2> SUFFICES ASSUME NEW a \in G, NEW b \in G, Rank(T, G, a) < Rank(T, G, b)
               PROVE  Before(T, a, b)
    BY <1>4
  <2>1. a = b \/ Before(T, a, b) \/ Before(T, b, a)
    BY BeforeOrder
  <2>2. CASE Before(T, b, a)
    <3>1. Rank(T, G, b) < Rank(T, G, a)
      BY <1>4, <2>2
    <3> QED
      BY <1>5, <3>1
  <2>3. CASE a = b
    BY <1>5, <2>3
  <2> QED
    BY <2>1, <2>2, <2>3
<1>7. \A a, b \in G : Rank(T, G, a) = Rank(T, G, b) => a = b
  <2> SUFFICES ASSUME NEW a \in G, NEW b \in G, Rank(T, G, a) = Rank(T, G, b), a # b
               PROVE  FALSE
    OBVIOUS
  <2>1. Before(T, a, b) \/ Before(T, b, a)
    BY BeforeOrder
  <2> QED
    BY <1>4, <1>5, <2>1
<1> QED
  BY <1>1, <1>3, <1>5, <1>6, <1>7

(* Table U has the rows of T where Reordered puts them.                    *)
Placed(U, T, i, column, anchor, place) ==
  LET others == Group(T, i, column)
      left   == Group(T, i, T[i].column)
      slot   == Slot(T, others, anchor, place)
  IN /\ U[i].position = slot + 1
     /\ \A j \in others : U[j].position =
          Rank(T, others, j) + (IF Rank(T, others, j) >= slot THEN 2 ELSE 1)
     /\ T[i].column # column => \A j \in left : U[j].position = Rank(T, left, j) + 1

(* What MoveKeepsOrder says of the tables before and after a move.         *)
Arranged(U, T, i, column, anchor, place) ==
  LET others == Group(T, i, column)
      left   == Group(T, i, T[i].column)
      Between(a, b) == {j \in others : Before(U, a, j) /\ Before(U, j, b)}
  IN /\ \A G \in {others, left} : \A a, b \in G : Before(T, a, b) => Before(U, a, b)
     /\ place = "before" => Before(U, i, anchor) /\ Between(i, anchor) = {}
     /\ place = "after"  => Before(U, anchor, i) /\ Between(anchor, i) = {}
     /\ place = "end"    => \A j \in others : Before(U, j, i)

LEMMA ReorderedPlaces ==
  ASSUME NEW T, IsTable(T), NEW i \in DOMAIN T, NEW column, NEW anchor, NEW place
  PROVE  Placed(Reordered(T, i, column, anchor, place), T, i, column, anchor, place)
<1> DEFINE others == Group(T, i, column)
           left   == Group(T, i, T[i].column)
           source == IF T[i].column = column THEN {} ELSE left
           slot   == Slot(T, others, anchor, place)
           PositionOf(j) ==
             IF j = i THEN slot + 1
             ELSE IF j \in others
             THEN Rank(T, others, j) + (IF Rank(T, others, j) >= slot THEN 2 ELSE 1)
             ELSE IF j \in source THEN Rank(T, source, j) + 1
             ELSE T[j].position
           R == [j \in DOMAIN T |-> [T[j] EXCEPT !.position = PositionOf(j),
                                      !.column = IF j = i THEN column ELSE @]]
<1>1. Reordered(T, i, column, anchor, place) = R
  BY DEF Reordered
<1>2. others \subseteq DOMAIN T \ {i} /\ left \subseteq DOMAIN T \ {i}
  BY DEF Group
<1>3. T[i].column # column => \A j \in left : j \notin others
  BY DEF Group
<1>4. \A j \in DOMAIN T : R[j].position = PositionOf(j)
  <2> HIDE DEF PositionOf
  <2> TAKE j \in DOMAIN T
  <2>1. "position" \in DOMAIN T[j]
    BY TableRow DEF Ticket
  <2> DEFINE placed == [T[j] EXCEPT !.position = PositionOf(j)]
  <2>2. placed.position = PositionOf(j) /\ DOMAIN placed = DOMAIN T[j]
    BY <2>1
  <2>3. R[j] = [placed EXCEPT !.column = IF j = i THEN column ELSE @]
    OBVIOUS
  <2> HIDE DEF placed, R
  <2> QED
    BY <2>1, <2>2, <2>3
<1> HIDE DEF R, others, left, slot
<1>5. R[i].position = slot + 1
  BY <1>4
<1>6. \A j \in others : R[j].position =
        Rank(T, others, j) + (IF Rank(T, others, j) >= slot THEN 2 ELSE 1)
  BY <1>2, <1>4
<1>7. T[i].column # column => \A j \in left : R[j].position = Rank(T, left, j) + 1
  BY <1>2, <1>3, <1>4
<1> QED
  BY <1>1, <1>5, <1>6, <1>7 DEF Placed, others, left, slot

(* The anchor is one of the other tickets unless the place is the end.     *)
LEMMA PlacedIsArranged ==
  ASSUME NEW T, IsTable(T), NEW i \in DOMAIN T, NEW column, NEW anchor,
         NEW place \in {"before", "after", "end"},
         place # "end" => anchor \in Group(T, i, column),
         NEW U, Placed(U, T, i, column, anchor, place)
  PROVE  Arranged(U, T, i, column, anchor, place)
<1> DEFINE others == Group(T, i, column)
           left   == Group(T, i, T[i].column)
           slot   == Slot(T, others, anchor, place)
           R(j)   == Rank(T, others, j)
<1>1. others \in SUBSET DOMAIN T /\ left \in SUBSET DOMAIN T /\ i \notin others
  BY DEF Group
<1>2. \A j \in DOMAIN T : j \in Nat
  BY TableRow DEF Ids
<1>3. /\ U[i].position = slot + 1
      /\ \A j \in others : U[j].position = R(j) + (IF R(j) >= slot THEN 2 ELSE 1)
      /\ T[i].column # column => \A j \in left : U[j].position = Rank(T, left, j) + 1
  BY DEF Placed
<1>4. /\ Cardinality(others) \in Nat
      /\ \A a \in others : R(a) \in Nat /\ R(a) < Cardinality(others)
      /\ \A a, b \in others : Before(T, a, b) <=> R(a) < R(b)
      /\ \A a, b \in others : R(a) = R(b) => a = b
  BY <1>1, RankOrder
<1>5. place # "end" => anchor \in others
  OBVIOUS
<1>6. /\ place = "before" => slot = R(anchor)
      /\ place = "after" => slot = R(anchor) + 1
      /\ place = "end" => slot = Cardinality(others)
  BY DEF Slot
<1>7. \A a, b \in left : Before(T, a, b) => Rank(T, left, a) < Rank(T, left, b)
  BY <1>1, RankOrder
<1>8. \A a \in left : Rank(T, left, a) \in Nat
  BY <1>1, RankOrder
<1>9. T[i].column = column => left = others
  OBVIOUS
<1> HIDE DEF others, left, slot, R
<1>10. slot \in Nat
  BY <1>4, <1>5, <1>6
<1>11. \A a, b \in others : Before(T, a, b) => Before(U, a, b)
  BY <1>3, <1>4, <1>10 DEF Before
<1>12. T[i].column # column => \A a, b \in left : Before(T, a, b) => Before(U, a, b)
  <2>1. SUFFICES ASSUME T[i].column # column, NEW a \in left, NEW b \in left, Before(T, a, b)
                 PROVE  Before(U, a, b)
    OBVIOUS
  <2>2. Rank(T, left, a) < Rank(T, left, b)
    BY <1>7, <2>1
  <2>3. /\ U[a].position = Rank(T, left, a) + 1 /\ U[b].position = Rank(T, left, b) + 1
        /\ Rank(T, left, a) \in Nat /\ Rank(T, left, b) \in Nat
    BY <1>3, <1>8, <2>1
  <2>4. U[a].position < U[b].position
    BY <2>2, <2>3
  <2> QED
    BY <2>4 DEF Before
<1>13. \A G \in {others, left} : \A a, b \in G : Before(T, a, b) => Before(U, a, b)
  BY <1>9, <1>11, <1>12
<1>14. ASSUME place = "before"
       PROVE  /\ Before(U, i, anchor)
              /\ \A j \in others : ~(Before(U, i, j) /\ Before(U, j, anchor))
  <2>1. anchor \in others /\ slot = R(anchor) /\ R(anchor) \in Nat
    BY <1>4, <1>5, <1>6, <1>14
  <2>2. U[i].position = slot + 1 /\ U[anchor].position = slot + 2
    BY <1>3, <2>1
  <2>3. Before(U, i, anchor)
    BY <2>1, <2>2 DEF Before
  <2>4. ASSUME NEW j \in others, Before(U, i, j), Before(U, j, anchor) PROVE FALSE
    <3>1. R(j) \in Nat /\ j \in Nat /\ anchor \in Nat
      BY <1>1, <1>2, <1>4, <2>1
    <3>2. U[j].position >= slot + 1 /\ U[j].position <= slot + 2
      BY <1>3, <2>1, <2>2, <2>4, <3>1 DEF Before
    <3>3. R(j) >= slot
      BY <1>3, <2>1, <3>1, <3>2
    <3>4. R(j) = slot
      BY <1>3, <2>1, <3>1, <3>2, <3>3
    <3>5. j = anchor
      BY <1>4, <2>1, <3>4
    <3> QED
      BY <2>2, <2>4, <3>1, <3>5, <2>1 DEF Before
  <2> QED
    BY <2>3, <2>4
<1>15. ASSUME place = "after"
       PROVE  /\ Before(U, anchor, i)
              /\ \A j \in others : ~(Before(U, anchor, j) /\ Before(U, j, i))
  <2>1. anchor \in others /\ slot = R(anchor) + 1 /\ R(anchor) \in Nat
    BY <1>4, <1>5, <1>6, <1>15
  <2>2. U[i].position = R(anchor) + 2 /\ U[anchor].position = R(anchor) + 1
    BY <1>3, <2>1
  <2>3. Before(U, anchor, i)
    BY <2>1, <2>2 DEF Before
  <2>4. ASSUME NEW j \in others, Before(U, anchor, j), Before(U, j, i) PROVE FALSE
    <3>1. R(j) \in Nat /\ j \in Nat /\ anchor \in Nat
      BY <1>1, <1>2, <1>4, <2>1
    <3>2. U[j].position >= R(anchor) + 1 /\ U[j].position <= R(anchor) + 2
      BY <1>3, <2>1, <2>2, <2>4, <3>1 DEF Before
    <3>3. R(j) < slot
      BY <1>3, <2>1, <3>1, <3>2
    <3>4. R(j) = R(anchor)
      BY <1>3, <2>1, <3>1, <3>2, <3>3
    <3>5. j = anchor
      BY <1>4, <2>1, <3>4
    <3> QED
      BY <2>2, <2>4, <3>1, <3>5, <2>1 DEF Before
  <2> QED
    BY <2>3, <2>4
<1>16. ASSUME place = "end" PROVE \A j \in others : Before(U, j, i)
  <2> SUFFICES ASSUME NEW j \in others PROVE U[j].position < U[i].position
    BY DEF Before
  <2>1. slot = Cardinality(others) /\ R(j) \in Nat /\ R(j) < slot
    BY <1>4, <1>6, <1>16
  <2> QED
    BY <1>3, <1>10, <2>1
<1>17. /\ place = "before" =>
            {j \in others : Before(U, i, j) /\ Before(U, j, anchor)} = {}
       /\ place = "after" =>
            {j \in others : Before(U, anchor, j) /\ Before(U, j, i)} = {}
  BY <1>14, <1>15
<1> QED
  BY <1>13, <1>14, <1>15, <1>16, <1>17 DEF Arranged, others, left

(* A received move names an anchor unless its place is the end.            *)
AnchorsGiven ==
  \A c \in Clients : At(c, "received", "move") =>
    (handler[c].request.anchor = 0 <=> handler[c].request.place = "end")

LEMMA AnchorsStay == TypeOK /\ AnchorsGiven /\ [Next]_vars => AnchorsGiven'
<1> SUFFICES ASSUME TypeOK, AnchorsGiven, [Next]_vars,
                    NEW b \in Clients, At(b, "received", "move")'
             PROVE  handler'[b].request.anchor = 0 <=> handler'[b].request.place = "end"
  BY DEF AnchorsGiven
<1>1. DOMAIN handler = Clients
  BY DEF TypeOK
<1>2. CASE handler'[b] = handler[b]
  BY <1>2 DEF AnchorsGiven, At
<1>3. ASSUME Receive(b) PROVE handler'[b].request.anchor = 0 <=> handler'[b].request.place = "end"
  <2>1. PICK q \in Requests : handler' = [handler EXCEPT ![b] =
                 [phase |-> "received", request |-> Normalized(q), stamp |-> 0]]
    BY <1>3 DEF Receive
  <2>2. q \in Request({0} \union Columns)
    BY RequestsAssumption
  <2>3. handler'[b].request = Normalized(q)
    BY <1>1, <2>1
  <2>4. Normalized(q).kind = q.kind
    BY <2>2 DEF Normalized, Request
  <2>5. q.kind = "move" /\ Normalized(q) = q
    BY <2>3, <2>4 DEF At, Normalized
  <2>6. q.anchor = 0 <=> q.place = "end"
    BY <2>5, RequestsAssumption
  <2> QED
    BY <2>3, <2>5, <2>6
<1>4. ASSUME CheckParent(b) \/ CheckDependencies(b) \/ LoadPrevious(b) PROVE FALSE
  <2>1. handler[b] \in Handling
    BY <1>4, HandlingFields DEF CheckParent, CheckDependencies, LoadPrevious, At, Busy
  <2>2. CASE CheckParent(b)
    BY <1>1, <2>1, <2>2 DEF CheckParent, Advance, At, Handling
  <2>3. CASE CheckDependencies(b)
    <3>1. PICK p, s : p # "received" /\ handler' = [handler EXCEPT ![b].phase = p, ![b].stamp = s]
      BY <2>3 DEF CheckDependencies
    <3> QED
      BY <1>1, <2>1, <3>1 DEF At, Handling
  <2>4. CASE LoadPrevious(b)
    <3>1. PICK r : handler' = [handler EXCEPT ![b].phase = "ready", ![b].request.ticket.repeat = r]
      BY <2>4 DEF LoadPrevious
    <3> QED
      BY <1>1, <2>1, <3>1 DEF At, Handling
  <2> QED
    BY <1>4, <2>2, <2>3, <2>4
<1>5. ASSUME LoadOriginal(b) PROVE FALSE
  <2>1. handler[b] \in Handling
    BY <1>5, HandlingFields DEF LoadOriginal, At, Busy
  <2>2. PICK copy : handler' = [handler EXCEPT ![b].request =
                 Normalized([kind |-> "create", ticket |-> copy])]
    BY <1>5 DEF LoadOriginal
  <2> DEFINE q == Normalized([kind |-> "create", ticket |-> copy])
  <2>3. q.kind = "create"
    BY DEF Normalized
  <2> HIDE DEF q
  <2>4. handler'[b].request = q
    BY <1>1, <2>1, <2>2 DEF Handling, q
  <2> QED
    BY <2>3, <2>4 DEF At
<1>6. ASSUME Fail(b) \/ Commit(b) PROVE FALSE
  <2>1. handler' = [handler EXCEPT ![b] = Idle]
    BY <1>6 DEF Fail, Commit, CommitCreate, CommitUpdate, CommitMove, CommitArchive,
       CommitTrash, CommitRestore, CommitDelete, Reply
  <2> QED
    BY <1>1, <2>1 DEF At, Idle
<1>7. ASSUME NEW c \in Clients, Handle(c), c # b PROVE handler'[b] = handler[b]
  <2>1. CASE Commit(c) \/ Fail(c)
    <3>1. handler' = [handler EXCEPT ![c] = Idle]
      BY <2>1 DEF Fail, Commit, CommitCreate, CommitUpdate, CommitMove, CommitArchive,
         CommitTrash, CommitRestore, CommitDelete, Reply
    <3> QED
      BY <1>1, <1>7, <3>1
  <2>2. CASE Receive(c)
    BY <1>1, <1>7, <2>2 DEF Receive
  <2>3. CASE CheckParent(c) \/ CheckDependencies(c)
    BY <1>1, <1>7, <2>3 DEF CheckParent, CheckDependencies, Advance
  <2>4. CASE LoadPrevious(c) \/ LoadOriginal(c)
    BY <1>1, <1>7, <2>4 DEF LoadPrevious, LoadOriginal
  <2> QED
    BY <1>7, <2>1, <2>2, <2>3, <2>4 DEF Handle
<1>8. ASSUME Startup \/ UNCHANGED vars PROVE handler'[b] = handler[b]
  BY <1>8 DEF Startup, vars
<1>9. ~Crash
  BY DEF Crash, At, Idle
<1> QED
  BY <1>2, <1>3, <1>4, <1>5, <1>6, <1>7, <1>8, <1>9 DEF Next, Handle

(* Completing the moved ticket and adding its next occurrence leave the    *)
(* places alone.                                                           *)
LEMMA FinishKeepsPlaces ==
  ASSUME NEW T, IsTable(T), NEW i \in DOMAIN T, NEW before, NEW days,
         FinishWorkflow(T, i, before, days)
  PROVE  \A j \in DOMAIN T : tickets'[j].position = T[j].position
<1> DEFINE row   == [T[i] EXCEPT !.started = StartedAt(T[i], before, clock)]
           saved == [T EXCEPT ![i] = row]
<1>1. row.position = T[i].position
  BY TableRow DEF Ticket
<1>2. \/ tickets' = saved
      \/ \E n \in NewRowIds(saved) : tickets' = Put(saved, n, NextOccurrence(row, days))
  BY DEF FinishWorkflow
<1> HIDE DEF row
<1>3. DOMAIN saved = DOMAIN T /\ \A j \in DOMAIN T : saved[j].position = T[j].position
  BY <1>1
<1>4. DOMAIN T \subseteq Nat
  BY TableRow DEF Ids
<1> HIDE DEF saved
<1>5. \A n \in NewRowIds(saved) : n \notin DOMAIN T
  BY <1>3, <1>4 DEF NewRowIds, Ids
<1> QED
  BY <1>2, <1>3, <1>5 DEF Put

LEMMA MoveArranges ==
  ASSUME TypeOK, AnchorsGiven, NEW c \in Clients, CommitMove(c)
  PROVE  LET q == handler[c].request
         IN Arranged(tickets', tickets, q.id, q.column, q.anchor, q.place)
<1> DEFINE q == handler[c].request
           i == q.id
           T == Reordered(tickets, i, q.column, q.anchor, q.place)
<1>1. /\ q.column \in Columns /\ q.place \in {"before", "after", "end"}
      /\ q.anchor = 0 <=> q.place = "end"
  BY HandlingFields, MoveFields DEF CommitMove, At, Busy, AnchorsGiven
<1>2. /\ i \in DOMAIN tickets
      /\ q.place # "end" => q.anchor \in Group(tickets, i, q.column)
  BY <1>1 DEF CommitMove
<1>3. /\ IsTable(tickets) /\ IsTable(T) /\ DOMAIN T = DOMAIN tickets
      /\ Placed(T, tickets, i, q.column, q.anchor, q.place)
  <2>1. IsTable(tickets) /\ i \in DOMAIN tickets
    BY <1>2, TypedTable
  <2>2. T = Reordered(tickets, i, q.column, q.anchor, q.place)
    OBVIOUS
  <2> HIDE DEF q, i, T
  <2> QED
    BY <1>1, <2>1, <2>2, ReorderedType, ReorderedPlaces
<1>4. \A j \in DOMAIN tickets : tickets'[j].position = T[j].position
  <2> DEFINE stamp == CompletionTimestamp(q.column, T[i].completed, clock)
             row == [T[i] EXCEPT !.completed = stamp]
             U == [T EXCEPT ![i] = row]
  <2>1. \/ tickets' = T
        \/ \E before, days : FinishWorkflow(U, i, before, days)
    BY <1>2, <1>3 DEF CommitMove
  <2> HIDE DEF T
  <2>2. i \in DOMAIN T /\ T[i] \in Ticket
    BY <1>2, <1>3, TableRow
  <2>3. stamp \in Nat
    BY <2>2, TimestampType DEF TypeOK, Ticket
  <2> HIDE DEF stamp
  <2>4. row \in Ticket /\ row.position = T[i].position
    BY <2>2, <2>3 DEF Ticket
  <2> HIDE DEF row
  <2>5. /\ IsTable(U) /\ DOMAIN U = DOMAIN T
        /\ \A j \in DOMAIN T : U[j].position = T[j].position
    BY <1>3, <2>2, <2>4, ExceptType
  <2> HIDE DEF U
  <2> QED
    BY <1>3, <2>1, <2>2, <2>5, FinishKeepsPlaces
<1>5. Placed(tickets', tickets, i, q.column, q.anchor, q.place)
  <2> HIDE DEF T, q, i
  <2> QED
    BY <1>2, <1>3, <1>4 DEF Placed, Group
<1> HIDE DEF T, i, q
<1>6. Arranged(tickets', tickets, i, q.column, q.anchor, q.place)
  BY <1>1, <1>2, <1>3, <1>5, PlacedIsArranged
<1> QED
  BY <1>6 DEF i, q

(* For every board and however moves, edits and completions interleave: a  *)
(* move puts the ticket directly before or after its anchor or last in the *)
(* column, no two tickets of a lane change places otherwise, and neither   *)
(* a completion nor the next occurrence it adds disturbs that.             *)
THEOREM MovesKeepTheOrder == Spec => MoveKeepsOrder
<1> DEFINE Moved(c) ==
             At(c, "received", "move") /\ ~Busy(c)' /\ tickets' # tickets =>
               LET q == handler[c].request
               IN Arranged(tickets', tickets, q.id, q.column, q.anchor, q.place)
<1>1. ASSUME TypeOK, AnchorsGiven, [Next]_vars, NEW c \in Clients PROVE Moved(c)
  <2> SUFFICES ASSUME At(c, "received", "move"), ~Busy(c)', tickets' # tickets
               PROVE  CommitMove(c)
    BY <1>1, MoveArranges
  <2>1. PICK d \in Clients : Handle(d)
    <3>1. ~Startup
      BY DEF Startup, At, Busy
    <3> QED
      BY <1>1, <3>1 DEF Next, Crash, store, vars
  <2>2. Commit(d)
    BY <2>1 DEF Handle, Receive, CheckParent, CheckDependencies, LoadPrevious,
       LoadOriginal, Fail, store
  <2>3. handler' = [handler EXCEPT ![d] = Idle]
    BY <2>2 DEF Commit, CommitCreate, CommitUpdate, CommitMove, CommitArchive,
       CommitTrash, CommitRestore, CommitDelete, Reply
  <2>4. c = d
    BY <1>1, <2>3 DEF TypeOK, Busy, At
  <2> QED
    BY <2>2, <2>4 DEF Commit, CommitCreate, CommitUpdate, CommitArchive,
       CommitTrash, CommitRestore, CommitDelete, At
<1>2. (\A c \in Clients : Moved(c)) =>
        \A c \in Clients :
          At(c, "received", "move") /\ ~Busy(c)' /\ tickets' # tickets =>
            LET q == handler[c].request
                others == Group(tickets, q.id, q.column)
                left == Group(tickets, q.id, tickets[q.id].column)
                Between(a, b) == {j \in others : Before(tickets', a, j) /\ Before(tickets', j, b)}
            IN /\ \A G \in {others, left} : \A a, b \in G :
                    Before(tickets, a, b) => Before(tickets', a, b)
               /\ q.place = "before" =>
                    Before(tickets', q.id, q.anchor) /\ Between(q.id, q.anchor) = {}
               /\ q.place = "after" =>
                    Before(tickets', q.anchor, q.id) /\ Between(q.anchor, q.id) = {}
               /\ q.place = "end" => \A j \in others : Before(tickets', j, q.id)
  BY DEF Arranged
<1>3. TypeOK /\ AnchorsGiven /\ [Next]_vars => [\A c \in Clients : Moved(c)]_vars
  BY <1>1
<1> HIDE DEF Moved
<1>4. Init => AnchorsGiven
  BY DEF Init, AnchorsGiven, At, Idle
<1> QED
  BY <1>2, <1>3, <1>4, InitType, NextType, AnchorsStay, PTL DEF Spec, MoveKeepsOrder

-----------------------------------------------------------------------------
(* One request at a time: the work tree *)

LEMMA AcyclicSubset ==
  ASSUME NEW E, NEW F, NEW N, Acyclic(E, N), \A e \in F : e \in E
  PROVE  Acyclic(F, N)
BY DEF Acyclic

LEMMA NoLoop ==
  ASSUME NEW E, NEW N, Acyclic(E, N), NEW i \in N
  PROVE  <<i, i>> \notin E
<1>1. {i} \in SUBSET N /\ {i} # {}
  OBVIOUS
<1>2. PICK x \in {i} : \A e \in E : e[1] = x => e[2] \notin {i}
  BY <1>1 DEF Acyclic
<1> QED
  BY <1>2

(* Rows that keep their parent or lose it.                                 *)
LEMMA FewerParents ==
  ASSUME NEW T, NEW U, Acyclic(ParentEdges(T), Ids), DOMAIN U \subseteq DOMAIN T,
         \A j \in DOMAIN U : U[j].parent \in {0, T[j].parent}
  PROVE  Acyclic(ParentEdges(U), Ids)
<1>1. \A e \in ParentEdges(U) : e \in ParentEdges(T)
  BY DEF ParentEdges
<1> QED
  BY <1>1, AcyclicSubset

(* One row gets a parent from which no walk upwards meets it: the check of *)
(* parentWouldCreateCycle, made before the row is written.                 *)
LEMMA ChangedParent ==
  ASSUME NEW T, IsTable(T), Acyclic(ParentEdges(T), Ids), NEW i \in DOMAIN T,
         NEW U, IsTable(U), DOMAIN U = DOMAIN T,
         \A j \in DOMAIN T \ {i} : U[j].parent = T[j].parent,
         U[i].parent # 0, i \notin Reach(ParentEdges(T), Ids, {U[i].parent})
  PROVE  Acyclic(ParentEdges(U), Ids)
<1> DEFINE E == ParentEdges(T)
           p == U[i].parent
           F == ReplaceLinks(E, i, {p})
           R == Reach(E, Ids, {p})
<1>1. p \in Ids
  BY TableRow DEF Ticket
<1>2. R \subseteq Ids /\ p \in R /\ i \notin R
  BY <1>1, ReachProperties
<1>3. \A e \in E : e[2] \in Ids
  BY ParentEdgesIn
<1>4. \A e \in E : e[1] \in R => e[2] \in R
  BY <1>3, ReachProperties
<1>5. \A e \in F : e[1] # i => e \in E
  BY DEF ReplaceLinks
<1> HIDE DEF R
<1>6. IsClosed(F, R) /\ R \in SUBSET Ids /\ {p} \subseteq R
  BY <1>2, <1>4, <1>5 DEF IsClosed
<1>7. i \notin Reach(F, Ids, {p})
  BY <1>2, <1>6 DEF Reach
<1>8. Acyclic(F, Ids)
  <2> HIDE DEF E, p
  <2>1. {p} \in SUBSET Ids /\ Acyclic(E, Ids)
    BY <1>1 DEF E
  <2> QED
    BY <1>7, <2>1, AcyclicReplace
<1>9. \A e \in ParentEdges(U) : e \in F
  <2> SUFFICES ASSUME NEW j \in DOMAIN U, U[j].parent # 0
               PROVE  <<j, U[j].parent>> \in F
    BY DEF ParentEdges
  <2>1. CASE j = i
    BY <1>2, <2>1 DEF ReplaceLinks
  <2>2. CASE j # i
    <3>1. <<j, U[j].parent>> \in E
      BY <2>2, ParentEdge
    <3> QED
      BY <2>2, <3>1 DEF ReplaceLinks
  <2> QED
    BY <2>1, <2>2
<1> QED
  BY <1>8, <1>9, AcyclicSubset

(* A new row is no ticket's parent yet.                                    *)
LEMMA FreshParent ==
  ASSUME NEW T, IsTable(T), ParentsExist(T), Acyclic(ParentEdges(T), Ids),
         NEW n \in Ids, n \notin DOMAIN T, NEW U, DOMAIN U = DOMAIN T \union {n},
         \A j \in DOMAIN T : U[j].parent = T[j].parent,
         U[n].parent \in {0} \union DOMAIN T
  PROVE  ParentsExist(U) /\ Acyclic(ParentEdges(U), Ids)
<1> DEFINE E == ParentEdges(T)
           targets == {U[n].parent} \ {0}
           F == ReplaceLinks(E, n, targets)
<1>1. DOMAIN T \in SUBSET Ids /\ targets \in SUBSET DOMAIN T
  BY TableRow
<1>2. \A e \in E : e[2] \in DOMAIN T
  BY ParentEdgesIn DEF ParentsExist
<1>3. IsClosed(F, DOMAIN T)
  BY <1>1, <1>2 DEF IsClosed, ReplaceLinks
<1>4. n \notin Reach(F, Ids, targets)
  BY <1>1, <1>3 DEF Reach
<1>5. targets \in SUBSET Ids /\ Acyclic(E, Ids)
  BY <1>1
<1>6. \A e \in ParentEdges(U) : e \in F
  <2> SUFFICES ASSUME NEW j \in DOMAIN U, U[j].parent # 0
               PROVE  <<j, U[j].parent>> \in F
    BY DEF ParentEdges
  <2>1. CASE j = n
    BY <1>1, <2>1 DEF ReplaceLinks
  <2>2. CASE j # n
    <3>1. <<j, U[j].parent>> \in E
      BY <2>2, ParentEdge
    <3> QED
      BY <2>2, <3>1 DEF ReplaceLinks
  <2> QED
    BY <2>1, <2>2
<1> HIDE DEF E, targets
<1>7. Acyclic(F, Ids)
  BY <1>4, <1>5, AcyclicReplace
<1>8. ParentsExist(U)
  BY DEF ParentsExist
<1> QED
  BY <1>6, <1>7, <1>8, AcyclicSubset

(* A written row and the next occurrence that may come with it.            *)
LEMMA WriteKeepsTree ==
  ASSUME TypeOK, ParentsExist(tickets), ParentsAcyclic,
         NEW T, NEW i, NEW before, NEW days, WritesRow(T, i, before, days),
         T[i].parent \in {0} \union DOMAIN tickets,
         \/ i \notin DOMAIN tickets
         \/ T[i].parent \in {0, tickets[i].parent}
         \/ i \notin Reach(ParentEdges(tickets), Ids, {T[i].parent})
  PROVE  /\ ParentsExist(tickets') /\ ParentsAcyclic'
         /\ DOMAIN tickets \subseteq DOMAIN tickets' /\ i \in DOMAIN tickets'
<1> PICK saved : Finishes(T, i, before, days, saved)
  BY FinishStep
<1>1. /\ IsTable(saved) /\ DOMAIN saved = DOMAIN tickets \union {i}
      /\ saved[i].parent = T[i].parent
      /\ \A j \in DOMAIN saved \ {i} : saved[j].parent = tickets[j].parent
  BY DEF Finishes, SameRow, SameWork
<1>2. IsTable(tickets) /\ Acyclic(ParentEdges(tickets), Ids) /\ i \in Ids
  BY <1>1, TypedTable, TableRow DEF ParentsAcyclic
<1>3. ParentsExist(saved)
  BY <1>1 DEF ParentsExist
<1>4. Acyclic(ParentEdges(saved), Ids)
  <2>1. CASE i \notin DOMAIN tickets
    BY <1>1, <1>2, <2>1, FreshParent
  <2>2. CASE i \in DOMAIN tickets /\ T[i].parent \in {0, tickets[i].parent}
    BY <1>1, <1>2, <2>2, FewerParents
  <2>3. CASE /\ i \in DOMAIN tickets /\ T[i].parent # 0
             /\ i \notin Reach(ParentEdges(tickets), Ids, {T[i].parent})
    <3>1. DOMAIN saved = DOMAIN tickets
      BY <1>1, <2>3
    <3> QED
      BY <1>1, <1>2, <2>3, <3>1, ChangedParent
  <2> QED
    BY <2>1, <2>2, <2>3
<1>5. CASE tickets' = saved
  BY <1>1, <1>3, <1>4, <1>5 DEF ParentsAcyclic
<1>6. CASE AddsNext(i, saved, days)
  <2>1. PICK n \in Ids \ DOMAIN saved, next \in Ticket :
          next.parent = saved[i].parent /\ tickets' = Put(saved, n, next)
    BY <1>6 DEF AddsNext
  <2>2. /\ DOMAIN tickets' = DOMAIN saved \union {n} /\ tickets'[n] = next
        /\ \A j \in DOMAIN saved : tickets'[j] = saved[j]
    BY <2>1 DEF Put
  <2>3. tickets'[n].parent \in {0} \union DOMAIN saved
    BY <1>1, <2>1, <2>2
  <2>4. ParentsExist(tickets') /\ Acyclic(ParentEdges(tickets'), Ids)
    BY <1>1, <1>3, <1>4, <2>1, <2>2, <2>3, FreshParent
  <2> QED
    BY <1>1, <2>2, <2>4 DEF ParentsAcyclic
<1> QED
  BY <1>5, <1>6 DEF Finishes

-----------------------------------------------------------------------------
(* One request at a time: what the checks before a transaction found still *)
(* holds when it writes                                                    *)

(* The form of request q, sent by a client that knows no extras.           *)
WithoutExtras(q) ==
  [kind |-> "update", id |-> q.id, ticket |-> [q.ticket EXCEPT !.repeat = NoExtras]]

(* Nobody sends one form both with extras and without, so that the form    *)
(* tells an older client's request.                                        *)
FormsDiffer ==
  \A q \in Requests : q.kind = "update" /\ WithoutExtras(Normalized(q)) \in Requests =>
    q.ticket.repeat = NoExtras

ParentFits(q) ==
  q.ticket.parent # 0 =>
    /\ q.ticket.parent \in DOMAIN tickets
    /\ q.kind = "update" => ~ParentWouldCreateCycle(tickets, q.id, q.ticket.parent)

LinksFit(q) ==
  /\ q.ticket.links \subseteq DOMAIN tickets
  /\ ~Blocked(tickets, q.ticket.links, q.ticket.column)

(* The extras of an older client: none, then those that are stored.        *)
ExtrasFit(h) ==
  LET q == h.request
  IN q.kind = "update" /\ WithoutExtras(q) \in Requests =>
       q.ticket.repeat = IF h.phase = "ready" THEN tickets[q.id].repeat ELSE NoExtras

Vetted(h) ==
  /\ h.phase # "received" => h.request.kind \in {"create", "update"} /\ ParentFits(h.request)
  /\ h.phase \in {"checked", "ready"} => LinksFit(h.request)
  /\ FormsDiffer => ExtrasFit(h)

HandlersVetted == \A c \in Clients : Busy(c) => up /\ Vetted(handler[c])

LEMMA OnlyHandler ==
  ASSUME OneAtATime, TypeOK, NEW c \in Clients, NEW h, handler' = [handler EXCEPT ![c] = h],
         h.phase # "idle" => (up /\ Vetted(h))'
  PROVE  HandlersVetted'
<1> SUFFICES ASSUME NEW b \in Clients, Busy(b)' PROVE (up /\ Vetted(handler[b]))'
  BY DEF HandlersVetted
<1>1. b = c
  BY DEF OneAtATime
<1>2. handler'[b] = h
  BY <1>1 DEF TypeOK
<1>3. h.phase # "idle"
  BY <1>2 DEF Busy
<1> QED
  BY <1>2, <1>3 DEF Vetted, ExtrasFit

(* The steps before a transaction leave the tables alone.                  *)
LEMMA VettedStays ==
  ASSUME NEW h, UNCHANGED <<store, up>>, Vetted(h), up
  PROVE  (up /\ Vetted(h))'
BY DEF store, Vetted, ParentFits, LinksFit, ExtrasFit

LEMMA PreparingVets ==
  ASSUME OneAtATime, TypeOK, HandlersFind, HandlersVetted, NEW c \in Clients,
         \/ Receive(c) \/ CheckParent(c) \/ CheckDependencies(c)
         \/ LoadPrevious(c) \/ LoadOriginal(c) \/ Fail(c)
  PROVE  HandlersVetted'
<1>1. UNCHANGED <<store, up>>
  BY DEF Receive, CheckParent, CheckDependencies, LoadPrevious, LoadOriginal, Fail
<1>2. CASE Receive(c)
  <2>1. PICK q \in Requests :
          /\ up
          /\ handler' = [handler EXCEPT ![c] =
               [phase |-> "received", request |-> Normalized(q), stamp |-> 0]]
    BY <1>2 DEF Receive
  <2>2. q \in Request({0} \union Columns)
    BY RequestsAssumption
  <2>3. Normalized(q).kind = q.kind
    BY <2>2 DEF Normalized, Request
  <2>4. q.kind = "update" => Normalized(q).ticket.repeat = q.ticket.repeat
    BY <2>2 DEF Normalized, Request, Draft
  <2> DEFINE h == [phase |-> "received", request |-> Normalized(q), stamp |-> 0]
  <2>5. /\ handler' = [handler EXCEPT ![c] = h] /\ h.phase = "received"
        /\ h.request = Normalized(q)
    BY <2>1
  <2> HIDE DEF h
  <2>6. Vetted(h)
    BY <2>3, <2>4, <2>5 DEF Vetted, ExtrasFit, FormsDiffer
  <2> QED
    BY <1>1, <2>1, <2>5, <2>6, VettedStays, OnlyHandler
<1>3. CASE CheckParent(c)
  <2> DEFINE h == [handler[c] EXCEPT !.phase = "parentChecked"]
  <2>1. /\ handler[c] \in Handling /\ up /\ Vetted(handler[c])
        /\ handler[c].phase = "received"
    BY <1>3, HandlingFields DEF CheckParent, Busy, HandlersVetted
  <2>2. handler' = [handler EXCEPT ![c] = h]
    BY <1>3 DEF CheckParent, Advance
  <2>3. h.phase = "parentChecked" /\ h.request = handler[c].request
    BY <2>1 DEF Handling
  <2>4. handler[c].request.kind \in {"create", "update"} /\ ParentFits(handler[c].request)
    BY <1>3 DEF CheckParent, ParentFits
  <2> HIDE DEF h
  <2>5. Vetted(h)
    BY <2>1, <2>3, <2>4 DEF Vetted, ExtrasFit
  <2> QED
    BY <1>1, <2>1, <2>2, <2>5, VettedStays, OnlyHandler
<1>4. CASE CheckDependencies(c)
  <2> DEFINE q == handler[c].request
             stamp == IF q.kind = "create"
                      THEN CompletionTimestamp(q.ticket.column, 0, clock) ELSE 0
             next == IF q.kind = "create" THEN "ready" ELSE "checked"
             h == [handler[c] EXCEPT !.phase = next, !.stamp = stamp]
  <2>1. /\ handler[c] \in Handling /\ up /\ Vetted(handler[c])
        /\ handler[c].phase = "parentChecked"
    BY <1>4, HandlingFields DEF CheckDependencies, Busy, HandlersVetted
  <2>2. handler' = [handler EXCEPT ![c] = h]
    BY <1>4 DEF CheckDependencies, TypeOK
  <2>3. LinksFit(q)
    BY <1>4 DEF CheckDependencies, LinksFit
  <2> HIDE DEF stamp
  <2>4. h.phase = next /\ h.request = q
    BY <2>1 DEF Handling
  <2> HIDE DEF h
  <2>5. Vetted(h)
    BY <2>1, <2>3, <2>4 DEF Vetted, ExtrasFit
  <2> QED
    BY <1>1, <2>1, <2>2, <2>5, VettedStays, OnlyHandler
<1>5. CASE LoadPrevious(c)
  <2> DEFINE q == handler[c].request
             extras == FilledIn(q.ticket.repeat, tickets, q.id)
             form == [q.ticket EXCEPT !.repeat = extras]
             r == [q EXCEPT !.ticket = form]
             h == [handler[c] EXCEPT !.phase = "ready", !.request = r]
  <2>1. /\ handler[c] \in Handling /\ up /\ Vetted(handler[c])
        /\ handler[c].phase = "checked" /\ Finds(handler[c], DOMAIN tickets)
        /\ q \in Request(Columns) /\ q.kind = "update" /\ q.ticket \in Draft(Columns)
    BY <1>5, HandlingFields, DraftFields
    DEF LoadPrevious, At, Busy, HandlersFind, HandlersVetted
  <2>2. handler' = [handler EXCEPT ![c] = h]
    BY <1>5 DEF LoadPrevious, TypeOK
  <2>3. FormsDiffer /\ WithoutExtras(q) \in Requests => extras = tickets[q.id].repeat
    BY <2>1 DEF Vetted, ExtrasFit, FilledIn, Finds
  <2> HIDE DEF extras
  <2>4. /\ form.repeat = extras /\ form.parent = q.ticket.parent
        /\ form.links = q.ticket.links /\ form.column = q.ticket.column
        /\ [form EXCEPT !.repeat = NoExtras] = [q.ticket EXCEPT !.repeat = NoExtras]
    BY <2>1 DEF Draft
  <2> HIDE DEF form
  <2>5. /\ r.kind = "update" /\ r.id = q.id /\ r.ticket = form
    BY <2>1 DEF Request
  <2> HIDE DEF r
  <2>6. h.phase = "ready" /\ h.request = r
    BY <2>1 DEF Handling
  <2> HIDE DEF h
  <2>7. ParentFits(r) /\ LinksFit(r)
    BY <2>1, <2>4, <2>5 DEF Vetted, ParentFits, LinksFit
  <2>8. FormsDiffer => ExtrasFit(h)
    BY <2>3, <2>4, <2>5, <2>6 DEF ExtrasFit, WithoutExtras
  <2>9. Vetted(h)
    BY <2>5, <2>6, <2>7, <2>8 DEF Vetted
  <2> QED
    BY <1>1, <2>1, <2>2, <2>9, VettedStays, OnlyHandler
<1>6. CASE LoadOriginal(c)
  <2>1. PICK copy :
          handler' = [handler EXCEPT ![c].request =
                        Normalized([kind |-> "create", ticket |-> copy])]
    BY <1>6 DEF LoadOriginal
  <2> DEFINE q == Normalized([kind |-> "create", ticket |-> copy])
             h == [handler[c] EXCEPT !.request = q]
  <2>2. q.kind = "create"
    BY DEF Normalized
  <2>3. handler[c] \in Handling /\ up /\ handler[c].phase = "received"
    BY <1>6, HandlingFields DEF LoadOriginal, At, Busy, HandlersVetted
  <2>4. handler' = [handler EXCEPT ![c] = h]
    BY <2>1
  <2> HIDE DEF q
  <2>5. h.request = q /\ h.phase = "received"
    BY <2>3 DEF Handling
  <2> HIDE DEF h
  <2>6. Vetted(h)
    BY <2>2, <2>5 DEF Vetted, ExtrasFit
  <2> QED
    BY <1>1, <2>3, <2>4, <2>6, VettedStays, OnlyHandler
<1>7. CASE Fail(c)
  <2>1. handler' = [handler EXCEPT ![c] = Idle] /\ Idle.phase = "idle"
    BY <1>7 DEF Fail, Reply, Idle
  <2> QED
    BY <2>1, OnlyHandler
<1> QED
  BY <1>2, <1>3, <1>4, <1>5, <1>6, <1>7

SerialInv ==
  /\ TypeOK /\ HandlersFind /\ HandlersVetted
  /\ NothingDangles /\ ParentsAcyclic /\ LinksAcyclic

(* The graphs after a step.                                                *)
GraphsHold == NothingDangles /\ ParentsAcyclic /\ LinksAcyclic

LEMMA FormKeepsGraphs ==
  ASSUME SerialInv, NEW c \in Clients, CommitCreate(c) \/ CommitUpdate(c)
  PROVE  GraphsHold'
<1> DEFINE d == handler[c].request.ticket
           E == ParentEdges(tickets)
<1>1. /\ TypeOK /\ ParentsExist(tickets) /\ ParentsAcyclic /\ NothingDangles /\ LinksAcyclic
      /\ links \subseteq (DOMAIN tickets) \X (DOMAIN tickets)
  BY DEF SerialInv, NothingDangles
<1>2. /\ Vetted(handler[c]) /\ handler[c].phase = "ready"
  BY DEF SerialInv, HandlersVetted, CommitCreate, CommitUpdate, At, Busy
<1>3. /\ d.parent \in {0} \union DOMAIN tickets /\ d.links \subseteq DOMAIN tickets
  BY <1>2 DEF Vetted, ParentFits, LinksFit
<1>4. ASSUME NEW T, NEW i, NEW before, NEW days, WritesRow(T, i, before, days),
             T[i].parent = d.parent, links' = ReplaceLinks(links, i, d.links), LinksAcyclic',
             \/ i \notin DOMAIN tickets
             \/ T[i].parent \in {0, tickets[i].parent}
             \/ i \notin Reach(E, Ids, {T[i].parent})
      PROVE  GraphsHold'
  <2>1. /\ ParentsExist(tickets') /\ ParentsAcyclic'
        /\ DOMAIN tickets \subseteq DOMAIN tickets' /\ i \in DOMAIN tickets'
    BY <1>1, <1>3, <1>4, WriteKeepsTree
  <2>2. links' \subseteq (DOMAIN tickets') \X (DOMAIN tickets')
    BY <1>1, <1>3, <1>4, <2>1 DEF ReplaceLinks
  <2> QED
    BY <1>4, <2>1, <2>2 DEF GraphsHold, NothingDangles
<1>5. CASE CommitCreate(c)
  <2>1. PICK T, n : Creates(c, T, n)
    BY <1>1, <1>5, CreateStep
  <2>2. /\ n \notin DOMAIN tickets /\ WritesRow(T, n, Unplaced, 0) /\ T[n].parent = d.parent
        /\ links' = ReplaceLinks(links, n, d.links)
    BY <2>1 DEF Creates
  <2>3. n \in Ids
    BY <2>2, TableRow DEF WritesRow
  <2>4. LinksAcyclic'
    <3>1. d.links \in SUBSET DOMAIN tickets
      BY <1>3
    <3> HIDE DEF d
    <3> QED
      BY <1>1, <2>2, <2>3, <3>1, FreshLinks
  <2> HIDE DEF d
  <2> QED
    BY <1>4, <2>2, <2>4
<1>6. CASE CommitUpdate(c)
  <2> DEFINE i == handler[c].request.id
  <2>1. PICK T : Updates(c, T)
    BY <1>1, <1>6, UpdateStep
  <2>2. /\ i \in DOMAIN tickets /\ WritesRow(T, i, tickets[i], d.repeat)
        /\ T[i].parent = d.parent /\ d.links \in SUBSET Ids
        /\ links' = ReplaceLinks(links, i, d.links)
    BY <2>1 DEF Updates
  <2>3. ~DependencyCycle(i, d.links)
    BY <1>6 DEF CommitUpdate
  <2>4. d.parent # 0 => i \notin Reach(E, Ids, {d.parent})
    BY <1>2, <1>6 DEF Vetted, ParentFits, ParentWouldCreateCycle, CommitUpdate, At
  <2> HIDE DEF d, i
  <2>5. LinksAcyclic'
    BY <1>1, <2>2, <2>3, ValidatedLinks
  <2> QED
    BY <1>4, <2>2, <2>4, <2>5
<1> QED
  BY <1>5, <1>6

LEMMA OtherCommitsKeepGraphs ==
  ASSUME SerialInv, NEW c \in Clients,
         \/ CommitMove(c) \/ CommitArchive(c) \/ CommitTrash(c)
         \/ CommitRestore(c) \/ CommitDelete(c)
  PROVE  GraphsHold'
<1>1. /\ TypeOK /\ ParentsExist(tickets) /\ ParentsAcyclic /\ NothingDangles /\ LinksAcyclic
      /\ links \subseteq (DOMAIN tickets) \X (DOMAIN tickets)
  BY DEF SerialInv, NothingDangles
<1>2. ASSUME DOMAIN tickets' = DOMAIN tickets, links' = links,
             \A j \in DOMAIN tickets : tickets'[j].parent = tickets[j].parent
      PROVE  GraphsHold'
  <2>1. ParentsAcyclic'
    BY <1>1, <1>2, FewerParents DEF ParentsAcyclic
  <2> QED
    BY <1>1, <1>2, <2>1 DEF GraphsHold, NothingDangles, ParentsExist, LinksAcyclic
<1>3. CASE CommitMove(c)
  <2>1. links' = links
    BY <1>3 DEF CommitMove
  <2>2. CASE KeepsWork
    BY <1>2, <2>1, <2>2 DEF KeepsWork, SameWork
  <2>3. ASSUME NEW T, Moves(c, T) PROVE GraphsHold'
    <3> DEFINE i == handler[c].request.id
    <3>1. /\ i \in DOMAIN tickets /\ WritesRow(T, i, tickets[i], tickets[i].repeat)
          /\ T[i].parent = tickets[i].parent
      BY <2>3 DEF Moves
    <3>2. T[i].parent \in {0} \union DOMAIN tickets
      BY <1>1, <3>1 DEF ParentsExist
    <3> HIDE DEF i
    <3>3. ParentsExist(tickets') /\ ParentsAcyclic' /\ DOMAIN tickets \subseteq DOMAIN tickets'
      BY <1>1, <3>1, <3>2, WriteKeepsTree
    <3> QED
      BY <1>1, <2>1, <3>3 DEF GraphsHold, NothingDangles, LinksAcyclic
  <2> QED
    BY <1>1, <1>3, <2>2, <2>3, MoveStep
<1>4. CASE CommitArchive(c) \/ CommitTrash(c) \/ CommitRestore(c)
  BY <1>1, <1>2, <1>4, RowKeepsTree DEF KeepsTree
<1>5. CASE CommitDelete(c)
  <2> DEFINE i == handler[c].request.id
  <2>1. /\ tickets' = Without(tickets, i)
        /\ links' = {e \in links : e[1] # i /\ e[2] # i}
    BY <1>5 DEF CommitDelete
  <2>2. /\ DOMAIN tickets' = DOMAIN tickets \ {i}
        /\ \A j \in DOMAIN tickets' :
             tickets'[j].parent = IF tickets[j].parent = i THEN 0 ELSE tickets[j].parent
    BY <1>1, <2>1, TypedRow DEF Without, Ticket
  <2> HIDE DEF i
  <2>3. ParentsAcyclic'
    BY <1>1, <2>2, FewerParents DEF ParentsAcyclic
  <2>4. LinksAcyclic'
    BY <1>1, <2>1, AcyclicSubset DEF LinksAcyclic
  <2>5. NothingDangles'
    BY <1>1, <2>1, <2>2 DEF NothingDangles, ParentsExist
  <2> QED
    BY <2>3, <2>4, <2>5 DEF GraphsHold
<1> QED
  BY <1>3, <1>4, <1>5

LEMMA NextSerial == OneAtATime /\ SerialInv /\ [Next]_vars => SerialInv'
<1> SUFFICES ASSUME OneAtATime, SerialInv, [Next]_vars PROVE SerialInv'
  OBVIOUS
<1>1. /\ TypeOK /\ TypeOK' /\ HandlersFind' /\ GraphsHold
  BY NextType, NextFinds DEF SerialInv, RowsStay, GraphsHold
<1>2. ASSUME UNCHANGED store PROVE GraphsHold'
  BY <1>1, <1>2 DEF GraphsHold, store, NothingDangles, ParentsAcyclic, LinksAcyclic
<1>3. GraphsHold' /\ HandlersVetted' => SerialInv'
  BY <1>1 DEF SerialInv, GraphsHold
<1>4. CASE Startup
  <2>1. KeepsTree
    BY <1>1, <1>4, StartKeepsTree
  <2>2. ParentsAcyclic'
    BY <1>1, <2>1, FewerParents DEF KeepsTree, GraphsHold, ParentsAcyclic
  <2>3. NothingDangles' /\ LinksAcyclic'
    BY <1>1, <2>1 DEF KeepsTree, GraphsHold, NothingDangles, ParentsExist, LinksAcyclic
  <2>4. HandlersVetted'
    BY <1>4 DEF Startup, SerialInv, HandlersVetted, Busy
  <2> QED
    BY <1>3, <2>2, <2>3, <2>4 DEF GraphsHold
<1>5. CASE Crash
  <2>1. HandlersVetted'
    BY <1>5 DEF Crash, HandlersVetted, Busy, Idle
  <2> QED
    BY <1>2, <1>3, <1>5, <2>1 DEF Crash
<1>6. ASSUME NEW c \in Clients, Handle(c) PROVE SerialInv'
  <2>1. CASE Commit(c)
    <3>1. handler' = [handler EXCEPT ![c] = Idle] /\ Idle.phase = "idle"
      BY <2>1 DEF Commit, CommitCreate, CommitUpdate, CommitMove, CommitArchive,
         CommitTrash, CommitRestore, CommitDelete, Reply, Idle
    <3>2. HandlersVetted'
      BY <1>1, <3>1, OnlyHandler
    <3>3. GraphsHold'
      BY <2>1, FormKeepsGraphs, OtherCommitsKeepGraphs DEF Commit
    <3> QED
      BY <1>3, <3>2, <3>3
  <2>2. CASE ~Commit(c)
    <3>1. UNCHANGED store
      BY <1>6, <2>2 DEF Handle, Receive, CheckParent, CheckDependencies, LoadPrevious,
         LoadOriginal, Fail
    <3>2. HandlersVetted'
      BY <1>6, <2>2, PreparingVets DEF Handle, SerialInv
    <3> QED
      BY <1>2, <1>3, <3>1, <3>2
  <2> QED
    BY <2>1, <2>2
<1>7. CASE UNCHANGED vars
  <2>1. HandlersVetted'
    <3>1. UNCHANGED <<store, up>> /\ handler' = handler
      BY <1>7 DEF vars, store
    <3>2. \A c \in Clients : Busy(c)' => (up /\ Vetted(handler[c]))'
      BY <3>1, VettedStays DEF SerialInv, HandlersVetted, Busy
    <3> QED
      BY <3>2 DEF HandlersVetted
  <2> QED
    BY <1>2, <1>3, <1>7, <2>1 DEF vars, store
<1> QED
  BY <1>4, <1>5, <1>6, <1>7 DEF Next

LEMMA InitSerial == Init => SerialInv
<1> SUFFICES ASSUME Init PROVE SerialInv
  OBVIOUS
<1>1. PICK s \in InitialStores : tickets = s.tickets /\ links = s.links
  BY DEF Init
<1>2. WellFormed(s)
  BY StoresAssumption
<1>3. NothingDangles /\ ParentsAcyclic /\ LinksAcyclic
  BY <1>1, <1>2 DEF WellFormed, NothingDangles, ParentsAcyclic, LinksAcyclic
<1>4. HandlersFind /\ HandlersVetted
  BY DEF Init, HandlersFind, HandlersVetted, Busy, Idle
<1> QED
  BY <1>3, <1>4, InitType DEF SerialInv

(* While requests come one at a time, with deletions, reused ids, crashes  *)
(* and failures between any two steps: the parents form a forest and the   *)
(* links no cycle, and both name stored tickets.  For the parents the      *)
(* hypothesis is needed: two updates checked before either is written can  *)
(* make two tickets each other's parent.                                   *)
THEOREM ParentsStayAcyclic ==
  ASSUME OneAtATime
  PROVE  Spec => [](ParentsAcyclic /\ LinksAcyclic /\ NothingDangles)
<1>1. SerialInv => ParentsAcyclic /\ LinksAcyclic /\ NothingDangles
  BY DEF SerialInv
<1>2. SerialInv /\ [Next]_vars => SerialInv'
  BY NextSerial
<1> QED
  BY <1>1, <1>2, InitSerial, PTL DEF Spec

-----------------------------------------------------------------------------
(* One request at a time: gated columns and the extras of older clients *)

(* What GateRespected says of a step.                                      *)
Open(T, j) == ~(T[j].deleted \/ IsDone(T[j].column))

Entered(i) == i \notin DOMAIN tickets \/ tickets[i].column # tickets'[i].column

GateKept ==
  \A i \in DOMAIN tickets' :
    Entered(i) /\ NeedsPrerequisites(tickets'[i].column) =>
      \A e \in EdgesFrom(links', i) : e[2] \in DOMAIN tickets' => ~Open(tickets', e[2])

LEMMA NothingEnters ==
  ASSUME DOMAIN tickets' \subseteq DOMAIN tickets,
         \A j \in DOMAIN tickets' : tickets'[j].column = tickets[j].column
  PROVE  GateKept
BY DEF GateKept, Entered

(* The prerequisites of the written row were finished before, and writing  *)
(* the row does not reopen them.                                           *)
LEMMA WriteKeepsGate ==
  ASSUME TypeOK, NEW T, NEW i, NEW before, NEW days, WritesRow(T, i, before, days),
         \A e \in links' : e[1] \in DOMAIN tickets \union {i},
         NeedsPrerequisites(T[i].column) =>
           \A e \in EdgesFrom(links', i) : e[2] \in DOMAIN tickets \ {i} /\ ~Open(tickets, e[2])
  PROVE  GateKept
<1> PICK saved : Finishes(T, i, before, days, saved)
  BY FinishStep
<1>1. /\ DOMAIN saved = DOMAIN tickets \union {i} /\ saved[i].column = T[i].column
      /\ \A j \in DOMAIN tickets \ {i} :
           saved[j].column = tickets[j].column /\ saved[j].deleted = tickets[j].deleted
  BY DEF Finishes, SameRow, SameWork
<1>2. \E n : /\ n \notin DOMAIN saved /\ DOMAIN tickets' \subseteq DOMAIN saved \union {n}
             /\ \A j \in DOMAIN saved : tickets'[j] = saved[j]
  <2>1. CASE tickets' = saved
    <3>1. \E n : n \notin DOMAIN saved
      <4>1. MaxTickets + 1 \notin Ids
        BY RulesAssumption DEF Ids
      <4> QED
        BY <4>1, TableRow DEF Finishes
    <3> QED
      BY <2>1, <3>1
  <2>2. CASE AddsNext(i, saved, days)
    BY <2>2 DEF AddsNext, Put
  <2> QED
    BY <2>1, <2>2 DEF Finishes
<1>3. PICK n : /\ n \notin DOMAIN saved /\ DOMAIN tickets' \subseteq DOMAIN saved \union {n}
               /\ \A j \in DOMAIN saved : tickets'[j] = saved[j]
  BY <1>2
<1> SUFFICES ASSUME NEW k \in DOMAIN tickets', Entered(k),
                    NeedsPrerequisites(tickets'[k].column), NEW e \in EdgesFrom(links', k)
             PROVE  ~Open(tickets', e[2])
  BY DEF GateKept
<1>4. e \in links' /\ e[1] = k
  BY DEF EdgesFrom
<1>5. k # n
  BY <1>1, <1>3, <1>4
<1>6. k = i
  BY <1>1, <1>3, <1>5 DEF Entered
<1>7. e[2] \in DOMAIN tickets \ {i} /\ ~Open(tickets, e[2])
  BY <1>1, <1>3, <1>6
<1> QED
  BY <1>1, <1>3, <1>7 DEF Open

LEMMA FormKeepsGate ==
  ASSUME SerialInv, NEW c \in Clients, CommitCreate(c) \/ CommitUpdate(c)
  PROVE  GateKept
<1> DEFINE d == handler[c].request.ticket
<1>1. TypeOK /\ links \subseteq (DOMAIN tickets) \X (DOMAIN tickets)
  BY DEF SerialInv, NothingDangles
<1>2. LinksFit(handler[c].request)
  BY DEF SerialInv, HandlersVetted, Vetted, CommitCreate, CommitUpdate, At, Busy
<1>3. /\ d.links \subseteq DOMAIN tickets
      /\ NeedsPrerequisites(d.column) => \A j \in d.links : ~Open(tickets, j)
  BY <1>2 DEF LinksFit, Blocked, Open
<1> HIDE DEF d
<1>4. ASSUME NEW T, NEW i, NEW before, NEW days, WritesRow(T, i, before, days),
             T[i].column = d.column, links' = ReplaceLinks(links, i, d.links)
      PROVE  GateKept
  <2>1. \A e \in links' : e[1] \in DOMAIN tickets \union {i}
    BY <1>1, <1>4 DEF ReplaceLinks
  <2>2. \A e \in EdgesFrom(links', i) : e[2] \in d.links \ {i}
    BY <1>4 DEF ReplaceLinks, EdgesFrom
  <2> QED
    BY <1>1, <1>3, <1>4, <2>1, <2>2, WriteKeepsGate
<1>5. CASE CommitCreate(c)
  BY <1>1, <1>4, <1>5, CreateStep DEF Creates, d
<1>6. CASE CommitUpdate(c)
  BY <1>1, <1>4, <1>6, UpdateStep DEF Updates, d
<1> QED
  BY <1>5, <1>6

LEMMA MoveKeepsGate ==
  ASSUME SerialInv, NEW c \in Clients, CommitMove(c)
  PROVE  GateKept
<1> DEFINE i == handler[c].request.id
           column == handler[c].request.column
<1>1. /\ TypeOK /\ links \subseteq (DOMAIN tickets) \X (DOMAIN tickets)
      /\ Acyclic(links, Ids)
  BY DEF SerialInv, NothingDangles, LinksAcyclic
<1>2. links' = links
  BY DEF CommitMove
<1>3. CASE KeepsDates
  BY <1>3, NothingEnters DEF KeepsDates
<1>4. ASSUME NEW T, Moves(c, T) PROVE GateKept
  <2>1. /\ i \in DOMAIN tickets /\ WritesRow(T, i, tickets[i], tickets[i].repeat)
        /\ T[i].column = column
        /\ ~Blocked(tickets, {e[2] : e \in EdgesFrom(links, i)}, column)
    BY <1>4 DEF Moves
  <2>2. <<i, i>> \notin links
    BY <1>1, <2>1, TypedRow, NoLoop
  <2>3. \A e \in EdgesFrom(links, i) : e[2] \in DOMAIN tickets \ {i}
    BY <1>1, <2>2 DEF EdgesFrom
  <2>4. NeedsPrerequisites(column) => \A e \in EdgesFrom(links, i) : ~Open(tickets, e[2])
    BY <2>1, <2>3 DEF Blocked, Open
  <2> HIDE DEF i, column
  <2> QED
    BY <1>1, <1>2, <2>1, <2>3, <2>4, WriteKeepsGate
<1> QED
  BY <1>1, <1>3, <1>4, MoveStep

(* While requests come one at a time, a ticket enters Review, Done or a    *)
(* later stage only when none of the prerequisites it has afterwards is    *)
(* open: by creation, by an edit that may replace the prerequisites in the *)
(* same step, by a move, and for a next occurrence, which has none.        *)
THEOREM GateIsRespected ==
  ASSUME OneAtATime
  PROVE  Spec => GateRespected
<1>1. ASSUME SerialInv, [Next]_vars PROVE [GateKept]_vars
  <2>1. TypeOK
    BY <1>1 DEF SerialInv
  <2>2. ASSUME NEW c \in Clients, Handle(c) PROVE GateKept
    <3>1. CASE CommitCreate(c) \/ CommitUpdate(c)
      BY <1>1, <3>1, FormKeepsGate
    <3>2. CASE CommitMove(c)
      BY <1>1, <3>2, MoveKeepsGate
    <3>3. CASE \/ CommitArchive(c) \/ CommitTrash(c) \/ CommitRestore(c) \/ CommitDelete(c)
      BY <2>1, <3>3, RowStep, NothingEnters DEF KeepsDates
    <3>4. CASE ~Commit(c)
      BY <2>2, <3>4, NothingEnters DEF Handle, Receive, CheckParent, CheckDependencies,
         LoadPrevious, LoadOriginal, Fail, store
    <3> QED
      BY <3>1, <3>2, <3>3, <3>4 DEF Commit
  <2>3. CASE Startup
    BY <2>1, <2>3, StartKeepsTree, NothingEnters DEF KeepsTree
  <2>4. CASE Crash
    BY <2>4, NothingEnters DEF Crash, store
  <2> QED
    BY <1>1, <2>2, <2>3, <2>4 DEF Next
<1>2. GateKept =>
        \A i \in DOMAIN tickets' :
          LET entered == i \notin DOMAIN tickets
                         \/ tickets[i].column # tickets'[i].column
          IN entered /\ NeedsPrerequisites(tickets'[i].column) =>
               \A e \in EdgesFrom(links', i) : e[2] \in DOMAIN tickets' =>
                 tickets'[e[2]].deleted \/ IsDone(tickets'[e[2]].column)
  BY DEF GateKept, Entered, Open
<1>3. SerialInv /\ [Next]_vars => SerialInv'
  BY NextSerial
<1> QED
  BY <1>1, <1>2, <1>3, InitSerial, PTL DEF Spec, GateRespected

(* What OlderClientsKeepExtras says of a step.                             *)
ExtrasKept(c) ==
  LET i == handler[c].request.id
  IN At(c, "ready", "update") /\ ~Busy(c)' /\ WithoutExtras(handler[c].request) \in Requests
     /\ i \in DOMAIN tickets /\ i \in DOMAIN tickets' =>
       tickets'[i].repeat = tickets[i].repeat

LEMMA UpdateKeepsExtras ==
  ASSUME SerialInv, FormsDiffer, NEW c \in Clients, CommitUpdate(c)
  PROVE  ExtrasKept(c)
<1> DEFINE i == handler[c].request.id
           d == handler[c].request.ticket
<1>1. TypeOK /\ Vetted(handler[c])
  BY DEF SerialInv, HandlersVetted, CommitUpdate, At, Busy
<1>2. PICK T : Updates(c, T)
  BY <1>1, UpdateStep
<1> SUFFICES ASSUME At(c, "ready", "update"), WithoutExtras(handler[c].request) \in Requests
             PROVE  tickets'[i].repeat = tickets[i].repeat
  BY DEF ExtrasKept
<1>3. d.repeat = tickets[i].repeat
  BY <1>1 DEF Vetted, ExtrasFit, At
<1>4. /\ i \in DOMAIN tickets /\ WritesRow(T, i, tickets[i], d.repeat)
      /\ T[i].repeat = tickets[i].repeat
  BY <1>2, <1>3 DEF Updates, SavedExtras
<1> HIDE DEF i, d
<1>5. PICK saved : Finishes(T, i, tickets[i], d.repeat, saved)
  BY <1>1, <1>4, FinishStep
<1>6. i \in DOMAIN saved /\ saved[i].repeat = tickets[i].repeat
  BY <1>4, <1>5 DEF Finishes
<1>7. tickets' = saved \/ AddsNext(i, saved, d.repeat)
  BY <1>5 DEF Finishes
<1> QED
  BY <1>6, <1>7 DEF AddsNext, Put

(* While requests come one at a time and the form tells an older client: a *)
(* save that came without extras keeps the repeat interval, although the   *)
(* handler fills the extras in early and writes them like given ones.      *)
THEOREM OlderClientsAreHeard ==
  ASSUME OneAtATime, FormsDiffer
  PROVE  Spec => OlderClientsKeepExtras
<1>1. ASSUME SerialInv, [Next]_vars, NEW c \in Clients PROVE ExtrasKept(c)
  <2> SUFFICES ASSUME At(c, "ready", "update"), ~Busy(c)' PROVE ExtrasKept(c)
    BY DEF ExtrasKept
  <2>1. CASE tickets' = tickets
    BY <2>1 DEF ExtrasKept
  <2>2. CASE Commit(c)
    <3>1. CommitUpdate(c)
      BY <2>2 DEF Commit, CommitCreate, CommitMove, CommitArchive, CommitTrash,
         CommitRestore, CommitDelete, At
    <3> QED
      BY <1>1, <3>1, UpdateKeepsExtras
  <2>3. ASSUME NEW b \in Clients, Handle(b) PROVE tickets' = tickets \/ Commit(c)
    <3>1. b = c
      BY DEF OneAtATime
    <3> QED
      BY <2>3, <3>1 DEF Handle, Receive, CheckParent, CheckDependencies, LoadPrevious,
         LoadOriginal, Fail, store
  <2>4. ~Startup
    BY DEF Startup, At, Busy
  <2> QED
    BY <1>1, <2>1, <2>2, <2>3, <2>4 DEF Next, Crash, store, vars
<1>2. (\A c \in Clients : ExtrasKept(c)) =>
        \A c \in Clients :
          /\ At(c, "ready", "update") /\ ~Busy(c)'
          /\ [kind |-> "update", id |-> handler[c].request.id,
              ticket |-> [handler[c].request.ticket EXCEPT !.repeat = NoExtras]] \in Requests
          => LET i == handler[c].request.id
             IN {i} \subseteq DOMAIN tickets \intersect DOMAIN tickets' =>
                  tickets'[i].repeat = tickets[i].repeat
  BY DEF ExtrasKept, WithoutExtras
<1>3. SerialInv /\ [Next]_vars => [\A c \in Clients : ExtrasKept(c)]_vars
  BY <1>1
<1> HIDE DEF ExtrasKept
<1>4. SerialInv /\ [Next]_vars => SerialInv'
  BY NextSerial
<1> QED
  BY <1>2, <1>3, <1>4, InitSerial, PTL DEF Spec, OlderClientsKeepExtras
=============================================================================
