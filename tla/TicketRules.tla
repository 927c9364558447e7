---------------------------- MODULE TicketRules -----------------------------
(***************************************************************************)
(* The rules of one board's ticket table, as operators over a table T: a   *)
(* function from the ids in use to rows.  Times are values of a counter    *)
(* that starts at 1; 0 stands for the empty string the database keeps      *)
(* while a timestamp is unset, and parent 0 for "no parent".               *)
(***************************************************************************)
EXTENDS Integers, FiniteSets, Workflow, TicketGraph

CONSTANTS
  MaxTickets,   \* bound: row ids are 1..MaxTickets, an insert beyond it fails
  RepeatDays    \* the repeat intervals in use, 0 for a task that does not repeat

ASSUME RulesAssumption ==
  /\ MaxTickets \in Nat \ {0}
  /\ RepeatDays \subseteq 0 .. 365
  /\ 0 \in RepeatDays

Ids == 1 .. MaxTickets

Types == {"epic", "story", "task", "bug", "idea"}

(* The columns of a row that some property tells apart.                    *)
Ticket == [type: Types, parent: {0} \union Ids, column: Columns, position: Nat,
           backlog: BOOLEAN, archived: BOOLEAN, deleted: BOOLEAN,
           repeat: RepeatDays, completed: Nat, started: Nat]

IsTable(T) == DOMAIN T \subseteq Ids /\ T \in [DOMAIN T -> Ticket]

(* sqlite gives a new row the largest id in use plus one, so the id of a   *)
(* permanently deleted last row is given out again.  At most one element.  *)
NewRowIds(T) ==
  {n \in Ids : /\ \A i \in DOMAIN T : i < n
               /\ n = 1 \/ n - 1 \in DOMAIN T}

Put(T, i, row) == [j \in DOMAIN T \union {i} |-> IF j = i THEN row ELSE T[j]]

NoExtras == -1

(* Mutant: absent extras are written like present ones.                    *)
SavedExtrasMutant(given, stored) == given

(* saveTaskExtras: absent extras leave what is stored.                     *)
SavedExtras(given, stored) == IF given = NoExtras THEN stored ELSE given

(* Mutant: absent extras are filled in with the defaults.                  *)
FilledInMutant(given, T, i) == IF given = NoExtras THEN 0 ELSE given

(* Absent extras of an update are those of the loaded ticket, if it is     *)
(* still there.                                                            *)
FilledIn(given, T, i) ==
  IF given = NoExtras /\ i \in DOMAIN T THEN T[i].repeat ELSE given

(* Mutant: the children of a deleted ticket keep their parent.             *)
WithoutMutant(T, i) == [j \in DOMAIN T \ {i} |-> T[j]]

(* Permanent deletion: the children lose their parent.                     *)
Without(T, i) ==
  [j \in DOMAIN T \ {i} |-> [T[j] EXCEPT !.parent = IF @ = i THEN 0 ELSE @]]

-----------------------------------------------------------------------------
(* The work tree *)

ParentTypeAllowed(parentType, childType) ==
  \/ childType = "story" /\ parentType = "epic"
  \/ childType \in {"task", "bug"} /\ parentType \in {"epic", "story"}

ParentEdges(T) == {<<i, T[i].parent>> : i \in {j \in DOMAIN T : T[j].parent # 0}}

(* The rows met when walking up from the ids in start; a parent id that    *)
(* names no row ends the walk.                                             *)
Above(T, start) == Reach(ParentEdges(T), Ids, start \ {0}) \intersect DOMAIN T

(* Mutant: only the direct parent is compared.                             *)
ParentWouldCreateCycleMutant(T, i, parent) == i = parent

(* The upward walk meets the ticket itself or runs in circles.  A missing  *)
(* row makes the check fail as well.                                       *)
ParentWouldCreateCycle(T, i, parent) ==
  LET walk == Reach(ParentEdges(T), Ids, {parent})
  IN i \in walk \/ ~\E top \in walk \intersect DOMAIN T : T[top].parent = 0

(* The first epic above i when the walk may only visit the rows in N.      *)
EpicAbove(T, N, i) ==
  LET steps == {e \in ParentEdges(T) : T[e[1]].type # "epic" /\ e[2] \in N}
      epics == {p \in Reach(steps, Ids, {T[i].parent} \intersect N) :
                  p # i /\ T[p].type = "epic"}
  IN IF epics = {} THEN 0 ELSE CHOOSE p \in epics : TRUE

Active(row) == /\ ~row.backlog /\ row.type # "idea"
               /\ ~row.archived /\ ~row.deleted

ActiveRows(T) == {i \in DOMAIN T : Active(T[i])}

OpenWork(T, d) == Active(T[d]) /\ ~IsDone(T[d].column)

ClosedEpic(T, e) == T[e].type = "epic" /\ Active(T[e]) /\ IsDone(T[e].column)

(* Mutant: only the changed ticket is looked at, not the epics above it.   *)
EpicsRespectedMutant(T, i) ==
  i \in DOMAIN T /\ ClosedEpic(T, i) =>
    \A d \in DOMAIN T \ {i} : OpenWork(T, d) => i \notin Above(T, {T[d].parent})

(* validateEpicCompletion: only the epics that the changed ticket is or    *)
(* lies under are looked at.                                               *)
EpicsRespected(T, i) ==
  \A e \in Above(T, {i}) : ClosedEpic(T, e) =>
    \A d \in DOMAIN T \ {e} : OpenWork(T, d) => e \notin Above(T, {T[d].parent})

-----------------------------------------------------------------------------
(* Workflow dates and the completion history *)

(* Mutant: archived and backlog prerequisites do not count.                *)
BlockedMutant(T, targets, column) ==
  /\ NeedsPrerequisites(column)
  /\ \E d \in targets \intersect DOMAIN T : Active(T[d]) /\ ~IsDone(T[d].column)

(* blockedDependenciesForLinks: archived and backlog prerequisites count.  *)
Blocked(T, targets, column) ==
  /\ NeedsPrerequisites(column)
  /\ \E d \in targets \intersect DOMAIN T :
       ~T[d].deleted /\ ~IsDone(T[d].column)

(* Mutant: saving a ticket in Done stamps it again.                        *)
CompletionTimestampMutant(column, current, now) == IF IsDone(column) THEN now ELSE 0

CompletionTimestamp(column, current, now) ==
  IF ~IsDone(column) THEN 0 ELSE IF current # 0 THEN current ELSE now

(* Mutant: reopening keeps the old start.                                  *)
StartedAtMutant(row, before, now) ==
  IF /\ row.completed = 0 /\ row.started = 0
     /\ row.column # before.column /\ IsInProgress(row.column)
  THEN now ELSE row.started

(* Reopening begins a fresh episode; entering In Progress starts one that  *)
(* has not started.                                                        *)
StartedAt(row, before, now) ==
  LET kept == IF before.completed # 0 /\ row.completed = 0 THEN 0 ELSE row.started
  IN IF /\ row.completed = 0 /\ kept = 0
        /\ row.column # before.column /\ IsInProgress(row.column)
     THEN now ELSE kept

Planned(row) == ~row.backlog /\ row.type # "idea"

Episode(T, i) ==
  [ticket |-> i, completed |-> T[i].completed,
   started |-> IF T[i].started > T[i].completed THEN 0 ELSE T[i].started,
   parent |-> T[i].parent, epic |-> EpicAbove(T, DOMAIN T, i)]

Episodes == [ticket: Ids, completed: Nat \ {0}, started: Nat,
             parent: {0} \union Ids, epic: {0} \union Ids]

HasEpisode(H, i, completed) ==
  \E h \in H : h.ticket = i /\ h.completed = completed

(* Mutant: a ticket has one episode, the first.                            *)
RecordedOnceMutant(H, T, i) ==
  IF T[i].completed = 0 \/ ~Planned(T[i]) \/ (\E h \in H : h.ticket = i)
  THEN H ELSE H \union {Episode(T, i)}

(* Mutant: insert or replace.                                              *)
RecordedMutant(H, T, i) ==
  IF T[i].completed = 0 \/ ~Planned(T[i]) THEN H
  ELSE {h \in H : h.ticket # i \/ h.completed # T[i].completed} \union {Episode(T, i)}

(* recordCompletionHistory: insert or ignore, unique (ticket, completed).  *)
Recorded(H, T, i) ==
  IF \/ T[i].completed = 0 \/ ~Planned(T[i])
     \/ HasEpisode(H, i, T[i].completed)
  THEN H ELSE H \union {Episode(T, i)}

(* Mutant: only tickets with an observed start are migrated.               *)
UnrecordedMutant(H, T) ==
  {i \in DOMAIN T : /\ T[i].completed # 0 /\ T[i].started # 0
                    /\ Planned(T[i]) /\ ~HasEpisode(H, i, T[i].completed)}

(* The completions for which migrateWorkHistory has to add an episode.     *)
Unrecorded(H, T) ==
  {i \in DOMAIN T : /\ T[i].completed # 0
                    /\ Planned(T[i]) /\ ~HasEpisode(H, i, T[i].completed)}

(* Mutant: neither the earlier completion nor the stored repetition is     *)
(* looked at.                                                              *)
RepeatsMutant(R, i, before, row, days) == row.completed # 0 /\ days > 0

(* Mutant: one repetition per ticket instead of one per completion.        *)
RepeatsOnceMutant(R, i, before, row, days) ==
  /\ before.completed = 0 /\ row.completed # 0 /\ days > 0
  /\ ~\E r \in R : r.ticket = i

(* repeatCompletedTask and the guard at its callers: the write completes   *)
(* the ticket, which repeats, and this completion has no repetition yet.   *)
Repeats(R, i, before, row, days) ==
  /\ before.completed = 0 /\ row.completed # 0 /\ days > 0
  /\ ~\E r \in R : r.ticket = i /\ r.completed = row.completed

NextOccurrence(row, days) ==
  [row EXCEPT !.column = FirstColumn, !.backlog = FALSE, !.archived = FALSE,
              !.deleted = FALSE, !.repeat = days, !.completed = 0, !.started = 0]

-----------------------------------------------------------------------------
(* The manual order of a Board lane *)

Eligible(row) == Active(row) /\ row.type # "epic"

Lane(T, i) == EpicAbove(T, ActiveRows(T), i)

(* boardMoveLess for tickets without a custom reference: equal positions   *)
(* are ordered by the number.                                              *)
Before(T, a, b) ==
  T[a].position < T[b].position \/ (T[a].position = T[b].position /\ a < b)

(* The other tickets of i's lane in a column.                              *)
Group(T, i, column) ==
  {j \in DOMAIN T \ {i} : /\ Eligible(T[j]) /\ T[j].column = column
                          /\ Lane(T, j) = Lane(T, i)}

Rank(T, G, j) == Cardinality({k \in G : Before(T, k, j)})

(* Mutant: "after" is treated as "before".                                 *)
SlotMutant(T, G, anchor, place) ==
  IF place = "end" THEN Cardinality(G) ELSE Rank(T, G, anchor)

(* The index, from 0, at which the moved ticket enters the group G.        *)
Slot(T, G, anchor, place) ==
  CASE place = "before" -> Rank(T, G, anchor)
    [] place = "after"  -> Rank(T, G, anchor) + 1
    [] place = "end"    -> Cardinality(G)

(* The table after ticket i has taken its slot in a column: both groups    *)
(* are numbered from 1.  Without a change of column the old group is the   *)
(* target group and is not numbered again.                                 *)
Reordered(T, i, column, anchor, place) ==
  LET target == Group(T, i, column)
      source == IF T[i].column = column THEN {} ELSE Group(T, i, T[i].column)
      slot   == Slot(T, target, anchor, place)
      PositionOf(j) ==
        IF j = i THEN slot + 1
        ELSE IF j \in target
        THEN Rank(T, target, j) + (IF Rank(T, target, j) >= slot THEN 2 ELSE 1)
        ELSE IF j \in source THEN Rank(T, source, j) + 1
        ELSE T[j].position
  IN [j \in DOMAIN T |->
       [T[j] EXCEPT !.position = PositionOf(j),
                    !.column = IF j = i THEN column ELSE @]]
=============================================================================
