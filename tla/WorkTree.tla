------------------------------ MODULE WorkTree ------------------------------
(***************************************************************************)
(* What the browser computes from one loaded board: the work tree, the     *)
(* backlog, prerequisites, the column gate and the state of an Epic.       *)
(*                                                                         *)
(* b is the loaded board: its id, its columns (names in position order,    *)
(* trimmed and in lower case), its Sprint cadence, and its tickets, a      *)
(* function from ids to rows.  A reference "3.12" is the sequence <<3, 12>>,*)
(* and a row lists the text filters whose current value it meets.          *)
(***************************************************************************)
EXTENDS Sprints, SequencesExt

TicketTypes == {"epic", "story", "task", "bug", "idea"}

(* The elements of S in the order of a comparator, which must be total.    *)
Sorted(S, Less(_, _)) ==
  [k \in 1 .. Cardinality(S) |->
     CHOOSE x \in S : Cardinality({y \in S : Less(y, x)}) = k - 1]

Place(s, x) == CHOOSE k \in DOMAIN s : s[k] = x

(* Lexicographic comparison, a prefix first.                               *)
Before(s, t) ==
  \E k \in 1 .. Len(t) :
    /\ \A j \in 1 .. k - 1 : j <= Len(s) /\ s[j] = t[j]
    /\ Len(s) < k \/ s[k] < t[k]

(* S and everything that Onward leads to, in any number of steps up to the *)
(* size of the board: the walks of the code keep a set of seen tickets.    *)
Walk(b, Onward(_), S) ==
  LET met[n \in 0 .. Cardinality(DOMAIN b.tickets)] ==
        IF n = 0 THEN S ELSE UNION {{i} \union Onward(i) : i \in met[n - 1]}
  IN met[Cardinality(DOMAIN b.tickets)]

-----------------------------------------------------------------------------
(* Backlog and delivery *)

Stored(row) == ~row.archived /\ ~row.deleted

IsIdea(row) == row.type = "idea"

IsBacklogTicket(row) == row.backlog \/ IsIdea(row)

WorkTickets(b) ==
  {i \in DOMAIN b.tickets : Stored(b.tickets[i]) /\ ~IsBacklogTicket(b.tickets[i])}

BacklogTickets(b) ==
  {i \in DOMAIN b.tickets : Stored(b.tickets[i]) /\ IsBacklogTicket(b.tickets[i])}

IsEpic(b, i) == b.tickets[i].type = "epic"

-----------------------------------------------------------------------------
(* The tree *)

(* Manual position, reference, id.                                         *)
TicketOrder(b, i, j) ==
  LET s == b.tickets[i]
      t == b.tickets[j]
  IN \/ s.position < t.position
     \/ (s.position = t.position /\ Before(s.ref, t.ref))
     \/ (s.position = t.position /\ s.ref = t.ref /\ i < j)

ChildTickets(b, parent, N) == {i \in N : b.tickets[i].parent = parent}

ParentOf(b, i) == {b.tickets[i].parent} \intersect DOMAIN b.tickets

(* All nested descendants within the tickets N.                            *)
DescendantsWithin(b, i, N) ==
  LET below(p) == ChildTickets(b, p, N) IN Walk(b, below, below(i))

DescendantTickets(b, i) == DescendantsWithin(b, i, WorkTickets(b))

(* The Epics met on the way up that are work themselves.                   *)
EpicsAbove(b, i) ==
  LET above(j) == ParentOf(b, j)
  IN {e \in Walk(b, above, above(i)) : IsEpic(b, e) /\ e \in WorkTickets(b)}

(* The first Epic above a ticket, 0 when a parent on the way is missing,   *)
(* filed away or in the backlog.                                           *)
TopEpicFor(b, i) ==
  LET T == b.tickets
      size == Cardinality(DOMAIN T)
      climb[n \in 0 .. size] ==
        [x \in DOMAIN T |->
           IF T[x].parent = 0 \/ n = 0 THEN (IF IsEpic(b, i) THEN i ELSE 0)
           ELSE IF T[x].parent \notin WorkTickets(b) THEN 0
           ELSE IF IsEpic(b, T[x].parent) THEN T[x].parent
           ELSE climb[n - 1][T[x].parent]]
  IN climb[size][i]

ParentTypeAllowed(parentType, childType) ==
  \/ childType = "story" /\ parentType = "epic"
  \/ childType \in {"task", "bug"} /\ parentType \in {"epic", "story"}

(* The parents offered for a ticket: any ticket of the board while the     *)
(* ticket is in the backlog, work otherwise; never itself or a descendant. *)
ParentCandidates(b, childType, current) ==
  LET N == IF current \in DOMAIN b.tickets /\ IsBacklogTicket(b.tickets[current])
           THEN DOMAIN b.tickets ELSE WorkTickets(b)
  IN {p \in N \ ({current} \union DescendantsWithin(b, current, N)) :
        ParentTypeAllowed(b.tickets[p].type, childType)}

-----------------------------------------------------------------------------
(* Prerequisites and columns *)

ColumnsNamed(b, name) == {c \in DOMAIN b.columns : b.columns[c] = name}

(* The first column of that name, 0 without one.                           *)
ColumnNamed(b, name) ==
  LET C == ColumnsNamed(b, name)
  IN IF C = {} THEN 0 ELSE CHOOSE c \in C : \A other \in C : c <= other

DoneColumn(b) == ColumnNamed(b, "done")

InDone(b, i) == DoneColumn(b) # 0 /\ b.tickets[i].column = DoneColumn(b)

(* Archived and backlog prerequisites count, deleted ones do not.          *)
DependencyTickets(b, i) ==
  {d \in b.tickets[i].links \intersect DOMAIN b.tickets : ~b.tickets[d].deleted}

UnfinishedDependencies(b, i) == {d \in DependencyTickets(b, i) : ~InDone(b, d)}

(* The prerequisites that some work has.                                   *)
BlockingTicketIds(b) == UNION {b.tickets[i].links : i \in WorkTickets(b)}

(* Mutant: a custom column before Review needs finished prerequisites.     *)
ColumnRequiresCompletedDependenciesMutant(b, c) ==
  /\ c \in DOMAIN b.columns
  /\ b.columns[c] \notin {"to do", "backlog", "ready", "in progress"}
  /\ \/ b.columns[c] \in {"review", "done"}
     \/ IF ColumnNamed(b, "in progress") # 0 THEN c > ColumnNamed(b, "in progress") ELSE c - 1 >= 3

(* Review and what follows need finished prerequisites (columns are        *)
(* numbered from one here, positions from zero in the code).               *)
ColumnRequiresCompletedDependencies(b, c) ==
  /\ c \in DOMAIN b.columns
  /\ b.columns[c] \notin {"to do", "backlog", "ready", "in progress"}
  /\ \/ b.columns[c] \in {"review", "done"}
     \/ IF ColumnNamed(b, "review") # 0 THEN c >= ColumnNamed(b, "review")
        ELSE IF ColumnNamed(b, "in progress") # 0 THEN c > ColumnNamed(b, "in progress")
        ELSE c - 1 >= 3

(* Reordering within the column is free.                                   *)
BoardMoveBlockedTasks(b, i, c) ==
  IF b.tickets[i].column = c \/ ~ColumnRequiresCompletedDependencies(b, c) THEN {}
  ELSE {d \in DependencyTickets(b, i) :
          b.tickets[d].column \in DOMAIN b.columns \ ColumnsNamed(b, "done")}

(* The button of an Epic: its target column, the open work below it, and   *)
(* whether it may be used.  Reopening goes to the first other column.      *)
EpicCompletionState(b, e) ==
  LET completed == InDone(b, e)
      others == DOMAIN b.columns \ {DoneColumn(b)}
      target == IF ~completed THEN DoneColumn(b)
                ELSE IF others = {} THEN 0
                ELSE CHOOSE c \in others : \A other \in others : c <= other
      unfinished == {d \in DescendantTickets(b, e) : ~InDone(b, d)}
  IN [completed |-> completed, target |-> target, unfinished |-> unfinished,
      allowed |-> /\ target # 0
                  /\ completed \/ unfinished = {}
                  /\ completed \/ BoardMoveBlockedTasks(b, e, target) = {}]
=============================================================================
