--------------------------- MODULE PlanningViews ----------------------------
(***************************************************************************)
(* The Board and the Overview: which rows and cards they show and in which *)
(* order, from the loaded board b, the choices u and the snapshot d of one *)
(* rendering; and the groups of the Backlog.                               *)
(***************************************************************************)
EXTENDS PlanningSelection

-----------------------------------------------------------------------------
(* The Board *)

(* boardSwimlaneData: the lane of an Epic holds the tickets below it, lane *)
(* 0 those without an Epic.                                                *)
BoardSwimlaneData(b, S) ==
  {[epic |-> e, items |-> {i \in S : TopEpicFor(b, i) = e /\ i # e /\ (e = 0 => ~IsEpic(b, i))}] :
     e \in {TopEpicFor(b, i) : i \in S}}

(* Mutant: the column of the Epic alone decides.                           *)
BoardEpicCompletedMutant(b, e) == InDone(b, e)

BoardEpicCompleted(b, e) == \A i \in {e} \union DescendantTickets(b, e) : InDone(b, i)

(* The lanes of the grid: those with cards whose Epic is not completed,    *)
(* and the Epics of the opened chain.                                      *)
BoardLanes(b, d) ==
  {lane \in BoardSwimlaneData(b, d.work) :
     \/ (lane.epic = 0 /\ lane.items # {})
     \/ lane.epic \in d.ids
     \/ /\ lane.epic # 0
        /\ \E i \in lane.items : b.tickets[i].column \in DOMAIN b.columns
        /\ ~BoardEpicCompleted(b, lane.epic)}

(* The Epics without a lane, listed below the grid.                        *)
BoardCompactEpics(b, u, d, lanes) ==
  IF d.focusIds # NoChain THEN {}
  ELSE ({lane.epic : lane \in BoardSwimlaneData(b, d.work)}
          \union {e \in FilteredWork(b, u) : IsEpic(b, e)})
       \ ({0} \union {lane.epic : lane \in lanes})

(* The cards of one lane and column, from top to bottom.                   *)
BoardLaneColumnItems(b, d, lane, c) ==
  LET normal(i, j) == TicketOrder(b, i, j)
      less(i, j) == PlanningCompare(d.steps, i, j, normal)
  IN Sorted({i \in lane.items : b.tickets[i].column = c}, less)

(* The indentation of a card: its parents that are no Epics, at most 3.    *)
BoardCardDepth(b, i) ==
  LET above(j) == ParentOf(b, j)
      depth == Cardinality({p \in Walk(b, above, above(i)) : ~IsEpic(b, p)})
  IN IF IsEpic(b, i) THEN 0 ELSE IF depth > 3 THEN 3 ELSE depth

(* A card dropped in front of the n-th of the other cards, or behind the   *)
(* last: the neighbor that fixes its place.                                *)
BoardDropPlacement(cards, n, dragged) ==
  LET others == RemoveFirst(cards, dragged)
  IN [before |-> IF n <= Len(others) THEN others[n] ELSE 0,
      after |-> IF n <= Len(others) \/ others = <<>> THEN 0 ELSE others[Len(others)]]

-----------------------------------------------------------------------------
(* The Overview *)

SortKeys == {"id", "duration", "startDate", "dueDate", "dependencies", "sprint"}

SprintSortValue(sprint) == IF sprint = NoSprint THEN LastDay + 2 ELSE sprint.number

(* Work without a Sprint sorts behind all Sprints.                         *)
OverviewSortValue(b, i, key) ==
  LET t == b.tickets[i]
  IN CASE key = "id" -> i
       [] key = "duration" -> t.duration
       [] key = "startDate" -> t.start
       [] key = "dueDate" -> t.due
       [] key = "dependencies" -> Cardinality(t.links)
       [] key = "sprint" -> SprintSortValue(TicketSprint(t, b.cadence))

ValueBefore(descending, v, w, i, j) ==
  IF descending THEN v > w \/ (v = w /\ i > j) ELSE v < w \/ (v = w /\ i < j)

(* Rows without the date come last in both directions.                     *)
OverviewNormalCompare(b, order, i, j) ==
  LET missing(x) == /\ order.key = "startDate" => b.tickets[x].start = NoDay
                    /\ order.key = "dueDate" => b.tickets[x].due = NoDay
  IN IF order.key \in {"startDate", "dueDate"} /\ missing(i) # missing(j) THEN missing(j)
     ELSE ValueBefore(order.descending, OverviewSortValue(b, i, order.key),
                      OverviewSortValue(b, j, order.key), i, j)

(* The rows that pass the filters of the table; the opened chain stays.    *)
OverviewFiltered(b, u, d) ==
  LET passes(i) == /\ u.table.type \in {"", b.tickets[i].type}
                   /\ u.table.status \in {0, b.tickets[i].column}
                   /\ u.table.search => "search" \in b.tickets[i].meets
  IN IF d.focusIds # NoChain THEN d.work ELSE {i \in d.work : i \in d.ids \/ passes(i)}

(* The depth below the Epic of the group, at most 4.                       *)
OverviewHierarchyDepth(b, i, e) ==
  LET above(j) == ParentOf(b, j) \ {e}
      depth == Cardinality(Walk(b, above, above(i))) + 1
  IN IF b.tickets[i].parent = 0 THEN 0 ELSE IF depth > 4 THEN 4 ELSE depth

(* The rows of the table from top to bottom: the Epics by position, each   *)
(* followed by its rows unless it is collapsed, then what has no Epic.     *)
OverviewGroupedRows(b, u, d, R) ==
  LET order(i, j) == OverviewNormalCompare(b, u.order, i, j)
      less(i, j) == PlanningCompare(d.steps, i, j, order)
      manual(i, j) == TicketOrder(b, i, j)
      below(e) == IF e \in u.collapsed THEN {} ELSE {i \in R : TopEpicFor(b, i) = e /\ i # e}
      epics == Sorted({TopEpicFor(b, i) : i \in R} \ {0}, manual)
      group(e) == <<e>> \o Sorted(below(e), less)
  IN FlattenSeq([k \in DOMAIN epics |-> group(epics[k])])
       \o Sorted({i \in R : TopEpicFor(b, i) = 0}, less)

OverviewRows(b, u, d) == OverviewGroupedRows(b, u, d, OverviewFiltered(b, u, d))

-----------------------------------------------------------------------------
(* The Backlog *)

FilteredBacklog(b, u) == {i \in Filtered(b, u) : IsBacklogTicket(b.tickets[i])}

(* The group of a row: an Epic heads its own, 0 is "No Epic".              *)
BacklogEpic(b, i) == IF IsEpic(b, i) THEN i ELSE TopEpicFor(b, i)

BacklogGroups(b, u) ==
  {[epic |-> e, items |-> {i \in FilteredBacklog(b, u) : BacklogEpic(b, i) = e /\ i # e}] :
     e \in {BacklogEpic(b, i) : i \in FilteredBacklog(b, u)}}
=============================================================================
