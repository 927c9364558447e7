------------------------------ MODULE Timeline ------------------------------
(***************************************************************************)
(* The Timeline: the schedule the browser derives from dates, durations,   *)
(* prerequisites and completion, the rows it shows, and the geometry of    *)
(* the chart (in pixels).                                                  *)
(***************************************************************************)
EXTENDS PlanningSelection

CONSTANT Today

ASSUME TimelineAssumption == Today \in Days

Smallest(S) == CHOOSE x \in S : \A y \in S : x <= y

Least(x, y) == IF x < y THEN x ELSE y
Most(x, y) == IF x > y THEN x ELSE y

(* Math.round of a quotient.                                               *)
Rounded(x, y) == (2 * x + y) \div (2 * y)

-----------------------------------------------------------------------------
(* The schedule of one ticket *)

PlannedDays(row) ==
  IF row.duration > 0 THEN row.duration ELSE IF row.type = "epic" THEN 1 ELSE 3

(* Its start, or that of its due date and duration, or its creation.       *)
PlannedStart(row) ==
  IF row.start # NoDay THEN row.start
  ELSE IF row.due # NoDay THEN AddDays(row.due, -PlannedDays(row))
  ELSE FirstDay(row.created, Today)

DueAfter(start, due) == IF due # NoDay /\ due <= start THEN AddDays(start, 1) ELSE due

GanttBase(b, i) ==
  LET row == b.tickets[i]
  IN [plannedStart |-> PlannedStart(row),
      due |-> DueAfter(PlannedStart(row),
                       FirstDay(row.due, AddDays(PlannedStart(row), PlannedDays(row)))),
      actualFinish |-> IF InDone(b, i) THEN row.finished ELSE NoDay]

ReadyAt(base) == FirstDay(base.actualFinish, base.due)

(* The days on which the prerequisites are finished.                       *)
GanttDependencyReady(b, i) == {ReadyAt(GanttBase(b, d)) : d \in DependencyTickets(b, i)} \ {NoDay}

EpicHasOwnTimelineConfig(b, e) == b.tickets[e].start # NoDay \/ b.tickets[e].due # NoDay

Dated(base) == ValidDate(base.plannedStart) /\ ValidDate(base.due)

(* An Epic without dates has a task only in an opened chain.               *)
HasTask(b, d, i) ==
  /\ IsEpic(b, i) => EpicHasOwnTimelineConfig(b, i) \/ i \in d.ids
  /\ Dated(GanttBase(b, i))

(* A late bar gets a delay, and an estimate while it is open.              *)
Bar(i, base, start, due, finish, late, rest) ==
  [ticket |-> i, start |-> start, due |-> due,
   end |-> IF finish # NoDay /\ finish < due THEN finish ELSE due,
   actualFinish |-> finish, plannedStart |-> base.plannedStart,
   readyAt |-> FirstDay(finish, due), delayEnd |-> late,
   estimateEnd |-> IF late # NoDay /\ finish = NoDay THEN AddDays(late, rest) ELSE NoDay]

LateUntil(due, finish) ==
  IF finish # NoDay THEN (IF finish > due THEN finish ELSE NoDay)
  ELSE IF Today > due THEN Today ELSE NoDay

FinishFrom(start, finish) == IF finish # NoDay THEN Most(finish, start) ELSE NoDay

BarFrom(b, base, i, start, due, length) ==
  Bar(i, base, start, due, FinishFrom(start, base.actualFinish),
      LateUntil(due, FinishFrom(start, base.actualFinish)),
      IF b.tickets[i].duration > 0 THEN b.tickets[i].duration ELSE length)

(* Mutant: a bar keeps its due date although its prerequisites finish      *)
(* after it.                                                               *)
GanttTaskMutant(b, i, base, ready) ==
  LET start == IF ready = {} THEN base.plannedStart ELSE Greatest(ready)
  IN BarFrom(b, base, i, start, base.due, Most(1, base.due - base.plannedStart))

(* The bar of a task: it starts when its prerequisites are ready and keeps *)
(* its length, at least a day, when that moves it beyond its due date.     *)
GanttTask(b, i, base, ready) ==
  LET start == IF ready = {} THEN base.plannedStart ELSE Greatest(ready)
      length == Most(1, base.due - base.plannedStart)
      due == IF base.due <= start THEN AddDays(start, length) ELSE base.due
  IN BarFrom(b, base, i, start, due, length)

(* baseById: the bars of the tickets with a task.                          *)
GanttTasks(b, d, work) ==
  [i \in {x \in work : HasTask(b, d, x)} |->
     GanttTask(b, i, GanttBase(b, i), GanttDependencyReady(b, i))]

EpicBar(e, start, due, latest, forecasts) ==
  LET end == IF latest <= start THEN DueAfter(start, due) ELSE latest
  IN [ticket |-> e, start |-> start, due |-> DueAfter(start, due), end |-> end,
      actualFinish |-> NoDay, plannedStart |-> start, readyAt |-> end, delayEnd |-> NoDay,
      estimateEnd |-> IF \E f \in forecasts : f > latest THEN Greatest(forecasts) ELSE NoDay]

(* The row of an Epic spans its tasks and its own dates.                   *)
GanttEpicAggregate(b, e, tasks) ==
  LET days == (UNION {{t.start, t.end, t.due, t.readyAt, t.delayEnd} : t \in tasks}) \ {NoDay}
  IN EpicBar(e, Smallest(days), FirstDay(b.tickets[e].due, Greatest(days)), Greatest(days),
             {t.estimateEnd : t \in tasks} \ {NoDay})

-----------------------------------------------------------------------------
(* The rows *)

(* The rows of a Sprint only, unless a chain is open.                      *)
TimelineSprintRowsFiltered(b, u, d) ==
  /\ u.view = "timeline" /\ u.only
  /\ SelectedPlanningSprint(b, u) # NoSprint /\ d.ids = NoChain

Touches(base, sprint) ==
  Dated(base) /\ base.plannedStart < sprint.endExclusive /\ base.due >= sprint.start

(* Planned dates decide, delays do not; the Epics above come along.        *)
TimelineVisibleWork(b, u, d) ==
  LET planned == {i \in d.work :
                    /\ Touches(GanttBase(b, i), SelectedPlanningSprint(b, u))
                    /\ IsEpic(b, i) => /\ EpicHasOwnTimelineConfig(b, i)
                                       /\ DescendantTickets(b, i) = {}}
      parents == {b.tickets[i].parent : i \in planned} \intersect DOMAIN b.tickets
  IN IF TimelineSprintRowsFiltered(b, u, d)
     THEN planned \union (WorkTickets(b) \intersect {TopEpicFor(b, p) : p \in parents})
     ELSE d.work

(* The rows of one Epic, and the opened chain.                             *)
TimelineFilteredWork(b, u, d) ==
  {i \in TimelineVisibleWork(b, u, d) :
     d.focusIds # NoChain \/ u.epic = 0 \/ i \in d.ids \/ u.epic \in {i, TopEpicFor(b, i)}}

(* Newer references first, below them in order.                            *)
TimelineTreeOrder(b, i, j) ==
  LET s == b.tickets[i].ref
      t == b.tickets[j].ref
  IN \/ s[1] > t[1]
     \/ s[1] = t[1] /\ Before(s, t)
     \/ s = t /\ TicketOrder(b, i, j)

TimelineChildTickets(b, p) ==
  LET less(i, j) == TimelineTreeOrder(b, i, j)
  IN Sorted(ChildTickets(b, p, WorkTickets(b)), less)

(* The tasks below a ticket, each before those below it.                   *)
TimelineDescendants(b, e, tasks) ==
  LET size == Cardinality(DOMAIN b.tickets)
      below[n \in 0 .. size] ==
        [p \in DOMAIN b.tickets |->
           IF n = 0 THEN <<>>
           ELSE FlattenSeq([k \in DOMAIN TimelineChildTickets(b, p) |->
                  LET child == TimelineChildTickets(b, p)[k]
                  IN (IF child \in tasks THEN <<child>> ELSE <<>>) \o below[n - 1][child]])]
  IN below[size][e]

(* The indentation in the group of an Epic, at most 4.                     *)
TimelineDepth(b, i, e) ==
  LET above(j) == ParentOf(b, j) \ {e}
      depth == Cardinality(Walk(b, above, above(i))) + 1
  IN IF depth > 4 THEN 4 ELSE depth

(* The tasks an Epic row spans: those below it, and its own dates.         *)
EpicTasks(b, u, d, e, tasks) ==
  LET own == \/ /\ EpicHasOwnTimelineConfig(b, e)
                /\ TimelineSprintRowsFiltered(b, u, d) => DescendantTickets(b, e) = {}
             \/ DescendantTickets(b, e) \intersect tasks = {} /\ e \in d.ids
  IN (DescendantTickets(b, e) \union (IF own THEN {e} ELSE {})) \intersect tasks

ScheduledBefore(b, i, j, s, t) ==
  \/ s.start < t.start
  \/ s.start = t.start /\ s.due < t.due
  \/ s.start = t.start /\ s.due = t.due /\ TicketOrder(b, i, j)

(* The tasks of an Epic in the order of the tree, a chain by its stages.   *)
EpicChildren(steps, tree) ==
  LET place(i, j) == Place(tree, i) < Place(tree, j)
      less(i, j) == PlanningCompare(steps, i, j, place)
  IN Sorted(Range(tree), less)

(* Mutant: tasks below an Epic are listed again among those without one.   *)
BuildGanttRowsMutant(b, u, d, work, bars) ==
  LET manual(i, j) == TicketOrder(b, i, j)
      epics == Sorted({TopEpicFor(b, i) : i \in DOMAIN bars} \ {0}, manual)
      group(e) == <<e>> \o TimelineDescendants(b, e, DOMAIN bars)
  IN FlattenSeq([k \in DOMAIN epics |-> group(epics[k])])
       \o Sorted({i \in DOMAIN bars : ~IsEpic(b, i)}, manual)

(* The tickets of the rows from top to bottom: every Epic with tasks, the  *)
(* tasks below it unless it is collapsed, then those without an Epic by    *)
(* their dates.                                                            *)
BuildGanttRows(b, u, d, work, bars) ==
  LET manual(i, j) == TicketOrder(b, i, j)
      dates(i, j) == ScheduledBefore(b, i, j, bars[i], bars[j])
      schedule(i, j) == PlanningCompare(d.steps, i, j, dates)
      epics == Sorted({e \in {TopEpicFor(b, i) : i \in work} \ {0} :
                         EpicTasks(b, u, d, e, DOMAIN bars) # {}}, manual)
      group(e) == <<e>> \o (IF e \in u.collapsed THEN <<>>
                            ELSE EpicChildren(d.steps, TimelineDescendants(b, e, DOMAIN bars)))
  IN FlattenSeq([k \in DOMAIN epics |-> group(epics[k])])
       \o Sorted({i \in DOMAIN bars : TopEpicFor(b, i) = 0}, schedule)

(* The bars of those rows.                                                 *)
GanttBars(b, u, d, bars, rows) ==
  {IF TopEpicFor(b, i) = i
   THEN GanttEpicAggregate(b, i, {bars[x] : x \in EpicTasks(b, u, d, i, DOMAIN bars)})
   ELSE bars[i] : i \in Range(rows)}

-----------------------------------------------------------------------------
(* The chart *)

LeftPad == 88     \* GANTT_LEFT_PAD
RightPad == 16    \* GANTT_RIGHT_PAD

NoRange == [start |-> NoDay, endExclusive |-> NoDay]

RangeAround(days) == [start |-> Smallest(days) - 1, endExclusive |-> Greatest(days) + 2]

(* A focused chain shows its own days, a day before them and one after.    *)
DependencyTimelineRange(b, d, drawn) ==
  LET tasks == {t \in drawn : TopEpicFor(b, t.ticket) # t.ticket \/ t.ticket \in d.focusIds}
      days == (UNION {{t.plannedStart, t.start, t.due, t.actualFinish} : t \in tasks}) \ {NoDay}
  IN IF d.focusIds = NoChain \/ days = {} THEN NoRange ELSE RangeAround(days)

(* The range of the chart: the focused chain, the Sprint, or all bars.     *)
ChartRangeOf(focus, sprint, days) ==
  IF focus # NoRange THEN focus
  ELSE IF sprint # NoSprint THEN [start |-> sprint.start, endExclusive |-> sprint.endExclusive]
  ELSE IF days = {} THEN [start |-> Today - 1, endExclusive |-> Today + 16]
  ELSE RangeAround(days)

ChartRange(b, u, d, drawn) ==
  ChartRangeOf(DependencyTimelineRange(b, d, drawn), SelectedPlanningSprint(b, u),
    (UNION {{t.plannedStart, t.start, t.end, t.due, t.actualFinish, t.readyAt, t.delayEnd,
             t.estimateEnd} : t \in drawn}) \ {NoDay})

(* Between 10 and 90 pixels a day, and the zoom in percent.  A focused     *)
(* Sprint or chain fits the viewport exactly, which is left out.           *)
TimelineGeometry(range, viewport, zoom) ==
  LET days == Most(1, range.endExclusive - range.start)
      fitted == (Most(1, viewport - LeftPad - RightPad) * zoom) \div (100 * days)
      width == Most(10, Least(90, fitted))
  IN [start |-> range.start, days |-> days, dayWidth |-> width,
      width |-> Most(viewport, days * width + LeftPad + RightPad)]

(* The scroll offset that centers a day, as far as the chart reaches.      *)
TimelineScrollForDate(g, day, viewport) ==
  Most(0, Least(Most(0, g.width - viewport),
                LeftPad + (day - g.start) * g.dayWidth - viewport \div 2))

TimelineDateAtScrollCenter(g, scroll, viewport) ==
  g.start + Most(0, Rounded(scroll + viewport \div 2 - LeftPad, g.dayWidth))

(* The day nearest to the pointer, and a tag with its date that stays      *)
(* between the visible edges.                                              *)
GanttCursorAtX(g, x, left, right, label) ==
  LET day == Most(0, Least(g.days, Rounded(x - LeftPad, g.dayWidth)))
      low == Most(4, left + 4)
      high == Least(g.width - 4, right - 4)
      w == Least(Most(104, label), Most(60, high - low))
      at == LeftPad + day * g.dayWidth
  IN [day |-> day, x |-> at, tagWidth |-> w,
      tagX |-> Most(low, Least(at - w \div 2, high - w))]
=============================================================================
