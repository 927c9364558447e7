----------------------------- MODULE MCPlanning ------------------------------
(***************************************************************************)
(* Boards and scenarios of the planning workspace.  Day 22 is today; the   *)
(* Sprints of the first board start at day 10 and take one week.           *)
(***************************************************************************)
EXTENDS PlanningProperties

MCLastDay == 80
MCToday == 22

Row(type, parent, column, position, n) ==
  [type |-> type, parent |-> parent, column |-> column, position |-> position, ref |-> <<n>>,
   backlog |-> type = "idea", archived |-> FALSE, deleted |-> FALSE, links |-> {},
   start |-> NoDay, due |-> NoDay, duration |-> 0, created |-> 18, finished |-> NoDay,
   meets |-> {}]

Weekly == [start |-> 10, weeks |-> 1]
Unplanned == [start |-> NoDay, weeks |-> 2]

Columns == <<"to do", "in progress", "review", "done">>

(* Two Epics, a chain 3 - 4 - {6, 7} across them and a task without an     *)
(* Epic, a late task, work before Sprint 1, a Backlog with its own Epic.   *)
Kanban ==
  [board |-> 1, columns |-> Columns, cadence |-> Weekly, tickets |->
     << Row("epic", 0, 2, 1, 1),
        [Row("story", 1, 1, 2, 2) EXCEPT !.start = 12, !.duration = 4],
        [Row("task", 2, 4, 1, 3) EXCEPT !.due = 13, !.finished = 14, !.meets = {"search"}],
        [Row("task", 1, 2, 4, 4) EXCEPT !.links = {3}, !.start = 15, !.due = 19, !.ref = <<1, 4>>],
        [Row("epic", 0, 1, 2, 5) EXCEPT !.start = 20, !.due = 40],
        [Row("bug", 5, 1, 3, 6) EXCEPT !.links = {4}, !.duration = 5],
        [Row("task", 0, 3, 3, 7) EXCEPT !.links = {3, 4, 5}, !.due = 17, !.meets = {"search"}],
        Row("idea", 0, 1, 1, 8),
        [Row("epic", 0, 1, 1, 9) EXCEPT !.backlog = TRUE],
        [Row("task", 9, 1, 1, 10) EXCEPT !.backlog = TRUE],
        [Row("task", 5, 1, 1, 11) EXCEPT !.due = 18] >>]

(* The other client archived the middle of the chain and reopened a task   *)
(* below a finished story.                                                 *)
Cut == [Kanban EXCEPT !.tickets[4].archived = TRUE, !.tickets[2].column = 4,
                      !.tickets[3].column = 2]

(* The first Epic is completed, the chain runs through it.                 *)
Completed ==
  [Kanban EXCEPT !.tickets[1].column = 4, !.tickets[2].column = 4, !.tickets[4].column = 4,
                  !.tickets[4].finished = 21]

(* Imported: a dependency circle, custom columns, a completed Epic with    *)
(* open work, a prerequisite in the Backlog, an archived parent.           *)
Imported ==
  [board |-> 2, columns |-> <<"later", "qa", "in progress", "shipping", "done">>,
   cadence |-> Unplanned, tickets |->
     << Row("epic", 0, 1, 1, 1),
        [Row("task", 1, 1, 1, 2) EXCEPT !.links = {4}, !.due = 30],
        [Row("task", 1, 2, 2, 3) EXCEPT !.links = {2}],
        [Row("task", 0, 3, 3, 4) EXCEPT !.links = {3, 6}],
        [Row("bug", 7, 3, 1, 5) EXCEPT !.links = {4}, !.start = 25],
        [Row("task", 0, 5, 4, 6) EXCEPT !.finished = 20],
        Row("epic", 0, 5, 2, 7),
        [Row("story", 1, 1, 1, 8) EXCEPT !.archived = TRUE],
        [Row("task", 8, 2, 5, 9) EXCEPT !.links = {10}],
        [Row("task", 0, 1, 1, 10) EXCEPT !.backlog = TRUE] >>]

Boards == [i \in {1, 2} |-> IF i = 1 THEN Kanban ELSE Imported]

MCBoardData == [i \in {1, 2} |-> IF i = 1 THEN {Cut, Completed} ELSE {}]

MCHashes ==
  {BuildRoute("timeline", 1, 0, 2), BuildRoute("overview", 0, 0, 9), BuildRoute("board", 2, 0, 1),
   <<Word("ideas"), Word("sprint"), Number(3)>>, <<Word("board"), Word("sprint"), Word("x"), Number(1)>>}

MCTaskFilters == {[NoFilters EXCEPT !.fields = {"search"}], [NoFilters EXCEPT !.dependency = "blocked"],
                  [NoFilters EXCEPT !.dependency = "blocking", !.type = "task"]}

MCTableFilters == {[NoTableFilters EXCEPT !.type = "bug"], [NoTableFilters EXCEPT !.status = 2],
                   [NoTableFilters EXCEPT !.search = TRUE]}

MCPlans == {<<10, 1>>, <<24, 2>>, <<NoDay, 1>>}

Does(may, left, view, stored) == [may |-> may, left |-> left, view |-> view, server |-> stored]

(* Columns of every kind in every order.                                   *)
Names == {"to do", "in progress", "review", "done", "qa"}

Workflows ==
  LET gate == [Kanban EXCEPT !.tickets =
                 << Row("epic", 0, 1, 1, 1), Row("task", 1, 2, 1, 2),
                    [Row("task", 1, 1, 2, 3) EXCEPT !.links = {2}] >>]
  IN {[i \in {1} |-> [gate EXCEPT !.columns = columns]] :
        columns \in {c \in [1 .. 4 -> Names] : c[1] # "done"}}

MCScenarios ==
  {Does({}, 0, "board", stored) : stored \in Workflows}
    \union {Does({"chain", "sort", "epic", "filter"}, 3, view, Boards) : view \in PlanningViews}
    \union {Does({"chain", "sort", "epic", "nav"}, 3, view, [Boards EXCEPT ![1] = Completed]) :
              view \in {"board"}}
    \union {Does({"chain", "sprint", "page", "nav"}, 3, view, Boards) : view \in {"board", "timeline"}}
    \union {Does({"sprint", "rows", "timelineEpic", "reset"}, 3, "timeline", Boards)}
    \union {Does({"page", "route"}, 3, "board", Boards)}
    \union {Does({"table", "column", "chain", "reset"}, 3, "overview", Boards)}
    \union {Does({"route", "choose", "chain", "fail", "backlog"}, 3, "board", Boards)}
    \union {Does({"change", "refresh", "chain", "home", "sharing"}, 3, "board", Boards)}
    \union {Does({"plan", "refresh", "choose", "fail"}, 4, "board", Boards)}
    \union {Does({"plan", "nav", "page"}, 4, "board", Boards)}

(* The dates of these boards are far from the last one.                    *)
ASSUME DatesHold
=============================================================================
