------------------------- MODULE PlanningSelection --------------------------
(***************************************************************************)
(* What the planning views select from the loaded board b under the        *)
(* choices u of the user: task filters, one Sprint, one dependency chain,  *)
(* and the order of the tasks.                                             *)
(***************************************************************************)
EXTENDS WorkTree, DependencyHover, Routes

NoFilters == [type |-> "", fields |-> {}, dependency |-> ""]

NoTableFilters == [type |-> "", status |-> 0, search |-> FALSE]

ActiveTaskFilters(u) ==
  u.filters.fields \union (IF u.filters.type # "" THEN {"typeFilter"} ELSE {})
    \union (IF u.filters.dependency # "" THEN {"dependencyFilter"} ELSE {})

MatchesDependencyFilter(b, i, value) ==
  /\ value = "blocking" => i \in BlockingTicketIds(b)
  /\ value = "blocked" => UnfinishedDependencies(b, i) # {}

Filtered(b, u) ==
  {i \in DOMAIN b.tickets :
     /\ Stored(b.tickets[i])
     /\ u.filters.type \in {"", b.tickets[i].type}
     /\ u.filters.fields \subseteq b.tickets[i].meets
     /\ MatchesDependencyFilter(b, i, u.filters.dependency)}

FilteredWork(b, u) == {i \in Filtered(b, u) : ~IsBacklogTicket(b.tickets[i])}

-----------------------------------------------------------------------------
(* The Sprint *)

Loading(b, u) == u.wanted # 0 /\ b.board # 0 /\ u.wanted # b.board

(* The Sprint of a route or of another board is ignored.                   *)
SelectedPlanningSprint(b, u) ==
  IF u.view \notin PlanningViews \/ Loading(b, u) \/ u.sprintBoard \notin {0, b.board}
  THEN NoSprint
  ELSE SprintByNumber(u.sprint, b.cadence)

(* The tasks of the Sprint, and its Epics without work below them.         *)
SprintTasks(b, S, n) ==
  {i \in S : /\ TicketSprint(b.tickets[i], b.cadence).number = n
             /\ IsEpic(b, i) => DescendantTickets(b, i) = {}}

WithEpics(b, S) == WorkTickets(b) \intersect (S \union UNION {EpicsAbove(b, i) : i \in S})

(* Board and Overview: the tasks of the Sprint, and the Epics above what   *)
(* is shown.                                                               *)
SprintFilteredWork(b, u, S) ==
  IF u.view = "timeline" \/ SelectedPlanningSprint(b, u) = NoSprint THEN S
  ELSE WithEpics(b, SprintTasks(b, S, u.sprint))

-----------------------------------------------------------------------------
(* The dependency chain *)

(* Prerequisite and dependent, both among the tickets N.                   *)
DependencyHoverEdges(b, N) ==
  LET active == {i \in N : Stored(b.tickets[i]) /\ ~IsIdea(b.tickets[i])}
  IN {e \in active \X active : e[1] \in b.tickets[e[2]].links /\ e[1] # e[2]}

NoChain == {}

(* The tasks connected with the opened one; none while the focus belongs   *)
(* to another board or its task is not among the work of the Sprint.       *)
ConnectedDependencyIds(b, u, work) ==
  IF u.focus = 0 \/ u.focusBoard # b.board \/ u.focus \notin work THEN NoChain
  ELSE Related(DependencyHoverEdges(b, work), u.focus)

DependencyViewIds(b, u) == ConnectedDependencyIds(b, u, SprintFilteredWork(b, u, WorkTickets(b)))

(* The stages the tasks are sorted by, empty in the normal order.          *)
DependencyOrderSteps(b, u, ids, work) ==
  IF u.sort = "normal" \/ ids = NoChain THEN <<>>
  ELSE DependencySteps({e \in DependencyHoverEdges(b, work) : {e[1], e[2]} \subseteq ids}, u.focus)

(* The numbered tasks come first, by their stage.                          *)
PlanningCompare(steps, i, j, Fallback(_, _)) ==
  IF {i, j} \subseteq DOMAIN steps /\ steps[i] # steps[j] THEN steps[i] < steps[j]
  ELSE IF i \in DOMAIN steps /\ j \notin DOMAIN steps THEN TRUE
  ELSE IF j \in DOMAIN steps /\ i \notin DOMAIN steps THEN FALSE
  ELSE Fallback(i, j)

(* What the planning views show: the filtered work, and of an opened chain *)
(* all of it with the Epics above.                                         *)
PlanningWork(b, u, ids) ==
  IF ids = NoChain THEN SprintFilteredWork(b, u, FilteredWork(b, u))
  ELSE SprintFilteredWork(b, u, WorkTickets(b) \intersect
         ((IF u.focused THEN {} ELSE FilteredWork(b, u)) \union ids
            \union UNION {EpicsAbove(b, i) : i \in ids}))

(* What one rendering computes once and all its parts use.                 *)
DependencySnapshot(b, u, ids, work) ==
  [ids |-> ids, focusIds |-> IF u.focused THEN ids ELSE NoChain,
   steps |-> DependencyOrderSteps(b, u, ids, work), work |-> PlanningWork(b, u, ids)]

Snapshot(b, u) ==
  DependencySnapshot(b, u, DependencyViewIds(b, u), SprintFilteredWork(b, u, WorkTickets(b)))

-----------------------------------------------------------------------------
(* What rendering changes *)

(* The Sprint strip browses the saved cadence of one board.                *)
NoPage == [board |-> 0, cadence |-> [start |-> NoDay, weeks |-> 0], first |-> 0]

StripIsStale(b, u) == u.strip.board # b.board \/ u.strip.cadence # b.cadence

SprintStripFirstNumber(b, u) ==
  IF u.strip # NoPage /\ ~StripIsStale(b, u) THEN u.strip.first
  ELSE IF SelectedPlanningSprint(b, u) # NoSprint THEN u.sprint ELSE 0

(* Selecting code drops what the board does not have: the Sprint, the page *)
(* of the strip, the Epic of the timeline ...                              *)
SettledSelection(b, u) ==
  [u EXCEPT !.sprint = IF SelectedPlanningSprint(b, u) = NoSprint THEN 0 ELSE @,
            !.sprintBoard = b.board,
            !.strip = IF HasCadence(b.cadence) /\ StripIsStale(b, u) THEN NoPage ELSE @,
            !.epic = IF u.view = "timeline" /\ ~(@ \in WorkTickets(b) /\ IsEpic(b, @)) THEN 0 ELSE @]

(* ... and the opened task.                                                *)
SettledFocus(b, u) ==
  LET gone == u.focus # 0 /\ u.focusBoard = b.board /\ DependencyViewIds(b, u) = NoChain
  IN [u EXCEPT !.focus = IF gone THEN 0 ELSE @, !.focused = @ /\ ~gone]

Settled(b, u) ==
  IF u.view \notin PlanningViews \/ Loading(b, u) THEN u
  ELSE SettledFocus(b, SettledSelection(b, u))

(* Opening a chain shows all of it.                                        *)
Expanded(b, u, ids) == [u EXCEPT !.collapsed = @ \ {TopEpicFor(b, i) : i \in ids}]
=============================================================================
