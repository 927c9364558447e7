------------------------- MODULE PlanningProperties --------------------------
(***************************************************************************)
(* What the planning workspace must do, over the board that is loaded and  *)
(* the choices made in it.                                                 *)
(***************************************************************************)
EXTENDS Planning

(* The server's rules for this board.                                      *)
Server == INSTANCE TicketRules
  WITH ColumnNames <- board.columns, RepeatDays <- {0},
       MaxTickets <- Greatest({1} \union DOMAIN board.tickets)

Shows(view) == ui.view = view /\ ~ui.blank /\ ui.wanted = board.board

T == board.tickets

(* What depends on the board alone is looked at before anything is chosen. *)
Untouched ==
  /\ Shows("board") /\ load = 0
  /\ ui.focus = 0 /\ ui.sprint = 0 /\ ui.collapsed = {} /\ ui.filters = NoFilters
  /\ plan.draft = NoDraft /\ plan.saves = {}

Epic(i) == TopEpicFor(board, i)

(* One rendering of the page ...                                           *)
Drawn == Snapshot(board, ui)

(* ... and of the Timeline.                                                *)
Schedule(d) == GanttTasks(board, d, TimelineFilteredWork(board, ui, d))

RowsOf(d, bars) == BuildGanttRows(board, ui, d, TimelineFilteredWork(board, ui, d), bars)

BarsOf(d, bars) == GanttBars(board, ui, d, bars, RowsOf(d, bars))

(* The choices of the user and the Sprint plan.                            *)
PageChoices ==
  [view : RouteViews, wanted : Nat \ {0}, sprint : Nat, sprintBoard : Nat,
   strip : [board : Nat, cadence : StoredCadences, first : Nat],
   focus : Nat, focusBoard : Nat, focused : BOOLEAN, sort : {"dependencies", "normal"},
   collapsed : SUBSET Nat, epic : Nat, only : BOOLEAN, filters : TaskFilters \union {NoFilters},
   table : TableFilters \union {NoTableFilters},
   order : [key : SortKeys, descending : BOOLEAN], blank : BOOLEAN]

Typed == [board : Nat, start : Days \union {NoDay}, weeks : Int]

PlanStates ==
  [draft : Typed, fields : Typed, saving : BOOLEAN, cards : BOOLEAN,
   saves : SUBSET [id : Nat, board : Nat \ {0}, start : Days, weeks : 1 .. 52,
                   stage : {"put", "served", "load", "late"}, shown : BOOLEAN, fresh : BOOLEAN]]

(* Every variable has its type.  Code: the declarations of app.js.         *)
TypeOK ==
  /\ \A i \in DOMAIN server : IsBoard(server[i]) /\ server[i].board = i
  /\ IsBoard(board) /\ board.board \in DOMAIN server
  /\ load \in {0} \union DOMAIN server
  /\ ui \in PageChoices /\ ui.wanted \in DOMAIN server
  /\ plan \in PlanStates /\ \A s \in plan.saves : s.board \in DOMAIN server
  /\ user \in [may : SUBSET Ops, left : Nat]

-----------------------------------------------------------------------------
(* Addresses, the Sprint and the chain *)

(* Opening the address again leads to the page: its view, its board and    *)
(* its Sprint, whatever was clicked, typed or answered before.  Code:      *)
(* syncRoute after every change, buildRoute and parseRoute.                *)
AddressNamesThePage ==
  LET r == ParseRoute(url)
  IN /\ r.view = ui.view /\ r.ticket = 0
     /\ r.board \in {0, ui.wanted} /\ (r.board = 0 => ui.wanted = board.board)
     /\ r.sprint = IF ui.view \in PlanningViews THEN ui.sprint ELSE 0

HiddenByCollapse(b, u) == {i \in DependencyViewIds(b, u) : TopEpicFor(b, i) \in u.collapsed}

(* While one board is chosen, no choice made in the planning views puts a  *)
(* task of the open chain into a collapsed Epic: opening expands,          *)
(* collapsing closes.  And a Sprint that gets selected has its card in the *)
(* strip, whichever page of it was open.  Code: openDependencies,          *)
(* toggleDependencyFocus, toggleEpic, applyPlanningSprintSelection,        *)
(* applyRoute.                                                             *)
SelectionStaysInSight ==
  [][/\ (board' = board /\ ui'.wanted = ui.wanted /\ {ui.view, ui'.view} \subseteq PlanningViews
            /\ HiddenByCollapse(board, ui) = {})
          => HiddenByCollapse(board', ui') = {}
     /\ (ui'.sprint \notin {0, ui.sprint} /\ ~ui'.blank /\ StripSprints' # {})
          => \E s \in StripSprints' : s.number = ui'.sprint]_vars

ChainIsConnected(chain, work) ==
  LET links == {e \in work \X work : e[1] \in T[e[2]].links \/ e[2] \in T[e[1]].links}
  IN /\ ui.focus \in chain /\ \A e \in links : e[1] \in chain => e[2] \in chain
     /\ \A S \in (SUBSET chain) \ {chain} :
          ui.focus \in S => \E e \in links : e[1] \in S /\ e[2] \in chain \ S

(* What a chain consists of, on the screen or not.                         *)
ChainIsWhole ==
  Chain # NoChain =>
    LET work == SprintFilteredWork(board, ui, WorkTickets(board))
    IN Chain \subseteq work /\ ChainIsConnected(Chain, work)

(* A linked Epic that the Sprint has for tasks below it, all of them       *)
(* filtered out.                                                           *)
LeftOut(d, e) ==
  /\ e \notin d.work /\ ui.sprint # 0 /\ (ui.focused \/ ActiveTaskFilters(ui) # {})
  /\ \E i \in SprintTasks(board, WorkTickets(board), ui.sprint) : e \in EpicsAbove(board, i)

ChainIsShown(d, seen) ==
  /\ \A i \in d.ids \ seen :
       \/ Epic(i) \in ui.collapsed \/ LeftOut(d, i)
       \/ ui.view = "board" /\ Epic(i) # 0 /\ BoardEpicCompleted(board, Epic(i))
       \/ ui.view = "timeline" /\ ~HasTask(board, d, i)
  /\ d.ids \subseteq seen =>
       Related(DependencyHoverEdges(board, d.work \intersect seen), ui.focus) = d.ids

(* The chain is everything connected with the opened task among the work   *)
(* of the Sprint, in both directions; its tasks are on the screen unless   *)
(* their Epic is collapsed, completed (Board) or without dates (Timeline), *)
(* whatever the filters say; when all are, the drawing marks them all; and *)
(* on the Timeline no Sprint cuts it.  An Epic of the chain may fall out   *)
(* of its Sprint with its tasks.  Code: dependencyViewIds, planningWork,   *)
(* sprintFilteredWork, overviewRows, openDependencies, the navigation.     *)
ChainIsComplete ==
  ui.view \in PlanningViews /\ Shows(ui.view) /\ Chain # NoChain =>
    /\ ChainIsWhole
    /\ ChainIsShown(Drawn, Shown(board, ui, Drawn))
    /\ ui.view = "timeline" => ui.sprint = 0

(* What a Sprint shows on the Board.                                       *)
SprintWork(n) ==
  LET picked == [ui EXCEPT !.view = "board", !.wanted = board.board,
                             !.sprint = n, !.sprintBoard = board.board]
  IN SprintFilteredWork(board, picked, WorkTickets(board))

WorkIsDivided(numbers) ==
  \A i \in WorkTickets(board) : ~IsEpic(board, i) =>
    LET at == {n \in numbers : i \in SprintWork(n)}
        finish == TicketPlannedFinish(T[i])
    IN /\ Cardinality(at) <= 1
       /\ \A n \in at : finish \in SprintByNumber(n, board.cadence).start
                                    .. SprintByNumber(n, board.cadence).end
       /\ (finish >= board.cadence.start /\ AddDays(finish, Span(board.cadence)) # NoDay)
            => at # {}

(* The Sprints divide the work: selecting them one after the other shows   *)
(* every planned task once.                                                *)
SprintsDivideTheWork ==
  HasCadence(board.cadence) =>
    WorkIsDivided({n \in {TicketSprint(T[i], board.cadence).number : i \in WorkTickets(board)} :
                     SprintByNumber(n, board.cadence) # NoSprint})

-----------------------------------------------------------------------------
(* Board, Overview and Timeline *)

OpenWorkIsOnTheBoard(d, lanes) ==
  /\ \A i \in d.work :
       (~IsEpic(board, i) /\ ~InDone(board, i) /\ T[i].column \in DOMAIN board.columns) =>
         Cardinality({lane \in lanes : i \in lane.items}) = 1
  /\ \A e \in FilteredWork(board, ui) \intersect d.work :
       (IsEpic(board, e) /\ ~ui.focused) =>
         e \in BoardCompactEpics(board, ui, d, lanes) \union {lane.epic : lane \in lanes}

(* No planned task is in two Sprints or in none; on the Board open work is *)
(* in exactly one lane, below a completed Epic too; and task filters hide  *)
(* work only while one of them is listed as active.  Code: sprintForDate,  *)
(* sprintFilteredWork, boardWorkflowSwimlanes, boardEpicCompleted          *)
(* ("inconsistent open child work stays visible"), filtered,               *)
(* activeTaskFilters.                                                      *)
NoWorkIsLost ==
  /\ ActiveTaskFilters(ui) = {} => FilteredWork(board, ui) = WorkTickets(board)
  /\ Untouched => SprintsDivideTheWork
  /\ Shows("board") => OpenWorkIsOnTheBoard(Drawn, BoardLanes(board, Drawn))

(* The tickets have one row each, below that of their Epic, and no other   *)
(* Epic comes in between.                                                  *)
GroupedOnce(rows, tickets) ==
  /\ IsInjective(rows)
  /\ \A i \in tickets : i \in Range(rows) \/ Epic(i) \in ui.collapsed
  /\ \A i \in Range(rows) : Epic(i) \notin {0, i} =>
       /\ Epic(i) \in Range(rows) /\ Place(rows, Epic(i)) < Place(rows, i)
       /\ \A e \in Range(rows) :
            Epic(e) = e => ~(Place(rows, Epic(i)) < Place(rows, e) /\ Place(rows, e) < Place(rows, i))

(* The rows of an Epic are indented along the tree, up to four steps.      *)
Indented(rows, Depth(_, _, _)) ==
  \A i \in Range(rows) : Epic(i) \notin {0, i} =>
    Depth(board, i, Epic(i)) =
      IF T[i].parent = Epic(i) THEN 1 ELSE Least(4, 1 + Depth(board, T[i].parent, Epic(i)))

(* Each row of the Overview and each dated task of the Timeline appears    *)
(* once, below its Epic, and one step deeper than its parent; so are the   *)
(* cards of the Board.  Code: overviewGroupedRows, overviewHierarchyDepth, *)
(* buildGanttRows, timelineDepth, boardCardDepth.                          *)
RowsShowEachOnce ==
  /\ Shows("overview") =>
       /\ GroupedOnce(OverviewRows(board, ui, Drawn), OverviewFiltered(board, ui, Drawn))
       /\ Indented(OverviewRows(board, ui, Drawn), OverviewHierarchyDepth)
  /\ Shows("timeline") =>
       /\ GroupedOnce(RowsOf(Drawn, Schedule(Drawn)),
                      {i \in DOMAIN Schedule(Drawn) : ~IsEpic(board, i)})
       /\ Indented(RowsOf(Drawn, Schedule(Drawn)), TimelineDepth)
  /\ Untouched => \A i \in WorkTickets(board) : Epic(i) \notin {0, i, T[i].parent} =>
       BoardCardDepth(board, i) = Least(3, 1 + BoardCardDepth(board, T[i].parent))

(* Rows, and which of them are compared: those below one Epic, or those    *)
(* without one.                                                            *)
Groups(rows) ==
  {[rows |-> rows, of |-> {i \in Range(rows) : i # e /\ Epic(i) = e}] : e \in {Epic(i) : i \in Range(rows)}}

Cell(cards) == [rows |-> cards, of |-> Range(cards)]

(* The lists whose order follows the chain: a cell of the Board, the rows  *)
(* of one Epic.                                                            *)
OrderedLists(d) ==
  CASE ui.view = "board" -> {Cell(BoardLaneColumnItems(board, d, lane, c)) :
                               lane \in BoardLanes(board, d), c \in DOMAIN board.columns}
    [] ui.view = "overview" -> Groups(OverviewRows(board, ui, d))
    [] ui.view = "timeline" -> Groups(RowsOf(d, Schedule(d)))

InStages(list, chain, numbered) ==
  LET rows == list.rows
  IN \A j, k \in DOMAIN rows : (j < k /\ {rows[j], rows[k]} \subseteq list.of) =>
       /\ rows[k] \in T[rows[j]].links => {rows[j], rows[k]} \ numbered # {}
       /\ rows[k] \in chain => rows[j] \in chain

LabelRank(step, last) ==
  CASE RoleForStep(step, last) = "prerequisite" -> 1
    [] RoleForStep(step, last) = "active" -> 2
    [] RoleForStep(step, last) = "dependent" -> 3

StagesGrow(drawn) ==
  \A e \in drawn.edges : {e[1], e[2]} \subseteq Numbered(drawn.edges) =>
    /\ drawn.steps[e[1]] < drawn.steps[e[2]]
    /\ StageColor(drawn.steps[e[1]], drawn.last) # StageColor(drawn.steps[e[2]], drawn.last)
    /\ LabelRank(drawn.steps[e[1]], drawn.last) <= LabelRank(drawn.steps[e[2]], drawn.last)

BrightEndsMeet(drawn) ==
  \A focus \in PointerFocus(drawn) :
    LET bright == IsolateConnection(drawn, focus)
    IN bright.tasks \subseteq drawn.related /\ Ends(bright.wires) \subseteq bright.tasks

DrawingReads(drawn) == StagesGrow(drawn) /\ BrightEndsMeet(drawn)

(* In dependency order every list puts a prerequisite of the chain before  *)
(* the tasks that need it and the chain before other tasks; along a drawn  *)
(* connection the stage grows and its label never runs back, in spite of   *)
(* cycles among imported links elsewhere; and under the pointer a bright   *)
(* wire has two bright ends.  Code: planningCompare, dependencySteps,      *)
(* roleForStep, isolateConnection.                                         *)
ChainReadsInOrder ==
  ui.view \in PlanningViews /\ Shows(ui.view) /\ Chain # NoChain =>
    /\ ui.sort = "dependencies" => \A list \in OrderedLists(Drawn) :
         InStages(list, Chain, Numbered(DependencyHoverEdges(board, Chain)))
    /\ DrawingReads(Draw(DependencyHoverEdges(board, Chain), Chain, ui.focus))

-----------------------------------------------------------------------------
(* The browser and the server *)

GateMatchesServer ==
  \A c \in DOMAIN board.columns :
    /\ ColumnRequiresCompletedDependencies(board, c)
         = Server!NeedsPrerequisites(c)
    /\ \A i \in WorkTickets(board) : T[i].column # c =>
         (BoardMoveBlockedTasks(board, i, c) # {}
            <=> Server!Blocked(T, T[i].links, c))

EpicAccepted(e, done) ==
  /\ Server!EpicsRespected([T EXCEPT ![e].column = done], e)
  /\ ~Server!Blocked(T, T[e].links, done)

(* Work below an archived or backlog ticket is seen by the server only.    *)
WaysUpAreWork == \A i \in WorkTickets(board) : T[i].parent \in {0} \union WorkTickets(board)

(* No way up runs in circles.                                              *)
WaysUpEnd == \A S \in SUBSET WorkTickets(board) : S # {} => \E i \in S : T[i].parent \notin S

(* Of several Done columns the browser knows the first only.               *)
OneDone == ColumnsNamed(board, "done") = {DoneColumn(board)}

EpicButtonMatchesServer ==
  DoneColumn(board) # 0 => \A e \in WorkTickets(board) : (IsEpic(board, e) /\ ~InDone(board, e)) =>
    /\ OneDone /\ EpicAccepted(e, DoneColumn(board)) => EpicCompletionState(board, e).allowed
    /\ WaysUpAreWork /\ EpicCompletionState(board, e).allowed => EpicAccepted(e, DoneColumn(board))

ParentsOfferedAreSafe ==
  WaysUpAreWork /\ WaysUpEnd =>
    \A i \in WorkTickets(board), type \in TicketTypes : \A p \in ParentCandidates(board, type, i) :
      ~Server!ParentWouldCreateCycle(T, i, p)

(* Where a card stored next to its neighbor comes to lie among the others. *)
StoredAt(others, to) ==
  IF to.before # 0 THEN Place(others, to.before) ELSE Place(others, to.after) + 1

EveryDropLands(cards) ==
  \A dragged \in Range(cards), n \in 1 .. Len(cards) :
    LET to == BoardDropPlacement(cards, n, dragged)
        others == RemoveFirst(cards, dragged)
    IN others # <<>> =>
         /\ {to.before, to.after} # {0} /\ {to.before, to.after} \subseteq {0} \union Range(others)
         /\ StoredAt(others, to) = n

(* The browser offers what the server does: a card that may be dropped is  *)
(* not refused for its prerequisites, for every set of columns, and comes  *)
(* to lie where it was shown although only one neighbor is sent; the       *)
(* button of an Epic is enabled when its completion is accepted, and then  *)
(* only if no ticket above work is archived or in the backlog; nor does a  *)
(* parent offered in the editor close a circle then.  Code:                *)
(* columnRequiresCompletedDependencies, boardMoveBlockedTasks,             *)
(* epicCompletionState, parentCandidates, boardDropPlacement; on the       *)
(* server blockedDependencies, validateEpicCompletion,                     *)
(* parentWouldCreateCycle.                                                 *)
BrowserMatchesServer ==
  /\ Untouched => GateMatchesServer /\ EpicButtonMatchesServer /\ ParentsOfferedAreSafe
  /\ Shows("board") => \A lane \in BoardLanes(board, Drawn), c \in DOMAIN board.columns :
       EveryDropLands(BoardLaneColumnItems(board, Drawn, lane, c))

-----------------------------------------------------------------------------
(* The chart *)

SoundBars(d, bars, drawn) ==
  \A t \in drawn :
    /\ t.start < t.due /\ t.start <= t.end
    /\ t.delayEnd # NoDay => t.delayEnd >= t.due /\ t.delayEnd >= t.end
    /\ t.estimateEnd # NoDay => t.estimateEnd > t.delayEnd
    /\ IF Epic(t.ticket) = t.ticket
       THEN /\ t.estimateEnd # NoDay => t.estimateEnd > t.end
            /\ \A i \in EpicTasks(board, ui, d, t.ticket, DOMAIN bars) :
                 /\ t.start <= bars[i].start /\ bars[i].end <= t.end
                 /\ bars[i].readyAt <= t.readyAt
       ELSE /\ t.estimateEnd # NoDay => t.estimateEnd > t.due
            /\ \A ready \in GanttDependencyReady(board, t.ticket) : ready <= t.start

ChartHolds(range, drawn, focused) ==
  \A t \in drawn :
    (IF focused = NoChain THEN {t.start, t.due, t.end, t.actualFinish, t.delayEnd, t.estimateEnd}
     ELSE IF t.ticket \in focused THEN {t.start, t.due, t.actualFinish} ELSE {}) \ {NoDay}
      \subseteq range.start + 1 .. range.endExclusive - 1

(* The width of the visible part of the chart.                             *)
Window == 700

CenterReturns(g) ==
  \A day \in g.start .. g.start + g.days :
    LET scroll == TimelineScrollForDate(g, day, Window)
    IN scroll \in 1 .. g.width - Window - 1 => TimelineDateAtScrollCenter(g, scroll, Window) = day

TagsFit(g) ==
  \A left \in {0, 150} : \A x \in {left, left + 90, left + 345, left + Window} :
    LET c == GanttCursorAtX(g, x, left, left + Window, 130)
    IN c.day \in 0 .. g.days /\ c.tagX >= left /\ c.tagX + c.tagWidth <= left + Window

ChartScrolls(range) ==
  \A zoom \in {65, 100, 300} :
    LET g == TimelineGeometry(range, Window, zoom) IN CenterReturns(g) /\ TagsFit(g)

SoundChart(d, bars, drawn) ==
  /\ SoundBars(d, bars, drawn)
  /\ (ui.sprint = 0 \/ d.focusIds # NoChain) =>
       ChartHolds(ChartRange(board, ui, d, drawn), drawn, d.focusIds)
  /\ ChartScrolls(ChartRange(board, ui, d, drawn))

SoundSchedule(d, bars) == SoundChart(d, bars, BarsOf(d, bars))

(* A bar starts when its prerequisites are ready, lasts a day at least,    *)
(* and its delay and estimate follow each other; the bar of an Epic spans  *)
(* those of its tasks.  Without a Sprint the bars lie inside the chart     *)
(* with a day to spare.  Changing the zoom keeps the day in the middle of  *)
(* the window, and the tag of the pointer stays between its edges.  Code:  *)
(* ganttTask, ganttEpicAggregate, dependencyTimelineRange,                 *)
(* timelineGeometry, timelineDateAtScrollCenter, ganttCursorAtX.           *)
ChartIsSound ==
  Shows("timeline") => SoundSchedule(Drawn, Schedule(Drawn))

(* A bar that its prerequisites move ends at a date that exists, on every  *)
(* board there is.  The server limits neither dates nor durations.         *)
DatesFit(b) ==
  \A i \in DOMAIN b.tickets :
    LET base == GanttBase(b, i)
    IN Dated(base) =>
         \A ready \in GanttDependencyReady(b, i) :
           base.due <= ready => ready + Most(1, base.due - base.plannedStart) <= LastDay

DatesHold ==
  /\ \A i \in DOMAIN BoardData : \A b \in BoardData[i] : DatesFit(b)
  /\ \A s \in Scenarios : \A i \in DOMAIN s.server : DatesFit(s.server[i])

-----------------------------------------------------------------------------
(* The Sprint plan *)

(* The fields of the Board show the unsaved plan of this board, or what is *)
(* saved, never a plan typed on another board; and a Sprint can be picked  *)
(* there only while they show the saved cadence, from which the cards are  *)
(* computed, also while loads and saves overlap.  Code: wireSprintPlanner, *)
(* currentSprintCadenceDraft, wireSprintCards, pageSprintStrip.            *)
FieldsShowThePlan ==
  Shows("board") =>
    /\ plan.fields = IF plan.draft.board = board.board THEN plan.draft ELSE SavedPlan(board)
    /\ plan.cards => plan.fields = SavedPlan(board) /\ plan.draft = NoDraft

(* An unsaved plan is lost only when it is the saved one, the user types   *)
(* that, or the Board of another board is shown: no load, failed save or   *)
(* change of view drops it.  Code: wireSprintPlanner,                      *)
(* currentSprintCadenceDraft, captureSprintCadenceDraft.                   *)
DraftIsKept ==
  [][plan.draft # NoDraft /\ plan'.draft = NoDraft =>
       \/ plan.draft.board # board'.board
       \/ plan.draft = SavedPlan(board')
       \/ plan'.fields = SavedPlan(board) /\ UNCHANGED <<board, ui, load>>]_vars

(* On the Board the fields do not stay disabled: every save ends, answered *)
(* or not, with its load overtaken or not.  Code: wireSprintPlanner,       *)
(* load.                                                                   *)
CadenceSaveEnds ==
  (Shows("board") /\ plan.saving) ~> ~(Shows("board") /\ plan.saving)

-----------------------------------------------------------------------------
(* The Backlog *)

(* A backlog ticket below a backlog Epic is listed in that Epic's group.   *)
(* README.md:63 "Backlog keeps upcoming work grouped by Epic."  Code:      *)
(* backlogGroupsHtml, topEpicFor.                                          *)
BacklogKeepsEpics ==
  Shows("backlog") =>
    \A i \in FilteredBacklog(board, ui) :
      (T[i].parent \in FilteredBacklog(board, ui) /\ IsEpic(board, T[i].parent)) =>
        \E group \in BacklogGroups(board, ui) : group.epic = T[i].parent /\ i \in group.items
=============================================================================
