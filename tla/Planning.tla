------------------------------ MODULE Planning -------------------------------
(***************************************************************************)
(* The planning workspace: Board, Overview and Timeline with the choices   *)
(* the user makes in them, the address, loads of the board, and the Sprint *)
(* plan that is edited on the Board.  Handlers run one at a time; between  *)
(* them answers of the server arrive.  The task editor is closed here.     *)
(***************************************************************************)
EXTENDS PlanningViews, Timeline

CONSTANTS
  BoardData,    \* per board the records other clients may make of it
  Hashes,       \* addresses typed into the browser
  TaskFilters,  \* settings of the task filters
  TableFilters, \* settings of the filters of the Overview
  Plans,        \* first day and weeks entered for a Sprint plan
  Scenarios     \* the stored boards, the first view, what is done, how often

(* What the user, other clients and the network may do.                    *)
Ops ==
  {"chain", "sort", "epic", "sprint", "page", "rows", "timelineEpic", "reset", "filter",
   "table", "column", "nav", "home", "backlog", "sharing", "choose", "route", "change",
   "refresh", "plan", "fail"}

(* The data of a board, as normalised when it is loaded.                   *)
StoredCadences == [start : Days \union {NoDay}, weeks : Int]

TicketRow ==
  [type : TicketTypes, parent : Nat, column : Nat, position : Int, ref : Seq(Nat) \ {<<>>},
   backlog : BOOLEAN, archived : BOOLEAN, deleted : BOOLEAN, links : SUBSET Nat,
   start : Days \union {NoDay}, due : Days \union {NoDay}, duration : Nat,
   created : Days \union {NoDay}, finished : Days \union {NoDay}, meets : SUBSET STRING]

IsBoard(b) ==
  /\ b = [board |-> b.board, columns |-> b.columns, cadence |-> b.cadence, tickets |-> b.tickets]
  /\ b.board \in Nat \ {0} /\ b.columns \in Seq(STRING) /\ b.cadence \in StoredCadences
  /\ DOMAIN b.tickets \subseteq Nat \ {0} /\ IsFiniteSet(DOMAIN b.tickets)
  /\ \A i \in DOMAIN b.tickets : b.tickets[i] \in TicketRow /\ IsFiniteSet(b.tickets[i].links)

ASSUME PlanningAssumption ==
  /\ \A i \in DOMAIN BoardData : \A b \in BoardData[i] : IsBoard(b) /\ b.board = i
  /\ \A hash \in Hashes : hash \in Seq(RouteParts) /\ ParseRoute(hash).ticket = 0
  /\ Plans \subseteq (Days \union {NoDay}) \X Int
  /\ \A s \in Scenarios :
       /\ s.may \subseteq Ops /\ s.left \in Nat /\ s.view \in PlanningViews
       /\ 1 \in DOMAIN s.server
       /\ \A i \in DOMAIN s.server : IsBoard(s.server[i]) /\ s.server[i].board = i

(* What the server makes sure of: an Epic has no parent, since             *)
(* parentTypeAllowed guards every parent that is stored, and a ticket is   *)
(* in a column of its board, since columnBelongsToBoard guards every       *)
(* column and none is ever deleted.                                        *)
EpicsHaveNoParent(b) == \A i \in DOMAIN b.tickets : IsEpic(b, i) => b.tickets[i].parent = 0

ColumnsExist(b) == \A i \in DOMAIN b.tickets : b.tickets[i].column \in DOMAIN b.columns

IsKept(b) == EpicsHaveNoParent(b) /\ ColumnsExist(b)

ASSUME ServerAssumption ==
  /\ \A i \in DOMAIN BoardData : \A b \in BoardData[i] : IsKept(b)
  /\ \A s \in Scenarios : \A i \in DOMAIN s.server : IsKept(s.server[i])

VARIABLES
  server,   \* the boards as stored
  board,    \* state: the loaded board
  ui,       \* the globals of app.js with the user's choices
  url,      \* window.location.hash
  load,     \* the board of the latest load, 0 once it was answered
  plan,     \* the Sprint plan: fields, draft, saves under way
  user      \* what may still happen

vars == <<server, board, ui, url, load, plan, user>>

-----------------------------------------------------------------------------
(* The Sprint plan of the Board *)

NoDraft == [board |-> 0, start |-> NoDay, weeks |-> 0]

SavedPlan(b) ==
  [board |-> b.board, start |-> b.cadence.start, weeks |-> ValidSprintWeeks(b.cadence.weeks)]

(* Mutant: a draft of another board is shown.                              *)
CurrentSprintCadenceDraftMutant(b, draft) == IF draft = SavedPlan(b) THEN NoDraft ELSE draft

CurrentSprintCadenceDraft(b, draft) ==
  IF draft.board # b.board \/ draft = SavedPlan(b) THEN NoDraft ELSE draft

(* Mutant: rendering the Board always shows the saved plan.                *)
WireSprintPlannerMutant(b, p) ==
  [p EXCEPT !.draft = NoDraft, !.fields = SavedPlan(b), !.saving = FALSE,
            !.cards = b.cadence.start # NoDay,
            !.saves = {[s EXCEPT !.shown = FALSE] : s \in @}]

(* Rendering the Board replaces the fields: the draft survives, a disabled *)
(* button does not, and saves under way lose the button they would enable. *)
WireSprintPlanner(b, p) ==
  LET draft == CurrentSprintCadenceDraft(b, p.draft)
  IN [p EXCEPT !.draft = draft,
               !.fields = IF draft = NoDraft THEN SavedPlan(b) ELSE draft,
               !.saving = FALSE,
               !.cards = draft = NoDraft /\ b.cadence.start # NoDay,
               !.saves = {[s EXCEPT !.shown = FALSE] : s \in @}]

SprintCadenceDirty(b, p) ==
  p.fields.start # b.cadence.start \/ p.fields.weeks # ValidSprintWeeks(b.cadence.weeks)

CaptureSprintCadenceDraft(b, p) ==
  IF SprintCadenceDirty(b, p) THEN [p.fields EXCEPT !.board = b.board] ELSE NoDraft

(* wireSprintCards: the cards of the Board answer only while it is clean.  *)
CardsEnabled(b, p) == ~SprintCadenceDirty(b, p) /\ b.cadence.start # NoDay

-----------------------------------------------------------------------------
(* Rendering and addresses *)

(* renderActiveView: blank while another board loads.                      *)
Rendered(b, u) == [Settled(b, u) EXCEPT !.blank = Loading(b, u)]

RenderView(b, u) ==
  /\ ui' = Rendered(b, u)
  /\ plan' = IF u.view = "board" /\ ~Loading(b, u) THEN WireSprintPlanner(b, plan) ELSE plan

(* syncRoute, with the editor closed.                                      *)
SyncRoute(b, u) ==
  BuildRoute(u.view, IF u.wanted # 0 THEN u.wanted ELSE b.board, 0,
             IF u.view \in PlanningViews THEN u.sprint ELSE 0)

(* Starts a load: an unanswered one is outdated, and a save that waits for *)
(* it will find its refresh overtaken.                                     *)
Overtaken(p) ==
  [p EXCEPT !.saves = {IF s.stage = "load" THEN [s EXCEPT !.stage = "late"] ELSE s : s \in @}]

Choice(op) ==
  /\ op \in user.may /\ user.left > 0
  /\ user' = [user EXCEPT !.left = @ - 1]

(* The page shows the loaded board in one of the planning views.           *)
Planned == ui.view \in PlanningViews /\ ~ui.blank

Chain == DependencyViewIds(board, ui)

Show(u) == RenderView(board, u) /\ UNCHANGED <<server, board, load>>

ShowAt(u) == Show(u) /\ url' = SyncRoute(board, ui')

-----------------------------------------------------------------------------
(* What is on the screen *)

(* The Epic of a lane, and its cards unless it is collapsed.               *)
ShownLane(b, u, lane) ==
  ({lane.epic} \ {0}) \union
    {i \in lane.items : lane.epic \notin u.collapsed /\ b.tickets[i].column \in DOMAIN b.columns}

GanttRows(b, u, d, work) == BuildGanttRows(b, u, d, work, GanttTasks(b, d, work))

(* The lanes, rows or bars with their tasks.                               *)
Shown(b, u, d) ==
  CASE u.view = "board" -> UNION {ShownLane(b, u, lane) : lane \in BoardLanes(b, d)}
    [] u.view = "overview" -> Range(OverviewRows(b, u, d))
    [] u.view = "timeline" -> Range(GanttRows(b, u, d, TimelineFilteredWork(b, u, d)))
    [] OTHER -> {}

Visible(b, u) == Shown(b, u, Snapshot(b, u))

StripSprints == SprintWindow(board.cadence, Today, 6, SprintStripFirstNumber(board, ui))

-----------------------------------------------------------------------------
(* The dependency view *)

(* On the Timeline a chain takes the place of the Sprint.                  *)
Opened(u) ==
  LET expanded == Expanded(board, u, DependencyViewIds(board, u))
  IN IF u.view = "timeline"
     THEN ShowAt([expanded EXCEPT !.sprint = 0])
     ELSE Show(expanded) /\ UNCHANGED url

(* "Dependencies" of a task outside the focused chain.                     *)
OpenDependencies(i) ==
  /\ Choice("chain") /\ Planned
  /\ ~IsEpic(board, i) /\ i \in WorkTickets(board)
  /\ ~(ui.focused /\ i \in Chain) /\ ~(Chain # NoChain /\ i = ui.focus)
  /\ Opened([ui EXCEPT !.sort = IF Chain = NoChain THEN "dependencies" ELSE @,
                       !.focus = i, !.focusBoard = board.board, !.focused = FALSE])

(* "Focus tasks" of the selected task, or of another one while focused.    *)
ToggleDependencyFocus(i) ==
  /\ Choice("chain") /\ Planned /\ Chain # NoChain
  /\ ~IsEpic(board, i) /\ i \in WorkTickets(board) \intersect Chain
  /\ ui.focused # (i = ui.focus)
  /\ Opened([ui EXCEPT !.focused = ~(ui.focusBoard = board.board /\ ui.focus = i /\ ui.focused),
                       !.focus = i, !.focusBoard = board.board])

ShowOtherTasks ==
  /\ Choice("chain") /\ Planned /\ ui.focused
  /\ Show([ui EXCEPT !.focused = FALSE]) /\ UNCHANGED url

CloseDependencies ==
  /\ Choice("chain") /\ Planned /\ Chain # NoChain
  /\ Show([ui EXCEPT !.focus = 0, !.focused = FALSE, !.sort = "dependencies"]) /\ UNCHANGED url

SetDependencySort(mode) ==
  /\ Choice("sort") /\ Planned /\ mode # ui.sort /\ Chain # NoChain
  /\ Show([ui EXCEPT !.sort = mode]) /\ UNCHANGED url

(* Mutant: the chain stays open when one of its Epics is collapsed.        *)
ToggledMutant(b, u, e) ==
  [u EXCEPT !.collapsed = IF e \in @ THEN @ \ {e} ELSE @ \union {e}]

(* Collapsing an Epic that holds a task of the chain closes the chain.     *)
Toggled(b, u, e) ==
  LET closes == e \notin u.collapsed /\ \E i \in DependencyViewIds(b, u) : TopEpicFor(b, i) = e
  IN [u EXCEPT !.focus = IF closes THEN 0 ELSE @, !.focused = @ /\ ~closes,
               !.collapsed = IF e \in @ THEN @ \ {e} ELSE @ \union {e}]

ToggleEpic(e) ==
  /\ Choice("epic") /\ Planned /\ e \in WorkTickets(board) /\ IsEpic(board, e)
  /\ Show(Toggled(board, ui, e)) /\ UNCHANGED url

-----------------------------------------------------------------------------
(* Sprints, filters and order *)

(* applyPlanningSprintSelection                                            *)
PlanningSprintSelection(b, u, n) ==
  LET chosen == [u EXCEPT !.focus = 0, !.focusBoard = 0, !.focused = FALSE, !.sprint = n,
                          !.only = TRUE, !.sprintBoard = b.board,
                          !.epic = IF u.view = "timeline" THEN 0 ELSE @]
      shown == SprintWindow(b.cadence, Today, 6, SprintStripFirstNumber(b, chosen))
  IN [chosen EXCEPT !.strip = IF n = 0 \/ ~\E s \in shown : s.number = n THEN NoPage ELSE @]

(* A card of the strip; the selected one returns to all work.              *)
SelectPlanningSprint(n) ==
  /\ Choice("sprint") /\ Planned
  /\ \E s \in StripSprints : s.number = n
  /\ IF ui.view = "board" THEN plan.cards ELSE board.cadence.start # NoDay
  /\ ShowAt(PlanningSprintSelection(board, ui,
       IF SelectedPlanningSprint(board, ui).number = n THEN 0 ELSE n))

ClearPlanningSprint ==
  /\ Choice("sprint") /\ Planned
  /\ ShowAt(PlanningSprintSelection(board, ui, 0))

(* The arrows of the strip move it by six Sprints.                         *)
PageSprintStrip(direction) ==
  LET at == Smallest({s.number : s \in StripSprints})
      first == Most(1, at + direction * 6)
  IN /\ Choice("page") /\ Planned /\ StripSprints # {}
     /\ first # at /\ SprintWindow(board.cadence, Today, 6, first) # {}
     /\ ui' = [ui EXCEPT !.strip = [board |-> board.board, cadence |-> board.cadence, first |-> first]]
     /\ plan' = [plan EXCEPT !.cards = IF ui.view = "board" THEN CardsEnabled(board, plan) ELSE @]
     /\ UNCHANGED <<server, board, url, load>>

ToggleTimelineSprintTasks ==
  /\ Choice("rows") /\ Planned /\ ui.view = "timeline"
  /\ SelectedPlanningSprint(board, ui) # NoSprint
  /\ Show([ui EXCEPT !.only = ~@]) /\ UNCHANGED url

ChooseTimelineEpic(e) ==
  /\ Choice("timelineEpic") /\ Planned /\ ui.view = "timeline"
  /\ e \in {0} \union {i \in WorkTickets(board) : IsEpic(board, i)}
  /\ Show([ui EXCEPT !.epic = e]) /\ UNCHANGED url

(* resetTaskFilters: in every view, and while another board loads.         *)
ResetTaskFilters ==
  LET cleared == [ui EXCEPT !.filters = NoFilters, !.table = NoTableFilters, !.epic = 0]
  IN /\ Choice("reset")
     /\ IF SelectedPlanningSprint(board, ui) # NoSprint \/ Chain # NoChain
        THEN ShowAt(PlanningSprintSelection(board, cleared, 0))
        ELSE Show(cleared) /\ UNCHANGED url

(* The fields of the toolbar, "My tasks" and the x of an active filter.    *)
SetTaskFilters(filters) ==
  /\ Choice("filter") /\ filters # ui.filters
  /\ Show([ui EXCEPT !.filters = filters]) /\ UNCHANGED url

SetTableFilters(table) ==
  /\ Choice("table") /\ Planned /\ ui.view = "overview" /\ table # ui.table
  /\ Show([ui EXCEPT !.table = table]) /\ UNCHANGED url

(* A column heading; the open chain gives way to the chosen order.         *)
SortOverview(key) ==
  /\ Choice("column") /\ Planned /\ ui.view = "overview"
  /\ Show([ui EXCEPT !.order = [key |-> key,
                                descending |-> ui.order.key = key /\ ~ui.order.descending],
                     !.sort = IF Chain # NoChain THEN "normal" ELSE @])
  /\ UNCHANGED url

-----------------------------------------------------------------------------
(* Moving between views and boards *)

(* The navigation: only planning views keep the Sprint, and on the         *)
(* Timeline it takes the place of the chain.                               *)
Navigated(u, view) ==
  LET frames == view = "timeline" /\ u.sprint # 0
  IN [u EXCEPT !.view = view, !.sprint = IF view \in PlanningViews THEN @ ELSE 0,
               !.epic = IF frames THEN 0 ELSE @, !.focus = IF frames THEN 0 ELSE @,
               !.focused = @ /\ ~frames]

Navigate(view) ==
  /\ Choice("nav") /\ view \in RouteViews /\ ShowAt(Navigated(ui, view))

HomeLink ==
  /\ Choice("home") /\ ShowAt([ui EXCEPT !.view = "board"])

(* From the Board, keeping the Sprint for the way back.                    *)
OpenBacklogView ==
  /\ Choice("backlog") /\ Planned /\ ui.view = "board" /\ BacklogTickets(board) # {}
  /\ ShowAt([ui EXCEPT !.view = "backlog"])

OpenSharing ==
  /\ Choice("sharing") /\ ShowAt([ui EXCEPT !.view = "admin"])

(* load(), with the plan it leaves: the page goes blank when another board *)
(* is requested.                                                           *)
Load(u, p) ==
  /\ load' = u.wanted
  /\ ui' = IF u.wanted # board.board THEN Rendered(board, u) ELSE u
  /\ plan' = p
  /\ UNCHANGED board

(* The board menu; its entry for the loaded board can be chosen again      *)
(* while another one loads.                                                *)
ChooseBoard(bd) ==
  LET u == [ui EXCEPT !.wanted = bd, !.sprint = 0]
  IN /\ Choice("choose") /\ bd # ui.wanted
     /\ url' = BuildRoute(u.view, bd, 0, 0)
     /\ Load(u, Overtaken(plan)) /\ UNCHANGED server

(* applyRoute, before it loads or renders.                                 *)
Applied(u, r, wanted) ==
  LET plans == r.view \in PlanningViews
  IN [u EXCEPT !.wanted = wanted, !.view = r.view, !.sprint = r.sprint, !.sprintBoard = wanted,
               !.strip = NoPage, !.only = TRUE,
               !.focus = IF plans THEN 0 ELSE @, !.focused = @ /\ ~plans,
               !.epic = IF r.view = "timeline" /\ r.sprint # 0 THEN 0 ELSE @]

(* hashchange: an address without a board means the loaded one.  A load    *)
(* under way is outdated as soon as another board is wanted.               *)
ApplyRoute(hash) ==
  LET r == ParseRoute(hash)
      wanted == IF r.board # 0 THEN r.board ELSE board.board
      u == Applied(ui, r, wanted)
      outdated == wanted # ui.wanted
  IN /\ Choice("route") /\ wanted \in DOMAIN server /\ UNCHANGED server
     /\ IF r.board \notin {0, board.board}   \* load() renders the blank page
        THEN url' = hash /\ Load(u, Overtaken(plan))
        ELSE /\ RenderView(board, u) /\ url' = SyncRoute(board, ui') /\ UNCHANGED board
             /\ load' = IF outdated THEN 0 ELSE load

-----------------------------------------------------------------------------
(* Loads and other clients *)

(* Every change of a ticket ends in a load of the selected board.          *)
Refresh ==
  /\ Choice("refresh") /\ Load(ui, Overtaken(plan)) /\ UNCHANGED <<server, url>>

(* Another client changes the tickets of a board.                          *)
Change(bd, data) ==
  /\ Choice("change") /\ data \in BoardData[bd]
  /\ server' = [server EXCEPT ![bd] = [data EXCEPT !.cadence = server[bd].cadence]]
  /\ UNCHANGED <<board, ui, url, load, plan>>

Fails == "fail" \in user.may /\ user.left > 0 /\ user' = [user EXCEPT !.left = @ - 1]

(* The latest load brings the board; saves that waited for it are over,    *)
(* those that wait for an outdated one will find a newer board.            *)
LoadAnswered ==
  LET u == [ui EXCEPT !.wanted = load]
      saves == {[s EXCEPT !.fresh = FALSE] : s \in {x \in plan.saves : x.stage # "load"}}
      b == server[load]
  IN /\ load # 0
     /\ board' = b /\ load' = 0
     /\ ui' = Rendered(b, u) /\ url' = SyncRoute(b, ui')
     /\ plan' = LET p == [plan EXCEPT !.saves = saves]
                IN IF u.view = "board" THEN WireSprintPlanner(b, p) ELSE p
     /\ UNCHANGED <<server, user>>

(* A failed save gives its fields back, unless they were replaced.         *)
Released(b, p, s) ==
  LET ended == [p EXCEPT !.saves = @ \ {s}]
  IN IF s.board # b.board THEN ended
     ELSE [ended EXCEPT !.saving = @ /\ ~s.shown, !.cards = CardsEnabled(b, p)]

(* The page returns to the loaded board when another one was selected.  A  *)
(* save whose board could not be loaded again ends as failed.              *)
LoadFails ==
  LET u == [ui EXCEPT !.wanted = board.board]
      waits == {s \in plan.saves : s.stage = "load"}
  IN /\ load # 0 /\ Fails
     /\ load' = 0
     /\ IF ui.wanted # board.board
        THEN RenderView(board, u) /\ url' = SyncRoute(board, ui')
        ELSE /\ plan' = IF waits = {} THEN plan
                        ELSE Released(board, plan, CHOOSE s \in waits : TRUE)
             /\ UNCHANGED <<ui, url>>
     /\ UNCHANGED <<server, board>>

-----------------------------------------------------------------------------
(* Editing and saving the Sprint plan *)

PlannerShown == ui.view = "board" /\ ~ui.blank /\ ui.wanted = board.board

EditPlan(start, weeks) ==
  LET p == [plan EXCEPT !.fields = [board |-> board.board, start |-> start, weeks |-> weeks]]
  IN /\ Choice("plan") /\ PlannerShown /\ ~plan.saving /\ p # plan
     /\ plan' = [p EXCEPT !.draft = CaptureSprintCadenceDraft(board, p),
                          !.cards = CardsEnabled(board, p)]
     /\ UNCHANGED <<server, board, ui, url, load>>

(* The save button, for fields that pass the checks.                       *)
SavePlan ==
  LET save == [id |-> user.left, board |-> board.board, start |-> plan.fields.start,
               weeks |-> plan.fields.weeks, stage |-> "put", shown |-> TRUE, fresh |-> TRUE]
  IN /\ Choice("plan") /\ PlannerShown /\ ~plan.saving
     /\ plan.fields.start # NoDay /\ plan.fields.weeks \in 1 .. 52
     /\ plan' = [plan EXCEPT !.draft = CaptureSprintCadenceDraft(board, plan), !.saving = TRUE,
                             !.cards = FALSE, !.saves = @ \union {save}]
     /\ UNCHANGED <<server, board, ui, url, load>>

(* The server stores the cadence.                                          *)
PutServed(s) ==
  /\ s.stage = "put"
  /\ server' = [server EXCEPT ![s.board].cadence = [start |-> s.start, weeks |-> s.weeks]]
  /\ plan' = [plan EXCEPT !.saves = (@ \ {s}) \union {[s EXCEPT !.stage = "served"]}]
  /\ UNCHANGED <<board, ui, url, load, user>>

(* The answer belongs to the board that is loaded and selected.            *)
SaveIsCurrent(s) == s.board = board.board /\ s.board = ui.wanted

(* Mutant: the fields are not given back by the refresh of the save.       *)
PutAnsweredMutant(s) ==
  /\ s.stage = "served"
  /\ plan' = [plan EXCEPT !.saves = @ \ {s}]
  /\ UNCHANGED <<server, board, ui, url, load, user>>

(* A confirmed save loads the board; its answer is ignored elsewhere.      *)
PutAnswered(s) ==
  LET others == [plan EXCEPT !.saves = @ \ {s}]
  IN /\ s.stage = "served"
     /\ IF SaveIsCurrent(s)
        THEN Load(ui, [Overtaken(others) EXCEPT !.saves = @ \union {[s EXCEPT !.stage = "load"]}])
        ELSE plan' = others /\ UNCHANGED <<board, ui, load>>
     /\ UNCHANGED <<server, url, user>>

(* The request or its answer is lost: stored or not, the save has failed.  *)
PutFails(s) ==
  /\ s.stage \in {"put", "served"} /\ Fails
  /\ plan' = IF SaveIsCurrent(s) THEN Released(board, plan, s) ELSE [plan EXCEPT !.saves = @ \ {s}]
  /\ UNCHANGED <<server, board, ui, url, load>>

(* The outdated load of a save returns: without any newer board the save   *)
(* counts as failed.                                                       *)
LateEnds(s) ==
  /\ s.stage = "late"
  /\ plan' = IF SaveIsCurrent(s) /\ s.fresh THEN Released(board, plan, s)
             ELSE [plan EXCEPT !.saves = @ \ {s}]
  /\ UNCHANGED <<server, board, ui, url, load, user>>

-----------------------------------------------------------------------------
Init ==
  \E s \in Scenarios :
    LET b == s.server[1]
        u == Rendered(b, [view |-> s.view, wanted |-> 1, sprint |-> 0, sprintBoard |-> 0,
                          strip |-> NoPage, focus |-> 0, focusBoard |-> 0, focused |-> FALSE,
                          sort |-> "dependencies", collapsed |-> {}, epic |-> 0, only |-> TRUE,
                          filters |-> NoFilters, table |-> NoTableFilters,
                          order |-> [key |-> "id", descending |-> FALSE], blank |-> FALSE])
    IN /\ server = s.server /\ board = b /\ ui = u /\ url = SyncRoute(b, u) /\ load = 0
       /\ plan = WireSprintPlanner(b, [draft |-> NoDraft, fields |-> SavedPlan(b), saving |-> FALSE,
                                       cards |-> FALSE, saves |-> {}])
       /\ user = [may |-> s.may, left |-> s.left]

(* Buttons belong to the tasks and Epics on the screen.                    *)
DependencySteering ==
  \/ /\ user.left > 0 /\ user.may \intersect {"chain", "epic"} # {} /\ Planned
     /\ \E i \in Visible(board, ui) :
          OpenDependencies(i) \/ ToggleDependencyFocus(i) \/ ToggleEpic(i)
  \/ ShowOtherTasks \/ CloseDependencies
  \/ \E mode \in {"dependencies", "normal"} : SetDependencySort(mode)

Selecting ==
  \/ \E sprint \in StripSprints : SelectPlanningSprint(sprint.number)
  \/ ClearPlanningSprint
  \/ \E direction \in {-1, 1} : PageSprintStrip(direction)
  \/ ToggleTimelineSprintTasks
  \/ \E e \in {0} \union WorkTickets(board) : ChooseTimelineEpic(e)
  \/ ResetTaskFilters
  \/ \E filters \in TaskFilters : SetTaskFilters(filters)
  \/ \E table \in TableFilters : SetTableFilters(table)
  \/ \E key \in SortKeys : SortOverview(key)

Moving ==
  \/ \E view \in RouteViews : Navigate(view)
  \/ HomeLink \/ OpenBacklogView \/ OpenSharing
  \/ \E bd \in DOMAIN server : ChooseBoard(bd)
  \/ \E hash \in Hashes : ApplyRoute(hash)

SaveSettles == \E s \in plan.saves : PutServed(s) \/ PutAnswered(s) \/ PutFails(s) \/ LateEnds(s)

LoadSettles == LoadAnswered \/ LoadFails

Next ==
  \/ DependencySteering \/ Selecting \/ Moving
  \/ Refresh
  \/ \E bd \in DOMAIN server \intersect DOMAIN BoardData : \E data \in BoardData[bd] : Change(bd, data)
  \/ \E p \in Plans : EditPlan(p[1], p[2])
  \/ SavePlan
  \/ LoadSettles \/ SaveSettles

(* Every request is answered or fails; nothing else is bound to happen.    *)
Fairness == WF_vars(LoadSettles) /\ WF_vars(SaveSettles)

Spec == Init /\ [][Next]_vars /\ Fairness
=============================================================================
