------------------------------ MODULE Frontend ------------------------------
(***************************************************************************)
(* The browser application: sessions, loads, the editor and the requests   *)
(* that change tickets.  One JavaScript thread runs handlers to completion; *)
(* every await is a point where other handlers run.  An asynchronous        *)
(* function that waits for an answer is a task in page.tasks; the server    *)
(* answers tasks in any order, may fail them before or after their effect,  *)
(* and may end a session at any moment.                                     *)
(***************************************************************************)
EXTENDS Naturals, FiniteSets, Sequences

CONSTANTS
  Users,          \* accounts, positive numbers
  InitialAccess,  \* the boards each account may open
  MaxTickets,     \* bound on ticket ids
  MaxBoards,      \* bound on board ids
  Routes,         \* addresses: a board, a ticket (0: none) and a view
  Scenarios       \* a ticket table, what happens on it, and how often

Ids == 1 .. MaxTickets
BoardIds == 1 .. MaxBoards

(* A ticket as far as the page's bookkeeping reads it.  No ticket has the  *)
(* text 0: it is the empty string, and tickets are written as JSON.        *)
Row == [board : BoardIds \union {0}, parent : Ids \union {0}, epic : BOOLEAN, text : Nat,
        done : BOOLEAN, backlog : BOOLEAN, live : BOOLEAN, version : Nat]

(* What the user, the clock, other clients and the network may do.         *)
Ops ==
  {"choose", "route", "notification", "newBoard", "open", "type", "note", "close",
   "save", "comment", "trash", "duplicate", "move", "epic", "promote", "create",
   "restore", "import", "history", "poll", "logout", "login", "password",
   "expire", "other"}

ASSUME FrontendAssumption ==
  /\ Users \subseteq Nat \ {0}
  /\ MaxTickets \in Nat /\ MaxBoards \in Nat
  /\ InitialAccess \in [Users -> SUBSET BoardIds]
  /\ Routes \subseteq [board : BoardIds \union {0}, ticket : Ids \union {0},
                        view : {"board", "history"}]
  /\ \A s \in Scenarios : s.may \subseteq Ops /\ s.left \in Nat /\ s.fails \in Nat
                         /\ DOMAIN s.rows \subseteq Ids
                         /\ \A i \in DOMAIN s.rows : s.rows[i] \in Row /\ s.rows[i].text # 0

VARIABLES
  store,   \* the server: tickets, accounts, sessions, sharing
  page,    \* the globals of app.js with the asynchronous functions under way
  user,    \* what the user and the environment may still do
  waived,  \* the user gave up unsaved input in this step
  known    \* per ticket the version of the last save the page saw confirmed

vars == <<store, page, user, waived, known>>

-----------------------------------------------------------------------------
(* Tasks: an asynchronous function with the one call it awaits.            *)

NoReply == [status |-> "none"]
Blank == [text |-> 0, comment |-> 0]      \* drawerSnapshot = ''
NoBinding == [id |-> 0, session |-> 0]
Nothing == [user |-> 0, board |-> 0]
NoRow == [board |-> 0, parent |-> 0, epic |-> FALSE, text |-> 0, done |-> FALSE,
          backlog |-> FALSE, live |-> FALSE, version |-> 0]

Task(op, url) ==
  [op |-> op, url |-> url, id |-> 0, ticket |-> 0, row |-> NoRow, board |-> 0,
   session |-> 0, editor |-> 0, keep |-> Blank, todo |-> <<>>, made |-> 0,
   ask |-> 0, generation |-> 0, sent |-> 0, as |-> 0, reply |-> NoReply]

(* Calls the API from an event handler; the function now awaits its answer. *)
Send(p, t) ==
  [p EXCEPT !.serial = @ + 1,
            !.tasks = @ \union {[t EXCEPT !.id = p.serial + 1, !.session = p.session,
                                          !.sent = p.session, !.editor = p.editGen,
                                          !.as = p.jar]}]

(* A later call of a function that already runs.                           *)
SendNext(p, t) ==
  [p EXCEPT !.tasks = @ \union {[t EXCEPT !.sent = p.session, !.as = p.jar,
                                          !.reply = NoReply]}]

End(p, t) == [p EXCEPT !.tasks = @ \ {t}]

-----------------------------------------------------------------------------
(* Sessions and what the page shows.                                       *)

CurrentSessionGuard(p, t) == t.session = p.session

Loading(p) == p.selected # 0 /\ p.selected # p.board

ClearHistoryView(p) == [p EXCEPT !.historyGen = @ + 1, !.history = Nothing]

(* Mutant: the session keeps its number.                                  *)
InvalidateSessionRequestsMutant(p) ==
  [ClearHistoryView(p) EXCEPT !.loadGen = @ + 1]

InvalidateSessionRequests(p) ==
  [ClearHistoryView(p) EXCEPT !.session = @ + 1, !.loadGen = @ + 1]

ResetDrawer(p) ==
  [p EXCEPT !.editGen = @ + 1, !.editing = 0, !.clone = NoRow, !.mutation = 0,
            !.draft = Blank, !.base = Blank, !.queued = 0]

ResetClientState(p) ==
  [ResetDrawer(InvalidateSessionRequests(p)) EXCEPT
     !.me = 0, !.board = 0, !.rows = << >>, !.notes = 0, !.selected = 0]

ShowLoginRequired(p) ==
  [ResetDrawer(InvalidateSessionRequests(p)) EXCEPT !.me = 0, !.panel = TRUE, !.locked = FALSE]

(* Mutant: sessions are counted anew.                                     *)
ShowLoggedOutMutant(p) ==
  [ResetClientState(p) EXCEPT !.panel = TRUE, !.locked = FALSE, !.session = 0]

ShowLoggedOut(p) == [ResetClientState(p) EXCEPT !.panel = TRUE, !.locked = FALSE]

(* The whole history is fetched again at every rendering of its view.      *)
RenderHistory(p) ==
  IF p.board = 0 THEN [p EXCEPT !.historyGen = @ + 1]
  ELSE LET q == [p EXCEPT !.historyGen = @ + 1] IN
       Send(q, [Task("history", "history") EXCEPT !.board = q.board,
                                                  !.generation = q.historyGen])

RenderView(p) ==
  LET q == ClearHistoryView(p) IN
  IF q.view = "history" /\ ~Loading(q) THEN RenderHistory(q) ELSE q

-----------------------------------------------------------------------------
(* The editor.                                                             *)

Dirty(p) == p.editing # 0 /\ p.base # Blank /\ p.draft # p.base

Held(p, i) == p.pending[i].session = p.session

(* The draft is a clone of the ticket as the page knows it.                *)
OpenEditor(p, i) ==
  LET fields == [text |-> p.rows[i].text, comment |-> 0]
  IN [ResetDrawer(p) EXCEPT !.editing = i, !.clone = p.rows[i], !.draft = fields,
                            !.base = fields]

(* Mutant: held or not.                                                   *)
CanOpenMutant(p, i) == ~Loading(p) /\ i \in DOMAIN p.rows

CanOpen(p, i) == ~Loading(p) /\ ~Held(p, i) /\ i \in DOMAIN p.rows

IsCurrentDrawer(p, t) ==
  t.session = p.session /\ t.editor = p.editGen /\ p.editing = t.ticket

CanMutateDrawer(p) == p.editing # 0 /\ p.mutation = 0 /\ ~Held(p, p.editing)

BeginDrawerMutation(p, t) ==
  LET i == p.serial + 1 IN
  Send([p EXCEPT !.mutation = i,
                 !.pending[p.editing] = [id |-> i, session |-> p.session]],
       [t EXCEPT !.ticket = p.editing, !.board = p.board])

(* Moves and Epic changes bind a ticket without an editor.                 *)
BindTicket(p, i, t) ==
  Send([p EXCEPT !.pending[i] = [id |-> p.serial + 1, session |-> p.session]],
       [t EXCEPT !.ticket = i, !.board = p.board])

Release(p, t) ==
  [p EXCEPT !.pending[t.ticket] = IF @.id = t.id THEN NoBinding ELSE @]

FinishDrawerMutation(p, t) ==
  [Release(p, t) EXCEPT !.mutation = IF @ = t.id THEN 0 ELSE @]

-----------------------------------------------------------------------------
(* Loading the state of a board.                                           *)

(* Renders everything; a queued ticket is opened once.                     *)
Render(p) ==
  LET q == [RenderView(p) EXCEPT !.queued = 0] IN
  IF p.queued # 0 /\ CanOpen(q, p.queued) THEN OpenEditor(q, p.queued) ELSE q

(* Task t, new or under way, now awaits load().                            *)
Load(p, t) ==
  LET q == [p EXCEPT !.loadGen = @ + 1]
      r == IF Loading(q) /\ q.board # 0 THEN RenderView(q) ELSE q
  IN SendNext(r, [t EXCEPT !.url = "state", !.ask = r.selected, !.generation = r.loadGen])

(* load() called by an event handler itself.                               *)
LoadNow(p) ==
  Load([p EXCEPT !.serial = @ + 1],
       [Task("load", "state") EXCEPT !.id = p.serial + 1, !.session = p.session])

LoadIsCurrent(p, t) == t.generation = p.loadGen /\ t.sent = p.session

LoadSucceeds(p, r) ==
  Render([p EXCEPT !.me = r.user, !.board = r.board, !.rows = r.rows, !.notes = r.user,
                   !.selected = r.board, !.panel = FALSE])

(* Mutant: the request for the board stands.                              *)
LoadFailsMutant(p) ==
  IF p.me = 0 THEN ShowLoggedOut(p) ELSE p

LoadFails(p) ==
  LET q == IF p.me # 0 /\ p.selected # p.board
           THEN Render([p EXCEPT !.selected = p.board, !.queued = 0]) ELSE p
  IN IF q.me = 0 THEN ShowLoggedOut(q) ELSE q

LoadReturns(p, t) ==
  CASE ~LoadIsCurrent(p, t) -> p
    [] LoadIsCurrent(p, t) /\ t.reply.status = "ok" -> LoadSucceeds(p, t.reply)
    [] LoadIsCurrent(p, t) /\ t.reply.status = "denied" -> ShowLoginRequired(p)
    [] LoadIsCurrent(p, t) /\ t.reply.status = "failed" -> LoadFails(p)

-----------------------------------------------------------------------------
(* Functions that end when their load() has returned.                      *)

LoadOnly == {"load", "newBoard", "create", "promote", "restore", "import",
             "notification", "login", "password"}

(* The copy is opened only if nothing else happened to the editor.         *)
OpenCopy(p, t) ==
  IF t.made # 0 /\ t.session = p.session /\ t.editor = p.editGen /\ p.board = t.board
     /\ p.editing = 0 /\ CanOpen(p, t.made)
  THEN OpenEditor(p, t.made) ELSE p

AfterLoad(p, t) ==
  LET q == End(LoadReturns(p, t), t) IN
  CASE t.op \in LoadOnly -> q
    [] t.op \in {"save", "comment"} -> FinishDrawerMutation(q, t)
    [] t.op \in {"trash", "duplicate"} -> FinishDrawerMutation(OpenCopy(q, t), t)
    [] t.op \in {"move", "epic"} -> Release(q, t)

-----------------------------------------------------------------------------
(* What each function does with the answer to its own request.             *)

(* api(): an answer without a login concerns only the session that asked.  *)
Denied(p, t, current) ==
  IF t.reply.status = "denied" /\ t.sent = p.session /\ current
  THEN ShowLoginRequired(p) ELSE p

Succeeded(t) == t.reply.status = "ok"

OnItsBoard(p, t) ==
  CurrentSessionGuard(p, t) /\ p.board = t.board /\ p.selected \in {0, t.board}

(* Mutant: closes over a comment draft.                                   *)
SaveDrawerMutant(p, t) ==
  LET q == IF IsCurrentDrawer(p, t) THEN ResetDrawer(p) ELSE p
  IN CASE Succeeded(t) /\ CurrentSessionGuard(p, t) -> Load(End(q, t), t)
       [] Succeeded(t) /\ ~CurrentSessionGuard(p, t) -> FinishDrawerMutation(End(p, t), t)
       [] ~Succeeded(t) -> FinishDrawerMutation(End(Denied(p, t, TRUE), t), t)

(* Saving does not post a comment draft: the editor stays open for it.     *)
SaveDrawer(p, t) ==
  LET saved == [t.keep EXCEPT !.comment = 0]
      q == IF ~IsCurrentDrawer(p, t) THEN p
           ELSE IF p.draft = saved THEN ResetDrawer(p) ELSE [p EXCEPT !.base = saved]
  IN CASE Succeeded(t) /\ CurrentSessionGuard(p, t) -> Load(End(q, t), t)
       [] Succeeded(t) /\ ~CurrentSessionGuard(p, t) -> FinishDrawerMutation(End(p, t), t)
       [] ~Succeeded(t) -> FinishDrawerMutation(End(Denied(p, t, TRUE), t), t)

(* Posting clears the posted comment and keeps the task fields' baseline.  *)
AddComment(p, t) ==
  LET q == IF ~IsCurrentDrawer(p, t) THEN p
           ELSE [p EXCEPT !.draft.comment = IF @ = t.keep.comment THEN 0 ELSE @,
                          !.base.comment = 0]
  IN CASE Succeeded(t) /\ CurrentSessionGuard(p, t) -> Load(End(q, t), t)
       [] Succeeded(t) /\ ~CurrentSessionGuard(p, t) -> FinishDrawerMutation(End(p, t), t)
       [] ~Succeeded(t) -> FinishDrawerMutation(End(Denied(p, t, TRUE), t), t)

(* Trash and archive close the editor; so does duplicate, which then opens *)
(* the copy.  A failure brings the protection of the draft back.           *)
TaskDrawerAction(p, t) ==
  LET current == IsCurrentDrawer(p, t)
      q == IF current THEN ResetDrawer(p) ELSE p
      copy == IF t.op = "duplicate" /\ current THEN t.reply.made ELSE 0
      restored == IF IsCurrentDrawer(Denied(p, t, TRUE), t)
                  THEN [p EXCEPT !.base = t.keep] ELSE Denied(p, t, TRUE)
  IN CASE Succeeded(t) /\ CurrentSessionGuard(p, t) ->
            Load(End(q, t), [t EXCEPT !.made = copy, !.editor = q.editGen])
       [] Succeeded(t) /\ ~CurrentSessionGuard(p, t) -> FinishDrawerMutation(End(p, t), t)
       [] ~Succeeded(t) -> FinishDrawerMutation(End(restored, t), t)

MoveBoardTicket(p, t) ==
  IF Succeeded(t) /\ OnItsBoard(p, t) THEN Load(End(p, t), t)
  ELSE Release(End(Denied(p, t, OnItsBoard(p, t)), t), t)

(* The Epic's binding is given back before the page is refreshed.          *)
ChangeEpicCompletion(p, t) ==
  LET q == Release(End(Denied(p, t, OnItsBoard(p, t)), t), t) IN
  IF Succeeded(t) /\ OnItsBoard(p, t) THEN Load(q, t) ELSE q

(* Mutant: goes on after a failure.                                       *)
PromoteBacklogTicketMutant(p, t) ==
  LET q == End(Denied(p, t, TRUE), t) IN
  IF t.todo = << >> THEN Load(q, t)
  ELSE SendNext(q, [t EXCEPT !.ticket = Head(t.todo).ticket, !.row = Head(t.todo).row,
                             !.todo = Tail(t.todo)])

(* One PUT after the other; the first failure ends the promotion.  Neither *)
(* the requests nor the load ask whether the session is still the same.    *)
PromoteBacklogTicket(p, t) ==
  LET q == End(Denied(p, t, TRUE), t) IN
  CASE Succeeded(t) /\ t.todo # << >> ->
         SendNext(q, [t EXCEPT !.ticket = Head(t.todo).ticket, !.row = Head(t.todo).row,
                               !.todo = Tail(t.todo)])
    [] Succeeded(t) /\ t.todo = << >> -> Load(q, t)
    [] ~Succeeded(t) -> q

(* Mutant: no refresh.                                                    *)
CreateTicketMutant(p, t) == End(Denied(p, t, TRUE), t)

CreateTicket(p, t) ==
  IF Succeeded(t) THEN Load(End(p, t), t) ELSE End(Denied(p, t, TRUE), t)

(* Refreshes only in the session that asked.                               *)
RestoreTask(p, t) ==
  IF Succeeded(t) /\ CurrentSessionGuard(p, t) THEN Load(End(p, t), t)
  ELSE End(Denied(p, t, TRUE), t)

(* The file is read before anything is sent.                               *)
ImportBoardFile(p, t) ==
  CASE t.url = "file" /\ Succeeded(t) /\ CurrentSessionGuard(p, t) ->
         SendNext(End(p, t), [t EXCEPT !.url = "import"])
    [] t.url = "file" /\ ~(Succeeded(t) /\ CurrentSessionGuard(p, t)) -> End(p, t)
    [] t.url = "import" -> RestoreTask(p, t)

(* The board of the notification is loaded even if marking it failed.      *)
OpenNotification(p, t) ==
  LET q == End(Denied(p, t, TRUE), t) IN
  IF CurrentSessionGuard(q, t) THEN Load(q, t) ELSE q

CreateBoard(p, t) ==
  LET q == End(Denied(p, t, TRUE), t) IN
  CASE Succeeded(t) /\ CurrentSessionGuard(p, t) /\ t.editor = p.editGen ->
         Load([q EXCEPT !.selected = t.reply.made, !.view = "board"], t)
    [] Succeeded(t) /\ CurrentSessionGuard(p, t) /\ t.editor # p.editGen -> Load(q, t)
    [] ~(Succeeded(t) /\ CurrentSessionGuard(p, t)) -> q

(* The history is shown only where and for whom it was asked.              *)
ShowHistory(p, t) ==
  LET current == OnItsBoard(p, t) /\ t.generation = p.historyGen /\ p.view = "history"
      q == End(Denied(p, t, current), t)
  IN IF Succeeded(t) /\ current
     THEN [q EXCEPT !.history = [user |-> t.reply.user, board |-> t.board]] ELSE q

RefreshNotifications(p, t) ==
  LET current == t.generation = p.pollGen /\ CurrentSessionGuard(p, t)
      q == End(Denied(p, t, current), t)
  IN IF Succeeded(t) /\ current /\ p.me # 0 THEN [q EXCEPT !.notes = t.reply.user] ELSE q

(* The browser takes the cookie of every answer, wanted or not.            *)
TakesCookie(p, t) ==
  CASE Succeeded(t) /\ t.op \in {"login", "password"} -> [p EXCEPT !.jar = t.reply.made]
    [] Succeeded(t) /\ t.op = "logout" -> [p EXCEPT !.jar = 0]
    [] OTHER -> p

Login(p, t) ==
  LET q == End(TakesCookie(p, t), t) IN
  IF Succeeded(t) /\ CurrentSessionGuard(p, t) THEN Load(q, t) ELSE q

SavePassword(p, t) ==
  LET q == End(TakesCookie(Denied(p, t, TRUE), t), t) IN
  IF Succeeded(t) /\ CurrentSessionGuard(p, t)
  THEN Load(InvalidateSessionRequests(q), t) ELSE q

Logout(p, t) ==
  LET q == End(TakesCookie(p, t), t) IN
  IF CurrentSessionGuard(p, t) THEN [q EXCEPT !.locked = FALSE] ELSE q

-----------------------------------------------------------------------------
(* The user's handlers.  A handler that has to leave the editor asks first; *)
(* a refusal changes nothing, so only consent is a step.                   *)

Does(op) ==
  /\ op \in user.may /\ user.left > 0
  /\ user' = [user EXCEPT !.left = @ - 1,
                         !.calm = @ /\ op \notin {"choose", "route", "notification", "newBoard"}]
  /\ UNCHANGED <<store, known>>

Leaves == waived' = Dirty(page)
Stays == waived' = FALSE

(* Events reach a page without a login panel in front: it hides the board  *)
(* and the editor.                                                         *)
SignedIn == page.me # 0

(* The board list.                                                         *)
ChooseBoard(b) ==
  /\ Does("choose") /\ SignedIn /\ b \in store.access[page.me] /\ Leaves
  /\ page' = LoadNow([ResetDrawer(page) EXCEPT !.selected = b])

(* An address of this application, entered or from the browser history.    *)
ApplyRoute(r) ==
  /\ Does("route") /\ SignedIn /\ Leaves
  /\ LET board == IF r.board # 0 THEN r.board
                  ELSE IF page.board # 0 THEN page.board ELSE page.selected
         p == [ResetDrawer(page) EXCEPT
                 !.loadGen = IF board # page.selected THEN @ + 1 ELSE @,
                 !.selected = board, !.view = r.view, !.queued = r.ticket]
     IN page' = IF r.board # 0 /\ r.board # page.board THEN LoadNow(p) ELSE Render(p)

NavButton(view) ==
  /\ Does("history") /\ SignedIn /\ Leaves
  /\ page' = RenderView([ResetDrawer(page) EXCEPT !.view = view])

ClickNotification(i) ==
  /\ Does("notification") /\ SignedIn /\ page.notes # 0 /\ i \in DOMAIN store.rows /\ Leaves
  /\ page' = Send([ResetDrawer(page) EXCEPT !.selected = store.rows[i].board, !.queued = i,
                                            !.view = "board", !.loadGen = @ + 1],
                  Task("notification", "read"))

ClickCreateBoard ==
  /\ Does("newBoard") /\ SignedIn /\ Leaves
  /\ page' = Send(ResetDrawer(page), Task("newBoard", "board"))

OpenTicket(i) ==
  /\ Does("open") /\ SignedIn /\ CanOpen(page, i) /\ Leaves
  /\ page' = OpenEditor(page, i)

(* Fields are disabled while a request of the editor is under way.         *)
TypeText ==
  /\ Does("type") /\ page.editing # 0 /\ page.mutation = 0
  /\ waived' = (page.draft.text # page.base.text)
  /\ page' = [page EXCEPT !.serial = @ + 1, !.draft.text = page.serial + 1]

TypeComment ==
  /\ Does("note") /\ page.editing # 0 /\ page.mutation = 0
  /\ waived' = (page.draft.comment # page.base.comment)
  /\ page' = [page EXCEPT !.serial = @ + 1, !.draft.comment = page.serial + 1]

CloseDrawer ==
  /\ Does("close") /\ page.editing # 0 /\ Leaves
  /\ page' = ResetDrawer(page)

ClickSave ==
  /\ Does("save") /\ CanMutateDrawer(page) /\ Stays
  /\ page' = BeginDrawerMutation(page,
       [Task("save", "put") EXCEPT !.keep = page.draft,
                                   !.row = [page.clone EXCEPT !.text = page.draft.text]])

ClickComment ==
  /\ Does("comment") /\ CanMutateDrawer(page) /\ page.draft.comment # 0 /\ Stays
  /\ page' = BeginDrawerMutation(page, [Task("comment", "comment") EXCEPT !.keep = page.draft])

ClickAction(op) ==
  /\ Does(op) /\ CanMutateDrawer(page) /\ Leaves
  /\ page' = BeginDrawerMutation([page EXCEPT !.base = IF Dirty(page) THEN Blank ELSE @],
                                 [Task(op, op) EXCEPT !.keep = page.base])

(* Mutant: drops onto a ticket under change.                              *)
DropCardMutant(i) ==
  /\ Does("move") /\ SignedIn /\ ~Loading(page) /\ i \in DOMAIN page.rows
  /\ page.rows[i].live /\ ~page.rows[i].backlog
  /\ Leaves
  /\ page' = BindTicket(ResetDrawer(page), i, Task("move", "move"))

(* A card is dropped while no ticket has a request under way.              *)
DropCard(i) ==
  /\ Does("move") /\ SignedIn /\ ~Loading(page) /\ i \in DOMAIN page.rows
  /\ page.rows[i].live /\ ~page.rows[i].backlog
  /\ \A j \in Ids : ~Held(page, j)
  /\ Leaves
  /\ page' = BindTicket(ResetDrawer(page), i, Task("move", "move"))

ClickEpicStatus(i) ==
  /\ Does("epic") /\ SignedIn /\ ~Loading(page) /\ i \in DOMAIN page.rows
  /\ page.rows[i].epic /\ ~page.rows[i].backlog /\ page.rows[i].live /\ ~Held(page, i)
  /\ Leaves
  /\ page' = BindTicket(ResetDrawer(page), i,
       [Task("epic", "put") EXCEPT !.row = [page.rows[i] EXCEPT !.done = ~@]])

(* The backlog below ticket i, trashed tickets included: what is in every  *)
(* set with the backlog children of i and of the set's members.            *)
BacklogBelow(rows, i) ==
  {j \in DOMAIN rows : \A S \in SUBSET DOMAIN rows :
     (\A k \in DOMAIN rows : rows[k].backlog /\ rows[k].parent \in S \union {i} => k \in S)
       => j \in S}

(* Depth first: parents first, a subtree in one piece, siblings in order.  *)
(* (The set has one member; parents form no cycle.)                        *)
BacklogDescendants(rows, i) ==
  LET below(j) == BacklogBelow(rows, j)
  IN {q \in [1 .. Cardinality(below(i)) -> below(i)] :
        \A a, b \in DOMAIN q : a < b =>
          /\ q[a] # q[b] /\ q[a] \notin below(q[b])
          /\ rows[q[a]].parent = rows[q[b]].parent => q[a] < q[b]
          /\ \A c \in DOMAIN q : b < c /\ q[c] \in below(q[a]) => q[b] \in below(q[a])}

Promoted(rows, i, parent) ==
  [ticket |-> i, row |-> [rows[i] EXCEPT !.backlog = FALSE, !.done = FALSE, !.parent = parent]]

(* An Epic goes without a parent, and all its backlog with it; any other   *)
(* item goes below the chosen Epic, which goes first if it has to.         *)
ToPromote(rows, i, e) ==
  IF rows[i].epic
  THEN {<<Promoted(rows, i, 0)>> \o [k \in DOMAIN q |-> Promoted(rows, q[k], rows[q[k]].parent)] :
          q \in BacklogDescendants(rows, i)}
  ELSE {(IF e # 0 /\ rows[e].backlog THEN <<Promoted(rows, e, 0)>> ELSE << >>)
          \o <<Promoted(rows, i, e)>>}

(* The buttons of the Backlog and of the Board's picker.                   *)
ClickPromote(i, e) ==
  /\ Does("promote") /\ SignedIn /\ i \in DOMAIN page.rows /\ Stays
  /\ page.rows[i].backlog /\ page.rows[i].live
  /\ e # 0 => ~page.rows[i].epic /\ e \in DOMAIN page.rows /\ page.rows[e].epic /\ page.rows[e].live
  /\ \E q \in ToPromote(page.rows, i, e) :
     page' = Send(page, [Task("promote", "put") EXCEPT !.ticket = Head(q).ticket,
                                                       !.row = Head(q).row, !.todo = Tail(q)])

ClickAdd ==
  /\ Does("create") /\ SignedIn /\ page.board # 0 /\ Stays
  /\ page' = Send(page, [Task("create", "create") EXCEPT !.board = page.board])

ClickRestore(i) ==
  /\ Does("restore") /\ SignedIn /\ i \in DOMAIN page.rows /\ ~page.rows[i].live /\ Stays
  /\ page' = Send(page, [Task("restore", "restore") EXCEPT !.ticket = i])

ChooseFile ==
  /\ Does("import") /\ SignedIn /\ Leaves
  /\ page' = Send(ResetDrawer(page), Task("import", "file"))

Poll ==
  /\ Does("poll") /\ SignedIn /\ Stays
  /\ page' = LET p == [page EXCEPT !.pollGen = @ + 1] IN
             Send(p, [Task("poll", "notifications") EXCEPT !.generation = p.pollGen])

ClickLogout ==
  /\ Does("logout") /\ SignedIn /\ Leaves
  /\ page' = [Send(ShowLoggedOut(page), Task("logout", "logout")) EXCEPT !.locked = TRUE]

(* Login and signup; the address bar may name a board and a ticket.  The   *)
(* user is assumed to wait for the answer to a login before the next one.  *)
ClickLogin(u, r) ==
  /\ Does("login") /\ page.panel /\ ~page.locked /\ Stays
  /\ \A t \in page.tasks : t.op # "login"
  /\ LET p == ResetDrawer(InvalidateSessionRequests(page)) IN
     page' = Send([p EXCEPT !.selected = IF r.board # 0 THEN r.board ELSE @,
                            !.queued = r.ticket, !.view = r.view],
                  [Task("login", "login") EXCEPT !.ask = u])

ClickSavePassword ==
  /\ Does("password") /\ SignedIn /\ Stays
  /\ page' = Send(page, Task("password", "password"))

-----------------------------------------------------------------------------
(* The server, as far as the page can tell.                                *)

NewRow == [NoRow EXCEPT !.text = 1, !.live = TRUE, !.version = 1]
NextId == 1 + Cardinality(DOMAIN store.rows)
NextBoard == 1 + Cardinality(UNION {store.access[u] : u \in Users})

Account(t) == IF t.as \in store.live THEN store.owner[t.as] ELSE 0

WithRow(s, i, row) ==
  [s EXCEPT !.rows = [j \in DOMAIN @ \union {i} |->
                        IF j = i THEN [row EXCEPT !.version = @ + 1] ELSE s.rows[j]]]

WithSession(s, u) ==
  [s EXCEPT !.owner = Append(@, u), !.live = @ \union {Len(s.owner) + 1}]

WithoutSession(s, token) == [s EXCEPT !.live = @ \ {token}]

Accepts(s, stamp) == [s EXCEPT !.accepted = @ \union {stamp}]

(* The effect of a request, by its address.                                *)
Effect(s, t, u) ==
  LET old == IF t.ticket \in DOMAIN s.rows THEN s.rows[t.ticket] ELSE NoRow
  IN CASE t.url = "put" ->
            Accepts(WithRow(s, t.ticket, [t.row EXCEPT !.live = old.live, !.version = old.version]),
                    t.row.text)
       [] t.url = "move" -> WithRow(s, t.ticket, [old EXCEPT !.done = ~@])
       [] t.url = "comment" -> Accepts(s, t.keep.comment)
       [] t.url = "trash" -> WithRow(s, t.ticket, [old EXCEPT !.live = FALSE])
       [] t.url = "restore" -> WithRow(s, t.ticket, [old EXCEPT !.live = TRUE])
       [] t.url = "duplicate" -> WithRow(s, NextId, old)
       [] t.url = "create" -> WithRow(s, NextId, [NewRow EXCEPT !.board = t.board])
       [] t.url = "board" -> [s EXCEPT !.access[u] = @ \union {NextBoard}]
       [] t.url = "login" -> WithSession(s, t.ask)
       [] t.url = "logout" -> WithoutSession(s, t.as)
       [] t.url = "password" -> WithSession(WithoutSession(s, t.as), u)
       [] OTHER -> s

(* The board asked for if the account may open it, else its first one.     *)
StateOf(s, t, u) ==
  LET boards == s.access[u]
      b == IF t.ask \in boards \/ boards = {} THEN t.ask
           ELSE CHOOSE x \in boards : \A y \in boards : x <= y
      board == IF boards = {} THEN 0 ELSE b
  IN [status |-> "ok", user |-> u, board |-> board,
      rows |-> [i \in {j \in DOMAIN s.rows : s.rows[j].board = board} |-> s.rows[i]]]

Answer(s, t, u) ==
  CASE t.url = "state" -> StateOf(s, t, u)
    [] t.url \in {"history", "notifications"} -> [status |-> "ok", user |-> u]
    [] t.url \in {"duplicate", "create"} -> [status |-> "ok", made |-> NextId]
    [] t.url = "put" -> [status |-> "ok", made |-> s.rows[t.ticket].version + 1]
    [] t.url = "board" -> [status |-> "ok", made |-> NextBoard]
    [] t.url \in {"login", "password"} -> [status |-> "ok", made |-> Len(s.owner) + 1]
    [] OTHER -> [status |-> "ok"]

NeedsNoLogin == {"login", "logout", "file"}

(* Tickets have to be stored, and trashed ones restored before they change; *)
(* ids are bounded.                                                        *)
Permitted(t) ==
  /\ t.url \in {"put", "move", "comment", "duplicate", "trash", "restore"} =>
       t.ticket \in DOMAIN store.rows
  /\ t.url \in {"put", "move", "comment", "duplicate"} => store.rows[t.ticket].live
  /\ t.url \in {"duplicate", "create"} => NextId \in Ids
  /\ t.url = "board" => NextBoard \in BoardIds

Replies(t, reply) == page' = [page EXCEPT !.tasks = (@ \ {t}) \union {[t EXCEPT !.reply = reply]}]

Waiting == {t \in page.tasks : t.reply.status = "none"}

(* The server acts and its answer is on the way.                           *)
Serve(t) ==
  /\ Account(t) # 0 \/ t.url \in NeedsNoLogin
  /\ Permitted(t)
  /\ store' = Effect(store, t, Account(t))
  /\ Replies(t, Answer(store, t, Account(t)))
  /\ UNCHANGED user

Refuse(t) ==
  /\ Account(t) = 0 /\ t.url \notin NeedsNoLogin
  /\ Replies(t, [status |-> "denied"])
  /\ UNCHANGED <<store, user>>

(* A rejected or lost request, or an answer lost after the effect.         *)
Fail(t) ==
  /\ user.fails > 0 \/ ~Permitted(t)
  /\ user' = [user EXCEPT !.fails = IF @ > 0 THEN @ - 1 ELSE 0, !.calm = FALSE]
  /\ store' \in {store} \union (IF (Account(t) # 0 \/ t.url \in NeedsNoLogin) /\ Permitted(t)
                                THEN {Effect(store, t, Account(t))} ELSE {})
  /\ Replies(t, [status |-> "failed"])

Network ==
  /\ \E t \in Waiting : Serve(t) \/ Refuse(t) \/ Fail(t)
  /\ waived' = FALSE /\ UNCHANGED known

(* The server ends a session; another client edits a ticket.               *)
Expire ==
  /\ "expire" \in user.may /\ user.left > 0
  /\ user' = [user EXCEPT !.left = @ - 1]
  /\ \E k \in store.live : store' = WithoutSession(store, k)
  /\ waived' = FALSE /\ UNCHANGED <<page, known>>

OtherClient ==
  /\ "other" \in user.may /\ user.left > 0
  /\ user' = [user EXCEPT !.left = @ - 1, !.calm = FALSE]
  /\ \E i \in DOMAIN store.rows : store' = WithRow(store, i, store.rows[i])
  /\ waived' = FALSE /\ UNCHANGED <<page, known>>

-----------------------------------------------------------------------------
(* A function resumes when the answer it awaits has arrived.               *)

Arrived(ops) ==
  {t \in page.tasks : t.op \in ops /\ t.url # "state" /\ t.reply.status # "none"}

Resumes(p) ==
  /\ page' = p /\ waived' = FALSE /\ UNCHANGED <<store, user>>

(* The page has seen that a whole-ticket update was stored.                *)
Confirms(t) ==
  known' = IF Succeeded(t) /\ t.url = "put"
           THEN [known EXCEPT ![t.ticket] = IF t.reply.made > @ THEN t.reply.made ELSE @]
           ELSE known

ResumeLoad ==
  \E t \in page.tasks :
    /\ t.url = "state" /\ t.reply.status # "none"
    /\ Resumes(AfterLoad(page, t)) /\ UNCHANGED known

ResumeEditor ==
  \/ \E t \in Arrived({"save"}) : Resumes(SaveDrawer(page, t)) /\ Confirms(t)
  \/ \E t \in Arrived({"comment"}) : Resumes(AddComment(page, t)) /\ Confirms(t)
  \/ \E t \in Arrived({"trash", "duplicate"}) :
        Resumes(TaskDrawerAction(page, t)) /\ Confirms(t)

ResumeBoard ==
  \/ \E t \in Arrived({"move"}) : Resumes(MoveBoardTicket(page, t)) /\ Confirms(t)
  \/ \E t \in Arrived({"epic"}) : Resumes(ChangeEpicCompletion(page, t)) /\ Confirms(t)
  \/ \E t \in Arrived({"promote"}) : Resumes(PromoteBacklogTicket(page, t)) /\ Confirms(t)
  \/ \E t \in Arrived({"create"}) : Resumes(CreateTicket(page, t)) /\ Confirms(t)
  \/ \E t \in Arrived({"restore"}) : Resumes(RestoreTask(page, t)) /\ Confirms(t)
  \/ \E t \in Arrived({"import"}) : Resumes(ImportBoardFile(page, t)) /\ Confirms(t)

ResumePage ==
  \/ \E t \in Arrived({"notification"}) : Resumes(OpenNotification(page, t)) /\ Confirms(t)
  \/ \E t \in Arrived({"newBoard"}) : Resumes(CreateBoard(page, t)) /\ Confirms(t)
  \/ \E t \in Arrived({"history"}) : Resumes(ShowHistory(page, t)) /\ Confirms(t)
  \/ \E t \in Arrived({"poll"}) : Resumes(RefreshNotifications(page, t)) /\ Confirms(t)
  \/ \E t \in Arrived({"login"}) : Resumes(Login(page, t)) /\ Confirms(t)
  \/ \E t \in Arrived({"password"}) : Resumes(SavePassword(page, t)) /\ Confirms(t)
  \/ \E t \in Arrived({"logout"}) : Resumes(Logout(page, t)) /\ Confirms(t)

Resume == ResumeLoad \/ ResumeEditor \/ ResumeBoard \/ ResumePage

-----------------------------------------------------------------------------
Views == {"board", "history"}

Navigate ==
  \/ \E b \in BoardIds : ChooseBoard(b)
  \/ \E r \in Routes : ApplyRoute(r)
  \/ \E view \in Views : NavButton(view)
  \/ \E i \in Ids : ClickNotification(i)
  \/ ClickCreateBoard

Edit ==
  /\ SignedIn
  /\ \/ \E i \in Ids : OpenTicket(i)
     \/ TypeText \/ TypeComment \/ CloseDrawer \/ ClickSave \/ ClickComment
     \/ \E op \in {"trash", "duplicate"} : ClickAction(op)

ChangeBoard ==
  \/ \E i \in Ids : DropCard(i) \/ ClickEpicStatus(i) \/ ClickRestore(i)
  \/ \E i \in Ids, e \in Ids \union {0} : ClickPromote(i, e)
  \/ ClickAdd \/ ChooseFile \/ Poll

Sign ==
  \/ ClickLogout \/ ClickSavePassword
  \/ \E u \in Users, r \in Routes : ClickLogin(u, r)

(* The script has run: the first load() is under way.                      *)
Opened(token) ==
  LoadNow([me |-> 0, board |-> 0, rows |-> << >>, notes |-> 0, selected |-> 0, view |-> "board",
           queued |-> 0, loadGen |-> 0, session |-> 1, editGen |-> 0, historyGen |-> 0,
           pollGen |-> 0, editing |-> 0, clone |-> NoRow, draft |-> Blank, base |-> Blank,
           mutation |-> 0, pending |-> [i \in Ids |-> NoBinding], history |-> Nothing,
           jar |-> token, panel |-> FALSE, locked |-> FALSE, tasks |-> {}, serial |-> 1])

Init ==
  /\ \E s \in Scenarios, u \in Users :
       /\ user = [may |-> s.may, left |-> s.left, fails |-> s.fails, calm |-> TRUE]
       /\ store = [rows |-> s.rows, access |-> InitialAccess, owner |-> <<u>>, live |-> {1},
                   accepted |-> {}]
  /\ page = Opened(1)
  /\ waived = FALSE
  /\ known = [i \in Ids |-> 0]

Next == Network \/ Expire \/ OtherClient \/ Resume \/ Navigate \/ Edit \/ ChangeBoard \/ Sign

(* Every call is answered or fails, and its function resumes: browsers and *)
(* the event loop guarantee both.  The user need never act.                *)
Fairness == WF_vars(Network) /\ WF_vars(Resume)

Spec == Init /\ [][Next]_vars /\ Fairness

-----------------------------------------------------------------------------
(* Properties.                                                             *)

(* Globals, tasks and the server's tables hold values of the right kind.   *)
TypeOK ==
  /\ page.me \in Users \union {0} /\ page.notes \in Users \union {0}
  /\ page.board \in BoardIds \union {0} /\ page.selected \in BoardIds \union {0}
  /\ DOMAIN page.rows \subseteq Ids /\ page.queued \in Ids \union {0}
  /\ page.editing \in Ids \union {0} /\ page.view \in Views
  /\ \A i \in Ids : page.pending[i].session <= page.session
  /\ \A t \in page.tasks : t.id <= page.serial /\ t.session <= page.session
                           /\ t.sent <= page.session
  /\ DOMAIN store.rows \subseteq Ids

(* Whatever order answers arrive in, the screen shows data of the account  *)
(* whose cookie the browser holds, and of the board it names (load,        *)
(* invalidateSessionRequests, renderHistory, refreshNotifications).        *)
ScreenMatchesSession ==
  page.me # 0 =>
    /\ page.jar # 0 /\ store.owner[page.jar] = page.me
    /\ page.notes \in {0, page.me}
    /\ page.history # Nothing => page.history = [user |-> page.me, board |-> page.board]
    /\ \A i \in DOMAIN page.rows : page.rows[i].board = page.board

BindingsAlive ==
  \A i \in Ids : page.pending[i] # NoBinding =>
    \E t \in page.tasks : t.id = page.pending[i].id /\ t.ticket = i

(* A ticket refuses edits only while the request that bound it is under    *)
(* way, across sessions and failures; the fields of the open editor are    *)
(* disabled exactly while its own request is, never by or beyond that of   *)
(* another editor; and a ticket waits to be opened only while no editor is *)
(* open.  Code: beginDrawerMutation, finishDrawerMutation, render,         *)
(* openTicket.                                                             *)
EditorOwnsItsMutation ==
  /\ BindingsAlive
  /\ page.editing # 0 /\ Held(page, page.editing) =>
       page.mutation = page.pending[page.editing].id
  /\ page.mutation # 0 => \E t \in page.tasks : t.id = page.mutation /\ t.ticket = page.editing
  /\ page.queued # 0 => page.editing = 0

(* In one session two functions never change the same ticket at once       *)
(* (beginDrawerMutation, moveBoardTicket, changeEpicCompletion); promoting *)
(* does not bind its tickets.                                              *)
Writers == {t \in page.tasks : t.session = page.session /\ t.url # "state"
                             /\ t.op \in {"save", "comment", "trash", "duplicate", "move", "epic"}}
OneWriterPerTicket == \A s, t \in Writers : s.ticket = t.ticket => s = t

(* Promotion goes parent first: however many of its requests succeed, no   *)
(* ticket on the board has its parent in the backlog.                      *)
NoBacklogAbove ==
  \A i \in DOMAIN store.rows :
    LET up == store.rows[i].parent IN
    ~store.rows[i].backlog /\ up # 0 => ~store.rows[up].backlog

(* When all functions of the first session have ended, none of their calls *)
(* was lost, nobody else wrote and the user stayed on the board, the page  *)
(* shows what the server stores: every change is followed by a load that   *)
(* is served after it and is not overtaken (load and its callers).         *)
QuietPageIsFresh ==
  page.tasks = {} /\ page.session = 1 /\ user.calm /\ page.me # 0 =>
    page.rows = [i \in {j \in DOMAIN store.rows : store.rows[j].board = page.board} |->
                   store.rows[i]]

(* The ticket reopened in the editor is at least as new as the last update *)
(* of it that the page saw confirmed (openTicket, app.test.js:734).        *)
ReopensFresh ==
  [][page'.editGen # page.editGen /\ page'.editing # 0 =>
       page'.clone.version >= known[page'.editing]]_vars

(* Input the user has typed and not yet given away.                        *)
Unsaved ==
  IF page.editing = 0 \/ page.base = Blank THEN {}
  ELSE (IF page.draft.text # page.base.text THEN {page.draft.text} ELSE {})
       \union (IF page.draft.comment # page.base.comment THEN {page.draft.comment} ELSE {})

Draft == INSTANCE Drafts WITH
  unsaved <- Unsaved, accepted <- store.accepted, session <- page.session

(* The editor keeps what was typed until the server has it, the user gives *)
(* it up or the session ends, whatever answers arrive in between.          *)
DraftsAreKept == Draft!Spec

(* A requested board is shown, or the request given up, in the end; and    *)
(* no ticket refuses edits forever.  Code: load, finishDrawerMutation and  *)
(* the finally blocks of the functions that change tickets.                *)
RequestsSettle ==
  /\ (page.me # 0 /\ Loading(page)) ~> (page.me = 0 \/ ~Loading(page))
  /\ \A i \in Ids : Held(page, i) ~> ~Held(page, i)
=============================================================================
