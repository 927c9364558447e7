# Kanbanodon in TLA+

Kanbanodon is a Kanban board served by one Go process (`cmd/server`) with two SQLite
files and a browser application without a framework (`web/static`). This directory
models the parts of it that are hardest to test: the tickets of a board and the accounts,
sessions and sharing of an installation as concurrent HTTP requests change them; the page
in the browser with its overlapping requests, answers and sessions; and what the planning
views compute and show. The models are checked with TLC, and most properties of the
server, the page and the planning workspace are also proved with TLAPS, for every board, database,
request set and order of events.

Paths below are relative to the repository; `file.go` means `cmd/server/file.go`,
`file.js` means `web/static/file.js`.

## The system

| Component | State | Operations | Hard part |
| --- | --- | --- | --- |
| Ticket handlers (`tickets.go`, `task_features.go`, `ticket_move.go`) | tables `tickets`, `ticket_links`, `ticket_repetitions` | create, update (PUT), move, duplicate, archive, trash, restore, permanent deletion | checks run before the transaction that relies on them |
| Work history (`work_history.go`) | table `work_history`, `tickets.started_at`, `tickets.completed_at` | `workflowHistory`, `recordCompletionHistory`, `validateEpicCompletion`, `migrateWorkHistory` | long sequences of close, reopen, restore, reparent; restarts on old databases |
| Graphs (`tickets.go`, `db.go`) | `ticket_links`, `tickets.parent_id` | `validateDependencyGraph`, `replaceTicketMeta`, `parentWouldCreateCycle` | cycles over several requests |
| Columns (`boards.go`, `tickets.go`) | table `columns`, never changed after a board is created | `blockedDependenciesForLinks`, `completionTimestamp` | custom columns |
| Board order (`ticket_move.go`) | `tickets.position` | `moveTicket` | anchors, ties, lanes |
| Accounts (`auth.go`, `users.go`) | `users`, `sessions` | login, signup, logout, password change and reset, role change, deletion | authentication is read before the handler acts |
| Boards and sharing (`boards.go`) | `boards`, `board_users`, `sprint_names` | create, share, settings, sprint names | owner or account deleted meanwhile |
| Comments, notifications (`tickets.go`, `task_features.go`) | `comments`, `notifications`, `ticket_activity` | comment, mention, mark read | recipients computed before the transaction |
| Import and export (`tickets.go`) | all tables of a board | `importData`, `export` | ids are mapped in several passes |
| Startup (`migrate.go`, `main.go`, `demo_data.go`, `avatars.go`) | both databases | migrations, username migration, bootstrap administrator, demo data | crashes between statements, a marker in a second database |
| Browser, loading and editing (`app.js`, `task-tools.js`) | `state`, the generations of loads, sessions, editors and history, `pendingTicketMutations`, the open editor | `load`, `saveDrawer`, `addComment`, drag and drop, `changeEpicCompletion`, `promoteBacklogTicket`, login, logout | late answers, sessions that end, several requests for one action |
| Browser, planning (`app.js`) | the loaded board, the view, Sprint, chain, filters, collapsed Epics, the unsaved Sprint plan, the address | choosing, focusing, filtering, paging, navigating, saving the plan | choices that contradict each other, boards that change underneath, calendar edges |
| Dependency view (`dependency-hover.js`) | the drawn chain | stages, colors, dimming | circles among imported links |
| Addresses (`route.js`) | `window.location.hash` | `parseRoute`, `buildRoute` | unusable parts |
| History view, avatar creator (`history.js`, `dino-creator.js`) | of the page | drawing | none beyond layout |

How they interact. The browser sends JSON over HTTP; each request is a goroutine.
`withUser` (`auth.go`) looks up session and account, then the handler runs. All
handlers share one `*sql.DB` per file, limited to one connection (`main.go:67`), so
transactions exclude each other and every statement outside a transaction is a
transaction of its own. Nothing else is shared in memory. A handler answers an error at the
first check or statement that fails, and a deferred rollback undoes an open
transaction.

The browser runs one event handler or resumed function at a time; every `await api(...)` is
a point where others run. What belongs to an earlier session, load, editor or history view is
recognised by the number it was started with and ignored. Several pages share the server only.

## Modules

| Module | Models |
| --- | --- |
| `Workflow` | the columns of a board and which of them need finished prerequisites |
| `TicketGraph` | reachability over edge sets, replacement of a ticket's links |
| `TicketRules` | the rules of the ticket table as operators: the work tree, epic completion, timestamps, history, repetition, order |
| `Tickets` | the database, the handlers as steps, start and crash, the properties |
| `MCTickets` | small boards, databases and request sets for TLC |
| `Accounts` | users, sessions, board owners and access; the middleware, the handlers and the start of the server; the properties |
| `MCAccounts` | small installations and request sets for TLC |
| `TicketsProofs` | type correctness of `Tickets` |
| `TicketsGraphProofs` | references, dependency cycles, closed epics |
| `TicketsStepsProofs` | history and completion times, order of episodes, next occurrences, moves, parents, the column gate, older clients |
| `AccountsProofs` | type correctness of `Accounts`, sessions, passwords, administrators, owners and access |
| `Frontend` | the page and its asynchronous functions, the server they call, the user; the properties |
| `Drafts` | the abstract promise of an editor, which `Frontend` implements |
| `MCFrontend` | small boards, addresses and scenarios for TLC |
| `FrontendProofs` | type correctness of `Frontend`, writers, the editor, and that it implements `Drafts` |
| `FrontendScreenProofs` | what the page shows: fresh rows, and rows of the right account |
| `Sprints` | the calendar: cadence, Sprints by number and by date |
| `WorkTree` | backlog and work, the tree, prerequisites, the column gate, the state of an Epic, in the browser's version |
| `DependencyHover` | the drawing of a chain: connections, stages, colors, labels, dimming |
| `Routes` | addresses as sequences of words and numbers |
| `PlanningSelection` | filters, Sprint, chain and order: what the views select |
| `PlanningViews`, `Timeline` | lanes, cards and rows; schedule, bars and chart geometry |
| `Planning` | the choices, loads, addresses and the Sprint plan as actions over them |
| `PlanningProperties`, `MCPlanning` | what must hold; boards, plans and scenarios for TLC |
| `PlanningProofs` | the calendar, type correctness of `Planning`, addresses, the Sprint plan, what stays in sight, no work lost, whole chains |
| `PlanningRowsProofs` | the sorted lists of the planning views: rows below their Epics, indentation, the stages of a chain; what the Board offers; the chart |

`Tickets` and `Accounts` do not share state: a ticket handler reads the account only to
let the request in, and no ticket guard depends on it. `Tickets` extends `TicketRules`, which
extends `TicketGraph` and `Workflow`.

`Frontend` has its own small server: one step per request, with the answers and refusals the page
tells apart; what a request does in several statements is the subject of `Tickets`. `Planning`
extends the operator modules, and `PlanningProperties` compares them with `TicketRules`, instantiated
for the columns of the board at hand.

The next three sections are about `Tickets`; `Accounts`, `Frontend` and `Planning` follow.

### State

| Variable | Code |
| --- | --- |
| `tickets` | table `tickets` of one board: a function from ids to rows with type, parent, column, position, backlog, archived, deleted, repeat interval, completed, started |
| `links` | table `ticket_links` |
| `history` | table `work_history`: ticket, completed, started, parent, epic |
| `repetitions` | table `ticket_repetitions` |
| `clock` | the next timestamp (`time.Now`); 0 stands for an empty timestamp |
| `handler` | per request slot, the request and how far its handler has come |
| `up` | the process runs |

### Actions

A handler reads in separate statements and then commits one transaction.

- `Receive`: decoding, normalisation, and the look-up that the ticket exists and is
  not in the trash (`tickets.go:132-171`).
- `CheckParent`, `CheckDependencies`, `LoadPrevious`: the reads of create and PUT
  before their transaction (`tickets.go:280-333`); a create also takes its
  completion time here (`tickets.go:81`).
- `LoadOriginal`: the read of duplicate, which then continues as a create.
- `CommitCreate`, `CommitUpdate`, `CommitMove`, `CommitArchive`, `CommitTrash`,
  `CommitRestore`, `CommitDelete`: the transactions, with everything they write.
  `FinishWorkflow` is what the first three share: epic check, start time, history, and the
  next occurrence.
- `Fail`: a check or statement failed; nothing was written.
- `Startup`: the ideas and completions migrations. `Crash`: the process dies, with all requests in flight.

### Abstractions

- Adjacent read-only statements that check the same thing (that the parent exists,
  may have this child, and is no descendant) are one step. Every statement group
  that a property depends on is a step of its own.
- `Fail` may always happen: it stands for the failed check, whose condition is the negated
  guard of the next step, and for any database error.
- Timestamps strictly increase. They have nanosecond resolution in the code; two
  writes of one connection in the same nanosecond are not modelled.
- One board. Every id a handler accepts is checked to be of the request's board, and
  no property relates two boards.
- A custom reference is empty: ties of the order are broken by id. Titles, texts,
  labels, assignees, milestones, dates, estimates, comments, notifications and the
  activity log are left out: no modelled guard reads them.
- Extras are reduced to the repeat interval; a form without extras is `NoExtras`.
- The walks over graphs are least closed sets (`TicketGraph!Reach`): the code's "seen"
  maps visit exactly these.
- `InitialStores` are databases of older versions: no started times, no history, completions
  only in Done, no dangling or cyclic references, no open work below an epic in Done.
- The first column is not "Done" (`ColumnsAssumption`). No request can create
  such a board.

## Accounts

| Variable | Code |
| --- | --- |
| `users` | table `users`: a function from ids to name, administrator, must change password, password version |
| `sessions`, `issued` | table `sessions`: a function from tokens to account, liveness and the password version it stands for; how many tokens exist |
| `boards`, `access` | `boards.owner_id` and table `board_users` |
| `initialized` | the marker `bootstrap_initialized` in `config.db` |
| `server` | how far the process has come in `seed`; `"up"` once it listens |
| `handler` | per request slot: the request, its token, what the middleware read, how far it has come |

- `BootInsert` or `BootFindAdmin`, `BootMark`, `BootGrantMissing`, `BootGrantAll`,
  `BootAssignOwners`: the statements of `bootstrapAdmin`, `grantUserAllBoards` and
  `ensureBoardOwners`. Each is an action, so `Crash` may come between any two. An installation
  that is not fresh and has no administrator cannot start; TLC's deadlock check covers it.
- `Receive`, `FindSession`, `FindUser`: the middleware. Login, signup and logout go without it.
- `Login`, `Signup`, `DeleteUser`, `ResetPassword`, `ChangePassword`, `CreateBoard`: one
  transaction each. `CreateUser` commits, then `GrantCreated` and `GrantCreatedAll` grant
  access; `CountAdmins` and `SetRole` are the two statements of `userAdmin`; `ReadOwner`,
  `ReadUser` and `Share` those of `boardAccess`.
- `Expire`: a session reaches its expiry time. `Fail`: as in `Tickets`.

A password is its version: each write makes a new one, and a client knows a password when
it names the version. Tokens are never issued twice. The model is of the local mode
(`KANBANODON_AUTH_MODE=local`) with the board named in the request; email as a second login name, avatars,
validation of names and the read-only handlers are left out. `opened` is a history variable.

## Frontend

| Variable | Code |
| --- | --- |
| `page` | the globals of `app.js`: `state` (account, board, rows, notifications), `selectedBoardId`, `view`, the generations, the editor with its draft and `drawerSnapshot`, `pendingTicketMutations`, the history shown, the cookie; and `tasks`, the asynchronous functions that await an answer |
| `store` | the server: rows with a version, sharing, which account a session belongs to, which sessions live |
| `user` | which kinds of events a scenario has, how many, how many calls may be lost |
| `waived`, `known` | history variables: the user gave input up in this step; the version of each ticket the page saw confirmed |

- A task is a function with the one call it awaits. `Send` starts it, `Serve` is the server's step,
  `Refuse` an error answer, `Fail` a call that is lost before or after its effect; the answer then waits
  until the function resumes, in any order. `ResumeLoad`, `ResumeEditor`, `ResumeBoard` and
  `ResumePage` run it to its next call or its end, with its `catch` and `finally`.
- `ClickSave`, `ClickComment`, `ClickAction`, `DropCard`, `ClickEpicStatus`, `ClickPromote`, `ClickAdd`,
  `ClickRestore`, `ChooseFile`, `ChooseBoard`, `ApplyRoute`, `ClickNotification`, `OpenTicket`, `CloseDrawer`,
  `Poll`, `ClickLogin`, `ClickLogout`, `ClickSavePassword` are the event handlers with all their guards.
  `Expire` ends a session on the server; `OtherClient` writes a ticket.
- Every handler of the board, the drawer and the account form requires `SignedIn`: the login panel hides them
  (`app.js:421`).
- Titles, texts and comments are versions of input; columns are done or not done; an archived ticket
  is not distinguished from a trashed one (`live`).
- A promotion goes through the backlog below an Epic in one of the depth-first orders of the tree
  (`BacklogDescendants`); the code takes the one of its rows.
- The user waits for the answer of a login before the next one. Two logins at once could answer in
  another order than the browser stores their cookies.
- `promoteBacklogTicket` and the creation of a ticket have no session guard. Their answers can show the data of
  the account that is leaving between the click on logout and its answer, which clears the page
  (`app.js:3848`, `app.js:3911`). No scenario combines them with logout.

## Planning

| Variable | Code |
| --- | --- |
| `server`, `board`, `load` | the stored boards, the loaded one, the board of the latest load |
| `ui` | the globals with the user's choices: view, wanted board, Sprint and the board it was chosen on, focused task, sort, filters, collapsed Epics, page of the strip |
| `url` | `window.location.hash` |
| `plan` | the fields of the Sprint plan, the draft, the saves under way |
| `user` | the scenario |

Days are numbers; a board has its columns as names, and a row its type, parent, column, position,
reference, links, dates and the text filters it meets. `Snapshot` computes what one rendering reads, like
`withDependencySnapshot`. `IsBoard` says what the boards are: a finite table of rows with the types `normTicket`
gives them, and nothing else, so parents and links may be missing, circular or of the wrong type, as after an import.
Typed addresses name no ticket, because the task editor is closed here. A load's data is read when it is answered. Each action is one handler together with
the rendering and the address it writes. The boards have a chain across Epics, late, unplanned and
undated work, a Backlog with an Epic of its own, a completed Epic, and (imported) a circle of links,
custom columns and archived parents; another client archives, reopens and completes.

Left out: Sprint names and their delayed save (`app.js:1367-1456`), markup, the exact fit of one Sprint or
chain to the window (it uses fractions of a pixel), the routing of wires around cards. Known limits of the
code that the properties allow for: leaving the planning views drops the Sprint but keeps the chain; a task of
a chain below a completed Epic is not drawn on the Board; the range of a focused chart ignores delays and the bars
of Epics. Three are about what the browser offers: open work below an archived or a backlog ticket is seen by the
server only, so an Epic's button can be enabled although its completion is refused; a parent offered in the editor can
be refused for the same reason, when the way up from it leads over such a ticket back to the edited one, or runs in
imported circles; and of several Done columns the browser's button knows the first only, so it can stay disabled
although the server would accept.

Two more are disagreements with what the interface promises. A Sprint shows an Epic for the tasks below it. When
the Epic itself is linked with a task of an opened chain, and its tasks of that Sprint are filtered out or "Focus
tasks" hides them, the Epic falls out of the chain although it belongs to it (`app.js:752` shows an Epic for the tasks
that are left; `app.js:764` promises "the complete connected chain"). `ChainIsComplete` allows for exactly that as
`LeftOut`; a board of `MCPlanning` has such an Epic, and without the exception TLC finds the state. And a chain opened within a
Sprint keeps to it: choosing another board drops the Sprint, an Epic with tasks of the chain outside that Sprint
may be collapsed already, and when the other board's load fails, the old board comes back with the longer chain and
a part of it inside the collapsed Epic. `SelectionStaysInSight` is therefore about choices on one board.

## Properties and runs

Fairness is assumed in the browser modules only. `Frontend`: `WF(Network)` and `WF(Resume)`, every call
is answered or fails and its function resumes; the browser and its event loop guarantee both. One
condition on the disjunction suffices because the user's events, and with them new calls, are
bounded. `Planning`: `WF(LoadSettles)` and `WF(SaveSettles)`, for the same reason. The user, other clients and
the expiry of sessions never have to act. On the server nothing has to happen without a request,
and a request may always fail, so its modules state no liveness.

| Run | Instance | Shows |
| --- | --- | --- |
| `TicketsTree` | one slot; epic, story, weekly task, room for two more; 18 requests | `EpicsClosed`, `HistoryComplete`, `EpisodesOrdered`, `CompletionFollowsColumn`, `HistoryImmutable`, `RepeatsExactlyOnce`, `TypeOK` over closing, reopening, backlog, archive, trash, restore, new work and restarts |
| `TicketsChain` | one slot; three tasks, links in every direction, a custom gated column, deletion and id reuse | `LinksAcyclic`, `GateRespected`, `OlderClientsKeepExtras` |
| `TicketsParent` | one slot; three tickets, every type under every parent; moves of the story and the task to either side of every ticket in two columns, from equal positions | `ParentsAcyclic`, `NothingDangles`, `MoveKeepsOrder` |
| `TicketsRace` | two slots in symmetry; legacy completion and idea, epic with two tasks, one weekly and waiting for the other | `RepeatsExactlyOnce` under interleaving and crashes |
| `AccountsSerial` | one slot; a fresh installation, an older one and a team with two administrators, an owner and an ownerless board; 14 requests | `OwnerKeepsAccess`, `AccountsStay`, `TypeOK`, and no deadlock, with restarts and crashes anywhere |
| `AccountsRace` | two slots in symmetry; two administrators, neither the default one; logins, resets, changes, deletions, signup | `SessionsCurrent`, `PasswordNeedsSession`, `AdminRemains` |
| `Frontend` | two accounts, two boards and a third one created, three tickets and a fourth; sixteen scenarios of two to five events, up to one lost call | `ScreenMatchesSession`, `EditorOwnsItsMutation`, `OneWriterPerTicket`, `NoBacklogAbove`, `QuietPageIsFresh`, `DraftsAreKept`, `RequestsSettle`, `TypeOK` |
| `Planning` | boards of ten and eleven tickets, three or four choices in every order, and 500 orders of column names | `AddressNamesThePage`, `ChainIsComplete`, `NoWorkIsLost`, `RowsShowEachOnce`, `ChainReadsInOrder`, `BrowserMatchesServer`, `ChartIsSound`, `FieldsShowThePlan`, `SelectionStaysInSight`, `DraftIsKept`, `CadenceSaveEnds`, `TypeOK` |

`EpicsClosed`, `HistoryComplete`, `LinksAcyclic` and `CompletionFollowsColumn` are checked with one slot and proved
for every number of slots (the first and the third while nothing is deleted permanently).

Bounds of the browser runs. A scenario names the kinds of events that meet and how many of them; each
scenario combines functions that share state, and two to five events admit every pair of them with a late, a lost or an
overtaken answer in between. `CHECK_DEADLOCK FALSE`: when its events are used up
and all answers are in, the page rests. `Planning` looks at three choices in a row, four when a plan is edited;
its boards, not its lengths, hold the interesting cases. Column names are the four known ones and a
custom one in every order of four columns that does not begin with Done.

Bounds. `MaxUsers`, `MaxBoards`, `MaxTokens` and `MaxVersion` bound the ids, the sessions handed out and
the passwords of an account: what would exceed them can only fail. Three accounts give two administrators
and a third party; three tokens give each a session, or one account two; two password versions tell
a current session from one that should have ended, and ids are reused as soon as the
last account is deleted. `MaxTickets` bounds the ids: an insert beyond it does not happen (that
request can only fail). `MaxClock` bounds the timestamps: a request is accepted only while `clock`
is at most `MaxClock`, so it limits how many times a ticket is completed or started. Three
values admit completing, reopening and completing again with a start in between,
which is what the history properties distinguish. Three tickets admit every shape of a
cycle that is not two tickets and every epic-story-task tree; two slots admit
every pair of requests, and all races need two.

What the properties mean:

- `EpicsClosed`: below an active epic in Done there is no active unfinished ticket, except
  next occurrences. The server looks only at the epics above the changed ticket,
  so the property needs every change that could open work elsewhere to be checked.
- `HistoryComplete`, `EpisodesOrdered`, `HistoryImmutable`: each completion has its
  episode, the episodes of a ticket do not overlap, and none changes afterwards.
- `CompletionFollowsColumn`: a ticket gets a completion time when it enters Done, keeps
  it while it stays, and loses it when it leaves. A ticket of an older database may be in Done
  without one.
- `RepeatsExactlyOnce`: completing a stored repeating task adds exactly one open
  ticket, and nothing else adds a repetition.
- `LinksAcyclic`, `ParentsAcyclic`, `NothingDangles`: the graphs are well formed.
- `GateRespected`: a ticket that enters a gated column has no unfinished prerequisite.
- `OlderClientsKeepExtras`: an update without extras keeps the repeat interval.
- `MoveKeepsOrder`: a move puts the ticket next to its anchor and keeps the order of the others.
- `OwnerKeepsAccess` and `AccountsStay` (`OwnersExist` and `AccessRowsNameUsers`): a board belongs to an account that exists and
  that `canAccessBoard` lets in, as administrator or by an access row, and deleted accounts leave
  no row to the next account with their id.
- `SessionsCurrent`: a stored session stands for the current password of an existing account, so
  a reset, a change or a deletion really ended the others.
- `PasswordNeedsSession`: the step that writes a password answers a request whose own session is stored
  and unexpired in that step and belongs to the account (a change) or to an administrator (a reset),
  whatever the middleware saw earlier; another session of either does not stand in for it.
- `AdminRemains`: a running installation has an administrator.
- `ScreenMatchesSession`: account, rows, history and notifications on the screen are those of the account whose
  cookie the browser holds and of the loaded board, whatever order answers arrive in.
- `EditorOwnsItsMutation`, `OneWriterPerTicket`: a ticket refuses edits exactly while the request that
  bound it runs, and no two functions of a session change one ticket at once.
- `DraftsAreKept`: `Frontend` implements `Drafts` under `unsaved <- Unsaved`: typed input leaves the editor only
  when the server has stored it, the user gives it up or the session ends. The mapping reads the
  editor's fields against `drawerSnapshot`; `accepted` records what the server stored.
- `NoBacklogAbove`: a promotion that stops anywhere leaves no board ticket below a backlog one. It is about
  promotion: an editor opened before it writes the whole ticket back, its backlog flag included.
- `QuietPageIsFresh`: when all functions have ended, no call was lost, nobody else wrote and the user stayed on
  the board, the page shows what the server stores. After a failed change of board a move that was
  answered meanwhile is not followed by a load (`app.js:1778`, `app.js:1014`).
- `RequestsSettle`: a chosen board is shown or given up, and no ticket refuses edits forever.
- `AddressNamesThePage`: parsing the written address gives back view, board and Sprint.
- `ChainIsComplete`, `ChainReadsInOrder`, `SelectionStaysInSight`: a dependency chain is all that is connected,
  is shown whole up to collapsed, completed or undated Epics, reads from prerequisites to dependents,
  and while one board is chosen no choice hides a part of it or the selected Sprint.
- `NoWorkIsLost`, `RowsShowEachOnce`: Sprints divide the work, open work is in one lane, every ticket has one row
  below its Epic.
- `BrowserMatchesServer`: gate, Epic button, offered parents and drop positions agree with `TicketRules`, the
  button and the parents up to the known limits above (`OneDone`, `WaysUpAreWork`, `WaysUpEnd`).
- `ChartIsSound`: bars follow their prerequisites, Epics span their tasks, bars lie inside the chart, zooming
  keeps the middle day, the pointer's tag stays visible.
- `FieldsShowThePlan`, `DraftIsKept`, `CadenceSaveEnds`: the fields show the draft of this board or the saved
  plan, cards are live only for the saved one, no load drops a draft, and every save gives the fields back.

### Disagreements with the documentation

Each is a run that TLC ends with a counterexample.

| Run | Property | What happens |
| --- | --- | --- |
| `TicketsFindEpics` | `EpicsStrict` | A weekly task waits in the Backlog while its epic is closed. An update then takes it from the Backlog straight to Done: the epic check passes, and the next occurrence is inserted as open work below the closed epic without a check (`task_features.go:252`). |
| `AccountsFindAdmin` | `AdminRemains` | Two administrators take each other's role away: both count two (`users.go:189`) before either writes. The installation cannot be started again. |
| `FrontendFindStale` | `ReopensFresh` | A save is confirmed and its load is overtaken by the load of a creation. The ignored answer still ends `saveDrawer`, whose `finally` releases the ticket (`app.js:3800`), so it opens from the rows of before the save while the newer load is pending (`app.test.js:734`). |
| `PlanningFindBacklog` | `BacklogKeepsEpics` | `backlogGroupsHtml` looks for the Epic among the planned tickets (`app.js:2229`), so tickets of a backlog Epic are listed under "No Epic", and "Add to board" promotes them without their parent. |

The window of `tickets.go` between the checks of a handler and its transaction has four more
consequences, each a counterexample when the model gets a second slot:

- `ParentsAcyclic`: two updates check their parent before either commits (`tickets.go:296`); each
  ticket becomes the other's parent.
- `LinksAcyclic`: an update has checked its link to the last ticket, that ticket is deleted for good,
  and a create gets its id and links back (`tickets.go:938`).
- `GateRespected`: a prerequisite is reopened between the gate check and the update's
  transaction (`tickets.go:312`).
- `OlderClientsKeepExtras`: an update without extras writes back the extras it read before another
  update changed them (`tickets.go:332`).

With one request at a time they hold (`TicketsChain`, `TicketsParent`); `AdminRemains` holds for two slots
when no request takes the role away (`AccountsRace`).

Two faults of the browser are known from the model without a property of their own. Promoting an
Epic whose backlog contains a trashed ticket stops with 409 at that ticket and leaves the rest in the
Backlog (`app.js:3825`, against `README.md:34` "a complete Epic"). And choosing another board, then the
loaded one again, leaves the page blank when that last load fails, until the next action (`app.js:152`, `app.js:172`).

`OwnersExist` and `OwnerKeepsAccess` are claims about one request at a time, and `OwnerKeepsAccess` is one about
installations whose ownerless boards go to the default administrator. The model itself shows why, and the same requests with
two slots, or another store, give the behaviours:

- An administrator who is deleted while its own deletion of an account is in flight receives the
  boards of that account (`users.go:136`), and the next account created gets its id.
- `boardAccess` reads the owner (`boards.go:386`), a deletion hands the board to the user whose
  access is being revoked, and the row is written.
- An ownerless board goes to the first administrator (`migrate.go:229`), but only the default one is
  granted access rows (`migrate.go:256`); without the role that owner is locked out. The owner exists all
  the same: `AccountsStay` does not depend on the name of the administrator, and is proved for every older database.

## Proofs

For every board, request set, number of request slots, bound and initial
database that satisfies the named assumptions of the modules. These say what kind of values the constants hold and
which boards, databases and addresses there are: `ColumnsAssumption`, `RulesAssumption`, `RequestsAssumption` and
`StoresAssumption` of `Tickets`, `ParametersAssumption` and `StoresAssumption` of `Accounts`, `FrontendAssumption`,
`SprintsAssumption`, `TimelineAssumption`, `PlanningAssumption` and `ServerAssumption`.

| Theorem | Module | Extra assumption |
| --- | --- | --- |
| `TypeCorrect`: `TypeOK` is invariant | `TicketsProofs` | |
| `NothingEverDangles`: `NothingDangles` is invariant | `TicketsGraphProofs` | `NoDeletes` |
| `LinksStayAcyclic`: `LinksAcyclic` is invariant | `TicketsGraphProofs` | `NoDeletes` |
| `ClosedEpicsStayClosed`: `EpicsClosed` is invariant | `TicketsGraphProofs` | `NoDeletes` |
| `HistoryIsComplete`: `HistoryComplete` is invariant | `TicketsStepsProofs` | |
| `EpisodesAreImmutable`: `HistoryImmutable` | `TicketsStepsProofs` | |
| `CompletionIsInDone`: `CompletionFollowsColumn` | `TicketsStepsProofs` | |
| `EpisodesStayOrdered`: `EpisodesOrdered` is invariant | `TicketsStepsProofs` | |
| `RepeatingTasksRepeat`: `RepeatsExactlyOnce` | `TicketsStepsProofs` | `RowsStay` |
| `MovesKeepTheOrder`: `MoveKeepsOrder` | `TicketsStepsProofs` | |
| `ParentsStayAcyclic`: `ParentsAcyclic`, and the links, are invariant | `TicketsStepsProofs` | `OneAtATime` |
| `GateIsRespected`: `GateRespected` | `TicketsStepsProofs` | `OneAtATime` |
| `OlderClientsAreHeard`: `OlderClientsKeepExtras` | `TicketsStepsProofs` | `OneAtATime`, `FormsDiffer` |
| `TypeCorrect`: `TypeOK` of `Accounts` is invariant | `AccountsProofs` | |
| `SessionsStayCurrent`: `SessionsCurrent` is invariant | `AccountsProofs` | |
| `PasswordsNeedSessions`: `PasswordNeedsSession` | `AccountsProofs` | |
| `AnAdminRemains`: `AdminRemains` is invariant | `AccountsProofs` | `NoDemotions` |
| `OwnersAreLetIn`: `OwnerKeepsAccess` is invariant | `AccountsProofs` | `AccountsLast`, `LegacyBoards` |
| `AccountsAreKept`: `AccountsStay` is invariant | `AccountsProofs` | `AccountsLast` |
| `TypeCorrect`: `TypeOK` of `Frontend` is invariant | `FrontendProofs` | |
| `OneWriter`: `OneWriterPerTicket` is invariant | `FrontendProofs` | |
| `EditorOwns`: `EditorOwnsItsMutation` is invariant | `FrontendProofs` | |
| `DraftsKept`: `Frontend` implements `Drafts` (`DraftsAreKept`) | `FrontendProofs` | |
| `PageIsFresh`: `QuietPageIsFresh` is invariant | `FrontendScreenProofs` | |
| `ScreenIsOfTheAccount`: `ScreenMatchesSession` is invariant | `FrontendScreenProofs` | `SessionsApart` |
| `ParentsPromotedFirst`: `NoBacklogAbove` is invariant where the user saves no ticket | `FrontendScreenProofs` | `BacklogsStand` |
| `TypeCorrect`: `TypeOK` of `PlanningProperties` is invariant | `PlanningProofs` | |
| `AddressesNameThePage`: `AddressNamesThePage` is invariant | `PlanningProofs` | |
| `FieldsAlwaysShowThePlan`: `FieldsShowThePlan` is invariant | `PlanningProofs` | |
| `DraftsAreKept`: `DraftIsKept` | `PlanningProofs` | |
| `SelectionsStayInSight`: `SelectionStaysInSight` | `PlanningProofs` | |
| `WorkIsNeverLost`: `NoWorkIsLost` is invariant | `PlanningProofs` | |
| `ChainsAreWhole`: `ChainIsWhole`, the first part of `ChainIsComplete`, is invariant | `PlanningProofs` | |
| `RowsAreShownOnce`: `RowsShowEachOnce` is invariant | `PlanningRowsProofs` | |
| `ChainsReadInOrder`: `ChainReadsInOrder` is invariant | `PlanningRowsProofs` | |
| `ChainsAreShown`: `ChainIsComplete` is invariant | `PlanningRowsProofs` | |
| `BrowserAgreesWithServer`: `BrowserMatchesServer` is invariant | `PlanningRowsProofs` | |
| `ChartsAreSound`: `ChartIsSound` is invariant | `PlanningRowsProofs` | `DatesHold` |
| `SprintsTile`: the next Sprint starts the day after the previous one ends | `PlanningProofs` | |
| `SprintOfItsDates`: every day of a Sprint is assigned to it | `PlanningProofs` | |
| `DateHasOneSprint`: every day from the first Sprint on lies in the Sprint it is assigned to | `PlanningProofs` | |

`NoDemotions` says that no request
takes the role away; `AccountsFindAdmin` is a counterexample without it. `NoDeletes` says that no client deletes permanently. It is needed: with
two slots a deletion between check and write closes a cycle (see above), and a deleted parent or link target dangles the same way.
The server's interface deletes permanently only from the Trash.

`OneAtATime` and `OneRequest` say that there is one request slot; crashes, failures and reused ids remain. `RowsStay` is
`NoDeletes` or `OneAtATime`: an older client's update that loads its extras after its ticket was deleted for good,
and is written when the id was given out again, would complete the new ticket without repeating it. `FormsDiffer` says
that no client sends the same form with and without extras, since the property tells an older client by its form.
`SessionsApart` says that a scenario in which somebody signs in or out has no promotion and no creation, and one in which
somebody signs in has no change of the password. The first is needed because those two functions load without asking whether their
session is over (`app.js:3848`); the second because the answer to a change of the password brings a cookie, also after another login.
`BacklogsStand` says that the tables scenarios begin with have the ids from 1 on and no board ticket below a backlog one.
`ParentsPromotedFirst` is about scenarios without saves: a save writes the whole ticket as the drawer shows it, so an editor opened
before a promotion puts a parent back into the backlog (`app.js:3771`). Every scenario that promotes is one of them.
`DatesHold` says that on every board there is a bar that its prerequisites move ends at a date that exists (`DatesFit`). The server
limits neither dates nor durations, and `ganttTask` does not look at the date it moves to: with a duration of a hundred million
days a prerequisite ends close to September 275760, where the dates of the browser end, and the bar of its dependent has no end. `MCPlanning` assumes `DatesHold` of its boards, so TLC checks it there.
`AccountsLast` says that nobody deletes an account or that there is one slot. `LegacyBoards` says that in an older
installation with an ownerless board the default administrator has the role (see above); only `OwnersAreLetIn` needs it.

The arguments.

- `TypeCorrect`: `TypeOK` is inductive. The lemmas say that each operator of `TicketRules` yields a
  row, a table or an episode.
- `NothingEverDangles`: inductive together with `HandlersKnow`, which says that the parent and
  links a handler has checked name stored tickets. That is stable because ids
  only grow.
- `LinksStayAcyclic`: a link set closed under the new edges of one ticket has a cycle
  only through that ticket, which `DependencyCycle` excludes; a new ticket has
  no incoming link, since `NothingDangles`.
- `ClosedEpicsStayClosed`: when a change opens work below an epic, the changed ticket lies below
  that epic or is it, in the tree before or after the change; the epics above the changed ticket
  are the ones `EpicsRespected` looks at. The lemmas are about how `Above` changes with one row.
- `HistoryIsComplete`: every step either leaves the completion of a ticket alone or
  records it; episodes only disappear with their ticket.
- `CompletionIsInDone`: inductive with `StampsFit`, which says that the completion time a
  create carries agrees with its column.
- `TypeCorrect` of `Accounts`: inductive together with `AccountsKnown`, which says that past the
  middleware a handler has an account id, or 0 would get access rows.
- `SessionsStayCurrent`: inductive. `AccountStep` sorts the handlers by what they do to accounts and
  sessions; a new id never has a session, because every session names a stored account.
- `PasswordsNeedSessions`: only `ResetPassword` and `ChangePassword` change a version, both look the session of
  their own cookie up in their transaction, and both end with the answer.
- `AnAdminRemains`: `DeleteUser` counts in its transaction, so with more than one administrator another stays.
- `EpisodesStayOrdered`: inductive with `DatesInv`: every time stored or carried by a handler is past, a row's
  times are in order, and a completed row ends with its own episode.
- `RepeatingTasksRepeat`: a handler that commits finds its row (`Finds`), and `Finishes` says what a completion
  may change besides it.
- `MovesKeepTheOrder`: `Rank` counts the tickets of a lane before one; `Placed` says where the moved ticket
  ranks, and that positions rewritten by rank order a lane as the ranks do.
- `ParentsStayAcyclic`, `GateIsRespected`, `OlderClientsAreHeard`: inductive with `SerialInv`: what the one handler
  has checked still holds (`Vetted`), since nobody else writes.
- `OwnersAreLetIn`, `AccountsAreKept`: `OwnerInv` follows the three statements of a change of access, the two of a role
  change and of a creation, and how far startup has granted access (`BootGrants`). That owners are stored accounts is
  invariant without `LegacyBoards`; that they have a row is claimed by `OwnerInv` only under it, so both theorems share it.
- `Frontend`: `Good` says what the page keeps between any two functions: ids of functions are unique (`IdsUnique`), every function
  that writes a ticket holds its binding (`WritersBind`), bindings belong to live functions (`Alive`), the editor's own
  request exists (`MutationRuns`), an editor without one rests on what was confirmed (`DraftRests`). The lemmas show
  each of the basic operations (`Send`, `SendNext`, `End`, `ResetDrawer`, `OpenEditor`, `Load`, the release
  of a binding) to keep `Good`, and every handler is a composition of them. `Truthful` adds that an answer which
  reports a stored text is about a text the server stored.
- `DraftsKept`: the same composition maps every step to a step of `Drafts`: `Handled` to storing or nothing, `Acted` to
  writing, giving up or nothing, and the end of a session to signing off.
- `PageIsFresh`: each handler is sorted by what it does to account, board, loads and cookie: it redraws and starts calls,
  loads, shows an answer, or quits the session (`Redraws`, `Loads`, `Shows`, `Quits`). While the user stays on the board and
  no call is lost, the rows differ from the stored ones only while a load that will be shown is under way, or a function
  that will start one (`Calm`). A load asked before a write is therefore never the last one.
- `ScreenIsOfTheAccount`: inductive with `SessionInv`. A function of the present session asks as the account of the cookie,
  answers carry what that account may read, and a login or logout is alone in its session. Where a cookie changes while an older function
  still loads, that function is of another session and its answer is ignored.
- `ParentsPromotedFirst`: inductive with `PromotionInv`. Tickets only leave the backlog (`Climbs`), and what a function writes, or a page
  shows, on the board has its parent there already (`Sound`, `Rising`): of the tickets a promotion has left to write, each finds its
  parent promoted or before it (`InOrder`), since `BacklogDescendants` lists parents first (`DescendantsInOrder`). The next one is sent
  only after an answer that says the one before was stored.
- `Planning`: every step is one of four kinds (`Steps`): the page is rendered for some choices (`Redraw`), it rests, it
  blanks, or a load is answered. `PlanningInv` is kept by each kind, and `Sight` is what a handler must
  have done before it renders: open the collapsed Epics of a chain or close it, and turn the strip to the Sprint.
- `AddressesNameThePage`: what `BuildRoute` writes has one keyword at most, so `ParseRoute` finds each number where it was put.
- `WorkIsNeverLost`: the lane of open work exists because its topmost Epic, found by climbing, has the work among its descendants, found
  by walking down (`BelowItsEpic`), so that Epic is not completed. Both walks are recursive functions: `Repeated` shows
  that they exist, and statements about all their levels are proved from a least counterexample (`LeastNumber`). The
  division into Sprints is `DateHasOneSprint` for the planned finish of every row.
- `ChainsAreWhole`: as many steps of the search as there are connections are enough, because a step that uses no new connection
  is the last one that finds anything (`StrictChain`), circles included; what it finds is the least set closed under connections
  (`RelatedIs`).
- `RowsAreShownOnce`: `Lists` says that a sorted sequence has each element of a finite set once and in order, for every comparator that
  is an order (`IsOrder`): a comparator assigns each element a rank, and in a finite set every rank is taken once (`RanksAre`). The
  comparators of the code are orders because they end with the reference or the id. Rows are joined from groups (`Grouping`): an
  Epic, its tasks, at last the tasks without one; `MembersFollow` and `MembersInOrder` say where a row stands. On the Timeline the tasks
  of an Epic are collected by walking down, and `TimelineDescendantsAre` shows that these are the ones whose climb ends at the Epic.
  The indentation counts the tickets met on the way up: one step further down meets exactly one more (`UpGrows`), since a climb that
  ends at an Epic meets no ticket twice. It needs `ServerAssumption`: no Epic has a parent (`parentTypeAllowed`,
  `db.go:169`, refuses one in every handler that stores a parent, `tickets.go:66`, `292`, `723`, and the column `parent_id`
  was added with 0, `migrate.go:102`), and every ticket is in a column of its board (`columnBelongsToBoard`, `db.go:130`;
  no handler deletes a column).
- `ChainsReadInOrder`: `StepsAre` shows that `DependencySteps` exists and numbers each task behind its numbered prerequisites (the
  rounds of Kahn's loop are the induction), circles included. The stages number exactly the chain (`ChainStages`), every
  list is sorted by them first (`ListsRead`), and `StagesDiffer` compares colors and labels.
- `ChainsAreShown`: a task of the chain is among the drawn work, or it is an Epic that the Sprint has for its tasks (`ChainIsWork`: the
  filters take no linked task out, and the climb to an Epic meets only tickets above the task, `ClimbMeets`). What is among the
  work has a card in the lane of its Epic, an Overview row, and a Timeline row when it has a bar (`BoardShowsChain`, `OverviewShowsChain`,
  `TimelineShowsChain`). Conversely all that is shown is drawn work or an Epic above it, so a chain on the screen is drawn
  from all of its links (`DrawingMarksAll`).
- `BrowserAgreesWithServer`: the browser compares with the first column of a name, the server with any: a column is behind the first
  one exactly when it is behind some (`GateMatches`). `DescendantsAre` shows the browser's walk down to be the least set closed under
  children, the server's walk up is the least set closed under parents, and each is used against the other: from below an Epic
  every way up leads to it (`BelowLeadsUp`), and where every ticket above work is work, from elsewhere none does (`OnlyBelowLeadsUp`, `ElsewhereStays`). A
  list without repetition keeps its order when the dragged card is removed (`Removed`), so the neighbor sent stands next to the drop (`DropsLand`).
- `ChartsAreSound`: `BarIs` follows start, due date, finish, delay and estimate of one bar; a set of days has a first and a last one
  (`DaysBounded`), so the bar of an Epic spans those of its tasks (`EpicBarIs`). A row is a task, or an Epic with tasks below it, by the groups
  of `RowsAreShownOnce` (`DrawnAre`). The range is the focused chain's, the Sprint's or that of all bars (`RangeIs`). Scrolling to a day and reading
  the day in the middle is multiplying by the width of a day and rounding the quotient (`RoundedDays`), wherever the scroll is not clamped; the tag of
  the pointer fits since the window is 700 pixels wide (`TagsAlwaysFit`).
- The calendar: the lemmas assume any cadence and any last day a date can hold; they are about division by the
  length of a Sprint. `NoWorkIsLost` checks on the boards that the selection built on it divides the work.

Graphs are called acyclic by least members of non-empty node sets, written `S # {} => ...`: `SUBSET N \ {{}}` is read
differently by the two tools.

The proofs changed the models where these were wrong. An import whose file cannot be read, or whose
session ends while it is read, did not end as it does in the code; a promotion followed one fixed order of the backlog; `ParseRoute` and the climb to an Epic
were recursive operators; toggling an Epic that is not on the board was possible; and the two faults of the planning views above came
to light when a proof did not go through. Two properties said more than the code does, in cases the instances do not have. `LeftOut` asked for a descendant, but
a Sprint also has an Epic for a task below an archived ticket, which is no descendant. `BrowserMatchesServer` was stated for every
ticket: a story turned into a task and archived, below an Epic and with a story below it, lets the browser offer that story as the
parent of the Epic edited into a task, and `parentWouldCreateCycle` refuses; and with two Done columns the server accepts what the button does not offer.

Only model-checked:

- `NoBacklogAbove` where tickets are saved too. It then needs that no editor opened before a promotion saves its ticket
  afterwards, an assumption about whole behaviours that an invariant cannot say.
- Liveness and `ENABLED` are beyond the prover: `RequestsSettle` and `CadenceSaveEnds`, and that no run deadlocks.

## Not modelled

- The JSON import and export on the server (`tickets.go:534-790`): several passes that map ids, then one
  transaction. The browser's side is in `Frontend`.
- The username migration (`migrate.go:135-210`): string rewriting in two passes before the listener opens.
- Notifications, mentions and comments on the server: no modelled guard reads them.
- Which handler holds the single connection while it asks for another.
- Custom references on the server (`boardRefCompare` in `ticket_move.go`): ties are broken by id there; the browser's
  comparison is `WorkTree!Before`.
- Sprint names, milestones, the forms for users and sharing in the browser.
- Avatars, demo data, the history chart and the avatar creator, page layout, styles, scripts and container
  files, password hashing, cookies and headers. They keep no state that a request of another
  actor could change.

Worth doing next: the import as a transaction of `Tickets`; requests as atomic actions, implemented by `Tickets` with one slot;
`NoBacklogAbove` with saves in between.
