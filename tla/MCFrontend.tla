----------------------------- MODULE MCFrontend -----------------------------
(***************************************************************************)
(* Small instances of Frontend for TLC.                                    *)
(***************************************************************************)
EXTENDS Frontend, TLC

TwoUsers == {1, 2}

(* The first account opens both boards, the second only board 2.           *)
TwoBoards == (1 :> {1, 2}) @@ (2 :> {2})

Card(board) == [NoRow EXCEPT !.board = board, !.text = 1, !.live = TRUE, !.version = 1]

(* Epic 1 and task 2 on board 1, task 3 on board 2; a trashed task 2; a    *)
(* backlog of Epic 1, task 2 below it and task 3 below task 2, all of it   *)
(* or with task 2 trashed.                                                 *)
Cards == (1 :> [Card(1) EXCEPT !.epic = TRUE]) @@ (2 :> Card(1)) @@ (3 :> Card(2))
Stash == (1 :> Card(1)) @@ (2 :> [Card(1) EXCEPT !.live = FALSE])
Backlog ==
  LET item(parent) == [Card(1) EXCEPT !.backlog = TRUE, !.parent = parent]
  IN (1 :> [item(0) EXCEPT !.epic = TRUE]) @@ (2 :> item(1)) @@ (3 :> item(2))
HalfTrashed == [Backlog EXCEPT ![2].live = FALSE]

Address(b, i, v) == [board |-> b, ticket |-> i, view |-> v]
SomeRoutes ==
  {Address(0, 0, "board"), Address(1, 2, "board"), Address(2, 3, "board"), Address(2, 0, "history")}

Scenario(rows, may, left, fails) ==
  [rows |-> rows, may |-> may, left |-> left, fails |-> fails]

(* What goes on at once: editing; comments; the drawer's actions; cards and *)
(* Epics while the board changes; promoting; addresses; sessions; files.   *)
FrontendScenarios ==
  {Scenario(Cards, {"open", "type", "save", "close"}, 5, 1),
   Scenario(Cards, {"open", "note", "comment", "save"}, 5, 1),
   Scenario(Cards, {"open", "type", "trash", "duplicate", "close"}, 4, 1),
   Scenario(Cards, {"open", "move", "epic", "choose"}, 2, 1),
   Scenario(Cards, {"move", "epic", "choose"}, 3, 0),
   Scenario(Cards, {"open", "epic", "save", "create"}, 3, 1),
   Scenario(Backlog, {"promote", "create", "other"}, 2, 1),
   Scenario(HalfTrashed, {"promote", "restore"}, 2, 0),
   Scenario(Cards, {"choose", "route", "notification", "newBoard"}, 2, 1),
   Scenario(Cards, {"open", "type", "notification"}, 3, 0),
   Scenario(Cards, {"open", "type", "route"}, 3, 0),
   Scenario(Cards, {"logout", "login", "poll", "history", "expire"}, 3, 0),
   Scenario(Cards, {"open", "type", "save", "expire", "login"}, 4, 0),
   Scenario(Cards, {"open", "save", "password"}, 3, 0),
   Scenario(Cards, {"open", "type", "password"}, 3, 0),
   Scenario(Stash, {"restore", "import", "open", "trash", "logout"}, 2, 1)}

(* A ticket is saved while another one is created.                         *)
OvertakenReload == {Scenario(Cards, {"open", "save", "create"}, 4, 0)}
=============================================================================
