------------------------------ MODULE MCTickets ------------------------------
(***************************************************************************)
(* Small instances of Tickets: boards, stores and request sets for TLC.    *)
(***************************************************************************)
EXTENDS Tickets, TLC

CONSTANTS c1, c2

OneClient == {c1}
TwoClients == {c1, c2}
ClientSymmetry == Permutations(TwoClients)

ShortBoard == <<"to do", "in progress", "done">>
GatedBoard == <<"to do", "in progress", "review", "done">>
CustomBoard == <<"to do", "in progress", "testing", "done">>

Weekly == {0, 7}

(* Column numbers of the boards above; the last column is always Done.     *)
ToDo == 1
Doing == 2
Last == Len(ColumnNames)

Row(type, parent, column) ==
  [type |-> type, parent |-> parent, column |-> column, position |-> 1,
   backlog |-> FALSE, archived |-> FALSE, deleted |-> FALSE, repeat |-> 0,
   completed |-> 0, started |-> 0]

Stored(T, L) == [tickets |-> T, links |-> L, clock |-> 1]

Form(type, parent, column, repeat, targets) ==
  [type |-> type, parent |-> parent, column |-> column, position |-> 1,
   backlog |-> FALSE, repeat |-> repeat, links |-> targets]

Create(form) == [kind |-> "create", ticket |-> form]
Put_(i, form) == [kind |-> "update", id |-> i, ticket |-> form]
MoveTo(i, column) ==
  [kind |-> "move", id |-> i, column |-> column, anchor |-> 0, place |-> "end"]
MoveBy(i, column, place, anchor) ==
  [kind |-> "move", id |-> i, column |-> column, anchor |-> anchor, place |-> place]
Tag(kind, i) == [kind |-> kind, id |-> i]

InBacklog(form) == [form EXCEPT !.backlog = TRUE]

-----------------------------------------------------------------------------
(* Epic 1 over story 2 over the weekly task 3.                             *)
TreeStores ==
  {Stored((1 :> Row("epic", 0, ToDo)) @@ (2 :> Row("story", 1, ToDo))
          @@ (3 :> [Row("task", 2, ToDo) EXCEPT !.repeat = 7]), {})}

TreeRequests ==
  {Put_(1, Form("epic", 0, column, NoExtras, {})) : column \in {ToDo, Last}}
  \union {MoveTo(i, column) : i \in {2, 3}, column \in {ToDo, Last}}
  \union {MoveTo(3, Doing)}
  \union {Put_(3, Form("task", 2, Last, NoExtras, {})),
          Put_(3, InBacklog(Form("task", 2, Last, NoExtras, {}))),
          Put_(3, InBacklog(Form("task", 2, ToDo, NoExtras, {}))),
          Put_(2, Form("story", 0, ToDo, NoExtras, {})),
          Put_(2, Form("story", 1, ToDo, NoExtras, {})),
          Tag("archive", 2), Tag("restore", 2), Tag("trash", 3), Tag("restore", 3),
          Create(Form("task", 1, 0, NoExtras, {}))}

-----------------------------------------------------------------------------
(* Tasks without links or parents: 2 repeats weekly, 3 is archived.        *)
ChainStores ==
  {Stored((1 :> Row("task", 0, ToDo)) @@ (2 :> [Row("task", 0, ToDo) EXCEPT !.repeat = 7])
          @@ (3 :> [Row("task", 0, ToDo) EXCEPT !.archived = TRUE]), {})}

(* Links in every direction, updates and moves into every stage, permanent *)
(* deletion and the reuse of its id.                                       *)
ChainRequests ==
  {Put_(i, Form("task", 0, column, NoExtras, targets)) :
      i \in {1, 2}, column \in {ToDo, Last - 1}, targets \in {{}, {1}, {2}, {3}}}
  \union {MoveTo(i, Last) : i \in {1, 2}}
  \union {MoveTo(1, ToDo), Tag("restore", 3), Tag("trash", 2), Tag("delete", 3),
          Put_(3, Form("task", 0, Last, NoExtras, {1, 2})),
          Create(Form("task", 0, Last - 1, 7, {1, 2})), Tag("duplicate", 2)}

(* Epic 1 over story 2 over task 3.                                        *)
ParentStores ==
  {Stored((1 :> Row("epic", 0, ToDo)) @@ (2 :> Row("story", 1, ToDo))
          @@ (3 :> Row("task", 2, ToDo)), {})}

(* The same tickets as stories, epics, tasks and ideas under each other,   *)
(* moved to every place in two columns, at first from equal positions.     *)
ParentRequests ==
  {Put_(i, Form(type, parent, ToDo, NoExtras, {})) :
      i \in 1 .. 3, type \in {"epic", "story", "task"}, parent \in 0 .. 3}
  \union {Put_(3, Form("idea", 1, ToDo, NoExtras, {})), Tag("delete", 3),
          Create(Form("task", 2, 0, NoExtras, {}))}
  \union {MoveBy(m[1], column, place, m[2]) :
            m \in {n \in {2, 3} \X (1 .. 4) : n[1] # n[2]},
            column \in {ToDo, Doing}, place \in {"before", "after"}}
  \union {MoveTo(3, Doing)}

-----------------------------------------------------------------------------
(* Epic 1 over task 2, the weekly task 3 that waits for 2, and an old      *)
(* completed bug 4 and idea 5 that the first start has to migrate.         *)
RaceStores ==
  {[tickets |-> (1 :> Row("epic", 0, ToDo)) @@ (2 :> Row("task", 1, Doing))
       @@ (3 :> [Row("task", 0, ToDo) EXCEPT !.repeat = 7])
       @@ (4 :> [Row("bug", 1, Last) EXCEPT !.completed = 1])
       @@ (5 :> Row("idea", 0, ToDo)),
    links |-> {<<3, 2>>}, clock |-> 2]}

RaceRequests ==
  {Put_(3, Form("task", 0, Last, 7, {2})), MoveTo(3, Last), MoveTo(2, Last),
   MoveTo(3, ToDo), Put_(1, Form("epic", 0, Last, NoExtras, {})),
   Put_(2, Form("task", 1, Doing, NoExtras, {3})),
   Create(Form("task", 1, Doing, NoExtras, {})), Tag("archive", 2), Tag("restore", 2)}

=============================================================================
