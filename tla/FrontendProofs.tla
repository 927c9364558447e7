--------------------------- MODULE FrontendProofs ---------------------------
(***************************************************************************)
(* Theorems about Frontend for every set of accounts, addresses and        *)
(* scenarios: all that the user, the server and the network may do, in     *)
(* every combination and for as long as they like.                         *)
(*                                                                         *)
(* The handlers of app.js are compositions of a few operations on the page *)
(* (Send, SendNext, End, ResetDrawer, OpenEditor, Release, ...).  "Good"   *)
(* is the invariant of a page between two of these operations; the         *)
(* handlers are then followed step by step.                                *)
(***************************************************************************)
EXTENDS Frontend, FiniteSetTheorems, SequenceTheorems, WellFoundedInduction, TLAPS

-----------------------------------------------------------------------------
(* Types *)

PageFields ==
  {"me", "board", "rows", "notes", "selected", "view", "queued", "loadGen", "session",
   "editGen", "historyGen", "pollGen", "editing", "clone", "draft", "base", "mutation",
   "pending", "history", "jar", "panel", "locked", "tasks", "serial"}

TaskFields ==
  {"op", "url", "id", "ticket", "row", "board", "session", "editor", "keep", "todo",
   "made", "ask", "generation", "sent", "as", "reply"}

IsPage(p) == p = [f \in PageFields |-> p[f]]
IsTask(t) == t = [f \in TaskFields |-> t[f]]

(* A stored ticket; 0 is the text of none.                                 *)
Stored == {r \in Row : r.text # 0}

IsRows(rows) == DOMAIN rows \subseteq Ids /\ \A i \in DOMAIN rows : rows[i] \in Stored

Fields == [text : Nat, comment : Nat]
Baseline == [text : Nat, comment : {0}]     \* comments are compared with none
Binding == [id : Nat, session : Nat]
Promotion == [ticket : Ids, row : Stored]

EditorOps == {"save", "comment", "trash", "duplicate"}
Binders == EditorOps \union {"move", "epic"}

(* The calls that the functions make, before they load.                    *)
Calls ==
  {<<"save", "put">>, <<"comment", "comment">>, <<"trash", "trash">>,
   <<"duplicate", "duplicate">>, <<"move", "move">>, <<"epic", "put">>, <<"promote", "put">>,
   <<"create", "create">>, <<"restore", "restore">>, <<"import", "file">>,
   <<"import", "import">>, <<"notification", "read">>, <<"newBoard", "board">>,
   <<"history", "history">>, <<"poll", "notifications">>, <<"login", "login">>,
   <<"password", "password">>, <<"logout", "logout">>}

(* A function under way.                                                   *)
TaskShape(t) ==
  /\ IsTask(t)
  /\ \/ t.url = "state" /\ t.op \in LoadOnly \union Binders
     \/ <<t.op, t.url>> \in Calls
  /\ t.id \in Nat \ {0} /\ t.session \in Nat /\ t.editor \in Nat
  /\ t.generation \in Nat /\ t.sent \in Nat /\ t.as \in Nat /\ t.made \in Nat
  /\ t.ticket \in Ids \union {0} /\ t.row \in Row /\ t.board \in BoardIds \union {0}
  /\ t.keep \in Fields /\ t.todo \in Seq(Promotion)
  /\ t.op \in Binders => t.ticket \in Ids
  /\ t.url = "login" => t.ask \in Users
  /\ t.url = "state" => t.ask \in BoardIds \union {0}
  /\ t.url = "put" => t.row.text # 0
  /\ t.op = "save" => t.row.text = t.keep.text
  /\ t.op \in {"trash", "duplicate"} => t.keep \in Baseline

(* The answer fits the call.                                               *)
ReplyOK(url, r) ==
  /\ r.status \in {"none", "ok", "denied", "failed"}
  /\ r.status = "ok" =>
       /\ url \in {"state", "history", "notifications"} => r.user \in Users
       /\ url = "state" => r.board \in BoardIds \union {0} /\ IsRows(r.rows)
       /\ url = "board" => r.made \in BoardIds
       /\ url \in {"login", "password", "duplicate"} => r.made \in Nat

TaskOK(t) == TaskShape(t) /\ ReplyOK(t.url, t.reply)

FieldOK(f, v) ==
  /\ f \in {"me", "notes"} => v \in Users \union {0}
  /\ f \in {"board", "selected"} => v \in BoardIds \union {0}
  /\ f = "rows" => IsRows(v)
  /\ f = "view" => v \in Views
  /\ f \in {"queued", "editing"} => v \in Ids \union {0}
  /\ f = "session" => v \in Nat \ {0}
  /\ f \in {"loadGen", "editGen", "historyGen", "pollGen", "mutation", "serial", "jar"}
       => v \in Nat
  /\ f = "clone" => v \in Row
  /\ f = "draft" => v \in Fields
  /\ f = "base" => v \in Baseline
  /\ f = "pending" => v \in [Ids -> Binding]

PageShape(p) == IsPage(p) /\ \A f \in PageFields : FieldOK(f, p[f])

StoreOK(s) ==
  /\ s = [f \in {"rows", "access", "owner", "live", "accepted"} |-> s[f]]
  /\ IsRows(s.rows)
  /\ s.access \in [Users -> SUBSET BoardIds]
  /\ s.owner \in Seq(Users) /\ s.live \subseteq 1 .. Len(s.owner)

-----------------------------------------------------------------------------
(* A page between two operations of a handler; T holds the function that   *)
(* is being resumed once it has been taken from the tasks.                 *)

TasksOK(p, T) ==
  \A t \in p.tasks \union T :
    /\ TaskOK(t)
    /\ t.id <= p.serial /\ t.session <= p.session /\ t.sent <= p.session /\ t.editor <= p.editGen

IdsUnique(p, T) ==
  /\ \A s, t \in p.tasks \union T : s.id = t.id => s = t
  /\ \A t \in T : t \notin p.tasks

(* A function that changes a ticket in this session holds its binding.     *)
WritersBind(p) ==
  \A t \in p.tasks : t.op \in Binders /\ t.url # "state" /\ t.session = p.session =>
    p.pending[t.ticket] = [id |-> t.id, session |-> t.session]

(* Every binding belongs to a function under way.                          *)
Alive(p, T) ==
  \A i \in Ids :
    /\ p.pending[i].session <= p.session
    /\ p.pending[i] # NoBinding =>
         \E t \in p.tasks \union T : t.id = p.pending[i].id /\ t.ticket = i /\ t.op \in Binders

EditorHolds(p) ==
  p.editing # 0 /\ Held(p, p.editing) => p.mutation = p.pending[p.editing].id

MutationRuns(p, T) ==
  p.mutation # 0 =>
    \E t \in p.tasks \union T : t.id = p.mutation /\ t.ticket = p.editing /\ t.op \in EditorOps

QueueWaits(p) == p.queued # 0 => p.editing = 0

HasText(p) == p.editing # 0 => p.draft.text # 0

(* Nothing is typed while the editor's own request is under way, and       *)
(* nothing protected while the ticket is to be trashed or duplicated.      *)
DraftRests(p) ==
  \A t \in p.tasks :
    t.op \in EditorOps /\ t.url # "state" /\ IsCurrentDrawer(p, t) =>
      /\ p.mutation = t.id
      /\ t.op = "save" => p.draft = t.keep
      /\ t.op \in {"trash", "duplicate"} => ~Dirty(p)

Good(p, T) ==
  /\ PageShape(p) /\ TasksOK(p, T) /\ IdsUnique(p, T)
  /\ WritersBind(p) /\ Alive(p, T) /\ EditorHolds(p) /\ MutationRuns(p, T)
  /\ QueueWaits(p) /\ HasText(p) /\ DraftRests(p)

(* An answer that a save or a comment was stored is true.                  *)
Truthful(p, s) ==
  \A t \in p.tasks :
    t.reply.status = "ok" =>
      /\ t.url = "put" => t.row.text \in s.accepted
      /\ t.url = "comment" => t.keep.comment \in s.accepted

FrontendInv == Good(page, {}) /\ StoreOK(store) /\ Truthful(page, store)


-----------------------------------------------------------------------------
(* Fields                                                                  *)

LEMMA ShapeFields ==
  ASSUME NEW p, PageShape(p)
  PROVE  /\ p.me \in Users \union {0} /\ p.notes \in Users \union {0}
         /\ p.board \in BoardIds \union {0} /\ p.selected \in BoardIds \union {0}
         /\ IsRows(p.rows) /\ p.view \in Views
         /\ p.queued \in Ids \union {0} /\ p.editing \in Ids \union {0}
         /\ p.loadGen \in Nat /\ p.session \in Nat /\ p.session # 0 /\ p.editGen \in Nat /\ p.historyGen \in Nat
         /\ p.pollGen \in Nat /\ p.mutation \in Nat /\ p.serial \in Nat /\ p.jar \in Nat
         /\ p.clone \in Row /\ p.draft \in Fields /\ p.base \in Baseline
         /\ p.pending \in [Ids -> Binding]
         /\ IsPage(p)
BY DEF PageShape, FieldOK, PageFields

(* Only the fields F differ.                                               *)
Changes(p, q, F) == IsPage(q) /\ \A f \in PageFields \ F : q[f] = p[f]

LEMMA ChangedShape ==
  ASSUME NEW p, NEW q, NEW F, PageShape(p), Changes(p, q, F), \A f \in F : FieldOK(f, q[f])
  PROVE  PageShape(q)
BY DEF PageShape, Changes

LEMMA ChangesCompose ==
  ASSUME NEW p, NEW q, NEW r, NEW F, NEW G, Changes(p, q, F), Changes(q, r, G)
  PROVE  Changes(p, r, F \union G)
BY DEF Changes

-----------------------------------------------------------------------------
(* The basic operations.  What one does to the fields of the page:         *)

LEMMA ResetDrawerFrame ==
  ASSUME NEW p, PageShape(p)
  PROVE  LET q == ResetDrawer(p) IN
         /\ PageShape(q)
         /\ Changes(p, q, {"editGen", "editing", "clone", "mutation", "draft", "base", "queued"})
         /\ q.editGen = p.editGen + 1 /\ q.editing = 0 /\ q.mutation = 0
         /\ q.draft = Blank /\ q.base = Blank /\ q.queued = 0
<1> DEFINE q == ResetDrawer(p)
           F == {"editGen", "editing", "clone", "mutation", "draft", "base", "queued"}
<1>1. NoRow \in Row /\ Blank \in Fields /\ Blank \in Baseline /\ p.editGen + 1 \in Nat
  BY ShapeFields DEF NoRow, Row, Blank, Fields, Baseline
<1>2. Changes(p, q, F)
  BY ZenonT(60) DEF PageShape, IsPage, PageFields, ResetDrawer, Changes
<1>3. /\ q.editGen = p.editGen + 1 /\ q.editing = 0 /\ q.clone = NoRow /\ q.mutation = 0
      /\ q.draft = Blank /\ q.base = Blank /\ q.queued = 0
  BY DEF PageShape, IsPage, PageFields, ResetDrawer
<1> HIDE DEF q
<1>4. \A f \in F : FieldOK(f, q[f])
  BY <1>1, <1>3 DEF FieldOK
<1>5. PageShape(q)
  BY <1>2, <1>4, ChangedShape
<1> QED
  BY <1>2, <1>3, <1>5 DEF q

LEMMA OpenEditorFrame ==
  ASSUME NEW p, PageShape(p), NEW i \in DOMAIN p.rows
  PROVE  LET q == OpenEditor(p, i) IN
         /\ PageShape(q)
         /\ Changes(p, q, {"editGen", "editing", "clone", "mutation", "draft", "base", "queued"})
         /\ q.editGen = p.editGen + 1 /\ q.editing = i /\ q.mutation = 0
         /\ q.draft = q.base /\ q.draft.text # 0 /\ q.queued = 0
<1> DEFINE fields == [text |-> p.rows[i].text, comment |-> 0]
           r == ResetDrawer(p)
           q == [r EXCEPT !.editing = i, !.clone = p.rows[i], !.draft = fields, !.base = fields]
           F == {"editGen", "editing", "clone", "mutation", "draft", "base", "queued"}
           G == {"editing", "clone", "draft", "base"}
<1>1. i \in Ids /\ p.rows[i] \in Row /\ fields \in Fields /\ fields \in Baseline /\ fields.text # 0
  BY ShapeFields DEF IsRows, Stored, Row, Fields, Baseline
<1>2. /\ PageShape(r) /\ Changes(p, r, F)
      /\ r.editGen = p.editGen + 1 /\ r.mutation = 0 /\ r.queued = 0
  BY ResetDrawerFrame
<1>3. OpenEditor(p, i) = q
  BY DEF OpenEditor
<1> HIDE DEF r, fields
<1>4. Changes(r, q, G)
  BY <1>2 DEF PageShape, IsPage, PageFields, Changes
<1>5. /\ q.editing = i /\ q.clone = p.rows[i] /\ q.draft = fields /\ q.base = fields
      /\ q.editGen = r.editGen /\ q.mutation = r.mutation /\ q.queued = r.queued
  BY <1>2 DEF PageShape, IsPage, PageFields
<1> HIDE DEF q
<1>6. \A f \in G : FieldOK(f, q[f])
  BY <1>1, <1>5 DEF FieldOK
<1>7. PageShape(q)
  BY <1>2, <1>4, <1>6, ChangedShape
<1>8. Changes(p, q, F)
  <2>1. F = F \union G
    OBVIOUS
  <2> QED
    BY <1>2, <1>4, <2>1, ChangesCompose
<1> QED
  BY <1>1, <1>2, <1>3, <1>5, <1>7, <1>8

(* The task that Send adds.                                                *)
Sent(p, t) == [t EXCEPT !.id = p.serial + 1, !.session = p.session, !.sent = p.session,
                        !.editor = p.editGen, !.as = p.jar]

LEMMA SendFrame ==
  ASSUME NEW p, PageShape(p), NEW t
  PROVE  LET q == Send(p, t) IN
         /\ PageShape(q) /\ Changes(p, q, {"tasks", "serial"})
         /\ q.tasks = p.tasks \union {Sent(p, t)} /\ q.serial = p.serial + 1
<1> DEFINE s == Sent(p, t)
           q == [p EXCEPT !.serial = p.serial + 1, !.tasks = p.tasks \union {s}]
<1>1. Send(p, t) = q
  BY DEF Send, Sent
<1> HIDE DEF s
<1>2. /\ Changes(p, q, {"tasks", "serial"})
      /\ q.tasks = p.tasks \union {s} /\ q.serial = p.serial + 1
  BY DEF PageShape, IsPage, PageFields, Changes
<1> HIDE DEF q
<1>3. \A f \in {"tasks", "serial"} : FieldOK(f, q[f])
  BY <1>2, ShapeFields DEF FieldOK
<1>4. PageShape(q)
  BY <1>2, <1>3, ChangedShape
<1> QED
  BY <1>1, <1>2, <1>4 DEF s

(* A task as a function starts: what is known of it is its data.           *)
Fresh(t) == IsTask(t) /\ TaskShape([t EXCEPT !.id = 1]) /\ t.reply = NoReply

LEMMA SentShape ==
  ASSUME NEW p, PageShape(p), NEW t, Fresh(t)
  PROVE  LET s == Sent(p, t) IN
         /\ TaskOK(s) /\ s.reply = NoReply
         /\ s.id = p.serial + 1 /\ s.session = p.session /\ s.sent = p.session
         /\ s.editor = p.editGen /\ s.op = t.op /\ s.url = t.url /\ s.ticket = t.ticket
         /\ s.keep = t.keep /\ s.row = t.row
<1> DEFINE u == [t EXCEPT !.id = 1]
           s == Sent(p, t)
           F == {"id", "session", "sent", "editor", "as"}
<1>1. /\ IsTask(s)
      /\ \A f \in TaskFields \ F : s[f] = t[f] /\ u[f] = t[f]
      /\ s.id = p.serial + 1 /\ s.session = p.session /\ s.sent = p.session
      /\ s.editor = p.editGen /\ s.as = p.jar
  BY DEF Fresh, IsTask, TaskFields, Sent
<1>2. TaskShape(u) /\ t.reply = NoReply
  BY DEF Fresh
<1> HIDE DEF s, u
<1>3. p.serial + 1 \in Nat \ {0} /\ p.session \in Nat /\ p.editGen \in Nat /\ p.jar \in Nat
  BY ShapeFields
<1>4. /\ s.op = t.op /\ s.url = t.url /\ s.ticket = t.ticket /\ s.row = t.row
      /\ s.board = t.board /\ s.keep = t.keep /\ s.todo = t.todo /\ s.made = t.made
      /\ s.ask = t.ask /\ s.generation = t.generation /\ s.reply = t.reply
  BY <1>1 DEF TaskFields
<1>5. /\ u.op = t.op /\ u.url = t.url /\ u.ticket = t.ticket /\ u.row = t.row
      /\ u.board = t.board /\ u.keep = t.keep /\ u.todo = t.todo /\ u.made = t.made
      /\ u.ask = t.ask /\ u.generation = t.generation
  BY <1>1 DEF TaskFields
<1>6. TaskShape(s)
  BY <1>1, <1>2, <1>3, <1>4, <1>5 DEF TaskShape
<1>7. ReplyOK(s.url, s.reply)
  BY <1>2, <1>4 DEF ReplyOK, NoReply
<1> QED
  BY <1>1, <1>2, <1>4, <1>6, <1>7 DEF TaskOK, s

-----------------------------------------------------------------------------
(* The basic operations keep a page good.                                  *)

Core == {"tasks", "pending", "session", "serial", "mutation", "editing", "editGen", "queued",
         "draft", "base"}

LEMMA GoodFields ==
  ASSUME NEW p, NEW T, Good(p, T)
  PROVE  /\ PageShape(p) /\ TasksOK(p, T) /\ IdsUnique(p, T)
         /\ WritersBind(p) /\ Alive(p, T) /\ EditorHolds(p) /\ MutationRuns(p, T)
         /\ QueueWaits(p) /\ HasText(p) /\ DraftRests(p)
BY DEF Good

LEMMA GoodByFields ==
  ASSUME NEW p, NEW q, NEW T, Good(p, T), PageShape(q),
         q.tasks = p.tasks, q.pending = p.pending, q.session = p.session, q.serial = p.serial,
         q.mutation = p.mutation, q.editing = p.editing, q.editGen = p.editGen,
         q.queued \in {p.queued, 0}, q.draft = p.draft, q.base = p.base
  PROVE  Good(q, T)
BY DEF Good, TasksOK, IdsUnique, WritersBind, Alive, EditorHolds, MutationRuns, QueueWaits,
   HasText, DraftRests, Held, IsCurrentDrawer, Dirty

(* A change that leaves the bookkeeping alone.                             *)
LEMMA GoodSame ==
  ASSUME NEW p, NEW q, NEW T, NEW F, Good(p, T), PageShape(q), Changes(p, q, F),
         F \intersect (Core \ {"queued"}) = {}, q.queued \in {p.queued, 0}
  PROVE  Good(q, T)
<1>1. \A f \in Core \ {"queued"} : f \in PageFields \ F
  BY DEF Core, PageFields
<1>2. \A f \in Core \ {"queued"} : q[f] = p[f]
  BY <1>1 DEF Changes
<1>3. /\ q.tasks = p.tasks /\ q.pending = p.pending /\ q.session = p.session
      /\ q.serial = p.serial /\ q.mutation = p.mutation /\ q.editing = p.editing
      /\ q.editGen = p.editGen /\ q.draft = p.draft /\ q.base = p.base
  BY <1>2 DEF Core
<1> QED
  BY <1>3, GoodByFields

(* A new session: bindings of the old one no longer hold anything.         *)
LEMMA GoodNewSession ==
  ASSUME NEW p, NEW q, NEW T, Good(p, T), PageShape(q),
         Changes(p, q, {"history", "historyGen", "session", "loadGen"}),
         q.session = p.session + 1
  PROVE  Good(q, T)
<1>1. /\ q.tasks = p.tasks /\ q.pending = p.pending /\ q.serial = p.serial
      /\ q.mutation = p.mutation /\ q.editing = p.editing /\ q.editGen = p.editGen
      /\ q.queued = p.queued /\ q.draft = p.draft /\ q.base = p.base
  BY DEF Changes, PageFields
<1>2. p.session \in Nat /\ p.editing \in Ids \union {0} /\ p.pending \in [Ids -> Binding]
  BY ShapeFields DEF Good
<1>3. \A t \in p.tasks \union T : t.session \in Nat /\ t.session <= p.session
                                 /\ t.sent \in Nat /\ t.sent <= p.session
  BY DEF Good, TasksOK, TaskOK, TaskShape
<1>4. \A i \in Ids : p.pending[i].session \in Nat /\ p.pending[i].session <= p.session
  BY <1>2 DEF Good, Alive, Binding
<1>5. TasksOK(q, T)
  BY <1>1, <1>2, <1>3 DEF Good, TasksOK
<1>6. IdsUnique(q, T) /\ MutationRuns(q, T) /\ QueueWaits(q) /\ HasText(q)
  BY <1>1 DEF Good, IdsUnique, MutationRuns, QueueWaits, HasText
<1>7. WritersBind(q)
  BY <1>1, <1>2, <1>3 DEF WritersBind
<1>8. Alive(q, T)
  BY <1>1, <1>2, <1>4 DEF Good, Alive
<1>9. EditorHolds(q)
  BY <1>1, <1>2, <1>4 DEF EditorHolds, Held
<1>10. DraftRests(q)
  BY <1>1, <1>2, <1>3 DEF DraftRests, IsCurrentDrawer
<1> QED
  BY <1>5, <1>6, <1>7, <1>8, <1>9, <1>10 DEF Good

(* A new editor, or none: no request is its own yet.                       *)
LEMMA GoodNewEditor ==
  ASSUME NEW p, NEW q, NEW T, Good(p, T), PageShape(q),
         Changes(p, q, {"editGen", "editing", "clone", "mutation", "draft", "base", "queued"}),
         q.editGen = p.editGen + 1, q.mutation = 0, q.queued = 0,
         q.editing # 0 => ~Held(p, q.editing) /\ q.draft.text # 0
  PROVE  Good(q, T)
<1>1. /\ q.tasks = p.tasks /\ q.pending = p.pending /\ q.serial = p.serial
      /\ q.session = p.session
  BY DEF Changes, PageFields
<1>2. p.editGen \in Nat
  BY ShapeFields DEF Good
<1>3. \A t \in p.tasks \union T : t.editor \in Nat /\ t.editor <= p.editGen
  BY DEF Good, TasksOK, TaskOK, TaskShape
<1>4. TasksOK(q, T)
  BY <1>1, <1>2, <1>3 DEF Good, TasksOK
<1>5. IdsUnique(q, T) /\ MutationRuns(q, T) /\ QueueWaits(q) /\ WritersBind(q) /\ Alive(q, T)
  BY <1>1 DEF Good, IdsUnique, MutationRuns, QueueWaits, WritersBind, Alive
<1>6. EditorHolds(q) /\ HasText(q)
  BY <1>1 DEF EditorHolds, Held, HasText
<1>7. DraftRests(q)
  BY <1>1, <1>2, <1>3 DEF DraftRests, IsCurrentDrawer
<1> QED
  BY <1>4, <1>5, <1>6, <1>7 DEF Good

(* A function that binds no ticket starts.                                 *)
LEMMA GoodSend ==
  ASSUME NEW p, NEW T, Good(p, T), NEW t, Fresh(t), t.op \notin Binders
  PROVE  Good(Send(p, t), T)
<1> DEFINE q == Send(p, t)
           s == Sent(p, t)
<1>1. /\ PageShape(q) /\ Changes(p, q, {"tasks", "serial"})
      /\ q.tasks = p.tasks \union {s} /\ q.serial = p.serial + 1
  BY SendFrame DEF Good
<1>2. /\ TaskOK(s) /\ s.id = p.serial + 1 /\ s.session = p.session /\ s.sent = p.session
      /\ s.editor = p.editGen /\ s.op = t.op
  BY SentShape DEF Good
<1> HIDE DEF q, s
<1>3. /\ q.pending = p.pending /\ q.session = p.session
      /\ q.mutation = p.mutation /\ q.editing = p.editing /\ q.editGen = p.editGen
      /\ q.queued = p.queued /\ q.draft = p.draft /\ q.base = p.base
  BY <1>1 DEF Changes, PageFields
<1>4. p.serial \in Nat /\ p.session \in Nat /\ p.editGen \in Nat
  BY ShapeFields DEF Good
<1>5. \A u \in p.tasks \union T : u.id \in Nat /\ u.id <= p.serial
  BY DEF Good, TasksOK, TaskOK, TaskShape
<1>6. \A u \in p.tasks \union T : u.id # s.id /\ u.id <= q.serial
  BY <1>1, <1>2, <1>4, <1>5
<1>7. TasksOK(q, T)
  BY <1>1, <1>2, <1>3, <1>4, <1>6 DEF Good, TasksOK
<1>8. IdsUnique(q, T)
  BY <1>1, <1>6 DEF Good, IdsUnique
<1>9. WritersBind(q) /\ DraftRests(q)
  BY <1>1, <1>2, <1>3 DEF Good, WritersBind, DraftRests, IsCurrentDrawer, Binders, Dirty
<1>10. Alive(q, T) /\ MutationRuns(q, T)
  BY <1>1, <1>3 DEF Good, Alive, MutationRuns
<1>11. EditorHolds(q) /\ QueueWaits(q) /\ HasText(q)
  BY <1>3 DEF Good, EditorHolds, QueueWaits, HasText, Held
<1> QED
  BY <1>1, <1>7, <1>8, <1>9, <1>10, <1>11 DEF Good, q

LEMMA EndFrame ==
  ASSUME NEW p, PageShape(p), NEW t
  PROVE  LET q == End(p, t) IN
         /\ PageShape(q) /\ Changes(p, q, {"tasks"}) /\ q.tasks = p.tasks \ {t}
<1> DEFINE q == End(p, t)
<1>1. Changes(p, q, {"tasks"}) /\ q.tasks = p.tasks \ {t}
  BY DEF PageShape, IsPage, PageFields, Changes, End
<1> HIDE DEF q
<1>2. FieldOK("tasks", q["tasks"])
  BY DEF FieldOK
<1> QED
  BY <1>1, <1>2, ChangedShape DEF q

(* A function is resumed.                                                  *)
LEMMA GoodEnd ==
  ASSUME NEW p, Good(p, {}), NEW t \in p.tasks
  PROVE  Good(End(p, t), {t})
<1> DEFINE q == End(p, t)
<1>1. PageShape(q) /\ Changes(p, q, {"tasks"}) /\ q.tasks = p.tasks \ {t}
  BY EndFrame DEF Good
<1> HIDE DEF q
<1>2. /\ q.pending = p.pending /\ q.session = p.session /\ q.serial = p.serial
      /\ q.mutation = p.mutation /\ q.editing = p.editing /\ q.editGen = p.editGen
      /\ q.queued = p.queued /\ q.draft = p.draft /\ q.base = p.base
  BY <1>1 DEF Changes, PageFields
<1>3. q.tasks \union {t} = p.tasks
  BY <1>1
<1>4. TasksOK(q, {t}) /\ IdsUnique(q, {t}) /\ Alive(q, {t}) /\ MutationRuns(q, {t})
  BY <1>1, <1>2, <1>3 DEF Good, TasksOK, IdsUnique, Alive, MutationRuns
<1>5. WritersBind(q) /\ DraftRests(q) /\ EditorHolds(q) /\ QueueWaits(q) /\ HasText(q)
  BY <1>1, <1>2 DEF Good, WritersBind, DraftRests, EditorHolds, QueueWaits, HasText,
                    IsCurrentDrawer, Held, Dirty
<1> QED
  BY <1>1, <1>4, <1>5 DEF Good, q

-----------------------------------------------------------------------------
(* What a handler may do to the draft and to the calls under way.          *)

(* Unsaved, of any page.                                                   *)
Typed(p) ==
  IF p.editing = 0 \/ p.base = Blank THEN {}
  ELSE (IF p.draft.text # p.base.text THEN {p.draft.text} ELSE {})
       \union (IF p.draft.comment # p.base.comment THEN {p.draft.comment} ELSE {})

LEMMA CleanIsEmpty ==
  ASSUME NEW p, PageShape(p)
  PROVE  ~Dirty(p) <=> Typed(p) = {}
<1>1. p.draft \in Fields /\ p.base \in Fields
  BY ShapeFields DEF Fields, Baseline
<1>2. p.draft = p.base <=> p.draft.text = p.base.text /\ p.draft.comment = p.base.comment
  BY <1>1 DEF Fields
<1> QED
  BY <1>2 DEF Dirty, Typed

(* The background neither answers calls nor touches the draft of its       *)
(* session.                                                                *)
Follows(p, q) ==
  /\ p.tasks \subseteq q.tasks /\ \A t \in q.tasks \ p.tasks : t.reply = NoReply
  /\ \/ q.session = p.session /\ Typed(q) = Typed(p)
     \/ q.session > p.session /\ Typed(q) \in {Typed(p), {}}

LEMMA FollowsCompose ==
  ASSUME NEW p, NEW q, NEW r, PageShape(p), PageShape(q), PageShape(r),
         Follows(p, q), Follows(q, r)
  PROVE  Follows(p, r)
<1>1. p.session \in Nat /\ q.session \in Nat /\ r.session \in Nat
  BY ShapeFields
<1>2. p.tasks \subseteq r.tasks /\ \A t \in r.tasks \ p.tasks : t.reply = NoReply
  BY DEF Follows
<1>3. CASE q.session = p.session /\ Typed(q) = Typed(p)
  BY <1>2, <1>3 DEF Follows
<1>4. CASE q.session > p.session /\ Typed(q) \in {Typed(p), {}}
  <2>1. r.session > p.session
    BY <1>1, <1>4 DEF Follows
  <2>2. Typed(r) \in {Typed(p), {}}
    BY <1>4 DEF Follows
  <2> QED
    BY <1>2, <2>1, <2>2 DEF Follows
<1> QED
  BY <1>3, <1>4 DEF Follows

LEMMA FollowsSame ==
  ASSUME NEW p, NEW q, p.tasks \subseteq q.tasks, \A t \in q.tasks \ p.tasks : t.reply = NoReply,
         q.session = p.session, q.editing = p.editing, q.draft = p.draft, q.base = p.base
  PROVE  Follows(p, q)
BY DEF Follows, Typed

LEMMA FollowsFields ==
  ASSUME NEW p, NEW q, NEW F, Changes(p, q, F), F \intersect (Core \ {"queued"}) = {}
  PROVE  Follows(p, q)
<1>1. \A f \in Core \ {"queued"} : f \in PageFields \ F
  BY DEF Core, PageFields
<1>2. \A f \in Core \ {"queued"} : q[f] = p[f]
  BY <1>1 DEF Changes
<1>3. q.tasks = p.tasks /\ q.session = p.session /\ q.editing = p.editing /\ q.draft = p.draft
      /\ q.base = p.base
  BY <1>2 DEF Core
<1> QED
  BY <1>3, FollowsSame

LEMMA SendFollows ==
  ASSUME NEW p, PageShape(p), NEW t, Fresh(t)
  PROVE  Follows(p, Send(p, t))
<1> DEFINE q == Send(p, t)
<1>1. Changes(p, q, {"tasks", "serial"}) /\ q.tasks = p.tasks \union {Sent(p, t)}
  BY SendFrame
<1>2. Sent(p, t).reply = NoReply
  BY SentShape
<1> HIDE DEF q
<1>3. q.session = p.session /\ q.editing = p.editing /\ q.draft = p.draft /\ q.base = p.base
  BY <1>1 DEF Changes, PageFields
<1>4. Follows(p, q)
  BY <1>1, <1>2, <1>3, FollowsSame
<1> QED
  BY <1>4 DEF q

-----------------------------------------------------------------------------
(* Sessions.                                                               *)

LEMMA ClearHistoryViewFrame ==
  ASSUME NEW p, PageShape(p)
  PROVE  LET q == ClearHistoryView(p) IN
         PageShape(q) /\ Changes(p, q, {"historyGen", "history"})
<1> DEFINE q == ClearHistoryView(p)
<1>1. /\ Changes(p, q, {"historyGen", "history"})
      /\ q.historyGen = p.historyGen + 1 /\ q.history = Nothing
  BY DEF PageShape, IsPage, PageFields, Changes, ClearHistoryView
<1> HIDE DEF q
<1>2. \A f \in {"historyGen", "history"} : FieldOK(f, q[f])
  BY <1>1, ShapeFields DEF FieldOK
<1>3. PageShape(q)
  BY <1>1, <1>2, ChangedShape
<1> QED
  BY <1>1, <1>3 DEF q

LEMMA InvalidateFrame ==
  ASSUME NEW p, PageShape(p)
  PROVE  LET q == InvalidateSessionRequests(p) IN
         /\ PageShape(q) /\ Changes(p, q, {"history", "historyGen", "session", "loadGen"})
         /\ q.session = p.session + 1
<1> DEFINE r == ClearHistoryView(p)
           q == [r EXCEPT !.session = r.session + 1, !.loadGen = r.loadGen + 1]
           F == {"historyGen", "history"}
           G == {"session", "loadGen"}
<1>1. PageShape(r) /\ Changes(p, r, F)
  BY ClearHistoryViewFrame
<1>2. InvalidateSessionRequests(p) = q
  BY DEF InvalidateSessionRequests
<1> HIDE DEF r
<1>3. Changes(r, q, G) /\ q.session = r.session + 1 /\ q.loadGen = r.loadGen + 1
  BY <1>1 DEF PageShape, IsPage, PageFields, Changes
<1> HIDE DEF q
<1>4. r.session \in Nat /\ r.loadGen \in Nat /\ r.session = p.session
  BY <1>1, ShapeFields DEF Changes, PageFields
<1>5. \A f \in G : FieldOK(f, q[f])
  BY <1>3, <1>4 DEF FieldOK
<1>6. PageShape(q)
  BY <1>1, <1>3, <1>5, ChangedShape
<1>7. Changes(p, q, {"history", "historyGen", "session", "loadGen"})
  <2>1. F \union G = {"history", "historyGen", "session", "loadGen"}
    OBVIOUS
  <2> QED
    BY <1>1, <1>3, <2>1, ChangesCompose
<1> QED
  BY <1>2, <1>3, <1>4, <1>6, <1>7

LEMMA GoodInvalidate ==
  ASSUME NEW p, NEW T, Good(p, T)
  PROVE  LET q == InvalidateSessionRequests(p) IN
         Good(q, T) /\ Follows(p, q) /\ q.session = p.session + 1 /\ q.editing = p.editing
<1> DEFINE q == InvalidateSessionRequests(p)
<1>1. /\ PageShape(q) /\ Changes(p, q, {"history", "historyGen", "session", "loadGen"})
      /\ q.session = p.session + 1
  BY InvalidateFrame DEF Good
<1> HIDE DEF q
<1>2. Good(q, T)
  BY <1>1, GoodNewSession
<1>3. q.tasks = p.tasks /\ q.editing = p.editing /\ q.draft = p.draft /\ q.base = p.base
  BY <1>1 DEF Changes, PageFields
<1>4. Follows(p, q)
  BY <1>1, <1>3, ShapeFields DEF Good, Follows, Typed
<1> QED
  BY <1>1, <1>2, <1>3, <1>4 DEF q

LEMMA GoodReset ==
  ASSUME NEW p, NEW T, Good(p, T)
  PROVE  LET q == ResetDrawer(p) IN
         /\ Good(q, T) /\ q.editing = 0 /\ q.queued = 0 /\ Typed(q) = {} /\ q.tasks = p.tasks
         /\ q.session = p.session /\ q.pending = p.pending /\ q.serial = p.serial
<1> DEFINE q == ResetDrawer(p)
<1>1. /\ PageShape(q)
      /\ Changes(p, q, {"editGen", "editing", "clone", "mutation", "draft", "base", "queued"})
      /\ q.editGen = p.editGen + 1 /\ q.editing = 0 /\ q.mutation = 0 /\ q.queued = 0
  BY ResetDrawerFrame DEF Good
<1> HIDE DEF q
<1>2. Good(q, T)
  BY <1>1, GoodNewEditor
<1>3. q.tasks = p.tasks /\ q.session = p.session /\ q.pending = p.pending /\ q.serial = p.serial
  BY <1>1 DEF Changes, PageFields
<1> QED
  BY <1>1, <1>2, <1>3 DEF q, Typed

(* The session ends, and its editor with it.                               *)
LEMMA GoodLeave ==
  ASSUME NEW p, NEW T, Good(p, T)
  PROVE  LET q == ResetDrawer(InvalidateSessionRequests(p)) IN
         /\ Good(q, T) /\ Follows(p, q) /\ q.session = p.session + 1
         /\ q.editing = 0 /\ q.queued = 0 /\ q.tasks = p.tasks
<1> DEFINE r == InvalidateSessionRequests(p)
           q == ResetDrawer(r)
<1>1. /\ Good(r, T) /\ r.session = p.session + 1 /\ r.tasks = p.tasks
  <2>1. Changes(p, r, {"history", "historyGen", "session", "loadGen"})
    BY InvalidateFrame DEF Good
  <2>2. r.tasks = p.tasks
    BY <2>1 DEF Changes, PageFields
  <2> QED
    BY <2>2, GoodInvalidate
<1> HIDE DEF r
<1>2. /\ Good(q, T) /\ q.editing = 0 /\ q.queued = 0 /\ Typed(q) = {} /\ q.tasks = r.tasks
      /\ q.session = r.session
  BY <1>1, GoodReset
<1> HIDE DEF q
<1>3. Follows(p, q)
  BY <1>1, <1>2, ShapeFields DEF Good, Follows
<1> QED
  BY <1>1, <1>2, <1>3 DEF q, r

LEMMA GoodLoginRequired ==
  ASSUME NEW p, NEW T, Good(p, T)
  PROVE  LET q == ShowLoginRequired(p) IN
         Good(q, T) /\ Follows(p, q) /\ q.session = p.session + 1 /\ q.tasks = p.tasks
<1> DEFINE r == ResetDrawer(InvalidateSessionRequests(p))
           q == [r EXCEPT !.me = 0, !.panel = TRUE, !.locked = FALSE]
           F == {"me", "panel", "locked"}
<1>1. Good(r, T) /\ Follows(p, r) /\ r.session = p.session + 1 /\ r.tasks = p.tasks
  BY GoodLeave
<1>2. ShowLoginRequired(p) = q
  BY DEF ShowLoginRequired
<1> HIDE DEF r
<1>3. Changes(r, q, F) /\ q.me = 0
  BY <1>1 DEF Good, PageShape, IsPage, PageFields, Changes
<1> HIDE DEF q
<1>4. PageShape(q)
  BY <1>1, <1>3, ChangedShape DEF Good, FieldOK
<1>5. F \intersect (Core \ {"queued"}) = {} /\ q.queued = r.queued /\ q.session = r.session
      /\ q.tasks = r.tasks
  BY <1>3 DEF Core, Changes, PageFields
<1>6. Good(q, T)
  BY <1>1, <1>3, <1>4, <1>5, GoodSame
<1>7. Follows(r, q)
  BY <1>3, <1>5, FollowsFields
<1>8. Follows(p, q)
  BY <1>1, <1>4, <1>7, FollowsCompose DEF Good
<1> QED
  BY <1>1, <1>2, <1>5, <1>6, <1>8

LEMMA GoodLoggedOut ==
  ASSUME NEW p, NEW T, Good(p, T)
  PROVE  LET q == ShowLoggedOut(p) IN
         Good(q, T) /\ Follows(p, q) /\ q.session = p.session + 1 /\ q.tasks = p.tasks
<1> DEFINE r == ResetDrawer(InvalidateSessionRequests(p))
           m == [r EXCEPT !.me = 0, !.board = 0, !.rows = << >>, !.notes = 0, !.selected = 0]
           q == [m EXCEPT !.panel = TRUE, !.locked = FALSE]
           F == {"me", "board", "rows", "notes", "selected", "panel", "locked"}
<1>1. Good(r, T) /\ Follows(p, r) /\ r.session = p.session + 1 /\ r.tasks = p.tasks
  BY GoodLeave
<1>2. ShowLoggedOut(p) = q
  BY DEF ShowLoggedOut, ResetClientState
<1> HIDE DEF r
<1>3. /\ Changes(r, q, F)
      /\ q.me = 0 /\ q.board = 0 /\ q.rows = << >> /\ q.notes = 0 /\ q.selected = 0
  BY <1>1 DEF Good, PageShape, IsPage, PageFields, Changes
<1> HIDE DEF q
<1>4. PageShape(q)
  BY <1>1, <1>3, ChangedShape DEF Good, FieldOK, IsRows
<1>5. F \intersect (Core \ {"queued"}) = {} /\ q.queued = r.queued /\ q.session = r.session
      /\ q.tasks = r.tasks
  BY <1>3 DEF Core, Changes, PageFields
<1>6. Good(q, T)
  BY <1>1, <1>3, <1>4, <1>5, GoodSame
<1>7. Follows(r, q)
  BY <1>3, <1>5, FollowsFields
<1>8. Follows(p, q)
  BY <1>1, <1>4, <1>7, FollowsCompose DEF Good
<1> QED
  BY <1>1, <1>2, <1>5, <1>6, <1>8

-----------------------------------------------------------------------------
(* Rendering.                                                              *)

LEMMA FreshByData ==
  ASSUME NEW t, IsTask(t), <<t.op, t.url>> \in Calls, t.reply = NoReply,
         t.session = 0, t.editor = 0, t.sent = 0, t.as = 0, t.made = 0, t.generation \in Nat,
         t.ticket \in Ids \union {0}, t.row \in Row, t.board \in BoardIds \union {0},
         t.keep \in Fields, t.todo \in Seq(Promotion),
         t.op \in Binders => t.ticket \in Ids,
         t.url = "login" => t.ask \in Users,
         t.url = "put" => t.row.text # 0,
         t.op = "save" => t.row.text = t.keep.text,
         t.op \in {"trash", "duplicate"} => t.keep \in Baseline
  PROVE  Fresh(t)
<1> DEFINE u == [t EXCEPT !.id = 1]
<1>1. IsTask(u) /\ u.id = 1 /\ \A f \in TaskFields \ {"id"} : u[f] = t[f]
  BY DEF IsTask, TaskFields
<1> HIDE DEF u
<1>2. /\ u.op = t.op /\ u.url = t.url /\ u.ticket = t.ticket /\ u.row = t.row
      /\ u.board = t.board /\ u.keep = t.keep /\ u.todo = t.todo /\ u.made = t.made
      /\ u.ask = t.ask /\ u.generation = t.generation /\ u.session = t.session
      /\ u.editor = t.editor /\ u.sent = t.sent /\ u.as = t.as
  BY <1>1 DEF TaskFields
<1>3. t.url # "state"
  BY DEF Calls
<1>4. TaskShape(u)
  BY <1>1, <1>2, <1>3 DEF TaskShape
<1> QED
  BY <1>4 DEF Fresh, u

(* The task of a function that starts, before its arguments.               *)
LEMMA TaskStarts ==
  ASSUME NEW op, NEW url
  PROVE  LET t == Task(op, url) IN
         /\ IsTask(t) /\ t.op = op /\ t.url = url /\ t.reply = NoReply
         /\ t.session = 0 /\ t.editor = 0 /\ t.sent = 0 /\ t.as = 0 /\ t.made = 0
         /\ t.generation = 0 /\ t.ticket = 0 /\ t.row = NoRow /\ t.board = 0
         /\ t.keep = Blank /\ t.todo = << >> /\ t.ask = 0 /\ t.id = 0
BY DEF Task, IsTask, TaskFields

LEMMA Empties ==
  /\ NoRow \in Row /\ Blank \in Fields /\ Blank \in Baseline /\ << >> \in Seq(Promotion)
  /\ 0 \in BoardIds \union {0} /\ 0 \in Ids \union {0}
BY DEF NoRow, Row, Blank, Fields, Baseline

LEMMA GoodRenderHistory ==
  ASSUME NEW p, NEW T, Good(p, T)
  PROVE  LET q == RenderHistory(p) IN
         /\ Good(q, T) /\ Follows(p, q)
         /\ Changes(p, q, {"historyGen", "history", "tasks", "serial"})
<1> DEFINE r == [p EXCEPT !.historyGen = p.historyGen + 1]
           w == Task("history", "history")
           t == [w EXCEPT !.board = r.board, !.generation = r.historyGen]
<1>1. Changes(p, r, {"historyGen"}) /\ r.historyGen = p.historyGen + 1
  BY DEF Good, PageShape, IsPage, PageFields, Changes
<1>3. RenderHistory(p) = IF p.board = 0 THEN r ELSE Send(r, t)
  BY DEF RenderHistory
<1> HIDE DEF r, w
<1>2. /\ IsTask(t) /\ t.op = "history" /\ t.url = "history" /\ t.reply = NoReply
      /\ t.session = 0 /\ t.editor = 0 /\ t.sent = 0 /\ t.as = 0 /\ t.made = 0
      /\ t.generation = r.historyGen /\ t.ticket = 0 /\ t.row = NoRow /\ t.board = r.board
      /\ t.keep = Blank /\ t.todo = << >>
  <2>1. /\ IsTask(w) /\ w.op = "history" /\ w.url = "history" /\ w.reply = NoReply
        /\ w.session = 0 /\ w.editor = 0 /\ w.sent = 0 /\ w.as = 0 /\ w.made = 0
        /\ w.ticket = 0 /\ w.row = NoRow /\ w.keep = Blank /\ w.todo = << >>
    BY TaskStarts DEF w
  <2> QED
    BY <2>1 DEF IsTask, TaskFields
<1> HIDE DEF t
<1>4. r.historyGen \in Nat
  BY <1>1, ShapeFields DEF Good
<1>5. PageShape(r)
  BY <1>1, <1>4, ChangedShape DEF Good, FieldOK
<1>6. {"historyGen"} \intersect (Core \ {"queued"}) = {} /\ r.queued = p.queued
  BY <1>1 DEF Core, Changes, PageFields
<1>7. Good(r, T) /\ Follows(p, r)
  BY <1>1, <1>5, <1>6, GoodSame, FollowsFields
<1>8. Fresh(t)
  BY <1>2, <1>4, <1>5, FreshByData, Empties, ShapeFields DEF Calls, Binders, EditorOps
<1>9. Good(Send(r, t), T)
  BY <1>2, <1>7, <1>8, GoodSend DEF Binders, EditorOps
<1>10. Follows(p, Send(r, t))
  BY <1>5, <1>7, <1>8, <1>9, SendFollows, FollowsCompose DEF Good
<1>11. Changes(p, Send(r, t), {"historyGen", "history", "tasks", "serial"})
  <2>1. Changes(r, Send(r, t), {"tasks", "serial"})
    BY <1>5, SendFrame
  <2> QED
    BY <1>1, <2>1 DEF Changes
<1>12. Changes(p, r, {"historyGen", "history", "tasks", "serial"})
  BY <1>1 DEF Changes
<1> QED
  BY <1>3, <1>7, <1>9, <1>10, <1>11, <1>12

LEMMA GoodRenderView ==
  ASSUME NEW p, NEW T, Good(p, T)
  PROVE  LET q == RenderView(p) IN
         /\ Good(q, T) /\ Follows(p, q)
         /\ Changes(p, q, {"historyGen", "history", "tasks", "serial"})
<1> DEFINE r == ClearHistoryView(p)
           q == RenderHistory(r)
           F == {"historyGen", "history", "tasks", "serial"}
<1>1. PageShape(r) /\ Changes(p, r, {"historyGen", "history"})
  BY ClearHistoryViewFrame DEF Good
<1>2. RenderView(p) \in {r, q}
  BY DEF RenderView
<1> HIDE DEF r
<1>3. {"historyGen", "history"} \intersect (Core \ {"queued"}) = {} /\ r.queued = p.queued
  BY <1>1 DEF Core, Changes, PageFields
<1>4. Good(r, T) /\ Follows(p, r) /\ Changes(p, r, F)
  BY <1>1, <1>3, GoodSame, FollowsFields DEF Changes
<1>5. Good(q, T) /\ Follows(r, q) /\ Changes(r, q, F)
  BY <1>4, GoodRenderHistory
<1> HIDE DEF q
<1>6. Follows(p, q) /\ Changes(p, q, F)
  <2>1. PageShape(p) /\ PageShape(q)
    BY <1>5 DEF Good
  <2> QED
    BY <1>1, <1>4, <1>5, <2>1, FollowsCompose DEF Changes
<1> QED
  BY <1>2, <1>4, <1>5, <1>6

(* The queued ticket is opened only where no editor is open.               *)
LEMMA GoodRender ==
  ASSUME NEW p, NEW T, Good(p, T)
  PROVE  LET q == Render(p) IN
         Good(q, T) /\ Follows(p, q) /\ q.session = p.session /\ q.me = p.me
<1> DEFINE v == RenderView(p)
           r == [v EXCEPT !.queued = 0]
           q == OpenEditor(r, p.queued)
<1>1. /\ Good(v, T) /\ Follows(p, v)
      /\ Changes(p, v, {"historyGen", "history", "tasks", "serial"})
  BY GoodRenderView
<1>2. Render(p) = IF p.queued # 0 /\ CanOpen(r, p.queued) THEN q ELSE r
  BY DEF Render
<1> HIDE DEF v
<1>3. Changes(v, r, {"queued"}) /\ r.queued = 0
  BY <1>1 DEF Good, PageShape, IsPage, PageFields, Changes
<1> HIDE DEF r
<1>4. PageShape(r)
  BY <1>1, <1>3, ChangedShape DEF Good, FieldOK
<1>5. Good(r, T) /\ Follows(v, r)
  BY <1>1, <1>3, <1>4, GoodSame, FollowsFields DEF Core
<1>6. Follows(p, r)
  BY <1>1, <1>4, <1>5, FollowsCompose DEF Good
<1>7. r.session = p.session /\ r.editing = p.editing /\ r.me = p.me
  BY <1>1, <1>3 DEF Changes, PageFields
<1>8. ASSUME p.queued # 0, CanOpen(r, p.queued)
      PROVE  Good(q, T) /\ Follows(p, q) /\ q.session = p.session /\ q.me = p.me
  <2>1. p.queued \in DOMAIN r.rows /\ ~Held(r, p.queued)
    BY <1>8 DEF CanOpen
  <2>2. /\ PageShape(q)
        /\ Changes(r, q, {"editGen", "editing", "clone", "mutation", "draft", "base", "queued"})
        /\ q.editGen = r.editGen + 1 /\ q.editing = p.queued /\ q.mutation = 0
        /\ q.draft = q.base /\ q.draft.text # 0 /\ q.queued = 0
    BY <1>4, <2>1, OpenEditorFrame
  <2> HIDE DEF q
  <2>3. Good(q, T)
    BY <1>5, <2>1, <2>2, GoodNewEditor
  <2>4. p.editing = 0
    BY <1>8 DEF Good, QueueWaits
  <2>5. Typed(r) = {} /\ Typed(q) = {}
    BY <1>7, <2>2, <2>4 DEF Typed
  <2>6. q.tasks = r.tasks /\ q.session = r.session /\ q.me = r.me
    BY <2>2 DEF Changes, PageFields
  <2>7. Follows(r, q)
    BY <2>5, <2>6 DEF Follows
  <2> QED
    BY <1>4, <1>6, <1>7, <2>2, <2>3, <2>6, <2>7, FollowsCompose DEF Good
<1> QED
  BY <1>2, <1>5, <1>6, <1>7, <1>8

-----------------------------------------------------------------------------
(* Functions that go on, and functions that end.                           *)

(* The task that SendNext adds.                                            *)
Asking(p, t) == [t EXCEPT !.sent = p.session, !.as = p.jar, !.reply = NoReply]

LEMMA SendNextFrame ==
  ASSUME NEW p, PageShape(p), NEW t, TaskShape(t)
  PROVE  LET q == SendNext(p, t)
             s == Asking(p, t)
         IN /\ PageShape(q) /\ Changes(p, q, {"tasks"}) /\ q.tasks = p.tasks \union {s}
            /\ TaskOK(s) /\ s.reply = NoReply /\ s.sent = p.session
            /\ \A f \in TaskFields \ {"sent", "as", "reply"} : s[f] = t[f]
<1> DEFINE s == Asking(p, t)
           q == [p EXCEPT !.tasks = p.tasks \union {s}]
<1>1. SendNext(p, t) = q
  BY DEF SendNext, Asking
<1>2. /\ IsTask(s) /\ s.sent = p.session /\ s.as = p.jar /\ s.reply = NoReply
      /\ \A f \in TaskFields \ {"sent", "as", "reply"} : s[f] = t[f]
  BY DEF TaskShape, IsTask, TaskFields, Asking
<1> HIDE DEF s
<1>3. Changes(p, q, {"tasks"}) /\ q.tasks = p.tasks \union {s}
  BY DEF PageShape, IsPage, PageFields, Changes
<1> HIDE DEF q
<1>4. PageShape(q)
  BY <1>3, ChangedShape DEF FieldOK
<1>5. /\ s.op = t.op /\ s.url = t.url /\ s.ticket = t.ticket /\ s.row = t.row /\ s.id = t.id
      /\ s.board = t.board /\ s.keep = t.keep /\ s.todo = t.todo /\ s.made = t.made
      /\ s.ask = t.ask /\ s.generation = t.generation /\ s.session = t.session
      /\ s.editor = t.editor
  BY <1>2 DEF TaskFields
<1>6. p.session \in Nat /\ p.jar \in Nat
  BY ShapeFields
<1>7. TaskShape(s)
  BY <1>2, <1>5, <1>6 DEF TaskShape
<1>8. ReplyOK(s.url, s.reply)
  BY <1>2 DEF ReplyOK, NoReply
<1> QED
  BY <1>1, <1>2, <1>3, <1>4, <1>7, <1>8 DEF s, TaskOK

(* The resumed function t goes on as u: what binds a ticket only loads.    *)
LEMMA GoodSendNext ==
  ASSUME NEW p, NEW t, Good(p, {t}), NEW u, TaskShape(u),
         u.id = t.id, u.session <= p.session, u.editor <= p.editGen,
         t.op = u.op, t.op \in Binders => u.ticket = t.ticket /\ u.url = "state"
  PROVE  LET q == SendNext(p, u) IN
         /\ Good(q, {}) /\ Follows(p, q) /\ q.session = p.session
<1> DEFINE q == SendNext(p, u)
           s == Asking(p, u)
<1>0. PageShape(p)
  BY DEF Good
<1>1. /\ PageShape(q) /\ Changes(p, q, {"tasks"}) /\ q.tasks = p.tasks \union {s}
      /\ TaskOK(s) /\ s.reply = NoReply /\ s.sent = p.session
      /\ \A f \in TaskFields \ {"sent", "as", "reply"} : s[f] = u[f]
  BY <1>0, SendNextFrame
<1>2. s.id = t.id /\ s.op = t.op /\ s.url = u.url /\ s.ticket = u.ticket
      /\ s.session = u.session /\ s.editor = u.editor
  BY <1>1 DEF TaskFields
<1> HIDE DEF q, s
<1>3. /\ q.pending = p.pending /\ q.session = p.session /\ q.serial = p.serial
      /\ q.mutation = p.mutation /\ q.editing = p.editing /\ q.editGen = p.editGen
      /\ q.queued = p.queued /\ q.draft = p.draft /\ q.base = p.base
  BY <1>1 DEF Changes, PageFields
<1>4. \A v \in p.tasks : v.id # t.id
  BY DEF Good, IdsUnique
<1>5. p.session \in Nat /\ t.id <= p.serial
  BY ShapeFields DEF Good, TasksOK
<1>6. TasksOK(q, {})
  BY <1>1, <1>2, <1>3, <1>5 DEF Good, TasksOK
<1>7. IdsUnique(q, {})
  BY <1>1, <1>2, <1>4 DEF Good, IdsUnique
<1>8. WritersBind(q) /\ DraftRests(q)
  BY <1>1, <1>2, <1>3 DEF Good, WritersBind, DraftRests, IsCurrentDrawer, Dirty, Binders
<1>9. Alive(q, {})
  <2>1. ASSUME NEW i \in Ids, p.pending[i] # NoBinding
        PROVE  \E v \in q.tasks : v.id = p.pending[i].id /\ v.ticket = i /\ v.op \in Binders
    BY <1>1, <1>2, <2>1 DEF Good, Alive
  <2> QED
    BY <1>3, <2>1 DEF Good, Alive
<1>10. MutationRuns(q, {})
  BY <1>1, <1>2, <1>3 DEF Good, MutationRuns, Binders
<1>11. EditorHolds(q) /\ QueueWaits(q) /\ HasText(q)
  BY <1>3 DEF Good, EditorHolds, QueueWaits, HasText, Held
<1>12. Good(q, {})
  BY <1>1, <1>6, <1>7, <1>8, <1>9, <1>10, <1>11 DEF Good
<1>13. Follows(p, q)
  BY <1>1, <1>3, FollowsSame
<1> QED
  BY <1>3, <1>12, <1>13 DEF q

(* A function that binds nothing ends.                                     *)
LEMMA GoodDone ==
  ASSUME NEW p, NEW t, Good(p, {t}), t.op \notin Binders
  PROVE  Good(p, {})
<1>1. TasksOK(p, {}) /\ IdsUnique(p, {})
  BY DEF Good, TasksOK, IdsUnique
<1>2. Alive(p, {})
  BY DEF Good, Alive
<1>3. MutationRuns(p, {})
  BY DEF Good, MutationRuns, Binders
<1> QED
  BY <1>1, <1>2, <1>3 DEF Good

LEMMA ReleaseFrame ==
  ASSUME NEW p, PageShape(p), NEW t, t.ticket \in Ids
  PROVE  LET q == Release(p, t) IN
         /\ PageShape(q) /\ Changes(p, q, {"pending"})
         /\ \A i \in Ids : q.pending[i] = IF i = t.ticket /\ p.pending[i].id = t.id
                                          THEN NoBinding ELSE p.pending[i]
<1> DEFINE q == Release(p, t)
           new == [p.pending EXCEPT ![t.ticket] =
                     IF p.pending[t.ticket].id = t.id THEN NoBinding ELSE p.pending[t.ticket]]
<1>1. Changes(p, q, {"pending"}) /\ q.pending = new
  BY DEF PageShape, IsPage, PageFields, Changes, Release
<1> HIDE DEF q
<1>2. p.pending \in [Ids -> Binding] /\ NoBinding \in Binding
  BY ShapeFields DEF NoBinding, Binding
<1>3. new \in [Ids -> Binding]
  BY <1>2
<1>4. \A i \in Ids : new[i] = IF i = t.ticket /\ p.pending[i].id = t.id
                              THEN NoBinding ELSE p.pending[i]
  BY <1>2
<1> HIDE DEF new
<1>5. PageShape(q)
  BY <1>1, <1>3, ChangedShape DEF FieldOK
<1> QED
  BY <1>1, <1>4, <1>5 DEF q

(* What a released ticket leaves as it was.                                *)
LEMMA ReleasedTicket ==
  ASSUME NEW p, NEW t, Good(p, {t}), t.op \in Binders
  PROVE  LET q == Release(p, t) IN
         /\ PageShape(q) /\ Changes(p, q, {"pending"})
         /\ \A i \in Ids : Held(q, i) => Held(p, i) /\ q.pending[i] = p.pending[i]
         /\ \A i \in Ids : p.pending[i].id # t.id => q.pending[i] = p.pending[i]
         /\ \A i \in Ids : q.pending[i] # NoBinding =>
              q.pending[i] = p.pending[i] /\ p.pending[i].id # t.id
         /\ \A i \in Ids : q.pending[i].session <= p.session
<1> DEFINE q == Release(p, t)
<1>1. t.ticket \in Ids /\ PageShape(p)
  BY DEF Good, TasksOK, TaskOK, TaskShape
<1>2. /\ PageShape(q) /\ Changes(p, q, {"pending"})
      /\ \A i \in Ids : q.pending[i] = IF i = t.ticket /\ p.pending[i].id = t.id
                                       THEN NoBinding ELSE p.pending[i]
  BY <1>1, ReleaseFrame
<1> HIDE DEF q
<1>3. q.session = p.session /\ p.session \in Nat /\ p.session # 0
  BY <1>1, <1>2, ShapeFields DEF Changes, PageFields
<1>4. \A i \in Ids : Held(q, i) => Held(p, i) /\ q.pending[i] = p.pending[i]
  BY <1>2, <1>3 DEF Held, NoBinding
<1>5. \A i \in Ids : q.pending[i] # NoBinding => p.pending[i].id # t.id
  <2> SUFFICES ASSUME NEW i \in Ids, q.pending[i] # NoBinding, p.pending[i].id = t.id
               PROVE  FALSE
    OBVIOUS
  <2>1. i # t.ticket /\ p.pending[i] # NoBinding
    BY <1>2
  <2>2. PICK u \in p.tasks \union {t} : u.id = p.pending[i].id /\ u.ticket = i
    BY <2>1 DEF Good, Alive
  <2>3. u = t
    BY <2>2 DEF Good, IdsUnique
  <2> QED
    BY <2>1, <2>2, <2>3
<1>6. \A i \in Ids : q.pending[i].session <= p.session
  BY <1>2, <1>3 DEF Good, Alive, NoBinding
<1>7. \A i \in Ids : q.pending[i] # NoBinding => q.pending[i] = p.pending[i]
  BY <1>2
<1>8. \A i \in Ids : p.pending[i].id # t.id => q.pending[i] = p.pending[i]
  BY <1>2
<1> QED
  BY <1>2, <1>4, <1>5, <1>6, <1>7, <1>8 DEF q

(* A move or an Epic gives its ticket back and has nothing left.           *)
LEMMA GoodRelease ==
  ASSUME NEW p, NEW t, Good(p, {t}), t.op \in {"move", "epic"}, NEW T, T \in {{}, {t}}
  PROVE  LET q == Release(p, t) IN
         Good(q, T) /\ Follows(p, q) /\ q.session = p.session /\ q.tasks = p.tasks
<1> DEFINE q == Release(p, t)
<1>1. /\ PageShape(q) /\ Changes(p, q, {"pending"})
      /\ \A i \in Ids : Held(q, i) => Held(p, i) /\ q.pending[i] = p.pending[i]
      /\ \A i \in Ids : p.pending[i].id # t.id => q.pending[i] = p.pending[i]
      /\ \A i \in Ids : q.pending[i] # NoBinding =>
           q.pending[i] = p.pending[i] /\ p.pending[i].id # t.id
      /\ \A i \in Ids : q.pending[i].session <= p.session
  BY ReleasedTicket DEF Binders
<1> HIDE DEF q
<1>2. /\ q.tasks = p.tasks /\ q.session = p.session /\ q.serial = p.serial
      /\ q.mutation = p.mutation /\ q.editing = p.editing /\ q.editGen = p.editGen
      /\ q.queued = p.queued /\ q.draft = p.draft /\ q.base = p.base
  BY <1>1 DEF Changes, PageFields
<1>3. \A u \in p.tasks : u.id # t.id /\ (u.op \in Binders => u.ticket \in Ids)
  BY DEF Good, IdsUnique, TasksOK, TaskOK, TaskShape
<1>4. TasksOK(q, T) /\ IdsUnique(q, T)
  BY <1>2 DEF Good, TasksOK, IdsUnique
<1>5. WritersBind(q)
  BY <1>1, <1>2, <1>3 DEF Good, WritersBind
<1>6. Alive(q, T)
  <2>1. ASSUME NEW i \in Ids, q.pending[i] # NoBinding
        PROVE  \E u \in p.tasks : u.id = p.pending[i].id /\ u.ticket = i /\ u.op \in Binders
    BY <1>1, <2>1 DEF Good, Alive
  <2> QED
    BY <1>1, <1>2, <2>1 DEF Alive
<1>7. EditorHolds(q)
  <2>1. p.editing \in Ids \union {0}
    BY ShapeFields DEF Good
  <2> QED
    BY <1>1, <1>2, <2>1 DEF Good, EditorHolds
<1>8. MutationRuns(q, T)
  BY <1>2 DEF Good, MutationRuns, EditorOps
<1>9. QueueWaits(q) /\ HasText(q) /\ DraftRests(q)
  BY <1>2 DEF Good, QueueWaits, HasText, DraftRests, IsCurrentDrawer, Dirty
<1>10. Good(q, T)
  BY <1>1, <1>4, <1>5, <1>6, <1>7, <1>8, <1>9 DEF Good
<1>11. Follows(p, q)
  BY <1>2, FollowsSame
<1> QED
  BY <1>2, <1>10, <1>11 DEF q

(* A request of the editor gives the ticket and the fields back.           *)
LEMMA GoodFinish ==
  ASSUME NEW p, NEW t, Good(p, {t}), t.op \in EditorOps
  PROVE  LET q == FinishDrawerMutation(p, t) IN
         Good(q, {}) /\ Follows(p, q) /\ q.session = p.session /\ q.tasks = p.tasks
<1> DEFINE r == Release(p, t)
           m == IF r.mutation = t.id THEN 0 ELSE r.mutation
           q == [r EXCEPT !.mutation = m]
<1>1. /\ PageShape(r) /\ Changes(p, r, {"pending"})
      /\ \A i \in Ids : Held(r, i) => Held(p, i) /\ r.pending[i] = p.pending[i]
      /\ \A i \in Ids : p.pending[i].id # t.id => r.pending[i] = p.pending[i]
      /\ \A i \in Ids : r.pending[i] # NoBinding =>
           r.pending[i] = p.pending[i] /\ p.pending[i].id # t.id
      /\ \A i \in Ids : r.pending[i].session <= p.session
  BY ReleasedTicket DEF Binders
<1>2. FinishDrawerMutation(p, t) = q
  BY DEF FinishDrawerMutation
<1> HIDE DEF r, m
<1>3. Changes(r, q, {"mutation"}) /\ q.mutation = m
  BY <1>1 DEF PageShape, IsPage, PageFields, Changes
<1> HIDE DEF q
<1>4. m \in Nat /\ (m # 0 => m = r.mutation /\ m # t.id)
  BY <1>1, ShapeFields DEF m
<1>5. PageShape(q)
  BY <1>1, <1>3, <1>4, ChangedShape DEF FieldOK
<1>6. /\ q.tasks = p.tasks /\ q.session = p.session /\ q.serial = p.serial
      /\ r.mutation = p.mutation /\ q.editing = p.editing /\ q.editGen = p.editGen
      /\ q.queued = p.queued /\ q.draft = p.draft /\ q.base = p.base /\ q.pending = r.pending
  BY <1>1, <1>3 DEF Changes, PageFields
<1>7. \A u \in p.tasks : u.id # t.id /\ (u.op \in Binders => u.ticket \in Ids)
  BY DEF Good, IdsUnique, TasksOK, TaskOK, TaskShape
<1>8. TasksOK(q, {}) /\ IdsUnique(q, {})
  BY <1>6 DEF Good, TasksOK, IdsUnique
<1>9. WritersBind(q)
  BY <1>1, <1>6, <1>7 DEF Good, WritersBind
<1>10. Alive(q, {})
  <2>1. ASSUME NEW i \in Ids, q.pending[i] # NoBinding
        PROVE  \E u \in p.tasks : u.id = p.pending[i].id /\ u.ticket = i /\ u.op \in Binders
    BY <1>1, <1>6, <2>1 DEF Good, Alive
  <2> QED
    BY <1>1, <1>6, <2>1 DEF Alive
<1>11. MutationRuns(q, {})
  BY <1>3, <1>4, <1>6 DEF Good, MutationRuns
<1>12. EditorHolds(q)
  <2> SUFFICES ASSUME q.editing # 0, Held(q, q.editing)
               PROVE  q.mutation = q.pending[q.editing].id
    BY DEF EditorHolds
  <2>1. q.editing \in Ids /\ Held(r, q.editing)
    BY <1>5, <1>6, <1>3, ShapeFields DEF Held, Changes, PageFields
  <2>2. p.editing # 0 /\ Held(p, p.editing) /\ r.pending[p.editing] = p.pending[p.editing]
    BY <1>1, <1>6, <2>1
  <2>3. p.mutation = p.pending[p.editing].id
    BY <2>2 DEF Good, EditorHolds
  <2>4. r.pending[p.editing] # NoBinding
    <3>1. p.session # 0 /\ r.session = p.session
      BY <1>1, ShapeFields DEF Good, Changes, PageFields
    <3> QED
      BY <1>6, <2>1, <3>1 DEF Held, NoBinding
  <2>5. p.mutation # t.id
    BY <1>1, <1>6, <2>1, <2>3, <2>4
  <2> QED
    BY <1>3, <1>6, <2>2, <2>3, <2>5 DEF m
<1>13. QueueWaits(q) /\ HasText(q)
  BY <1>6 DEF Good, QueueWaits, HasText
<1>14. DraftRests(q)
  <2>1. \A u \in p.tasks : u.id = p.mutation => u.id = q.mutation
    BY <1>3, <1>6, <1>7 DEF m
  <2> QED
    BY <1>6, <2>1 DEF Good, DraftRests, IsCurrentDrawer, Dirty
<1>15. Good(q, {})
  BY <1>5, <1>8, <1>9, <1>10, <1>11, <1>12, <1>13, <1>14 DEF Good
<1>16. Follows(p, q)
  BY <1>6, FollowsSame
<1> QED
  BY <1>2, <1>6, <1>15, <1>16

-----------------------------------------------------------------------------
(* Functions that bind a ticket.                                           *)

(* r is the page p with the binding of ticket i; an editor's request also  *)
(* disables the fields.                                                    *)
LEMMA GoodBinding ==
  ASSUME NEW p, Good(p, {}), NEW i \in Ids, ~Held(p, i),
         NEW r, PageShape(r), Changes(p, r, {"pending", "mutation"}),
         r.pending = [p.pending EXCEPT ![i] = [id |-> p.serial + 1, session |-> p.session]],
         NEW w, Fresh(w), w.ticket = i, w.op \in Binders,
         \/ p.editing = 0 /\ r.mutation = p.mutation /\ w.op \notin EditorOps
         \/ /\ p.editing = i /\ p.mutation = 0 /\ r.mutation = p.serial + 1
            /\ w.op \in EditorOps /\ (w.op = "save" => w.keep = p.draft)
            /\ (w.op \in {"trash", "duplicate"} => ~Dirty(p))
  PROVE  Good(Send(r, w), {}) /\ Follows(p, Send(r, w)) /\ Send(r, w).session = p.session
<1> DEFINE q == Send(r, w)
           s == Sent(r, w)
           new == [id |-> p.serial + 1, session |-> p.session]
<1>1. /\ PageShape(q) /\ Changes(r, q, {"tasks", "serial"})
      /\ q.tasks = r.tasks \union {s} /\ q.serial = r.serial + 1
  BY SendFrame
<1>2. /\ TaskOK(s) /\ s.reply = NoReply /\ s.id = r.serial + 1 /\ s.session = r.session
      /\ s.sent = r.session /\ s.editor = r.editGen /\ s.op = w.op /\ s.ticket = i
      /\ s.keep = w.keep
  BY SentShape
<1> HIDE DEF q, s
<1>3. /\ q.tasks = p.tasks \union {s} /\ q.serial = p.serial + 1 /\ q.session = p.session
      /\ q.pending = r.pending /\ q.mutation = r.mutation /\ q.editing = p.editing
      /\ q.editGen = p.editGen /\ q.queued = p.queued /\ q.draft = p.draft /\ q.base = p.base
      /\ s.id = p.serial + 1 /\ s.session = p.session /\ s.sent = p.session
      /\ s.editor = p.editGen
  BY <1>1, <1>2 DEF Changes, PageFields
<1>4. p.serial \in Nat /\ p.session \in Nat /\ p.session # 0 /\ p.editGen \in Nat
      /\ p.pending \in [Ids -> Binding] /\ p.editing \in Ids \union {0} /\ p.mutation \in Nat
  BY ShapeFields DEF Good
<1>5. \A j \in Ids : q.pending[j] = IF j = i THEN new ELSE p.pending[j]
  BY <1>3, <1>4
<1>6. \A u \in p.tasks : u.id \in Nat /\ u.id <= p.serial /\ u.id # s.id
                        /\ (u.op \in Binders => u.ticket \in Ids)
  <2>1. \A u \in p.tasks : u.id \in Nat /\ u.id <= p.serial
                          /\ (u.op \in Binders => u.ticket \in Ids)
    BY DEF Good, TasksOK, TaskOK, TaskShape
  <2>2. \A n \in Nat : n <= p.serial => n # p.serial + 1
    BY <1>4
  <2> QED
    BY <1>3, <2>1, <2>2
<1>7. TasksOK(q, {})
  BY <1>2, <1>3, <1>4, <1>6 DEF Good, TasksOK
<1>8. IdsUnique(q, {})
  BY <1>3, <1>6 DEF Good, IdsUnique
<1>9. WritersBind(q)
  <2> SUFFICES ASSUME NEW u \in q.tasks, u.op \in Binders, u.url # "state",
                      u.session = q.session
               PROVE  q.pending[u.ticket] = [id |-> u.id, session |-> u.session]
    BY DEF WritersBind
  <2>1. CASE u = s
    BY <1>2, <1>3, <1>5, <2>1
  <2>2. CASE u # s
    <3>1. u \in p.tasks /\ u.ticket \in Ids
      BY <1>3, <1>6, <2>2
    <3>2. p.pending[u.ticket] = [id |-> u.id, session |-> u.session]
      BY <1>3, <3>1 DEF Good, WritersBind
    <3>3. u.ticket # i
      BY <1>3, <3>2 DEF Held
    <3> QED
      BY <1>5, <3>1, <3>2, <3>3
  <2> QED
    BY <2>1, <2>2
<1>10. Alive(q, {})
  <2> SUFFICES ASSUME NEW j \in Ids
               PROVE  /\ q.pending[j].session <= q.session
                      /\ q.pending[j] # NoBinding =>
                           \E u \in q.tasks :
                             u.id = q.pending[j].id /\ u.ticket = j /\ u.op \in Binders
    BY DEF Alive
  <2>1. CASE j = i
    BY <1>2, <1>3, <1>4, <1>5, <2>1
  <2>2. CASE j # i
    BY <1>3, <1>5, <2>2 DEF Good, Alive
  <2> QED
    BY <2>1, <2>2
<1>11. EditorHolds(q)
  BY <1>3, <1>5 DEF EditorHolds, Held
<1>12. MutationRuns(q, {})
  BY <1>2, <1>3 DEF Good, MutationRuns
<1>13. QueueWaits(q) /\ HasText(q)
  BY <1>3 DEF Good, QueueWaits, HasText
<1>14. DraftRests(q)
  <2> SUFFICES ASSUME NEW u \in q.tasks, u.op \in EditorOps, u.url # "state",
                      IsCurrentDrawer(q, u)
               PROVE  /\ q.mutation = u.id
                      /\ u.op = "save" => q.draft = u.keep
                      /\ u.op \in {"trash", "duplicate"} => ~Dirty(q)
    BY DEF DraftRests
  <2>1. CASE u = s
    BY <1>2, <1>3, <2>1 DEF Dirty
  <2>2. CASE u # s
    <3>1. u \in p.tasks /\ IsCurrentDrawer(p, u)
      BY <1>3, <2>2 DEF IsCurrentDrawer
    <3>2. /\ p.mutation = u.id /\ (u.op = "save" => p.draft = u.keep)
          /\ u.op \in {"trash", "duplicate"} => ~Dirty(p)
      BY <3>1 DEF Good, DraftRests
    <3>3. u.id # 0
      BY <3>1 DEF Good, TasksOK, TaskOK, TaskShape
    <3> QED
      BY <1>3, <3>2, <3>3 DEF Dirty
  <2> QED
    BY <2>1, <2>2
<1>15. Good(q, {})
  BY <1>1, <1>7, <1>8, <1>9, <1>10, <1>11, <1>12, <1>13, <1>14 DEF Good
<1>16. Follows(p, q)
  BY <1>2, <1>3, FollowsSame
<1> QED
  BY <1>3, <1>15, <1>16 DEF q

LEMMA GoodBegin ==
  ASSUME NEW p, Good(p, {}), CanMutateDrawer(p), NEW t,
         Fresh([t EXCEPT !.ticket = p.editing, !.board = p.board]), IsTask(t),
         t.op \in EditorOps, t.op = "save" => t.keep = p.draft,
         t.op \in {"trash", "duplicate"} => ~Dirty(p)
  PROVE  LET q == BeginDrawerMutation(p, t) IN
         Good(q, {}) /\ Follows(p, q) /\ q.session = p.session
<1> DEFINE new == [id |-> p.serial + 1, session |-> p.session]
           pend == [p.pending EXCEPT ![p.editing] = new]
           r == [p EXCEPT !.mutation = p.serial + 1, !.pending = pend]
           w == [t EXCEPT !.ticket = p.editing, !.board = p.board]
<1>1. BeginDrawerMutation(p, t) = Send(r, w)
  <2>1. [p EXCEPT !.mutation = p.serial + 1, !.pending[p.editing] = new] = r
    BY DEF Good, PageShape, IsPage, PageFields
  <2> QED
    BY <2>1 DEF BeginDrawerMutation
<1>2. p.editing \in Ids /\ p.mutation = 0 /\ ~Held(p, p.editing)
  BY ShapeFields DEF Good, CanMutateDrawer
<1>3. p.pending \in [Ids -> Binding] /\ new \in Binding /\ p.serial + 1 \in Nat
  BY ShapeFields DEF Good, Binding
<1>4. pend \in [Ids -> Binding]
  BY <1>2, <1>3
<1>5. Changes(p, r, {"pending", "mutation"}) /\ r.pending = pend /\ r.mutation = p.serial + 1
  BY DEF Good, PageShape, IsPage, PageFields, Changes
<1>6. w.op = t.op /\ w.ticket = p.editing /\ w.keep = t.keep /\ Fresh(w)
  BY DEF IsTask, TaskFields
<1> HIDE DEF r, w
<1>7. PageShape(r)
  BY <1>3, <1>4, <1>5, ChangedShape DEF Good, FieldOK
<1>8. Good(Send(r, w), {}) /\ Follows(p, Send(r, w)) /\ Send(r, w).session = p.session
  BY <1>2, <1>5, <1>6, <1>7, GoodBinding DEF Binders
<1> QED
  BY <1>1, <1>8

LEMMA GoodBindTicket ==
  ASSUME NEW p, Good(p, {}), p.editing = 0, NEW i \in Ids, ~Held(p, i), NEW t,
         Fresh([t EXCEPT !.ticket = i, !.board = p.board]), IsTask(t), t.op \in {"move", "epic"}
  PROVE  LET q == BindTicket(p, i, t) IN
         Good(q, {}) /\ Follows(p, q) /\ q.session = p.session
<1> DEFINE new == [id |-> p.serial + 1, session |-> p.session]
           pend == [p.pending EXCEPT ![i] = new]
           r == [p EXCEPT !.pending = pend]
           w == [t EXCEPT !.ticket = i, !.board = p.board]
<1>1. BindTicket(p, i, t) = Send(r, w)
  <2>1. [p EXCEPT !.pending[i] = new] = r
    BY DEF Good, PageShape, IsPage, PageFields
  <2> QED
    BY <2>1 DEF BindTicket
<1>2. p.pending \in [Ids -> Binding] /\ new \in Binding
  BY ShapeFields DEF Good, Binding
<1>3. pend \in [Ids -> Binding]
  BY <1>2
<1>4. Changes(p, r, {"pending", "mutation"}) /\ r.pending = pend /\ r.mutation = p.mutation
      /\ Changes(p, r, {"pending"})
  BY DEF Good, PageShape, IsPage, PageFields, Changes
<1>5. w.op = t.op /\ w.ticket = i /\ Fresh(w)
  BY DEF IsTask, TaskFields
<1> HIDE DEF r, w
<1>6. PageShape(r)
  BY <1>3, <1>4, ChangedShape DEF Good, FieldOK
<1>7. Good(Send(r, w), {}) /\ Follows(p, Send(r, w)) /\ Send(r, w).session = p.session
  BY <1>4, <1>5, <1>6, GoodBinding DEF Binders, EditorOps
<1> QED
  BY <1>1, <1>7

-----------------------------------------------------------------------------
(* Loading.                                                                *)

(* The resumed function u now awaits load().                               *)
LEMMA GoodLoad ==
  ASSUME NEW p, NEW t, Good(p, {t}), NEW u, TaskShape(u), u.op \in LoadOnly \union Binders,
         u.id = t.id, u.op = t.op, u.session <= p.session, u.editor <= p.editGen,
         t.op \in Binders => u.ticket = t.ticket
  PROVE  LET q == Load(p, u) IN
         Good(q, {}) /\ Follows(p, q) /\ q.session = p.session
<1> DEFINE m == [p EXCEPT !.loadGen = p.loadGen + 1]
           r == IF Loading(m) /\ m.board # 0 THEN RenderView(m) ELSE m
           w == [u EXCEPT !.url = "state", !.ask = r.selected, !.generation = r.loadGen]
<1>1. Load(p, u) = SendNext(r, w)
  BY DEF Load
<1>2. Changes(p, m, {"loadGen"}) /\ m.loadGen = p.loadGen + 1
  BY DEF Good, PageShape, IsPage, PageFields, Changes
<1> HIDE DEF m
<1>3. PageShape(m)
  BY <1>2, ChangedShape, ShapeFields DEF Good, FieldOK
<1>4. {"loadGen"} \intersect (Core \ {"queued"}) = {} /\ m.queued = p.queued
      /\ m.session = p.session /\ m.editGen = p.editGen
  BY <1>2 DEF Core, Changes, PageFields
<1>5. Good(m, {t}) /\ Follows(p, m)
  BY <1>2, <1>3, <1>4, GoodSame, FollowsFields
<1>6. Good(r, {t}) /\ Follows(p, r) /\ r.session = p.session /\ r.editGen = p.editGen
  <2> DEFINE v == RenderView(m)
  <2>1. Good(v, {t}) /\ Follows(m, v) /\ Changes(m, v, {"historyGen", "history", "tasks", "serial"})
    BY <1>5, GoodRenderView
  <2>2. v.session = m.session /\ v.editGen = m.editGen
    BY <2>1 DEF Changes, PageFields
  <2>3. Follows(p, v)
    BY <1>5, <2>1, FollowsCompose DEF Good
  <2> QED
    BY <1>4, <1>5, <2>1, <2>2, <2>3
<1> HIDE DEF r
<1>7. r.selected \in BoardIds \union {0} /\ r.loadGen \in Nat
  BY <1>6, ShapeFields DEF Good
<1>8. /\ IsTask(w) /\ w.url = "state" /\ w.ask = r.selected /\ w.generation = r.loadGen
      /\ \A f \in TaskFields \ {"url", "ask", "generation"} : w[f] = u[f]
  BY DEF TaskShape, IsTask, TaskFields
<1> HIDE DEF w
<1>9. /\ w.op = u.op /\ w.ticket = u.ticket /\ w.row = u.row /\ w.id = u.id
      /\ w.board = u.board /\ w.keep = u.keep /\ w.todo = u.todo /\ w.made = u.made
      /\ w.session = u.session /\ w.editor = u.editor /\ w.sent = u.sent /\ w.as = u.as
  BY <1>8 DEF TaskFields
<1>10. TaskShape(w)
  BY <1>7, <1>8, <1>9 DEF TaskShape
<1>11. Good(SendNext(r, w), {}) /\ Follows(r, SendNext(r, w)) /\ SendNext(r, w).session = r.session
  BY <1>6, <1>8, <1>9, <1>10, GoodSendNext
<1>12. Follows(p, SendNext(r, w))
  BY <1>6, <1>11, FollowsCompose DEF Good
<1> QED
  BY <1>1, <1>6, <1>11, <1>12

LEMMA GoodLoadNow ==
  ASSUME NEW p, Good(p, {})
  PROVE  LET q == LoadNow(p) IN
         Good(q, {}) /\ Follows(p, q) /\ q.session = p.session
<1> DEFINE r == [p EXCEPT !.serial = p.serial + 1]
           w == Task("load", "state")
           t == [w EXCEPT !.id = p.serial + 1, !.session = p.session]
<1>1. LoadNow(p) = Load(r, t)
  BY DEF LoadNow
<1>2. Changes(p, r, {"serial"}) /\ r.serial = p.serial + 1
  BY DEF Good, PageShape, IsPage, PageFields, Changes
<1> HIDE DEF r
<1>3. p.serial \in Nat /\ p.session \in Nat /\ p.editGen \in Nat
  BY ShapeFields DEF Good
<1>4. PageShape(r)
  BY <1>2, <1>3, ChangedShape DEF Good, FieldOK
<1>5. /\ r.tasks = p.tasks /\ r.pending = p.pending /\ r.session = p.session
      /\ r.mutation = p.mutation /\ r.editing = p.editing /\ r.editGen = p.editGen
      /\ r.queued = p.queued /\ r.draft = p.draft /\ r.base = p.base
  BY <1>2 DEF Changes, PageFields
<1>6. /\ IsTask(w) /\ w.op = "load" /\ w.url = "state" /\ w.reply = NoReply
      /\ w.session = 0 /\ w.editor = 0 /\ w.sent = 0 /\ w.as = 0 /\ w.made = 0
      /\ w.generation = 0 /\ w.ticket = 0 /\ w.row = NoRow /\ w.board = 0
      /\ w.keep = Blank /\ w.todo = << >> /\ w.ask = 0
  BY TaskStarts DEF w
<1> HIDE DEF w
<1>7. /\ IsTask(t) /\ t.id = p.serial + 1 /\ t.session = p.session
      /\ \A f \in TaskFields \ {"id", "session"} : t[f] = w[f]
  BY <1>6 DEF IsTask, TaskFields
<1> HIDE DEF t
<1>8. /\ t.op = "load" /\ t.url = "state" /\ t.reply = NoReply
      /\ t.editor = 0 /\ t.sent = 0 /\ t.as = 0 /\ t.made = 0
      /\ t.generation = 0 /\ t.ticket = 0 /\ t.row = NoRow /\ t.board = 0
      /\ t.keep = Blank /\ t.todo = << >> /\ t.ask = 0
  BY <1>6, <1>7 DEF TaskFields
<1>9. TaskShape(t)
  BY <1>3, <1>7, <1>8, Empties DEF TaskShape, LoadOnly, Binders, EditorOps
<1>10. ReplyOK(t.url, t.reply)
  BY <1>8 DEF ReplyOK, NoReply
<1>11. \A u \in p.tasks : u.id \in Nat /\ u.id <= p.serial
  BY DEF Good, TasksOK, TaskOK, TaskShape
<1>12. \A u \in p.tasks : u.id # t.id /\ u.id <= r.serial
  BY <1>2, <1>3, <1>7, <1>11
<1>13. TasksOK(r, {t}) /\ IdsUnique(r, {t})
  <2>1. TasksOK(r, {t})
    BY <1>2, <1>3, <1>5, <1>7, <1>8, <1>9, <1>10, <1>12 DEF Good, TasksOK, TaskOK
  <2>2. IdsUnique(r, {t})
    BY <1>5, <1>12 DEF Good, IdsUnique
  <2> QED
    BY <2>1, <2>2
<1>14. WritersBind(r) /\ Alive(r, {t}) /\ MutationRuns(r, {t})
  BY <1>5 DEF Good, WritersBind, Alive, MutationRuns
<1>15. EditorHolds(r) /\ QueueWaits(r) /\ HasText(r) /\ DraftRests(r)
  BY <1>5 DEF Good, EditorHolds, QueueWaits, HasText, DraftRests, Held, IsCurrentDrawer, Dirty
<1>16. Good(r, {t})
  BY <1>4, <1>13, <1>14, <1>15 DEF Good
<1>17. Follows(p, r)
  BY <1>5, FollowsSame
<1>18. Good(Load(r, t), {}) /\ Follows(r, Load(r, t)) /\ Load(r, t).session = r.session
  BY <1>3, <1>5, <1>7, <1>8, <1>9, <1>16, GoodLoad DEF LoadOnly, Binders, EditorOps
<1>19. Follows(p, Load(r, t))
  BY <1>16, <1>17, <1>18, FollowsCompose DEF Good
<1> QED
  BY <1>1, <1>5, <1>18, <1>19

LEMMA GoodLoadSucceeds ==
  ASSUME NEW p, NEW T, Good(p, T), NEW r, r.user \in Users, r.board \in BoardIds \union {0},
         IsRows(r.rows)
  PROVE  LET q == LoadSucceeds(p, r) IN Good(q, T) /\ Follows(p, q) /\ q.session = p.session
<1> DEFINE m == [p EXCEPT !.me = r.user, !.board = r.board, !.rows = r.rows, !.notes = r.user,
                          !.selected = r.board, !.panel = FALSE]
           F == {"me", "board", "rows", "notes", "selected", "panel"}
<1>1. LoadSucceeds(p, r) = Render(m)
  BY DEF LoadSucceeds
<1>2. /\ Changes(p, m, F) /\ m.me = r.user /\ m.board = r.board /\ m.rows = r.rows
      /\ m.notes = r.user /\ m.selected = r.board
  BY DEF Good, PageShape, IsPage, PageFields, Changes
<1> HIDE DEF m
<1>3. PageShape(m)
  BY <1>2, ChangedShape DEF Good, FieldOK
<1>4. F \intersect (Core \ {"queued"}) = {} /\ m.queued = p.queued /\ m.session = p.session
  BY <1>2 DEF Core, Changes, PageFields
<1>5. Good(m, T) /\ Follows(p, m)
  BY <1>2, <1>3, <1>4, GoodSame, FollowsFields
<1>6. Good(Render(m), T) /\ Follows(m, Render(m)) /\ Render(m).session = m.session
  BY <1>5, GoodRender
<1>7. Follows(p, Render(m))
  BY <1>5, <1>6, FollowsCompose DEF Good
<1> QED
  BY <1>1, <1>4, <1>6, <1>7

LEMMA GoodLoadFails ==
  ASSUME NEW p, NEW T, Good(p, T)
  PROVE  LET q == LoadFails(p) IN Good(q, T) /\ Follows(p, q)
<1> DEFINE m == [p EXCEPT !.selected = p.board, !.queued = 0]
           r == IF p.me # 0 /\ p.selected # p.board THEN Render(m) ELSE p
<1>1. LoadFails(p) = IF r.me = 0 THEN ShowLoggedOut(r) ELSE r
  BY DEF LoadFails
<1>2. Changes(p, m, {"selected", "queued"}) /\ m.selected = p.board /\ m.queued = 0
  BY DEF Good, PageShape, IsPage, PageFields, Changes
<1> HIDE DEF m
<1>3. PageShape(m)
  BY <1>2, ShapeFields, ChangedShape DEF Good, FieldOK
<1>4. Good(m, T) /\ Follows(p, m)
  BY <1>2, <1>3, GoodSame, FollowsFields DEF Core
<1>5. Good(Render(m), T) /\ Follows(m, Render(m))
  BY <1>4, GoodRender
<1>6. Follows(p, Render(m))
  BY <1>4, <1>5, FollowsCompose DEF Good
<1>7. Good(r, T) /\ Follows(p, r)
  <2>1. Follows(p, p)
    BY DEF Follows
  <2> QED
    BY <1>5, <1>6, <2>1
<1> HIDE DEF r
<1>8. Good(ShowLoggedOut(r), T) /\ Follows(r, ShowLoggedOut(r))
  BY <1>7, GoodLoggedOut
<1>9. Follows(p, ShowLoggedOut(r))
  BY <1>7, <1>8, FollowsCompose DEF Good
<1> QED
  BY <1>1, <1>7, <1>8, <1>9

LEMMA GoodLoadReturns ==
  ASSUME NEW p, NEW T, Good(p, T), NEW t, TaskOK(t), t.url = "state", t.reply.status # "none"
  PROVE  LET q == LoadReturns(p, t) IN Good(q, T) /\ Follows(p, q)
<1>1. t.reply.status \in {"ok", "denied", "failed"}
  BY DEF TaskOK, ReplyOK
<1>2. CASE ~LoadIsCurrent(p, t)
  <2>1. Follows(p, p)
    BY DEF Follows
  <2> QED
    BY <1>2, <2>1 DEF LoadReturns
<1>3. CASE LoadIsCurrent(p, t) /\ t.reply.status = "ok"
  <2>1. t.reply.user \in Users /\ t.reply.board \in BoardIds \union {0} /\ IsRows(t.reply.rows)
    BY <1>3 DEF TaskOK, ReplyOK
  <2>2. LoadReturns(p, t) = LoadSucceeds(p, t.reply)
    BY <1>3 DEF LoadReturns
  <2> QED
    BY <2>1, <2>2, GoodLoadSucceeds
<1>4. CASE LoadIsCurrent(p, t) /\ t.reply.status = "denied"
  <2>1. LoadReturns(p, t) = ShowLoginRequired(p)
    BY <1>4 DEF LoadReturns
  <2> QED
    BY <2>1, GoodLoginRequired
<1>5. CASE LoadIsCurrent(p, t) /\ t.reply.status = "failed"
  <2>1. LoadReturns(p, t) = LoadFails(p)
    BY <1>5 DEF LoadReturns
  <2> QED
    BY <2>1, GoodLoadFails
<1> QED
  BY <1>1, <1>2, <1>3, <1>4, <1>5

LEMMA GoodOpenCopy ==
  ASSUME NEW p, NEW T, Good(p, T), NEW t
  PROVE  LET q == OpenCopy(p, t) IN Good(q, T) /\ Follows(p, q)
<1> DEFINE q == OpenEditor(p, t.made)
<1>1. CASE OpenCopy(p, t) = p
  BY <1>1 DEF Follows
<1>2. CASE p.editing = 0 /\ CanOpen(p, t.made) /\ OpenCopy(p, t) = q
  <2>1. t.made \in DOMAIN p.rows /\ ~Held(p, t.made) /\ PageShape(p)
    BY <1>2 DEF CanOpen, Good
  <2>2. /\ PageShape(q)
        /\ Changes(p, q, {"editGen", "editing", "clone", "mutation", "draft", "base", "queued"})
        /\ q.editGen = p.editGen + 1 /\ q.editing = t.made /\ q.mutation = 0
        /\ q.draft = q.base /\ q.draft.text # 0 /\ q.queued = 0
    BY <2>1, OpenEditorFrame
  <2> HIDE DEF q
  <2>3. Good(q, T)
    BY <2>1, <2>2, GoodNewEditor
  <2>4. Typed(p) = {} /\ Typed(q) = {}
    BY <1>2, <2>2 DEF Typed
  <2>5. q.tasks = p.tasks /\ q.session = p.session
    BY <2>2 DEF Changes, PageFields
  <2>6. Follows(p, q)
    BY <2>4, <2>5 DEF Follows
  <2> QED
    BY <1>2, <2>3, <2>6
<1> QED
  BY <1>1, <1>2 DEF OpenCopy

LEMMA GoodDenied ==
  ASSUME NEW p, NEW T, Good(p, T), NEW t, NEW current
  PROVE  LET q == Denied(p, t, current) IN
         /\ Good(q, T) /\ Follows(p, q) /\ q.tasks = p.tasks
         /\ q = p \/ q.session = p.session + 1
<1>1. Follows(p, p)
  BY DEF Follows
<1> QED
  BY <1>1, GoodLoginRequired DEF Denied

-----------------------------------------------------------------------------
(* The handlers: each leaves a good page, answers nothing itself, and      *)
(* loses no input that is not stored.                                      *)

DraftStep(p, q, accepted) ==
  \/ q.session = p.session /\ Typed(p) \subseteq Typed(q)
  \/ q.session = p.session /\ Typed(q) \subseteq Typed(p) /\ Typed(p) \ Typed(q) \subseteq accepted
  \/ q.session > p.session /\ Typed(q) \in {Typed(p), {}}

Handled(p, q, accepted) ==
  /\ Good(q, {})
  /\ \A u \in q.tasks : u \in p.tasks \/ u.reply = NoReply
  /\ DraftStep(p, q, accepted)

(* Follows, for a page whose function has been taken from the tasks.       *)
LEMMA HandledBy ==
  ASSUME NEW p, NEW e, NEW q, NEW accepted, e.tasks \subseteq p.tasks, e.session = p.session,
         Typed(e) = Typed(p), Follows(e, q), Good(q, {})
  PROVE  Handled(p, q, accepted)
BY DEF Handled, Follows, DraftStep

LEMMA Resumed ==
  ASSUME NEW p, Good(p, {}), NEW t \in p.tasks
  PROVE  LET e == End(p, t) IN
         /\ Good(e, {t}) /\ e.tasks \subseteq p.tasks /\ e.session = p.session
         /\ Typed(e) = Typed(p) /\ e.editGen = p.editGen
<1> DEFINE e == End(p, t)
<1>1. PageShape(e) /\ Changes(p, e, {"tasks"}) /\ e.tasks = p.tasks \ {t}
  BY EndFrame DEF Good
<1>2. Good(e, {t})
  BY GoodEnd
<1> HIDE DEF e
<1>3. e.session = p.session /\ e.editing = p.editing /\ e.draft = p.draft /\ e.base = p.base
      /\ e.editGen = p.editGen
  BY <1>1 DEF Changes, PageFields
<1> QED
  BY <1>1, <1>2, <1>3 DEF e, Typed

(* A function is resumed and, if the answer says so, its session ends.     *)
LEMMA ResumedDenied ==
  ASSUME NEW p, Good(p, {}), NEW t \in p.tasks, NEW current
  PROVE  LET e == End(Denied(p, t, current), t) IN
         /\ Good(e, {t}) /\ e.tasks \subseteq p.tasks /\ e.session >= p.session
         /\ \/ e.session = p.session /\ Typed(e) = Typed(p)
            \/ e.session > p.session /\ Typed(e) \in {Typed(p), {}}
<1> DEFINE d == Denied(p, t, current)
           e == End(d, t)
<1>1. /\ Good(d, {}) /\ Follows(p, d) /\ d.tasks = p.tasks
      /\ d = p \/ d.session = p.session + 1
  BY GoodDenied
<1> HIDE DEF d
<1>2. t \in d.tasks
  BY <1>1
<1>3. /\ Good(e, {t}) /\ e.tasks \subseteq d.tasks /\ e.session = d.session
      /\ Typed(e) = Typed(d)
  BY <1>1, <1>2, Resumed
<1> HIDE DEF e
<1>4. p.session \in Nat
  BY ShapeFields DEF Good
<1> QED
  BY <1>1, <1>3, <1>4 DEF Follows, d, e

(* The same, going on from there.                                          *)
LEMMA HandledDenied ==
  ASSUME NEW p, NEW e, NEW q, NEW accepted, e.tasks \subseteq p.tasks, PageShape(p),
         PageShape(e), e.session >= p.session,
         \/ e.session = p.session /\ Typed(e) = Typed(p)
         \/ e.session > p.session /\ Typed(e) \in {Typed(p), {}},
         Follows(e, q), Good(q, {})
  PROVE  Handled(p, q, accepted)
<1>1. p.session \in Nat /\ e.session \in Nat /\ q.session \in Nat
  BY ShapeFields DEF Good
<1>2. \A u \in q.tasks : u \in p.tasks \/ u.reply = NoReply
  BY DEF Follows
<1>3. CASE e.session = p.session /\ Typed(e) = Typed(p)
  BY <1>2, <1>3 DEF Handled, DraftStep, Follows
<1>4. CASE e.session > p.session /\ Typed(e) \in {Typed(p), {}}
  <2>1. q.session > p.session
    BY <1>1, <1>4 DEF Follows
  <2>2. Typed(q) \in {Typed(p), {}}
    BY <1>4 DEF Follows
  <2> QED
    BY <1>2, <2>1, <2>2 DEF Handled, DraftStep
<1> QED
  BY <1>3, <1>4

LEMMA FollowsItself ==
  ASSUME NEW p
  PROVE  Follows(p, p)
BY DEF Follows

(* What is known of a function under way.                                  *)
LEMMA UnderWay ==
  ASSUME NEW p, NEW T, Good(p, T), NEW t \in p.tasks \union T
  PROVE  /\ TaskOK(t) /\ TaskShape(t) /\ ReplyOK(t.url, t.reply)
         /\ t.session <= p.session /\ t.editor <= p.editGen /\ t.session \in Nat
         /\ t.editor \in Nat /\ (t.op \in Binders => t.ticket \in Ids)
BY DEF Good, TasksOK, TaskOK, TaskShape

-----------------------------------------------------------------------------
(* Functions that wait for their load().                                   *)

LEMMA LoadHandled ==
  ASSUME NEW p, Good(p, {}), NEW t \in p.tasks, t.url = "state", t.reply.status # "none",
         NEW accepted
  PROVE  Handled(p, AfterLoad(p, t), accepted)
<1> DEFINE r == LoadReturns(p, t)
           e == End(r, t)
<1>1. TaskOK(t)
  BY UnderWay
<1>2. Good(r, {}) /\ Follows(p, r)
  BY <1>1, GoodLoadReturns
<1> HIDE DEF r
<1>3. t \in r.tasks
  BY <1>2 DEF Follows
<1>4. /\ Good(e, {t}) /\ e.tasks \subseteq r.tasks /\ e.session = r.session
      /\ Typed(e) = Typed(r)
  BY <1>2, <1>3, Resumed
<1> HIDE DEF e
<1>5. ASSUME NEW q, Good(q, {}), Follows(e, q)
      PROVE  Handled(p, q, accepted)
  <2>1. p.session \in Nat /\ r.session \in Nat /\ q.session \in Nat
    BY <1>2, <1>5, ShapeFields DEF Good
  <2>2. Handled(r, q, accepted)
    BY <1>4, <1>5, HandledBy
  <2>3. \A u \in q.tasks : u \in p.tasks \/ u.reply = NoReply
    BY <1>2, <2>2 DEF Handled, Follows
  <2>4. \/ q.session = r.session /\ Typed(q) = Typed(r)
        \/ q.session > r.session /\ Typed(q) \in {Typed(r), {}}
    BY <1>4, <1>5 DEF Follows
  <2>5. DraftStep(p, q, accepted)
    <3>1. CASE r.session = p.session /\ Typed(r) = Typed(p)
      BY <2>4, <3>1 DEF DraftStep
    <3>2. CASE r.session > p.session /\ Typed(r) \in {Typed(p), {}}
      <4>1. q.session > p.session
        BY <2>1, <2>4, <3>2
      <4>2. Typed(q) \in {Typed(p), {}}
        BY <2>4, <3>2
      <4> QED
        BY <4>1, <4>2 DEF DraftStep
    <3> QED
      BY <1>2, <3>1, <3>2 DEF Follows
  <2> QED
    BY <1>5, <2>3, <2>5 DEF Handled
<1>6. t.op \in LoadOnly \union Binders
  BY <1>1 DEF TaskOK, TaskShape, Calls
<1>7. CASE t.op \in LoadOnly
  <2>0. t.op \notin {"save", "comment"} /\ t.op \notin {"trash", "duplicate"}
        /\ t.op \notin {"move", "epic"}
    BY <1>7 DEF LoadOnly
  <2>1. AfterLoad(p, t) = e
    BY <1>7, <2>0 DEF AfterLoad, r, e
  <2>2. Good(e, {})
    BY <1>4, <1>7, GoodDone DEF LoadOnly, Binders, EditorOps
  <2> QED
    BY <1>5, <2>1, <2>2, FollowsItself
<1>8. CASE t.op \in {"save", "comment"}
  <2>1. AfterLoad(p, t) = FinishDrawerMutation(e, t)
    BY <1>8 DEF AfterLoad, LoadOnly, r, e
  <2>2. Good(FinishDrawerMutation(e, t), {}) /\ Follows(e, FinishDrawerMutation(e, t))
    BY <1>4, <1>8, GoodFinish DEF EditorOps
  <2> QED
    BY <1>5, <2>1, <2>2
<1>9. CASE t.op \in {"trash", "duplicate"}
  <2> DEFINE o == OpenCopy(e, t)
             q == FinishDrawerMutation(o, t)
  <2>1. AfterLoad(p, t) = q
    BY <1>9 DEF AfterLoad, LoadOnly, r, e
  <2>2. Good(o, {t}) /\ Follows(e, o)
    BY <1>4, GoodOpenCopy
  <2> HIDE DEF o
  <2>3. Good(q, {}) /\ Follows(o, q)
    BY <1>9, <2>2, GoodFinish DEF EditorOps
  <2> HIDE DEF q
  <2>4. Follows(e, q)
    BY <1>4, <2>2, <2>3, FollowsCompose DEF Good
  <2> QED
    BY <1>5, <2>1, <2>3, <2>4
<1>10. CASE t.op \in {"move", "epic"}
  <2>1. AfterLoad(p, t) = Release(e, t)
    BY <1>10 DEF AfterLoad, LoadOnly, r, e
  <2>2. Good(Release(e, t), {}) /\ Follows(e, Release(e, t))
    BY <1>4, <1>10, GoodRelease
  <2> QED
    BY <1>5, <2>1, <2>2
<1> QED
  BY <1>6, <1>7, <1>8, <1>9, <1>10 DEF Binders, EditorOps

-----------------------------------------------------------------------------
(* The editor's requests.                                                  *)

(* A request of the editor on the screen is answered: its function alone   *)
(* decides what becomes of the draft.                                      *)
LEMMA GoodDraft ==
  ASSUME NEW p, Good(p, {}), NEW t \in p.tasks, t.op \in EditorOps, t.url # "state",
         IsCurrentDrawer(p, t), NEW e, PageShape(e), Changes(p, e, {"tasks", "draft", "base"}),
         e.tasks = p.tasks \ {t}, e.draft.text = p.draft.text
  PROVE  Good(e, {t})
<1>1. /\ e.session = p.session /\ e.pending = p.pending /\ e.serial = p.serial
      /\ e.mutation = p.mutation /\ e.editing = p.editing /\ e.editGen = p.editGen
      /\ e.queued = p.queued /\ e.tasks \union {t} = p.tasks
  BY DEF Changes, PageFields
<1>2. p.mutation = t.id
  BY DEF Good, DraftRests
<1>3. \A u \in e.tasks : u \in p.tasks /\ u.id # t.id
  BY DEF Good, IdsUnique
<1>4. TasksOK(e, {t}) /\ IdsUnique(e, {t}) /\ Alive(e, {t}) /\ MutationRuns(e, {t})
  BY <1>1, <1>3 DEF Good, TasksOK, IdsUnique, Alive, MutationRuns
<1>5. WritersBind(e) /\ EditorHolds(e) /\ QueueWaits(e) /\ HasText(e)
  BY <1>1, <1>3 DEF Good, WritersBind, EditorHolds, QueueWaits, HasText, Held
<1>6. DraftRests(e)
  <2>1. \A u \in e.tasks : u.op \in EditorOps /\ u.url # "state" /\ IsCurrentDrawer(e, u) =>
          p.mutation = u.id
    BY <1>1, <1>3 DEF Good, DraftRests, IsCurrentDrawer
  <2> QED
    BY <1>2, <1>3, <2>1 DEF DraftRests
<1> QED
  BY <1>4, <1>5, <1>6 DEF Good

(* The three ends of an editor's request.                                  *)
LEMMA EditorLoads ==
  ASSUME NEW e, NEW t, Good(e, {t}), t.op \in EditorOps
  PROVE  LET q == Load(e, t) IN Good(q, {}) /\ Follows(e, q) /\ q.session = e.session
<1>1. /\ TaskShape(t) /\ t.session <= e.session /\ t.editor <= e.editGen
      /\ t.op \in LoadOnly \union Binders
  BY UnderWay DEF Binders
<1> QED
  BY <1>1, GoodLoad

LEMMA EditorEnds ==
  ASSUME NEW p, Good(p, {}), NEW t \in p.tasks, t.op \in EditorOps, NEW accepted
  PROVE  /\ Handled(p, FinishDrawerMutation(End(p, t), t), accepted)
         /\ Handled(p, FinishDrawerMutation(End(Denied(p, t, TRUE), t), t), accepted)
<1>1. Handled(p, FinishDrawerMutation(End(p, t), t), accepted)
  <2> DEFINE e == End(p, t)
  <2>1. /\ Good(e, {t}) /\ e.tasks \subseteq p.tasks /\ e.session = p.session
        /\ Typed(e) = Typed(p)
    BY Resumed
  <2> HIDE DEF e
  <2>2. Good(FinishDrawerMutation(e, t), {}) /\ Follows(e, FinishDrawerMutation(e, t))
    BY <2>1, GoodFinish
  <2>3. Handled(p, FinishDrawerMutation(e, t), accepted)
    BY <2>1, <2>2, HandledBy
  <2> QED
    BY <2>3 DEF e
<1>2. Handled(p, FinishDrawerMutation(End(Denied(p, t, TRUE), t), t), accepted)
  <2> DEFINE e == End(Denied(p, t, TRUE), t)
  <2>1. /\ Good(e, {t}) /\ e.tasks \subseteq p.tasks /\ e.session >= p.session
        /\ \/ e.session = p.session /\ Typed(e) = Typed(p)
           \/ e.session > p.session /\ Typed(e) \in {Typed(p), {}}
    BY ResumedDenied
  <2> HIDE DEF e
  <2>2. Good(FinishDrawerMutation(e, t), {}) /\ Follows(e, FinishDrawerMutation(e, t))
    BY <2>1, GoodFinish
  <2>3. Handled(p, FinishDrawerMutation(e, t), accepted)
    BY <2>1, <2>2, HandledDenied DEF Good
  <2> QED
    BY <2>3 DEF e
<1> QED
  BY <1>1, <1>2

(* Loading after the draft was reduced by what is stored.                  *)
LEMMA EditorStored ==
  ASSUME NEW p, Good(p, {}), NEW t \in p.tasks, t.op \in EditorOps, NEW accepted,
         NEW e, Good(e, {t}), e.tasks \subseteq p.tasks, e.session = p.session,
         \/ Typed(p) \subseteq Typed(e)
         \/ Typed(e) \subseteq Typed(p) /\ Typed(p) \ Typed(e) \subseteq accepted
  PROVE  Handled(p, Load(e, t), accepted)
<1> DEFINE q == Load(e, t)
<1>1. Good(q, {}) /\ Follows(e, q) /\ q.session = e.session
  BY EditorLoads
<1> HIDE DEF q
<1>2. p.session \in Nat
  BY ShapeFields DEF Good
<1>3. Typed(q) = Typed(e) /\ \A u \in q.tasks : u \in p.tasks \/ u.reply = NoReply
  BY <1>1, <1>2 DEF Follows
<1> QED
  BY <1>1, <1>3 DEF Handled, DraftStep, q

LEMMA SaveHandled ==
  ASSUME NEW p, Good(p, {}), NEW t \in p.tasks, t.op = "save", t.url # "state", NEW accepted,
         Succeeded(t) => t.keep.text \in accepted
  PROVE  Handled(p, SaveDrawer(p, t), accepted)
<1> DEFINE saved == [t.keep EXCEPT !.comment = 0]
           r == [p EXCEPT !.base = saved]
           q == IF ~IsCurrentDrawer(p, t) THEN p
                ELSE IF p.draft = saved THEN ResetDrawer(p) ELSE r
<1>1. CASE Succeeded(t) /\ CurrentSessionGuard(p, t)
  <2>1. SaveDrawer(p, t) = Load(End(q, t), t)
    BY <1>1 DEF SaveDrawer
  <2>2. CASE ~IsCurrentDrawer(p, t)
    <3>1. q = p
      BY <2>2
    <3>2. /\ Good(End(p, t), {t}) /\ End(p, t).tasks \subseteq p.tasks
          /\ End(p, t).session = p.session /\ Typed(End(p, t)) = Typed(p)
      BY Resumed
    <3> QED
      BY <2>1, <3>1, <3>2, EditorStored DEF EditorOps
  <2>3. CASE IsCurrentDrawer(p, t)
    <3>1. p.draft = t.keep /\ p.mutation = t.id
      BY <2>3 DEF Good, DraftRests, EditorOps
    <3>2. /\ saved = [text |-> t.keep.text, comment |-> 0] /\ saved \in Baseline
          /\ p.draft \in Fields /\ p.base \in Baseline
      BY <3>1, ShapeFields DEF Good, Fields, Baseline
    <3>3. t.ticket # 0 /\ p.editing # 0
      <4>1. t.ticket \in Ids
        BY UnderWay DEF Binders, EditorOps
      <4> QED
        BY <2>3, <4>1 DEF IsCurrentDrawer, Ids
    <3>4. t.keep.text # 0
      BY <3>1, <3>3 DEF Good, HasText
    <3>5. CASE p.draft = saved
      <4> DEFINE m == ResetDrawer(p)
                 e == End(m, t)
      <4>1. q = m
        BY <2>3, <3>5
      <4>2. Good(m, {}) /\ Typed(m) = {} /\ m.tasks = p.tasks /\ m.session = p.session
        BY GoodReset
      <4> HIDE DEF m
      <4>3. /\ Good(e, {t}) /\ e.tasks \subseteq m.tasks /\ e.session = m.session
            /\ Typed(e) = Typed(m)
        BY <4>2, Resumed
      <4> HIDE DEF e
      <4>4. Typed(p) \subseteq accepted
        BY <1>1, <3>1, <3>2, <3>5 DEF Typed, Baseline
      <4>5. Handled(p, Load(e, t), accepted)
        BY <4>2, <4>3, <4>4, EditorStored DEF EditorOps
      <4> QED
        BY <2>1, <4>1, <4>5 DEF e
    <3>6. CASE p.draft # saved
      <4> DEFINE e == End(r, t)
      <4>1. q = r
        BY <2>3, <3>6
      <4>2. Changes(p, e, {"tasks", "draft", "base"}) /\ e.tasks = p.tasks \ {t}
            /\ e.draft = p.draft /\ e.base = saved
        BY DEF Good, PageShape, IsPage, PageFields, Changes, End
      <4> HIDE DEF e, r, saved
      <4>3. PageShape(e)
        BY <3>2, <4>2, ChangedShape DEF Good, FieldOK
      <4>4. Good(e, {t})
        BY <2>3, <4>2, <4>3, GoodDraft DEF EditorOps
      <4>5. e.session = p.session /\ e.editing = p.editing
        BY <4>2 DEF Changes, PageFields
      <4>6. \/ Typed(p) \subseteq Typed(e)
            \/ Typed(e) \subseteq Typed(p) /\ Typed(p) \ Typed(e) \subseteq accepted
        <5>1. saved # Blank /\ saved.text = p.draft.text /\ saved.comment = 0 /\ p.base.comment = 0
          BY <3>1, <3>2, <3>4 DEF Blank, Baseline
        <5>2. Typed(e) = IF p.draft.comment # 0 THEN {p.draft.comment} ELSE {}
          BY <3>3, <4>2, <4>5, <5>1 DEF Typed
        <5>3. p.base # Blank => Typed(p) \ Typed(e) \subseteq accepted /\ Typed(e) \subseteq Typed(p)
          BY <1>1, <3>1, <3>3, <5>1, <5>2 DEF Typed
        <5>4. p.base = Blank => Typed(p) = {}
          BY DEF Typed
        <5> QED
          BY <5>3, <5>4
      <4>7. Handled(p, Load(e, t), accepted)
        BY <4>2, <4>4, <4>5, <4>6, EditorStored DEF EditorOps
      <4> QED
        BY <2>1, <4>1, <4>7 DEF e
    <3> QED
      BY <3>5, <3>6
  <2> QED
    BY <2>2, <2>3
<1>2. CASE Succeeded(t) /\ ~CurrentSessionGuard(p, t)
  <2>1. SaveDrawer(p, t) = FinishDrawerMutation(End(p, t), t)
    BY <1>2 DEF SaveDrawer
  <2> QED
    BY <2>1, EditorEnds DEF EditorOps
<1>3. CASE ~Succeeded(t)
  <2>1. SaveDrawer(p, t) = FinishDrawerMutation(End(Denied(p, t, TRUE), t), t)
    BY <1>3 DEF SaveDrawer
  <2> QED
    BY <2>1, EditorEnds DEF EditorOps
<1> QED
  BY <1>1, <1>2, <1>3

LEMMA CommentHandled ==
  ASSUME NEW p, Good(p, {}), NEW t \in p.tasks, t.op = "comment", t.url # "state", NEW accepted,
         Succeeded(t) => t.keep.comment \in accepted
  PROVE  Handled(p, AddComment(p, t), accepted)
<1> DEFINE rest == IF p.draft.comment = t.keep.comment THEN 0 ELSE p.draft.comment
           draft == [p.draft EXCEPT !.comment = rest]
           base == [p.base EXCEPT !.comment = 0]
           r == [p EXCEPT !.draft = draft, !.base = base]
           q == IF ~IsCurrentDrawer(p, t) THEN p ELSE r
<1>1. CASE Succeeded(t) /\ CurrentSessionGuard(p, t)
  <2>1. AddComment(p, t) = Load(End(q, t), t)
    <3>1. r = [p EXCEPT !.draft.comment = IF @ = t.keep.comment THEN 0 ELSE @, !.base.comment = 0]
      BY DEF Good, PageShape, IsPage, PageFields
    <3> QED
      BY <1>1, <3>1 DEF AddComment
  <2>2. CASE ~IsCurrentDrawer(p, t)
    <3>1. q = p
      BY <2>2
    <3>2. /\ Good(End(p, t), {t}) /\ End(p, t).tasks \subseteq p.tasks
          /\ End(p, t).session = p.session /\ Typed(End(p, t)) = Typed(p)
      BY Resumed
    <3> QED
      BY <2>1, <3>1, <3>2, EditorStored DEF EditorOps
  <2>3. CASE IsCurrentDrawer(p, t)
    <3> DEFINE e == End(r, t)
    <3>1. p.draft \in Fields /\ p.base \in Baseline /\ t.keep \in Fields
      BY UnderWay, ShapeFields DEF Good, TaskShape
    <3>2. base = p.base /\ draft \in Fields /\ draft.text = p.draft.text /\ draft.comment = rest
          /\ p.base.comment = 0
      BY <3>1 DEF Fields, Baseline
    <3>3. Changes(p, e, {"tasks", "draft", "base"}) /\ e.tasks = p.tasks \ {t}
          /\ e.draft = draft /\ e.base = base
      BY DEF Good, PageShape, IsPage, PageFields, Changes, End
    <3>4. q = r
      BY <2>3
    <3> HIDE DEF e, r, draft, base
    <3>5. PageShape(e)
      BY <3>1, <3>2, <3>3, ChangedShape DEF Good, FieldOK
    <3>6. Good(e, {t})
      BY <2>3, <3>2, <3>3, <3>5, GoodDraft DEF EditorOps
    <3>7. e.session = p.session /\ e.editing = p.editing
      BY <3>3 DEF Changes, PageFields
    <3>8. Typed(e) \subseteq Typed(p) /\ Typed(p) \ Typed(e) \subseteq accepted
      BY <1>1, <3>2, <3>3, <3>7 DEF Typed
    <3>9. Handled(p, Load(e, t), accepted)
      BY <3>3, <3>6, <3>7, <3>8, EditorStored DEF EditorOps
    <3> QED
      BY <2>1, <3>4, <3>9 DEF e
  <2> QED
    BY <2>2, <2>3
<1>2. CASE Succeeded(t) /\ ~CurrentSessionGuard(p, t)
  <2>1. AddComment(p, t) = FinishDrawerMutation(End(p, t), t)
    BY <1>2 DEF AddComment
  <2> QED
    BY <2>1, EditorEnds DEF EditorOps
<1>3. CASE ~Succeeded(t)
  <2>1. AddComment(p, t) = FinishDrawerMutation(End(Denied(p, t, TRUE), t), t)
    BY <1>3 DEF AddComment
  <2> QED
    BY <2>1, EditorEnds DEF EditorOps
<1> QED
  BY <1>1, <1>2, <1>3

LEMMA ActionHandled ==
  ASSUME NEW p, Good(p, {}), NEW t \in p.tasks, t.op \in {"trash", "duplicate"},
         <<t.op, t.url>> \in Calls, NEW accepted
  PROVE  Handled(p, TaskDrawerAction(p, t), accepted)
<1> DEFINE current == IsCurrentDrawer(p, t)
           q == IF current THEN ResetDrawer(p) ELSE p
           copy == IF t.op = "duplicate" /\ current THEN t.reply.made ELSE 0
           d == Denied(p, t, TRUE)
           r == [p EXCEPT !.base = t.keep]
           restored == IF IsCurrentDrawer(d, t) THEN r ELSE d
           u == [t EXCEPT !.made = copy, !.editor = q.editGen]
<1>1. /\ TaskShape(t) /\ ReplyOK(t.url, t.reply) /\ t.session \in Nat /\ t.session <= p.session
      /\ t.op \in EditorOps /\ t.url # "state"
      /\ t.ticket \in Ids /\ t.op \in Binders
  BY UnderWay DEF Calls, EditorOps, Binders
<1>2. current => ~Dirty(p) /\ Typed(p) = {}
  <2>1. current => ~Dirty(p)
    BY <1>1 DEF Good, DraftRests
  <2> QED
    BY <2>1, CleanIsEmpty DEF Good
<1>3. CASE Succeeded(t) /\ CurrentSessionGuard(p, t)
  <2>1. TaskDrawerAction(p, t) = Load(End(q, t), u)
    BY <1>3 DEF TaskDrawerAction
  <2>2. copy \in Nat
    BY <1>1, <1>3 DEF ReplyOK, Succeeded, Calls
  <2>3. Good(q, {}) /\ Typed(q) = Typed(p) /\ q.tasks = p.tasks /\ q.session = p.session
    <3>1. CASE current
      BY <1>2, <3>1, GoodReset
    <3>2. CASE ~current
      BY <3>2
    <3> QED
      BY <3>1, <3>2
  <2> HIDE DEF q, copy
  <2> DEFINE e == End(q, t)
  <2>4. /\ Good(e, {t}) /\ e.tasks \subseteq q.tasks /\ e.session = q.session
        /\ Typed(e) = Typed(q) /\ e.editGen = q.editGen
    BY <2>3, Resumed
  <2> HIDE DEF e
  <2>5. q.editGen \in Nat
    BY <2>3, ShapeFields DEF Good
  <2>6. /\ IsTask(u) /\ u.made = copy /\ u.editor = q.editGen
        /\ \A f \in TaskFields \ {"made", "editor"} : u[f] = t[f]
    BY <1>1 DEF TaskShape, IsTask, TaskFields
  <2> HIDE DEF u
  <2>7. /\ u.op = t.op /\ u.url = t.url /\ u.ticket = t.ticket /\ u.row = t.row /\ u.id = t.id
        /\ u.board = t.board /\ u.keep = t.keep /\ u.todo = t.todo /\ u.sent = t.sent
        /\ u.ask = t.ask /\ u.generation = t.generation /\ u.session = t.session /\ u.as = t.as
    BY <2>6 DEF TaskFields
  <2>8. TaskShape(u)
    BY <1>1, <2>2, <2>5, <2>6, <2>7 DEF TaskShape
  <2>9. Good(Load(e, u), {}) /\ Follows(e, Load(e, u))
    BY <1>1, <2>3, <2>4, <2>5, <2>6, <2>7, <2>8, GoodLoad
  <2>10. Handled(p, Load(e, u), accepted)
    BY <2>3, <2>4, <2>9, HandledBy
  <2> QED
    BY <2>1, <2>10 DEF e
<1>4. CASE Succeeded(t) /\ ~CurrentSessionGuard(p, t)
  <2>1. TaskDrawerAction(p, t) = FinishDrawerMutation(End(p, t), t)
    BY <1>4 DEF TaskDrawerAction
  <2> QED
    BY <1>1, <2>1, EditorEnds
<1>5. CASE ~Succeeded(t)
  <2>1. TaskDrawerAction(p, t) = FinishDrawerMutation(End(restored, t), t)
    BY <1>5 DEF TaskDrawerAction
  <2>2. CASE ~IsCurrentDrawer(d, t)
    BY <1>1, <2>1, <2>2, EditorEnds
  <2>3. CASE IsCurrentDrawer(d, t)
    <3> DEFINE e == End(r, t)
    <3>1. IsCurrentDrawer(p, t)
      <4>1. d = p \/ d.session = p.session + 1
        BY GoodDenied
      <4>2. p.session \in Nat
        BY ShapeFields DEF Good
      <4>3. d.session = t.session
        BY <2>3 DEF IsCurrentDrawer
      <4> HIDE DEF d
      <4>4. t.session \in Nat /\ t.session <= p.session
        BY <1>1
      <4>5. d = p
        BY <4>1, <4>2, <4>3, <4>4
      <4> QED
        BY <2>3, <4>5
    <3>2. t.keep \in Baseline
      BY <1>1 DEF TaskShape
    <3>3. Changes(p, e, {"tasks", "draft", "base"}) /\ e.tasks = p.tasks \ {t}
          /\ e.draft = p.draft /\ e.base = t.keep
      BY DEF Good, PageShape, IsPage, PageFields, Changes, End
    <3>4. restored = r
      BY <2>3
    <3> HIDE DEF e, r, d
    <3>5. PageShape(e)
      BY <3>2, <3>3, ChangedShape, ShapeFields DEF Good, FieldOK
    <3>6. Good(e, {t})
      BY <1>1, <3>1, <3>3, <3>5, GoodDraft
    <3> DEFINE f == FinishDrawerMutation(e, t)
    <3>7. Good(f, {}) /\ Follows(e, f) /\ f.session = e.session
      BY <1>1, <3>6, GoodFinish
    <3> HIDE DEF f
    <3>8. e.session = p.session /\ p.session \in Nat
      BY <3>3, ShapeFields DEF Good, Changes, PageFields
    <3>9. Typed(p) = {}
      BY <1>2, <3>1
    <3>10. \A v \in f.tasks : v \in p.tasks \/ v.reply = NoReply
      BY <3>3, <3>7 DEF Follows
    <3>11. Handled(p, f, accepted)
      BY <3>7, <3>8, <3>9, <3>10 DEF Handled, DraftStep
    <3> QED
      BY <2>1, <3>4, <3>11 DEF e, f
  <2> QED
    BY <2>2, <2>3
<1> QED
  BY <1>3, <1>4, <1>5

-----------------------------------------------------------------------------
(* Cards and Epics.                                                        *)

LEMMA BoardLoads ==
  ASSUME NEW e, NEW t, Good(e, {t}), t.op \in Binders \union LoadOnly
  PROVE  LET q == Load(e, t) IN Good(q, {}) /\ Follows(e, q) /\ q.session = e.session
<1>1. TaskShape(t) /\ t.session <= e.session /\ t.editor <= e.editGen
  BY UnderWay
<1> QED
  BY <1>1, GoodLoad

LEMMA MoveHandled ==
  ASSUME NEW p, Good(p, {}), NEW t \in p.tasks, t.op = "move", NEW accepted
  PROVE  Handled(p, MoveBoardTicket(p, t), accepted)
<1>1. CASE Succeeded(t) /\ OnItsBoard(p, t)
  <2> DEFINE e == End(p, t)
  <2>1. MoveBoardTicket(p, t) = Load(e, t)
    BY <1>1 DEF MoveBoardTicket
  <2>2. /\ Good(e, {t}) /\ e.tasks \subseteq p.tasks /\ e.session = p.session
        /\ Typed(e) = Typed(p)
    BY Resumed
  <2> HIDE DEF e
  <2>3. Good(Load(e, t), {}) /\ Follows(e, Load(e, t))
    BY <2>2, BoardLoads DEF Binders
  <2> QED
    BY <2>1, <2>2, <2>3, HandledBy
<1>2. CASE ~(Succeeded(t) /\ OnItsBoard(p, t))
  <2> DEFINE e == End(Denied(p, t, OnItsBoard(p, t)), t)
  <2>1. MoveBoardTicket(p, t) = Release(e, t)
    BY <1>2 DEF MoveBoardTicket
  <2>2. /\ Good(e, {t}) /\ e.tasks \subseteq p.tasks /\ e.session >= p.session
        /\ \/ e.session = p.session /\ Typed(e) = Typed(p)
           \/ e.session > p.session /\ Typed(e) \in {Typed(p), {}}
    BY ResumedDenied
  <2> HIDE DEF e
  <2>3. Good(Release(e, t), {}) /\ Follows(e, Release(e, t))
    BY <2>2, GoodRelease
  <2> QED
    BY <2>1, <2>2, <2>3, HandledDenied DEF Good
<1> QED
  BY <1>1, <1>2

LEMMA EpicHandled ==
  ASSUME NEW p, Good(p, {}), NEW t \in p.tasks, t.op = "epic", NEW accepted
  PROVE  Handled(p, ChangeEpicCompletion(p, t), accepted)
<1> DEFINE e == End(Denied(p, t, OnItsBoard(p, t)), t)
           r == Release(e, t)
<1>1. ChangeEpicCompletion(p, t) \in {r, Load(r, t)}
  BY DEF ChangeEpicCompletion
<1>2. /\ Good(e, {t}) /\ e.tasks \subseteq p.tasks /\ e.session >= p.session
      /\ \/ e.session = p.session /\ Typed(e) = Typed(p)
         \/ e.session > p.session /\ Typed(e) \in {Typed(p), {}}
  BY ResumedDenied
<1> HIDE DEF e
<1>3. Good(r, {}) /\ Good(r, {t}) /\ Follows(e, r)
  BY <1>2, GoodRelease
<1> HIDE DEF r
<1>4. Good(Load(r, t), {}) /\ Follows(r, Load(r, t))
  BY <1>3, BoardLoads DEF Binders
<1>5. Follows(e, Load(r, t))
  BY <1>2, <1>3, <1>4, FollowsCompose DEF Good
<1>6. Handled(p, r, accepted) /\ Handled(p, Load(r, t), accepted)
  BY <1>2, <1>3, <1>4, <1>5, HandledDenied DEF Good
<1> QED
  BY <1>1, <1>6

-----------------------------------------------------------------------------
(* Functions that bind no ticket.                                          *)

(* From the resumed function to the end of its handler.                    *)
LEMMA PlainHandled ==
  ASSUME NEW p, Good(p, {}), NEW t \in p.tasks, t.op \notin Binders, NEW current, NEW accepted,
         NEW e, e \in {End(p, t), End(Denied(p, t, current), t)}
  PROVE  /\ Good(e, {t}) /\ Good(e, {}) /\ e.session >= p.session
         /\ \A q : Good(q, {}) /\ Follows(e, q) => Handled(p, q, accepted)
         /\ Handled(p, e, accepted)
         /\ t.op \in LoadOnly => Handled(p, Load(e, t), accepted)
<1>1. /\ Good(e, {t}) /\ e.tasks \subseteq p.tasks /\ e.session >= p.session
      /\ \/ e.session = p.session /\ Typed(e) = Typed(p)
         \/ e.session > p.session /\ Typed(e) \in {Typed(p), {}}
  <2>1. p.session \in Nat
    BY ShapeFields DEF Good
  <2>2. CASE e = End(p, t)
    BY <2>1, <2>2, Resumed
  <2>3. CASE e = End(Denied(p, t, current), t)
    BY <2>3, ResumedDenied
  <2> QED
    BY <2>2, <2>3
<1>2. Good(e, {})
  BY <1>1, GoodDone
<1>3. ASSUME NEW q, Good(q, {}), Follows(e, q)
      PROVE  Handled(p, q, accepted)
  BY <1>1, <1>3, HandledDenied DEF Good
<1>4. Handled(p, e, accepted)
  BY <1>2, <1>3, FollowsItself
<1>5. ASSUME t.op \in LoadOnly
      PROVE  Handled(p, Load(e, t), accepted)
  BY <1>1, <1>3, <1>5, BoardLoads
<1> QED
  BY <1>1, <1>2, <1>3, <1>4, <1>5

LEMMA PromoteHandled ==
  ASSUME NEW p, Good(p, {}), NEW t \in p.tasks, t.op = "promote", t.url # "state", NEW accepted
  PROVE  Handled(p, PromoteBacklogTicket(p, t), accepted)
<1> DEFINE e == End(Denied(p, t, TRUE), t)
           u == [t EXCEPT !.ticket = Head(t.todo).ticket, !.row = Head(t.todo).row,
                          !.todo = Tail(t.todo)]
<1>0. t.op \notin Binders /\ t.op \in LoadOnly
  BY DEF Binders, EditorOps, LoadOnly
<1>1. /\ Good(e, {t}) /\ e.session >= p.session
      /\ \A q : Good(q, {}) /\ Follows(e, q) => Handled(p, q, accepted)
      /\ Handled(p, e, accepted) /\ Handled(p, Load(e, t), accepted)
  BY <1>0, PlainHandled
<1>2. CASE Succeeded(t) /\ t.todo # << >>
  <2>1. PromoteBacklogTicket(p, t) = SendNext(e, u)
    BY <1>2 DEF PromoteBacklogTicket
  <2> HIDE DEF e
  <2>2. TaskShape(t) /\ t.session <= e.session /\ t.editor <= e.editGen
    BY <1>1, UnderWay
  <2>3. t.todo \in Seq(Promotion)
    BY <2>2 DEF TaskShape
  <2>4. Head(t.todo) \in Promotion /\ Tail(t.todo) \in Seq(Promotion)
    BY <1>2, <2>3
  <2>5. /\ IsTask(u) /\ u.ticket = Head(t.todo).ticket /\ u.row = Head(t.todo).row
        /\ u.todo = Tail(t.todo)
        /\ \A f \in TaskFields \ {"ticket", "row", "todo"} : u[f] = t[f]
    BY <2>2 DEF TaskShape, IsTask, TaskFields
  <2> HIDE DEF u
  <2>6. /\ u.op = t.op /\ u.url = t.url /\ u.made = t.made /\ u.editor = t.editor /\ u.id = t.id
        /\ u.board = t.board /\ u.keep = t.keep /\ u.sent = t.sent
        /\ u.ask = t.ask /\ u.generation = t.generation /\ u.session = t.session /\ u.as = t.as
    BY <2>5 DEF TaskFields
  <2>7. u.ticket \in Ids /\ u.row \in Row /\ u.row.text # 0
    BY <2>4, <2>5 DEF Promotion, Stored
  <2>8. TaskShape(u)
    BY <1>0, <2>2, <2>4, <2>5, <2>6, <2>7 DEF TaskShape
  <2>9. Good(SendNext(e, u), {}) /\ Follows(e, SendNext(e, u))
    BY <1>0, <1>1, <2>2, <2>6, <2>8, GoodSendNext
  <2> QED
    BY <1>1, <2>1, <2>9
<1>3. CASE ~(Succeeded(t) /\ t.todo # << >>)
  <2>1. PromoteBacklogTicket(p, t) \in {e, Load(e, t)}
    BY <1>3 DEF PromoteBacklogTicket
  <2> QED
    BY <1>1, <2>1
<1> QED
  BY <1>2, <1>3

LEMMA CreateHandled ==
  ASSUME NEW p, Good(p, {}), NEW t \in p.tasks, t.op \in {"create", "restore", "import"},
         NEW accepted
  PROVE  Handled(p, CreateTicket(p, t), accepted) /\ Handled(p, RestoreTask(p, t), accepted)
<1>1. t.op \notin Binders /\ t.op \in LoadOnly
  BY DEF Binders, EditorOps, LoadOnly
<1>2. Handled(p, Load(End(p, t), t), accepted)
  BY <1>1, PlainHandled
<1>3. Handled(p, End(Denied(p, t, TRUE), t), accepted)
  BY <1>1, PlainHandled
<1> QED
  BY <1>2, <1>3 DEF CreateTicket, RestoreTask

LEMMA ImportHandled ==
  ASSUME NEW p, Good(p, {}), NEW t \in p.tasks, t.op = "import", t.url # "state", NEW accepted
  PROVE  Handled(p, ImportBoardFile(p, t), accepted)
<1> DEFINE e == End(p, t)
           u == [t EXCEPT !.url = "import"]
<1>0. t.op \notin Binders
  BY DEF Binders, EditorOps
<1>1. /\ Good(e, {t})
      /\ \A q : Good(q, {}) /\ Follows(e, q) => Handled(p, q, accepted)
      /\ Handled(p, e, accepted)
  BY <1>0, PlainHandled
<1>2. TaskShape(t) /\ t.session <= e.session /\ t.editor <= e.editGen
  BY <1>1, UnderWay
<1>3. t.url \in {"file", "import"}
  BY <1>2 DEF TaskShape, Calls
<1>4. CASE t.url = "file"
  <2>1. ImportBoardFile(p, t) \in {e, SendNext(e, u)}
    BY <1>4 DEF ImportBoardFile
  <2>2. IsTask(u) /\ u.url = "import" /\ \A f \in TaskFields \ {"url"} : u[f] = t[f]
    BY <1>2 DEF TaskShape, IsTask, TaskFields
  <2> HIDE DEF u, e
  <2>3. /\ u.op = t.op /\ u.made = t.made /\ u.editor = t.editor /\ u.id = t.id
        /\ u.board = t.board /\ u.keep = t.keep /\ u.sent = t.sent /\ u.ticket = t.ticket
        /\ u.row = t.row /\ u.todo = t.todo
        /\ u.ask = t.ask /\ u.generation = t.generation /\ u.session = t.session /\ u.as = t.as
    BY <2>2 DEF TaskFields
  <2>4. TaskShape(u)
    BY <1>0, <1>2, <2>2, <2>3 DEF TaskShape, Calls
  <2>5. Good(SendNext(e, u), {}) /\ Follows(e, SendNext(e, u))
    BY <1>0, <1>1, <1>2, <2>3, <2>4, GoodSendNext
  <2> QED
    BY <1>1, <2>1, <2>5
<1>5. CASE t.url = "import"
  <2>1. ImportBoardFile(p, t) = RestoreTask(p, t)
    BY <1>5 DEF ImportBoardFile
  <2> QED
    BY <2>1, CreateHandled
<1> QED
  BY <1>3, <1>4, <1>5

LEMMA NotificationHandled ==
  ASSUME NEW p, Good(p, {}), NEW t \in p.tasks, t.op = "notification", NEW accepted
  PROVE  Handled(p, OpenNotification(p, t), accepted)
<1> DEFINE e == End(Denied(p, t, TRUE), t)
<1>1. t.op \notin Binders /\ t.op \in LoadOnly
  BY DEF Binders, EditorOps, LoadOnly
<1>2. Handled(p, e, accepted) /\ Handled(p, Load(e, t), accepted)
  BY <1>1, PlainHandled
<1>3. OpenNotification(p, t) \in {e, Load(e, t)}
  BY DEF OpenNotification
<1> QED
  BY <1>2, <1>3

(* A page that shows something else, but the bookkeeping.                  *)
LEMMA GoodShown ==
  ASSUME NEW p, NEW T, Good(p, T), NEW q, NEW F, Changes(p, q, F), \A f \in F : FieldOK(f, q[f]),
         F \intersect Core = {}
  PROVE  Good(q, T) /\ Follows(p, q) /\ q.session = p.session /\ q.editGen = p.editGen
         /\ q.tasks = p.tasks /\ q.pending = p.pending /\ q.editing = p.editing
<1>1. PageShape(q)
  BY ChangedShape DEF Good
<1>2. \A f \in Core : f \in PageFields \ F
  BY DEF Core, PageFields
<1>3. \A f \in Core : q[f] = p[f]
  BY <1>2 DEF Changes
<1>4. q.queued = p.queued /\ q.session = p.session /\ q.editGen = p.editGen
      /\ q.tasks = p.tasks /\ q.pending = p.pending /\ q.editing = p.editing
  BY <1>3 DEF Core
<1>5. F \intersect (Core \ {"queued"}) = {}
  OBVIOUS
<1> QED
  BY <1>1, <1>4, <1>5, GoodSame, FollowsFields

LEMMA BoardHandled ==
  ASSUME NEW p, Good(p, {}), NEW t \in p.tasks, t.op = "newBoard", t.url # "state", NEW accepted
  PROVE  Handled(p, CreateBoard(p, t), accepted)
<1> DEFINE e == End(Denied(p, t, TRUE), t)
           r == [e EXCEPT !.selected = t.reply.made, !.view = "board"]
<1>1. t.op \notin Binders /\ t.op \in LoadOnly
  BY DEF Binders, EditorOps, LoadOnly
<1>2. /\ Good(e, {t})
      /\ \A q : Good(q, {}) /\ Follows(e, q) => Handled(p, q, accepted)
      /\ Handled(p, e, accepted) /\ Handled(p, Load(e, t), accepted)
  BY <1>1, PlainHandled
<1>3. CASE Succeeded(t) /\ CurrentSessionGuard(p, t) /\ t.editor = p.editGen
  <2>1. CreateBoard(p, t) = Load(r, t)
    BY <1>3 DEF CreateBoard
  <2>2. t.reply.made \in BoardIds
    <3>1. TaskShape(t) /\ ReplyOK(t.url, t.reply)
      BY UnderWay
    <3>2. t.url = "board"
      BY <3>1 DEF TaskShape, Calls
    <3> QED
      BY <1>3, <3>1, <3>2 DEF ReplyOK, Succeeded
  <2> HIDE DEF e
  <2>3. Changes(e, r, {"selected", "view"}) /\ r.selected = t.reply.made /\ r.view = "board"
    BY <1>2 DEF Good, PageShape, IsPage, PageFields, Changes
  <2> HIDE DEF r
  <2>4. \A f \in {"selected", "view"} : FieldOK(f, r[f])
    BY <2>2, <2>3 DEF FieldOK, Views
  <2>5. Good(r, {t}) /\ Follows(e, r)
    BY <1>2, <2>3, <2>4, GoodShown DEF Core
  <2>6. Good(Load(r, t), {}) /\ Follows(r, Load(r, t))
    BY <1>1, <2>5, BoardLoads
  <2>7. Follows(e, Load(r, t))
    BY <1>2, <2>5, <2>6, FollowsCompose DEF Good
  <2> QED
    BY <1>2, <2>1, <2>6, <2>7
<1>4. CASE ~(Succeeded(t) /\ CurrentSessionGuard(p, t) /\ t.editor = p.editGen)
  <2>1. CreateBoard(p, t) \in {e, Load(e, t)}
    BY <1>4 DEF CreateBoard
  <2> QED
    BY <1>2, <2>1
<1> QED
  BY <1>3, <1>4

LEMMA HistoryHandled ==
  ASSUME NEW p, Good(p, {}), NEW t \in p.tasks, t.op = "history", NEW accepted
  PROVE  Handled(p, ShowHistory(p, t), accepted)
<1> DEFINE current == OnItsBoard(p, t) /\ t.generation = p.historyGen /\ p.view = "history"
           e == End(Denied(p, t, current), t)
           h == [user |-> t.reply.user, board |-> t.board]
           r == [e EXCEPT !.history = h]
<1>1. t.op \notin Binders
  BY DEF Binders, EditorOps
<1>2. /\ Good(e, {}) /\ Handled(p, e, accepted)
      /\ \A q : Good(q, {}) /\ Follows(e, q) => Handled(p, q, accepted)
  BY <1>1, PlainHandled
<1>3. ShowHistory(p, t) \in {e, r}
  BY DEF ShowHistory
<1> HIDE DEF e, h
<1>4. Changes(e, r, {"history"})
  BY <1>2 DEF Good, PageShape, IsPage, PageFields, Changes
<1> HIDE DEF r
<1>5. Good(r, {}) /\ Follows(e, r)
  BY <1>2, <1>4, GoodShown DEF Core, FieldOK
<1> QED
  BY <1>2, <1>3, <1>5

LEMMA PollHandled ==
  ASSUME NEW p, Good(p, {}), NEW t \in p.tasks, t.op = "poll", t.url # "state", NEW accepted
  PROVE  Handled(p, RefreshNotifications(p, t), accepted)
<1> DEFINE current == t.generation = p.pollGen /\ CurrentSessionGuard(p, t)
           e == End(Denied(p, t, current), t)
           r == [e EXCEPT !.notes = t.reply.user]
<1>1. t.op \notin Binders
  BY DEF Binders, EditorOps
<1>2. /\ Good(e, {}) /\ Handled(p, e, accepted)
      /\ \A q : Good(q, {}) /\ Follows(e, q) => Handled(p, q, accepted)
  BY <1>1, PlainHandled
<1>3. CASE Succeeded(t) /\ current /\ p.me # 0
  <2>1. RefreshNotifications(p, t) = r
    BY <1>3 DEF RefreshNotifications
  <2>2. t.reply.user \in Users
    <3>1. TaskShape(t) /\ ReplyOK(t.url, t.reply)
      BY UnderWay
    <3>2. t.url = "notifications"
      BY <3>1 DEF TaskShape, Calls
    <3> QED
      BY <1>3, <3>1, <3>2 DEF ReplyOK, Succeeded
  <2> HIDE DEF e
  <2>3. Changes(e, r, {"notes"}) /\ r.notes = t.reply.user
    BY <1>2 DEF Good, PageShape, IsPage, PageFields, Changes
  <2> HIDE DEF r
  <2>4. Good(r, {}) /\ Follows(e, r)
    BY <1>2, <2>2, <2>3, GoodShown DEF Core, FieldOK
  <2> QED
    BY <1>2, <2>1, <2>4
<1>4. CASE ~(Succeeded(t) /\ current /\ p.me # 0)
  <2>1. RefreshNotifications(p, t) = e
    BY <1>4 DEF RefreshNotifications
  <2> QED
    BY <1>2, <2>1
<1> QED
  BY <1>3, <1>4

-----------------------------------------------------------------------------
(* Logging in and out.                                                     *)

LEMMA GoodCookie ==
  ASSUME NEW p, Good(p, {}), NEW t \in p.tasks, TaskOK(t), t.op \in {"login", "password", "logout"},
         t.url # "state", NEW r, r.tasks = p.tasks, Good(r, {})
  PROVE  LET q == TakesCookie(r, t) IN
         Good(q, {}) /\ Follows(r, q) /\ q.tasks = r.tasks /\ q.session = r.session
<1>1. CASE TakesCookie(r, t) = r
  BY <1>1, FollowsItself
<1>2. ASSUME NEW c \in Nat, TakesCookie(r, t) = [r EXCEPT !.jar = c]
      PROVE  LET q == TakesCookie(r, t) IN
             Good(q, {}) /\ Follows(r, q) /\ q.tasks = r.tasks /\ q.session = r.session
  <2> DEFINE q == [r EXCEPT !.jar = c]
  <2>1. Changes(r, q, {"jar"}) /\ q.jar = c
    BY DEF Good, PageShape, IsPage, PageFields, Changes
  <2> HIDE DEF q
  <2>2. Good(q, {}) /\ Follows(r, q) /\ q.tasks = r.tasks /\ q.session = r.session
    BY <2>1, GoodShown DEF Core, FieldOK
  <2> QED
    BY <1>2, <2>2 DEF q
<1>3. CASE Succeeded(t) /\ t.op \in {"login", "password"}
  <2>1. t.url \in {"login", "password"}
    BY <1>3 DEF TaskOK, TaskShape, Calls
  <2>2. t.reply.made \in Nat
    BY <1>3, <2>1 DEF TaskOK, ReplyOK, Succeeded
  <2>3. TakesCookie(r, t) = [r EXCEPT !.jar = t.reply.made]
    BY <1>3 DEF TakesCookie
  <2> QED
    BY <1>2, <2>2, <2>3
<1>4. CASE Succeeded(t) /\ t.op = "logout"
  <2>1. TakesCookie(r, t) = [r EXCEPT !.jar = 0]
    BY <1>4 DEF TakesCookie
  <2> QED
    BY <1>2, <2>1
<1>5. CASE ~Succeeded(t)
  <2>1. TakesCookie(r, t) = r
    BY <1>5 DEF TakesCookie
  <2> QED
    BY <1>1, <2>1
<1> QED
  BY <1>3, <1>4, <1>5

LEMMA SignHandled ==
  ASSUME NEW p, Good(p, {}), NEW t \in p.tasks, t.op \in {"login", "password", "logout"},
         t.url # "state", NEW accepted
  PROVE  /\ t.op = "login" => Handled(p, Login(p, t), accepted)
         /\ t.op = "logout" => Handled(p, Logout(p, t), accepted)
         /\ t.op = "password" => Handled(p, SavePassword(p, t), accepted)
<1>1. TaskOK(t) /\ t.op \notin Binders
  BY UnderWay DEF Binders, EditorOps
<1>2. ASSUME NEW d, Good(d, {}), Follows(p, d), d.tasks = p.tasks,
             NEW c, c = TakesCookie(d, t), NEW e, e = End(c, t)
      PROVE  /\ Good(e, {t}) /\ Good(e, {})
             /\ \A q : Good(q, {}) /\ Follows(e, q) => Handled(p, q, accepted)
  <2>1. Good(c, {}) /\ Follows(d, c) /\ c.tasks = d.tasks
    BY <1>1, <1>2, GoodCookie
  <2>2. Follows(p, c) /\ t \in c.tasks /\ c.tasks = p.tasks
    BY <1>2, <2>1, FollowsCompose DEF Good
  <2>3. /\ Good(e, {t}) /\ e.tasks \subseteq c.tasks /\ e.session = c.session
        /\ Typed(e) = Typed(c)
    BY <1>2, <2>1, <2>2, Resumed
  <2>4. Good(e, {})
    BY <1>1, <2>3, GoodDone
  <2>5. c.session >= p.session /\ p.session \in Nat
    <3>1. p.session \in Nat /\ c.session \in Nat
      BY <2>1, ShapeFields DEF Good
    <3> QED
      BY <2>2, <3>1 DEF Follows
  <2>6. \A q : Good(q, {}) /\ Follows(e, q) => Handled(p, q, accepted)
    BY <2>2, <2>3, <2>5, HandledDenied DEF Good, Follows
  <2> QED
    BY <2>3, <2>4, <2>6
<1>3. ASSUME t.op = "login"
      PROVE  Handled(p, Login(p, t), accepted)
  <2> DEFINE e == End(TakesCookie(p, t), t)
  <2>1. Login(p, t) \in {e, Load(e, t)}
    BY DEF Login
  <2>2. /\ Good(e, {t}) /\ Good(e, {})
        /\ \A q : Good(q, {}) /\ Follows(e, q) => Handled(p, q, accepted)
    BY <1>2, FollowsItself
  <2> HIDE DEF e
  <2>3. Good(Load(e, t), {}) /\ Follows(e, Load(e, t))
    BY <1>3, <2>2, BoardLoads DEF LoadOnly
  <2> QED
    BY <2>1, <2>2, <2>3, FollowsItself
<1>4. ASSUME t.op = "logout"
      PROVE  Handled(p, Logout(p, t), accepted)
  <2> DEFINE e == End(TakesCookie(p, t), t)
             r == [e EXCEPT !.locked = FALSE]
  <2>1. Logout(p, t) \in {e, r}
    BY DEF Logout
  <2>2. /\ Good(e, {})
        /\ \A q : Good(q, {}) /\ Follows(e, q) => Handled(p, q, accepted)
    BY <1>2, FollowsItself
  <2> HIDE DEF e
  <2>3. Changes(e, r, {"locked"})
    BY <2>2 DEF Good, PageShape, IsPage, PageFields, Changes
  <2> HIDE DEF r
  <2>4. Good(r, {}) /\ Follows(e, r)
    BY <2>2, <2>3, GoodShown DEF Core, FieldOK
  <2> QED
    BY <2>1, <2>2, <2>4, FollowsItself
<1>5. ASSUME t.op = "password"
      PROVE  Handled(p, SavePassword(p, t), accepted)
  <2> DEFINE d == Denied(p, t, TRUE)
             e == End(TakesCookie(d, t), t)
             r == InvalidateSessionRequests(e)
  <2>1. SavePassword(p, t) \in {e, Load(r, t)}
    BY DEF SavePassword
  <2>2. Good(d, {}) /\ Follows(p, d) /\ d.tasks = p.tasks
    BY GoodDenied
  <2>3. /\ Good(e, {t}) /\ Good(e, {})
        /\ \A q : Good(q, {}) /\ Follows(e, q) => Handled(p, q, accepted)
    BY <1>2, <2>2
  <2> HIDE DEF e
  <2>4. Good(r, {t}) /\ Follows(e, r)
    BY <2>3, GoodInvalidate
  <2> HIDE DEF r
  <2>5. Good(Load(r, t), {}) /\ Follows(r, Load(r, t))
    BY <1>5, <2>4, BoardLoads DEF LoadOnly
  <2>6. Follows(e, Load(r, t))
    BY <2>3, <2>4, <2>5, FollowsCompose DEF Good
  <2> QED
    BY <2>1, <2>3, <2>5, <2>6, FollowsItself
<1> QED
  BY <1>3, <1>4, <1>5

-----------------------------------------------------------------------------
(* Every function that resumes.                                            *)

LEMMA ResumeHandled ==
  ASSUME FrontendInv, Resume
  PROVE  Handled(page, page', store.accepted) /\ waived' = FALSE /\ UNCHANGED store
<1> DEFINE A == store.accepted
           OK(q) == Handled(page, q, A)
<1>1. Good(page, {}) /\ Truthful(page, store)
  BY DEF FrontendInv
<1>2. ASSUME NEW q, Resumes(q), OK(q)
      PROVE  OK(page') /\ waived' = FALSE /\ UNCHANGED store
  BY <1>2 DEF Resumes
<1> HIDE DEF OK
<1>3. \A t \in page.tasks :
        t.url = "state" /\ t.reply.status # "none" => OK(AfterLoad(page, t))
  BY <1>1, LoadHandled DEF OK
<1>4. \A t \in Arrived({"save"}) : OK(SaveDrawer(page, t))
  <2> SUFFICES ASSUME NEW t \in Arrived({"save"})
               PROVE  OK(SaveDrawer(page, t))
    OBVIOUS
  <2>1. t \in page.tasks /\ t.op = "save" /\ t.url # "state"
    BY DEF Arrived
  <2>2. TaskShape(t)
    BY <1>1, <2>1, UnderWay
  <2>3. t.url = "put" /\ t.row.text = t.keep.text
    BY <2>1, <2>2 DEF TaskShape, Calls
  <2>4. Succeeded(t) => t.keep.text \in A
    BY <1>1, <2>1, <2>3 DEF Truthful, Succeeded
  <2> QED
    BY <1>1, <2>1, <2>4, SaveHandled DEF OK
<1>5. \A t \in Arrived({"comment"}) : OK(AddComment(page, t))
  <2> SUFFICES ASSUME NEW t \in Arrived({"comment"})
               PROVE  OK(AddComment(page, t))
    OBVIOUS
  <2>1. t \in page.tasks /\ t.op = "comment" /\ t.url # "state"
    BY DEF Arrived
  <2>2. TaskShape(t)
    BY <1>1, <2>1, UnderWay
  <2>3. t.url = "comment"
    BY <2>1, <2>2 DEF TaskShape, Calls
  <2>4. Succeeded(t) => t.keep.comment \in A
    BY <1>1, <2>1, <2>3 DEF Truthful, Succeeded
  <2> QED
    BY <1>1, <2>1, <2>4, CommentHandled DEF OK
<1>6. \A t \in Arrived({"trash", "duplicate"}) : OK(TaskDrawerAction(page, t))
  <2> SUFFICES ASSUME NEW t \in Arrived({"trash", "duplicate"})
               PROVE  OK(TaskDrawerAction(page, t))
    OBVIOUS
  <2>1. t \in page.tasks /\ t.op \in {"trash", "duplicate"} /\ t.url # "state"
    BY DEF Arrived
  <2>2. TaskShape(t)
    BY <1>1, <2>1, UnderWay
  <2>3. <<t.op, t.url>> \in Calls
    BY <2>1, <2>2 DEF TaskShape
  <2> QED
    BY <1>1, <2>1, <2>3, ActionHandled DEF OK
<1>7. \A t \in Arrived({"move"}) : OK(MoveBoardTicket(page, t))
  BY <1>1, MoveHandled DEF OK, Arrived
<1>8. \A t \in Arrived({"epic"}) : OK(ChangeEpicCompletion(page, t))
  BY <1>1, EpicHandled DEF OK, Arrived
<1>9. \A t \in Arrived({"promote"}) : OK(PromoteBacklogTicket(page, t))
  BY <1>1, PromoteHandled DEF OK, Arrived
<1>10. \A t \in Arrived({"create"}) : OK(CreateTicket(page, t))
  BY <1>1, CreateHandled DEF OK, Arrived
<1>11. \A t \in Arrived({"restore"}) : OK(RestoreTask(page, t))
  BY <1>1, CreateHandled DEF OK, Arrived
<1>12. \A t \in Arrived({"import"}) : OK(ImportBoardFile(page, t))
  BY <1>1, ImportHandled DEF OK, Arrived
<1>13. \A t \in Arrived({"notification"}) : OK(OpenNotification(page, t))
  BY <1>1, NotificationHandled DEF OK, Arrived
<1>14. \A t \in Arrived({"newBoard"}) : OK(CreateBoard(page, t))
  BY <1>1, BoardHandled DEF OK, Arrived
<1>15. \A t \in Arrived({"history"}) : OK(ShowHistory(page, t))
  BY <1>1, HistoryHandled DEF OK, Arrived
<1>16. \A t \in Arrived({"poll"}) : OK(RefreshNotifications(page, t))
  BY <1>1, PollHandled DEF OK, Arrived
<1>17. \A t \in Arrived({"login"}) : OK(Login(page, t))
  BY <1>1, SignHandled DEF OK, Arrived
<1>18. \A t \in Arrived({"password"}) : OK(SavePassword(page, t))
  BY <1>1, SignHandled DEF OK, Arrived
<1>19. \A t \in Arrived({"logout"}) : OK(Logout(page, t))
  BY <1>1, SignHandled DEF OK, Arrived
<1>20. \E q : Resumes(q) /\ OK(q)
  <2>1. CASE ResumeLoad
    BY <1>3, <2>1 DEF ResumeLoad
  <2>2. CASE ResumeEditor
    BY <1>4, <1>5, <1>6, <2>2 DEF ResumeEditor
  <2>3. CASE ResumeBoard
    BY <1>7, <1>8, <1>9, <1>10, <1>11, <1>12, <2>3 DEF ResumeBoard
  <2>4. CASE ResumePage
    BY <1>13, <1>14, <1>15, <1>16, <1>17, <1>18, <1>19, <2>4 DEF ResumePage
  <2> QED
    BY <2>1, <2>2, <2>3, <2>4 DEF Resume
<1> QED
  BY <1>2, <1>20 DEF OK

-----------------------------------------------------------------------------
(* The server and the network.                                             *)

LEMMA GoodReply ==
  ASSUME NEW p, Good(p, {}), NEW t \in p.tasks, NEW r, ReplyOK(t.url, r)
  PROVE  LET u == [t EXCEPT !.reply = r]
             q == [p EXCEPT !.tasks = (p.tasks \ {t}) \union {u}]
         IN /\ Good(q, {}) /\ q.session = p.session /\ Typed(q) = Typed(p)
            /\ q.tasks = (p.tasks \ {t}) \union {u} /\ u.reply = r /\ u.url = t.url
            /\ u.row = t.row /\ u.keep = t.keep
<1> DEFINE u == [t EXCEPT !.reply = r]
           q == [p EXCEPT !.tasks = (p.tasks \ {t}) \union {u}]
<1>1. TaskShape(t)
  BY UnderWay
<1>2. /\ IsTask(u) /\ u.reply = r /\ \A f \in TaskFields \ {"reply"} : u[f] = t[f]
  BY <1>1 DEF TaskShape, IsTask, TaskFields
<1>3. /\ Changes(p, q, {"tasks"}) /\ q.tasks = (p.tasks \ {t}) \union {u}
  BY DEF Good, PageShape, IsPage, PageFields, Changes
<1> HIDE DEF u, q
<1>4. /\ u.op = t.op /\ u.url = t.url /\ u.ticket = t.ticket /\ u.row = t.row /\ u.id = t.id
      /\ u.board = t.board /\ u.keep = t.keep /\ u.todo = t.todo /\ u.made = t.made
      /\ u.ask = t.ask /\ u.generation = t.generation /\ u.session = t.session
      /\ u.editor = t.editor /\ u.sent = t.sent /\ u.as = t.as
  BY <1>2 DEF TaskFields
<1>5. TaskShape(u)
  BY <1>1, <1>2, <1>4 DEF TaskShape
<1>6. TaskOK(u)
  BY <1>2, <1>4, <1>5 DEF TaskOK
<1>7. PageShape(q)
  BY <1>3, ChangedShape DEF Good, FieldOK
<1>8. /\ q.pending = p.pending /\ q.session = p.session /\ q.serial = p.serial
      /\ q.mutation = p.mutation /\ q.editing = p.editing /\ q.editGen = p.editGen
      /\ q.queued = p.queued /\ q.draft = p.draft /\ q.base = p.base
  BY <1>3 DEF Changes, PageFields
<1>9. TasksOK(q, {})
  BY <1>3, <1>4, <1>6, <1>8 DEF Good, TasksOK
<1>10. IdsUnique(q, {})
  BY <1>3, <1>4 DEF Good, IdsUnique
<1>11. WritersBind(q)
  BY <1>3, <1>4, <1>8 DEF Good, WritersBind
<1>12. Alive(q, {}) /\ MutationRuns(q, {})
  BY <1>3, <1>4, <1>8 DEF Good, Alive, MutationRuns
<1>13. EditorHolds(q) /\ QueueWaits(q) /\ HasText(q)
  BY <1>8 DEF Good, EditorHolds, QueueWaits, HasText, Held
<1>14. DraftRests(q)
  BY <1>3, <1>4, <1>8 DEF Good, DraftRests, IsCurrentDrawer, Dirty
<1>15. Good(q, {})
  BY <1>7, <1>9, <1>10, <1>11, <1>12, <1>13, <1>14 DEF Good
<1>16. Typed(q) = Typed(p)
  BY <1>8 DEF Typed
<1> QED
  BY <1>2, <1>3, <1>4, <1>8, <1>15, <1>16 DEF u, q

StoreFields == {"rows", "access", "owner", "live", "accepted"}

LEMMA StoreShape ==
  ASSUME NEW s, StoreOK(s)
  PROVE  /\ s = [f \in StoreFields |-> s[f]] /\ IsRows(s.rows)
         /\ s.access \in [Users -> SUBSET BoardIds] /\ s.owner \in Seq(Users)
         /\ s.live \subseteq 1 .. Len(s.owner)
BY DEF StoreOK, StoreFields

LEMMA WithRowOK ==
  ASSUME NEW s, StoreOK(s), NEW i \in Ids, NEW row \in Stored
  PROVE  LET q == WithRow(s, i, row) IN
         StoreOK(q) /\ q.accepted = s.accepted /\ q.access = s.access /\ q.owner = s.owner
<1> DEFINE new == [row EXCEPT !.version = row.version + 1]
           rows == [j \in DOMAIN s.rows \union {i} |-> IF j = i THEN new ELSE s.rows[j]]
           q == [s EXCEPT !.rows = rows]
<1>1. WithRow(s, i, row) = q
  BY StoreShape DEF WithRow, StoreFields
<1>2. new \in Stored
  BY DEF Stored, Row
<1> HIDE DEF new
<1>3. IsRows(rows)
  BY <1>2, StoreShape DEF IsRows
<1> HIDE DEF rows
<1>4. /\ q = [f \in StoreFields |-> q[f]] /\ q.rows = rows /\ q.accepted = s.accepted
      /\ q.access = s.access /\ q.owner = s.owner /\ q.live = s.live
  BY StoreShape DEF StoreFields
<1> HIDE DEF q
<1>5. StoreOK(q)
  BY <1>3, <1>4, StoreShape DEF StoreOK, StoreFields
<1> QED
  BY <1>1, <1>4, <1>5

LEMMA AcceptsOK ==
  ASSUME NEW s, StoreOK(s), NEW x
  PROVE  StoreOK(Accepts(s, x)) /\ Accepts(s, x).accepted = s.accepted \union {x}
<1> DEFINE q == [s EXCEPT !.accepted = s.accepted \union {x}]
<1>1. Accepts(s, x) = q
  BY DEF Accepts
<1>2. /\ q = [f \in StoreFields |-> q[f]] /\ q.rows = s.rows
      /\ q.accepted = s.accepted \union {x}
      /\ q.access = s.access /\ q.owner = s.owner /\ q.live = s.live
  BY StoreShape DEF StoreFields
<1> HIDE DEF q
<1>3. StoreOK(q)
  BY <1>2, StoreShape DEF StoreOK, StoreFields
<1> QED
  BY <1>1, <1>2, <1>3

LEMMA SessionOK ==
  ASSUME NEW s, StoreOK(s), NEW k
  PROVE  /\ StoreOK(WithoutSession(s, k)) /\ WithoutSession(s, k).accepted = s.accepted
         /\ \A u \in Users : StoreOK(WithSession(s, u)) /\ WithSession(s, u).accepted = s.accepted
<1>1. StoreOK(WithoutSession(s, k)) /\ WithoutSession(s, k).accepted = s.accepted
  <2> DEFINE q == [s EXCEPT !.live = s.live \ {k}]
  <2>1. WithoutSession(s, k) = q
    BY DEF WithoutSession
  <2>2. /\ q = [f \in StoreFields |-> q[f]] /\ q.rows = s.rows /\ q.accepted = s.accepted
        /\ q.access = s.access /\ q.owner = s.owner /\ q.live = s.live \ {k}
    BY StoreShape DEF StoreFields
  <2> HIDE DEF q
  <2>3. StoreOK(q)
    BY <2>2, StoreShape DEF StoreOK, StoreFields
  <2> QED
    BY <2>1, <2>2, <2>3
<1>2. ASSUME NEW u \in Users
      PROVE  StoreOK(WithSession(s, u)) /\ WithSession(s, u).accepted = s.accepted
  <2> DEFINE owner == Append(s.owner, u)
             live == s.live \union {Len(s.owner) + 1}
             q == [s EXCEPT !.owner = owner, !.live = live]
  <2>1. WithSession(s, u) = q
    BY DEF WithSession
  <2>2. s.owner \in Seq(Users) /\ s.live \subseteq 1 .. Len(s.owner)
    BY StoreShape
  <2>3. owner \in Seq(Users) /\ Len(owner) = Len(s.owner) + 1 /\ Len(s.owner) \in Nat
    BY <2>2
  <2>4. live \subseteq 1 .. Len(owner)
    BY <2>2, <2>3
  <2> HIDE DEF owner, live
  <2>5. /\ q = [f \in StoreFields |-> q[f]] /\ q.rows = s.rows /\ q.accepted = s.accepted
        /\ q.access = s.access /\ q.owner = owner /\ q.live = live
    BY StoreShape DEF StoreFields
  <2> HIDE DEF q
  <2>6. StoreOK(q)
    BY <2>3, <2>4, <2>5, StoreShape DEF StoreOK, StoreFields
  <2> QED
    BY <2>1, <2>5, <2>6
<1> QED
  BY <1>1, <1>2

(* Whom the server takes a call for.                                       *)
LEMMA AccountIsUser ==
  ASSUME StoreOK(store), NEW t, Account(t) # 0
  PROVE  Account(t) \in Users
<1>1. store.owner \in Seq(Users) /\ store.live \subseteq 1 .. Len(store.owner)
  BY StoreShape
<1>2. t.as \in store.live /\ Account(t) = store.owner[t.as]
  BY DEF Account
<1> QED
  BY <1>1, <1>2

(* A ticket as it is created.                                              *)
LEMMA NewRowStored ==
  ASSUME NEW b \in BoardIds \union {0}
  PROVE  [NewRow EXCEPT !.board = b] \in Stored
<1>1. \A r \in Row, c \in BOOLEAN, n \in Nat :
        n # 0 => [r EXCEPT !.text = n, !.live = c, !.version = n] \in Stored
  BY DEF Stored, Row
<1>2. NewRow \in Stored
  <2>1. TRUE \in BOOLEAN /\ 1 \in Nat /\ 1 # 0
    OBVIOUS
  <2> QED
    BY <1>1, <2>1, Empties DEF NewRow
<1>3. \A r \in Stored : [r EXCEPT !.board = b] \in Stored
  BY DEF Stored, Row
<1> QED
  BY <1>2, <1>3

LEMMA EffectOK ==
  ASSUME StoreOK(store), NEW t, TaskShape(t), Permitted(t),
         Account(t) # 0 \/ t.url \in NeedsNoLogin
  PROVE  LET q == Effect(store, t, Account(t)) IN
         /\ StoreOK(q) /\ store.accepted \subseteq q.accepted
         /\ t.url = "put" => t.row.text \in q.accepted
         /\ t.url = "comment" => t.keep.comment \in q.accepted
<1> DEFINE u == Account(t)
           q == Effect(store, t, u)
           old == IF t.ticket \in DOMAIN store.rows THEN store.rows[t.ticket] ELSE NoRow
           Fine(s) == StoreOK(s) /\ store.accepted \subseteq s.accepted
<1>1. IsRows(store.rows)
  BY StoreShape
<1>2. ASSUME t.url \in {"put", "move", "comment", "duplicate", "trash", "restore"}
      PROVE  t.ticket \in Ids /\ old \in Stored /\ old = store.rows[t.ticket]
  BY <1>1, <1>2 DEF Permitted, IsRows
<1>3. CASE t.url = "put"
  <2> DEFINE row == [t.row EXCEPT !.live = old.live, !.version = old.version]
  <2>1. q = Accepts(WithRow(store, t.ticket, row), t.row.text)
    BY <1>3 DEF Effect
  <2>2. old \in Stored /\ t.row \in Row /\ t.row.text # 0 /\ t.ticket \in Ids
    BY <1>2, <1>3 DEF TaskShape
  <2> HIDE DEF old
  <2>3. row \in Stored
    BY <2>2 DEF Stored, Row
  <2> HIDE DEF row
  <2>4. StoreOK(WithRow(store, t.ticket, row))
        /\ WithRow(store, t.ticket, row).accepted = store.accepted
    BY <2>2, <2>3, WithRowOK
  <2> QED
    BY <1>3, <2>1, <2>4, AcceptsOK
<1>4. CASE t.url = "move"
  <2> DEFINE row == [old EXCEPT !.done = ~old.done]
  <2>1. q = WithRow(store, t.ticket, row)
    BY <1>4 DEF Effect
  <2>2. old \in Stored /\ t.ticket \in Ids
    BY <1>2, <1>4
  <2> HIDE DEF old
  <2>3. row \in Stored
    BY <2>2 DEF Stored, Row
  <2> QED
    BY <1>4, <2>1, <2>2, <2>3, WithRowOK
<1>5. CASE t.url = "comment"
  <2>1. q = Accepts(store, t.keep.comment)
    BY <1>5 DEF Effect
  <2> QED
    BY <1>5, <2>1, AcceptsOK
<1>6. CASE t.url \in {"trash", "restore"}
  <2> DEFINE row(b) == [old EXCEPT !.live = b]
  <2>1. q = WithRow(store, t.ticket, row(FALSE)) \/ q = WithRow(store, t.ticket, row(TRUE))
    BY <1>6 DEF Effect
  <2>2. old \in Stored /\ t.ticket \in Ids
    BY <1>2, <1>6
  <2> HIDE DEF old
  <2>3. row(TRUE) \in Stored /\ row(FALSE) \in Stored
    BY <2>2 DEF Stored, Row
  <2> HIDE DEF row
  <2>4. Fine(WithRow(store, t.ticket, row(FALSE))) /\ Fine(WithRow(store, t.ticket, row(TRUE)))
    BY <2>2, <2>3, WithRowOK
  <2> QED
    BY <1>6, <2>1, <2>4
<1>7. CASE t.url = "duplicate"
  <2>1. q = WithRow(store, NextId, old)
    BY <1>7 DEF Effect
  <2>2. old \in Stored /\ NextId \in Ids
    BY <1>2, <1>7 DEF Permitted
  <2> HIDE DEF old
  <2> QED
    BY <1>7, <2>1, <2>2, WithRowOK
<1>8. CASE t.url = "create"
  <2> DEFINE row == [NewRow EXCEPT !.board = t.board]
  <2>1. q = WithRow(store, NextId, row)
    BY <1>8 DEF Effect
  <2>2. t.board \in BoardIds \union {0} /\ NextId \in Ids
    BY <1>8 DEF Permitted, TaskShape
  <2>3. row \in Stored
    BY <2>2, NewRowStored
  <2> QED
    BY <1>8, <2>1, <2>2, <2>3, WithRowOK
<1>9. CASE t.url = "board"
  <2> DEFINE access == [store.access EXCEPT ![u] = store.access[u] \union {NextBoard}]
             s == [store EXCEPT !.access = access]
  <2>1. q = s
    BY <1>9 DEF Effect
  <2>2. u \in Users /\ NextBoard \in BoardIds
    BY <1>9, AccountIsUser DEF NeedsNoLogin, Permitted
  <2>3. access \in [Users -> SUBSET BoardIds]
    BY <2>2, StoreShape
  <2> HIDE DEF access
  <2>4. /\ s = [f \in StoreFields |-> s[f]] /\ s.rows = store.rows /\ s.accepted = store.accepted
        /\ s.access = access /\ s.owner = store.owner /\ s.live = store.live
    BY StoreShape DEF StoreFields
  <2> HIDE DEF s
  <2>5. StoreOK(s)
    BY <2>3, <2>4, StoreShape DEF StoreOK, StoreFields
  <2> QED
    BY <1>9, <2>1, <2>4, <2>5
<1>10. CASE t.url = "login"
  <2>1. q = WithSession(store, t.ask)
    BY <1>10 DEF Effect
  <2>2. t.ask \in Users
    BY <1>10 DEF TaskShape
  <2> QED
    BY <1>10, <2>1, <2>2, SessionOK
<1>11. CASE t.url = "logout"
  <2>1. q = WithoutSession(store, t.as)
    BY <1>11 DEF Effect
  <2> QED
    BY <1>11, <2>1, SessionOK
<1>12. CASE t.url = "password"
  <2> DEFINE s == WithoutSession(store, t.as)
  <2>1. q = WithSession(s, u)
    BY <1>12 DEF Effect
  <2>2. u \in Users
    BY <1>12, AccountIsUser DEF NeedsNoLogin
  <2>3. StoreOK(s) /\ s.accepted = store.accepted
    BY SessionOK
  <2> HIDE DEF s
  <2>4. StoreOK(WithSession(s, u)) /\ WithSession(s, u).accepted = s.accepted
    BY <2>2, <2>3, SessionOK
  <2> QED
    BY <1>12, <2>1, <2>3, <2>4
<1>13. CASE t.url \notin {"put", "move", "comment", "trash", "restore", "duplicate", "create", "board",
                          "login", "logout", "password"}
  <2>1. q = store
    BY <1>13 DEF Effect
  <2> QED
    BY <1>13, <2>1
<1> QED
  BY <1>3, <1>4, <1>5, <1>6, <1>7, <1>8, <1>9, <1>10, <1>11, <1>12, <1>13

(* The first of some boards.                                               *)
LEMMA FirstBoard ==
  ASSUME NEW S \in SUBSET BoardIds, S # {}
  PROVE  (CHOOSE x \in S : \A y \in S : x <= y) \in S
<1> DEFINE below(x) == {y \in S : y < x}
           W == {below(x) : x \in S}
<1>1. S \subseteq Nat /\ IsFiniteSet(S)
  <2>1. MaxBoards \in Int /\ 1 \in Int
    BY FrontendAssumption
  <2>2. IsFiniteSet(BoardIds)
    BY <2>1, FS_Interval DEF BoardIds
  <2>3. IsFiniteSet(S)
    BY <2>2, FS_Subset
  <2>4. BoardIds \subseteq Nat
    BY <2>1 DEF BoardIds
  <2> QED
    BY <2>3, <2>4
<1>2. FiniteSubsetsOf(S) = SUBSET S
  BY <1>1, FS_FiniteSubsetsOfFinite
<1>3. W \subseteq SUBSET S /\ W # {}
  OBVIOUS
<1>4. IsWellFoundedOn(StrictSubsetOrdering(S), SUBSET S)
  BY <1>2, FS_StrictSubsetOrderingWellFounded
<1>5. \E w \in W : \A v \in W : <<v, w>> \notin StrictSubsetOrdering(S)
  BY <1>3, <1>4, WFMin
<1>6. PICK x \in S : \A z \in S : <<below(z), below(x)>> \notin StrictSubsetOrdering(S)
  BY <1>5
<1>7. ASSUME NEW y \in S, y < x
      PROVE  FALSE
  <2>1. below(y) \in SUBSET S /\ below(x) \in SUBSET S
    OBVIOUS
  <2>2. below(y) \subseteq below(x)
    <3>1. \A z \in S : z < y => z < x
      BY <1>1, <1>7
    <3> QED
      BY <3>1
  <2>3. y \in below(x) /\ y \notin below(y)
    BY <1>1, <1>7
  <2> HIDE DEF below
  <2>4. <<below(y), below(x)>> \in StrictSubsetOrdering(S)
    BY <2>1, <2>2, <2>3 DEF StrictSubsetOrdering
  <2> QED
    BY <1>6, <2>4
<1>8. \A y \in S : x <= y
  BY <1>1, <1>7
<1> QED
  BY <1>8

LEMMA AnswerOK ==
  ASSUME StoreOK(store), NEW t, TaskShape(t), Permitted(t),
         Account(t) # 0 \/ t.url \in NeedsNoLogin
  PROVE  ReplyOK(t.url, Answer(store, t, Account(t)))
<1> DEFINE u == Account(t)
           a == Answer(store, t, u)
<1>1. t.url \notin NeedsNoLogin => u \in Users
  BY AccountIsUser
<1>2. CASE t.url = "state"
  <2> DEFINE boards == store.access[u]
             b == IF t.ask \in boards \/ boards = {} THEN t.ask
                  ELSE CHOOSE x \in boards : \A y \in boards : x <= y
             board == IF boards = {} THEN 0 ELSE b
             rows == [i \in {j \in DOMAIN store.rows : store.rows[j].board = board} |->
                        store.rows[i]]
  <2>1. a = [status |-> "ok", user |-> u, board |-> board, rows |-> rows]
    BY <1>2 DEF Answer, StateOf
  <2>2. u \in Users /\ boards \in SUBSET BoardIds /\ t.ask \in BoardIds \union {0}
    BY <1>1, <1>2, StoreShape DEF NeedsNoLogin, TaskShape
  <2> HIDE DEF u
  <2>3. board \in BoardIds \union {0}
    BY <2>2, FirstBoard
  <2>4. IsRows(rows)
    BY StoreShape DEF IsRows
  <2> HIDE DEF board, rows, a
  <2> QED
    BY <1>2, <2>1, <2>2, <2>3, <2>4 DEF ReplyOK, a, u
<1>3. CASE t.url \in {"history", "notifications"}
  <2>1. a = [status |-> "ok", user |-> u] /\ u \in Users
    BY <1>1, <1>3 DEF Answer, NeedsNoLogin
  <2> HIDE DEF u
  <2> QED
    BY <1>3, <2>1 DEF ReplyOK, u
<1>4. CASE t.url \in {"duplicate", "create"}
  <2>1. a = [status |-> "ok", made |-> NextId] /\ NextId \in Nat
    BY <1>4 DEF Answer, Permitted, Ids
  <2> QED
    BY <1>4, <2>1 DEF ReplyOK
<1>5. CASE t.url = "put"
  <2>1. a = [status |-> "ok", made |-> store.rows[t.ticket].version + 1]
    BY <1>5 DEF Answer
  <2> QED
    BY <1>5, <2>1 DEF ReplyOK
<1>6. CASE t.url = "board"
  <2>1. a = [status |-> "ok", made |-> NextBoard] /\ NextBoard \in BoardIds
    BY <1>6 DEF Answer, Permitted
  <2> QED
    BY <1>6, <2>1 DEF ReplyOK
<1>7. CASE t.url \in {"login", "password"}
  <2>1. a = [status |-> "ok", made |-> Len(store.owner) + 1]
    BY <1>7 DEF Answer
  <2>2. Len(store.owner) + 1 \in Nat
    BY StoreShape
  <2> QED
    BY <1>7, <2>1, <2>2 DEF ReplyOK
<1>8. CASE t.url \notin {"state", "history", "notifications", "duplicate", "create", "put", "board",
                         "login", "password"}
  <2>1. a = [status |-> "ok"]
    BY <1>8 DEF Answer
  <2> QED
    BY <1>8, <2>1 DEF ReplyOK
<1> QED
  BY <1>2, <1>3, <1>4, <1>5, <1>6, <1>7, <1>8

(* The server acts, refuses or fails: the page does not change but for the *)
(* answer, and what the server has stored it keeps.                        *)
LEMMA NetworkHandled ==
  ASSUME FrontendInv, Network
  PROVE  /\ Good(page', {}) /\ StoreOK(store') /\ Truthful(page', store')
         /\ page'.session = page.session /\ Typed(page') = Typed(page)
         /\ store.accepted \subseteq store'.accepted /\ waived' = FALSE
<1>1. Good(page, {}) /\ StoreOK(store) /\ Truthful(page, store)
  BY DEF FrontendInv
<1>2. PICK t \in Waiting : Serve(t) \/ Refuse(t) \/ Fail(t)
  BY DEF Network
<1>3. t \in page.tasks /\ TaskShape(t)
  BY <1>1, UnderWay DEF Waiting
<1>4. ASSUME NEW r, Replies(t, r), ReplyOK(t.url, r), StoreOK(store'),
             store.accepted \subseteq store'.accepted,
             r.status = "ok" => /\ t.url = "put" => t.row.text \in store'.accepted
                                /\ t.url = "comment" => t.keep.comment \in store'.accepted
      PROVE  /\ Good(page', {}) /\ StoreOK(store') /\ Truthful(page', store')
             /\ page'.session = page.session /\ Typed(page') = Typed(page)
             /\ store.accepted \subseteq store'.accepted
  <2> DEFINE u == [t EXCEPT !.reply = r]
             q == [page EXCEPT !.tasks = (page.tasks \ {t}) \union {u}]
  <2>1. page' = q
    BY <1>4 DEF Replies
  <2>2. /\ Good(q, {}) /\ q.session = page.session /\ Typed(q) = Typed(page)
        /\ q.tasks = (page.tasks \ {t}) \union {u} /\ u.reply = r /\ u.url = t.url
        /\ u.row = t.row /\ u.keep = t.keep
    BY <1>1, <1>3, <1>4, GoodReply
  <2> HIDE DEF q, u
  <2>3. Truthful(q, store')
    BY <1>1, <1>4, <2>2 DEF Truthful
  <2> QED
    BY <1>4, <2>1, <2>2, <2>3
<1>5. CASE Serve(t)
  <2> DEFINE r == Answer(store, t, Account(t))
             s == Effect(store, t, Account(t))
  <2>1. /\ Account(t) # 0 \/ t.url \in NeedsNoLogin
        /\ Permitted(t) /\ store' = s /\ Replies(t, r)
    BY <1>5 DEF Serve
  <2>2. ReplyOK(t.url, r)
    BY <1>1, <1>3, <2>1, AnswerOK
  <2>3. /\ StoreOK(s) /\ store.accepted \subseteq s.accepted
        /\ t.url = "put" => t.row.text \in s.accepted
        /\ t.url = "comment" => t.keep.comment \in s.accepted
    BY <1>1, <1>3, <2>1, EffectOK
  <2> HIDE DEF r, s
  <2> QED
    BY <1>2, <1>4, <2>1, <2>2, <2>3 DEF Network
<1>6. CASE Refuse(t)
  <2>1. Replies(t, [status |-> "denied"]) /\ store' = store
    BY <1>6 DEF Refuse
  <2>2. ReplyOK(t.url, [status |-> "denied"])
    BY DEF ReplyOK
  <2> QED
    BY <1>1, <1>4, <2>1, <2>2 DEF Network
<1>7. CASE Fail(t)
  <2>1. Replies(t, [status |-> "failed"])
    BY <1>7 DEF Fail
  <2>2. ReplyOK(t.url, [status |-> "failed"])
    BY DEF ReplyOK
  <2>3. \/ store' = store
        \/ /\ Account(t) # 0 \/ t.url \in NeedsNoLogin
           /\ Permitted(t) /\ store' = Effect(store, t, Account(t))
    BY <1>7 DEF Fail
  <2>4. StoreOK(store') /\ store.accepted \subseteq store'.accepted
    <3>1. CASE store' = store
      BY <1>1, <3>1
    <3>2. CASE /\ Account(t) # 0 \/ t.url \in NeedsNoLogin
               /\ Permitted(t) /\ store' = Effect(store, t, Account(t))
      BY <1>1, <1>3, <3>2, EffectOK
    <3> QED
      BY <2>3, <3>1, <3>2
  <2> QED
    BY <1>4, <2>1, <2>2, <2>4 DEF Network
<1> QED
  BY <1>2, <1>5, <1>6, <1>7

-----------------------------------------------------------------------------
(* The user: a step gives up input only where the user was asked (w), or   *)
(* with the session.                                                       *)

Acted(p, q, w) ==
  /\ Good(q, {})
  /\ \A u \in q.tasks : u \in p.tasks \/ u.reply = NoReply
  /\ \/ q.session > p.session /\ Typed(q) \in {Typed(p), {}}
     \/ q.session = p.session /\ (w \/ Typed(p) \subseteq Typed(q))

(* The editor is left for something else.                                  *)
LEMMA Left ==
  ASSUME NEW p, NEW q, Good(p, {}), Good(q, {}), Follows(ResetDrawer(p), q)
  PROVE  Acted(p, q, Dirty(p))
<1> DEFINE r == ResetDrawer(p)
<1>1. Typed(r) = {} /\ r.tasks = p.tasks /\ r.session = p.session
  BY GoodReset
<1> HIDE DEF r
<1>2. ~Dirty(p) => Typed(p) = {}
  BY CleanIsEmpty DEF Good
<1>3. Follows(r, q)
  BY DEF r
<1>4. \A u \in q.tasks : u \in p.tasks \/ u.reply = NoReply
  BY <1>1, <1>3 DEF Follows
<1>5. \/ q.session = p.session /\ Typed(q) = {}
      \/ q.session > p.session /\ Typed(q) = {}
  BY <1>1, <1>3 DEF Follows
<1> QED
  BY <1>2, <1>4, <1>5 DEF Acted

LEMMA Stayed ==
  ASSUME NEW p, NEW q, Good(q, {}), Follows(p, q), NEW w
  PROVE  Acted(p, q, w)
<1>1. \A u \in q.tasks : u \in p.tasks \/ u.reply = NoReply
  BY DEF Follows
<1> QED
  BY <1>1 DEF Follows, Acted

(* Without an editor a ticket may wait to be opened.                       *)
LEMMA GoodQueued ==
  ASSUME NEW p, NEW q, NEW F, Good(p, {}), p.editing = 0, PageShape(q), Changes(p, q, F),
         F \intersect (Core \ {"queued"}) = {}
  PROVE  Good(q, {}) /\ Follows(p, q)
<1>1. \A f \in Core \ {"queued"} : f \in PageFields \ F
  BY DEF Core, PageFields
<1>2. \A f \in Core \ {"queued"} : q[f] = p[f]
  BY <1>1 DEF Changes
<1>3. /\ q.tasks = p.tasks /\ q.pending = p.pending /\ q.session = p.session
      /\ q.serial = p.serial /\ q.mutation = p.mutation /\ q.editing = p.editing
      /\ q.editGen = p.editGen /\ q.draft = p.draft /\ q.base = p.base
  BY <1>2 DEF Core
<1>4. Good(q, {})
  BY <1>3 DEF Good, TasksOK, IdsUnique, WritersBind, Alive, EditorHolds, MutationRuns,
              QueueWaits, HasText, DraftRests, Held, IsCurrentDrawer, Dirty
<1> QED
  BY <1>4, FollowsFields

(* The arguments of a function that starts.                                *)
Arguments == {"ticket", "row", "board", "keep", "todo", "generation", "ask"}

LEMMA FreshChanged ==
  ASSUME NEW op, NEW url, <<op, url>> \in Calls, NEW t, IsTask(t),
         \A f \in TaskFields \ Arguments : t[f] = Task(op, url)[f],
         t.ticket \in Ids \union {0}, t.row \in Row, t.board \in BoardIds \union {0},
         t.keep \in Fields, t.todo \in Seq(Promotion), t.generation \in Nat,
         op \in Binders => t.ticket \in Ids,
         url = "login" => t.ask \in Users,
         url = "put" => t.row.text # 0,
         op = "save" => t.row.text = t.keep.text,
         op \in {"trash", "duplicate"} => t.keep \in Baseline
  PROVE  Fresh(t) /\ t.op = op /\ t.url = url
<1> DEFINE w == Task(op, url)
<1>1. /\ w.op = op /\ w.url = url /\ w.reply = NoReply
      /\ w.session = 0 /\ w.editor = 0 /\ w.sent = 0 /\ w.as = 0 /\ w.made = 0
  BY TaskStarts
<1> HIDE DEF w
<1>2. \A f \in TaskFields \ Arguments : t[f] = w[f]
  BY DEF w
<1>3. /\ t.op = op /\ t.url = url /\ t.reply = NoReply
      /\ t.session = 0 /\ t.editor = 0 /\ t.sent = 0 /\ t.as = 0 /\ t.made = 0
  BY <1>1, <1>2 DEF TaskFields, Arguments
<1>4. Fresh(t)
  BY <1>3, FreshByData
<1> QED
  BY <1>3, <1>4

LEMMA FreshPlain ==
  ASSUME NEW op, NEW url, <<op, url>> \in Calls, op \notin Binders, url \notin {"put", "login"}
  PROVE  LET t == Task(op, url) IN Fresh(t) /\ t.op = op /\ t.url = url
<1> DEFINE t == Task(op, url)
<1>1. /\ IsTask(t) /\ t.op = op /\ t.url = url /\ t.reply = NoReply
      /\ t.session = 0 /\ t.editor = 0 /\ t.sent = 0 /\ t.as = 0 /\ t.made = 0
      /\ t.generation = 0 /\ t.ticket = 0 /\ t.row = NoRow /\ t.board = 0
      /\ t.keep = Blank /\ t.todo = << >>
  BY TaskStarts
<1> HIDE DEF t
<1>2. 0 \in Nat /\ op \notin {"save", "trash", "duplicate"}
  BY DEF Binders, EditorOps
<1>3. Fresh(t)
  BY <1>1, <1>2, Empties, FreshByData
<1> QED
  BY <1>1, <1>3 DEF t

(* Calls that concern no editor.                                           *)
LEMMA PlainSent ==
  ASSUME NEW p, Good(p, {}), NEW t, Fresh(t), t.op \notin Binders
  PROVE  LET q == Send(p, t) IN Good(q, {}) /\ Follows(p, q) /\ q.session = p.session
<1>1. Good(Send(p, t), {}) /\ Follows(p, Send(p, t))
  BY GoodSend, SendFollows DEF Good
<1>2. Changes(p, Send(p, t), {"tasks", "serial"})
  BY SendFrame DEF Good
<1>3. Send(p, t).session = p.session
  BY <1>2 DEF Changes, PageFields
<1> QED
  BY <1>1, <1>3

(* The page once its editor is left and fields F are set.                  *)
LEMMA Prepared ==
  ASSUME NEW p, Good(p, {}), NEW m, NEW F, Changes(ResetDrawer(p), m, F),
         F \intersect (Core \ {"queued"}) = {}, \A f \in F : FieldOK(f, m[f])
  PROVE  Good(m, {}) /\ Follows(ResetDrawer(p), m)
<1> DEFINE r == ResetDrawer(p)
<1>1. Good(r, {}) /\ r.editing = 0
  BY GoodReset
<1>2. Changes(r, m, F)
  OBVIOUS
<1> HIDE DEF r
<1>3. PageShape(m)
  BY <1>1, <1>2, ChangedShape DEF Good
<1>4. Good(m, {}) /\ Follows(r, m)
  BY <1>1, <1>2, <1>3, GoodQueued
<1> QED
  BY <1>4 DEF r

LEMMA LeftBy ==
  ASSUME NEW p, NEW m, NEW q, Good(p, {}), Good(m, {}), Good(q, {}),
         Follows(ResetDrawer(p), m), Follows(m, q)
  PROVE  Acted(p, q, Dirty(p))
<1>1. Good(ResetDrawer(p), {})
  BY GoodReset
<1>2. Follows(ResetDrawer(p), q)
  BY <1>1, FollowsCompose DEF Good
<1> QED
  BY <1>2, Left

LEMMA ChooseBoardActs ==
  ASSUME Good(page, {}), NEW b \in BoardIds, ChooseBoard(b)
  PROVE  Acted(page, page', waived')
<1> DEFINE r == ResetDrawer(page)
           m == [r EXCEPT !.selected = b]
<1>1. page' = LoadNow(m) /\ waived' = Dirty(page)
  BY DEF ChooseBoard, Leaves
<1>2. PageShape(r)
  BY ResetDrawerFrame DEF Good
<1> HIDE DEF r
<1>3. Changes(r, m, {"selected"}) /\ m.selected = b
  BY <1>2 DEF PageShape, IsPage, PageFields, Changes
<1> HIDE DEF m
<1>4. Good(m, {}) /\ Follows(ResetDrawer(page), m)
  BY <1>3, Prepared DEF r, FieldOK, Core
<1>5. Good(LoadNow(m), {}) /\ Follows(m, LoadNow(m))
  BY <1>4, GoodLoadNow
<1> QED
  BY <1>1, <1>4, <1>5, LeftBy

LEMMA RouteTypes ==
  ASSUME NEW r \in Routes
  PROVE  r.board \in BoardIds \union {0} /\ r.ticket \in Ids \union {0} /\ r.view \in Views
BY FrontendAssumption DEF Views

LEMMA ApplyRouteActs ==
  ASSUME Good(page, {}), NEW r \in Routes, ApplyRoute(r)
  PROVE  Acted(page, page', waived')
<1> DEFINE board == IF r.board # 0 THEN r.board
                    ELSE IF page.board # 0 THEN page.board ELSE page.selected
           d == ResetDrawer(page)
           gen == IF board # page.selected THEN d.loadGen + 1 ELSE d.loadGen
           m == [d EXCEPT !.loadGen = gen, !.selected = board, !.view = r.view,
                          !.queued = r.ticket]
           F == {"loadGen", "selected", "view", "queued"}
<1>1. page' \in {LoadNow(m), Render(m)} /\ waived' = Dirty(page)
  BY DEF ApplyRoute, Leaves
<1>2. PageShape(d)
  BY ResetDrawerFrame DEF Good
<1>3. board \in BoardIds \union {0}
  BY RouteTypes, ShapeFields DEF Good
<1> HIDE DEF d, board
<1>4. gen \in Nat
  BY <1>2, ShapeFields
<1> HIDE DEF gen
<1>5. /\ Changes(d, m, F) /\ m.loadGen = gen /\ m.selected = board /\ m.view = r.view
      /\ m.queued = r.ticket
  BY <1>2 DEF PageShape, IsPage, PageFields, Changes
<1> HIDE DEF m
<1>6. \A f \in F : FieldOK(f, m[f])
  BY <1>3, <1>4, <1>5, RouteTypes DEF FieldOK
<1>7. F \intersect (Core \ {"queued"}) = {}
  BY DEF Core
<1>8. Good(m, {}) /\ Follows(ResetDrawer(page), m)
  BY <1>5, <1>6, <1>7, Prepared DEF d
<1>9. /\ Good(LoadNow(m), {}) /\ Follows(m, LoadNow(m))
      /\ Good(Render(m), {}) /\ Follows(m, Render(m))
  BY <1>8, GoodLoadNow, GoodRender
<1> QED
  BY <1>1, <1>8, <1>9, LeftBy

LEMMA NavButtonActs ==
  ASSUME Good(page, {}), NEW view \in Views, NavButton(view)
  PROVE  Acted(page, page', waived')
<1> DEFINE r == ResetDrawer(page)
           m == [r EXCEPT !.view = view]
<1>1. page' = RenderView(m) /\ waived' = Dirty(page)
  BY DEF NavButton, Leaves
<1>2. PageShape(r)
  BY ResetDrawerFrame DEF Good
<1> HIDE DEF r
<1>3. Changes(r, m, {"view"}) /\ m.view = view
  BY <1>2 DEF PageShape, IsPage, PageFields, Changes
<1> HIDE DEF m
<1>4. Good(m, {}) /\ Follows(ResetDrawer(page), m)
  BY <1>3, Prepared DEF r, FieldOK, Core
<1>5. Good(RenderView(m), {}) /\ Follows(m, RenderView(m))
  BY <1>4, GoodRenderView
<1> QED
  BY <1>1, <1>4, <1>5, LeftBy

LEMMA ClickNotificationActs ==
  ASSUME Good(page, {}), StoreOK(store), NEW i \in Ids, ClickNotification(i)
  PROVE  Acted(page, page', waived')
<1> DEFINE r == ResetDrawer(page)
           b == store.rows[i].board
           m == [r EXCEPT !.selected = b, !.queued = i, !.view = "board",
                          !.loadGen = r.loadGen + 1]
           t == Task("notification", "read")
           F == {"selected", "queued", "view", "loadGen"}
<1>1. page' = Send(m, t) /\ waived' = Dirty(page) /\ i \in DOMAIN store.rows
  BY DEF ClickNotification, Leaves
<1>2. PageShape(r)
  BY ResetDrawerFrame DEF Good
<1>3. b \in BoardIds \union {0}
  BY <1>1, StoreShape DEF IsRows, Stored, Row
<1> HIDE DEF r, b
<1>4. r.loadGen + 1 \in Nat
  BY <1>2, ShapeFields
<1>5. /\ Changes(r, m, F) /\ m.selected = b /\ m.queued = i /\ m.view = "board"
      /\ m.loadGen = r.loadGen + 1
  BY <1>2 DEF PageShape, IsPage, PageFields, Changes
<1> HIDE DEF m
<1>6. \A f \in F : FieldOK(f, m[f])
  BY <1>3, <1>4, <1>5 DEF FieldOK, Views
<1>7. F \intersect (Core \ {"queued"}) = {}
  BY DEF Core
<1>8. Good(m, {}) /\ Follows(ResetDrawer(page), m)
  BY <1>5, <1>6, <1>7, Prepared DEF r
<1>9. Fresh(t) /\ t.op \notin Binders
  BY FreshPlain DEF Calls, Binders, EditorOps
<1> HIDE DEF t
<1>10. Good(Send(m, t), {}) /\ Follows(m, Send(m, t))
  BY <1>8, <1>9, PlainSent
<1> QED
  BY <1>1, <1>8, <1>10, LeftBy

(* Creating a board and importing a file.                                  *)
LEMMA LeavingCallActs ==
  ASSUME NEW p, Good(p, {}), NEW t, Fresh(t), t.op \notin Binders
  PROVE  Acted(p, Send(ResetDrawer(p), t), Dirty(p))
<1>1. Good(ResetDrawer(p), {})
  BY GoodReset
<1>2. Good(Send(ResetDrawer(p), t), {}) /\ Follows(ResetDrawer(p), Send(ResetDrawer(p), t))
  BY <1>1, PlainSent
<1> QED
  BY <1>2, Left

LEMMA NavigateActs ==
  ASSUME Good(page, {}), StoreOK(store), Navigate
  PROVE  Acted(page, page', waived') /\ store' = store
<1>1. CASE \E b \in BoardIds : ChooseBoard(b)
  BY <1>1, ChooseBoardActs DEF ChooseBoard, Does
<1>2. CASE \E r \in Routes : ApplyRoute(r)
  BY <1>2, ApplyRouteActs DEF ApplyRoute, Does
<1>3. CASE \E view \in Views : NavButton(view)
  BY <1>3, NavButtonActs DEF NavButton, Does
<1>4. CASE \E i \in Ids : ClickNotification(i)
  BY <1>4, ClickNotificationActs DEF ClickNotification, Does
<1>5. CASE ClickCreateBoard
  <2> DEFINE t == Task("newBoard", "board")
  <2>1. Fresh(t) /\ t.op \notin Binders
    BY FreshPlain DEF Calls, Binders, EditorOps
  <2>2. page' = Send(ResetDrawer(page), t) /\ waived' = Dirty(page) /\ store' = store
    BY <1>5 DEF ClickCreateBoard, Leaves, Does
  <2> HIDE DEF t
  <2> QED
    BY <2>1, <2>2, LeavingCallActs
<1> QED
  BY <1>1, <1>2, <1>3, <1>4, <1>5 DEF Navigate

LEMMA OpenTicketActs ==
  ASSUME Good(page, {}), NEW i \in Ids, OpenTicket(i)
  PROVE  Acted(page, page', waived')
<1> DEFINE q == OpenEditor(page, i)
<1>1. page' = q /\ waived' = Dirty(page) /\ i \in DOMAIN page.rows /\ ~Held(page, i)
  BY DEF OpenTicket, Leaves, CanOpen
<1>2. /\ PageShape(q)
      /\ Changes(page, q, {"editGen", "editing", "clone", "mutation", "draft", "base", "queued"})
      /\ q.editGen = page.editGen + 1 /\ q.editing = i /\ q.mutation = 0
      /\ q.draft.text # 0 /\ q.queued = 0
  BY <1>1, OpenEditorFrame DEF Good
<1> HIDE DEF q
<1>3. Good(q, {})
  BY <1>1, <1>2, GoodNewEditor
<1>4. q.tasks = page.tasks /\ q.session = page.session
  BY <1>2 DEF Changes, PageFields
<1>5. ~Dirty(page) => Typed(page) = {}
  BY CleanIsEmpty DEF Good
<1> QED
  BY <1>1, <1>3, <1>4, <1>5 DEF Acted

(* Typing, while the editor has no request under way.                      *)
LEMMA GoodTyping ==
  ASSUME NEW p, Good(p, {}), p.editing # 0, p.mutation = 0, NEW q, PageShape(q),
         Changes(p, q, {"serial", "draft"}), q.serial = p.serial + 1, q.draft.text # 0
  PROVE  /\ Good(q, {}) /\ q.tasks = p.tasks /\ q.session = p.session
         /\ q.editing = p.editing /\ q.base = p.base
<1>1. /\ q.tasks = p.tasks /\ q.pending = p.pending /\ q.session = p.session
      /\ q.mutation = p.mutation /\ q.editing = p.editing /\ q.editGen = p.editGen
      /\ q.queued = p.queued /\ q.base = p.base
  BY DEF Changes, PageFields
<1>2. p.serial \in Nat
  BY ShapeFields DEF Good
<1>3. \A t \in p.tasks : t.id \in Nat /\ t.id # 0 /\ t.id <= p.serial
  BY DEF Good, TasksOK, TaskOK, TaskShape
<1>4. \A t \in p.tasks : t.id <= q.serial
  BY <1>2, <1>3
<1>5. TasksOK(q, {}) /\ IdsUnique(q, {})
  BY <1>1, <1>4 DEF Good, TasksOK, IdsUnique
<1>6. WritersBind(q) /\ Alive(q, {}) /\ EditorHolds(q) /\ MutationRuns(q, {}) /\ QueueWaits(q)
      /\ HasText(q)
  BY <1>1 DEF Good, WritersBind, Alive, EditorHolds, MutationRuns, QueueWaits, HasText, Held
<1>7. DraftRests(q)
  BY <1>1, <1>3 DEF Good, DraftRests, IsCurrentDrawer
<1> QED
  BY <1>1, <1>5, <1>6, <1>7 DEF Good

LEMMA TypeTextActs ==
  ASSUME Good(page, {}), TypeText
  PROVE  Acted(page, page', waived')
<1> DEFINE n == page.serial + 1
           d == [page.draft EXCEPT !.text = n]
           q == [page EXCEPT !.serial = n, !.draft = d]
<1>1. page' = q /\ page.editing # 0 /\ page.mutation = 0
  BY DEF TypeText, Good, PageShape, IsPage, PageFields
<1>2. waived' = (page.draft.text # page.base.text)
  BY DEF TypeText
<1>3. page.serial \in Nat /\ page.draft \in Fields
  BY ShapeFields DEF Good
<1>4. d \in Fields /\ d.text = n /\ d.comment = page.draft.comment /\ n \in Nat /\ n # 0
  BY <1>3 DEF Fields
<1> HIDE DEF n, d
<1>5. Changes(page, q, {"serial", "draft"}) /\ q.serial = n /\ q.draft = d
  BY DEF Good, PageShape, IsPage, PageFields, Changes
<1> HIDE DEF q
<1>6. PageShape(q)
  BY <1>4, <1>5, ChangedShape DEF Good, FieldOK
<1>7. /\ Good(q, {}) /\ q.tasks = page.tasks /\ q.session = page.session
      /\ q.editing = page.editing /\ q.base = page.base
  BY <1>1, <1>4, <1>5, <1>6, GoodTyping DEF n
<1>8. waived' \/ Typed(page) \subseteq Typed(q)
  BY <1>2, <1>4, <1>5, <1>7 DEF Typed
<1> QED
  BY <1>1, <1>7, <1>8 DEF Acted

LEMMA TypeCommentActs ==
  ASSUME Good(page, {}), TypeComment
  PROVE  Acted(page, page', waived')
<1> DEFINE n == page.serial + 1
           d == [page.draft EXCEPT !.comment = n]
           q == [page EXCEPT !.serial = n, !.draft = d]
<1>1. page' = q /\ page.editing # 0 /\ page.mutation = 0
  BY DEF TypeComment, Good, PageShape, IsPage, PageFields
<1>2. waived' = (page.draft.comment # page.base.comment)
  BY DEF TypeComment
<1>3. page.serial \in Nat /\ page.draft \in Fields /\ page.draft.text # 0
  BY <1>1, ShapeFields DEF Good, HasText
<1>4. d \in Fields /\ d.comment = n /\ d.text = page.draft.text /\ n \in Nat
  BY <1>3 DEF Fields
<1>5. q.serial = page.serial + 1
  BY DEF Good, PageShape, IsPage, PageFields
<1> HIDE DEF n, d
<1>6. Changes(page, q, {"serial", "draft"}) /\ q.serial = n /\ q.draft = d
  BY DEF Good, PageShape, IsPage, PageFields, Changes
<1> HIDE DEF q
<1>7. PageShape(q)
  BY <1>4, <1>6, ChangedShape DEF Good, FieldOK
<1>8. /\ Good(q, {}) /\ q.tasks = page.tasks /\ q.session = page.session
      /\ q.editing = page.editing /\ q.base = page.base
  BY <1>1, <1>3, <1>4, <1>5, <1>6, <1>7, GoodTyping
<1>9. waived' \/ Typed(page) \subseteq Typed(q)
  BY <1>2, <1>4, <1>6, <1>8 DEF Typed
<1> QED
  BY <1>1, <1>8, <1>9 DEF Acted

LEMMA CloseDrawerActs ==
  ASSUME Good(page, {}), CloseDrawer
  PROVE  Acted(page, page', waived')
<1>1. page' = ResetDrawer(page) /\ waived' = Dirty(page)
  BY DEF CloseDrawer, Leaves
<1>2. Good(ResetDrawer(page), {}) /\ Follows(ResetDrawer(page), ResetDrawer(page))
  BY GoodReset DEF Follows
<1> QED
  BY <1>1, <1>2, Left

(* A request of the open editor.                                           *)
LEMMA EditorCalls ==
  ASSUME NEW p, Good(p, {}), CanMutateDrawer(p), NEW op \in EditorOps, NEW url,
         <<op, url>> \in Calls, NEW t, IsTask(t),
         \A f \in TaskFields \ {"keep", "row"} : t[f] = Task(op, url)[f],
         t.keep \in Fields, t.row \in Row, url = "put" => t.row.text # 0,
         op = "save" => t.row.text = t.keep.text /\ t.keep = p.draft,
         op \in {"trash", "duplicate"} => t.keep \in Baseline /\ ~Dirty(p)
  PROVE  LET q == BeginDrawerMutation(p, t) IN Good(q, {}) /\ Follows(p, q)
<1> DEFINE w == Task(op, url)
           s == [t EXCEPT !.ticket = p.editing, !.board = p.board]
<1>1. /\ w.op = op /\ w.url = url /\ w.generation = 0 /\ w.todo = << >> /\ w.ask = 0
  BY TaskStarts
<1> HIDE DEF w
<1>2. /\ IsTask(s) /\ s.ticket = p.editing /\ s.board = p.board
      /\ \A f \in TaskFields \ {"ticket", "board"} : s[f] = t[f]
  BY DEF IsTask, TaskFields
<1> HIDE DEF s
<1>3. \A f \in TaskFields \ {"keep", "row"} : t[f] = w[f]
  BY DEF w
<1>4. t.op = op /\ t.url = url
  BY <1>1, <1>3 DEF TaskFields
<1>5. /\ s.keep = t.keep /\ s.row = t.row /\ s.generation = 0 /\ s.todo = << >>
  BY <1>1, <1>2, <1>3 DEF TaskFields
<1>6. \A f \in TaskFields \ Arguments : s[f] = Task(op, url)[f]
  <2>1. \A f \in TaskFields \ Arguments : s[f] = w[f]
    BY <1>2, <1>3 DEF Arguments
  <2> QED
    BY <2>1 DEF w
<1>7. p.editing \in Ids /\ p.board \in BoardIds \union {0}
  BY ShapeFields DEF Good, CanMutateDrawer
<1>8. url # "login"
  BY DEF Calls, EditorOps
<1>9. Fresh(s)
  <2>1. /\ s.ticket \in Ids \union {0} /\ s.row \in Row /\ s.board \in BoardIds \union {0}
        /\ s.keep \in Fields /\ s.todo \in Seq(Promotion) /\ s.generation \in Nat
        /\ op \in Binders => s.ticket \in Ids
    BY <1>2, <1>5, <1>7, Empties
  <2>2. /\ url = "put" => s.row.text # 0
        /\ op = "save" => s.row.text = s.keep.text
        /\ op \in {"trash", "duplicate"} => s.keep \in Baseline
    BY <1>5
  <2> QED
    BY <1>2, <1>6, <1>8, <2>1, <2>2, FreshChanged
<1> QED
  BY <1>4, <1>9, GoodBegin DEF s

LEMMA ClickSaveActs ==
  ASSUME Good(page, {}), ClickSave
  PROVE  Acted(page, page', waived')
<1> DEFINE row == [page.clone EXCEPT !.text = page.draft.text]
           w == Task("save", "put")
           t == [w EXCEPT !.keep = page.draft, !.row = row]
<1>1. page' = BeginDrawerMutation(page, t) /\ CanMutateDrawer(page)
  BY DEF ClickSave
<1>2. page.clone \in Row /\ page.draft \in Fields /\ page.draft.text # 0
  BY <1>1, ShapeFields DEF Good, HasText, CanMutateDrawer
<1>3. row \in Row /\ row.text = page.draft.text
  BY <1>2 DEF Row, Fields
<1>4. IsTask(w)
  BY TaskStarts
<1> HIDE DEF w, row
<1>5. /\ IsTask(t) /\ t.keep = page.draft /\ t.row = row
      /\ \A f \in TaskFields \ {"keep", "row"} : t[f] = w[f]
  BY <1>4 DEF IsTask, TaskFields
<1> HIDE DEF t
<1>6. "save" \in EditorOps /\ <<"save", "put">> \in Calls
  BY DEF EditorOps, Calls
<1>7. Good(page', {}) /\ Follows(page, page')
  BY <1>1, <1>2, <1>3, <1>5, <1>6, EditorCalls DEF w
<1> QED
  BY <1>7, Stayed

LEMMA ClickCommentActs ==
  ASSUME Good(page, {}), ClickComment
  PROVE  Acted(page, page', waived')
<1> DEFINE w == Task("comment", "comment")
           t == [w EXCEPT !.keep = page.draft]
<1>1. page' = BeginDrawerMutation(page, t) /\ CanMutateDrawer(page)
  BY DEF ClickComment
<1>2. page.draft \in Fields
  BY ShapeFields DEF Good
<1>3. IsTask(w) /\ w.row = NoRow
  BY TaskStarts
<1> HIDE DEF w
<1>4. /\ IsTask(t) /\ t.keep = page.draft /\ t.row = NoRow
      /\ \A f \in TaskFields \ {"keep", "row"} : t[f] = w[f]
  BY <1>3 DEF IsTask, TaskFields
<1> HIDE DEF t
<1>5. "comment" \in EditorOps /\ <<"comment", "comment">> \in Calls
  BY DEF EditorOps, Calls
<1>6. Good(page', {}) /\ Follows(page, page')
  BY <1>1, <1>2, <1>4, <1>5, Empties, EditorCalls DEF w
<1> QED
  BY <1>6, Stayed

(* Trash and duplicate take the baseline along; from here on nothing in    *)
(* the editor is protected.                                                *)
LEMMA ClickActionActs ==
  ASSUME Good(page, {}), NEW op \in {"trash", "duplicate"}, ClickAction(op)
  PROVE  Acted(page, page', waived')
<1> DEFINE base == IF Dirty(page) THEN Blank ELSE page.base
           m == [page EXCEPT !.base = base]
           w == Task(op, op)
           t == [w EXCEPT !.keep = page.base]
<1>1. page' = BeginDrawerMutation(m, t) /\ waived' = Dirty(page) /\ CanMutateDrawer(page)
  BY DEF ClickAction, Leaves
<1>2. page.base \in Baseline /\ page.base \in Fields /\ base \in Baseline
  BY ShapeFields, Empties DEF Good, Baseline, Fields
<1>3. Changes(page, m, {"base"}) /\ m.base = base
  BY DEF Good, PageShape, IsPage, PageFields, Changes
<1> HIDE DEF m
<1>4. PageShape(m)
  BY <1>2, <1>3, ChangedShape DEF Good, FieldOK
<1>5. /\ m.tasks = page.tasks /\ m.pending = page.pending /\ m.session = page.session
      /\ m.serial = page.serial /\ m.mutation = page.mutation /\ m.editing = page.editing
      /\ m.editGen = page.editGen /\ m.queued = page.queued /\ m.draft = page.draft
  BY <1>3 DEF Changes, PageFields
<1>6. \A u \in page.tasks : u.id # 0
  BY DEF Good, TasksOK, TaskOK, TaskShape
<1>7. page.mutation = 0 /\ CanMutateDrawer(m)
  BY <1>1, <1>5 DEF CanMutateDrawer, Held
<1>8. DraftRests(m)
  BY <1>5, <1>6, <1>7 DEF Good, DraftRests, IsCurrentDrawer
<1>9. /\ TasksOK(m, {}) /\ IdsUnique(m, {}) /\ WritersBind(m) /\ Alive(m, {})
      /\ EditorHolds(m) /\ MutationRuns(m, {}) /\ QueueWaits(m) /\ HasText(m)
  BY <1>5 DEF Good, TasksOK, IdsUnique, WritersBind, Alive, EditorHolds, MutationRuns,
              QueueWaits, HasText, Held
<1>10. Good(m, {})
  BY <1>4, <1>8, <1>9 DEF Good
<1>11. ~Dirty(m) /\ (~Dirty(page) => Typed(page) = {})
  BY <1>3, <1>5, CleanIsEmpty DEF Good, Dirty
<1>12. IsTask(w) /\ w.row = NoRow
  BY TaskStarts
<1> HIDE DEF w
<1>13. /\ IsTask(t) /\ t.keep = page.base /\ t.row = NoRow
       /\ \A f \in TaskFields \ {"keep", "row"} : t[f] = w[f]
  BY <1>12 DEF IsTask, TaskFields
<1> HIDE DEF t
<1>14. op \in EditorOps /\ <<op, op>> \in Calls /\ op # "put" /\ op # "save"
  BY DEF EditorOps, Calls
<1>15. Good(page', {}) /\ Follows(m, page')
  BY <1>1, <1>2, <1>7, <1>10, <1>11, <1>13, <1>14, Empties, EditorCalls DEF w
<1>16. Typed(m) = {}
  BY <1>4, <1>11, CleanIsEmpty
<1> QED
  BY <1>1, <1>5, <1>11, <1>15, <1>16 DEF Acted, Follows

LEMMA EditActs ==
  ASSUME Good(page, {}), Edit
  PROVE  Acted(page, page', waived') /\ store' = store
<1>1. CASE \E i \in Ids : OpenTicket(i)
  BY <1>1, OpenTicketActs DEF OpenTicket, Does
<1>2. CASE TypeText
  BY <1>2, TypeTextActs DEF TypeText, Does
<1>3. CASE TypeComment
  BY <1>3, TypeCommentActs DEF TypeComment, Does
<1>4. CASE CloseDrawer
  BY <1>4, CloseDrawerActs DEF CloseDrawer, Does
<1>5. CASE ClickSave
  BY <1>5, ClickSaveActs DEF ClickSave, Does
<1>6. CASE ClickComment
  BY <1>6, ClickCommentActs DEF ClickComment, Does
<1>7. CASE \E op \in {"trash", "duplicate"} : ClickAction(op)
  BY <1>7, ClickActionActs DEF ClickAction, Does
<1> QED
  BY <1>1, <1>2, <1>3, <1>4, <1>5, <1>6, <1>7 DEF Edit

(* A function that starts by binding ticket i, for a card or an Epic.      *)
LEMMA CardCalls ==
  ASSUME NEW p, Good(p, {}), NEW i \in Ids, ~Held(p, i), NEW op \in {"move", "epic"}, NEW url,
         <<op, url>> \in Calls, NEW t, IsTask(t),
         \A f \in TaskFields \ {"row"} : t[f] = Task(op, url)[f],
         t.row \in Row, url = "put" => t.row.text # 0
  PROVE  Acted(p, BindTicket(ResetDrawer(p), i, t), Dirty(p))
<1> DEFINE r == ResetDrawer(p)
           w == Task(op, url)
           s == [t EXCEPT !.ticket = i, !.board = r.board]
<1>1. /\ w.op = op /\ w.url = url /\ w.keep = Blank /\ w.generation = 0 /\ w.todo = << >>
  BY TaskStarts
<1> HIDE DEF w
<1>2. Good(r, {}) /\ r.editing = 0 /\ r.session = p.session /\ r.pending = p.pending
  BY GoodReset
<1> HIDE DEF r
<1>3. /\ IsTask(s) /\ s.ticket = i /\ s.board = r.board
      /\ \A f \in TaskFields \ {"ticket", "board"} : s[f] = t[f]
  BY DEF IsTask, TaskFields
<1> HIDE DEF s
<1>4. \A f \in TaskFields \ {"row"} : t[f] = w[f]
  BY DEF w
<1>5. /\ t.op = op /\ s.keep = Blank /\ s.row = t.row /\ s.generation = 0 /\ s.todo = << >>
  BY <1>1, <1>3, <1>4 DEF TaskFields
<1>6. \A f \in TaskFields \ Arguments : s[f] = Task(op, url)[f]
  <2>1. \A f \in TaskFields \ Arguments : s[f] = w[f]
    BY <1>3, <1>4 DEF Arguments
  <2> QED
    BY <2>1 DEF w
<1>7. /\ s.ticket \in Ids \union {0} /\ s.row \in Row /\ s.board \in BoardIds \union {0}
      /\ s.keep \in Fields /\ s.todo \in Seq(Promotion) /\ s.generation \in Nat /\ s.ticket \in Ids
  BY <1>2, <1>3, <1>5, Empties, ShapeFields DEF Good
<1>8. url # "login"
  BY DEF Calls
<1>9. url = "put" => s.row.text # 0
  BY <1>5
<1>10. op \notin {"save", "trash", "duplicate"}
  OBVIOUS
<1>11. Fresh(s)
  BY <1>3, <1>6, <1>7, <1>8, <1>9, <1>10, FreshChanged
<1>12. ~Held(r, i)
  BY <1>2 DEF Held
<1>13. Good(BindTicket(r, i, t), {}) /\ Follows(r, BindTicket(r, i, t))
  BY <1>2, <1>5, <1>11, <1>12, GoodBindTicket DEF s
<1> QED
  BY <1>13, Left DEF r

LEMMA DropCardActs ==
  ASSUME Good(page, {}), NEW i \in Ids, DropCard(i)
  PROVE  Acted(page, page', waived')
<1> DEFINE t == Task("move", "move")
<1>1. page' = BindTicket(ResetDrawer(page), i, t) /\ waived' = Dirty(page) /\ ~Held(page, i)
  BY DEF DropCard, Leaves
<1>2. IsTask(t) /\ t.row = NoRow
  BY TaskStarts
<1>3. \A f \in TaskFields \ {"row"} : t[f] = Task("move", "move")[f]
  OBVIOUS
<1> HIDE DEF t
<1>4. <<"move", "move">> \in Calls /\ "move" # "put"
  BY DEF Calls
<1> QED
  BY <1>1, <1>2, <1>3, <1>4, Empties, CardCalls

LEMMA ClickEpicStatusActs ==
  ASSUME Good(page, {}), NEW i \in Ids, ClickEpicStatus(i)
  PROVE  Acted(page, page', waived')
<1> DEFINE w == Task("epic", "put")
           row == [page.rows[i] EXCEPT !.done = ~page.rows[i].done]
           t == [w EXCEPT !.row = row]
<1>1. page' = BindTicket(ResetDrawer(page), i, t) /\ waived' = Dirty(page) /\ ~Held(page, i)
      /\ i \in DOMAIN page.rows
  BY DEF ClickEpicStatus, Leaves
<1>2. page.rows[i] \in Stored
  BY <1>1, ShapeFields DEF Good, IsRows
<1>3. row \in Row /\ row.text # 0
  BY <1>2 DEF Stored, Row
<1> HIDE DEF row
<1>4. IsTask(w)
  BY TaskStarts
<1>5. \A f \in TaskFields : w[f] = Task("epic", "put")[f]
  OBVIOUS
<1> HIDE DEF w
<1>6. IsTask(t) /\ t.row = row /\ \A f \in TaskFields \ {"row"} : t[f] = w[f]
  BY <1>4 DEF IsTask, TaskFields
<1> HIDE DEF t
<1>7. \A f \in TaskFields \ {"row"} : t[f] = Task("epic", "put")[f]
  BY <1>5, <1>6
<1>8. <<"epic", "put">> \in Calls
  BY DEF Calls
<1> QED
  BY <1>1, <1>3, <1>6, <1>7, <1>8, CardCalls

-----------------------------------------------------------------------------
(* Promotion.                                                              *)

LEMMA PromotedType ==
  ASSUME NEW rows, IsRows(rows), NEW i \in DOMAIN rows, NEW parent \in Ids \union {0}
  PROVE  Promoted(rows, i, parent) \in Promotion
<1> DEFINE row == [rows[i] EXCEPT !.backlog = FALSE, !.done = FALSE, !.parent = parent]
<1>1. \A r \in Stored, c \in BOOLEAN, n \in Ids \union {0} :
        [r EXCEPT !.backlog = c, !.done = c, !.parent = n] \in Stored
  BY DEF Stored, Row
<1>2. rows[i] \in Stored /\ i \in Ids /\ FALSE \in BOOLEAN
  BY DEF IsRows
<1>3. row \in Stored
  BY <1>1, <1>2
<1> HIDE DEF row
<1>4. [ticket |-> i, row |-> row] \in Promotion
  BY <1>2, <1>3 DEF Promotion
<1> QED
  BY <1>4 DEF Promoted, row

LEMMA PromotionTypes ==
  ASSUME NEW rows, IsRows(rows), NEW i \in DOMAIN rows, NEW e,
         e # 0 => e \in DOMAIN rows, NEW q \in ToPromote(rows, i, e)
  PROVE  q \in Seq(Promotion) /\ q # << >>
<1>1. \A j \in DOMAIN rows : rows[j].parent \in Ids \union {0} /\ j \in Ids
  BY DEF IsRows, Stored, Row
<1>2. CASE rows[i].epic
  <2> DEFINE below == BacklogBelow(rows, i)
             n == Cardinality(below)
  <2>1. PICK s \in BacklogDescendants(rows, i) :
          q = <<Promoted(rows, i, 0)>> \o [k \in DOMAIN s |-> Promoted(rows, s[k], rows[s[k]].parent)]
    BY <1>2 DEF ToPromote
  <2>2. s \in [1 .. n -> below]
    BY DEF BacklogDescendants
  <2>3. below \subseteq DOMAIN rows
    BY DEF BacklogBelow
  <2>4. n \in Nat
    <3>1. IsFiniteSet(Ids)
      <4>1. MaxTickets \in Int /\ 1 \in Int
        BY FrontendAssumption
      <4> QED
        BY <4>1, FS_Interval DEF Ids
    <3>2. below \in SUBSET Ids
      BY <2>3 DEF IsRows
    <3> HIDE DEF below
    <3>3. IsFiniteSet(below)
      BY <3>1, <3>2, FS_Subset
    <3> QED
      BY <3>3, FS_CardinalityType
  <2> HIDE DEF below, n
  <2>5. \A k \in 1 .. n : Promoted(rows, s[k], rows[s[k]].parent) \in Promotion
    <3> TAKE k \in 1 .. n
    <3>1. s[k] \in DOMAIN rows
      BY <2>2, <2>3
    <3> QED
      BY <1>1, <3>1, PromotedType
  <2> DEFINE rest == [k \in DOMAIN s |-> Promoted(rows, s[k], rows[s[k]].parent)]
             head == Promoted(rows, i, 0)
  <2>6. rest \in [1 .. n -> Promotion]
    BY <2>2, <2>5
  <2>7. rest \in Seq(Promotion)
    BY <2>4, <2>6
  <2>8. head \in Promotion
    BY PromotedType
  <2>9. q = <<head>> \o rest
    BY <2>1
  <2> HIDE DEF rest, head
  <2> QED
    BY <2>7, <2>8, <2>9
<1>3. CASE ~rows[i].epic
  <2> DEFINE first == IF e # 0 /\ rows[e].backlog THEN <<Promoted(rows, e, 0)>> ELSE << >>
             own == Promoted(rows, i, e)
  <2>1. q = first \o <<own>>
    BY <1>3 DEF ToPromote
  <2>2. e \in Ids \union {0}
    BY <1>1
  <2>3. own \in Promotion
    BY <2>2, PromotedType
  <2>4. first \in Seq(Promotion)
    <3>1. e # 0 => Promoted(rows, e, 0) \in Promotion
      BY PromotedType
    <3> HIDE DEF own
    <3> QED
      BY <3>1
  <2> HIDE DEF first, own
  <2> QED
    BY <2>1, <2>3, <2>4
<1> QED
  BY <1>2, <1>3

LEMMA ClickPromoteActs ==
  ASSUME Good(page, {}), NEW i \in Ids, NEW e \in Ids \union {0}, ClickPromote(i, e)
  PROVE  Acted(page, page', waived')
<1> DEFINE w == Task("promote", "put")
<1>1. PICK q \in ToPromote(page.rows, i, e) :
        page' = Send(page, [w EXCEPT !.ticket = Head(q).ticket, !.row = Head(q).row,
                                     !.todo = Tail(q)])
  BY DEF ClickPromote
<1>2. i \in DOMAIN page.rows /\ (e # 0 => e \in DOMAIN page.rows) /\ IsRows(page.rows)
  BY ShapeFields DEF ClickPromote, Good
<1>3. q \in Seq(Promotion) /\ q # << >>
  BY <1>2, PromotionTypes
<1>4. Head(q) \in Promotion /\ Tail(q) \in Seq(Promotion)
  BY <1>3
<1>5. Head(q).ticket \in Ids /\ Head(q).row \in Row /\ Head(q).row.text # 0
  BY <1>4 DEF Promotion, Stored
<1> DEFINE t == [w EXCEPT !.ticket = Head(q).ticket, !.row = Head(q).row, !.todo = Tail(q)]
<1>6. IsTask(w) /\ w.board = 0 /\ w.keep = Blank /\ w.generation = 0
  BY TaskStarts
<1>7. \A f \in TaskFields : w[f] = Task("promote", "put")[f]
  OBVIOUS
<1> HIDE DEF w
<1>8. /\ IsTask(t) /\ t.ticket = Head(q).ticket /\ t.row = Head(q).row /\ t.todo = Tail(q)
      /\ \A f \in TaskFields \ {"ticket", "row", "todo"} : t[f] = w[f]
  BY <1>6 DEF IsTask, TaskFields
<1>9. page' = Send(page, t)
  BY <1>1
<1> HIDE DEF t
<1>10. t.board = 0 /\ t.keep = Blank /\ t.generation = 0
  BY <1>6, <1>8 DEF TaskFields
<1>11. \A f \in TaskFields \ Arguments : t[f] = Task("promote", "put")[f]
  BY <1>7, <1>8 DEF Arguments
<1>12. <<"promote", "put">> \in Calls /\ "promote" \notin Binders
  BY DEF Calls, Binders, EditorOps
<1>13. /\ t.ticket \in Ids \union {0} /\ t.row \in Row /\ t.board \in BoardIds \union {0}
       /\ t.keep \in Fields /\ t.todo \in Seq(Promotion) /\ t.generation \in Nat /\ t.row.text # 0
  BY <1>4, <1>5, <1>8, <1>10, Empties
<1>14. Fresh(t) /\ t.op = "promote"
  BY SMTT(60), <1>8, <1>11, <1>12, <1>13, FreshChanged
<1>15. Good(page', {}) /\ Follows(page, page')
  BY <1>9, <1>12, <1>14, PlainSent
<1> QED
  BY <1>15, Stayed

LEMMA ClickAddActs ==
  ASSUME Good(page, {}), ClickAdd
  PROVE  Acted(page, page', waived')
<1> DEFINE w == Task("create", "create")
           t == [w EXCEPT !.board = page.board]
<1>1. page' = Send(page, t)
  BY DEF ClickAdd
<1>2. /\ IsTask(w) /\ w.ticket = 0 /\ w.row = NoRow /\ w.keep = Blank /\ w.todo = << >>
      /\ w.generation = 0
  BY TaskStarts
<1>3. \A f \in TaskFields : w[f] = Task("create", "create")[f]
  OBVIOUS
<1> HIDE DEF w
<1>4. IsTask(t) /\ t.board = page.board /\ \A f \in TaskFields \ {"board"} : t[f] = w[f]
  BY <1>2 DEF IsTask, TaskFields
<1> HIDE DEF t
<1>5. t.ticket = 0 /\ t.row = NoRow /\ t.keep = Blank /\ t.todo = << >> /\ t.generation = 0
  BY <1>2, <1>4 DEF TaskFields
<1>6. \A f \in TaskFields \ Arguments : t[f] = Task("create", "create")[f]
  BY <1>3, <1>4 DEF Arguments
<1>7. <<"create", "create">> \in Calls /\ "create" \notin Binders
  BY DEF Calls, Binders, EditorOps
<1>8. t.board \in BoardIds \union {0} /\ 0 \in Nat
  BY <1>4, ShapeFields DEF Good
<1>9. Fresh(t) /\ t.op = "create"
  <2>1. /\ t.ticket \in Ids \union {0} /\ t.row \in Row /\ t.board \in BoardIds \union {0}
        /\ t.keep \in Fields /\ t.todo \in Seq(Promotion) /\ t.generation \in Nat
    BY <1>5, <1>8, Empties
  <2> QED
    BY <1>4, <1>6, <1>7, <2>1, FreshChanged
<1>10. Good(page', {}) /\ Follows(page, page')
  BY <1>1, <1>7, <1>9, PlainSent
<1> QED
  BY <1>10, Stayed

LEMMA ClickRestoreActs ==
  ASSUME Good(page, {}), NEW i \in Ids, ClickRestore(i)
  PROVE  Acted(page, page', waived')
<1> DEFINE w == Task("restore", "restore")
           t == [w EXCEPT !.ticket = i]
<1>1. page' = Send(page, t)
  BY DEF ClickRestore
<1>2. /\ IsTask(w) /\ w.board = 0 /\ w.row = NoRow /\ w.keep = Blank /\ w.todo = << >>
      /\ w.generation = 0
  BY TaskStarts
<1>3. \A f \in TaskFields : w[f] = Task("restore", "restore")[f]
  OBVIOUS
<1> HIDE DEF w
<1>4. IsTask(t) /\ t.ticket = i /\ \A f \in TaskFields \ {"ticket"} : t[f] = w[f]
  BY <1>2 DEF IsTask, TaskFields
<1> HIDE DEF t
<1>5. t.board = 0 /\ t.row = NoRow /\ t.keep = Blank /\ t.todo = << >> /\ t.generation = 0
  BY <1>2, <1>4 DEF TaskFields
<1>6. \A f \in TaskFields \ Arguments : t[f] = Task("restore", "restore")[f]
  BY <1>3, <1>4 DEF Arguments
<1>7. <<"restore", "restore">> \in Calls /\ "restore" \notin Binders /\ 0 \in Nat
  BY DEF Calls, Binders, EditorOps
<1>8. Fresh(t) /\ t.op = "restore"
  <2>1. /\ t.ticket \in Ids \union {0} /\ t.row \in Row /\ t.board \in BoardIds \union {0}
        /\ t.keep \in Fields /\ t.todo \in Seq(Promotion) /\ t.generation \in Nat
    BY <1>4, <1>5, <1>7, Empties
  <2> QED
    BY <1>4, <1>6, <1>7, <2>1, FreshChanged
<1>9. Good(page', {}) /\ Follows(page, page')
  BY <1>1, <1>7, <1>8, PlainSent
<1> QED
  BY <1>9, Stayed

LEMMA PollActs ==
  ASSUME Good(page, {}), Poll
  PROVE  Acted(page, page', waived')
<1> DEFINE m == [page EXCEPT !.pollGen = page.pollGen + 1]
           w == Task("poll", "notifications")
           t == [w EXCEPT !.generation = m.pollGen]
<1>1. page' = Send(m, t)
  BY DEF Poll
<1>2. Changes(page, m, {"pollGen"}) /\ m.pollGen = page.pollGen + 1
  BY DEF Good, PageShape, IsPage, PageFields, Changes
<1> HIDE DEF m
<1>3. m.pollGen \in Nat
  BY <1>2, ShapeFields DEF Good
<1>4. PageShape(m)
  BY <1>2, <1>3, ChangedShape DEF Good, FieldOK
<1>5. {"pollGen"} \intersect (Core \ {"queued"}) = {} /\ m.queued = page.queued
  BY <1>2 DEF Core, Changes, PageFields
<1>6. Good(m, {}) /\ Follows(page, m)
  BY <1>2, <1>4, <1>5, GoodSame, FollowsFields
<1>7. /\ IsTask(w) /\ w.ticket = 0 /\ w.board = 0 /\ w.row = NoRow /\ w.keep = Blank
      /\ w.todo = << >>
  BY TaskStarts
<1>8. \A f \in TaskFields : w[f] = Task("poll", "notifications")[f]
  OBVIOUS
<1> HIDE DEF w
<1>9. IsTask(t) /\ t.generation = m.pollGen /\ \A f \in TaskFields \ {"generation"} : t[f] = w[f]
  BY <1>7 DEF IsTask, TaskFields
<1> HIDE DEF t
<1>10. t.ticket = 0 /\ t.board = 0 /\ t.row = NoRow /\ t.keep = Blank /\ t.todo = << >>
  BY <1>7, <1>9 DEF TaskFields
<1>11. \A f \in TaskFields \ Arguments : t[f] = Task("poll", "notifications")[f]
  BY <1>8, <1>9 DEF Arguments
<1>12. <<"poll", "notifications">> \in Calls /\ "poll" \notin Binders
  BY DEF Calls, Binders, EditorOps
<1>13. Fresh(t) /\ t.op = "poll"
  <2>1. /\ t.ticket \in Ids \union {0} /\ t.row \in Row /\ t.board \in BoardIds \union {0}
        /\ t.keep \in Fields /\ t.todo \in Seq(Promotion) /\ t.generation \in Nat
    BY <1>3, <1>9, <1>10, Empties
  <2> QED
    BY <1>9, <1>11, <1>12, <2>1, FreshChanged
<1>14. Good(page', {}) /\ Follows(m, page')
  BY <1>1, <1>6, <1>12, <1>13, PlainSent
<1>15. Follows(page, page')
  BY <1>6, <1>14, FollowsCompose DEF Good
<1> QED
  BY <1>14, <1>15, Stayed

LEMMA ChangeBoardActs ==
  ASSUME Good(page, {}), ChangeBoard
  PROVE  Acted(page, page', waived') /\ store' = store
<1>1. CASE \E i \in Ids : DropCard(i) \/ ClickEpicStatus(i) \/ ClickRestore(i)
  BY <1>1, DropCardActs, ClickEpicStatusActs, ClickRestoreActs
     DEF DropCard, ClickEpicStatus, ClickRestore, Does
<1>2. CASE \E i \in Ids, e \in Ids \union {0} : ClickPromote(i, e)
  BY <1>2, ClickPromoteActs DEF ClickPromote, Does
<1>3. CASE ClickAdd
  BY <1>3, ClickAddActs DEF ClickAdd, Does
<1>4. CASE ChooseFile
  <2> DEFINE t == Task("import", "file")
  <2>1. Fresh(t) /\ t.op \notin Binders
    BY FreshPlain DEF Calls, Binders, EditorOps
  <2>2. page' = Send(ResetDrawer(page), t) /\ waived' = Dirty(page) /\ store' = store
    BY <1>4 DEF ChooseFile, Leaves, Does
  <2> HIDE DEF t
  <2> QED
    BY <2>1, <2>2, LeavingCallActs
<1>5. CASE Poll
  BY <1>5, PollActs DEF Poll, Does
<1> QED
  BY <1>1, <1>2, <1>3, <1>4, <1>5 DEF ChangeBoard

-----------------------------------------------------------------------------
(* Signing in and out, the server and other clients.                       *)

LEMMA ClickLogoutActs ==
  ASSUME Good(page, {}), ClickLogout
  PROVE  Acted(page, page', waived')
<1> DEFINE r == ShowLoggedOut(page)
           t == Task("logout", "logout")
           s == Send(r, t)
           q == [s EXCEPT !.locked = TRUE]
<1>1. page' = q
  BY DEF ClickLogout
<1>2. Good(r, {}) /\ Follows(page, r)
  BY GoodLoggedOut
<1>3. Fresh(t) /\ t.op \notin Binders
  BY FreshPlain DEF Calls, Binders, EditorOps
<1> HIDE DEF r, t
<1>4. Good(s, {}) /\ Follows(r, s)
  BY <1>2, <1>3, PlainSent
<1> HIDE DEF s
<1>5. Changes(s, q, {"locked"})
  BY <1>4 DEF Good, PageShape, IsPage, PageFields, Changes
<1> HIDE DEF q
<1>6. PageShape(q)
  BY <1>4, <1>5, ChangedShape DEF Good, FieldOK
<1>7. {"locked"} \intersect (Core \ {"queued"}) = {} /\ q.queued = s.queued
  BY <1>5 DEF Core, Changes, PageFields
<1>8. Good(q, {}) /\ Follows(s, q)
  BY <1>4, <1>5, <1>6, <1>7, GoodSame, FollowsFields
<1>9. Follows(page, s)
  BY <1>2, <1>4, FollowsCompose DEF Good
<1>10. Follows(page, q)
  BY <1>4, <1>8, <1>9, FollowsCompose DEF Good
<1> QED
  BY <1>1, <1>8, <1>10, Stayed

LEMMA ClickLoginActs ==
  ASSUME Good(page, {}), NEW u \in Users, NEW r \in Routes, ClickLogin(u, r)
  PROVE  Acted(page, page', waived')
<1> DEFINE d == ResetDrawer(InvalidateSessionRequests(page))
           b == IF r.board # 0 THEN r.board ELSE d.selected
           m == [d EXCEPT !.selected = b, !.queued = r.ticket, !.view = r.view]
           w == Task("login", "login")
           t == [w EXCEPT !.ask = u]
           F == {"selected", "queued", "view"}
<1>1. page' = Send(m, t)
  BY DEF ClickLogin
<1>2. Good(d, {}) /\ Follows(page, d) /\ d.editing = 0
  BY GoodLeave
<1>3. b \in BoardIds \union {0}
  BY <1>2, RouteTypes, ShapeFields DEF Good
<1> HIDE DEF d, b
<1>4. Changes(d, m, F) /\ m.selected = b /\ m.queued = r.ticket /\ m.view = r.view
  BY <1>2 DEF Good, PageShape, IsPage, PageFields, Changes
<1> HIDE DEF m
<1>5. PageShape(m)
  BY <1>2, <1>3, <1>4, RouteTypes, ChangedShape DEF Good, FieldOK
<1>6. F \intersect (Core \ {"queued"}) = {}
  BY DEF Core
<1>7. Good(m, {}) /\ Follows(d, m)
  BY <1>2, <1>4, <1>5, <1>6, GoodQueued
<1>8. /\ IsTask(w) /\ w.ticket = 0 /\ w.board = 0 /\ w.row = NoRow /\ w.keep = Blank
      /\ w.todo = << >> /\ w.generation = 0
  BY TaskStarts
<1>9. \A f \in TaskFields : w[f] = Task("login", "login")[f]
  OBVIOUS
<1> HIDE DEF w
<1>10. IsTask(t) /\ t.ask = u /\ \A f \in TaskFields \ {"ask"} : t[f] = w[f]
  BY <1>8 DEF IsTask, TaskFields
<1> HIDE DEF t
<1>11. /\ t.ticket = 0 /\ t.board = 0 /\ t.row = NoRow /\ t.keep = Blank
       /\ t.todo = << >> /\ t.generation = 0
  BY <1>8, <1>10 DEF TaskFields
<1>12. \A f \in TaskFields \ Arguments : t[f] = Task("login", "login")[f]
  BY <1>9, <1>10 DEF Arguments
<1>13. <<"login", "login">> \in Calls /\ "login" \notin Binders
  BY DEF Calls, Binders, EditorOps
<1>14. Fresh(t) /\ t.op = "login"
  <2>1. /\ t.ticket \in Ids \union {0} /\ t.row \in Row /\ t.board \in BoardIds \union {0}
        /\ t.keep \in Fields /\ t.todo \in Seq(Promotion) /\ t.generation \in Nat
    BY <1>11, Empties
  <2> QED
    BY <1>10, <1>12, <1>13, <2>1, FreshChanged
<1>15. Good(page', {}) /\ Follows(m, page')
  BY <1>1, <1>7, <1>13, <1>14, PlainSent
<1>16. Follows(page, m)
  BY <1>2, <1>7, FollowsCompose DEF Good
<1>17. Follows(page, page')
  BY <1>7, <1>15, <1>16, FollowsCompose DEF Good
<1> QED
  BY <1>15, <1>17, Stayed

LEMMA SignActs ==
  ASSUME Good(page, {}), Sign
  PROVE  Acted(page, page', waived') /\ store' = store
<1>1. CASE ClickLogout
  BY <1>1, ClickLogoutActs DEF ClickLogout, Does
<1>2. CASE \E u \in Users, r \in Routes : ClickLogin(u, r)
  BY <1>2, ClickLoginActs DEF ClickLogin, Does
<1>3. CASE ClickSavePassword
  <2> DEFINE t == Task("password", "password")
  <2>1. Fresh(t) /\ t.op \notin Binders
    BY FreshPlain DEF Calls, Binders, EditorOps
  <2>2. page' = Send(page, t) /\ store' = store
    BY <1>3 DEF ClickSavePassword, Does
  <2> HIDE DEF t
  <2>3. Good(page', {}) /\ Follows(page, page')
    BY <2>1, <2>2, PlainSent
  <2> QED
    BY <2>2, <2>3, Stayed
<1> QED
  BY <1>1, <1>2, <1>3 DEF Sign

(* A step of the user keeps the invariant: only answers are claims.        *)
LEMMA ActedInvariant ==
  ASSUME FrontendInv, Acted(page, page', waived'), store' = store
  PROVE  FrontendInv'
<1>1. Truthful(page', store)
  <2> SUFFICES ASSUME NEW t \in page'.tasks, t.reply.status = "ok"
               PROVE  /\ t.url = "put" => t.row.text \in store.accepted
                      /\ t.url = "comment" => t.keep.comment \in store.accepted
    BY DEF Truthful
  <2>1. t.reply # NoReply
    BY DEF NoReply
  <2>2. t \in page.tasks
    BY <2>1 DEF Acted
  <2> QED
    BY <2>2 DEF FrontendInv, Truthful
<1>2. Good(page', {}) /\ StoreOK(store')
  BY DEF Acted, FrontendInv
<1> QED
  BY <1>1, <1>2 DEF FrontendInv, Good, StoreOK, Truthful

(* The server ends a session, another client edits a ticket.               *)
LEMMA OthersAct ==
  ASSUME FrontendInv, Expire \/ OtherClient
  PROVE  /\ StoreOK(store') /\ page' = page /\ store'.accepted = store.accepted
         /\ waived' = FALSE
<1>1. CASE Expire
  BY <1>1, SessionOK DEF Expire, FrontendInv
<1>2. CASE OtherClient
  <2>1. PICK i \in DOMAIN store.rows : store' = WithRow(store, i, store.rows[i])
    BY <1>2 DEF OtherClient
  <2>2. i \in Ids /\ store.rows[i] \in Stored
    BY <2>1, StoreShape DEF FrontendInv, IsRows
  <2> QED
    BY <1>2, <2>1, <2>2, WithRowOK DEF OtherClient, FrontendInv
<1> QED
  BY <1>1, <1>2

-----------------------------------------------------------------------------
(* The invariant.                                                          *)

(* The page before its first load().                                       *)
LEMMA OpenedGood ==
  ASSUME NEW token \in Nat
  PROVE  LET q == Opened(token) IN
         /\ Good(q, {}) /\ Typed(q) = {} /\ \A t \in q.tasks : t.reply = NoReply
<1> DEFINE p == [me |-> 0, board |-> 0, rows |-> << >>, notes |-> 0, selected |-> 0,
                 view |-> "board", queued |-> 0, loadGen |-> 0, session |-> 1, editGen |-> 0,
                 historyGen |-> 0, pollGen |-> 0, editing |-> 0, clone |-> NoRow,
                 draft |-> Blank, base |-> Blank, mutation |-> 0,
                 pending |-> [i \in Ids |-> NoBinding], history |-> Nothing, jar |-> token,
                 panel |-> FALSE, locked |-> FALSE, tasks |-> {}, serial |-> 1]
<1>1. Opened(token) = LoadNow(p)
  BY DEF Opened
<1>2. /\ p.me = 0 /\ p.board = 0 /\ p.rows = << >> /\ p.notes = 0 /\ p.selected = 0
      /\ p.view = "board" /\ p.queued = 0 /\ p.loadGen = 0 /\ p.session = 1 /\ p.editGen = 0
      /\ p.historyGen = 0 /\ p.pollGen = 0 /\ p.editing = 0 /\ p.clone = NoRow
      /\ p.draft = Blank /\ p.base = Blank /\ p.mutation = 0
      /\ p.pending = [i \in Ids |-> NoBinding] /\ p.jar = token /\ p.tasks = {} /\ p.serial = 1
  OBVIOUS
<1>3. IsPage(p)
  BY DEF IsPage, PageFields
<1> HIDE DEF p
<1>4. IsRows(<< >>)
  BY DEF IsRows
<1>5. [i \in Ids |-> NoBinding] \in [Ids -> Binding]
  BY DEF NoBinding, Binding
<1>6. PageShape(p)
  <2>1. \A f \in PageFields : FieldOK(f, p[f])
    <3> TAKE f \in PageFields
    <3>1. CASE f \in {"me", "board", "notes", "selected", "view", "queued", "editing", "loadGen",
                      "session", "editGen", "historyGen", "pollGen", "mutation", "serial", "jar"}
      BY <1>2, <3>1 DEF FieldOK, Views
    <3>2. CASE f \in {"rows", "clone", "draft", "base", "pending"}
      BY <1>2, <1>4, <1>5, <3>2, Empties DEF FieldOK
    <3>3. CASE f \in {"history", "panel", "locked", "tasks"}
      BY <3>3 DEF FieldOK
    <3> QED
      BY <3>1, <3>2, <3>3 DEF PageFields
  <2> QED
    BY <1>3, <2>1 DEF PageShape
<1>7. TasksOK(p, {}) /\ IdsUnique(p, {}) /\ WritersBind(p) /\ DraftRests(p)
  BY <1>2 DEF TasksOK, IdsUnique, WritersBind, DraftRests
<1>8. Alive(p, {})
  BY <1>2 DEF Alive, NoBinding
<1>9. EditorHolds(p) /\ MutationRuns(p, {}) /\ QueueWaits(p) /\ HasText(p)
  BY <1>2 DEF EditorHolds, MutationRuns, QueueWaits, HasText
<1>10. Good(p, {})
  BY <1>6, <1>7, <1>8, <1>9 DEF Good
<1>11. Good(LoadNow(p), {}) /\ Follows(p, LoadNow(p))
  BY <1>10, GoodLoadNow
<1>12. Typed(p) = {}
  BY <1>2 DEF Typed
<1> QED
  BY <1>1, <1>2, <1>11, <1>12 DEF Follows

LEMMA InitInvariant ==
  ASSUME Init
  PROVE  FrontendInv /\ Typed(page) = {} /\ waived = FALSE
<1>1. PICK s \in Scenarios, u \in Users :
        store = [rows |-> s.rows, access |-> InitialAccess, owner |-> <<u>>, live |-> {1},
                 accepted |-> {}]
  BY DEF Init
<1>2. page = Opened(1) /\ waived = FALSE
  BY DEF Init
<1>3. IsRows(s.rows)
  BY FrontendAssumption DEF IsRows, Stored
<1>4. StoreOK(store)
  <2>1. /\ store.rows = s.rows /\ store.access = InitialAccess /\ store.owner = <<u>>
        /\ store.live = {1}
        /\ store = [f \in {"rows", "access", "owner", "live", "accepted"} |-> store[f]]
    BY <1>1
  <2>2. <<u>> \in Seq(Users) /\ {1} \subseteq 1 .. Len(<<u>>)
    OBVIOUS
  <2> QED
    BY <1>3, <2>1, <2>2, FrontendAssumption DEF StoreOK
<1>5. Good(page, {}) /\ Typed(page) = {} /\ \A t \in page.tasks : t.reply = NoReply
  BY <1>2, OpenedGood
<1>6. Truthful(page, store)
  BY <1>5 DEF Truthful, NoReply
<1> QED
  BY <1>2, <1>4, <1>5, <1>6 DEF FrontendInv

LEMMA UserActs ==
  ASSUME FrontendInv, Navigate \/ Edit \/ ChangeBoard \/ Sign
  PROVE  Acted(page, page', waived') /\ store' = store
BY NavigateActs, EditActs, ChangeBoardActs, SignActs DEF FrontendInv

LEMMA StepInvariant ==
  ASSUME FrontendInv, [Next]_vars
  PROVE  FrontendInv'
<1>1. Good(page, {}) /\ StoreOK(store) /\ Truthful(page, store)
  BY DEF FrontendInv
<1>2. CASE Network
  BY <1>2, NetworkHandled DEF FrontendInv, Good, StoreOK, Truthful
<1>3. CASE Expire \/ OtherClient
  <2>1. StoreOK(store') /\ page' = page /\ store'.accepted = store.accepted
    BY <1>3, OthersAct
  <2>2. Truthful(page, store')
    BY <1>1, <2>1 DEF Truthful
  <2>3. Good(page', {}) /\ StoreOK(store') /\ Truthful(page', store')
    BY <1>1, <2>1, <2>2
  <2> QED
    BY <2>3 DEF FrontendInv, Good, StoreOK, Truthful
<1>4. CASE Resume
  <2>1. Good(page', {}) /\ store' = store
        /\ \A u \in page'.tasks : u \in page.tasks \/ u.reply = NoReply
    BY <1>4, ResumeHandled DEF Handled
  <2>2. Truthful(page', store)
    <3> SUFFICES ASSUME NEW t \in page'.tasks, t.reply.status = "ok"
                 PROVE  /\ t.url = "put" => t.row.text \in store.accepted
                        /\ t.url = "comment" => t.keep.comment \in store.accepted
      BY DEF Truthful
    <3>1. t.reply # NoReply
      BY DEF NoReply
    <3>2. t \in page.tasks
      BY <2>1, <3>1
    <3> QED
      BY <1>1, <3>2 DEF Truthful
  <2>3. Good(page', {}) /\ StoreOK(store') /\ Truthful(page', store')
    BY <1>1, <2>1, <2>2
  <2> QED
    BY <2>3 DEF FrontendInv, Good, StoreOK, Truthful
<1>5. CASE Navigate \/ Edit \/ ChangeBoard \/ Sign
  BY <1>5, UserActs, ActedInvariant
<1>6. CASE UNCHANGED vars
  <2>1. page' = page /\ store' = store
    BY <1>6 DEF vars
  <2>2. Good(page', {}) /\ StoreOK(store') /\ Truthful(page', store')
    BY <1>1, <2>1
  <2> QED
    BY <2>2 DEF FrontendInv, Good, StoreOK, Truthful
<1> QED
  BY <1>2, <1>3, <1>4, <1>5, <1>6 DEF Next

(* FrontendInv always holds.                                               *)
THEOREM FrontendInvariant == Spec => []FrontendInv
<1>1. Init => FrontendInv
  BY InitInvariant
<1>2. FrontendInv /\ [Next]_vars => FrontendInv'
  BY StepInvariant
<1> QED
  BY <1>1, <1>2, PTL DEF Spec

-----------------------------------------------------------------------------
(* What it means.                                                          *)

(* Globals, functions under way and the server's tables hold values of the *)
(* right kind, whatever answers arrive in whatever order.                  *)
THEOREM TypeCorrect == Spec => []TypeOK
<1>1. FrontendInv => TypeOK
  <2> SUFFICES ASSUME FrontendInv PROVE TypeOK
    OBVIOUS
  <2>1. PageShape(page) /\ TasksOK(page, {}) /\ Alive(page, {}) /\ StoreOK(store)
    BY DEF FrontendInv, Good
  <2>2. /\ page.me \in Users \union {0} /\ page.notes \in Users \union {0}
        /\ page.board \in BoardIds \union {0} /\ page.selected \in BoardIds \union {0}
        /\ DOMAIN page.rows \subseteq Ids /\ page.queued \in Ids \union {0}
        /\ page.editing \in Ids \union {0} /\ page.view \in Views
    BY <2>1, ShapeFields DEF IsRows
  <2>3. \A i \in Ids : page.pending[i].session <= page.session
    BY <2>1 DEF Alive
  <2>4. \A t \in page.tasks : t.id <= page.serial /\ t.session <= page.session
                             /\ t.sent <= page.session
    BY <2>1 DEF TasksOK
  <2>5. DOMAIN store.rows \subseteq Ids
    BY <2>1, StoreShape DEF IsRows
  <2> QED
    BY <2>2, <2>3, <2>4, <2>5 DEF TypeOK
<1> QED
  BY <1>1, FrontendInvariant, PTL

(* In one session two functions never change the same ticket at once: the  *)
(* binding of a ticket names the one that does                             *)
(* (beginDrawerMutation, moveBoardTicket, changeEpicCompletion).           *)
THEOREM OneWriter == Spec => []OneWriterPerTicket
<1>1. FrontendInv => OneWriterPerTicket
  <2> SUFFICES ASSUME FrontendInv, NEW s \in Writers, NEW t \in Writers, s.ticket = t.ticket
               PROVE  s = t
    BY DEF OneWriterPerTicket
  <2>1. WritersBind(page) /\ IdsUnique(page, {})
    BY DEF FrontendInv, Good
  <2>2. \A u \in Writers : u \in page.tasks /\ u.op \in Binders /\ u.url # "state"
                          /\ u.session = page.session
    BY DEF Writers, Binders, EditorOps
  <2>3. /\ page.pending[s.ticket] = [id |-> s.id, session |-> s.session]
        /\ page.pending[t.ticket] = [id |-> t.id, session |-> t.session]
    BY <2>1, <2>2 DEF WritersBind
  <2>4. s.id = t.id
    BY <2>3
  <2> QED
    BY <2>1, <2>2, <2>4 DEF IdsUnique
<1> QED
  BY <1>1, FrontendInvariant, PTL

(* A ticket refuses edits only while the function that bound it is under   *)
(* way, and the open editor's fields are disabled exactly while its own    *)
(* request is (beginDrawerMutation, finishDrawerMutation, openTicket).     *)
THEOREM EditorOwns == Spec => []EditorOwnsItsMutation
<1>1. FrontendInv => EditorOwnsItsMutation
  <2> SUFFICES ASSUME FrontendInv PROVE EditorOwnsItsMutation
    OBVIOUS
  <2>1. Alive(page, {}) /\ EditorHolds(page) /\ MutationRuns(page, {}) /\ QueueWaits(page)
    BY DEF FrontendInv, Good
  <2>2. BindingsAlive
    BY <2>1 DEF BindingsAlive, Alive
  <2>3. page.mutation # 0 =>
          \E t \in page.tasks : t.id = page.mutation /\ t.ticket = page.editing
    BY <2>1 DEF MutationRuns
  <2> QED
    BY <2>1, <2>2, <2>3 DEF EditorOwnsItsMutation, EditorHolds, QueueWaits
<1> QED
  BY <1>1, FrontendInvariant, PTL

-----------------------------------------------------------------------------
(* The editor implements Drafts.                                           *)

LEMMA UnsavedIsTyped == Unsaved = Typed(page)
BY DEF Unsaved, Typed

LEMMA DraftSteps ==
  ASSUME FrontendInv, [Next]_vars
  PROVE  [Draft!Next]_(Draft!vars)
<1>1. Unsaved = Typed(page) /\ Unsaved' = Typed(page')
  BY DEF Unsaved, Typed
<1>2. CASE Network
  <2>1. /\ page'.session = page.session /\ Typed(page') = Typed(page)
        /\ store.accepted \subseteq store'.accepted /\ waived' = FALSE
    BY <1>2, NetworkHandled
  <2>2. Draft!Store
    BY <1>1, <2>1 DEF Draft!Store
  <2> QED
    BY <2>2 DEF Draft!Next
<1>3. CASE Expire \/ OtherClient
  <2>1. page' = page /\ store'.accepted = store.accepted /\ waived' = FALSE
    BY <1>3, OthersAct
  <2>2. Draft!Store
    BY <1>1, <2>1 DEF Draft!Store
  <2> QED
    BY <2>2 DEF Draft!Next
<1>4. CASE Resume
  <2>1. DraftStep(page, page', store.accepted) /\ waived' = FALSE /\ store' = store
    BY <1>4, ResumeHandled DEF Handled
  <2>2. CASE page'.session = page.session /\ Typed(page) \subseteq Typed(page')
    <3>1. Draft!Write
      BY <1>1, <2>1, <2>2 DEF Draft!Write
    <3> QED
      BY <3>1 DEF Draft!Next
  <2>3. CASE /\ page'.session = page.session /\ Typed(page') \subseteq Typed(page)
             /\ Typed(page) \ Typed(page') \subseteq store.accepted
    <3>1. Draft!Forget
      BY <1>1, <2>1, <2>3 DEF Draft!Forget
    <3> QED
      BY <3>1 DEF Draft!Next
  <2>4. CASE page'.session > page.session /\ Typed(page') \in {Typed(page), {}}
    <3>1. Draft!SignOff
      BY <1>1, <2>1, <2>4 DEF Draft!SignOff
    <3> QED
      BY <3>1 DEF Draft!Next
  <2> QED
    BY <2>1, <2>2, <2>3, <2>4 DEF DraftStep
<1>5. CASE Navigate \/ Edit \/ ChangeBoard \/ Sign
  <2>1. Acted(page, page', waived') /\ store' = store
    BY <1>5, UserActs
  <2>2. CASE page'.session > page.session /\ Typed(page') \in {Typed(page), {}}
    <3>1. Draft!SignOff
      BY <1>1, <2>1, <2>2 DEF Draft!SignOff
    <3> QED
      BY <3>1 DEF Draft!Next
  <2>3. CASE page'.session = page.session /\ waived'
    <3>1. Draft!GiveUp
      BY <1>1, <2>1, <2>3 DEF Draft!GiveUp
    <3> QED
      BY <3>1 DEF Draft!Next
  <2>4. CASE page'.session = page.session /\ ~waived' /\ Typed(page) \subseteq Typed(page')
    <3>1. Draft!Write
      BY <1>1, <2>1, <2>4 DEF Draft!Write
    <3> QED
      BY <3>1 DEF Draft!Next
  <2> QED
    BY <2>1, <2>2, <2>3, <2>4 DEF Acted
<1>6. CASE UNCHANGED vars
  <2>1. page' = page /\ store' = store /\ waived' = waived
    BY <1>6 DEF vars
  <2> QED
    BY <1>1, <2>1 DEF Draft!vars
<1> QED
  BY <1>2, <1>3, <1>4, <1>5, <1>6 DEF Next

(* Input leaves the editor only when the server has stored it, the user    *)
(* gave it up or the session ended: the browser application implements     *)
(* Drafts (saveDrawer, addComment, taskDrawerAction, load and the rest).   *)
THEOREM DraftsKept == Spec => DraftsAreKept
<1>1. Init => Draft!Init
  <2> SUFFICES ASSUME Init PROVE Draft!Init
    OBVIOUS
  <2>1. Typed(page) = {} /\ waived = FALSE
    BY InitInvariant
  <2> QED
    BY <2>1, UnsavedIsTyped DEF Draft!Init
<1>2. FrontendInv /\ [Next]_vars => [Draft!Next]_(Draft!vars)
  BY DraftSteps
<1> QED
  BY <1>1, <1>2, FrontendInvariant, PTL DEF Spec, DraftsAreKept, Draft!Spec
====
