------------------------ MODULE FrontendScreenProofs -------------------------
(***************************************************************************)
(* Theorems about what the page shows, for every set of accounts,          *)
(* addresses and scenarios.                                                *)
(*                                                                         *)
(* What the screen shows depends on the account, the board, the loads and  *)
(* the cookie only.  Every handler does one of a few things to these: it   *)
(* redraws, loads, shows an answer or quits the session.  The first part   *)
(* classifies the handlers; the invariants are proved about the classes:   *)
(* Calm, that stale rows have a load to come; SessionInv, that every       *)
(* function of the present session works for the account of the cookie;   *)
(* and PromotionInv, that every ticket written to the board has its        *)
(* parent there, or a function that puts the parent there first.           *)
(***************************************************************************)
EXTENDS FrontendProofs

-----------------------------------------------------------------------------
(* What the handlers do to the account, the board and the loads of a page. *)

(* What only a load or the end of a session changes.                       *)
Kept == {"me", "board", "rows", "notes", "selected", "loadGen", "session", "jar", "panel",
         "locked"}

(* A function that has just made its first call on page q.                 *)
Starts(q, u) ==
  /\ u.url # "state" /\ u.reply = NoReply
  /\ u.session = q.session /\ u.sent = q.session /\ u.as = q.jar
  /\ u.op \in {"history", "move", "epic"} => u.board = q.board
  /\ u.op = "history" => u.generation <= q.historyGen

(* The history is as it was, or has to be fetched again.                   *)
HistoryOutdated(p, q) ==
  /\ q.historyGen \in Nat
  /\ \/ q.historyGen = p.historyGen /\ q.history = p.history
     \/ q.historyGen > p.historyGen /\ q.history = Nothing

(* Nothing of the account or the board changes; functions O start.         *)
Redraws(p, q, O) ==
  /\ IsPage(q) /\ \A f \in Kept : q[f] = p[f]
  /\ HistoryOutdated(p, q)
  /\ p.tasks \subseteq q.tasks
  /\ \A u \in q.tasks \ p.tasks : Starts(q, u) /\ u.op \in O

LEMMA RedrawsFields ==
  ASSUME NEW p, NEW q, NEW O, Redraws(p, q, O)
  PROVE  /\ q.me = p.me /\ q.board = p.board /\ q.rows = p.rows /\ q.notes = p.notes
         /\ q.selected = p.selected /\ q.loadGen = p.loadGen /\ q.session = p.session
         /\ q.jar = p.jar /\ q.panel = p.panel /\ q.locked = p.locked
         /\ q.historyGen \in Nat
BY DEF Redraws, Kept, HistoryOutdated

LEMMA StartsStay ==
  ASSUME NEW p, NEW q, NEW O, Redraws(p, q, O), NEW u, Starts(p, u), p.historyGen \in Nat,
         u.generation \in Nat
  PROVE  Starts(q, u)
BY RedrawsFields DEF Starts, Redraws, HistoryOutdated

LEMMA RedrawsCompose ==
  ASSUME NEW p, NEW q, NEW r, NEW O, NEW P, p.historyGen \in Nat,
         Redraws(p, q, O), Redraws(q, r, P), O \subseteq P,
         \A u \in q.tasks \ p.tasks : u.generation \in Nat
  PROVE  Redraws(p, r, P)
<1>1. IsPage(r) /\ \A f \in Kept : r[f] = p[f]
  BY DEF Redraws
<1>2. HistoryOutdated(p, r)
  BY DEF Redraws, HistoryOutdated
<1>3. p.tasks \subseteq r.tasks
  BY DEF Redraws
<1>4. \A u \in r.tasks \ p.tasks : Starts(r, u) /\ u.op \in P
  <2>1. q.historyGen \in Nat
    BY RedrawsFields
  <2> QED
    BY <2>1, StartsStay DEF Redraws
<1> QED
  BY <1>1, <1>2, <1>3, <1>4 DEF Redraws

(* A change that leaves tasks and history alone.                           *)
LEMMA RedrawsByFields ==
  ASSUME NEW p, NEW q, NEW F, NEW O, Changes(p, q, F), p.historyGen \in Nat,
         F \intersect (Kept \union {"historyGen", "history", "tasks"}) = {}
  PROVE  Redraws(p, q, O)
<1>1. /\ \A f \in Kept : f \in PageFields \ F
      /\ \A f \in {"historyGen", "history", "tasks"} : f \in PageFields \ F
  BY DEF Kept, PageFields
<1>2. /\ \A f \in Kept : q[f] = p[f]
      /\ q.historyGen = p.historyGen /\ q.history = p.history /\ q.tasks = p.tasks
  BY <1>1 DEF Changes
<1> QED
  BY <1>2 DEF Redraws, HistoryOutdated, Changes

LEMMA RedrawsItself ==
  ASSUME NEW p, PageShape(p), NEW O
  PROVE  Redraws(p, p, O)
<1>1. p.historyGen \in Nat /\ IsPage(p)
  BY ShapeFields
<1>2. HistoryOutdated(p, p)
  BY <1>1 DEF HistoryOutdated
<1> QED
  BY <1>1, <1>2 DEF Redraws

LEMMA RedrawsReset ==
  ASSUME NEW p, PageShape(p), NEW O
  PROVE  Redraws(p, ResetDrawer(p), O)
BY ResetDrawerFrame, RedrawsByFields, ShapeFields DEF Kept

LEMMA RedrawsOpen ==
  ASSUME NEW p, PageShape(p), NEW i \in DOMAIN p.rows, NEW O
  PROVE  Redraws(p, OpenEditor(p, i), O)
BY OpenEditorFrame, RedrawsByFields, ShapeFields DEF Kept

LEMMA RedrawsSend ==
  ASSUME NEW p, PageShape(p), NEW t, Fresh(t), t.url # "state", NEW O, t.op \in O,
         t.op \in {"history", "move", "epic"} => t.board = p.board,
         t.op = "history" => t.generation <= p.historyGen
  PROVE  Redraws(p, Send(p, t), O)
<1> DEFINE q == Send(p, t)
           s == Sent(p, t)
<1>1. Changes(p, q, {"tasks", "serial"}) /\ q.tasks = p.tasks \union {s}
  BY SendFrame
<1>2. /\ s.reply = NoReply /\ s.session = p.session /\ s.sent = p.session /\ s.as = p.jar
      /\ s.op = t.op /\ s.url = t.url /\ s.board = t.board /\ s.generation = t.generation
  BY DEF Fresh, IsTask, TaskFields, Sent
<1> HIDE DEF q, s
<1>3. q.session = p.session /\ q.jar = p.jar /\ q.board = p.board /\ q.historyGen = p.historyGen
      /\ q.history = p.history /\ IsPage(q) /\ \A f \in Kept : q[f] = p[f]
  BY <1>1 DEF Changes, PageFields, Kept
<1>4. Starts(q, s)
  BY <1>2, <1>3 DEF Starts
<1>5. p.historyGen \in Nat
  BY ShapeFields
<1>6. Redraws(p, q, O)
  BY <1>1, <1>2, <1>3, <1>4, <1>5 DEF Redraws, HistoryOutdated
<1> QED
  BY <1>6 DEF q

LEMMA RedrawsView ==
  ASSUME NEW p, PageShape(p), NEW O, "history" \in O
  PROVE  /\ Redraws(p, RenderView(p), O) /\ PageShape(RenderView(p))
         /\ RenderView(p).history = Nothing /\ RenderView(p).historyGen > p.historyGen
<1> DEFINE r == ClearHistoryView(p)
           m == [r EXCEPT !.historyGen = r.historyGen + 1]
           w == Task("history", "history")
           t == [w EXCEPT !.board = m.board, !.generation = m.historyGen]
           q == Send(m, t)
<1>0. p.historyGen \in Nat
  BY ShapeFields
<1>1. /\ PageShape(r) /\ Changes(p, r, {"historyGen", "history"})
      /\ r.historyGen = p.historyGen + 1 /\ r.history = Nothing
  BY <1>0, ClearHistoryViewFrame DEF ClearHistoryView, PageShape, IsPage, PageFields
<1>2. RenderView(p) \in {r, RenderHistory(r)}
  BY DEF RenderView
<1>3. RenderHistory(r) = IF r.board = 0 THEN m ELSE q
  BY DEF RenderHistory
<1> HIDE DEF r
<1>4. Changes(r, m, {"historyGen"}) /\ m.historyGen = r.historyGen + 1
  BY <1>1 DEF PageShape, IsPage, PageFields, Changes
<1> HIDE DEF m
<1>5. PageShape(m) /\ m.historyGen \in Nat
  <2>1. m.historyGen \in Nat
    BY <1>0, <1>1, <1>4
  <2> QED
    BY <1>1, <1>4, <2>1, ChangedShape DEF FieldOK
<1>6. r.history = Nothing /\ m.history = Nothing /\ r.tasks = p.tasks /\ m.tasks = p.tasks
      /\ (\A f \in Kept : r[f] = p[f]) /\ (\A f \in Kept : m[f] = p[f])
      /\ r.historyGen > p.historyGen /\ m.historyGen > p.historyGen
      /\ r.historyGen \in Nat
  BY <1>0, <1>1, <1>4 DEF Changes, PageFields, Kept
<1>7. Redraws(p, r, O) /\ Redraws(p, m, O)
  BY <1>1, <1>5, <1>6 DEF Redraws, HistoryOutdated, PageShape
<1>8. /\ IsTask(w) /\ w.op = "history" /\ w.url = "history" /\ w.reply = NoReply
      /\ w.session = 0 /\ w.editor = 0 /\ w.sent = 0 /\ w.as = 0 /\ w.made = 0
      /\ w.ticket = 0 /\ w.row = NoRow /\ w.keep = Blank /\ w.todo = << >>
  BY TaskStarts DEF w
<1> HIDE DEF w
<1>9. /\ IsTask(t) /\ t.op = "history" /\ t.url = "history" /\ t.reply = NoReply
      /\ t.session = 0 /\ t.editor = 0 /\ t.sent = 0 /\ t.as = 0 /\ t.made = 0
      /\ t.generation = m.historyGen /\ t.ticket = 0 /\ t.row = NoRow /\ t.board = m.board
      /\ t.keep = Blank /\ t.todo = << >>
  BY <1>8 DEF IsTask, TaskFields
<1> HIDE DEF t
<1>10. Fresh(t)
  BY <1>5, <1>9, FreshByData, Empties, ShapeFields DEF Calls, Binders, EditorOps
<1>11. Redraws(m, q, O) /\ PageShape(q)
  <2>1. t.generation <= m.historyGen
    BY <1>5, <1>9
  <2> QED
    BY <1>5, <1>9, <1>10, <2>1, RedrawsSend, SendFrame
<1>12. q.history = Nothing /\ q.historyGen > p.historyGen
  BY <1>0, <1>5, <1>6, <1>11 DEF Redraws, HistoryOutdated
<1>13. Redraws(p, q, O)
  BY <1>0, <1>6, <1>7, <1>11, RedrawsCompose
<1> QED
  BY <1>1, <1>2, <1>3, <1>5, <1>6, <1>7, <1>11, <1>12, <1>13

LEMMA RedrawsRender ==
  ASSUME NEW p, NEW T, Good(p, T), NEW O, "history" \in O
  PROVE  Redraws(p, Render(p), O) /\ Render(p).history = Nothing
         /\ Render(p).historyGen > p.historyGen
<1> DEFINE v == RenderView(p)
           r == [v EXCEPT !.queued = 0]
           q == OpenEditor(r, p.queued)
<1>0. PageShape(p) /\ p.historyGen \in Nat
  BY ShapeFields DEF Good
<1>1. Redraws(p, v, O) /\ v.history = Nothing /\ v.historyGen > p.historyGen /\ Good(v, T)
  BY <1>0, RedrawsView, GoodRenderView
<1>2. Render(p) = IF p.queued # 0 /\ CanOpen(r, p.queued) THEN q ELSE r
  BY DEF Render
<1> HIDE DEF v
<1>3. Changes(v, r, {"queued"}) /\ r.queued = 0 /\ r.history = v.history
      /\ r.historyGen = v.historyGen
  BY <1>1 DEF Good, PageShape, IsPage, PageFields, Changes
<1> HIDE DEF r
<1>4. PageShape(r) /\ r.historyGen \in Nat /\ v.historyGen \in Nat
  BY <1>1, <1>3, ChangedShape, ShapeFields DEF Good, FieldOK
<1>5. Redraws(v, r, O)
  BY <1>3, <1>4, RedrawsByFields DEF Kept
<1>6. \A u \in v.tasks : u.generation \in Nat
  BY <1>1 DEF Good, TasksOK, TaskOK, TaskShape
<1>7. Redraws(p, r, O)
  BY <1>0, <1>1, <1>5, <1>6, RedrawsCompose
<1>8. ASSUME p.queued # 0, CanOpen(r, p.queued)
      PROVE  Redraws(p, q, O) /\ q.history = Nothing /\ q.historyGen = r.historyGen
  <2>1. p.queued \in DOMAIN r.rows
    BY <1>8 DEF CanOpen
  <2>2. Redraws(r, q, O) /\ r.tasks = v.tasks /\ q.history = r.history /\ q.historyGen = r.historyGen
    BY <1>3, <1>4, <2>1, RedrawsOpen, OpenEditorFrame DEF Changes, PageFields
  <2> QED
    BY <1>0, <1>1, <1>3, <1>6, <1>7, <2>2, RedrawsCompose
<1> QED
  BY <1>1, <1>2, <1>3, <1>7, <1>8

LEMMA RedrawsRelease ==
  ASSUME NEW p, PageShape(p), NEW t, t.ticket \in Ids, NEW O
  PROVE  Redraws(p, Release(p, t), O)
BY ReleaseFrame, RedrawsByFields, ShapeFields DEF Kept

LEMMA RedrawsFinish ==
  ASSUME NEW p, PageShape(p), NEW t, t.ticket \in Ids, NEW O
  PROVE  Redraws(p, FinishDrawerMutation(p, t), O)
<1> DEFINE r == Release(p, t)
           q == [r EXCEPT !.mutation = IF r.mutation = t.id THEN 0 ELSE r.mutation]
<1>1. FinishDrawerMutation(p, t) = q
  BY DEF FinishDrawerMutation
<1>2. PageShape(r) /\ Changes(p, r, {"pending"})
  BY ReleaseFrame
<1> HIDE DEF r
<1>3. Changes(r, q, {"mutation"})
  BY <1>2 DEF PageShape, IsPage, PageFields, Changes
<1>4. Changes(p, q, {"pending", "mutation"})
  BY <1>2, <1>3 DEF Changes
<1> HIDE DEF q
<1> QED
  BY <1>1, <1>4, RedrawsByFields, ShapeFields DEF Kept

LEMMA RedrawsCopy ==
  ASSUME NEW p, PageShape(p), NEW t, NEW O
  PROVE  Redraws(p, OpenCopy(p, t), O)
<1>1. Redraws(p, p, O)
  BY RedrawsItself
<1>2. \/ OpenCopy(p, t) = p
      \/ t.made \in DOMAIN p.rows /\ OpenCopy(p, t) = OpenEditor(p, t.made)
  BY DEF OpenCopy, CanOpen
<1> QED
  BY <1>1, <1>2, RedrawsOpen

(* The request of a load.                                                  *)
Requests(q, u) ==
  /\ u.url = "state" /\ u.generation = q.loadGen /\ u.ask = q.selected
  /\ u.sent = q.session /\ u.as = q.jar /\ u.reply = NoReply

(* Function t goes on with a load.                                         *)
Loads(p, q, t) ==
  /\ IsPage(q) /\ \A f \in Kept \ {"loadGen"} : q[f] = p[f]
  /\ q.loadGen = p.loadGen + 1
  /\ HistoryOutdated(p, q)
  /\ p.tasks \subseteq q.tasks
  /\ \A u \in q.tasks \ p.tasks :
       \/ Starts(q, u) /\ u.op = "history"
       \/ Requests(q, u) /\ u.op = t.op /\ u.session = t.session /\ u.board = t.board
  /\ \E u \in q.tasks : Requests(q, u)

(* The account and its board stay; functions O start or load.              *)
Remains(p, q, O) ==
  /\ IsPage(q)
  /\ \A f \in {"me", "board", "rows", "notes", "session", "jar", "panel", "locked"} : q[f] = p[f]
  /\ q.loadGen \in Nat /\ q.loadGen >= p.loadGen
  /\ HistoryOutdated(p, q)
  /\ p.tasks \subseteq q.tasks
  /\ \A u \in q.tasks \ p.tasks :
       /\ u.op \in O
       /\ Starts(q, u) \/ Requests(q, u)

(* An answered load is shown.                                              *)
Shows(p, q, r) ==
  /\ IsPage(q) /\ \A f \in {"loadGen", "session", "jar", "locked"} : q[f] = p[f]
  /\ q.me = r.user /\ q.board = r.board /\ q.rows = r.rows /\ q.notes = r.user
  /\ q.selected = r.board /\ q.panel = FALSE
  /\ q.historyGen \in Nat /\ q.historyGen > p.historyGen /\ q.history = Nothing
  /\ p.tasks \subseteq q.tasks
  /\ \A u \in q.tasks \ p.tasks : Starts(q, u) /\ u.op = "history"

(* The session ends: the page asks for a login.                            *)
Quits(p, q) ==
  /\ IsPage(q) /\ q.session = p.session + 1 /\ q.jar = p.jar /\ q.me = 0
  /\ q.panel = TRUE /\ q.locked = FALSE /\ q.tasks = p.tasks
  /\ q.rows \in {p.rows, << >>}
  /\ q.loadGen = p.loadGen + 1
  /\ q.historyGen \in Nat /\ q.historyGen > p.historyGen /\ q.history = Nothing

LEMMA LoadLoads ==
  ASSUME NEW p, PageShape(p), NEW t, TaskShape(t), t.op \in LoadOnly \union Binders
  PROVE  Loads(p, Load(p, t), t)
<1> DEFINE m == [p EXCEPT !.loadGen = p.loadGen + 1]
           r == IF Loading(m) /\ m.board # 0 THEN RenderView(m) ELSE m
           w == [t EXCEPT !.url = "state", !.ask = r.selected, !.generation = r.loadGen]
           q == SendNext(r, w)
           s == Asking(r, w)
<1>1. Load(p, t) = q
  BY DEF Load
<1>2. Changes(p, m, {"loadGen"}) /\ m.loadGen = p.loadGen + 1
  BY DEF PageShape, IsPage, PageFields, Changes
<1> HIDE DEF m
<1>3. PageShape(m) /\ p.loadGen \in Nat /\ p.historyGen \in Nat
  BY <1>2, ChangedShape, ShapeFields DEF FieldOK
<1>4. /\ \A f \in Kept \ {"loadGen"} : m[f] = p[f]
      /\ m.historyGen = p.historyGen /\ m.history = p.history /\ m.tasks = p.tasks
      /\ m.queued = p.queued
  BY <1>2 DEF Changes, PageFields, Kept
<1>6. Redraws(m, r, {"history"}) /\ PageShape(r)
  BY <1>3, RedrawsItself, RedrawsView
<1> HIDE DEF r
<1>7. r.selected \in BoardIds \union {0} /\ r.loadGen \in Nat
  BY <1>6, ShapeFields
<1>8. /\ IsTask(w) /\ w.url = "state" /\ w.ask = r.selected /\ w.generation = r.loadGen
      /\ \A f \in TaskFields \ {"url", "ask", "generation"} : w[f] = t[f]
  BY DEF TaskShape, IsTask, TaskFields
<1> HIDE DEF w
<1>9. /\ w.op = t.op /\ w.ticket = t.ticket /\ w.row = t.row /\ w.id = t.id
      /\ w.board = t.board /\ w.keep = t.keep /\ w.todo = t.todo /\ w.made = t.made
      /\ w.session = t.session /\ w.editor = t.editor /\ w.sent = t.sent /\ w.as = t.as
  BY <1>8 DEF TaskFields
<1>10. IsTask(w)
  BY <1>8
<1>11. /\ s.sent = r.session /\ s.as = r.jar /\ s.reply = NoReply
       /\ s.url = "state" /\ s.ask = r.selected /\ s.generation = r.loadGen
       /\ s.op = t.op /\ s.session = t.session /\ s.board = t.board
  BY <1>8, <1>9 DEF IsTask, TaskFields, Asking
<1>12. TaskShape(w)
  BY <1>7, <1>8, <1>9 DEF TaskShape
<1>13. Changes(r, q, {"tasks"}) /\ q.tasks = r.tasks \union {s}
  BY <1>6, <1>12, SendNextFrame
<1> HIDE DEF q, s
<1>14. /\ IsPage(q) /\ (\A f \in Kept : q[f] = r[f])
       /\ q.historyGen = r.historyGen /\ q.history = r.history
       /\ q.session = r.session /\ q.jar = r.jar /\ q.board = r.board
       /\ q.selected = r.selected /\ q.loadGen = r.loadGen
  BY <1>13 DEF Changes, PageFields, Kept
<1>15. Requests(q, s)
  BY <1>11, <1>14 DEF Requests
<1>16. /\ \A f \in Kept \ {"loadGen"} : q[f] = p[f]
       /\ q.loadGen = p.loadGen + 1 /\ HistoryOutdated(p, q)
  BY <1>2, <1>4, <1>6, <1>14 DEF Redraws, HistoryOutdated, Kept
<1>17. \A u \in r.tasks \ p.tasks : Starts(q, u) /\ u.op = "history"
  BY <1>4, <1>6, <1>14 DEF Redraws, Starts
<1>18. p.tasks \subseteq q.tasks
  BY <1>4, <1>6, <1>13 DEF Redraws
<1>19. Loads(p, q, t)
  BY <1>11, <1>13, <1>14, <1>15, <1>16, <1>17, <1>18 DEF Loads
<1> QED
  BY <1>1, <1>19

LEMMA LoadSucceedsShows ==
  ASSUME NEW p, NEW T, Good(p, T), NEW r, r.user \in Users, r.board \in BoardIds \union {0},
         IsRows(r.rows)
  PROVE  Shows(p, LoadSucceeds(p, r), r)
<1> DEFINE m == [p EXCEPT !.me = r.user, !.board = r.board, !.rows = r.rows, !.notes = r.user,
                          !.selected = r.board, !.panel = FALSE]
           F == {"me", "board", "rows", "notes", "selected", "panel"}
           q == Render(m)
<1>1. LoadSucceeds(p, r) = q
  BY DEF LoadSucceeds
<1>2. /\ Changes(p, m, F) /\ m.me = r.user /\ m.board = r.board /\ m.rows = r.rows
      /\ m.notes = r.user /\ m.selected = r.board /\ m.panel = FALSE
  BY DEF Good, PageShape, IsPage, PageFields, Changes
<1> HIDE DEF m
<1>3. PageShape(m)
  BY <1>2, ChangedShape DEF Good, FieldOK
<1>4. F \intersect (Core \ {"queued"}) = {} /\ m.queued = p.queued
      /\ m.historyGen = p.historyGen /\ m.tasks = p.tasks
      /\ \A f \in {"loadGen", "session", "jar", "locked"} : m[f] = p[f]
  BY <1>2 DEF Core, Changes, PageFields
<1>5. Good(m, T)
  BY <1>2, <1>3, <1>4, GoodSame
<1>6. Redraws(m, q, {"history"}) /\ q.history = Nothing /\ q.historyGen > m.historyGen
  BY <1>5, RedrawsRender
<1> HIDE DEF q
<1>7. \A f \in {"loadGen", "session", "jar", "locked"} : q[f] = p[f]
  BY <1>4, <1>6 DEF Redraws, Kept
<1>8. /\ q.me = r.user /\ q.board = r.board /\ q.rows = r.rows /\ q.notes = r.user
      /\ q.selected = r.board /\ q.panel = FALSE
  BY <1>2, <1>6, RedrawsFields
<1>9. q.historyGen \in Nat /\ IsPage(q)
  BY <1>6 DEF Redraws, HistoryOutdated
<1>10. p.tasks \subseteq q.tasks /\ \A u \in q.tasks \ p.tasks : Starts(q, u) /\ u.op = "history"
  BY <1>4, <1>6 DEF Redraws
<1> QED
  BY <1>1, <1>4, <1>6, <1>7, <1>8, <1>9, <1>10 DEF Shows

LEMMA LoginRequiredQuits ==
  ASSUME NEW p, PageShape(p)
  PROVE  Quits(p, ShowLoginRequired(p))
<1> DEFINE r == InvalidateSessionRequests(p)
           m == ResetDrawer(r)
           q == [m EXCEPT !.me = 0, !.panel = TRUE, !.locked = FALSE]
<1>1. ShowLoginRequired(p) = q
  BY DEF ShowLoginRequired
<1>2. /\ PageShape(r) /\ r.session = p.session + 1 /\ r.jar = p.jar /\ r.tasks = p.tasks
      /\ r.loadGen = p.loadGen + 1 /\ r.historyGen = p.historyGen + 1 /\ r.history = Nothing
      /\ r.rows = p.rows
  BY InvalidateFrame DEF InvalidateSessionRequests, ClearHistoryView, PageShape, IsPage, PageFields
<1> HIDE DEF r
<1>3. /\ PageShape(m) /\ m.session = r.session /\ m.jar = r.jar /\ m.tasks = r.tasks
      /\ m.loadGen = r.loadGen /\ m.historyGen = r.historyGen /\ m.history = r.history
      /\ m.rows = r.rows
  BY <1>2, ResetDrawerFrame DEF Changes, PageFields
<1> HIDE DEF m
<1>4. /\ IsPage(q) /\ q.session = m.session /\ q.jar = m.jar /\ q.tasks = m.tasks
      /\ q.loadGen = m.loadGen /\ q.historyGen = m.historyGen /\ q.history = m.history
      /\ q.me = 0 /\ q.panel = TRUE /\ q.locked = FALSE /\ q.rows = m.rows
  BY <1>3 DEF PageShape, IsPage, PageFields
<1> HIDE DEF q
<1>5. p.historyGen \in Nat
  BY ShapeFields
<1> QED
  BY <1>1, <1>2, <1>3, <1>4, <1>5 DEF Quits

LEMMA LoggedOutQuits ==
  ASSUME NEW p, PageShape(p)
  PROVE  Quits(p, ShowLoggedOut(p))
<1> DEFINE r == InvalidateSessionRequests(p)
           m == ResetDrawer(r)
           n == [m EXCEPT !.me = 0, !.board = 0, !.rows = << >>, !.notes = 0, !.selected = 0]
           q == [n EXCEPT !.panel = TRUE, !.locked = FALSE]
<1>1. ShowLoggedOut(p) = q
  BY DEF ShowLoggedOut, ResetClientState
<1>2. /\ PageShape(r) /\ r.session = p.session + 1 /\ r.jar = p.jar /\ r.tasks = p.tasks
      /\ r.loadGen = p.loadGen + 1 /\ r.historyGen = p.historyGen + 1 /\ r.history = Nothing
      /\ r.rows = p.rows
  BY InvalidateFrame DEF InvalidateSessionRequests, ClearHistoryView, PageShape, IsPage, PageFields
<1> HIDE DEF r
<1>3. /\ PageShape(m) /\ m.session = r.session /\ m.jar = r.jar /\ m.tasks = r.tasks
      /\ m.loadGen = r.loadGen /\ m.historyGen = r.historyGen /\ m.history = r.history
      /\ m.rows = r.rows
  BY <1>2, ResetDrawerFrame DEF Changes, PageFields
<1> HIDE DEF m
<1>4. /\ IsPage(n) /\ n.session = m.session /\ n.jar = m.jar /\ n.tasks = m.tasks
      /\ n.loadGen = m.loadGen /\ n.historyGen = m.historyGen /\ n.history = m.history
      /\ n.me = 0 /\ n.rows = << >>
  BY <1>3 DEF PageShape, IsPage, PageFields
<1> HIDE DEF n
<1>5. /\ IsPage(q) /\ q.session = n.session /\ q.jar = n.jar /\ q.tasks = n.tasks
      /\ q.loadGen = n.loadGen /\ q.historyGen = n.historyGen /\ q.history = n.history
      /\ q.me = n.me /\ q.panel = TRUE /\ q.locked = FALSE /\ q.rows = n.rows
  BY <1>4 DEF IsPage, PageFields
<1> HIDE DEF q
<1>6. p.historyGen \in Nat
  BY ShapeFields
<1> QED
  BY <1>1, <1>2, <1>3, <1>4, <1>5, <1>6 DEF Quits

-----------------------------------------------------------------------------
(* The relations in sequence.                                              *)

LEMMA RedrawsRemain ==
  ASSUME NEW p, NEW q, NEW O, Redraws(p, q, O), p.loadGen \in Nat
  PROVE  Remains(p, q, O)
BY DEF Redraws, Remains, Kept

LEMMA LoadsRemain ==
  ASSUME NEW p, NEW q, NEW t, NEW O, Loads(p, q, t), p.loadGen \in Nat, t.op \in O, "history" \in O
  PROVE  Remains(p, q, O)
BY DEF Loads, Remains, Kept

LEMMA RedrawsLoad ==
  ASSUME NEW p, NEW q, NEW r, NEW t, Redraws(p, q, {}), Loads(q, r, t), p.historyGen \in Nat
  PROVE  Loads(p, r, t)
<1>1. q.tasks = p.tasks
  BY DEF Redraws
<1>2. \A f \in Kept \ {"loadGen"} : r[f] = p[f]
  BY DEF Redraws, Loads
<1>3. r.loadGen = p.loadGen + 1
  BY RedrawsFields DEF Loads
<1>4. HistoryOutdated(p, r)
  BY DEF Redraws, Loads, HistoryOutdated
<1> QED
  BY <1>1, <1>2, <1>3, <1>4 DEF Loads

LEMMA ShowsRedraw ==
  ASSUME NEW p, NEW q, NEW r, NEW a, Shows(p, q, a), Redraws(q, r, {}), p.historyGen \in Nat,
         \A u \in q.tasks : u.generation \in Nat
  PROVE  Shows(p, r, a)
<1>1. q.tasks = r.tasks
  BY DEF Redraws
<1>2. /\ \A f \in {"loadGen", "session", "jar", "locked"} : r[f] = p[f]
  BY DEF Redraws, Shows, Kept
<1>3. r.historyGen \in Nat /\ r.historyGen > p.historyGen /\ r.history = Nothing
      /\ r.historyGen >= q.historyGen
  BY DEF Redraws, Shows, HistoryOutdated
<1>4. r.session = q.session /\ r.jar = q.jar /\ r.board = q.board
  BY RedrawsFields
<1>5. \A u \in r.tasks \ p.tasks : Starts(r, u) /\ u.op = "history"
  <2>1. ASSUME NEW u \in r.tasks \ p.tasks
        PROVE  Starts(r, u) /\ u.op = "history"
    <3>1. Starts(q, u) /\ u.op = "history" /\ u.generation \in Nat /\ q.historyGen \in Nat
      BY <1>1, <2>1 DEF Shows
    <3> QED
      BY <1>3, <1>4, <3>1 DEF Starts
  <2> QED
    BY <2>1
<1> QED
  <2>1. /\ r.me = a.user /\ r.board = a.board /\ r.rows = a.rows /\ r.notes = a.user
        /\ r.selected = a.board /\ r.panel = FALSE /\ IsPage(r) /\ p.tasks \subseteq r.tasks
    BY SMTT(60), <1>1, RedrawsFields DEF Shows, Redraws
  <2> QED
    BY <1>2, <1>3, <1>5, <2>1 DEF Shows

LEMMA QuitsRedraw ==
  ASSUME NEW p, NEW q, NEW r, Quits(p, q), Redraws(q, r, {}), p.historyGen \in Nat
  PROVE  Quits(p, r)
<1>1. q.tasks = r.tasks
  BY DEF Redraws
<1>2. r.historyGen \in Nat /\ r.historyGen > p.historyGen /\ r.history = Nothing
  BY DEF Redraws, Quits, HistoryOutdated
<1> QED
  BY ZenonT(60), <1>1, <1>2, RedrawsFields DEF Quits, Redraws

(* The function being resumed may be taken from the tasks first.           *)
LEMMA EndFields ==
  ASSUME NEW p, PageShape(p), NEW t
  PROVE  LET e == End(p, t) IN
         /\ PageShape(e) /\ IsPage(e) /\ (\A f \in PageFields \ {"tasks"} : e[f] = p[f])
         /\ (\A f \in Kept : e[f] = p[f]) /\ e.historyGen = p.historyGen /\ e.history = p.history
         /\ e.tasks = p.tasks \ {t}
BY EndFrame DEF Changes, Kept, PageFields, PageShape

LEMMA RedrawsEnd ==
  ASSUME NEW p, NEW q, NEW O, PageShape(p), PageShape(q), Redraws(p, q, O), NEW t \in p.tasks
  PROVE  Redraws(End(p, t), End(q, t), O)
<1> DEFINE d == End(p, t)
           e == End(q, t)
<1>1. /\ PageShape(d) /\ (\A f \in Kept : d[f] = p[f])
      /\ d.historyGen = p.historyGen /\ d.history = p.history /\ d.tasks = p.tasks \ {t}
  BY EndFields
<1>2. /\ PageShape(e) /\ IsPage(e) /\ (\A f \in Kept : e[f] = q[f])
      /\ e.historyGen = q.historyGen /\ e.history = q.history /\ e.tasks = q.tasks \ {t}
  BY EndFields
<1> HIDE DEF d, e
<1>3. e.session = q.session /\ e.jar = q.jar /\ e.board = q.board
  BY <1>2 DEF Kept
<1>4. \A u \in e.tasks \ d.tasks : Starts(e, u) /\ u.op \in O
  BY <1>1, <1>2, <1>3 DEF Redraws, Starts
<1>5. Redraws(d, e, O)
  BY <1>1, <1>2, <1>4 DEF Redraws, HistoryOutdated
<1> QED
  BY <1>5 DEF d, e

LEMMA QuitsEnd ==
  ASSUME NEW p, NEW q, PageShape(p), PageShape(q), Quits(p, q), NEW t \in p.tasks
  PROVE  Quits(End(p, t), End(q, t))
<1> DEFINE d == End(p, t)
           e == End(q, t)
<1>1. /\ (\A f \in Kept : d[f] = p[f]) /\ d.historyGen = p.historyGen /\ d.tasks = p.tasks \ {t}
  BY EndFields
<1>2. /\ IsPage(e) /\ (\A f \in Kept : e[f] = q[f])
      /\ e.historyGen = q.historyGen /\ e.history = q.history /\ e.tasks = q.tasks \ {t}
  BY EndFields
<1> HIDE DEF d, e
<1>3. Quits(d, e)
  BY <1>1, <1>2 DEF Quits, Kept
<1> QED
  BY <1>3 DEF d, e

LEMMA ShowsEnd ==
  ASSUME NEW p, NEW q, NEW r, PageShape(p), PageShape(q), Shows(p, q, r), NEW t \in p.tasks
  PROVE  Shows(End(p, t), End(q, t), r)
<1> DEFINE d == End(p, t)
           e == End(q, t)
<1>1. /\ (\A f \in Kept : d[f] = p[f]) /\ d.historyGen = p.historyGen /\ d.tasks = p.tasks \ {t}
  BY EndFields
<1>2. /\ IsPage(e) /\ (\A f \in Kept : e[f] = q[f])
      /\ e.historyGen = q.historyGen /\ e.history = q.history /\ e.tasks = q.tasks \ {t}
  BY EndFields
<1> HIDE DEF d, e
<1>3. e.session = q.session /\ e.jar = q.jar /\ e.board = q.board
  BY <1>2 DEF Kept
<1>4. \A u \in e.tasks \ d.tasks : Starts(e, u) /\ u.op = "history"
  BY <1>1, <1>2, <1>3 DEF Shows, Starts
<1>5. Shows(d, e, r)
  BY <1>1, <1>2, <1>4 DEF Shows, Kept
<1> QED
  BY <1>5 DEF d, e

LEMMA RemainsEnd ==
  ASSUME NEW p, NEW q, NEW O, PageShape(p), PageShape(q), Remains(p, q, O), NEW t \in p.tasks
  PROVE  Remains(End(p, t), End(q, t), O)
<1> DEFINE d == End(p, t)
           e == End(q, t)
<1>1. /\ (\A f \in Kept : d[f] = p[f]) /\ d.historyGen = p.historyGen /\ d.history = p.history
      /\ d.tasks = p.tasks \ {t}
  BY EndFields
<1>2. /\ IsPage(e) /\ (\A f \in Kept : e[f] = q[f])
      /\ e.historyGen = q.historyGen /\ e.history = q.history /\ e.tasks = q.tasks \ {t}
  BY EndFields
<1> HIDE DEF d, e
<1>3. e.session = q.session /\ e.jar = q.jar /\ e.board = q.board /\ e.loadGen = q.loadGen
      /\ e.selected = q.selected /\ d.loadGen = p.loadGen
  BY <1>1, <1>2 DEF Kept
<1>4. \A u \in e.tasks \ d.tasks : u.op \in O /\ (Starts(e, u) \/ Requests(e, u))
  BY <1>1, <1>2, <1>3 DEF Remains, Starts, Requests
<1>5. Remains(d, e, O)
  BY <1>1, <1>2, <1>3, <1>4 DEF Remains, Kept, HistoryOutdated
<1> QED
  BY <1>5 DEF d, e

LEMMA RemainsRedraw ==
  ASSUME NEW p, NEW q, NEW r, NEW O, Remains(p, q, O), Redraws(q, r, {}), p.historyGen \in Nat,
         \A u \in q.tasks : u.generation \in Nat
  PROVE  Remains(p, r, O)
<1>1. q.tasks = r.tasks /\ IsPage(r)
  BY DEF Redraws
<1>2. \A f \in {"me", "board", "rows", "notes", "session", "jar", "panel", "locked"} : r[f] = p[f]
  BY DEF Redraws, Remains, Kept
<1>3. HistoryOutdated(p, r) /\ r.historyGen >= q.historyGen /\ r.historyGen \in Nat
      /\ q.historyGen \in Nat
  BY DEF Redraws, Remains, HistoryOutdated
<1>4. r.loadGen \in Nat /\ r.loadGen >= p.loadGen
  BY RedrawsFields DEF Remains
<1>5. \A u \in r.tasks \ p.tasks : u.op \in O /\ (Starts(r, u) \/ Requests(r, u))
  <2>1. ASSUME NEW u \in r.tasks \ p.tasks
        PROVE  u.op \in O /\ (Starts(r, u) \/ Requests(r, u))
    <3>1. u.op \in O /\ (Starts(q, u) \/ Requests(q, u)) /\ u.generation \in Nat
      BY <1>1, <2>1 DEF Remains
    <3>2. CASE Starts(q, u)
      BY <1>3, <3>1, <3>2, RedrawsFields DEF Starts
    <3>3. CASE Requests(q, u)
      BY <3>1, <3>3, RedrawsFields DEF Requests
    <3> QED
      BY <3>1, <3>2, <3>3
  <2> QED
    BY <2>1
<1> QED
  BY <1>1, <1>2, <1>3, <1>4, <1>5 DEF Remains, Redraws

-----------------------------------------------------------------------------
(* What a resumed function t makes of the page e that it has left.         *)

(* The load is given up: the board that is shown remains, or the login.    *)
LEMMA LoadFailsRemains ==
  ASSUME NEW p, NEW T, Good(p, T)
  PROVE  LET q == LoadFails(p) IN Remains(p, q, {"history"}) \/ Quits(p, q)
<1> DEFINE m == [p EXCEPT !.selected = p.board, !.queued = 0]
           q == Render(m)
<1>0. PageShape(p) /\ p.loadGen \in Nat /\ p.historyGen \in Nat
  BY ShapeFields DEF Good
<1>1. CASE p.me = 0
  <2>1. LoadFails(p) = ShowLoggedOut(p)
    BY <1>1 DEF LoadFails
  <2> QED
    BY <1>0, <2>1, LoggedOutQuits
<1>2. CASE p.me # 0 /\ p.selected = p.board
  <2>1. LoadFails(p) = p
    BY <1>2 DEF LoadFails
  <2> QED
    BY <1>0, <2>1 DEF Remains, HistoryOutdated, PageShape
<1>3. CASE p.me # 0 /\ p.selected # p.board
  <2>1. LoadFails(p) = IF q.me = 0 THEN ShowLoggedOut(q) ELSE q
    BY <1>3 DEF LoadFails
  <2>2. Changes(p, m, {"selected", "queued"}) /\ m.selected = p.board /\ m.queued = 0
    BY DEF Good, PageShape, IsPage, PageFields, Changes
  <2> HIDE DEF m
  <2>3. PageShape(m)
    BY <2>2, ShapeFields, ChangedShape DEF Good, FieldOK
  <2>4. Good(m, T)
    BY <2>2, <2>3, GoodSame DEF Core
  <2>5. Redraws(m, q, {"history"})
    BY <2>4, RedrawsRender
  <2> HIDE DEF q
  <2>6. /\ m.me = p.me /\ m.loadGen = p.loadGen /\ m.tasks = p.tasks
        /\ m.historyGen = p.historyGen /\ m.history = p.history
        /\ \A f \in Kept \ {"selected"} : m[f] = p[f]
    BY <2>2 DEF Changes, PageFields, Kept
  <2>7. q.me # 0
    BY <1>3, <2>5, <2>6, RedrawsFields
  <2>8. q.loadGen \in Nat /\ q.loadGen >= p.loadGen
    BY <1>0, <2>5, <2>6, RedrawsFields
  <2>9. HistoryOutdated(p, q)
    BY <2>5, <2>6 DEF Redraws, HistoryOutdated
  <2>10. \A f \in {"me", "board", "rows", "notes", "session", "jar", "panel", "locked"} : q[f] = p[f]
    BY <2>5, <2>6 DEF Redraws, Kept
  <2>11. p.tasks \subseteq q.tasks /\ \A u \in q.tasks \ p.tasks : Starts(q, u) /\ u.op = "history"
    BY <2>5, <2>6 DEF Redraws
  <2>12. Remains(p, q, {"history"})
    BY <2>5, <2>8, <2>9, <2>10, <2>11 DEF Remains, Redraws
  <2> QED
    BY <2>1, <2>7, <2>12
<1> QED
  BY <1>1, <1>2, <1>3

(* The end of a load, whatever function had asked for it.                  *)
Loaded(p, q, t) ==
  LET e == End(p, t) IN
  \/ ~LoadIsCurrent(p, t) /\ Redraws(e, q, {})
  \/ LoadIsCurrent(p, t) /\ t.reply.status = "ok" /\ Shows(e, q, t.reply)
  \/ LoadIsCurrent(p, t) /\ t.reply.status = "denied" /\ Quits(e, q)
  \/ LoadIsCurrent(p, t) /\ t.reply.status = "failed" /\ (Remains(e, q, {"history"}) \/ Quits(e, q))

LEMMA LoadReturnsLoaded ==
  ASSUME NEW p, Good(p, {}), NEW t \in p.tasks, t.url = "state", t.reply.status # "none"
  PROVE  Loaded(p, End(LoadReturns(p, t), t), t)
<1> DEFINE r == LoadReturns(p, t)
           e == End(p, t)
           q == End(r, t)
<1>0. /\ TaskOK(t) /\ PageShape(p) /\ p.historyGen \in Nat
      /\ t.reply.status \in {"ok", "denied", "failed"} /\ Good(r, {}) /\ PageShape(r)
  <2>1. TaskOK(t)
    BY UnderWay
  <2>2. Good(r, {})
    BY <2>1, GoodLoadReturns
  <2> QED
    BY <2>1, <2>2, ShapeFields DEF Good, TaskOK, ReplyOK
<1>2. CASE ~LoadIsCurrent(p, t)
  <2>1. r = p
    BY <1>2 DEF LoadReturns
  <2>2. Redraws(e, q, {})
    BY <1>0, <2>1, EndFields DEF Redraws, HistoryOutdated
  <2> QED
    BY <1>2, <2>2 DEF Loaded
<1>3. CASE LoadIsCurrent(p, t) /\ t.reply.status = "ok"
  <2>1. t.reply.user \in Users /\ t.reply.board \in BoardIds \union {0} /\ IsRows(t.reply.rows)
    BY <1>0, <1>3 DEF TaskOK, ReplyOK
  <2>2. r = LoadSucceeds(p, t.reply)
    BY <1>3 DEF LoadReturns
  <2>3. Shows(p, r, t.reply)
    BY <2>1, <2>2, LoadSucceedsShows
  <2> HIDE DEF r
  <2>4. Shows(e, q, t.reply)
    BY <1>0, <2>3, ShowsEnd
  <2> QED
    BY <1>3, <2>4 DEF Loaded, r
<1>4. CASE LoadIsCurrent(p, t) /\ t.reply.status = "denied"
  <2>1. r = ShowLoginRequired(p)
    BY <1>4 DEF LoadReturns
  <2>2. Quits(p, r)
    BY <1>0, <2>1, LoginRequiredQuits
  <2> HIDE DEF r
  <2>3. Quits(e, q)
    BY <1>0, <2>2, QuitsEnd
  <2> QED
    BY <1>4, <2>3 DEF Loaded, r
<1>5. CASE LoadIsCurrent(p, t) /\ t.reply.status = "failed"
  <2>1. r = LoadFails(p)
    BY <1>5 DEF LoadReturns
  <2>2. Remains(p, r, {"history"}) \/ Quits(p, r)
    BY <2>1, LoadFailsRemains
  <2> HIDE DEF r
  <2>3. Remains(e, q, {"history"}) \/ Quits(e, q)
    BY <1>0, <2>2, RemainsEnd, QuitsEnd
  <2> QED
    BY <1>5, <2>3 DEF Loaded, r
<1> QED
  BY <1>0, <1>2, <1>3, <1>4, <1>5

LEMMA LoadedRedraw ==
  ASSUME NEW p, NEW q, NEW r, NEW t, Loaded(p, q, t), Redraws(q, r, {}), PageShape(p),
         \A u \in q.tasks : u.generation \in Nat
  PROVE  Loaded(p, r, t)
<1> DEFINE e == End(p, t)
<1>0. e.historyGen \in Nat
  BY EndFields, ShapeFields
<1> HIDE DEF e
<1>1. Redraws(e, q, {}) => Redraws(e, r, {})
  BY <1>0, RedrawsCompose DEF Redraws
<1>2. Shows(e, q, t.reply) => Shows(e, r, t.reply)
  BY <1>0, ShowsRedraw
<1>3. Quits(e, q) => Quits(e, r)
  BY <1>0, QuitsRedraw
<1>4. Remains(e, q, {"history"}) => Remains(e, r, {"history"})
  BY <1>0, RemainsRedraw
<1> QED
  BY <1>1, <1>2, <1>3, <1>4 DEF Loaded, e

LEMMA GoodGenerations ==
  ASSUME NEW p, NEW T, Good(p, T)
  PROVE  /\ PageShape(p) /\ p.historyGen \in Nat /\ p.loadGen \in Nat /\ p.session \in Nat
         /\ p.session # 0
         /\ \A u \in p.tasks : u.generation \in Nat
BY ShapeFields DEF Good, TasksOK, TaskOK, TaskShape

LEMMA AfterLoadLoaded ==
  ASSUME NEW p, Good(p, {}), NEW t \in p.tasks, t.url = "state", t.reply.status # "none"
  PROVE  Loaded(p, AfterLoad(p, t), t)
<1> DEFINE q == End(LoadReturns(p, t), t)
<1>1. Loaded(p, q, t)
  BY LoadReturnsLoaded
<1>2. TaskOK(t) /\ TaskShape(t) /\ (t.op \in Binders => t.ticket \in Ids)
  BY UnderWay
<1>3. Good(LoadReturns(p, t), {}) /\ Follows(p, LoadReturns(p, t))
  BY <1>2, GoodLoadReturns
<1>4. Good(q, {t})
  BY <1>3, GoodEnd DEF Follows
<1>5. PageShape(p) /\ PageShape(q) /\ \A u \in q.tasks : u.generation \in Nat
  BY <1>4, GoodGenerations
<1>6. AfterLoad(p, t) =
        CASE t.op \in LoadOnly -> q
          [] t.op \in {"save", "comment"} -> FinishDrawerMutation(q, t)
          [] t.op \in {"trash", "duplicate"} -> FinishDrawerMutation(OpenCopy(q, t), t)
          [] t.op \in {"move", "epic"} -> Release(q, t)
  BY DEF AfterLoad
<1> HIDE DEF q
<1>7. t.op \in LoadOnly \union Binders
  <2>1. <<t.op, t.url>> \notin Calls
    BY DEF Calls
  <2>2. \/ t.url = "state" /\ t.op \in LoadOnly \union Binders
        \/ <<t.op, t.url>> \in Calls
    BY <1>2 DEF TaskShape
  <2> QED
    BY <2>1, <2>2
<1>8. CASE t.op \in LoadOnly
  BY <1>1, <1>6, <1>8 DEF LoadOnly
<1>9. CASE t.op \in {"save", "comment"}
  <2>1. AfterLoad(p, t) = FinishDrawerMutation(q, t) /\ t.ticket \in Ids
    BY <1>2, <1>6, <1>9 DEF LoadOnly, Binders, EditorOps
  <2>2. Redraws(q, FinishDrawerMutation(q, t), {})
    BY <1>5, <2>1, RedrawsFinish
  <2> QED
    BY <1>1, <1>5, <2>1, <2>2, LoadedRedraw
<1>10. CASE t.op \in {"trash", "duplicate"}
  <2>1. AfterLoad(p, t) = FinishDrawerMutation(OpenCopy(q, t), t) /\ t.ticket \in Ids
    BY <1>2, <1>6, <1>10 DEF LoadOnly, Binders, EditorOps
  <2>2. Redraws(q, OpenCopy(q, t), {}) /\ Good(OpenCopy(q, t), {t})
    BY <1>4, <1>5, RedrawsCopy, GoodOpenCopy
  <2>3. Redraws(OpenCopy(q, t), FinishDrawerMutation(OpenCopy(q, t), t), {})
    BY <2>1, <2>2, RedrawsFinish DEF Good
  <2>4. Loaded(p, OpenCopy(q, t), t) /\ \A u \in OpenCopy(q, t).tasks : u.generation \in Nat
    BY <1>1, <1>5, <2>2, LoadedRedraw, GoodGenerations
  <2> QED
    BY <1>5, <2>1, <2>3, <2>4, LoadedRedraw
<1>11. CASE t.op \in {"move", "epic"}
  <2>1. AfterLoad(p, t) = Release(q, t) /\ t.ticket \in Ids
    BY <1>2, <1>6, <1>11 DEF LoadOnly, Binders, EditorOps
  <2>2. Redraws(q, Release(q, t), {})
    BY <1>5, <2>1, RedrawsRelease
  <2> QED
    BY <1>1, <1>5, <2>1, <2>2, LoadedRedraw
<1> QED
  BY <1>7, <1>8, <1>9, <1>10, <1>11 DEF Binders, EditorOps

(* Function t makes its next call.                                         *)
Continues(p, q, t) ==
  /\ IsPage(q) /\ \A f \in Kept \union {"historyGen", "history"} : q[f] = p[f]
  /\ \E s : /\ q.tasks = p.tasks \union {s}
            /\ s.op = t.op /\ s.url # "state" /\ s.session = t.session /\ s.board = t.board
            /\ s.sent = q.session /\ s.as = q.jar /\ s.reply = NoReply

(* Nobody waits for the function any more, or its request was lost.        *)
Lost(p, t) ==
  \/ t.reply.status = "failed"
  \/ t.session # p.session \/ t.sent # p.session
  \/ t.op \in {"move", "epic"} /\ ~OnItsBoard(p, t)

(* Functions go on in their session; promoting and creating do not ask.    *)
GoesOn(p, t) == CurrentSessionGuard(p, t) \/ t.op \in {"promote", "create"}

(* The answer to a request that changes tickets: the board is loaded       *)
(* again, unless the session has ended or nobody waits for it.             *)
Written(p, q, t) ==
  LET e == End(p, t) IN
  \/ Loads(e, q, t) /\ GoesOn(p, t)
  \/ t.op \in {"promote", "import"} /\ Continues(e, q, t) /\ GoesOn(p, t)
  \/ t.sent = p.session /\ Quits(e, q)
  \/ Lost(p, t) /\ Redraws(e, q, {})

LEMMA DeniedCases ==
  ASSUME NEW p, Good(p, {}), NEW t \in p.tasks, NEW current
  PROVE  LET d == End(Denied(p, t, current), t)
             e == End(p, t)
         IN /\ PageShape(d) /\ PageShape(e) /\ e.historyGen \in Nat
            /\ t.reply.status # "denied" => d = e
            /\ \/ d = e /\ ~(t.reply.status = "denied" /\ t.sent = p.session /\ current)
               \/ Quits(e, d) /\ t.reply.status = "denied" /\ t.sent = p.session /\ current
<1>1. PageShape(p) /\ PageShape(ShowLoginRequired(p))
  BY GoodLoginRequired DEF Good
<1>2. Quits(End(p, t), End(ShowLoginRequired(p), t))
  BY <1>1, LoginRequiredQuits, QuitsEnd
<1>3. PageShape(End(p, t)) /\ PageShape(End(ShowLoginRequired(p), t))
  BY <1>1, EndFields
<1> QED
  BY <1>2, <1>3, ShapeFields DEF Denied

(* What the function still tidies up changes neither.                      *)
LEMMA DeniedThen ==
  ASSUME NEW p, Good(p, {}), NEW t \in p.tasks, NEW current, NEW r,
         Redraws(End(Denied(p, t, current), t), r, {})
  PROVE  LET e == End(p, t) IN
         \/ Redraws(e, r, {}) /\ ~(t.reply.status = "denied" /\ t.sent = p.session /\ current)
         \/ Quits(e, r) /\ t.reply.status = "denied" /\ t.sent = p.session /\ current
BY DeniedCases, QuitsRedraw

LEMMA WrittenDenied ==
  ASSUME NEW p, Good(p, {}), NEW t \in p.tasks, t.reply.status \notin {"none", "ok"}, NEW r,
         NEW current, current \/ (t.op \in {"move", "epic"} /\ ~OnItsBoard(p, t)),
         Redraws(End(Denied(p, t, current), t), r, {})
  PROVE  Written(p, r, t)
<1>1. t.reply.status \in {"denied", "failed"}
  BY UnderWay DEF ReplyOK
<1>2. CASE Redraws(End(p, t), r, {}) /\ ~(t.reply.status = "denied" /\ t.sent = p.session /\ current)
  BY <1>1, <1>2 DEF Written, Lost
<1>3. CASE Quits(End(p, t), r) /\ t.reply.status = "denied" /\ t.sent = p.session /\ current
  BY <1>3 DEF Written
<1> QED
  BY <1>2, <1>3, DeniedThen

LEMMA WrittenLoads ==
  ASSUME NEW p, Good(p, {}), NEW t \in p.tasks, NEW q, PageShape(q), Redraws(p, q, {}),
         NEW u, TaskShape(u), u.op = t.op, u.session = t.session, u.board = t.board,
         t.op \in LoadOnly \union Binders, GoesOn(p, t)
  PROVE  Written(p, Load(End(q, t), u), t)
<1> DEFINE e == End(p, t)
           d == End(q, t)
           r == Load(d, u)
<1>1. PageShape(e) /\ e.historyGen \in Nat /\ PageShape(d) /\ Redraws(e, d, {})
  BY RedrawsEnd, EndFields, ShapeFields DEF Good
<1>2. Loads(d, r, u)
  BY <1>1, LoadLoads
<1>3. Loads(e, r, u)
  BY <1>1, <1>2, RedrawsLoad
<1>4. Loads(e, r, t)
  BY <1>3 DEF Loads
<1> QED
  BY <1>4 DEF Written

LEMMA EditorWritten ==
  ASSUME NEW p, Good(p, {}), NEW t \in p.tasks, t.op \in EditorOps, t.reply.status # "none"
  PROVE  /\ ~Succeeded(t) => Written(p, FinishDrawerMutation(End(Denied(p, t, TRUE), t), t), t)
         /\ ~CurrentSessionGuard(p, t) => Written(p, FinishDrawerMutation(End(p, t), t), t)
         /\ CurrentSessionGuard(p, t) =>
              \A q : PageShape(q) /\ Redraws(p, q, {}) => Written(p, Load(End(q, t), t), t)
<1>1. t.ticket \in Ids /\ TaskShape(t)
  BY UnderWay DEF Binders
<1>2. PageShape(End(p, t)) /\ PageShape(End(Denied(p, t, TRUE), t))
  BY DeniedCases
<1>3. Redraws(End(p, t), FinishDrawerMutation(End(p, t), t), {})
  BY <1>1, <1>2, RedrawsFinish
<1>4. Redraws(End(Denied(p, t, TRUE), t), FinishDrawerMutation(End(Denied(p, t, TRUE), t), t), {})
  BY <1>1, <1>2, RedrawsFinish
<1>5. ~Succeeded(t) => Written(p, FinishDrawerMutation(End(Denied(p, t, TRUE), t), t), t)
  BY <1>4, WrittenDenied DEF Succeeded
<1>6. ~CurrentSessionGuard(p, t) => Written(p, FinishDrawerMutation(End(p, t), t), t)
  BY <1>3 DEF Written, Lost, CurrentSessionGuard
<1>7. ASSUME CurrentSessionGuard(p, t), NEW q, PageShape(q), Redraws(p, q, {})
      PROVE  Written(p, Load(End(q, t), t), t)
  BY <1>1, <1>7, WrittenLoads DEF Binders, GoesOn
<1> QED
  BY <1>5, <1>6, <1>7

LEMMA SaveWritten ==
  ASSUME NEW p, Good(p, {}), NEW t \in p.tasks, t.op = "save", t.reply.status # "none"
  PROVE  Written(p, SaveDrawer(p, t), t)
<1> DEFINE saved == [t.keep EXCEPT !.comment = 0]
           m == [p EXCEPT !.base = saved]
           q == IF ~IsCurrentDrawer(p, t) THEN p ELSE IF p.draft = saved THEN ResetDrawer(p) ELSE m
<1>1. PageShape(p) /\ p.historyGen \in Nat
  BY ShapeFields DEF Good
<1>2. saved \in Baseline
  <2>1. t.keep \in Fields
    BY UnderWay DEF TaskShape
  <2> QED
    BY <2>1 DEF Fields, Baseline
<1> HIDE DEF saved
<1>3. Changes(p, m, {"base"}) /\ m.base = saved
  BY <1>1 DEF PageShape, IsPage, PageFields, Changes
<1> HIDE DEF m
<1>4. PageShape(m) /\ Redraws(p, m, {})
  BY <1>1, <1>2, <1>3, ChangedShape, RedrawsByFields DEF FieldOK, Kept
<1>5. PageShape(q) /\ Redraws(p, q, {})
  BY <1>1, <1>4, RedrawsItself, RedrawsReset, ResetDrawerFrame
<1>6. SaveDrawer(p, t) =
        CASE Succeeded(t) /\ CurrentSessionGuard(p, t) -> Load(End(q, t), t)
          [] Succeeded(t) /\ ~CurrentSessionGuard(p, t) -> FinishDrawerMutation(End(p, t), t)
          [] ~Succeeded(t) -> FinishDrawerMutation(End(Denied(p, t, TRUE), t), t)
  BY DEF SaveDrawer, saved, m
<1> HIDE DEF q
<1> QED
  BY <1>5, <1>6, EditorWritten DEF EditorOps

LEMMA CommentWritten ==
  ASSUME NEW p, Good(p, {}), NEW t \in p.tasks, t.op = "comment", t.reply.status # "none"
  PROVE  Written(p, AddComment(p, t), t)
<1> DEFINE m == [p EXCEPT !.draft.comment = IF @ = t.keep.comment THEN 0 ELSE @,
                          !.base.comment = 0]
           q == IF ~IsCurrentDrawer(p, t) THEN p ELSE m
<1>1. PageShape(p) /\ p.historyGen \in Nat /\ p.draft \in Fields /\ p.base \in Baseline
  BY ShapeFields DEF Good
<1>2. Changes(p, m, {"draft", "base"}) /\ m.draft \in Fields /\ m.base \in Baseline
  BY <1>1 DEF PageShape, IsPage, PageFields, Changes, Fields, Baseline
<1>3. AddComment(p, t) =
        CASE Succeeded(t) /\ CurrentSessionGuard(p, t) -> Load(End(q, t), t)
          [] Succeeded(t) /\ ~CurrentSessionGuard(p, t) -> FinishDrawerMutation(End(p, t), t)
          [] ~Succeeded(t) -> FinishDrawerMutation(End(Denied(p, t, TRUE), t), t)
  BY DEF AddComment
<1> HIDE DEF m
<1>4. PageShape(m) /\ Redraws(p, m, {})
  BY <1>1, <1>2, ChangedShape, RedrawsByFields DEF FieldOK, Kept
<1>5. PageShape(q) /\ Redraws(p, q, {})
  BY <1>1, <1>4, RedrawsItself
<1> HIDE DEF q
<1> QED
  BY <1>3, <1>5, EditorWritten DEF EditorOps

LEMMA ActionWritten ==
  ASSUME NEW p, Good(p, {}), NEW t \in p.tasks, t.op \in {"trash", "duplicate"},
         <<t.op, t.url>> \in Calls, t.reply.status # "none"
  PROVE  Written(p, TaskDrawerAction(p, t), t)
<1> DEFINE current == IsCurrentDrawer(p, t)
           q == IF current THEN ResetDrawer(p) ELSE p
           copy == IF t.op = "duplicate" /\ current THEN t.reply.made ELSE 0
           u == [t EXCEPT !.made = copy, !.editor = q.editGen]
           d == Denied(p, t, TRUE)
           restored == IF IsCurrentDrawer(d, t) THEN [p EXCEPT !.base = t.keep] ELSE d
<1>0. PageShape(p) /\ p.historyGen \in Nat /\ TaskShape(t) /\ t.ticket \in Ids
      /\ t.keep \in Baseline /\ t.op \in EditorOps
  BY UnderWay, ShapeFields DEF Good, TaskShape, Binders, EditorOps
<1>1. TaskDrawerAction(p, t) =
        CASE Succeeded(t) /\ CurrentSessionGuard(p, t) -> Load(End(q, t), u)
          [] Succeeded(t) /\ ~CurrentSessionGuard(p, t) -> FinishDrawerMutation(End(p, t), t)
          [] ~Succeeded(t) -> FinishDrawerMutation(End(restored, t), t)
  BY DEF TaskDrawerAction
<1>2. PageShape(q) /\ Redraws(p, q, {}) /\ q.editGen \in Nat
  BY <1>0, RedrawsItself, RedrawsReset, ResetDrawerFrame, ShapeFields
<1>3. CASE Succeeded(t) /\ CurrentSessionGuard(p, t)
  <2>1. copy \in Nat
    <3>1. t.op = "duplicate" => t.url = "duplicate"
      BY DEF Calls
    <3> QED
      BY <1>3, <3>1, UnderWay DEF ReplyOK, Succeeded
  <2> HIDE DEF copy, q
  <2>2. /\ IsTask(u) /\ u.made = copy /\ u.editor = q.editGen
        /\ \A f \in TaskFields \ {"made", "editor"} : u[f] = t[f]
    BY <1>0 DEF TaskShape, IsTask, TaskFields
  <2> HIDE DEF u
  <2>3. /\ u.op = t.op /\ u.url = t.url /\ u.ticket = t.ticket /\ u.row = t.row /\ u.id = t.id
        /\ u.board = t.board /\ u.keep = t.keep /\ u.todo = t.todo /\ u.ask = t.ask
        /\ u.generation = t.generation /\ u.session = t.session /\ u.sent = t.sent
        /\ u.as = t.as
    BY <2>2 DEF TaskFields
  <2>4. TaskShape(u)
    BY <1>0, <1>2, <2>1, <2>2, <2>3 DEF TaskShape
  <2>5. Written(p, Load(End(q, t), u), t)
    BY <1>0, <1>2, <1>3, <2>3, <2>4, WrittenLoads DEF Binders, GoesOn
  <2> QED
    BY <1>1, <1>3, <2>5
<1>4. CASE Succeeded(t) /\ ~CurrentSessionGuard(p, t)
  BY <1>0, <1>1, <1>4, EditorWritten
<1>5. CASE ~Succeeded(t)
  <2>1. TaskDrawerAction(p, t) = FinishDrawerMutation(End(restored, t), t)
    BY <1>1, <1>5
  <2>2. CASE IsCurrentDrawer(d, t)
    <3> DEFINE m == [p EXCEPT !.base = t.keep]
    <3>1. restored = m
      BY <2>2
    <3>2. d = p
      <4>1. t.session <= p.session /\ t.session \in Nat /\ p.session \in Nat
        BY UnderWay, ShapeFields DEF Good
      <4>2. d = p \/ d.session = p.session + 1
        BY GoodDenied
      <4>3. t.session = d.session
        BY <2>2 DEF IsCurrentDrawer
      <4> HIDE DEF d
      <4>4. d.session # p.session + 1
        BY <4>1, <4>3
      <4> QED
        BY <4>2, <4>4
    <3>3. Changes(p, m, {"base"}) /\ m.base = t.keep
      BY <1>0 DEF PageShape, IsPage, PageFields, Changes
    <3> HIDE DEF m
    <3>4. PageShape(m) /\ Redraws(p, m, {})
      BY <1>0, <3>3, ChangedShape, RedrawsByFields DEF FieldOK, Kept
    <3>5. /\ Redraws(End(p, t), End(m, t), {}) /\ PageShape(End(m, t)) /\ End(p, t).historyGen \in Nat
      BY <1>0, <3>4, RedrawsEnd, EndFields
    <3>6. Redraws(End(m, t), FinishDrawerMutation(End(m, t), t), {})
      BY <1>0, <3>5, RedrawsFinish
    <3>7. Redraws(End(p, t), FinishDrawerMutation(End(m, t), t), {})
      BY <3>5, <3>6, RedrawsCompose DEF Redraws
    <3>8. Written(p, FinishDrawerMutation(End(m, t), t), t)
      <4>1. Redraws(End(Denied(p, t, TRUE), t), FinishDrawerMutation(End(m, t), t), {})
        BY <3>2, <3>7
      <4> QED
        BY <1>5, <4>1, WrittenDenied DEF Succeeded
    <3> QED
      BY <2>1, <3>1, <3>8
  <2>3. CASE ~IsCurrentDrawer(d, t)
    BY <1>0, <1>5, <2>1, <2>3, EditorWritten
  <2> QED
    BY <2>2, <2>3
<1> QED
  BY <1>3, <1>4, <1>5

LEMMA MoveWritten ==
  ASSUME NEW p, Good(p, {}), NEW t \in p.tasks, t.op = "move", t.reply.status # "none"
  PROVE  Written(p, MoveBoardTicket(p, t), t)
<1> DEFINE d == Denied(p, t, OnItsBoard(p, t))
<1>1. t.ticket \in Ids /\ TaskShape(t) /\ PageShape(p)
  BY UnderWay DEF Binders, Good
<1>2. CASE Succeeded(t) /\ OnItsBoard(p, t)
  <2>1. Written(p, Load(End(p, t), t), t)
    BY <1>1, <1>2, RedrawsItself, WrittenLoads DEF Binders, GoesOn, OnItsBoard
  <2> QED
    BY <1>2, <2>1 DEF MoveBoardTicket
<1>3. CASE ~(Succeeded(t) /\ OnItsBoard(p, t))
  <2>1. MoveBoardTicket(p, t) = Release(End(d, t), t)
    BY <1>3 DEF MoveBoardTicket
  <2>2. Redraws(End(d, t), Release(End(d, t), t), {})
    BY <1>1, DeniedCases, RedrawsRelease
  <2>3. CASE Succeeded(t)
    <3>1. d = p
      BY <2>3 DEF Denied, Succeeded
    <3>2. Redraws(End(p, t), Release(End(d, t), t), {})
      BY <2>2, <3>1
    <3> QED
      BY <1>3, <2>1, <2>3, <3>2 DEF Written, Lost
  <2>4. CASE ~Succeeded(t)
    <3>1. Written(p, Release(End(d, t), t), t)
      BY <2>2, <2>4, WrittenDenied DEF Succeeded
    <3> QED
      BY <2>1, <3>1
  <2> QED
    BY <2>3, <2>4
<1> QED
  BY <1>2, <1>3

LEMMA EpicWritten ==
  ASSUME NEW p, Good(p, {}), NEW t \in p.tasks, t.op = "epic", t.reply.status # "none"
  PROVE  Written(p, ChangeEpicCompletion(p, t), t)
<1> DEFINE d == Denied(p, t, OnItsBoard(p, t))
           q == Release(End(d, t), t)
<1>1. t.ticket \in Ids /\ TaskShape(t) /\ PageShape(p) /\ p.historyGen \in Nat
      /\ End(p, t).historyGen \in Nat
  BY UnderWay, EndFields, ShapeFields DEF Binders, Good
<1>2. ChangeEpicCompletion(p, t) = IF Succeeded(t) /\ OnItsBoard(p, t) THEN Load(q, t) ELSE q
  BY DEF ChangeEpicCompletion
<1>3. Redraws(End(d, t), q, {}) /\ PageShape(q)
  BY <1>1, DeniedCases, RedrawsRelease, ReleaseFrame
<1>4. CASE Succeeded(t)
  <2>1. d = p
    BY <1>4 DEF Denied, Succeeded
  <2>2. Redraws(End(p, t), q, {})
    BY <1>3, <2>1
  <2> HIDE DEF q
  <2>3. CASE OnItsBoard(p, t)
    <3>1. Loads(q, Load(q, t), t)
      BY <1>1, <1>3, LoadLoads DEF Binders
    <3>2. Loads(End(p, t), Load(q, t), t)
      BY <1>1, <2>2, <3>1, RedrawsLoad
    <3> QED
      BY <1>2, <1>4, <2>3, <3>2 DEF Written, GoesOn, OnItsBoard
  <2>4. CASE ~OnItsBoard(p, t)
    BY <1>2, <2>2, <2>4 DEF Written, Lost
  <2> QED
    BY <2>3, <2>4
<1>5. CASE ~Succeeded(t)
  <2>1. Written(p, q, t)
    BY <1>3, <1>5, WrittenDenied DEF Succeeded
  <2> QED
    BY <1>2, <1>5, <2>1
<1> QED
  BY <1>4, <1>5

(* Functions without an editor end with their answer.                      *)
LEMMA EndsWritten ==
  ASSUME NEW p, Good(p, {}), NEW t \in p.tasks, t.reply.status # "none", ~Succeeded(t)
  PROVE  Written(p, End(Denied(p, t, TRUE), t), t)
<1> DEFINE d == End(Denied(p, t, TRUE), t)
<1>1. PageShape(d)
  BY DeniedCases
<1>2. Redraws(d, d, {})
  BY <1>1, RedrawsItself
<1> QED
  BY <1>2, WrittenDenied DEF Succeeded

LEMMA NotDenied ==
  ASSUME NEW p, NEW t, NEW current, t.reply.status # "denied"
  PROVE  Denied(p, t, current) = p
BY DEF Denied

(* The function goes on with u, which differs in its call only.            *)
LEMMA SendNextContinues ==
  ASSUME NEW p, PageShape(p), NEW t, NEW u, TaskShape(u), u.op = t.op, u.url # "state",
         u.session = t.session, u.board = t.board
  PROVE  Continues(p, SendNext(p, u), t)
<1> DEFINE q == SendNext(p, u)
           s == Asking(p, u)
<1>1. /\ PageShape(q) /\ Changes(p, q, {"tasks"}) /\ q.tasks = p.tasks \union {s}
      /\ s.reply = NoReply /\ s.sent = p.session
      /\ \A f \in TaskFields \ {"sent", "as", "reply"} : s[f] = u[f]
  BY SendNextFrame
<1>2. s.as = p.jar
  BY DEF TaskShape, IsTask, TaskFields, Asking
<1> HIDE DEF q, s
<1>3. s.op = u.op /\ s.url = u.url /\ s.session = u.session /\ s.board = u.board
  BY <1>1 DEF TaskFields
<1>4. IsPage(q) /\ \A f \in Kept \union {"historyGen", "history"} : q[f] = p[f]
  BY <1>1 DEF Changes, PageFields, Kept
<1>5. q.session = p.session /\ q.jar = p.jar
  BY <1>4 DEF Kept
<1>6. Continues(p, q, t)
  BY <1>1, <1>2, <1>3, <1>4, <1>5 DEF Continues
<1> QED
  BY <1>6 DEF q

LEMMA CreateWritten ==
  ASSUME NEW p, Good(p, {}), NEW t \in p.tasks, t.op \in {"create", "restore", "import"},
         t.reply.status # "none"
  PROVE  /\ t.op = "create" => Written(p, CreateTicket(p, t), t)
         /\ t.op # "create" => Written(p, RestoreTask(p, t), t)
<1>1. TaskShape(t) /\ PageShape(p) /\ t.op \in LoadOnly
  BY UnderWay DEF Good, LoadOnly
<1>2. GoesOn(p, t) => Written(p, Load(End(p, t), t), t)
  BY <1>1, RedrawsItself, WrittenLoads
<1>3. ~Succeeded(t) => Written(p, End(Denied(p, t, TRUE), t), t)
  BY EndsWritten
<1>4. ASSUME Succeeded(t), ~CurrentSessionGuard(p, t)
      PROVE  Written(p, End(Denied(p, t, TRUE), t), t)
  <2>1. Denied(p, t, TRUE) = p
    BY <1>4, NotDenied DEF Succeeded
  <2>2. Redraws(End(p, t), End(p, t), {})
    BY <1>1, EndFields, RedrawsItself
  <2> QED
    BY <1>4, <2>1, <2>2 DEF Written, Lost, CurrentSessionGuard
<1>5. t.op = "create" => Written(p, CreateTicket(p, t), t)
  BY <1>2, <1>3 DEF CreateTicket, GoesOn
<1>6. t.op # "create" => Written(p, RestoreTask(p, t), t)
  BY <1>2, <1>3, <1>4 DEF RestoreTask, GoesOn
<1> QED
  BY <1>5, <1>6

LEMMA ImportWritten ==
  ASSUME NEW p, Good(p, {}), NEW t \in p.tasks, t.op = "import", t.url # "state",
         t.reply.status # "none", t.url = "file" => t.reply.status # "denied"
  PROVE  Written(p, ImportBoardFile(p, t), t)
<1> DEFINE u == [t EXCEPT !.url = "import"]
           e == End(p, t)
<1>1. TaskShape(t) /\ PageShape(e) /\ t.reply.status \in {"ok", "denied", "failed"}
  BY UnderWay, DeniedCases DEF ReplyOK
<1>2. t.url \in {"file", "import"}
  BY <1>1 DEF TaskShape, Calls
<1>3. CASE t.url = "file" /\ Succeeded(t) /\ CurrentSessionGuard(p, t)
  <2>1. ImportBoardFile(p, t) = SendNext(e, u)
    BY <1>3 DEF ImportBoardFile
  <2>2. /\ IsTask(u) /\ u.url = "import" /\ \A f \in TaskFields \ {"url"} : u[f] = t[f]
    BY <1>1 DEF TaskShape, IsTask, TaskFields
  <2> HIDE DEF u
  <2>3. /\ u.op = t.op /\ u.ticket = t.ticket /\ u.row = t.row /\ u.id = t.id
        /\ u.board = t.board /\ u.keep = t.keep /\ u.todo = t.todo /\ u.made = t.made
        /\ u.ask = t.ask /\ u.generation = t.generation /\ u.session = t.session
        /\ u.editor = t.editor /\ u.sent = t.sent /\ u.as = t.as
    BY <2>2 DEF TaskFields
  <2>4. TaskShape(u)
    BY <1>1, <2>2, <2>3 DEF TaskShape, Calls, Binders, EditorOps
  <2>5. Continues(e, SendNext(e, u), t)
    BY <1>1, <2>2, <2>3, <2>4, SendNextContinues
  <2> QED
    BY <1>3, <2>1, <2>5 DEF Written, GoesOn
<1>4. CASE t.url = "file" /\ ~(Succeeded(t) /\ CurrentSessionGuard(p, t))
  <2>1. ImportBoardFile(p, t) = e
    BY <1>4 DEF ImportBoardFile
  <2>2. Redraws(e, e, {})
    BY <1>1, RedrawsItself
  <2> QED
    BY <1>1, <1>4, <2>1, <2>2 DEF Written, Lost, Succeeded, CurrentSessionGuard
<1>5. CASE t.url = "import"
  BY <1>5, CreateWritten DEF ImportBoardFile
<1> QED
  BY <1>2, <1>3, <1>4, <1>5

LEMMA PromoteWritten ==
  ASSUME NEW p, Good(p, {}), NEW t \in p.tasks, t.op = "promote", t.url # "state",
         t.reply.status # "none"
  PROVE  Written(p, PromoteBacklogTicket(p, t), t)
<1> DEFINE d == Denied(p, t, TRUE)
           e == End(p, t)
           u == [t EXCEPT !.ticket = Head(t.todo).ticket, !.row = Head(t.todo).row,
                          !.todo = Tail(t.todo)]
<1>1. TaskShape(t) /\ PageShape(p) /\ PageShape(e) /\ t.op \in LoadOnly /\ t.op \notin Binders
  BY UnderWay, EndFields DEF Good, LoadOnly, Binders, EditorOps
<1>2. CASE Succeeded(t) /\ t.todo # << >>
  <2>1. PromoteBacklogTicket(p, t) = SendNext(e, u)
    BY <1>2, NotDenied DEF PromoteBacklogTicket, Succeeded
  <2> HIDE DEF e
  <2>2. t.todo \in Seq(Promotion)
    BY <1>1 DEF TaskShape
  <2>3. Head(t.todo) \in Promotion /\ Tail(t.todo) \in Seq(Promotion)
    BY <1>2, <2>2
  <2>4. /\ IsTask(u) /\ u.ticket = Head(t.todo).ticket /\ u.row = Head(t.todo).row
        /\ u.todo = Tail(t.todo)
        /\ \A f \in TaskFields \ {"ticket", "row", "todo"} : u[f] = t[f]
    BY <1>1 DEF TaskShape, IsTask, TaskFields
  <2> HIDE DEF u
  <2>5. /\ u.op = t.op /\ u.url = t.url /\ u.made = t.made /\ u.editor = t.editor /\ u.id = t.id
        /\ u.board = t.board /\ u.keep = t.keep /\ u.sent = t.sent
        /\ u.ask = t.ask /\ u.generation = t.generation /\ u.session = t.session /\ u.as = t.as
    BY <2>4 DEF TaskFields
  <2>6. u.ticket \in Ids /\ u.row \in Row /\ u.row.text # 0
    BY <2>3, <2>4 DEF Promotion, Stored
  <2>7. TaskShape(u)
    BY <1>1, <2>3, <2>4, <2>5, <2>6 DEF TaskShape
  <2>8. Continues(e, SendNext(e, u), t)
    BY <1>1, <2>5, <2>7, SendNextContinues
  <2> QED
    BY <2>1, <2>8 DEF Written, GoesOn, e
<1>3. CASE Succeeded(t) /\ t.todo = << >>
  <2>1. PromoteBacklogTicket(p, t) = Load(e, t)
    BY <1>3, NotDenied DEF PromoteBacklogTicket, Succeeded
  <2>2. Written(p, Load(e, t), t)
    BY <1>1, RedrawsItself, WrittenLoads DEF GoesOn
  <2> QED
    BY <2>1, <2>2
<1>4. CASE ~Succeeded(t)
  <2>1. PromoteBacklogTicket(p, t) = End(d, t)
    BY <1>4 DEF PromoteBacklogTicket
  <2> QED
    BY <1>4, <2>1, EndsWritten
<1> QED
  BY <1>2, <1>3, <1>4

(* The answer to another request: the account and its board stay, or the   *)
(* session ends.  Nothing goes on in a later session.                      *)
Answered(p, q, t, O) ==
  LET e == End(p, t) IN
  \/ Remains(e, q, O) /\ (CurrentSessionGuard(p, t) \/ q = e)
  \/ t.sent = p.session /\ Quits(e, q)

(* The history of the board the page shows, for the account that asked.    *)
ShowsHistory(p, q, t) ==
  /\ Changes(End(p, t), q, {"history"})
  /\ q.history = [user |-> t.reply.user, board |-> t.board]
  /\ t.reply.status = "ok" /\ t.session = p.session /\ t.board = p.board
  /\ t.generation = p.historyGen

LEMMA HistoryAnswered ==
  ASSUME NEW p, Good(p, {}), NEW t \in p.tasks, t.op = "history"
  PROVE  LET q == ShowHistory(p, t) IN
         \/ Redraws(End(p, t), q, {})
         \/ ShowsHistory(p, q, t)
         \/ t.sent = p.session /\ Quits(End(p, t), q)
<1> DEFINE current == OnItsBoard(p, t) /\ t.generation = p.historyGen /\ p.view = "history"
           d == End(Denied(p, t, current), t)
           h == [user |-> t.reply.user, board |-> t.board]
           q == [d EXCEPT !.history = h]
<1>1. PageShape(d) /\ (t.reply.status # "denied" => d = End(p, t))
  BY DeniedCases
<1>2. ShowHistory(p, t) = IF Succeeded(t) /\ current THEN q ELSE d
  BY DEF ShowHistory
<1>3. \/ Redraws(End(p, t), d, {})
      \/ t.sent = p.session /\ Quits(End(p, t), d)
  <2>1. Redraws(d, d, {})
    BY <1>1, RedrawsItself
  <2> QED
    BY <2>1, DeniedThen
<1>4. CASE ~(Succeeded(t) /\ current)
  BY <1>2, <1>3, <1>4
<1>5. CASE Succeeded(t) /\ current
  <2>1. d = End(p, t) /\ t.reply.status = "ok"
    BY <1>1, <1>5 DEF Succeeded
  <2> HIDE DEF d, h
  <2>2. Changes(d, q, {"history"}) /\ q.history = h
    BY <1>1 DEF PageShape, IsPage, PageFields, Changes
  <2>3. t.session = p.session /\ t.board = p.board /\ t.generation = p.historyGen
    BY <1>5 DEF OnItsBoard, CurrentSessionGuard
  <2>4. ShowsHistory(p, q, t)
    BY <2>1, <2>2, <2>3 DEF ShowsHistory, h
  <2> QED
    BY <1>2, <1>5, <2>4 DEF d, h
<1> QED
  BY <1>4, <1>5

(* The notifications of the account that asked.                            *)
Notifies(p, q, t) ==
  /\ Changes(End(p, t), q, {"notes"})
  /\ q.notes = t.reply.user /\ t.reply.status = "ok" /\ t.session = p.session

LEMMA PollAnswered ==
  ASSUME NEW p, Good(p, {}), NEW t \in p.tasks, t.op = "poll"
  PROVE  LET q == RefreshNotifications(p, t) IN
         \/ Redraws(End(p, t), q, {})
         \/ Notifies(p, q, t)
         \/ t.sent = p.session /\ Quits(End(p, t), q)
<1> DEFINE current == t.generation = p.pollGen /\ CurrentSessionGuard(p, t)
           d == End(Denied(p, t, current), t)
           q == [d EXCEPT !.notes = t.reply.user]
<1>1. PageShape(d) /\ (t.reply.status # "denied" => d = End(p, t))
  BY DeniedCases
<1>2. RefreshNotifications(p, t) = IF Succeeded(t) /\ current /\ p.me # 0 THEN q ELSE d
  BY DEF RefreshNotifications
<1>3. \/ Redraws(End(p, t), d, {})
      \/ t.sent = p.session /\ Quits(End(p, t), d)
  <2>1. Redraws(d, d, {})
    BY <1>1, RedrawsItself
  <2> QED
    BY <2>1, DeniedThen
<1>4. CASE ~(Succeeded(t) /\ current /\ p.me # 0)
  BY <1>2, <1>3, <1>4
<1>5. CASE Succeeded(t) /\ current /\ p.me # 0
  <2>1. d = End(p, t) /\ t.reply.status = "ok"
    BY <1>1, <1>5 DEF Succeeded
  <2> HIDE DEF d
  <2>2. Changes(d, q, {"notes"}) /\ q.notes = t.reply.user
    BY <1>1 DEF PageShape, IsPage, PageFields, Changes
  <2>3. t.session = p.session
    BY <1>5 DEF CurrentSessionGuard
  <2>4. Notifies(p, q, t)
    BY <2>1, <2>2, <2>3 DEF Notifies
  <2> QED
    BY <1>2, <1>5, <2>4 DEF d
<1> QED
  BY <1>4, <1>5

LEMMA RemainsItself ==
  ASSUME NEW p, PageShape(p), NEW O
  PROVE  Remains(p, p, O)
BY RedrawsItself, RedrawsRemain, ShapeFields

LEMMA LoadRemains ==
  ASSUME NEW p, PageShape(p), NEW t, TaskShape(t), t.op \in LoadOnly \union Binders, NEW O,
         t.op \in O, "history" \in O
  PROVE  Remains(p, Load(p, t), O)
BY LoadLoads, LoadsRemain, ShapeFields

LEMMA NotificationAnswered ==
  ASSUME NEW p, Good(p, {}), NEW t \in p.tasks, t.op = "notification"
  PROVE  Answered(p, OpenNotification(p, t), t, {"notification", "history"})
<1> DEFINE d == End(Denied(p, t, TRUE), t)
           e == End(p, t)
           O == {"notification", "history"}
<1>1. TaskShape(t) /\ t.op \in LoadOnly /\ PageShape(d) /\ t.session <= p.session
      /\ t.session \in Nat /\ p.session \in Nat
  BY UnderWay, DeniedCases, ShapeFields DEF LoadOnly, Good
<1>2. OpenNotification(p, t) = IF CurrentSessionGuard(d, t) THEN Load(d, t) ELSE d
  BY DEF OpenNotification
<1>3. d = e \/ (Quits(e, d) /\ t.sent = p.session)
  BY DeniedCases
<1> HIDE DEF d
<1>4. CASE d = e
  <2>1. Remains(e, d, O) /\ Remains(e, Load(d, t), O)
    BY <1>1, <1>4, RemainsItself, LoadRemains
  <2>2. d.session = p.session
    BY <1>4, EndFields DEF Kept, Good
  <2> QED
    BY <1>2, <1>4, <2>1, <2>2 DEF Answered, CurrentSessionGuard
<1>5. CASE Quits(e, d) /\ t.sent = p.session
  <2>1. e.session = p.session
    BY EndFields DEF Kept, Good
  <2>2. d.session # t.session
    BY <1>1, <1>5, <2>1 DEF Quits
  <2> QED
    BY <1>2, <1>5, <2>2 DEF Answered, CurrentSessionGuard
<1> QED
  BY <1>3, <1>4, <1>5

LEMMA NewBoardAnswered ==
  ASSUME NEW p, Good(p, {}), NEW t \in p.tasks, t.op = "newBoard", t.url # "state"
  PROVE  Answered(p, CreateBoard(p, t), t, {"newBoard", "history"})
<1> DEFINE d == End(Denied(p, t, TRUE), t)
           e == End(p, t)
           m == [d EXCEPT !.selected = t.reply.made, !.view = "board"]
           O == {"newBoard", "history"}
<1>1. TaskShape(t) /\ t.op \in LoadOnly /\ PageShape(d) /\ t.url = "board"
  <2>1. TaskShape(t) /\ PageShape(d)
    BY UnderWay, DeniedCases
  <2>2. <<t.op, t.url>> \in Calls
    BY <2>1 DEF TaskShape
  <2> QED
    BY <2>1, <2>2 DEF LoadOnly, Calls
<1>2. CreateBoard(p, t) =
        CASE Succeeded(t) /\ CurrentSessionGuard(p, t) /\ t.editor = p.editGen -> Load(m, t)
          [] Succeeded(t) /\ CurrentSessionGuard(p, t) /\ t.editor # p.editGen -> Load(d, t)
          [] ~(Succeeded(t) /\ CurrentSessionGuard(p, t)) -> d
  BY DEF CreateBoard
<1>3. /\ d = e \/ (Quits(e, d) /\ t.sent = p.session)
      /\ Succeeded(t) => d = e
  BY DeniedCases DEF Succeeded
<1>4. CASE ~(Succeeded(t) /\ CurrentSessionGuard(p, t) /\ t.editor = p.editGen)
  <2>1. Remains(e, e, O) /\ (d = e => Remains(e, Load(d, t), O))
    BY <1>1, RemainsItself, LoadRemains, DeniedCases
  <2> QED
    BY <1>2, <1>3, <1>4, <2>1 DEF Answered
<1>5. CASE Succeeded(t) /\ CurrentSessionGuard(p, t) /\ t.editor = p.editGen
  <2>1. t.reply.made \in BoardIds /\ d = e
    BY <1>1, <1>3, <1>5, UnderWay DEF ReplyOK, Succeeded
  <2> HIDE DEF d, e
  <2>2. Changes(d, m, {"selected", "view"}) /\ m.selected = t.reply.made /\ m.view = "board"
    BY <1>1 DEF PageShape, IsPage, PageFields, Changes
  <2> HIDE DEF m
  <2>3. PageShape(m)
    BY <1>1, <2>1, <2>2, ChangedShape DEF FieldOK, Views
  <2>4. Loads(m, Load(m, t), t)
    BY <1>1, <2>3, LoadLoads
  <2>5. /\ \A f \in Kept \ {"selected"} : m[f] = d[f]
        /\ m.tasks = d.tasks /\ m.historyGen = d.historyGen /\ m.history = d.history
        /\ m.loadGen = d.loadGen
    BY <2>2 DEF Changes, PageFields, Kept
  <2>6. Remains(m, Load(m, t), O)
    BY <1>1, <1>5, <2>3, LoadRemains
  <2>7. Remains(d, Load(m, t), O)
    BY <2>5, <2>6 DEF Remains, HistoryOutdated, Kept
  <2>8. Remains(e, Load(m, t), O)
    BY <2>1, <2>7
  <2>9. Answered(p, Load(m, t), t, O)
    BY <1>5, <2>8 DEF Answered, e
  <2> QED
    BY <1>2, <1>5, <2>9
<1> QED
  BY <1>4, <1>5

(* A login is answered: with its cookie the board is loaded.               *)
SignsIn(p, q, t) ==
  LET e == End(p, t) IN
  \/ t.reply.status # "ok" /\ q = e
  \/ /\ t.reply.status = "ok"
     /\ \E x : /\ PageShape(x) /\ Changes(e, x, {"jar"}) /\ x.jar = t.reply.made
               /\ \/ t.session # p.session /\ q = x
                  \/ t.session = p.session /\ Loads(x, q, t)

(* A new password is answered: its cookie begins another session.          *)
SignsAgain(p, q, t) ==
  LET e == End(p, t) IN
  \/ t.reply.status # "ok" /\ q = e
  \/ t.sent = p.session /\ Quits(e, q)
  \/ /\ t.reply.status = "ok"
     /\ \E x : /\ PageShape(x) /\ Changes(e, x, {"jar"}) /\ x.jar = t.reply.made
               /\ \/ t.session # p.session /\ q = x
                  \/ t.session = p.session /\ Loads(InvalidateSessionRequests(x), q, t)

(* A logout is answered: the cookie is taken back.                         *)
SignsOut(p, q, t) ==
  /\ Changes(End(p, t), q, {"jar", "locked"})
  /\ q.jar = IF t.reply.status = "ok" THEN 0 ELSE p.jar
  /\ q.locked = IF t.session = p.session THEN FALSE ELSE p.locked

LEMMA CookieTaken ==
  ASSUME NEW p, PageShape(p), NEW t, t.op \in {"login", "password"}, t.reply.status = "ok",
         t.reply.made \in Nat
  PROVE  LET x == End(TakesCookie(p, t), t) IN
         PageShape(x) /\ Changes(End(p, t), x, {"jar"}) /\ x.jar = t.reply.made
<1> DEFINE c == [p EXCEPT !.jar = t.reply.made]
           x == End(c, t)
           e == End(p, t)
<1>1. TakesCookie(p, t) = c
  BY DEF TakesCookie, Succeeded
<1>2. Changes(p, c, {"jar"}) /\ c.jar = t.reply.made
  BY DEF PageShape, IsPage, PageFields, Changes
<1> HIDE DEF c
<1>3. PageShape(c)
  BY <1>2, ChangedShape DEF FieldOK
<1>4. PageShape(x) /\ Changes(c, x, {"tasks"}) /\ x.tasks = c.tasks \ {t}
  BY <1>3, EndFrame
<1>5. Changes(p, e, {"tasks"}) /\ e.tasks = p.tasks \ {t}
  BY EndFrame
<1> HIDE DEF x, e
<1>6. Changes(e, x, {"jar"}) /\ x.jar = t.reply.made
  BY <1>2, <1>4, <1>5 DEF Changes, PageFields
<1> QED
  BY <1>1, <1>4, <1>6 DEF x, e

LEMMA LoginAnswered ==
  ASSUME NEW p, Good(p, {}), NEW t \in p.tasks, t.op = "login", t.url # "state"
  PROVE  SignsIn(p, Login(p, t), t)
<1> DEFINE x == End(TakesCookie(p, t), t)
<1>1. TaskShape(t) /\ t.op \in LoadOnly /\ PageShape(p) /\ t.url = "login"
  <2>1. <<t.op, t.url>> \in Calls
    BY UnderWay DEF TaskShape
  <2> QED
    BY <2>1, UnderWay DEF LoadOnly, Calls, Good
<1>2. Login(p, t) = IF Succeeded(t) /\ CurrentSessionGuard(p, t) THEN Load(x, t) ELSE x
  BY DEF Login
<1>3. CASE ~Succeeded(t)
  <2>1. x = End(p, t)
    BY <1>3 DEF TakesCookie
  <2> QED
    BY <1>2, <1>3, <2>1 DEF SignsIn, Succeeded
<1>4. CASE Succeeded(t)
  <2>1. t.reply.made \in Nat /\ t.reply.status = "ok"
    BY <1>1, <1>4, UnderWay DEF ReplyOK, Succeeded
  <2>2. PageShape(x) /\ Changes(End(p, t), x, {"jar"}) /\ x.jar = t.reply.made
    BY <1>1, <2>1, CookieTaken
  <2> HIDE DEF x
  <2>3. Loads(x, Load(x, t), t)
    BY <1>1, <2>2, LoadLoads
  <2> QED
    BY <1>2, <1>4, <2>1, <2>2, <2>3 DEF SignsIn, CurrentSessionGuard
<1> QED
  BY <1>3, <1>4

LEMMA PasswordAnswered ==
  ASSUME NEW p, Good(p, {}), NEW t \in p.tasks, t.op = "password", t.url # "state"
  PROVE  SignsAgain(p, SavePassword(p, t), t)
<1> DEFINE d == Denied(p, t, TRUE)
           x == End(TakesCookie(d, t), t)
<1>1. TaskShape(t) /\ t.op \in LoadOnly /\ PageShape(p) /\ t.url = "password"
  <2>1. <<t.op, t.url>> \in Calls
    BY UnderWay DEF TaskShape
  <2> QED
    BY <2>1, UnderWay DEF LoadOnly, Calls, Good
<1>2. SavePassword(p, t) = IF Succeeded(t) /\ CurrentSessionGuard(p, t)
                           THEN Load(InvalidateSessionRequests(x), t) ELSE x
  BY DEF SavePassword
<1>3. CASE ~Succeeded(t)
  <2>1. x = End(d, t)
    BY <1>3 DEF TakesCookie
  <2>2. End(d, t) = End(p, t) \/ (Quits(End(p, t), End(d, t)) /\ t.sent = p.session)
    BY DeniedCases
  <2> QED
    BY <1>2, <1>3, <2>1, <2>2 DEF SignsAgain, Succeeded
<1>4. CASE Succeeded(t)
  <2>1. t.reply.made \in Nat /\ t.reply.status = "ok"
    BY <1>1, <1>4, UnderWay DEF ReplyOK, Succeeded
  <2>2. d = p
    BY <2>1, NotDenied
  <2> DEFINE z == End(TakesCookie(p, t), t)
  <2>x. x = z
    BY <2>2
  <2>y. PageShape(z) /\ Changes(End(p, t), z, {"jar"}) /\ z.jar = t.reply.made
    BY <1>1, <2>1, CookieTaken
  <2> HIDE DEF x, z
  <2>3. PageShape(x) /\ Changes(End(p, t), x, {"jar"}) /\ x.jar = t.reply.made
    BY <2>x, <2>y
  <2>4. Loads(InvalidateSessionRequests(x), Load(InvalidateSessionRequests(x), t), t)
    BY <1>1, <2>3, InvalidateFrame, LoadLoads
  <2> QED
    BY <1>2, <1>4, <2>1, <2>3, <2>4 DEF SignsAgain, CurrentSessionGuard
<1> QED
  BY <1>3, <1>4

LEMMA LogoutAnswered ==
  ASSUME NEW p, Good(p, {}), NEW t \in p.tasks, t.op = "logout"
  PROVE  SignsOut(p, Logout(p, t), t)
<1> DEFINE c == TakesCookie(p, t)
           x == End(c, t)
           q == [x EXCEPT !.locked = FALSE]
           e == End(p, t)
<1>1. PageShape(p)
  BY DEF Good
<1>2. Logout(p, t) = IF CurrentSessionGuard(p, t) THEN q ELSE x
  BY DEF Logout
<1>3. PageShape(c) /\ Changes(p, c, {"jar"})
      /\ c.jar = (IF t.reply.status = "ok" THEN 0 ELSE p.jar)
  <2>1. CASE Succeeded(t)
    <3> DEFINE m == [p EXCEPT !.jar = 0]
    <3>1. c = m
      BY <2>1 DEF TakesCookie
    <3>2. Changes(p, m, {"jar"}) /\ m.jar = 0
      BY <1>1 DEF PageShape, IsPage, PageFields, Changes
    <3> HIDE DEF m
    <3>3. PageShape(m)
      BY <1>1, <3>2, ChangedShape DEF FieldOK
    <3> QED
      BY <2>1, <3>1, <3>2, <3>3 DEF Succeeded
  <2>2. CASE ~Succeeded(t)
    <3>1. c = p
      BY <2>2 DEF TakesCookie
    <3> QED
      BY <1>1, <2>2, <3>1 DEF Succeeded, Changes, PageShape
  <2> QED
    BY <2>1, <2>2
<1> HIDE DEF c
<1>4. PageShape(x) /\ Changes(c, x, {"tasks"}) /\ x.tasks = c.tasks \ {t}
  BY <1>3, EndFrame
<1>5. Changes(p, e, {"tasks"}) /\ e.tasks = p.tasks \ {t}
  BY <1>1, EndFrame
<1> HIDE DEF x, e
<1>6. /\ Changes(e, x, {"jar", "locked"}) /\ x.jar = c.jar /\ x.locked = p.locked
      /\ e.tasks = x.tasks
  BY <1>3, <1>4, <1>5 DEF Changes, PageFields
<1>7. Changes(x, q, {"locked"}) /\ q.locked = FALSE
  BY <1>4 DEF PageShape, IsPage, PageFields, Changes
<1> HIDE DEF q
<1>8. Changes(e, q, {"jar", "locked"}) /\ q.jar = c.jar
  BY <1>6, <1>7 DEF Changes, PageFields
<1> QED
  BY <1>2, <1>3, <1>6, <1>7, <1>8 DEF SignsOut, CurrentSessionGuard, e

-----------------------------------------------------------------------------
(* The first session while nobody disturbs it.                             *)

(* Functions that change tickets.                                          *)
Changers == {"save", "comment", "trash", "duplicate", "move", "epic", "promote", "create",
             "restore", "import"}

(* The tickets of a board, as the server sends them.                       *)
OnBoard(s, b) == [i \in {j \in DOMAIN s.rows : s.rows[j].board = b} |-> s.rows[i]]

(* The board that an account is shown.                                     *)
Home(s, u, ask) ==
  LET boards == s.access[u] IN
  IF boards = {} THEN 0
  ELSE IF ask \in boards THEN ask ELSE CHOOSE x \in boards : \A y \in boards : x <= y

(* A function that has yet to change a ticket.                             *)
Changing(t) == t.url # "state" /\ t.op \in Changers

Writing(p) == \E t \in p.tasks : Changing(t)

CurrentLoads(p) == {t \in p.tasks : t.url = "state" /\ LoadIsCurrent(p, t)}

(* The rows are the stored ones or are being fetched; so are those on the  *)
(* way.                                                                    *)
InStep(s, p) ==
  /\ p.rows = OnBoard(s, p.board) \/ CurrentLoads(p) # {}
  /\ \A t \in CurrentLoads(p) : t.reply.status = "ok" => t.reply.rows = OnBoard(s, t.reply.board)

(* A function of the first session, about the board of its account.        *)
Undisturbed(s, p, t) ==
  /\ t.session = 1 /\ t.sent = 1 /\ t.as = 1 /\ t.reply.status # "failed"
  /\ t.op \notin {"newBoard", "notification", "login", "logout"}
  /\ t.url = "file" => t.reply.status # "denied"
  /\ t.op \in {"move", "epic"} => p.me # 0 /\ t.board = p.board
  /\ t.url = "state" =>
       /\ t.generation <= p.loadGen
       /\ Home(s, s.owner[1], t.ask) = Home(s, s.owner[1], p.selected)
       /\ t.reply.status = "ok" => t.reply.board = Home(s, s.owner[1], t.ask)

Calm(s, p) ==
  /\ p.session = 1 /\ p.jar = 1
  /\ p.me # 0 => p.selected = p.board /\ Home(s, s.owner[1], p.board) = p.board
  /\ \A t \in p.tasks : Undisturbed(s, p, t)
  /\ Writing(p) \/ InStep(s, p)

LEMMA HomeTwice ==
  ASSUME NEW s, StoreOK(s), NEW u \in Users, NEW a
  PROVE  Home(s, u, Home(s, u, a)) = Home(s, u, a)
<1>1. s.access[u] \in SUBSET BoardIds
  BY StoreShape
<1>2. s.access[u] # {} => (CHOOSE x \in s.access[u] : \A y \in s.access[u] : x <= y) \in s.access[u]
  BY <1>1, FirstBoard
<1> DEFINE c == CHOOSE x \in s.access[u] : \A y \in s.access[u] : x <= y
<1> HIDE DEF c
<1> QED
  BY <1>2 DEF Home, c

(* Functions start, and nothing of the board changes.                      *)
LEMMA CalmRedraws ==
  ASSUME NEW s, NEW p, NEW q, NEW O, Calm(s, p), Redraws(p, q, O),
         O \intersect {"newBoard", "notification", "login", "logout"} = {},
         O \intersect {"move", "epic"} # {} => p.me # 0
  PROVE  Calm(s, q)
<1>1. /\ q.me = p.me /\ q.board = p.board /\ q.rows = p.rows /\ q.selected = p.selected
      /\ q.loadGen = p.loadGen /\ q.session = p.session /\ q.jar = p.jar
  BY RedrawsFields
<1>2. p.tasks \subseteq q.tasks /\ \A u \in q.tasks \ p.tasks : Starts(q, u) /\ u.op \in O
  BY DEF Redraws
<1>3. \A u \in q.tasks : Undisturbed(s, q, u)
  <2> TAKE u \in q.tasks
  <2>1. CASE u \in p.tasks
    BY <1>1, <2>1 DEF Calm, Undisturbed
  <2>2. CASE u \notin p.tasks
    <3>1. Starts(q, u) /\ u.op \in O
      BY <1>2, <2>2
    <3>2. u.reply.status = "none" /\ u.url # "state"
      BY <3>1 DEF Starts, NoReply
    <3> QED
      BY <1>1, <3>1, <3>2 DEF Calm, Undisturbed, Starts
  <2> QED
    BY <2>1, <2>2
<1>4. Writing(p) => Writing(q)
  BY <1>2 DEF Writing
<1>5. CurrentLoads(q) = CurrentLoads(p)
  BY <1>1, <1>2 DEF CurrentLoads, LoadIsCurrent, Starts
<1> QED
  BY <1>1, <1>3, <1>4, <1>5 DEF Calm, InStep

(* A function ends without anyone waiting for what it has done.            *)
LEMMA CalmEnd ==
  ASSUME NEW s, NEW p, PageShape(p), Calm(s, p), NEW t \in p.tasks, ~Changing(t),
         t \notin CurrentLoads(p)
  PROVE  Calm(s, End(p, t))
<1> DEFINE e == End(p, t)
<1>1. /\ e.me = p.me /\ e.board = p.board /\ e.rows = p.rows /\ e.selected = p.selected
      /\ e.loadGen = p.loadGen /\ e.session = p.session /\ e.jar = p.jar /\ e.tasks = p.tasks \ {t}
  BY EndFields DEF Kept
<1> HIDE DEF e
<1>2. CurrentLoads(e) = CurrentLoads(p)
  BY <1>1 DEF CurrentLoads, LoadIsCurrent
<1>3. Writing(p) => Writing(e)
  BY <1>1 DEF Writing
<1>4. \A u \in e.tasks : Undisturbed(s, e, u)
  BY <1>1 DEF Calm, Undisturbed
<1> QED
  BY <1>1, <1>2, <1>3, <1>4 DEF Calm, InStep, e

(* The current load is shown.                                              *)
LEMMA CalmShows ==
  ASSUME NEW s, StoreOK(s), s.owner[1] \in Users, NEW p, PageShape(p), Calm(s, p),
         NEW t \in CurrentLoads(p), t.reply.status = "ok", t.reply.user # 0, NEW q,
         Shows(End(p, t), q, t.reply)
  PROVE  Calm(s, q)
<1> DEFINE e == End(p, t)
           H(a) == Home(s, s.owner[1], a)
<1>1. /\ e.loadGen = p.loadGen /\ e.session = p.session /\ e.jar = p.jar /\ e.tasks = p.tasks \ {t}
  BY EndFields DEF Kept
<1> HIDE DEF e
<1>2. /\ q.loadGen = p.loadGen /\ q.session = p.session /\ q.jar = p.jar
      /\ q.me = t.reply.user /\ q.board = t.reply.board /\ q.rows = t.reply.rows
      /\ q.selected = t.reply.board /\ e.tasks \subseteq q.tasks
      /\ \A u \in q.tasks \ e.tasks : Starts(q, u) /\ u.op = "history"
  BY <1>1 DEF Shows, e
<1>3. t \in p.tasks /\ t.url = "state"
  BY DEF CurrentLoads
<1>4. q.selected = H(p.selected) /\ H(q.selected) = H(p.selected)
  <2>1. t.reply.board = H(t.ask) /\ H(t.ask) = H(p.selected)
    BY <1>3 DEF Calm, Undisturbed
  <2>2. H(H(t.ask)) = H(t.ask)
    BY HomeTwice
  <2> HIDE DEF H
  <2> QED
    BY <1>2, <2>1, <2>2
<1>5. \A u \in q.tasks : u \notin e.tasks =>
        u.url # "state" /\ u.session = 1 /\ u.sent = 1 /\ u.as = 1 /\ u.reply.status = "none"
        /\ u.op = "history"
  <2>1. p.session = 1 /\ p.jar = 1
    BY DEF Calm
  <2> QED
    BY <1>2, <2>1 DEF Starts, NoReply
<1>6. p.me # 0 => q.board = p.board
  BY <1>2, <1>4 DEF Calm
<1>7. \A u \in q.tasks : Undisturbed(s, q, u)
  <2> TAKE u \in q.tasks
  <2>1. CASE u \in e.tasks
    <3>1. Undisturbed(s, p, u)
      BY <1>1, <2>1 DEF Calm
    <3> QED
      BY <1>2, <1>4, <1>6, <3>1 DEF Undisturbed
  <2>2. CASE u \notin e.tasks
    BY <1>5, <2>2 DEF Undisturbed
  <2> QED
    BY <2>1, <2>2
<1>8. Writing(p) => Writing(q)
  BY <1>1, <1>2, <1>3 DEF Writing, Changing
<1>9. CurrentLoads(q) \subseteq CurrentLoads(p)
  BY <1>1, <1>2, <1>5 DEF CurrentLoads, LoadIsCurrent
<1>10. ~Writing(p) => InStep(s, q)
  BY <1>2, <1>9 DEF Calm, InStep
<1>11. q.session = 1 /\ q.jar = 1 /\ q.selected = q.board
  BY <1>2 DEF Calm
<1>12. Home(s, s.owner[1], q.board) = q.board
  BY <1>4, <1>11
<1> QED
  BY <1>7, <1>8, <1>10, <1>11, <1>12 DEF Calm

(* A function that has changed tickets loads the board.                    *)
LEMMA CalmLoads ==
  ASSUME NEW s, NEW p, Good(p, {}), Calm(s, p), NEW t \in p.tasks, NEW q, Loads(End(p, t), q, t)
  PROVE  Calm(s, q)
<1> DEFINE e == End(p, t)
<1>1. /\ e.me = p.me /\ e.board = p.board /\ e.rows = p.rows /\ e.selected = p.selected
      /\ e.loadGen = p.loadGen /\ e.session = p.session /\ e.jar = p.jar /\ e.tasks = p.tasks \ {t}
  BY EndFields, GoodGenerations DEF Kept
<1> HIDE DEF e
<1>2. /\ q.me = p.me /\ q.board = p.board /\ q.rows = p.rows /\ q.selected = p.selected
      /\ q.session = p.session /\ q.jar = p.jar
  BY <1>1 DEF Loads, Kept, e
<1>3. /\ q.loadGen = p.loadGen + 1 /\ p.loadGen \in Nat
      /\ \A u \in q.tasks \ e.tasks :
           \/ Starts(q, u) /\ u.op = "history"
           \/ Requests(q, u) /\ u.op = t.op /\ u.session = t.session /\ u.board = t.board
      /\ \E u \in q.tasks : Requests(q, u)
  BY <1>1, GoodGenerations DEF Loads, e
<1>4. Undisturbed(s, p, t)
  BY DEF Calm
<1>5. \A u \in q.tasks : Undisturbed(s, q, u) /\ (u.url = "state" /\ u \in e.tasks => u.generation # q.loadGen)
                         /\ (u \notin e.tasks => u.reply.status = "none")
  <2> TAKE u \in q.tasks
  <2>1. CASE u \in e.tasks
    <3>1. Undisturbed(s, p, u) /\ u.generation \in Nat
      BY <1>1, <2>1, GoodGenerations DEF Calm
    <3> QED
      BY <1>2, <1>3, <2>1, <3>1 DEF Undisturbed
  <2>2. CASE u \notin e.tasks /\ Starts(q, u) /\ u.op = "history"
    BY <1>2, <2>2 DEF Undisturbed, Starts, NoReply, Calm
  <2>3. CASE u \notin e.tasks /\ Requests(q, u) /\ u.op = t.op /\ u.session = t.session /\ u.board = t.board
    BY <1>2, <1>3, <1>4, <2>3 DEF Undisturbed, Requests, NoReply, Calm
  <2> QED
    BY <1>3, <2>1, <2>2, <2>3
<1>6. CurrentLoads(q) # {}
  BY <1>3 DEF CurrentLoads, LoadIsCurrent, Requests
<1>7. \A u \in CurrentLoads(q) : u.reply.status = "none"
  BY <1>5 DEF CurrentLoads, LoadIsCurrent
<1>8. InStep(s, q)
  BY <1>6, <1>7 DEF InStep
<1> QED
  BY <1>2, <1>5, <1>8 DEF Calm

(* A function goes on with its next change.                                *)
LEMMA CalmContinues ==
  ASSUME NEW s, NEW p, PageShape(p), Calm(s, p), NEW t \in p.tasks, t.op \in {"promote", "import"},
         NEW q, Continues(End(p, t), q, t)
  PROVE  Calm(s, q)
<1> DEFINE e == End(p, t)
<1>1. /\ e.me = p.me /\ e.board = p.board /\ e.rows = p.rows /\ e.selected = p.selected
      /\ e.loadGen = p.loadGen /\ e.session = p.session /\ e.jar = p.jar /\ e.tasks = p.tasks \ {t}
  BY EndFields DEF Kept
<1> HIDE DEF e
<1>2. /\ q.me = p.me /\ q.board = p.board /\ q.rows = p.rows /\ q.selected = p.selected
      /\ q.loadGen = p.loadGen /\ q.session = p.session /\ q.jar = p.jar
  BY <1>1 DEF Continues, Kept, e
<1>3. PICK c : /\ q.tasks = e.tasks \union {c}
               /\ c.op = t.op /\ c.url # "state" /\ c.session = t.session /\ c.board = t.board
               /\ c.sent = q.session /\ c.as = q.jar /\ c.reply = NoReply
  BY DEF Continues, e
<1>4. Undisturbed(s, p, t) /\ p.session = 1 /\ p.jar = 1
  BY DEF Calm
<1>5. Undisturbed(s, q, c)
  BY <1>2, <1>3, <1>4 DEF Undisturbed, NoReply
<1>6. \A u \in q.tasks : Undisturbed(s, q, u)
  BY <1>1, <1>2, <1>3, <1>5 DEF Calm, Undisturbed
<1>7. Writing(q)
  BY <1>3 DEF Writing, Changing, Changers
<1> QED
  BY <1>2, <1>4, <1>6, <1>7 DEF Calm

-----------------------------------------------------------------------------
(* What the server's handlers leave alone.                                 *)

LEMMA WithRowKeeps ==
  ASSUME NEW s, s = [f \in StoreFields |-> s[f]], NEW i, NEW row
  PROVE  LET q == WithRow(s, i, row) IN
         /\ q = [f \in StoreFields |-> q[f]]
         /\ q.access = s.access /\ q.owner = s.owner /\ q.live = s.live
<1> DEFINE rows == [j \in DOMAIN s.rows \union {i} |->
                      IF j = i THEN [row EXCEPT !.version = row.version + 1] ELSE s.rows[j]]
           q == [s EXCEPT !.rows = rows]
<1>1. WithRow(s, i, row) = q
  BY DEF WithRow, StoreFields
<1> HIDE DEF rows
<1>2. /\ q = [f \in StoreFields |-> q[f]]
      /\ q.access = s.access /\ q.owner = s.owner /\ q.live = s.live
  BY DEF StoreFields
<1> QED
  BY <1>1, <1>2

LEMMA AcceptsKeeps ==
  ASSUME NEW s, s = [f \in StoreFields |-> s[f]], NEW x
  PROVE  LET q == Accepts(s, x) IN
         /\ q.access = s.access /\ q.owner = s.owner /\ q.live = s.live /\ q.rows = s.rows
BY DEF StoreFields, Accepts

LEMMA SessionKeeps ==
  ASSUME NEW s, s = [f \in StoreFields |-> s[f]], NEW k, NEW u
  PROVE  LET q == WithSession(s, u)
             r == WithoutSession(s, k)
         IN /\ q.access = s.access /\ q.owner = Append(s.owner, u) /\ q.rows = s.rows
            /\ r.access = s.access /\ r.owner = s.owner /\ r.rows = s.rows
            /\ r = [f \in StoreFields |-> r[f]]
BY DEF StoreFields, WithSession, WithoutSession

RowCalls == {"put", "move", "trash", "restore", "duplicate", "create"}

LEMMA EffectKeeps ==
  ASSUME NEW t, NEW u, NEW s, StoreOK(s)
  PROVE  LET q == Effect(s, t, u) IN
         /\ t.url # "board" => q.access = s.access
         /\ t.url \notin {"login", "password"} => q.owner = s.owner
         /\ t.url = "login" => q.owner = Append(s.owner, t.ask)
         /\ t.url = "password" => q.owner = Append(s.owner, u)
         /\ t.url \notin RowCalls => q.rows = s.rows
<1> DEFINE q == Effect(s, t, u)
           old == IF t.ticket \in DOMAIN s.rows THEN s.rows[t.ticket] ELSE NoRow
           Keeps(r) == r.access = s.access /\ r.owner = s.owner
<1>1. s = [f \in StoreFields |-> s[f]]
  BY StoreShape
<1>2. ASSUME NEW i, NEW row, NEW x
      PROVE  Keeps(WithRow(s, i, row)) /\ Keeps(Accepts(WithRow(s, i, row), x))
  BY <1>1, WithRowKeeps, AcceptsKeeps
<1>3. CASE t.url = "put"
  <2>1. q = Accepts(WithRow(s, t.ticket, [t.row EXCEPT !.live = old.live, !.version = old.version]),
                    t.row.text)
    BY <1>3 DEF Effect
  <2>2. Keeps(q)
    BY <1>2, <2>1
  <2> QED
    BY <1>3, <2>2 DEF RowCalls
<1>4. CASE t.url \in {"move", "trash", "restore", "duplicate", "create"}
  <2>1. \/ q = WithRow(s, t.ticket, [old EXCEPT !.done = ~@])
        \/ q = WithRow(s, t.ticket, [old EXCEPT !.live = FALSE])
        \/ q = WithRow(s, t.ticket, [old EXCEPT !.live = TRUE])
        \/ q = WithRow(s, NextId, old)
        \/ q = WithRow(s, NextId, [NewRow EXCEPT !.board = t.board])
    BY <1>4, Zenon DEF Effect
  <2>2. Keeps(q)
    BY <1>2, <2>1
  <2> QED
    BY <1>4, <2>2 DEF RowCalls
<1>5. CASE t.url = "comment"
  <2>1. q = Accepts(s, t.keep.comment)
    BY <1>5 DEF Effect
  <2> QED
    BY <1>1, <1>5, <2>1, AcceptsKeeps
<1>6. CASE t.url = "board"
  <2>1. q = [s EXCEPT !.access = [s.access EXCEPT ![u] = @ \union {NextBoard}]]
    BY <1>6 DEF Effect
  <2> QED
    BY <1>1, <1>6, <2>1 DEF StoreFields
<1>7. CASE t.url = "login"
  <2>1. q = WithSession(s, t.ask)
    BY <1>7 DEF Effect
  <2> QED
    BY <1>1, <1>7, <2>1, SessionKeeps
<1>8. CASE t.url = "logout"
  <2>1. q = WithoutSession(s, t.as)
    BY <1>8 DEF Effect
  <2> QED
    BY <1>1, <1>8, <2>1, SessionKeeps
<1>9. CASE t.url = "password"
  <2> DEFINE r == WithoutSession(s, t.as)
  <2>1. q = WithSession(r, u)
    BY <1>9 DEF Effect
  <2>2. r.access = s.access /\ r.owner = s.owner /\ r.rows = s.rows /\ r = [f \in StoreFields |-> r[f]]
    BY <1>1, SessionKeeps
  <2> HIDE DEF r
  <2> DEFINE w == WithSession(r, u)
  <2>3. w.access = r.access /\ w.owner = Append(r.owner, u) /\ w.rows = r.rows
    BY ZenonT(60), <2>2, SessionKeeps
  <2> HIDE DEF w
  <2>4. q = w
    BY <2>1 DEF w
  <2> QED
    BY <1>9, <2>2, <2>3, <2>4
<1>10. CASE t.url \notin {"put", "move", "comment", "trash", "restore", "duplicate", "create", "board",
                          "login", "logout", "password"}
  <2>1. q = s
    BY <1>10 DEF Effect
  <2> QED
    BY <1>10, <2>1
<1> QED
  BY <1>3, <1>4, <1>5, <1>6, <1>7, <1>8, <1>9, <1>10

LEMMA StateAnswer ==
  ASSUME NEW s, NEW t, NEW u
  PROVE  LET r == StateOf(s, t, u) IN
         /\ r.status = "ok" /\ r.user = u /\ r.board = Home(s, u, t.ask)
         /\ r.rows = OnBoard(s, r.board)
<1> DEFINE boards == s.access[u]
           b == IF t.ask \in boards \/ boards = {} THEN t.ask
                ELSE CHOOSE x \in boards : \A y \in boards : x <= y
           board == IF boards = {} THEN 0 ELSE b
           rows == [i \in {j \in DOMAIN s.rows : s.rows[j].board = board} |-> s.rows[i]]
<1>1. StateOf(s, t, u) = [status |-> "ok", user |-> u, board |-> board, rows |-> rows]
  BY DEF StateOf
<1>2. board = Home(s, u, t.ask)
  BY DEF Home
<1>3. rows = OnBoard(s, board)
  BY DEF OnBoard
<1> HIDE DEF rows, board
<1> QED
  BY <1>1, <1>2, <1>3

(* The answer is on the way.                                               *)
Replied(p, q, t, r) ==
  LET u == [t EXCEPT !.reply = r] IN
  /\ Changes(p, q, {"tasks"})
  /\ q.tasks = (p.tasks \ {t}) \union {u}
  /\ u.reply = r /\ \A f \in TaskFields \ {"reply"} : u[f] = t[f]

LEMMA RepliesReplied ==
  ASSUME Good(page, {}), NEW t \in page.tasks, NEW r, Replies(t, r)
  PROVE  Replied(page, page', t, r)
<1> DEFINE u == [t EXCEPT !.reply = r]
           q == [page EXCEPT !.tasks = (page.tasks \ {t}) \union {u}]
<1>1. page' = q
  BY DEF Replies
<1>2. u.reply = r /\ \A f \in TaskFields \ {"reply"} : u[f] = t[f]
  <2>1. TaskShape(t)
    BY UnderWay
  <2> QED
    BY <2>1 DEF TaskShape, IsTask, TaskFields
<1> HIDE DEF u
<1>3. Changes(page, q, {"tasks"}) /\ q.tasks = (page.tasks \ {t}) \union {u}
  BY DEF Good, PageShape, IsPage, PageFields, Changes
<1> QED
  BY <1>1, <1>2, <1>3 DEF Replied, u

LEMMA CalmReplied ==
  ASSUME NEW s, NEW z, NEW p, NEW q, Calm(s, p), NEW t \in p.tasks, t.reply.status = "none",
         NEW r, Replied(p, q, t, r),
         z.access = s.access, z.owner[1] = s.owner[1],
         r.status # "failed", t.url = "file" => r.status # "denied",
         t.url = "state" /\ r.status = "ok" =>
            r.board = Home(z, z.owner[1], t.ask) /\ r.rows = OnBoard(z, r.board),
         Changing(t) \/ z.rows = s.rows
  PROVE  Calm(z, q)
<1> DEFINE u == [t EXCEPT !.reply = r]
<1>1. q.tasks = (p.tasks \ {t}) \union {u} /\ u.reply = r
      /\ u.op = t.op /\ u.url = t.url /\ u.session = t.session /\ u.sent = t.sent /\ u.as = t.as
      /\ u.board = t.board /\ u.generation = t.generation /\ u.ask = t.ask
  BY DEF Replied, TaskFields
<1> HIDE DEF u
<1>2. /\ q.me = p.me /\ q.board = p.board /\ q.rows = p.rows /\ q.selected = p.selected
      /\ q.session = p.session /\ q.jar = p.jar /\ q.loadGen = p.loadGen
  BY DEF Replied, Changes, PageFields
<1>3. \A a : Home(z, z.owner[1], a) = Home(s, s.owner[1], a)
  BY DEF Home
<1>4. \A v \in p.tasks : Undisturbed(s, p, v)
  BY DEF Calm
<1>5. Undisturbed(z, q, u)
  BY <1>1, <1>2, <1>3, <1>4 DEF Undisturbed
<1>6. \A v \in q.tasks : Undisturbed(z, q, v)
  BY <1>1, <1>2, <1>3, <1>4, <1>5 DEF Undisturbed
<1>7. Writing(p) => Writing(q)
  BY <1>1 DEF Writing, Changing
<1>8. CASE ~Writing(p)
  <2>1. z.rows = s.rows /\ InStep(s, p)
    BY <1>8 DEF Writing, Calm
  <2>2. \A b : OnBoard(z, b) = OnBoard(s, b)
    BY <2>1 DEF OnBoard
  <2>3. \A v : v \in CurrentLoads(q) =>
           (v \in CurrentLoads(p) /\ v # t) \/ (v = u /\ t \in CurrentLoads(p))
    BY <1>1, <1>2 DEF CurrentLoads, LoadIsCurrent
  <2>4. CurrentLoads(p) # {} => CurrentLoads(q) # {}
    BY <1>1, <1>2 DEF CurrentLoads, LoadIsCurrent
  <2>5. t \in CurrentLoads(p) => t.url = "state"
    BY DEF CurrentLoads
  <2>6. InStep(z, q)
    <3>1. q.rows = OnBoard(z, q.board) \/ CurrentLoads(q) # {}
      BY <1>2, <2>1, <2>2, <2>4 DEF InStep
    <3>2. \A v \in CurrentLoads(q) : v.reply.status = "ok" => v.reply.rows = OnBoard(z, v.reply.board)
      BY <1>1, <2>1, <2>2, <2>3, <2>5 DEF InStep
    <3> QED
      BY <3>1, <3>2 DEF InStep
  <2> QED
    BY <1>2, <1>3, <1>6, <2>6 DEF Calm
<1> QED
  BY <1>2, <1>3, <1>6, <1>7, <1>8 DEF Calm

-----------------------------------------------------------------------------
(* The user's handlers, as far as account, board and loads go.             *)

LEMMA RedrawsThen ==
  ASSUME NEW p, NEW q, NEW r, NEW P, p.historyGen \in Nat, Redraws(p, q, {}), Redraws(q, r, P)
  PROVE  Redraws(p, r, P)
<1>1. \A u \in q.tasks \ p.tasks : u.generation \in Nat
  BY DEF Redraws
<1> QED
  BY <1>1, RedrawsCompose

LEMMA SendStarts ==
  ASSUME NEW p, PageShape(p), NEW t, IsTask(t), t.reply = NoReply, t.url # "state",
         t.op # "history", t.op \in {"move", "epic"} => t.board = p.board, NEW O, t.op \in O
  PROVE  LET q == Send(p, t) IN Redraws(p, q, O) /\ IsPage(q)
<1> DEFINE s == Sent(p, t)
           q == [p EXCEPT !.serial = p.serial + 1, !.tasks = p.tasks \union {s}]
<1>1. Send(p, t) = q
  BY DEF Send, Sent
<1>2. /\ s.reply = NoReply /\ s.session = p.session /\ s.sent = p.session /\ s.as = p.jar
      /\ s.op = t.op /\ s.url = t.url /\ s.board = t.board
  BY DEF IsTask, TaskFields, Sent
<1> HIDE DEF s
<1>3. Changes(p, q, {"tasks", "serial"}) /\ q.tasks = p.tasks \union {s}
  BY DEF PageShape, IsPage, PageFields, Changes
<1> HIDE DEF q
<1>4. q.session = p.session /\ q.jar = p.jar /\ q.board = p.board /\ q.historyGen = p.historyGen
      /\ q.history = p.history /\ IsPage(q) /\ \A f \in Kept : q[f] = p[f]
  BY <1>3 DEF Changes, PageFields, Kept
<1>5. Starts(q, s)
  BY <1>2, <1>4 DEF Starts
<1>6. p.historyGen \in Nat
  BY ShapeFields
<1>7. HistoryOutdated(p, q)
  BY <1>4, <1>6 DEF HistoryOutdated
<1> QED
  BY <1>1, <1>2, <1>3, <1>4, <1>5, <1>7 DEF Redraws

LEMMA SendAfter ==
  ASSUME NEW p, PageShape(p), NEW m, PageShape(m), Redraws(p, m, {}), NEW t, IsTask(t),
         t.reply = NoReply, t.url # "state", t.op # "history",
         t.op \in {"move", "epic"} => t.board = p.board, NEW O, t.op \in O
  PROVE  Redraws(p, Send(m, t), O)
<1>1. p.historyGen \in Nat /\ m.board = p.board
  BY ShapeFields, RedrawsFields
<1>2. Redraws(m, Send(m, t), O)
  BY <1>1, SendStarts
<1> QED
  BY <1>1, <1>2, RedrawsThen

(* A call that binds a ticket, for an editor or not.                       *)
LEMMA BindingStarts ==
  ASSUME NEW p, PageShape(p), NEW i \in Ids, NEW n \in Nat, NEW b \in Binding,
         NEW t, IsTask(t), t.reply = NoReply, t.url # "state", t.op # "history", NEW O, t.op \in O
  PROVE  LET m == [p EXCEPT !.mutation = n, !.pending[i] = b]
             w == [p EXCEPT !.pending[i] = b]
             s == [t EXCEPT !.ticket = i, !.board = p.board]
         IN Redraws(p, Send(m, s), O) /\ Redraws(p, Send(w, s), O)
<1> DEFINE pending == [p.pending EXCEPT ![i] = b]
           m == [p EXCEPT !.mutation = n, !.pending = pending]
           w == [p EXCEPT !.pending = pending]
           s == [t EXCEPT !.ticket = i, !.board = p.board]
<1>1. pending \in [Ids -> Binding] /\ p.historyGen \in Nat
  BY ShapeFields
<1>2. IsTask(s) /\ s.reply = NoReply /\ s.url = t.url /\ s.op = t.op /\ s.board = p.board
  BY DEF IsTask, TaskFields
<1>3. m = [p EXCEPT !.mutation = n, !.pending[i] = b] /\ w = [p EXCEPT !.pending[i] = b]
  BY <1>1 DEF PageShape, IsPage, PageFields
<1> HIDE DEF pending, s
<1>4. /\ Changes(p, m, {"mutation", "pending"}) /\ m.mutation = n /\ m.pending = pending
      /\ Changes(p, w, {"pending"}) /\ w.pending = pending
  BY <1>1 DEF PageShape, IsPage, PageFields, Changes
<1> HIDE DEF m, w
<1>5. PageShape(m) /\ PageShape(w)
  BY <1>1, <1>4, ChangedShape DEF FieldOK
<1>6. Redraws(p, m, {}) /\ Redraws(p, w, {})
  BY <1>1, <1>4, RedrawsByFields DEF Kept
<1>7. Redraws(p, Send(m, s), O) /\ Redraws(p, Send(w, s), O)
  BY <1>1, <1>2, <1>5, <1>6, SendAfter
<1> QED
  BY <1>3, <1>7 DEF s

LEMMA BeginStarts ==
  ASSUME NEW p, PageShape(p), CanMutateDrawer(p), NEW t, IsTask(t), t.reply = NoReply,
         t.url # "state", t.op # "history", NEW O, t.op \in O
  PROVE  Redraws(p, BeginDrawerMutation(p, t), O)
<1> DEFINE n == p.serial + 1
           b == [id |-> n, session |-> p.session]
           i == p.editing
<1>1. n \in Nat /\ b \in Binding /\ i \in Ids
  BY ShapeFields DEF Binding, CanMutateDrawer
<1>2. BeginDrawerMutation(p, t) =
        Send([p EXCEPT !.mutation = n, !.pending[i] = b], [t EXCEPT !.ticket = i, !.board = p.board])
  BY DEF BeginDrawerMutation
<1> HIDE DEF n, b, i
<1> QED
  BY <1>1, <1>2, BindingStarts

LEMMA BindStarts ==
  ASSUME NEW p, PageShape(p), NEW i \in Ids, NEW t, IsTask(t), t.reply = NoReply,
         t.url # "state", t.op # "history", NEW O, t.op \in O
  PROVE  Redraws(p, BindTicket(ResetDrawer(p), i, t), O)
<1> DEFINE r == ResetDrawer(p)
           b == [id |-> r.serial + 1, session |-> r.session]
           q == BindTicket(r, i, t)
<1>1. PageShape(r) /\ Redraws(p, r, {}) /\ p.historyGen \in Nat
  BY ResetDrawerFrame, RedrawsReset, ShapeFields
<1> HIDE DEF r
<1>2. b \in Binding
  BY <1>1, ShapeFields DEF Binding
<1>3. q = Send([r EXCEPT !.pending[i] = b], [t EXCEPT !.ticket = i, !.board = r.board])
  BY DEF BindTicket
<1> HIDE DEF b
<1>4. Redraws(r, q, O)
  BY <1>1, <1>2, <1>3, BindingStarts
<1> HIDE DEF q
<1>5. Redraws(p, q, O)
  BY <1>1, <1>4, RedrawsThen
<1> QED
  BY <1>5 DEF q, r

UserOK(u) == u = [f \in {"may", "left", "fails", "calm"} |-> u[f]]

(* What the user has done counts; some of it disturbs the page.            *)
LEMMA DoesFields ==
  ASSUME NEW op, Does(op), UserOK(user)
  PROVE  /\ op \in user.may /\ store' = store /\ UserOK(user') /\ user'.may = user.may
         /\ user'.calm => user.calm /\ op \notin {"choose", "route", "notification", "newBoard"}
<1> DEFINE calm == user.calm /\ op \notin {"choose", "route", "notification", "newBoard"}
           u == [user EXCEPT !.left = user.left - 1, !.calm = calm]
<1>1. user' = u /\ store' = store /\ op \in user.may
  <2>1. user' = [user EXCEPT !.left = @ - 1,
                   !.calm = @ /\ op \notin {"choose", "route", "notification", "newBoard"}]
    BY Zenon DEF Does
  <2>2. store' = store /\ op \in user.may
    BY DEF Does
  <2> QED
    BY <2>1, <2>2
<1> HIDE DEF calm
<1>2. UserOK(u) /\ u.may = user.may /\ u.calm = calm
  BY DEF UserOK
<1> HIDE DEF u
<1>3. u.calm => user.calm /\ op \notin {"choose", "route", "notification", "newBoard"}
  BY <1>2, Zenon DEF calm
<1> QED
  BY <1>1, <1>2, <1>3

(* A step of the user that leaves account, board and loads alone.          *)
Works(op) ==
  /\ op \in user.may /\ Redraws(page, page', {op, "history"})
  /\ page.me # 0
  /\ store' = store /\ UserOK(user') /\ user'.may = user.may
  /\ user'.calm => user.calm
  /\ op = "epic" => \E i \in Ids : ClickEpicStatus(i)
  /\ op = "promote" => \E i \in Ids, e \in Ids \union {0} : ClickPromote(i, e)

Working ==
  {"history", "open", "type", "note", "close", "save", "comment", "trash", "duplicate", "move",
   "epic", "promote", "create", "restore", "import", "poll", "password"}

LEMMA NavButtonWorks ==
  ASSUME Good(page, {}), UserOK(user), NEW view \in Views, NavButton(view)
  PROVE  Works("history")
<1> DEFINE r == ResetDrawer(page)
           m == [r EXCEPT !.view = view]
           O == {"history", "history"}
<1>1. page' = RenderView(m) /\ Does("history") /\ page.me # 0
  BY DEF NavButton, SignedIn
<1>2. PageShape(page) /\ PageShape(r) /\ Redraws(page, r, {}) /\ page.historyGen \in Nat
      /\ r.historyGen \in Nat
  BY ResetDrawerFrame, RedrawsReset, ShapeFields DEF Good
<1> HIDE DEF r
<1>3. Changes(r, m, {"view"}) /\ m.view = view
  BY <1>2 DEF PageShape, IsPage, PageFields, Changes
<1> HIDE DEF m
<1>4. PageShape(m) /\ Redraws(r, m, {})
  BY <1>2, <1>3, ChangedShape, RedrawsByFields DEF FieldOK, Kept
<1>5. Redraws(page, m, {})
  BY <1>2, <1>4, RedrawsThen
<1>6. Redraws(m, RenderView(m), O)
  BY <1>4, RedrawsView
<1>7. Redraws(page, RenderView(m), O)
  BY <1>2, <1>5, <1>6, RedrawsThen
<1> QED
  BY <1>1, <1>7, DoesFields DEF Works

LEMMA EditWorks ==
  ASSUME Good(page, {}), UserOK(user), Edit
  PROVE  \E op \in Working : Works(op)
<1>0. PageShape(page) /\ page.historyGen \in Nat /\ page.me # 0
  BY ShapeFields DEF Good, Edit, SignedIn
<1>1. CASE \E i \in Ids : OpenTicket(i)
  <2>1. PICK i \in Ids : OpenTicket(i)
    BY <1>1
  <2>2. Does("open") /\ page' = OpenEditor(page, i) /\ i \in DOMAIN page.rows
    BY <2>1 DEF OpenTicket, CanOpen
  <2>3. Redraws(page, page', {"open", "history"})
    BY <1>0, <2>2, RedrawsOpen
  <2>4. Works("open")
    BY <1>0, <2>2, <2>3, DoesFields DEF Works
  <2> QED
    BY <2>4 DEF Working
<1>2. CASE TypeText
  <2> DEFINE d == [page.draft EXCEPT !.text = page.serial + 1]
             q == [page EXCEPT !.serial = page.serial + 1, !.draft = d]
  <2>1. page' = q /\ Does("type")
    BY <1>0, <1>2 DEF TypeText, PageShape, IsPage, PageFields
  <2> HIDE DEF d
  <2>2. Changes(page, q, {"serial", "draft"})
    BY <1>0 DEF PageShape, IsPage, PageFields, Changes
  <2> HIDE DEF q
  <2>3. Redraws(page, q, {"type", "history"})
    BY <1>0, <2>2, RedrawsByFields DEF Kept
  <2>4. Works("type")
    BY <1>0, <2>1, <2>3, DoesFields DEF Works
  <2> QED
    BY <2>4 DEF Working
<1>3. CASE TypeComment
  <2> DEFINE d == [page.draft EXCEPT !.comment = page.serial + 1]
             q == [page EXCEPT !.serial = page.serial + 1, !.draft = d]
  <2>1. page' = q /\ Does("note")
    BY <1>0, <1>3 DEF TypeComment, PageShape, IsPage, PageFields
  <2> HIDE DEF d
  <2>2. Changes(page, q, {"serial", "draft"})
    BY <1>0 DEF PageShape, IsPage, PageFields, Changes
  <2> HIDE DEF q
  <2>3. Redraws(page, q, {"note", "history"})
    BY <1>0, <2>2, RedrawsByFields DEF Kept
  <2>4. Works("note")
    BY <1>0, <2>1, <2>3, DoesFields DEF Works
  <2> QED
    BY <2>4 DEF Working
<1>4. CASE CloseDrawer
  <2>1. page' = ResetDrawer(page) /\ Does("close")
    BY <1>4 DEF CloseDrawer
  <2>2. Redraws(page, page', {"close", "history"})
    BY <1>0, <2>1, RedrawsReset
  <2>3. Works("close")
    BY <1>0, <2>1, <2>2, DoesFields DEF Works
  <2> QED
    BY <2>3 DEF Working
<1>5. CASE ClickSave
  <2> DEFINE row == [page.clone EXCEPT !.text = page.draft.text]
             w == Task("save", "put")
             t == [w EXCEPT !.keep = page.draft, !.row = row]
  <2>1. page' = BeginDrawerMutation(page, t) /\ CanMutateDrawer(page) /\ Does("save")
    BY <1>5 DEF ClickSave
  <2>2. IsTask(w) /\ w.reply = NoReply /\ w.url = "put" /\ w.op = "save"
    BY TaskStarts
  <2> HIDE DEF w, row
  <2>3. IsTask(t) /\ t.reply = NoReply /\ t.url = "put" /\ t.op = "save"
    BY <2>2 DEF IsTask, TaskFields
  <2> HIDE DEF t
  <2>4. Redraws(page, page', {"save", "history"})
    BY <1>0, <2>1, <2>3, BeginStarts
  <2>5. Works("save")
    BY <1>0, <2>1, <2>4, DoesFields DEF Works
  <2> QED
    BY <2>5 DEF Working
<1>6. CASE ClickComment
  <2> DEFINE w == Task("comment", "comment")
             t == [w EXCEPT !.keep = page.draft]
  <2>1. page' = BeginDrawerMutation(page, t) /\ CanMutateDrawer(page) /\ Does("comment")
    BY <1>6 DEF ClickComment
  <2>2. IsTask(w) /\ w.reply = NoReply /\ w.url = "comment" /\ w.op = "comment"
    BY TaskStarts
  <2> HIDE DEF w
  <2>3. IsTask(t) /\ t.reply = NoReply /\ t.url = "comment" /\ t.op = "comment"
    BY <2>2 DEF IsTask, TaskFields
  <2> HIDE DEF t
  <2>4. Redraws(page, page', {"comment", "history"})
    BY <1>0, <2>1, <2>3, BeginStarts
  <2>5. Works("comment")
    BY <1>0, <2>1, <2>4, DoesFields DEF Works
  <2> QED
    BY <2>5 DEF Working
<1>7. CASE \E op \in {"trash", "duplicate"} : ClickAction(op)
  <2>1. PICK op \in {"trash", "duplicate"} : ClickAction(op)
    BY <1>7
  <2> DEFINE base == IF Dirty(page) THEN Blank ELSE page.base
             m == [page EXCEPT !.base = base]
             w == Task(op, op)
             t == [w EXCEPT !.keep = page.base]
  <2>2. page' = BeginDrawerMutation(m, t) /\ CanMutateDrawer(page) /\ Does(op)
    BY <2>1 DEF ClickAction
  <2>3. base \in Baseline
    BY <1>0, ShapeFields, Empties
  <2> HIDE DEF base
  <2>4. Changes(page, m, {"base"}) /\ m.base = base
    BY <1>0 DEF PageShape, IsPage, PageFields, Changes
  <2> HIDE DEF m
  <2>5. PageShape(m) /\ Redraws(page, m, {})
    BY <1>0, <2>3, <2>4, ChangedShape, RedrawsByFields DEF FieldOK, Kept
  <2>6. IsTask(w) /\ w.reply = NoReply /\ w.url = op /\ w.op = op
    BY TaskStarts
  <2> HIDE DEF w
  <2>7. IsTask(t) /\ t.reply = NoReply /\ t.url = op /\ t.op = op
    BY <2>6 DEF IsTask, TaskFields
  <2> HIDE DEF t
  <2>8. CanMutateDrawer(m)
    BY <2>2, <2>4 DEF CanMutateDrawer, Held, Changes, PageFields
  <2>9. Redraws(m, page', {op, "history"})
    BY <2>2, <2>5, <2>7, <2>8, BeginStarts
  <2>10. Redraws(page, page', {op, "history"})
    BY <1>0, <2>5, <2>9, RedrawsThen
  <2>11. Works(op)
    BY <1>0, <2>2, <2>10, DoesFields DEF Works
  <2> QED
    BY <2>1, <2>11 DEF Working
<1> QED
  BY <1>1, <1>2, <1>3, <1>4, <1>5, <1>6, <1>7 DEF Edit

LEMMA CallWorks ==
  ASSUME Good(page, {}), UserOK(user), NEW op \in Working \ {"history", "move", "epic"}, Does(op),
         NEW t, IsTask(t), t.reply = NoReply, t.url # "state", t.op = op,
         page' = Send(page, t) \/ page' = Send(ResetDrawer(page), t), page.me # 0,
         op = "promote" => \E i \in Ids, e \in Ids \union {0} : ClickPromote(i, e)
  PROVE  Works(op)
<1>1. PageShape(page) /\ PageShape(ResetDrawer(page)) /\ Redraws(page, ResetDrawer(page), {})
  BY ResetDrawerFrame, RedrawsReset DEF Good
<1>2. Redraws(page, page', {op, "history"})
  <2>1. Redraws(page, Send(page, t), {op, "history"})
    BY <1>1, SendStarts
  <2>2. Redraws(page, Send(ResetDrawer(page), t), {op, "history"})
    BY <1>1, SendAfter
  <2> QED
    BY <2>1, <2>2
<1> QED
  BY <1>2, DoesFields DEF Works

LEMMA ChangeBoardWorks ==
  ASSUME Good(page, {}), UserOK(user), ChangeBoard
  PROVE  \E op \in Working : Works(op)
<1>0. PageShape(page) /\ page.historyGen \in Nat /\ page.me # 0
  <2>1. page.me # 0
    BY DEF ChangeBoard, DropCard, ClickEpicStatus, ClickRestore, ClickPromote, ClickAdd, ChooseFile,
           Poll, SignedIn
  <2> QED
    BY <2>1, ShapeFields DEF Good
<1>1. CASE \E i \in Ids : DropCard(i)
  <2> DEFINE t == Task("move", "move")
  <2>1. PICK i \in Ids : DropCard(i)
    BY <1>1
  <2>2. page' = BindTicket(ResetDrawer(page), i, t) /\ Does("move") /\ page.me # 0
    BY <2>1 DEF DropCard, SignedIn
  <2>3. IsTask(t) /\ t.reply = NoReply /\ t.url = "move" /\ t.op = "move"
    BY TaskStarts
  <2> HIDE DEF t
  <2>4. Redraws(page, page', {"move", "history"})
    BY <1>0, <2>2, <2>3, BindStarts
  <2>5. Works("move")
    BY <1>0, <2>2, <2>4, DoesFields DEF Works
  <2> QED
    BY <2>5 DEF Working
<1>2. CASE \E i \in Ids : ClickEpicStatus(i)
  <2>1. PICK i \in Ids : ClickEpicStatus(i)
    BY <1>2
  <2> DEFINE w == Task("epic", "put")
             row == [page.rows[i] EXCEPT !.done = ~page.rows[i].done]
             t == [w EXCEPT !.row = row]
  <2>2. page' = BindTicket(ResetDrawer(page), i, t) /\ Does("epic") /\ page.me # 0
    BY <2>1 DEF ClickEpicStatus, SignedIn
  <2>3. IsTask(w) /\ w.reply = NoReply /\ w.url = "put" /\ w.op = "epic"
    BY TaskStarts
  <2> HIDE DEF w, row
  <2>4. IsTask(t) /\ t.reply = NoReply /\ t.url = "put" /\ t.op = "epic"
    BY <2>3 DEF IsTask, TaskFields
  <2> HIDE DEF t
  <2>5. Redraws(page, page', {"epic", "history"})
    BY <1>0, <2>2, <2>4, BindStarts
  <2>6. Works("epic")
    BY <1>0, <2>1, <2>2, <2>5, DoesFields DEF Works
  <2> QED
    BY <2>6 DEF Working
<1>3. CASE \E i \in Ids : ClickRestore(i)
  <2>1. PICK i \in Ids : ClickRestore(i)
    BY <1>3
  <2> DEFINE w == Task("restore", "restore")
             t == [w EXCEPT !.ticket = i]
  <2>2. page' = Send(page, t) /\ Does("restore")
    BY <2>1 DEF ClickRestore
  <2>3. IsTask(w) /\ w.reply = NoReply /\ w.url = "restore" /\ w.op = "restore"
    BY TaskStarts
  <2> HIDE DEF w
  <2>4. IsTask(t) /\ t.reply = NoReply /\ t.url = "restore" /\ t.op = "restore"
    BY <2>3 DEF IsTask, TaskFields
  <2> HIDE DEF t
  <2> QED
    BY <1>0, <2>2, <2>4, CallWorks DEF Working
<1>4. CASE \E i \in Ids, e \in Ids \union {0} : ClickPromote(i, e)
  <2>1. PICK i \in Ids, e \in Ids \union {0} : ClickPromote(i, e)
    BY <1>4
  <2> DEFINE w == Task("promote", "put")
  <2>2. PICK q \in ToPromote(page.rows, i, e) :
          page' = Send(page, [w EXCEPT !.ticket = Head(q).ticket, !.row = Head(q).row,
                                       !.todo = Tail(q)])
    BY <2>1 DEF ClickPromote
  <2> DEFINE t == [w EXCEPT !.ticket = Head(q).ticket, !.row = Head(q).row, !.todo = Tail(q)]
  <2>3. Does("promote") /\ page' = Send(page, t)
    BY <2>1, <2>2 DEF ClickPromote
  <2>4. IsTask(w) /\ w.reply = NoReply /\ w.url = "put" /\ w.op = "promote"
    BY TaskStarts
  <2> HIDE DEF w
  <2>5. IsTask(t) /\ t.reply = NoReply /\ t.url = "put" /\ t.op = "promote"
    BY <2>4 DEF IsTask, TaskFields
  <2> HIDE DEF t
  <2> QED
    BY <1>0, <2>1, <2>3, <2>5, CallWorks DEF Working
<1>5. CASE ClickAdd
  <2> DEFINE w == Task("create", "create")
             t == [w EXCEPT !.board = page.board]
  <2>1. page' = Send(page, t) /\ Does("create")
    BY <1>5 DEF ClickAdd
  <2>2. IsTask(w) /\ w.reply = NoReply /\ w.url = "create" /\ w.op = "create"
    BY TaskStarts
  <2> HIDE DEF w
  <2>3. IsTask(t) /\ t.reply = NoReply /\ t.url = "create" /\ t.op = "create"
    BY <2>2 DEF IsTask, TaskFields
  <2> HIDE DEF t
  <2> QED
    BY <1>0, <2>1, <2>3, CallWorks DEF Working
<1>6. CASE ChooseFile
  <2> DEFINE t == Task("import", "file")
  <2>1. page' = Send(ResetDrawer(page), t) /\ Does("import")
    BY <1>6 DEF ChooseFile
  <2>2. IsTask(t) /\ t.reply = NoReply /\ t.url = "file" /\ t.op = "import"
    BY TaskStarts
  <2> HIDE DEF t
  <2> QED
    BY <1>0, <2>1, <2>2, CallWorks DEF Working
<1>7. CASE Poll
  <2> DEFINE m == [page EXCEPT !.pollGen = page.pollGen + 1]
             w == Task("poll", "notifications")
             t == [w EXCEPT !.generation = m.pollGen]
  <2>1. page' = Send(m, t) /\ Does("poll")
    BY <1>7 DEF Poll
  <2>2. Changes(page, m, {"pollGen"}) /\ m.pollGen = page.pollGen + 1
    BY <1>0 DEF PageShape, IsPage, PageFields, Changes
  <2> HIDE DEF m
  <2>3. m.pollGen \in Nat
    BY <1>0, <2>2, ShapeFields
  <2>4. PageShape(m) /\ Redraws(page, m, {})
    BY <1>0, <2>2, <2>3, ChangedShape, RedrawsByFields DEF FieldOK, Kept
  <2>5. IsTask(w) /\ w.reply = NoReply /\ w.url = "notifications" /\ w.op = "poll"
    BY TaskStarts
  <2> HIDE DEF w
  <2>6. IsTask(t) /\ t.reply = NoReply /\ t.url = "notifications" /\ t.op = "poll"
    BY <2>5 DEF IsTask, TaskFields
  <2> HIDE DEF t
  <2>7. Redraws(page, page', {"poll", "history"})
    BY <1>0, <2>1, <2>4, <2>6, SendAfter
  <2>8. Works("poll")
    BY <1>0, <2>1, <2>7, DoesFields DEF Works
  <2> QED
    BY <2>8 DEF Working
<1> QED
  BY <1>1, <1>2, <1>3, <1>4, <1>5, <1>6, <1>7 DEF ChangeBoard

LEMMA PasswordWorks ==
  ASSUME Good(page, {}), UserOK(user), ClickSavePassword
  PROVE  Works("password")
<1> DEFINE t == Task("password", "password")
<1>1. page' = Send(page, t) /\ Does("password") /\ page.me # 0
  BY DEF ClickSavePassword, SignedIn
<1>2. IsTask(t) /\ t.reply = NoReply /\ t.url = "password" /\ t.op = "password"
  BY TaskStarts
<1> HIDE DEF t
<1> QED
  BY <1>1, <1>2, CallWorks DEF Working

(* The steps that take the page elsewhere.                                 *)
Disturbs ==
  \/ \E b \in BoardIds : ChooseBoard(b)
  \/ \E r \in Routes : ApplyRoute(r)
  \/ \E i \in Ids : ClickNotification(i)
  \/ ClickCreateBoard

LEMMA UserWorks ==
  ASSUME Good(page, {}), UserOK(user), Navigate \/ Edit \/ ChangeBoard \/ Sign
  PROVE  \/ \E op \in Working : Works(op)
         \/ Disturbs
         \/ ClickLogout
         \/ \E u \in Users, r \in Routes : ClickLogin(u, r)
<1>1. CASE \E view \in Views : NavButton(view)
  BY <1>1, NavButtonWorks DEF Working
<1>2. CASE ClickSavePassword
  BY <1>2, PasswordWorks DEF Working
<1> QED
  BY <1>1, <1>2, EditWorks, ChangeBoardWorks DEF Navigate, Sign, Disturbs

-----------------------------------------------------------------------------
(* While the first session is undisturbed, the page keeps in step.         *)

LEMMA SessionNeverFalls ==
  ASSUME FrontendInv, [Next]_vars
  PROVE  page'.session >= page.session /\ page.session \in Nat \ {0}
<1>1. page.session \in Nat /\ page.session # 0
  BY ShapeFields DEF FrontendInv, Good
<1>2. CASE Network
  BY <1>1, <1>2, NetworkHandled
<1>3. CASE Expire \/ OtherClient
  <2>1. page' = page
    BY <1>3, OthersAct
  <2> QED
    BY <1>1, <2>1
<1>4. CASE Resume
  <2>1. Good(page', {}) /\ (page'.session = page.session \/ page'.session > page.session)
    BY <1>4, ResumeHandled DEF Handled, DraftStep
  <2>2. page'.session \in Nat
    BY <2>1, GoodGenerations
  <2> QED
    BY <1>1, <2>1, <2>2
<1>5. CASE Navigate \/ Edit \/ ChangeBoard \/ Sign
  BY <1>1, <1>5, UserActs, ShapeFields DEF Acted, Good
<1>6. CASE UNCHANGED vars
  BY <1>1, <1>6 DEF vars
<1> QED
  BY <1>2, <1>3, <1>4, <1>5, <1>6 DEF Next

LEMMA AnswerStatus ==
  ASSUME NEW s, NEW t, NEW u
  PROVE  Answer(s, t, u).status = "ok"
<1>1. StateOf(s, t, u).status = "ok"
  BY StateAnswer
<1>2. Answer(s, t, u) \in {StateOf(s, t, u), [status |-> "ok", user |-> u], [status |-> "ok", made |-> NextId],
                           [status |-> "ok", made |-> s.rows[t.ticket].version + 1],
                           [status |-> "ok", made |-> NextBoard],
                           [status |-> "ok", made |-> Len(s.owner) + 1], [status |-> "ok"]}
  BY Zenon DEF Answer
<1> QED
  BY <1>1, <1>2

(* The first account has signed in at the start.                           *)
Owned(s) == s.owner # << >>

LEMMA AppendKeeps ==
  ASSUME NEW S, NEW w \in Seq(S), w # << >>, NEW x \in S
  PROVE  Append(w, x)[1] = w[1] /\ Append(w, x) # << >> /\ w[1] \in S
OBVIOUS

LEMMA OwnedStays ==
  ASSUME NEW s, StoreOK(s), Owned(s), NEW t, NEW u, t.url = "login" => t.ask \in Users,
         t.url = "password" => u \in Users
  PROVE  LET q == Effect(s, t, u) IN q.owner[1] = s.owner[1] /\ Owned(q) /\ s.owner[1] \in Users
<1> DEFINE q == Effect(s, t, u)
<1>1. \/ q.owner = s.owner
      \/ q.owner = Append(s.owner, t.ask) /\ t.ask \in Users
      \/ q.owner = Append(s.owner, u) /\ u \in Users
  BY EffectKeeps
<1>2. s.owner \in Seq(Users) /\ s.owner # << >>
  BY StoreShape DEF Owned
<1> HIDE DEF q
<1>3. s.owner[1] \in Users
  BY <1>2
<1>4. q.owner[1] = s.owner[1] /\ q.owner # << >>
  BY <1>1, <1>2, AppendKeeps
<1> QED
  BY <1>3, <1>4 DEF Owned, q

(* Steps of the network.                                                   *)

LEMMA CalmServe ==
  ASSUME FrontendInv, Owned(store), Calm(store, page), NEW t \in Waiting, Serve(t)
  PROVE  Calm(store', page')
<1> DEFINE u == Account(t)
           r == Answer(store, t, u)
           z == Effect(store, t, u)
<1>1. /\ t \in page.tasks /\ t.reply.status = "none" /\ TaskShape(t) /\ Good(page, {}) /\ StoreOK(store)
      /\ Undisturbed(store, page, t)
  BY UnderWay DEF Waiting, FrontendInv, Calm
<1>2. store' = z /\ Replies(t, r) /\ (u # 0 \/ t.url \in NeedsNoLogin)
  BY DEF Serve
<1>3. t.op \notin {"newBoard", "notification", "login", "logout"} /\ t.as = 1
  BY <1>1 DEF Undisturbed
<1>4. t.url \notin {"board", "login", "logout"} /\ (t.url \in RowCalls => Changing(t))
  <2>1. CASE t.url = "state"
    BY <2>1 DEF RowCalls
  <2>2. CASE <<t.op, t.url>> \in Calls
    BY <1>3, <2>2 DEF Calls, RowCalls, Changing, Changers
  <2> QED
    BY <1>1, <2>1, <2>2 DEF TaskShape
<1>5. u # 0 => u = store.owner[1] /\ u \in Users
  BY <1>1, <1>3, AccountIsUser DEF Account
<1>6. t.url = "password" => u \in Users
  BY <1>2, <1>5 DEF NeedsNoLogin
<1>7. z.access = store.access /\ z.owner[1] = store.owner[1] /\ (Changing(t) \/ z.rows = store.rows)
  BY <1>1, <1>4, <1>6, EffectKeeps, OwnedStays
<1>8. r.status = "ok"
  BY AnswerStatus
<1>9. t.url = "state" => r.board = Home(z, z.owner[1], t.ask) /\ r.rows = OnBoard(z, r.board)
  <2> SUFFICES ASSUME t.url = "state"
               PROVE  r.board = Home(z, z.owner[1], t.ask) /\ r.rows = OnBoard(z, r.board)
    OBVIOUS
  <2>1. r = StateOf(store, t, u)
    BY DEF Answer
  <2>2. r.board = Home(store, u, t.ask) /\ r.rows = OnBoard(store, r.board)
    BY <2>1, StateAnswer
  <2>3. z = store
    BY DEF Effect
  <2>4. u = store.owner[1]
    BY <1>2, <1>5 DEF NeedsNoLogin
  <2> QED
    BY <2>2, <2>3, <2>4
<1>10. Replied(page, page', t, r)
  BY <1>1, <1>2, RepliesReplied
<1> HIDE DEF u, r, z
<1>11. Calm(z, page')
  BY <1>1, <1>7, <1>8, <1>9, <1>10, CalmReplied
<1> QED
  BY <1>2, <1>11

LEMMA CalmRefuse ==
  ASSUME FrontendInv, Calm(store, page), NEW t \in Waiting, Refuse(t)
  PROVE  Calm(store', page')
<1> DEFINE r == [status |-> "denied"]
<1>1. t \in page.tasks /\ t.reply.status = "none" /\ Good(page, {})
  BY DEF Waiting, FrontendInv
<1>2. store' = store /\ Replies(t, r) /\ t.url # "file"
  BY DEF Refuse, NeedsNoLogin
<1>3. r.status = "denied"
  OBVIOUS
<1>4. Replied(page, page', t, r)
  BY <1>1, <1>2, RepliesReplied
<1> HIDE DEF r
<1>5. Calm(store, page')
  BY <1>1, <1>2, <1>3, <1>4, CalmReplied
<1> QED
  BY <1>2, <1>5

LEMMA CalmSame ==
  ASSUME NEW s, NEW z, NEW p, Calm(s, p), z.access = s.access, z.owner[1] = s.owner[1], z.rows = s.rows
  PROVE  Calm(z, p)
<1>1. \A a : Home(z, z.owner[1], a) = Home(s, s.owner[1], a)
  BY DEF Home
<1>2. \A b : OnBoard(z, b) = OnBoard(s, b)
  BY DEF OnBoard
<1> QED
  BY <1>1, <1>2 DEF Calm, Undisturbed, InStep

(* Steps of the page.                                                      *)

LEMMA CalmLoaded ==
  ASSUME NEW s, StoreOK(s), Owned(s), NEW p, Good(p, {}), Calm(s, p), NEW t \in p.tasks,
         t.url = "state", t.reply.status # "none", NEW q, Loaded(p, q, t), q.session = 1
  PROVE  Calm(s, q)
<1> DEFINE e == End(p, t)
<1>1. e.session = p.session /\ p.session = 1 /\ PageShape(p)
  BY EndFields, GoodGenerations DEF Kept, Calm
<1>2. t.reply.status # "failed" /\ ~Changing(t)
  BY DEF Calm, Undisturbed, Changing
<1>3. ~Quits(e, q)
  BY <1>1 DEF Quits
<1>4. CASE ~LoadIsCurrent(p, t) /\ Redraws(e, q, {})
  <2>1. Calm(s, e)
    BY <1>1, <1>2, <1>4, CalmEnd DEF CurrentLoads
  <2> QED
    BY <1>4, <2>1, CalmRedraws
<1>5. CASE LoadIsCurrent(p, t) /\ t.reply.status = "ok" /\ Shows(e, q, t.reply)
  <2>1. s.owner[1] \in Users
    BY AppendKeeps, StoreShape DEF Owned
  <2>2. t.reply.user # 0
    BY <1>5, UnderWay, FrontendAssumption DEF ReplyOK
  <2>3. t \in CurrentLoads(p)
    BY <1>5 DEF CurrentLoads
  <2> QED
    BY <1>1, <1>5, <2>1, <2>2, <2>3, CalmShows
<1> QED
  BY <1>2, <1>3, <1>4, <1>5 DEF Loaded

LEMMA CalmWritten ==
  ASSUME NEW s, NEW p, Good(p, {}), Calm(s, p), NEW t \in p.tasks,
         NEW q, Written(p, q, t), q.session = 1
  PROVE  Calm(s, q)
<1> DEFINE e == End(p, t)
<1>1. e.session = p.session /\ p.session = 1 /\ PageShape(p)
  BY EndFields, GoodGenerations DEF Kept, Calm
<1>2. ~Quits(e, q)
  BY <1>1 DEF Quits
<1>3. ~Lost(p, t)
  BY <1>1 DEF Calm, Undisturbed, Lost, OnItsBoard, CurrentSessionGuard
<1> QED
  BY <1>1, <1>2, <1>3, CalmLoads, CalmContinues DEF Written

LEMMA CalmChanges ==
  ASSUME NEW s, NEW p, NEW q, Calm(s, p), NEW F, Changes(p, q, F), F \subseteq {"history", "notes"}
  PROVE  Calm(s, q)
<1>1. /\ q.me = p.me /\ q.board = p.board /\ q.rows = p.rows /\ q.selected = p.selected
      /\ q.session = p.session /\ q.jar = p.jar /\ q.loadGen = p.loadGen /\ q.tasks = p.tasks
  BY DEF Changes, PageFields
<1> QED
  BY <1>1 DEF Calm, Undisturbed, Writing, InStep, CurrentLoads, LoadIsCurrent

LEMMA CalmResume ==
  ASSUME FrontendInv, Owned(store), Calm(store, page), Resume, page'.session = 1
  PROVE  Calm(store', page') /\ user' = user
<1>1. Good(page, {}) /\ StoreOK(store) /\ page.session = 1
  BY DEF FrontendInv, Calm
<1>2. \A t \in page.tasks : Undisturbed(store, page, t)
  BY DEF Calm
<1>3. ASSUME NEW q, Resumes(q)
      PROVE  q = page' /\ store' = store /\ user' = user
  BY <1>3 DEF Resumes
<1>4. CASE ResumeLoad
  <2>1. PICK t \in page.tasks : t.url = "state" /\ t.reply.status # "none"
                                /\ Resumes(AfterLoad(page, t))
    BY <1>4 DEF ResumeLoad
  <2>2. Loaded(page, AfterLoad(page, t), t)
    BY <1>1, <2>1, AfterLoadLoaded
  <2> QED
    BY <1>1, <1>3, <2>1, <2>2, CalmLoaded
<1>5. ASSUME NEW t \in page.tasks, NEW q, Resumes(q), Written(page, q, t)
      PROVE  Calm(store', page') /\ user' = user
  BY <1>1, <1>3, <1>5, CalmWritten
<1>6. CASE ResumeEditor
  <2>1. PICK t \in page.tasks :
          /\ t.url # "state" /\ t.reply.status # "none"
          /\ \/ t.op = "save" /\ Resumes(SaveDrawer(page, t))
             \/ t.op = "comment" /\ Resumes(AddComment(page, t))
             \/ t.op \in {"trash", "duplicate"} /\ Resumes(TaskDrawerAction(page, t))
    BY <1>6 DEF ResumeEditor, Arrived
  <2>2. <<t.op, t.url>> \in Calls
    BY <1>1, <2>1, UnderWay DEF TaskShape
  <2> QED
    BY <1>1, <1>5, <2>1, <2>2, SaveWritten, CommentWritten, ActionWritten
<1>7. CASE ResumeBoard
  <2>1. PICK t \in page.tasks :
          /\ t.url # "state" /\ t.reply.status # "none"
          /\ \/ t.op = "move" /\ Resumes(MoveBoardTicket(page, t))
             \/ t.op = "epic" /\ Resumes(ChangeEpicCompletion(page, t))
             \/ t.op = "promote" /\ Resumes(PromoteBacklogTicket(page, t))
             \/ t.op = "create" /\ Resumes(CreateTicket(page, t))
             \/ t.op = "restore" /\ Resumes(RestoreTask(page, t))
             \/ t.op = "import" /\ Resumes(ImportBoardFile(page, t))
    BY <1>7 DEF ResumeBoard, Arrived
  <2>2. t.url = "file" => t.reply.status # "denied"
    BY <1>2 DEF Undisturbed
  <2> QED
    BY <1>1, <1>5, <2>1, <2>2, MoveWritten, EpicWritten, PromoteWritten, CreateWritten, ImportWritten
<1>8. CASE ResumePage
  <2>1. PICK t \in page.tasks :
          /\ t.url # "state" /\ t.reply.status # "none"
          /\ \/ t.op \in {"notification", "newBoard", "login", "logout"}
             \/ t.op = "history" /\ Resumes(ShowHistory(page, t))
             \/ t.op = "poll" /\ Resumes(RefreshNotifications(page, t))
             \/ t.op = "password" /\ Resumes(SavePassword(page, t))
    BY <1>8 DEF ResumePage, Arrived
  <2> DEFINE e == End(page, t)
  <2>2. t.op \notin {"notification", "newBoard", "login", "logout"} /\ t.reply.status # "failed"
        /\ t.session = 1
    BY <1>2 DEF Undisturbed
  <2>3. e.session = 1 /\ PageShape(page) /\ PageShape(e)
    BY <1>1, EndFields DEF Kept, Good
  <2>4. ~Quits(e, page')
    BY <2>3 DEF Quits
  <2>5. t.op \in {"history", "poll"} => Calm(store, e)
    BY <2>1, <2>3, CalmEnd DEF Changing, Changers, CurrentLoads
  <2> HIDE DEF e
  <2>6. CASE t.op = "history" /\ Resumes(ShowHistory(page, t))
    <3>1. Redraws(e, page', {}) \/ Changes(e, page', {"history"})
      <4> DEFINE q == ShowHistory(page, t)
      <4>1. \/ Redraws(End(page, t), q, {})
            \/ ShowsHistory(page, q, t)
            \/ t.sent = page.session /\ Quits(End(page, t), q)
        BY <1>1, <2>6, HistoryAnswered
      <4>2. q = page'
        BY <1>3, <2>6
      <4> HIDE DEF q
      <4> QED
        BY <2>4, <4>1, <4>2 DEF e, ShowsHistory
    <3> QED
      BY <1>3, <2>5, <2>6, <3>1, CalmRedraws, CalmChanges
  <2>7. CASE t.op = "poll" /\ Resumes(RefreshNotifications(page, t))
    <3>1. Redraws(e, page', {}) \/ Changes(e, page', {"notes"})
      <4> DEFINE q == RefreshNotifications(page, t)
      <4>1. \/ Redraws(End(page, t), q, {})
            \/ Notifies(page, q, t)
            \/ t.sent = page.session /\ Quits(End(page, t), q)
        BY <1>1, <2>7, PollAnswered
      <4>2. q = page'
        BY <1>3, <2>7
      <4> HIDE DEF q
      <4> QED
        BY <2>4, <4>1, <4>2 DEF e, Notifies
    <3> QED
      BY <1>3, <2>5, <2>7, <3>1, CalmRedraws, CalmChanges
  <2>8. CASE t.op = "password" /\ Resumes(SavePassword(page, t))
    <3>1. SignsAgain(page, page', t)
      BY <1>1, <1>3, <2>1, <2>8, PasswordAnswered
    <3>2. ~Changing(t) /\ t \notin CurrentLoads(page)
      BY <2>1, <2>8 DEF Changing, Changers, CurrentLoads
    <3>3. CASE page' = e
      <4>1. Calm(store, e)
        BY <1>1, <2>1, <2>3, <3>2, CalmEnd DEF e
      <4> QED
        BY <1>3, <2>8, <3>3, <4>1
    <3>4. ASSUME NEW x, PageShape(x), Changes(e, x, {"jar"}), Loads(InvalidateSessionRequests(x), page', t)
          PROVE  FALSE
      <4>1. InvalidateSessionRequests(x).session = x.session + 1 /\ x.session = 1
        BY <2>3, <3>4, InvalidateFrame DEF Changes, PageFields
      <4>2. page'.session = InvalidateSessionRequests(x).session
        BY <3>4 DEF Loads, Kept
      <4> QED
        BY <4>1, <4>2
    <3> QED
      BY <1>1, <2>2, <2>4, <3>1, <3>3, <3>4 DEF SignsAgain, e
  <2> QED
    BY <2>1, <2>2, <2>6, <2>7, <2>8
<1> QED
  BY <1>4, <1>6, <1>7, <1>8 DEF Resume

LEMMA SendChanges ==
  ASSUME NEW p, PageShape(p), NEW t
  PROVE  LET q == Send(p, t) IN
         Changes(p, q, {"tasks", "serial"}) /\ q.tasks = p.tasks \union {Sent(p, t)}
<1> DEFINE q == [p EXCEPT !.serial = p.serial + 1, !.tasks = p.tasks \union {Sent(p, t)}]
<1>1. Send(p, t) = q
  BY DEF Send, Sent
<1>2. Changes(p, q, {"tasks", "serial"}) /\ q.tasks = p.tasks \union {Sent(p, t)}
  BY DEF PageShape, IsPage, PageFields, Changes
<1> QED
  BY <1>1, <1>2

LEMMA CalmUser ==
  ASSUME FrontendInv, UserOK(user), Calm(store, page), Navigate \/ Edit \/ ChangeBoard \/ Sign,
         page'.session = 1, user'.calm
  PROVE  Calm(store', page') /\ user.calm
<1>1. Good(page, {}) /\ PageShape(page) /\ page.session = 1
  BY DEF FrontendInv, Good, Calm
<1>2. CASE \E op \in Working : Works(op)
  <2>1. PICK op \in Working : Works(op)
    BY <1>2
  <2>2. Redraws(page, page', {op, "history"}) /\ store' = store /\ user.calm
        /\ (op \in {"move", "epic"} => page.me # 0)
    BY <2>1 DEF Works
  <2>3. {op, "history"} \intersect {"newBoard", "notification", "login", "logout"} = {}
    BY DEF Working
  <2> QED
    BY <2>2, <2>3, CalmRedraws
<1>3. ~Disturbs
  <2>1. ~Does("choose") /\ ~Does("route") /\ ~Does("notification") /\ ~Does("newBoard")
    BY DoesFields
  <2> QED
    BY <2>1 DEF Disturbs, ChooseBoard, ApplyRoute, ClickNotification, ClickCreateBoard
<1>4. ~ClickLogout
  <2> DEFINE r == ShowLoggedOut(page)
             t == Task("logout", "logout")
             s == Send(r, t)
             q == [s EXCEPT !.locked = TRUE]
  <2>1. SUFFICES ASSUME ClickLogout PROVE FALSE
    OBVIOUS
  <2>2. page' = q
    BY <2>1 DEF ClickLogout
  <2>3. PageShape(r) /\ r.session = 2
    BY <1>1, LoggedOutQuits, GoodLoggedOut DEF Quits, Good
  <2> HIDE DEF r, t
  <2>4. IsPage(s) /\ s.session = 2
    BY <2>3, SendChanges DEF Changes, PageFields
  <2> HIDE DEF s
  <2>5. q.session = 2
    BY <2>4 DEF IsPage, PageFields
  <2> QED
    BY <2>2, <2>5
<1>5. ASSUME NEW u \in Users, NEW r \in Routes, ClickLogin(u, r)
      PROVE  FALSE
  <2> DEFINE d == ResetDrawer(InvalidateSessionRequests(page))
             m == [d EXCEPT !.selected = IF r.board # 0 THEN r.board ELSE d.selected,
                            !.queued = r.ticket, !.view = r.view]
             t == [Task("login", "login") EXCEPT !.ask = u]
  <2>1. page' = Send(m, t)
    BY <1>5 DEF ClickLogin
  <2>2. Good(d, {}) /\ d.session = 2
    <3>1. Good(d, {})
      BY <1>1, GoodLeave
    <3>2. PageShape(InvalidateSessionRequests(page)) /\ InvalidateSessionRequests(page).session = 2
      BY <1>1, InvalidateFrame
    <3> QED
      BY <3>1, <3>2, ResetDrawerFrame DEF Changes, PageFields
  <2> HIDE DEF d, t
  <2> DEFINE b == IF r.board # 0 THEN r.board ELSE d.selected
  <2>3. b \in BoardIds \union {0}
    BY <2>2, RouteTypes, ShapeFields DEF Good
  <2> HIDE DEF b
  <2>4. /\ Changes(d, m, {"selected", "queued", "view"}) /\ m.session = 2
        /\ m.selected = b /\ m.queued = r.ticket /\ m.view = r.view
    BY <2>2 DEF Good, PageShape, IsPage, PageFields, Changes, b
  <2> HIDE DEF m
  <2>5. PageShape(m)
    BY <2>2, <2>3, <2>4, RouteTypes, ChangedShape DEF Good, FieldOK
  <2> QED
    BY <2>1, <2>4, <2>5, SendChanges DEF Changes, PageFields
<1> QED
  BY <1>1, <1>2, <1>3, <1>4, <1>5, UserWorks

-----------------------------------------------------------------------------
(* A board that nobody disturbs is fresh.                                  *)

CalmInv ==
  /\ Owned(store) /\ UserOK(user)
  /\ page.session = 1 /\ user.calm => Calm(store, page)

LEMMA LoadNowLoads ==
  ASSUME NEW p, PageShape(p)
  PROVE  \E t : t.op = "load" /\ t.session = p.session /\ t.board = 0 /\ Loads(p, LoadNow(p), t)
<1> DEFINE r == [p EXCEPT !.serial = p.serial + 1]
           w == Task("load", "state")
           t == [w EXCEPT !.id = p.serial + 1, !.session = p.session]
<1>1. LoadNow(p) = Load(r, t)
  BY DEF LoadNow
<1>2. Changes(p, r, {"serial"}) /\ r.serial = p.serial + 1
  BY DEF PageShape, IsPage, PageFields, Changes
<1> HIDE DEF r
<1>3. p.serial \in Nat /\ p.session \in Nat /\ p.historyGen \in Nat
  BY ShapeFields
<1>4. PageShape(r)
  BY <1>2, <1>3, ChangedShape DEF FieldOK
<1>5. Redraws(p, r, {})
  BY <1>2, <1>3, RedrawsByFields DEF Kept
<1>6. /\ IsTask(w) /\ w.op = "load" /\ w.url = "state" /\ w.reply = NoReply
      /\ w.session = 0 /\ w.editor = 0 /\ w.sent = 0 /\ w.as = 0 /\ w.made = 0
      /\ w.generation = 0 /\ w.ticket = 0 /\ w.row = NoRow /\ w.board = 0
      /\ w.keep = Blank /\ w.todo = << >> /\ w.ask = 0
  BY TaskStarts DEF w
<1> HIDE DEF w
<1>7. /\ IsTask(t) /\ t.id = p.serial + 1 /\ t.session = p.session
      /\ \A f \in TaskFields \ {"id", "session"} : t[f] = w[f]
  BY <1>6 DEF IsTask, TaskFields
<1> HIDE DEF t
<1>8. /\ t.op = "load" /\ t.url = "state" /\ t.reply = NoReply
      /\ t.editor = 0 /\ t.sent = 0 /\ t.as = 0 /\ t.made = 0
      /\ t.generation = 0 /\ t.ticket = 0 /\ t.row = NoRow /\ t.board = 0
      /\ t.keep = Blank /\ t.todo = << >> /\ t.ask = 0
  BY <1>6, <1>7 DEF TaskFields
<1>9. TaskShape(t)
  BY <1>3, <1>7, <1>8, Empties DEF TaskShape, LoadOnly, Binders, EditorOps
<1>10. Loads(r, Load(r, t), t)
  BY <1>4, <1>8, <1>9, LoadLoads DEF LoadOnly
<1>11. Loads(p, Load(r, t), t)
  BY <1>3, <1>5, <1>10, RedrawsLoad
<1> QED
  BY <1>1, <1>7, <1>8, <1>11

(* The page when the script has run.                                       *)
LEMMA OpenedLoads ==
  ASSUME NEW token \in Nat
  PROVE  \E p, t : /\ PageShape(p) /\ p.tasks = {} /\ p.session = 1 /\ p.jar = token
                   /\ p.me = 0 /\ p.board = 0 /\ p.rows = << >> /\ p.notes = 0
                   /\ p.history = Nothing /\ p.locked = FALSE
                   /\ t.op = "load" /\ t.session = 1 /\ t.board = 0
                   /\ Loads(p, Opened(token), t)
<1> DEFINE p == [me |-> 0, board |-> 0, rows |-> << >>, notes |-> 0, selected |-> 0,
                 view |-> "board", queued |-> 0, loadGen |-> 0, session |-> 1, editGen |-> 0,
                 historyGen |-> 0, pollGen |-> 0, editing |-> 0, clone |-> NoRow,
                 draft |-> Blank, base |-> Blank, mutation |-> 0,
                 pending |-> [i \in Ids |-> NoBinding], history |-> Nothing, jar |-> token,
                 panel |-> FALSE, locked |-> FALSE, tasks |-> {}, serial |-> 1]
<1>1. Opened(token) = LoadNow(p)
  BY DEF Opened
<1>2. /\ p.me = 0 /\ p.board = 0 /\ p.rows = << >> /\ p.notes = 0 /\ p.selected = 0
      /\ p.view = "board" /\ p.queued = 0 /\ p.loadGen = 0 /\ p.session = 1 /\ p.editGen = 0
      /\ p.historyGen = 0 /\ p.pollGen = 0 /\ p.editing = 0 /\ p.clone = NoRow
      /\ p.draft = Blank /\ p.base = Blank /\ p.mutation = 0
      /\ p.pending = [i \in Ids |-> NoBinding] /\ p.jar = token /\ p.tasks = {} /\ p.serial = 1
      /\ p.history = Nothing /\ p.locked = FALSE
  OBVIOUS
<1>3. IsPage(p)
  BY DEF IsPage, PageFields
<1> HIDE DEF p
<1>4. IsRows(<< >>)
  BY DEF IsRows
<1>5. [i \in Ids |-> NoBinding] \in [Ids -> Binding]
  BY DEF NoBinding, Binding
<1>6. PageShape(p)
  <2>1. \A f \in PageFields : FieldOK(f, p[f])
    <3> TAKE f \in PageFields
    <3>1. CASE f \in {"me", "board", "notes", "selected", "view", "queued", "editing", "loadGen",
                      "session", "editGen", "historyGen", "pollGen", "mutation", "serial", "jar"}
      BY <1>2, <3>1 DEF FieldOK, Views
    <3>2. CASE f \in {"rows", "clone", "draft", "base", "pending"}
      BY <1>2, <1>4, <1>5, <3>2, Empties DEF FieldOK
    <3>3. CASE f \in {"history", "panel", "locked", "tasks"}
      BY <3>3 DEF FieldOK
    <3> QED
      BY <3>1, <3>2, <3>3 DEF PageFields
  <2> QED
    BY <1>3, <2>1 DEF PageShape
<1>7. PICK t : t.op = "load" /\ t.session = p.session /\ t.board = 0 /\ Loads(p, LoadNow(p), t)
  BY <1>6, LoadNowLoads
<1> QED
  BY <1>1, <1>2, <1>6, <1>7

LEMMA CalmInit ==
  ASSUME Init
  PROVE  CalmInv
<1>1. PICK s \in Scenarios, a \in Users :
        /\ user = [may |-> s.may, left |-> s.left, fails |-> s.fails, calm |-> TRUE]
        /\ store = [rows |-> s.rows, access |-> InitialAccess, owner |-> <<a>>, live |-> {1},
                    accepted |-> {}]
  BY DEF Init
<1>2. Owned(store)
  BY <1>1 DEF Owned
<1>3. UserOK(user)
  BY <1>1 DEF UserOK
<1>4. page = Opened(1)
  BY DEF Init
<1>5. PICK p, t : /\ PageShape(p) /\ p.tasks = {} /\ p.session = 1 /\ p.jar = 1
                  /\ p.me = 0
                  /\ t.op = "load" /\ t.session = 1 /\ t.board = 0
                  /\ Loads(p, page, t)
  BY <1>4, OpenedLoads
<1>6. /\ page.me = 0 /\ page.session = 1 /\ page.jar = 1
      /\ \A u \in page.tasks :
           \/ Starts(page, u) /\ u.op = "history"
           \/ Requests(page, u) /\ u.op = "load" /\ u.session = 1 /\ u.board = 0
      /\ \E u \in page.tasks : Requests(page, u)
  BY <1>5 DEF Loads, Kept
<1>7. page.loadGen \in Nat
  BY <1>5, ShapeFields DEF Loads
<1>8. \A u \in page.tasks : Undisturbed(store, page, u) /\ u.reply.status = "none"
  <2> TAKE u \in page.tasks
  <2>1. CASE Starts(page, u) /\ u.op = "history"
    BY <1>6, <2>1 DEF Starts, NoReply, Undisturbed
  <2>2. CASE Requests(page, u) /\ u.op = "load" /\ u.session = 1 /\ u.board = 0
    BY <1>6, <1>7, <2>2 DEF Requests, NoReply, Undisturbed
  <2> QED
    BY <1>6, <2>1, <2>2
<1>9. InStep(store, page)
  BY <1>6, <1>8 DEF InStep, CurrentLoads, LoadIsCurrent, Requests
<1>10. Calm(store, page)
  BY <1>6, <1>8, <1>9 DEF Calm
<1> QED
  BY <1>2, <1>3, <1>10 DEF CalmInv

(* Whatever the server does, the first account stays.                      *)
LEMMA ServerOwned ==
  ASSUME FrontendInv, CalmInv, [Next]_vars
  PROVE  Owned(store') /\ UserOK(user')
<1>1. Good(page, {}) /\ StoreOK(store) /\ Owned(store) /\ UserOK(user)
  BY DEF FrontendInv, CalmInv
<1>2. ASSUME NEW t \in Waiting, t.url = "password" => Account(t) # 0
      PROVE  Owned(Effect(store, t, Account(t)))
  <2>1. TaskShape(t)
    BY <1>1, UnderWay DEF Waiting
  <2>2. t.url = "login" => t.ask \in Users
    BY <2>1 DEF TaskShape
  <2>3. t.url = "password" => Account(t) \in Users
    BY <1>1, <1>2, AccountIsUser
  <2> QED
    BY <1>1, <2>2, <2>3, OwnedStays
<1>3. CASE Network
  <2>1. PICK t \in Waiting : Serve(t) \/ Refuse(t) \/ Fail(t)
    BY <1>3 DEF Network
  <2>2. CASE Serve(t)
    BY <1>1, <1>2, <2>2 DEF Serve, NeedsNoLogin
  <2>3. CASE Refuse(t)
    BY <1>1, <2>3 DEF Refuse
  <2>4. CASE Fail(t)
    <3>1. UserOK(user')
      BY <1>1, <2>4 DEF Fail, UserOK
    <3>2. store' = store \/ (store' = Effect(store, t, Account(t))
                             /\ (Account(t) # 0 \/ t.url \in NeedsNoLogin))
      BY <2>4 DEF Fail
    <3>3. Owned(store')
      BY <1>1, <1>2, <3>2 DEF NeedsNoLogin
    <3> QED
      BY <3>1, <3>3
  <2> QED
    BY <2>1, <2>2, <2>3, <2>4
<1>4. CASE Expire
  <2>1. UserOK(user')
    BY <1>1, <1>4 DEF Expire, UserOK
  <2>2. PICK k : store' = WithoutSession(store, k)
    BY <1>4 DEF Expire
  <2>3. store'.owner = store.owner
    BY <1>1, <2>2, SessionKeeps, StoreShape
  <2> QED
    BY <1>1, <2>1, <2>3 DEF Owned
<1>5. CASE OtherClient
  <2>1. UserOK(user')
    BY <1>1, <1>5 DEF OtherClient, UserOK
  <2>2. PICK i : store' = WithRow(store, i, store.rows[i])
    BY <1>5 DEF OtherClient
  <2>3. store'.owner = store.owner
    BY <1>1, <2>2, WithRowKeeps, StoreShape
  <2> QED
    BY <1>1, <2>1, <2>3 DEF Owned
<1>6. CASE Resume
  <2>1. store' = store /\ user' = user
    BY <1>6 DEF Resume, ResumeLoad, ResumeEditor, ResumeBoard, ResumePage, Resumes
  <2> QED
    BY <1>1, <2>1
<1>7. CASE Navigate \/ Edit \/ ChangeBoard \/ Sign
  <2>1. store' = store
    BY <1>7, UserActs
  <2>2. \E op : Does(op)
    BY <1>7 DEF Navigate, Edit, ChangeBoard, Sign, ChooseBoard, ApplyRoute, NavButton,
         ClickNotification, ClickCreateBoard, OpenTicket, TypeText, TypeComment, CloseDrawer,
         ClickSave, ClickComment, ClickAction, DropCard, ClickEpicStatus, ClickRestore,
         ClickPromote, ClickAdd, ChooseFile, Poll, ClickLogout, ClickSavePassword, ClickLogin
  <2>3. UserOK(user')
    BY <1>1, <2>2, DoesFields
  <2> QED
    BY <1>1, <2>1, <2>3
<1>8. CASE UNCHANGED vars
  BY <1>1, <1>8 DEF vars
<1> QED
  BY <1>3, <1>4, <1>5, <1>6, <1>7, <1>8 DEF Next

LEMMA CalmStep ==
  ASSUME FrontendInv, CalmInv, [Next]_vars
  PROVE  CalmInv'
<1>1. Owned(store') /\ UserOK(user')
  BY ServerOwned
<1>2. ASSUME page'.session = 1, user'.calm
      PROVE  Calm(store', page')
  <2>1. page.session = 1 /\ StoreOK(store) /\ Owned(store) /\ UserOK(user)
    BY <1>2, SessionNeverFalls DEF FrontendInv, CalmInv
  <2>2. user.calm => Calm(store, page)
    BY <2>1 DEF CalmInv
  <2>3. CASE Network
    <3>1. PICK t \in Waiting : Serve(t) \/ Refuse(t) \/ Fail(t)
      BY <2>3 DEF Network
    <3>2. ~Fail(t)
      BY <1>2, <2>1 DEF Fail, UserOK
    <3>3. user' = user
      BY <3>1, <3>2 DEF Serve, Refuse
    <3> QED
      BY <1>2, <2>1, <2>2, <3>1, <3>2, <3>3, CalmServe, CalmRefuse
  <2>4. CASE Expire
    <3>1. PICK k : store' = WithoutSession(store, k)
      BY <2>4 DEF Expire
    <3>2. page' = page /\ user'.calm = user.calm
      BY <2>1, <2>4 DEF Expire, UserOK
    <3>3. store'.access = store.access /\ store'.owner = store.owner /\ store'.rows = store.rows
      BY <2>1, <3>1, SessionKeeps, StoreShape
    <3> QED
      BY <1>2, <2>2, <3>2, <3>3, CalmSame
  <2>5. ~OtherClient
    BY <1>2, <2>1 DEF OtherClient, UserOK
  <2>6. CASE Resume
    <3>1. user' = user
      BY <2>6 DEF Resume, ResumeLoad, ResumeEditor, ResumeBoard, ResumePage, Resumes
    <3> QED
      BY <1>2, <2>1, <2>2, <2>6, <3>1, CalmResume
  <2>7. CASE Navigate \/ Edit \/ ChangeBoard \/ Sign
    <3>1. user.calm
      <4>1. PICK op : Does(op)
        BY <2>7 DEF Navigate, Edit, ChangeBoard, Sign, ChooseBoard, ApplyRoute, NavButton,
             ClickNotification, ClickCreateBoard, OpenTicket, TypeText, TypeComment, CloseDrawer,
             ClickSave, ClickComment, ClickAction, DropCard, ClickEpicStatus, ClickRestore,
             ClickPromote, ClickAdd, ChooseFile, Poll, ClickLogout, ClickSavePassword, ClickLogin
      <4> QED
        BY <1>2, <2>1, <4>1, DoesFields
    <3> QED
      BY <1>2, <2>1, <2>2, <2>7, <3>1, CalmUser
  <2>8. CASE UNCHANGED vars
    BY <1>2, <2>2, <2>8 DEF vars
  <2> QED
    BY <2>3, <2>4, <2>5, <2>6, <2>7, <2>8 DEF Next
<1> QED
  BY <1>1, <1>2 DEF CalmInv, Owned, UserOK, Calm, Undisturbed, InStep, CurrentLoads, LoadIsCurrent, Writing, OnBoard, Home, Changing

(* When all functions of the first session have ended, none of their calls *)
(* was lost, nobody else wrote and the user stayed on the board, the page  *)
(* shows what the server stores, whatever was changed and in whatever      *)
(* order the answers came (load and its callers).                          *)
THEOREM PageIsFresh == Spec => []QuietPageIsFresh
<1>1. Init => CalmInv
  BY CalmInit
<1>2. FrontendInv /\ CalmInv /\ [Next]_vars => CalmInv'
  BY CalmStep
<1>3. CalmInv => QuietPageIsFresh
  <2> SUFFICES ASSUME CalmInv, page.tasks = {}, page.session = 1, user.calm
               PROVE  page.rows = [i \in {j \in DOMAIN store.rows : store.rows[j].board = page.board} |->
                                     store.rows[i]]
    BY DEF QuietPageIsFresh
  <2>1. Calm(store, page)
    BY DEF CalmInv
  <2>2. ~Writing(page) /\ CurrentLoads(page) = {}
    BY DEF Writing, CurrentLoads
  <2>3. page.rows = OnBoard(store, page.board)
    BY <2>1, <2>2 DEF Calm, InStep
  <2> QED
    BY <2>3 DEF OnBoard
<1> QED
  BY <1>1, <1>2, <1>3, FrontendInvariant, PTL DEF Spec

-----------------------------------------------------------------------------
(* What the screen shows belongs to the account of the cookie.             *)

(* Nothing that goes on after its session has ended meets a login or a     *)
(* logout: promoting and creating go on, and a new password brings another *)
(* cookie.                                                                 *)
Apart(may) ==
  /\ "login" \in may \/ "logout" \in may => "promote" \notin may /\ "create" \notin may
  /\ "login" \in may => "password" \notin may

SessionsApart == \A s \in Scenarios : Apart(s.may)

(* Functions whose last call was made in the present session.              *)
Current(p) == {t \in p.tasks : t.sent = p.session}

(* A login or logout that waits for its answer.                            *)
Signing(t) == t.url \in {"login", "logout"}

(* What the server has said is true of the account that asked.             *)
Said(s, t) ==
  t.reply.status = "ok" =>
    /\ t.url \in {"state", "history", "notifications"} =>
         t.as \in DOMAIN s.owner /\ t.reply.user = s.owner[t.as]
    /\ t.url = "state" => \A i \in DOMAIN t.reply.rows : t.reply.rows[i].board = t.reply.board
    /\ t.url \in {"login", "password"} => t.reply.made \in DOMAIN s.owner

(* A function of this session asks for the account of the cookie; a login  *)
(* or logout is alone in its session.                                      *)
Belongs(s, p, t) ==
  /\ t.as \in DOMAIN s.owner \union {0}
  /\ t.sent = p.session /\ ~Signing(t) => p.jar # 0 /\ t.as # 0 /\ s.owner[t.as] = s.owner[p.jar]
  /\ Signing(t) => p.me = 0 /\ t.session = p.session /\ Current(p) = {t}
  /\ t.url = "logout" => p.locked
  /\ t.session <= t.sent
  /\ Said(s, t)

Cookies(s, p, may) ==
  /\ p.jar \in DOMAIN s.owner \union {0}
  /\ "logout" \notin may => p.jar # 0
  /\ "login" \notin may => \A j, k \in DOMAIN s.owner : s.owner[j] = s.owner[k]
  /\ p.panel => p.me = 0
  /\ \A t \in p.tasks : t.op \in may \union {"load", "history"} /\ Belongs(s, p, t)

Shown(s, p) ==
  p.me # 0 =>
    /\ p.jar # 0 /\ s.owner[p.jar] = p.me
    /\ p.notes \in {0, p.me}
    /\ p.history # Nothing => p.history = [user |-> p.me, board |-> p.board]
    /\ \A i \in DOMAIN p.rows : p.rows[i].board = p.board

SessionInv(s, p, may) == Cookies(s, p, may) /\ Shown(s, p)

(* A session in which functions may go on.                                 *)
Active(p) == p.jar # 0 /\ \A t \in p.tasks : ~Signing(t)

LEMMA SignedInActive ==
  ASSUME NEW s, NEW p, NEW may, SessionInv(s, p, may), p.me # 0
  PROVE  Active(p)
BY DEF SessionInv, Cookies, Belongs, Shown, Active

LEMMA CurrentActive ==
  ASSUME NEW s, NEW p, NEW may, SessionInv(s, p, may), NEW t \in p.tasks, ~Signing(t),
         t.sent = p.session
  PROVE  Active(p) /\ t.as # 0 /\ s.owner[t.as] = s.owner[p.jar]
<1>1. Belongs(s, p, t) /\ \A u \in p.tasks : Belongs(s, p, u)
  BY DEF SessionInv, Cookies
<1>2. ASSUME NEW u \in p.tasks, Signing(u)
      PROVE  FALSE
  <2>1. Current(p) = {u}
    BY <1>1, <1>2 DEF Belongs
  <2>2. t \in Current(p)
    BY DEF Current
  <2> QED
    BY <1>2, <2>1, <2>2
<1> QED
  BY <1>1, <1>2 DEF Active, Belongs

LEMMA GuardedActive ==
  ASSUME NEW s, NEW p, NEW may, Good(p, {}), SessionInv(s, p, may), NEW t \in p.tasks, ~Signing(t),
         t.session = p.session
  PROVE  Active(p) /\ t.sent = p.session /\ t.as # 0 /\ s.owner[t.as] = s.owner[p.jar]
<1>1. t.sent <= p.session /\ t.sent \in Nat /\ p.session \in Nat
  BY UnderWay, GoodGenerations DEF TaskShape, Good, TasksOK
<1>2. t.session <= t.sent
  BY DEF SessionInv, Cookies, Belongs
<1>3. t.sent = p.session
  BY <1>1, <1>2
<1> QED
  BY <1>3, CurrentActive

LEMMA SigningOps ==
  ASSUME NEW t, TaskShape(t)
  PROVE  Signing(t) <=> t.op \in {"login", "logout"} /\ t.url # "state"
<1>1. CASE t.url = "state"
  BY <1>1 DEF Signing
<1>2. CASE <<t.op, t.url>> \in Calls
  BY <1>2 DEF Signing, Calls
<1> QED
  BY <1>1, <1>2 DEF TaskShape

LEMMA ApartActive ==
  ASSUME NEW s, NEW p, NEW may, Good(p, {}), SessionInv(s, p, may),
         "login" \notin may, "logout" \notin may
  PROVE  Active(p)
<1>1. \A t \in p.tasks : TaskShape(t) /\ t.op \in may \union {"load", "history"}
  BY UnderWay DEF SessionInv, Cookies
<1>2. \A t \in p.tasks : ~Signing(t)
  BY <1>1, SigningOps
<1> QED
  BY <1>2 DEF Active, SessionInv, Cookies

-----------------------------------------------------------------------------
(* Account and board stay; functions of the session may start.             *)

Grows(p, q, may) ==
  /\ \A f \in {"me", "board", "rows", "notes", "session", "jar", "panel", "locked"} : q[f] = p[f]
  /\ q.history \in {p.history, Nothing}
  /\ p.tasks \subseteq q.tasks
  /\ \A u \in q.tasks \ p.tasks :
       /\ u.op \in may \union {"load", "history"} /\ ~Signing(u) /\ u.op # "logout"
       /\ u.sent = q.session /\ u.as = q.jar /\ u.session <= u.sent /\ u.reply = NoReply

LEMMA GrowsKeeps ==
  ASSUME NEW s, NEW p, NEW q, NEW may, SessionInv(s, p, may), Grows(p, q, may),
         Active(p) \/ q.tasks \subseteq p.tasks
  PROVE  SessionInv(s, q, may)
<1>1. /\ q.me = p.me /\ q.board = p.board /\ q.rows = p.rows /\ q.notes = p.notes
      /\ q.session = p.session /\ q.jar = p.jar /\ q.panel = p.panel /\ q.locked = p.locked
      /\ q.history \in {p.history, Nothing}
  BY DEF Grows
<1>2. \A u \in q.tasks : u.op \in may \union {"load", "history"} /\ Belongs(s, q, u)
  <2> TAKE u \in q.tasks
  <2>1. CASE u \in p.tasks
    <3>1. Belongs(s, p, u) /\ u.op \in may \union {"load", "history"}
      BY <2>1 DEF SessionInv, Cookies
    <3>2. ASSUME Signing(u) PROVE Current(q) = {u}
      <4>1. ~Active(p)
        BY <2>1, <3>2 DEF Active
      <4>2. q.tasks = p.tasks
        BY <4>1 DEF Grows
      <4> QED
        BY <1>1, <3>1, <3>2, <4>2 DEF Belongs, Current
    <3> QED
      BY <1>1, <3>1, <3>2 DEF Belongs
  <2>2. CASE u \notin p.tasks
    <3>1. Active(p)
      BY <2>2
    <3>2. /\ u.op \in may \union {"load", "history"} /\ ~Signing(u) /\ u.op # "logout"
          /\ u.as = p.jar /\ u.session <= u.sent /\ u.reply = NoReply
      BY <1>1, <2>2 DEF Grows
    <3>3. p.jar \in DOMAIN s.owner
      BY <3>1 DEF SessionInv, Cookies, Active
    <3>4. u.reply.status = "none"
      BY <3>2 DEF NoReply
    <3> QED
      BY <1>1, <3>1, <3>2, <3>3, <3>4 DEF Belongs, Said, Active, Signing
  <2> QED
    BY <2>1, <2>2
<1>3. Cookies(s, q, may)
  BY <1>1, <1>2 DEF SessionInv, Cookies
<1>4. Shown(s, q)
  BY <1>1 DEF SessionInv, Shown
<1> QED
  BY <1>3, <1>4 DEF SessionInv

(* Functions of a page without a login among the new ones.                 *)
LEMMA RemainsGrows ==
  ASSUME NEW p, NEW q, NEW O, NEW may, Good(q, {}), Remains(p, q, O),
         O \subseteq may \union {"load", "history"}, "logout" \notin O,
         \A u \in q.tasks \ p.tasks : u.op = "login" => u.url = "state"
  PROVE  Grows(p, q, may)
<1>1. /\ \A f \in {"me", "board", "rows", "notes", "session", "jar", "panel", "locked"} : q[f] = p[f]
      /\ HistoryOutdated(p, q) /\ p.tasks \subseteq q.tasks
      /\ \A u \in q.tasks \ p.tasks : u.op \in O /\ (Starts(q, u) \/ Requests(q, u))
  BY DEF Remains
<1>2. \A u \in q.tasks \ p.tasks :
        /\ u.op \in may \union {"load", "history"} /\ ~Signing(u) /\ u.op # "logout"
        /\ u.sent = q.session /\ u.as = q.jar /\ u.session <= u.sent /\ u.reply = NoReply
  <2> TAKE u \in q.tasks \ p.tasks
  <2>1. TaskShape(u) /\ u.session <= q.session
    BY UnderWay DEF Good, TasksOK
  <2>2. ~Signing(u)
    BY <1>1, <2>1, SigningOps
  <2> QED
    BY <1>1, <2>1, <2>2 DEF Starts, Requests
<1> QED
  BY <1>1, <1>2 DEF Grows, HistoryOutdated

LEMMA RedrawsGrows ==
  ASSUME NEW p, NEW q, NEW O, NEW may, Good(q, {}), Redraws(p, q, O), p.loadGen \in Nat,
         O \subseteq may \union {"load", "history"}, O \intersect {"login", "logout"} = {}
  PROVE  Grows(p, q, may)
<1>1. Remains(p, q, O) /\ \A u \in q.tasks \ p.tasks : u.op \in O
  BY RedrawsRemain DEF Redraws
<1> QED
  BY <1>1, RemainsGrows

LEMMA LoadsGrows ==
  ASSUME NEW p, NEW q, NEW t, NEW may, Good(q, {}), Loads(p, q, t), p.loadGen \in Nat,
         t.op \in may \union {"load", "history"}, t.op # "logout"
  PROVE  Grows(p, q, may)
<1>1. Remains(p, q, {t.op, "history"})
  BY LoadsRemain
<1>2. \A u \in q.tasks \ p.tasks : u.op = "login" => u.url = "state"
  BY DEF Loads, Requests
<1> QED
  BY <1>1, <1>2, RemainsGrows

LEMMA ContinuesGrows ==
  ASSUME NEW p, NEW q, NEW t, NEW may, Good(q, {}), Continues(p, q, t),
         t.op \in may, t.op \notin {"login", "logout"}
  PROVE  Grows(p, q, may)
<1>1. PICK c : /\ q.tasks = p.tasks \union {c} /\ c.op = t.op
               /\ c.sent = q.session /\ c.as = q.jar /\ c.reply = NoReply
  BY DEF Continues
<1>2. TaskShape(c) /\ c.session <= q.session
  BY <1>1, UnderWay DEF Good, TasksOK
<1>3. ~Signing(c)
  BY <1>1, <1>2, SigningOps
<1>4. /\ \A f \in {"me", "board", "rows", "notes", "session", "jar", "panel", "locked"} : q[f] = p[f]
      /\ q.history = p.history
  BY DEF Continues, Kept
<1> QED
  BY <1>1, <1>2, <1>3, <1>4 DEF Grows

(* The session ends.                                                       *)
LEMMA QuitsKeeps ==
  ASSUME NEW s, NEW p, NEW q, NEW may, SessionInv(s, p, may), Quits(p, q), Active(p),
         p.session \in Nat, \A t \in p.tasks : t.sent \in Nat /\ t.sent <= p.session
  PROVE  SessionInv(s, q, may)
<1>1. /\ q.session = p.session + 1 /\ q.jar = p.jar /\ q.me = 0 /\ q.tasks = p.tasks
  BY DEF Quits
<1>2. \A t \in p.tasks : t.sent # q.session
  BY <1>1
<1>3. \A t \in q.tasks : t.op \in may \union {"load", "history"} /\ Belongs(s, q, t)
  <2> TAKE t \in q.tasks
  <2>1. Belongs(s, p, t) /\ ~Signing(t) /\ t.op \in may \union {"load", "history"}
    BY <1>1 DEF SessionInv, Cookies, Active
  <2> QED
    BY <1>1, <1>2, <2>1 DEF Belongs, Signing
<1>4. Cookies(s, q, may)
  BY <1>1, <1>3 DEF SessionInv, Cookies
<1> QED
  BY <1>1, <1>4 DEF SessionInv, Shown

(* A function has ended.                                                   *)
LEMMA EndSession ==
  ASSUME NEW s, NEW p, NEW may, PageShape(p), SessionInv(s, p, may), NEW t \in p.tasks
  PROVE  LET e == End(p, t) IN
         /\ SessionInv(s, e, may) /\ PageShape(e)
         /\ Active(p) => Active(e)
         /\ Signing(t) => p.me = 0 /\ t.session = p.session /\ Current(e) = {}
                          /\ \A u \in e.tasks : ~Signing(u)
<1> DEFINE e == End(p, t)
<1>1. /\ PageShape(e) /\ e.tasks = p.tasks \ {t} /\ e.me = p.me /\ e.board = p.board
      /\ e.rows = p.rows /\ e.notes = p.notes /\ e.session = p.session /\ e.jar = p.jar
      /\ e.panel = p.panel /\ e.locked = p.locked /\ e.history = p.history
  BY EndFields DEF Kept
<1> HIDE DEF e
<1>2. \A u \in p.tasks : u.op \in may \union {"load", "history"} /\ Belongs(s, p, u)
  BY DEF SessionInv, Cookies
<1>3. \A u \in e.tasks : u.op \in may \union {"load", "history"} /\ Belongs(s, e, u)
  <2> TAKE u \in e.tasks
  <2>1. Belongs(s, p, u) /\ u.op \in may \union {"load", "history"} /\ u # t /\ u \in p.tasks
    BY <1>1, <1>2
  <2>2. Signing(u) => Current(e) = {u}
    BY <1>1, <2>1 DEF Belongs, Current
  <2> QED
    BY <1>1, <2>1, <2>2 DEF Belongs
<1>4. Cookies(s, e, may)
  BY <1>1, <1>3 DEF SessionInv, Cookies
<1>5. Shown(s, e)
  BY <1>1 DEF SessionInv, Shown
<1>6. Active(p) => Active(e)
  BY <1>1 DEF Active
<1>7. ASSUME Signing(t)
      PROVE  /\ p.me = 0 /\ t.session = p.session /\ Current(e) = {}
             /\ \A u \in e.tasks : ~Signing(u)
  <2>1. p.me = 0 /\ t.session = p.session /\ Current(p) = {t}
    BY <1>2, <1>7 DEF Belongs
  <2>2. Current(e) = {}
    BY <1>1, <2>1 DEF Current
  <2>3. ASSUME NEW u \in e.tasks, Signing(u)
        PROVE  FALSE
    <3>1. Current(p) = {u} /\ u # t
      BY <1>1, <1>2, <2>3 DEF Belongs
    <3> QED
      BY <2>1, <3>1
  <2> QED
    BY <2>1, <2>2, <2>3
<1> QED
  BY <1>1, <1>4, <1>5, <1>6, <1>7 DEF e, SessionInv

(* The browser holds the cookie of another session of the account, or of   *)
(* another account when nobody is signed in.                               *)
LEMMA JarSession ==
  ASSUME NEW s, NEW p, NEW q, NEW may, SessionInv(s, p, may), Changes(p, q, {"jar", "locked"}),
         q.jar \in DOMAIN s.owner \union {0},
         \A t \in p.tasks : t.url # "logout" \/ q.locked = p.locked,
         \/ "login" \notin may /\ q.jar # 0 /\ 0 \notin DOMAIN s.owner
         \/ p.me = 0 /\ Current(p) = {} /\ (q.jar = 0 => "logout" \in may)
  PROVE  SessionInv(s, q, may)
<1>1. /\ q.tasks = p.tasks /\ q.me = p.me /\ q.board = p.board
      /\ q.rows = p.rows /\ q.notes = p.notes /\ q.session = p.session
      /\ q.panel = p.panel /\ q.history = p.history /\ Current(q) = Current(p)
  BY DEF Changes, PageFields, Current
<1>2. ASSUME NEW t \in q.tasks
      PROVE  t.op \in may \union {"load", "history"} /\ Belongs(s, q, t)
  <2>1. Belongs(s, p, t) /\ t.op \in may \union {"load", "history"}
    BY <1>1 DEF SessionInv, Cookies
  <2>2. ASSUME t.sent = q.session, ~Signing(t)
        PROVE  q.jar # 0 /\ t.as # 0 /\ s.owner[t.as] = s.owner[q.jar]
    <3>1. t \in Current(p)
      BY <1>1, <2>2 DEF Current
    <3>2. "login" \notin may /\ q.jar # 0 /\ q.jar \in DOMAIN s.owner
      BY <3>1
    <3>3. t.as # 0 /\ t.as \in DOMAIN s.owner
      BY <1>1, <2>1, <2>2 DEF Belongs
    <3> QED
      BY <3>2, <3>3 DEF SessionInv, Cookies
  <2>3. t.url = "logout" => q.locked
    BY <1>1, <2>1 DEF Belongs
  <2> QED
    BY <1>1, <2>1, <2>2, <2>3 DEF Belongs
<1>3. "logout" \notin may => q.jar # 0
  OBVIOUS
<1>4. Cookies(s, q, may)
  BY <1>1, <1>2, <1>3 DEF SessionInv, Cookies
<1>5. Shown(s, q)
  <2>1. CASE q.me = 0
    BY <2>1 DEF Shown
  <2>2. CASE q.me # 0
    <3>1. "login" \notin may /\ q.jar # 0 /\ q.jar \in DOMAIN s.owner
      BY <1>1, <2>2
    <3>2. p.jar # 0 /\ p.jar \in DOMAIN s.owner /\ s.owner[p.jar] = p.me
      BY <1>1, <2>2 DEF SessionInv, Cookies, Shown
    <3>3. s.owner[q.jar] = q.me
      BY <1>1, <3>1, <3>2 DEF SessionInv, Cookies
    <3> QED
      BY <1>1, <3>1, <3>3 DEF SessionInv, Shown
  <2> QED
    BY <2>1, <2>2
<1> QED
  BY <1>4, <1>5 DEF SessionInv

(* A new session of the page begins; the account stays.                    *)
LEMMA InvalidateSession ==
  ASSUME NEW s, NEW p, NEW may, PageShape(p), SessionInv(s, p, may), Active(p),
         \A t \in p.tasks : t.sent \in Nat /\ t.sent <= p.session
  PROVE  LET q == InvalidateSessionRequests(p) IN
         SessionInv(s, q, may) /\ Active(q) /\ q.tasks = p.tasks /\ PageShape(q)
<1> DEFINE q == InvalidateSessionRequests(p)
<1>1. /\ PageShape(q) /\ q.tasks = p.tasks /\ q.me = p.me /\ q.board = p.board
      /\ q.rows = p.rows /\ q.notes = p.notes /\ q.session = p.session + 1 /\ q.jar = p.jar
      /\ q.panel = p.panel /\ q.locked = p.locked
  BY InvalidateFrame DEF Changes, PageFields
<1>2. q.history = Nothing
  BY DEF InvalidateSessionRequests, ClearHistoryView, PageShape, IsPage, PageFields
<1> HIDE DEF q
<1>3. p.session \in Nat
  BY ShapeFields
<1>4. \A t \in p.tasks : t.sent # q.session
  BY <1>1, <1>3
<1>5. \A t \in q.tasks : t.op \in may \union {"load", "history"} /\ Belongs(s, q, t)
  <2> TAKE t \in q.tasks
  <2>1. Belongs(s, p, t) /\ ~Signing(t) /\ t.op \in may \union {"load", "history"}
    BY <1>1 DEF SessionInv, Cookies, Active
  <2> QED
    BY <1>1, <1>4, <2>1 DEF Belongs, Signing
<1>6. Cookies(s, q, may) /\ Shown(s, q) /\ Active(q)
  BY <1>1, <1>2, <1>5 DEF SessionInv, Cookies, Shown, Active
<1> QED
  BY <1>1, <1>6 DEF SessionInv, q

-----------------------------------------------------------------------------
(* The server's accounts.                                                  *)

(* Sessions are added at most; without a login all are of one account.     *)
Adds(s, z, may) ==
  /\ DOMAIN s.owner \subseteq DOMAIN z.owner
  /\ \A k \in DOMAIN s.owner : z.owner[k] = s.owner[k]
  /\ "login" \notin may => \A j, k \in DOMAIN z.owner : z.owner[j] = z.owner[k]

LEMMA AddsKeeps ==
  ASSUME NEW s, NEW z, NEW p, NEW may, SessionInv(s, p, may), Adds(s, z, may), 0 \notin DOMAIN s.owner,
         0 \notin DOMAIN z.owner
  PROVE  SessionInv(z, p, may)
<1>1. ASSUME NEW t \in p.tasks
      PROVE  t.op \in may \union {"load", "history"} /\ Belongs(z, p, t)
  <2>1. Belongs(s, p, t) /\ t.op \in may \union {"load", "history"}
    BY DEF SessionInv, Cookies
  <2>2. p.jar \in DOMAIN s.owner \union {0} /\ t.as \in DOMAIN s.owner \union {0}
    BY <2>1 DEF SessionInv, Cookies, Belongs
  <2>3. Said(z, t)
    BY <2>1 DEF Belongs, Said, Adds
  <2>4. t.sent = p.session /\ ~Signing(t) => p.jar # 0 /\ t.as # 0 /\ z.owner[t.as] = z.owner[p.jar]
    BY <2>1, <2>2 DEF Belongs, Adds
  <2>5. t.as \in DOMAIN z.owner \union {0}
    BY <2>2 DEF Adds
  <2> QED
    BY <2>1, <2>3, <2>4, <2>5 DEF Belongs
<1>2. Cookies(z, p, may)
  BY <1>1 DEF SessionInv, Cookies, Adds
<1>3. Shown(z, p)
  BY DEF SessionInv, Cookies, Shown, Adds
<1> QED
  BY <1>2, <1>3 DEF SessionInv

LEMMA SameAccounts ==
  ASSUME NEW s, NEW z, NEW p, NEW may, SessionInv(s, p, may), z.owner = s.owner
  PROVE  Adds(s, z, may)
BY DEF SessionInv, Cookies, Adds

LEMMA AppendAdds ==
  ASSUME NEW S, NEW w \in Seq(S), NEW x \in S
  PROVE  LET z == Append(w, x) IN
         /\ DOMAIN w \subseteq DOMAIN z /\ Len(w) + 1 \in DOMAIN z /\ z[Len(w) + 1] = x
         /\ \A k \in DOMAIN w : z[k] = w[k]
         /\ \A k \in DOMAIN z : k \in DOMAIN w \/ k = Len(w) + 1
         /\ 0 \notin DOMAIN w /\ 0 \notin DOMAIN z
OBVIOUS

(* The server has answered.                                                *)
LEMMA RepliedSession ==
  ASSUME NEW s, NEW p, NEW q, NEW may, SessionInv(s, p, may), NEW t \in p.tasks, NEW r,
         Replied(p, q, t, r), \A u : u.reply = r /\ u.url = t.url /\ u.as = t.as => Said(s, u)
  PROVE  SessionInv(s, q, may)
<1> DEFINE u == [t EXCEPT !.reply = r]
<1>1. /\ q.tasks = (p.tasks \ {t}) \union {u} /\ u.reply = r
      /\ u.op = t.op /\ u.url = t.url /\ u.session = t.session /\ u.sent = t.sent /\ u.as = t.as
  BY DEF Replied, TaskFields
<1> HIDE DEF u
<1>2. /\ q.me = p.me /\ q.board = p.board /\ q.jar = p.jar
      /\ q.rows = p.rows /\ q.notes = p.notes /\ q.session = p.session
      /\ q.panel = p.panel /\ q.history = p.history /\ q.locked = p.locked
  BY DEF Replied, Changes, PageFields
<1>3. \A v \in p.tasks : v.op \in may \union {"load", "history"} /\ Belongs(s, p, v)
  BY DEF SessionInv, Cookies
<1>4. ASSUME NEW v \in q.tasks
      PROVE  v.op \in may \union {"load", "history"} /\ Belongs(s, q, v)
  <2>1. CASE v = u
    <3>1. Belongs(s, p, t) /\ t.op \in may \union {"load", "history"} /\ Said(s, u)
      BY <1>1, <1>3
    <3>2. Signing(u) => Current(q) = {u}
      BY <1>1, <1>2, <3>1 DEF Belongs, Current, Signing
    <3> QED
      BY <1>1, <1>2, <2>1, <3>1, <3>2 DEF Belongs, Signing
  <2>2. CASE v # u
    <3>1. Belongs(s, p, v) /\ v.op \in may \union {"load", "history"} /\ v \in p.tasks /\ v # t
      BY <1>1, <1>3, <2>2
    <3>2. Signing(v) => Current(q) = {v}
      BY <1>1, <1>2, <2>2, <3>1 DEF Belongs, Current
    <3> QED
      BY <1>1, <1>2, <3>1, <3>2 DEF Belongs
  <2> QED
    BY <2>1, <2>2
<1>5. Cookies(s, q, may)
  BY <1>2, <1>4 DEF SessionInv, Cookies
<1>6. Shown(s, q)
  BY <1>2 DEF SessionInv, Shown
<1> QED
  BY <1>5, <1>6 DEF SessionInv

(* A request has its effect.                                               *)
LEMMA EffectAdds ==
  ASSUME FrontendInv, SessionInv(store, page, user.may), NEW t \in Waiting,
         Account(t) # 0 \/ t.url \in NeedsNoLogin
  PROVE  LET z == Effect(store, t, Account(t)) IN
         /\ Adds(store, z, user.may) /\ 0 \notin DOMAIN store.owner /\ 0 \notin DOMAIN z.owner
         /\ t.url \in {"login", "password"} => Len(store.owner) + 1 \in DOMAIN z.owner
<1> DEFINE u == Account(t)
           z == Effect(store, t, u)
           w == store.owner
<1>1. Good(page, {}) /\ StoreOK(store) /\ t \in page.tasks /\ w \in Seq(Users)
      /\ store.live \subseteq 1 .. Len(w)
  BY StoreShape DEF FrontendInv, Waiting
<1>2. TaskShape(t) /\ t.op \in user.may \union {"load", "history"}
  BY <1>1, UnderWay DEF SessionInv, Cookies
<1>3. 0 \notin DOMAIN w
  BY <1>1
<1>4. /\ t.url \notin {"login", "password"} => z.owner = w
      /\ t.url = "login" => z.owner = Append(w, t.ask)
      /\ t.url = "password" => z.owner = Append(w, u)
  BY <1>1, EffectKeeps
<1>5. "login" \notin user.may => \A j, k \in DOMAIN w : w[j] = w[k]
  BY DEF SessionInv, Cookies
<1> HIDE DEF z
<1>6. CASE t.url \notin {"login", "password"}
  BY <1>3, <1>4, <1>6, SameAccounts DEF z
<1>7. CASE t.url = "login"
  <2>1. t.op = "login"
    <3>1. <<t.op, t.url>> \in Calls
      BY <1>2, <1>7 DEF TaskShape
    <3> QED
      BY <1>7, <3>1 DEF Calls
  <2>2. "login" \in user.may
    BY <1>2, <2>1
  <2>3. t.ask \in Users
    BY <1>2, <1>7 DEF TaskShape
  <2> HIDE DEF w
  <2>4. /\ DOMAIN w \subseteq DOMAIN z.owner /\ Len(w) + 1 \in DOMAIN z.owner
        /\ \A k \in DOMAIN w : z.owner[k] = w[k]
        /\ 0 \notin DOMAIN z.owner
    BY <1>1, <1>4, <1>7, <2>3, AppendAdds
  <2> QED
    BY <1>3, <2>2, <2>4 DEF Adds, w, z
<1>8. CASE t.url = "password"
  <2>1. u # 0 /\ u \in Users
    BY <1>1, <1>8, AccountIsUser DEF NeedsNoLogin
  <2>2. t.as \in DOMAIN w /\ u = w[t.as]
    BY <1>1, <2>1 DEF Account
  <2> HIDE DEF w, u
  <2>3. /\ DOMAIN w \subseteq DOMAIN z.owner /\ Len(w) + 1 \in DOMAIN z.owner
        /\ \A k \in DOMAIN w : z.owner[k] = w[k]
        /\ 0 \notin DOMAIN z.owner
        /\ z.owner[Len(w) + 1] = u
        /\ \A k \in DOMAIN z.owner : k \in DOMAIN w \/ k = Len(w) + 1
    BY <1>1, <1>4, <1>8, <2>1, AppendAdds
  <2>4. ASSUME "login" \notin user.may
        PROVE  \A j, k \in DOMAIN z.owner : z.owner[j] = z.owner[k]
    <3>1. \A j \in DOMAIN z.owner : z.owner[j] = u
      BY <1>5, <2>2, <2>3, <2>4
    <3> QED
      BY <3>1
  <2> QED
    BY <1>3, <2>3, <2>4 DEF Adds, w, z, u
<1> QED
  BY <1>6, <1>7, <1>8

(* What the server answers is true of the account.                         *)
LEMMA AnswerSaid ==
  ASSUME FrontendInv, SessionInv(store, page, user.may), NEW t \in Waiting,
         Account(t) # 0 \/ t.url \in NeedsNoLogin, NEW v, v.url = t.url, v.as = t.as,
         v.reply = Answer(store, t, Account(t))
  PROVE  Said(Effect(store, t, Account(t)), v)
<1> DEFINE u == Account(t)
           z == Effect(store, t, u)
           r == Answer(store, t, u)
<1>1. Adds(store, z, user.may) /\ (t.url \in {"login", "password"} => Len(store.owner) + 1 \in DOMAIN z.owner)
  BY EffectAdds
<1>2. StoreOK(store)
  BY DEF FrontendInv
<1>3. ASSUME t.url \in {"state", "history", "notifications"}
      PROVE  r.user = u /\ t.as \in DOMAIN z.owner /\ u = z.owner[t.as]
  <2>1. r.user = u
    BY <1>3, StateAnswer DEF Answer
  <2>2. u # 0 /\ t.as \in store.live /\ u = store.owner[t.as]
    BY <1>3 DEF NeedsNoLogin, Account
  <2>3. t.as \in DOMAIN store.owner
    BY <1>2, <2>2, StoreShape
  <2> QED
    BY <1>1, <2>1, <2>2, <2>3 DEF Adds
<1>4. ASSUME t.url = "state"
      PROVE  \A i \in DOMAIN r.rows : r.rows[i].board = r.board
  <2>1. r = StateOf(store, t, u)
    BY <1>4 DEF Answer
  <2>2. r.rows = OnBoard(store, r.board)
    BY <2>1, StateAnswer
  <2> QED
    BY <2>2 DEF OnBoard
<1>5. t.url \in {"login", "password"} => r.made = Len(store.owner) + 1
  BY DEF Answer
<1> HIDE DEF u, z, r
<1>6. Said(z, v)
  BY <1>1, <1>3, <1>4, <1>5 DEF Said, r, u
<1> QED
  BY <1>6 DEF z, u

LEMMA SessionNetwork ==
  ASSUME FrontendInv, UserOK(user), SessionInv(store, page, user.may), Network
  PROVE  SessionInv(store', page', user'.may) /\ user'.may = user.may /\ UserOK(user')
<1>1. Good(page, {}) /\ StoreOK(store)
  BY DEF FrontendInv
<1>2. PICK t \in Waiting : Serve(t) \/ Refuse(t) \/ Fail(t)
  BY DEF Network
<1>3. t \in page.tasks /\ 0 \notin DOMAIN store.owner
  BY <1>1, StoreShape DEF Waiting
<1> DEFINE z == Effect(store, t, Account(t))
<1>4. CASE Serve(t)
  <2> DEFINE r == Answer(store, t, Account(t))
  <2>1. store' = z /\ user' = user /\ Replies(t, r) /\ (Account(t) # 0 \/ t.url \in NeedsNoLogin)
    BY <1>4 DEF Serve
  <2>2. Replied(page, page', t, r)
    BY <1>1, <1>3, <2>1, RepliesReplied
  <2>3. SessionInv(z, page, user.may)
    BY <1>2, <2>1, EffectAdds, AddsKeeps
  <2>4. \A v : v.reply = r /\ v.url = t.url /\ v.as = t.as => Said(z, v)
    BY <1>2, <2>1, AnswerSaid
  <2> HIDE DEF z, r
  <2> QED
    BY <1>3, <2>1, <2>2, <2>3, <2>4, RepliedSession
<1>5. ASSUME NEW r, r.status # "ok", Replies(t, r), SessionInv(store', page, user.may)
      PROVE  SessionInv(store', page', user.may)
  <2>1. Replied(page, page', t, r)
    BY <1>1, <1>3, <1>5, RepliesReplied
  <2>2. \A v : v.reply = r /\ v.url = t.url /\ v.as = t.as => Said(store', v)
    BY <1>5 DEF Said
  <2> QED
    BY <1>3, <1>5, <2>1, <2>2, RepliedSession
<1>6. CASE Refuse(t)
  <2>1. store' = store /\ user' = user /\ Replies(t, [status |-> "denied"])
    BY <1>6 DEF Refuse
  <2> QED
    BY <1>5, <2>1
<1>7. CASE Fail(t)
  <2>1. UserOK(user') /\ user'.may = user.may /\ Replies(t, [status |-> "failed"])
    BY <1>7 DEF Fail, UserOK
  <2>2. store' = store \/ (store' = z /\ (Account(t) # 0 \/ t.url \in NeedsNoLogin))
    BY <1>7 DEF Fail
  <2>3. SessionInv(store', page, user.may)
    BY <1>2, <2>2, EffectAdds, AddsKeeps
  <2> QED
    BY <1>5, <2>1, <2>3
<1> QED
  BY <1>2, <1>4, <1>6, <1>7

LEMMA SessionOthers ==
  ASSUME FrontendInv, UserOK(user), SessionInv(store, page, user.may), Expire \/ OtherClient
  PROVE  SessionInv(store', page', user'.may) /\ user'.may = user.may /\ UserOK(user')
<1>1. StoreOK(store)
  BY DEF FrontendInv
<1>2. user'.may = user.may /\ page' = page /\ UserOK(user')
  BY DEF Expire, OtherClient, UserOK
<1>3. store'.owner = store.owner
  <2>1. CASE Expire
    <3>1. PICK k : store' = WithoutSession(store, k)
      BY <2>1 DEF Expire
    <3> QED
      BY <1>1, <3>1, SessionKeeps, StoreShape
  <2>2. CASE OtherClient
    <3>1. PICK i : store' = WithRow(store, i, store.rows[i])
      BY <2>2 DEF OtherClient
    <3> QED
      BY <1>1, <3>1, WithRowKeeps, StoreShape
  <2> QED
    BY <2>1, <2>2
<1>4. 0 \notin DOMAIN store.owner
  BY <1>1, StoreShape
<1>5. Adds(store, store', user.may)
  BY <1>3, SameAccounts
<1> QED
  BY <1>2, <1>3, <1>4, <1>5, AddsKeeps

-----------------------------------------------------------------------------
(* Functions that are resumed, as far as the account goes.                 *)

LEMMA GrowSession ==
  ASSUME NEW s, NEW p, NEW q, NEW may, Good(p, {}), SessionInv(s, p, may), NEW t \in p.tasks,
         Grows(End(p, t), q, may), Active(p)
  PROVE  SessionInv(s, q, may)
BY EndSession, GrowsKeeps DEF Good

(* Nothing but the end of the function.                                    *)
LEMMA RestSession ==
  ASSUME NEW s, NEW p, NEW q, NEW may, Good(p, {}), Good(q, {}), SessionInv(s, p, may),
         NEW t \in p.tasks, Redraws(End(p, t), q, {})
  PROVE  SessionInv(s, q, may)
<1>1. SessionInv(s, End(p, t), may) /\ PageShape(End(p, t))
  BY EndSession DEF Good
<1>2. Grows(End(p, t), q, may)
  BY <1>1, RedrawsGrows, ShapeFields
<1>3. q.tasks \subseteq End(p, t).tasks
  BY DEF Redraws
<1> QED
  BY <1>1, <1>2, <1>3, GrowsKeeps

LEMMA QuitSession ==
  ASSUME NEW s, NEW p, NEW q, NEW may, Good(p, {}), SessionInv(s, p, may), NEW t \in p.tasks,
         Quits(End(p, t), q), Active(p)
  PROVE  SessionInv(s, q, may)
<1> DEFINE e == End(p, t)
<1>1. PageShape(p) /\ \A u \in p.tasks : u.sent \in Nat /\ u.sent <= p.session
  BY UnderWay DEF TaskShape, Good, TasksOK
<1>2. SessionInv(s, e, may) /\ Active(e)
  BY <1>1, EndSession
<1>3. e.session = p.session /\ e.tasks \subseteq p.tasks
  BY <1>1, EndFields DEF Kept
<1>4. p.session \in Nat
  BY <1>1, ShapeFields
<1> HIDE DEF e
<1>5. Quits(e, q)
  BY DEF e
<1> QED
  BY <1>1, <1>2, <1>3, <1>4, <1>5, QuitsKeeps

(* An answered load is shown to the account that the cookie names.         *)
LEMMA ShowsKeeps ==
  ASSUME NEW s, NEW p, NEW q, NEW may, Good(q, {}), SessionInv(s, p, may), Active(p), NEW r,
         Shows(p, q, r), r.user = s.owner[p.jar], \A i \in DOMAIN r.rows : r.rows[i].board = r.board
  PROVE  SessionInv(s, q, may)
<1>1. /\ q.session = p.session /\ q.jar = p.jar /\ q.locked = p.locked /\ q.panel = FALSE
      /\ q.me = r.user /\ q.notes = r.user /\ q.rows = r.rows /\ q.board = r.board
      /\ q.history = Nothing
      /\ \A u \in q.tasks \ p.tasks : Starts(q, u) /\ u.op = "history"
  BY DEF Shows
<1>2. \A u \in q.tasks : u.op \in may \union {"load", "history"} /\ Belongs(s, q, u)
  <2> TAKE u \in q.tasks
  <2>1. CASE u \in p.tasks
    <3>1. Belongs(s, p, u) /\ ~Signing(u) /\ u.op \in may \union {"load", "history"}
      BY <2>1 DEF SessionInv, Cookies, Active
    <3> QED
      BY <1>1, <3>1 DEF Belongs, Signing
  <2>2. CASE u \notin p.tasks
    <3>1. Starts(q, u) /\ u.op = "history"
      BY <1>1, <2>2
    <3>2. TaskShape(u) /\ q.session \in Nat
      BY UnderWay, GoodGenerations
    <3>3. ~Signing(u)
      BY <3>1, <3>2, SigningOps
    <3>4. u.session = q.session /\ u.sent = q.session /\ u.as = q.jar /\ u.reply.status = "none"
      BY <3>1 DEF Starts, NoReply
    <3>5. u.session <= u.sent
      BY <3>2, <3>4
    <3>6. q.jar \in DOMAIN s.owner /\ q.jar # 0
      BY <1>1 DEF SessionInv, Cookies, Active
    <3> QED
      BY <3>1, <3>3, <3>4, <3>5, <3>6 DEF Belongs, Said, Signing
  <2> QED
    BY <2>1, <2>2
<1>3. Cookies(s, q, may)
  BY <1>1, <1>2 DEF SessionInv, Cookies
<1>4. Shown(s, q)
  BY <1>1 DEF Shown, Active
<1> QED
  BY <1>3, <1>4 DEF SessionInv

LEMMA LoadedSession ==
  ASSUME NEW s, NEW p, NEW q, NEW may, Good(p, {}), Good(q, {}), SessionInv(s, p, may),
         NEW t \in p.tasks, t.url = "state", Loaded(p, q, t)
  PROVE  SessionInv(s, q, may)
<1> DEFINE e == End(p, t)
<1>1. CASE Redraws(e, q, {})
  BY <1>1, RestSession
<1>2. CASE LoadIsCurrent(p, t)
  <2>1. t.sent = p.session /\ ~Signing(t)
    BY <1>2 DEF LoadIsCurrent, Signing
  <2>2. Active(p) /\ t.as # 0 /\ s.owner[t.as] = s.owner[p.jar]
    BY <2>1, CurrentActive
  <2>3. /\ SessionInv(s, e, may) /\ Active(e) /\ e.jar = p.jar /\ e.loadGen \in Nat
    BY <2>2, EndSession, EndFields, ShapeFields DEF Good, Kept
  <2>4. CASE Quits(e, q)
    BY <2>2, <2>4, QuitSession
  <2>5. CASE Remains(e, q, {"history"})
    <3>1. Grows(e, q, may)
      <4> HIDE DEF e
      <4>1. \A u \in q.tasks \ e.tasks : u.op = "history"
        BY <2>5 DEF Remains
      <4> QED
        BY <2>5, <4>1, RemainsGrows
    <3> QED
      BY <2>2, <3>1, GrowSession
  <2>6. CASE t.reply.status = "ok" /\ Shows(e, q, t.reply)
    <3>1. Said(s, t)
      BY DEF SessionInv, Cookies, Belongs
    <3>2. t.reply.user = s.owner[e.jar]
          /\ \A i \in DOMAIN t.reply.rows : t.reply.rows[i].board = t.reply.board
      BY <2>2, <2>3, <2>6, <3>1 DEF Said
    <3> HIDE DEF e
    <3> QED
      BY <2>3, <2>6, <3>2, ShowsKeeps
  <2> QED
    BY <1>2, <2>4, <2>5, <2>6 DEF Loaded
<1> QED
  BY <1>1, <1>2 DEF Loaded

(* Functions that change tickets go on in a session of an account only.    *)
LEMMA GoesOnActive ==
  ASSUME NEW s, NEW p, NEW may, Good(p, {}), SessionInv(s, p, may), Apart(may),
         NEW t \in p.tasks, ~Signing(t), GoesOn(p, t)
  PROVE  Active(p)
<1>1. CASE CurrentSessionGuard(p, t)
  BY <1>1, GuardedActive DEF CurrentSessionGuard
<1>2. CASE t.op \in {"promote", "create"}
  <2>1. t.op \in may
    BY <1>2 DEF SessionInv, Cookies
  <2> QED
    BY <1>2, <2>1, ApartActive DEF Apart
<1> QED
  BY <1>1, <1>2 DEF GoesOn

LEMMA WrittenSession ==
  ASSUME NEW s, NEW p, NEW q, NEW may, Good(p, {}), Good(q, {}), SessionInv(s, p, may), Apart(may),
         NEW t \in p.tasks, t.op \in Changers, t.url # "state", Written(p, q, t)
  PROVE  SessionInv(s, q, may)
<1> DEFINE e == End(p, t)
<1>1. ~Signing(t)
  BY UnderWay, SigningOps DEF Changers
<1>2. t.op \in may /\ t.op \notin {"login", "logout", "history"}
  BY DEF SessionInv, Cookies, Changers
<1>3. e.loadGen \in Nat
  BY EndFields, ShapeFields DEF Good
<1>4. CASE Loads(e, q, t) /\ GoesOn(p, t)
  <2>1. Active(p)
    BY <1>1, <1>4, GoesOnActive
  <2>2. Grows(e, q, may)
    <3> HIDE DEF e
    <3> QED
      BY <1>2, <1>3, <1>4, LoadsGrows
  <2> QED
    BY <2>1, <2>2, GrowSession
<1>5. CASE Continues(e, q, t) /\ GoesOn(p, t)
  <2>1. Active(p)
    BY <1>1, <1>5, GoesOnActive
  <2>2. Grows(e, q, may)
    <3> HIDE DEF e
    <3> QED
      BY <1>2, <1>5, ContinuesGrows
  <2> QED
    BY <2>1, <2>2, GrowSession
<1>6. CASE t.sent = p.session /\ Quits(e, q)
  BY <1>1, <1>6, CurrentActive, QuitSession
<1>7. CASE Redraws(e, q, {})
  BY <1>7, RestSession
<1> QED
  BY <1>4, <1>5, <1>6, <1>7 DEF Written

LEMMA AnsweredSession ==
  ASSUME NEW s, NEW p, NEW q, NEW may, Good(p, {}), Good(q, {}), SessionInv(s, p, may),
         NEW t \in p.tasks, t.op \in {"notification", "newBoard"}, t.url # "state",
         Answered(p, q, t, {t.op, "history"})
  PROVE  SessionInv(s, q, may)
<1> DEFINE e == End(p, t)
<1>1. ~Signing(t)
  BY UnderWay, SigningOps
<1>2. t.op \in may
  BY DEF SessionInv, Cookies
<1>3. CASE q = e
  BY <1>3, EndSession DEF Good
<1>4. CASE t.sent = p.session /\ Quits(e, q)
  BY <1>1, <1>4, CurrentActive, QuitSession
<1>5. CASE Remains(e, q, {t.op, "history"}) /\ CurrentSessionGuard(p, t)
  <2>1. Active(p)
    BY <1>1, <1>5, GuardedActive DEF CurrentSessionGuard
  <2>2. Grows(e, q, may)
    <3> HIDE DEF e
    <3>1. \A u \in q.tasks \ e.tasks : u.op \in {t.op, "history"}
      BY <1>5 DEF Remains
    <3> QED
      BY <1>2, <1>5, <3>1, RemainsGrows
  <2> QED
    BY <2>1, <2>2, GrowSession
<1> QED
  BY <1>3, <1>4, <1>5 DEF Answered

LEMMA HistorySession ==
  ASSUME NEW s, NEW p, NEW q, NEW may, Good(p, {}), Good(q, {}), SessionInv(s, p, may),
         NEW t \in p.tasks, t.op = "history", t.url # "state",
         \/ Redraws(End(p, t), q, {})
         \/ ShowsHistory(p, q, t)
         \/ t.sent = p.session /\ Quits(End(p, t), q)
  PROVE  SessionInv(s, q, may)
<1> DEFINE e == End(p, t)
<1>1. ~Signing(t) /\ t.url = "history"
  <2>1. <<t.op, t.url>> \in Calls
    BY UnderWay DEF TaskShape
  <2> QED
    BY <2>1 DEF Calls, Signing
<1>2. CASE Redraws(e, q, {})
  BY <1>2, RestSession
<1>3. CASE t.sent = p.session /\ Quits(e, q)
  BY <1>1, <1>3, CurrentActive, QuitSession
<1>4. CASE ShowsHistory(p, q, t)
  <2>1. Active(p) /\ s.owner[t.as] = s.owner[p.jar]
    BY <1>1, <1>4, GuardedActive DEF ShowsHistory
  <2>2. t.reply.user = s.owner[t.as]
    BY <1>1, <1>4 DEF SessionInv, Cookies, Belongs, Said, ShowsHistory
  <2>3. SessionInv(s, e, may) /\ e.jar = p.jar /\ e.board = p.board
    BY EndSession, EndFields DEF Good, Kept
  <2> HIDE DEF e
  <2>4. /\ q.tasks = e.tasks /\ q.me = e.me /\ q.board = e.board /\ q.jar = e.jar
        /\ q.rows = e.rows /\ q.notes = e.notes /\ q.session = e.session
        /\ q.panel = e.panel /\ q.locked = e.locked
        /\ q.history = [user |-> t.reply.user, board |-> t.board] /\ t.board = p.board
    BY <1>4 DEF ShowsHistory, Changes, PageFields, e
  <2>5. \A u \in q.tasks : u.op \in may \union {"load", "history"} /\ Belongs(s, q, u)
    BY <2>3, <2>4 DEF SessionInv, Cookies, Belongs, Current
  <2>6. Cookies(s, q, may)
    BY <2>3, <2>4, <2>5 DEF SessionInv, Cookies
  <2>7. Shown(s, q)
    BY <2>1, <2>2, <2>3, <2>4 DEF SessionInv, Shown
  <2> QED
    BY <2>6, <2>7 DEF SessionInv
<1> QED
  BY <1>2, <1>3, <1>4

LEMMA PollSession ==
  ASSUME NEW s, NEW p, NEW q, NEW may, Good(p, {}), Good(q, {}), SessionInv(s, p, may),
         NEW t \in p.tasks, t.op = "poll", t.url # "state",
         \/ Redraws(End(p, t), q, {})
         \/ Notifies(p, q, t)
         \/ t.sent = p.session /\ Quits(End(p, t), q)
  PROVE  SessionInv(s, q, may)
<1> DEFINE e == End(p, t)
<1>1. ~Signing(t) /\ t.url = "notifications"
  <2>1. <<t.op, t.url>> \in Calls
    BY UnderWay DEF TaskShape
  <2> QED
    BY <2>1 DEF Calls, Signing
<1>2. CASE Redraws(e, q, {})
  BY <1>2, RestSession
<1>3. CASE t.sent = p.session /\ Quits(e, q)
  BY <1>1, <1>3, CurrentActive, QuitSession
<1>4. CASE Notifies(p, q, t)
  <2>1. Active(p) /\ s.owner[t.as] = s.owner[p.jar]
    BY <1>1, <1>4, GuardedActive DEF Notifies
  <2>2. t.reply.user = s.owner[t.as]
    BY <1>1, <1>4 DEF SessionInv, Cookies, Belongs, Said, Notifies
  <2>3. SessionInv(s, e, may) /\ e.jar = p.jar
    BY EndSession, EndFields DEF Good, Kept
  <2> HIDE DEF e
  <2>4. /\ q.tasks = e.tasks /\ q.me = e.me /\ q.board = e.board /\ q.jar = e.jar
        /\ q.rows = e.rows /\ q.history = e.history /\ q.session = e.session
        /\ q.panel = e.panel /\ q.locked = e.locked
        /\ q.notes = t.reply.user
    BY <1>4 DEF Notifies, Changes, PageFields, e
  <2>5. \A u \in q.tasks : u.op \in may \union {"load", "history"} /\ Belongs(s, q, u)
    BY <2>3, <2>4 DEF SessionInv, Cookies, Belongs, Current
  <2>6. Cookies(s, q, may)
    BY <2>3, <2>4, <2>5 DEF SessionInv, Cookies
  <2>7. Shown(s, q)
    BY <2>1, <2>2, <2>3, <2>4 DEF SessionInv, Shown
  <2> QED
    BY <2>6, <2>7 DEF SessionInv
<1> QED
  BY <1>2, <1>3, <1>4

(* A login is answered.                                                    *)
LEMMA LoginSession ==
  ASSUME NEW s, NEW p, NEW q, NEW may, Good(p, {}), Good(q, {}), SessionInv(s, p, may), NEW t \in p.tasks,
         t.op = "login", t.url # "state", 0 \notin DOMAIN s.owner, SignsIn(p, q, t)
  PROVE  SessionInv(s, q, may)
<1> DEFINE e == End(p, t)
<1>1. Signing(t) /\ t.url = "login"
  <2>1. <<t.op, t.url>> \in Calls
    BY UnderWay DEF TaskShape
  <2> QED
    BY <2>1 DEF Calls, Signing
<1>2. /\ SessionInv(s, e, may) /\ PageShape(e) /\ t.session = p.session /\ Current(e) = {}
      /\ e.me = 0 /\ (\A u \in e.tasks : ~Signing(u))
  BY <1>1, EndSession, EndFields DEF Good, Kept
<1> HIDE DEF e
<1>3. t.op \in may /\ (t.reply.status = "ok" => t.reply.made \in DOMAIN s.owner)
  BY <1>1 DEF SessionInv, Cookies, Belongs, Said
<1>4. CASE t.reply.status # "ok"
  BY <1>2, <1>4 DEF SignsIn, e
<1>5. CASE t.reply.status = "ok"
  <2>1. PICK x : /\ PageShape(x) /\ Changes(e, x, {"jar"}) /\ x.jar = t.reply.made
                 /\ t.session = p.session => Loads(x, q, t)
    BY <1>2, <1>5 DEF SignsIn, e
  <2>2. Changes(e, x, {"jar", "locked"}) /\ x.locked = e.locked /\ x.tasks = e.tasks
    BY <2>1 DEF Changes, PageFields
  <2>3. x.jar \in DOMAIN s.owner /\ x.jar # 0
    BY <1>3, <1>5, <2>1
  <2>4. SessionInv(s, x, may)
    BY <1>2, <2>2, <2>3, JarSession
  <2>5. Active(x)
    BY <1>2, <2>2, <2>3 DEF Active
  <2>6. Grows(x, q, may)
    BY <1>2, <1>3, <2>1, LoadsGrows, ShapeFields
  <2> QED
    BY <2>4, <2>5, <2>6, GrowsKeeps
<1> QED
  BY <1>4, <1>5

(* A new password is answered.                                             *)
LEMMA PasswordSession ==
  ASSUME NEW s, NEW p, NEW q, NEW may, Good(p, {}), Good(q, {}), SessionInv(s, p, may), Apart(may),
         NEW t \in p.tasks, t.op = "password", t.url # "state", 0 \notin DOMAIN s.owner,
         SignsAgain(p, q, t)
  PROVE  SessionInv(s, q, may)
<1> DEFINE e == End(p, t)
<1>1. ~Signing(t) /\ t.url = "password"
  <2>1. <<t.op, t.url>> \in Calls
    BY UnderWay DEF TaskShape
  <2> QED
    BY <2>1 DEF Calls, Signing
<1>2. t.op \in may /\ (t.reply.status = "ok" => t.reply.made \in DOMAIN s.owner)
  BY <1>1 DEF SessionInv, Cookies, Belongs, Said
<1>3. "login" \notin may
  BY <1>2 DEF Apart
<1>4. SessionInv(s, e, may) /\ PageShape(e) /\ (Active(p) => Active(e))
  BY EndSession DEF Good
<1>5. CASE t.sent = p.session /\ Quits(e, q)
  BY <1>1, <1>5, CurrentActive, QuitSession
<1>6. ASSUME NEW x, PageShape(x), Changes(e, x, {"jar"}), x.jar = t.reply.made,
             t.reply.status = "ok"
      PROVE  SessionInv(s, x, may) /\ x.tasks = e.tasks /\ x.session = e.session
             /\ (Active(e) => Active(x))
  <2> HIDE DEF e
  <2>2. Changes(e, x, {"jar", "locked"}) /\ x.locked = e.locked /\ x.tasks = e.tasks
        /\ x.session = e.session
    BY <1>6 DEF Changes, PageFields
  <2>3. x.jar \in DOMAIN s.owner /\ x.jar # 0
    BY <1>2, <1>6
  <2>4. SessionInv(s, x, may)
    BY <1>3, <1>4, <2>2, <2>3, JarSession
  <2> QED
    BY <2>2, <2>3, <2>4 DEF Active
<1>7. \A u \in e.tasks : u.sent \in Nat /\ u.sent <= p.session
  <2>1. e.tasks \subseteq p.tasks
    BY EndFields DEF Good
  <2> HIDE DEF e
  <2> QED
    BY <2>1, UnderWay DEF TaskShape, Good, TasksOK
<1>8. e.session = p.session
  BY EndFields DEF Good, Kept
<1>9. ASSUME NEW x, PageShape(x), Changes(e, x, {"jar"}), x.jar = t.reply.made,
             t.reply.status = "ok", t.session = p.session,
             Loads(InvalidateSessionRequests(x), q, t)
      PROVE  SessionInv(s, q, may)
  <2> DEFINE n == InvalidateSessionRequests(x)
  <2>1. Active(p)
    BY <1>1, <1>9, GuardedActive
  <2> HIDE DEF e
  <2>2. SessionInv(s, x, may) /\ Active(x) /\ \A u \in x.tasks : u.sent \in Nat /\ u.sent <= x.session
    BY <1>4, <1>6, <1>7, <1>8, <1>9, <2>1
  <2>3. SessionInv(s, n, may) /\ Active(n) /\ PageShape(n)
    BY <1>9, <2>2, InvalidateSession
  <2>4. n.loadGen \in Nat
    BY <2>3, ShapeFields
  <2> HIDE DEF n
  <2>5. Loads(n, q, t)
    BY <1>9 DEF n
  <2>6. Grows(n, q, may)
    BY <1>2, <2>4, <2>5, LoadsGrows
  <2> QED
    BY <2>3, <2>6, GrowsKeeps
<1> HIDE DEF e
<1>10. CASE q = e
  BY <1>4, <1>10
<1>11. \/ q = e
       \/ t.sent = p.session /\ Quits(e, q)
       \/ t.reply.status = "ok" /\
            \E x : /\ PageShape(x) /\ Changes(e, x, {"jar"}) /\ x.jar = t.reply.made
                  /\ (q = x \/ (t.session = p.session /\ Loads(InvalidateSessionRequests(x), q, t)))
  BY DEF SignsAgain, e
<1>12. ASSUME NEW x, t.reply.status = "ok", PageShape(x), Changes(e, x, {"jar"}), x.jar = t.reply.made,
              q = x \/ (t.session = p.session /\ Loads(InvalidateSessionRequests(x), q, t))
       PROVE  SessionInv(s, q, may)
  BY <1>6, <1>9, <1>12
<1>13. CASE t.sent = p.session /\ Quits(e, q)
  BY <1>5, <1>13 DEF e
<1> QED
  BY <1>10, <1>11, <1>12, <1>13

(* A logout is answered.                                                   *)
LEMMA LogoutSession ==
  ASSUME NEW s, NEW p, NEW q, NEW may, Good(p, {}), SessionInv(s, p, may), NEW t \in p.tasks,
         t.op = "logout", SignsOut(p, q, t)
  PROVE  SessionInv(s, q, may)
<1> DEFINE e == End(p, t)
<1>1. Signing(t)
  <2>1. TaskShape(t)
    BY UnderWay
  <2>2. t.op \notin LoadOnly \union Binders
    BY DEF LoadOnly, Binders, EditorOps
  <2>3. <<t.op, t.url>> \in Calls
    BY <2>1, <2>2 DEF TaskShape
  <2> QED
    BY <2>3 DEF Calls, Signing
<1>2. /\ SessionInv(s, e, may) /\ Current(e) = {}
      /\ e.me = 0 /\ (\A u \in e.tasks : ~Signing(u)) /\ e.jar = p.jar
  BY <1>1, EndSession, EndFields DEF Good, Kept
<1> HIDE DEF e
<1>3. Changes(e, q, {"jar", "locked"}) /\ q.jar \in {0, p.jar}
  BY DEF SignsOut, e
<1>4. "logout" \in may
  BY DEF SessionInv, Cookies
<1>5. q.jar \in DOMAIN s.owner \union {0}
  BY <1>3 DEF SessionInv, Cookies
<1>6. \A u \in e.tasks : u.url # "logout"
  BY <1>2 DEF Signing
<1> QED
  BY <1>2, <1>3, <1>4, <1>5, <1>6, JarSession

LEMMA SessionResume ==
  ASSUME FrontendInv, FrontendInv', SessionInv(store, page, user.may), Apart(user.may), Resume
  PROVE  SessionInv(store', page', user'.may)
<1>1. Good(page, {}) /\ StoreOK(store) /\ Good(page', {})
  BY DEF FrontendInv, Good, PageShape, TasksOK, IdsUnique, WritersBind, Alive, EditorHolds, MutationRuns, QueueWaits, HasText, DraftRests
<1>2. 0 \notin DOMAIN store.owner
  BY <1>1, StoreShape
<1>3. ASSUME NEW q, Resumes(q)
      PROVE  q = page' /\ store' = store /\ user' = user
  BY <1>3 DEF Resumes
<1>4. CASE ResumeLoad
  <2>1. PICK t \in page.tasks : t.url = "state" /\ t.reply.status # "none"
                                /\ Resumes(AfterLoad(page, t))
    BY <1>4 DEF ResumeLoad
  <2>2. Loaded(page, AfterLoad(page, t), t)
    BY <1>1, <2>1, AfterLoadLoaded
  <2>3. AfterLoad(page, t) = page' /\ store' = store /\ user' = user
    BY <1>3, <2>1
  <2> QED
    BY <1>1, <2>1, <2>2, <2>3, LoadedSession
<1>5. ASSUME NEW t \in page.tasks, NEW q, Resumes(q), t.op \in Changers, t.url # "state",
             Written(page, q, t)
      PROVE  SessionInv(store', page', user'.may)
  BY <1>1, <1>3, <1>5, WrittenSession
<1>6. CASE ResumeEditor
  <2>1. PICK t \in page.tasks :
          /\ t.url # "state" /\ t.reply.status # "none"
          /\ \/ t.op = "save" /\ Resumes(SaveDrawer(page, t))
             \/ t.op = "comment" /\ Resumes(AddComment(page, t))
             \/ t.op \in {"trash", "duplicate"} /\ Resumes(TaskDrawerAction(page, t))
    BY <1>6 DEF ResumeEditor, Arrived
  <2>2. <<t.op, t.url>> \in Calls
    BY <1>1, <2>1, UnderWay DEF TaskShape
  <2>3. t.op \in Changers
    BY <2>1 DEF Changers
  <2> QED
    BY <1>1, <1>5, <2>1, <2>2, <2>3, SaveWritten, CommentWritten, ActionWritten
<1>7. CASE ResumeBoard
  <2>1. PICK t \in page.tasks :
          /\ t.url # "state" /\ t.reply.status # "none"
          /\ \/ t.op = "move" /\ Resumes(MoveBoardTicket(page, t))
             \/ t.op = "epic" /\ Resumes(ChangeEpicCompletion(page, t))
             \/ t.op = "promote" /\ Resumes(PromoteBacklogTicket(page, t))
             \/ t.op = "create" /\ Resumes(CreateTicket(page, t))
             \/ t.op = "restore" /\ Resumes(RestoreTask(page, t))
             \/ t.op = "import" /\ Resumes(ImportBoardFile(page, t))
    BY <1>7 DEF ResumeBoard, Arrived
  <2>2. t.op \in Changers
    BY <2>1 DEF Changers
  <2>3. CASE t.url = "file" /\ t.reply.status = "denied" /\ t.op = "import"
    <3>1. Resumes(ImportBoardFile(page, t))
      BY <2>1, <2>3
    <3>2. ImportBoardFile(page, t) = End(page, t)
      BY <2>3 DEF ImportBoardFile, Succeeded
    <3>3. page' = End(page, t) /\ store' = store /\ user' = user
      BY <1>3, <3>1, <3>2
    <3> QED
      BY <1>1, <3>3, EndSession DEF Good
  <2>4. CASE ~(t.url = "file" /\ t.reply.status = "denied" /\ t.op = "import")
    <3>1. t.op = "import" /\ t.url = "file" => t.reply.status # "denied"
      BY <2>4
    <3> QED
      BY <1>1, <1>5, <2>1, <2>2, <3>1, MoveWritten, EpicWritten, PromoteWritten, CreateWritten, ImportWritten
  <2> QED
    BY <2>3, <2>4
<1>8. CASE ResumePage
  <2>1. PICK t \in page.tasks :
          /\ t.url # "state" /\ t.reply.status # "none"
          /\ \/ t.op = "notification" /\ Resumes(OpenNotification(page, t))
             \/ t.op = "newBoard" /\ Resumes(CreateBoard(page, t))
             \/ t.op = "login" /\ Resumes(Login(page, t))
             \/ t.op = "logout" /\ Resumes(Logout(page, t))
             \/ t.op = "history" /\ Resumes(ShowHistory(page, t))
             \/ t.op = "poll" /\ Resumes(RefreshNotifications(page, t))
             \/ t.op = "password" /\ Resumes(SavePassword(page, t))
    BY <1>8 DEF ResumePage, Arrived
  <2>2. CASE t.op = "notification"
    <3>1. Resumes(OpenNotification(page, t))
      BY <2>1, <2>2
    <3>2. Answered(page, page', t, {"notification", "history"}) /\ store' = store /\ user' = user
      BY <1>1, <1>3, <2>1, <2>2, <3>1, NotificationAnswered
    <3> QED
      BY <1>1, <2>1, <2>2, <3>2, AnsweredSession
  <2>3. CASE t.op = "newBoard"
    <3>1. Resumes(CreateBoard(page, t))
      BY <2>1, <2>3
    <3>2. Answered(page, page', t, {"newBoard", "history"}) /\ store' = store /\ user' = user
      BY <1>1, <1>3, <2>1, <2>3, <3>1, NewBoardAnswered
    <3> QED
      BY <1>1, <2>1, <2>3, <3>2, AnsweredSession
  <2>4. CASE t.op = "login"
    <3>1. Resumes(Login(page, t))
      BY <2>1, <2>4
    <3>2. SignsIn(page, page', t) /\ store' = store /\ user' = user
      BY <1>1, <1>3, <2>1, <2>4, <3>1, LoginAnswered
    <3> QED
      BY <1>1, <1>2, <2>1, <2>4, <3>2, LoginSession
  <2>5. CASE t.op = "logout"
    <3>1. Resumes(Logout(page, t))
      BY <2>1, <2>5
    <3>2. SignsOut(page, page', t) /\ store' = store /\ user' = user
      BY <1>1, <1>3, <2>1, <2>5, <3>1, LogoutAnswered
    <3> QED
      BY <1>1, <2>1, <2>5, <3>2, LogoutSession
  <2>6. CASE t.op = "password"
    <3>1. Resumes(SavePassword(page, t))
      BY <2>1, <2>6
    <3>2. SignsAgain(page, page', t) /\ store' = store /\ user' = user
      BY <1>1, <1>3, <2>1, <2>6, <3>1, PasswordAnswered
    <3> QED
      BY <1>1, <1>2, <2>1, <2>6, <3>2, PasswordSession
  <2>7. CASE t.op = "history"
    <3> DEFINE q == ShowHistory(page, t)
    <3>1. Resumes(q)
      BY <2>1, <2>7
    <3>2. \/ Redraws(End(page, t), q, {})
          \/ ShowsHistory(page, q, t)
          \/ t.sent = page.session /\ Quits(End(page, t), q)
      BY <1>1, <2>7, HistoryAnswered
    <3>3. q = page' /\ store' = store /\ user' = user
      BY <1>3, <3>1
    <3> HIDE DEF q
    <3> QED
      BY <1>1, <2>1, <2>7, <3>2, <3>3, HistorySession
  <2>8. CASE t.op = "poll"
    <3> DEFINE q == RefreshNotifications(page, t)
    <3>1. Resumes(q)
      BY <2>1, <2>8
    <3>2. \/ Redraws(End(page, t), q, {})
          \/ Notifies(page, q, t)
          \/ t.sent = page.session /\ Quits(End(page, t), q)
      BY <1>1, <2>8, PollAnswered
    <3>3. q = page' /\ store' = store /\ user' = user
      BY <1>3, <3>1
    <3> HIDE DEF q
    <3> QED
      BY <1>1, <2>1, <2>8, <3>2, <3>3, PollSession
  <2> QED
    BY <2>1, <2>2, <2>3, <2>4, <2>5, <2>6, <2>7, <2>8
<1> QED
  BY <1>4, <1>6, <1>7, <1>8 DEF Resume

-----------------------------------------------------------------------------
(* The user's handlers, as far as the account goes.                        *)

LEMMA GrowsFrom ==
  ASSUME NEW p, NEW m, NEW q, NEW may, NEW F, Changes(p, m, F), Grows(m, q, may),
         F \subseteq {"selected", "view", "queued", "loadGen", "editGen", "editing", "clone",
                      "mutation", "draft", "base"}
  PROVE  Grows(p, q, may)
<1>1. /\ m.me = p.me /\ m.board = p.board /\ m.rows = p.rows /\ m.notes = p.notes
      /\ m.session = p.session /\ m.jar = p.jar /\ m.panel = p.panel /\ m.locked = p.locked
      /\ m.history = p.history /\ m.tasks = p.tasks
  BY DEF Changes, PageFields
<1> QED
  BY <1>1 DEF Grows

(* A login or logout begins another session of the page.                   *)
LEMMA SignSession ==
  ASSUME NEW s, NEW p, NEW q, NEW may, NEW u, SessionInv(s, p, may), p.session \in Nat,
         \A t \in p.tasks : ~Signing(t) /\ t.sent \in Nat /\ t.sent <= p.session,
         q.session = p.session + 1, q.jar = p.jar, q.me = 0, q.tasks = p.tasks \union {u},
         u.sent = q.session, u.session = q.session, u.as = q.jar, u.reply = NoReply,
         u.op \in may, Signing(u), u.url = "logout" => q.locked
  PROVE  SessionInv(s, q, may)
<1>1. \A t \in p.tasks : t.sent # q.session
  OBVIOUS
<1>2. Current(q) = {u}
  BY <1>1 DEF Current
<1>3. p.jar \in DOMAIN s.owner \union {0}
  BY DEF SessionInv, Cookies
<1>4. ASSUME NEW t \in q.tasks
      PROVE  t.op \in may \union {"load", "history"} /\ Belongs(s, q, t)
  <2>1. CASE t = u
    <3>1. u.session <= u.sent /\ u.reply.status = "none"
      BY DEF NoReply
    <3> QED
      BY <1>2, <1>3, <2>1, <3>1 DEF Belongs, Said
  <2>2. CASE t # u
    <3>1. Belongs(s, p, t) /\ ~Signing(t) /\ t.op \in may \union {"load", "history"} /\ t \in p.tasks
      BY <2>2 DEF SessionInv, Cookies
    <3> QED
      BY <1>1, <3>1 DEF Belongs, Signing
  <2> QED
    BY <2>1, <2>2
<1>5. Cookies(s, q, may)
  BY <1>3, <1>4 DEF SessionInv, Cookies
<1> QED
  BY <1>5 DEF SessionInv, Shown

LEMMA ChooseGrows ==
  ASSUME FrontendInv, Good(page', {}), NEW b \in BoardIds, ChooseBoard(b), NEW may
  PROVE  Grows(page, page', may)
<1> DEFINE d == ResetDrawer(page)
           m == [d EXCEPT !.selected = b]
<1>0. PageShape(page)
  BY DEF FrontendInv, Good
<1>1. page' = LoadNow(m)
  BY DEF ChooseBoard
<1>2. PageShape(d) /\ Changes(page, d, {"editGen", "editing", "clone", "mutation", "draft", "base", "queued"})
  BY <1>0, ResetDrawerFrame
<1> HIDE DEF d
<1>3. Changes(d, m, {"selected"}) /\ m.selected = b
  BY <1>2 DEF PageShape, IsPage, PageFields, Changes
<1> HIDE DEF m
<1>4. PageShape(m)
  BY <1>2, <1>3, ChangedShape DEF FieldOK
<1>5. PICK t : t.op = "load" /\ Loads(m, page', t)
  BY <1>1, <1>4, LoadNowLoads
<1>6. Grows(m, page', may)
  BY <1>4, <1>5, LoadsGrows, ShapeFields
<1> QED
  BY <1>2, <1>3, <1>6, GrowsFrom

LEMMA RouteGrows ==
  ASSUME FrontendInv, Good(page', {}), NEW r \in Routes, ApplyRoute(r), NEW may
  PROVE  Grows(page, page', may)
<1> DEFINE board == IF r.board # 0 THEN r.board
                    ELSE IF page.board # 0 THEN page.board ELSE page.selected
           d == ResetDrawer(page)
           gen == IF board # page.selected THEN d.loadGen + 1 ELSE d.loadGen
           m == [d EXCEPT !.loadGen = gen, !.selected = board, !.view = r.view,
                          !.queued = r.ticket]
           F == {"loadGen", "selected", "view", "queued"}
<1>0. PageShape(page) /\ Good(page, {})
  BY DEF FrontendInv, Good
<1>1. page' \in {LoadNow(m), Render(m)}
  BY DEF ApplyRoute
<1>2. PageShape(d) /\ Changes(page, d, {"editGen", "editing", "clone", "mutation", "draft", "base", "queued"})
  BY <1>0, ResetDrawerFrame
<1>3. board \in BoardIds \union {0}
  BY <1>0, RouteTypes, ShapeFields
<1> HIDE DEF d, board
<1>4. gen \in Nat
  BY <1>2, ShapeFields
<1> HIDE DEF gen
<1>5. /\ Changes(d, m, F) /\ m.loadGen = gen /\ m.selected = board /\ m.view = r.view
      /\ m.queued = r.ticket
  BY <1>2 DEF PageShape, IsPage, PageFields, Changes
<1> HIDE DEF m
<1>6. \A f \in F : FieldOK(f, m[f])
  BY <1>3, <1>4, <1>5, RouteTypes DEF FieldOK
<1>7. F \intersect (Core \ {"queued"}) = {}
  BY DEF Core
<1>8. Good(m, {})
  BY <1>0, <1>5, <1>6, <1>7, Prepared DEF d
<1>9. PageShape(m) /\ m.loadGen \in Nat
  BY <1>8, GoodGenerations
<1>10. ASSUME page' = LoadNow(m)
       PROVE  Grows(m, page', may)
  <2>1. PICK t : t.op = "load" /\ Loads(m, page', t)
    BY <1>9, <1>10, LoadNowLoads
  <2> QED
    BY <1>9, <2>1, LoadsGrows
<1>11. ASSUME page' = Render(m)
       PROVE  Grows(m, page', may)
  <2>1. Redraws(m, page', {"history"})
    BY <1>8, <1>11, RedrawsRender
  <2> QED
    BY <1>9, <2>1, RedrawsGrows
<1>12. Grows(m, page', may)
  BY <1>1, <1>10, <1>11
<1> QED
  BY <1>2, <1>5, <1>12, GrowsFrom

LEMMA NotificationGrows ==
  ASSUME FrontendInv, Good(page', {}), NEW i \in Ids, ClickNotification(i), NEW may,
         "notification" \in may
  PROVE  Grows(page, page', may)
<1> DEFINE d == ResetDrawer(page)
           b == store.rows[i].board
           m == [d EXCEPT !.selected = b, !.queued = i, !.view = "board",
                          !.loadGen = d.loadGen + 1]
           t == Task("notification", "read")
           F == {"selected", "queued", "view", "loadGen"}
<1>0. PageShape(page) /\ StoreOK(store)
  BY DEF FrontendInv, Good
<1>1. page' = Send(m, t) /\ i \in DOMAIN store.rows
  BY DEF ClickNotification
<1>2. PageShape(d) /\ Changes(page, d, {"editGen", "editing", "clone", "mutation", "draft", "base", "queued"})
  BY <1>0, ResetDrawerFrame
<1>3. b \in BoardIds \union {0}
  BY <1>0, <1>1, StoreShape DEF IsRows, Stored, Row
<1> HIDE DEF d, b
<1>4. d.loadGen + 1 \in Nat
  BY <1>2, ShapeFields
<1>5. /\ Changes(d, m, F) /\ m.selected = b /\ m.queued = i /\ m.view = "board"
      /\ m.loadGen = d.loadGen + 1
  BY <1>2 DEF PageShape, IsPage, PageFields, Changes
<1> HIDE DEF m
<1>6. \A f \in F : FieldOK(f, m[f])
  BY <1>3, <1>4, <1>5 DEF FieldOK, Views
<1>7. PageShape(m) /\ m.loadGen \in Nat
  BY <1>2, <1>4, <1>5, <1>6, ChangedShape
<1>8. IsTask(t) /\ t.reply = NoReply /\ t.url = "read" /\ t.op = "notification"
  BY TaskStarts
<1> HIDE DEF t
<1>9. Redraws(m, page', {"notification"})
  BY <1>1, <1>7, <1>8, SendStarts
<1>10. Grows(m, page', may)
  BY <1>7, <1>9, RedrawsGrows
<1> QED
  BY <1>2, <1>5, <1>10, GrowsFrom

LEMMA NewBoardGrows ==
  ASSUME FrontendInv, Good(page', {}), ClickCreateBoard, NEW may, "newBoard" \in may
  PROVE  Grows(page, page', may)
<1> DEFINE d == ResetDrawer(page)
           t == Task("newBoard", "board")
<1>0. PageShape(page)
  BY DEF FrontendInv, Good
<1>1. page' = Send(d, t)
  BY DEF ClickCreateBoard
<1>2. PageShape(d) /\ Changes(page, d, {"editGen", "editing", "clone", "mutation", "draft", "base", "queued"})
  BY <1>0, ResetDrawerFrame
<1> HIDE DEF d
<1>8. IsTask(t) /\ t.reply = NoReply /\ t.url = "board" /\ t.op = "newBoard"
  BY TaskStarts
<1> HIDE DEF t
<1>9. Redraws(d, page', {"newBoard"})
  BY <1>1, <1>2, <1>8, SendStarts
<1>10. Grows(d, page', may)
  BY <1>2, <1>9, RedrawsGrows, ShapeFields
<1> QED
  BY <1>2, <1>10, GrowsFrom

LEMMA LogoutClicked ==
  ASSUME FrontendInv, UserOK(user), SessionInv(store, page, user.may), ClickLogout
  PROVE  SessionInv(store, page', user.may)
<1> DEFINE r == ShowLoggedOut(page)
           t == Task("logout", "logout")
           u == Sent(r, t)
           s == Send(r, t)
           q == [s EXCEPT !.locked = TRUE]
<1>1. page' = q /\ Does("logout") /\ page.me # 0
  BY DEF ClickLogout, SignedIn
<1>2. Good(page, {}) /\ PageShape(page) /\ page.session \in Nat
  BY ShapeFields DEF FrontendInv, Good
<1>3. PageShape(r) /\ Quits(page, r)
  BY <1>2, LoggedOutQuits, GoodLoggedOut DEF Good
<1>4. r.session = page.session + 1 /\ r.jar = page.jar /\ r.me = 0 /\ r.tasks = page.tasks
  BY <1>3 DEF Quits
<1>5. IsTask(t) /\ t.op = "logout" /\ t.url = "logout" /\ t.reply = NoReply
  BY TaskStarts
<1> HIDE DEF t, r
<1>6. /\ u.op = t.op /\ u.url = t.url /\ u.reply = t.reply /\ u.as = r.jar
      /\ u.sent = r.session /\ u.session = r.session
  BY <1>5 DEF Sent, IsTask, TaskFields
<1>7. Changes(r, s, {"tasks", "serial"}) /\ s.tasks = r.tasks \union {u}
  BY <1>3, SendChanges
<1> HIDE DEF u, s
<1>8. /\ q.session = s.session /\ q.jar = s.jar /\ q.me = s.me /\ q.tasks = s.tasks /\ q.locked = TRUE
      /\ s.session = r.session /\ s.jar = r.jar /\ s.me = r.me
  BY <1>7 DEF Changes, IsPage, PageFields
<1> HIDE DEF q
<1>9. Active(page)
  BY <1>1, SignedInActive
<1>10. \A v \in page.tasks : ~Signing(v) /\ v.sent \in Nat /\ v.sent <= page.session
  BY <1>2, <1>9, UnderWay DEF TaskShape, Good, TasksOK, Active
<1>11. Signing(u) /\ u.op \in user.may
  BY <1>1, <1>5, <1>6, DoesFields DEF Signing
<1> QED
  BY <1>1, <1>2, <1>4, <1>5, <1>6, <1>7, <1>8, <1>10, <1>11, SignSession

LEMMA LoginClicked ==
  ASSUME FrontendInv, UserOK(user), SessionInv(store, page, user.may),
         NEW a \in Users, NEW r \in Routes, ClickLogin(a, r)
  PROVE  SessionInv(store, page', user.may)
<1> DEFINE d == ResetDrawer(InvalidateSessionRequests(page))
           b == IF r.board # 0 THEN r.board ELSE d.selected
           m == [d EXCEPT !.selected = b, !.queued = r.ticket, !.view = r.view]
           w == Task("login", "login")
           t == [w EXCEPT !.ask = a]
           u == Sent(m, t)
<1>1. page' = Send(m, t) /\ Does("login") /\ page.panel /\ ~page.locked
      /\ \A v \in page.tasks : v.op # "login"
  BY DEF ClickLogin
<1>2. Good(page, {}) /\ PageShape(page) /\ page.session \in Nat
  BY ShapeFields DEF FrontendInv, Good
<1>3. /\ Good(d, {}) /\ d.session = page.session + 1 /\ d.tasks = page.tasks
      /\ d.jar = page.jar /\ d.me = page.me
  <2> DEFINE n == InvalidateSessionRequests(page)
  <2>1. PageShape(n) /\ n.jar = page.jar /\ n.me = page.me
    BY <1>2, InvalidateFrame DEF Changes, PageFields
  <2> HIDE DEF n
  <2>2. ResetDrawer(n).jar = n.jar /\ ResetDrawer(n).me = n.me
    BY <2>1, ResetDrawerFrame DEF Changes, PageFields
  <2> QED
    BY <1>2, <2>1, <2>2, GoodLeave DEF n
<1>4. IsTask(w) /\ w.op = "login" /\ w.url = "login" /\ w.reply = NoReply
  BY TaskStarts
<1> HIDE DEF d, w
<1>5. IsTask(t) /\ t.op = "login" /\ t.url = "login" /\ t.reply = NoReply
  BY <1>4 DEF IsTask, TaskFields
<1>6. b \in BoardIds \union {0}
  BY <1>3, RouteTypes, ShapeFields DEF Good
<1> HIDE DEF b, t
<1>7. /\ Changes(d, m, {"selected", "queued", "view"})
      /\ m.selected = b /\ m.queued = r.ticket /\ m.view = r.view
  BY <1>3 DEF Good, PageShape, IsPage, PageFields, Changes
<1> HIDE DEF m
<1>8. PageShape(m)
  BY <1>3, <1>6, <1>7, RouteTypes, ChangedShape DEF Good, FieldOK
<1>9. m.session = d.session /\ m.jar = d.jar /\ m.me = d.me /\ m.tasks = d.tasks
  BY <1>7 DEF Changes, PageFields
<1>10. /\ u.op = t.op /\ u.url = t.url /\ u.reply = t.reply /\ u.as = m.jar
       /\ u.sent = m.session /\ u.session = m.session
  BY <1>5 DEF Sent, IsTask, TaskFields
<1>11. Changes(m, page', {"tasks", "serial"}) /\ page'.tasks = m.tasks \union {u}
  BY <1>1, <1>8, SendChanges
<1> HIDE DEF u
<1>12. page'.session = m.session /\ page'.jar = m.jar /\ page'.me = m.me
  BY <1>11 DEF Changes, PageFields
<1>13. page.me = 0
  BY <1>1 DEF SessionInv, Cookies
<1>14. ASSUME NEW v \in page.tasks
       PROVE  ~Signing(v) /\ v.sent \in Nat /\ v.sent <= page.session
  <2>1. v.url # "logout"
    BY <1>1 DEF SessionInv, Cookies, Belongs
  <2>2. v.url # "login"
    <3>1. TaskShape(v) /\ v.op # "login"
      BY <1>1, <1>2, UnderWay
    <3>2. <<v.op, v.url>> \in Calls \/ v.url = "state"
      BY <3>1 DEF TaskShape
    <3> QED
      BY <3>1, <3>2 DEF Calls
  <2> QED
    BY <1>2, <2>1, <2>2, UnderWay DEF Signing, TaskShape, Good, TasksOK
<1>15. Signing(u) /\ u.op \in user.may /\ u.url # "logout"
  BY <1>1, <1>5, <1>10, DoesFields DEF Signing
<1> QED
  BY <1>2, <1>3, <1>5, <1>9, <1>10, <1>11, <1>12, <1>13, <1>14, <1>15, SignSession

AccountInv == UserOK(user) /\ Apart(user.may) /\ SessionInv(store, page, user.may)

LEMMA SessionUser ==
  ASSUME FrontendInv, FrontendInv', UserOK(user), SessionInv(store, page, user.may),
         Navigate \/ Edit \/ ChangeBoard \/ Sign
  PROVE  SessionInv(store', page', user'.may) /\ user'.may = user.may /\ UserOK(user')
<1>1. Good(page, {}) /\ Good(page', {})
  BY DEF FrontendInv, Good, PageShape, TasksOK, IdsUnique, WritersBind, Alive, EditorHolds, MutationRuns, QueueWaits, HasText, DraftRests
<1>2. store' = store
  BY UserActs
<1>3. UserOK(user') /\ user'.may = user.may
  <2>1. PICK op : Does(op)
    BY DEF Navigate, Edit, ChangeBoard, Sign, ChooseBoard, ApplyRoute, NavButton,
         ClickNotification, ClickCreateBoard, OpenTicket, TypeText, TypeComment, CloseDrawer,
         ClickSave, ClickComment, ClickAction, DropCard, ClickEpicStatus, ClickRestore,
         ClickPromote, ClickAdd, ChooseFile, Poll, ClickLogout, ClickSavePassword, ClickLogin
  <2> QED
    BY <2>1, DoesFields
<1>4. ASSUME page.me # 0, Grows(page, page', user.may)
      PROVE  SessionInv(store, page', user.may)
  BY <1>4, SignedInActive, GrowsKeeps
<1>5. CASE \E op \in Working : Works(op)
  <2>1. PICK op \in Working : Works(op)
    BY <1>5
  <2>2. /\ Redraws(page, page', {op, "history"}) /\ page.me # 0 /\ page.loadGen \in Nat
        /\ {op, "history"} \subseteq user.may \union {"load", "history"}
    BY <1>1, <2>1, GoodGenerations DEF Works
  <2>3. {op, "history"} \intersect {"login", "logout"} = {}
    BY DEF Working
  <2>4. Grows(page, page', user.may)
    BY <1>1, <2>2, <2>3, RedrawsGrows
  <2> QED
    BY <1>2, <1>3, <1>4, <2>2, <2>4
<1>6. CASE Disturbs
  <2>1. page.me # 0
    BY <1>6 DEF Disturbs, ChooseBoard, ApplyRoute, ClickNotification, ClickCreateBoard, SignedIn
  <2>2. Grows(page, page', user.may)
    <3>1. ClickCreateBoard => "newBoard" \in user.may
      BY DEF ClickCreateBoard, Does
    <3>2. \A i \in Ids : ClickNotification(i) => "notification" \in user.may
      BY DEF ClickNotification, Does
    <3> QED
      BY <1>1, <1>6, <3>1, <3>2, ChooseGrows, RouteGrows, NotificationGrows, NewBoardGrows DEF Disturbs
  <2> QED
    BY <1>2, <1>3, <1>4, <2>1, <2>2
<1>7. CASE ClickLogout
  BY <1>2, <1>3, <1>7, LogoutClicked
<1>8. CASE \E u \in Users, r \in Routes : ClickLogin(u, r)
  BY <1>2, <1>3, <1>8, LoginClicked
<1> QED
  BY <1>1, <1>5, <1>6, <1>7, <1>8, UserWorks

LEMMA AccountInit ==
  ASSUME Init, SessionsApart
  PROVE  AccountInv
<1>1. PICK s \in Scenarios, a \in Users :
        /\ user = [may |-> s.may, left |-> s.left, fails |-> s.fails, calm |-> TRUE]
        /\ store = [rows |-> s.rows, access |-> InitialAccess, owner |-> <<a>>, live |-> {1},
                    accepted |-> {}]
  BY DEF Init
<1>2. UserOK(user) /\ Apart(user.may)
  BY <1>1 DEF UserOK, SessionsApart
<1>3. store.owner = <<a>>
  BY <1>1
<1>4. \A k : k \in DOMAIN store.owner <=> k = 1
  BY <1>3
<1>5. page = Opened(1)
  BY DEF Init
<1>6. PICK p, t : /\ PageShape(p) /\ p.tasks = {} /\ p.session = 1 /\ p.jar = 1 /\ p.me = 0
                  /\ t.op = "load" /\ t.session = 1 /\ Loads(p, page, t)
  BY <1>5, OpenedLoads
<1>7. /\ page.me = 0 /\ page.session = 1 /\ page.jar = 1
      /\ \A u \in page.tasks :
           \/ Starts(page, u) /\ u.op = "history"
           \/ Requests(page, u) /\ u.op = "load" /\ u.session = 1
  BY <1>6 DEF Loads, Kept
<1>8. ASSUME NEW u \in page.tasks
      PROVE  u.op \in user.may \union {"load", "history"} /\ Belongs(store, page, u)
  <2>1. u.sent = 1 /\ u.session = 1 /\ u.as = 1 /\ u.reply.status = "none"
    BY <1>7, <1>8 DEF Starts, Requests, NoReply
  <2>2. ~Signing(u) /\ u.op \in {"load", "history"}
    <3>1. FrontendInv
      BY InitInvariant
    <3>2. TaskShape(u)
      BY <3>1, UnderWay DEF FrontendInv
    <3> QED
      BY <1>7, <3>2, SigningOps
  <2> QED
    BY <1>4, <1>7, <2>1, <2>2 DEF Belongs, Said, Signing
<1>9. Cookies(store, page, user.may)
  BY <1>4, <1>7, <1>8 DEF Cookies
<1> QED
  BY <1>2, <1>7, <1>9 DEF AccountInv, SessionInv, Shown

LEMMA AccountStep ==
  ASSUME FrontendInv, AccountInv, [Next]_vars
  PROVE  AccountInv'
<1>1. FrontendInv'
  BY StepInvariant
<1>2. UserOK(user) /\ Apart(user.may) /\ SessionInv(store, page, user.may)
  BY DEF AccountInv
<1>3. UserOK(user') /\ user'.may = user.may /\ SessionInv(store', page', user'.may)
  <2>1. CASE Network
    BY <1>2, <2>1, SessionNetwork
  <2>2. CASE Expire \/ OtherClient
    BY <1>2, <2>2, SessionOthers
  <2>3. CASE Resume
    <3>1. user' = user
      BY <2>3 DEF Resume, ResumeLoad, ResumeEditor, ResumeBoard, ResumePage, Resumes
    <3> QED
      BY <1>1, <1>2, <2>3, <3>1, SessionResume
  <2>4. CASE Navigate \/ Edit \/ ChangeBoard \/ Sign
    BY <1>1, <1>2, <2>4, SessionUser
  <2>5. CASE UNCHANGED vars
    BY <1>2, <2>5 DEF vars
  <2> QED
    BY <2>1, <2>2, <2>3, <2>4, <2>5 DEF Next
<1>4. Apart(user'.may)
  BY <1>2, <1>3
<1> QED
  BY <1>3, <1>4 DEF AccountInv, UserOK, Apart, SessionInv, Cookies, Shown, Belongs, Said, Signing, Current

(* Whatever order answers arrive in, the screen shows data of the account  *)
(* whose cookie the browser holds, and of the board it names (load,        *)
(* invalidateSessionRequests, renderHistory, refreshNotifications), if no  *)
(* ticket is promoted or created, and no new password asked for, around a  *)
(* login or logout: these go on without asking for the session.            *)
THEOREM ScreenIsOfTheAccount ==
  ASSUME SessionsApart
  PROVE  Spec => []ScreenMatchesSession
<1>1. Init => AccountInv
  BY AccountInit
<1>2. FrontendInv /\ AccountInv /\ [Next]_vars => AccountInv'
  BY AccountStep
<1>3. AccountInv => ScreenMatchesSession
  BY DEF AccountInv, SessionInv, Shown, ScreenMatchesSession
<1> QED
  BY <1>1, <1>2, <1>3, FrontendInvariant, PTL DEF Spec

-----------------------------------------------------------------------------
(* Promotion.  Tickets leave the backlog and never return, and a ticket    *)
(* goes only when its parent has gone.                                     *)

Clear(s, i) == i \in DOMAIN s.rows /\ ~s.rows[i].backlog

(* The parent of the row is out of the backlog.                            *)
Free(s, row) == row.parent = 0 \/ Clear(s, row.parent)

(* What rows say to be on the board is, and so are the parents they name.  *)
Sound(s, rows) ==
  \A i \in DOMAIN rows : ~rows[i].backlog => Clear(s, i) /\ Free(s, rows[i])

(* The next id has not been used.                                          *)
Numbered(s) == \E n \in Nat : DOMAIN s.rows = 1 .. n

(* After ticket i each of the other tickets finds its parent promoted.     *)
InOrder(s, i, todo) ==
  \A k \in DOMAIN todo :
    /\ ~todo[k].row.backlog
    /\ \/ Free(s, todo[k].row)
       \/ todo[k].row.parent \in {i, todo[k].ticket}
       \/ \E l \in 1 .. k - 1 : todo[k].row.parent = todo[l].ticket

(* A function that writes tickets keeps the order.                         *)
Rising(s, t) ==
  /\ t.op # "save"
  /\ t.url = "put" =>
       /\ ~t.row.backlog /\ (Free(s, t.row) \/ t.row.parent = t.ticket)
       /\ t.reply.status = "ok" => Clear(s, t.ticket)
       /\ t.op = "promote" => InOrder(s, t.ticket, t.todo)
  /\ t.url = "state" /\ t.reply.status = "ok" => Sound(s, t.reply.rows)

PromotionInv(s, p) ==
  /\ Numbered(s) /\ Sound(s, s.rows) /\ Sound(s, p.rows)
  /\ \A t \in p.tasks : Rising(s, t)

(* Before the first promotion.                                             *)
BacklogsStand ==
  \A c \in Scenarios :
    /\ Numbered(c) /\ Sound(c, c.rows)

-----------------------------------------------------------------------------
(* No function starts to write tickets.                                    *)
Tame(p, q) ==
  /\ q.rows \in {p.rows, << >>}
  /\ \A u \in q.tasks : u \in p.tasks \/ (u.op # "save" /\ u.url # "put" /\ u.reply = NoReply)

LEMMA TameKeeps ==
  ASSUME NEW s, NEW p, NEW q, PromotionInv(s, p), Tame(p, q)
  PROVE  PromotionInv(s, q)
<1>1. Sound(s, q.rows)
  BY DEF PromotionInv, Tame, Sound
<1>2. ASSUME NEW u \in q.tasks
      PROVE  Rising(s, u)
  <2>1. CASE u \in p.tasks
    BY <2>1 DEF PromotionInv
  <2>2. CASE u \notin p.tasks
    <3>1. u.op # "save" /\ u.url # "put" /\ u.reply.status = "none"
      BY <1>2, <2>2 DEF Tame, NoReply
    <3> QED
      BY <3>1 DEF Rising
  <2> QED
    BY <2>1, <2>2
<1> QED
  BY <1>1, <1>2 DEF PromotionInv

LEMMA TameEnd ==
  ASSUME NEW p, PageShape(p), NEW t
  PROVE  Tame(p, End(p, t))
BY EndFields DEF Tame, Kept

LEMMA TameThen ==
  ASSUME NEW p, NEW m, NEW q, Tame(p, m), Tame(m, q)
  PROVE  Tame(p, q)
BY DEF Tame

(* Functions other than the three that put tickets.                        *)
LEMMA CallsNoPut ==
  ASSUME NEW t, TaskShape(t), t.op \notin {"save", "epic", "promote"}
  PROVE  t.url # "put"
<1>1. t.url = "state" \/ <<t.op, t.url>> \in Calls
  BY DEF TaskShape
<1> QED
  BY <1>1 DEF Calls

LEMMA RemainsTame ==
  ASSUME NEW p, NEW q, NEW O, Good(q, {}), Remains(p, q, O), "save" \notin O,
         \A u \in q.tasks \ p.tasks : u.op \in {"epic", "promote"} => u.url # "put"
  PROVE  Tame(p, q)
<1>1. \A u \in q.tasks \ p.tasks : TaskShape(u) /\ u.op \in O /\ u.reply = NoReply
  BY UnderWay DEF Remains, Starts, Requests
<1>2. \A u \in q.tasks \ p.tasks : u.op # "save" /\ u.url # "put"
  BY <1>1, CallsNoPut
<1> QED
  BY <1>1, <1>2 DEF Tame, Remains

LEMMA RedrawsTame ==
  ASSUME NEW p, NEW q, NEW O, Good(q, {}), Redraws(p, q, O), p.loadGen \in Nat,
         O \intersect {"save", "epic", "promote"} = {}
  PROVE  Tame(p, q)
<1>1. Remains(p, q, O) /\ \A u \in q.tasks \ p.tasks : u.op \in O
  BY RedrawsRemain DEF Redraws
<1> QED
  BY <1>1, RemainsTame

LEMMA LoadsTame ==
  ASSUME NEW p, NEW q, NEW t, Good(q, {}), Loads(p, q, t), p.loadGen \in Nat, t.op # "save"
  PROVE  Tame(p, q)
<1>1. Remains(p, q, {t.op, "history"})
  BY LoadsRemain
<1>2. \A u \in q.tasks \ p.tasks : u.op \in {"epic", "promote"} => u.url # "put"
  BY DEF Loads, Requests
<1> QED
  BY <1>1, <1>2, RemainsTame

LEMMA QuitsTame ==
  ASSUME NEW p, NEW q, Quits(p, q)
  PROVE  Tame(p, q)
BY DEF Quits, Tame

(* An answered load is shown.                                              *)
LEMMA ShowsRising ==
  ASSUME NEW s, NEW p, NEW q, NEW r, Good(q, {}), PromotionInv(s, p), Shows(p, q, r),
         Sound(s, r.rows)
  PROVE  PromotionInv(s, q)
<1>1. q.rows = r.rows /\ \A u \in q.tasks \ p.tasks : Starts(q, u) /\ u.op = "history"
  BY DEF Shows
<1>2. ASSUME NEW u \in q.tasks
      PROVE  Rising(s, u)
  <2>1. CASE u \in p.tasks
    BY <2>1 DEF PromotionInv
  <2>2. CASE u \notin p.tasks
    <3>1. TaskShape(u) /\ u.op = "history" /\ u.url # "state"
      BY <1>1, <1>2, <2>2, UnderWay DEF Starts
    <3>2. u.url # "put"
      BY <3>1, CallsNoPut
    <3> QED
      BY <3>1, <3>2 DEF Rising
  <2> QED
    BY <2>1, <2>2
<1> QED
  BY <1>1, <1>2 DEF PromotionInv

(* What BacklogBelow says: the least set that is closed, so each member has *)
(* its parent in it or in i.                                               *)
LEMMA BelowClosed ==
  ASSUME NEW rows, NEW i, NEW k \in DOMAIN rows, rows[k].backlog,
         rows[k].parent \in BacklogBelow(rows, i) \union {i}
  PROVE  k \in BacklogBelow(rows, i)
<1> DEFINE Closed(S) == \A j \in DOMAIN rows :
                          rows[j].backlog /\ rows[j].parent \in S \union {i} => j \in S
<1>1. BacklogBelow(rows, i) = {j \in DOMAIN rows : \A S \in SUBSET DOMAIN rows : Closed(S) => j \in S}
  BY DEF BacklogBelow
<1>2. ASSUME NEW S \in SUBSET DOMAIN rows, Closed(S)
      PROVE  k \in S
  <2>1. \A j \in BacklogBelow(rows, i) : j \in S
    BY <1>1, <1>2
  <2> QED
    BY <1>2, <2>1
<1> QED
  BY <1>1, <1>2

LEMMA BelowHasParents ==
  ASSUME NEW rows, NEW i, NEW k \in BacklogBelow(rows, i)
  PROVE  rows[k].backlog /\ rows[k].parent \in BacklogBelow(rows, i) \union {i}
<1> DEFINE below == BacklogBelow(rows, i)
           S == {j \in below : rows[j].backlog /\ rows[j].parent \in below \union {i}}
<1>1. S \in SUBSET DOMAIN rows
  BY DEF BacklogBelow
<1>2. ASSUME NEW j \in DOMAIN rows, rows[j].backlog, rows[j].parent \in S \union {i}
      PROVE  j \in S
  <2>1. rows[j].parent \in below \union {i}
    BY <1>2
  <2>2. j \in below
    BY <1>2, <2>1, BelowClosed
  <2> QED
    BY <1>2, <2>1, <2>2
<1>3. k \in S
  BY <1>1, <1>2 DEF BacklogBelow
<1> QED
  BY <1>3

(* The order of the backlog names all of it, parents first.                *)
LEMMA DescendantsInOrder ==
  ASSUME NEW rows, IsRows(rows), NEW i, NEW q \in BacklogDescendants(rows, i), NEW b \in DOMAIN q
  PROVE  \/ rows[q[b]].parent \in {i, q[b]}
         \/ \E a \in 1 .. b - 1 : rows[q[b]].parent = q[a]
<1> DEFINE below == BacklogBelow(rows, i)
           n == Cardinality(below)
<1>1. /\ q \in [1 .. n -> below]
      /\ \A c, d \in DOMAIN q : c < d => q[c] # q[d] /\ q[c] \notin BacklogBelow(rows, q[d])
  BY DEF BacklogDescendants
<1>2. below \subseteq DOMAIN rows
  BY DEF BacklogBelow
<1>3. IsFiniteSet(below) /\ n \in Nat
  <2>1. IsFiniteSet(Ids)
    <3>1. MaxTickets \in Int /\ 1 \in Int
      BY FrontendAssumption
    <3> QED
      BY <3>1, FS_Interval DEF Ids
  <2>2. below \in SUBSET Ids
    BY <1>2 DEF IsRows
  <2> HIDE DEF below
  <2>3. IsFiniteSet(below)
    BY <2>1, <2>2, FS_Subset
  <2> QED
    BY <2>3, FS_CardinalityType
<1>4. rows[q[b]].backlog /\ rows[q[b]].parent \in below \union {i}
  BY <1>1, BelowHasParents
<1> HIDE DEF below
<1>5. q \in Surjection(1 .. n, below)
  <2>1. \A c, d \in 1 .. n : q[c] = q[d] => c = d
    <3> SUFFICES ASSUME NEW c \in 1 .. n, NEW d \in 1 .. n, c # d
                 PROVE  q[c] # q[d]
      OBVIOUS
    <3>1. c < d \/ d < c
      BY <1>3
    <3> QED
      BY <1>1, <3>1
  <2>2. q \in Injection(1 .. n, below)
    BY <1>1, <2>1 DEF Injection, IsInjective
  <2>3. Cardinality(1 .. n) = n
    <3>1. 1 \in Int /\ n \in Int
      BY <1>3
    <3>2. Cardinality(1 .. n) = IF 1 > n THEN 0 ELSE n - 1 + 1
      BY <3>1, FS_Interval
    <3> QED
      BY <1>3, <3>2
  <2> QED
    BY <1>3, <2>2, <2>3, FS_Injection
<1>6. CASE rows[q[b]].parent \in below
  <2>1. PICK a \in 1 .. n : q[a] = rows[q[b]].parent
    BY <1>5, <1>6 DEF Surjection
  <2>2. ~(b < a)
    <3>1. SUFFICES ASSUME b < a PROVE FALSE
      OBVIOUS
    <3>2. q[b] \notin BacklogBelow(rows, q[a])
      BY <1>1, <2>1, <3>1
    <3>3. q[b] \in DOMAIN rows
      BY <1>1, <1>2
    <3> QED
      BY <1>4, <2>1, <3>2, <3>3, BelowClosed
  <2>3. a < b \/ a = b
    BY <1>1, <1>3, <2>1, <2>2
  <2> QED
    BY <1>1, <1>3, <2>1, <2>3
<1> QED
  BY <1>4, <1>6

(* Each ticket finds its parent promoted.                                  *)
Ordered(s, q) ==
  \A k \in DOMAIN q :
    /\ ~q[k].row.backlog
    /\ \/ Free(s, q[k].row)
       \/ q[k].row.parent = q[k].ticket
       \/ \E l \in 1 .. k - 1 : q[k].row.parent = q[l].ticket

LEMMA OrderedBegins ==
  ASSUME NEW s, NEW S, NEW q \in Seq(S), q # << >>, Ordered(s, q)
  PROVE  LET h == Head(q) IN
         /\ ~h.row.backlog /\ (Free(s, h.row) \/ h.row.parent = h.ticket)
         /\ InOrder(s, h.ticket, Tail(q))
<1> DEFINE w == Tail(q)
<1>1. /\ Head(q) = q[1] /\ 1 \in DOMAIN q /\ w \in Seq(S) /\ Len(q) \in Nat
      /\ \A k \in DOMAIN w : k \in Nat /\ k + 1 \in DOMAIN q /\ w[k] = q[k + 1]
  OBVIOUS
<1> HIDE DEF w
<1>2. ~q[1].row.backlog /\ (Free(s, q[1].row) \/ q[1].row.parent = q[1].ticket)
  BY <1>1 DEF Ordered
<1>3. ASSUME NEW k \in DOMAIN w
      PROVE  /\ ~w[k].row.backlog
             /\ \/ Free(s, w[k].row)
                \/ w[k].row.parent \in {q[1].ticket, w[k].ticket}
                \/ \E l \in 1 .. k - 1 : w[k].row.parent = w[l].ticket
  <2>1. /\ ~w[k].row.backlog
        /\ \/ Free(s, w[k].row)
           \/ w[k].row.parent = w[k].ticket
           \/ \E l \in 1 .. k + 1 - 1 : w[k].row.parent = q[l].ticket
    BY <1>1 DEF Ordered
  <2>2. ASSUME NEW l \in 1 .. k + 1 - 1, w[k].row.parent = q[l].ticket, l # 1
        PROVE  l - 1 \in 1 .. k - 1 /\ w[k].row.parent = w[l - 1].ticket
    <3>1. l - 1 \in 1 .. k - 1 /\ l - 1 + 1 = l
      BY <1>1, <2>2
    <3>2. l - 1 \in DOMAIN w
      BY <1>1, <3>1
    <3>3. w[l - 1] = q[l]
      BY <1>1, <3>1, <3>2
    <3> QED
      BY <2>2, <3>1, <3>3
  <2> QED
    BY <2>1, <2>2
<1>4. InOrder(s, q[1].ticket, w)
  BY <1>3 DEF InOrder
<1> QED
  BY <1>1, <1>2, <1>4 DEF w

LEMMA InOrderOrdered ==
  ASSUME NEW s, NEW i, NEW todo, InOrder(s, i, todo), Clear(s, i)
  PROVE  Ordered(s, todo)
BY DEF InOrder, Ordered, Free

LEMMA Prefixed ==
  ASSUME NEW S, NEW x \in S, NEW y \in Seq(S)
  PROVE  LET q == <<x>> \o y IN
         /\ DOMAIN q = 1 .. Len(y) + 1 /\ q[1] = x
         /\ \A k \in 1 .. Len(y) : q[k + 1] = y[k]
OBVIOUS

(* What is promoted is in order: an Epic goes before its backlog.          *)
LEMMA PromotionOrdered ==
  ASSUME NEW s, NEW rows, IsRows(rows), Sound(s, rows), NEW i \in DOMAIN rows, NEW e,
         e # 0 => e \in DOMAIN rows, NEW q \in ToPromote(rows, i, e)
  PROVE  Ordered(s, q)
<1>1. ASSUME NEW j \in DOMAIN rows, NEW n
      PROVE  LET x == Promoted(rows, j, n) IN
             x.ticket = j /\ ~x.row.backlog /\ x.row.parent = n
  <2>1. rows[j] \in Row
    BY DEF IsRows, Stored
  <2> QED
    BY <2>1 DEF Promoted, Row
<1>2. CASE rows[i].epic
  <2> DEFINE below == BacklogBelow(rows, i)
             n == Cardinality(below)
             head == Promoted(rows, i, 0)
  <2>1. PICK w \in BacklogDescendants(rows, i) :
          q = <<head>> \o [k \in DOMAIN w |-> Promoted(rows, w[k], rows[w[k]].parent)]
    BY <1>2 DEF ToPromote
  <2> DEFINE rest == [k \in DOMAIN w |-> Promoted(rows, w[k], rows[w[k]].parent)]
  <2>2. w \in [1 .. n -> below] /\ below \subseteq DOMAIN rows
    BY DEF BacklogDescendants, BacklogBelow
  <2>3. n \in Nat
    <3>1. IsFiniteSet(Ids)
      <4>1. MaxTickets \in Int /\ 1 \in Int
        BY FrontendAssumption
      <4> QED
        BY <4>1, FS_Interval DEF Ids
    <3>2. below \in SUBSET Ids
      BY <2>2 DEF IsRows
    <3> HIDE DEF below
    <3>3. IsFiniteSet(below)
      BY <3>1, <3>2, FS_Subset
    <3> QED
      BY <3>3, FS_CardinalityType
  <2>4. ASSUME NEW k \in 1 .. n
        PROVE  /\ rest[k].ticket = w[k] /\ ~rest[k].row.backlog
               /\ \/ rest[k].row.parent \in {i, w[k]}
                  \/ \E a \in 1 .. k - 1 : rest[k].row.parent = w[a]
    <3>1. w[k] \in DOMAIN rows /\ k \in DOMAIN w
      BY <2>2
    <3>2. rest[k] = Promoted(rows, w[k], rows[w[k]].parent)
      BY <3>1
    <3>3. rest[k].ticket = w[k] /\ ~rest[k].row.backlog /\ rest[k].row.parent = rows[w[k]].parent
      BY <1>1, <3>1, <3>2
    <3> HIDE DEF rest
    <3>4. \/ rows[w[k]].parent \in {i, w[k]}
          \/ \E a \in 1 .. k - 1 : rows[w[k]].parent = w[a]
      BY <3>1, DescendantsInOrder
    <3> QED
      BY <3>3, <3>4
  <2>5. rest = [k \in 1 .. n |-> rest[k]] /\ q = <<head>> \o rest
    BY <2>1, <2>2
  <2>6. head.ticket = i /\ ~head.row.backlog /\ head.row.parent = 0
    BY <1>1
  <2> HIDE DEF below, n, head, rest
  <2> DEFINE S == {rest[k] : k \in 1 .. n} \union {head}
  <2>7. Len(rest) = n /\ rest \in Seq(S) /\ head \in S
    <3>1. rest \in [1 .. n -> S] /\ head \in S
      BY <2>5
    <3> HIDE DEF S
    <3> QED
      BY <2>3, <3>1
  <2>8. /\ DOMAIN q = 1 .. n + 1 /\ q[1] = head
        /\ \A k \in 1 .. n : q[k + 1] = rest[k]
    <3> HIDE DEF S
    <3>1. q = <<head>> \o rest /\ Len(rest) = n
      BY <2>5, <2>7
    <3>2. LET z == <<head>> \o rest IN
          /\ DOMAIN z = 1 .. Len(rest) + 1 /\ z[1] = head
          /\ \A k \in 1 .. Len(rest) : z[k + 1] = rest[k]
      BY <2>7, Prefixed
    <3> QED
      BY <3>1, <3>2
  <2>9. ASSUME NEW k \in DOMAIN q
        PROVE  /\ ~q[k].row.backlog
               /\ \/ Free(s, q[k].row)
                  \/ q[k].row.parent = q[k].ticket
                  \/ \E l \in 1 .. k - 1 : q[k].row.parent = q[l].ticket
    <3>1. CASE k = 1
      BY <2>6, <2>8, <3>1 DEF Free
    <3>2. CASE k # 1
      <4> DEFINE m == k - 1
      <4>1. m \in 1 .. n /\ q[k] = rest[m]
        <5>1. m \in 1 .. n /\ m + 1 = k
          BY <2>3, <2>8, <3>2
        <5> QED
          BY <2>8, <5>1
      <4>2. ASSUME NEW a \in 1 .. m - 1
            PROVE  a + 1 \in 1 .. k - 1 /\ q[a + 1].ticket = w[a]
        <5>1. a \in 1 .. n /\ a + 1 \in 1 .. k - 1
          BY <2>3, <4>1
        <5> QED
          BY <2>4, <2>8, <5>1
      <4>3. 1 \in 1 .. k - 1 /\ q[1].ticket = i
        BY <2>3, <2>6, <2>8, <3>2
      <4>4. /\ q[k].ticket = w[m] /\ ~q[k].row.backlog
            /\ \/ q[k].row.parent \in {i, w[m]}
               \/ \E a \in 1 .. m - 1 : q[k].row.parent = w[a]
        BY <2>4, <4>1
      <4> HIDE DEF m
      <4> QED
        BY <4>2, <4>3, <4>4
    <3> QED
      BY <3>1, <3>2
  <2> QED
    BY <2>9 DEF Ordered
<1>3. CASE ~rows[i].epic
  <2> DEFINE up == Promoted(rows, e, 0)
             own == Promoted(rows, i, e)
  <2>1. own.ticket = i /\ ~own.row.backlog /\ own.row.parent = e
    BY <1>1
  <2>2. CASE e # 0 /\ rows[e].backlog
    <3>1. q = <<up>> \o <<own>>
      BY <1>3, <2>2 DEF ToPromote
    <3>2. up.ticket = e /\ ~up.row.backlog /\ up.row.parent = 0
      BY <1>1, <2>2
    <3> HIDE DEF up, own
    <3> DEFINE S == {up, own}
               y == <<own>>
    <3>3. y \in Seq(S) /\ Len(y) = 1 /\ y[1] = own /\ up \in S
      OBVIOUS
    <3>4. DOMAIN q = {1, 2} /\ q[1] = up /\ q[2] = own
      <4>1. q = <<up>> \o y
        BY <3>1
      <4> HIDE DEF S, y
      <4>2. DOMAIN q = 1 .. 2 /\ q[1] = up /\ q[1 + 1] = y[1]
        BY <3>3, <4>1, Prefixed
      <4> QED
        BY <3>3, <4>2
    <3>5. 1 \in 1 .. 2 - 1
      OBVIOUS
    <3> QED
      BY <2>1, <3>2, <3>4, <3>5 DEF Ordered, Free
  <2>3. CASE ~(e # 0 /\ rows[e].backlog)
    <3>1. q = << >> \o <<own>>
      BY <1>3, <2>3 DEF ToPromote
    <3> HIDE DEF own
    <3>2. DOMAIN q = {1} /\ q[1] = own
      <4>1. << >> \o <<own>> = <<own>>
        <5>1. <<own>> \in Seq({own})
          OBVIOUS
        <5>2. \A x \in Seq({own}) : << >> \o x = x
          OBVIOUS
        <5> QED
          BY <5>1, <5>2
      <4>2. q = <<own>>
        BY <3>1, <4>1
      <4> QED
        BY <4>2
    <3>3. Free(s, own.row)
      BY <2>1, <2>3 DEF Free, Sound
    <3> QED
      BY <2>1, <3>2, <3>3 DEF Ordered
  <2> QED
    BY <2>2, <2>3
<1> QED
  BY <1>2, <1>3

LEMMA RisingAdds ==
  ASSUME NEW s, NEW p, NEW q, PromotionInv(s, p), q.rows = p.rows, NEW u, Rising(s, u),
         q.tasks \subseteq p.tasks \union {u}
  PROVE  PromotionInv(s, q)
BY DEF PromotionInv

(* A click on Promote.                                                     *)
LEMMA PromoteClicked ==
  ASSUME Good(page, {}), PromotionInv(store, page), NEW i \in Ids, NEW e \in Ids \union {0},
         ClickPromote(i, e)
  PROVE  PromotionInv(store, page')
<1> DEFINE w == Task("promote", "put")
<1>1. PICK q \in ToPromote(page.rows, i, e) :
        page' = Send(page, [w EXCEPT !.ticket = Head(q).ticket, !.row = Head(q).row,
                                     !.todo = Tail(q)])
  BY DEF ClickPromote
<1>2. i \in DOMAIN page.rows /\ (e # 0 => e \in DOMAIN page.rows)
  BY DEF ClickPromote
<1>3. PageShape(page) /\ IsRows(page.rows) /\ Sound(store, page.rows)
  BY ShapeFields DEF Good, PromotionInv
<1>4. q \in Seq(Promotion) /\ q # << >>
  BY <1>2, <1>3, PromotionTypes
<1>5. Ordered(store, q)
  BY <1>2, <1>3, PromotionOrdered
<1> DEFINE h == Head(q)
           todo == Tail(q)
           t == [w EXCEPT !.ticket = h.ticket, !.row = h.row, !.todo = todo]
           u == Sent(page, t)
<1>6. /\ ~h.row.backlog /\ (Free(store, h.row) \/ h.row.parent = h.ticket)
      /\ InOrder(store, h.ticket, todo)
  BY <1>4, <1>5, OrderedBegins
<1>7. page' = Send(page, t)
  BY <1>1
<1>8. IsTask(w) /\ w.reply = NoReply /\ w.url = "put" /\ w.op = "promote"
  BY TaskStarts
<1> HIDE DEF w, h, todo
<1>9. /\ IsTask(t) /\ t.reply = NoReply /\ t.url = "put" /\ t.op = "promote"
      /\ t.ticket = h.ticket /\ t.row = h.row /\ t.todo = todo
  BY <1>8 DEF IsTask, TaskFields
<1> HIDE DEF t
<1>10. /\ u.reply = NoReply /\ u.url = "put" /\ u.op = "promote"
       /\ u.ticket = h.ticket /\ u.row = h.row /\ u.todo = todo
  BY <1>9 DEF Sent, IsTask, TaskFields
<1>11. Changes(page, page', {"tasks", "serial"}) /\ page'.tasks = page.tasks \union {u}
  BY <1>3, <1>7, SendChanges
<1> HIDE DEF u
<1>12. page'.rows = page.rows
  BY <1>11 DEF Changes, PageFields
<1>13. u.reply.status = "none"
  BY <1>10 DEF NoReply
<1>14. Rising(store, u)
  BY <1>6, <1>10, <1>13 DEF Rising
<1> QED
  BY <1>11, <1>12, <1>14, RisingAdds

(* A click on the status of an Epic, which is on the board.                *)
LEMMA EpicClicked ==
  ASSUME Good(page, {}), PromotionInv(store, page), NEW i \in Ids, ClickEpicStatus(i)
  PROVE  PromotionInv(store, page')
<1> DEFINE w == Task("epic", "put")
           row == [page.rows[i] EXCEPT !.done = ~page.rows[i].done]
           v == [w EXCEPT !.row = row]
           r == ResetDrawer(page)
           pending == [r.pending EXCEPT ![i] = [id |-> r.serial + 1, session |-> r.session]]
           m == [r EXCEPT !.pending = pending]
           t == [v EXCEPT !.ticket = i, !.board = r.board]
           u == Sent(m, t)
<1>1. page' = Send(m, t)
  <2>1. page' = BindTicket(r, i, v)
    BY DEF ClickEpicStatus
  <2>2. BindTicket(r, i, v) = Send([r EXCEPT !.pending[i] = [id |-> r.serial + 1, session |-> r.session]], t)
    BY DEF BindTicket
  <2> QED
    BY <2>1, <2>2
<1>2. PageShape(page) /\ IsRows(page.rows) /\ Sound(store, page.rows)
  BY ShapeFields DEF Good, PromotionInv
<1>3. i \in DOMAIN page.rows /\ ~page.rows[i].backlog
  BY DEF ClickEpicStatus
<1>4. ~row.backlog /\ Free(store, row)
  <2>1. row.backlog = page.rows[i].backlog /\ row.parent = page.rows[i].parent
    BY <1>2, <1>3 DEF IsRows, Stored, Row
  <2> HIDE DEF row
  <2> QED
    BY <1>2, <1>3, <2>1 DEF Sound, Free
<1>5. IsTask(w) /\ w.reply = NoReply /\ w.url = "put" /\ w.op = "epic"
  BY TaskStarts
<1> HIDE DEF w, row
<1>6. IsTask(v) /\ v.reply = NoReply /\ v.url = "put" /\ v.op = "epic" /\ v.row = row
  BY <1>5 DEF IsTask, TaskFields
<1> HIDE DEF v
<1>7. IsTask(t) /\ t.reply = NoReply /\ t.url = "put" /\ t.op = "epic" /\ t.row = row
  BY <1>6 DEF IsTask, TaskFields
<1> HIDE DEF t
<1>8. PageShape(r) /\ r.rows = page.rows /\ r.tasks = page.tasks
  BY <1>2, ResetDrawerFrame DEF Changes, PageFields
<1>9. pending \in [Ids -> Binding]
  <2> HIDE DEF r
  <2>1. r.pending \in [Ids -> Binding] /\ r.serial + 1 \in Nat /\ r.session \in Nat
    BY <1>8, ShapeFields
  <2>2. [id |-> r.serial + 1, session |-> r.session] \in Binding
    BY <2>1 DEF Binding
  <2> QED
    BY <2>1, <2>2
<1> HIDE DEF r, pending
<1>10. Changes(r, m, {"pending"}) /\ m.pending = pending
  BY <1>8 DEF PageShape, IsPage, PageFields, Changes
<1> HIDE DEF m
<1>11. PageShape(m) /\ m.rows = page.rows /\ m.tasks = page.tasks
  <2>1. PageShape(m)
    BY <1>8, <1>9, <1>10, ChangedShape DEF FieldOK
  <2> QED
    BY <1>8, <1>10, <2>1 DEF Changes, PageFields
<1>12. u.reply = NoReply /\ u.url = "put" /\ u.op = "epic" /\ u.row = row
  BY <1>7 DEF Sent, IsTask, TaskFields
<1>13. Changes(m, page', {"tasks", "serial"}) /\ page'.tasks = m.tasks \union {u}
  BY <1>1, <1>11, SendChanges
<1> HIDE DEF u
<1>14. page'.rows = page.rows /\ page'.tasks = page.tasks \union {u}
  BY <1>11, <1>13 DEF Changes, PageFields
<1>15. u.reply.status = "none"
  BY <1>12 DEF NoReply
<1>16. Rising(store, u)
  BY <1>4, <1>12, <1>15 DEF Rising
<1> QED
  BY <1>14, <1>16, RisingAdds

-----------------------------------------------------------------------------
(* The server.  What has left the backlog does not return.                 *)
Climbs(s, z) ==
  /\ \A j : Clear(s, j) => Clear(z, j)
  /\ Numbered(z) /\ Sound(z, z.rows)

LEMMA ClimbsKeeps ==
  ASSUME NEW s, NEW z, NEW p, PromotionInv(s, p), Climbs(s, z)
  PROVE  PromotionInv(z, p)
<1>1. \A row : Free(s, row) => Free(z, row)
  BY DEF Climbs, Free
<1>2. \A rows : Sound(s, rows) => Sound(z, rows)
  BY <1>1 DEF Climbs, Sound
<1>3. \A i, todo : InOrder(s, i, todo) => InOrder(z, i, todo)
  BY <1>1 DEF InOrder
<1>4. ASSUME NEW t \in p.tasks
      PROVE  Rising(z, t)
  <2>1. Rising(s, t)
    BY DEF PromotionInv
  <2> QED
    BY <1>1, <1>2, <1>3, <2>1 DEF Rising, Climbs
<1> QED
  BY <1>2, <1>4 DEF PromotionInv, Climbs

LEMMA ClimbsSame ==
  ASSUME NEW s, NEW z, NEW p, PromotionInv(s, p), z.rows = s.rows
  PROVE  Climbs(s, z)
BY DEF PromotionInv, Climbs, Clear, Free, Sound, Numbered

(* A ticket is stored or changed.                                          *)
LEMMA RowClimbs ==
  ASSUME NEW s, StoreOK(s), NEW p, PromotionInv(s, p), NEW i, NEW row \in Row, NEW z,
         z.rows = WithRow(s, i, row).rows,
         i \in DOMAIN s.rows \/ \E n \in Nat : DOMAIN s.rows = 1 .. n /\ i = n + 1,
         i \in DOMAIN s.rows /\ ~s.rows[i].backlog => ~row.backlog,
         ~row.backlog => Free(s, row) \/ row.parent = i
  PROVE  Climbs(s, z) /\ (~row.backlog => Clear(z, i))
<1> DEFINE new == [row EXCEPT !.version = row.version + 1]
           rows == [j \in DOMAIN s.rows \union {i} |-> IF j = i THEN new ELSE s.rows[j]]
<1>1. z.rows = rows
  BY StoreShape DEF WithRow, StoreFields
<1>2. new.backlog = row.backlog /\ new.parent = row.parent
  BY DEF Row
<1> HIDE DEF new
<1>3. /\ DOMAIN z.rows = DOMAIN s.rows \union {i} /\ z.rows[i] = new
      /\ \A j \in DOMAIN s.rows : j # i => z.rows[j] = s.rows[j]
  BY <1>1
<1> HIDE DEF rows
<1>4. \A j : Clear(s, j) => Clear(z, j)
  BY <1>2, <1>3 DEF Clear
<1>5. ~row.backlog => Clear(z, i)
  BY <1>2, <1>3 DEF Clear
<1>6. \A x : Free(s, x) => Free(z, x)
  BY <1>4 DEF Free
<1>7. ASSUME NEW j \in DOMAIN z.rows, ~z.rows[j].backlog
      PROVE  Clear(z, j) /\ Free(z, z.rows[j])
  <2>1. Clear(z, j)
    BY <1>7 DEF Clear
  <2>2. CASE j = i
    <3>1. ~row.backlog /\ z.rows[j].parent = row.parent
      BY <1>2, <1>3, <1>7, <2>2
    <3>2. Free(s, row) \/ row.parent = i
      BY <3>1
    <3> QED
      BY <1>5, <1>6, <2>1, <3>1, <3>2 DEF Free
  <2>3. CASE j # i
    <3>1. j \in DOMAIN s.rows /\ z.rows[j] = s.rows[j] /\ ~s.rows[j].backlog
      BY <1>3, <1>7, <2>3
    <3> QED
      BY <1>6, <2>1, <3>1 DEF PromotionInv, Sound
  <2> QED
    BY <2>2, <2>3
<1>8. Numbered(z)
  <2>1. CASE i \in DOMAIN s.rows
    BY <1>3, <2>1 DEF PromotionInv, Numbered
  <2>2. CASE \E n \in Nat : DOMAIN s.rows = 1 .. n /\ i = n + 1
    <3>1. PICK n \in Nat : DOMAIN s.rows = 1 .. n /\ i = n + 1
      BY <2>2
    <3>2. DOMAIN z.rows = 1 .. n + 1
      BY <1>3, <3>1
    <3> QED
      BY <3>2 DEF Numbered
  <2> QED
    BY <2>1, <2>2
<1> QED
  BY <1>4, <1>5, <1>7, <1>8 DEF Climbs, Sound

LEMMA NextIdFollows ==
  ASSUME Numbered(store)
  PROVE  \E n \in Nat : DOMAIN store.rows = 1 .. n /\ NextId = n + 1
<1>1. PICK n \in Nat : DOMAIN store.rows = 1 .. n
  BY DEF Numbered
<1>2. Cardinality(1 .. n) = n
  <2>1. 1 \in Int /\ n \in Int
    OBVIOUS
  <2>2. Cardinality(1 .. n) = IF 1 > n THEN 0 ELSE n - 1 + 1
    BY <2>1, FS_Interval
  <2> QED
    BY <2>2
<1>3. NextId = n + 1
  BY <1>1, <1>2 DEF NextId
<1> QED
  BY <1>1, <1>3

(* A request has its effect.                                               *)
LEMMA EffectClimbs ==
  ASSUME FrontendInv, PromotionInv(store, page), NEW t \in Waiting, Permitted(t)
  PROVE  LET z == Effect(store, t, Account(t)) IN
         Climbs(store, z) /\ (t.url = "put" => Clear(z, t.ticket))
<1> DEFINE u == Account(t)
           z == Effect(store, t, u)
           old == IF t.ticket \in DOMAIN store.rows THEN store.rows[t.ticket] ELSE NoRow
<1>1. Good(page, {}) /\ StoreOK(store) /\ t \in page.tasks /\ IsRows(store.rows)
  BY StoreShape DEF FrontendInv, Waiting
<1>2. TaskShape(t) /\ t.row \in Row /\ Rising(store, t)
  <2>1. TaskShape(t)
    BY <1>1, UnderWay
  <2> QED
    BY <1>1, <2>1 DEF TaskShape, PromotionInv
<1>3. ASSUME t.url \in {"put", "move", "trash", "restore", "duplicate"}
      PROVE  /\ t.ticket \in DOMAIN store.rows /\ old = store.rows[t.ticket] /\ old \in Row
             /\ ~old.backlog => Free(store, old)
  <2>1. t.ticket \in DOMAIN store.rows
    BY <1>3 DEF Permitted
  <2>2. store.rows[t.ticket] \in Row
    BY <1>1, <2>1 DEF IsRows, Stored
  <2> QED
    BY <2>1, <2>2 DEF PromotionInv, Sound
<1>4. PICK n \in Nat : DOMAIN store.rows = 1 .. n /\ NextId = n + 1
  BY NextIdFollows DEF PromotionInv
<1>5. CASE t.url = "put"
  <2> DEFINE row == [t.row EXCEPT !.live = old.live, !.version = old.version]
             w == WithRow(store, t.ticket, row)
  <2>1. z = Accepts(w, t.row.text)
    BY <1>5 DEF Effect
  <2>2. /\ ~t.row.backlog
        /\ Free(store, t.row) \/ t.row.parent = t.ticket
    BY <1>2, <1>5 DEF Rising
  <2>3. old \in Row /\ t.ticket \in DOMAIN store.rows
    BY <1>3, <1>5
  <2> HIDE DEF old
  <2>4. row \in Row /\ row.backlog = t.row.backlog /\ row.parent = t.row.parent
    BY <1>2, <2>3 DEF Row
  <2> HIDE DEF row
  <2>5. w = [f \in StoreFields |-> w[f]]
    BY <1>1, WithRowKeeps, StoreShape
  <2>6. z.rows = w.rows
    BY <2>1, <2>5, AcceptsKeeps
  <2> HIDE DEF z
  <2>7. Free(store, row) \/ row.parent = t.ticket
    BY <2>2, <2>4 DEF Free
  <2>8. Climbs(store, z) /\ Clear(z, t.ticket)
    BY <1>1, <2>2, <2>3, <2>4, <2>6, <2>7, RowClimbs
  <2> QED
    BY <2>8 DEF z
<1>6. ASSUME NEW row, row \in Row, row.backlog = old.backlog, row.parent = old.parent,
             t.url \in {"move", "trash", "restore"}, z = WithRow(store, t.ticket, row)
      PROVE  Climbs(store, z)
  <2>1. /\ t.ticket \in DOMAIN store.rows /\ old = store.rows[t.ticket]
        /\ ~old.backlog => Free(store, old)
    BY <1>3, <1>6
  <2> HIDE DEF z, old
  <2>2. ~row.backlog => Free(store, row)
    BY <1>6, <2>1 DEF Free
  <2> QED
    BY <1>1, <1>6, <2>1, <2>2, RowClimbs
<1>7. CASE t.url \in {"move", "trash", "restore"}
  <2> DEFINE a == [old EXCEPT !.done = ~old.done]
             b == [old EXCEPT !.live = FALSE]
             c == [old EXCEPT !.live = TRUE]
  <2>1. \/ z = WithRow(store, t.ticket, a)
        \/ z = WithRow(store, t.ticket, b)
        \/ z = WithRow(store, t.ticket, c)
    BY <1>7 DEF Effect
  <2>2. old \in Row
    BY <1>3, <1>7
  <2> HIDE DEF z, old
  <2>3. \A x \in {a, b, c} : x \in Row /\ x.backlog = old.backlog /\ x.parent = old.parent
    BY <2>2 DEF Row
  <2> HIDE DEF a, b, c
  <2>4. PICK x \in {a, b, c} : z = WithRow(store, t.ticket, x)
    BY <2>1
  <2>5. Climbs(store, z)
    BY <1>6, <1>7, <2>3, <2>4 DEF z, old
  <2> QED
    BY <1>7, <2>5 DEF z
<1>8. CASE t.url = "duplicate"
  <2>1. z = WithRow(store, NextId, old)
    BY <1>8 DEF Effect
  <2>2. old \in Row /\ (~old.backlog => Free(store, old))
    BY <1>3, <1>8
  <2> HIDE DEF z, old
  <2>3. NextId \notin DOMAIN store.rows
    BY <1>4
  <2>4. Climbs(store, z)
    BY <1>1, <1>4, <2>1, <2>2, <2>3, RowClimbs
  <2> QED
    BY <1>8, <2>4 DEF z
<1>9. CASE t.url = "create"
  <2> DEFINE row == [NewRow EXCEPT !.board = t.board]
  <2>1. z = WithRow(store, NextId, row)
    BY <1>9 DEF Effect
  <2>2. row \in Row /\ row.parent = 0
    <3>1. t.board \in BoardIds \union {0}
      BY <1>2 DEF TaskShape
    <3> QED
      BY <3>1 DEF NewRow, NoRow, Row
  <2> HIDE DEF z, row
  <2>3. NextId \notin DOMAIN store.rows
    BY <1>4
  <2>4. Climbs(store, z)
    BY <1>1, <1>4, <2>1, <2>2, <2>3, RowClimbs DEF Free
  <2> QED
    BY <1>9, <2>4 DEF z
<1>10. CASE t.url \notin RowCalls
  <2>1. z.rows = store.rows
    BY <1>1, <1>10, EffectKeeps
  <2> HIDE DEF z
  <2>2. Climbs(store, z)
    BY <2>1, ClimbsSame
  <2> QED
    BY <1>10, <2>2 DEF RowCalls, z
<1> QED
  BY <1>5, <1>7, <1>8, <1>9, <1>10 DEF RowCalls

LEMMA RepliedRising ==
  ASSUME NEW s, NEW p, NEW q, PromotionInv(s, p), NEW t \in p.tasks, NEW r, Replied(p, q, t, r),
         t.url = "put" /\ r.status = "ok" => Clear(s, t.ticket),
         t.url = "state" /\ r.status = "ok" => Sound(s, r.rows)
  PROVE  PromotionInv(s, q)
<1> DEFINE u == [t EXCEPT !.reply = r]
<1>1. /\ q.tasks = (p.tasks \ {t}) \union {u} /\ u.reply = r
      /\ u.op = t.op /\ u.url = t.url /\ u.row = t.row /\ u.ticket = t.ticket /\ u.todo = t.todo
  BY DEF Replied, TaskFields
<1> HIDE DEF u
<1>2. q.rows = p.rows
  BY DEF Replied, Changes, PageFields
<1>3. Rising(s, t)
  BY DEF PromotionInv
<1>4. Rising(s, u)
  BY <1>1, <1>3 DEF Rising
<1>5. \A v \in q.tasks : Rising(s, v)
  BY <1>1, <1>4 DEF PromotionInv
<1> QED
  BY <1>2, <1>5 DEF PromotionInv

(* The server answers, refuses or fails.                                   *)
LEMMA PromotionNetwork ==
  ASSUME FrontendInv, UserOK(user), PromotionInv(store, page), Network
  PROVE  PromotionInv(store', page') /\ user'.may = user.may /\ UserOK(user')
<1>1. Good(page, {}) /\ StoreOK(store)
  BY DEF FrontendInv
<1>2. PICK t \in Waiting : Serve(t) \/ Refuse(t) \/ Fail(t)
  BY DEF Network
<1>3. t \in page.tasks
  BY DEF Waiting
<1> DEFINE z == Effect(store, t, Account(t))
<1>4. CASE Serve(t)
  <2> DEFINE r == Answer(store, t, Account(t))
  <2>1. store' = z /\ user' = user /\ Replies(t, r) /\ Permitted(t)
    BY <1>4 DEF Serve
  <2>2. Replied(page, page', t, r)
    BY <1>1, <1>3, <2>1, RepliesReplied
  <2>3. Climbs(store, z) /\ (t.url = "put" => Clear(z, t.ticket))
    BY <1>2, <2>1, EffectClimbs
  <2>4. t.url = "state" => Sound(store, r.rows)
    <3>1. t.url = "state" => r.rows = OnBoard(store, r.board)
      BY StateAnswer DEF Answer
    <3>2. \A b : Sound(store, OnBoard(store, b))
      BY DEF PromotionInv, Sound, OnBoard
    <3> HIDE DEF r
    <3> QED
      BY <3>1, <3>2
  <2> HIDE DEF z, r
  <2>5. PromotionInv(z, page)
    BY <2>3, ClimbsKeeps
  <2>6. t.url = "state" => Sound(z, r.rows)
    BY <2>3, <2>4 DEF Climbs, Sound, Free
  <2>7. PromotionInv(z, page')
    BY <1>3, <2>2, <2>3, <2>5, <2>6, RepliedRising
  <2> QED
    BY <2>1, <2>7
<1>5. ASSUME NEW r, r.status # "ok", Replies(t, r), PromotionInv(store', page)
      PROVE  PromotionInv(store', page')
  <2>1. Replied(page, page', t, r)
    BY <1>1, <1>3, <1>5, RepliesReplied
  <2> QED
    BY <1>3, <1>5, <2>1, RepliedRising
<1>6. CASE Refuse(t)
  <2>1. store' = store /\ user' = user /\ Replies(t, [status |-> "denied"])
    BY <1>6 DEF Refuse
  <2> QED
    BY <1>5, <2>1
<1>7. CASE Fail(t)
  <2>1. UserOK(user') /\ user'.may = user.may /\ Replies(t, [status |-> "failed"])
    BY <1>7 DEF Fail, UserOK
  <2>2. store' = store \/ (store' = z /\ Permitted(t))
    BY <1>7 DEF Fail
  <2>3. PromotionInv(store', page)
    BY <1>2, <2>2, EffectClimbs, ClimbsKeeps
  <2> QED
    BY <1>5, <2>1, <2>3
<1> QED
  BY <1>2, <1>4, <1>6, <1>7

LEMMA PromotionOthers ==
  ASSUME FrontendInv, UserOK(user), PromotionInv(store, page), Expire \/ OtherClient
  PROVE  PromotionInv(store', page') /\ user'.may = user.may /\ UserOK(user')
<1>1. StoreOK(store)
  BY DEF FrontendInv
<1>2. user'.may = user.may /\ page' = page /\ UserOK(user')
  BY DEF Expire, OtherClient, UserOK
<1>3. Climbs(store, store')
  <2>1. CASE Expire
    <3>1. PICK k : store' = WithoutSession(store, k)
      BY <2>1 DEF Expire
    <3>2. store'.rows = store.rows
      BY <1>1, <3>1, SessionKeeps, StoreShape
    <3> QED
      BY <3>2, ClimbsSame
  <2>2. CASE OtherClient
    <3>1. PICK i \in DOMAIN store.rows : store' = WithRow(store, i, store.rows[i])
      BY <2>2 DEF OtherClient
    <3>2. store.rows[i] \in Row
      BY <1>1, StoreShape DEF IsRows, Stored
    <3>3. ~store.rows[i].backlog => Free(store, store.rows[i])
      BY DEF PromotionInv, Sound
    <3>4. store'.rows = WithRow(store, i, store.rows[i]).rows
      BY <3>1
    <3> DEFINE row == store.rows[i]
    <3>5. /\ store.rows[i] = row /\ row \in Row /\ store'.rows = WithRow(store, i, row).rows
          /\ ~row.backlog => Free(store, row)
      BY <3>2, <3>3, <3>4
    <3> HIDE DEF row
    <3> QED
      BY <1>1, <3>5, RowClimbs
  <2> QED
    BY <2>1, <2>2
<1>4. PromotionInv(store', page)
  BY <1>3, ClimbsKeeps
<1> QED
  BY <1>2, <1>4

-----------------------------------------------------------------------------
(* A function resumes.                                                     *)
LEMMA TameChanges ==
  ASSUME NEW p, NEW q, NEW F, Changes(p, q, F), F \intersect {"rows", "tasks"} = {}
  PROVE  Tame(p, q)
<1>1. q.rows = p.rows /\ q.tasks = p.tasks
  BY DEF Changes, PageFields
<1> QED
  BY <1>1 DEF Tame

LEMMA EndPromotion ==
  ASSUME NEW s, NEW p, Good(p, {}), PromotionInv(s, p), NEW t \in p.tasks
  PROVE  LET e == End(p, t) IN
         /\ PromotionInv(s, e) /\ PageShape(e) /\ e.loadGen \in Nat
         /\ Rising(s, t) /\ t.op # "save" /\ TaskShape(t)
<1> DEFINE e == End(p, t)
<1>1. PageShape(p) /\ TaskShape(t)
  BY UnderWay DEF Good
<1>2. Tame(p, e) /\ PageShape(e)
  BY <1>1, TameEnd, EndFields
<1> HIDE DEF e
<1>3. PromotionInv(s, e) /\ e.loadGen \in Nat
  BY <1>2, TameKeeps, ShapeFields
<1>4. Rising(s, t)
  BY DEF PromotionInv
<1>5. t.op # "save"
  BY <1>4 DEF Rising
<1> QED
  BY <1>1, <1>2, <1>3, <1>4, <1>5 DEF e

LEMMA LoadedPromotion ==
  ASSUME NEW s, NEW p, NEW q, Good(p, {}), Good(q, {}), PromotionInv(s, p), NEW t \in p.tasks,
         t.url = "state", Loaded(p, q, t)
  PROVE  PromotionInv(s, q)
<1> DEFINE e == End(p, t)
<1>1. PromotionInv(s, e) /\ e.loadGen \in Nat /\ Rising(s, t)
  BY EndPromotion
<1>2. \/ Redraws(e, q, {})
      \/ t.reply.status = "ok" /\ Shows(e, q, t.reply)
      \/ Remains(e, q, {"history"})
      \/ Quits(e, q)
  BY DEF Loaded
<1> HIDE DEF e
<1>3. CASE Redraws(e, q, {})
  BY <1>1, <1>3, RedrawsTame, TameKeeps
<1>4. CASE t.reply.status = "ok" /\ Shows(e, q, t.reply)
  <2>1. Sound(s, t.reply.rows)
    BY <1>1, <1>4 DEF Rising
  <2> QED
    BY <1>1, <1>4, <2>1, ShowsRising
<1>5. CASE Remains(e, q, {"history"})
  <2>1. \A u \in q.tasks \ e.tasks : u.op = "history"
    BY <1>5 DEF Remains
  <2>2. Tame(e, q)
    BY <1>5, <2>1, RemainsTame
  <2> QED
    BY <1>1, <2>2, TameKeeps
<1>6. CASE Quits(e, q)
  BY <1>1, <1>6, QuitsTame, TameKeeps
<1> QED
  BY <1>2, <1>3, <1>4, <1>5, <1>6

LEMMA WrittenPromotion ==
  ASSUME NEW s, NEW p, NEW q, Good(p, {}), Good(q, {}), PromotionInv(s, p), NEW t \in p.tasks,
         t.op # "promote", Written(p, q, t)
  PROVE  PromotionInv(s, q)
<1> DEFINE e == End(p, t)
<1>1. PromotionInv(s, e) /\ e.loadGen \in Nat /\ t.op # "save"
  BY EndPromotion
<1>2. \/ Loads(e, q, t)
      \/ t.op = "import" /\ Continues(e, q, t)
      \/ Quits(e, q)
      \/ Redraws(e, q, {})
  BY DEF Written
<1> HIDE DEF e
<1>3. CASE Loads(e, q, t)
  BY <1>1, <1>3, LoadsTame, TameKeeps
<1>4. CASE t.op = "import" /\ Continues(e, q, t)
  <2>1. PICK u : q.tasks = e.tasks \union {u} /\ u.op = "import" /\ u.reply = NoReply
    BY <1>4 DEF Continues
  <2>2. TaskShape(u)
    BY <2>1, UnderWay
  <2>3. u.url # "put"
    BY <2>1, <2>2, CallsNoPut
  <2>4. q.rows = e.rows
    BY <1>4 DEF Continues, Kept
  <2>5. Tame(e, q)
    BY <2>1, <2>3, <2>4 DEF Tame
  <2> QED
    BY <1>1, <2>5, TameKeeps
<1>5. CASE Quits(e, q)
  BY <1>1, <1>5, QuitsTame, TameKeeps
<1>6. CASE Redraws(e, q, {})
  BY <1>1, <1>6, RedrawsTame, TameKeeps
<1> QED
  BY <1>2, <1>3, <1>4, <1>5, <1>6

(* The next ticket goes when the one before it has gone.                   *)
LEMMA PromotePromotion ==
  ASSUME NEW s, NEW p, Good(p, {}), PromotionInv(s, p), NEW t \in p.tasks, t.op = "promote",
         t.url # "state", NEW q, Good(q, {}), q = PromoteBacklogTicket(p, t)
  PROVE  PromotionInv(s, q)
<1> DEFINE e == End(p, t)
           d == End(Denied(p, t, TRUE), t)
           h == Head(t.todo)
           todo == Tail(t.todo)
           u == [t EXCEPT !.ticket = h.ticket, !.row = h.row, !.todo = todo]
           v == Asking(e, u)
<1>1. PromotionInv(s, e) /\ PageShape(e) /\ e.loadGen \in Nat /\ Rising(s, t) /\ TaskShape(t)
  BY EndPromotion
<1>2. /\ t.reply.status # "denied" => d = e
      /\ d = e \/ Quits(e, d)
  BY DeniedCases
<1>3. t.url = "put"
  <2>1. <<t.op, t.url>> \in Calls
    BY <1>1 DEF TaskShape
  <2> QED
    BY <2>1 DEF Calls
<1>4. CASE Succeeded(t) /\ t.todo # << >>
  <2>1. d = e
    BY <1>2, <1>4 DEF Succeeded
  <2>2. q = SendNext(e, u)
    BY <1>4, <2>1 DEF PromoteBacklogTicket
  <2>3. t.todo \in Seq(Promotion)
    BY <1>1 DEF TaskShape
  <2>4. Clear(s, t.ticket) /\ InOrder(s, t.ticket, t.todo)
    BY <1>1, <1>3, <1>4 DEF Rising, Succeeded
  <2>5. Ordered(s, t.todo)
    BY <2>4, InOrderOrdered
  <2>6. /\ ~h.row.backlog /\ (Free(s, h.row) \/ h.row.parent = h.ticket)
        /\ InOrder(s, h.ticket, todo)
    BY <1>4, <2>3, <2>5, OrderedBegins
  <2> HIDE DEF h, todo, e
  <2>7. /\ IsTask(u) /\ u.op = "promote" /\ u.url = "put" /\ u.ticket = h.ticket /\ u.row = h.row
        /\ u.todo = todo
    BY <1>1, <1>3 DEF TaskShape, IsTask, TaskFields
  <2> HIDE DEF u
  <2>8. /\ v.reply = NoReply /\ v.op = "promote" /\ v.url = "put" /\ v.ticket = h.ticket
        /\ v.row = h.row /\ v.todo = todo
    BY <2>7 DEF Asking, IsTask, TaskFields
  <2>9. q.tasks = e.tasks \union {v} /\ q.rows = e.rows
    <3> DEFINE m == [e EXCEPT !.tasks = e.tasks \union {v}]
    <3>1. q = m
      BY <2>2 DEF SendNext, Asking
    <3> HIDE DEF v
    <3>2. m.tasks = e.tasks \union {v} /\ m.rows = e.rows
      BY <1>1 DEF PageShape, IsPage, PageFields
    <3> QED
      BY <3>1, <3>2
  <2> HIDE DEF v
  <2>10. v.reply.status = "none"
    BY <2>8 DEF NoReply
  <2>11. Rising(s, v)
    BY <2>6, <2>8, <2>10 DEF Rising
  <2> QED
    BY <1>1, <2>9, <2>11, RisingAdds DEF e
<1>5. CASE Succeeded(t) /\ t.todo = << >>
  <2>1. d = e
    BY <1>2, <1>5 DEF Succeeded
  <2>2. q = Load(e, t)
    BY <1>5, <2>1 DEF PromoteBacklogTicket
  <2> HIDE DEF e
  <2>3. t.op \in LoadOnly
    BY DEF LoadOnly
  <2>4. Loads(e, q, t)
    BY <1>1, <2>2, <2>3, LoadLoads
  <2> QED
    BY <1>1, <2>4, LoadsTame, TameKeeps DEF e
<1>6. CASE ~Succeeded(t)
  <2>1. q = d
    BY <1>6 DEF PromoteBacklogTicket
  <2> HIDE DEF e, d
  <2> QED
    BY <1>1, <1>2, <2>1, QuitsTame, TameKeeps DEF e
<1> QED
  BY <1>4, <1>5, <1>6

LEMMA AnsweredPromotion ==
  ASSUME NEW s, NEW p, NEW q, Good(p, {}), Good(q, {}), PromotionInv(s, p), NEW t \in p.tasks,
         NEW O, O \intersect {"save", "epic", "promote"} = {}, Answered(p, q, t, O)
  PROVE  PromotionInv(s, q)
<1> DEFINE e == End(p, t)
<1>1. PromotionInv(s, e)
  BY EndPromotion
<1>2. Remains(e, q, O) \/ Quits(e, q)
  BY DEF Answered
<1> HIDE DEF e
<1>3. CASE Remains(e, q, O)
  <2>1. \A u \in q.tasks \ e.tasks : u.op \in O
    BY <1>3 DEF Remains
  <2>2. Tame(e, q)
    BY <1>3, <2>1, RemainsTame
  <2> QED
    BY <1>1, <2>2, TameKeeps
<1>4. CASE Quits(e, q)
  BY <1>1, <1>4, QuitsTame, TameKeeps
<1> QED
  BY <1>2, <1>3, <1>4

LEMMA SignsPromotion ==
  ASSUME NEW s, NEW p, NEW q, Good(p, {}), Good(q, {}), PromotionInv(s, p), NEW t \in p.tasks,
         SignsIn(p, q, t) \/ SignsAgain(p, q, t) \/ SignsOut(p, q, t)
  PROVE  PromotionInv(s, q)
<1> DEFINE e == End(p, t)
<1>1. PromotionInv(s, e) /\ PageShape(e) /\ t.op # "save"
  BY EndPromotion
<1>2. \/ q = e
      \/ Quits(e, q)
      \/ Changes(e, q, {"jar", "locked"})
      \/ \E x : /\ PageShape(x) /\ Changes(e, x, {"jar"})
                /\ \/ q = x
                   \/ Loads(x, q, t)
                   \/ Loads(InvalidateSessionRequests(x), q, t)
  BY DEF SignsIn, SignsAgain, SignsOut
<1> HIDE DEF e
<1>3. CASE q = e
  BY <1>1, <1>3
<1>4. CASE Quits(e, q)
  BY <1>1, <1>4, QuitsTame, TameKeeps
<1>5. CASE Changes(e, q, {"jar", "locked"})
  BY <1>1, <1>5, TameChanges, TameKeeps
<1>6. ASSUME NEW x, PageShape(x), Changes(e, x, {"jar"}),
             q = x \/ Loads(x, q, t) \/ Loads(InvalidateSessionRequests(x), q, t)
      PROVE  PromotionInv(s, q)
  <2> DEFINE n == InvalidateSessionRequests(x)
  <2>1. PromotionInv(s, x) /\ x.loadGen \in Nat
    BY <1>1, <1>6, TameChanges, TameKeeps, ShapeFields
  <2>2. PageShape(n) /\ Changes(x, n, {"history", "historyGen", "session", "loadGen"})
    BY <1>6, InvalidateFrame
  <2> HIDE DEF n
  <2>3. PromotionInv(s, n) /\ n.loadGen \in Nat
    BY <2>1, <2>2, TameChanges, TameKeeps, ShapeFields
  <2>4. CASE q = x
    BY <2>1, <2>4
  <2>5. CASE Loads(x, q, t)
    BY <1>1, <2>1, <2>5, LoadsTame, TameKeeps
  <2>6. CASE Loads(n, q, t)
    BY <1>1, <2>3, <2>6, LoadsTame, TameKeeps
  <2> QED
    BY <1>6, <2>4, <2>5, <2>6 DEF n
<1> QED
  BY <1>2, <1>3, <1>4, <1>5, <1>6

LEMMA ShownPromotion ==
  ASSUME NEW s, NEW p, NEW q, Good(p, {}), Good(q, {}), PromotionInv(s, p), NEW t \in p.tasks,
         \/ Redraws(End(p, t), q, {})
         \/ ShowsHistory(p, q, t)
         \/ Notifies(p, q, t)
         \/ t.sent = p.session /\ Quits(End(p, t), q)
  PROVE  PromotionInv(s, q)
<1> DEFINE e == End(p, t)
<1>1. PromotionInv(s, e) /\ e.loadGen \in Nat
  BY EndPromotion
<1>2. \/ Redraws(e, q, {})
      \/ Changes(e, q, {"history"})
      \/ Changes(e, q, {"notes"})
      \/ Quits(e, q)
  BY DEF ShowsHistory, Notifies
<1> HIDE DEF e
<1>3. Tame(e, q)
  <2>1. CASE Redraws(e, q, {})
    BY <1>1, <2>1, RedrawsTame
  <2>2. CASE Changes(e, q, {"history"}) \/ Changes(e, q, {"notes"})
    BY <2>2, TameChanges
  <2>3. CASE Quits(e, q)
    BY <2>3, QuitsTame
  <2> QED
    BY <1>2, <2>1, <2>2, <2>3
<1> QED
  BY <1>1, <1>3, TameKeeps

LEMMA PromotionResume ==
  ASSUME FrontendInv, FrontendInv', PromotionInv(store, page), Resume
  PROVE  PromotionInv(store', page') /\ user' = user
<1>1. Good(page, {}) /\ StoreOK(store) /\ Good(page', {})
  BY DEF FrontendInv, Good, PageShape, TasksOK, IdsUnique, WritersBind, Alive, EditorHolds, MutationRuns, QueueWaits, HasText, DraftRests
<1>2. ASSUME NEW q, Resumes(q)
      PROVE  q = page' /\ store' = store /\ user' = user
  BY <1>2 DEF Resumes
<1>3. CASE ResumeLoad
  <2>1. PICK t \in page.tasks : t.url = "state" /\ t.reply.status # "none"
                                /\ Resumes(AfterLoad(page, t))
    BY <1>3 DEF ResumeLoad
  <2>2. Loaded(page, AfterLoad(page, t), t)
    BY <1>1, <2>1, AfterLoadLoaded
  <2>3. AfterLoad(page, t) = page' /\ store' = store /\ user' = user
    BY <1>2, <2>1
  <2> QED
    BY <1>1, <2>1, <2>2, <2>3, LoadedPromotion
<1>4. ASSUME NEW t \in page.tasks, NEW q, Resumes(q), t.op \in Changers \ {"promote"},
             t.url # "state", Written(page, q, t)
      PROVE  PromotionInv(store', page') /\ user' = user
  BY <1>1, <1>2, <1>4, WrittenPromotion
<1>5. CASE ResumeEditor
  <2>1. PICK t \in page.tasks :
          /\ t.url # "state" /\ t.reply.status # "none"
          /\ \/ t.op = "save" /\ Resumes(SaveDrawer(page, t))
             \/ t.op = "comment" /\ Resumes(AddComment(page, t))
             \/ t.op \in {"trash", "duplicate"} /\ Resumes(TaskDrawerAction(page, t))
    BY <1>5 DEF ResumeEditor, Arrived
  <2>2. <<t.op, t.url>> \in Calls
    BY <1>1, <2>1, UnderWay DEF TaskShape
  <2>3. t.op \in Changers \ {"promote"}
    BY <2>1 DEF Changers
  <2> QED
    BY <1>1, <1>4, <2>1, <2>2, <2>3, SaveWritten, CommentWritten, ActionWritten
<1>6. CASE ResumeBoard
  <2>1. PICK t \in page.tasks :
          /\ t.url # "state" /\ t.reply.status # "none"
          /\ \/ t.op = "move" /\ Resumes(MoveBoardTicket(page, t))
             \/ t.op = "epic" /\ Resumes(ChangeEpicCompletion(page, t))
             \/ t.op = "promote" /\ Resumes(PromoteBacklogTicket(page, t))
             \/ t.op = "create" /\ Resumes(CreateTicket(page, t))
             \/ t.op = "restore" /\ Resumes(RestoreTask(page, t))
             \/ t.op = "import" /\ Resumes(ImportBoardFile(page, t))
    BY <1>6 DEF ResumeBoard, Arrived
  <2>2. t.op \in Changers
    BY <2>1 DEF Changers
  <2>3. CASE t.url = "file" /\ t.reply.status = "denied" /\ t.op = "import"
    <3>1. Resumes(ImportBoardFile(page, t))
      BY <2>1, <2>3
    <3>2. ImportBoardFile(page, t) = End(page, t)
      BY <2>3 DEF ImportBoardFile, Succeeded
    <3>3. page' = End(page, t) /\ store' = store /\ user' = user
      BY <1>2, <3>1, <3>2
    <3> QED
      BY <1>1, <3>3, EndPromotion
  <2>4. CASE t.op = "promote"
    <3>1. Resumes(PromoteBacklogTicket(page, t))
      BY <2>1, <2>4
    <3>2. PromoteBacklogTicket(page, t) = page' /\ store' = store /\ user' = user
      BY <1>2, <3>1
    <3> QED
      BY <1>1, <2>1, <2>4, <3>2, PromotePromotion
  <2>5. CASE t.op # "promote" /\ ~(t.url = "file" /\ t.reply.status = "denied" /\ t.op = "import")
    <3>1. t.op = "import" /\ t.url = "file" => t.reply.status # "denied"
      BY <2>5
    <3> QED
      BY <1>1, <1>4, <2>1, <2>2, <2>5, <3>1, MoveWritten, EpicWritten, CreateWritten, ImportWritten
  <2> QED
    BY <2>3, <2>4, <2>5
<1>7. CASE ResumePage
  <2>1. PICK t \in page.tasks :
          /\ t.url # "state" /\ t.reply.status # "none"
          /\ \/ t.op = "notification" /\ Resumes(OpenNotification(page, t))
             \/ t.op = "newBoard" /\ Resumes(CreateBoard(page, t))
             \/ t.op = "login" /\ Resumes(Login(page, t))
             \/ t.op = "logout" /\ Resumes(Logout(page, t))
             \/ t.op = "history" /\ Resumes(ShowHistory(page, t))
             \/ t.op = "poll" /\ Resumes(RefreshNotifications(page, t))
             \/ t.op = "password" /\ Resumes(SavePassword(page, t))
    BY <1>7 DEF ResumePage, Arrived
  <2>2. CASE t.op = "notification"
    <3>1. Resumes(OpenNotification(page, t))
      BY <2>1, <2>2
    <3>2. Answered(page, page', t, {"notification", "history"}) /\ store' = store /\ user' = user
      BY <1>1, <1>2, <2>1, <2>2, <3>1, NotificationAnswered
    <3> QED
      BY <1>1, <2>1, <2>2, <3>2, AnsweredPromotion
  <2>3. CASE t.op = "newBoard"
    <3>1. Resumes(CreateBoard(page, t))
      BY <2>1, <2>3
    <3>2. Answered(page, page', t, {"newBoard", "history"}) /\ store' = store /\ user' = user
      BY <1>1, <1>2, <2>1, <2>3, <3>1, NewBoardAnswered
    <3> QED
      BY <1>1, <2>1, <2>3, <3>2, AnsweredPromotion
  <2>4. CASE t.op = "login"
    <3>1. Resumes(Login(page, t))
      BY <2>1, <2>4
    <3>2. SignsIn(page, page', t) /\ store' = store /\ user' = user
      BY <1>1, <1>2, <2>1, <2>4, <3>1, LoginAnswered
    <3> QED
      BY <1>1, <2>1, <2>4, <3>2, SignsPromotion
  <2>5. CASE t.op = "logout"
    <3>1. Resumes(Logout(page, t))
      BY <2>1, <2>5
    <3>2. SignsOut(page, page', t) /\ store' = store /\ user' = user
      BY <1>1, <1>2, <2>1, <2>5, <3>1, LogoutAnswered
    <3> QED
      BY <1>1, <2>1, <2>5, <3>2, SignsPromotion
  <2>6. CASE t.op = "password"
    <3>1. Resumes(SavePassword(page, t))
      BY <2>1, <2>6
    <3>2. SignsAgain(page, page', t) /\ store' = store /\ user' = user
      BY <1>1, <1>2, <2>1, <2>6, <3>1, PasswordAnswered
    <3> QED
      BY <1>1, <2>1, <2>6, <3>2, SignsPromotion
  <2>7. CASE t.op = "history"
    <3> DEFINE q == ShowHistory(page, t)
    <3>1. Resumes(q)
      BY <2>1, <2>7
    <3>2. \/ Redraws(End(page, t), q, {})
          \/ ShowsHistory(page, q, t)
          \/ t.sent = page.session /\ Quits(End(page, t), q)
      BY <1>1, <2>7, HistoryAnswered
    <3>3. q = page' /\ store' = store /\ user' = user
      BY <1>2, <3>1
    <3> HIDE DEF q
    <3> QED
      BY <1>1, <2>1, <2>7, <3>2, <3>3, ShownPromotion
  <2>8. CASE t.op = "poll"
    <3> DEFINE q == RefreshNotifications(page, t)
    <3>1. Resumes(q)
      BY <2>1, <2>8
    <3>2. \/ Redraws(End(page, t), q, {})
          \/ Notifies(page, q, t)
          \/ t.sent = page.session /\ Quits(End(page, t), q)
      BY <1>1, <2>8, PollAnswered
    <3>3. q = page' /\ store' = store /\ user' = user
      BY <1>2, <3>1
    <3> HIDE DEF q
    <3> QED
      BY <1>1, <2>1, <2>8, <3>2, <3>3, ShownPromotion
  <2> QED
    BY <2>1, <2>2, <2>3, <2>4, <2>5, <2>6, <2>7, <2>8
<1> QED
  BY <1>3, <1>5, <1>6, <1>7 DEF Resume

-----------------------------------------------------------------------------
(* The user's handlers, as far as promotion goes.                          *)
LEMMA TameAfter ==
  ASSUME NEW p, NEW m, NEW q, NEW F, Changes(p, m, F), F \intersect {"rows", "tasks"} = {},
         Tame(m, q)
  PROVE  Tame(p, q)
BY TameChanges, TameThen

LEMMA ChooseTame ==
  ASSUME FrontendInv, Good(page', {}), NEW b \in BoardIds, ChooseBoard(b)
  PROVE  Tame(page, page')
<1> DEFINE d == ResetDrawer(page)
           m == [d EXCEPT !.selected = b]
<1>0. PageShape(page)
  BY DEF FrontendInv, Good
<1>1. page' = LoadNow(m)
  BY DEF ChooseBoard
<1>2. PageShape(d) /\ Changes(page, d, {"editGen", "editing", "clone", "mutation", "draft", "base", "queued"})
  BY <1>0, ResetDrawerFrame
<1> HIDE DEF d
<1>3. Changes(d, m, {"selected"}) /\ m.selected = b
  BY <1>2 DEF PageShape, IsPage, PageFields, Changes
<1> HIDE DEF m
<1>4. PageShape(m)
  BY <1>2, <1>3, ChangedShape DEF FieldOK
<1>5. PICK t : t.op = "load" /\ Loads(m, page', t)
  BY <1>1, <1>4, LoadNowLoads
<1>6. Tame(m, page')
  BY <1>4, <1>5, LoadsTame, ShapeFields
<1> QED
  <2>1. Tame(d, page')
    BY <1>3, <1>6, TameAfter
  <2> QED
    BY <1>2, <2>1, TameAfter

LEMMA RouteTame ==
  ASSUME FrontendInv, Good(page', {}), NEW r \in Routes, ApplyRoute(r)
  PROVE  Tame(page, page')
<1> DEFINE board == IF r.board # 0 THEN r.board
                    ELSE IF page.board # 0 THEN page.board ELSE page.selected
           d == ResetDrawer(page)
           gen == IF board # page.selected THEN d.loadGen + 1 ELSE d.loadGen
           m == [d EXCEPT !.loadGen = gen, !.selected = board, !.view = r.view,
                          !.queued = r.ticket]
           F == {"loadGen", "selected", "view", "queued"}
<1>0. PageShape(page) /\ Good(page, {})
  BY DEF FrontendInv, Good
<1>1. page' \in {LoadNow(m), Render(m)}
  BY DEF ApplyRoute
<1>2. PageShape(d) /\ Changes(page, d, {"editGen", "editing", "clone", "mutation", "draft", "base", "queued"})
  BY <1>0, ResetDrawerFrame
<1>3. board \in BoardIds \union {0}
  BY <1>0, RouteTypes, ShapeFields
<1> HIDE DEF d, board
<1>4. gen \in Nat
  BY <1>2, ShapeFields
<1> HIDE DEF gen
<1>5. /\ Changes(d, m, F) /\ m.loadGen = gen /\ m.selected = board /\ m.view = r.view
      /\ m.queued = r.ticket
  BY <1>2 DEF PageShape, IsPage, PageFields, Changes
<1> HIDE DEF m
<1>6. \A f \in F : FieldOK(f, m[f])
  BY <1>3, <1>4, <1>5, RouteTypes DEF FieldOK
<1>7. F \intersect (Core \ {"queued"}) = {}
  BY DEF Core
<1>8. Good(m, {})
  BY <1>0, <1>5, <1>6, <1>7, Prepared DEF d
<1>9. PageShape(m) /\ m.loadGen \in Nat
  BY <1>8, GoodGenerations
<1>10. ASSUME page' = LoadNow(m)
       PROVE  Tame(m, page')
  <2>1. PICK t : t.op = "load" /\ Loads(m, page', t)
    BY <1>9, <1>10, LoadNowLoads
  <2> QED
    BY <1>9, <2>1, LoadsTame
<1>11. ASSUME page' = Render(m)
       PROVE  Tame(m, page')
  <2>1. Redraws(m, page', {"history"})
    BY <1>8, <1>11, RedrawsRender
  <2> QED
    BY <1>9, <2>1, RedrawsTame
<1>12. Tame(m, page')
  BY <1>1, <1>10, <1>11
<1> QED
  <2>1. Tame(d, page')
    BY <1>5, <1>12, TameAfter
  <2> QED
    BY <1>2, <2>1, TameAfter

LEMMA NotificationTame ==
  ASSUME FrontendInv, Good(page', {}), NEW i \in Ids, ClickNotification(i)
  PROVE  Tame(page, page')
<1> DEFINE d == ResetDrawer(page)
           b == store.rows[i].board
           m == [d EXCEPT !.selected = b, !.queued = i, !.view = "board",
                          !.loadGen = d.loadGen + 1]
           t == Task("notification", "read")
           F == {"selected", "queued", "view", "loadGen"}
<1>0. PageShape(page) /\ StoreOK(store)
  BY DEF FrontendInv, Good
<1>1. page' = Send(m, t) /\ i \in DOMAIN store.rows
  BY DEF ClickNotification
<1>2. PageShape(d) /\ Changes(page, d, {"editGen", "editing", "clone", "mutation", "draft", "base", "queued"})
  BY <1>0, ResetDrawerFrame
<1>3. b \in BoardIds \union {0}
  BY <1>0, <1>1, StoreShape DEF IsRows, Stored, Row
<1> HIDE DEF d, b
<1>4. d.loadGen + 1 \in Nat
  BY <1>2, ShapeFields
<1>5. /\ Changes(d, m, F) /\ m.selected = b /\ m.queued = i /\ m.view = "board"
      /\ m.loadGen = d.loadGen + 1
  BY <1>2 DEF PageShape, IsPage, PageFields, Changes
<1> HIDE DEF m
<1>6. \A f \in F : FieldOK(f, m[f])
  BY <1>3, <1>4, <1>5 DEF FieldOK, Views
<1>7. PageShape(m) /\ m.loadGen \in Nat
  BY <1>2, <1>4, <1>5, <1>6, ChangedShape
<1>8. IsTask(t) /\ t.reply = NoReply /\ t.url = "read" /\ t.op = "notification"
  BY TaskStarts
<1> HIDE DEF t
<1>9. Redraws(m, page', {"notification"})
  BY <1>1, <1>7, <1>8, SendStarts
<1>10. Tame(m, page')
  BY <1>7, <1>9, RedrawsTame
<1> QED
  <2>1. Tame(d, page')
    BY <1>5, <1>10, TameAfter
  <2> QED
    BY <1>2, <2>1, TameAfter

LEMMA NewBoardTame ==
  ASSUME FrontendInv, Good(page', {}), ClickCreateBoard
  PROVE  Tame(page, page')
<1> DEFINE d == ResetDrawer(page)
           t == Task("newBoard", "board")
<1>0. PageShape(page)
  BY DEF FrontendInv, Good
<1>1. page' = Send(d, t)
  BY DEF ClickCreateBoard
<1>2. PageShape(d) /\ Changes(page, d, {"editGen", "editing", "clone", "mutation", "draft", "base", "queued"})
  BY <1>0, ResetDrawerFrame
<1> HIDE DEF d
<1>8. IsTask(t) /\ t.reply = NoReply /\ t.url = "board" /\ t.op = "newBoard"
  BY TaskStarts
<1> HIDE DEF t
<1>9. Redraws(d, page', {"newBoard"})
  BY <1>1, <1>2, <1>8, SendStarts
<1>10. Tame(d, page')
  BY <1>2, <1>9, RedrawsTame, ShapeFields
<1> QED
  BY <1>2, <1>10, TameAfter

LEMMA SignsTame ==
  ASSUME NEW p, PageShape(p), NEW t, t.op # "save", t.url # "put", t.reply = NoReply, IsTask(t)
  PROVE  Tame(p, Send(p, t))
<1> DEFINE u == Sent(p, t)
           q == Send(p, t)
<1>1. u.op = t.op /\ u.url = t.url /\ u.reply = t.reply
  BY DEF Sent, IsTask, TaskFields
<1>2. Changes(p, q, {"tasks", "serial"}) /\ q.tasks = p.tasks \union {u}
  BY SendChanges
<1> HIDE DEF u, q
<1>3. q.rows = p.rows
  BY <1>2 DEF Changes, PageFields
<1>4. Tame(p, q)
  BY <1>1, <1>2, <1>3 DEF Tame
<1> QED
  BY <1>4 DEF q

LEMMA LogoutTame ==
  ASSUME FrontendInv, ClickLogout
  PROVE  Tame(page, page')
<1> DEFINE r == ShowLoggedOut(page)
           t == Task("logout", "logout")
           s == Send(r, t)
           q == [s EXCEPT !.locked = TRUE]
<1>1. page' = q
  BY DEF ClickLogout
<1>2. Good(page, {}) /\ PageShape(page)
  BY DEF FrontendInv, Good
<1>3. PageShape(r) /\ Quits(page, r)
  BY <1>2, LoggedOutQuits, GoodLoggedOut DEF Good
<1>4. IsTask(t) /\ t.op = "logout" /\ t.url = "logout" /\ t.reply = NoReply
  BY TaskStarts
<1> HIDE DEF t, r
<1>5. Tame(r, s)
  BY <1>3, <1>4, SignsTame
<1>6. Changes(r, s, {"tasks", "serial"})
  BY <1>3, SendChanges
<1> HIDE DEF s
<1>7. q.rows = s.rows /\ q.tasks = s.tasks
  BY <1>6 DEF Changes, IsPage, PageFields
<1> HIDE DEF q
<1>8. Tame(r, q)
  BY <1>5, <1>7 DEF Tame
<1> QED
  BY <1>1, <1>3, <1>8, QuitsTame, TameThen

LEMMA LoginTame ==
  ASSUME FrontendInv, NEW a \in Users, NEW r \in Routes, ClickLogin(a, r)
  PROVE  Tame(page, page')
<1> DEFINE n == InvalidateSessionRequests(page)
           d == ResetDrawer(n)
           b == IF r.board # 0 THEN r.board ELSE d.selected
           m == [d EXCEPT !.selected = b, !.queued = r.ticket, !.view = r.view]
           w == Task("login", "login")
           t == [w EXCEPT !.ask = a]
<1>1. page' = Send(m, t)
  BY DEF ClickLogin
<1>2. PageShape(page)
  BY DEF FrontendInv, Good
<1>3. PageShape(n) /\ Changes(page, n, {"history", "historyGen", "session", "loadGen"})
  BY <1>2, InvalidateFrame
<1> HIDE DEF n
<1>4. PageShape(d) /\ Changes(n, d, {"editGen", "editing", "clone", "mutation", "draft", "base", "queued"})
  BY <1>3, ResetDrawerFrame
<1>5. IsTask(w) /\ w.op = "login" /\ w.url = "login" /\ w.reply = NoReply
  BY TaskStarts
<1> HIDE DEF d, w
<1>6. IsTask(t) /\ t.op = "login" /\ t.url = "login" /\ t.reply = NoReply
  BY <1>5 DEF IsTask, TaskFields
<1>7. b \in BoardIds \union {0}
  BY <1>4, RouteTypes, ShapeFields
<1> HIDE DEF b, t
<1>8. /\ Changes(d, m, {"selected", "queued", "view"})
      /\ m.selected = b /\ m.queued = r.ticket /\ m.view = r.view
  BY <1>4 DEF PageShape, IsPage, PageFields, Changes
<1> HIDE DEF m
<1>9. PageShape(m)
  BY <1>4, <1>7, <1>8, RouteTypes, ChangedShape DEF FieldOK
<1>10. Tame(m, page')
  BY <1>1, <1>6, <1>9, SignsTame
<1>11. Tame(d, page')
  BY <1>8, <1>10, TameAfter
<1>12. Tame(n, page')
  BY <1>4, <1>11, TameAfter
<1> QED
  BY <1>3, <1>12, TameAfter

LEMMA PromotionUser ==
  ASSUME FrontendInv, FrontendInv', UserOK(user), "save" \notin user.may,
         PromotionInv(store, page), Navigate \/ Edit \/ ChangeBoard \/ Sign
  PROVE  PromotionInv(store', page')
<1>0. Good(page, {}) /\ Good(page', {})
  BY DEF FrontendInv, Good, PageShape, TasksOK, IdsUnique, WritersBind, Alive, EditorHolds, MutationRuns, QueueWaits, HasText, DraftRests
<1>1. Good(page, {}) /\ Good(page', {}) /\ page.loadGen \in Nat
  BY <1>0, GoodGenerations
<1>2. store' = store
  BY UserActs
<1>3. ASSUME Tame(page, page')
      PROVE  PromotionInv(store, page')
  BY <1>3, TameKeeps
<1>4. ASSUME NEW op \in Working, Works(op)
      PROVE  PromotionInv(store, page')
  <2>1. op # "save" /\ Redraws(page, page', {op, "history"})
    BY <1>4 DEF Works
  <2>2. CASE op = "epic"
    BY <1>1, <1>4, <2>2, EpicClicked DEF Works
  <2>3. CASE op = "promote"
    BY <1>1, <1>4, <2>3, PromoteClicked DEF Works
  <2>4. CASE op \notin {"epic", "promote"}
    <3>1. {op, "history"} \intersect {"save", "epic", "promote"} = {}
      BY <2>1, <2>4
    <3> QED
      BY <1>1, <1>3, <2>1, <3>1, RedrawsTame
  <2> QED
    BY <2>2, <2>3, <2>4
<1>5. CASE Disturbs
  BY <1>1, <1>2, <1>3, <1>5, ChooseTame, RouteTame, NotificationTame, NewBoardTame DEF Disturbs
<1>6. CASE ClickLogout
  BY <1>2, <1>3, <1>6, LogoutTame
<1>7. CASE \E u \in Users, r \in Routes : ClickLogin(u, r)
  BY <1>2, <1>3, <1>7, LoginTame
<1> QED
  BY <1>1, <1>2, <1>4, <1>5, <1>6, <1>7, UserWorks

(* Who saves no ticket promotes parents first.                             *)
ParentsFirst ==
  /\ UserOK(user)
  /\ "save" \notin user.may => PromotionInv(store, page)

LEMMA PromotionInit ==
  ASSUME Init, BacklogsStand
  PROVE  ParentsFirst
<1>1. PICK c \in Scenarios, a \in Users :
        /\ user = [may |-> c.may, left |-> c.left, fails |-> c.fails, calm |-> TRUE]
        /\ store = [rows |-> c.rows, access |-> InitialAccess, owner |-> <<a>>, live |-> {1},
                    accepted |-> {}]
  BY DEF Init
<1>2. UserOK(user)
  BY <1>1 DEF UserOK
<1>3. Numbered(store) /\ Sound(store, store.rows)
  <2>1. store.rows = c.rows
    BY <1>1
  <2>2. Numbered(c) /\ Sound(c, c.rows)
    BY DEF BacklogsStand
  <2> QED
    BY <2>1, <2>2 DEF Numbered, Sound, Clear, Free
<1>4. page = Opened(1)
  BY DEF Init
<1>5. PICK p, t : /\ PageShape(p) /\ p.tasks = {} /\ p.rows = << >>
                  /\ t.op = "load" /\ Loads(p, page, t)
  BY <1>4, OpenedLoads
<1>6. /\ page.rows = << >>
      /\ \A u \in page.tasks :
           \/ Starts(page, u) /\ u.op = "history"
           \/ Requests(page, u) /\ u.op = "load"
  BY <1>5 DEF Loads, Kept
<1>7. ASSUME NEW u \in page.tasks
      PROVE  Rising(store, u)
  <2>1. u.op \in {"load", "history"} /\ u.reply.status = "none"
    BY <1>6, <1>7 DEF Starts, Requests, NoReply
  <2>2. u.url # "put"
    <3>1. FrontendInv
      BY InitInvariant
    <3>2. TaskShape(u)
      BY <3>1, UnderWay DEF FrontendInv
    <3> QED
      BY <2>1, <3>2, CallsNoPut
  <2> QED
    BY <2>1, <2>2 DEF Rising
<1>8. Sound(store, page.rows)
  BY <1>6 DEF Sound
<1> QED
  BY <1>2, <1>3, <1>7, <1>8 DEF ParentsFirst, PromotionInv

LEMMA PromotionStep ==
  ASSUME FrontendInv, ParentsFirst, [Next]_vars
  PROVE  ParentsFirst'
<1>1. FrontendInv' /\ UserOK(user)
  BY StepInvariant DEF ParentsFirst
<1>2. /\ UserOK(user') /\ user'.may = user.may
      /\ "save" \notin user.may => PromotionInv(store', page')
  <2>1. CASE Network
    <3>1. UserOK(user') /\ user'.may = user.may
      BY <1>1, <2>1 DEF Network, Serve, Refuse, Fail, UserOK
    <3> QED
      BY <1>1, <2>1, <3>1, PromotionNetwork DEF ParentsFirst
  <2>2. CASE Expire \/ OtherClient
    <3>1. UserOK(user') /\ user'.may = user.may
      BY <1>1, <2>2 DEF Expire, OtherClient, UserOK
    <3> QED
      BY <1>1, <2>2, <3>1, PromotionOthers DEF ParentsFirst
  <2>3. CASE Resume
    <3>1. user' = user
      BY <2>3 DEF Resume, ResumeLoad, ResumeEditor, ResumeBoard, ResumePage, Resumes
    <3> QED
      BY <1>1, <2>3, <3>1, PromotionResume DEF ParentsFirst
  <2>4. CASE Navigate \/ Edit \/ ChangeBoard \/ Sign
    <3>1. UserOK(user') /\ user'.may = user.may
      <4>1. PICK op : Does(op)
        BY <2>4 DEF Navigate, Edit, ChangeBoard, Sign, ChooseBoard, ApplyRoute, NavButton,
             ClickNotification, ClickCreateBoard, OpenTicket, TypeText, TypeComment, CloseDrawer,
             ClickSave, ClickComment, ClickAction, DropCard, ClickEpicStatus, ClickRestore,
             ClickPromote, ClickAdd, ChooseFile, Poll, ClickLogout, ClickSavePassword, ClickLogin
      <4> QED
        BY <1>1, <4>1, DoesFields
    <3> QED
      BY <1>1, <2>4, <3>1, PromotionUser DEF ParentsFirst
  <2>5. CASE UNCHANGED vars
    BY <1>1, <2>5 DEF vars, ParentsFirst
  <2> QED
    BY <2>1, <2>2, <2>3, <2>4, <2>5 DEF Next
<1>3. PromotionInv(store, page)' <=> PromotionInv(store', page')
  BY DEF PromotionInv, Numbered, Sound, Clear, Free, Rising, InOrder
<1> QED
  BY <1>2, <1>3 DEF ParentsFirst, UserOK

(* However many requests of a promotion succeed, in whatever order, and    *)
(* whatever happens to a ticket between the click and its answer, no       *)
(* ticket on the board has its parent in the backlog                       *)
(* (promoteBacklogTicket: parent first).  A save writes the whole ticket   *)
(* as the drawer showed it, backlog flag and parent included, and so the   *)
(* theorem is about users who save none.                                   *)
THEOREM ParentsPromotedFirst ==
  ASSUME BacklogsStand
  PROVE  Spec => []("save" \notin user.may => NoBacklogAbove)
<1>1. Init => ParentsFirst
  BY PromotionInit
<1>2. FrontendInv /\ ParentsFirst /\ [Next]_vars => ParentsFirst'
  BY PromotionStep
<1>3. ParentsFirst => ("save" \notin user.may => NoBacklogAbove)
  BY DEF ParentsFirst, PromotionInv, Sound, Clear, Free, NoBacklogAbove
<1> QED
  BY <1>1, <1>2, <1>3, FrontendInvariant, PTL DEF Spec
=============================================================================
