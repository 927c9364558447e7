------------------------------ MODULE Tickets -------------------------------
(***************************************************************************)
(* The tickets of one board as the HTTP handlers of the server change them. *)
(*                                                                         *)
(* Every request runs in a goroutine of its own; Clients is the set of     *)
(* requests that can be in flight at once.  The database has a single      *)
(* connection, which a transaction keeps until it ends: transactions are   *)
(* atomic, but a handler that reads BEFORE it begins its transaction reads *)
(* in separate statements, and other transactions may commit in between.   *)
(* A handler is therefore a sequence of steps: the statements it executes  *)
(* before its transaction, grouped by what they check, and the commit.     *)
(*                                                                         *)
(* A check that fails and a statement that fails end the same way: an      *)
(* error is answered and nothing is written.  Both are the action Fail;    *)
(* the guards below are those of the successful path.                      *)
(***************************************************************************)
EXTENDS TicketRules

CONSTANTS
  Clients,        \* request slots
  Requests,       \* the requests that clients send
  MaxClock,       \* bound: no request is accepted once the clock passed it
  InitialStores   \* databases the first start may find

(* A ticket form with a column of the given set; NoExtras is an omitted    *)
(* "extras" object, which older clients do not know.                       *)
Draft(columns) ==
  [type: Types, parent: {0} \union Ids, column: columns, position: Nat,
   backlog: BOOLEAN, repeat: RepeatDays \union {NoExtras}, links: SUBSET Ids]

Request(columns) ==
       [kind: {"create"}, ticket: Draft(columns)]
  \union [kind: {"update"}, id: Ids, ticket: Draft(columns)]
  \union [kind: {"move"}, id: Ids, column: Columns, anchor: {0} \union Ids,
          place: {"before", "after", "end"}]
  \union [kind: {"duplicate", "archive", "trash", "restore", "delete"}, id: Ids]

(* Clients may omit the column (0), handlers always have one.              *)
ASSUME RequestsAssumption ==
  /\ Requests \subseteq Request({0} \union Columns)
  /\ \A q \in Requests : q.kind = "move" =>
       q.anchor # q.id /\ (q.anchor = 0 <=> q.place = "end")
  /\ MaxClock \in Nat

-----------------------------------------------------------------------------
VARIABLES
  tickets,      \* table tickets: a function from the ids in use to rows
  links,        \* table ticket_links: pairs <<ticket, prerequisite>>
  history,      \* table work_history: completed episodes
  repetitions,  \* table ticket_repetitions
  clock,        \* the next timestamp
  handler,      \* per request slot: how far its handler has come
  up            \* is the server process running?

store == <<tickets, links, history, repetitions>>
vars == <<tickets, links, history, repetitions, clock, handler, up>>

Repetitions == [ticket: Ids, completed: Nat \ {0}, next: Ids]

Idle == [phase |-> "idle"]

(* stamp: the completion time a create takes before its transaction.       *)
Handling == [phase: {"received", "parentChecked", "checked", "ready"},
             request: Request(Columns), stamp: Nat]

Busy(c) == handler[c].phase # "idle"
At(c, phase, kind) ==
  handler[c].phase = phase /\ handler[c].request.kind = kind

Reply(c) == handler' = [handler EXCEPT ![c] = Idle]
Advance(c, phase) == handler' = [handler EXCEPT ![c].phase = phase]

-----------------------------------------------------------------------------
(* The rules an old database may already satisfy *)

CompletedOnlyInDone(T) == \A i \in DOMAIN T : T[i].completed # 0 => IsDone(T[i].column)

ParentsExist(T) == \A i \in DOMAIN T : T[i].parent \in {0} \union DOMAIN T

(* d is active open work below the closed epic e.                          *)
OpenUnder(T, d, e) ==
  d # e /\ ClosedEpic(T, e) /\ OpenWork(T, d) /\ e \in Above(T, {T[d].parent})

WellFormed(s) ==
  /\ IsTable(s.tickets)
  /\ \A i \in DOMAIN s.tickets : s.tickets[i].started = 0
  /\ \A i \in DOMAIN s.tickets : s.tickets[i].completed < s.clock
  /\ s.links \subseteq (DOMAIN s.tickets) \X (DOMAIN s.tickets)
  /\ s.clock \in Nat \ {0}
  /\ CompletedOnlyInDone(s.tickets)
  /\ ParentsExist(s.tickets)
  /\ Acyclic(ParentEdges(s.tickets), Ids)
  /\ Acyclic(s.links, Ids)
  /\ \A e, d \in DOMAIN s.tickets : ~OpenUnder(s.tickets, d, e)

(* Databases written before completions were recorded: rows may carry a    *)
(* completion time (or lack one in Done), there are no episodes yet.       *)
ASSUME StoresAssumption == \A s \in InitialStores : WellFormed(s)

Init ==
  /\ \E s \in InitialStores : tickets = s.tickets /\ links = s.links /\ clock = s.clock
  /\ history = {}
  /\ repetitions = {}
  /\ handler = [c \in Clients |-> Idle]
  /\ up = FALSE

-----------------------------------------------------------------------------
(* Start and stop *)

(* migrate: ideas become backlog notes, then migrateWorkHistory records    *)
(* the completions that have no episode.  The listener opens afterwards.   *)
Startup ==
  /\ ~up
  /\ up' = TRUE
  /\ tickets' = [i \in DOMAIN tickets |->
                  [tickets[i] EXCEPT !.backlog = @ \/ tickets[i].type = "idea"]]
  /\ history' = history \union
                  {Episode(tickets', i) : i \in Unrecorded(history, tickets')}
  /\ UNCHANGED <<links, repetitions, clock, handler>>

(* The process dies: open transactions roll back, requests are lost.       *)
Crash ==
  /\ up
  /\ up' = FALSE
  /\ handler' = [c \in Clients |-> Idle]
  /\ UNCHANGED <<store, clock>>

-----------------------------------------------------------------------------
(* The steps of a handler before its transaction *)

(* normalizeTicketInput, and the first column for a create without one.    *)
Normalized(q) ==
  IF q.kind \notin {"create", "update"} THEN q
  ELSE LET idea == q.ticket.type = "idea"
           d    == q.ticket
       IN [q EXCEPT !.ticket =
            [d EXCEPT !.backlog = d.backlog \/ idea,
                      !.parent = IF idea THEN 0 ELSE d.parent,
                      !.links = IF idea THEN {} ELSE d.links,
                      !.column = IF d.column = 0 /\ q.kind = "create"
                                 THEN FirstColumn ELSE d.column]]

(* Decoding and the checks of ticketAction up to its dispatch: the ticket  *)
(* exists, and one in the trash is restored before it is edited.           *)
Receive(c) ==
  /\ up
  /\ ~Busy(c)
  /\ clock <= MaxClock
  /\ \E q \in Requests :
       /\ q.kind # "create" => q.id \in DOMAIN tickets
       /\ q.kind = "update" => ~tickets[q.id].deleted /\ q.ticket.column # 0
       /\ handler' = [handler EXCEPT ![c] =
            [phase |-> "received", request |-> Normalized(q), stamp |-> 0]]
  /\ UNCHANGED <<store, clock, up>>

(* The parent is a ticket of the board, of a type that may have this child, *)
(* and for an update not the ticket itself or one of its descendants.      *)
CheckParent(c) ==
  /\ handler[c].phase = "received"
  /\ LET q == handler[c].request
     IN /\ q.kind \in {"create", "update"}
        /\ q.ticket.parent # 0 =>
             /\ q.ticket.parent \in DOMAIN tickets
             /\ ParentTypeAllowed(tickets[q.ticket.parent].type, q.ticket.type)
             /\ q.kind = "update" =>
                  ~ParentWouldCreateCycle(tickets, q.id, q.ticket.parent)
  /\ Advance(c, "parentChecked")
  /\ UNCHANGED <<store, clock, up>>

(* The prerequisites exist and, for a gated column, are finished.  A       *)
(* create takes its completion time here.                                  *)
CheckDependencies(c) ==
  /\ handler[c].phase = "parentChecked"
  /\ LET q == handler[c].request
         d == q.ticket
         stamp == IF q.kind = "create" THEN CompletionTimestamp(d.column, 0, clock) ELSE 0
     IN /\ d.links \subseteq DOMAIN tickets
        /\ q.kind = "update" => q.id \in DOMAIN tickets \ d.links
        /\ ~Blocked(tickets, d.links, d.column)
        /\ handler' = [handler EXCEPT
             ![c].phase = IF q.kind = "create" THEN "ready" ELSE "checked",
             ![c].stamp = stamp]
        /\ clock' = IF stamp = clock THEN clock + 1 ELSE clock
  /\ UNCHANGED <<store, up>>

(* An update reads the stored ticket: omitted extras are filled in from it. *)
LoadPrevious(c) ==
  /\ At(c, "checked", "update")
  /\ LET q == handler[c].request
     IN handler' = [handler EXCEPT
          ![c].phase = "ready",
          ![c].request.ticket.repeat = FilledIn(@, tickets, q.id)]
  /\ UNCHANGED <<store, clock, up>>

(* A duplicate reads the original and becomes a create request of its own. *)
LoadOriginal(c) ==
  /\ At(c, "received", "duplicate")
  /\ LET i == handler[c].request.id
     IN /\ i \in DOMAIN tickets
        /\ ~tickets[i].deleted
        /\ handler' = [handler EXCEPT ![c].request =
             Normalized([kind |-> "create", ticket |->
               [type |-> tickets[i].type, parent |-> 0, column |-> FirstColumn,
                position |-> tickets[i].position, backlog |-> tickets[i].backlog,
                repeat |-> 0, links |-> {}]])]
  /\ UNCHANGED <<store, clock, up>>

(* Any check or statement fails: the transaction, if one is open, is       *)
(* rolled back and the client gets an error.                               *)
Fail(c) ==
  /\ Busy(c)
  /\ Reply(c)
  /\ UNCHANGED <<store, clock, up>>

-----------------------------------------------------------------------------
(* The transactions *)

(* The common end of every write that may change the workflow state of     *)
(* ticket i: T is the table with the row written, "before" the column and  *)
(* completion it had, "days" the repeat interval for repeatCompletedTask.  *)
FinishWorkflow(T, i, before, days) ==
  LET row   == [T[i] EXCEPT !.started = StartedAt(T[i], before, clock)]
      saved == [T EXCEPT ![i] = row]
  IN /\ EpicsRespected(T, i)
     /\ history' = Recorded(history, saved, i)
     /\ clock' = IF clock \in {row.completed, row.started} THEN clock + 1 ELSE clock
     /\ IF Repeats(repetitions, i, before, row, days)
        THEN \E n \in NewRowIds(saved) :
               /\ tickets' = Put(saved, n, NextOccurrence(row, days))
               /\ repetitions' = repetitions \union
                    {[ticket |-> i, completed |-> row.completed, next |-> n]}
        ELSE tickets' = saved /\ UNCHANGED repetitions

Unplaced == [column |-> 0, completed |-> 0]

(* createTicket's transaction: neither the dependency graph nor the parent *)
(* is looked at again, and a new task in Done has no next occurrence.      *)
CommitCreate(c) ==
  /\ At(c, "ready", "create")
  /\ LET d == handler[c].request.ticket
         row == [type |-> d.type, parent |-> d.parent, column |-> d.column,
                 position |-> d.position, backlog |-> d.backlog,
                 archived |-> FALSE, deleted |-> FALSE,
                 repeat |-> SavedExtras(d.repeat, 0),
                 completed |-> handler[c].stamp, started |-> 0]
     IN \E n \in NewRowIds(tickets) :
          /\ FinishWorkflow(Put(tickets, n, row), n, Unplaced, 0)
          /\ links' = ReplaceLinks(links, n, d.links)
  /\ Reply(c)
  /\ UNCHANGED up

(* Mutant: only the ticket itself is refused as its prerequisite.          *)
DependencyCycleMutant(i, targets) == i \in targets

(* validateDependencyGraph: a walk along the stored links, with those of i *)
(* replaced, comes back to i.                                              *)
DependencyCycle(i, targets) ==
  LET stored == {e \in links : e[1] \in DOMAIN tickets}
  IN i \in Reach(ReplaceLinks(stored, i, targets), Ids, targets)

(* The PUT transaction reads column and completion again; the parent, the  *)
(* prerequisites and the extras are those of the earlier statements.       *)
CommitUpdate(c) ==
  /\ At(c, "ready", "update")
  /\ LET i == handler[c].request.id
         d == handler[c].request.ticket
     IN /\ i \in DOMAIN tickets
        /\ ~DependencyCycle(i, d.links)
        /\ LET was == tickets[i]
               row == [was EXCEPT !.type = d.type, !.parent = d.parent,
                         !.column = d.column, !.position = d.position,
                         !.backlog = d.backlog,
                         !.repeat = SavedExtras(d.repeat, @),
                         !.completed = CompletionTimestamp(d.column, @, clock)]
           IN FinishWorkflow([tickets EXCEPT ![i] = row], i, was, d.repeat)
        /\ links' = ReplaceLinks(links, i, d.links)
  /\ Reply(c)
  /\ UNCHANGED up

(* moveTicket reads and checks everything inside its transaction.          *)
CommitMove(c) ==
  /\ At(c, "received", "move")
  /\ LET q == handler[c].request
         i == q.id
     IN /\ i \in DOMAIN tickets
        /\ Eligible(tickets[i])
        /\ q.anchor # 0 => q.anchor \in Group(tickets, i, q.column)
        /\ LET was == tickets[i]
               T == Reordered(tickets, i, q.column, q.anchor, q.place)
           IN IF was.column = q.column
              THEN /\ T # tickets => EpicsRespected(T, i)
                   /\ tickets' = T
                   /\ UNCHANGED <<history, repetitions, clock>>
              ELSE /\ ~Blocked(tickets, {e[2] : e \in EdgesFrom(links, i)}, q.column)
                   /\ FinishWorkflow(
                        [T EXCEPT ![i].completed =
                           CompletionTimestamp(q.column, @, clock)],
                        i, was, was.repeat)
  /\ Reply(c)
  /\ UNCHANGED <<links, up>>

(* One row is written, if it still exists.                                 *)
SetRow(i, row) ==
  tickets' = [j \in DOMAIN tickets |-> IF j = i THEN row ELSE tickets[j]]

(* archive does nothing to a ticket in the trash, trash also accepts one   *)
(* that is there already.                                                  *)
CommitArchive(c) ==
  /\ At(c, "received", "archive")
  /\ LET i == handler[c].request.id
     IN SetRow(i, [tickets[i] EXCEPT !.archived = @ \/ ~tickets[i].deleted])
  /\ Reply(c)
  /\ UNCHANGED <<links, history, repetitions, clock, up>>

CommitTrash(c) ==
  /\ At(c, "received", "trash")
  /\ LET i == handler[c].request.id
     IN SetRow(i, [tickets[i] EXCEPT !.deleted = TRUE])
  /\ Reply(c)
  /\ UNCHANGED <<links, history, repetitions, clock, up>>

(* restore brings back archived and trashed tickets and checks the epics   *)
(* above.                                                                  *)
CommitRestore(c) ==
  /\ At(c, "received", "restore")
  /\ LET i == handler[c].request.id
     IN SetRow(i, [tickets[i] EXCEPT !.archived = FALSE, !.deleted = FALSE])
        /\ EpicsRespected(tickets', i)
  /\ Reply(c)
  /\ UNCHANGED <<links, history, repetitions, clock, up>>

(* DELETE removes the ticket for good with everything that names it; its   *)
(* children lose their parent.                                             *)
CommitDelete(c) ==
  /\ At(c, "received", "delete")
  /\ LET i == handler[c].request.id
     IN /\ i \in DOMAIN tickets
        /\ tickets' = Without(tickets, i)
        /\ links' = {e \in links : e[1] # i /\ e[2] # i}
        /\ history' = {h \in history : h.ticket # i}
        /\ repetitions' = {r \in repetitions : r.ticket # i /\ r.next # i}
  /\ Reply(c)
  /\ UNCHANGED <<clock, up>>

-----------------------------------------------------------------------------
Commit(c) == \/ CommitCreate(c)  \/ CommitUpdate(c) \/ CommitMove(c)
             \/ CommitArchive(c) \/ CommitTrash(c)  \/ CommitRestore(c)
             \/ CommitDelete(c)

Handle(c) == \/ Receive(c) \/ CheckParent(c) \/ CheckDependencies(c)
             \/ LoadPrevious(c) \/ LoadOriginal(c) \/ Commit(c) \/ Fail(c)

Next == \/ Startup
        \/ Crash
        \/ \E c \in Clients : Handle(c)

Spec == Init /\ [][Next]_vars
-----------------------------------------------------------------------------
(* Properties *)

(* The database and the handlers hold values of the right kind.            *)
TypeOK ==
  /\ IsTable(tickets)
  /\ links \subseteq Ids \X Ids
  /\ history \subseteq Episodes
  /\ repetitions \subseteq Repetitions
  /\ clock \in Nat \ {0}
  /\ handler \in [Clients -> {Idle} \union Handling]
  /\ up \in BOOLEAN

(* validateEpicCompletion, over any interleaving: below an active epic in  *)
(* Done there is no active unfinished ticket, except the next occurrence   *)
(* of a repeating task, which repeatCompletedTask creates unchecked.       *)
EpicsClosed ==
  \A e, d \in DOMAIN tickets : OpenUnder(tickets, d, e) =>
    \E r \in repetitions : r.next = d

(* docs/task-tools.md: every active planned descendant of an epic in Done  *)
(* is in Done, next occurrences included.                                  *)
EpicsStrict == \A e, d \in DOMAIN tickets : ~OpenUnder(tickets, d, e)

(* work_history is complete: once the server has started, every planned    *)
(* ticket that carries a completion time has the episode of that           *)
(* completion, whatever handlers, crashes and legacy rows came before.     *)
HistoryComplete ==
  up => \A i \in DOMAIN tickets :
    tickets[i].completed # 0 /\ Planned(tickets[i]) =>
      HasEpisode(history, i, tickets[i].completed)

(* workflowHistory starts a fresh episode after a reopening: the episodes  *)
(* of one ticket do not overlap.                                           *)
EpisodesOrdered ==
  \A h \in history :
    /\ h.started <= h.completed
    /\ \A g \in history : g.ticket = h.ticket /\ g.completed < h.completed =>
         h.started = 0 \/ h.started > g.completed

(* validateDependencyGraph keeps the dependency links free of cycles.      *)
LinksAcyclic == Acyclic(links, Ids)

(* parentWouldCreateCycle keeps the parent edges free of cycles.           *)
ParentsAcyclic == Acyclic(ParentEdges(tickets), Ids)

(* Parents and dependency links of stored tickets name stored tickets.     *)
NothingDangles ==
  ParentsExist(tickets) /\ links \subseteq (DOMAIN tickets) \X (DOMAIN tickets)

(* Completion follows the column: only tickets in Done carry a completion  *)
(* time, one that enters Done gets it, and one that stays keeps it.        *)
CompletionFollowsColumn ==
  [][\A i \in DOMAIN tickets' :
       LET stayed == i \in DOMAIN tickets /\ IsDone(tickets[i].column)
       IN IF IsDone(tickets'[i].column)
          THEN IF stayed THEN tickets[i].completed \in {0, tickets'[i].completed}
               ELSE tickets'[i].completed # 0
          ELSE tickets'[i].completed = 0]_vars

(* An episode never changes and goes only with its ticket: reopening,      *)
(* moving or renaming does not rewrite what happened.                      *)
HistoryImmutable ==
  [][\A h \in history : h \in history' \/ h.ticket \notin DOMAIN tickets']_vars

(* Completing a repeating task creates its next occurrence once: a step    *)
(* that completes a stored repeating task adds exactly one open ticket,    *)
(* and no other step adds a repetition.                                    *)
RepeatsExactlyOnce ==
  [][LET Completes(i) ==
           /\ i \in DOMAIN tickets /\ i \in DOMAIN tickets'
           /\ tickets[i].completed = 0 /\ tickets'[i].completed # 0
           /\ tickets'[i].repeat # 0
         added == repetitions' \ repetitions
     IN /\ \A r \in added : /\ Completes(r.ticket)
                            /\ r.completed = tickets'[r.ticket].completed
                            /\ r.next \in DOMAIN tickets' \ DOMAIN tickets
                            /\ tickets'[r.next].completed = 0
        /\ \A i \in DOMAIN tickets : Completes(i) =>
             Cardinality({r \in added : r.ticket = i}) = 1]_vars

(* README: Review, Done and later stages require completed prerequisites.  *)
(* A ticket that enters such a column has none that is stored, outside the *)
(* trash and unfinished.                                                   *)
GateRespected ==
  [][\A i \in DOMAIN tickets' :
       LET entered == i \notin DOMAIN tickets
                      \/ tickets[i].column # tickets'[i].column
       IN entered /\ NeedsPrerequisites(tickets'[i].column) =>
            \A e \in EdgesFrom(links', i) : e[2] \in DOMAIN tickets' =>
              tickets'[e[2]].deleted \/ IsDone(tickets'[e[2]].column)]_vars

(* task_features.go: older clients leave optional features intact.  The    *)
(* commit of an update that came without extras keeps the repeat interval. *)
OlderClientsKeepExtras ==
  [][\A c \in Clients :
       /\ At(c, "ready", "update") /\ ~Busy(c)'
       /\ [kind |-> "update", id |-> handler[c].request.id,
           ticket |-> [handler[c].request.ticket EXCEPT !.repeat = NoExtras]] \in Requests
       => LET i == handler[c].request.id
          IN {i} \subseteq DOMAIN tickets \intersect DOMAIN tickets' =>
               tickets'[i].repeat = tickets[i].repeat]_vars

(* Board order: a move puts the ticket next to its anchor, on the side the *)
(* user chose, or last; the other tickets of both groups keep their order. *)
MoveKeepsOrder ==
  [][\A c \in Clients :
       At(c, "received", "move") /\ ~Busy(c)' /\ tickets' # tickets =>
         LET q == handler[c].request
             others == Group(tickets, q.id, q.column)
             left == Group(tickets, q.id, tickets[q.id].column)
             Between(a, b) == {j \in others : Before(tickets', a, j) /\ Before(tickets', j, b)}
         IN /\ \A G \in {others, left} : \A a, b \in G :
                 Before(tickets, a, b) => Before(tickets', a, b)
            /\ q.place = "before" =>
                 Before(tickets', q.id, q.anchor) /\ Between(q.id, q.anchor) = {}
            /\ q.place = "after" =>
                 Before(tickets', q.anchor, q.id) /\ Between(q.anchor, q.id) = {}
            /\ q.place = "end" => \A j \in others : Before(tickets', j, q.id)]_vars
=============================================================================
