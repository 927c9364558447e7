------------------------------- MODULE Routes --------------------------------
(***************************************************************************)
(* The address of a page, "#/timeline/2/ticket/5/sprint/3", as the         *)
(* sequence of its parts: a part is a word or a number, and a word or an   *)
(* unusable number has the value 0.                                        *)
(***************************************************************************)
EXTENDS Integers, Sequences

Word(w) == [word |-> w, value |-> 0]
Number(n) == [word |-> "number", value |-> n]

RouteParts == [word : STRING, value : Int]

RouteViews ==
  {"board", "overview", "timeline", "history", "backlog", "admin", "config", "archive", "trash"}

PlanningViews == {"board", "overview", "timeline"}

PositiveId(part) == IF part.value > 0 THEN part.value ELSE 0

(* Mutant: the former name of the Backlog is kept.                         *)
ViewNamedMutant(word) == IF word \in RouteViews \union {"ideas"} THEN word ELSE "board"

ViewNamed(word) ==
  IF word = "ideas" THEN "backlog" ELSE IF word \in RouteViews THEN word ELSE "board"

(* "ticket" and "sprint" are keywords unless a keyword before them         *)
(* consumed them: each consumes the part behind it.                        *)
KeywordsAt(parts) ==
  CHOOSE K \in SUBSET (2 .. Len(parts)) :
    \A k \in 2 .. Len(parts) : k \in K <=> parts[k].word \in {"ticket", "sprint"} /\ k - 1 \notin K

(* parseRoute: the last of each keyword counts; the first usable number    *)
(* among the other parts is the board.                                     *)
ParseRoute(parts) ==
  LET view == ViewNamed(IF parts = <<>> THEN "none" ELSE parts[1].word)
      keywords == KeywordsAt(parts)
      id(k) == IF k \in DOMAIN parts THEN PositiveId(parts[k]) ELSE 0
      behind(word) ==
        LET places == {k \in keywords : parts[k].word = word}
        IN IF places = {} THEN 0 ELSE id(1 + CHOOSE k \in places : \A j \in places : j <= k)
      usable == {k \in (2 .. Len(parts)) \ keywords : k - 1 \notin keywords /\ id(k) # 0}
  IN [view |-> view,
      board |-> IF usable = {} THEN 0 ELSE id(CHOOSE k \in usable : \A j \in usable : k <= j),
      ticket |-> behind("ticket"),
      sprint |-> IF view \in PlanningViews THEN behind("sprint") ELSE 0]

(* Mutant: the Sprint is written without its word.                         *)
BuildRouteMutant(view, board, ticket, sprint) ==
  <<Word(view)>> \o (IF board > 0 THEN <<Number(board)>> ELSE <<>>)
    \o (IF ticket > 0 THEN <<Word("ticket"), Number(ticket)>> ELSE <<>>)
    \o (IF sprint > 0 THEN <<Number(sprint)>> ELSE <<>>)

BuildRoute(view, board, ticket, sprint) ==
  <<Word(IF view \in RouteViews THEN view ELSE "board")>>
    \o (IF board > 0 THEN <<Number(board)>> ELSE <<>>)
    \o (IF ticket > 0 THEN <<Word("ticket"), Number(ticket)>> ELSE <<>>)
    \o (IF view \in PlanningViews /\ sprint > 0 THEN <<Word("sprint"), Number(sprint)>> ELSE <<>>)
=============================================================================
