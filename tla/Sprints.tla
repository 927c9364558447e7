------------------------------ MODULE Sprints -------------------------------
(***************************************************************************)
(* The Sprint calendar of a board.  A day is the number of days since the  *)
(* first date the browser accepts; a cadence is the stored first day and   *)
(* the stored number of weeks, either of which may be missing or invalid.  *)
(***************************************************************************)
EXTENDS Integers

CONSTANT LastDay   \* the last day a Date can hold

ASSUME SprintsAssumption == LastDay \in Nat

Days == 0 .. LastDay

NoDay == -1        \* no date, or one that does not parse

ValidDate(d) == d \in Days

(* addDays: the time of a day beyond the range is no number.               *)
AddDays(d, n) == IF ValidDate(d + n) THEN d + n ELSE NoDay

(* The first of the given days that is one, as `a || b` picks it.          *)
FirstDay(a, b) == IF a # NoDay THEN a ELSE b

ValidSprintWeeks(w) == IF w \in 1 .. 52 THEN w ELSE 0

HasCadence(c) == ValidDate(c.start) /\ ValidSprintWeeks(c.weeks) # 0

Span(c) == c.weeks * 7

NoSprint == [number |-> -1, start |-> NoDay, end |-> NoDay, endExclusive |-> NoDay]

(* One Sprint of the sequence, its last day included and excluded.         *)
SprintRange(index, c) ==
  LET first == c.start + index * Span(c)
      on(d) == IF ValidDate(first) THEN AddDays(first, d) ELSE NoDay
  IN [number |-> index + 1, start |-> on(0), end |-> on(Span(c) - 1),
      endExclusive |-> on(Span(c))]

Usable(r) == ValidDate(r.start) /\ ValidDate(r.endExclusive)

SprintByNumber(n, c) ==
  IF HasCadence(c) /\ n >= 1 /\ Usable(SprintRange(n - 1, c)) THEN SprintRange(n - 1, c) ELSE NoSprint

(* Days before the cadence belong to the Sprint numbered 0.                *)
BeforeSprints(c) ==
  [number |-> 0, start |-> NoDay, end |-> AddDays(c.start, -1), endExclusive |-> c.start]

SprintForDate(d, c) ==
  IF ~HasCadence(c) \/ ~ValidDate(d) THEN NoSprint
  ELSE IF d < c.start THEN BeforeSprints(c)
  ELSE SprintRange((d - c.start) \div Span(c), c)

(* The Sprints of the strip, at most "count"; "first" 0 starts with the    *)
(* current one.  One date out of range leaves the strip empty.             *)
SprintWindow(c, today, count, first) ==
  LET current == IF today < c.start THEN 0 ELSE (today - c.start) \div Span(c)
      index == IF first > 0 THEN first - 1 ELSE current
  IN IF HasCadence(c) /\ \A k \in 1 .. count : Usable(SprintRange(index + k - 1, c))
     THEN {SprintRange(index + k - 1, c) : k \in 1 .. count} ELSE {}

(* Due date, else the last day of the duration that begins at the start.   *)
TicketPlannedFinish(t) ==
  IF t.due # NoDay \/ t.start = NoDay THEN t.due
  ELSE AddDays(t.start, IF t.duration > 1 THEN t.duration - 1 ELSE 0)

TicketSprint(t, c) == SprintForDate(TicketPlannedFinish(t), c)
=============================================================================
