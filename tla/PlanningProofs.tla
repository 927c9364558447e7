--------------------------- MODULE PlanningProofs ----------------------------
(***************************************************************************)
(* Proofs about the planning workspace, for every board, cadence, address, *)
(* plan and scenario: the calendar, addresses, the Sprint plan, what stays *)
(* in sight.                                                               *)
(***************************************************************************)
EXTENDS PlanningProperties, TLAPS, SequenceTheorems, FiniteSetTheorems, WellFoundedInduction

-----------------------------------------------------------------------------
(* The Sprint calendar, for every cadence and every date *)

Cadences == [start : Days, weeks : 1 .. 52]

(* A quotient of naturals and its remainder.                               *)
LEMMA Division ==
  ASSUME NEW a \in Nat, NEW b \in Nat \ {0}
  PROVE  /\ a \div b \in Nat
         /\ (a \div b) * b <= a
         /\ a < (a \div b) * b + b
  BY SMT

(* The quotient is the only multiple that fits.                            *)
LEMMA Quotient ==
  ASSUME NEW a \in Nat, NEW b \in Nat \ {0}, NEW q \in Nat, q * b <= a, a < q * b + b
  PROVE  a \div b = q
<1>1. a \div b \in Nat /\ (a \div b) * b <= a /\ a < (a \div b) * b + b
  BY Division
<1> DEFINE p == a \div b
<1>2. ~(p < q)
  <2> SUFFICES ASSUME p < q PROVE FALSE
    OBVIOUS
  <2>1. p \in Nat /\ p + 1 <= q
    BY <1>1
  <2>2. (p + 1) * b <= q * b
    BY <2>1, SMT
  <2>3. (p + 1) * b = p * b + b
    BY <2>1, SMT
  <2> QED BY <1>1, <2>2, <2>3, SMT
<1>3. ~(q < p)
  <2> SUFFICES ASSUME q < p PROVE FALSE
    OBVIOUS
  <2>1. p \in Nat /\ q + 1 <= p
    BY <1>1
  <2>2. (q + 1) * b <= p * b
    BY <2>1, SMT
  <2>3. (q + 1) * b = q * b + b
    BY SMT
  <2> QED BY <1>1, <2>1, <2>2, <2>3, SMT
<1> QED BY <1>1, <1>2, <1>3
-----------------------------------------------------------------------------
LEMMA SpanIsPositive ==
  ASSUME NEW c \in Cadences
  PROVE  /\ HasCadence(c)
         /\ c.start \in Nat /\ c.start <= LastDay
         /\ Span(c) \in Nat \ {0}
  BY SprintsAssumption, SMT DEF Cadences, HasCadence, ValidDate, ValidSprintWeeks, Span, Days

(* What a Sprint of the sequence consists of when it fits the calendar.    *)
LEMMA RangeOfNumber ==
  ASSUME NEW c \in Cadences, NEW n \in Nat \ {0}, NEW i \in Nat, n = i + 1,
         SprintByNumber(n, c) # NoSprint
  PROVE  /\ i * Span(c) \in Nat
         /\ SprintByNumber(n, c) = SprintRange(i, c)
         /\ SprintByNumber(n, c).number = n
         /\ SprintByNumber(n, c).start = c.start + i * Span(c)
         /\ SprintByNumber(n, c).end = c.start + i * Span(c) + (Span(c) - 1)
         /\ SprintByNumber(n, c).endExclusive = c.start + i * Span(c) + Span(c)
         /\ c.start + i * Span(c) + Span(c) <= LastDay
<1> DEFINE first == c.start + i * Span(c)
           span == Span(c)
<1>1. span \in Nat \ {0} /\ c.start \in Nat
  BY SpanIsPositive
<1>2. i * span \in Nat
  BY <1>1, SMT
<1>3. first \in Nat
  BY <1>1, <1>2
<1>4. n - 1 = i
  OBVIOUS
<1>5. SprintByNumber(n, c) = SprintRange(i, c)
      /\ ValidDate(SprintRange(i, c).start) /\ ValidDate(SprintRange(i, c).endExclusive)
  <2>1. SprintByNumber(n, c) =
          IF HasCadence(c) /\ n >= 1 /\ Usable(SprintRange(i, c)) THEN SprintRange(i, c) ELSE NoSprint
    BY <1>4, Zenon DEF SprintByNumber
  <2> QED BY <2>1, Zenon DEF Usable
<1> HIDE DEF span
<1>6. SprintRange(i, c) =
        [number |-> i + 1,
         start |-> IF ValidDate(first) THEN AddDays(first, 0) ELSE NoDay,
         end |-> IF ValidDate(first) THEN AddDays(first, span - 1) ELSE NoDay,
         endExclusive |-> IF ValidDate(first) THEN AddDays(first, span) ELSE NoDay]
  BY DEF SprintRange, span
<1> HIDE DEF first
<1>7. ~ValidDate(NoDay)
  BY SMT DEF ValidDate, Days, NoDay
<1>8. ValidDate(first)
  BY <1>5, <1>6, <1>7
<1>9. ValidDate(first + span) /\ AddDays(first, span) = first + span
  BY <1>5, <1>6, <1>7, <1>8 DEF AddDays
<1>10. first + span <= LastDay
  BY <1>9 DEF ValidDate, Days
<1>11. AddDays(first, 0) = first /\ AddDays(first, span - 1) = first + (span - 1)
  <2>1. first + 0 = first /\ ValidDate(first + 0)
    BY <1>3, <1>8
  <2>2. first + (span - 1) \in 0 .. LastDay
    BY <1>1, <1>3, <1>10, SprintsAssumption, SMT
  <2> QED BY <2>1, <2>2 DEF AddDays, ValidDate, Days
<1> QED BY <1>2, <1>5, <1>6, <1>8, <1>9, <1>10, <1>11 DEF first, span

(* The Sprints follow each other without a gap or an overlap: the first    *)
(* day of one is the day after the last day of the one before              *)
(* (sprintRange, sprintByNumber).                                          *)
THEOREM SprintsTile ==
  ASSUME NEW c \in Cadences, NEW n \in Nat \ {0},
         SprintByNumber(n, c) # NoSprint, SprintByNumber(n + 1, c) # NoSprint
  PROVE  /\ SprintByNumber(n + 1, c).start = SprintByNumber(n, c).endExclusive
         /\ SprintByNumber(n, c).endExclusive = SprintByNumber(n, c).end + 1
<1> DEFINE a == (n - 1) * Span(c)
           b == n * Span(c)
<1>1. Span(c) \in Nat \ {0} /\ c.start \in Nat
  BY SpanIsPositive
<1>2. a \in Nat /\ b = a + Span(c)
  BY <1>1, SMT
<1>3. /\ SprintByNumber(n, c).end = c.start + a + (Span(c) - 1)
      /\ SprintByNumber(n, c).endExclusive = c.start + a + Span(c)
  <2>1. n - 1 \in Nat /\ n = (n - 1) + 1
    OBVIOUS
  <2> QED BY <2>1, RangeOfNumber
<1>4. n + 1 \in Nat \ {0}
  OBVIOUS
<1>5. SprintByNumber(n + 1, c).start = c.start + b
  BY <1>4, RangeOfNumber
<1> HIDE DEF a, b
<1> QED BY <1>1, <1>2, <1>3, <1>5

(* A date of a numbered Sprint is assigned to that Sprint: the number kept *)
(* in the address and the dates on the tickets agree on what is shown      *)
(* (sprintByNumber, sprintForDate).                                        *)
THEOREM SprintOfItsDates ==
  ASSUME NEW c \in Cadences, NEW n \in Nat \ {0}, SprintByNumber(n, c) # NoSprint,
         NEW d \in Int, SprintByNumber(n, c).start <= d, d <= SprintByNumber(n, c).end
  PROVE  SprintForDate(d, c) = SprintByNumber(n, c)
<1> DEFINE a == (n - 1) * Span(c)
           span == Span(c)
<1>1. span \in Nat \ {0} /\ c.start \in Nat /\ c.start <= LastDay /\ HasCadence(c)
  BY SpanIsPositive
<1>2. /\ a \in Nat
      /\ SprintByNumber(n, c) = SprintRange(n - 1, c)
      /\ SprintByNumber(n, c).start = c.start + a
      /\ SprintByNumber(n, c).end = c.start + a + (span - 1)
      /\ c.start + a + span <= LastDay
  <2>1. n - 1 \in Nat /\ n = (n - 1) + 1
    OBVIOUS
  <2> QED BY <2>1, RangeOfNumber
<1>3. n - 1 \in Nat
  OBVIOUS
<1>4. (d - c.start) \div span = n - 1
  <2>1. d - c.start \in Nat /\ a <= d - c.start /\ d - c.start < a + span
    <3> HIDE DEF a, span
    <3> QED BY <1>1, <1>2
  <2> QED BY <1>1, <1>3, <2>1, Quotient
<1>5. ValidDate(d) /\ ~(d < c.start)
  <2> HIDE DEF a, span
  <2> QED BY <1>1, <1>2, SprintsAssumption, SMT DEF ValidDate, Days
<1> HIDE DEF a
<1> QED BY <1>1, <1>2, <1>4, <1>5 DEF SprintForDate

(* Every date from the first Sprint on lies in the Sprint it is assigned   *)
(* to, as long as that Sprint fits the calendar, and has a number that     *)
(* selects it again; no other Sprint contains it (sprintForDate).          *)
THEOREM DateHasOneSprint ==
  ASSUME NEW c \in Cadences, NEW d \in Days, c.start <= d
  PROVE  LET s == SprintForDate(d, c)
         IN /\ s.number \in Nat \ {0}
            /\ SprintByNumber(s.number, c) # NoSprint =>
                 /\ SprintByNumber(s.number, c) = s
                 /\ s.start <= d /\ d <= s.end
            /\ \A n \in Nat \ {0} :
                 /\ SprintByNumber(n, c) # NoSprint
                 /\ SprintByNumber(n, c).start <= d /\ d <= SprintByNumber(n, c).end
                 => n = s.number
<1> DEFINE span == Span(c)
           i == (d - c.start) \div span
           s == SprintForDate(d, c)
<1>1. span \in Nat \ {0} /\ c.start \in Nat /\ HasCadence(c) /\ d \in Nat /\ ValidDate(d)
  BY SpanIsPositive, SprintsAssumption DEF Days, ValidDate
<1>2. d - c.start \in Nat
  BY <1>1
<1>3. i \in Nat /\ i * span <= d - c.start /\ d - c.start < i * span + span
  BY <1>1, <1>2, Division
<1>4. s = SprintRange(i, c)
  BY <1>1 DEF SprintForDate
<1>5. s.number = i + 1
  BY <1>4 DEF SprintRange
<1>6. i + 1 \in Nat \ {0}
  BY <1>3
<1>7. ASSUME SprintByNumber(s.number, c) # NoSprint
      PROVE  SprintByNumber(s.number, c) = s /\ s.start <= d /\ d <= s.end
  <2>1. SprintByNumber(i + 1, c) # NoSprint
    BY <1>5, <1>7
  <2>2. /\ SprintByNumber(i + 1, c) = SprintRange(i, c)
        /\ SprintByNumber(i + 1, c).start = c.start + i * span
        /\ SprintByNumber(i + 1, c).end = c.start + i * span + (span - 1)
        /\ i * span \in Nat
    <3>1. i \in Nat
      BY <1>3
    <3> HIDE DEF i
    <3> QED BY <1>6, <2>1, <3>1, RangeOfNumber
  <2>3. c.start + i * span <= d /\ d <= c.start + i * span + (span - 1)
    <3> DEFINE p == i * span
    <3>1. p \in Nat /\ p <= d - c.start /\ d - c.start < p + span
      BY <1>3, <2>2
    <3> HIDE DEF p, span
    <3>2. c.start + p <= d /\ d <= c.start + p + (span - 1)
      BY <1>1, <3>1
    <3> QED BY <3>2 DEF p
  <2> QED BY <1>4, <1>5, <2>2, <2>3
<1>8. ASSUME NEW n \in Nat \ {0}, SprintByNumber(n, c) # NoSprint,
             SprintByNumber(n, c).start <= d, d <= SprintByNumber(n, c).end
      PROVE  n = s.number
  <2>1. s = SprintByNumber(n, c)
    BY <1>1, <1>8, SprintOfItsDates
  <2>2. SprintByNumber(n, c).number = n
    <3>1. n - 1 \in Nat /\ n = (n - 1) + 1
      OBVIOUS
    <3> QED BY <1>8, <3>1, RangeOfNumber
  <2> QED BY <2>1, <2>2
<1> QED BY <1>5, <1>6, <1>7, <1>8

-----------------------------------------------------------------------------
(* Addresses *)

(* A keyword is the first of two parts, so a Sprint behind a view or a     *)
(* board is found, and nothing else is one.                                *)
LEMMA OneKeyword ==
  ASSUME NEW S, NEW parts \in Seq(S), NEW p \in 2 .. Len(parts), Len(parts) <= p + 1,
         parts[p].word = "sprint",
         \A k \in 2 .. Len(parts) : k < p => parts[k].word \notin {"ticket", "sprint"}
  PROVE  KeywordsAt(parts) = {p}
<1> DEFINE Fits(K) == \A k \in 2 .. Len(parts) :
                        k \in K <=> parts[k].word \in {"ticket", "sprint"} /\ k - 1 \notin K
<1>1. {p} \in SUBSET (2 .. Len(parts)) /\ Fits({p})
  OBVIOUS
<1>2. ASSUME NEW K \in SUBSET (2 .. Len(parts)), Fits(K) PROVE K = {p}
  <2>1. \A k \in 2 .. Len(parts) : k < p => k \notin K
    BY <1>2
  <2>2. p \in K
    BY <1>2, <2>1
  <2>3. \A k \in 2 .. Len(parts) : k > p => k - 1 = p
    OBVIOUS
  <2>4. \A k \in 2 .. Len(parts) : k > p => k \notin K
    BY <1>2, <2>2, <2>3
  <2> QED BY <2>1, <2>2, <2>4
<1> QED BY <1>1, <1>2 DEF KeywordsAt

LEMMA NoKeyword ==
  ASSUME NEW S, NEW parts \in Seq(S),
         \A k \in 2 .. Len(parts) : parts[k].word \notin {"ticket", "sprint"}
  PROVE  KeywordsAt(parts) = {}
<1>1. \A K \in SUBSET (2 .. Len(parts)) :
        (\A k \in 2 .. Len(parts) :
           k \in K <=> parts[k].word \in {"ticket", "sprint"} /\ k - 1 \notin K) <=> K = {}
  OBVIOUS
<1> QED BY <1>1 DEF KeywordsAt

LEMMA ParsedType ==
  ASSUME NEW parts \in Seq(RouteParts)
  PROVE  ParseRoute(parts) \in [view : RouteViews, board : Nat, ticket : Nat, sprint : Nat]
         /\ (ParseRoute(parts).view \notin PlanningViews => ParseRoute(parts).sprint = 0)
<1>1. \A word : ViewNamed(word) \in RouteViews
  BY DEF ViewNamed, RouteViews
<1>2. \A k \in DOMAIN parts : PositiveId(parts[k]) \in Nat
  <2>1. \A part \in RouteParts : part.value \in Int
    BY DEF RouteParts
  <2> QED BY <2>1 DEF PositiveId
<1> QED BY <1>1, <1>2 DEF ParseRoute

LEMMA Longer ==
  ASSUME NEW S, NEW s \in Seq(S), NEW x \in S, NEW y \in S
  PROVE  s \o <<x>> = Append(s, x) /\ s \o <<x, y>> = Append(Append(s, x), y) /\ s \o <<>> = s
<1>1. /\ <<x>> \in Seq(S) /\ <<x, y>> \in Seq(S) /\ <<>> \in Seq(S)
      /\ Append(s, x) \in Seq(S) /\ Append(Append(s, x), y) \in Seq(S)
  OBVIOUS
<1>2. s \o <<x>> \in Seq(S) /\ s \o <<x, y>> \in Seq(S)
  BY <1>1
<1>3. s \o <<x>> = Append(s, x)
  BY <1>1, <1>2, SeqEqual
<1>4. s \o <<x, y>> = Append(Append(s, x), y)
  BY <1>1, <1>2, SeqEqual
<1> QED BY <1>1, <1>3, <1>4

(* The address of a page without an editor.                                *)
LEMMA AddressParts ==
  ASSUME NEW view \in RouteViews, NEW bd \in Nat \ {0}, NEW sprint \in Nat
  PROVE  BuildRoute(view, bd, 0, sprint) =
           LET page == Append(<<Word(view)>>, Number(bd))
           IN IF view \in PlanningViews /\ sprint > 0
              THEN Append(Append(page, Word("sprint")), Number(sprint)) ELSE page
<1> DEFINE S == {Word(view), Number(bd), Word("sprint"), Number(sprint)}
           v == Word(view)
           n == Number(bd)
           w == Word("sprint")
           m == Number(sprint)
           page == Append(<<v>>, n)
<1>1. BuildRoute(view, bd, 0, sprint) =
        ((<<v>> \o <<n>>) \o <<>>)
          \o (IF view \in PlanningViews /\ sprint > 0 THEN <<w, m>> ELSE <<>>)
  BY DEF BuildRoute
<1>2. v \in S /\ n \in S /\ w \in S /\ m \in S
  OBVIOUS
<1> HIDE DEF v, n, w, m, S
<1>3. <<v>> \in Seq(S) /\ page \in Seq(S)
  BY <1>2
<1>4. <<v>> \o <<n>> = page
  BY <1>2, <1>3, Longer
<1>5. page \o <<>> = page /\ page \o <<w, m>> = Append(Append(page, w), m)
  BY <1>2, <1>3, Longer
<1> QED BY <1>1, <1>4, <1>5 DEF v, n, w, m

LEMMA ReadShort ==
  ASSUME NEW S, NEW parts \in Seq(S), Len(parts) = 2, NEW view \in RouteViews, NEW bd \in Nat \ {0},
         parts[1].word = view, parts[2].word = "number", parts[2].value = bd
  PROVE  ParseRoute(parts) = [view |-> view, board |-> bd, ticket |-> 0, sprint |-> 0]
<1>1. ViewNamed(view) = view
  BY DEF ViewNamed, RouteViews
<1>2. \A k \in 2 .. Len(parts) : k = 2
  OBVIOUS
<1>3. KeywordsAt(parts) = {}
  BY <1>2, NoKeyword
<1>4. PositiveId(parts[2]) = bd
  BY DEF PositiveId
<1>5. DOMAIN parts = 1 .. 2 /\ parts # <<>>
  OBVIOUS
<1>6. {k \in (2 .. Len(parts)) \ KeywordsAt(parts) :
         k - 1 \notin KeywordsAt(parts)
           /\ (IF k \in DOMAIN parts THEN PositiveId(parts[k]) ELSE 0) # 0} = {2}
  BY <1>3, <1>4, <1>5
<1>7. (CHOOSE k \in {2} : \A j \in {2} : k <= j) = 2
  OBVIOUS
<1>8. \A word : {k \in KeywordsAt(parts) : parts[k].word = word} = {}
  BY <1>3
<1> QED BY <1>1, <1>4, <1>5, <1>6, <1>7, <1>8 DEF ParseRoute

LEMMA ReadLong ==
  ASSUME NEW S, NEW parts \in Seq(S), Len(parts) = 4,
         NEW view \in RouteViews, NEW bd \in Nat, NEW n \in Nat, bd # 0, n # 0,
         parts[1].word = view, parts[2].word = "number", parts[2].value = bd,
         parts[3].word = "sprint", parts[4].word = "number", parts[4].value = n
  PROVE  ParseRoute(parts) = [view |-> view, board |-> bd, ticket |-> 0,
                              sprint |-> IF view \in PlanningViews THEN n ELSE 0]
<1>1. ViewNamed(view) = view
  BY DEF ViewNamed, RouteViews
<1>2. \A k \in 2 .. Len(parts) : k < 3 => k = 2
  OBVIOUS
<1>3. KeywordsAt(parts) = {3}
  <2>1. 3 \in 2 .. Len(parts) /\ Len(parts) <= 3 + 1
    OBVIOUS
  <2>2. \A k \in 2 .. Len(parts) : k < 3 => parts[k].word \notin {"ticket", "sprint"}
    BY <1>2
  <2> QED BY <2>1, <2>2, OneKeyword
<1>4. PositiveId(parts[2]) = bd /\ PositiveId(parts[4]) = n
  BY DEF PositiveId
<1>5. DOMAIN parts = 1 .. 4 /\ parts # <<>>
  <2>1. Len(<<>>) = 0 /\ Len(parts) # 0
    OBVIOUS
  <2>2. DOMAIN parts = 1 .. Len(parts)
    OBVIOUS
  <2> QED BY <2>1, <2>2
<1>6. {k \in (2 .. Len(parts)) \ KeywordsAt(parts) :
         k - 1 \notin KeywordsAt(parts)
           /\ (IF k \in DOMAIN parts THEN PositiveId(parts[k]) ELSE 0) # 0} = {2}
  BY <1>3, <1>4, <1>5
<1>7. /\ (CHOOSE k \in {2} : \A j \in {2} : k <= j) = 2
      /\ (CHOOSE k \in {3} : \A j \in {3} : j <= k) = 3
  OBVIOUS
<1>8. /\ {k \in KeywordsAt(parts) : parts[k].word = "ticket"} = {}
      /\ {k \in KeywordsAt(parts) : parts[k].word = "sprint"} = {3}
  BY <1>3
<1> QED BY <1>1, <1>4, <1>5, <1>6, <1>7, <1>8 DEF ParseRoute

LEMMA Appended ==
  ASSUME NEW S, NEW v \in S, NEW n \in S, NEW w \in S, NEW m \in S
  PROVE  LET short == Append(<<v>>, n)
             long == Append(Append(short, w), m)
         IN /\ short \in Seq(S) /\ Len(short) = 2 /\ short[1] = v /\ short[2] = n
            /\ long \in Seq(S) /\ Len(long) = 4
            /\ long[1] = v /\ long[2] = n /\ long[3] = w /\ long[4] = m
<1> DEFINE short == Append(<<v>>, n)
           longer == Append(short, w)
<1>1. short \in Seq(S) /\ Len(short) = 2 /\ short[1] = v /\ short[2] = n
  OBVIOUS
<1> HIDE DEF short
<1>2. longer \in Seq(S) /\ Len(longer) = 3 /\ longer[1] = v /\ longer[2] = n /\ longer[3] = w
  BY <1>1
<1> QED BY <1>1, <1>2 DEF short

(* Reading an address gives back what was written.                         *)
LEMMA WrittenIsRead ==
  ASSUME NEW view \in RouteViews, NEW bd \in Nat \ {0}, NEW sprint \in Nat
  PROVE  ParseRoute(BuildRoute(view, bd, 0, sprint)) =
           [view |-> view, board |-> bd, ticket |-> 0,
            sprint |-> IF view \in PlanningViews THEN sprint ELSE 0]
<1> DEFINE S == {Word(view), Number(bd), Word("sprint"), Number(sprint)}
           page == Append(<<Word(view)>>, Number(bd))
           longest == Append(Append(page, Word("sprint")), Number(sprint))
<1>1. /\ Word(view) \in S /\ Number(bd) \in S /\ Word("sprint") \in S /\ Number(sprint) \in S
      /\ Word(view).word = view /\ Word("sprint").word = "sprint"
      /\ Number(bd).word = "number" /\ Number(bd).value = bd
      /\ Number(sprint).word = "number" /\ Number(sprint).value = sprint
  BY DEF Word, Number
<1> HIDE DEF S
<1>2. page \in Seq(S) /\ Len(page) = 2 /\ page[1] = Word(view) /\ page[2] = Number(bd)
  BY <1>1, Appended
<1>4. /\ longest \in Seq(S) /\ Len(longest) = 4 /\ longest[1] = Word(view)
      /\ longest[2] = Number(bd) /\ longest[3] = Word("sprint") /\ longest[4] = Number(sprint)
  BY <1>1, Appended
<1> HIDE DEF page, longest
<1>5. BuildRoute(view, bd, 0, sprint) =
        IF view \in PlanningViews /\ sprint > 0 THEN longest ELSE page
  BY AddressParts DEF page, longest
<1>6. ParseRoute(page) = [view |-> view, board |-> bd, ticket |-> 0, sprint |-> 0]
  BY <1>1, <1>2, ReadShort
<1>7. sprint # 0 => ParseRoute(longest) =
        [view |-> view, board |-> bd, ticket |-> 0,
         sprint |-> IF view \in PlanningViews THEN sprint ELSE 0]
  <2>1. /\ longest[1].word = view /\ longest[2].word = "number" /\ longest[2].value = bd
        /\ longest[3].word = "sprint" /\ longest[4].word = "number" /\ longest[4].value = sprint
    BY <1>1, <1>4
  <2> QED BY <1>4, <2>1, ReadLong
<1> QED BY <1>5, <1>6, <1>7

-----------------------------------------------------------------------------
(* Rendering *)

(* Neither the chosen Sprint nor an open task of the Timeline limits the   *)
(* work the chain is looked for in.                                        *)
Unlimited(b, u) == u.view = "timeline" \/ SelectedPlanningSprint(b, u) = NoSprint

(* What the chain depends on.                                              *)
LEMMA SameChain ==
  ASSUME NEW b, NEW u, NEW v, u.focus = v.focus, u.focusBoard = v.focusBoard,
         Unlimited(b, u) <=> Unlimited(b, v), ~Unlimited(b, u) => u.sprint = v.sprint
  PROVE  DependencyViewIds(b, u) = DependencyViewIds(b, v)
<1>1. SprintFilteredWork(b, u, WorkTickets(b)) = SprintFilteredWork(b, v, WorkTickets(b))
  BY DEF SprintFilteredWork, Unlimited
<1> QED BY <1>1 DEF DependencyViewIds, ConnectedDependencyIds

LEMMA NoFocusNoChain ==
  ASSUME NEW b, NEW u, u.focus = 0 PROVE DependencyViewIds(b, u) = NoChain
BY DEF DependencyViewIds, ConnectedDependencyIds

LEMMA NoSprintZero ==
  ASSUME NEW b, NEW u, u.sprint = 0 PROVE SelectedPlanningSprint(b, u) = NoSprint
BY DEF SelectedPlanningSprint, SprintByNumber

LEMMA EmptyPage == NoPage \in [board : Nat, cadence : StoredCadences, first : Nat]
BY DEF NoPage, StoredCadences, NoDay

LEMMA SettledSelectionIs ==
  ASSUME NEW b, IsBoard(b), NEW u \in PageChoices
  PROVE  LET v == SettledSelection(b, u)
         IN /\ v \in PageChoices
            /\ v.view = u.view /\ v.wanted = u.wanted /\ v.focus = u.focus
            /\ v.focusBoard = u.focusBoard /\ v.focused = u.focused /\ v.collapsed = u.collapsed
            /\ v.sprint = IF SelectedPlanningSprint(b, u) = NoSprint THEN 0 ELSE u.sprint
            /\ v.sprintBoard = b.board /\ v.blank = u.blank
            /\ v.strip = IF HasCadence(b.cadence) /\ StripIsStale(b, u) THEN NoPage ELSE u.strip
            /\ v.epic \in {0, u.epic}
<1>1. b.board \in Nat
  BY DEF IsBoard
<1> QED BY ZenonT(60), <1>1, EmptyPage DEF SettledSelection, PageChoices

LEMMA SettledFocusIs ==
  ASSUME NEW b, NEW u \in PageChoices
  PROVE  LET v == SettledFocus(b, u)
         IN /\ v \in PageChoices
            /\ v.view = u.view /\ v.wanted = u.wanted /\ v.sprint = u.sprint
            /\ v.sprintBoard = u.sprintBoard /\ v.strip = u.strip /\ v.epic = u.epic
            /\ v.focusBoard = u.focusBoard /\ v.collapsed = u.collapsed /\ v.blank = u.blank
            /\ \/ v.focus = u.focus /\ v.focused = u.focused
               \/ v.focus = 0 /\ ~v.focused /\ DependencyViewIds(b, u) = NoChain
<1> DEFINE gone == u.focus # 0 /\ u.focusBoard = b.board /\ DependencyViewIds(b, u) = NoChain
           focus == IF gone THEN 0 ELSE u.focus
           focused == u.focused /\ ~gone
<1>1. focus \in Nat /\ focused \in BOOLEAN
  BY DEF PageChoices
<1>2. SettledFocus(b, u) = [u EXCEPT !.focus = focus, !.focused = focused]
  BY DEF SettledFocus
<1>3. \/ focus = u.focus /\ focused = u.focused
      \/ focus = 0 /\ ~focused /\ DependencyViewIds(b, u) = NoChain
  BY DEF PageChoices
<1> HIDE DEF focus, focused
<1> QED BY ZenonT(60), <1>1, <1>2, <1>3 DEF PageChoices

(* What rendering the page for the choices u makes of them.                *)
RenderedIs(b, u, v) ==
  /\ v \in PageChoices
  /\ v.view = u.view /\ v.wanted = u.wanted /\ v.focusBoard = u.focusBoard
  /\ v.collapsed = u.collapsed /\ v.blank = Loading(b, u)
  /\ v.sprint \in {0, u.sprint} /\ v.focus \in {0, u.focus}
  /\ v.strip \in {NoPage, u.strip}
  /\ DependencyViewIds(b, v) = DependencyViewIds(b, u)
  /\ ~(u.view \in PlanningViews) => v.sprint = u.sprint
  /\ u.view \in PlanningViews /\ ~Loading(b, u) =>
       /\ v.sprint = 0 \/ SelectedPlanningSprint(b, v) # NoSprint
       /\ SelectedPlanningSprint(b, u) # NoSprint => v.sprint = u.sprint
       /\ HasCadence(b.cadence) => v.strip = NoPage \/ ~StripIsStale(b, v)
  /\ Loading(b, u) => v.sprint = u.sprint /\ v.sprintBoard = u.sprintBoard

LEMMA RenderingIs ==
  ASSUME NEW b, IsBoard(b), NEW u \in PageChoices
  PROVE  RenderedIs(b, u, Rendered(b, u))
<1> DEFINE s == SettledSelection(b, u)
           f == SettledFocus(b, s)
           loading == Loading(b, u)
<1>0. loading \in BOOLEAN
  BY DEF Loading
<1>1. /\ s \in PageChoices
      /\ s.view = u.view /\ s.wanted = u.wanted /\ s.focus = u.focus
      /\ s.focusBoard = u.focusBoard /\ s.focused = u.focused /\ s.collapsed = u.collapsed
      /\ s.sprint = IF SelectedPlanningSprint(b, u) = NoSprint THEN 0 ELSE u.sprint
      /\ s.sprintBoard = b.board /\ s.blank = u.blank
      /\ s.strip = IF HasCadence(b.cadence) /\ StripIsStale(b, u) THEN NoPage ELSE u.strip
  BY SettledSelectionIs
<1> HIDE DEF s
<1>2. /\ f \in PageChoices
      /\ f.view = u.view /\ f.wanted = u.wanted /\ f.sprint = s.sprint
      /\ f.sprintBoard = s.sprintBoard /\ f.strip = s.strip
      /\ f.focusBoard = u.focusBoard /\ f.collapsed = u.collapsed
      /\ f.focus \in {0, u.focus}
      /\ f.focus = u.focus \/ (f.focus = 0 /\ DependencyViewIds(b, s) = NoChain)
  BY <1>1, SettledFocusIs
<1> HIDE DEF f
<1>3. b.board \in Nat \ {0}
  BY DEF IsBoard
<1>4. CASE u.view \notin PlanningViews \/ loading
  <2>1. Rendered(b, u) = [u EXCEPT !.blank = loading]
    BY <1>4 DEF Rendered, Settled
  <2> DEFINE v == [u EXCEPT !.blank = loading]
  <2>2. /\ v \in PageChoices /\ v.blank = loading
        /\ v.view = u.view /\ v.wanted = u.wanted /\ v.focusBoard = u.focusBoard
        /\ v.collapsed = u.collapsed /\ v.sprint = u.sprint /\ v.focus = u.focus
        /\ v.strip = u.strip /\ v.sprintBoard = u.sprintBoard
    <3> HIDE DEF loading
    <3> QED BY <1>0 DEF PageChoices
  <2> HIDE DEF v
  <2>3. Unlimited(b, v) <=> Unlimited(b, u)
    BY <2>2 DEF Unlimited, SelectedPlanningSprint, Loading
  <2>4. DependencyViewIds(b, v) = DependencyViewIds(b, u)
    BY <2>2, <2>3, SameChain
  <2>5. v.strip \in {NoPage, u.strip} /\ v.focus \in {0, u.focus} /\ v.sprint \in {0, u.sprint}
        /\ v.blank = Loading(b, u)
    BY <2>2
  <2> HIDE DEF loading
  <2> QED BY <1>4, <2>1, <2>2, <2>4, <2>5 DEF RenderedIs, v, loading
<1>5. CASE u.view \in PlanningViews /\ ~loading
  <2>1. Rendered(b, u) = [f EXCEPT !.blank = loading]
    BY <1>5 DEF Rendered, Settled, f, s
  <2> DEFINE v == [f EXCEPT !.blank = loading]
  <2>2. /\ v \in PageChoices /\ v.blank = loading
        /\ v.view = u.view /\ v.wanted = u.wanted /\ v.focusBoard = u.focusBoard
        /\ v.collapsed = u.collapsed /\ v.sprint = s.sprint /\ v.focus = f.focus
        /\ v.strip = s.strip /\ v.sprintBoard = b.board
    <3> HIDE DEF loading
    <3> QED BY <1>0, <1>1, <1>2 DEF PageChoices
  <2> HIDE DEF v
  <2>3. ~Loading(b, v) /\ ~Loading(b, s)
    BY <1>1, <1>5, <2>2 DEF Loading
  <2>4. /\ SelectedPlanningSprint(b, s) = SelectedPlanningSprint(b, u)
        /\ SelectedPlanningSprint(b, v) = SelectedPlanningSprint(b, u)
        /\ v.sprint = 0 \/ (v.sprint = u.sprint /\ SelectedPlanningSprint(b, v) # NoSprint)
        /\ SelectedPlanningSprint(b, u) # NoSprint => v.sprint = u.sprint
    <3>1. CASE SelectedPlanningSprint(b, u) = NoSprint
      <4>1. s.sprint = 0 /\ v.sprint = 0
        BY <1>1, <2>2, <3>1
      <4> QED BY <3>1, <4>1, NoSprintZero
    <3>2. CASE SelectedPlanningSprint(b, u) # NoSprint
      <4>1. s.sprint = u.sprint /\ v.sprint = u.sprint
        BY <1>1, <2>2, <3>2
      <4>2. u.sprintBoard \in {0, b.board} /\ ~Loading(b, u)
        BY <3>2 DEF SelectedPlanningSprint
      <4>3. /\ SelectedPlanningSprint(b, u) = SprintByNumber(u.sprint, b.cadence)
            /\ SelectedPlanningSprint(b, s) = SprintByNumber(u.sprint, b.cadence)
            /\ SelectedPlanningSprint(b, v) = SprintByNumber(u.sprint, b.cadence)
        BY <1>1, <1>5, <2>2, <2>3, <4>1, <4>2 DEF SelectedPlanningSprint
      <4> QED BY <3>2, <4>1, <4>3
    <3> QED BY <3>1, <3>2
  <2>5. DependencyViewIds(b, v) = DependencyViewIds(b, u)
    <3>1. DependencyViewIds(b, s) = DependencyViewIds(b, u)
      <4>1. Unlimited(b, s) <=> Unlimited(b, u)
        BY <1>1, <2>4 DEF Unlimited
      <4>2. ~Unlimited(b, u) => s.sprint = u.sprint
        BY <1>1 DEF Unlimited
      <4> QED BY <1>1, <4>1, <4>2, SameChain
    <3>2. CASE f.focus = u.focus
      <4>1. Unlimited(b, v) <=> Unlimited(b, s)
        BY <1>1, <2>2, <2>4 DEF Unlimited
      <4> QED BY <1>1, <2>2, <3>1, <3>2, <4>1, SameChain
    <3>3. CASE f.focus = 0 /\ DependencyViewIds(b, s) = NoChain
      BY <2>2, <3>1, <3>3, NoFocusNoChain
    <3> QED BY <1>2, <3>2, <3>3
  <2>6. HasCadence(b.cadence) => v.strip = NoPage \/ ~StripIsStale(b, v)
    <3>1. CASE StripIsStale(b, u)
      BY <1>1, <2>2, <3>1
    <3>2. CASE ~StripIsStale(b, u)
      BY <1>1, <2>2, <3>2 DEF StripIsStale
    <3> QED BY <3>1, <3>2
  <2>7. v.strip \in {NoPage, u.strip} /\ v.focus \in {0, u.focus} /\ v.sprint \in {0, u.sprint}
    BY <1>1, <1>2, <2>2
  <2>8. ~Loading(b, u) /\ v.blank = Loading(b, u)
    BY <1>5, <2>2
  <2> HIDE DEF loading
  <2> QED BY <1>5, <2>1, <2>2, <2>4, <2>5, <2>6, <2>7, <2>8 DEF RenderedIs, v
<1> QED BY <1>4, <1>5

-----------------------------------------------------------------------------
(* The Sprint plan *)

(* The fields show the draft of this board, which differs from the saved   *)
(* plan, or the saved plan; the cards are live for the latter only.        *)
PlanFits(b, p) ==
  /\ p.fields = IF p.draft = NoDraft THEN SavedPlan(b) ELSE p.draft
  /\ p.draft # NoDraft => p.draft.board = b.board /\ p.draft # SavedPlan(b)
  /\ p.cards => p.draft = NoDraft

LEMMA PlansTyped ==
  ASSUME NEW b, IsBoard(b)
  PROVE  NoDraft \in Typed /\ SavedPlan(b) \in Typed /\ NoDraft # SavedPlan(b)
         /\ SavedPlan(b).board = b.board
<1>1. b.board \in Nat \ {0} /\ b.cadence.start \in Days \union {NoDay} /\ b.cadence.weeks \in Int
  BY DEF IsBoard, StoredCadences
<1>2. ValidSprintWeeks(b.cadence.weeks) \in Int
  BY <1>1 DEF ValidSprintWeeks
<1>3. NoDraft \in Typed
  BY DEF NoDraft, Typed
<1> QED BY <1>1, <1>2, <1>3 DEF SavedPlan, NoDraft, Typed

LEMMA WiredIs ==
  ASSUME NEW b, IsBoard(b), NEW p \in PlanStates
  PROVE  LET q == WireSprintPlanner(b, p)
         IN /\ q \in PlanStates /\ PlanFits(b, q)
            /\ \A s \in q.saves : \E r \in p.saves : s.board = r.board
            /\ q.draft = p.draft \/ p.draft.board # b.board \/ p.draft = SavedPlan(b)
<1> DEFINE draft == CurrentSprintCadenceDraft(b, p.draft)
           fields == IF draft = NoDraft THEN SavedPlan(b) ELSE draft
           cards == draft = NoDraft /\ b.cadence.start # NoDay
           saves == {[s EXCEPT !.shown = FALSE] : s \in p.saves}
           q == WireSprintPlanner(b, p)
<1>1. draft \in Typed /\ (draft = p.draft \/ p.draft.board # b.board \/ p.draft = SavedPlan(b))
      /\ (draft # NoDraft => draft.board = b.board /\ draft # SavedPlan(b))
  BY PlansTyped DEF CurrentSprintCadenceDraft, PlanStates
<1>2. fields \in Typed /\ cards \in BOOLEAN /\ (cards => draft = NoDraft)
  BY <1>1, PlansTyped
<1>3. /\ saves \subseteq [id : Nat, board : Nat \ {0}, start : Days, weeks : 1 .. 52,
                          stage : {"put", "served", "load", "late"}, shown : BOOLEAN, fresh : BOOLEAN]
      /\ \A s \in saves : \E r \in p.saves : s.board = r.board
  <2> DEFINE S == [id : Nat, board : Nat \ {0}, start : Days, weeks : 1 .. 52,
                   stage : {"put", "served", "load", "late"}, shown : BOOLEAN, fresh : BOOLEAN]
  <2>1. p.saves \subseteq S
    BY DEF PlanStates
  <2>2. \A s \in S : \A c \in BOOLEAN : [s EXCEPT !.shown = c] \in S /\ [s EXCEPT !.shown = c].board = s.board
    OBVIOUS
  <2> HIDE DEF S
  <2>3. FALSE \in BOOLEAN
    OBVIOUS
  <2>4. \A s \in S : [s EXCEPT !.shown = FALSE] \in S /\ [s EXCEPT !.shown = FALSE].board = s.board
    BY <2>2, <2>3
  <2> QED BY <2>1, <2>4 DEF S
<1> DEFINE made(c) == [p EXCEPT !.draft = draft, !.fields = fields, !.saving = c,
                                !.cards = cards, !.saves = saves]
<1>4. q = made(FALSE)
  BY DEF WireSprintPlanner
<1> HIDE DEF draft, fields, cards, saves, q
<1>5. \A c \in BOOLEAN : /\ made(c) \in PlanStates /\ made(c).draft = draft /\ made(c).fields = fields
                         /\ made(c).cards = cards /\ made(c).saves = saves
  BY <1>1, <1>2, <1>3 DEF PlanStates
<1>6. /\ q \in PlanStates /\ q.draft = draft /\ q.fields = fields
      /\ q.cards = cards /\ q.saves = saves
  <2> HIDE DEF made
  <2>1. FALSE \in BOOLEAN
    OBVIOUS
  <2> QED BY <1>4, <1>5, <2>1
<1>7. PlanFits(b, q)
  BY <1>1, <1>2, <1>6 DEF PlanFits, fields
<1> QED BY <1>1, <1>3, <1>6, <1>7 DEF q

-----------------------------------------------------------------------------
(* The invariant *)

(* Only the latest load counts, a page that loads another board is blank,  *)
(* the Sprint of a planning view exists, on the Timeline there is a Sprint *)
(* or a chain, and the Board shows the plan.                               *)
PlanningInv ==
  /\ TypeOK
  /\ load # 0 => load = ui.wanted
  /\ Loading(board, ui) => ui.blank
  /\ ui.view \in PlanningViews /\ ~Loading(board, ui) =>
       ui.sprint = 0 \/ SelectedPlanningSprint(board, ui) # NoSprint
  /\ ui.view = "timeline" => ui.sprint = 0 \/ ui.focus = 0
  /\ Shows("board") => PlanFits(board, plan)
  /\ AddressNamesThePage

(* One choice leaves the open chain on the screen, and the chosen Sprint   *)
(* has its card.                                                           *)
Sight(u) ==
  /\ (u.wanted = ui.wanted /\ {ui.view, u.view} \subseteq PlanningViews
        /\ HiddenByCollapse(board, ui) = {}) => HiddenByCollapse(board, u) = {}
  /\ u.sprint \notin {0, ui.sprint} =>
       /\ u.view \in PlanningViews
       /\ \/ u.strip = NoPage
          \/ \E s \in SprintWindow(board.cadence, Today, 6, SprintStripFirstNumber(board, u)) :
               s.number = u.sprint

SameAddress(u) ==
  u.view = ui.view /\ u.wanted = ui.wanted /\ u.sprint = ui.sprint /\ u.sprintBoard = ui.sprintBoard

(* The page is rendered for the choices u.                                 *)
Redraw(u) ==
  /\ u \in PageChoices /\ u.wanted \in DOMAIN server
  /\ RenderView(board, u) /\ UNCHANGED <<server, board>>
  /\ load' \in {0, load} /\ (load' # 0 => u.wanted = ui.wanted)
  /\ u.view = "timeline" => u.sprint = 0 \/ u.focus = 0
  /\ url' = SyncRoute(board, ui') \/ (UNCHANGED url /\ SameAddress(u))
  /\ Sight(u)

Users == [may : SUBSET Ops, left : Nat]

LEMMA ChoiceTyped ==
  ASSUME NEW op, Choice(op), user \in Users PROVE user' \in Users
BY DEF Choice, Users

(* Choices that leave the chain alone.                                     *)
LEMMA ChainStays ==
  ASSUME NEW b, NEW u, NEW v, {u.view, v.view} \subseteq PlanningViews, v.wanted = u.wanted,
         v.sprintBoard = u.sprintBoard, v.sprint = u.sprint,
         v.focus = u.focus, v.focusBoard = u.focusBoard,
         (v.view = "timeline" <=> u.view = "timeline") \/ u.sprint = 0
  PROVE  DependencyViewIds(b, v) = DependencyViewIds(b, u)
<1>1. SelectedPlanningSprint(b, v) = SelectedPlanningSprint(b, u)
  BY DEF SelectedPlanningSprint, Loading
<1>2. u.sprint = 0 => SelectedPlanningSprint(b, u) = NoSprint
  BY NoSprintZero
<1>3. Unlimited(b, v) <=> Unlimited(b, u)
  BY <1>1, <1>2 DEF Unlimited
<1> QED BY <1>3, SameChain

LEMMA SightStays ==
  ASSUME NEW u, u.collapsed = ui.collapsed, u.sprint = ui.sprint, u.sprintBoard = ui.sprintBoard,
         u.wanted = ui.wanted,
         u.focus = 0 \/ (/\ u.focus = ui.focus /\ u.focusBoard = ui.focusBoard
                         /\ \/ u.view = "timeline" <=> ui.view = "timeline"
                            \/ ui.sprint = 0)
  PROVE  Sight(u)
<1>1. u.sprint \in {0, ui.sprint}
  OBVIOUS
<1>2. CASE u.focus = 0
  <2>1. DependencyViewIds(board, u) = {}
    BY <1>2, NoFocusNoChain DEF NoChain
  <2> QED BY <1>1, <2>1 DEF Sight, HiddenByCollapse
<1>3. CASE u.focus # 0
  <2>1. {ui.view, u.view} \subseteq PlanningViews => DependencyViewIds(board, u) = DependencyViewIds(board, ui)
    BY <1>3, ChainStays
  <2> QED BY <1>1, <2>1 DEF Sight, HiddenByCollapse
<1> QED BY <1>2, <1>3

-----------------------------------------------------------------------------
(* Choices in the dependency view *)

LEMMA ShowIsRedraw ==
  ASSUME PlanningInv, NEW u \in PageChoices, u.wanted = ui.wanted,
         u.view = "timeline" => u.sprint = 0 \/ u.focus = 0, Sight(u), Show(u),
         url' = SyncRoute(board, ui') \/ (UNCHANGED url /\ SameAddress(u))
  PROVE  Redraw(u)
BY DEF Redraw, Show, PlanningInv, TypeOK

LEMMA Constants ==
  TRUE \in BOOLEAN /\ FALSE \in BOOLEAN /\ "dependencies" \in {"dependencies", "normal"}
    /\ "normal" \in {"dependencies", "normal"}
OBVIOUS

(* Opening a chain shows it and changes nothing else but, on the Timeline, *)
(* the Sprint.                                                             *)
LEMMA OpenedRedraws ==
  ASSUME PlanningInv, NEW u \in PageChoices, SameAddress(u), u.strip = ui.strip, Opened(u)
  PROVE  \E v : Redraw(v)
<1> DEFINE ids == DependencyViewIds(board, u)
           rest == u.collapsed \ {TopEpicFor(board, i) : i \in ids}
           e == [u EXCEPT !.collapsed = rest]
           z == [e EXCEPT !.sprint = 0]
<1>1. rest \in SUBSET Nat
  BY DEF PageChoices
<1>2. Expanded(board, u, ids) = e
  BY DEF Expanded
<1> HIDE DEF rest
<1>3. /\ e \in PageChoices /\ e.view = u.view /\ e.wanted = u.wanted /\ e.sprint = u.sprint
      /\ e.sprintBoard = u.sprintBoard /\ e.focus = u.focus /\ e.focusBoard = u.focusBoard
      /\ e.collapsed = rest
  BY <1>1 DEF PageChoices
<1>4. /\ z \in PageChoices /\ z.view = u.view /\ z.wanted = u.wanted /\ z.sprint = 0
      /\ z.sprintBoard = u.sprintBoard /\ z.focus = u.focus /\ z.focusBoard = u.focusBoard
      /\ z.collapsed = rest
  <2> HIDE DEF e
  <2> QED BY <1>3 DEF PageChoices
<1> HIDE DEF e, z
<1>5. CASE u.view = "timeline"
  <2>1. ShowAt(z)
    BY <1>2, <1>5 DEF Opened, ids, e, z
  <2>2. DependencyViewIds(board, z) = ids
    <3>1. Unlimited(board, z) /\ Unlimited(board, u)
      BY <1>4, <1>5 DEF Unlimited
    <3> QED BY <1>4, <3>1, SameChain
  <2>3. Sight(z)
    BY <1>4, <2>2 DEF Sight, HiddenByCollapse, rest
  <2> QED BY <1>4, <2>1, <2>3, ShowIsRedraw DEF ShowAt, SameAddress
<1>6. CASE u.view # "timeline"
  <2>1. Show(e) /\ UNCHANGED url
    BY <1>2, <1>6 DEF Opened, ids, e
  <2>2. DependencyViewIds(board, e) = ids
    <3>1. Unlimited(board, e) <=> Unlimited(board, u)
      BY <1>3 DEF Unlimited, SelectedPlanningSprint, Loading
    <3> QED BY <1>3, <3>1, SameChain
  <2>3. Sight(e)
    BY <1>3, <2>2 DEF Sight, HiddenByCollapse, rest, SameAddress
  <2>4. SameAddress(e)
    BY <1>3 DEF SameAddress
  <2> QED BY <1>3, <1>6, <2>1, <2>3, <2>4, ShowIsRedraw DEF SameAddress
<1> QED BY <1>5, <1>6

LEMMA ChainChoices ==
  ASSUME PlanningInv,
         \/ \E i : OpenDependencies(i) \/ ToggleDependencyFocus(i) \/ ToggleEpic(i)
         \/ ShowOtherTasks \/ CloseDependencies
         \/ \E mode \in {"dependencies", "normal"} : SetDependencySort(mode)
  PROVE  \E u : Redraw(u)
<1>0. /\ ui \in PageChoices /\ IsBoard(board) /\ board.board \in Nat
      /\ ui.view = "timeline" => ui.sprint = 0 \/ ui.focus = 0
  BY DEF PlanningInv, TypeOK, IsBoard
<1>1. WorkTickets(board) \subseteq Nat
  BY <1>0 DEF WorkTickets, IsBoard
<1>2. /\ ui.focus \in Nat /\ ui.focusBoard \in Nat /\ ui.focused \in BOOLEAN
      /\ ui.sort \in {"dependencies", "normal"} /\ ui.collapsed \in SUBSET Nat
  BY <1>0 DEF PageChoices
<1>3. ASSUME NEW i, OpenDependencies(i) PROVE \E u : Redraw(u)
  <2> DEFINE sort == IF Chain = NoChain THEN "dependencies" ELSE ui.sort
             made(c) == [ui EXCEPT !.sort = sort, !.focus = i, !.focusBoard = board.board, !.focused = c]
  <2>1. Opened(made(FALSE)) /\ i \in Nat
    BY <1>1, <1>3 DEF OpenDependencies
  <2>2. sort \in {"dependencies", "normal"}
    BY <1>2
  <2> HIDE DEF sort
  <2>3. \A c \in BOOLEAN : /\ made(c) \in PageChoices /\ SameAddress(made(c))
                           /\ made(c).strip = ui.strip
    BY <1>0, <2>1, <2>2 DEF SameAddress, PageChoices
  <2> HIDE DEF made
  <2> QED BY <2>1, <2>3, Constants, OpenedRedraws
<1>4. ASSUME NEW i, ToggleDependencyFocus(i) PROVE \E u : Redraw(u)
  <2> DEFINE focused == ~(ui.focusBoard = board.board /\ ui.focus = i /\ ui.focused)
             made(c) == [ui EXCEPT !.focused = c, !.focus = i, !.focusBoard = board.board]
  <2>1. Opened(made(focused)) /\ i \in Nat
    BY <1>1, <1>4 DEF ToggleDependencyFocus
  <2>2. focused \in BOOLEAN
    OBVIOUS
  <2> HIDE DEF focused
  <2>3. /\ made(focused) \in PageChoices /\ SameAddress(made(focused))
        /\ made(focused).strip = ui.strip
    BY <1>0, <2>1, <2>2 DEF SameAddress, PageChoices
  <2> HIDE DEF made
  <2> QED BY <2>1, <2>3, OpenedRedraws
<1>5. ASSUME NEW i, ToggleEpic(i) PROVE \E u : Redraw(u)
  <2> DEFINE closes == i \notin ui.collapsed /\ \E j \in DependencyViewIds(board, ui) : TopEpicFor(board, j) = i
             focus == IF closes THEN 0 ELSE ui.focus
             focused == ui.focused /\ ~closes
             collapsed == IF i \in ui.collapsed THEN ui.collapsed \ {i} ELSE ui.collapsed \union {i}
             u == [ui EXCEPT !.focus = focus, !.focused = focused, !.collapsed = collapsed]
  <2>1. Show(u) /\ UNCHANGED url /\ i \in Nat
    BY <1>1, <1>5 DEF ToggleEpic, Toggled
  <2>2. focus \in Nat /\ focused \in BOOLEAN /\ collapsed \in SUBSET Nat /\ focus \in {0, ui.focus}
    BY <1>2, <2>1
  <2>3. /\ focus = 0 \/ focus = ui.focus
        /\ focus = 0 \/ ~closes
    <3>1. CASE closes
      BY <3>1
    <3>2. CASE ~closes
      BY <3>2
    <3> QED BY <3>1, <3>2
  <2> HIDE DEF focus, focused, collapsed
  <2>4. /\ u \in PageChoices /\ SameAddress(u) /\ u.collapsed = collapsed
        /\ u.focus = focus /\ u.focusBoard = ui.focusBoard /\ u.wanted = ui.wanted
        /\ u.view = ui.view /\ u.sprint = ui.sprint
    BY <1>0, <2>2 DEF PageChoices, SameAddress
  <2> HIDE DEF u
  <2>5. Sight(u)
    <3>1. CASE focus = 0
      <4>1. DependencyViewIds(board, u) = {}
        BY <2>4, <3>1, NoFocusNoChain DEF NoChain
      <4> QED BY <2>4, <4>1 DEF Sight, HiddenByCollapse
    <3>2. CASE focus = ui.focus /\ ~closes
      <4>1. {ui.view, u.view} \subseteq PlanningViews =>
              DependencyViewIds(board, u) = DependencyViewIds(board, ui)
        BY <2>4, <3>2, ChainStays DEF SameAddress
      <4>2. HiddenByCollapse(board, ui) = {} =>
              \A j \in DependencyViewIds(board, ui) : TopEpicFor(board, j) \notin collapsed
        BY <3>2 DEF HiddenByCollapse, collapsed
      <4> QED BY <2>4, <4>1, <4>2 DEF Sight, HiddenByCollapse
    <3> QED BY <2>3, <3>1, <3>2
  <2> QED BY <1>0, <2>1, <2>2, <2>4, <2>5, ShowIsRedraw DEF SameAddress
<1>6. ASSUME ShowOtherTasks PROVE \E u : Redraw(u)
  <2> DEFINE made(c) == [ui EXCEPT !.focused = c]
  <2>1. Show(made(FALSE)) /\ UNCHANGED url
    BY <1>6 DEF ShowOtherTasks
  <2>2. \A c \in BOOLEAN : /\ made(c) \in PageChoices /\ SameAddress(made(c))
                           /\ made(c).collapsed = ui.collapsed /\ made(c).focus = ui.focus
                           /\ made(c).focusBoard = ui.focusBoard
    BY <1>0 DEF PageChoices, SameAddress
  <2> HIDE DEF made
  <2>3. PICK u : u = made(FALSE)
    OBVIOUS
  <2>4. Sight(u)
    BY <2>2, <2>3, Constants, SightStays DEF SameAddress
  <2> QED BY <1>0, <2>1, <2>2, <2>3, <2>4, Constants, ShowIsRedraw DEF SameAddress
<1>7. ASSUME CloseDependencies PROVE \E u : Redraw(u)
  <2> DEFINE made(c) == [ui EXCEPT !.focus = 0, !.focused = c, !.sort = "dependencies"]
  <2>1. Show(made(FALSE)) /\ UNCHANGED url
    BY <1>7 DEF CloseDependencies
  <2>2. \A c \in BOOLEAN : /\ made(c) \in PageChoices /\ SameAddress(made(c))
                           /\ made(c).collapsed = ui.collapsed /\ made(c).focus = 0
    BY <1>0 DEF PageChoices, SameAddress
  <2> HIDE DEF made
  <2>3. PICK u : u = made(FALSE)
    OBVIOUS
  <2>4. Sight(u)
    BY <2>2, <2>3, Constants, SightStays DEF SameAddress
  <2> QED BY <1>0, <2>1, <2>2, <2>3, <2>4, Constants, ShowIsRedraw DEF SameAddress
<1>8. ASSUME NEW mode \in {"dependencies", "normal"}, SetDependencySort(mode) PROVE \E u : Redraw(u)
  <2> DEFINE u == [ui EXCEPT !.sort = mode]
  <2>1. Show(u) /\ UNCHANGED url
    BY <1>8 DEF SetDependencySort
  <2>2. /\ u \in PageChoices /\ SameAddress(u)
        /\ u.collapsed = ui.collapsed /\ u.focus = ui.focus /\ u.focusBoard = ui.focusBoard
    BY <1>0 DEF PageChoices, SameAddress
  <2> HIDE DEF u
  <2>3. Sight(u)
    BY <2>2, SightStays DEF SameAddress
  <2> QED BY <1>0, <2>1, <2>2, <2>3, ShowIsRedraw DEF SameAddress
<1> QED BY <1>3, <1>4, <1>5, <1>6, <1>7, <1>8

-----------------------------------------------------------------------------
(* Choices of Sprints, filters and order *)

(* The cards of the strip have consecutive numbers.                        *)
LEMMA StripNumbers ==
  ASSUME NEW c \in StoredCadences, NEW first \in Nat
  PROVE  LET strip == SprintWindow(c, Today, 6, first)
         IN /\ \A s \in strip : s.number \in Nat \ {0}
            /\ strip # {} => \E n \in Nat : /\ \A s \in strip : n + 1 <= s.number
                                            /\ \E s \in strip : s.number = n + 1
                                            /\ first > 0 => first = n + 1
<1> DEFINE current == IF Today < c.start THEN 0 ELSE (Today - c.start) \div Span(c)
           index == IF first > 0 THEN first - 1 ELSE current
           cards == {SprintRange(index + k - 1, c) : k \in 1 .. 6}
<1>1. \A n : SprintRange(n, c).number = n + 1
  BY DEF SprintRange
<1>2. ASSUME HasCadence(c) PROVE index \in Nat
  <2>1. c.start \in Nat /\ Span(c) \in Nat \ {0} /\ Today \in Nat
    BY <1>2, TimelineAssumption, SprintsAssumption
       DEF StoredCadences, HasCadence, ValidDate, ValidSprintWeeks, Span, Days
  <2>2. Today < c.start \/ Today - c.start \in Nat
    BY <2>1
  <2>3. current \in Nat
    BY <2>1, <2>2, Division
  <2> HIDE DEF current
  <2> QED BY <2>3
<1> HIDE DEF index
<1>3. SprintWindow(c, Today, 6, first) \in {{}, cards}
      /\ (SprintWindow(c, Today, 6, first) # {} => HasCadence(c))
  BY DEF SprintWindow, index
<1>4. ASSUME HasCadence(c)
      PROVE  /\ \A s \in cards : s.number \in Nat \ {0} /\ index + 1 <= s.number
             /\ \E s \in cards : s.number = index + 1
  <2>1. \A k \in 1 .. 6 : SprintRange(index + k - 1, c).number = index + k
    BY <1>1, <1>2, <1>4
  <2>2. \A k \in 1 .. 6 : index + k \in Nat \ {0} /\ index + 1 <= index + k
    BY <1>2, <1>4
  <2>3. 1 \in 1 .. 6
    OBVIOUS
  <2> QED BY <2>1, <2>2, <2>3
<1>5. first > 0 => first = index + 1
  BY DEF index
<1> HIDE DEF cards
<1> QED BY <1>2, <1>3, <1>4, <1>5

LEMMA FirstNumberTyped ==
  ASSUME NEW b, NEW u \in PageChoices PROVE SprintStripFirstNumber(b, u) \in Nat
BY DEF SprintStripFirstNumber, PageChoices

LEMMA SelectionIs ==
  ASSUME NEW u \in PageChoices, IsBoard(board), NEW n \in Nat
  PROVE  LET v == PlanningSprintSelection(board, u, n)
         IN /\ v \in PageChoices /\ v.view = u.view /\ v.wanted = u.wanted /\ v.focus = 0
            /\ v.sprint = n /\ v.collapsed = u.collapsed
            /\ n # 0 => \/ v.strip = NoPage
                        \/ \E s \in SprintWindow(board.cadence, Today, 6, SprintStripFirstNumber(board, v)) :
                             s.number = n
<1> DEFINE epic == IF u.view = "timeline" THEN 0 ELSE u.epic
           made(c, d) == [u EXCEPT !.focus = 0, !.focusBoard = 0, !.focused = c, !.sprint = n,
                                   !.only = d, !.sprintBoard = board.board, !.epic = epic]
           chosen == made(FALSE, TRUE)
           shown == SprintWindow(board.cadence, Today, 6, SprintStripFirstNumber(board, chosen))
           strip == IF n = 0 \/ ~\E s \in shown : s.number = n THEN NoPage ELSE chosen.strip
           v == [chosen EXCEPT !.strip = strip]
<1>1. PlanningSprintSelection(board, u, n) = v
  BY DEF PlanningSprintSelection
<1>2. epic \in Nat /\ board.board \in Nat
  BY DEF PageChoices, IsBoard
<1> HIDE DEF epic
<1>3. \A c, d \in BOOLEAN :
        /\ made(c, d) \in PageChoices /\ made(c, d).view = u.view /\ made(c, d).wanted = u.wanted
        /\ made(c, d).focus = 0 /\ made(c, d).sprint = n /\ made(c, d).collapsed = u.collapsed
        /\ made(c, d).sprintBoard = board.board
  <2> TAKE c, d \in BOOLEAN
  <2> DEFINE w == [u EXCEPT !.focus = 0, !.focusBoard = 0, !.focused = c, !.sprint = n]
  <2>1. /\ w \in PageChoices /\ w.view = u.view /\ w.wanted = u.wanted
        /\ w.focus = 0 /\ w.sprint = n /\ w.collapsed = u.collapsed
    BY DEF PageChoices
  <2>2. made(c, d) = [w EXCEPT !.only = d, !.sprintBoard = board.board, !.epic = epic]
    BY DEF PageChoices
  <2> HIDE DEF w
  <2> DEFINE x == [w EXCEPT !.only = d, !.sprintBoard = board.board, !.epic = epic]
  <2>3. /\ x \in PageChoices /\ x.view = w.view /\ x.wanted = w.wanted
        /\ x.focus = w.focus /\ x.sprint = w.sprint
        /\ x.collapsed = w.collapsed /\ x.sprintBoard = board.board
    BY ZenonT(60), <1>2, <2>1 DEF PageChoices
  <2>4. made(c, d) = x
    BY <2>2
  <2> HIDE DEF x, made
  <2> QED BY <2>1, <2>3, <2>4
<1> HIDE DEF made
<1>4. /\ chosen \in PageChoices /\ chosen.view = u.view /\ chosen.wanted = u.wanted
      /\ chosen.focus = 0 /\ chosen.sprint = n /\ chosen.collapsed = u.collapsed
      /\ chosen.sprintBoard = board.board
  BY <1>3, Constants
<1> HIDE DEF chosen
<1>5. strip \in [board : Nat, cadence : StoredCadences, first : Nat] /\ strip \in {NoPage, chosen.strip}
  BY <1>4, EmptyPage DEF PageChoices
<1>6. strip = NoPage \/ (n # 0 /\ \E s \in shown : s.number = n)
  OBVIOUS
<1> HIDE DEF strip, shown
<1>7. /\ v \in PageChoices /\ v.view = u.view /\ v.wanted = u.wanted
      /\ v.focus = 0 /\ v.sprint = n /\ v.collapsed = u.collapsed
      /\ v.sprintBoard = board.board /\ v.strip = strip
  BY <1>4, <1>5 DEF PageChoices
<1> HIDE DEF v
<1>8. strip = chosen.strip => SprintStripFirstNumber(board, v) = SprintStripFirstNumber(board, chosen)
  <2>1. SelectedPlanningSprint(board, v) = SelectedPlanningSprint(board, chosen)
    BY <1>4, <1>7 DEF SelectedPlanningSprint, Loading
  <2>2. strip = chosen.strip => (StripIsStale(board, v) <=> StripIsStale(board, chosen))
    BY <1>7 DEF StripIsStale
  <2> QED BY <1>4, <1>7, <2>1, <2>2 DEF SprintStripFirstNumber
<1> QED BY <1>1, <1>5, <1>6, <1>7, <1>8 DEF shown

LEMMA SelectionRedraws ==
  ASSUME PlanningInv, NEW u \in PageChoices, u.view = ui.view, u.wanted = ui.wanted,
         NEW n \in Nat, n = 0 \/ ui.view \in PlanningViews,
         ShowAt(PlanningSprintSelection(board, u, n))
  PROVE  \E v : Redraw(v)
<1>1. IsBoard(board)
  BY DEF PlanningInv, TypeOK
<1> DEFINE v == PlanningSprintSelection(board, u, n)
<1>2. /\ v \in PageChoices /\ v.view = u.view /\ v.wanted = u.wanted /\ v.focus = 0
      /\ v.sprint = n
      /\ n # 0 => \/ v.strip = NoPage
                  \/ \E s \in SprintWindow(board.cadence, Today, 6, SprintStripFirstNumber(board, v)) :
                       s.number = n
  BY <1>1, SelectionIs
<1> HIDE DEF v
<1>3. DependencyViewIds(board, v) = {}
  BY <1>2, NoFocusNoChain DEF NoChain
<1>4. Sight(v)
  BY <1>2, <1>3 DEF Sight, HiddenByCollapse
<1>5. Show(v) /\ url' = SyncRoute(board, ui')
  BY DEF ShowAt, v
<1> QED BY <1>2, <1>4, <1>5, ShowIsRedraw

LEMMA SelectionChoices ==
  ASSUME PlanningInv,
         \/ \E sprint \in StripSprints : SelectPlanningSprint(sprint.number)
         \/ ClearPlanningSprint \/ ToggleTimelineSprintTasks
         \/ \E e \in {0} \union WorkTickets(board) : ChooseTimelineEpic(e)
         \/ ResetTaskFilters
         \/ \E filters \in TaskFilters : SetTaskFilters(filters)
         \/ \E table \in TableFilters : SetTableFilters(table)
         \/ \E key \in SortKeys : SortOverview(key)
  PROVE  \E u : Redraw(u)
<1>0. /\ ui \in PageChoices /\ IsBoard(board) /\ board.board \in Nat
      /\ ui.view = "timeline" => ui.sprint = 0 \/ ui.focus = 0
  BY DEF PlanningInv, TypeOK, IsBoard
<1>1. ASSUME NEW u \in PageChoices, SameAddress(u), u.collapsed = ui.collapsed,
             u.focus = ui.focus, u.focusBoard = ui.focusBoard, Show(u), UNCHANGED url
      PROVE  \E v : Redraw(v)
  <2>1. Sight(u)
    BY <1>1, SightStays DEF SameAddress
  <2> QED BY <1>0, <1>1, <2>1, ShowIsRedraw DEF SameAddress
<1>2. ASSUME NEW sprint \in StripSprints, SelectPlanningSprint(sprint.number) PROVE \E u : Redraw(u)
  <2>1. sprint.number \in Nat
    <3>1. board.cadence \in StoredCadences /\ SprintStripFirstNumber(board, ui) \in Nat
      BY <1>0, FirstNumberTyped DEF IsBoard
    <3> QED BY <3>1, StripNumbers DEF StripSprints
  <2> DEFINE n == IF SelectedPlanningSprint(board, ui).number = sprint.number THEN 0 ELSE sprint.number
  <2>2. n \in Nat /\ ui.view \in PlanningViews /\ ShowAt(PlanningSprintSelection(board, ui, n))
    BY <1>2, <2>1 DEF SelectPlanningSprint, Planned
  <2> QED BY <1>0, <2>2, SelectionRedraws
<1>3. ASSUME ClearPlanningSprint PROVE \E u : Redraw(u)
  BY <1>0, <1>3, SelectionRedraws DEF ClearPlanningSprint
<1>4. ASSUME ToggleTimelineSprintTasks PROVE \E u : Redraw(u)
  <2> DEFINE u == [ui EXCEPT !.only = ~@]
  <2>1. Show(u) /\ UNCHANGED url
    BY <1>4 DEF ToggleTimelineSprintTasks
  <2>2. u \in PageChoices /\ SameAddress(u) /\ u.collapsed = ui.collapsed
        /\ u.focus = ui.focus /\ u.focusBoard = ui.focusBoard
    BY <1>0 DEF PageChoices, SameAddress
  <2> QED BY <1>1, <2>1, <2>2
<1>5. ASSUME NEW e \in {0} \union WorkTickets(board), ChooseTimelineEpic(e) PROVE \E u : Redraw(u)
  <2> DEFINE u == [ui EXCEPT !.epic = e]
  <2>1. Show(u) /\ UNCHANGED url
    BY <1>5 DEF ChooseTimelineEpic
  <2>2. e \in Nat
    BY <1>0 DEF WorkTickets, IsBoard
  <2>3. u \in PageChoices /\ SameAddress(u) /\ u.collapsed = ui.collapsed
        /\ u.focus = ui.focus /\ u.focusBoard = ui.focusBoard
    BY <1>0, <2>2 DEF PageChoices, SameAddress
  <2> QED BY <1>1, <2>1, <2>3
<1>6. ASSUME ResetTaskFilters PROVE \E u : Redraw(u)
  <2> DEFINE cleared == [ui EXCEPT !.filters = NoFilters, !.table = NoTableFilters, !.epic = 0]
  <2>1. ShowAt(PlanningSprintSelection(board, cleared, 0)) \/ (Show(cleared) /\ UNCHANGED url)
    BY <1>6 DEF ResetTaskFilters
  <2>2. cleared \in PageChoices /\ SameAddress(cleared) /\ cleared.collapsed = ui.collapsed
        /\ cleared.focus = ui.focus /\ cleared.focusBoard = ui.focusBoard
    BY <1>0 DEF PageChoices, SameAddress
  <2> HIDE DEF cleared
  <2>3. CASE ShowAt(PlanningSprintSelection(board, cleared, 0))
    BY <2>2, <2>3, SelectionRedraws DEF SameAddress
  <2> QED BY <1>1, <2>1, <2>2, <2>3
<1>7. ASSUME NEW filters \in TaskFilters, SetTaskFilters(filters) PROVE \E u : Redraw(u)
  <2> DEFINE u == [ui EXCEPT !.filters = filters]
  <2>1. Show(u) /\ UNCHANGED url
    BY <1>7 DEF SetTaskFilters
  <2>2. u \in PageChoices /\ SameAddress(u) /\ u.collapsed = ui.collapsed
        /\ u.focus = ui.focus /\ u.focusBoard = ui.focusBoard
    BY <1>0 DEF PageChoices, SameAddress
  <2> QED BY <1>1, <2>1, <2>2
<1>8. ASSUME NEW table \in TableFilters, SetTableFilters(table) PROVE \E u : Redraw(u)
  <2> DEFINE u == [ui EXCEPT !.table = table]
  <2>1. Show(u) /\ UNCHANGED url
    BY <1>8 DEF SetTableFilters
  <2>2. u \in PageChoices /\ SameAddress(u) /\ u.collapsed = ui.collapsed
        /\ u.focus = ui.focus /\ u.focusBoard = ui.focusBoard
    BY <1>0 DEF PageChoices, SameAddress
  <2> QED BY <1>1, <2>1, <2>2
<1>9. ASSUME NEW key \in SortKeys, SortOverview(key) PROVE \E u : Redraw(u)
  <2> DEFINE order == [key |-> key, descending |-> ui.order.key = key /\ ~ui.order.descending]
             sort == IF Chain # NoChain THEN "normal" ELSE ui.sort
             u == [ui EXCEPT !.order = order, !.sort = sort]
  <2>1. Show(u) /\ UNCHANGED url
    BY <1>9 DEF SortOverview
  <2>2. order \in [key : SortKeys, descending : BOOLEAN] /\ sort \in {"dependencies", "normal"}
    BY <1>0 DEF PageChoices
  <2> HIDE DEF order, sort
  <2>3. u \in PageChoices /\ SameAddress(u) /\ u.collapsed = ui.collapsed
        /\ u.focus = ui.focus /\ u.focusBoard = ui.focusBoard
    BY <1>0, <2>2 DEF PageChoices, SameAddress
  <2> QED BY <1>1, <2>1, <2>3
<1> QED BY <1>2, <1>3, <1>4, <1>5, <1>6, <1>7, <1>8, <1>9

-----------------------------------------------------------------------------
(* Other views, addresses of this board, loads that fail *)

(* What an address of the loaded board chooses.                            *)
LEMMA AppliedIs ==
  ASSUME NEW u \in PageChoices, NEW w \in Nat \ {0},
         NEW r \in [view : RouteViews, board : Nat, ticket : Nat, sprint : Nat]
  PROVE  LET v == Applied(u, r, w)
         IN /\ v \in PageChoices /\ v.wanted = w /\ v.view = r.view /\ v.sprint = r.sprint
            /\ v.sprintBoard = w /\ v.strip = NoPage /\ v.collapsed = u.collapsed
            /\ r.view \in PlanningViews => v.focus = 0
<1> DEFINE plans == r.view \in PlanningViews
           focus == IF plans THEN 0 ELSE u.focus
           focused == u.focused /\ ~plans
           epic == IF r.view = "timeline" /\ r.sprint # 0 THEN 0 ELSE u.epic
           x == [u EXCEPT !.wanted = w, !.view = r.view, !.sprint = r.sprint, !.sprintBoard = w]
           made(c) == [x EXCEPT !.strip = NoPage, !.only = c, !.focus = focus,
                                !.focused = focused, !.epic = epic]
<1>1. focus \in Nat /\ focused \in BOOLEAN /\ epic \in Nat /\ (plans => focus = 0)
  BY DEF PageChoices
<1>2. Applied(u, r, w) = made(TRUE)
  BY DEF Applied, PageChoices
<1>3. /\ x \in PageChoices /\ x.wanted = w /\ x.view = r.view /\ x.sprint = r.sprint
      /\ x.sprintBoard = w /\ x.collapsed = u.collapsed
  BY DEF PageChoices
<1> HIDE DEF focus, focused, epic, x
<1>4. \A c \in BOOLEAN :
        /\ made(c) \in PageChoices /\ made(c).wanted = x.wanted /\ made(c).view = x.view
        /\ made(c).sprint = x.sprint /\ made(c).sprintBoard = x.sprintBoard
        /\ made(c).strip = NoPage /\ made(c).collapsed = x.collapsed /\ made(c).focus = focus
  BY ZenonT(60), <1>1, <1>3, EmptyPage DEF PageChoices
<1> HIDE DEF made
<1> QED BY <1>1, <1>2, <1>3, <1>4, Constants

LEMMA MovingChoices ==
  ASSUME PlanningInv, PlanningAssumption,
         \/ \E view \in RouteViews : Navigate(view)
         \/ HomeLink \/ OpenBacklogView \/ OpenSharing
         \/ \E hash \in Hashes : ApplyRoute(hash) /\ ParseRoute(hash).board \in {0, board.board}
         \/ LoadFails /\ ui.wanted # board.board
  PROVE  \E u : Redraw(u)
<1>0. /\ ui \in PageChoices /\ IsBoard(board) /\ board.board \in Nat \ {0}
      /\ board.board \in DOMAIN server
      /\ ui.view = "timeline" => ui.sprint = 0 \/ ui.focus = 0
      /\ "board" \in RouteViews /\ "backlog" \in RouteViews /\ "admin" \in RouteViews
  BY DEF PlanningInv, TypeOK, IsBoard, RouteViews
<1>1. ASSUME NEW view \in RouteViews \ {"timeline"}, ShowAt([ui EXCEPT !.view = view])
      PROVE  \E u : Redraw(u)
  <2> DEFINE u == [ui EXCEPT !.view = view]
  <2>1. /\ u \in PageChoices /\ u.view = view /\ u.wanted = ui.wanted /\ u.sprint = ui.sprint
        /\ u.sprintBoard = ui.sprintBoard /\ u.collapsed = ui.collapsed
        /\ u.focus = ui.focus /\ u.focusBoard = ui.focusBoard
    BY <1>0 DEF PageChoices
  <2> HIDE DEF u
  <2>2. Sight(u)
    BY <1>0, <2>1, SightStays
  <2>3. Show(u) /\ url' = SyncRoute(board, ui')
    BY <1>1 DEF ShowAt, u
  <2> QED BY <2>1, <2>2, <2>3, ShowIsRedraw
<1>2. ASSUME NEW view \in RouteViews, Navigate(view) PROVE \E u : Redraw(u)
  <2> DEFINE frames == view = "timeline" /\ ui.sprint # 0
             sprint == IF view \in PlanningViews THEN ui.sprint ELSE 0
             epic == IF frames THEN 0 ELSE ui.epic
             focus == IF frames THEN 0 ELSE ui.focus
             focused == ui.focused /\ ~frames
             u == [ui EXCEPT !.view = view, !.sprint = sprint, !.epic = epic,
                             !.focus = focus, !.focused = focused]
  <2>1. ShowAt(u)
    BY <1>2 DEF Navigate, Navigated
  <2>2. /\ sprint \in Nat /\ epic \in Nat /\ focus \in Nat /\ focused \in BOOLEAN
        /\ sprint = 0 \/ (sprint = ui.sprint /\ view \in PlanningViews)
        /\ view \in PlanningViews => sprint = ui.sprint
        /\ focus = 0 \/ (focus = ui.focus /\ (view = "timeline" => ui.sprint = 0))
        /\ view = "timeline" => sprint = 0 \/ focus = 0
    <3>1. ui.sprint \in Nat /\ ui.epic \in Nat /\ ui.focus \in Nat /\ ui.focused \in BOOLEAN
      BY <1>0 DEF PageChoices
    <3>2. CASE frames
      BY <3>1, <3>2
    <3>3. CASE ~frames
      BY <3>1, <3>3
    <3> QED BY <3>2, <3>3
  <2> HIDE DEF sprint, epic, focus, focused
  <2>3. /\ u \in PageChoices /\ u.view = view /\ u.wanted = ui.wanted /\ u.sprint = sprint
        /\ u.sprintBoard = ui.sprintBoard /\ u.collapsed = ui.collapsed
        /\ u.focus = focus /\ u.focusBoard = ui.focusBoard
    BY <1>0, <2>2 DEF PageChoices
  <2> HIDE DEF u
  <2>4. Sight(u)
    <3>1. CASE view \in PlanningViews
      BY <1>0, <2>2, <2>3, <3>1, SightStays
    <3>2. CASE view \notin PlanningViews
      BY <2>2, <2>3, <3>2 DEF Sight
    <3> QED BY <3>1, <3>2
  <2> QED BY <2>1, <2>2, <2>3, <2>4, ShowIsRedraw DEF ShowAt
<1>3. ASSUME NEW hash \in Hashes, ApplyRoute(hash), ParseRoute(hash).board \in {0, board.board}
      PROVE  \E u : Redraw(u)
  <2> DEFINE r == ParseRoute(hash)
             u == Applied(ui, r, board.board)
  <2>1. /\ r \in [view : RouteViews, board : Nat, ticket : Nat, sprint : Nat]
        /\ r.view \notin PlanningViews => r.sprint = 0
    BY ParsedType DEF PlanningAssumption
  <2>2. /\ RenderView(board, u) /\ url' = SyncRoute(board, ui') /\ UNCHANGED <<server, board>>
        /\ load' = IF board.board # ui.wanted THEN 0 ELSE load
    BY <1>3 DEF ApplyRoute
  <2> HIDE DEF r
  <2>3. /\ u \in PageChoices /\ u.wanted = board.board /\ u.view = r.view /\ u.sprint = r.sprint
        /\ u.strip = NoPage /\ (r.view \in PlanningViews => u.focus = 0)
    BY <1>0, <2>1, AppliedIs
  <2> HIDE DEF u
  <2>4. u.view \in PlanningViews => DependencyViewIds(board, u) = {}
    BY <2>3, NoFocusNoChain DEF NoChain
  <2>5. Sight(u)
    BY <2>1, <2>3, <2>4 DEF Sight, HiddenByCollapse
  <2>6. u.view = "timeline" => u.focus = 0
    BY <2>3 DEF PlanningViews
  <2> QED BY <1>0, <2>2, <2>3, <2>5, <2>6 DEF Redraw
<1>4. ASSUME LoadFails, ui.wanted # board.board PROVE \E u : Redraw(u)
  <2> DEFINE u == [ui EXCEPT !.wanted = board.board]
  <2>1. /\ RenderView(board, u) /\ url' = SyncRoute(board, ui') /\ UNCHANGED <<server, board>>
        /\ load' = 0
    BY <1>4 DEF LoadFails
  <2>2. /\ u \in PageChoices /\ u.wanted = board.board /\ u.view = ui.view
        /\ u.sprint = ui.sprint /\ u.focus = ui.focus
    BY <1>0 DEF PageChoices
  <2> HIDE DEF u
  <2>3. Sight(u)
    BY <1>4, <2>2 DEF Sight
  <2> QED BY <1>0, <2>1, <2>2, <2>3 DEF Redraw
<1> QED
  <2>1. "board" \in RouteViews \ {"timeline"} /\ "backlog" \in RouteViews \ {"timeline"}
        /\ "admin" \in RouteViews \ {"timeline"}
    BY DEF RouteViews
  <2> QED BY <1>1, <1>2, <1>3, <1>4, <2>1 DEF HomeLink, OpenBacklogView, OpenSharing

-----------------------------------------------------------------------------
(* Loads and the plan *)

SaveRecords ==
  [id : Nat, board : Nat \ {0}, start : Days, weeks : 1 .. 52,
   stage : {"put", "served", "load", "late"}, shown : BOOLEAN, fresh : BOOLEAN]

LEMMA SavesChange ==
  ASSUME NEW p \in PlanStates, NEW saves \in SUBSET SaveRecords
  PROVE  LET q == [p EXCEPT !.saves = saves]
         IN /\ q \in PlanStates /\ q.saves = saves /\ q.draft = p.draft /\ q.fields = p.fields
            /\ q.cards = p.cards
<1> DEFINE S == SaveRecords
<1>1. /\ PlanStates = [draft : Typed, fields : Typed, saving : BOOLEAN, cards : BOOLEAN, saves : SUBSET S]
      /\ saves \subseteq S
  BY DEF PlanStates, SaveRecords
<1> HIDE DEF S
<1> QED BY <1>1

LEMMA SavesAre ==
  ASSUME NEW p \in PlanStates PROVE p.saves \subseteq SaveRecords
BY DEF PlanStates, SaveRecords

LEMMA SaveChanges ==
  ASSUME NEW s \in SaveRecords, NEW stage \in {"put", "served", "load", "late"}, NEW fresh \in BOOLEAN
  PROVE  /\ [s EXCEPT !.stage = stage] \in SaveRecords /\ [s EXCEPT !.stage = stage].board = s.board
         /\ [s EXCEPT !.fresh = fresh] \in SaveRecords /\ [s EXCEPT !.fresh = fresh].board = s.board
BY DEF SaveRecords

LEMMA OvertakenIs ==
  ASSUME NEW p \in PlanStates
  PROVE  LET q == Overtaken(p)
         IN /\ q \in PlanStates /\ q.draft = p.draft /\ q.fields = p.fields /\ q.cards = p.cards
            /\ \A s \in q.saves : \E r \in p.saves : s.board = r.board
<1> DEFINE saves == {IF s.stage = "load" THEN [s EXCEPT !.stage = "late"] ELSE s : s \in p.saves}
<1>1. \A s \in p.saves :
        LET r == IF s.stage = "load" THEN [s EXCEPT !.stage = "late"] ELSE s
        IN r \in SaveRecords /\ r.board = s.board
  BY SavesAre, SaveChanges
<1>2. saves \in SUBSET SaveRecords /\ \A s \in saves : \E r \in p.saves : s.board = r.board
  BY <1>1
<1>3. Overtaken(p) = [p EXCEPT !.saves = saves]
  BY DEF Overtaken
<1> HIDE DEF saves
<1> QED BY <1>2, <1>3, SavesChange

LEMMA ReleasedIs ==
  ASSUME NEW b, NEW p \in PlanStates, NEW s
  PROVE  LET q == Released(b, p, s)
         IN /\ q \in PlanStates /\ q.draft = p.draft /\ q.fields = p.fields
            /\ q.saves = p.saves \ {s}
            /\ q.cards => p.cards \/ ~SprintCadenceDirty(b, p)
<1> DEFINE ended == [p EXCEPT !.saves = @ \ {s}]
           saving == ended.saving /\ ~s.shown
           cards == CardsEnabled(b, p)
           q == [ended EXCEPT !.saving = saving, !.cards = cards]
<1>1. /\ ended \in PlanStates /\ ended.saves = p.saves \ {s} /\ ended.draft = p.draft
      /\ ended.fields = p.fields /\ ended.cards = p.cards
  BY SavesAre, SavesChange
<1>2. Released(b, p, s) \in {ended, q}
  BY DEF Released, PlanStates
<1>3. saving \in BOOLEAN /\ cards \in BOOLEAN /\ (cards => ~SprintCadenceDirty(b, p))
  BY <1>1 DEF PlanStates, CardsEnabled
<1> HIDE DEF ended, saving, cards
<1>4. q \in PlanStates /\ q.saves = ended.saves /\ q.draft = ended.draft /\ q.fields = ended.fields
      /\ q.cards = cards
  BY <1>1, <1>3 DEF PlanStates
<1> HIDE DEF q
<1> QED BY <1>1, <1>2, <1>3, <1>4

(* Fields that show the saved cadence leave no draft.                      *)
LEMMA CleanFields ==
  ASSUME NEW b, IsBoard(b), NEW p \in PlanStates
  PROVE  /\ p.fields.board = b.board /\ ~SprintCadenceDirty(b, p) => p.fields = SavedPlan(b)
         /\ SprintCadenceDirty(b, p) => p.fields # SavedPlan(b)
         /\ PlanFits(b, p) /\ ~SprintCadenceDirty(b, p) => p.draft = NoDraft
<1>1. p.fields \in Typed
  BY DEF PlanStates
<1>2. p.fields = [board |-> p.fields.board, start |-> p.fields.start, weeks |-> p.fields.weeks]
  BY <1>1 DEF Typed
<1>3. p.fields.board = b.board /\ ~SprintCadenceDirty(b, p) => p.fields = SavedPlan(b)
  BY <1>2 DEF SprintCadenceDirty, SavedPlan
<1>4. SprintCadenceDirty(b, p) => p.fields # SavedPlan(b)
  BY DEF SprintCadenceDirty, SavedPlan
<1>5. PlanFits(b, p) => p.fields.board = b.board /\ (p.draft # NoDraft => p.fields # SavedPlan(b))
  BY PlansTyped DEF PlanFits
<1> QED BY <1>3, <1>4, <1>5

LEMMA CapturedIs ==
  ASSUME NEW b, IsBoard(b), NEW p \in PlanStates, p.fields.board = b.board
  PROVE  LET draft == CaptureSprintCadenceDraft(b, p)
         IN /\ draft \in Typed
            /\ p.fields = IF draft = NoDraft THEN SavedPlan(b) ELSE draft
            /\ draft # NoDraft => draft.board = b.board /\ draft # SavedPlan(b)
            /\ draft = NoDraft <=> ~SprintCadenceDirty(b, p)
<1>1. p.fields \in Typed /\ [p.fields EXCEPT !.board = b.board] = p.fields
  BY DEF PlanStates, Typed
<1>2. p.fields # NoDraft
  BY DEF IsBoard, NoDraft
<1>3. CASE SprintCadenceDirty(b, p)
  BY <1>1, <1>2, <1>3, CleanFields DEF CaptureSprintCadenceDraft
<1>4. CASE ~SprintCadenceDirty(b, p)
  BY <1>4, CleanFields, PlansTyped DEF CaptureSprintCadenceDraft
<1> QED BY <1>3, <1>4

Boards(f) == \A i \in DOMAIN f : IsBoard(f[i]) /\ f[i].board = i

PlanTyped(p) == p \in PlanStates /\ \A s \in p.saves : s.board \in DOMAIN server

(* Nothing is chosen, but the strip may show another page.                 *)
Rests ==
  /\ UNCHANGED <<board, url>>
  /\ DOMAIN server' = DOMAIN server /\ Boards(server')
  /\ load' \in {load, ui.wanted, 0}
  /\ \/ UNCHANGED ui
     \/ \E strip \in [board : Nat, cadence : StoredCadences, first : Nat] : ui' = [ui EXCEPT !.strip = strip]
  /\ PlanTyped(plan') /\ (Shows("board") => PlanFits(board, plan'))
  /\ plan.draft # NoDraft /\ plan'.draft = NoDraft =>
       plan'.fields = SavedPlan(board) /\ UNCHANGED <<ui, load>>

(* The page goes blank for a board that is loaded, or stays blank.         *)
Blanks ==
  /\ UNCHANGED <<server, board>>
  /\ ui' \in PageChoices /\ ui'.wanted \in DOMAIN server /\ ui'.blank /\ load' = ui'.wanted
  /\ ui'.wanted = board.board => ui'.sprint = 0
  /\ ui'.view = "timeline" => ui'.sprint = 0 \/ ui'.focus = 0
  /\ ui'.wanted = ui.wanted /\ ui'.view \in PlanningViews => HiddenByCollapse(board, ui') = {}
  /\ AddressNamesThePage'
  /\ PlanTyped(plan') /\ plan'.draft = plan.draft

(* The plan when only its saves change.                                    *)
LEMMA PlanRests ==
  ASSUME PlanningInv, NEW q \in PlanStates, q.draft = plan.draft, q.fields = plan.fields,
         q.cards => plan.cards \/ ~SprintCadenceDirty(board, plan),
         \A s \in q.saves : \E r \in plan.saves : s.board = r.board
  PROVE  PlanTyped(q) /\ (Shows("board") => PlanFits(board, q))
<1>1. IsBoard(board) /\ PlanTyped(plan)
  BY DEF PlanningInv, TypeOK, PlanTyped
<1>2. \A s \in q.saves : s.board \in DOMAIN server
  BY <1>1 DEF PlanTyped
<1>3. ASSUME Shows("board") PROVE PlanFits(board, q)
  <2>1. PlanFits(board, plan)
    BY <1>3 DEF PlanningInv
  <2>2. q.cards => plan.draft = NoDraft
    BY <1>1, <2>1, CleanFields DEF PlanFits, PlanTyped
  <2> QED BY <2>1, <2>2 DEF PlanFits
<1> QED BY <1>2, <1>3 DEF PlanTyped

LEMMA EditRests ==
  ASSUME PlanningInv, PlanningAssumption, NEW t \in Plans, EditPlan(t[1], t[2])
  PROVE  Rests
<1> DEFINE fields == [board |-> board.board, start |-> t[1], weeks |-> t[2]]
           p == [plan EXCEPT !.fields = fields]
           draft == CaptureSprintCadenceDraft(board, p)
           cards == CardsEnabled(board, p)
           q == [p EXCEPT !.draft = draft, !.cards = cards]
<1>1. IsBoard(board) /\ PlanTyped(plan) /\ Boards(server) /\ board.board \in Nat
  BY DEF PlanningInv, TypeOK, PlanTyped, Boards, IsBoard
<1>2. plan' = q /\ UNCHANGED <<server, board, ui, url, load>>
  BY DEF EditPlan
<1>3. fields \in Typed /\ fields.board = board.board
  BY <1>1 DEF PlanningAssumption, Typed
<1> HIDE DEF fields
<1>4. p \in PlanStates /\ p.fields = fields /\ p.saves = plan.saves
  BY <1>1, <1>3 DEF PlanTyped, PlanStates
<1> HIDE DEF p
<1>5. /\ draft \in Typed /\ p.fields = IF draft = NoDraft THEN SavedPlan(board) ELSE draft
      /\ draft # NoDraft => draft.board = board.board /\ draft # SavedPlan(board)
      /\ draft = NoDraft <=> ~SprintCadenceDirty(board, p)
  BY <1>1, <1>3, <1>4, CapturedIs
<1>6. cards \in BOOLEAN /\ (cards => draft = NoDraft)
  BY <1>5 DEF CardsEnabled
<1> HIDE DEF draft, cards
<1>7. q \in PlanStates /\ q.fields = p.fields /\ q.draft = draft /\ q.cards = cards
      /\ q.saves = p.saves
  BY <1>4, <1>5, <1>6 DEF PlanStates
<1> HIDE DEF q
<1>8. PlanFits(board, q)
  BY <1>5, <1>6, <1>7 DEF PlanFits
<1>9. PlanTyped(q)
  BY <1>1, <1>4, <1>7 DEF PlanTyped
<1> QED BY <1>1, <1>2, <1>5, <1>7, <1>8, <1>9 DEF Rests

LEMMA SaveRests ==
  ASSUME PlanningInv, SavePlan PROVE Rests
<1> DEFINE save == [id |-> user.left, board |-> board.board, start |-> plan.fields.start,
                    weeks |-> plan.fields.weeks, stage |-> "put", shown |-> TRUE, fresh |-> TRUE]
           draft == CaptureSprintCadenceDraft(board, plan)
           saves == plan.saves \union {save}
           p == [plan EXCEPT !.saves = saves]
           made(c, d) == [p EXCEPT !.draft = draft, !.saving = c, !.cards = d]
<1>1. /\ IsBoard(board) /\ PlanTyped(plan) /\ Boards(server) /\ board.board \in Nat \ {0}
      /\ board.board \in DOMAIN server /\ user \in Users
  BY DEF PlanningInv, TypeOK, PlanTyped, Boards, IsBoard, Users
<1>2. Shows("board") /\ PlanFits(board, plan)
  BY DEF SavePlan, PlannerShown, Shows, PlanningInv
<1>3. plan.fields \in Typed /\ plan.fields.board = board.board /\ plan.fields.weeks \in 1 .. 52
      /\ plan.fields.start \in Days
  <2>1. plan.fields.start # NoDay /\ plan.fields.weeks \in 1 .. 52 /\ plan.fields \in Typed
    BY <1>1 DEF SavePlan, PlanTyped, PlanStates
  <2> QED BY <1>1, <1>2, <2>1, PlansTyped DEF PlanFits, Typed
<1>4. save \in SaveRecords /\ save.board = board.board
  <2>1. TRUE \in BOOLEAN /\ user.left \in Nat
    BY <1>1 DEF Users
  <2> DEFINE made2(c) == [id |-> user.left, board |-> board.board, start |-> plan.fields.start,
                          weeks |-> plan.fields.weeks, stage |-> "put", shown |-> c, fresh |-> c]
  <2>2. \A c \in BOOLEAN : made2(c) \in SaveRecords /\ made2(c).board = board.board
    BY <1>1, <1>3, <2>1 DEF SaveRecords
  <2>3. save = made2(TRUE)
    OBVIOUS
  <2> HIDE DEF save, made2
  <2> QED BY <2>1, <2>2, <2>3
<1> HIDE DEF save
<1>5. saves \in SUBSET SaveRecords /\ \A s \in saves : s.board \in DOMAIN server
  BY <1>1, <1>4, SavesAre DEF PlanTyped
<1>6. /\ plan' = made(TRUE, FALSE) /\ UNCHANGED <<server, board, ui, url, load>>
  BY <1>1 DEF SavePlan, save, PlanTyped, PlanStates
<1> HIDE DEF saves
<1>7. p \in PlanStates /\ p.saves = saves /\ p.fields = plan.fields
  BY <1>1, <1>5, SavesChange DEF PlanTyped
<1>8. /\ draft \in Typed /\ plan.fields = IF draft = NoDraft THEN SavedPlan(board) ELSE draft
      /\ draft # NoDraft => draft.board = board.board /\ draft # SavedPlan(board)
      /\ draft = NoDraft <=> ~SprintCadenceDirty(board, plan)
  BY <1>1, <1>3, CapturedIs DEF PlanTyped
<1> HIDE DEF p, draft
<1>9. \A c, d \in BOOLEAN :
        /\ made(c, d) \in PlanStates /\ made(c, d).fields = p.fields /\ made(c, d).draft = draft
        /\ made(c, d).cards = d /\ made(c, d).saves = p.saves
  BY <1>7, <1>8 DEF PlanStates
<1> HIDE DEF made
<1>10. /\ plan' \in PlanStates /\ plan'.fields = plan.fields /\ plan'.draft = draft
       /\ ~plan'.cards /\ plan'.saves = saves
  BY <1>6, <1>7, <1>9, Constants
<1>11. PlanFits(board, plan')
  BY <1>8, <1>10 DEF PlanFits
<1>12. PlanTyped(plan')
  BY <1>5, <1>10 DEF PlanTyped
<1> QED BY <1>1, <1>6, <1>8, <1>10, <1>11, <1>12 DEF Rests

LEMMA StripRests ==
  ASSUME PlanningInv, NEW direction \in {-1, 1}, PageSprintStrip(direction) PROVE Rests
<1> DEFINE at == Smallest({s.number : s \in StripSprints})
           first == Most(1, at + direction * 6)
           strip == [board |-> board.board, cadence |-> board.cadence, first |-> first]
           cards == IF ui.view = "board" THEN CardsEnabled(board, plan) ELSE plan.cards
           q == [plan EXCEPT !.cards = cards]
<1>1. /\ IsBoard(board) /\ PlanTyped(plan) /\ Boards(server) /\ board.board \in Nat
      /\ board.cadence \in StoredCadences /\ ui \in PageChoices
  BY DEF PlanningInv, TypeOK, PlanTyped, Boards, IsBoard
<1>2. at \in Nat
  <2>1. SprintStripFirstNumber(board, ui) \in Nat
    BY <1>1, FirstNumberTyped
  <2>2. /\ \A s \in StripSprints : s.number \in Nat \ {0}
        /\ StripSprints # {} => \E n \in Nat : /\ \A s \in StripSprints : n + 1 <= s.number
                                               /\ \E s \in StripSprints : s.number = n + 1
    BY <1>1, <2>1, StripNumbers DEF StripSprints
  <2>3. StripSprints # {}
    BY DEF PageSprintStrip
  <2>4. PICK n \in Nat : /\ \A s \in StripSprints : n + 1 <= s.number
                         /\ \E s \in StripSprints : s.number = n + 1
    BY <2>2, <2>3
  <2> DEFINE N == {s.number : s \in StripSprints}
  <2>5. N \subseteq Nat /\ n + 1 \in N /\ \A m \in N : n + 1 <= m
    BY <2>2, <2>4
  <2> HIDE DEF N
  <2>6. Smallest(N) \in N
    BY <2>5 DEF Smallest
  <2> QED BY <2>5, <2>6 DEF N
<1> HIDE DEF at
<1>3. first \in Nat
  BY <1>2 DEF Most
<1>4. ui' = [ui EXCEPT !.strip = strip] /\ plan' = q /\ UNCHANGED <<server, board, url, load>>
  BY DEF PageSprintStrip, at
<1>5. strip \in [board : Nat, cadence : StoredCadences, first : Nat]
  BY <1>1, <1>3
<1>6. cards \in BOOLEAN /\ (cards => plan.cards \/ ~SprintCadenceDirty(board, plan))
  BY <1>1 DEF CardsEnabled, PlanTyped, PlanStates
<1> HIDE DEF strip, cards
<1>7. q \in PlanStates /\ q.draft = plan.draft /\ q.fields = plan.fields /\ q.cards = cards
      /\ q.saves = plan.saves
  BY <1>1, <1>6 DEF PlanTyped, PlanStates
<1> HIDE DEF q
<1>8. PlanTyped(q) /\ (Shows("board") => PlanFits(board, q))
  BY <1>6, <1>7, PlanRests
<1> QED BY <1>1, <1>4, <1>5, <1>7, <1>8 DEF Rests

(* Steps that leave the board, the choices and the address alone.          *)
LEMMA StillRests ==
  ASSUME PlanningInv, UNCHANGED <<board, ui, url>>, load' \in {load, ui.wanted, 0},
         DOMAIN server' = DOMAIN server, Boards(server'),
         plan' \in PlanStates, plan'.draft = plan.draft, plan'.fields = plan.fields,
         plan'.cards => plan.cards \/ ~SprintCadenceDirty(board, plan),
         \A s \in plan'.saves : \E r \in plan.saves : s.board = r.board
  PROVE  Rests
<1> DEFINE q == plan'
<1>1. /\ q \in PlanStates /\ q.draft = plan.draft /\ q.fields = plan.fields
      /\ q.cards => plan.cards \/ ~SprintCadenceDirty(board, plan)
      /\ \A s \in q.saves : \E r \in plan.saves : s.board = r.board
  OBVIOUS
<1> HIDE DEF q
<1>2. PlanTyped(q) /\ (Shows("board") => PlanFits(board, q))
  BY <1>1, PlanRests
<1> QED BY <1>1, <1>2 DEF Rests, q

LEMMA CadenceStored ==
  ASSUME NEW b, IsBoard(b), NEW c \in StoredCadences
  PROVE  IsBoard([b EXCEPT !.cadence = c]) /\ [b EXCEPT !.cadence = c].board = b.board
<1> DEFINE x == [board |-> b.board, columns |-> b.columns, cadence |-> c, tickets |-> b.tickets]
<1>1. [b EXCEPT !.cadence = c] = x
  BY DEF IsBoard
<1>2. x.board = b.board /\ x.columns = b.columns /\ x.cadence = c /\ x.tickets = b.tickets
  OBVIOUS
<1>3. x = [board |-> x.board, columns |-> x.columns, cadence |-> x.cadence, tickets |-> x.tickets]
  BY <1>2
<1> HIDE DEF x
<1> QED BY <1>1, <1>2, <1>3 DEF IsBoard

LEMMA ServerStays ==
  ASSUME Boards(server), NEW i, NEW x, i \in DOMAIN server => IsBoard(x) /\ x.board = i,
         server' = [server EXCEPT ![i] = x]
  PROVE  DOMAIN server' = DOMAIN server /\ Boards(server')
BY DEF Boards

LEMMA ChangeRests ==
  ASSUME PlanningInv, PlanningAssumption, NEW bd \in DOMAIN server \intersect DOMAIN BoardData,
         NEW data \in BoardData[bd], Change(bd, data)
  PROVE  Rests
<1>1. Boards(server) /\ plan \in PlanStates
  BY DEF PlanningInv, TypeOK, Boards
<1>2. IsBoard(data) /\ data.board = bd /\ server[bd].cadence \in StoredCadences
  BY <1>1 DEF PlanningAssumption, Boards, IsBoard
<1> DEFINE x == [data EXCEPT !.cadence = server[bd].cadence]
<1>3. IsBoard(x) /\ x.board = bd
  BY <1>2, CadenceStored
<1>4. server' = [server EXCEPT ![bd] = x] /\ UNCHANGED <<board, ui, url, load, plan>>
  BY DEF Change
<1> HIDE DEF x
<1>5. DOMAIN server' = DOMAIN server /\ Boards(server')
  BY <1>1, <1>3, <1>4, ServerStays
<1> QED BY <1>1, <1>4, <1>5, StillRests

(* A load of the selected board changes nothing that is shown.             *)
LEMMA ReloadRests ==
  ASSUME PlanningInv, NEW p \in PlanStates, Load(ui, p), UNCHANGED <<server, url>>,
         p.draft = plan.draft, p.fields = plan.fields, p.cards = plan.cards,
         \A s \in p.saves : \E r \in plan.saves : s.board = r.board
  PROVE  Rests
<1>1. /\ IsBoard(board) /\ ui \in PageChoices /\ Boards(server) /\ board.board # 0 /\ ui.wanted # 0
      /\ Loading(board, ui) => ui.blank
  BY DEF PlanningInv, TypeOK, Boards, IsBoard, PageChoices
<1>2. UNCHANGED ui
  <2>1. CASE ui.wanted = board.board
    BY <2>1 DEF Load
  <2>2. CASE ui.wanted # board.board
    <3>1. Loading(board, ui) /\ ui.blank = TRUE
      BY <1>1, <2>2 DEF Loading, PageChoices
    <3>2. Rendered(board, ui) = [ui EXCEPT !.blank = TRUE]
      BY <3>1 DEF Rendered, Settled, Loading
    <3>3. [ui EXCEPT !.blank = ui.blank] = ui
      BY <1>1 DEF PageChoices
    <3> QED BY <2>2, <3>1, <3>2, <3>3 DEF Load
  <2> QED BY <2>1, <2>2
<1>3. plan' = p /\ load' = ui.wanted /\ UNCHANGED board
  BY DEF Load
<1> QED BY <1>1, <1>2, <1>3, StillRests

LEMMA SettledRests ==
  ASSUME PlanningInv,
         \/ Refresh \/ SaveSettles
         \/ LoadFails /\ ui.wanted = board.board
  PROVE  Rests
<1>0. /\ IsBoard(board) /\ plan \in PlanStates /\ Boards(server)
      /\ \A s \in plan.saves : s.board \in DOMAIN server
  BY DEF PlanningInv, TypeOK, Boards
<1>1. CASE Refresh
  BY <1>0, <1>1, OvertakenIs, ReloadRests DEF Refresh
<1>2. ASSUME NEW s \in plan.saves, PutServed(s) PROVE Rests
  <2> DEFINE r == [s EXCEPT !.stage = "served"]
             saves == (plan.saves \ {s}) \union {r}
             c == [start |-> s.start, weeks |-> s.weeks]
             x == [server[s.board] EXCEPT !.cadence = c]
  <2>1. s \in SaveRecords /\ r \in SaveRecords /\ r.board = s.board
    BY <1>0, SavesAre, SaveChanges, Constants
  <2>2. c \in StoredCadences
    BY <2>1 DEF SaveRecords, StoredCadences
  <2>3. IsBoard(x) /\ x.board = s.board
    BY <1>0, <2>2, CadenceStored DEF Boards
  <2>4. server' = [server EXCEPT ![s.board] = x] /\ plan' = [plan EXCEPT !.saves = saves]
        /\ UNCHANGED <<board, ui, url, load>>
    BY <1>2 DEF PutServed
  <2> HIDE DEF r, x
  <2>5. DOMAIN server' = DOMAIN server /\ Boards(server')
    BY <1>0, <2>3, <2>4, ServerStays
  <2>6. saves \in SUBSET SaveRecords /\ \A t \in saves : \E o \in plan.saves : t.board = o.board
    BY <1>0, <2>1, SavesAre
  <2> HIDE DEF saves
  <2> QED BY <1>0, <2>4, <2>5, <2>6, SavesChange, StillRests
<1>3. ASSUME NEW s \in plan.saves, PutAnswered(s) PROVE Rests
  <2> DEFINE left == plan.saves \ {s}
             others == [plan EXCEPT !.saves = left]
             r == [s EXCEPT !.stage = "load"]
             late == Overtaken(others)
             saves == late.saves \union {r}
             p == [late EXCEPT !.saves = saves]
  <2>1. s \in SaveRecords /\ r \in SaveRecords /\ r.board = s.board
    BY <1>0, SavesAre, SaveChanges, Constants
  <2>2. IF SaveIsCurrent(s) THEN Load(ui, p) ELSE plan' = others /\ UNCHANGED <<board, ui, load>>
    BY <1>3 DEF PutAnswered
  <2>3. UNCHANGED <<server, url>>
    BY <1>3 DEF PutAnswered
  <2>4. left \in SUBSET SaveRecords
    BY <1>0, SavesAre
  <2> HIDE DEF left, r
  <2>5. others \in PlanStates /\ others.saves = left /\ others.draft = plan.draft
        /\ others.fields = plan.fields /\ others.cards = plan.cards
    BY <1>0, <2>4, SavesChange
  <2> HIDE DEF others
  <2>6. late \in PlanStates /\ late.draft = plan.draft /\ late.fields = plan.fields
        /\ late.cards = plan.cards
        /\ \A t \in late.saves : \E o \in left : t.board = o.board
    BY <2>5, OvertakenIs
  <2> HIDE DEF late
  <2>7. saves \in SUBSET SaveRecords /\ \A t \in saves : \E o \in plan.saves : t.board = o.board
    BY <2>1, <2>6, SavesAre DEF left
  <2> HIDE DEF saves
  <2>8. p \in PlanStates /\ p.saves = saves /\ p.draft = plan.draft /\ p.fields = plan.fields
        /\ p.cards = plan.cards
    BY <2>6, <2>7, SavesChange
  <2> HIDE DEF p
  <2>9. CASE SaveIsCurrent(s)
    BY <2>2, <2>3, <2>7, <2>8, <2>9, ReloadRests
  <2>10. CASE ~SaveIsCurrent(s)
    <3>1. \A t \in left : \E o \in plan.saves : t.board = o.board
      BY DEF left
    <3> QED BY <1>0, <2>2, <2>3, <2>5, <2>10, <3>1, StillRests
  <2> QED BY <2>9, <2>10
<1>4. ASSUME NEW s, plan' = Released(board, plan, s) \/ plan' = [plan EXCEPT !.saves = @ \ {s}]
                    \/ plan' = plan,
             UNCHANGED <<server, board, ui, url>>, load' \in {load, 0}
      PROVE  Rests
  <2>1. plan' \in PlanStates /\ plan'.draft = plan.draft /\ plan'.fields = plan.fields
        /\ (plan'.cards => plan.cards \/ ~SprintCadenceDirty(board, plan))
        /\ plan'.saves \subseteq plan.saves
    <3>1. CASE plan' = Released(board, plan, s)
      BY <1>0, <3>1, ReleasedIs
    <3>2. CASE plan' = [plan EXCEPT !.saves = @ \ {s}]
      <4>1. plan.saves \ {s} \in SUBSET SaveRecords
        BY <1>0, SavesAre
      <4> QED BY <1>0, <3>2, <4>1, SavesChange
    <3>3. CASE plan' = plan
      BY <1>0, <3>3
    <3> QED BY <1>4, <3>1, <3>2, <3>3
  <2> QED BY <1>0, <1>4, <2>1, StillRests
<1>5. ASSUME NEW s \in plan.saves, PutFails(s) PROVE Rests
  BY <1>4, <1>5 DEF PutFails
<1>6. ASSUME NEW s \in plan.saves, LateEnds(s) PROVE Rests
  BY <1>4, <1>6 DEF LateEnds
<1>7. CASE LoadFails /\ ui.wanted = board.board
  BY <1>4, <1>7 DEF LoadFails
<1> QED BY <1>1, <1>2, <1>3, <1>5, <1>6, <1>7 DEF SaveSettles

(* The page is blank as soon as another board is wanted, and stays so when *)
(* the loaded one is wanted again before the answer.                       *)
LEMMA LoadBlanks ==
  ASSUME PlanningInv, NEW u \in PageChoices, u.wanted \in DOMAIN server,
         Load(u, Overtaken(plan)), UNCHANGED server, u.wanted = board.board => u.blank /\ u.sprint = 0,
         u.view = "timeline" => u.sprint = 0 \/ u.focus = 0,
         u.wanted = ui.wanted /\ u.view \in PlanningViews => u.focus = 0,
         LET r == ParseRoute(url')
         IN /\ r.view = u.view /\ r.ticket = 0 /\ r.board = u.wanted
            /\ r.sprint = IF u.view \in PlanningViews THEN u.sprint ELSE 0
  PROVE  Blanks
<1>1. /\ IsBoard(board) /\ board.board # 0 /\ u.wanted # 0 /\ plan \in PlanStates
      /\ \A s \in plan.saves : s.board \in DOMAIN server
  BY DEF PlanningInv, TypeOK, IsBoard, PageChoices
<1>2. /\ ui' \in PageChoices /\ ui'.blank /\ ui'.view = u.view /\ ui'.wanted = u.wanted
      /\ ui'.sprint = u.sprint /\ (u.focus = 0 => ui'.focus = 0) /\ ui'.focus \in {0, u.focus}
  <2>1. CASE u.wanted = board.board
    BY <2>1 DEF Load
  <2>2. CASE u.wanted # board.board
    <3>1. Loading(board, u) /\ ui' = Rendered(board, u)
      BY <1>1, <2>2 DEF Loading, Load
    <3> QED BY <1>1, <3>1, RenderingIs DEF RenderedIs
  <2> QED BY <2>1, <2>2
<1>3. load' = u.wanted /\ plan' = Overtaken(plan) /\ UNCHANGED <<server, board>>
  BY DEF Load
<1>4. PlanTyped(plan') /\ plan'.draft = plan.draft
  BY <1>1, <1>3, OvertakenIs DEF PlanTyped
<1>5. ui'.wanted = ui.wanted /\ ui'.view \in PlanningViews => HiddenByCollapse(board, ui') = {}
  <2>1. ui'.focus = 0 => DependencyViewIds(board, ui') = {}
    BY NoFocusNoChain DEF NoChain
  <2> QED BY <1>2, <2>1 DEF HiddenByCollapse
<1>6. AddressNamesThePage'
  BY <1>1, <1>2 DEF AddressNamesThePage
<1>7. ui'.view = "timeline" => ui'.sprint = 0 \/ ui'.focus = 0
  BY <1>2
<1> QED BY <1>2, <1>3, <1>4, <1>5, <1>6, <1>7 DEF Blanks

LEMMA BoardsBlank ==
  ASSUME PlanningInv, PlanningAssumption,
         \/ \E bd \in DOMAIN server : ChooseBoard(bd)
         \/ \E hash \in Hashes : ApplyRoute(hash) /\ ParseRoute(hash).board \notin {0, board.board}
  PROVE  Blanks
<1>0. /\ ui \in PageChoices /\ IsBoard(board) /\ board.board \in Nat \ {0} /\ Boards(server)
      /\ Loading(board, ui) => ui.blank
  BY DEF PlanningInv, TypeOK, IsBoard, Boards
<1>1. ASSUME NEW bd \in DOMAIN server, ChooseBoard(bd) PROVE Blanks
  <2> DEFINE u == [ui EXCEPT !.wanted = bd, !.sprint = 0]
  <2>1. /\ bd # ui.wanted /\ url' = BuildRoute(u.view, bd, 0, 0)
        /\ Load(u, Overtaken(plan)) /\ UNCHANGED server
    BY <1>1 DEF ChooseBoard
  <2>2. bd \in Nat \ {0} /\ ui.wanted # 0
    BY <1>0 DEF Boards, IsBoard, PageChoices
  <2>3. /\ u \in PageChoices /\ u.wanted = bd /\ u.sprint = 0 /\ u.view = ui.view
        /\ u.blank = ui.blank /\ u.view \in RouteViews
    BY <1>0, <2>2 DEF PageChoices
  <2>4. bd = board.board => u.blank
    BY <1>0, <2>1, <2>2, <2>3 DEF Loading
  <2> HIDE DEF u
  <2>5. ParseRoute(url') = [view |-> u.view, board |-> bd, ticket |-> 0, sprint |-> 0]
    BY <2>1, <2>2, <2>3, WrittenIsRead
  <2> QED BY <1>1, <2>1, <2>3, <2>4, <2>5, LoadBlanks
<1>2. ASSUME NEW hash \in Hashes, ApplyRoute(hash), ParseRoute(hash).board \notin {0, board.board}
      PROVE  Blanks
  <2> DEFINE r == ParseRoute(hash)
             u == Applied(ui, r, r.board)
  <2>1. /\ r \in [view : RouteViews, board : Nat, ticket : Nat, sprint : Nat] /\ r.ticket = 0
        /\ r.view \notin PlanningViews => r.sprint = 0
    BY ParsedType DEF PlanningAssumption
  <2>2. /\ r.board \in DOMAIN server /\ r.board \in Nat \ {0} /\ r.board # board.board
        /\ url' = hash /\ Load(u, Overtaken(plan)) /\ UNCHANGED server
    BY <1>2, <2>1 DEF ApplyRoute
  <2>3. r = ParseRoute(url')
    BY <2>2
  <2> HIDE DEF r
  <2>4. /\ u \in PageChoices /\ u.wanted = r.board /\ u.view = r.view /\ u.sprint = r.sprint
        /\ (r.view \in PlanningViews => u.focus = 0)
    BY <1>0, <2>1, <2>2, AppliedIs
  <2> HIDE DEF u
  <2>5. u.view = "timeline" => u.focus = 0
    BY <2>4 DEF PlanningViews
  <2> QED BY <2>1, <2>2, <2>3, <2>4, <2>5, LoadBlanks
<1> QED BY <1>1, <1>2

-----------------------------------------------------------------------------
(* Every step *)

LEMMA Steps ==
  ASSUME PlanningInv, PlanningAssumption, [Next]_vars
  PROVE  (\E u : Redraw(u)) \/ Rests \/ Blanks \/ LoadAnswered
<1>1. ASSUME DependencySteering PROVE \E u : Redraw(u)
  BY <1>1, ChainChoices DEF DependencySteering
<1>2. ASSUME Selecting PROVE (\E u : Redraw(u)) \/ Rests
  BY <1>2, SelectionChoices, StripRests DEF Selecting
<1>3. ASSUME Moving PROVE (\E u : Redraw(u)) \/ Blanks
  BY <1>3, MovingChoices, BoardsBlank DEF Moving
<1>4. ASSUME UNCHANGED vars PROVE Rests
  <2>1. Boards(server) /\ plan \in PlanStates
    BY DEF PlanningInv, TypeOK, Boards
  <2>2. /\ UNCHANGED <<board, ui, url>> /\ load' \in {load, ui.wanted, 0} /\ DOMAIN server' = DOMAIN server
        /\ Boards(server') /\ plan' = plan
    BY <1>4, <2>1 DEF vars
  <2> QED BY <2>1, <2>2, StillRests
<1>5. ASSUME LoadSettles PROVE (\E u : Redraw(u)) \/ Rests \/ LoadAnswered
  BY <1>5, MovingChoices, SettledRests DEF LoadSettles
<1> QED BY <1>1, <1>2, <1>3, <1>4, <1>5, EditRests, SaveRests, ChangeRests, SettledRests DEF Next

(* The budget of the user shrinks.                                         *)
LEMMA UsersStay ==
  ASSUME PlanningInv, [Next]_vars PROVE user' \in Users
<1>1. user \in Users
  BY DEF PlanningInv, TypeOK, Users
<1>2. user' = user \/ (user.left > 0 /\ user' = [user EXCEPT !.left = @ - 1])
  <2>1. ASSUME DependencySteering PROVE user.left > 0 /\ user' = [user EXCEPT !.left = @ - 1]
    BY <2>1 DEF DependencySteering, OpenDependencies, ToggleDependencyFocus, ToggleEpic,
         ShowOtherTasks, CloseDependencies, SetDependencySort, Choice
  <2>2. ASSUME Selecting PROVE user.left > 0 /\ user' = [user EXCEPT !.left = @ - 1]
    BY <2>2 DEF Selecting, SelectPlanningSprint, ClearPlanningSprint, PageSprintStrip,
         ToggleTimelineSprintTasks, ChooseTimelineEpic, ResetTaskFilters, SetTaskFilters,
         SetTableFilters, SortOverview, Choice
  <2>3. ASSUME Moving PROVE user.left > 0 /\ user' = [user EXCEPT !.left = @ - 1]
    BY <2>3 DEF Moving, Navigate, HomeLink, OpenBacklogView, OpenSharing, ChooseBoard, ApplyRoute, Choice
  <2>4. ASSUME LoadSettles \/ SaveSettles
        PROVE  user' = user \/ (user.left > 0 /\ user' = [user EXCEPT !.left = @ - 1])
    BY <2>4 DEF LoadSettles, SaveSettles, LoadAnswered, LoadFails, PutServed, PutAnswered, PutFails,
         LateEnds, Fails
  <2> QED BY <2>1, <2>2, <2>3, <2>4 DEF Next, Refresh, Change, EditPlan, SavePlan, Choice, vars
<1> QED BY <1>1, <1>2 DEF Users

-----------------------------------------------------------------------------
(* The invariant is kept *)

LEMMA SyncedIsRead ==
  ASSUME NEW b, NEW v \in PageChoices
  PROVE  ParseRoute(SyncRoute(b, v)) =
           [view |-> v.view, board |-> v.wanted, ticket |-> 0,
            sprint |-> IF v.view \in PlanningViews THEN v.sprint ELSE 0]
<1>1. v.view \in RouteViews /\ v.wanted \in Nat \ {0} /\ v.sprint \in Nat
  BY DEF PageChoices
<1> DEFINE n == IF v.view \in PlanningViews THEN v.sprint ELSE 0
<1>2. n \in Nat /\ SyncRoute(b, v) = BuildRoute(v.view, v.wanted, 0, n)
  BY <1>1 DEF SyncRoute
<1>3. (IF v.view \in PlanningViews THEN n ELSE 0) = n
  OBVIOUS
<1> HIDE DEF n
<1> QED BY <1>1, <1>2, <1>3, WrittenIsRead DEF n

LEMMA RedrawKeeps ==
  ASSUME PlanningInv, NEW u, Redraw(u), user' \in Users PROVE PlanningInv'
<1>0. /\ IsBoard(board) /\ board.board \in Nat \ {0} /\ plan \in PlanStates
      /\ \A s \in plan.saves : s.board \in DOMAIN server
      /\ load \in {0} \union DOMAIN server
  BY DEF PlanningInv, TypeOK, IsBoard
<1>1. /\ u \in PageChoices /\ u.wanted \in DOMAIN server /\ UNCHANGED <<server, board>>
      /\ load' \in {0, load} /\ (load' # 0 => u.wanted = ui.wanted)
      /\ u.view = "timeline" => u.sprint = 0 \/ u.focus = 0
      /\ url' = SyncRoute(board, ui') \/ (UNCHANGED url /\ SameAddress(u))
  BY DEF Redraw
<1>2. RenderedIs(board, u, ui')
  BY <1>0, <1>1, RenderingIs DEF Redraw, RenderView
<1>3. /\ ui' \in PageChoices /\ ui'.view = u.view /\ ui'.wanted = u.wanted
      /\ ui'.blank = Loading(board, u)
      /\ ui'.sprint \in {0, u.sprint} /\ ui'.focus \in {0, u.focus}
      /\ (~(u.view \in PlanningViews) \/ Loading(board, u)) => ui'.sprint = u.sprint
      /\ u.view \in PlanningViews /\ ~Loading(board, u) =>
           /\ ui'.sprint = 0 \/ SelectedPlanningSprint(board, ui') # NoSprint
           /\ SelectedPlanningSprint(board, u) # NoSprint => ui'.sprint = u.sprint
  BY <1>2 DEF RenderedIs
<1>4. Loading(board, ui') <=> Loading(board, u)
  BY <1>3 DEF Loading
<1>5. plan' \in PlanStates /\ \A s \in plan'.saves : s.board \in DOMAIN server
  BY <1>0, WiredIs DEF Redraw, RenderView
<1>6. Shows("board")' => PlanFits(board, plan')
  <2>1. ASSUME Shows("board")' PROVE u.view = "board" /\ ~Loading(board, u)
    BY <1>3, <2>1 DEF Shows
  <2>2. ASSUME u.view = "board" /\ ~Loading(board, u) PROVE PlanFits(board, plan')
    BY <1>0, <2>2, WiredIs DEF Redraw, RenderView
  <2> QED BY <2>1, <2>2
<1>7. AddressNamesThePage'
  <2>1. CASE url' = SyncRoute(board, ui')
    <3>1. ui'.wanted # 0
      BY <1>3 DEF PageChoices
    <3> QED BY <1>3, <2>1, <3>1, SyncedIsRead DEF AddressNamesThePage
  <2>2. CASE UNCHANGED url /\ SameAddress(u)
    <3>1. ui'.view \in PlanningViews => ui'.sprint = ui.sprint
      <4>1. SelectedPlanningSprint(board, u) = SelectedPlanningSprint(board, ui)
            /\ (Loading(board, u) <=> Loading(board, ui))
        BY <2>2 DEF SameAddress, SelectedPlanningSprint, Loading
      <4>2. ui.view \in PlanningViews /\ ~Loading(board, ui) =>
              ui.sprint = 0 \/ SelectedPlanningSprint(board, ui) # NoSprint
        BY DEF PlanningInv
      <4> QED BY <1>3, <2>2, <4>1, <4>2 DEF SameAddress
    <3>2. AddressNamesThePage
      BY DEF PlanningInv
    <3> QED BY <1>1, <1>3, <2>2, <3>1, <3>2 DEF AddressNamesThePage, SameAddress
  <2> QED BY <1>1, <2>1, <2>2
<1>8. TypeOK'
  BY <1>0, <1>1, <1>3, <1>5 DEF PlanningInv, TypeOK, Users
<1>9. load' # 0 => load' = ui'.wanted
  BY <1>1, <1>3 DEF PlanningInv
<1>10. ui'.view = "timeline" => ui'.sprint = 0 \/ ui'.focus = 0
  BY <1>1, <1>3
<1>11. ui'.view \in PlanningViews /\ ~Loading(board, ui') =>
         ui'.sprint = 0 \/ SelectedPlanningSprint(board, ui') # NoSprint
  BY <1>3, <1>4
<1> QED BY <1>1, <1>3, <1>4, <1>6, <1>7, <1>8, <1>9, <1>10, <1>11 DEF PlanningInv

LEMMA RestsKeeps ==
  ASSUME PlanningInv, Rests, user' \in Users PROVE PlanningInv'
<1>1. /\ UNCHANGED <<board, url>> /\ DOMAIN server' = DOMAIN server /\ Boards(server')
      /\ load' \in {load, ui.wanted, 0} /\ PlanTyped(plan')
      /\ Shows("board") => PlanFits(board, plan')
  BY DEF Rests
<1>2. /\ ui' \in PageChoices /\ ui'.view = ui.view /\ ui'.wanted = ui.wanted /\ ui'.blank = ui.blank
      /\ ui'.sprint = ui.sprint /\ ui'.sprintBoard = ui.sprintBoard /\ ui'.focus = ui.focus
  BY DEF Rests, PlanningInv, TypeOK, PageChoices
<1>3. /\ Loading(board, ui') <=> Loading(board, ui)
      /\ SelectedPlanningSprint(board, ui') = SelectedPlanningSprint(board, ui)
  BY <1>2 DEF SelectedPlanningSprint, Loading
<1>4. TypeOK'
  BY <1>1, <1>2 DEF PlanningInv, TypeOK, Users, Boards, PlanTyped
<1>5. AddressNamesThePage'
  BY <1>1, <1>2 DEF PlanningInv, AddressNamesThePage
<1>6. Shows("board")' => PlanFits(board, plan')
  BY <1>1, <1>2 DEF Shows
<1> QED BY <1>1, <1>2, <1>3, <1>4, <1>5, <1>6 DEF PlanningInv

LEMMA BlanksKeeps ==
  ASSUME PlanningInv, Blanks, user' \in Users PROVE PlanningInv'
<1>1. TypeOK'
  BY DEF Blanks, PlanningInv, TypeOK, Users, PlanTyped
<1>2. ui'.view \in PlanningViews /\ ~Loading(board', ui') =>
        ui'.sprint = 0 \/ SelectedPlanningSprint(board', ui') # NoSprint
  BY DEF Blanks, Loading, PlanningInv, TypeOK, IsBoard, PageChoices
<1>3. ~Shows("board")'
  BY DEF Blanks, Shows
<1> QED BY <1>1, <1>2, <1>3 DEF Blanks, PlanningInv

LEMMA AnsweredIs ==
  ASSUME PlanningInv, LoadAnswered
  PROVE  /\ IsBoard(board') /\ board'.board = ui.wanted /\ board' = server[load]
         /\ load' = 0 /\ UNCHANGED server
         /\ RenderedIs(board', ui, ui') /\ url' = SyncRoute(board', ui') /\ ~Loading(board', ui)
         /\ PlanTyped(plan')
         /\ ui.view = "board" => PlanFits(board', plan')
         /\ \/ plan'.draft = plan.draft \/ plan.draft.board # board'.board
            \/ plan.draft = SavedPlan(board')
<1> DEFINE b == server[load]
           u == [ui EXCEPT !.wanted = load]
           left == {x \in plan.saves : x.stage # "load"}
           saves == {[s EXCEPT !.fresh = FALSE] : s \in left}
           p == [plan EXCEPT !.saves = saves]
<1>0. /\ load # 0 /\ load \in DOMAIN server /\ load = ui.wanted /\ ui \in PageChoices
      /\ Boards(server) /\ plan \in PlanStates /\ \A s \in plan.saves : s.board \in DOMAIN server
  BY DEF LoadAnswered, PlanningInv, TypeOK, Boards
<1>1. u = ui /\ IsBoard(b) /\ b.board = ui.wanted
  BY <1>0 DEF PageChoices, Boards
<1>2. /\ board' = b /\ load' = 0 /\ ui' = Rendered(b, u) /\ url' = SyncRoute(b, ui')
      /\ plan' = IF u.view = "board" THEN WireSprintPlanner(b, p) ELSE p
      /\ UNCHANGED server
  BY DEF LoadAnswered
<1> HIDE DEF u, b
<1>3. RenderedIs(b, ui, ui') /\ ~Loading(b, ui)
  BY <1>0, <1>1, <1>2, RenderingIs DEF Loading
<1>4. saves \in SUBSET SaveRecords /\ \A s \in saves : \E r \in plan.saves : s.board = r.board
  <2>1. \A s \in left : [s EXCEPT !.fresh = FALSE] \in SaveRecords /\ [s EXCEPT !.fresh = FALSE].board = s.board
    BY <1>0, SavesAre, SaveChanges, Constants
  <2> QED BY <2>1
<1> HIDE DEF saves
<1>5. p \in PlanStates /\ p.saves = saves /\ p.draft = plan.draft
  BY <1>0, <1>4, SavesChange
<1> HIDE DEF p
<1>6. /\ PlanTyped(plan') /\ (ui.view = "board" => PlanFits(b, plan'))
      /\ plan'.draft = plan.draft \/ plan.draft.board # b.board \/ plan.draft = SavedPlan(b)
  <2>1. \A s \in p.saves : s.board \in DOMAIN server
    BY <1>0, <1>4, <1>5
  <2>2. CASE ui.view = "board"
    BY <1>1, <1>2, <1>5, <2>1, <2>2, WiredIs DEF PlanTyped
  <2>3. CASE ui.view # "board"
    BY <1>1, <1>2, <1>5, <2>1, <2>3 DEF PlanTyped
  <2> QED BY <2>2, <2>3
<1> QED BY <1>1, <1>2, <1>3, <1>6 DEF b

LEMMA AnsweredKeeps ==
  ASSUME PlanningInv, LoadAnswered, user' \in Users PROVE PlanningInv'
<1>1. /\ IsBoard(board') /\ board'.board = ui.wanted /\ load' = 0 /\ UNCHANGED server
      /\ RenderedIs(board', ui, ui') /\ url' = SyncRoute(board', ui') /\ ~Loading(board', ui)
      /\ PlanTyped(plan') /\ (ui.view = "board" => PlanFits(board', plan'))
  BY AnsweredIs
<1>2. /\ ui' \in PageChoices /\ ui'.view = ui.view /\ ui'.wanted = ui.wanted
      /\ ui'.sprint \in {0, ui.sprint} /\ ui'.focus \in {0, ui.focus}
      /\ ui.view \in PlanningViews => ui'.sprint = 0 \/ SelectedPlanningSprint(board', ui') # NoSprint
  BY <1>1 DEF RenderedIs
<1>3. ~Loading(board', ui')
  BY <1>1, <1>2 DEF Loading
<1>4. AddressNamesThePage'
  BY <1>1, <1>2, SyncedIsRead DEF AddressNamesThePage
<1>5. TypeOK'
  BY <1>1, <1>2 DEF PlanningInv, TypeOK, Users, PlanTyped
<1>6. Shows("board")' => PlanFits(board', plan')
  BY <1>1, <1>2 DEF Shows
<1> QED BY <1>1, <1>2, <1>3, <1>4, <1>5, <1>6 DEF PlanningInv

LEMMA PlanningStep ==
  ASSUME PlanningInv, PlanningAssumption, [Next]_vars PROVE PlanningInv'
BY Steps, UsersStay, RedrawKeeps, RestsKeeps, BlanksKeeps, AnsweredKeeps

LEMMA PlanningInit ==
  ASSUME PlanningAssumption, Init PROVE PlanningInv
<1> DEFINE Page(view, c, d) ==
             [view |-> view, wanted |-> 1, sprint |-> 0, sprintBoard |-> 0,
              strip |-> NoPage, focus |-> 0, focusBoard |-> 0, focused |-> c,
              sort |-> "dependencies", collapsed |-> {}, epic |-> 0, only |-> d,
              filters |-> NoFilters, table |-> NoTableFilters,
              order |-> [key |-> "id", descending |-> c], blank |-> c]
           Plan(b, c) == [draft |-> NoDraft, fields |-> SavedPlan(b), saving |-> c, cards |-> c, saves |-> {}]
<1>1. PICK s \in Scenarios :
        LET b == s.server[1]
            u == Rendered(b, Page(s.view, FALSE, TRUE))
        IN /\ server = s.server /\ board = b /\ ui = u /\ url = SyncRoute(b, u) /\ load = 0
           /\ plan = WireSprintPlanner(b, Plan(b, FALSE))
           /\ user = [may |-> s.may, left |-> s.left]
  BY DEF Init
<1>2. /\ s.may \subseteq Ops /\ s.left \in Nat /\ s.view \in PlanningViews /\ 1 \in DOMAIN server
      /\ Boards(server) /\ IsBoard(board) /\ board.board = 1
  BY <1>1 DEF PlanningAssumption, Boards
<1>3. \A c, d \in BOOLEAN :
        /\ Page(s.view, c, d) \in PageChoices /\ Page(s.view, c, d).wanted = 1
        /\ Page(s.view, c, d).sprint = 0 /\ Page(s.view, c, d).focus = 0
        /\ Page(s.view, c, d).view = s.view
  <2>1. s.view \in RouteViews /\ "id" \in SortKeys
    BY <1>2 DEF PlanningViews, RouteViews, SortKeys
  <2> QED BY <2>1, EmptyPage DEF PageChoices
<1>4. \A c \in BOOLEAN : Plan(board, c) \in PlanStates /\ Plan(board, c).saves = {}
  BY <1>2, PlansTyped DEF PlanStates
<1> HIDE DEF Page, Plan
<1>5. PICK u \in PageChoices : /\ ui = Rendered(board, u) /\ u.wanted = 1 /\ u.sprint = 0
                               /\ u.focus = 0 /\ u.view = s.view
  BY <1>1, <1>3, Constants
<1>6. RenderedIs(board, u, ui) /\ ~Loading(board, u)
  BY <1>2, <1>5, RenderingIs DEF Loading
<1>7. /\ ui \in PageChoices /\ ui.wanted = 1 /\ ui.sprint = 0 /\ ui.focus = 0 /\ ~Loading(board, ui)
  BY <1>2, <1>5, <1>6 DEF RenderedIs, Loading
<1>8. PlanTyped(plan) /\ PlanFits(board, plan)
  <2>1. PICK p \in PlanStates : plan = WireSprintPlanner(board, p) /\ p.saves = {}
    BY <1>1, <1>4, Constants
  <2> QED BY <1>2, <2>1, WiredIs DEF PlanTyped
<1>9. AddressNamesThePage
  <2>1. url = SyncRoute(board, ui)
    BY <1>1
  <2>2. ui.view \in PlanningViews => ui.sprint = 0
    BY <1>7
  <2>3. ui.wanted = board.board
    BY <1>2, <1>7
  <2> QED BY <1>7, <2>1, <2>2, <2>3, SyncedIsRead DEF AddressNamesThePage
<1>10. TypeOK
  BY <1>1, <1>2, <1>7, <1>8 DEF TypeOK, PlanTyped, Boards
<1> QED BY <1>1, <1>7, <1>8, <1>9, <1>10 DEF PlanningInv

LEMMA PlanningAlways ==
  ASSUME PlanningAssumption PROVE Spec => []PlanningInv
BY PlanningInit, PlanningStep, PTL DEF Spec

-----------------------------------------------------------------------------
(* Theorems *)

(* Every variable keeps its type: boards, choices, plan and saves.  Code:  *)
(* the declarations of app.js.                                             *)
THEOREM TypeCorrect == Spec => []TypeOK
<1>1. PlanningInv => TypeOK
  BY DEF PlanningInv
<1> QED BY <1>1, PlanningAssumption, PlanningAlways, PTL

(* Opening the address again leads to the page, for every board, Sprint    *)
(* and typed address.  Code: syncRoute, buildRoute, parseRoute.            *)
THEOREM AddressesNameThePage == Spec => []AddressNamesThePage
<1>1. PlanningInv => AddressNamesThePage
  BY DEF PlanningInv
<1> QED BY <1>1, PlanningAssumption, PlanningAlways, PTL

(* The fields of the Board show the unsaved plan of this board or the      *)
(* saved one, and Sprints are picked only from the saved one.  Code:       *)
(* wireSprintPlanner, currentSprintCadenceDraft, wireSprintCards.          *)
THEOREM FieldsAlwaysShowThePlan == Spec => []FieldsShowThePlan
<1>1. ASSUME PlanningInv PROVE FieldsShowThePlan
  <2>1. IsBoard(board) /\ plan \in PlanStates
    BY <1>1 DEF PlanningInv, TypeOK
  <2>2. ASSUME Shows("board")
        PROVE  /\ plan.fields = IF plan.draft.board = board.board THEN plan.draft ELSE SavedPlan(board)
               /\ plan.cards => plan.fields = SavedPlan(board) /\ plan.draft = NoDraft
    <3>1. PlanFits(board, plan)
      BY <1>1, <2>2 DEF PlanningInv
    <3>2. NoDraft.board # board.board
      BY <2>1 DEF NoDraft, IsBoard
    <3> QED BY <3>1, <3>2 DEF PlanFits
  <2> QED BY <2>2 DEF FieldsShowThePlan
<1> QED BY <1>1, PlanningAssumption, PlanningAlways, PTL

DraftStep ==
  plan.draft # NoDraft /\ plan'.draft = NoDraft =>
    \/ plan.draft.board # board'.board
    \/ plan.draft = SavedPlan(board')
    \/ plan'.fields = SavedPlan(board) /\ UNCHANGED <<board, ui, load>>

(* An unsaved plan is lost only when it is the saved one, the user types   *)
(* that, or the Board of another board is shown.  Code: wireSprintPlanner, *)
(* currentSprintCadenceDraft, captureSprintCadenceDraft.                   *)
THEOREM DraftsAreKept == Spec => DraftIsKept
<1>1. ASSUME PlanningInv, [Next]_vars PROVE DraftStep
  <2>1. IsBoard(board) /\ plan \in PlanStates
    BY <1>1 DEF PlanningInv, TypeOK
  <2>2. ASSUME NEW u, Redraw(u) PROVE DraftStep
    BY <2>1, <2>2, WiredIs DEF Redraw, RenderView, DraftStep
  <2>3. ASSUME Rests PROVE DraftStep
    BY <2>3 DEF Rests, DraftStep
  <2>4. ASSUME Blanks PROVE DraftStep
    BY <2>4 DEF Blanks, DraftStep
  <2>5. ASSUME LoadAnswered PROVE DraftStep
    BY <1>1, <2>5, AnsweredIs DEF DraftStep
  <2> QED BY <1>1, <2>2, <2>3, <2>4, <2>5, PlanningAssumption, Steps
<1>2. PlanningInv /\ [Next]_vars => [DraftStep]_vars
  BY <1>1
<1> QED BY <1>2, PlanningAssumption, PlanningAlways, PTL DEF Spec, DraftIsKept, DraftStep

ChainInSight ==
  (board' = board /\ ui'.wanted = ui.wanted /\ {ui.view, ui'.view} \subseteq PlanningViews
     /\ HiddenByCollapse(board, ui) = {}) => HiddenByCollapse(board', ui') = {}

CardInSight ==
  (ui'.sprint \notin {0, ui.sprint} /\ ~ui'.blank /\ StripSprints' # {}) =>
    \E s \in StripSprints' : s.number = ui'.sprint

LEMMA RedrawShowsChain ==
  ASSUME PlanningInv, NEW u, Redraw(u) PROVE ChainInSight
<1>1. RenderedIs(board, u, ui') /\ board' = board /\ Sight(u)
  BY RenderingIs DEF Redraw, RenderView, PlanningInv, TypeOK
<1>2. HiddenByCollapse(board, ui') = HiddenByCollapse(board, u)
  BY <1>1 DEF RenderedIs, HiddenByCollapse
<1> QED BY <1>1, <1>2 DEF ChainInSight, Sight, RenderedIs

LEMMA RedrawShowsCard ==
  ASSUME PlanningInv, NEW u, Redraw(u) PROVE CardInSight
<1> SUFFICES ASSUME ui'.sprint \notin {0, ui.sprint}, ~ui'.blank, StripSprints' # {}
             PROVE  \E s \in StripSprints' : s.number = ui'.sprint
  BY DEF CardInSight
<1> DEFINE strip == SprintWindow(board.cadence, Today, 6, SprintStripFirstNumber(board, ui'))
<1>1. /\ RenderedIs(board, u, ui') /\ board' = board /\ Sight(u) /\ u \in PageChoices
      /\ IsBoard(board) /\ board.cadence \in StoredCadences
  BY RenderingIs DEF Redraw, RenderView, PlanningInv, TypeOK, IsBoard
<1>2. StripSprints' = strip /\ strip # {}
  BY <1>1 DEF StripSprints
<1>3. /\ ui' \in PageChoices /\ ui'.view = u.view /\ ui'.sprint = u.sprint /\ ~Loading(board, u)
      /\ ui'.strip \in {NoPage, u.strip}
  BY <1>1 DEF RenderedIs
<1>4. u.view \in PlanningViews
  BY <1>1, <1>3 DEF Sight
<1>5. SelectedPlanningSprint(board, ui') # NoSprint
  BY <1>1, <1>3, <1>4 DEF RenderedIs
<1>6. HasCadence(board.cadence)
  BY <1>5 DEF SelectedPlanningSprint, SprintByNumber
<1>7. ui'.strip = NoPage \/ ~StripIsStale(board, ui')
  BY <1>1, <1>3, <1>4, <1>6 DEF RenderedIs
<1>8. CASE ui'.strip = NoPage
  <2>1. SprintStripFirstNumber(board, ui') = ui'.sprint /\ ui'.sprint \in Nat /\ ui'.sprint > 0
    BY <1>3, <1>5, <1>8 DEF SprintStripFirstNumber, PageChoices
  <2>2. \E n \in Nat : (\E s \in strip : s.number = n + 1) /\ ui'.sprint = n + 1
    BY <1>1, <1>2, <2>1, StripNumbers
  <2> QED BY <1>2, <2>2
<1>9. CASE ui'.strip # NoPage
  <2>1. ui'.strip = u.strip /\ ~StripIsStale(board, ui') /\ ~StripIsStale(board, u)
    BY <1>3, <1>7, <1>9 DEF StripIsStale
  <2>2. SprintStripFirstNumber(board, ui') = SprintStripFirstNumber(board, u)
    BY <1>9, <2>1 DEF SprintStripFirstNumber
  <2>3. \E s \in strip : s.number = u.sprint
    BY <1>1, <1>3, <1>9, <2>1, <2>2 DEF Sight
  <2> QED BY <1>2, <1>3, <2>3
<1> QED BY <1>8, <1>9

(* While one board is chosen, no choice made in the planning views puts a  *)
(* task of the open chain into a collapsed Epic, and a Sprint that gets    *)
(* selected has its card in the strip.  Code: openDependencies,            *)
(* toggleDependencyFocus, toggleEpic, applyPlanningSprintSelection,        *)
(* applyRoute.                                                             *)
THEOREM SelectionsStayInSight == Spec => SelectionStaysInSight
<1>1. ASSUME PlanningInv, [Next]_vars PROVE ChainInSight /\ CardInSight
  <2>1. ASSUME NEW u, Redraw(u) PROVE ChainInSight /\ CardInSight
    BY <1>1, <2>1, RedrawShowsChain, RedrawShowsCard
  <2>2. ASSUME Rests PROVE ChainInSight /\ CardInSight
    <3>1. /\ ui'.view = ui.view /\ ui'.wanted = ui.wanted /\ ui'.sprintBoard = ui.sprintBoard
          /\ ui'.sprint = ui.sprint /\ ui'.focus = ui.focus /\ ui'.focusBoard = ui.focusBoard
          /\ ui'.collapsed = ui.collapsed /\ board' = board
      BY <1>1, <2>2 DEF Rests, PlanningInv, TypeOK, PageChoices
    <3>2. {ui.view, ui'.view} \subseteq PlanningViews =>
            DependencyViewIds(board, ui') = DependencyViewIds(board, ui)
      BY <3>1, ChainStays
    <3> QED BY <3>1, <3>2 DEF ChainInSight, CardInSight, HiddenByCollapse
  <2>3. ASSUME Blanks PROVE ChainInSight /\ CardInSight
    BY <2>3 DEF Blanks, ChainInSight, CardInSight
  <2>4. ASSUME LoadAnswered PROVE ChainInSight /\ CardInSight
    <3>1. RenderedIs(board', ui, ui')
      BY <1>1, <2>4, AnsweredIs
    <3>2. board' = board => HiddenByCollapse(board', ui') = HiddenByCollapse(board, ui)
      BY <3>1 DEF RenderedIs, HiddenByCollapse
    <3> QED BY <3>1, <3>2 DEF ChainInSight, CardInSight, RenderedIs
  <2> QED BY <1>1, <2>1, <2>2, <2>3, <2>4, PlanningAssumption, Steps
<1>2. PlanningInv /\ [Next]_vars => [ChainInSight /\ CardInSight]_vars
  BY <1>1
<1> QED BY <1>2, PlanningAssumption, PlanningAlways, PTL
        DEF Spec, SelectionStaysInSight, ChainInSight, CardInSight

-----------------------------------------------------------------------------
(* Walks *)

LEMMA LeastNumber ==
  ASSUME NEW N \in SUBSET Nat, N # {} PROVE \E k \in N : \A j \in N : k <= j
<1>1. PICK m \in N : TRUE
  OBVIOUS
<1> DEFINE S == {y \in N : y <= m}
           below(x) == {y \in S : y < x}
           W == {below(x) : x \in S}
<1>2. S \subseteq Nat /\ m \in S /\ m \in Nat
  <2>1. m \in Nat
    OBVIOUS
  <2>2. m <= m
    BY <2>1
  <2> QED BY <2>1, <2>2
<1>3. IsFiniteSet(S)
  BY <1>2, FS_BoundedSetOfNaturals
<1>4. IsWellFoundedOn(StrictSubsetOrdering(S), SUBSET S)
  BY <1>3, FS_FiniteSubsetsOfFinite, FS_StrictSubsetOrderingWellFounded
<1>5. W \subseteq SUBSET S /\ W # {}
  BY <1>2
<1>6. \E w \in W : \A v \in W : <<v, w>> \notin StrictSubsetOrdering(S)
  BY <1>4, <1>5, WFMin
<1>7. PICK x \in S : \A z \in S : <<below(z), below(x)>> \notin StrictSubsetOrdering(S)
  BY <1>6
<1>8. ASSUME NEW y \in S, y < x PROVE FALSE
  <2>1. below(y) \in SUBSET S /\ below(x) \in SUBSET S
    OBVIOUS
  <2>2. below(y) \subseteq below(x)
    <3>1. \A z \in S : z < y => z < x
      BY <1>2, <1>8
    <3> QED BY <3>1
  <2>3. below(y) # below(x)
    <3>1. y \in below(x) /\ y \notin below(y)
      BY <1>2, <1>8
    <3> QED BY <3>1
  <2> HIDE DEF below
  <2>4. <<below(y), below(x)>> \in StrictSubsetOrdering(S)
    BY <2>1, <2>2, <2>3 DEF StrictSubsetOrdering
  <2> QED BY <1>7, <1>8, <2>4
<1>9. \A y \in S : x <= y
  BY <1>2, <1>8
<1>10. \A y \in N : x <= y
  BY <1>2, <1>9
<1> QED BY <1>10

(* Steps repeated K times.                                                 *)
Repetitions(K, U, start, F) ==
  {g \in [0 .. K -> U] : g[0] = start /\ \A n \in 1 .. K : g[n] = F[g[n - 1]]}

LEMMA Repeated ==
  ASSUME NEW K \in Nat, NEW U, NEW start \in U, NEW F \in [U -> U]
  PROVE  Repetitions(K, U, start, F) # {}
<1> DEFINE Runs(k, g) == g[0] = start /\ \A n \in 1 .. k : g[n] = F[g[n - 1]]
           bad == {k \in 0 .. K : ~ \E g \in [0 .. k -> U] : Runs(k, g)}
<1>1. bad = {}
  <2> SUFFICES ASSUME bad # {} PROVE FALSE
    OBVIOUS
  <2>1. bad \in SUBSET Nat
    OBVIOUS
  <2>2. PICK k \in bad : \A j \in bad : k <= j
    BY <2>1, LeastNumber
  <2>3. k \in 0 .. K /\ ~ \E g \in [0 .. k -> U] : Runs(k, g)
    OBVIOUS
  <2>4. CASE k = 0
    <3> DEFINE g == [n \in 0 .. 0 |-> start]
    <3>1. g \in [0 .. k -> U] /\ Runs(k, g)
      BY <2>4
    <3> QED BY <2>3, <3>1
  <2>5. CASE k # 0
    <3>1. k - 1 \in 0 .. K /\ k - 1 \notin bad
      <4> HIDE DEF bad
      <4> QED BY <2>2, <2>3, <2>5
    <3>2. PICK h \in [0 .. (k - 1) -> U] : Runs(k - 1, h)
      BY <3>1
    <3> DEFINE g == [n \in 0 .. k |-> IF n = k THEN F[h[k - 1]] ELSE h[n]]
    <3>3. g \in [0 .. k -> U]
      <4>1. k - 1 \in 0 .. (k - 1) /\ \A n \in 0 .. k : n # k => n \in 0 .. (k - 1)
        BY <2>3, <2>5
      <4>2. \A n \in 0 .. k : (IF n = k THEN F[h[k - 1]] ELSE h[n]) \in U
        BY <4>1
      <4> QED BY <4>2
    <3>4. g[0] = start
      BY <2>3, <2>5, <3>2
    <3>5. \A n \in 1 .. k : g[n] = F[g[n - 1]]
      <4>1. g[k] = F[h[k - 1]] /\ \A n \in 0 .. (k - 1) : g[n] = h[n]
        BY <2>3, <2>5
      <4>2. \A n \in 1 .. k : n - 1 \in 0 .. (k - 1)
        BY <2>3
      <4>3. \A n \in 1 .. (k - 1) : n \in 0 .. (k - 1) /\ h[n] = F[h[n - 1]]
        BY <2>3, <3>2
      <4>4. \A n \in 1 .. k : n = k \/ n \in 1 .. (k - 1)
        BY <2>3
      <4> HIDE DEF g
      <4> QED BY <4>1, <4>2, <4>3, <4>4
    <3> HIDE DEF g
    <3> QED BY <2>3, <3>3, <3>4, <3>5
  <2> QED BY <2>4, <2>5
<1>2. \E g \in [0 .. K -> U] : Runs(K, g)
  <2>1. K \in 0 .. K
    OBVIOUS
  <2> QED BY <1>1, <2>1
<1> QED BY <1>2 DEF Repetitions


Size(b) == Cardinality(DOMAIN b.tickets)

LEMMA SizeTyped ==
  ASSUME NEW b, IsBoard(b) PROVE Size(b) \in Nat
BY FS_CardinalityType DEF IsBoard, Size

Children(b, i) == ChildTickets(b, i, WorkTickets(b))

(* The walk down from an Epic, one level after the other.                  *)
LEMMA DescendantsMet ==
  ASSUME NEW b, IsBoard(b), NEW e
  PROVE  \E met : /\ DescendantTickets(b, e) = met[Size(b)]
                  /\ met[0] = Children(b, e)
                  /\ \A n \in 1 .. Size(b) : met[n] = UNION {{i} \union Children(b, i) : i \in met[n - 1]}
<1> DEFINE K == Size(b)
           U == SUBSET WorkTickets(b)
           F == [S \in U |-> UNION {{i} \union Children(b, i) : i \in S}]
           Levels(g) == g = [n \in 0 .. K |-> IF n = 0 THEN Children(b, e)
                                              ELSE UNION {{i} \union Children(b, i) : i \in g[n - 1]}]
           met == CHOOSE g : Levels(g)
<1>1. K \in Nat
  BY SizeTyped
<1>2. \A i : Children(b, i) \in U
  BY DEF Children, ChildTickets
<1>3. F \in [U -> U]
  <2>1. \A S \in U : UNION {{i} \union Children(b, i) : i \in S} \in U
    BY <1>2
  <2> QED BY <2>1
<1>4. PICK g \in [0 .. K -> U] : g[0] = Children(b, e) /\ \A n \in 1 .. K : g[n] = F[g[n - 1]]
  <2> DEFINE start == Children(b, e)
  <2>1. start \in U
    BY <1>2
  <2> HIDE DEF K, U, F, start
  <2>2. Repetitions(K, U, start, F) # {}
    BY <1>1, <1>3, <2>1, Repeated
  <2> QED BY <2>2 DEF start, Repetitions
<1>5. \A n \in 1 .. K : g[n] = UNION {{i} \union Children(b, i) : i \in g[n - 1]}
  <2>1. \A n \in 1 .. K : n - 1 \in 0 .. K
    BY <1>1
  <2>2. \A n \in 1 .. K : g[n - 1] \in U
    <3> HIDE DEF U
    <3> QED BY <2>1, <1>4
  <2> HIDE DEF U
  <2> QED BY <2>2, <1>4
<1>6. Levels(g)
  <2>1. \A n \in 0 .. K : n = 0 \/ n \in 1 .. K
    BY <1>1
  <2> HIDE DEF K, U, F
  <2> QED BY <1>4, <1>5, <2>1
<1>7. Levels(met)
  <2> HIDE DEF Levels
  <2> QED BY <1>6
<1>8. /\ met[0] = Children(b, e)
      /\ \A n \in 1 .. K : met[n] = UNION {{i} \union Children(b, i) : i \in met[n - 1]}
  <2>1. 0 \in 0 .. K /\ \A n \in 1 .. K : n \in 0 .. K /\ n # 0
    BY <1>1
  <2> HIDE DEF met
  <2> QED BY <1>7, <2>1
<1>9. DescendantTickets(b, e) = met[K]
  BY DEF DescendantTickets, DescendantsWithin, Walk, Children, Size
<1> QED BY <1>8, <1>9

(* The way up: where it leads from a ticket with n steps left, when rest   *)
(* tells where it leads with one less.                                     *)
ClimbStep(b, i, n, x, rest) ==
  IF b.tickets[x].parent = 0 \/ n = 0 THEN (IF IsEpic(b, i) THEN i ELSE 0)
  ELSE IF b.tickets[x].parent \notin WorkTickets(b) THEN 0
  ELSE IF IsEpic(b, b.tickets[x].parent) THEN b.tickets[x].parent
  ELSE rest[b.tickets[x].parent]

LEMMA ClimbMet ==
  ASSUME NEW b, IsBoard(b), NEW i
  PROVE  \E c : /\ TopEpicFor(b, i) = c[Size(b)][i]
                /\ \A n \in 0 .. Size(b) : \A x \in DOMAIN b.tickets :
                     c[n][x] = ClimbStep(b, i, n, x, c[n - 1])
<1> DEFINE K == Size(b)
           I == DOMAIN b.tickets
           V == {0, i} \union WorkTickets(b)
           U == [I -> V]
           Climbs(c) == c = [n \in 0 .. K |-> [x \in I |-> ClimbStep(b, i, n, x, c[n - 1])]]
           climb == CHOOSE c : Climbs(c)
           start == [x \in I |-> ClimbStep(b, i, 0, x, x)]
           F == [d \in U |-> [x \in I |-> ClimbStep(b, i, 1, x, d)]]
<1>1. K \in Nat
  BY SizeTyped
<1>2. WorkTickets(b) \subseteq I
  BY DEF WorkTickets
<1>3. /\ \A n, x, d : n # 0 => ClimbStep(b, i, n, x, d) = ClimbStep(b, i, 1, x, d)
      /\ \A x, c, d : ClimbStep(b, i, 0, x, c) = ClimbStep(b, i, 0, x, d)
  BY DEF ClimbStep
<1>4. start \in U
  BY DEF ClimbStep
<1>5. F \in [U -> U]
  <2>1. \A d \in U : \A x \in I : ClimbStep(b, i, 1, x, d) \in V
    BY <1>2 DEF ClimbStep
  <2>2. \A d \in U : [x \in I |-> ClimbStep(b, i, 1, x, d)] \in U
    <3> HIDE DEF I, V
    <3> QED BY <2>1
  <2> HIDE DEF U
  <2> QED BY <2>2
<1> HIDE DEF U, start, F
<1>6. PICK g \in [0 .. K -> U] : g[0] = start /\ \A n \in 1 .. K : g[n] = F[g[n - 1]]
  <2> HIDE DEF K
  <2>1. Repetitions(K, U, start, F) # {}
    BY <1>1, <1>4, <1>5, Repeated
  <2> QED BY <2>1 DEF Repetitions
<1>7. \A n \in 0 .. K : g[n] = [x \in I |-> ClimbStep(b, i, n, x, g[n - 1])]
  <2>1. g[0] = [x \in I |-> ClimbStep(b, i, 0, x, g[0 - 1])]
    <3>1. \A x \in I : ClimbStep(b, i, 0, x, x) = ClimbStep(b, i, 0, x, g[0 - 1])
      BY <1>3
    <3> HIDE DEF I
    <3> QED BY <1>6, <3>1 DEF start
  <2>2. ASSUME NEW n \in 1 .. K PROVE g[n] = [x \in I |-> ClimbStep(b, i, n, x, g[n - 1])]
    <3>1. n - 1 \in 0 .. K /\ n # 0
      BY <1>1
    <3>2. g[n - 1] \in U /\ g[n] = F[g[n - 1]]
      BY <1>6, <3>1
    <3>3. \A x \in I : ClimbStep(b, i, n, x, g[n - 1]) = ClimbStep(b, i, 1, x, g[n - 1])
      BY <1>3, <3>1
    <3> HIDE DEF I
    <3>4. F[g[n - 1]] = [x \in I |-> ClimbStep(b, i, 1, x, g[n - 1])]
      BY <3>2 DEF F
    <3> QED BY <3>2, <3>3, <3>4
  <2>3. \A n \in 0 .. K : n = 0 \/ n \in 1 .. K
    BY <1>1
  <2> HIDE DEF I, K
  <2> QED BY <2>1, <2>2, <2>3
<1>8. Climbs(g)
  <2> HIDE DEF I, K
  <2> QED BY <1>6, <1>7
<1>9. Climbs(climb)
  <2> HIDE DEF Climbs
  <2> QED BY <1>8
<1>10. \A n \in 0 .. K : \A x \in I : climb[n][x] = ClimbStep(b, i, n, x, climb[n - 1])
  <2> HIDE DEF climb, I, K
  <2>1. \A n \in 0 .. K : climb[n] = [x \in I |-> ClimbStep(b, i, n, x, climb[n - 1])]
    BY <1>9
  <2> QED BY <2>1
<1>11. TopEpicFor(b, i) = climb[K][i]
  BY DEF TopEpicFor, Size, ClimbStep
<1> QED BY <1>10, <1>11

(* A task whose climb ends at an Epic is found on the walk down from it.   *)
LEMMA BelowItsEpic ==
  ASSUME NEW b, IsBoard(b), NEW i \in WorkTickets(b), ~IsEpic(b, i), TopEpicFor(b, i) # 0
  PROVE  /\ i \in DescendantTickets(b, TopEpicFor(b, i))
         /\ TopEpicFor(b, i) \in WorkTickets(b) /\ IsEpic(b, TopEpicFor(b, i))
<1> DEFINE K == Size(b)
           e == TopEpicFor(b, i)
           N == WorkTickets(b)
<1>1. K \in Nat /\ N \subseteq DOMAIN b.tickets
  BY SizeTyped DEF WorkTickets
<1>2. PICK met : /\ DescendantTickets(b, e) = met[K] /\ met[0] = Children(b, e)
                 /\ \A n \in 1 .. K : met[n] = UNION {{j} \union Children(b, j) : j \in met[n - 1]}
  BY DescendantsMet
<1>3. PICK c : /\ e = c[K][i]
               /\ \A n \in 0 .. K : \A x \in DOMAIN b.tickets : c[n][x] = ClimbStep(b, i, n, x, c[n - 1])
  BY ClimbMet
<1> HIDE DEF K, e
<1>4. \A n \in 1 .. K : /\ met[n - 1] \subseteq met[n]
                        /\ \A j \in met[n - 1] : Children(b, j) \subseteq met[n]
  BY <1>2
<1>5. \A n \in 0 .. K : met[0] \subseteq met[n]
  <2> DEFINE bad == {n \in 0 .. K : ~(met[0] \subseteq met[n])}
  <2> SUFFICES ASSUME bad # {} PROVE FALSE
    OBVIOUS
  <2>1. PICK n \in bad : \A m \in bad : n <= m
    <3>1. bad \in SUBSET Nat
      OBVIOUS
    <3> HIDE DEF bad
    <3> QED BY <3>1, LeastNumber
  <2>2. n \in 0 .. K /\ n # 0
    OBVIOUS
  <2>3. n - 1 \in 0 .. K /\ n \in 1 .. K /\ ~(n <= n - 1)
    BY <1>1, <2>2
  <2>4. met[0] \subseteq met[n - 1]
    BY <2>1, <2>3
  <2> QED BY <1>4, <2>1, <2>3, <2>4
<1>6. \A n \in 0 .. K : \A x \in N :
        c[n][x] = e => x \in met[n] /\ e \in N /\ IsEpic(b, e)
  <2> DEFINE bad == {n \in 0 .. K : \E x \in N : c[n][x] = e /\ ~(x \in met[n] /\ e \in N /\ IsEpic(b, e))}
  <2> SUFFICES ASSUME bad # {} PROVE FALSE
    OBVIOUS
  <2>1. PICK n \in bad : \A m \in bad : n <= m
    <3>1. bad \in SUBSET Nat
      OBVIOUS
    <3> HIDE DEF bad
    <3> QED BY <3>1, LeastNumber
  <2>2. PICK x \in N : c[n][x] = e /\ ~(x \in met[n] /\ e \in N /\ IsEpic(b, e))
    BY <2>1
  <2>3. n \in 0 .. K /\ e # 0
    BY DEF e
  <2> DEFINE p == b.tickets[x].parent
  <2>4. c[n][x] = ClimbStep(b, i, n, x, c[n - 1])
    BY <1>1, <1>3, <2>3
  <2>5. n # 0 /\ p # 0 /\ p \in N /\ (IF IsEpic(b, p) THEN e = p ELSE c[n - 1][p] = e)
    BY <2>2, <2>3, <2>4 DEF ClimbStep
  <2>6. n - 1 \in 0 .. K /\ n \in 1 .. K /\ ~(n <= n - 1)
    BY <1>1, <2>3, <2>5
  <2>7. x \in Children(b, p)
    BY <2>2 DEF Children, ChildTickets
  <2>8. CASE IsEpic(b, p)
    BY <1>2, <1>5, <2>2, <2>3, <2>5, <2>7, <2>8
  <2>9. CASE ~IsEpic(b, p)
    <3>1. c[n - 1][p] = e /\ p \in N
      BY <2>5, <2>9
    <3>2. n - 1 \notin bad
      <4> HIDE DEF bad
      <4> QED BY <2>1, <2>6
    <3>3. p \in met[n - 1] /\ e \in N /\ IsEpic(b, e)
      BY <2>6, <3>1, <3>2
    <3> QED BY <1>4, <2>2, <2>6, <2>7, <3>3
  <2> QED BY <2>8, <2>9
<1>7. K \in 0 .. K
  BY <1>1
<1> QED BY <1>2, <1>3, <1>6, <1>7 DEF e

-----------------------------------------------------------------------------
(* No work is lost *)

LEMMA NoFilterHidesNothing ==
  ASSUME NEW b, NEW u, ActiveTaskFilters(u) = {} PROVE FilteredWork(b, u) = WorkTickets(b)
<1>1. \A f : f \notin u.filters.fields
  BY DEF ActiveTaskFilters
<1>2. u.filters.type = ""
  <2>1. "typeFilter" \notin ActiveTaskFilters(u)
    OBVIOUS
  <2> QED BY <2>1, Zenon DEF ActiveTaskFilters
<1>3. u.filters.dependency = ""
  <2>1. "dependencyFilter" \notin ActiveTaskFilters(u)
    OBVIOUS
  <2> QED BY <2>1, Zenon DEF ActiveTaskFilters
<1>4. \A i : MatchesDependencyFilter(b, i, u.filters.dependency)
  BY <1>3, Zenon DEF MatchesDependencyFilter
<1>5. \A i : u.filters.type \in {"", b.tickets[i].type} /\ u.filters.fields \subseteq b.tickets[i].meets
  BY <1>1, <1>2, Zenon
<1>6. Filtered(b, u) = {i \in DOMAIN b.tickets : Stored(b.tickets[i])}
  BY <1>4, <1>5, Zenon DEF Filtered
<1> QED BY <1>6 DEF FilteredWork, WorkTickets

(* What the views show is work.                                            *)
LEMMA ShownIsWork ==
  ASSUME NEW b, NEW u, NEW ids PROVE PlanningWork(b, u, ids) \subseteq WorkTickets(b)
<1>1. FilteredWork(b, u) \subseteq WorkTickets(b)
  <2>1. Filtered(b, u) \subseteq {i \in DOMAIN b.tickets : Stored(b.tickets[i])}
    BY Zenon DEF Filtered
  <2> QED BY <2>1 DEF FilteredWork, WorkTickets
<1>2. \A S : S \subseteq WorkTickets(b) => SprintFilteredWork(b, u, S) \subseteq WorkTickets(b)
  BY DEF SprintFilteredWork, WithEpics
<1> QED BY <1>1, <1>2 DEF PlanningWork

(* Open work is in the lane of its Epic, which its own being open keeps on *)
(* the Board, and in no other.                                             *)
LEMMA OpenWorkHasOneLane ==
  ASSUME NEW b, IsBoard(b), NEW d, d.work \subseteq WorkTickets(b), NEW i \in d.work,
         ~IsEpic(b, i), ~InDone(b, i), b.tickets[i].column \in DOMAIN b.columns
  PROVE  Cardinality({lane \in BoardLanes(b, d) : i \in lane.items}) = 1
<1> DEFINE Lane(e) == [epic |-> e, items |-> {j \in d.work : TopEpicFor(b, j) = e /\ j # e
                                                             /\ (e = 0 => ~IsEpic(b, j))}]
           e == TopEpicFor(b, i)
<1>1. i \in WorkTickets(b) /\ i # 0
  BY DEF WorkTickets, IsBoard
<1>2. i # e
  BY <1>1, BelowItsEpic
<1>3. \A lane \in BoardSwimlaneData(b, d.work) : \E f : lane = Lane(f)
  BY DEF BoardSwimlaneData
<1>4. \A lane \in BoardSwimlaneData(b, d.work) : i \in lane.items => lane = Lane(e)
  BY <1>3
<1>5. Lane(e) \in BoardSwimlaneData(b, d.work)
  BY DEF BoardSwimlaneData
<1>6. i \in Lane(e).items /\ Lane(e).epic = e
  BY <1>2
<1>7. Lane(e) \in BoardLanes(b, d)
  <2>1. e # 0 => ~BoardEpicCompleted(b, e)
    BY <1>1, BelowItsEpic DEF BoardEpicCompleted
  <2> HIDE DEF Lane
  <2> QED BY <1>5, <1>6, <2>1 DEF BoardLanes
<1>8. BoardLanes(b, d) \subseteq BoardSwimlaneData(b, d.work)
  BY DEF BoardLanes
<1> HIDE DEF Lane, e
<1>9. {lane \in BoardLanes(b, d) : i \in lane.items} = {Lane(e)}
  BY <1>4, <1>6, <1>7, <1>8
<1> QED BY <1>9, FS_Singleton

LEMMA OpenWorkIsShown ==
  ASSUME IsBoard(board) PROVE OpenWorkIsOnTheBoard(Drawn, BoardLanes(board, Drawn))
<1> DEFINE d == Drawn
           lanes == BoardLanes(board, d)
<1>1. d.work \subseteq WorkTickets(board) /\ (~ui.focused => d.focusIds = NoChain)
  BY ShownIsWork DEF Drawn, Snapshot, DependencySnapshot
<1> HIDE DEF d
<1>2. ASSUME NEW i \in d.work, ~IsEpic(board, i), ~InDone(board, i),
             T[i].column \in DOMAIN board.columns
      PROVE  Cardinality({lane \in lanes : i \in lane.items}) = 1
  BY <1>1, <1>2, OpenWorkHasOneLane DEF T
<1>3. ASSUME NEW f \in FilteredWork(board, ui) \intersect d.work, IsEpic(board, f), ~ui.focused
      PROVE  f \in BoardCompactEpics(board, ui, d, lanes) \union {lane.epic : lane \in lanes}
  <2>1. f # 0
    BY <1>1 DEF WorkTickets, IsBoard
  <2> QED BY <1>1, <1>3, <2>1 DEF BoardCompactEpics
<1> QED BY <1>2, <1>3 DEF OpenWorkIsOnTheBoard, d

LEMMA FinishTyped ==
  ASSUME NEW row \in TicketRow PROVE TicketPlannedFinish(row) \in Days \union {NoDay}
<1>1. \A d, n : AddDays(d, n) \in Days \union {NoDay}
  BY DEF AddDays, ValidDate
<1>2. row.due \in Days \union {NoDay} /\ row.start \in Days \union {NoDay}
  BY DEF TicketRow
<1> QED BY <1>1, <1>2 DEF TicketPlannedFinish

(* A row belongs to a numbered Sprint that fits the calendar exactly when  *)
(* its planned finish lies in it.                                          *)
LEMMA RowHasOneSprint ==
  ASSUME NEW c \in StoredCadences, HasCadence(c), NEW row \in TicketRow
  PROVE  LET n == TicketSprint(row, c).number
             finish == TicketPlannedFinish(row)
         IN /\ SprintByNumber(n, c) # NoSprint =>
                 finish \in SprintByNumber(n, c).start .. SprintByNumber(n, c).end
            /\ (finish >= c.start /\ AddDays(finish, Span(c)) # NoDay) => SprintByNumber(n, c) # NoSprint
<1> DEFINE s == TicketSprint(row, c)
           finish == TicketPlannedFinish(row)
<1>1. c \in Cadences
  BY SMT DEF StoredCadences, HasCadence, ValidDate, ValidSprintWeeks, Cadences, Days, NoDay
<1>2. c.start \in Nat /\ Span(c) \in Nat \ {0}
  BY <1>1, SpanIsPositive
<1>3. finish \in Days \union {NoDay} /\ s = SprintForDate(finish, c)
  BY FinishTyped DEF TicketSprint
<1> HIDE DEF s, finish
<1>4. CASE finish \notin Days
  <2>1. finish = -1 /\ ~ValidDate(finish)
    BY <1>3, <1>4 DEF NoDay, ValidDate
  <2>2. s.number = -1
    BY <1>3, <2>1 DEF SprintForDate, NoSprint
  <2>3. SprintByNumber(s.number, c) = NoSprint
    BY <2>2 DEF SprintByNumber
  <2> QED BY <1>2, <2>1, <2>3 DEF s, finish
<1>5. CASE finish \in Days /\ finish < c.start
  <2>1. s.number = 0
    BY <1>3, <1>5 DEF SprintForDate, BeforeSprints, ValidDate, NoSprint
  <2>2. SprintByNumber(s.number, c) = NoSprint
    BY <2>1 DEF SprintByNumber
  <2>3. finish \in Int
    BY <1>5, SprintsAssumption DEF Days
  <2> QED BY <1>2, <1>5, <2>2, <2>3 DEF s, finish
<1>6. CASE finish \in Days /\ c.start <= finish
  <2>1. /\ SprintByNumber(s.number, c) # NoSprint =>
             SprintByNumber(s.number, c) = s /\ s.start <= finish /\ finish <= s.end
        /\ s.number \in Nat \ {0}
    BY <1>1, <1>3, <1>6, DateHasOneSprint
  <2>2. PICK i \in Nat : s.number = i + 1
    <3>1. s.number - 1 \in Nat /\ s.number = (s.number - 1) + 1
      BY <2>1
    <3> QED BY <3>1
  <2>3. ASSUME SprintByNumber(s.number, c) # NoSprint
        PROVE  finish \in SprintByNumber(s.number, c).start .. SprintByNumber(s.number, c).end
    <3>1. /\ SprintByNumber(s.number, c).start = c.start + i * Span(c)
          /\ SprintByNumber(s.number, c).end = c.start + i * Span(c) + (Span(c) - 1)
          /\ i * Span(c) \in Nat
      BY <1>1, <2>1, <2>2, <2>3, RangeOfNumber
    <3>2. SprintByNumber(s.number, c).start \in Int /\ SprintByNumber(s.number, c).end \in Int
      BY <1>2, <3>1
    <3>3. finish \in Int
      BY <1>6, SprintsAssumption DEF Days
    <3> QED BY <2>1, <2>3, <3>2, <3>3
  <2>4. ASSUME AddDays(finish, Span(c)) # NoDay PROVE SprintByNumber(s.number, c) # NoSprint
    <3> DEFINE k == (finish - c.start) \div Span(c)
               p == k * Span(c)
               span == Span(c)
    <3>1. finish \in Nat /\ finish - c.start \in Nat /\ finish + span <= LastDay
      BY <1>2, <1>6, <2>4, SprintsAssumption DEF Days, AddDays, ValidDate
    <3>2. k \in Nat /\ p <= finish - c.start
      BY <1>2, <3>1, Division
    <3>3. s = SprintRange(k, c)
      <4>1. ~(finish < c.start)
        BY <1>2, <1>6, <3>1
      <4> HIDE DEF k
      <4>2. SprintForDate(finish, c) = SprintRange((finish - c.start) \div Span(c), c)
        BY <1>6, <4>1 DEF SprintForDate, ValidDate
      <4> QED BY <1>3, <4>2 DEF k
    <3> HIDE DEF k
    <3>4. p \in Nat
      BY <1>2, <3>2
    <3>5. s.number = k + 1 /\ s.number - 1 = k
      BY <3>2, <3>3 DEF SprintRange
    <3> DEFINE first == c.start + p
    <3>6. ValidDate(first) /\ ValidDate(first + 0) /\ ValidDate(first + span)
      <4> HIDE DEF p, span
      <4> QED BY <1>2, <3>1, <3>2, <3>4, SprintsAssumption DEF ValidDate, Days, span
    <3>7. s.start = first + 0 /\ s.endExclusive = first + span
      BY <3>3, <3>6 DEF SprintRange, AddDays
    <3>8. Usable(s)
      BY <3>6, <3>7 DEF Usable
    <3>9. SprintByNumber(s.number, c) = s
      BY <2>1, <3>3, <3>5, <3>8 DEF SprintByNumber
    <3>10. s.number # -1
      BY <2>1
    <3> QED BY <3>9, <3>10 DEF NoSprint
  <2> QED BY <2>3, <2>4 DEF s, finish
<1>7. finish \in Days => finish \in Nat
  BY SprintsAssumption DEF Days
<1> QED BY <1>2, <1>4, <1>5, <1>6, <1>7

LEMMA SprintsDivide ==
  ASSUME IsBoard(board), ui \in PageChoices, HasCadence(board.cadence)
  PROVE  SprintsDivideTheWork
<1> DEFINE c == board.cadence
           number(i) == TicketSprint(T[i], c).number
           numbers == {n \in {number(i) : i \in WorkTickets(board)} : SprintByNumber(n, c) # NoSprint}
<1>1. c \in StoredCadences /\ board.board \in Nat \ {0} /\ DOMAIN T \subseteq Nat \ {0}
      /\ \A i \in WorkTickets(board) : T[i] \in TicketRow
  BY DEF IsBoard, T, WorkTickets
<1>2. ASSUME NEW n, SprintByNumber(n, c) # NoSprint, NEW i \in WorkTickets(board), ~IsEpic(board, i)
      PROVE  i \in SprintWork(n) <=> number(i) = n
  <2> DEFINE picked == [ui EXCEPT !.view = "board", !.wanted = board.board,
                                  !.sprint = n, !.sprintBoard = board.board]
             S == WorkTickets(board)
  <2>1. /\ picked.view = "board" /\ picked.wanted = board.board
        /\ picked.sprint = n /\ picked.sprintBoard = board.board
    BY DEF PageChoices
  <2>2. SprintWork(n) = SprintFilteredWork(board, picked, S)
    BY DEF SprintWork
  <2> HIDE DEF picked
  <2>3. SelectedPlanningSprint(board, picked) = SprintByNumber(n, c)
    BY <2>1 DEF SelectedPlanningSprint, Loading, PlanningViews
  <2>4. SprintWork(n) = WithEpics(board, SprintTasks(board, S, n))
    BY <1>2, <2>1, <2>2, <2>3 DEF SprintFilteredWork
  <2>5. i \notin UNION {EpicsAbove(board, j) : j \in SprintTasks(board, S, n)}
    BY <1>2 DEF EpicsAbove
  <2>6. i \in SprintTasks(board, S, n) <=> number(i) = n
    BY <1>2 DEF SprintTasks, T
  <2> QED BY <2>4, <2>5, <2>6 DEF WithEpics
<1> HIDE DEF number
<1>3. ASSUME NEW i \in WorkTickets(board), ~IsEpic(board, i)
      PROVE  LET at == {n \in numbers : i \in SprintWork(n)}
                 finish == TicketPlannedFinish(T[i])
             IN /\ Cardinality(at) <= 1
                /\ \A n \in at : finish \in SprintByNumber(n, c).start .. SprintByNumber(n, c).end
                /\ (finish >= c.start /\ AddDays(finish, Span(c)) # NoDay) => at # {}
  <2> DEFINE at == {n \in numbers : i \in SprintWork(n)}
             finish == TicketPlannedFinish(T[i])
             m == number(i)
  <2>1. \A n \in at : n = m /\ SprintByNumber(n, c) # NoSprint
    BY <1>2, <1>3
  <2>2. SprintByNumber(m, c) # NoSprint => m \in at
    BY <1>2, <1>3
  <2>3. /\ SprintByNumber(m, c) # NoSprint =>
             finish \in SprintByNumber(m, c).start .. SprintByNumber(m, c).end
        /\ (finish >= c.start /\ AddDays(finish, Span(c)) # NoDay) => SprintByNumber(m, c) # NoSprint
    BY <1>1, RowHasOneSprint DEF number
  <2> HIDE DEF at, m, finish
  <2>4. Cardinality(at) <= 1
    <3>1. at = {} \/ at = {m}
      BY <2>1
    <3>2. Cardinality({}) = 0 /\ Cardinality({m}) = 1
      BY FS_EmptySet, FS_Singleton
    <3> QED BY <3>1, <3>2
  <2>5. \A n \in at : finish \in SprintByNumber(n, c).start .. SprintByNumber(n, c).end
    BY <2>1, <2>3
  <2> QED BY <2>2, <2>3, <2>4, <2>5 DEF at, finish
<1>4. WorkIsDivided(numbers)
  BY <1>3 DEF WorkIsDivided
<1> QED BY <1>4 DEF SprintsDivideTheWork, number

(* Work never gets lost on any board: without an active filter the views   *)
(* consider all of it; selecting the Sprints one after the other shows     *)
(* every planned task once; and open work is in exactly one lane of the    *)
(* Board.  Code: filtered, activeTaskFilters, sprintForDate,               *)
(* sprintFilteredWork, boardWorkflowSwimlanes, boardEpicCompleted.         *)
THEOREM WorkIsNeverLost == Spec => []NoWorkIsLost
<1>1. ASSUME PlanningInv PROVE NoWorkIsLost
  <2>1. IsBoard(board) /\ ui \in PageChoices
    BY <1>1 DEF PlanningInv, TypeOK
  <2>2. SprintsDivideTheWork
    BY <2>1, SprintsDivide DEF SprintsDivideTheWork
  <2> QED BY <2>1, <2>2, NoFilterHidesNothing, OpenWorkIsShown DEF NoWorkIsLost
<1> QED BY <1>1, PlanningAssumption, PlanningAlways, PTL

-----------------------------------------------------------------------------
(* The chain *)

(* A chain of sets that grows at every step uses all elements.             *)
LEMMA StrictChain ==
  ASSUME NEW E, IsFiniteSet(E), NEW used \in [0 .. Cardinality(E) -> SUBSET E],
         \A n \in 1 .. Cardinality(E) : used[n - 1] \subseteq used[n] /\ used[n - 1] # used[n]
  PROVE  used[Cardinality(E)] = E
<1> DEFINE K == Cardinality(E)
<1>1. K \in Nat
  BY FS_CardinalityType
<1>2. \A n \in 0 .. K : IsFiniteSet(used[n]) /\ Cardinality(used[n]) \in Nat
  BY FS_Subset, FS_CardinalityType
<1>3. \A n \in 1 .. K : n \in 0 .. K /\ n - 1 \in 0 .. K
  BY <1>1
<1> HIDE DEF K
<1>4. \A n \in 0 .. K : n <= Cardinality(used[n])
  <2> DEFINE bad == {n \in 0 .. K : ~(n <= Cardinality(used[n]))}
  <2> SUFFICES ASSUME bad # {} PROVE FALSE
    OBVIOUS
  <2>1. PICK n \in bad : \A m \in bad : n <= m
    <3>1. bad \in SUBSET Nat
      OBVIOUS
    <3> HIDE DEF bad
    <3> QED BY <3>1, LeastNumber
  <2>2. n \in 0 .. K /\ ~(n <= Cardinality(used[n]))
    OBVIOUS
  <2>3. n # 0
    BY <1>2, <2>2
  <2>4. n \in 1 .. K /\ n - 1 \in 0 .. K /\ ~(n <= n - 1)
    BY <1>1, <2>2, <2>3
  <2>5. n - 1 <= Cardinality(used[n - 1])
    BY <2>1, <2>4
  <2>6. used[n - 1] \subseteq used[n] /\ used[n - 1] # used[n]
    BY <2>4 DEF K
  <2>7. Cardinality(used[n - 1]) <= Cardinality(used[n])
        /\ Cardinality(used[n - 1]) # Cardinality(used[n])
    BY <1>2, <2>2, <2>6, FS_Subset
  <2> HIDE DEF bad
  <2> QED BY <1>1, <1>2, <2>2, <2>4, <2>5, <2>7
<1>5. K \in 0 .. K
  BY <1>1
<1>6. used[K] \subseteq E /\ Cardinality(used[K]) <= Cardinality(E)
  BY <1>5, FS_Subset DEF K
<1>7. Cardinality(used[K]) = Cardinality(E)
  BY <1>1, <1>2, <1>4, <1>5, <1>6 DEF K
<1>8. used[K] = E
  BY <1>6, <1>7, FS_Subset
<1> QED BY <1>8 DEF K

LEMMA GrowsTo ==
  ASSUME NEW K \in Nat, NEW met, \A n \in 1 .. K : met[n - 1] \subseteq met[n]
  PROVE  \A n \in 0 .. K : met[n] \subseteq met[K]
<1> DEFINE bad == {j \in 0 .. K : ~(met[K - j] \subseteq met[K])}
<1>1. bad = {}
  <2> SUFFICES ASSUME bad # {} PROVE FALSE
    OBVIOUS
  <2>1. PICK j \in bad : \A m \in bad : j <= m
    <3>1. bad \in SUBSET Nat
      OBVIOUS
    <3> HIDE DEF bad
    <3> QED BY <3>1, LeastNumber
  <2>2. j \in 0 .. K /\ ~(met[K - j] \subseteq met[K])
    OBVIOUS
  <2>3. j # 0
    <3>1. K - 0 = K
      OBVIOUS
    <3> QED BY <2>2, <3>1
  <2>4. j - 1 \in 0 .. K /\ ~(j <= j - 1) /\ K - (j - 1) \in 1 .. K /\ (K - (j - 1)) - 1 = K - j
    BY <2>2, <2>3
  <2>5. met[K - (j - 1)] \subseteq met[K]
    BY <2>1, <2>4
  <2>6. met[K - j] \subseteq met[K - (j - 1)]
    BY <2>4
  <2> QED BY <2>2, <2>5, <2>6
<1>2. \A n \in 0 .. K : K - n \in 0 .. K /\ K - (K - n) = n
  OBVIOUS
<1> QED BY <1>1, <1>2

(* The search along the connections, one step after the other.             *)
IsSearch(met, E, id) ==
  /\ Related(E, id) = met[Cardinality(E)] /\ met[0] = {id}
  /\ \A n \in 1 .. Cardinality(E) :
       met[n] = UNION {{i} \union Ends(DirectEdges(E, i)) : i \in met[n - 1]}

LEMMA RelatedMet ==
  ASSUME NEW E, IsFiniteSet(E), NEW id PROVE \E met : IsSearch(met, E, id)
<1> DEFINE K == Cardinality(E)
           U == SUBSET ({id} \union Ends(E))
           F == [S \in U |-> UNION {{i} \union Ends(DirectEdges(E, i)) : i \in S}]
           Levels(g) == g = [n \in 0 .. K |->
                               IF n = 0 THEN {id}
                               ELSE UNION {{i} \union Ends(DirectEdges(E, i)) : i \in g[n - 1]}]
           met == CHOOSE g : Levels(g)
           start == {id}
<1>1. K \in Nat
  BY FS_CardinalityType
<1>2. \A i : Ends(DirectEdges(E, i)) \subseteq Ends(E)
  BY DEF Ends, DirectEdges, Valid
<1>3. F \in [U -> U]
  <2>1. \A S \in U : UNION {{i} \union Ends(DirectEdges(E, i)) : i \in S} \in U
    BY <1>2
  <2> QED BY <2>1
<1>4. PICK g \in [0 .. K -> U] : g[0] = start /\ \A n \in 1 .. K : g[n] = F[g[n - 1]]
  <2>1. start \in U
    OBVIOUS
  <2> HIDE DEF K, U, F, start
  <2>2. Repetitions(K, U, start, F) # {}
    BY <1>1, <1>3, <2>1, Repeated
  <2> QED BY <2>2 DEF Repetitions
<1>5. \A n \in 1 .. K : g[n] = UNION {{i} \union Ends(DirectEdges(E, i)) : i \in g[n - 1]}
  <2>1. \A n \in 1 .. K : n - 1 \in 0 .. K
    BY <1>1
  <2>2. \A n \in 1 .. K : g[n - 1] \in U
    <3> HIDE DEF U
    <3> QED BY <2>1, <1>4
  <2> HIDE DEF U
  <2> QED BY <2>2, <1>4
<1>6. Levels(g)
  <2>1. \A n \in 0 .. K : n = 0 \/ n \in 1 .. K
    BY <1>1
  <2> HIDE DEF K, U, F
  <2> QED BY <1>4, <1>5, <2>1
<1>7. Levels(met)
  <2> HIDE DEF Levels
  <2> QED BY <1>6
<1>8. /\ met[0] = {id}
      /\ \A n \in 1 .. K : met[n] = UNION {{i} \union Ends(DirectEdges(E, i)) : i \in met[n - 1]}
  <2>1. 0 \in 0 .. K /\ \A n \in 1 .. K : n \in 0 .. K /\ n # 0
    BY <1>1
  <2> HIDE DEF met
  <2> QED BY <1>7, <2>1
<1>9. Related(E, id) = met[K]
  BY DEF Related
<1>10. IsSearch(met, E, id)
  <2> HIDE DEF met
  <2> QED BY <1>8, <1>9 DEF IsSearch
<1> HIDE DEF met
<1> QED BY <1>10

(* As many steps as there are connections reach everything connected, and  *)
(* nothing else.                                                           *)
LEMMA RelatedIs ==
  ASSUME NEW E, IsFiniteSet(E), NEW id
  PROVE  LET R == Related(E, id)
         IN /\ id \in R
            /\ \A e \in Valid(E) : e[1] \in R <=> e[2] \in R
            /\ \A S : (id \in S /\ \A e \in Valid(E) : e[1] \in S <=> e[2] \in S) => R \subseteq S
<1> DEFINE K == Cardinality(E)
           R == Related(E, id)
<1>1. K \in Nat
  BY FS_CardinalityType
<1>2a. PICK met : IsSearch(met, E, id)
  BY RelatedMet
<1>2. /\ R = met[K] /\ met[0] = {id}
      /\ \A n \in 1 .. K : met[n] = UNION {{i} \union Ends(DirectEdges(E, i)) : i \in met[n - 1]}
  BY <1>2a DEF IsSearch
<1>3. \A n \in 1 .. K : met[n - 1] \subseteq met[n]
  BY <1>2
<1>4. \A n \in 1 .. K : \A e \in Valid(E) :
        e[1] \in met[n - 1] \/ e[2] \in met[n - 1] => e[1] \in met[n] /\ e[2] \in met[n]
  <2>1. \A e \in Valid(E) : /\ {e[1], e[2]} \subseteq Ends(DirectEdges(E, e[1]))
                            /\ {e[1], e[2]} \subseteq Ends(DirectEdges(E, e[2]))
    BY DEF Ends, DirectEdges
  <2> QED BY <1>2, <2>1
<1> HIDE DEF K, R
<1>5. \A n \in 0 .. K : met[n] \subseteq met[K]
  BY <1>1, <1>3, GrowsTo
<1>6. id \in R
  BY <1>1, <1>2, <1>5
<1>7. ASSUME NEW S, id \in S, \A e \in Valid(E) : e[1] \in S <=> e[2] \in S
      PROVE  \A n \in 0 .. K : met[n] \subseteq S
  <2> DEFINE bad == {n \in 0 .. K : ~(met[n] \subseteq S)}
  <2> SUFFICES ASSUME bad # {} PROVE FALSE
    OBVIOUS
  <2>1. PICK n \in bad : \A m \in bad : n <= m
    <3>1. bad \in SUBSET Nat
      OBVIOUS
    <3> HIDE DEF bad
    <3> QED BY <3>1, LeastNumber
  <2>2. n \in 0 .. K /\ ~(met[n] \subseteq S) /\ n # 0
    BY <1>2, <1>7
  <2>3. n \in 1 .. K /\ n - 1 \in 0 .. K /\ ~(n <= n - 1)
    BY <1>1, <2>2
  <2>4. met[n - 1] \subseteq S
    BY <2>1, <2>3
  <2>5. \A i \in S : Ends(DirectEdges(E, i)) \subseteq S
    BY <1>7 DEF Ends, DirectEdges
  <2> QED BY <1>2, <2>2, <2>3, <2>4, <2>5
<1>8. \A S : (id \in S /\ \A e \in Valid(E) : e[1] \in S <=> e[2] \in S) => R \subseteq S
  <2>1. K \in 0 .. K
    BY <1>1
  <2> QED BY <1>2, <1>7, <2>1
<1>9. \A e \in Valid(E) : e[1] \in R <=> e[2] \in R
  <2> DEFINE used == [n \in 0 .. K |-> {e \in Valid(E) : e[1] \in met[n] /\ e[2] \in met[n]}]
  <2>1. \A n \in 1 .. K : n - 1 \in 0 .. K /\ n \in 0 .. K
    BY <1>1
  <2>2. CASE \E n \in 1 .. K : used[n - 1] = used[n]
    <3>1. PICK n \in 1 .. K : used[n - 1] = used[n]
      BY <2>2
    <3>2. \A e \in Valid(E) : (e[1] \in met[n - 1] \/ e[2] \in met[n - 1]) =>
            e[1] \in met[n - 1] /\ e[2] \in met[n - 1]
      BY <1>4, <2>1, <3>1
    <3>3. met[0] \subseteq met[n - 1]
      <4> DEFINE k == n - 1
      <4>1. k \in Nat /\ 0 \in 0 .. k /\ \A m \in 1 .. k : m \in 1 .. K
        BY <1>1
      <4>2. \A m \in 1 .. k : met[m - 1] \subseteq met[m]
        BY <1>3, <4>1
      <4> HIDE DEF k
      <4>3. met[0] \subseteq met[k]
        BY <4>1, <4>2, GrowsTo
      <4> QED BY <4>3 DEF k
    <3>4. R \subseteq met[n - 1] /\ met[n - 1] \subseteq R
      BY <1>2, <1>5, <1>8, <2>1, <3>2, <3>3
    <3> QED BY <3>2, <3>4
  <2>3. CASE ~ \E n \in 1 .. K : used[n - 1] = used[n]
    <3>1. used \in [0 .. K -> SUBSET E]
      BY DEF Valid
    <3>2. \A n \in 1 .. K : used[n - 1] \subseteq used[n] /\ used[n - 1] # used[n]
      BY <1>3, <2>1, <2>3
    <3> HIDE DEF used
    <3>3. used[K] = E
      BY <3>1, <3>2, StrictChain DEF K
    <3>4. K \in 0 .. K
      BY <1>1
    <3>5. \A e \in E : e[1] \in met[K] /\ e[2] \in met[K]
      BY <3>3, <3>4 DEF used
    <3> QED BY <1>2, <3>5 DEF Valid
  <2> QED BY <2>2, <2>3
<1> QED BY <1>6, <1>8, <1>9 DEF R

LEMMA EdgesAre ==
  ASSUME NEW b, IsBoard(b), NEW N \in SUBSET WorkTickets(b)
  PROVE  LET E == DependencyHoverEdges(b, N)
         IN /\ IsFiniteSet(E) /\ Valid(E) = E /\ E \subseteq N \X N
            /\ \A i, j \in N : i # j => (<<i, j>> \in E <=> i \in b.tickets[j].links)
<1> DEFINE E == DependencyHoverEdges(b, N)
<1>1. N \subseteq Nat \ {0} /\ IsFiniteSet(N)
  BY FS_Subset DEF IsBoard, WorkTickets
<1>2. {i \in N : Stored(b.tickets[i]) /\ ~IsIdea(b.tickets[i])} = N
  BY DEF WorkTickets, IsBacklogTicket
<1>3. E = {e \in N \X N : e[1] \in b.tickets[e[2]].links /\ e[1] # e[2]}
  BY <1>2 DEF DependencyHoverEdges
<1>4. IsFiniteSet(E)
  <2>1. IsFiniteSet(N \X N)
    BY <1>1, FS_Product
  <2> QED BY <1>3, <2>1, FS_Subset
<1>5. Valid(E) = E
  <2>1. \A e \in E : e[1] > 0 /\ e[2] > 0 /\ e[1] # e[2]
    <3>1. \A e \in E : e[1] \in Nat \ {0} /\ e[2] \in Nat \ {0} /\ e[1] # e[2]
      <4> HIDE DEF E
      <4> QED BY <1>1, <1>3
    <3> HIDE DEF E
    <3> QED BY <3>1
  <2> HIDE DEF E
  <2> QED BY <2>1 DEF Valid
<1> QED BY <1>3, <1>4, <1>5

(* The chain is closed and connected.                                      *)
LEMMA ChainConnects ==
  ASSUME IsBoard(board), Chain # NoChain
  PROVE  LET work == SprintFilteredWork(board, ui, WorkTickets(board))
         IN /\ ChainIsConnected(Chain, work) /\ Chain \subseteq work
            /\ Chain = Related(DependencyHoverEdges(board, work), ui.focus)
<1> DEFINE work == SprintFilteredWork(board, ui, WorkTickets(board))
           E == DependencyHoverEdges(board, work)
           links == {e \in work \X work : e[1] \in T[e[2]].links \/ e[2] \in T[e[1]].links}
<1>1. work \subseteq WorkTickets(board)
  BY DEF SprintFilteredWork, WithEpics
<1>2. Chain = Related(E, ui.focus) /\ ui.focus \in work
  BY DEF Chain, DependencyViewIds, ConnectedDependencyIds
<1> HIDE DEF work
<1>3. /\ IsFiniteSet(E) /\ Valid(E) = E /\ E \subseteq work \X work
      /\ \A i, j \in work : i # j => (<<i, j>> \in E <=> i \in T[j].links)
  BY <1>1, EdgesAre DEF T
<1> HIDE DEF E
<1>4. /\ ui.focus \in Chain
      /\ \A e \in E : e[1] \in Chain <=> e[2] \in Chain
      /\ \A S : (ui.focus \in S /\ \A e \in E : e[1] \in S <=> e[2] \in S) => Chain \subseteq S
  BY <1>2, <1>3, RelatedIs
<1>5. Chain \subseteq work
  BY <1>2, <1>3, <1>4
<1>6. \A e \in links : e[1] \in Chain => e[2] \in Chain
  <2> SUFFICES ASSUME NEW i \in work, NEW j \in work, i \in Chain, i # j,
                      i \in T[j].links \/ j \in T[i].links
               PROVE  j \in Chain
    OBVIOUS
  <2>1. <<i, j>> \in E \/ <<j, i>> \in E
    BY <1>3
  <2>2. \A x, y : <<x, y>> \in E => (x \in Chain <=> y \in Chain)
    BY <1>4
  <2> QED BY <2>1, <2>2
<1>7. ASSUME NEW S \in (SUBSET Chain) \ {Chain}, ui.focus \in S
      PROVE  \E e \in links : e[1] \in S /\ e[2] \in Chain \ S
  <2> SUFFICES ASSUME \A e \in links : ~(e[1] \in S /\ e[2] \in Chain \ S) PROVE FALSE
    OBVIOUS
  <2>1. ASSUME NEW i \in work, NEW j \in work, <<i, j>> \in E PROVE i \in S <=> j \in S
    <3>1. i # j => i \in T[j].links
      BY <1>3, <2>1
    <3>2. i \in Chain <=> j \in Chain
      BY <1>4, <2>1
    <3>3. i # j => <<i, j>> \in links /\ <<j, i>> \in links
      BY <3>1
    <3> HIDE DEF links
    <3> QED BY <3>2, <3>3
  <2>2. \A e \in E : e[1] \in S <=> e[2] \in S
    BY <1>3, <2>1
  <2> QED BY <1>4, <1>7, <2>2
<1>8. ChainIsConnected(Chain, work)
  BY <1>4, <1>6, <1>7 DEF ChainIsConnected
<1> QED BY <1>2, <1>5, <1>8 DEF work, E

(* An open chain is exactly the work of the board, or of the chosen        *)
(* Sprint, that links connect with the task it was opened for, in any      *)
(* number of steps, in both directions, circles included.  Code:           *)
(* dependencyViewIds, connectedDependencyIds, dependencyHoverRelated.      *)
THEOREM ChainsAreWhole == Spec => []ChainIsWhole
<1>1. PlanningInv => ChainIsWhole
  <2>1. PlanningInv => IsBoard(board)
    BY DEF PlanningInv, TypeOK
  <2> QED BY <2>1, ChainConnects DEF ChainIsWhole
<1> QED BY <1>1, PlanningAssumption, PlanningAlways, PTL
=============================================================================
