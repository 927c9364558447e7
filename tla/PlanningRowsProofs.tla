------------------------- MODULE PlanningRowsProofs --------------------------
(***************************************************************************)
(* The planning views, for every board: sorting puts each element once and *)
(* in order, rows stand below their Epic, dependency chains are complete,  *)
(* listed and drawn in the order of their stages; what the Board offers is *)
(* what the server accepts; and the chart is sound.                        *)
(***************************************************************************)
EXTENDS PlanningProofs

-----------------------------------------------------------------------------
(* Sorted lists *)

(* L holds the pairs of S in which the first element comes first.          *)
IsOrder(L, S) ==
  /\ \A x \in S : <<x, x>> \notin L
  /\ \A x, y \in S : x # y => <<x, y>> \in L \/ <<y, x>> \in L
  /\ \A x, y, z \in S : <<x, y>> \in L /\ <<y, z>> \in L => <<x, z>> \in L

BeforeIn(L, S, x) == {y \in S : <<y, x>> \in L}

(* In a finite set every place is taken by one element.                    *)
LEMMA RanksAre ==
  ASSUME NEW S, IsFiniteSet(S), NEW L, IsOrder(L, S)
  PROVE  /\ \A x \in S : Cardinality(BeforeIn(L, S, x)) \in 0 .. (Cardinality(S) - 1)
         /\ \A x, y \in S : <<x, y>> \in L =>
              Cardinality(BeforeIn(L, S, x)) < Cardinality(BeforeIn(L, S, y))
         /\ \A k \in 1 .. Cardinality(S) :
              \E x \in S : Cardinality(BeforeIn(L, S, x)) = k - 1
<1> DEFINE K == Cardinality(S)
           rank == [x \in S |-> Cardinality(BeforeIn(L, S, x))]
<1>1. K \in Nat
  BY FS_CardinalityType
<1>2. \A x \in S : /\ IsFiniteSet(BeforeIn(L, S, x)) /\ Cardinality(BeforeIn(L, S, x)) \in Nat
                   /\ BeforeIn(L, S, x) \subseteq S
  <2>1. \A x \in S : BeforeIn(L, S, x) \subseteq S
    BY DEF BeforeIn
  <2> QED BY <2>1, FS_Subset, FS_CardinalityType
<1>3. ASSUME NEW x \in S PROVE Cardinality(BeforeIn(L, S, x)) \in 0 .. (K - 1)
  <2>1. BeforeIn(L, S, x) # S
    BY DEF BeforeIn, IsOrder
  <2>2. Cardinality(BeforeIn(L, S, x)) <= K /\ Cardinality(BeforeIn(L, S, x)) # K
    BY <1>2, <2>1, FS_Subset
  <2> QED BY <1>1, <1>2, <2>2
<1>4. ASSUME NEW x \in S, NEW y \in S, <<x, y>> \in L
      PROVE  Cardinality(BeforeIn(L, S, x)) < Cardinality(BeforeIn(L, S, y))
  <2>1. BeforeIn(L, S, x) \subseteq BeforeIn(L, S, y)
    BY <1>4 DEF BeforeIn, IsOrder
  <2>2. x \in BeforeIn(L, S, y) /\ x \notin BeforeIn(L, S, x)
    BY <1>4 DEF BeforeIn, IsOrder
  <2>3. /\ Cardinality(BeforeIn(L, S, x)) <= Cardinality(BeforeIn(L, S, y))
        /\ Cardinality(BeforeIn(L, S, x)) # Cardinality(BeforeIn(L, S, y))
    BY <1>2, <2>1, <2>2, FS_Subset
  <2> QED BY <1>2, <2>3
<1>5. rank \in Injection(S, 0 .. (K - 1))
  <2>1. rank \in [S -> 0 .. (K - 1)]
    BY <1>3
  <2>2. \A x, y \in S : rank[x] = rank[y] => x = y
    <3>1. \A x, y \in S : x # y => rank[x] < rank[y] \/ rank[y] < rank[x]
      BY <1>4 DEF IsOrder
    <3>2. \A x \in S : rank[x] \in Int
      BY <1>2
    <3> QED BY <3>1, <3>2
  <2> HIDE DEF rank, K
  <2> QED BY <2>1, <2>2 DEF Injection, IsInjective
<1>6. IsFiniteSet(0 .. (K - 1)) /\ Cardinality(0 .. (K - 1)) = K
  <2>1. 0 \in Int /\ K - 1 \in Int
    BY <1>1
  <2>2. /\ IsFiniteSet(0 .. (K - 1))
        /\ Cardinality(0 .. (K - 1)) = IF 0 > K - 1 THEN 0 ELSE (K - 1) - 0 + 1
    BY <2>1, FS_Interval
  <2> HIDE DEF K
  <2> QED BY <1>1, <2>2
<1>7. rank \in Surjection(S, 0 .. (K - 1))
  <2> HIDE DEF rank
  <2> QED BY <1>5, <1>6, FS_Injection
<1>8. ASSUME NEW k \in 1 .. K PROVE \E x \in S : Cardinality(BeforeIn(L, S, x)) = k - 1
  <2>1. k - 1 \in 0 .. (K - 1)
    BY <1>1
  <2>2. \E x \in S : rank[x] = k - 1
    <3> HIDE DEF rank
    <3> QED BY <1>7, <2>1 DEF Surjection
  <2> QED BY <2>2
<1> QED BY <1>3, <1>4, <1>8

(* A sequence that puts at every place the element of that rank lists the  *)
(* set, every element once and in order.                                   *)
Lists(s, L, S) ==
  /\ s \in Seq(S) /\ Range(s) = S /\ IsInjective(s) /\ Len(s) = Cardinality(S)
  /\ \A j, k \in DOMAIN s : j < k <=> <<s[j], s[k]>> \in L

(* The list of the ranks is sorted.                                        *)
LEMMA SortedLists ==
  ASSUME NEW S, IsFiniteSet(S), NEW L, IsOrder(L, S),
         NEW s \in [1 .. Cardinality(S) -> S],
         \A k \in 1 .. Cardinality(S) : Cardinality(BeforeIn(L, S, s[k])) = k - 1
  PROVE  Lists(s, L, S)
<1> DEFINE K == Cardinality(S)
           Rank(x) == Cardinality(BeforeIn(L, S, x))
<1>1. K \in Nat
  BY FS_CardinalityType
<1>2. DOMAIN s = 1 .. K /\ s \in [1 .. K -> S]
  OBVIOUS
<1>3. s \in Seq(S) /\ Len(s) = K
  <2> HIDE DEF K
  <2>1. s \in Seq(S)
    BY <1>1, <1>2, SeqDef
  <2>2. 1 .. Len(s) = 1 .. K /\ Len(s) \in Nat
    BY <1>2, <2>1, LenProperties
  <2> QED BY <1>1, <2>1, <2>2
<1>4. /\ \A x \in S : Rank(x) \in 0 .. (K - 1)
      /\ \A x, y \in S : <<x, y>> \in L => Rank(x) < Rank(y)
  BY RanksAre
<1>5. \A k \in 1 .. K : s[k] \in S /\ Rank(s[k]) = k - 1
  OBVIOUS
<1> HIDE DEF Rank, K
<1>6. \A x, y \in S : Rank(x) = Rank(y) => x = y
  <2>1. \A x, y \in S : x # y => Rank(x) < Rank(y) \/ Rank(y) < Rank(x)
    BY <1>4 DEF IsOrder
  <2>2. \A x \in S : Rank(x) \in Int
    BY <1>1, <1>4
  <2> QED BY <2>1, <2>2
<1>7. \A j, k \in 1 .. K : j < k <=> <<s[j], s[k]>> \in L
  <2> SUFFICES ASSUME NEW j \in 1 .. K, NEW k \in 1 .. K PROVE j < k <=> <<s[j], s[k]>> \in L
    OBVIOUS
  <2>0. s[j] \in S /\ s[k] \in S /\ Rank(s[j]) = j - 1 /\ Rank(s[k]) = k - 1 /\ j \in Nat /\ k \in Nat
    BY <1>1, <1>5
  <2>1. <<s[j], s[k]>> \in L => j < k
    BY <1>4, <2>0
  <2>2. <<s[k], s[j]>> \in L => k < j
    BY <1>4, <2>0
  <2>3. s[j] = s[k] \/ <<s[j], s[k]>> \in L \/ <<s[k], s[j]>> \in L
    BY <2>0 DEF IsOrder
  <2>4. s[j] = s[k] => j = k
    BY <2>0
  <2>5. <<s[j], s[j]>> \notin L
    BY <2>0 DEF IsOrder
  <2> QED BY <2>0, <2>1, <2>2, <2>3, <2>4, <2>5
<1>8. IsInjective(s)
  <2>1. \A j, k \in 1 .. K : s[j] = s[k] => j = k
    <3>1. \A j, k \in 1 .. K : j - 1 = k - 1 => j = k
      BY <1>1
    <3> QED BY <1>5, <3>1
  <2> QED BY <1>2, <2>1 DEF IsInjective
<1>9. Range(s) = S
  <2>1. Range(s) \subseteq S
    BY <1>2 DEF Range
  <2>2. ASSUME NEW x \in S PROVE x \in Range(s)
    <3> DEFINE k == Rank(x) + 1
    <3>1. Rank(x) \in 0 .. (K - 1)
      BY <1>4
    <3>2. k \in 1 .. K /\ k - 1 = Rank(x)
      BY <1>1, <3>1
    <3> HIDE DEF k
    <3>2a. k \in 1 .. K
      BY <3>2
    <3>2b. s[k] \in S /\ Rank(s[k]) = k - 1
      BY <1>5, <3>2a
    <3>3. s[k] \in S /\ Rank(s[k]) = Rank(x)
      BY <3>2, <3>2b
    <3>4. s[k] = x
      BY <1>6, <3>3
    <3> QED BY <1>2, <3>2, <3>4 DEF Range
  <2> QED BY <2>1, <2>2
<1> QED BY <1>2, <1>3, <1>7, <1>8, <1>9 DEF Lists, K

(* The elements in the order of a comparator, given as a set of pairs.     *)
LEMMA SortedByPairs ==
  ASSUME NEW S, IsFiniteSet(S), NEW L, IsOrder(L, S), NEW M,
         \A x, y \in S : <<x, y>> \in M <=> <<x, y>> \in L,
         NEW s, s = [k \in 1 .. Cardinality(S) |->
                       CHOOSE x \in S : Cardinality({y \in S : <<y, x>> \in M}) = k - 1]
  PROVE  Lists(s, L, S)
<1>1. \A x \in S : BeforeIn(L, S, x) = {y \in S : <<y, x>> \in M}
  BY DEF BeforeIn
<1>2. \A k \in 1 .. Cardinality(S) : s[k] \in S /\ Cardinality(BeforeIn(L, S, s[k])) = k - 1
  <2> TAKE k \in 1 .. Cardinality(S)
  <2>1. \E x \in S : Cardinality({y \in S : <<y, x>> \in M}) = k - 1
    <3>1. \E x \in S : Cardinality(BeforeIn(L, S, x)) = k - 1
      BY RanksAre
    <3> QED BY <1>1, <3>1
  <2>2. s[k] = CHOOSE x \in S : Cardinality({y \in S : <<y, x>> \in M}) = k - 1
    OBVIOUS
  <2>3. s[k] \in S /\ Cardinality({y \in S : <<y, s[k]>> \in M}) = k - 1
    BY <2>1, <2>2, Zenon
  <2> QED BY <1>1, <2>3
<1>3. s \in [1 .. Cardinality(S) -> S]
  BY <1>2
<1> QED BY <1>2, <1>3, SortedLists

(* References are ordered by their first differing number, as a prefix     *)
(* before its extensions.                                                  *)
LEMMA BeforeIsOrder ==
  /\ \A s \in Seq(Nat) : ~Before(s, s)
  /\ \A s, t \in Seq(Nat) : s # t => Before(s, t) \/ Before(t, s)
  /\ \A s, t, u \in Seq(Nat) : Before(s, t) /\ Before(t, u) => Before(s, u)
<1>1. \A s \in Seq(Nat) : Len(s) \in Nat /\ \A k \in 1 .. Len(s) : s[k] \in Nat
  BY LenProperties
<1>2. ASSUME NEW s \in Seq(Nat) PROVE ~Before(s, s)
  BY <1>1 DEF Before
<1>3. ASSUME NEW s \in Seq(Nat), NEW t \in Seq(Nat), s # t
      PROVE  Before(s, t) \/ Before(t, s)
  <2> DEFINE N == {k \in Nat \ {0} : k > Len(s) \/ k > Len(t) \/ s[k] # t[k]}
  <2>1. N # {}
    <3>1. Len(s) + 1 \in N
      BY <1>1
    <3> QED BY <3>1
  <2>2. PICK k \in N : \A j \in N : k <= j
    <3>1. N \in SUBSET Nat
      OBVIOUS
    <3> HIDE DEF N
    <3> QED BY <2>1, <3>1, LeastNumber
  <2>3. k \in Nat \ {0} /\ (k > Len(s) \/ k > Len(t) \/ s[k] # t[k])
    OBVIOUS
  <2>4. \A j \in 1 .. (k - 1) : j <= Len(s) /\ j <= Len(t) /\ s[j] = t[j]
    <3> TAKE j \in 1 .. (k - 1)
    <3>1. j \in Nat \ {0} /\ ~(k <= j)
      BY <2>3
    <3>2. j \notin N
      <4> HIDE DEF N
      <4> QED BY <2>2, <3>1
    <3> QED BY <1>1, <3>1, <3>2
  <2>5. k <= Len(s) \/ k <= Len(t)
    <3> SUFFICES ASSUME k > Len(s), k > Len(t) PROVE FALSE
      BY <1>1, <2>3
    <3>1. Len(s) = Len(t)
      <4>1. ASSUME Len(s) < Len(t) PROVE FALSE
        <5>1. Len(t) \in 1 .. (k - 1)
          BY <1>1, <2>3, <4>1
        <5> QED BY <1>1, <2>4, <4>1, <5>1
      <4>2. ASSUME Len(t) < Len(s) PROVE FALSE
        <5>1. Len(s) \in 1 .. (k - 1)
          BY <1>1, <2>3, <4>2
        <5> QED BY <1>1, <2>4, <4>2, <5>1
      <4> QED BY <1>1, <4>1, <4>2
    <3>2. \A j \in 1 .. Len(s) : s[j] = t[j]
      BY <1>1, <2>3, <2>4
    <3>3. s = t
      BY <3>1, <3>2, SeqEqual
    <3> QED BY <1>3, <3>3
  <2>6. CASE k > Len(s)
    <3>1. k \in 1 .. Len(t)
      BY <1>1, <2>3, <2>5, <2>6
    <3>2. Before(s, t)
      BY <1>1, <2>3, <2>4, <2>6, <3>1 DEF Before
    <3> QED BY <3>2
  <2>7. CASE k > Len(t)
    <3>1. k \in 1 .. Len(s)
      BY <1>1, <2>3, <2>5, <2>7
    <3>2. Before(t, s)
      BY <1>1, <2>3, <2>4, <2>7, <3>1 DEF Before
    <3> QED BY <3>2
  <2>8. CASE ~(k > Len(s)) /\ ~(k > Len(t))
    <3>1. k \in 1 .. Len(s) /\ k \in 1 .. Len(t) /\ s[k] # t[k]
      BY <1>1, <2>3, <2>8
    <3>2. s[k] < t[k] \/ t[k] < s[k]
      BY <1>1, <3>1
    <3>3. s[k] < t[k] => Before(s, t)
      BY <2>4, <3>1 DEF Before
    <3>4. t[k] < s[k] => Before(t, s)
      BY <2>4, <3>1 DEF Before
    <3> QED BY <3>2, <3>3, <3>4
  <2> QED BY <2>6, <2>7, <2>8
<1>4. ASSUME NEW s \in Seq(Nat), NEW t \in Seq(Nat), NEW u \in Seq(Nat), Before(s, t), Before(t, u)
      PROVE  Before(s, u)
  <2>1. PICK k \in 1 .. Len(t) : /\ \A j \in 1 .. k - 1 : j <= Len(s) /\ s[j] = t[j]
                                 /\ Len(s) < k \/ s[k] < t[k]
    BY <1>4 DEF Before
  <2>2. PICK m \in 1 .. Len(u) : /\ \A j \in 1 .. m - 1 : j <= Len(t) /\ t[j] = u[j]
                                 /\ Len(t) < m \/ t[m] < u[m]
    BY <1>4 DEF Before
  <2>3. k \in Nat /\ m \in Nat /\ k <= Len(t) /\ m <= Len(u) /\ k >= 1 /\ m >= 1
    BY <1>1
  <2>4. CASE k < m
    <3>1. k \in 1 .. m - 1 /\ k \in 1 .. Len(u)
      BY <1>1, <2>3, <2>4
    <3>2. t[k] = u[k]
      BY <2>2, <3>1
    <3>3. \A j \in 1 .. k - 1 : j <= Len(s) /\ s[j] = u[j]
      <4>1. \A j \in 1 .. k - 1 : j \in 1 .. m - 1
        BY <2>3, <2>4
      <4> QED BY <2>1, <2>2, <4>1
    <3>4. Len(s) < k \/ s[k] < u[k]
      BY <2>1, <3>2
    <3> QED BY <3>1, <3>3, <3>4 DEF Before
  <2>5. CASE m <= k
    <3>1. m <= Len(t) /\ t[m] < u[m] /\ t[m] \in Nat /\ u[m] \in Nat
      BY <1>1, <2>2, <2>3, <2>5
    <3>2. \A j \in 1 .. m - 1 : j <= Len(s) /\ s[j] = u[j]
      <4>1. \A j \in 1 .. m - 1 : j \in 1 .. k - 1
        BY <2>3, <2>5
      <4> QED BY <2>1, <2>2, <4>1
    <3>3. Len(s) < m \/ s[m] < u[m]
      <4>1. CASE m = k
        <5>0. Len(s) \in Nat
          BY <1>1
        <5>1. Len(s) < m \/ (m \in 1 .. Len(s) /\ s[m] < t[m])
          BY <2>1, <2>3, <4>1, <5>0
        <5>2. m \in 1 .. Len(s) => s[m] \in Nat
          BY <1>1
        <5>3. \A p, q, r \in Nat : p < q /\ q < r => p < r
          OBVIOUS
        <5> QED BY <3>1, <5>1, <5>2, <5>3
      <4>2. CASE m < k
        <5>1. m \in 1 .. k - 1
          BY <2>3, <4>2
        <5>2. s[m] = t[m]
          BY <2>1, <5>1
        <5> QED BY <3>1, <5>2
      <4> QED BY <2>3, <2>5, <4>1, <4>2
    <3> QED BY <3>2, <3>3 DEF Before
  <2> QED BY <2>3, <2>4, <2>5
<1> QED BY <1>2, <1>3, <1>4

TicketOrderPairs(b) == {p \in (DOMAIN b.tickets) \X (DOMAIN b.tickets) : TicketOrder(b, p[1], p[2])}

(* The fields of a ticket.                                                 *)
LEMMA TicketsTyped ==
  ASSUME NEW b, IsBoard(b)
  PROVE  /\ DOMAIN b.tickets \subseteq Nat \ {0} /\ IsFiniteSet(DOMAIN b.tickets)
         /\ \A i \in DOMAIN b.tickets :
              /\ b.tickets[i].type \in TicketTypes /\ b.tickets[i].parent \in Nat
              /\ b.tickets[i].column \in Nat /\ b.tickets[i].position \in Int
              /\ b.tickets[i].ref \in Seq(Nat) /\ b.tickets[i].ref # <<>>
              /\ b.tickets[i].links \subseteq Nat /\ IsFiniteSet(b.tickets[i].links)
              /\ b.tickets[i].start \in Days \union {NoDay} /\ b.tickets[i].due \in Days \union {NoDay}
              /\ b.tickets[i].duration \in Nat /\ b.tickets[i].created \in Days \union {NoDay}
              /\ b.tickets[i].finished \in Days \union {NoDay}
BY DEF IsBoard, TicketRow

(* The manual order: position, reference, id.                              *)
LEMMA ManualOrder ==
  ASSUME NEW b, IsBoard(b), NEW S \in SUBSET DOMAIN b.tickets
  PROVE  IsOrder(TicketOrderPairs(b), S)
<1> DEFINE P(x) == b.tickets[x].position
           R(x) == b.tickets[x].ref
<1>1. \A x \in S : x \in Nat /\ P(x) \in Int /\ R(x) \in Seq(Nat)
  BY TicketsTyped
<1>2. \A x, y \in S : <<x, y>> \in TicketOrderPairs(b) <=>
        \/ P(x) < P(y)
        \/ P(x) = P(y) /\ Before(R(x), R(y))
        \/ P(x) = P(y) /\ R(x) = R(y) /\ x < y
  BY DEF TicketOrderPairs, TicketOrder
<1> HIDE DEF P, R
<1>3. \A x \in S : <<x, x>> \notin TicketOrderPairs(b)
  BY <1>1, <1>2, BeforeIsOrder
<1>4. \A x, y \in S : x # y => <<x, y>> \in TicketOrderPairs(b) \/ <<y, x>> \in TicketOrderPairs(b)
  BY <1>1, <1>2, BeforeIsOrder
<1>5. ASSUME NEW x \in S, NEW y \in S, NEW z \in S,
             <<x, y>> \in TicketOrderPairs(b), <<y, z>> \in TicketOrderPairs(b)
      PROVE  <<x, z>> \in TicketOrderPairs(b)
  <2>0. /\ \/ P(x) < P(y)
           \/ P(x) = P(y) /\ (Before(R(x), R(y)) \/ (R(x) = R(y) /\ x < y))
        /\ \/ P(y) < P(z)
           \/ P(y) = P(z) /\ (Before(R(y), R(z)) \/ (R(y) = R(z) /\ y < z))
    BY <1>2, <1>5
  <2>0a. P(x) \in Int /\ P(y) \in Int /\ P(z) \in Int
    BY <1>1
  <2>1. \/ P(x) < P(z)
        \/ P(x) = P(z) /\ P(x) = P(y)
    BY <2>0, <2>0a
  <2>2. CASE P(x) = P(z) /\ P(x) = P(y)
    <3>1. /\ Before(R(x), R(y)) \/ (R(x) = R(y) /\ x < y)
          /\ Before(R(y), R(z)) \/ (R(y) = R(z) /\ y < z)
      BY <2>0, <2>0a, <2>2
    <3>2. Before(R(x), R(z)) \/ (R(x) = R(z) /\ x < z)
      BY <1>1, <3>1, BeforeIsOrder
    <3> QED BY <1>2, <2>2, <3>2
  <2> QED BY <1>2, <2>1, <2>2
<1> QED BY <1>3, <1>4, <1>5 DEF IsOrder

(* Numbered tickets by their stage, before the others; F decides the rest. *)
Staged(steps, F, S) ==
  {p \in S \X S :
     IF {p[1], p[2]} \subseteq DOMAIN steps /\ steps[p[1]] # steps[p[2]] THEN steps[p[1]] < steps[p[2]]
     ELSE IF p[1] \in DOMAIN steps /\ p[2] \notin DOMAIN steps THEN TRUE
     ELSE IF p[2] \in DOMAIN steps /\ p[1] \notin DOMAIN steps THEN FALSE
     ELSE p \in F}

(* Stages in front of an order make an order.                              *)
LEMMA StagedOrder ==
  ASSUME NEW S, NEW F, IsOrder(F, S), NEW steps, \A i \in DOMAIN steps : steps[i] \in Int
  PROVE  IsOrder(Staged(steps, F, S), S)
<1> DEFINE D == DOMAIN steps
           L == Staged(steps, F, S)
<1>1. \A x, y \in S : <<x, y>> \in L <=>
        \/ x \in D /\ y \in D /\ steps[x] < steps[y]
        \/ x \in D /\ y \notin D
        \/ x \in D /\ y \in D /\ steps[x] = steps[y] /\ <<x, y>> \in F
        \/ x \notin D /\ y \notin D /\ <<x, y>> \in F
  BY DEF Staged
<1>2. \A x \in D : steps[x] \in Int
  OBVIOUS
<1> HIDE DEF D, L
<1>3. ASSUME NEW x \in S PROVE <<x, x>> \notin L
  <2>1. <<x, x>> \notin F
    BY DEF IsOrder
  <2>2. ~(x \in D /\ steps[x] < steps[x])
    BY <1>2
  <2> QED BY <1>1, <2>1, <2>2
<1>4. ASSUME NEW x \in S, NEW y \in S, x # y PROVE <<x, y>> \in L \/ <<y, x>> \in L
  <2>1. <<x, y>> \in F \/ <<y, x>> \in F
    BY <1>4 DEF IsOrder
  <2>2. x \in D /\ y \in D => steps[x] < steps[y] \/ steps[y] < steps[x] \/ steps[x] = steps[y]
    BY <1>2
  <2> QED BY <1>1, <2>1, <2>2
<1>5. ASSUME NEW x \in S, NEW y \in S, NEW z \in S, <<x, y>> \in L, <<y, z>> \in L
      PROVE  <<x, z>> \in L
  <2>1. <<x, y>> \in F /\ <<y, z>> \in F => <<x, z>> \in F
    BY DEF IsOrder
  <2> QED BY <1>1, <1>2, <1>5, <2>1
<1> QED BY <1>3, <1>4, <1>5 DEF IsOrder, L

(* By a number, F decides between equal ones.                              *)
Keyed(v, F, S) == {p \in S \X S : v[p[1]] < v[p[2]] \/ (v[p[1]] = v[p[2]] /\ p \in F)}

(* So does a number.                                                       *)
LEMMA KeyedOrder ==
  ASSUME NEW S, NEW F, IsOrder(F, S), NEW v, \A x \in S : v[x] \in Int
  PROVE  IsOrder(Keyed(v, F, S), S)
<1> DEFINE L == Keyed(v, F, S)
<1>1. \A x, y \in S : <<x, y>> \in L <=> v[x] < v[y] \/ (v[x] = v[y] /\ <<x, y>> \in F)
  BY DEF Keyed
<1> HIDE DEF L
<1>2. ASSUME NEW x \in S PROVE <<x, x>> \notin L
  <2>1. <<x, x>> \notin F
    BY DEF IsOrder
  <2> QED BY <1>1, <2>1
<1>3. ASSUME NEW x \in S, NEW y \in S, x # y PROVE <<x, y>> \in L \/ <<y, x>> \in L
  <2>1. <<x, y>> \in F \/ <<y, x>> \in F
    BY <1>3 DEF IsOrder
  <2>2. v[x] < v[y] \/ v[y] < v[x] \/ v[x] = v[y]
    OBVIOUS
  <2> QED BY <1>1, <2>1, <2>2
<1>4. ASSUME NEW x \in S, NEW y \in S, NEW z \in S, <<x, y>> \in L, <<y, z>> \in L
      PROVE  <<x, z>> \in L
  <2>1. <<x, y>> \in F /\ <<y, z>> \in F => <<x, z>> \in F
    BY DEF IsOrder
  <2>2. /\ v[x] < v[y] \/ (v[x] = v[y] /\ <<x, y>> \in F)
        /\ v[y] < v[z] \/ (v[y] = v[z] /\ <<y, z>> \in F)
    BY <1>1, <1>4
  <2>3. v[x] \in Int /\ v[y] \in Int /\ v[z] \in Int
    OBVIOUS
  <2>4. v[x] < v[z] \/ (v[x] = v[z] /\ <<x, z>> \in F)
    BY <2>1, <2>2, <2>3
  <2> QED BY <1>1, <2>4
<1> QED BY <1>2, <1>3, <1>4 DEF IsOrder, L

(* Orders on S are sets of pairs that agree there.                         *)
LEMMA SameOrder ==
  ASSUME NEW S, NEW L, IsOrder(L, S), NEW M,
         \A x, y \in S : <<x, y>> \in M <=> <<x, y>> \in L
  PROVE  IsOrder(M, S)
BY DEF IsOrder

IdOrder(down, S) == {p \in S \X S : IF down THEN p[1] > p[2] ELSE p[1] < p[2]}

(* Ids are in order, up or down.                                           *)
LEMMA IdsInOrder ==
  ASSUME NEW S \in SUBSET Nat, NEW down \in BOOLEAN
  PROVE  IsOrder(IdOrder(down, S), S)
<1>1. \A x, y \in S : <<x, y>> \in IdOrder(down, S) <=> IF down THEN x > y ELSE x < y
  BY DEF IdOrder
<1>2. \A x \in S : x \in Nat
  OBVIOUS
<1>3. \A x \in S : <<x, x>> \notin IdOrder(down, S)
  BY <1>1, <1>2
<1>4. \A x, y \in S : x # y => <<x, y>> \in IdOrder(down, S) \/ <<y, x>> \in IdOrder(down, S)
  BY <1>1, <1>2
<1>5. \A x, y, z \in S : <<x, y>> \in IdOrder(down, S) /\ <<y, z>> \in IdOrder(down, S)
                           => <<x, z>> \in IdOrder(down, S)
  BY <1>1, <1>2
<1> QED BY <1>3, <1>4, <1>5 DEF IsOrder

-----------------------------------------------------------------------------
(* The tree of the Timeline *)

TimelineTreeOrderPairs(b) ==
  {p \in (DOMAIN b.tickets) \X (DOMAIN b.tickets) : TimelineTreeOrder(b, p[1], p[2])}

(* The order of children on the Timeline.                                  *)
LEMMA TreeOrder ==
  ASSUME NEW b, IsBoard(b), NEW S \in SUBSET DOMAIN b.tickets
  PROVE  IsOrder(TimelineTreeOrderPairs(b), S)
<1> DEFINE R(x) == b.tickets[x].ref
           F == {p \in S \X S : Before(R(p[1]), R(p[2]))
                                \/ (R(p[1]) = R(p[2]) /\ p \in TicketOrderPairs(b))}
           v == [x \in S |-> -R(x)[1]]
           M == TicketOrderPairs(b)
<1>1. \A x \in S : R(x) \in Seq(Nat) /\ R(x)[1] \in Nat
  <2>1. \A x \in S : R(x) \in Seq(Nat) /\ R(x) # <<>>
    BY TicketsTyped
  <2>2. \A s \in Seq(Nat) : s # <<>> => 1 \in 1 .. Len(s)
    BY EmptySeq
  <2> HIDE DEF R
  <2> QED BY <2>1, <2>2, ElementOfSeq
<1>2. IsOrder(M, S)
  BY ManualOrder
<1>3. \A x, y \in S : <<x, y>> \in TimelineTreeOrderPairs(b) <=>
         \/ R(x)[1] > R(y)[1]
         \/ R(x)[1] = R(y)[1] /\ Before(R(x), R(y))
         \/ R(x) = R(y) /\ <<x, y>> \in M
  BY DEF TimelineTreeOrderPairs, TimelineTreeOrder, TicketOrderPairs
<1>4. \A x, y \in S : <<x, y>> \in F <=> Before(R(x), R(y)) \/ (R(x) = R(y) /\ <<x, y>> \in M)
  OBVIOUS
<1> HIDE DEF R, F, M
<1>5. IsOrder(F, S)
  <2>1. ASSUME NEW x \in S PROVE <<x, x>> \notin F
    <3>1. <<x, x>> \notin M
      BY <1>2 DEF IsOrder
    <3> QED BY <1>1, <1>4, <3>1, BeforeIsOrder
  <2>2. ASSUME NEW x \in S, NEW y \in S, x # y PROVE <<x, y>> \in F \/ <<y, x>> \in F
    <3>1. <<x, y>> \in M \/ <<y, x>> \in M
      BY <1>2, <2>2 DEF IsOrder
    <3>2. R(x) = R(y) \/ Before(R(x), R(y)) \/ Before(R(y), R(x))
      BY <1>1, BeforeIsOrder
    <3> QED BY <1>4, <3>1, <3>2
  <2>3. ASSUME NEW x \in S, NEW y \in S, NEW z \in S, <<x, y>> \in F, <<y, z>> \in F
        PROVE  <<x, z>> \in F
    <3>1. <<x, y>> \in M /\ <<y, z>> \in M => <<x, z>> \in M
      BY <1>2 DEF IsOrder
    <3>2. Before(R(x), R(y)) /\ Before(R(y), R(z)) => Before(R(x), R(z))
      BY <1>1, BeforeIsOrder
    <3>3. /\ Before(R(x), R(y)) \/ (R(x) = R(y) /\ <<x, y>> \in M)
          /\ Before(R(y), R(z)) \/ (R(y) = R(z) /\ <<y, z>> \in M)
      BY <1>4, <2>3
    <3>4. Before(R(x), R(z)) \/ (R(x) = R(z) /\ <<x, z>> \in M)
      BY <3>1, <3>2, <3>3
    <3> QED BY <1>4, <3>4
  <2> QED BY <2>1, <2>2, <2>3 DEF IsOrder
<1>6. \A x \in S : v[x] \in Int
  BY <1>1
<1>7. IsOrder(Keyed(v, F, S), S)
  <2> HIDE DEF v
  <2> QED BY <1>5, <1>6, KeyedOrder
<1>8. \A x, y \in S : <<x, y>> \in TimelineTreeOrderPairs(b) <=> <<x, y>> \in Keyed(v, F, S)
  <2> TAKE x, y \in S
  <2>1. <<x, y>> \in Keyed(v, F, S) <=> -R(x)[1] < -R(y)[1] \/ (-R(x)[1] = -R(y)[1] /\ <<x, y>> \in F)
    BY DEF Keyed
  <2>2. (-R(x)[1] < -R(y)[1] <=> R(x)[1] > R(y)[1]) /\ (-R(x)[1] = -R(y)[1] <=> R(x)[1] = R(y)[1])
    BY SMTT(60), <1>1
  <2>3. R(x) = R(y) => R(x)[1] = R(y)[1]
    OBVIOUS
  <2> QED BY <1>3, <1>4, <2>1, <2>2, <2>3
<1> HIDE DEF v
<1> QED BY <1>7, <1>8, SameOrder

-----------------------------------------------------------------------------
(* The rows of the Overview *)

(* The values the Overview sorts by are numbers.                           *)
LEMMA SprintTyped ==
  ASSUME NEW c \in StoredCadences, NEW row \in TicketRow
  PROVE  SprintSortValue(TicketSprint(row, c)) \in Int
<1> DEFINE finish == TicketPlannedFinish(row)
           s == TicketSprint(row, c)
<1>1. finish \in Days \union {NoDay} /\ s = SprintForDate(finish, c)
  BY FinishTyped DEF TicketSprint
<1>2. LastDay + 2 \in Int
  BY SprintsAssumption
<1> HIDE DEF s, finish
<1>3. s.number \in Int
  <2>1. CASE ~HasCadence(c) \/ ~ValidDate(finish)
    BY <1>1, <2>1 DEF SprintForDate, NoSprint
  <2>2. CASE HasCadence(c) /\ ValidDate(finish) /\ finish < c.start
    BY <1>1, <2>2 DEF SprintForDate, BeforeSprints
  <2>3. CASE HasCadence(c) /\ ValidDate(finish) /\ ~(finish < c.start)
    <3>1. c \in Cadences
      BY <2>3, SMT DEF StoredCadences, HasCadence, ValidDate, ValidSprintWeeks, Cadences, Days, NoDay
    <3>2. c.start \in Nat /\ Span(c) \in Nat \ {0}
      BY <3>1, SpanIsPositive
    <3>3. finish \in Nat /\ finish - c.start \in Nat
      BY <2>3, <3>2, SprintsAssumption DEF ValidDate, Days
    <3> DEFINE k == (finish - c.start) \div Span(c)
    <3>4. k \in Nat
      BY <3>2, <3>3, Division
    <3>5. s = SprintRange(k, c)
      BY <1>1, <2>3 DEF SprintForDate
    <3> HIDE DEF k
    <3>6. s.number = k + 1
      BY <3>5 DEF SprintRange
    <3> QED BY <3>4, <3>6
  <2> QED BY <2>1, <2>2, <2>3
<1> QED BY <1>2, <1>3 DEF SprintSortValue, s

(* The same for every key.                                                 *)
LEMMA SortValueTyped ==
  ASSUME NEW b, IsBoard(b), NEW i \in DOMAIN b.tickets, NEW key \in SortKeys
  PROVE  OverviewSortValue(b, i, key) \in Int
<1> DEFINE t == b.tickets[i]
<1>1. i \in Int /\ t.duration \in Int /\ t.start \in Days \union {NoDay} /\ t.due \in Days \union {NoDay}
      /\ IsFiniteSet(t.links)
  BY TicketsTyped
<1>2. t.start \in Int /\ t.due \in Int
  BY <1>1, SprintsAssumption DEF Days, NoDay
<1>3. Cardinality(t.links) \in Int
  BY <1>1, FS_CardinalityType
<1>4. t \in TicketRow /\ b.cadence \in StoredCadences
  BY DEF IsBoard
<1>5. SprintSortValue(TicketSprint(t, b.cadence)) \in Int
  BY <1>4, SprintTyped
<1> HIDE DEF t
<1>6. \/ key = "id" \/ key = "duration" \/ key = "startDate" \/ key = "dueDate" \/ key = "dependencies"
      \/ key = "sprint"
  BY DEF SortKeys
<1>7. OverviewSortValue(b, i, key) =
        CASE key = "id" -> i
          [] key = "duration" -> t.duration
          [] key = "startDate" -> t.start
          [] key = "dueDate" -> t.due
          [] key = "dependencies" -> Cardinality(t.links)
          [] key = "sprint" -> SprintSortValue(TicketSprint(t, b.cadence))
  BY DEF OverviewSortValue, t
<1> QED BY <1>1, <1>2, <1>3, <1>5, <1>6, <1>7

OverviewOrderPairs(b, order) ==
  {p \in (DOMAIN b.tickets) \X (DOMAIN b.tickets) : OverviewNormalCompare(b, order, p[1], p[2])}

(* The order chosen in the Overview, in either direction.                  *)
LEMMA OverviewOrder ==
  ASSUME NEW b, IsBoard(b), NEW S \in SUBSET DOMAIN b.tickets,
         NEW order \in [key : SortKeys, descending : BOOLEAN]
  PROVE  IsOrder(OverviewOrderPairs(b, order), S)
<1> DEFINE Missing(x) == /\ order.key = "startDate" => b.tickets[x].start = NoDay
                         /\ order.key = "dueDate" => b.tickets[x].due = NoDay
           Value(x) == OverviewSortValue(b, x, order.key)
           down == order.descending
           dated == order.key \in {"startDate", "dueDate"}
           late == [x \in S |-> IF dated /\ Missing(x) THEN 1 ELSE 0]
           value == [x \in S |-> IF down THEN -Value(x) ELSE Value(x)]
           F == Keyed(value, IdOrder(down, S), S)
<1>1. S \subseteq Nat /\ down \in BOOLEAN /\ dated \in BOOLEAN /\ \A x \in S : Value(x) \in Int
  <2>1. order.key \in SortKeys /\ order.descending \in BOOLEAN
    OBVIOUS
  <2> QED BY <2>1, TicketsTyped, SortValueTyped
<1>2. \A x, y \in S : <<x, y>> \in OverviewOrderPairs(b, order) <=>
        IF dated /\ Missing(x) # Missing(y) THEN Missing(y)
        ELSE IF down THEN Value(x) > Value(y) \/ (Value(x) = Value(y) /\ x > y)
                     ELSE Value(x) < Value(y) \/ (Value(x) = Value(y) /\ x < y)
  BY DEF OverviewOrderPairs, OverviewNormalCompare, ValueBefore
<1> HIDE DEF Value, down, dated
<1>3. IsOrder(F, S)
  <2>1. \A x \in S : value[x] \in Int
    BY <1>1
  <2> HIDE DEF value
  <2> QED BY <1>1, <2>1, IdsInOrder, KeyedOrder
<1>4. \A x, y \in S : <<x, y>> \in F <=>
        IF down THEN Value(x) > Value(y) \/ (Value(x) = Value(y) /\ x > y)
                ELSE Value(x) < Value(y) \/ (Value(x) = Value(y) /\ x < y)
  <2> TAKE x, y \in S
  <2>1. <<x, y>> \in F <=> value[x] < value[y] \/ (value[x] = value[y] /\ <<x, y>> \in IdOrder(down, S))
    BY DEF Keyed
  <2>2. <<x, y>> \in IdOrder(down, S) <=> IF down THEN x > y ELSE x < y
    BY DEF IdOrder
  <2>3. Value(x) \in Int /\ Value(y) \in Int /\ down \in BOOLEAN
    BY <1>1
  <2>4. CASE down
    <3>1. value[x] = -Value(x) /\ value[y] = -Value(y)
      BY <2>4
    <3>2. /\ -Value(x) < -Value(y) <=> Value(x) > Value(y)
          /\ -Value(x) = -Value(y) <=> Value(x) = Value(y)
      <4> HIDE DEF Value
      <4> QED BY <2>3
    <3> HIDE DEF value, Value
    <3> QED BY <2>1, <2>2, <2>4, <3>1, <3>2
  <2>5. CASE ~down
    BY <2>1, <2>2, <2>3, <2>5
  <2> QED BY <2>4, <2>5
<1> HIDE DEF F
<1>5. IsOrder(Keyed(late, F, S), S)
  <2>1. \A x \in S : late[x] \in Int
    OBVIOUS
  <2> HIDE DEF late
  <2> QED BY <1>3, <2>1, KeyedOrder
<1>6. \A x, y \in S : <<x, y>> \in OverviewOrderPairs(b, order) <=> <<x, y>> \in Keyed(late, F, S)
  <2> TAKE x, y \in S
  <2>1. <<x, y>> \in Keyed(late, F, S) <=> late[x] < late[y] \/ (late[x] = late[y] /\ <<x, y>> \in F)
    BY DEF Keyed
  <2>2. Missing(x) \in BOOLEAN /\ Missing(y) \in BOOLEAN
    OBVIOUS
  <2>3. late[x] = (IF dated /\ Missing(x) THEN 1 ELSE 0) /\ late[y] = (IF dated /\ Missing(y) THEN 1 ELSE 0)
    OBVIOUS
  <2> HIDE DEF late, Missing
  <2>4. CASE dated /\ Missing(x) # Missing(y)
    BY <1>2, <2>1, <2>2, <2>3, <2>4
  <2>5. CASE ~(dated /\ Missing(x) # Missing(y))
    <3>1. late[x] = late[y] /\ ~(late[x] < late[y])
      BY <1>1, <2>2, <2>3, <2>5
    <3> QED BY <1>2, <1>4, <2>1, <2>5, <3>1
  <2> QED BY <2>4, <2>5
<1> HIDE DEF late
<1> QED BY <1>5, <1>6, SameOrder

-----------------------------------------------------------------------------
(* Lists made of lists *)

(* g stands in f as it is.                                                 *)
Block(f, g) == \E o \in Nat : o + Len(g) <= Len(f) /\ \A j \in 1 .. Len(g) : f[o + j] = g[j]

(* What joining two lists keeps.                                           *)
LEMMA Joined ==
  ASSUME NEW S, NEW f \in Seq(S), NEW g \in Seq(S)
  PROVE  /\ f \o g \in Seq(S) /\ Range(f \o g) = Range(f) \union Range(g)
         /\ Block(f \o g, f) /\ Block(f \o g, g)
         /\ \A x \in Seq(S) : Block(f, x) => Block(f \o g, x)
         /\ (IsInjective(f) /\ IsInjective(g) /\ Range(f) \intersect Range(g) = {})
              => IsInjective(f \o g)
<1> DEFINE h == f \o g
<1>1. /\ h \in Seq(S) /\ Len(h) = Len(f) + Len(g) /\ Len(f) \in Nat /\ Len(g) \in Nat
      /\ DOMAIN h = 1 .. Len(h) /\ DOMAIN f = 1 .. Len(f) /\ DOMAIN g = 1 .. Len(g)
  BY ConcatProperties, LenProperties
<1>2. /\ \A i \in 1 .. Len(f) : h[i] = f[i]
      /\ \A j \in 1 .. Len(g) : h[Len(f) + j] = g[j]
  <2>1. \A i \in 1 .. Len(f) + Len(g) : h[i] = IF i <= Len(f) THEN f[i] ELSE g[i - Len(f)]
    BY ConcatProperties
  <2>2. \A i \in 1 .. Len(f) : i \in 1 .. Len(f) + Len(g) /\ i <= Len(f)
    BY <1>1
  <2>3. \A j \in 1 .. Len(g) : /\ Len(f) + j \in 1 .. Len(f) + Len(g) /\ ~(Len(f) + j <= Len(f))
                              /\ (Len(f) + j) - Len(f) = j
    BY <1>1
  <2> HIDE DEF h
  <2> QED BY <2>1, <2>2, <2>3
<1> HIDE DEF h
<1>3. \A i \in 1 .. Len(h) : i \in 1 .. Len(f) \/ \E j \in 1 .. Len(g) : i = Len(f) + j
  <2> TAKE i \in 1 .. Len(h)
  <2>1. i \in 1 .. Len(f) \/ (i - Len(f) \in 1 .. Len(g) /\ i = Len(f) + (i - Len(f)))
    BY <1>1
  <2> QED BY <2>1
<1>4. /\ \A i \in 1 .. Len(f) : i \in 1 .. Len(h)
      /\ \A j \in 1 .. Len(g) : Len(f) + j \in 1 .. Len(h)
  BY <1>1
<1>5. Range(h) = Range(f) \union Range(g)
  <2>1. \A x \in Range(h) : x \in Range(f) \union Range(g)
    <3> SUFFICES ASSUME NEW i \in 1 .. Len(h) PROVE h[i] \in Range(f) \union Range(g)
      BY <1>1 DEF Range
    <3>1. CASE i \in 1 .. Len(f)
      BY <1>1, <1>2, <3>1 DEF Range
    <3>2. CASE i \notin 1 .. Len(f)
      <4>1. PICK j \in 1 .. Len(g) : i = Len(f) + j
        BY <1>3, <3>2
      <4>2. h[i] = g[j]
        BY <1>2, <4>1
      <4> QED BY <1>1, <4>2 DEF Range
    <3> QED BY <3>1, <3>2
  <2>2. \A x \in Range(f) \union Range(g) : x \in Range(h)
    BY <1>1, <1>2, <1>4 DEF Range
  <2> QED BY <2>1, <2>2
<1>6. Block(h, f)
  <2>1. \A j \in 1 .. Len(f) : h[0 + j] = f[j]
    <3>1. \A j \in 1 .. Len(f) : 0 + j = j
      BY <1>1
    <3> QED BY <1>2, <3>1
  <2>2. 0 + Len(f) <= Len(h) /\ 0 \in Nat
    BY <1>1
  <2> QED BY <2>1, <2>2, Zenon DEF Block
<1>7. Block(h, g)
  <2>1. Len(f) + Len(g) <= Len(h)
    BY <1>1
  <2> QED BY <1>1, <1>2, <2>1 DEF Block
<1>8. ASSUME NEW x \in Seq(S), Block(f, x) PROVE Block(h, x)
  <2>1. PICK o \in Nat : o + Len(x) <= Len(f) /\ \A j \in 1 .. Len(x) : f[o + j] = x[j]
    BY <1>8 DEF Block
  <2>2. Len(x) \in Nat
    BY LenProperties
  <2>3. o + Len(x) <= Len(h)
    BY <1>1, <2>1, <2>2
  <2>4. \A j \in 1 .. Len(x) : o + j \in 1 .. Len(f)
    BY <1>1, <2>1, <2>2
  <2>5. \A j \in 1 .. Len(x) : h[o + j] = x[j]
    BY <1>2, <2>1, <2>4
  <2> QED BY <2>3, <2>5 DEF Block
<1>9. ASSUME IsInjective(f), IsInjective(g), Range(f) \intersect Range(g) = {} PROVE IsInjective(h)
  <2>1. \A i, k \in 1 .. Len(f) : h[i] = h[k] => i = k
    BY <1>1, <1>2, <1>9 DEF IsInjective
  <2>2. \A i, k \in 1 .. Len(g) : h[Len(f) + i] = h[Len(f) + k] => i = k
    <3> TAKE i, k \in 1 .. Len(g)
    <3>1. h[Len(f) + i] = g[i] /\ h[Len(f) + k] = g[k]
      BY <1>2
    <3>2. g[i] = g[k] => i = k
      BY <1>1, <1>9 DEF IsInjective
    <3> QED BY <3>1, <3>2
  <2>3. \A i \in 1 .. Len(f), k \in 1 .. Len(g) : h[i] # h[Len(f) + k]
    BY <1>1, <1>2, <1>9 DEF Range
  <2>4. \A i, k \in 1 .. Len(h) : h[i] = h[k] => i = k
    <3> SUFFICES ASSUME NEW i \in 1 .. Len(h), NEW k \in 1 .. Len(h), h[i] = h[k] PROVE i = k
      OBVIOUS
    <3>1. CASE i \in 1 .. Len(f) /\ k \in 1 .. Len(f)
      BY <2>1, <3>1
    <3>2. CASE i \notin 1 .. Len(f) /\ k \notin 1 .. Len(f)
      BY <1>3, <2>2, <3>2
    <3>3. CASE i \in 1 .. Len(f) /\ k \notin 1 .. Len(f)
      BY <1>3, <2>3, <3>3
    <3>4. CASE i \notin 1 .. Len(f) /\ k \in 1 .. Len(f)
      BY <1>3, <2>3, <3>4
    <3> QED BY <3>1, <3>2, <3>3, <3>4
  <2> QED BY <1>1, <2>4 DEF IsInjective
<1> QED BY <1>1, <1>5, <1>6, <1>7, <1>8, <1>9 DEF h

(* Joining one list after the other.                                       *)
LEMMA FlattenMet ==
  ASSUME NEW S, NEW s \in Seq(Seq(S)), s # <<>>
  PROVE  \E f \in [1 .. Len(s) -> Seq(S)] :
           /\ FlattenSeq(s) = f[Len(s)] /\ f[1] = s[1]
           /\ \A i \in 2 .. Len(s) : f[i] = f[i - 1] \o s[i]
<1> DEFINE N == Len(s)
           U == (1 .. N) \X Seq(S)
           start == <<1, s[1]>>
           F == [u \in U |-> IF u[1] < N THEN <<u[1] + 1, u[2] \o s[u[1] + 1]>> ELSE u]
           Joins(h) == h = [i \in 1 .. N |-> IF i = 1 THEN s[i] ELSE h[i - 1] \o s[i]]
           flatten == CHOOSE h : Joins(h)
<1>1. N \in Nat \ {0} /\ \A i \in 1 .. N : s[i] \in Seq(S)
  BY EmptySeq, LenProperties
<1>2. start \in U
  BY <1>1
<1>3. F \in [U -> U]
  <2>1. \A u \in U : u[1] \in 1 .. N /\ u[2] \in Seq(S)
    OBVIOUS
  <2>2. ASSUME NEW u \in U, u[1] < N PROVE <<u[1] + 1, u[2] \o s[u[1] + 1]>> \in U
    <3>1. u[1] \in 1 .. N /\ u[2] \in Seq(S)
      OBVIOUS
    <3>2. u[1] + 1 \in 1 .. N
      BY <1>1, <2>2, <3>1
    <3>3. u[2] \o s[u[1] + 1] \in Seq(S)
      BY <1>1, <3>1, <3>2, ConcatProperties
    <3> QED BY <3>2, <3>3
  <2> HIDE DEF U
  <2> QED BY <2>2
<1>4. PICK g \in [0 .. (N - 1) -> U] : g[0] = start /\ \A n \in 1 .. (N - 1) : g[n] = F[g[n - 1]]
  <2> DEFINE K == N - 1
  <2>1. K \in Nat
    BY <1>1
  <2> HIDE DEF K, U, F, start
  <2>2. Repetitions(K, U, start, F) # {}
    BY <1>2, <1>3, <2>1, Repeated
  <2>3. PICK g \in Repetitions(K, U, start, F) : TRUE
    BY <2>2
  <2>4. g \in [0 .. K -> U] /\ g[0] = start /\ \A n \in 1 .. K : g[n] = F[g[n - 1]]
    BY <2>3 DEF Repetitions
  <2> QED BY <2>4 DEF K
<1> HIDE DEF N
<1>5. \A n \in 0 .. (N - 1) : g[n][1] = n + 1
  <2> DEFINE bad == {n \in 0 .. (N - 1) : g[n][1] # n + 1}
  <2> SUFFICES ASSUME bad # {} PROVE FALSE
    OBVIOUS
  <2>1. PICK n \in bad : \A m \in bad : n <= m
    <3>1. bad \in SUBSET Nat
      BY <1>1
    <3> HIDE DEF bad
    <3> QED BY <3>1, LeastNumber
  <2>2. n \in 0 .. (N - 1) /\ g[n][1] # n + 1
    OBVIOUS
  <2>3. n # 0
    BY <1>4, <2>2
  <2>4. n \in 1 .. (N - 1) /\ n - 1 \in 0 .. (N - 1) /\ ~(n <= n - 1) /\ (n - 1) + 1 = n /\ n < N
    BY <1>1, <2>2, <2>3
  <2>5. g[n - 1][1] = n
    <3>1. n - 1 \notin bad
      <4> HIDE DEF bad
      <4> QED BY <2>1, <2>4
    <3> QED BY <2>4, <3>1
  <2>6. g[n] = F[g[n - 1]] /\ g[n - 1] \in U
    <3> HIDE DEF F, U
    <3> QED BY <1>4, <2>4
  <2>7. g[n][1] = n + 1
    BY <2>4, <2>5, <2>6
  <2> QED BY <2>2, <2>7
<1> DEFINE f == [i \in 1 .. N |-> g[i - 1][2]]
<1>6. f \in [1 .. N -> Seq(S)]
  <2>1. \A i \in 1 .. N : i - 1 \in 0 .. (N - 1)
    BY <1>1
  <2>2. \A n \in 0 .. (N - 1) : g[n][2] \in Seq(S)
    <3>1. \A u \in U : u[2] \in Seq(S)
      OBVIOUS
    <3> HIDE DEF U
    <3> QED BY <1>4, <3>1
  <2> QED BY <2>1, <2>2
<1>7. f[1] = s[1]
  <2>1. 1 \in 1 .. N /\ 1 - 1 = 0
    BY <1>1
  <2>2. g[0][2] = s[1]
    BY <1>4
  <2> QED BY <2>1, <2>2
<1>8. \A i \in 2 .. N : f[i] = f[i - 1] \o s[i]
  <2> TAKE i \in 2 .. N
  <2> DEFINE n == i - 1
  <2>1. n \in 1 .. (N - 1) /\ n - 1 \in 0 .. (N - 1) /\ i \in 1 .. N /\ i - 1 \in 1 .. N
        /\ (n - 1) + 1 = n /\ n + 1 = i /\ n < N
    BY <1>1
  <2>2. g[n] = F[g[n - 1]] /\ g[n - 1] \in U
    <3> HIDE DEF F, U, n
    <3> QED BY <1>4, <2>1
  <2>3. g[n - 1][1] = n
    <3> HIDE DEF n
    <3> QED BY <1>5, <2>1
  <2> HIDE DEF n
  <2>4. g[n] = <<n + 1, g[n - 1][2] \o s[n + 1]>>
    BY <2>1, <2>2, <2>3
  <2>4a. g[n][2] = g[n - 1][2] \o s[n + 1]
    <3> DEFINE v == n + 1
               w == g[n - 1][2] \o s[n + 1]
    <3>1. g[n] = <<v, w>>
      BY <2>4
    <3> HIDE DEF v, w
    <3>2. g[n][2] = w
      BY <3>1
    <3> QED BY <3>2 DEF w
  <2>4b. n + 1 = i
    BY <2>1
  <2>5. g[n][2] = g[n - 1][2] \o s[i]
    BY <2>4a, <2>4b
  <2>6. f[i] = g[n][2] /\ f[i - 1] = g[n - 1][2]
    BY <2>1 DEF n
  <2> QED BY <2>5, <2>6
<1> HIDE DEF f
<1>9. Joins(f)
  <2>1. f = [i \in 1 .. N |-> f[i]]
    BY <1>6
  <2>2. \A i \in 1 .. N : f[i] = IF i = 1 THEN s[i] ELSE f[i - 1] \o s[i]
    <3>1. \A i \in 1 .. N : i = 1 \/ i \in 2 .. N
      BY <1>1
    <3> QED BY <1>7, <1>8, <3>1
  <2> QED BY <2>1, <2>2
<1>10. Joins(flatten)
  <2> HIDE DEF Joins
  <2> QED BY <1>9
<1>11. FlattenSeq(s) = flatten[N]
  BY <1>1 DEF FlattenSeq, N
<1> HIDE DEF flatten
<1>12. /\ flatten[1] = s[1] /\ \A i \in 2 .. N : flatten[i] = flatten[i - 1] \o s[i]
  <2>1. 1 \in 1 .. N /\ \A i \in 2 .. N : i \in 1 .. N /\ i # 1
    BY <1>1
  <2> QED BY <1>10, <2>1
<1>13. \A i \in 1 .. N : flatten[i] = f[i]
  <2> DEFINE bad == {i \in 1 .. N : flatten[i] # f[i]}
  <2> SUFFICES ASSUME bad # {} PROVE FALSE
    OBVIOUS
  <2>1. PICK i \in bad : \A m \in bad : i <= m
    <3>1. bad \in SUBSET Nat
      BY <1>1
    <3> HIDE DEF bad
    <3> QED BY <3>1, LeastNumber
  <2>2. i \in 1 .. N /\ flatten[i] # f[i]
    OBVIOUS
  <2>3. i # 1
    BY <1>7, <1>12, <2>2
  <2>4. i \in 2 .. N /\ i - 1 \in 1 .. N /\ ~(i <= i - 1)
    BY <1>1, <2>2, <2>3
  <2>5. flatten[i - 1] = f[i - 1]
    BY <2>1, <2>4
  <2> HIDE DEF bad
  <2> QED BY <1>8, <1>12, <2>2, <2>4, <2>5
<1>14. N \in 1 .. N
  BY <1>1
<1>15. FlattenSeq(s) = f[N]
  BY <1>11, <1>13, <1>14
<1> QED BY <1>6, <1>7, <1>8, <1>15 DEF N

(* The lists stand in it one after the other.                              *)
LEMMA Flattened ==
  ASSUME NEW S, NEW s \in Seq(Seq(S))
  PROVE  /\ FlattenSeq(s) \in Seq(S)
         /\ Range(FlattenSeq(s)) = UNION {Range(s[k]) : k \in DOMAIN s}
         /\ \A k \in DOMAIN s : Block(FlattenSeq(s), s[k])
         /\ (/\ \A k \in DOMAIN s : IsInjective(s[k])
             /\ \A j, k \in DOMAIN s : j # k => Range(s[j]) \intersect Range(s[k]) = {})
              => IsInjective(FlattenSeq(s))
<1> DEFINE N == Len(s)
           apart == /\ \A k \in 1 .. N : IsInjective(s[k])
                    /\ \A j, k \in 1 .. N : j # k => Range(s[j]) \intersect Range(s[k]) = {}
<1>1. DOMAIN s = 1 .. N /\ N \in Nat /\ \A k \in 1 .. N : s[k] \in Seq(S)
  BY LenProperties
<1>2. CASE s = <<>>
  <2>1. FlattenSeq(s) = <<>> /\ DOMAIN s = {}
    BY <1>2, EmptySeq DEF FlattenSeq
  <2>2. <<>> \in Seq(S) /\ DOMAIN <<>> = {}
    BY EmptySeq
  <2> QED BY <2>1, <2>2 DEF Range, IsInjective
<1>3. CASE s # <<>>
  <2>1. N \in Nat \ {0}
    BY <1>3, EmptySeq, LenProperties
  <2>2. PICK f \in [1 .. N -> Seq(S)] :
           /\ FlattenSeq(s) = f[N] /\ f[1] = s[1]
           /\ \A i \in 2 .. N : f[i] = f[i - 1] \o s[i]
    BY <1>3, FlattenMet
  <2> HIDE DEF N
  <2> DEFINE P(i) == /\ Range(f[i]) = UNION {Range(s[k]) : k \in 1 .. i}
                     /\ \A k \in 1 .. i : Block(f[i], s[k])
                     /\ apart => IsInjective(f[i])
             bad == {i \in 1 .. N : ~P(i)}
  <2>3. bad = {}
    <3> SUFFICES ASSUME bad # {} PROVE FALSE
      OBVIOUS
    <3>1. PICK i \in bad : \A m \in bad : i <= m
      <4>1. bad \in SUBSET Nat
        BY <2>1
      <4> HIDE DEF bad
      <4> QED BY <4>1, LeastNumber
    <3>2. i \in 1 .. N /\ ~P(i)
      OBVIOUS
    <3>3. CASE i = 1
      <4>1. f[i] = s[1] /\ 1 .. i = {1} /\ 1 \in 1 .. N /\ s[1] \in Seq(S)
        BY <1>1, <2>1, <2>2, <3>3
      <4>2. Block(s[1], s[1])
        <5>1. Len(s[1]) \in Nat
          BY <4>1, LenProperties
        <5>2. 0 + Len(s[1]) <= Len(s[1]) /\ \A j \in 1 .. Len(s[1]) : 0 + j = j
          BY <5>1
        <5> QED BY <5>2 DEF Block
      <4>3. P(i)
        BY <4>1, <4>2
      <4> QED BY <3>2, <4>3
    <3>4. CASE i # 1
      <4>0. i \in 2 .. N /\ i - 1 \in 1 .. N /\ ~(i <= i - 1)
            /\ \A k \in 1 .. (i - 1) : k # i /\ k \in 1 .. N
        <5> HIDE DEF P
        <5> QED BY <2>1, <3>2, <3>4
      <4>0a. 1 .. i = 1 .. (i - 1) \union {i}
        BY <4>0
      <4>1. i \in 2 .. N /\ i - 1 \in 1 .. N /\ ~(i <= i - 1) /\ 1 .. i = 1 .. (i - 1) \union {i}
            /\ \A k \in 1 .. (i - 1) : k # i /\ k \in 1 .. N
        BY <4>0, <4>0a
      <4>2. P(i - 1)
        BY <3>1, <4>1
      <4>3. f[i] = f[i - 1] \o s[i] /\ f[i - 1] \in Seq(S) /\ s[i] \in Seq(S)
        BY <1>1, <2>2, <4>1
      <4>4. /\ Range(f[i]) = Range(f[i - 1]) \union Range(s[i])
            /\ Block(f[i], s[i])
            /\ \A x \in Seq(S) : Block(f[i - 1], x) => Block(f[i], x)
            /\ (IsInjective(f[i - 1]) /\ IsInjective(s[i]) /\ Range(f[i - 1]) \intersect Range(s[i]) = {})
                 => IsInjective(f[i])
        BY SMTT(30), <4>3, Joined
      <4>5. Range(f[i]) = UNION {Range(s[k]) : k \in 1 .. i}
        BY SMTT(30), <4>1, <4>2, <4>4
      <4>6. \A k \in 1 .. i : Block(f[i], s[k])
        <5>1. \A k \in 1 .. (i - 1) : s[k] \in Seq(S) /\ Block(f[i - 1], s[k])
          BY <1>1, <4>1, <4>2
        <5> QED BY <4>1, <4>4, <5>1
      <4>7. apart => IsInjective(f[i])
        <5> SUFFICES ASSUME apart PROVE IsInjective(f[i])
          OBVIOUS
        <5>1. IsInjective(f[i - 1]) /\ IsInjective(s[i])
          BY <3>2, <4>2
        <5>2. Range(f[i - 1]) \intersect Range(s[i]) = {}
          <6>1. \A k \in 1 .. (i - 1) : Range(s[k]) \intersect Range(s[i]) = {}
            BY <3>2, <4>1
          <6> QED BY <4>2, <6>1
        <5> QED BY <4>4, <5>1, <5>2
      <4> QED BY <3>2, <4>5, <4>6, <4>7
    <3> QED BY <3>3, <3>4
  <2>4. N \in 1 .. N
    BY <2>1
  <2>5. P(N)
    BY <2>3, <2>4
  <2>6. FlattenSeq(s) \in Seq(S)
    BY <2>2, <2>4
  <2> QED BY <1>1, <2>2, <2>5, <2>6
<1> QED BY <1>2, <1>3

-----------------------------------------------------------------------------
(* Groups of rows *)

(* The place of an element.                                                *)
LEMMA PlaceIs ==
  ASSUME NEW S, NEW s \in Seq(S), IsInjective(s), NEW k \in DOMAIN s
  PROVE  Place(s, s[k]) = k
<1>1. \A j \in DOMAIN s : s[j] = s[k] => j = k
  BY DEF IsInjective
<1>2. Place(s, s[k]) = CHOOSE j \in DOMAIN s : s[j] = s[k]
  BY DEF Place
<1> QED BY <1>1, <1>2

(* Where a part stands.                                                    *)
LEMMA BlockPlaces ==
  ASSUME NEW S, NEW f \in Seq(S), NEW g \in Seq(S), Block(f, g)
  PROVE  \E o \in Nat : \A j \in DOMAIN g : o + j \in DOMAIN f /\ f[o + j] = g[j]
<1>1. PICK o \in Nat : o + Len(g) <= Len(f) /\ \A j \in 1 .. Len(g) : f[o + j] = g[j]
  BY DEF Block
<1>2. DOMAIN g = 1 .. Len(g) /\ Len(g) \in Nat /\ DOMAIN f = 1 .. Len(f) /\ Len(f) \in Nat
  BY LenProperties
<1>3. \A j \in 1 .. Len(g) : o + j \in 1 .. Len(f)
  BY <1>1, <1>2
<1> QED BY <1>1, <1>2, <1>3

(* The elements of a part keep their order.                                *)
LEMMA BlockOrder ==
  ASSUME NEW S, NEW f \in Seq(S), NEW g \in Seq(S), Block(f, g), IsInjective(f),
         NEW j \in DOMAIN f, NEW k \in DOMAIN f, j < k, f[j] \in Range(g), f[k] \in Range(g)
  PROVE  \E m, n \in DOMAIN g : m < n /\ g[m] = f[j] /\ g[n] = f[k]
<1>1. PICK o \in Nat : \A m \in DOMAIN g : o + m \in DOMAIN f /\ f[o + m] = g[m]
  BY BlockPlaces
<1>2. PICK m \in DOMAIN g, n \in DOMAIN g : g[m] = f[j] /\ g[n] = f[k]
  BY DEF Range
<1>3. o + m = j /\ o + n = k
  BY <1>1, <1>2 DEF IsInjective
<1>4. m \in Nat /\ n \in Nat
  BY LenProperties
<1>5. m < n
  BY <1>3, <1>4
<1> QED BY <1>2, <1>5

(* Parts of parts are parts.                                               *)
LEMMA BlocksNest ==
  ASSUME NEW S, NEW f \in Seq(S), NEW g \in Seq(S), NEW h \in Seq(S), Block(f, g), Block(g, h)
  PROVE  Block(f, h)
<1>1. PICK o \in Nat : o + Len(g) <= Len(f) /\ \A j \in 1 .. Len(g) : f[o + j] = g[j]
  BY DEF Block
<1>2. PICK q \in Nat : q + Len(h) <= Len(g) /\ \A j \in 1 .. Len(h) : g[q + j] = h[j]
  BY DEF Block
<1>3. Len(f) \in Nat /\ Len(g) \in Nat /\ Len(h) \in Nat
  BY LenProperties
<1>4. o + q \in Nat /\ (o + q) + Len(h) <= Len(f)
  BY <1>1, <1>2, <1>3
<1>5. \A j \in 1 .. Len(h) : f[(o + q) + j] = h[j]
  <2> TAKE j \in 1 .. Len(h)
  <2>1. q + j \in 1 .. Len(g) /\ o + (q + j) = (o + q) + j
    BY <1>2, <1>3
  <2> QED BY <1>1, <1>2, <2>1
<1> QED BY <1>4, <1>5 DEF Block

(* Rows made of heads, each followed by its members, and a tail: E gives   *)
(* the head of a member, and 0 for the tail.                               *)
Grouping(S, heads, members, tail, E) ==
  /\ heads \in Seq(S) /\ IsInjective(heads)
  /\ tail \in Seq(S) /\ IsInjective(tail) /\ \A x \in Range(tail) : E[x] = 0
  /\ members \in [Range(heads) -> Seq(S)]
  /\ \A e \in Range(heads) : e # 0 /\ E[e] = e /\ IsInjective(members[e])
  /\ \A e \in Range(heads) : \A x \in Range(members[e]) : E[x] = e /\ x # e

HeadedGroup(members, e) == <<e>> \o members[e]

GroupRows(heads, members, tail) ==
  FlattenSeq([k \in DOMAIN heads |-> HeadedGroup(members, heads[k])]) \o tail

(* The rows of such groups: each element once, each group in one piece.    *)
LEMMA GroupsGrouped ==
  ASSUME NEW S, NEW heads, NEW members, NEW tail, NEW E, Grouping(S, heads, members, tail, E),
         NEW rows, rows = GroupRows(heads, members, tail)
  PROVE  /\ rows \in Seq(S) /\ IsInjective(rows)
         /\ Range(rows) = Range(heads) \union Range(tail) \union UNION {Range(members[e]) : e \in Range(heads)}
         /\ Block(rows, tail)
         /\ \A e \in Range(heads) : Block(rows, HeadedGroup(members, e))
<1> DEFINE group == [k \in DOMAIN heads |-> HeadedGroup(members, heads[k])]
<1>1. /\ heads \in Seq(S) /\ DOMAIN heads = 1 .. Len(heads) /\ Len(heads) \in Nat
      /\ \A k \in DOMAIN heads : heads[k] \in S /\ heads[k] \in Range(heads)
      /\ \A e \in Range(heads) : \E k \in DOMAIN heads : e = heads[k]
  BY LenProperties, ElementOfSeq DEF Grouping, Range
<1>2. ASSUME NEW e \in Range(heads)
      PROVE  /\ HeadedGroup(members, e) \in Seq(S) /\ IsInjective(HeadedGroup(members, e))
             /\ Range(HeadedGroup(members, e)) = {e} \union Range(members[e])
             /\ \A x \in Range(HeadedGroup(members, e)) : E[x] = e
  <2>1. e \in S /\ members[e] \in Seq(S)
    BY <1>1 DEF Grouping
  <2>2. <<e>> \in Seq(S) /\ Range(<<e>>) = {e} /\ IsInjective(<<e>>)
    BY <2>1 DEF Range, IsInjective
  <2>3. IsInjective(members[e]) /\ e \notin Range(members[e]) /\ E[e] = e
        /\ \A x \in Range(members[e]) : E[x] = e
    BY DEF Grouping
  <2> DEFINE f == <<e>>
             g == members[e]
  <2>4. f \in Seq(S) /\ g \in Seq(S) /\ Range(f) = {e} /\ IsInjective(f) /\ IsInjective(g)
        /\ Range(f) \intersect Range(g) = {}
    BY <2>1, <2>2, <2>3
  <2>5. HeadedGroup(members, e) = f \o g
    BY DEF HeadedGroup
  <2> HIDE DEF f, g
  <2>6. f \o g \in Seq(S) /\ IsInjective(f \o g) /\ Range(f \o g) = Range(f) \union Range(g)
    BY <2>4, Joined
  <2>7. Range(HeadedGroup(members, e)) = {e} \union Range(members[e])
    BY <2>4, <2>5, <2>6 DEF g
  <2> QED BY <2>3, <2>5, <2>6, <2>7
<1>3. group \in Seq(Seq(S)) /\ DOMAIN group = DOMAIN heads
  <2>1. \A k \in 1 .. Len(heads) : HeadedGroup(members, heads[k]) \in Seq(S)
    BY <1>1, <1>2
  <2>2. group = [k \in 1 .. Len(heads) |-> HeadedGroup(members, heads[k])]
    BY <1>1
  <2> QED BY <1>1, <2>1, <2>2, SeqDef
<1>4. \A k \in DOMAIN heads : group[k] = HeadedGroup(members, heads[k])
  OBVIOUS
<1> HIDE DEF group
<1>5. \A k \in DOMAIN group : IsInjective(group[k])
  <2> TAKE k \in DOMAIN group
  <2>1. k \in DOMAIN heads /\ heads[k] \in Range(heads) /\ group[k] = HeadedGroup(members, heads[k])
    BY <1>1, <1>3, <1>4
  <2> QED BY <1>2, <2>1
<1>6. \A j, k \in DOMAIN group : j # k => Range(group[j]) \intersect Range(group[k]) = {}
  <2> SUFFICES ASSUME NEW j \in DOMAIN group, NEW k \in DOMAIN group, j # k,
                      NEW x, x \in Range(group[j]), x \in Range(group[k]) PROVE FALSE
    OBVIOUS
  <2>1. E[x] = heads[j] /\ E[x] = heads[k]
    <3>1. \A n \in DOMAIN group :
            n \in DOMAIN heads /\ heads[n] \in Range(heads) /\ group[n] = HeadedGroup(members, heads[n])
      BY <1>1, <1>3, <1>4
    <3> QED BY <1>2, <3>1
  <2> QED BY <1>3, <2>1 DEF Grouping, IsInjective
<1>7. /\ FlattenSeq(group) \in Seq(S)
      /\ Range(FlattenSeq(group)) = UNION {Range(group[k]) : k \in DOMAIN group}
      /\ \A k \in DOMAIN group : Block(FlattenSeq(group), group[k])
      /\ IsInjective(FlattenSeq(group))
  BY <1>3, <1>5, <1>6, Flattened
<1>8. tail \in Seq(S) /\ IsInjective(tail) /\ Range(FlattenSeq(group)) \intersect Range(tail) = {}
  <2>1. \A x \in Range(FlattenSeq(group)) : \E k \in DOMAIN heads : E[x] = heads[k]
    <3> TAKE x \in Range(FlattenSeq(group))
    <3>1. PICK k \in DOMAIN group : x \in Range(group[k])
      BY <1>7
    <3>2. k \in DOMAIN heads /\ heads[k] \in Range(heads) /\ group[k] = HeadedGroup(members, heads[k])
      BY <1>1, <1>3, <1>4
    <3> QED BY <1>2, <3>1, <3>2
  <2>2. \A k \in DOMAIN heads : heads[k] # 0
    BY <1>1 DEF Grouping
  <2> QED BY <2>1, <2>2 DEF Grouping
<1>9. rows = FlattenSeq(group) \o tail
  BY DEF group, GroupRows
<1> DEFINE front == FlattenSeq(group)
<1> HIDE DEF front
<1>9a. front \in Seq(S) /\ IsInjective(front) /\ Range(front) \intersect Range(tail) = {} /\ rows = front \o tail
  BY <1>7, <1>8, <1>9 DEF front
<1>10. /\ rows \in Seq(S) /\ IsInjective(rows) /\ Block(rows, tail)
       /\ Range(rows) = Range(FlattenSeq(group)) \union Range(tail)
       /\ \A x \in Seq(S) : Block(FlattenSeq(group), x) => Block(rows, x)
  <2>1. tail \in Seq(S) /\ IsInjective(tail)
    BY DEF Grouping
  <2> QED BY <1>9a, <2>1, Joined DEF front
<1>11. \A e \in Range(heads) : Block(rows, HeadedGroup(members, e))
  <2> TAKE e \in Range(heads)
  <2>1. PICK k \in DOMAIN heads : e = heads[k]
    BY <1>1
  <2>2. Block(FlattenSeq(group), HeadedGroup(members, e))
    BY <1>3, <1>4, <1>7, <2>1
  <2> QED BY <1>2, <1>10, <2>2
<1>12. Range(FlattenSeq(group)) = Range(heads) \union UNION {Range(members[e]) : e \in Range(heads)}
  <2>1. \A k \in DOMAIN heads : Range(group[k]) = {heads[k]} \union Range(members[heads[k]])
    BY <1>1, <1>2, <1>4
  <2> QED BY <1>1, <1>3, <1>7, <2>1
<1> QED BY <1>10, <1>11, <1>12

(* A member stands below its head, and no other head comes in between.     *)
LEMMA MembersFollow ==
  ASSUME NEW S, NEW heads, NEW members, NEW tail, NEW E, Grouping(S, heads, members, tail, E),
         NEW rows, rows = GroupRows(heads, members, tail),
         NEW x \in Range(rows), E[x] # 0, E[x] # x
  PROVE  /\ E[x] \in Range(heads) /\ x \in Range(members[E[x]])
         /\ E[x] \in Range(rows) /\ Place(rows, E[x]) < Place(rows, x)
         /\ \A e \in Range(rows) :
              E[e] = e => ~(Place(rows, E[x]) < Place(rows, e) /\ Place(rows, e) < Place(rows, x))
<1> DEFINE h == E[x]
           g == <<h>> \o members[h]
<1>1. /\ rows \in Seq(S) /\ IsInjective(rows)
      /\ Range(rows) = Range(heads) \union Range(tail) \union UNION {Range(members[e]) : e \in Range(heads)}
      /\ \A e \in Range(heads) : Block(rows, HeadedGroup(members, e))
  BY GroupsGrouped
<1>2. h \in Range(heads) /\ x \in Range(members[h])
  <2>1. x \notin Range(tail) /\ x \notin Range(heads)
    BY DEF Grouping
  <2>2. PICK e \in Range(heads) : x \in Range(members[e])
    BY <1>1, <2>1
  <2> QED BY <2>2 DEF Grouping
<1>3. h \in S /\ members[h] \in Seq(S)
  <2>1. \A s \in Seq(S) : Range(s) \subseteq S
    <3> TAKE s \in Seq(S)
    <3>1. \A k \in DOMAIN s : s[k] \in S
      BY LenProperties, ElementOfSeq
    <3> QED BY <3>1 DEF Range
  <2> QED BY <1>2, <2>1 DEF Grouping
<1>4. <<h>> \in Seq(S) /\ Len(<<h>>) = 1 /\ <<h>>[1] = h
  BY <1>3
<1>5. /\ g \in Seq(S) /\ Len(members[h]) \in Nat /\ Len(g) = 1 + Len(members[h])
      /\ DOMAIN g = 1 .. Len(g) /\ DOMAIN members[h] = 1 .. Len(members[h])
      /\ g[1] = h /\ \A j \in 2 .. Len(g) : g[j] = members[h][j - 1]
  <2>1. /\ g \in Seq(S) /\ Len(g) = Len(<<h>>) + Len(members[h])
        /\ \A i \in 1 .. Len(<<h>>) + Len(members[h]) :
             g[i] = IF i <= Len(<<h>>) THEN <<h>>[i] ELSE members[h][i - Len(<<h>>)]
    BY <1>3, <1>4, ConcatProperties
  <2>2. Len(members[h]) \in Nat /\ DOMAIN members[h] = 1 .. Len(members[h])
    BY <1>3, LenProperties
  <2>3. DOMAIN g = 1 .. Len(g)
    BY <2>1, LenProperties
  <2> HIDE DEF g, h
  <2>4. 1 \in 1 .. 1 + Len(members[h]) /\ \A j \in 2 .. 1 + Len(members[h]) :
          j \in 1 .. 1 + Len(members[h]) /\ ~(j <= 1)
    BY <2>2
  <2> QED BY <1>4, <2>1, <2>2, <2>3, <2>4
<1> HIDE DEF g, h
<1>6. PICK o \in Nat : \A j \in DOMAIN g : o + j \in DOMAIN rows /\ rows[o + j] = g[j]
  <2>1. Block(rows, g)
    BY <1>1, <1>2 DEF g, HeadedGroup
  <2> QED BY <1>1, <1>5, <2>1, BlockPlaces
<1>7. PICK m \in DOMAIN members[h] : members[h][m] = x
  BY <1>2 DEF Range
<1>8. m \in Nat \ {0} /\ m + 1 \in DOMAIN g /\ g[m + 1] = x /\ 1 \in DOMAIN g
  <2>1. m \in Nat \ {0} /\ m + 1 \in 2 .. Len(g) /\ (m + 1) - 1 = m /\ m + 1 \in 1 .. Len(g) /\ 1 \in 1 .. Len(g)
    BY <1>5, <1>7
  <2> QED BY <1>5, <1>7, <2>1
<1>9. Place(rows, h) = o + 1 /\ Place(rows, x) = o + (m + 1) /\ h \in Range(rows)
  <2>1. o + 1 \in DOMAIN rows /\ rows[o + 1] = h /\ o + (m + 1) \in DOMAIN rows /\ rows[o + (m + 1)] = x
    BY <1>5, <1>6, <1>8
  <2> QED BY <1>1, <2>1, PlaceIs DEF Range
<1>10. Place(rows, h) < Place(rows, x)
  BY <1>8, <1>9
<1>11. ASSUME NEW e \in Range(rows), E[e] = e, Place(rows, h) < Place(rows, e), Place(rows, e) < Place(rows, x)
       PROVE FALSE
  <2>1. PICK k \in DOMAIN rows : rows[k] = e
    BY DEF Range
  <2>2. Place(rows, e) = k /\ k \in Nat
    <3>1. k \in Nat
      BY <1>1, LenProperties
    <3> QED BY <1>1, <2>1, <3>1, PlaceIs
  <2> DEFINE j == k - o
  <2>3. j \in 2 .. m /\ o + j = k
    BY <1>8, <1>9, <1>11, <2>2
  <2>4. j \in 2 .. Len(g) /\ j \in DOMAIN g /\ j - 1 \in DOMAIN members[h]
    BY <1>5, <1>8, <2>3
  <2> HIDE DEF j
  <2>5. e = members[h][j - 1]
    BY <1>5, <1>6, <2>1, <2>3, <2>4
  <2>6. e \in Range(members[h])
    BY <2>4, <2>5 DEF Range
  <2> QED BY <1>2, <1>11, <2>6 DEF Grouping
<1> QED BY <1>2, <1>9, <1>10, <1>11 DEF h

(* Two members of one group stand in its order, two rows of the tail in    *)
(* that of the tail.                                                       *)
LEMMA MembersInOrder ==
  ASSUME NEW S, NEW heads, NEW members, NEW tail, NEW E, Grouping(S, heads, members, tail, E),
         NEW rows, rows = GroupRows(heads, members, tail),
         NEW j \in DOMAIN rows, NEW k \in DOMAIN rows, j < k,
         NEW e, E[rows[j]] = e, E[rows[k]] = e, rows[j] # e, rows[k] # e
  PROVE  LET part == IF e = 0 THEN tail ELSE members[e]
         IN /\ e # 0 => e \in Range(heads)
            /\ \E m, n \in DOMAIN part : m < n /\ part[m] = rows[j] /\ part[n] = rows[k]
<1> DEFINE part == IF e = 0 THEN tail ELSE members[e]
<1>1. /\ rows \in Seq(S) /\ IsInjective(rows)
      /\ Range(rows) = Range(heads) \union Range(tail) \union UNION {Range(members[f]) : f \in Range(heads)}
      /\ \A f \in Range(heads) : Block(rows, HeadedGroup(members, f))
      /\ Block(rows, tail)
  BY GroupsGrouped
<1> HIDE DEF part
<1>2. rows[j] \in Range(rows) /\ rows[k] \in Range(rows)
  BY DEF Range
<1>3. CASE e = 0
  <2>1. rows[j] \in Range(tail) /\ rows[k] \in Range(tail)
    BY <1>1, <1>2, <1>3 DEF Grouping
  <2>2. tail \in Seq(S)
    BY DEF Grouping
  <2>3. \E m, n \in DOMAIN tail : m < n /\ tail[m] = rows[j] /\ tail[n] = rows[k]
    BY <1>1, <2>1, <2>2, BlockOrder
  <2> QED BY <1>3, <2>3 DEF part
<1>4. CASE e # 0
  <2>1. e \in Range(heads) /\ rows[j] \in Range(members[e]) /\ rows[k] \in Range(members[e])
    BY <1>2, <1>4, MembersFollow
  <2>2. e \in S /\ members[e] \in Seq(S)
    <3>1. \A i \in DOMAIN heads : heads[i] \in S
      BY LenProperties, ElementOfSeq DEF Grouping
    <3> QED BY <2>1, <3>1 DEF Grouping, Range
  <2>3. Block(rows, members[e])
    <3>1. Block(rows, HeadedGroup(members, e))
      BY <1>1, <2>1
    <3> DEFINE f == <<e>>
    <3>2. f \in Seq(S) /\ HeadedGroup(members, e) = f \o members[e]
      BY <2>2 DEF HeadedGroup
    <3> HIDE DEF f
    <3>3. HeadedGroup(members, e) \in Seq(S) /\ Block(HeadedGroup(members, e), members[e])
      BY <2>2, <3>2, Joined
    <3> QED BY <1>1, <2>2, <3>1, <3>3, BlocksNest
  <2>4. \E m, n \in DOMAIN members[e] : m < n /\ members[e][m] = rows[j] /\ members[e][n] = rows[k]
    BY <1>1, <2>1, <2>2, <2>3, BlockOrder
  <2> QED BY <1>4, <2>1, <2>4 DEF part
<1> QED BY <1>3, <1>4 DEF part

-----------------------------------------------------------------------------
(* The way up *)


(* The Epic that n steps up lead to, 0 when there is none or it is further *)
(* away.                                                                   *)
IsClimb(b, c) ==
  /\ \A x \in DOMAIN b.tickets : c[0][x] = 0
  /\ \A n \in 1 .. Size(b) : \A x \in DOMAIN b.tickets :
       c[n][x] = LET p == b.tickets[x].parent
                 IN IF p = 0 \/ p \notin WorkTickets(b) THEN 0
                    ELSE IF IsEpic(b, p) THEN p ELSE c[n - 1][p]
  /\ \A i \in DOMAIN b.tickets : ~IsEpic(b, i) => TopEpicFor(b, i) = c[Size(b)][i]
  /\ \A n \in 1 .. Size(b) : \A x \in DOMAIN b.tickets : c[n - 1][x] # 0 => c[n][x] = c[n - 1][x]

(* A board with a ticket has a size.                                       *)
LEMMA SizePositive ==
  ASSUME NEW b, IsBoard(b), NEW i \in DOMAIN b.tickets PROVE Size(b) \in Nat \ {0}
<1>1. IsFiniteSet(DOMAIN b.tickets) /\ DOMAIN b.tickets # {}
  BY DEF IsBoard
<1> QED BY <1>1, FS_CardinalityType, FS_EmptySet DEF Size

(* TopEpicFor climbs that way, and its result does not change once it is   *)
(* found.                                                                  *)
LEMMA ClimbIs ==
  ASSUME NEW b, IsBoard(b), NEW i0 \in DOMAIN b.tickets, ~IsEpic(b, i0)
  PROVE  \E c : IsClimb(b, c)
<1> DEFINE K == Size(b)
           I == DOMAIN b.tickets
           P(x) == b.tickets[x].parent
           Up(n, x, c) == IF P(x) = 0 \/ P(x) \notin WorkTickets(b) THEN 0
                          ELSE IF IsEpic(b, P(x)) THEN P(x) ELSE c[n - 1][P(x)]
<1>0. K \in Nat \ {0} /\ WorkTickets(b) \subseteq I
  BY SizePositive DEF WorkTickets
<1>1. ASSUME NEW i \in I, ~IsEpic(b, i)
      PROVE  \E c : /\ TopEpicFor(b, i) = c[K][i]
                    /\ \A x \in I : c[0][x] = 0
                    /\ \A n \in 1 .. K : \A x \in I : c[n][x] = Up(n, x, c)
  <2>1. PICK c : /\ TopEpicFor(b, i) = c[K][i]
                 /\ \A n \in 0 .. K : \A x \in I : c[n][x] = ClimbStep(b, i, n, x, c[n - 1])
    BY ClimbMet
  <2>2. \A x \in I : c[0][x] = 0
    <3>1. 0 \in 0 .. K
      BY <1>0
    <3> QED BY <1>1, <2>1, <3>1 DEF ClimbStep
  <2>3. \A n \in 1 .. K : \A x \in I : c[n][x] = Up(n, x, c)
    <3> TAKE n \in 1 .. K
    <3> TAKE x \in I
    <3>1. n \in 0 .. K /\ n # 0
      BY <1>0
    <3>2. c[n][x] = ClimbStep(b, i, n, x, c[n - 1])
      BY <2>1, <3>1
    <3> QED BY <1>1, <3>1, <3>2 DEF ClimbStep
  <2> QED BY <2>1, <2>2, <2>3
<1>2. PICK c : /\ \A x \in I : c[0][x] = 0
               /\ \A n \in 1 .. K : \A x \in I : c[n][x] = Up(n, x, c)
  <2> HIDE DEF Up, K, I
  <2> QED BY <1>1 DEF I
<1> HIDE DEF K
<1>3. ASSUME NEW i \in I, ~IsEpic(b, i) PROVE TopEpicFor(b, i) = c[K][i]
  <2>1. PICK d : /\ TopEpicFor(b, i) = d[K][i]
                 /\ \A x \in I : d[0][x] = 0
                 /\ \A n \in 1 .. K : \A x \in I : d[n][x] = Up(n, x, d)
    <3> HIDE DEF Up, I
    <3> QED BY <1>1, <1>3
  <2> DEFINE bad == {n \in 0 .. K : \E x \in I : c[n][x] # d[n][x]}
  <2>2. bad = {}
    <3> SUFFICES ASSUME bad # {} PROVE FALSE
      OBVIOUS
    <3>1. PICK n \in bad : \A m \in bad : n <= m
      <4>1. bad \in SUBSET Nat
        OBVIOUS
      <4> HIDE DEF bad
      <4> QED BY <4>1, LeastNumber
    <3>2. n \in 0 .. K /\ \E x \in I : c[n][x] # d[n][x]
      OBVIOUS
    <3>3. PICK x \in I : c[n][x] # d[n][x]
      BY <3>2
    <3>4. n # 0
      BY <1>2, <2>1, <3>3
    <3>5. n \in 1 .. K /\ n - 1 \in 0 .. K /\ ~(n <= n - 1)
      BY <1>0, <3>2, <3>4
    <3>6. n - 1 \notin bad
      <4> HIDE DEF bad
      <4> QED BY <3>1, <3>5
    <3>7. \A y \in I : c[n - 1][y] = d[n - 1][y]
      BY <3>5, <3>6
    <3>8. c[n][x] = Up(n, x, c) /\ d[n][x] = Up(n, x, d)
      BY <1>2, <2>1, <3>5
    <3> HIDE DEF bad
    <3> QED BY <1>0, <3>3, <3>7, <3>8
  <2>3. K \in 0 .. K
    BY <1>0
  <2> QED BY <1>3, <2>1, <2>2, <2>3
<1>4. \A n \in 1 .. K : \A x \in I : c[n - 1][x] # 0 => c[n][x] = c[n - 1][x]
  <2> DEFINE bad == {n \in 1 .. K : \E x \in I : c[n - 1][x] # 0 /\ c[n][x] # c[n - 1][x]}
  <2> SUFFICES ASSUME bad # {} PROVE FALSE
    OBVIOUS
  <2>1. PICK n \in bad : \A m \in bad : n <= m
    <3>1. bad \in SUBSET Nat
      OBVIOUS
    <3> HIDE DEF bad
    <3> QED BY <3>1, LeastNumber
  <2>2. n \in 1 .. K /\ \E x \in I : c[n - 1][x] # 0 /\ c[n][x] # c[n - 1][x]
    OBVIOUS
  <2>3. PICK x \in I : c[n - 1][x] # 0 /\ c[n][x] # c[n - 1][x]
    BY <2>2
  <2>4. n # 1
    <3>1. n = 1 => n - 1 = 0
      BY <2>2
    <3> QED BY <1>2, <2>3, <3>1
  <2>5. n - 1 \in 1 .. K /\ ~(n <= n - 1)
    BY <1>0, <2>2, <2>4
  <2>6. n - 1 \notin bad
    <3> HIDE DEF bad
    <3> QED BY <2>1, <2>5
  <2>7. \A y \in I : c[(n - 1) - 1][y] # 0 => c[n - 1][y] = c[(n - 1) - 1][y]
    BY <2>5, <2>6
  <2>8. c[n][x] = Up(n, x, c) /\ c[n - 1][x] = Up(n - 1, x, c)
    BY <1>2, <2>2, <2>5
  <2> HIDE DEF bad
  <2> QED BY <1>0, <2>3, <2>7, <2>8
<1>5. IsClimb(b, c)
  BY <1>2, <1>3, <1>4 DEF IsClimb, K
<1> QED BY <1>5

(* An Epic is its own Epic.                                                *)
LEMMA EpicOnTop ==
  ASSUME NEW b, IsBoard(b), EpicsHaveNoParent(b), NEW e \in DOMAIN b.tickets, IsEpic(b, e)
  PROVE  TopEpicFor(b, e) = e
<1>1. PICK c : /\ TopEpicFor(b, e) = c[Size(b)][e]
               /\ \A n \in 0 .. Size(b) : \A x \in DOMAIN b.tickets :
                    c[n][x] = ClimbStep(b, e, n, x, c[n - 1])
  BY ClimbMet
<1>2. Size(b) \in 0 .. Size(b)
  BY SizeTyped
<1>3. c[Size(b)][e] = ClimbStep(b, e, Size(b), e, c[Size(b) - 1])
  BY <1>1, <1>2
<1> QED BY <1>1, <1>3 DEF ClimbStep, EpicsHaveNoParent

(* The parent of a task with an Epic is that Epic or has the same.         *)
LEMMA TopIs ==
  ASSUME NEW b, IsBoard(b), EpicsHaveNoParent(b), NEW i \in DOMAIN b.tickets, ~IsEpic(b, i), TopEpicFor(b, i) # 0
  PROVE  LET e == TopEpicFor(b, i)
             p == b.tickets[i].parent
         IN /\ e \in WorkTickets(b) /\ IsEpic(b, e) /\ e # i /\ TopEpicFor(b, e) = e
            /\ p \in WorkTickets(b) /\ p # 0 /\ p # i
            /\ p = e \/ (p # e /\ ~IsEpic(b, p) /\ TopEpicFor(b, p) = e)
<1> DEFINE K == Size(b)
           e == TopEpicFor(b, i)
           p == b.tickets[i].parent
<1>1. K \in Nat \ {0} /\ WorkTickets(b) \subseteq DOMAIN b.tickets
  BY SizePositive DEF WorkTickets
<1>2. PICK c : IsClimb(b, c)
  BY ClimbIs
<1>3. K \in 1 .. K /\ e = c[K][i]
  BY <1>1, <1>2 DEF IsClimb
<1> HIDE DEF K, e
<1>4. c[K][i] = IF p = 0 \/ p \notin WorkTickets(b) THEN 0 ELSE IF IsEpic(b, p) THEN p ELSE c[K - 1][p]
  BY <1>2, <1>3 DEF IsClimb, K
<1>5. e # 0
  BY DEF e
<1>6. p \in WorkTickets(b) /\ p # 0 /\ (IF IsEpic(b, p) THEN e = p ELSE c[K - 1][p] = e)
  BY <1>3, <1>4, <1>5
<1>7. ~IsEpic(b, p) => TopEpicFor(b, p) = e
  <2> SUFFICES ASSUME ~IsEpic(b, p) PROVE TopEpicFor(b, p) = e
    OBVIOUS
  <2>1. p \in DOMAIN b.tickets /\ c[K - 1][p] = e
    BY <1>1, <1>6
  <2>2. c[K][p] = c[K - 1][p]
    BY <1>2, <1>3, <1>5, <2>1 DEF IsClimb, K
  <2> QED BY <1>2, <2>1, <2>2 DEF IsClimb, K
<1>8. e \in WorkTickets(b) /\ IsEpic(b, e)
  <2>1. CASE IsEpic(b, p)
    BY <1>6, <2>1
  <2>2. CASE ~IsEpic(b, p)
    <3>1. TopEpicFor(b, p) # 0
      BY <1>5, <1>7, <2>2
    <3> QED BY <1>6, <1>7, <2>2, <3>1, BelowItsEpic
  <2> QED BY <2>1, <2>2
<1>9. p # i
  <2> SUFFICES ASSUME p = i PROVE FALSE
    OBVIOUS
  <2> DEFINE bad == {n \in 0 .. K : c[n][i] # 0}
  <2>0. i \in DOMAIN b.tickets
    OBVIOUS
  <2>1. bad \in SUBSET Nat /\ bad # {}
    BY <1>1, <1>3, <1>5
  <2>2. PICK n \in bad : \A m \in bad : n <= m
    <3> HIDE DEF bad
    <3> QED BY <2>1, LeastNumber
  <2>3. n \in 0 .. K /\ c[n][i] # 0
    OBVIOUS
  <2>4. n # 0
    BY <1>2, <2>3 DEF IsClimb
  <2>5. n \in 1 .. K /\ n - 1 \in 0 .. K /\ ~(n <= n - 1)
    BY <1>1, <2>3, <2>4
  <2>6. c[n][i] = c[n - 1][i]
    <3>1. c[n][i] = IF p = 0 \/ p \notin WorkTickets(b) THEN 0 ELSE IF IsEpic(b, p) THEN p ELSE c[n - 1][p]
      BY <1>2, <2>5 DEF IsClimb, K
    <3> QED BY <1>6, <3>1
  <2>7. n - 1 \in bad
    BY <2>3, <2>5, <2>6
  <2> HIDE DEF bad
  <2> QED BY <2>2, <2>5, <2>7
<1>10. TopEpicFor(b, e) = e /\ e # i
  <2>1. e \in DOMAIN b.tickets
    BY <1>1, <1>8
  <2> QED BY <1>8, <2>1, EpicOnTop
<1>11. p = e \/ (p # e /\ ~IsEpic(b, p) /\ TopEpicFor(b, p) = e)
  BY <1>6, <1>7, <1>8
<1> QED BY <1>6, <1>8, <1>9, <1>10, <1>11 DEF e

(* The Epic of a ticket is an Epic of the board, and its own.              *)
LEMMA TopTyped ==
  ASSUME NEW b, IsBoard(b), EpicsHaveNoParent(b), NEW i \in DOMAIN b.tickets
  PROVE  TopEpicFor(b, i) = 0 \/ (TopEpicFor(b, i) \in WorkTickets(b) \union {i} /\ IsEpic(b, TopEpicFor(b, i))
                                  /\ TopEpicFor(b, TopEpicFor(b, i)) = TopEpicFor(b, i)
                                  /\ TopEpicFor(b, i) \in DOMAIN b.tickets)
<1>1. WorkTickets(b) \subseteq DOMAIN b.tickets
  BY DEF WorkTickets
<1>2. CASE IsEpic(b, i)
  BY <1>2, EpicOnTop
<1>3. CASE ~IsEpic(b, i)
  BY <1>1, <1>3, TopIs
<1> QED BY <1>2, <1>3

-----------------------------------------------------------------------------
(* Indentation *)

UpTo(b, X, i) == ParentOf(b, i) \ X

(* The tickets met on the way up from x, without X.                        *)
UpFrom(b, X, x, met) ==
  /\ met[0] = UpTo(b, X, x)
  /\ \A n \in 1 .. Size(b) : met[n] = UNION {{i} \union UpTo(b, X, i) : i \in met[n - 1]}

Cut(X, e) == X = {} \/ X = {e}

(* The way up that leaves one ticket out ...                               *)
LEMMA UpMet ==
  ASSUME NEW b, IsBoard(b), NEW e, NEW x
  PROVE  \E met : /\ UpFrom(b, {e}, x, met)
                  /\ LET above(j) == ParentOf(b, j) \ {e} IN Walk(b, above, above(x)) = met[Size(b)]
<1> DEFINE K == Size(b)
           A(j) == ParentOf(b, j) \ {e}
           U == SUBSET (DOMAIN b.tickets)
           F == [S \in U |-> UNION {{i} \union A(i) : i \in S}]
           Levels(g) == g = [n \in 0 .. K |-> IF n = 0 THEN A(x) ELSE UNION {{i} \union A(i) : i \in g[n - 1]}]
           met == CHOOSE g : Levels(g)
           start == A(x)
<1>1. K \in Nat
  BY SizeTyped
<1>2. \A i : A(i) \in U
  BY DEF ParentOf
<1>3. F \in [U -> U]
  <2>1. \A S \in U : UNION {{i} \union A(i) : i \in S} \in U
    BY <1>2
  <2> QED BY <2>1
<1>4. PICK g \in [0 .. K -> U] : g[0] = start /\ \A n \in 1 .. K : g[n] = F[g[n - 1]]
  <2>1. start \in U
    BY <1>2
  <2> HIDE DEF K, U, F, start
  <2>2. Repetitions(K, U, start, F) # {}
    BY <1>1, <1>3, <2>1, Repeated
  <2> QED BY <2>2 DEF Repetitions
<1>5. \A n \in 1 .. K : g[n] = UNION {{i} \union A(i) : i \in g[n - 1]}
  <2>1. \A n \in 1 .. K : n - 1 \in 0 .. K
    BY <1>1
  <2>2. \A n \in 1 .. K : g[n - 1] \in U
    <3> HIDE DEF U
    <3> QED BY <2>1, <1>4
  <2> HIDE DEF U
  <2> QED BY <2>2, <1>4
<1>6. Levels(g)
  <2>1. \A n \in 0 .. K : n = 0 \/ n \in 1 .. K
    BY <1>1
  <2> HIDE DEF K, U, F, A
  <2> QED BY <1>4, <1>5, <2>1 DEF start
<1>7. Levels(met)
  <2> HIDE DEF Levels
  <2> QED BY <1>6
<1>8. /\ met[0] = A(x)
      /\ \A n \in 1 .. K : met[n] = UNION {{i} \union A(i) : i \in met[n - 1]}
  <2>1. 0 \in 0 .. K /\ \A n \in 1 .. K : n \in 0 .. K /\ n # 0
    BY <1>1
  <2> HIDE DEF met, A
  <2> QED BY <1>7, <2>1
<1>9. (LET above(j) == ParentOf(b, j) \ {e} IN Walk(b, above, above(x))) = met[K]
  BY DEF Walk, Size
<1>10. UpFrom(b, {e}, x, met)
  <2>1. met[0] = UpTo(b, {e}, x)
    <3> HIDE DEF met
    <3> QED BY <1>8 DEF UpTo
  <2>2. \A n \in 1 .. K : met[n] = UNION {{i} \union UpTo(b, {e}, i) : i \in met[n - 1]}
    <3> HIDE DEF met
    <3> QED BY <1>8, Zenon DEF UpTo
  <2> HIDE DEF met, A
  <2> QED BY <2>1, <2>2 DEF UpFrom, K
<1> HIDE DEF met
<1> QED BY <1>9, <1>10

(* ... and the whole of it.                                                *)
LEMMA WholeUpMet ==
  ASSUME NEW b, IsBoard(b), NEW x
  PROVE  \E met : /\ UpFrom(b, {}, x, met)
                  /\ LET above(j) == ParentOf(b, j) IN Walk(b, above, above(x)) = met[Size(b)]
<1> DEFINE K == Size(b)
           A(j) == ParentOf(b, j)
           U == SUBSET (DOMAIN b.tickets)
           F == [S \in U |-> UNION {{i} \union A(i) : i \in S}]
           Levels(g) == g = [n \in 0 .. K |-> IF n = 0 THEN A(x) ELSE UNION {{i} \union A(i) : i \in g[n - 1]}]
           met == CHOOSE g : Levels(g)
           start == A(x)
<1>1. K \in Nat
  BY SizeTyped
<1>2. \A i : A(i) \in U
  BY DEF ParentOf
<1>3. F \in [U -> U]
  <2>1. \A S \in U : UNION {{i} \union A(i) : i \in S} \in U
    BY <1>2
  <2> QED BY <2>1
<1>4. PICK g \in [0 .. K -> U] : g[0] = start /\ \A n \in 1 .. K : g[n] = F[g[n - 1]]
  <2>1. start \in U
    BY <1>2
  <2> HIDE DEF K, U, F, start
  <2>2. Repetitions(K, U, start, F) # {}
    BY <1>1, <1>3, <2>1, Repeated
  <2> QED BY <2>2 DEF Repetitions
<1>5. \A n \in 1 .. K : g[n] = UNION {{i} \union A(i) : i \in g[n - 1]}
  <2>1. \A n \in 1 .. K : n - 1 \in 0 .. K
    BY <1>1
  <2>2. \A n \in 1 .. K : g[n - 1] \in U
    <3> HIDE DEF U
    <3> QED BY <2>1, <1>4
  <2> HIDE DEF U
  <2> QED BY <2>2, <1>4
<1>6. Levels(g)
  <2>1. \A n \in 0 .. K : n = 0 \/ n \in 1 .. K
    BY <1>1
  <2> HIDE DEF K, U, F, A
  <2> QED BY <1>4, <1>5, <2>1 DEF start
<1>7. Levels(met)
  <2> HIDE DEF Levels
  <2> QED BY <1>6
<1>8. /\ met[0] = A(x)
      /\ \A n \in 1 .. K : met[n] = UNION {{i} \union A(i) : i \in met[n - 1]}
  <2>1. 0 \in 0 .. K /\ \A n \in 1 .. K : n \in 0 .. K /\ n # 0
    BY <1>1
  <2> HIDE DEF met, A
  <2> QED BY <1>7, <2>1
<1>9. (LET above(j) == ParentOf(b, j) IN Walk(b, above, above(x))) = met[K]
  BY DEF Walk, Size
<1>10. UpFrom(b, {}, x, met)
  <2>0. \A i : A(i) = UpTo(b, {}, i)
    BY DEF UpTo
  <2>1. met[0] = UpTo(b, {}, x)
    <3> HIDE DEF met, A
    <3> QED BY <1>8, <2>0
  <2>2. \A S : UNION {{i} \union A(i) : i \in S} = UNION {{i} \union UpTo(b, {}, i) : i \in S}
    <3> HIDE DEF A
    <3> QED BY <2>0
  <2>3. \A n \in 1 .. K : met[n] = UNION {{i} \union UpTo(b, {}, i) : i \in met[n - 1]}
    <3> HIDE DEF met, A
    <3> TAKE n \in 1 .. K
    <3>1. met[n] = UNION {{i} \union A(i) : i \in met[n - 1]}
      BY <1>8
    <3> QED BY <3>1, <2>2
  <2> HIDE DEF met, A
  <2> QED BY <2>1, <2>3 DEF UpFrom, K
<1> HIDE DEF met
<1> QED BY <1>9, <1>10

(* Every step meets what the one before met, and more.                     *)
LEMMA UpIs ==
  ASSUME NEW b, IsBoard(b), NEW X, NEW x, NEW met, UpFrom(b, X, x, met)
  PROVE  /\ \A n \in 0 .. Size(b) : met[n] \subseteq DOMAIN b.tickets /\ met[0] \subseteq met[n]
         /\ \A n \in 1 .. Size(b) : met[n - 1] \subseteq met[n]
<1> DEFINE K == Size(b)
           bad == {n \in 0 .. K : ~(met[n] \subseteq DOMAIN b.tickets /\ met[0] \subseteq met[n])}
<1>1. K \in Nat
  BY SizeTyped
<1>2. \A i : UpTo(b, X, i) \subseteq DOMAIN b.tickets
  BY DEF ParentOf, UpTo
<1>3. /\ met[0] = UpTo(b, X, x)
      /\ \A n \in 1 .. K : met[n] = UNION {{i} \union UpTo(b, X, i) : i \in met[n - 1]}
  BY DEF UpFrom
<1> HIDE DEF K
<1>4. bad = {}
  <2> SUFFICES ASSUME bad # {} PROVE FALSE
    OBVIOUS
  <2>1. PICK n \in bad : \A m \in bad : n <= m
    <3>1. bad \in SUBSET Nat
      OBVIOUS
    <3> HIDE DEF bad
    <3> QED BY <3>1, LeastNumber
  <2>2. n \in 0 .. K /\ ~(met[n] \subseteq DOMAIN b.tickets /\ met[0] \subseteq met[n])
    OBVIOUS
  <2>3. n # 0
    BY <1>2, <1>3, <2>2
  <2>4. n \in 1 .. K /\ n - 1 \in 0 .. K /\ ~(n <= n - 1)
    BY <1>1, <2>2, <2>3
  <2>5. met[n - 1] \subseteq DOMAIN b.tickets /\ met[0] \subseteq met[n - 1]
    BY <2>1, <2>4
  <2> QED BY <1>2, <1>3, <2>2, <2>4, <2>5
<1> QED BY <1>3, <1>4 DEF K

(* Starting one ticket further up meets one ticket less.                   *)
LEMMA UpLevels ==
  ASSUME NEW b, IsBoard(b), NEW X, NEW x, NEW q, UpTo(b, X, x) = {q},
         NEW met, UpFrom(b, X, x, met), NEW meq, UpFrom(b, X, q, meq)
  PROVE  \A n \in 1 .. Size(b) : met[n] = {q} \union meq[n - 1]
<1> DEFINE K == Size(b)
           A(i) == UpTo(b, X, i)
           bad == {n \in 1 .. K : met[n] # {q} \union meq[n - 1]}
<1>1. K \in Nat
  BY SizeTyped
<1>2. /\ met[0] = {q} /\ meq[0] = A(q)
      /\ \A n \in 1 .. K : met[n] = UNION {{i} \union A(i) : i \in met[n - 1]}
      /\ \A n \in 1 .. K : meq[n] = UNION {{i} \union A(i) : i \in meq[n - 1]}
      /\ \A n \in 0 .. K : meq[0] \subseteq meq[n]
  <2>1. \A n \in 0 .. K : meq[0] \subseteq meq[n]
    BY UpIs
  <2> QED BY <2>1 DEF UpFrom
<1> HIDE DEF K, A
<1> SUFFICES ASSUME bad # {} PROVE FALSE
  BY DEF K
<1>3. PICK n \in bad : \A m \in bad : n <= m
  <2>1. bad \in SUBSET Nat
    OBVIOUS
  <2> HIDE DEF bad
  <2> QED BY <2>1, LeastNumber
<1>4. n \in 1 .. K /\ met[n] # {q} \union meq[n - 1]
  OBVIOUS
<1>5. n # 1
  <2> SUFFICES ASSUME n = 1 PROVE FALSE
    OBVIOUS
  <2>1. n - 1 = 0
    OBVIOUS
  <2>2. met[n] = {q} \union A(q)
    BY <1>2, <1>4, <2>1
  <2> QED BY <1>2, <1>4, <2>1, <2>2
<1>6. n - 1 \in 1 .. K /\ n - 1 \in 0 .. K /\ ~(n <= n - 1)
  BY <1>1, <1>4, <1>5
<1>7. met[n - 1] = {q} \union meq[(n - 1) - 1]
  BY <1>3, <1>6
<1>8. met[n] = UNION {{i} \union A(i) : i \in met[n - 1]}
      /\ meq[n - 1] = UNION {{i} \union A(i) : i \in meq[(n - 1) - 1]}
  BY <1>2, <1>4, <1>6
<1>9. met[n] = ({q} \union A(q)) \union meq[n - 1]
  BY <1>7, <1>8
<1>10. A(q) \subseteq meq[n - 1]
  BY <1>2, <1>6
<1> QED BY <1>4, <1>9, <1>10

(* A climb ends at an Epic.                                                *)
LEMMA ClimbEndsAtEpic ==
  ASSUME NEW b, IsBoard(b), NEW c, IsClimb(b, c), NEW e, e # 0, NEW k \in 0 .. Size(b),
         NEW y \in DOMAIN b.tickets, c[k][y] = e
  PROVE  IsEpic(b, e) /\ e \in DOMAIN b.tickets
<1> DEFINE K == Size(b)
           bad == {n \in 0 .. K : \E x \in DOMAIN b.tickets : c[n][x] = e}
<1>1. K \in Nat
  BY SizeTyped
<1>2. k \in bad
  BY <1>1
<1>3. PICK n \in bad : \A m \in bad : n <= m
  <2>1. bad \in SUBSET Nat /\ bad # {}
    BY <1>2
  <2> HIDE DEF bad
  <2> QED BY <2>1, LeastNumber
<1>4. PICK x \in DOMAIN b.tickets : c[n][x] = e
  BY <1>3
<1>5. n \in 0 .. K /\ n # 0
  BY <1>4 DEF IsClimb
<1>6. n \in 1 .. K /\ n - 1 \in 0 .. K /\ ~(n <= n - 1)
  BY <1>1, <1>5
<1> DEFINE p == b.tickets[x].parent
<1>7. c[n][x] = IF p = 0 \/ p \notin WorkTickets(b) THEN 0 ELSE IF IsEpic(b, p) THEN p ELSE c[n - 1][p]
  BY <1>6 DEF IsClimb
<1>8. p \in DOMAIN b.tickets /\ c[n - 1][p] = e => n - 1 \in bad
  BY <1>6
<1>9. n - 1 \notin bad
  <2> HIDE DEF bad
  <2> QED BY <1>3, <1>6
<1>10. p \in WorkTickets(b) => p \in DOMAIN b.tickets
  BY DEF WorkTickets
<1> QED BY <1>4, <1>7, <1>8, <1>9, <1>10

(* A step of a climb that arrives at the Epic e.                           *)
Arrives(b, c, e, X, n, x) ==
  /\ IsBoard(b) /\ EpicsHaveNoParent(b) /\ IsClimb(b, c) /\ e # 0 /\ Cut(X, e)
  /\ n \in 0 .. Size(b) /\ x \in DOMAIN b.tickets /\ c[n][x] = e

(* Its next step.                                                          *)
LEMMA ClimbStepIs ==
  ASSUME NEW b, NEW c, NEW e, NEW X, NEW n, NEW x, Arrives(b, c, e, X, n, x)
  PROVE  /\ n \in 1 .. Size(b) /\ b.tickets[x].parent \in DOMAIN b.tickets
         /\ UpTo(b, X, e) = {}
         /\ \/ b.tickets[x].parent = e /\ UpTo(b, X, x) \subseteq {e}
            \/ /\ b.tickets[x].parent # e /\ UpTo(b, X, x) = {b.tickets[x].parent}
               /\ c[n - 1][b.tickets[x].parent] = e
<1> DEFINE p == b.tickets[x].parent
<1>0. /\ IsBoard(b) /\ EpicsHaveNoParent(b) /\ IsClimb(b, c) /\ e # 0 /\ Cut(X, e)
      /\ n \in 0 .. Size(b) /\ x \in DOMAIN b.tickets /\ c[n][x] = e
  BY DEF Arrives
<1>1. n \in 1 .. Size(b)
  <2>1. n # 0
    BY <1>0 DEF IsClimb
  <2> QED BY <1>0, <2>1, SizeTyped
<1>2. c[n][x] = IF p = 0 \/ p \notin WorkTickets(b) THEN 0
                ELSE IF IsEpic(b, p) THEN p ELSE c[n - 1][p]
  BY <1>0, <1>1 DEF IsClimb
<1>3. p \in DOMAIN b.tickets /\ (IF IsEpic(b, p) THEN p = e ELSE c[n - 1][p] = e) /\ ParentOf(b, x) = {p}
  BY <1>0, <1>2 DEF WorkTickets, ParentOf
<1>4. IsEpic(b, e) /\ e \in DOMAIN b.tickets
  BY <1>0, ClimbEndsAtEpic
<1>5. UpTo(b, X, e) = {}
  <2>1. b.tickets[e].parent = 0 /\ 0 \notin DOMAIN b.tickets
    BY <1>0, <1>4 DEF EpicsHaveNoParent, IsBoard
  <2> QED BY <2>1 DEF ParentOf, UpTo
<1>6. CASE IsEpic(b, p)
  BY <1>1, <1>3, <1>5, <1>6 DEF UpTo
<1>7. CASE ~IsEpic(b, p)
  <2>1. p # e
    BY <1>4, <1>7
  <2>2. UpTo(b, X, x) = {p}
    BY <1>0, <1>3, <2>1 DEF UpTo, Cut
  <2> QED BY <1>1, <1>3, <1>5, <1>7, <2>1, <2>2
<1> QED BY <1>6, <1>7

(* Further steps meet nothing more once the climb has arrived.             *)
UpStops(b, c, e, X) ==
  \A n \in 1 .. Size(b) : \A x \in DOMAIN b.tickets : \A met :
    (c[n][x] = e /\ UpFrom(b, X, x, met)) => \A m \in (n - 1) .. Size(b) : met[m] = met[n - 1]

(* By induction over the length of the climb.                              *)
LEMMA UpEnds ==
  ASSUME NEW b, IsBoard(b), EpicsHaveNoParent(b), NEW c, IsClimb(b, c), NEW e, e # 0, NEW X, Cut(X, e)
  PROVE  UpStops(b, c, e, X)
<1> DEFINE K == Size(b)
           Ends2(n) == \A x \in DOMAIN b.tickets : \A met :
                        (c[n][x] = e /\ UpFrom(b, X, x, met)) => \A m \in (n - 1) .. K : met[m] = met[n - 1]
           bad == {n \in 1 .. K : ~Ends2(n)}
<1>1. K \in Nat
  BY SizeTyped
<1> SUFFICES ASSUME bad # {} PROVE FALSE
  BY DEF UpStops
<1>2. PICK n \in bad : \A m \in bad : n <= m
  <2>1. bad \in SUBSET Nat
    OBVIOUS
  <2> HIDE DEF bad
  <2> QED BY <2>1, LeastNumber
<1>3. n \in 1 .. K /\ ~Ends2(n) /\ (n - 1 \in 1 .. K => Ends2(n - 1))
  <2>1. n \in 1 .. K /\ ~(n <= n - 1)
    BY <1>1
  <2> HIDE DEF Ends2
  <2> QED BY <1>2, <2>1
<1>4a. PICK x \in DOMAIN b.tickets : \E met :
        c[n][x] = e /\ UpFrom(b, X, x, met) /\ ~ \A m \in (n - 1) .. K : met[m] = met[n - 1]
  BY <1>3
<1>4. PICK met : c[n][x] = e /\ UpFrom(b, X, x, met) /\ ~ \A m \in (n - 1) .. K : met[m] = met[n - 1]
  BY <1>4a
<1> HIDE DEF bad, Ends2
<1> DEFINE p == b.tickets[x].parent
<1>5. n \in 0 .. K
  BY <1>1, <1>3
<1>6. /\ p \in DOMAIN b.tickets /\ UpTo(b, X, e) = {}
      /\ \/ p = e /\ UpTo(b, X, x) \subseteq {e}
         \/ p # e /\ UpTo(b, X, x) = {p} /\ c[n - 1][p] = e
  <2>1. Arrives(b, c, e, X, n, x)
    BY <1>4, <1>5 DEF Arrives
  <2> QED BY <2>1, ClimbStepIs
<1> HIDE DEF p
<1>7. CASE UpTo(b, X, x) \subseteq {e}
  <2> DEFINE worse == {m \in 0 .. K : met[m] # met[0]}
  <2>1. worse = {}
    <3> SUFFICES ASSUME worse # {} PROVE FALSE
      OBVIOUS
    <3>1. PICK m \in worse : \A j \in worse : m <= j
      <4>1. worse \in SUBSET Nat
        OBVIOUS
      <4> HIDE DEF worse
      <4> QED BY <4>1, LeastNumber
    <3>2. m \in 0 .. K /\ met[m] # met[0]
      OBVIOUS
    <3>3. m \in 1 .. K /\ m - 1 \in 0 .. K /\ ~(m <= m - 1)
      BY <1>1, <3>2
    <3>4. met[m - 1] = met[0]
      BY <3>1, <3>3
    <3>5. met[0] \subseteq {e} /\ met[m] = UNION {{i} \union UpTo(b, X, i) : i \in met[m - 1]}
      BY <1>4, <1>7, <3>3 DEF UpFrom
    <3>6. \A i \in met[0] : i = e /\ UpTo(b, X, i) = {}
      BY <1>6, <3>5
    <3> HIDE DEF worse
    <3> QED BY <3>2, <3>4, <3>5, <3>6
  <2>2. \A m \in (n - 1) .. K : m \in 0 .. K /\ n - 1 \in 0 .. K
    BY <1>1, <1>3
  <2> QED BY <1>4, <2>1, <2>2
<1>8. CASE p # e /\ UpTo(b, X, x) = {p} /\ c[n - 1][p] = e
  <2>1. n - 1 \in 1 .. K /\ n - 1 \in 0 .. K
    <3>1. n - 1 \in 0 .. K
      BY <1>1, <1>3
    <3>2. n - 1 \in 1 .. K
      <4>1. Arrives(b, c, e, X, n - 1, p)
        BY <1>6, <1>8, <3>1 DEF Arrives
      <4> QED BY <4>1, ClimbStepIs
    <3> QED BY <3>1, <3>2
  <2>2. PICK meq : UpFrom(b, X, p, meq)
    <3>1. \E meq : UpFrom(b, {}, p, meq)
      BY WholeUpMet
    <3>2. \E meq : UpFrom(b, {e}, p, meq)
      BY UpMet
    <3> QED BY <3>1, <3>2 DEF Cut
  <2>3. \A m \in 1 .. K : met[m] = {p} \union meq[m - 1]
    BY <1>4, <1>8, <2>2, UpLevels
  <2>4. \A m \in ((n - 1) - 1) .. K : meq[m] = meq[(n - 1) - 1]
    BY <1>3, <1>6, <1>8, <2>1, <2>2 DEF Ends2
  <2>5. ASSUME NEW m \in (n - 1) .. K PROVE met[m] = met[n - 1]
    <3>1. m \in 1 .. K /\ m - 1 \in ((n - 1) - 1) .. K
      BY <1>1, <2>1
    <3>2. meq[m - 1] = meq[(n - 1) - 1]
      BY <2>4, <3>1
    <3> QED BY <2>1, <2>3, <3>1, <3>2
  <2> QED BY <1>4, <2>5
<1> QED BY <1>6, <1>7, <1>8

(* The climb is shorter from every ticket met on the way.                  *)
LEMMA UpShortens ==
  ASSUME NEW b, NEW c, NEW e, NEW X, NEW n, NEW x, Arrives(b, c, e, X, n, x), NEW met, UpFrom(b, X, x, met)
  PROVE  \A m \in 0 .. Size(b) : \A y \in met[m] : y = e \/ c[n - 1][y] = e
<1> DEFINE K == Size(b)
           bad == {m \in 0 .. K : ~ \A y \in met[m] : y = e \/ c[n - 1][y] = e}
<1>0. /\ IsBoard(b) /\ EpicsHaveNoParent(b) /\ IsClimb(b, c) /\ e # 0 /\ Cut(X, e)
      /\ n \in 1 .. Size(b) /\ x \in DOMAIN b.tickets /\ c[n][x] = e
  BY ClimbStepIs DEF Arrives
<1>1. K \in Nat /\ n \in 0 .. K /\ n - 1 \in 0 .. K
  BY <1>0, SizeTyped
<1> SUFFICES ASSUME bad # {} PROVE FALSE
  OBVIOUS
<1>2. PICK m \in bad : \A j \in bad : m <= j
  <2>1. bad \in SUBSET Nat
    OBVIOUS
  <2> HIDE DEF bad
  <2> QED BY <2>1, LeastNumber
<1>3. m \in 0 .. K /\ ~ \A y \in met[m] : y = e \/ c[n - 1][y] = e
  OBVIOUS
<1> HIDE DEF bad
<1>4. m # 0
  <2> SUFFICES ASSUME m = 0 PROVE FALSE
    OBVIOUS
  <2>1. met[0] = UpTo(b, X, x)
    BY DEF UpFrom
  <2>2. n \in 0 .. Size(b)
    BY <1>1
  <2>3. \/ UpTo(b, X, x) \subseteq {e}
        \/ UpTo(b, X, x) = {b.tickets[x].parent} /\ c[n - 1][b.tickets[x].parent] = e
    <3>1. Arrives(b, c, e, X, n, x)
      BY <2>2 DEF Arrives
    <3> QED BY <3>1, ClimbStepIs
  <2> QED BY <1>3, <2>1, <2>3
<1>4b. UpTo(b, X, e) = {}
  <2>1. n \in 0 .. Size(b)
    BY <1>1
  <2>2. Arrives(b, c, e, X, n, x)
    BY <2>1 DEF Arrives
  <2> QED BY <2>2, ClimbStepIs
<1>5. m \in 1 .. K /\ m - 1 \in 0 .. K /\ ~(m <= m - 1)
  BY <1>1, <1>3, <1>4
<1>6. \A y \in met[m - 1] : y = e \/ c[n - 1][y] = e
  <2>1. m - 1 \notin bad
    BY <1>2, <1>5
  <2> QED BY <1>5, <2>1 DEF bad
<1>7. met[m] = UNION {{i} \union UpTo(b, X, i) : i \in met[m - 1]}
  <2>1. \A j \in 1 .. K : met[j] = UNION {{i} \union UpTo(b, X, i) : i \in met[j - 1]}
    BY DEF UpFrom
  <2> QED BY <1>5, <2>1
<1>7b. met[m - 1] \subseteq DOMAIN b.tickets
  <2>1. \A j \in 0 .. K : met[j] \subseteq DOMAIN b.tickets
    BY <1>0, UpIs
  <2> QED BY <1>5, <2>1
<1>8. UpTo(b, X, e) = {}
  BY <1>4b
<1>9. ASSUME NEW y \in met[m] PROVE y = e \/ c[n - 1][y] = e
  <2>1. PICK z \in met[m - 1] : y = z \/ y \in UpTo(b, X, z)
    BY <1>7
  <2>2. CASE y = z
    BY <1>6, <2>2
  <2>3. CASE z = e /\ y \in UpTo(b, X, z)
    BY <1>8, <2>3
  <2>4. CASE z # e /\ y \in UpTo(b, X, z)
    <3>1. c[n - 1][z] = e /\ z \in DOMAIN b.tickets
      BY <1>6, <1>7b, <2>4
    <3>2. /\ n - 1 \in 1 .. K /\ b.tickets[z].parent \in DOMAIN b.tickets
          /\ \/ UpTo(b, X, z) \subseteq {e}
             \/ UpTo(b, X, z) = {b.tickets[z].parent} /\ c[(n - 1) - 1][b.tickets[z].parent] = e
      <4>1. Arrives(b, c, e, X, n - 1, z)
        BY <1>0, <1>1, <3>1 DEF Arrives
      <4> QED BY <4>1, ClimbStepIs
    <3>3. \A w \in DOMAIN b.tickets : c[(n - 1) - 1][w] = e => c[n - 1][w] = e
      BY <1>0, <3>2 DEF IsClimb
    <3> QED BY <2>4, <3>2, <3>3
  <2> QED BY <2>1, <2>2, <2>3, <2>4
<1> QED BY <1>3, <1>9

(* The same facts, for a step that arrives.                                *)
LEMMA ArrivedStays ==
  ASSUME NEW b, NEW c, NEW e, NEW X, NEW n, NEW x, Arrives(b, c, e, X, n, x), NEW met, UpFrom(b, X, x, met)
  PROVE  n \in 1 .. Size(b) /\ \A m \in (n - 1) .. Size(b) : met[m] = met[n - 1]
<1>1. /\ IsBoard(b) /\ EpicsHaveNoParent(b) /\ IsClimb(b, c) /\ e # 0 /\ Cut(X, e)
      /\ x \in DOMAIN b.tickets /\ c[n][x] = e
  BY DEF Arrives
<1>2. n \in 1 .. Size(b)
  BY ClimbStepIs
<1>3. UpStops(b, c, e, X)
  BY <1>1, UpEnds
<1>4. \A y \in DOMAIN b.tickets : \A up :
        (c[n][y] = e /\ UpFrom(b, X, y, up)) => \A m \in (n - 1) .. Size(b) : up[m] = up[n - 1]
  BY <1>2, <1>3, Zenon DEF UpStops
<1>5. \A up : UpFrom(b, X, x, up) => \A m \in (n - 1) .. Size(b) : up[m] = up[n - 1]
  BY <1>1, <1>4, Zenon
<1> QED BY <1>2, <1>5, Zenon

OneUp(b, X, x, q, met, meq) ==
  IsBoard(b) /\ UpTo(b, X, x) = {q} /\ UpFrom(b, X, x, met) /\ UpFrom(b, X, q, meq)

(* The same, with the hypotheses in one predicate.                         *)
LEMMA OneUpLevels ==
  ASSUME NEW b, NEW X, NEW x, NEW q, NEW met, NEW meq, OneUp(b, X, x, q, met, meq)
  PROVE  \A n \in 1 .. Size(b) : met[n] = {q} \union meq[n - 1]
BY UpLevels DEF OneUp

(* One step further down there is one ticket more on the way up.           *)
LEMMA UpGrowsFrom ==
  ASSUME NEW b, NEW c, NEW e, NEW X, NEW p, Arrives(b, c, e, X, Size(b), p), p # e,
         NEW i, UpTo(b, X, i) = {p}, NEW met, UpFrom(b, X, i, met), NEW meq, UpFrom(b, X, p, meq)
  PROVE  /\ met[Size(b)] = {p} \union meq[Size(b)] /\ p \notin meq[Size(b)]
         /\ meq[Size(b)] \subseteq DOMAIN b.tickets
<1> DEFINE K == Size(b)
<1>0. /\ IsBoard(b) /\ EpicsHaveNoParent(b) /\ IsClimb(b, c) /\ e # 0 /\ Cut(X, e)
      /\ p \in DOMAIN b.tickets /\ c[K][p] = e
  BY DEF Arrives
<1>1. K \in Nat \ {0}
  BY <1>0, SizePositive
<1>5. K \in 0 .. K /\ K \in 1 .. K /\ K - 1 \in (K - 1) .. K /\ K \in (K - 1) .. K
  BY <1>1
<1>7. met[K] = {p} \union meq[K - 1]
  <2>1. \A n \in 1 .. Size(b) : met[n] = {p} \union meq[n - 1]
    <3>1. OneUp(b, X, i, p, met, meq)
      BY <1>0 DEF OneUp
    <3> QED BY <3>1, OneUpLevels
  <2> QED BY <1>5, <2>1
<1>8. meq[K] = meq[K - 1]
  <2>1. \A m \in (K - 1) .. K : meq[m] = meq[K - 1]
    BY ArrivedStays
  <2> QED BY <1>5, <2>1
<1>9. p \notin meq[K]
  <2> DEFINE hits == {n \in 0 .. K : c[n][p] = e}
  <2>1. PICK n \in hits : \A m \in hits : n <= m
    <3>1. hits \in SUBSET Nat /\ hits # {}
      BY <1>0, <1>5
    <3> HIDE DEF hits
    <3> QED BY <3>1, LeastNumber
  <2>2. n \in 0 .. K /\ c[n][p] = e
    OBVIOUS
  <2>3. n \in 1 .. K
    <3>1. n # 0
      BY <1>0, <2>2 DEF IsClimb
    <3> QED BY <1>1, <2>2, <3>1
  <2>4. c[n - 1][p] # e
    <3>1. n - 1 \in 0 .. K /\ ~(n <= n - 1)
      BY <1>1, <2>3
    <3>2. n - 1 \notin hits
      <4> HIDE DEF hits
      <4> QED BY <2>1, <3>1
    <3> QED BY <3>1, <3>2
  <2> HIDE DEF hits
  <2>5. \A m \in 0 .. Size(b) : \A y \in meq[m] : y = e \/ c[n - 1][y] = e
    <3>1. Arrives(b, c, e, X, n, p)
      BY <1>0, <2>2 DEF Arrives
    <3> QED BY <3>1, UpShortens
  <2> QED BY <1>5, <2>4, <2>5
<1>10. meq[K] \subseteq DOMAIN b.tickets
  BY <1>0, <1>5, UpIs
<1> QED BY <1>7, <1>8, <1>9, <1>10

(* The same for the way up to the Epic of a ticket.                        *)
LEMMA UpGrows ==
  ASSUME NEW b, IsBoard(b), EpicsHaveNoParent(b), NEW i \in DOMAIN b.tickets, ~IsEpic(b, i),
         NEW e, e = TopEpicFor(b, i), e # 0,
         NEW p, p = b.tickets[i].parent, p # e, NEW X, Cut(X, e),
         NEW met, UpFrom(b, X, i, met), NEW meq, UpFrom(b, X, p, meq)
  PROVE  /\ met[Size(b)] = {p} \union meq[Size(b)] /\ p \notin meq[Size(b)]
         /\ meq[Size(b)] \subseteq DOMAIN b.tickets
<1> DEFINE K == Size(b)
<1>1. K \in Nat \ {0} /\ WorkTickets(b) \subseteq DOMAIN b.tickets
  BY SizePositive DEF WorkTickets
<1>2. PICK c : IsClimb(b, c)
  BY ClimbIs
<1>3. p \in DOMAIN b.tickets /\ ~IsEpic(b, p) /\ TopEpicFor(b, p) = e
  BY <1>1, TopIs
<1>4. c[K][i] = e /\ c[K][p] = e
  BY <1>2, <1>3 DEF IsClimb
<1>5. K \in 0 .. K
  BY <1>1
<1>6. UpTo(b, X, i) = {p}
  <2>1. Arrives(b, c, e, X, K, i)
    BY <1>2, <1>4, <1>5 DEF Arrives
  <2> QED BY <2>1, ClimbStepIs
<1>7. Arrives(b, c, e, X, K, p)
  BY <1>2, <1>3, <1>4, <1>5 DEF Arrives
<1> QED BY <1>6, <1>7, UpGrowsFrom

(* Nothing is in between right below the Epic.                             *)
LEMMA UpIsEmpty ==
  ASSUME NEW b, IsBoard(b), EpicsHaveNoParent(b), NEW i \in DOMAIN b.tickets, ~IsEpic(b, i),
         NEW e, e = TopEpicFor(b, i), e # 0, e = b.tickets[i].parent,
         NEW met, UpFrom(b, {e}, i, met)
  PROVE  met[Size(b)] = {}
<1> DEFINE K == Size(b)
<1>1. K \in Nat \ {0}
  BY SizePositive
<1>2. PICK c : IsClimb(b, c)
  BY ClimbIs
<1>3. 1 \in 1 .. K /\ K \in (1 - 1) .. K /\ 0 \in (1 - 1) .. K /\ 1 - 1 = 0
  BY <1>1
<1>4. c[1][i] = e
  <2>1. e \in WorkTickets(b) /\ IsEpic(b, e)
    BY TopIs
  <2> HIDE DEF K
  <2> QED BY <1>2, <1>3, <2>1 DEF IsClimb, K
<1>5. met[K] = met[0]
  <2>1. Cut({e}, e)
    BY DEF Cut
  <2>2. \A m \in (1 - 1) .. K : met[m] = met[1 - 1]
    <3> DEFINE X == {e}
    <3>0. UpFrom(b, X, i, met) /\ Cut(X, e)
      BY <2>1
    <3> HIDE DEF X
    <3>1. Arrives(b, c, e, X, 1, i)
      <4>1. 1 \in 0 .. Size(b)
        BY <1>1
      <4> QED BY <1>2, <1>4, <3>0, <4>1 DEF Arrives
    <3> QED BY <3>0, <3>1, ArrivedStays
  <2> QED BY <1>3, <2>2
<1>6. met[0] = {}
  BY DEF UpFrom, UpTo, ParentOf
<1> QED BY <1>5, <1>6

(* The indentation in the Overview and on the Timeline.                    *)
LEMMA DepthsGrow ==
  ASSUME NEW b, IsBoard(b), EpicsHaveNoParent(b), NEW i \in DOMAIN b.tickets, TopEpicFor(b, i) \notin {0, i}
  PROVE  LET e == TopEpicFor(b, i)
             p == b.tickets[i].parent
         IN /\ TimelineDepth(b, i, e) = IF p = e THEN 1 ELSE Least(4, 1 + TimelineDepth(b, p, e))
            /\ OverviewHierarchyDepth(b, i, e) = IF p = e THEN 1 ELSE Least(4, 1 + OverviewHierarchyDepth(b, p, e))
<1> DEFINE K == Size(b)
           e == TopEpicFor(b, i)
           p == b.tickets[i].parent
           Depth(n) == IF n + 1 > 4 THEN 4 ELSE n + 1
<1>0. ~IsEpic(b, i) /\ e # 0
  BY EpicOnTop
<1>1. p # 0 /\ p \in DOMAIN b.tickets
  BY <1>0, TopIs DEF WorkTickets
<1>2. PICK met : /\ UpFrom(b, {e}, i, met)
                 /\ LET above(j) == ParentOf(b, j) \ {e} IN Walk(b, above, above(i)) = met[K]
  BY UpMet
<1>3. PICK meq : /\ UpFrom(b, {e}, p, meq)
                 /\ LET above(j) == ParentOf(b, j) \ {e} IN Walk(b, above, above(p)) = meq[K]
  BY UpMet
<1>4. /\ TimelineDepth(b, i, e) = Depth(Cardinality(met[K]))
      /\ TimelineDepth(b, p, e) = Depth(Cardinality(meq[K]))
  BY <1>2, <1>3 DEF TimelineDepth
<1>5. /\ OverviewHierarchyDepth(b, i, e) = Depth(Cardinality(met[K]))
      /\ b.tickets[p].parent # 0 => OverviewHierarchyDepth(b, p, e) = Depth(Cardinality(meq[K]))
  BY <1>1, <1>2, <1>3 DEF OverviewHierarchyDepth
<1> HIDE DEF K, e, p
<1>6. CASE p = e
  <2>1. met[K] = {}
    BY <1>0, <1>2, <1>6, UpIsEmpty DEF e, p, K
  <2>2. Cardinality(met[K]) = 0
    BY <2>1, FS_EmptySet
  <2> QED BY <1>4, <1>5, <1>6, <2>2 DEF e, p
<1>7. CASE p # e
  <2>1. Cut({e}, e)
    BY DEF Cut
  <2>2. met[K] = {p} \union meq[K] /\ p \notin meq[K] /\ meq[K] \subseteq DOMAIN b.tickets
    BY <1>0, <1>2, <1>3, <1>7, <2>1, UpGrows DEF e, p, K
  <2>3. IsFiniteSet(meq[K])
    <3>1. IsFiniteSet(DOMAIN b.tickets)
      BY DEF IsBoard
    <3> QED BY <2>2, <3>1, FS_Subset
  <2>4. Cardinality(meq[K]) \in Nat /\ Cardinality(met[K]) = Cardinality(meq[K]) + 1
    <3>1. met[K] = meq[K] \union {p}
      BY <2>2
    <3> QED BY <2>2, <2>3, <3>1, FS_CardinalityType, FS_AddElement
  <2>5. b.tickets[p].parent # 0
    <3>1. ~IsEpic(b, p) /\ TopEpicFor(b, p) = e
      BY <1>0, <1>7, TopIs DEF e, p
    <3> QED BY <1>0, <1>1, <3>1, TopIs
  <2>6. \A n \in Nat : Depth(n + 1) = Least(4, 1 + Depth(n))
    BY DEF Least
  <2> HIDE DEF Depth
  <2> QED BY <1>4, <1>5, <1>7, <2>4, <2>5, <2>6 DEF e, p
<1> QED BY <1>6, <1>7

(* The indentation on the Board.                                           *)
LEMMA CardDepthGrows ==
  ASSUME NEW b, IsBoard(b), EpicsHaveNoParent(b), NEW i \in DOMAIN b.tickets,
         TopEpicFor(b, i) \notin {0, i, b.tickets[i].parent}
  PROVE  BoardCardDepth(b, i) = Least(3, 1 + BoardCardDepth(b, b.tickets[i].parent))
<1> DEFINE K == Size(b)
           e == TopEpicFor(b, i)
           p == b.tickets[i].parent
           Depth(n) == IF n > 3 THEN 3 ELSE n
           Rest(S) == {q \in S : ~IsEpic(b, q)}
<1>0. ~IsEpic(b, i) /\ e # 0 /\ p # e
  BY EpicOnTop
<1>1. p \in DOMAIN b.tickets /\ ~IsEpic(b, p)
  BY <1>0, TopIs DEF WorkTickets
<1>2. PICK met : /\ UpFrom(b, {}, i, met)
                 /\ LET above(j) == ParentOf(b, j) IN Walk(b, above, above(i)) = met[K]
  BY WholeUpMet
<1>3. PICK meq : /\ UpFrom(b, {}, p, meq)
                 /\ LET above(j) == ParentOf(b, j) IN Walk(b, above, above(p)) = meq[K]
  BY WholeUpMet
<1>4. /\ BoardCardDepth(b, i) = Depth(Cardinality(Rest(met[K])))
      /\ BoardCardDepth(b, p) = Depth(Cardinality(Rest(meq[K])))
  BY <1>0, <1>1, <1>2, <1>3 DEF BoardCardDepth
<1> HIDE DEF K, e, p
<1>5. met[K] = {p} \union meq[K] /\ p \notin meq[K] /\ meq[K] \subseteq DOMAIN b.tickets
  <2>1. Cut({}, e)
    BY DEF Cut
  <2> QED BY <1>0, <1>2, <1>3, <2>1, UpGrows DEF e, p, K
<1>6. Rest(met[K]) = Rest(meq[K]) \union {p} /\ p \notin Rest(meq[K])
  BY <1>1, <1>5
<1>7. IsFiniteSet(Rest(meq[K]))
  <2>1. IsFiniteSet(DOMAIN b.tickets) /\ Rest(meq[K]) \subseteq DOMAIN b.tickets
    BY <1>5 DEF IsBoard
  <2> HIDE DEF Rest
  <2> QED BY <2>1, FS_Subset
<1> HIDE DEF Rest
<1>8. Cardinality(Rest(meq[K])) \in Nat /\ Cardinality(Rest(met[K])) = Cardinality(Rest(meq[K])) + 1
  BY <1>6, <1>7, FS_CardinalityType, FS_AddElement
<1>9. \A n \in Nat : Depth(n + 1) = Least(3, 1 + Depth(n))
  BY DEF Least
<1> HIDE DEF Depth
<1> QED BY <1>4, <1>8, <1>9 DEF p

StepsTyped(steps) == \A i \in DOMAIN steps : steps[i] \in Int

(* The Epics, by position.                                                 *)
ManualSorted(b, S) ==
  LET less(i, j) == TicketOrder(b, i, j)
  IN Sorted(S, less)

(* They are in order.                                                      *)
LEMMA ManualLists ==
  ASSUME NEW b, IsBoard(b), NEW S \in SUBSET DOMAIN b.tickets
  PROVE  Lists(ManualSorted(b, S), TicketOrderPairs(b), S)
<1> DEFINE less(i, j) == TicketOrder(b, i, j)
           at(k, x) == Cardinality({y \in S : less(y, x)}) = k - 1
           s == [k \in 1 .. Cardinality(S) |-> CHOOSE x \in S : at(k, x)]
           L == TicketOrderPairs(b)
<1>0. IsFiniteSet(S)
  BY TicketsTyped, FS_Subset
<1>1. IsOrder(L, S)
  BY ManualOrder
<1>2. \A x \in S : {y \in S : less(y, x)} = BeforeIn(L, S, x)
  BY DEF BeforeIn, TicketOrderPairs
<1>3. s = ManualSorted(b, S)
  BY DEF Sorted, ManualSorted
<1> HIDE DEF L, less
<1>4. \A k \in 1 .. Cardinality(S) : \E x \in S : at(k, x)
  <2>1. \A k \in 1 .. Cardinality(S) : \E x \in S : Cardinality(BeforeIn(L, S, x)) = k - 1
    BY <1>0, <1>1, RanksAre
  <2> QED BY <1>2, <2>1
<1>5. \A k \in 1 .. Cardinality(S) : s[k] \in S /\ at(k, s[k])
  <2> HIDE DEF at
  <2> QED BY <1>4
<1>6. s \in [1 .. Cardinality(S) -> S]
  <2> HIDE DEF at
  <2> QED BY <1>4
<1>7. \A k \in 1 .. Cardinality(S) : Cardinality(BeforeIn(L, S, s[k])) = k - 1
  <2> HIDE DEF s
  <2> QED BY <1>2, <1>5
<1>8. Lists(s, L, S)
  <2> HIDE DEF s
  <2> QED BY <1>0, <1>1, <1>6, <1>7, SortedLists
<1> HIDE DEF s
<1> QED BY <1>3, <1>8 DEF L

(* The rows of the Overview below one Epic, or below none.                 *)
OverviewSorted(b, steps, order, S) ==
  LET normal(i, j) == OverviewNormalCompare(b, order, i, j)
      less(i, j) == PlanningCompare(steps, i, j, normal)
  IN Sorted(S, less)

(* They are in the order of the stages, then of the chosen key.            *)
LEMMA OverviewLists ==
  ASSUME NEW b, IsBoard(b), NEW S \in SUBSET DOMAIN b.tickets,
         NEW steps, StepsTyped(steps),
         NEW order \in [key : SortKeys, descending : BOOLEAN]
  PROVE  Lists(OverviewSorted(b, steps, order, S), Staged(steps, OverviewOrderPairs(b, order), S), S)
<1> DEFINE normal(i, j) == OverviewNormalCompare(b, order, i, j)
           less(i, j) == PlanningCompare(steps, i, j, normal)
           at(k, x) == Cardinality({y \in S : less(y, x)}) = k - 1
           s == [k \in 1 .. Cardinality(S) |-> CHOOSE x \in S : at(k, x)]
           L == Staged(steps, OverviewOrderPairs(b, order), S)
<1>0. IsFiniteSet(S)
  BY TicketsTyped, FS_Subset
<1>1. IsOrder(L, S)
  <2> DEFINE F == OverviewOrderPairs(b, order)
  <2>1. IsOrder(F, S)
    BY OverviewOrder
  <2> HIDE DEF F
  <2>2. IsOrder(Staged(steps, F, S), S)
    BY <2>1, StagedOrder DEF StepsTyped
  <2> QED BY <2>2 DEF F
<1>2. \A x \in S : {y \in S : less(y, x)} = BeforeIn(L, S, x)
  BY DEF BeforeIn, Staged, OverviewOrderPairs, PlanningCompare
<1>3. s = OverviewSorted(b, steps, order, S)
  BY DEF Sorted, OverviewSorted
<1> HIDE DEF L, less
<1>4. \A k \in 1 .. Cardinality(S) : \E x \in S : at(k, x)
  <2>1. \A k \in 1 .. Cardinality(S) : \E x \in S : Cardinality(BeforeIn(L, S, x)) = k - 1
    BY <1>0, <1>1, RanksAre
  <2> QED BY <1>2, <2>1
<1>5. \A k \in 1 .. Cardinality(S) : s[k] \in S /\ at(k, s[k])
  <2> HIDE DEF at
  <2> QED BY <1>4
<1>6. s \in [1 .. Cardinality(S) -> S]
  <2> HIDE DEF at
  <2> QED BY <1>4
<1>7. \A k \in 1 .. Cardinality(S) : Cardinality(BeforeIn(L, S, s[k])) = k - 1
  <2> HIDE DEF s
  <2> QED BY <1>2, <1>5
<1>8. Lists(s, L, S)
  <2> HIDE DEF s
  <2> QED BY <1>0, <1>1, <1>6, <1>7, SortedLists
<1> HIDE DEF s
<1> QED BY <1>3, <1>8 DEF L

(* The cards of one lane and column.                                       *)
BoardSorted(b, steps, S) ==
  LET normal(i, j) == TicketOrder(b, i, j)
      less(i, j) == PlanningCompare(steps, i, j, normal)
  IN Sorted(S, less)

(* They are in the order of the stages, then of their positions.           *)
LEMMA BoardLists ==
  ASSUME NEW b, IsBoard(b), NEW S \in SUBSET DOMAIN b.tickets,
         NEW steps, StepsTyped(steps)
  PROVE  Lists(BoardSorted(b, steps, S), Staged(steps, TicketOrderPairs(b), S), S)
<1> DEFINE normal(i, j) == TicketOrder(b, i, j)
           less(i, j) == PlanningCompare(steps, i, j, normal)
           at(k, x) == Cardinality({y \in S : less(y, x)}) = k - 1
           s == [k \in 1 .. Cardinality(S) |-> CHOOSE x \in S : at(k, x)]
           L == Staged(steps, TicketOrderPairs(b), S)
<1>0. IsFiniteSet(S)
  BY TicketsTyped, FS_Subset
<1>1. IsOrder(L, S)
  <2> DEFINE F == TicketOrderPairs(b)
  <2>1. IsOrder(F, S)
    BY ManualOrder
  <2> HIDE DEF F
  <2>2. IsOrder(Staged(steps, F, S), S)
    BY <2>1, StagedOrder DEF StepsTyped
  <2> QED BY <2>2 DEF F
<1>2. \A x \in S : {y \in S : less(y, x)} = BeforeIn(L, S, x)
  BY DEF BeforeIn, Staged, TicketOrderPairs, PlanningCompare
<1>3. s = BoardSorted(b, steps, S)
  BY DEF Sorted, BoardSorted
<1> HIDE DEF L, less
<1>4. \A k \in 1 .. Cardinality(S) : \E x \in S : at(k, x)
  <2>1. \A k \in 1 .. Cardinality(S) : \E x \in S : Cardinality(BeforeIn(L, S, x)) = k - 1
    BY <1>0, <1>1, RanksAre
  <2> QED BY <1>2, <2>1
<1>5. \A k \in 1 .. Cardinality(S) : s[k] \in S /\ at(k, s[k])
  <2> HIDE DEF at
  <2> QED BY <1>4
<1>6. s \in [1 .. Cardinality(S) -> S]
  <2> HIDE DEF at
  <2> QED BY <1>4
<1>7. \A k \in 1 .. Cardinality(S) : Cardinality(BeforeIn(L, S, s[k])) = k - 1
  <2> HIDE DEF s
  <2> QED BY <1>2, <1>5
<1>8. Lists(s, L, S)
  <2> HIDE DEF s
  <2> QED BY <1>0, <1>1, <1>6, <1>7, SortedLists
<1> HIDE DEF s
<1> QED BY <1>3, <1>8 DEF L

(* The children of a ticket on the Timeline.                               *)
ChildSorted(b, S) ==
  LET less(i, j) == TimelineTreeOrder(b, i, j)
  IN Sorted(S, less)

(* They are in order.                                                      *)
LEMMA ChildLists ==
  ASSUME NEW b, IsBoard(b), NEW S \in SUBSET DOMAIN b.tickets
  PROVE  Lists(ChildSorted(b, S), TimelineTreeOrderPairs(b), S)
<1> DEFINE less(i, j) == TimelineTreeOrder(b, i, j)
           at(k, x) == Cardinality({y \in S : less(y, x)}) = k - 1
           s == [k \in 1 .. Cardinality(S) |-> CHOOSE x \in S : at(k, x)]
           L == TimelineTreeOrderPairs(b)
<1>0. IsFiniteSet(S)
  BY TicketsTyped, FS_Subset
<1>1. IsOrder(L, S)
  BY TreeOrder
<1>2. \A x \in S : {y \in S : less(y, x)} = BeforeIn(L, S, x)
  BY DEF BeforeIn, TimelineTreeOrderPairs
<1>3. s = ChildSorted(b, S)
  BY DEF Sorted, ChildSorted
<1> HIDE DEF L, less
<1>4. \A k \in 1 .. Cardinality(S) : \E x \in S : at(k, x)
  <2>1. \A k \in 1 .. Cardinality(S) : \E x \in S : Cardinality(BeforeIn(L, S, x)) = k - 1
    BY <1>0, <1>1, RanksAre
  <2> QED BY <1>2, <2>1
<1>5. \A k \in 1 .. Cardinality(S) : s[k] \in S /\ at(k, s[k])
  <2> HIDE DEF at
  <2> QED BY <1>4
<1>6. s \in [1 .. Cardinality(S) -> S]
  <2> HIDE DEF at
  <2> QED BY <1>4
<1>7. \A k \in 1 .. Cardinality(S) : Cardinality(BeforeIn(L, S, s[k])) = k - 1
  <2> HIDE DEF s
  <2> QED BY <1>2, <1>5
<1>8. Lists(s, L, S)
  <2> HIDE DEF s
  <2> QED BY <1>0, <1>1, <1>6, <1>7, SortedLists
<1> HIDE DEF s
<1> QED BY <1>3, <1>8 DEF L

(* By start, due date and position.                                        *)
ScheduleOrder(b, bars, S) ==
  Keyed([x \in S |-> bars[x].start], Keyed([x \in S |-> bars[x].due], TicketOrderPairs(b), S), S)

(* An order, as dates are numbers.                                         *)
LEMMA ScheduleIsOrder ==
  ASSUME NEW b, IsBoard(b), NEW S \in SUBSET DOMAIN b.tickets,
         NEW bars, \A i \in S : bars[i].start \in Int /\ bars[i].due \in Int
  PROVE  IsOrder(ScheduleOrder(b, bars, S), S)
<1> DEFINE starts == [x \in S |-> bars[x].start]
           dues == [x \in S |-> bars[x].due]
           M == TicketOrderPairs(b)
<1>1. (\A x \in S : starts[x] \in Int) /\ (\A x \in S : dues[x] \in Int)
  OBVIOUS
<1>2. IsOrder(M, S)
  BY ManualOrder
<1>3. ScheduleOrder(b, bars, S) = Keyed(starts, Keyed(dues, M, S), S)
  BY DEF ScheduleOrder
<1> HIDE DEF starts, dues, M
<1>4. IsOrder(Keyed(dues, M, S), S)
  BY <1>1, <1>2, KeyedOrder
<1>5. IsOrder(Keyed(starts, Keyed(dues, M, S), S), S)
  BY <1>1, <1>4, KeyedOrder
<1> QED BY <1>3, <1>5

(* The tasks without an Epic.                                              *)
ScheduleSorted(b, steps, bars, S) ==
  LET dates(i, j) == ScheduledBefore(b, i, j, bars[i], bars[j])
      less(i, j) == PlanningCompare(steps, i, j, dates)
  IN Sorted(S, less)

(* They are in the order of the stages, then of their dates.               *)
LEMMA ScheduleLists ==
  ASSUME NEW b, IsBoard(b), NEW S \in SUBSET DOMAIN b.tickets,
         NEW steps, StepsTyped(steps),
         NEW bars, \A i \in S : bars[i].start \in Int /\ bars[i].due \in Int
  PROVE  Lists(ScheduleSorted(b, steps, bars, S), Staged(steps, ScheduleOrder(b, bars, S), S), S)
<1> DEFINE dates(i, j) == ScheduledBefore(b, i, j, bars[i], bars[j])
           less(i, j) == PlanningCompare(steps, i, j, dates)
           at(k, x) == Cardinality({y \in S : less(y, x)}) = k - 1
           s == [k \in 1 .. Cardinality(S) |-> CHOOSE x \in S : at(k, x)]
           L == Staged(steps, ScheduleOrder(b, bars, S), S)
<1>0. IsFiniteSet(S)
  BY TicketsTyped, FS_Subset
<1>1. IsOrder(L, S)
  <2> DEFINE F == ScheduleOrder(b, bars, S)
  <2>1. IsOrder(F, S)
    BY ScheduleIsOrder
  <2> HIDE DEF F
  <2>2. IsOrder(Staged(steps, F, S), S)
    BY <2>1, StagedOrder DEF StepsTyped
  <2> QED BY <2>2 DEF F
<1>2. \A x \in S : {y \in S : less(y, x)} = BeforeIn(L, S, x)
  <2>1. \A x, y \in S : dates(y, x) <=> <<y, x>> \in ScheduleOrder(b, bars, S)
    BY DEF ScheduleOrder, Keyed, ScheduledBefore, TicketOrderPairs
  <2> HIDE DEF dates
  <2> QED BY <2>1 DEF BeforeIn, Staged, PlanningCompare
<1>3. s = ScheduleSorted(b, steps, bars, S)
  BY DEF Sorted, ScheduleSorted
<1> HIDE DEF L, less
<1>4. \A k \in 1 .. Cardinality(S) : \E x \in S : at(k, x)
  <2>1. \A k \in 1 .. Cardinality(S) : \E x \in S : Cardinality(BeforeIn(L, S, x)) = k - 1
    BY <1>0, <1>1, RanksAre
  <2> QED BY <1>2, <2>1
<1>5. \A k \in 1 .. Cardinality(S) : s[k] \in S /\ at(k, s[k])
  <2> HIDE DEF at
  <2> QED BY <1>4
<1>6. s \in [1 .. Cardinality(S) -> S]
  <2> HIDE DEF at
  <2> QED BY <1>4
<1>7. \A k \in 1 .. Cardinality(S) : Cardinality(BeforeIn(L, S, s[k])) = k - 1
  <2> HIDE DEF s
  <2> QED BY <1>2, <1>5
<1>8. Lists(s, L, S)
  <2> HIDE DEF s
  <2> QED BY <1>0, <1>1, <1>6, <1>7, SortedLists
<1> HIDE DEF s
<1> QED BY <1>3, <1>8 DEF L

(* The order of the tree.                                                  *)
PlaceOrder(tree, S) == {p \in S \X S : Place(tree, p[1]) < Place(tree, p[2])}

(* Places in a list are an order of its elements.                          *)
LEMMA PlacesInOrder ==
  ASSUME NEW U, NEW tree \in Seq(U) PROVE IsOrder(PlaceOrder(tree, Range(tree)), Range(tree))
<1> DEFINE S == Range(tree)
<1>1. \A x \in S : Place(tree, x) \in DOMAIN tree /\ tree[Place(tree, x)] = x
  BY DEF Place, Range
<1>2. \A x \in S : Place(tree, x) \in Int
  BY <1>1
<1> HIDE DEF S
<1> QED BY <1>1, <1>2 DEF IsOrder, PlaceOrder, S

(* The tasks of an Epic.                                                   *)
LEMMA TreeLists ==
  ASSUME NEW b, NEW tree \in Seq(DOMAIN b.tickets), IsBoard(b),
         NEW steps, StepsTyped(steps),
         NEW S, S = Range(tree)
  PROVE  Lists(EpicChildren(steps, tree), Staged(steps, PlaceOrder(tree, S), S), S)
<1> DEFINE place(i, j) == Place(tree, i) < Place(tree, j)
           less(i, j) == PlanningCompare(steps, i, j, place)
           at(k, x) == Cardinality({y \in S : less(y, x)}) = k - 1
           s == [k \in 1 .. Cardinality(S) |-> CHOOSE x \in S : at(k, x)]
           L == Staged(steps, PlaceOrder(tree, S), S)
<1>0. IsFiniteSet(S)
  <2>1. S \subseteq DOMAIN b.tickets
    BY DEF Range
  <2> QED BY <2>1, TicketsTyped, FS_Subset
<1>1. IsOrder(L, S)
  <2> DEFINE F == PlaceOrder(tree, S)
  <2>1. IsOrder(F, S)
    BY PlacesInOrder
  <2> HIDE DEF F
  <2>2. IsOrder(Staged(steps, F, S), S)
    BY <2>1, StagedOrder DEF StepsTyped
  <2> QED BY <2>2 DEF F
<1>2. \A x \in S : {y \in S : less(y, x)} = BeforeIn(L, S, x)
  BY DEF BeforeIn, Staged, PlaceOrder, PlanningCompare
<1>3. s = EpicChildren(steps, tree)
  BY DEF Sorted, EpicChildren
<1> HIDE DEF L, less
<1>4. \A k \in 1 .. Cardinality(S) : \E x \in S : at(k, x)
  <2>1. \A k \in 1 .. Cardinality(S) : \E x \in S : Cardinality(BeforeIn(L, S, x)) = k - 1
    BY <1>0, <1>1, RanksAre
  <2> QED BY <1>2, <2>1
<1>5. \A k \in 1 .. Cardinality(S) : s[k] \in S /\ at(k, s[k])
  <2> HIDE DEF at
  <2> QED BY <1>4
<1>6. s \in [1 .. Cardinality(S) -> S]
  <2> HIDE DEF at
  <2> QED BY <1>4
<1>7. \A k \in 1 .. Cardinality(S) : Cardinality(BeforeIn(L, S, s[k])) = k - 1
  <2> HIDE DEF s
  <2> QED BY <1>2, <1>5
<1>8. Lists(s, L, S)
  <2> HIDE DEF s
  <2> QED BY <1>0, <1>1, <1>6, <1>7, SortedLists
<1> HIDE DEF s
<1> QED BY <1>3, <1>8 DEF L

-----------------------------------------------------------------------------
(* The stages of a chain *)

(* A finite set of numbers has a greatest one.                             *)
LEMMA GreatestIs ==
  ASSUME NEW S \in SUBSET Nat, IsFiniteSet(S), S # {}
  PROVE  Greatest(S) \in S /\ \A y \in S : y <= Greatest(S)
<1> DEFINE L == IdOrder(FALSE, S)
<1>1. IsOrder(L, S)
  BY IdsInOrder
<1>2. Cardinality(S) \in Nat \ {0}
  BY FS_CardinalityType, FS_EmptySet
<1>3. PICK x \in S : Cardinality(BeforeIn(L, S, x)) = Cardinality(S) - 1
  <2>1. Cardinality(S) \in 1 .. Cardinality(S)
    BY <1>2
  <2> HIDE DEF L
  <2> QED BY <1>1, <2>1, RanksAre
<1>4. BeforeIn(L, S, x) = {y \in S : y < x}
  BY DEF BeforeIn, IdOrder
<1>5. {y \in S : y < x} = S \ {x}
  <2>1. {y \in S : y < x} \subseteq S \ {x}
    OBVIOUS
  <2>2. Cardinality(S \ {x}) = Cardinality(S) - 1 /\ IsFiniteSet(S \ {x})
    BY FS_RemoveElement
  <2> QED BY <1>3, <1>4, <2>1, <2>2, FS_Subset
<1>6. \A y \in S : y <= x
  BY <1>5
<1> QED BY <1>6 DEF Greatest

Ready(E, S) == {i \in Ends(E) : \A e \in E : e[2] = i => e[1] \in S}

IsNumbering(met, E) ==
  /\ Numbered(E) = met[Cardinality(Ends(E))] /\ met[0] = {}
  /\ \A n \in 1 .. Cardinality(Ends(E)) : met[n] = Ready(E, met[n - 1])

(* Finitely many connections have finitely many ends.                      *)
LEMMA EndsFinite ==
  ASSUME NEW E, IsFiniteSet(E) PROVE IsFiniteSet(Ends(E)) /\ Cardinality(Ends(E)) \in Nat
<1>1. IsFiniteSet({e[1] : e \in E})
  <2> DEFINE f == [e \in E |-> e[1]]
  <2>1. f \in Surjection(E, {e[1] : e \in E})
    BY DEF Surjection
  <2> QED BY <2>1, FS_Surjection
<1>2. IsFiniteSet({e[2] : e \in E})
  <2> DEFINE f == [e \in E |-> e[2]]
  <2>1. f \in Surjection(E, {e[2] : e \in E})
    BY DEF Surjection
  <2> QED BY <2>1, FS_Surjection
<1> QED BY <1>1, <1>2, FS_Union, FS_CardinalityType DEF Ends

(* Kahn's loop, one round after the other.                                 *)
LEMMA NumberingMet ==
  ASSUME NEW E, IsFiniteSet(E) PROVE \E met : IsNumbering(met, E)
<1> DEFINE K == Cardinality(Ends(E))
           U == SUBSET Ends(E)
           F == [S \in U |-> Ready(E, S)]
           Levels(g) == g = [n \in 0 .. K |-> IF n = 0 THEN {} ELSE Ready(E, g[n - 1])]
           met == CHOOSE g : Levels(g)
<1>1. K \in Nat
  BY EndsFinite
<1>2. F \in [U -> U]
  BY DEF Ready
<1>3. PICK g \in [0 .. K -> U] : g[0] = {} /\ \A n \in 1 .. K : g[n] = F[g[n - 1]]
  <2>1. {} \in U
    OBVIOUS
  <2> HIDE DEF K, U, F
  <2>2. Repetitions(K, U, {}, F) # {}
    BY <1>1, <1>2, <2>1, Repeated
  <2> QED BY <2>2 DEF Repetitions
<1>4. \A n \in 1 .. K : g[n] = Ready(E, g[n - 1])
  <2>1. \A n \in 1 .. K : n - 1 \in 0 .. K
    BY <1>1
  <2>2. \A n \in 1 .. K : g[n - 1] \in U
    <3> HIDE DEF U
    <3> QED BY <2>1, <1>3
  <2> HIDE DEF U
  <2> QED BY <2>2, <1>3
<1>5. Levels(g)
  <2>1. \A n \in 0 .. K : n = 0 \/ n \in 1 .. K
    BY <1>1
  <2> HIDE DEF K, U, F
  <2> QED BY <1>3, <1>4, <2>1
<1>6. Levels(met)
  <2> HIDE DEF Levels
  <2> QED BY <1>5
<1>7. met[0] = {} /\ \A n \in 1 .. K : met[n] = Ready(E, met[n - 1])
  <2>1. 0 \in 0 .. K /\ \A n \in 1 .. K : n \in 0 .. K /\ n # 0
    BY <1>1
  <2> HIDE DEF met
  <2> QED BY <1>6, <2>1
<1>8. Numbered(E) = met[K]
  BY DEF Numbered, Ready
<1>9. IsNumbering(met, E)
  <2> HIDE DEF met
  <2> QED BY <1>7, <1>8 DEF IsNumbering
<1> QED BY <1>9

(* Each round keeps what is numbered.                                      *)
LEMMA NumberingGrows ==
  ASSUME NEW E, IsFiniteSet(E), NEW met, IsNumbering(met, E)
  PROVE  /\ \A n \in 0 .. Cardinality(Ends(E)) : met[n] \subseteq Ends(E)
         /\ \A n \in 1 .. Cardinality(Ends(E)) : met[n - 1] \subseteq met[n]
<1> DEFINE K == Cardinality(Ends(E))
           bad == {n \in 1 .. K : ~(met[n - 1] \subseteq met[n])}
<1>1. K \in Nat
  BY EndsFinite
<1>2. met[0] = {} /\ \A n \in 1 .. K : met[n] = Ready(E, met[n - 1])
  BY DEF IsNumbering
<1> HIDE DEF K
<1>3. ASSUME NEW n \in 0 .. K PROVE met[n] \subseteq Ends(E)
  <2>1. n = 0 \/ n \in 1 .. K
    BY <1>1
  <2> QED BY <1>2, <2>1 DEF Ready
<1>4. bad = {}
  <2> SUFFICES ASSUME bad # {} PROVE FALSE
    OBVIOUS
  <2>1. PICK n \in bad : \A m \in bad : n <= m
    <3>1. bad \in SUBSET Nat
      OBVIOUS
    <3> HIDE DEF bad
    <3> QED BY <3>1, LeastNumber
  <2>2. n \in 1 .. K /\ ~(met[n - 1] \subseteq met[n])
    OBVIOUS
  <2>3. n # 1
    <3>1. n = 1 => n - 1 = 0
      BY <2>2
    <3> QED BY <1>2, <2>2, <3>1
  <2>4. n - 1 \in 1 .. K /\ ~(n <= n - 1)
    BY <1>1, <2>2, <2>3
  <2>5. n - 1 \notin bad
    <3> HIDE DEF bad
    <3> QED BY <2>1, <2>4
  <2>6. met[(n - 1) - 1] \subseteq met[n - 1]
    BY <2>4, <2>5
  <2>7. met[n] = Ready(E, met[n - 1]) /\ met[n - 1] = Ready(E, met[(n - 1) - 1])
    BY <1>2, <2>2, <2>4
  <2> HIDE DEF bad
  <2> QED BY <2>2, <2>6, <2>7 DEF Ready
<1> QED BY <1>3, <1>4 DEF K

(* The numbered prerequisites of i.                                        *)
NumberedBefore(E, i) == {p \in Numbered(E) : <<p, i>> \in E}

(* The stage of i when its prerequisites have those of g.                  *)
StageFrom(E, g, i) ==
  IF NumberedBefore(E, i) = {} THEN 1 ELSE 1 + Greatest({g[p] : p \in NumberedBefore(E, i)})

(* A set of numbers of some tickets has a greatest one.                    *)
LEMMA StageTyped ==
  ASSUME NEW E, IsFiniteSet(E), NEW g, NEW i, \A p \in NumberedBefore(E, i) : g[p] \in Nat
  PROVE  /\ StageFrom(E, g, i) \in Nat \ {0}
         /\ \A p \in NumberedBefore(E, i) : g[p] < StageFrom(E, g, i)
<1> DEFINE B == NumberedBefore(E, i)
           S == {g[p] : p \in B}
<1>1. IsFiniteSet(B)
  <2>1. IsFiniteSet(Ends(E))
    BY EndsFinite
  <2>2. B \subseteq Ends(E)
    BY DEF NumberedBefore, Ends
  <2> QED BY <2>1, <2>2, FS_Subset
<1> HIDE DEF B
<1>2. IsFiniteSet(S)
  <2> DEFINE f == [p \in B |-> g[p]]
  <2>1. f \in Surjection(B, S)
    BY DEF Surjection
  <2> QED BY <1>1, <2>1, FS_Surjection
<1>3. S \in SUBSET Nat
  BY DEF B
<1>4. StageFrom(E, g, i) = IF B = {} THEN 1 ELSE 1 + Greatest(S)
  BY DEF StageFrom, B
<1>5. B # {} => S # {}
  OBVIOUS
<1>6. \A p \in B : g[p] \in S
  OBVIOUS
<1> HIDE DEF S
<1>7. S # {} => Greatest(S) \in S /\ \A y \in S : y <= Greatest(S)
  BY <1>2, <1>3, GreatestIs
<1>8. StageFrom(E, g, i) \in Nat \ {0}
  <2>1. CASE B = {}
    BY <1>4, <2>1
  <2>2. CASE B # {}
    <3>1. Greatest(S) \in Nat
      BY <1>3, <1>5, <1>7, <2>2
    <3> QED BY <1>4, <2>2, <3>1
  <2> QED BY <2>1, <2>2
<1>9. \A p \in B : g[p] < StageFrom(E, g, i)
  <2> TAKE p \in B
  <2>1. g[p] \in S /\ S # {} /\ B # {}
    BY <1>6
  <2>2. g[p] \in Nat /\ Greatest(S) \in Nat /\ g[p] <= Greatest(S)
    BY <1>3, <1>7, <2>1
  <2> QED BY <1>4, <2>1, <2>2
<1> QED BY <1>8, <1>9 DEF B

(* The prerequisites of a numbered task were numbered before it.           *)
LEMMA NumberedBeforeIs ==
  ASSUME NEW E, IsFiniteSet(E), NEW met, IsNumbering(met, E)
  PROVE  \A n \in 1 .. Cardinality(Ends(E)) : \A i \in met[n] : NumberedBefore(E, i) \subseteq met[n - 1]
<1> TAKE n \in 1 .. Cardinality(Ends(E))
<1> TAKE i \in met[n]
<1>1. met[n] = Ready(E, met[n - 1])
  BY DEF IsNumbering
<1>2. ASSUME NEW p \in NumberedBefore(E, i) PROVE p \in met[n - 1]
  <2>1. <<p, i>> \in E
    BY DEF NumberedBefore
  <2>2. \A e \in E : e[2] = i => e[1] \in met[n - 1]
    BY <1>1 DEF Ready
  <2> QED BY <2>1, <2>2
<1> QED BY <1>2

Leveled(E, id, level) == level = [i \in Ends(E) \union {id} |-> StageFrom(E, level, i)]

(* Kahn's numbering exists: repeated as often as there are tickets it does *)
(* not change any more.                                                    *)
LEMMA LevelExists ==
  ASSUME NEW E, IsFiniteSet(E), NEW id PROVE \E level : Leveled(E, id, level)
<1> DEFINE K == Cardinality(Ends(E))
           D == Ends(E) \union {id}
           U == [D -> Nat]
           start == [i \in D |-> 1]
           F == [g \in U |-> [i \in D |-> StageFrom(E, g, i)]]
<1>1. K \in Nat
  BY EndsFinite
<1>2. PICK met : IsNumbering(met, E)
  BY NumberingMet
<1>2a. \A i : NumberedBefore(E, i) \subseteq Ends(E) /\ NumberedBefore(E, i) \subseteq met[K]
  BY <1>2 DEF NumberedBefore, Ends, IsNumbering
<1>3. F \in [U -> U]
  <2>1. ASSUME NEW g \in U, NEW i \in D PROVE StageFrom(E, g, i) \in Nat
    <3>1. \A p \in NumberedBefore(E, i) : g[p] \in Nat
      BY <1>2a
    <3> QED BY <3>1, StageTyped
  <2> QED BY <2>1
<1>4. PICK G \in [0 .. K + 1 -> U] : G[0] = start /\ \A n \in 1 .. K + 1 : G[n] = F[G[n - 1]]
  <2>1. start \in U /\ K + 1 \in Nat
    BY <1>1
  <2> HIDE DEF K, U, F, start
  <2>2. Repetitions(K + 1, U, start, F) # {}
    BY <1>3, <2>1, Repeated
  <2> QED BY <2>2 DEF Repetitions
<1>5. \A n \in 1 .. K + 1 : G[n] = [i \in D |-> StageFrom(E, G[n - 1], i)]
  <2>1. \A n \in 1 .. K + 1 : n - 1 \in 0 .. K + 1
    BY <1>1
  <2>2. \A n \in 1 .. K + 1 : G[n - 1] \in U
    <3> HIDE DEF U
    <3> QED BY <2>1, <1>4
  <2> HIDE DEF U, D
  <2> QED BY <2>2, <1>4
<1>6. \A n \in 0 .. K : \A i \in met[n] : i \in D
  BY <1>2, NumberingGrows
<1> HIDE DEF D, F, start, U, K
<1> DEFINE bad == {n \in 0 .. K : \E i \in met[n] : G[n + 1][i] # G[n][i]}
<1>7. bad = {}
  <2> SUFFICES ASSUME bad # {} PROVE FALSE
    OBVIOUS
  <2>1. PICK n \in bad : \A m \in bad : n <= m
    <3>1. bad \in SUBSET Nat
      OBVIOUS
    <3> HIDE DEF bad
    <3> QED BY <3>1, LeastNumber
  <2>2. n \in 0 .. K /\ \E i \in met[n] : G[n + 1][i] # G[n][i]
    OBVIOUS
  <2>3. PICK i \in met[n] : G[n + 1][i] # G[n][i]
    BY <2>2
  <2>4. n # 0
    BY <1>2, <2>3 DEF IsNumbering
  <2>5. n \in 1 .. K /\ n - 1 \in 0 .. K /\ ~(n <= n - 1) /\ n \in 1 .. K + 1 /\ n + 1 \in 1 .. K + 1
        /\ (n + 1) - 1 = n /\ (n - 1) + 1 = n
    BY <1>1, <2>2, <2>4
  <2>6. n - 1 \notin bad
    <3> HIDE DEF bad
    <3> QED BY <2>1, <2>5
  <2>7. \A p \in met[n - 1] : G[n][p] = G[n - 1][p]
    BY <2>5, <2>6
  <2> HIDE DEF bad
  <2>8. NumberedBefore(E, i) \subseteq met[n - 1] /\ i \in D
    BY <1>2, <1>6, <2>2, <2>5, NumberedBeforeIs DEF K
  <2>9. G[n + 1][i] = StageFrom(E, G[n], i) /\ G[n][i] = StageFrom(E, G[n - 1], i)
    <3>1. G[n + 1] = [j \in D |-> StageFrom(E, G[(n + 1) - 1], j)]
      BY <1>5, <2>5
    <3>2. G[n] = [j \in D |-> StageFrom(E, G[n - 1], j)]
      BY <1>5, <2>5
    <3> QED BY <2>5, <2>8, <3>1, <3>2
  <2>10. {G[n][p] : p \in NumberedBefore(E, i)} = {G[n - 1][p] : p \in NumberedBefore(E, i)}
    BY <2>7, <2>8
  <2>11. StageFrom(E, G[n], i) = StageFrom(E, G[n - 1], i)
    BY <2>10 DEF StageFrom
  <2> QED BY <2>3, <2>9, <2>11
<1>8. \A p \in met[K] : G[K + 1][p] = G[K][p]
  <2>1. K \in 0 .. K
    BY <1>1
  <2> QED BY <1>7, <2>1
<1> HIDE DEF bad
<1> DEFINE level == G[K + 1]
<1>9. level = [i \in D |-> StageFrom(E, G[K], i)]
  <2>1. K + 1 \in 1 .. K + 1 /\ (K + 1) - 1 = K
    BY <1>1
  <2> QED BY <1>5, <2>1
<1>10. \A p \in met[K] : level[p] = G[K][p]
  BY <1>8
<1> HIDE DEF level
<1>11. ASSUME NEW i \in D PROVE StageFrom(E, G[K], i) = StageFrom(E, level, i)
  <2>1. {level[p] : p \in NumberedBefore(E, i)} = {G[K][p] : p \in NumberedBefore(E, i)}
    BY <1>2a, <1>10
  <2> QED BY <2>1 DEF StageFrom
<1>12. level = [i \in D |-> StageFrom(E, level, i)]
  BY <1>9, <1>11
<1> QED BY <1>12 DEF Leveled, D

(* DependencySteps numbers the ends of the connections and the opened task,*)
(* each behind its numbered prerequisites.                                 *)
LEMMA StepsAre ==
  ASSUME NEW E, IsFiniteSet(E), NEW id
  PROVE  LET steps == DependencySteps(E, id)
             V == Valid(E)
         IN /\ DOMAIN steps = Ends(V) \union {id}
            /\ \A i \in DOMAIN steps : steps[i] \in Nat \ {0}
            /\ \A i \in DOMAIN steps : \A p \in NumberedBefore(V, i) : steps[p] < steps[i]
<1> DEFINE V == Valid(E)
           level == CHOOSE g : Leveled(V, id, g)
           K == Cardinality(Ends(V))
<1>0. IsFiniteSet(V)
  BY FS_Subset DEF Valid
<1>1. DependencySteps(E, id) = level
  BY DEF DependencySteps, Leveled, StageFrom, NumberedBefore
<1> HIDE DEF V
<1>2. Leveled(V, id, level)
  BY <1>0, LevelExists
<1> HIDE DEF level
<1>3. /\ DOMAIN level = Ends(V) \union {id}
      /\ \A i \in DOMAIN level : level[i] = StageFrom(V, level, i)
  BY <1>2 DEF Leveled
<1>4. K \in Nat
  BY <1>0, EndsFinite
<1>5. PICK met : IsNumbering(met, V)
  BY <1>0, NumberingMet
<1>5a. \A i : NumberedBefore(V, i) \subseteq met[K]
  BY <1>5 DEF NumberedBefore, IsNumbering
<1>6. \A n \in 0 .. K : \A i \in met[n] : i \in DOMAIN level
  BY <1>0, <1>3, <1>5, NumberingGrows
<1> DEFINE bad == {n \in 0 .. K : \E i \in met[n] : level[i] \notin Nat}
<1> HIDE DEF K
<1>7. bad = {}
  <2> SUFFICES ASSUME bad # {} PROVE FALSE
    OBVIOUS
  <2>1. PICK n \in bad : \A m \in bad : n <= m
    <3>1. bad \in SUBSET Nat
      BY <1>4
    <3> HIDE DEF bad
    <3> QED BY <3>1, LeastNumber
  <2>2. n \in 0 .. K /\ \E i \in met[n] : level[i] \notin Nat
    OBVIOUS
  <2>3. PICK i \in met[n] : level[i] \notin Nat
    BY <2>2
  <2>4. n # 0
    BY <1>5, <2>3 DEF IsNumbering
  <2>5. n \in 1 .. K /\ n - 1 \in 0 .. K /\ ~(n <= n - 1)
    BY <1>4, <2>2, <2>4
  <2>6. n - 1 \notin bad
    <3> HIDE DEF bad
    <3> QED BY <2>1, <2>5
  <2>7. \A p \in met[n - 1] : level[p] \in Nat
    BY <2>5, <2>6
  <2> HIDE DEF bad
  <2>8. NumberedBefore(V, i) \subseteq met[n - 1] /\ i \in DOMAIN level
    BY <1>0, <1>5, <1>6, <2>2, <2>5, NumberedBeforeIs DEF K
  <2>9. level[i] = StageFrom(V, level, i)
    BY <1>3, <2>8
  <2>10. StageFrom(V, level, i) \in Nat
    BY <1>0, <2>7, <2>8, StageTyped
  <2> QED BY <2>3, <2>9, <2>10
<1>8. \A p \in met[K] : level[p] \in Nat
  <2>1. K \in 0 .. K
    BY <1>4
  <2> QED BY <1>7, <2>1
<1> HIDE DEF bad
<1>9. ASSUME NEW i \in DOMAIN level
      PROVE  level[i] \in Nat \ {0} /\ \A p \in NumberedBefore(V, i) : level[p] < level[i]
  <2>1. \A p \in NumberedBefore(V, i) : level[p] \in Nat
    BY <1>5a, <1>8
  <2>2. level[i] = StageFrom(V, level, i)
    BY <1>3
  <2> QED BY <1>0, <2>1, <2>2, StageTyped
<1> QED BY <1>1, <1>3, <1>9 DEF V

-----------------------------------------------------------------------------
(* The rows of the Overview *)

TopOf(b) == [x \in DOMAIN b.tickets |-> TopEpicFor(b, x)]

(* Such a list is a sequence over any larger set.                          *)
LEMMA ListIs ==
  ASSUME NEW S, NEW s, NEW L, Lists(s, L, S), NEW U, S \subseteq U
  PROVE  s \in Seq(U) /\ Range(s) = S /\ IsInjective(s)
BY DEF Lists

(* The groups of the Overview.                                             *)
OverviewGroupsAre(b, u, d, R, heads, members, tail) ==
  LET below(e) == IF e \in u.collapsed THEN {} ELSE {i \in R : TopEpicFor(b, i) = e /\ i # e}
      L(S) == Staged(d.steps, OverviewOrderPairs(b, u.order), S)
      loose == {i \in R : TopEpicFor(b, i) = 0}
  IN /\ Grouping(DOMAIN b.tickets, heads, members, tail, TopOf(b))
     /\ OverviewGroupedRows(b, u, d, R) = GroupRows(heads, members, tail)
     /\ Range(heads) = {TopEpicFor(b, i) : i \in R} \ {0}
     /\ \A e \in Range(heads) : Lists(members[e], L(below(e)), below(e))
     /\ Lists(tail, L(loose), loose)

(* Such groups exist.                                                      *)
LEMMA OverviewGroups ==
  ASSUME NEW b, IsBoard(b), EpicsHaveNoParent(b), NEW u, u.order \in [key : SortKeys, descending : BOOLEAN],
         NEW d, StepsTyped(d.steps), NEW R \in SUBSET WorkTickets(b)
  PROVE  \E heads, members, tail : OverviewGroupsAre(b, u, d, R, heads, members, tail)
<1> DEFINE D == DOMAIN b.tickets
           H == {TopEpicFor(b, i) : i \in R} \ {0}
           sorted(S) == OverviewSorted(b, d.steps, u.order, S)
           below(e) == IF e \in u.collapsed THEN {} ELSE {i \in R : TopEpicFor(b, i) = e /\ i # e}
           loose == {i \in R : TopEpicFor(b, i) = 0}
           L(S) == Staged(d.steps, OverviewOrderPairs(b, u.order), S)
           heads == ManualSorted(b, H)
           members == [e \in H |-> sorted(below(e))]
           tail == sorted(loose)
<1>1. R \subseteq D /\ H \subseteq D /\ loose \subseteq D /\ \A e : below(e) \subseteq D
  <2>1. R \subseteq D
    BY DEF WorkTickets
  <2>2. H \subseteq D
    BY <2>1, TopTyped
  <2> QED BY <2>1, <2>2
<1>2. Lists(heads, TicketOrderPairs(b), H)
  BY <1>1, ManualLists
<1>3. \A S \in SUBSET D : Lists(sorted(S), L(S), S)
  BY OverviewLists
<1>4. \A e \in H : members[e] = sorted(below(e)) /\ Lists(members[e], L(below(e)), below(e))
  <2> HIDE DEF H, below
  <2> QED BY <1>1, <1>3
<1>5. Lists(tail, L(loose), loose)
  BY <1>1, <1>3
<1>6. OverviewGroupedRows(b, u, d, R) =
        FlattenSeq([k \in DOMAIN heads |-> <<heads[k]>> \o sorted(below(heads[k]))]) \o tail
  BY DEF OverviewGroupedRows, OverviewSorted, ManualSorted
<1> HIDE DEF sorted, L
<1>7. heads \in Seq(D) /\ Range(heads) = H /\ IsInjective(heads)
  <2> HIDE DEF heads, H
  <2> QED BY <1>1, <1>2, ListIs
<1>8. tail \in Seq(D) /\ Range(tail) = loose /\ IsInjective(tail)
  <2> HIDE DEF tail, loose
  <2> QED BY <1>1, <1>5, ListIs
<1>9. \A e \in H : members[e] \in Seq(D) /\ Range(members[e]) = below(e) /\ IsInjective(members[e])
  <2> HIDE DEF members, H, below
  <2> QED BY <1>1, <1>4, ListIs
<1>10. \A k \in DOMAIN heads : heads[k] \in H
  BY <1>7 DEF Range
<1>11. [k \in DOMAIN heads |-> <<heads[k]>> \o sorted(below(heads[k]))]
         = [k \in DOMAIN heads |-> HeadedGroup(members, heads[k])]
  <2>1. \A k \in DOMAIN heads : HeadedGroup(members, heads[k]) = <<heads[k]>> \o sorted(below(heads[k]))
    <3> HIDE DEF heads, members, below
    <3> QED BY <1>4, <1>10 DEF HeadedGroup
  <2> HIDE DEF heads, members, below
  <2> QED BY <2>1
<1>12. OverviewGroupedRows(b, u, d, R) = GroupRows(heads, members, tail)
  BY <1>6, <1>11 DEF GroupRows
<1>13. \A e \in H : e # 0 /\ TopOf(b)[e] = e
  <2>1. ASSUME NEW i \in R, TopEpicFor(b, i) # 0
        PROVE  TopEpicFor(b, TopEpicFor(b, i)) = TopEpicFor(b, i)
    BY <1>1, <2>1, TopTyped
  <2> QED BY <1>1, <2>1 DEF TopOf
<1>14. (\A e \in H : \A x \in below(e) : TopOf(b)[x] = e /\ x # e) /\ \A x \in loose : TopOf(b)[x] = 0
  BY <1>1 DEF TopOf
<1>15. members \in [H -> Seq(D)]
  <2>1. members = [e \in H |-> members[e]]
    OBVIOUS
  <2> HIDE DEF members, H
  <2> QED BY <1>9, <2>1
<1> HIDE DEF heads, members, tail, H, below, loose
<1>16. Grouping(D, heads, members, tail, TopOf(b))
  BY <1>7, <1>8, <1>9, <1>13, <1>14, <1>15 DEF Grouping
<1>17. OverviewGroupsAre(b, u, d, R, heads, members, tail)
  BY <1>4, <1>5, <1>7, <1>12, <1>16 DEF OverviewGroupsAre, H, below, loose, L
<1> QED BY <1>17

(* Rows in such groups.                                                    *)
LEMMA GroupsAreOnce ==
  ASSUME NEW heads, NEW members, NEW tail,
         Grouping(DOMAIN T, heads, members, tail, TopOf(board)),
         NEW rows, rows = GroupRows(heads, members, tail), NEW tickets,
         \A i \in tickets : i \in Range(rows) \/ Epic(i) \in ui.collapsed
  PROVE  Range(rows) \subseteq DOMAIN T /\ GroupedOnce(rows, tickets)
<1> DEFINE E == TopOf(board)
<1>1. rows \in Seq(DOMAIN T) /\ IsInjective(rows)
  BY GroupsGrouped
<1>2. Range(rows) \subseteq DOMAIN T
  BY <1>1 DEF Range
<1>3. \A i \in Range(rows) : E[i] = Epic(i)
  BY <1>2 DEF TopOf, T, Epic
<1>4. ASSUME NEW i \in Range(rows), Epic(i) \notin {0, i}
      PROVE  /\ Epic(i) \in Range(rows) /\ Place(rows, Epic(i)) < Place(rows, i)
             /\ \A e \in Range(rows) :
                  Epic(e) = e => ~(Place(rows, Epic(i)) < Place(rows, e) /\ Place(rows, e) < Place(rows, i))
  <2>1. E[i] # 0 /\ E[i] # i
    BY <1>3, <1>4
  <2> HIDE DEF E
  <2>2. /\ E[i] \in Range(rows) /\ Place(rows, E[i]) < Place(rows, i)
        /\ \A e \in Range(rows) :
             E[e] = e => ~(Place(rows, E[i]) < Place(rows, e) /\ Place(rows, e) < Place(rows, i))
    BY <2>1, MembersFollow DEF E
  <2> QED BY <1>3, <2>2
<1> QED BY <1>1, <1>2, <1>4 DEF GroupedOnce

(* A Sprint shows work of the board.                                       *)
LEMMA SprintWorkIsWork ==
  ASSUME NEW b, NEW u, NEW S \in SUBSET WorkTickets(b)
  PROVE  SprintFilteredWork(b, u, S) \subseteq WorkTickets(b)
BY DEF SprintFilteredWork, WithEpics

(* What one rendering shows: work, and stages that are numbers.            *)
LEMMA SnapshotIs ==
  ASSUME NEW b, IsBoard(b), NEW u
  PROVE  /\ Snapshot(b, u).work \subseteq WorkTickets(b)
         /\ Snapshot(b, u).ids = DependencyViewIds(b, u)
         /\ StepsTyped(Snapshot(b, u).steps)
<1> DEFINE work == SprintFilteredWork(b, u, WorkTickets(b))
           ids == DependencyViewIds(b, u)
           E == {e \in DependencyHoverEdges(b, work) : {e[1], e[2]} \subseteq ids}
           steps == DependencyOrderSteps(b, u, ids, work)
<1>1. Snapshot(b, u).work = PlanningWork(b, u, ids) /\ Snapshot(b, u).ids = ids /\ Snapshot(b, u).steps = steps
  BY DEF Snapshot, DependencySnapshot
<1>2. work \subseteq WorkTickets(b)
  BY SprintWorkIsWork
<1>3. IsFiniteSet(E)
  <2>1. IsFiniteSet(DependencyHoverEdges(b, work))
    <3> HIDE DEF work
    <3> QED BY <1>2, EdgesAre
  <2> QED BY <2>1, FS_Subset
<1>4. steps = <<>> \/ steps = DependencySteps(E, u.focus)
  BY DEF DependencyOrderSteps
<1> HIDE DEF steps, E, ids, work
<1>5. \A i \in DOMAIN DependencySteps(E, u.focus) : DependencySteps(E, u.focus)[i] \in Nat \ {0}
  BY <1>3, StepsAre
<1>6. DOMAIN <<>> = {}
  OBVIOUS
<1>7. StepsTyped(steps)
  BY <1>4, <1>5, <1>6 DEF StepsTyped
<1> QED BY <1>1, <1>7, ShownIsWork DEF ids

(* The rows of the Overview.                                               *)
LEMMA OverviewOnce ==
  ASSUME IsBoard(board), EpicsHaveNoParent(board), ui \in PageChoices
  PROVE  /\ GroupedOnce(OverviewRows(board, ui, Drawn), OverviewFiltered(board, ui, Drawn))
         /\ Indented(OverviewRows(board, ui, Drawn), OverviewHierarchyDepth)
<1> DEFINE R == OverviewFiltered(board, ui, Drawn)
           rows == OverviewRows(board, ui, Drawn)
           below(e) == IF e \in ui.collapsed THEN {} ELSE {i \in R : TopEpicFor(board, i) = e /\ i # e}
           loose == {i \in R : TopEpicFor(board, i) = 0}
<1>1. Drawn.work \subseteq WorkTickets(board) /\ StepsTyped(Drawn.steps)
  BY SnapshotIs DEF Drawn
<1>2. R \subseteq WorkTickets(board)
  BY <1>1 DEF OverviewFiltered
<1>3. rows = OverviewGroupedRows(board, ui, Drawn, R)
  BY DEF OverviewRows
<1>4. ui.order \in [key : SortKeys, descending : BOOLEAN]
  BY DEF PageChoices
<1> HIDE DEF R
<1>5. PICK heads, members, tail : OverviewGroupsAre(board, ui, Drawn, R, heads, members, tail)
  <2>1. \E heads, members, tail : OverviewGroupsAre(board, ui, Drawn, R, heads, members, tail)
    BY <1>1, <1>2, <1>4, OverviewGroups
  <2> QED BY <2>1
<1>6. /\ Grouping(DOMAIN T, heads, members, tail, TopOf(board))
      /\ rows = GroupRows(heads, members, tail)
      /\ Range(heads) = {TopEpicFor(board, i) : i \in R} \ {0}
      /\ \A e \in Range(heads) : Range(members[e]) = below(e)
      /\ Range(tail) = loose
  BY <1>3, <1>5 DEF OverviewGroupsAre, Lists, T
<1>7. Range(rows) = Range(heads) \union Range(tail) \union UNION {Range(members[e]) : e \in Range(heads)}
  BY <1>6, GroupsGrouped
<1> HIDE DEF rows
<1>8. \A i \in R : i \in Range(rows) \/ Epic(i) \in ui.collapsed
  <2> TAKE i \in R
  <2>1. CASE Epic(i) = 0
    BY <1>6, <1>7, <2>1 DEF Epic
  <2>2. CASE Epic(i) = i /\ Epic(i) # 0
    BY <1>6, <1>7, <2>2 DEF Epic
  <2>3. CASE Epic(i) \notin {0, i} /\ Epic(i) \notin ui.collapsed
    <3>1. Epic(i) \in Range(heads) /\ i \in below(Epic(i))
      BY <1>6, <2>3 DEF Epic
    <3>2. Range(members[Epic(i)]) = below(Epic(i))
      <4> HIDE DEF below
      <4> QED BY <1>6, <3>1
    <3>3. i \in Range(members[Epic(i)])
      <4> HIDE DEF below
      <4> QED BY <3>1, <3>2
    <3> QED BY <1>7, <3>1, <3>3
  <2> QED BY <2>1, <2>2, <2>3
<1>9. Range(rows) \subseteq DOMAIN T /\ GroupedOnce(rows, R)
  BY <1>6, <1>8, GroupsAreOnce
<1>10. Indented(rows, OverviewHierarchyDepth)
  <2>1. ASSUME NEW i \in Range(rows), Epic(i) \notin {0, i}
        PROVE  OverviewHierarchyDepth(board, i, Epic(i)) =
                 IF T[i].parent = Epic(i) THEN 1
                 ELSE Least(4, 1 + OverviewHierarchyDepth(board, T[i].parent, Epic(i)))
    BY <1>9, <2>1, DepthsGrow DEF Epic, T
  <2> QED BY <2>1 DEF Indented
<1> QED BY <1>9, <1>10 DEF rows, R

-----------------------------------------------------------------------------
(* The tasks below an Epic of the Timeline *)

(* What is listed below p when f lists what is below its children.         *)
Gathering(b, tasks, p, f) ==
  FlattenSeq([k \in DOMAIN TimelineChildTickets(b, p) |->
    LET child == TimelineChildTickets(b, p)[k]
    IN (IF child \in tasks THEN <<child>> ELSE <<>>) \o f[child]])

(* The children of a ticket, each listed.                                  *)
LEMMA ChildrenListed ==
  ASSUME NEW b, IsBoard(b), NEW p
  PROVE  /\ TimelineChildTickets(b, p) \in Seq(DOMAIN b.tickets)
         /\ Range(TimelineChildTickets(b, p)) = Children(b, p)
         /\ Children(b, p) \subseteq DOMAIN b.tickets
<1>1. Children(b, p) \subseteq DOMAIN b.tickets
  BY DEF Children, ChildTickets, WorkTickets
<1>2. TimelineChildTickets(b, p) = ChildSorted(b, Children(b, p))
  BY DEF TimelineChildTickets, ChildSorted, Children
<1>3. Lists(ChildSorted(b, Children(b, p)), TimelineTreeOrderPairs(b), Children(b, p))
  BY <1>1, ChildLists
<1> QED BY <1>1, <1>2, <1>3, ListIs

(* A list of one row.                                                      *)
LEMMA OneRow ==
  ASSUME NEW S, NEW x \in S PROVE <<x>> \in Seq(S) /\ Range(<<x>>) = {x}
BY DEF Range

(* It lists the children that are tasks, and what f lists.                 *)
LEMMA GatheringIs ==
  ASSUME NEW b, IsBoard(b), NEW tasks, NEW p, NEW f \in [DOMAIN b.tickets -> Seq(DOMAIN b.tickets)]
  PROVE  /\ Gathering(b, tasks, p, f) \in Seq(DOMAIN b.tickets)
         /\ Range(Gathering(b, tasks, p, f)) =
              UNION {({child} \intersect tasks) \union Range(f[child]) : child \in Children(b, p)}
<1> DEFINE D == DOMAIN b.tickets
           kids == TimelineChildTickets(b, p)
           one(child) == IF child \in tasks THEN <<child>> ELSE <<>>
           group(child) == one(child) \o f[child]
           groups == [k \in DOMAIN kids |-> group(kids[k])]
<1>1. kids \in Seq(D) /\ Range(kids) = Children(b, p) /\ Children(b, p) \subseteq D
  BY ChildrenListed
<1>2. DOMAIN kids = 1 .. Len(kids) /\ Len(kids) \in Nat /\ \A k \in DOMAIN kids : kids[k] \in Children(b, p)
  <2> HIDE DEF kids
  <2> QED BY <1>1, LenProperties DEF Range
<1>3. Gathering(b, tasks, p, f) = FlattenSeq(groups)
  BY DEF Gathering
<1>4. ASSUME NEW child \in Children(b, p)
      PROVE  group(child) \in Seq(D) /\ Range(group(child)) = ({child} \intersect tasks) \union Range(f[child])
  <2>1. child \in D /\ f[child] \in Seq(D)
    BY <1>1
  <2>2. one(child) \in Seq(D) /\ Range(one(child)) = {child} \intersect tasks
    <3>1. CASE child \in tasks
      <4>1. <<child>> \in Seq(D) /\ Range(<<child>>) = {child}
        BY <2>1, OneRow
      <4> QED BY <3>1, <4>1
    <3>2. CASE child \notin tasks
      <4>1. <<>> \in Seq(D) /\ Range(<<>>) = {}
        BY DEF Range
      <4> QED BY <3>2, <4>1
    <3> QED BY <3>1, <3>2
  <2> DEFINE g == f[child]
             h == one(child)
  <2>3. h \in Seq(D) /\ g \in Seq(D)
    BY <2>1, <2>2
  <2> HIDE DEF g, h
  <2>4. h \o g \in Seq(D) /\ Range(h \o g) = Range(h) \union Range(g)
    BY <2>3, Joined
  <2> QED BY <2>2, <2>4 DEF g, h
<1> HIDE DEF kids, group, one
<1>5. groups \in Seq(Seq(D)) /\ DOMAIN groups = DOMAIN kids
  <2>1. \A k \in 1 .. Len(kids) : group(kids[k]) \in Seq(D)
    BY <1>2, <1>4
  <2>2. groups \in [1 .. Len(kids) -> Seq(D)]
    BY <1>2, <2>1
  <2>3. DOMAIN groups = DOMAIN kids
    OBVIOUS
  <2> DEFINE Q == Seq(D)
             m == Len(kids)
  <2>4. m \in Nat /\ groups \in [1 .. m -> Q]
    BY <1>2, <2>2
  <2> HIDE DEF groups, Q, m
  <2>5. groups \in Seq(Q)
    BY <2>4, SeqDef
  <2> QED BY <2>3, <2>5 DEF Q
<1>6. \A k \in DOMAIN kids : groups[k] = group(kids[k])
  OBVIOUS
<1> HIDE DEF groups
<1>7. FlattenSeq(groups) \in Seq(D) /\ Range(FlattenSeq(groups)) = UNION {Range(groups[k]) : k \in DOMAIN groups}
  BY <1>5, Flattened
<1>8. \A k \in DOMAIN kids : Range(groups[k]) = ({kids[k]} \intersect tasks) \union Range(f[kids[k]])
  BY <1>2, <1>4, <1>6
<1>9. \A child \in Children(b, p) : \E k \in DOMAIN kids : kids[k] = child
  BY <1>1 DEF Range
<1>10. UNION {Range(groups[k]) : k \in DOMAIN groups}
         = UNION {({child} \intersect tasks) \union Range(f[child]) : child \in Children(b, p)}
  <2>1. \A k \in DOMAIN kids : Range(groups[k]) \subseteq
           UNION {({child} \intersect tasks) \union Range(f[child]) : child \in Children(b, p)}
    BY <1>2, <1>8
  <2>2. \A child \in Children(b, p) : ({child} \intersect tasks) \union Range(f[child])
           \subseteq UNION {Range(groups[k]) : k \in DOMAIN groups}
    <3> TAKE child \in Children(b, p)
    <3>1. PICK k \in DOMAIN kids : kids[k] = child
      BY <1>9
    <3>2. Range(groups[k]) = ({child} \intersect tasks) \union Range(f[child])
      BY <1>8, <3>1
    <3> QED BY <1>5, <3>1, <3>2
  <2> QED BY <1>5, <2>1, <2>2
<1> QED BY <1>3, <1>7, <1>10

(* What is listed below the tickets down to n steps.                       *)
IsListing(b, tasks, g) ==
  /\ g \in [0 .. Size(b) -> [DOMAIN b.tickets -> Seq(DOMAIN b.tickets)]]
  /\ \A p \in DOMAIN b.tickets : g[0][p] = <<>>
  /\ \A n \in 1 .. Size(b) : \A p \in DOMAIN b.tickets : g[n][p] = Gathering(b, tasks, p, g[n - 1])
  /\ \A e \in DOMAIN b.tickets : TimelineDescendants(b, e, tasks) = g[Size(b)][e]

(* The walk of the Timeline lists that way.                                *)
LEMMA ListingMet ==
  ASSUME NEW b, IsBoard(b), NEW tasks
  PROVE  \E g : IsListing(b, tasks, g)
<1> DEFINE K == Size(b)
           D == DOMAIN b.tickets
           U == [D -> Seq(D)]
           G(p, f) == Gathering(b, tasks, p, f)
           F == [f \in U |-> [p \in D |-> G(p, f)]]
           start == [p \in D |-> <<>>]
           Step(n, p, f) == IF n = 0 THEN <<>> ELSE G(p, f)
           Wanted(h) == h = [n \in 0 .. K |-> [p \in D |-> Step(n, p, h[n - 1])]]
           below == CHOOSE h : Wanted(h)
<1>1. K \in Nat
  BY SizeTyped
<1>2. start \in U
  <2>1. <<>> \in Seq(D)
    OBVIOUS
  <2> QED BY <2>1
<1>3. F \in [U -> U]
  <2>1. \A f \in U : \A p \in D : G(p, f) \in Seq(D)
    BY GatheringIs
  <2> HIDE DEF G
  <2> QED BY <2>1
<1>4. PICK g \in [0 .. K -> U] : g[0] = start /\ \A n \in 1 .. K : g[n] = F[g[n - 1]]
  <2> HIDE DEF K, U, F, start
  <2>1. Repetitions(K, U, start, F) # {}
    BY <1>1, <1>2, <1>3, Repeated
  <2> QED BY <2>1 DEF Repetitions
<1>5. \A n \in 1 .. K : g[n] = [p \in D |-> G(p, g[n - 1])]
  <2>1. \A n \in 1 .. K : g[n - 1] \in U
    <3>1. \A n \in 1 .. K : n - 1 \in 0 .. K
      BY <1>1
    <3> HIDE DEF U
    <3> QED BY <1>4, <3>1
  <2> HIDE DEF U, G
  <2> QED BY <1>4, <2>1
<1>6. \A e \in D : TimelineDescendants(b, e, tasks) = below[K][e]
  BY DEF TimelineDescendants, Gathering, Size
<1> DEFINE none == <<>>
<1>6a. \A p, f : Step(0, p, f) = none /\ \A n \in 1 .. K : Step(n, p, f) = G(p, f)
  <2> HIDE DEF K, G
  <2> QED BY <1>1
<1>6b. start = [p \in D |-> none]
  OBVIOUS
<1> HIDE DEF K, G, Step, none
<1>7. Wanted(g)
  <2>1. \A n \in 0 .. K : n = 0 \/ n \in 1 .. K
    BY <1>1
  <2>2. \A n \in 0 .. K : g[n] = [p \in D |-> Step(n, p, g[n - 1])]
    <3> HIDE DEF U, F, start
    <3>1. g[0] = [p \in D |-> Step(0, p, g[0 - 1])]
      BY <1>4, <1>6a, <1>6b
    <3>2. \A n \in 1 .. K : g[n] = [p \in D |-> Step(n, p, g[n - 1])]
      BY <1>5, <1>6a
    <3> QED BY <2>1, <3>1, <3>2
  <2>3. g = [n \in 0 .. K |-> g[n]]
    OBVIOUS
  <2> HIDE DEF U, F, start
  <2> QED BY <2>2, <2>3
<1>8. Wanted(below)
  <2> HIDE DEF Wanted
  <2> QED BY <1>7
<1> HIDE DEF below
<1>9. \A n \in 0 .. K : below[n] = [p \in D |-> Step(n, p, below[n - 1])]
  BY <1>8
<1>9a. \A n \in 0 .. K : \A p \in D : below[n][p] = Step(n, p, below[n - 1])
  BY <1>9
<1>10. \A n \in 0 .. K : below[n] \in U
  <2> DEFINE bad == {n \in 0 .. K : below[n] \notin U}
  <2> SUFFICES ASSUME bad # {} PROVE FALSE
    OBVIOUS
  <2>1. PICK n \in bad : \A m \in bad : n <= m
    <3>1. bad \in SUBSET Nat
      OBVIOUS
    <3> HIDE DEF bad
    <3> QED BY <3>1, LeastNumber
  <2>2. n \in 0 .. K /\ below[n] \notin U
    OBVIOUS
  <2>3. n # 0
    <3> SUFFICES ASSUME n = 0 PROVE FALSE
      OBVIOUS
    <3>1. below[n] = start
      BY <1>6a, <1>6b, <1>9, <2>2
    <3> HIDE DEF U, start, bad
    <3> QED BY <1>2, <2>2, <3>1
  <2>4. n - 1 \in 0 .. K /\ ~(n <= n - 1)
    BY <1>1, <2>2, <2>3
  <2>5. below[n - 1] \in U
    BY <2>1, <2>4
  <2>6. \A p \in D : G(p, below[n - 1]) \in Seq(D)
    BY <2>5, GatheringIs DEF G
  <2>7. below[n] = [p \in D |-> G(p, below[n - 1])]
    <3>1. n \in 1 .. K
      BY <1>1, <2>2, <2>3
    <3> QED BY <1>6a, <1>9, <2>2, <3>1
  <2> HIDE DEF bad
  <2> QED BY <2>2, <2>6, <2>7
<1>11. IsListing(b, tasks, [n \in 0 .. K |-> below[n]])
  <2> DEFINE h == [n \in 0 .. K |-> below[n]]
  <2>1. h \in [0 .. K -> U] /\ \A n \in 0 .. K : h[n] = below[n]
    <3> HIDE DEF U
    <3> QED BY <1>10
  <2> HIDE DEF h
  <2>2. \A p \in D : h[0][p] = <<>>
    <3>1. 0 \in 0 .. K
      BY <1>1
    <3> TAKE p \in D
    <3>2. h[0][p] = Step(0, p, below[0 - 1])
      BY <1>9a, <2>1, <3>1
    <3>3. h[0][p] = none
      BY <1>6a, <3>2
    <3> QED BY <3>3 DEF none
  <2>3. \A n \in 1 .. K : \A p \in D : h[n][p] = G(p, h[n - 1])
    <3> TAKE n \in 1 .. K
    <3>1. n \in 0 .. K /\ n # 0 /\ n - 1 \in 0 .. K
      BY <1>1
    <3> TAKE p \in D
    <3>2. h[n][p] = Step(n, p, below[n - 1])
      BY <1>9a, <2>1, <3>1
    <3>3. h[n - 1] = below[n - 1]
      BY <2>1, <3>1
    <3> QED BY <1>6a, <3>2, <3>3
  <2>4. \A e \in D : TimelineDescendants(b, e, tasks) = h[K][e]
    <3>1. K \in 0 .. K
      BY <1>1
    <3> QED BY <1>6, <2>1, <3>1
  <2>5. IsListing(b, tasks, h)
    BY <2>1, <2>2, <2>3, <2>4 DEF IsListing, K, G
  <2> QED BY <2>5 DEF h
<1> QED BY <1>11

(* What one more step lists.                                               *)
LEMMA ListedStep ==
  ASSUME NEW b, IsBoard(b), NEW tasks, NEW g, IsListing(b, tasks, g)
  PROVE  /\ \A p \in DOMAIN b.tickets : Range(g[0][p]) = {}
         /\ \A n \in 1 .. Size(b) : \A p \in DOMAIN b.tickets : \A x :
              x \in Range(g[n][p]) <=>
                \E child \in Children(b, p) : (x = child /\ x \in tasks) \/ x \in Range(g[n - 1][child])
<1> DEFINE K == Size(b)
           D == DOMAIN b.tickets
<1>1. K \in Nat /\ g \in [0 .. K -> [D -> Seq(D)]]
  BY SizeTyped DEF IsListing
<1>2. \A p \in D : Range(g[0][p]) = {}
  BY DEF IsListing, Range
<1>3. ASSUME NEW n \in 1 .. K, NEW p \in D
      PROVE  Range(g[n][p]) = UNION {({child} \intersect tasks) \union Range(g[n - 1][child]) : child \in Children(b, p)}
  <2>1. n - 1 \in 0 .. K
    BY <1>1
  <2>2. g[n - 1] \in [D -> Seq(D)] /\ g[n][p] = Gathering(b, tasks, p, g[n - 1])
    BY <1>1, <2>1 DEF IsListing
  <2> QED BY <2>2, GatheringIs
<1>4. ASSUME NEW n \in 1 .. K, NEW p \in D, NEW x
      PROVE  x \in Range(g[n][p]) <=>
               \E child \in Children(b, p) : (x = child /\ x \in tasks) \/ x \in Range(g[n - 1][child])
  <2> DEFINE L(child) == ({child} \intersect tasks) \union Range(g[n - 1][child])
  <2>1. x \in Range(g[n][p]) <=> \E child \in Children(b, p) : x \in L(child)
    <3> HIDE DEF L
    <3>1. Range(g[n][p]) = UNION {L(child) : child \in Children(b, p)}
      BY <1>3 DEF L
    <3> QED BY <3>1
  <2> QED BY <2>1
<1> QED BY <1>2, <1>4

(* What is listed below an Epic has it for its own.                        *)
OnTheWay(b, c, e, d, p) ==
  p \in WorkTickets(b) /\ (p = e \/ (~IsEpic(b, p) /\ c[d][p] = e))

(* A child of such a ticket is another one.                                *)
LEMMA ChildOnTheWay ==
  ASSUME NEW b, IsBoard(b), EpicsHaveNoParent(b), NEW c, IsClimb(b, c), NEW e, e \in WorkTickets(b), IsEpic(b, e),
         NEW d \in 0 .. (Size(b) - 1), NEW p, OnTheWay(b, c, e, d, p), NEW child \in Children(b, p)
  PROVE  /\ child \in WorkTickets(b) /\ ~IsEpic(b, child) /\ c[d + 1][child] = e
         /\ OnTheWay(b, c, e, d + 1, child)
<1>1. /\ WorkTickets(b) \subseteq DOMAIN b.tickets /\ 0 \notin DOMAIN b.tickets
      /\ child \in WorkTickets(b) /\ b.tickets[child].parent = p /\ p \in WorkTickets(b)
  BY DEF IsBoard, WorkTickets, Children, ChildTickets, OnTheWay
<1>2. ~IsEpic(b, child) /\ p # 0
  BY <1>1 DEF EpicsHaveNoParent
<1>3. d + 1 \in 1 .. Size(b) /\ (d + 1) - 1 = d
  BY SizeTyped
<1>4. c[d + 1][child] = IF p = 0 \/ p \notin WorkTickets(b) THEN 0 ELSE IF IsEpic(b, p) THEN p ELSE c[(d + 1) - 1][p]
  BY <1>1, <1>3 DEF IsClimb
<1>5. c[d + 1][child] = e
  BY <1>1, <1>2, <1>3, <1>4 DEF OnTheWay
<1> QED BY <1>1, <1>2, <1>5 DEF OnTheWay

(* Climbing further leads to the same Epic.                                *)
LEMMA ClimbStays ==
  ASSUME NEW b, IsBoard(b), NEW c, IsClimb(b, c), NEW x \in DOMAIN b.tickets, NEW e, e # 0,
         NEW d \in 0 .. Size(b), c[d][x] = e
  PROVE  c[Size(b)][x] = e
<1> DEFINE K == Size(b)
           bad == {n \in 0 .. K : n >= d /\ c[n][x] # e}
<1>1. K \in Nat
  BY SizeTyped
<1>2. bad = {}
  <2> SUFFICES ASSUME bad # {} PROVE FALSE
    OBVIOUS
  <2>1. PICK n \in bad : \A m \in bad : n <= m
    <3>1. bad \in SUBSET Nat
      OBVIOUS
    <3> HIDE DEF bad
    <3> QED BY <3>1, LeastNumber
  <2>2. n \in 0 .. K /\ n >= d /\ c[n][x] # e
    OBVIOUS
  <2>3. n # d
    BY <2>2
  <2>4. n \in 1 .. K /\ n - 1 \in 0 .. K /\ n - 1 >= d /\ ~(n <= n - 1)
    BY <1>1, <2>2, <2>3
  <2>5. c[n - 1][x] = e
    BY <2>1, <2>4
  <2>6. c[n - 1][x] # 0 => c[n][x] = c[n - 1][x]
    BY <2>4 DEF IsClimb
  <2> QED BY <2>2, <2>5, <2>6
<1>3. K \in 0 .. K /\ K >= d
  BY <1>1
<1> QED BY <1>2, <1>3

(* So does all that the walk lists.                                        *)
LEMMA ListedBelow ==
  ASSUME NEW b, IsBoard(b), EpicsHaveNoParent(b), NEW c, IsClimb(b, c), NEW e, e \in WorkTickets(b), IsEpic(b, e),
         NEW tasks, NEW g, IsListing(b, tasks, g)
  PROVE  \A n \in 0 .. Size(b) : \A d \in 0 .. (Size(b) - n) : \A p : OnTheWay(b, c, e, d, p) =>
           \A x \in Range(g[n][p]) :
             x \in tasks /\ x \in WorkTickets(b) /\ ~IsEpic(b, x) /\ c[Size(b)][x] = e
<1> DEFINE K == Size(b)
           Good(x) == x \in tasks /\ x \in WorkTickets(b) /\ ~IsEpic(b, x) /\ c[K][x] = e
           Holds(n) == \A d \in 0 .. (K - n) : \A p : OnTheWay(b, c, e, d, p) => \A x \in Range(g[n][p]) : Good(x)
           bad == {n \in 0 .. K : ~Holds(n)}
<1>1. /\ K \in Nat /\ WorkTickets(b) \subseteq DOMAIN b.tickets /\ e # 0
  BY SizeTyped DEF WorkTickets, IsBoard
<1> SUFFICES ASSUME bad # {} PROVE FALSE
  OBVIOUS
<1>2. PICK n \in bad : \A m \in bad : n <= m
  <2>1. bad \in SUBSET Nat
    OBVIOUS
  <2> HIDE DEF bad
  <2> QED BY <2>1, LeastNumber
<1>3. n \in 0 .. K /\ ~Holds(n) /\ (n - 1 \in 0 .. K => Holds(n - 1))
  <2>1. n \in 0 .. K /\ ~(n <= n - 1)
    BY <1>1
  <2> HIDE DEF Holds
  <2> QED BY <1>2, <2>1
<1> HIDE DEF bad
<1>4. PICK d \in 0 .. (K - n) : \E p : OnTheWay(b, c, e, d, p) /\ \E x \in Range(g[n][p]) : ~Good(x)
  BY <1>3
<1>5. PICK p : OnTheWay(b, c, e, d, p) /\ \E x \in Range(g[n][p]) : ~Good(x)
  BY <1>4
<1>6. PICK x \in Range(g[n][p]) : ~Good(x)
  BY <1>5
<1> HIDE DEF Holds
<1>7. p \in DOMAIN b.tickets
  BY <1>1, <1>5 DEF OnTheWay
<1>8. n # 0
  BY <1>6, <1>7, ListedStep
<1>9. n \in 1 .. K /\ n - 1 \in 0 .. K /\ d \in 0 .. (K - 1) /\ d + 1 \in 0 .. (K - (n - 1)) /\ d + 1 \in 0 .. K
  BY <1>1, <1>3, <1>8
<1>10. PICK child \in Children(b, p) : (x = child /\ x \in tasks) \/ x \in Range(g[n - 1][child])
  BY <1>6, <1>7, <1>9, ListedStep
<1>11. /\ child \in WorkTickets(b) /\ ~IsEpic(b, child) /\ c[d + 1][child] = e
       /\ OnTheWay(b, c, e, d + 1, child)
  BY <1>5, <1>9, ChildOnTheWay
<1>12. c[K][child] = e
  BY SMTT(30), <1>1, <1>9, <1>11, ClimbStays
<1>13. CASE x = child /\ x \in tasks
  BY <1>6, <1>11, <1>12, <1>13
<1>14. CASE x \in Range(g[n - 1][child])
  <2>1. Holds(n - 1)
    BY <1>3, <1>9
  <2> QED BY <1>6, <1>9, <1>11, <1>14, <2>1 DEF Holds
<1> QED BY <1>10, <1>13, <1>14

(* A ticket that is listed below another is listed below its Epic.         *)
ListedFrom(b, g, x, n, y) == \A j \in n .. Size(b) : x \in Range(g[j][y])

(* One step up.                                                            *)
LEMMA ListedAbove ==
  ASSUME NEW b, IsBoard(b), NEW tasks, NEW g, IsListing(b, tasks, g), NEW x \in tasks,
         NEW n \in 0 .. (Size(b) - 1), NEW y \in WorkTickets(b), x = y \/ ListedFrom(b, g, x, n, y),
         b.tickets[y].parent \in DOMAIN b.tickets
  PROVE  ListedFrom(b, g, x, n + 1, b.tickets[y].parent)
<1> DEFINE p == b.tickets[y].parent
<1>1. y \in Children(b, p)
  BY DEF Children, ChildTickets
<1>2. ASSUME NEW j \in (n + 1) .. Size(b) PROVE x \in Range(g[j][p])
  <2>1. j \in 1 .. Size(b) /\ j - 1 \in n .. Size(b)
    BY SizeTyped
  <2>2. (x = y /\ x \in tasks) \/ x \in Range(g[j - 1][y])
    BY <2>1 DEF ListedFrom
  <2> QED BY <1>1, <2>1, <2>2, ListedStep
<1> QED BY <1>2 DEF ListedFrom

(* All the way up.                                                         *)
LEMMA ListedAtTop ==
  ASSUME NEW b, IsBoard(b), NEW c, IsClimb(b, c), NEW e, e # 0,
         NEW tasks, NEW g, IsListing(b, tasks, g), NEW x \in tasks
  PROVE  \A m \in 0 .. Size(b) : \A y \in WorkTickets(b) : \A n \in 0 .. (Size(b) - m) :
           (c[m][y] = e /\ (x = y \/ ListedFrom(b, g, x, n, y))) => ListedFrom(b, g, x, n + m, e)
<1> DEFINE K == Size(b)
           Holds(m) == \A y \in WorkTickets(b) : \A n \in 0 .. (K - m) :
                         (c[m][y] = e /\ (x = y \/ ListedFrom(b, g, x, n, y))) => ListedFrom(b, g, x, n + m, e)
           bad == {m \in 0 .. K : ~Holds(m)}
<1>1. /\ K \in Nat /\ WorkTickets(b) \subseteq DOMAIN b.tickets
  BY SizeTyped DEF WorkTickets
<1> SUFFICES ASSUME bad # {} PROVE FALSE
  OBVIOUS
<1>2. PICK m \in bad : \A j \in bad : m <= j
  <2>1. bad \in SUBSET Nat
    OBVIOUS
  <2> HIDE DEF bad
  <2> QED BY <2>1, LeastNumber
<1>3. m \in 0 .. K /\ ~Holds(m) /\ (m - 1 \in 0 .. K => Holds(m - 1))
  <2>1. m \in 0 .. K /\ ~(m <= m - 1)
    BY <1>1
  <2> HIDE DEF Holds
  <2> QED BY <1>2, <2>1
<1> HIDE DEF bad
<1>4. PICK y \in WorkTickets(b) : \E n \in 0 .. (K - m) :
        c[m][y] = e /\ (x = y \/ ListedFrom(b, g, x, n, y)) /\ ~ListedFrom(b, g, x, n + m, e)
  BY <1>3
<1>5. PICK n \in 0 .. (K - m) :
        c[m][y] = e /\ (x = y \/ ListedFrom(b, g, x, n, y)) /\ ~ListedFrom(b, g, x, n + m, e)
  BY <1>4
<1> HIDE DEF Holds
<1> DEFINE p == b.tickets[y].parent
<1>6. m # 0
  BY <1>1, <1>5 DEF IsClimb
<1>7. m \in 1 .. K /\ m - 1 \in 0 .. K /\ n \in 0 .. (K - 1) /\ n + 1 \in 0 .. (K - (m - 1))
      /\ (n + 1) + (m - 1) = n + m /\ n + 1 <= n + m
  BY <1>1, <1>3, <1>6
<1>8. c[m][y] = IF p = 0 \/ p \notin WorkTickets(b) THEN 0 ELSE IF IsEpic(b, p) THEN p ELSE c[m - 1][p]
  BY <1>1, <1>7 DEF IsClimb
<1> HIDE DEF p
<1>9. p \in WorkTickets(b) /\ (p = e \/ c[m - 1][p] = e)
  BY <1>5, <1>8
<1>10. ListedFrom(b, g, x, n + 1, p)
  BY <1>1, <1>5, <1>7, <1>9, ListedAbove DEF p
<1>11. CASE p = e
  <2>1. \A j \in (n + m) .. K : j \in (n + 1) .. K
    BY <1>1, <1>7
  <2> QED BY <1>5, <1>10, <1>11, <2>1 DEF ListedFrom
<1>12. CASE c[m - 1][p] = e
  <2>1. Holds(m - 1)
    BY <1>3, <1>7
  <2>2. ListedFrom(b, g, x, (n + 1) + (m - 1), e)
    BY <1>7, <1>9, <1>10, <1>12, <2>1 DEF Holds
  <2> QED BY <1>5, <1>7, <2>2
<1> QED BY <1>9, <1>11, <1>12

(* The tasks below an Epic are those it is the Epic of.                    *)
LEMMA TimelineDescendantsAre ==
  ASSUME NEW b, IsBoard(b), EpicsHaveNoParent(b), NEW e, e \in WorkTickets(b), IsEpic(b, e), NEW tasks
  PROVE  /\ TimelineDescendants(b, e, tasks) \in Seq(DOMAIN b.tickets)
         /\ Range(TimelineDescendants(b, e, tasks)) =
              {x \in tasks \intersect WorkTickets(b) : TopEpicFor(b, x) = e /\ x # e}
<1> DEFINE K == Size(b)
           D == DOMAIN b.tickets
<1>1. e \in D /\ WorkTickets(b) \subseteq D /\ e # 0 /\ 0 \notin D
  BY DEF WorkTickets, IsBoard
<1>2. K \in Nat \ {0} /\ K \in 0 .. K /\ K \in 1 .. K
  BY <1>1, SizePositive
<1>3. PICK g : IsListing(b, tasks, g)
  BY ListingMet
<1>4. TimelineDescendants(b, e, tasks) = g[K][e] /\ g[K][e] \in Seq(D)
  BY <1>1, <1>2, <1>3 DEF IsListing
<1> HIDE DEF K
<1>5. ASSUME NEW x \in Range(g[K][e])
      PROVE  x \in tasks /\ x \in WorkTickets(b) /\ TopEpicFor(b, x) = e /\ x # e
  <2>1. PICK child \in Children(b, e) : TRUE
    BY <1>1, <1>2, <1>3, ListedStep DEF K
  <2>2. child \in D /\ ~IsEpic(b, child)
    BY <1>1 DEF Children, ChildTickets, EpicsHaveNoParent
  <2>3. PICK c : IsClimb(b, c)
    BY <2>2, ClimbIs
  <2>4. OnTheWay(b, c, e, 0, e) /\ 0 \in 0 .. (K - K)
    BY <1>2 DEF OnTheWay
  <2>5. x \in tasks /\ x \in WorkTickets(b) /\ ~IsEpic(b, x) /\ c[K][x] = e
    BY <1>2, <1>3, <2>3, <2>4, ListedBelow DEF K
  <2>6. TopEpicFor(b, x) = c[K][x]
    BY <1>1, <2>3, <2>5 DEF IsClimb, K
  <2> QED BY <2>5, <2>6
<1>6. ASSUME NEW x \in tasks \intersect WorkTickets(b), TopEpicFor(b, x) = e, x # e
      PROVE  x \in Range(g[K][e])
  <2>1. ~IsEpic(b, x)
    BY <1>1, <1>6, EpicOnTop
  <2>2. PICK c : IsClimb(b, c)
    BY <1>1, <2>1, ClimbIs
  <2>3. c[K][x] = e
    BY <1>1, <1>6, <2>1, <2>2 DEF IsClimb, K
  <2>4. ListedFrom(b, g, x, 0 + K, e)
    <3>1. 0 \in 0 .. (K - K) /\ x \in tasks /\ x \in WorkTickets(b)
      BY <1>2
    <3> QED BY <1>1, <1>2, <1>3, <2>2, <2>3, <3>1, ListedAtTop DEF K
  <2>5. 0 + K = K /\ K \in K .. K
    BY <1>2
  <2> QED BY <2>4, <2>5 DEF ListedFrom, K
<1> QED BY <1>4, <1>5, <1>6

-----------------------------------------------------------------------------
(* The rows of the Timeline *)

Perhaps == Days \union {NoDay}

(* The dates of a bar are days, or missing.                                *)
LEMMA BaseTyped ==
  ASSUME NEW b, IsBoard(b), NEW i \in DOMAIN b.tickets
  PROVE  GanttBase(b, i).plannedStart \in Perhaps /\ ReadyAt(GanttBase(b, i)) \in Perhaps
         /\ GanttBase(b, i).due \in Perhaps
<1> DEFINE row == b.tickets[i]
           at == PlannedStart(row)
           planned == FirstDay(row.due, AddDays(at, PlannedDays(row)))
<1>1. /\ row.start \in Perhaps /\ row.due \in Perhaps /\ row.created \in Perhaps /\ row.finished \in Perhaps
      /\ row.duration \in Nat
  BY TicketsTyped DEF Perhaps
<1> HIDE DEF row
<1>2. Today \in Perhaps /\ Perhaps \subseteq Int /\ NoDay \in Perhaps
  BY TimelineAssumption, SprintsAssumption DEF Perhaps, Days, NoDay
<1>3. \A d, n : AddDays(d, n) \in Perhaps
  BY DEF AddDays, ValidDate, Perhaps
<1>4. \A x, y \in Perhaps : FirstDay(x, y) \in Perhaps
  BY DEF FirstDay
<1>5. at \in Perhaps
  BY <1>1, <1>2, <1>3, <1>4 DEF PlannedStart
<1>6. planned \in Perhaps
  BY <1>1, <1>3, <1>4
<1> HIDE DEF at, planned
<1>7. DueAfter(at, planned) \in Perhaps
  BY <1>3, <1>6 DEF DueAfter
<1>8. /\ GanttBase(b, i).plannedStart = at /\ GanttBase(b, i).due = DueAfter(at, planned)
      /\ GanttBase(b, i).actualFinish \in {row.finished, NoDay}
  BY DEF GanttBase, at, planned, row
<1> QED BY <1>1, <1>2, <1>4, <1>5, <1>7, <1>8 DEF ReadyAt

(* A set of numbers has a least one.                                       *)
LEMMA SmallestIs ==
  ASSUME NEW S \in SUBSET Nat, S # {}
  PROVE  Smallest(S) \in S /\ \A y \in S : Smallest(S) <= y
<1>1. \E k \in S : \A j \in S : k <= j
  BY LeastNumber
<1> QED BY <1>1 DEF Smallest

(* A set of days has a first and a last one.                               *)
LEMMA DaysBounded ==
  ASSUME NEW S \in SUBSET Days, S # {}
  PROVE  /\ Smallest(S) \in S /\ \A y \in S : Smallest(S) <= y
         /\ Greatest(S) \in S /\ \A y \in S : y <= Greatest(S)
<1>1. Days \subseteq Nat /\ IsFiniteSet(Days)
  BY SprintsAssumption, FS_Interval DEF Days
<1>2. S \in SUBSET Nat /\ IsFiniteSet(S)
  BY <1>1, FS_Subset
<1> QED BY <1>2, SmallestIs, GreatestIs

(* The days when prerequisites are ready.                                  *)
LEMMA ReadyTyped ==
  ASSUME NEW b, IsBoard(b), NEW i \in DOMAIN b.tickets
  PROVE  LET ready == GanttDependencyReady(b, i)
         IN /\ ready \in SUBSET Days
            /\ ready # {} => Greatest(ready) \in ready /\ \A x \in ready : x <= Greatest(ready)
<1>1. DependencyTickets(b, i) \subseteq DOMAIN b.tickets
  BY DEF DependencyTickets
<1>2. GanttDependencyReady(b, i) \subseteq Perhaps \ {NoDay}
  BY <1>1, BaseTyped DEF GanttDependencyReady
<1> QED BY <1>2, DaysBounded DEF Perhaps

(* Bars belong to work, start at a day and end at one.                     *)
LEMMA BarsTyped ==
  ASSUME NEW b, IsBoard(b), NEW d, NEW W \in SUBSET DOMAIN b.tickets, NEW bars, bars = GanttTasks(b, d, W)
  PROVE  DOMAIN bars \subseteq W /\ \A i \in DOMAIN bars : bars[i].start \in Int /\ bars[i].due \in Int
<1>1. Perhaps \subseteq Int /\ Days \subseteq Nat
  BY SprintsAssumption DEF Perhaps, Days, NoDay
<1>2. \A x, n : AddDays(x, n) \in Perhaps
  BY DEF AddDays, ValidDate, Perhaps
<1>3. DOMAIN bars = {x \in W : HasTask(b, d, x)}
  BY DEF GanttTasks
<1>4. ASSUME NEW i \in DOMAIN bars PROVE bars[i].start \in Int /\ bars[i].due \in Int
  <2> DEFINE base == GanttBase(b, i)
             ready == GanttDependencyReady(b, i)
             at == IF ready = {} THEN base.plannedStart ELSE Greatest(ready)
             length == Most(1, base.due - base.plannedStart)
             due == IF base.due <= at THEN AddDays(at, length) ELSE base.due
  <2>1. i \in DOMAIN b.tickets
    BY <1>3
  <2>2. base.plannedStart \in Perhaps /\ base.due \in Perhaps
    BY <2>1, BaseTyped
  <2>3. bars[i] = BarFrom(b, base, i, at, due, length)
    BY <1>3 DEF GanttTasks, GanttTask
  <2>4. ready \subseteq Perhaps /\ (ready = {} \/ Greatest(ready) \in ready)
    BY <2>1, ReadyTyped DEF Perhaps
  <2> HIDE DEF base, ready
  <2>5. at \in Perhaps
    BY <2>2, <2>4
  <2> HIDE DEF at
  <2>6. due \in Perhaps
    BY <1>2, <2>2
  <2>7. bars[i].start = at /\ bars[i].due = due
    BY <2>3 DEF BarFrom, Bar
  <2> QED BY <1>1, <2>5, <2>6, <2>7
<1> QED BY <1>3, <1>4

(* The Timeline shows work of the board.                                   *)
LEMMA TimelineWorkIsWork ==
  ASSUME NEW b, NEW u, NEW d, d.work \subseteq WorkTickets(b)
  PROVE  TimelineFilteredWork(b, u, d) \subseteq WorkTickets(b)
BY DEF TimelineFilteredWork, TimelineVisibleWork

(* A list in the order of the stages.                                      *)
InOrder(s, steps, S) == \E F : Lists(s, Staged(steps, F, S), S)

(* It lists its elements once.                                             *)
LEMMA InOrderLists ==
  ASSUME NEW s, NEW steps, NEW S, InOrder(s, steps, S), NEW U, S \subseteq U
  PROVE  s \in Seq(U) /\ Range(s) = S /\ IsInjective(s)
BY DEF InOrder, Lists

(* Nothing is in order.                                                    *)
LEMMA NothingListed ==
  ASSUME NEW steps PROVE InOrder(<<>>, steps, {})
<1>1. /\ <<>> \in Seq({}) /\ Range(<<>>) = {} /\ IsInjective(<<>>) /\ Len(<<>>) = 0
      /\ DOMAIN <<>> = {}
  BY DEF Range, IsInjective
<1>2. Cardinality({}) = 0
  BY FS_EmptySet
<1>3. Lists(<<>>, Staged(steps, {}, {}), {})
  BY <1>1, <1>2 DEF Lists
<1> QED BY <1>3 DEF InOrder

TimelineGroupsAre(b, u, d, W, bars, heads, members, tail) ==
  LET tasks == DOMAIN bars
      below(e) == IF e \in u.collapsed THEN {} ELSE {i \in tasks : TopEpicFor(b, i) = e /\ i # e}
      loose == {i \in tasks : TopEpicFor(b, i) = 0}
  IN /\ Grouping(DOMAIN b.tickets, heads, members, tail, TopOf(b))
     /\ BuildGanttRows(b, u, d, W, bars) = GroupRows(heads, members, tail)
     /\ Range(heads) = {e \in {TopEpicFor(b, i) : i \in W} \ {0} : EpicTasks(b, u, d, e, tasks) # {}}
     /\ \A e \in Range(heads) : InOrder(members[e], d.steps, below(e))
     /\ InOrder(tail, d.steps, loose)

(* Such groups exist.                                                      *)
LEMMA TimelineGroups ==
  ASSUME NEW b, IsBoard(b), EpicsHaveNoParent(b), NEW u, NEW d, StepsTyped(d.steps), NEW W \in SUBSET WorkTickets(b),
         NEW bars, bars = GanttTasks(b, d, W)
  PROVE  \E heads, members, tail : TimelineGroupsAre(b, u, d, W, bars, heads, members, tail)
<1> DEFINE D == DOMAIN b.tickets
           tasks == DOMAIN bars
           H == {e \in {TopEpicFor(b, i) : i \in W} \ {0} : EpicTasks(b, u, d, e, tasks) # {}}
           children(e) == IF e \in u.collapsed THEN <<>>
                          ELSE EpicChildren(d.steps, TimelineDescendants(b, e, tasks))
           below(e) == IF e \in u.collapsed THEN {} ELSE {i \in tasks : TopEpicFor(b, i) = e /\ i # e}
           loose == {i \in tasks : TopEpicFor(b, i) = 0}
           heads == ManualSorted(b, H)
           members == [e \in H |-> children(e)]
           tail == ScheduleSorted(b, d.steps, bars, loose)
<1>1. W \subseteq D /\ tasks \subseteq W /\ tasks \subseteq WorkTickets(b)
      /\ \A i \in tasks : bars[i].start \in Int /\ bars[i].due \in Int
  <2>1. W \subseteq D
    BY DEF WorkTickets
  <2> QED BY <2>1, BarsTyped
<1>2. \A e \in H : e \in WorkTickets(b) /\ e \in D /\ IsEpic(b, e) /\ e # 0 /\ TopEpicFor(b, e) = e
  <2> TAKE e \in H
  <2>1. PICK i \in W : TopEpicFor(b, i) = e /\ e # 0
    OBVIOUS
  <2> HIDE DEF H
  <2> QED BY <1>1, <2>1, TopTyped
<1>3. loose \subseteq D /\ H \subseteq D /\ \A e : below(e) \subseteq D
  <2> HIDE DEF H
  <2> QED BY <1>1, <1>2
<1>4. Lists(heads, TicketOrderPairs(b), H)
  BY <1>3, ManualLists
<1>5. Lists(tail, Staged(d.steps, ScheduleOrder(b, bars, loose), loose), loose)
  BY <1>1, <1>3, ScheduleLists
<1> DEFINE tree(e) == TimelineDescendants(b, e, tasks)
<1>6. ASSUME NEW e \in H PROVE InOrder(children(e), d.steps, below(e))
  <2>1. CASE e \in u.collapsed
    BY <2>1, NothingListed
  <2>2. CASE e \notin u.collapsed
    <3>1. tree(e) \in Seq(D) /\ Range(tree(e)) = {x \in tasks \intersect WorkTickets(b) : TopEpicFor(b, x) = e /\ x # e}
      <4> HIDE DEF H, tasks
      <4> QED BY <1>2, TimelineDescendantsAre
    <3>2. Range(tree(e)) = below(e)
      BY <1>1, <2>2, <3>1
    <3> DEFINE S == Range(tree(e))
    <3>3. Lists(EpicChildren(d.steps, tree(e)), Staged(d.steps, PlaceOrder(tree(e), S), S), S)
      BY <3>1, TreeLists
    <3>4. InOrder(EpicChildren(d.steps, tree(e)), d.steps, S)
      BY <3>3 DEF InOrder
    <3> QED BY <2>2, <3>2, <3>4
  <2> QED BY <2>1, <2>2
<1>7. BuildGanttRows(b, u, d, W, bars) =
        FlattenSeq([k \in DOMAIN heads |-> <<heads[k]>> \o children(heads[k])]) \o tail
  BY DEF BuildGanttRows, ManualSorted, ScheduleSorted
<1>8. InOrder(tail, d.steps, loose)
  BY <1>5 DEF InOrder
<1> HIDE DEF children
<1>9. heads \in Seq(D) /\ Range(heads) = H /\ IsInjective(heads)
  <2> HIDE DEF heads, H
  <2> QED BY <1>3, <1>4, ListIs
<1>10. tail \in Seq(D) /\ Range(tail) = loose /\ IsInjective(tail)
  <2> HIDE DEF tail, loose
  <2> QED BY <1>3, <1>5, ListIs
<1>11. \A e \in H : members[e] = children(e) /\ members[e] \in Seq(D) /\ Range(members[e]) = below(e)
                    /\ IsInjective(members[e])
  <2>1. \A e \in H : members[e] = children(e)
    <3> HIDE DEF H
    <3> QED OBVIOUS
  <2> HIDE DEF members, H, below
  <2> QED BY <1>3, <1>6, <2>1, InOrderLists
<1>12. \A k \in DOMAIN heads : heads[k] \in H
  BY <1>9 DEF Range
<1>13. [k \in DOMAIN heads |-> <<heads[k]>> \o children(heads[k])]
         = [k \in DOMAIN heads |-> HeadedGroup(members, heads[k])]
  <2>1. \A k \in DOMAIN heads : HeadedGroup(members, heads[k]) = <<heads[k]>> \o children(heads[k])
    <3> HIDE DEF heads, members, below, H
    <3> QED BY <1>11, <1>12 DEF HeadedGroup
  <2> HIDE DEF heads, members, below
  <2> QED BY <2>1
<1>14. BuildGanttRows(b, u, d, W, bars) = GroupRows(heads, members, tail)
  BY <1>7, <1>13 DEF GroupRows
<1>15. \A e \in H : e # 0 /\ TopOf(b)[e] = e
  <2> HIDE DEF H
  <2> QED BY <1>2 DEF TopOf
<1>16. (\A e \in H : \A x \in below(e) : TopOf(b)[x] = e /\ x # e) /\ \A x \in loose : TopOf(b)[x] = 0
  <2>1. \A x \in tasks : TopOf(b)[x] = TopEpicFor(b, x)
    BY <1>1 DEF TopOf
  <2> HIDE DEF H, tasks
  <2> QED BY <2>1
<1>17. members \in [H -> Seq(D)]
  <2>1. members = [e \in H |-> members[e]]
    OBVIOUS
  <2> HIDE DEF members, H
  <2> QED BY <1>11, <2>1
<1>18. \A e \in H : InOrder(members[e], d.steps, below(e))
  <2> HIDE DEF members, H, below
  <2> QED BY <1>6, <1>11
<1> HIDE DEF heads, members, tail, H, below, loose
<1>19. Grouping(D, heads, members, tail, TopOf(b))
  BY <1>9, <1>10, <1>11, <1>15, <1>16, <1>17 DEF Grouping
<1>20. TimelineGroupsAre(b, u, d, W, bars, heads, members, tail)
  BY <1>8, <1>9, <1>14, <1>18, <1>19 DEF TimelineGroupsAre, H, below, loose
<1> QED BY <1>20

(* The rows of the Timeline.                                               *)
LEMMA TimelineOnce ==
  ASSUME IsBoard(board), EpicsHaveNoParent(board)
  PROVE  /\ GroupedOnce(RowsOf(Drawn, Schedule(Drawn)), {i \in DOMAIN Schedule(Drawn) : ~IsEpic(board, i)})
         /\ Indented(RowsOf(Drawn, Schedule(Drawn)), TimelineDepth)
<1> DEFINE W == TimelineFilteredWork(board, ui, Drawn)
           bars == GanttTasks(board, Drawn, W)
           tasks == DOMAIN bars
           rows == BuildGanttRows(board, ui, Drawn, W, bars)
           below(e) == IF e \in ui.collapsed THEN {} ELSE {i \in tasks : TopEpicFor(board, i) = e /\ i # e}
           loose == {i \in tasks : TopEpicFor(board, i) = 0}
<1>1. Drawn.work \subseteq WorkTickets(board) /\ StepsTyped(Drawn.steps)
  BY SnapshotIs DEF Drawn
<1>2. W \subseteq WorkTickets(board) /\ W \subseteq DOMAIN board.tickets
  BY <1>1, TimelineWorkIsWork DEF WorkTickets
<1>3. Schedule(Drawn) = bars /\ RowsOf(Drawn, bars) = rows
  BY DEF Schedule, RowsOf
<1> HIDE DEF W
<1>4. tasks \subseteq W
  BY <1>2, BarsTyped
<1>5. PICK heads, members, tail : TimelineGroupsAre(board, ui, Drawn, W, bars, heads, members, tail)
  <2>1. \E heads, members, tail : TimelineGroupsAre(board, ui, Drawn, W, bars, heads, members, tail)
    BY <1>1, <1>2, TimelineGroups
  <2> QED BY <2>1
<1> HIDE DEF bars
<1>6. /\ Grouping(DOMAIN T, heads, members, tail, TopOf(board))
      /\ rows = GroupRows(heads, members, tail)
      /\ Range(heads) = {e \in {TopEpicFor(board, i) : i \in W} \ {0} : EpicTasks(board, ui, Drawn, e, tasks) # {}}
      /\ \A e \in Range(heads) : Range(members[e]) = below(e)
      /\ Range(tail) = loose
  BY <1>5 DEF TimelineGroupsAre, InOrder, Lists, T
<1>7. Range(rows) = Range(heads) \union Range(tail) \union UNION {Range(members[e]) : e \in Range(heads)}
  BY <1>6, GroupsGrouped
<1> HIDE DEF rows
<1>8. \A i \in {x \in tasks : ~IsEpic(board, x)} : i \in Range(rows) \/ Epic(i) \in ui.collapsed
  <2> TAKE i \in {x \in tasks : ~IsEpic(board, x)}
  <2>0. i \in tasks /\ i \in W /\ i \in WorkTickets(board) /\ ~IsEpic(board, i) /\ i \in DOMAIN board.tickets
    BY <1>2, <1>4
  <2>1. CASE Epic(i) = 0
    BY <1>6, <1>7, <2>0, <2>1 DEF Epic
  <2>2. CASE Epic(i) # 0 /\ Epic(i) \notin ui.collapsed
    <3>1. i \in DescendantTickets(board, Epic(i)) /\ Epic(i) # i
      BY <2>0, <2>2, BelowItsEpic DEF Epic
    <3>2. EpicTasks(board, ui, Drawn, Epic(i), tasks) # {}
      <4>1. i \in EpicTasks(board, ui, Drawn, Epic(i), tasks)
        BY <2>0, <3>1 DEF EpicTasks
      <4> QED BY <4>1
    <3>3. Epic(i) \in Range(heads)
      BY <1>6, <2>0, <2>2, <3>2 DEF Epic
    <3>4. i \in below(Epic(i))
      BY <2>0, <2>2, <3>1 DEF Epic
    <3>5. Range(members[Epic(i)]) = below(Epic(i))
      <4> HIDE DEF below
      <4> QED BY <1>6, <3>3
    <3>6. i \in Range(members[Epic(i)])
      <4> HIDE DEF below
      <4> QED BY <3>4, <3>5
    <3> QED BY <1>7, <3>3, <3>6
  <2> QED BY <2>1, <2>2
<1>9. Range(rows) \subseteq DOMAIN T /\ GroupedOnce(rows, {x \in tasks : ~IsEpic(board, x)})
  BY <1>6, <1>8, GroupsAreOnce
<1>10. Indented(rows, TimelineDepth)
  <2>1. ASSUME NEW i \in Range(rows), Epic(i) \notin {0, i}
        PROVE  TimelineDepth(board, i, Epic(i)) =
                 IF T[i].parent = Epic(i) THEN 1
                 ELSE Least(4, 1 + TimelineDepth(board, T[i].parent, Epic(i)))
    BY <1>9, <2>1, DepthsGrow DEF Epic, T
  <2> QED BY <2>1 DEF Indented
<1>11. RowsOf(Drawn, Schedule(Drawn)) = rows /\ DOMAIN Schedule(Drawn) = tasks
  BY <1>3
<1> QED BY <1>9, <1>10, <1>11

KeptInv == IsKept(board) /\ \A i \in DOMAIN server : IsKept(server[i])

(* The board on the page changes by an answered load only.                 *)
LEMMA BoardIsLoaded ==
  ASSUME PlanningInv, PlanningAssumption, [Next]_vars
  PROVE  board' = board \/ (load \in DOMAIN server /\ board' = server[load])
<1>1. (\E u : Redraw(u)) \/ Rests \/ Blanks => board' = board
  BY DEF Redraw, Rests, Blanks
<1>2. LoadAnswered => load \in DOMAIN server /\ board' = server[load]
  BY DEF LoadAnswered, PlanningInv, TypeOK
<1> QED BY <1>1, <1>2, Steps

(* Stored boards change by other clients and by saves of the Sprint plan.  *)
LEMMA BoardIsStored ==
  ASSUME [Next]_vars
  PROVE  \/ server' = server
         \/ \E bd \in DOMAIN server \intersect DOMAIN BoardData : \E data \in BoardData[bd] : Change(bd, data)
         \/ \E s \in plan.saves : PutServed(s)
<1>1. ASSUME DependencySteering PROVE server' = server
  BY <1>1 DEF DependencySteering, OpenDependencies, ToggleDependencyFocus, ToggleEpic, Opened, ShowAt,
       ShowOtherTasks, CloseDependencies, SetDependencySort, Show
<1>2. ASSUME Selecting PROVE server' = server
  BY <1>2 DEF Selecting, SelectPlanningSprint, ClearPlanningSprint, PageSprintStrip,
       ToggleTimelineSprintTasks, ChooseTimelineEpic, ResetTaskFilters, SetTaskFilters,
       SetTableFilters, SortOverview, ShowAt, Show
<1>3. ASSUME Moving PROVE server' = server
  BY <1>3 DEF Moving, Navigate, HomeLink, OpenBacklogView, OpenSharing, ChooseBoard, ApplyRoute, ShowAt, Show
<1>4. ASSUME LoadSettles PROVE server' = server
  BY <1>4 DEF LoadSettles, LoadAnswered, LoadFails
<1>5. ASSUME SaveSettles PROVE server' = server \/ \E s \in plan.saves : PutServed(s)
  BY <1>5 DEF SaveSettles, PutAnswered, PutFails, LateEnds
<1> QED BY <1>1, <1>2, <1>3, <1>4, <1>5 DEF Next, Refresh, EditPlan, SavePlan, vars

(* No step gives an Epic a parent or moves a ticket out of the columns.    *)
LEMMA KeptStays ==
  ASSUME PlanningInv, PlanningAssumption, ServerAssumption, KeptInv, [Next]_vars
  PROVE  KeptInv'
<1>1. Boards(server)
  BY DEF PlanningInv, TypeOK, Boards
<1>2. ASSUME NEW b, NEW x, x.tickets = b.tickets, x.columns = b.columns, IsKept(b) PROVE IsKept(x)
  BY <1>2 DEF IsKept, EpicsHaveNoParent, ColumnsExist, IsEpic
<1>3. \A i \in DOMAIN server' : IsKept(server'[i])
  <2>1. ASSUME NEW bd \in DOMAIN server \intersect DOMAIN BoardData, NEW data \in BoardData[bd], Change(bd, data)
        PROVE  \A i \in DOMAIN server' : IsKept(server'[i])
    <3> DEFINE x == [data EXCEPT !.cadence = server[bd].cadence]
    <3>1. IsBoard(data) /\ IsKept(data)
      BY DEF PlanningAssumption, ServerAssumption
    <3>2. x.tickets = data.tickets /\ x.columns = data.columns
      BY <3>1 DEF IsBoard
    <3>3. server' = [server EXCEPT ![bd] = x]
      BY <2>1 DEF Change
    <3> HIDE DEF x
    <3>4. IsKept(x)
      BY <1>2, <3>1, <3>2
    <3> QED BY <3>3, <3>4 DEF KeptInv
  <2>2. ASSUME NEW s \in plan.saves, PutServed(s)
        PROVE  \A i \in DOMAIN server' : IsKept(server'[i])
    <3>0. s.board \in DOMAIN server
      BY DEF PlanningInv, TypeOK
    <3> DEFINE x == [server[s.board] EXCEPT !.cadence = [start |-> s.start, weeks |-> s.weeks]]
    <3>1. IsBoard(server[s.board]) /\ IsKept(server[s.board])
      BY <1>1, <3>0 DEF Boards, KeptInv
    <3>2. x.tickets = server[s.board].tickets /\ x.columns = server[s.board].columns
      BY <3>1 DEF IsBoard
    <3>3. server' = [server EXCEPT ![s.board] = x]
      BY <2>2 DEF PutServed
    <3> HIDE DEF x
    <3>4. IsKept(x)
      BY <1>2, <3>1, <3>2
    <3> QED BY <3>3, <3>4 DEF KeptInv
  <2> QED BY <2>1, <2>2, BoardIsStored DEF KeptInv
<1>4. IsKept(board')
  BY BoardIsLoaded DEF KeptInv
<1> QED BY <1>3, <1>4 DEF KeptInv

(* So the board on the page is kept too.                                   *)
LEMMA KeptAlways ==
  ASSUME PlanningAssumption, ServerAssumption PROVE Spec => [](PlanningInv /\ KeptInv)
<1>1. Init => KeptInv
  BY DEF Init, KeptInv, ServerAssumption, PlanningAssumption
<1>2. PlanningInv /\ KeptInv /\ [Next]_vars => KeptInv'
  BY KeptStays
<1> QED BY <1>1, <1>2, PlanningInit, PlanningStep, PTL DEF Spec

(* Each row of the Overview and each dated task of the Timeline appears    *)
(* once, below its Epic, unless the Epic is collapsed, and one step deeper *)
(* than its parent, as the cards of the Board are: for every board without *)
(* an Epic below another ticket, circles of parents included.  Code:       *)
(* overviewGroupedRows, overviewHierarchyDepth, buildGanttRows,            *)
(* timelineDepth, boardCardDepth.                                          *)
THEOREM RowsAreShownOnce ==
  Spec => []RowsShowEachOnce
<1>1. ASSUME PlanningInv, KeptInv PROVE RowsShowEachOnce
  <2>1. IsBoard(board) /\ ui \in PageChoices /\ EpicsHaveNoParent(board)
    BY <1>1 DEF PlanningInv, TypeOK, KeptInv, IsKept
  <2>2. \A i \in WorkTickets(board) : Epic(i) \notin {0, i, T[i].parent} =>
          BoardCardDepth(board, i) = Least(3, 1 + BoardCardDepth(board, T[i].parent))
    BY <2>1, CardDepthGrows DEF Epic, T, WorkTickets
  <2> QED BY <2>1, <2>2, OverviewOnce, TimelineOnce DEF RowsShowEachOnce
<1>2. Spec => [](PlanningInv /\ KeptInv)
  BY PlanningAssumption, ServerAssumption, KeptAlways
<1> QED BY <1>1, <1>2, PTL

-----------------------------------------------------------------------------
(* The drawing of a chain *)

(* One drawing of connections between the tasks N.                         *)
DrawingIs(drawn, N, id) ==
  /\ IsFiniteSet(drawn.edges) /\ Valid(drawn.edges) = drawn.edges /\ drawn.edges \subseteq N \X N
  /\ drawn.steps = DependencySteps(drawn.edges, id)
  /\ drawn.related = {id} \union Ends(drawn.edges)
  /\ drawn.last \in Nat
  /\ \A i \in Ends(drawn.edges) : drawn.steps[i] \in 1 .. drawn.last

(* The last stage is the greatest of the stages.                           *)
LEMMA DrawnIs ==
  ASSUME NEW N \in SUBSET Nat, NEW E, IsFiniteSet(E), E \subseteq N \X N, NEW id \in Nat \ {0}
  PROVE  DrawingIs(Draw(E, N, id), N, id)
<1> DEFINE D == {e \in E : {e[1], e[2]} \subseteq N}
           edges == ConnectedEdges(D, id)
           steps == DependencySteps(edges, id)
           S == {1} \union {steps[i] : i \in DOMAIN steps}
<1>1. /\ Draw(E, N, id).edges = edges /\ Draw(E, N, id).steps = steps
      /\ Draw(E, N, id).last = Greatest(S) /\ Draw(E, N, id).related = {id} \union Ends(edges)
  <2> DEFINE related == IF id > 0 THEN {id} \union Ends(edges) ELSE {}
  <2>1. Draw(E, N, id) = [edges |-> edges, related |-> related, steps |-> steps, last |-> Greatest(S)]
    BY Zenon DEF Draw
  <2>2. id > 0
    OBVIOUS
  <2> HIDE DEF edges, steps, S
  <2> QED BY <2>1, <2>2
<1>2. edges \subseteq E /\ IsFiniteSet(edges) /\ Valid(edges) = edges
  <2>1. edges = {e \in Valid(D) : {e[1], e[2]} \subseteq Related(D, id)}
    BY DEF ConnectedEdges
  <2>2. edges \subseteq E
    <3> HIDE DEF edges
    <3> QED BY <2>1 DEF Valid
  <2>3. Valid(edges) = edges
    <3> HIDE DEF edges
    <3> QED BY <2>1 DEF Valid
  <2> QED BY <2>2, <2>3, FS_Subset
<1> HIDE DEF edges
<1>3. DOMAIN steps = Ends(edges) \union {id} /\ \A i \in DOMAIN steps : steps[i] \in Nat \ {0}
  BY <1>2, StepsAre
<1> HIDE DEF steps
<1>4. IsFiniteSet(DOMAIN steps)
  <2>1. IsFiniteSet(Ends(edges)) /\ IsFiniteSet({id})
    BY <1>2, EndsFinite, FS_Singleton
  <2> DEFINE A == Ends(edges)
             B == {id}
  <2>2. IsFiniteSet(A) /\ IsFiniteSet(B) /\ DOMAIN steps = A \union B
    BY <1>3, <2>1
  <2> HIDE DEF A, B
  <2> QED BY <2>2, FS_Union
<1>5. IsFiniteSet(S) /\ S \subseteq Nat /\ S # {}
  <2> DEFINE I == {steps[i] : i \in DOMAIN steps}
  <2>1. [i \in DOMAIN steps |-> steps[i]] \in Surjection(DOMAIN steps, I)
    BY DEF Surjection
  <2>2. IsFiniteSet(I)
    BY <1>4, <2>1, FS_Surjection
  <2>3. IsFiniteSet({1} \union I)
    <3> HIDE DEF I
    <3> QED BY <2>2, FS_Singleton, FS_Union
  <2> QED BY <1>3, <2>3
<1>6. Greatest(S) \in Nat /\ \A y \in S : y <= Greatest(S)
  <2> HIDE DEF S
  <2> QED BY <1>5, GreatestIs
<1>7. \A i \in Ends(edges) : steps[i] \in 1 .. Greatest(S)
  <2> TAKE i \in Ends(edges)
  <2>1. steps[i] \in S /\ steps[i] \in Nat \ {0}
    BY <1>3
  <2> HIDE DEF S
  <2> QED BY <1>6, <2>1
<1> HIDE DEF S
<1> QED BY <1>1, <1>2, <1>6, <1>7 DEF DrawingIs, steps

(* Later stages have other colors, and their labels never run back.        *)
LEMMA StagesDiffer ==
  ASSUME NEW last \in Nat, NEW s \in 1 .. last, NEW t \in 1 .. last, s < t
  PROVE  StageColor(s, last) # StageColor(t, last) /\ LabelRank(s, last) <= LabelRank(t, last)
<1>1. StageNumber(s, last) = s /\ StageNumber(t, last) = t /\ Middle(last) \in Int
  BY DEF StageNumber, Middle
<1>2. StageColor(s, last) # StageColor(t, last)
  BY <1>1 DEF StageColor
<1>3. LabelRank(s, last) <= LabelRank(t, last)
  BY <1>1 DEF LabelRank, RoleForStep
<1> QED BY <1>2, <1>3

(* A drawing reads from prerequisites to dependents.                       *)
LEMMA DrawingsRead ==
  ASSUME NEW drawn, NEW N, NEW id, DrawingIs(drawn, N, id)
  PROVE  DrawingReads(drawn)
<1>1. StagesGrow(drawn)
  <2> SUFFICES ASSUME NEW e \in drawn.edges, {e[1], e[2]} \subseteq Numbered(drawn.edges)
               PROVE  /\ drawn.steps[e[1]] < drawn.steps[e[2]]
                      /\ StageColor(drawn.steps[e[1]], drawn.last) # StageColor(drawn.steps[e[2]], drawn.last)
                      /\ LabelRank(drawn.steps[e[1]], drawn.last) <= LabelRank(drawn.steps[e[2]], drawn.last)
    BY DEF StagesGrow
  <2>1. e = <<e[1], e[2]>> /\ {e[1], e[2]} \subseteq Ends(drawn.edges)
    BY DEF DrawingIs, Ends
  <2>2. e[1] \in NumberedBefore(drawn.edges, e[2])
    BY <2>1 DEF NumberedBefore
  <2>3. drawn.steps[e[1]] < drawn.steps[e[2]]
    <3>1. /\ DOMAIN drawn.steps = Ends(drawn.edges) \union {id}
          /\ \A i \in DOMAIN drawn.steps : \A p \in NumberedBefore(drawn.edges, i) : drawn.steps[p] < drawn.steps[i]
      BY StepsAre DEF DrawingIs
    <3> QED BY <2>1, <2>2, <3>1
  <2> QED BY <2>1, <2>3, StagesDiffer DEF DrawingIs
<1>2. BrightEndsMeet(drawn)
  <2> SUFFICES ASSUME NEW focus \in PointerFocus(drawn)
               PROVE  LET bright == IsolateConnection(drawn, focus)
                      IN bright.tasks \subseteq drawn.related /\ Ends(bright.wires) \subseteq bright.tasks
    BY DEF BrightEndsMeet
  <2>1. Ends(drawn.edges) \subseteq drawn.related
    BY DEF DrawingIs
  <2>2. focus.at = "task" => focus.id \in drawn.related
    BY DEF PointerFocus
  <2>3. \A B \in SUBSET drawn.edges : Ends(B) \subseteq Ends(drawn.edges)
    BY DEF Ends
  <2> QED BY <2>1, <2>2, <2>3 DEF IsolateConnection
<1> QED BY <1>1, <1>2 DEF DrawingReads

-----------------------------------------------------------------------------
(* Lists in the order of the stages *)

(* x may stand before y.                                                   *)
MayPrecede(steps, x, y) ==
  /\ y \in DOMAIN steps => x \in DOMAIN steps
  /\ {x, y} \subseteq DOMAIN steps => steps[x] <= steps[y]

(* What is sorted by stages may.                                           *)
LEMMA StagedPrecede ==
  ASSUME NEW steps, StepsTyped(steps), NEW F, NEW S, NEW x, NEW y, <<x, y>> \in Staged(steps, F, S)
  PROVE  MayPrecede(steps, x, y)
BY DEF MayPrecede, Staged, StepsTyped

ListReads(list, steps) ==
  /\ DOMAIN list.rows \subseteq Nat /\ IsInjective(list.rows)
  /\ \A j, k \in DOMAIN list.rows :
       (j < k /\ {list.rows[j], list.rows[k]} \subseteq list.of) => MayPrecede(steps, list.rows[j], list.rows[k])

(* So may any two elements of a list in that order.                        *)
LEMMA ListPrecede ==
  ASSUME NEW s, NEW steps, StepsTyped(steps), NEW S, InOrder(s, steps, S)
  PROVE  \A j, k \in DOMAIN s : j < k => MayPrecede(steps, s[j], s[k])
<1>1. PICK F : Lists(s, Staged(steps, F, S), S)
  BY DEF InOrder
<1>2. \A j, k \in DOMAIN s : j < k => <<s[j], s[k]>> \in Staged(steps, F, S)
  BY <1>1 DEF Lists
<1> QED BY <1>2, StagedPrecede

(* The cards of a cell.                                                    *)
LEMMA CellsRead ==
  ASSUME IsBoard(board), NEW d, d.work \subseteq WorkTickets(board), StepsTyped(d.steps),
         NEW lane \in BoardLanes(board, d), NEW c
  PROVE  ListReads(Cell(BoardLaneColumnItems(board, d, lane, c)), d.steps)
<1> DEFINE S == {i \in lane.items : board.tickets[i].column = c}
           rows == BoardSorted(board, d.steps, S)
<1>1. S \subseteq DOMAIN board.tickets
  BY DEF BoardLanes, BoardSwimlaneData, WorkTickets
<1>2. BoardLaneColumnItems(board, d, lane, c) = rows
  BY DEF BoardLaneColumnItems, BoardSorted
<1> HIDE DEF S
<1>3. Lists(rows, Staged(d.steps, TicketOrderPairs(board), S), S)
  BY <1>1, BoardLists
<1> HIDE DEF rows
<1>4. InOrder(rows, d.steps, S) /\ DOMAIN rows \subseteq Nat /\ IsInjective(rows)
  BY <1>3 DEF InOrder, Lists
<1>5. \A j, k \in DOMAIN rows : j < k => MayPrecede(d.steps, rows[j], rows[k])
  BY <1>4, ListPrecede
<1> QED BY <1>2, <1>4, <1>5 DEF ListReads, Cell

(* Rows in groups that are in order.                                       *)
LEMMA GroupsRead ==
  ASSUME NEW heads, NEW members, NEW tail, Grouping(DOMAIN T, heads, members, tail, TopOf(board)),
         NEW rows, rows = GroupRows(heads, members, tail), NEW steps, StepsTyped(steps),
         \A e \in Range(heads) : \E S : InOrder(members[e], steps, S),
         \E S : InOrder(tail, steps, S),
         NEW list \in Groups(rows)
  PROVE  ListReads(list, steps)
<1>1. PICK e : list = [rows |-> rows, of |-> {i \in Range(rows) : i # e /\ Epic(i) = e}]
  BY DEF Groups
<1>2. rows \in Seq(DOMAIN T) /\ IsInjective(rows)
  BY GroupsGrouped
<1>3. ASSUME NEW j \in DOMAIN rows, NEW k \in DOMAIN rows, j < k,
             Epic(rows[j]) = e, Epic(rows[k]) = e, rows[j] # e, rows[k] # e
      PROVE  MayPrecede(steps, rows[j], rows[k])
  <2> DEFINE part == IF e = 0 THEN tail ELSE members[e]
  <2>1. rows[j] \in DOMAIN T /\ rows[k] \in DOMAIN T
    BY <1>2
  <2>2. TopOf(board)[rows[j]] = e /\ TopOf(board)[rows[k]] = e
    BY <1>3, <2>1 DEF TopOf, Epic, T
  <2>3. /\ e # 0 => e \in Range(heads)
        /\ \E m, n \in DOMAIN part : m < n /\ part[m] = rows[j] /\ part[n] = rows[k]
    BY <1>3, <2>2, MembersInOrder
  <2>4. \E S : InOrder(part, steps, S)
    BY <2>3
  <2> HIDE DEF part
  <2>5. PICK S : InOrder(part, steps, S)
    BY <2>4
  <2>6. \A m, n \in DOMAIN part : m < n => MayPrecede(steps, part[m], part[n])
    BY <2>5, ListPrecede
  <2> QED BY <2>3, <2>6
<1> QED BY <1>1, <1>2, <1>3 DEF ListReads

(* The stages the views are sorted by number the whole chain, and a task   *)
(* outside circles comes after its prerequisites.                          *)
LEMMA ChainStages ==
  ASSUME IsBoard(board), Chain # NoChain, ui.sort = "dependencies"
  PROVE  LET E == DependencyHoverEdges(board, Chain)
         IN /\ DOMAIN Drawn.steps = Chain /\ Numbered(E) \subseteq Chain
            /\ \A i, j \in Numbered(E) : (i # j /\ i \in T[j].links) => Drawn.steps[i] < Drawn.steps[j]
<1> DEFINE work == SprintFilteredWork(board, ui, WorkTickets(board))
           E == DependencyHoverEdges(board, Chain)
           steps == DependencySteps(E, ui.focus)
           links == {e \in work \X work : e[1] \in T[e[2]].links \/ e[2] \in T[e[1]].links}
<1>1. /\ ChainIsConnected(Chain, work) /\ Chain \subseteq work
      /\ Chain \subseteq WorkTickets(board)
  <2>1. work \subseteq WorkTickets(board)
    BY SprintWorkIsWork
  <2> QED BY <2>1, ChainConnects
<1>2. Drawn.steps = steps
  <2>1. {e \in DependencyHoverEdges(board, work) : {e[1], e[2]} \subseteq Chain} = E
    <3> HIDE DEF work
    <3> QED BY <1>1 DEF DependencyHoverEdges
  <2>2. Drawn.steps = DependencyOrderSteps(board, ui, Chain, work)
    BY DEF Drawn, Snapshot, DependencySnapshot, Chain
  <2> HIDE DEF E, work
  <2> QED BY <2>1, <2>2 DEF DependencyOrderSteps
<1>3. /\ IsFiniteSet(E) /\ Valid(E) = E /\ E \subseteq Chain \X Chain
      /\ \A i, j \in Chain : i # j => (<<i, j>> \in E <=> i \in T[j].links)
  BY <1>1, EdgesAre DEF T
<1> HIDE DEF E
<1>4. /\ DOMAIN steps = Ends(E) \union {ui.focus}
      /\ \A i \in DOMAIN steps : \A p \in NumberedBefore(E, i) : steps[p] < steps[i]
  BY <1>3, StepsAre
<1> HIDE DEF steps
<1>5. ui.focus \in Chain
      /\ \A S \in (SUBSET Chain) \ {Chain} :
           ui.focus \in S => \E e \in links : e[1] \in S /\ e[2] \in Chain \ S
  <2> HIDE DEF work
  <2> QED BY <1>1 DEF ChainIsConnected
<1>6. Ends(E) \union {ui.focus} = Chain
  <2>1. Ends(E) \union {ui.focus} \subseteq Chain
    BY <1>3, <1>5 DEF Ends
  <2>2. ASSUME NEW x \in Chain, x # ui.focus PROVE x \in Ends(E)
    <3>1. Chain \ {x} \in (SUBSET Chain) \ {Chain} /\ ui.focus \in Chain \ {x}
      BY <1>5, <2>2
    <3>2. PICK e \in links : e[1] \in Chain \ {x} /\ e[2] \in Chain \ (Chain \ {x})
      <4> HIDE DEF links
      <4> QED BY <1>5, <3>1
    <3>3. e[2] = x /\ e[1] \in Chain /\ e[1] # x /\ (e[1] \in T[x].links \/ x \in T[e[1]].links)
      BY <3>2
    <3>4. <<e[1], x>> \in E \/ <<x, e[1]>> \in E
      BY <1>3, <2>2, <3>3
    <3> QED BY <3>4 DEF Ends
  <2> QED BY <2>1, <2>2
<1>7. Numbered(E) \subseteq Chain
  <2>1. PICK met : IsNumbering(met, E)
    BY <1>3, NumberingMet
  <2>2. Cardinality(Ends(E)) \in 0 .. Cardinality(Ends(E))
    BY <1>3, EndsFinite
  <2>3. \A n \in 0 .. Cardinality(Ends(E)) : met[n] \subseteq Ends(E)
    BY <1>3, <2>1, NumberingGrows
  <2>4. Numbered(E) = met[Cardinality(Ends(E))]
    BY <2>1 DEF IsNumbering
  <2> QED BY <1>6, <2>2, <2>3, <2>4
<1>8. ASSUME NEW i \in Numbered(E), NEW j \in Numbered(E), i # j, i \in T[j].links
      PROVE  steps[i] < steps[j]
  <2>1. i \in Chain /\ j \in Chain
    BY <1>7
  <2>2. <<i, j>> \in E
    BY <1>3, <1>8, <2>1
  <2>3. i \in NumberedBefore(E, j)
    BY <2>2 DEF NumberedBefore
  <2> QED BY <1>4, <1>6, <2>1, <2>3
<1> QED BY <1>2, <1>4, <1>6, <1>7, <1>8 DEF E

(* Such a list puts prerequisites first, and the chain before the rest.    *)
LEMMA ListInStages ==
  ASSUME IsBoard(board), Chain # NoChain, ui.sort = "dependencies",
         NEW list, ListReads(list, Drawn.steps)
  PROVE  InStages(list, Chain, Numbered(DependencyHoverEdges(board, Chain)))
<1> DEFINE E == DependencyHoverEdges(board, Chain)
           steps == Drawn.steps
           rows == list.rows
<1>0. StepsTyped(steps)
  BY SnapshotIs DEF Drawn
<1>1. /\ DOMAIN steps = Chain /\ Numbered(E) \subseteq Chain
      /\ \A i, j \in Numbered(E) : (i # j /\ i \in T[j].links) => steps[i] < steps[j]
  BY ChainStages
<1> HIDE DEF steps, E
<1>3. ASSUME NEW j \in DOMAIN rows, NEW k \in DOMAIN rows, j < k, {rows[j], rows[k]} \subseteq list.of
      PROVE  /\ rows[k] \in T[rows[j]].links => {rows[j], rows[k]} \ Numbered(E) # {}
             /\ rows[k] \in Chain => rows[j] \in Chain
  <2>1. MayPrecede(steps, rows[j], rows[k]) /\ IsInjective(rows)
    BY <1>3 DEF ListReads, steps
  <2>2. rows[j] # rows[k]
    <3>1. j \in Nat /\ k \in Nat
      BY DEF ListReads
    <3> QED BY <1>3, <2>1, <3>1 DEF IsInjective
  <2>3. ASSUME rows[k] \in Chain PROVE rows[j] \in Chain
    BY <1>1, <2>1, <2>3 DEF MayPrecede
  <2>4. ASSUME rows[k] \in T[rows[j]].links, rows[j] \in Numbered(E), rows[k] \in Numbered(E) PROVE FALSE
    <3>1. steps[rows[k]] < steps[rows[j]] /\ {rows[j], rows[k]} \subseteq DOMAIN steps
      BY <1>1, <2>2, <2>4
    <3>2. steps[rows[j]] <= steps[rows[k]]
      BY <2>1, <3>1 DEF MayPrecede
    <3> QED BY <1>0, <3>1, <3>2 DEF StepsTyped
  <2> QED BY <2>3, <2>4
<1> QED BY <1>3 DEF InStages, E

(* The rows of the Overview.                                               *)
LEMMA OverviewReads ==
  ASSUME IsBoard(board), EpicsHaveNoParent(board), ui \in PageChoices,
         NEW list \in Groups(OverviewRows(board, ui, Drawn))
  PROVE  ListReads(list, Drawn.steps)
<1> DEFINE R == OverviewFiltered(board, ui, Drawn)
           rows == OverviewRows(board, ui, Drawn)
<1>1. Drawn.work \subseteq WorkTickets(board) /\ StepsTyped(Drawn.steps)
  BY SnapshotIs DEF Drawn
<1>2. R \subseteq WorkTickets(board)
  BY <1>1 DEF OverviewFiltered
<1>3. rows = OverviewGroupedRows(board, ui, Drawn, R)
  BY DEF OverviewRows
<1>4. ui.order \in [key : SortKeys, descending : BOOLEAN]
  BY DEF PageChoices
<1> HIDE DEF R
<1>5. PICK heads, members, tail : OverviewGroupsAre(board, ui, Drawn, R, heads, members, tail)
  <2>1. \E heads, members, tail : OverviewGroupsAre(board, ui, Drawn, R, heads, members, tail)
    BY <1>1, <1>2, <1>4, OverviewGroups
  <2> QED BY <2>1
<1> HIDE DEF rows
<1>6. Grouping(DOMAIN T, heads, members, tail, TopOf(board)) /\ rows = GroupRows(heads, members, tail)
  BY <1>3, <1>5 DEF OverviewGroupsAre, T
<1>7. \A e \in Range(heads) : \E S : InOrder(members[e], Drawn.steps, S)
  BY <1>5 DEF OverviewGroupsAre, InOrder
<1>8. \E S : InOrder(tail, Drawn.steps, S)
  BY <1>5 DEF OverviewGroupsAre, InOrder
<1>9. list \in Groups(rows)
  BY DEF rows
<1> QED BY <1>1, <1>6, <1>7, <1>8, <1>9, GroupsRead

(* The rows of the Timeline.                                               *)
LEMMA TimelineReads ==
  ASSUME IsBoard(board), EpicsHaveNoParent(board),
         NEW list \in Groups(RowsOf(Drawn, Schedule(Drawn)))
  PROVE  ListReads(list, Drawn.steps)
<1> DEFINE W == TimelineFilteredWork(board, ui, Drawn)
           bars == GanttTasks(board, Drawn, W)
           rows == BuildGanttRows(board, ui, Drawn, W, bars)
<1>1. Drawn.work \subseteq WorkTickets(board) /\ StepsTyped(Drawn.steps)
  BY SnapshotIs DEF Drawn
<1>2. W \subseteq WorkTickets(board)
  BY <1>1, TimelineWorkIsWork
<1>3. list \in Groups(rows)
  BY DEF Schedule, RowsOf
<1> HIDE DEF W
<1>5. PICK heads, members, tail : TimelineGroupsAre(board, ui, Drawn, W, bars, heads, members, tail)
  <2>1. \E heads, members, tail : TimelineGroupsAre(board, ui, Drawn, W, bars, heads, members, tail)
    BY <1>1, <1>2, TimelineGroups
  <2> QED BY <2>1
<1> HIDE DEF bars
<1>6. Grouping(DOMAIN T, heads, members, tail, TopOf(board)) /\ rows = GroupRows(heads, members, tail)
  BY <1>5 DEF TimelineGroupsAre, T
<1>7. \A e \in Range(heads) : \E S : InOrder(members[e], Drawn.steps, S)
  BY <1>5 DEF TimelineGroupsAre
<1>8. \E S : InOrder(tail, Drawn.steps, S)
  BY <1>5 DEF TimelineGroupsAre
<1> HIDE DEF rows
<1> QED BY <1>1, <1>3, <1>6, <1>7, <1>8, GroupsRead

(* All lists of the three views.                                           *)
LEMMA ListsRead ==
  ASSUME IsBoard(board), EpicsHaveNoParent(board), ui \in PageChoices, ui.view \in PlanningViews,
         NEW list \in OrderedLists(Drawn)
  PROVE  ListReads(list, Drawn.steps)
<1>0. Drawn.work \subseteq WorkTickets(board) /\ StepsTyped(Drawn.steps)
  BY SnapshotIs DEF Drawn
<1>1. CASE ui.view = "board"
  <2>1. PICK lane \in BoardLanes(board, Drawn), c \in DOMAIN board.columns :
          list = Cell(BoardLaneColumnItems(board, Drawn, lane, c))
    BY <1>1 DEF OrderedLists
  <2> QED BY <1>0, <2>1, CellsRead
<1>2. CASE ui.view = "overview"
  <2>1. list \in Groups(OverviewRows(board, ui, Drawn))
    BY <1>2 DEF OrderedLists
  <2> QED BY <2>1, OverviewReads
<1>3. CASE ui.view = "timeline"
  <2>1. list \in Groups(RowsOf(Drawn, Schedule(Drawn)))
    BY <1>3 DEF OrderedLists
  <2> QED BY <2>1, TimelineReads
<1> QED BY <1>1, <1>2, <1>3 DEF PlanningViews

(* The drawing of the chain.                                               *)
LEMMA ChainIsDrawn ==
  ASSUME IsBoard(board), Chain # NoChain
  PROVE  DrawingReads(Draw(DependencyHoverEdges(board, Chain), Chain, ui.focus))
<1> DEFINE E == DependencyHoverEdges(board, Chain)
           work == SprintFilteredWork(board, ui, WorkTickets(board))
<1>1. Chain \subseteq WorkTickets(board) /\ ui.focus \in WorkTickets(board)
  <2>1. work \subseteq WorkTickets(board)
    BY SprintWorkIsWork
  <2>2. Chain \subseteq work
    BY ChainConnects
  <2>3. ui.focus \in work
    BY DEF Chain, DependencyViewIds, ConnectedDependencyIds
  <2> QED BY <2>1, <2>2, <2>3
<1>2. WorkTickets(board) \subseteq Nat \ {0}
  BY DEF IsBoard, WorkTickets
<1>3. IsFiniteSet(E) /\ E \subseteq Chain \X Chain
  BY <1>1, EdgesAre
<1> HIDE DEF E
<1>4. DrawingIs(Draw(E, Chain, ui.focus), Chain, ui.focus)
  BY <1>1, <1>2, <1>3, DrawnIs
<1>5. DrawingReads(Draw(E, Chain, ui.focus))
  BY <1>4, DrawingsRead
<1> QED BY <1>5 DEF E

(* In dependency order every list of the Board, the Overview and the       *)
(* Timeline puts a prerequisite of the chain before the tasks that need it *)
(* and the chain before other tasks; in its drawing stage and label run    *)
(* forward, circles of links elsewhere or not, and under the pointer a     *)
(* bright wire has two bright ends.  Code: planningCompare,                *)
(* dependencySteps, roleForStep, isolateConnection.                        *)
THEOREM ChainsReadInOrder == Spec => []ChainReadsInOrder
<1>1. ASSUME PlanningInv, KeptInv PROVE ChainReadsInOrder
  <2>1. IsBoard(board) /\ ui \in PageChoices /\ EpicsHaveNoParent(board)
    BY <1>1 DEF PlanningInv, TypeOK, KeptInv, IsKept
  <2>2. ASSUME ui.view \in PlanningViews, Chain # NoChain, ui.sort = "dependencies", NEW list \in OrderedLists(Drawn)
        PROVE  InStages(list, Chain, Numbered(DependencyHoverEdges(board, Chain)))
    BY <2>1, <2>2, ListsRead, ListInStages
  <2>3. Chain # NoChain => DrawingReads(Draw(DependencyHoverEdges(board, Chain), Chain, ui.focus))
    BY <2>1, ChainIsDrawn
  <2> QED BY <2>2, <2>3 DEF ChainReadsInOrder
<1>2. Spec => [](PlanningInv /\ KeptInv)
  BY PlanningAssumption, ServerAssumption, KeptAlways
<1> QED BY <1>1, <1>2, PTL

(* A climb of n steps, as TopEpicFor makes it.                             *)
Climbed(b, c, e, n) ==
  \A x \in DOMAIN b.tickets : \A met : (c[n][x] = e /\ UpFrom(b, {}, x, met)) => e \in met[n - 1]

(* The Epic that a climb ends at is met on the way up.                     *)
LEMMA ClimbMeets ==
  ASSUME NEW b, IsBoard(b), EpicsHaveNoParent(b), NEW c, IsClimb(b, c), NEW e, e # 0
  PROVE  \A n \in 1 .. Size(b) : Climbed(b, c, e, n)
<1> DEFINE K == Size(b)
           bad == {n \in 1 .. K : ~Climbed(b, c, e, n)}
<1>1. K \in Nat
  BY SizeTyped
<1> SUFFICES ASSUME bad # {} PROVE FALSE
  OBVIOUS
<1>2. PICK n \in bad : \A m \in bad : n <= m
  <2>1. bad \in SUBSET Nat
    OBVIOUS
  <2> HIDE DEF bad
  <2> QED BY <2>1, LeastNumber
<1>3. n \in 1 .. K /\ ~Climbed(b, c, e, n)
  OBVIOUS
<1> HIDE DEF bad
<1>4. n - 1 \in 0 .. K /\ ~(n <= n - 1) /\ (n - 1 # 0 => n - 1 \in 1 .. K)
  BY <1>1, <1>3
<1>5. PICK x \in DOMAIN b.tickets : \E met : c[n][x] = e /\ UpFrom(b, {}, x, met) /\ e \notin met[n - 1]
  BY <1>3 DEF Climbed
<1>6. PICK met : c[n][x] = e /\ UpFrom(b, {}, x, met) /\ e \notin met[n - 1]
  BY <1>5
<1> DEFINE p == b.tickets[x].parent
<1>7. /\ p \in DOMAIN b.tickets
      /\ p = e \/ (p # e /\ UpTo(b, {}, x) = {p} /\ c[n - 1][p] = e)
  <2>1. Arrives(b, c, e, {}, n, x)
    BY <1>1, <1>3, <1>6 DEF Arrives, Cut
  <2> QED BY <2>1, ClimbStepIs
<1>8. CASE p = e
  <2>1. UpTo(b, {}, x) = {e}
    BY <1>7, <1>8 DEF UpTo, ParentOf
  <2>2. met[0] = {e} /\ met[0] \subseteq met[n - 1]
    <3>1. met[0] = UpTo(b, {}, x)
      BY <1>6 DEF UpFrom
    <3>2. \A m \in 0 .. K : met[0] \subseteq met[m]
      BY <1>6, UpIs
    <3> QED BY <1>4, <2>1, <3>1, <3>2
  <2> QED BY <1>6, <2>2
<1>9. CASE p # e
  <2>1. UpTo(b, {}, x) = {p} /\ c[n - 1][p] = e
    BY <1>7, <1>9
  <2>2. n - 1 # 0
    <3>1. c[0][p] = 0
      BY <1>7 DEF IsClimb
    <3> QED BY <2>1, <3>1
  <2>3. n - 1 \in 1 .. K /\ Climbed(b, c, e, n - 1)
    <3>1. n - 1 \in 1 .. K /\ n - 1 \notin bad
      BY <1>2, <1>4, <2>2
    <3> QED BY <3>1 DEF bad
  <2>4. PICK meq : UpFrom(b, {}, p, meq)
    BY WholeUpMet
  <2>5. e \in meq[(n - 1) - 1]
    BY <1>7, <2>1, <2>3, <2>4 DEF Climbed
  <2>6. met[n - 1] = {p} \union meq[(n - 1) - 1]
    <3>0. UpFrom(b, {}, x, met) /\ UpTo(b, {}, x) = {p} /\ UpFrom(b, {}, p, meq)
      BY <1>6, <2>1, <2>4
    <3>1. \A m \in 1 .. Size(b) : met[m] = {p} \union meq[m - 1]
      <4> HIDE DEF p, K
      <4> QED BY <3>0, UpLevels
    <3> QED BY <2>3, <3>1
  <2> QED BY <1>6, <2>5, <2>6
<1> QED BY <1>8, <1>9

(* So the Epic of a ticket is above it.                                    *)
LEMMA TopIsAbove ==
  ASSUME NEW b, IsBoard(b), EpicsHaveNoParent(b), NEW i \in DOMAIN b.tickets, ~IsEpic(b, i), TopEpicFor(b, i) # 0
  PROVE  TopEpicFor(b, i) \in EpicsAbove(b, i)
<1> DEFINE K == Size(b)
           e == TopEpicFor(b, i)
<1>1. K \in Nat \ {0} /\ e \in WorkTickets(b) /\ IsEpic(b, e)
  BY SizePositive, TopIs
<1>2. PICK c : IsClimb(b, c)
  BY ClimbIs
<1>3. e = c[K][i]
  BY <1>2 DEF IsClimb
<1>4. PICK met : /\ UpFrom(b, {}, i, met)
                 /\ LET above(j) == ParentOf(b, j) IN Walk(b, above, above(i)) = met[Size(b)]
  BY WholeUpMet
<1>5. EpicsAbove(b, i) = {x \in met[K] : IsEpic(b, x) /\ x \in WorkTickets(b)}
  BY <1>4 DEF EpicsAbove
<1> HIDE DEF e
<1>6. K \in 1 .. K /\ e # 0
  BY <1>1 DEF e
<1>7. Climbed(b, c, e, K)
  BY <1>2, <1>6, ClimbMeets
<1>8. e \in met[K - 1]
  <2> HIDE DEF K
  <2> QED BY <1>3, <1>4, <1>7 DEF Climbed
<1>9. met[K - 1] \subseteq met[K]
  <2>1. \A n \in 1 .. Size(b) : met[n - 1] \subseteq met[n]
    BY <1>4, UpIs
  <2> QED BY <1>6, <2>1
<1> QED BY <1>1, <1>5, <1>8, <1>9 DEF e

(* What a Sprint shows has the Epics of its tasks.                         *)
LEMMA SprintHasTops ==
  ASSUME NEW b, IsBoard(b), EpicsHaveNoParent(b), NEW S \in SUBSET WorkTickets(b), NEW n,
         NEW x \in WithEpics(b, SprintTasks(b, S, n)), TopEpicFor(b, x) # 0
  PROVE  TopEpicFor(b, x) \in WithEpics(b, SprintTasks(b, S, n))
<1> DEFINE tasks == SprintTasks(b, S, n)
<1>1. x \in WorkTickets(b) /\ (x \in tasks \/ \E i \in tasks : x \in EpicsAbove(b, i))
  BY DEF WithEpics
<1>2. x \in DOMAIN b.tickets
  BY <1>1 DEF WorkTickets
<1>3. CASE IsEpic(b, x)
  BY <1>2, <1>3, EpicOnTop
<1>4. CASE ~IsEpic(b, x)
  <2>1. x \in tasks
    BY <1>1, <1>4 DEF EpicsAbove
  <2>2. TopEpicFor(b, x) \in EpicsAbove(b, x) /\ TopEpicFor(b, x) \in WorkTickets(b)
    BY <1>2, <1>4, TopIsAbove, TopIs
  <2> QED BY <2>1, <2>2 DEF WithEpics
<1> QED BY <1>3, <1>4

-----------------------------------------------------------------------------
(* The chain on the screen *)

(* The work of one rendering: what the Sprint has of these tickets.        *)
Offered ==
  WorkTickets(board) \intersect
    ((IF ui.focused THEN {} ELSE FilteredWork(board, ui)) \union Chain
       \union UNION {EpicsAbove(board, i) : i \in Chain})

(* What a rendering draws from.                                            *)
LEMMA DrawnWorkIs ==
  ASSUME Chain # NoChain
  PROVE  /\ Drawn.ids = Chain
         /\ Drawn.work = SprintFilteredWork(board, ui, Offered)
         /\ Offered \subseteq WorkTickets(board)
         /\ Chain \intersect WorkTickets(board) \subseteq Offered
         /\ (~ui.focused /\ ActiveTaskFilters(ui) = {}) => Offered = WorkTickets(board)
<1>1. Drawn.ids = Chain /\ Drawn.work = PlanningWork(board, ui, Chain)
  BY DEF Drawn, Snapshot, DependencySnapshot, Chain
<1>2. PlanningWork(board, ui, Chain) = SprintFilteredWork(board, ui, Offered)
  BY DEF PlanningWork, Offered
<1>3. (~ui.focused /\ ActiveTaskFilters(ui) = {}) => Offered = WorkTickets(board)
  <2>1. ActiveTaskFilters(ui) = {} => FilteredWork(board, ui) = WorkTickets(board)
    BY NoFilterHidesNothing
  <2> QED BY <2>1 DEF Offered
<1> QED BY <1>1, <1>2, <1>3 DEF Offered

(* A selected Sprint has a number.                                         *)
LEMMA SelectedIsNumbered ==
  ASSUME ui \in PageChoices, SelectedPlanningSprint(board, ui) # NoSprint PROVE ui.sprint # 0
BY DEF SelectedPlanningSprint, SprintByNumber, PageChoices

(* The filters leave the work of the Sprint, and take no task out of it.   *)
LEMMA SprintWorkGrows ==
  ASSUME NEW b, NEW u, NEW S \in SUBSET WorkTickets(b)
  PROVE  SprintFilteredWork(b, u, S) \subseteq SprintFilteredWork(b, u, WorkTickets(b))
<1>1. SprintTasks(b, S, u.sprint) \subseteq SprintTasks(b, WorkTickets(b), u.sprint)
  BY DEF SprintTasks
<1> QED BY <1>1 DEF SprintFilteredWork, WithEpics

(* A task of the chain is among the work, or is an Epic of the Sprint for  *)
(* its tasks.                                                              *)
LEMMA ChainIsWork ==
  ASSUME IsBoard(board), ui \in PageChoices, Chain # NoChain, NEW i \in Chain
  PROVE  i \in Drawn.work \/ LeftOut(Drawn, i)
<1> DEFINE work == SprintFilteredWork(board, ui, WorkTickets(board))
           all == SprintTasks(board, WorkTickets(board), ui.sprint)
           some == SprintTasks(board, Offered, ui.sprint)
<1>1. i \in work /\ i \in WorkTickets(board)
  <2>1. work \subseteq WorkTickets(board)
    BY SprintWorkIsWork
  <2>2. Chain \subseteq work
    BY ChainConnects
  <2> QED BY <2>1, <2>2
<1>2. i \in Offered /\ Drawn.work = SprintFilteredWork(board, ui, Offered)
  BY <1>1, DrawnWorkIs
<1>3. CASE ui.view = "timeline" \/ SelectedPlanningSprint(board, ui) = NoSprint
  BY <1>2, <1>3 DEF SprintFilteredWork
<1>4. CASE ~(ui.view = "timeline" \/ SelectedPlanningSprint(board, ui) = NoSprint)
  <2>1. work = WithEpics(board, all) /\ Drawn.work = WithEpics(board, some)
    BY <1>2, <1>4 DEF SprintFilteredWork
  <2>2. CASE i \in all
    <3>1. i \in some
      BY <1>2, <2>2 DEF SprintTasks
    <3> HIDE DEF some
    <3> QED BY <1>1, <2>1, <3>1 DEF WithEpics
  <2>3. CASE i \notin all /\ i \notin Drawn.work
    <3>1. \E j \in all : i \in EpicsAbove(board, j)
      <4> HIDE DEF all
      <4> QED BY <1>1, <2>1, <2>3 DEF WithEpics
    <3>2. ui.sprint # 0
      BY <1>4, SelectedIsNumbered
    <3>3. ui.focused \/ ActiveTaskFilters(ui) # {}
      <4> SUFFICES ASSUME ~ui.focused, ActiveTaskFilters(ui) = {} PROVE FALSE
        OBVIOUS
      <4>1. Offered = WorkTickets(board)
        BY DrawnWorkIs
      <4> QED BY <1>1, <1>2, <2>3, <4>1
    <3> QED BY <2>3, <3>1, <3>2, <3>3 DEF LeftOut
  <2> QED BY <2>2, <2>3
<1> QED BY <1>3, <1>4

(* What the links among the shown part of the work connect, when all of    *)
(* the chain is in it.                                                     *)
LEMMA DrawingMarksAll ==
  ASSUME IsBoard(board), Chain # NoChain,
         NEW N, Chain \subseteq N, N \subseteq SprintFilteredWork(board, ui, WorkTickets(board))
  PROVE  Related(DependencyHoverEdges(board, N), ui.focus) = Chain
<1> DEFINE work == SprintFilteredWork(board, ui, WorkTickets(board))
           E == DependencyHoverEdges(board, work)
           F == DependencyHoverEdges(board, N)
           R == Related(F, ui.focus)
<1>1. work \subseteq WorkTickets(board)
  BY SprintWorkIsWork
<1>2. Chain = Related(E, ui.focus) /\ N \subseteq work
  BY ChainConnects
<1> HIDE DEF work
<1>3. IsFiniteSet(E) /\ Valid(E) = E
  BY <1>1, EdgesAre
<1>4. IsFiniteSet(F) /\ Valid(F) = F
  BY <1>1, <1>2, EdgesAre
<1>5. F = {e \in E : {e[1], e[2]} \subseteq N}
  BY <1>2 DEF DependencyHoverEdges
<1>6. /\ ui.focus \in Chain /\ \A e \in E : e[1] \in Chain <=> e[2] \in Chain
      /\ \A S : (ui.focus \in S /\ \A e \in E : e[1] \in S <=> e[2] \in S) => Chain \subseteq S
  <2> HIDE DEF E
  <2> QED BY <1>2, <1>3, RelatedIs
<1>7. /\ ui.focus \in R /\ \A e \in F : e[1] \in R <=> e[2] \in R
      /\ \A S : (ui.focus \in S /\ \A e \in F : e[1] \in S <=> e[2] \in S) => R \subseteq S
  <2> HIDE DEF F
  <2> QED BY <1>4, RelatedIs
<1> HIDE DEF E, F, R
<1>8. R \subseteq Chain
  BY <1>5, <1>6, <1>7
<1>9. \A e \in E : e[1] \in R <=> e[2] \in R
  <2> TAKE e \in E
  <2>1. (e[1] \in R \/ e[2] \in R) => e[1] \in Chain /\ e[2] \in Chain
    BY <1>6, <1>8
  <2>2. (e[1] \in Chain /\ e[2] \in Chain) => e \in F
    BY <1>5
  <2> QED BY <1>7, <2>1, <2>2
<1> QED BY <1>6, <1>7, <1>8, <1>9 DEF R, F

(* The Epics above tickets of a set.                                       *)
Tops(S) == {TopEpicFor(board, i) : i \in S} \ {0}

(* The Board has a lane for the Epic of a task of the chain, unless that   *)
(* Epic is completed.                                                      *)
LEMMA BoardShowsChain ==
  ASSUME IsBoard(board), IsKept(board), ui.view = "board", Drawn.ids = Chain,
         Drawn.work \subseteq WorkTickets(board), NEW i \in Chain, i \in Drawn.work
  PROVE  \/ i \in Shown(board, ui, Drawn) \/ Epic(i) \in ui.collapsed
         \/ Epic(i) # 0 /\ BoardEpicCompleted(board, Epic(i))
<1> DEFINE d == Drawn
           e == TopEpicFor(board, i)
           lane == [epic |-> e, items |-> {j \in d.work : TopEpicFor(board, j) = e /\ j # e
                                                           /\ (e = 0 => ~IsEpic(board, j))}]
<1>1. i \in DOMAIN board.tickets /\ i # 0 /\ EpicsHaveNoParent(board)
      /\ board.tickets[i].column \in DOMAIN board.columns
  BY DEF WorkTickets, IsBoard, IsKept, ColumnsExist
<1>2. Shown(board, ui, d) = UNION {ShownLane(board, ui, l) : l \in BoardLanes(board, d)}
  BY DEF Shown
<1>3. lane \in BoardSwimlaneData(board, d.work)
  BY DEF BoardSwimlaneData
<1>4. lane.epic = e
  OBVIOUS
<1>5. d.ids = Chain
  OBVIOUS
<1>6. CASE e = i
  <2> HIDE DEF d, e, lane
  <2>1. lane \in BoardLanes(board, d)
    BY <1>3, <1>4, <1>5, <1>6 DEF BoardLanes
  <2>2. i \in ShownLane(board, ui, lane)
    BY <1>1, <1>4, <1>6 DEF ShownLane
  <2> QED BY <1>2, <2>1, <2>2 DEF d
<1>7. CASE e # i /\ e \notin ui.collapsed /\ ~(e # 0 /\ BoardEpicCompleted(board, e))
  <2>1. e = 0 => ~IsEpic(board, i)
    BY <1>1, EpicOnTop
  <2>2. i \in lane.items
    BY <1>7, <2>1
  <2> HIDE DEF d, e, lane
  <2>3. lane \in BoardLanes(board, d)
    BY <1>1, <1>3, <1>4, <1>7, <2>2 DEF BoardLanes
  <2>4. i \in ShownLane(board, ui, lane)
    BY <1>1, <1>4, <1>7, <2>2 DEF ShownLane
  <2> QED BY <1>2, <2>3, <2>4 DEF d
<1> QED BY <1>6, <1>7 DEF Epic

(* The Overview has a row for it.                                          *)
LEMMA OverviewShowsChain ==
  ASSUME IsBoard(board), IsKept(board), ui \in PageChoices, ui.view = "overview", Drawn.ids = Chain,
         NEW i \in Chain, i \in Drawn.work
  PROVE  i \in Shown(board, ui, Drawn) \/ Epic(i) \in ui.collapsed
<1>1. i \in OverviewFiltered(board, ui, Drawn)
  BY DEF OverviewFiltered
<1>2. GroupedOnce(OverviewRows(board, ui, Drawn), OverviewFiltered(board, ui, Drawn))
  BY OverviewOnce DEF IsKept
<1>3. Shown(board, ui, Drawn) = Range(OverviewRows(board, ui, Drawn))
  BY DEF Shown
<1> QED BY <1>1, <1>2, <1>3 DEF GroupedOnce

(* So has the Timeline when the task has a bar.                            *)
LEMMA TimelineShowsChain ==
  ASSUME IsBoard(board), IsKept(board), ui.view = "timeline", Drawn.ids = Chain, Chain # NoChain,
         NEW i \in Chain, i \in Drawn.work, HasTask(board, Drawn, i)
  PROVE  i \in Shown(board, ui, Drawn) \/ Epic(i) \in ui.collapsed
<1> DEFINE W == TimelineFilteredWork(board, ui, Drawn)
           bars == GanttTasks(board, Drawn, W)
           rows == BuildGanttRows(board, ui, Drawn, W, bars)
<1>1. Drawn.work \subseteq WorkTickets(board) /\ StepsTyped(Drawn.steps)
  BY SnapshotIs DEF Drawn
<1>2. i \in W
  BY DEF TimelineFilteredWork, TimelineVisibleWork, TimelineSprintRowsFiltered
<1>3. W \subseteq WorkTickets(board)
  BY <1>1, TimelineWorkIsWork
<1>4. Shown(board, ui, Drawn) = Range(rows) /\ Schedule(Drawn) = bars /\ RowsOf(Drawn, bars) = rows
  BY DEF Shown, GanttRows, Schedule, RowsOf
<1>5. EpicsHaveNoParent(board) /\ i \in DOMAIN board.tickets /\ i # 0
  BY <1>1 DEF IsKept, WorkTickets, IsBoard
<1> HIDE DEF W
<1>6. i \in DOMAIN bars
  BY <1>2 DEF GanttTasks
<1>7. CASE ~IsEpic(board, i)
  <2>1. GroupedOnce(RowsOf(Drawn, Schedule(Drawn)), {x \in DOMAIN Schedule(Drawn) : ~IsEpic(board, x)})
    BY <1>5, TimelineOnce
  <2>2. i \in {x \in DOMAIN Schedule(Drawn) : ~IsEpic(board, x)}
    <3> HIDE DEF bars
    <3> QED BY <1>4, <1>6, <1>7
  <2> HIDE DEF bars, rows
  <2> QED BY <1>4, <2>1, <2>2 DEF GroupedOnce
<1>8. CASE IsEpic(board, i)
  <2>1. TopEpicFor(board, i) = i
    BY <1>5, <1>8, EpicOnTop
  <2>2. PICK heads, members, tail : TimelineGroupsAre(board, ui, Drawn, W, bars, heads, members, tail)
    <3>1. \E heads, members, tail : TimelineGroupsAre(board, ui, Drawn, W, bars, heads, members, tail)
      BY <1>1, <1>3, <1>5, TimelineGroups
    <3> QED BY <3>1
  <2> HIDE DEF bars
  <2>3. /\ Grouping(DOMAIN T, heads, members, tail, TopOf(board))
        /\ rows = GroupRows(heads, members, tail)
        /\ Range(heads) = {e \in {TopEpicFor(board, x) : x \in W} \ {0} : EpicTasks(board, ui, Drawn, e, DOMAIN bars) # {}}
    BY <2>2 DEF TimelineGroupsAre, T
  <2>4. Range(heads) \subseteq Range(rows)
    <3> HIDE DEF rows
    <3> QED BY <2>3, GroupsGrouped
  <2>5. EpicTasks(board, ui, Drawn, i, DOMAIN bars) # {}
    <3> DEFINE below == DescendantTickets(board, i)
               tasks == DOMAIN bars
    <3>1. below \intersect tasks \subseteq EpicTasks(board, ui, Drawn, i, tasks)
      BY DEF EpicTasks
    <3>2. below \intersect tasks = {} => i \in EpicTasks(board, ui, Drawn, i, tasks)
      BY <1>6 DEF EpicTasks
    <3> HIDE DEF below, tasks
    <3> QED BY <3>1, <3>2 DEF tasks
  <2>6. i \in Range(heads)
    BY <1>2, <1>5, <2>1, <2>3, <2>5
  <2> HIDE DEF rows
  <2> QED BY <1>4, <2>4, <2>6
<1> QED BY <1>7, <1>8

(* All that the Board and the Overview show is work or the Epic of some.   *)
LEMMA ShownIsDrawn ==
  ASSUME IsBoard(board), IsKept(board), ui \in PageChoices, ui.view \in {"board", "overview"}
  PROVE  Shown(board, ui, Drawn) \subseteq Drawn.work \union Tops(Drawn.work)
<1> DEFINE d == Drawn
<1>1. d.work \subseteq WorkTickets(board) /\ StepsTyped(d.steps)
  BY SnapshotIs DEF Drawn
<1>2. CASE ui.view = "board"
  <2>1. Shown(board, ui, d) = UNION {ShownLane(board, ui, l) : l \in BoardLanes(board, d)}
    BY <1>2 DEF Shown
  <2> HIDE DEF d
  <2>2. ASSUME NEW lane \in BoardLanes(board, d)
        PROVE  ShownLane(board, ui, lane) \subseteq d.work \union Tops(d.work)
    <3>1. lane.epic \in {TopEpicFor(board, x) : x \in d.work} /\ lane.items \subseteq d.work
      BY DEF BoardLanes, BoardSwimlaneData
    <3> QED BY <3>1 DEF ShownLane, Tops
  <2> QED BY <2>1, <2>2 DEF d
<1>3. CASE ui.view = "overview"
  <2> DEFINE R == OverviewFiltered(board, ui, d)
             rows == OverviewRows(board, ui, d)
  <2>1. Shown(board, ui, d) = Range(rows)
    BY <1>3 DEF Shown
  <2> HIDE DEF d
  <2>2. R \subseteq d.work /\ R \subseteq WorkTickets(board)
    BY <1>1 DEF OverviewFiltered
  <2>3. rows = OverviewGroupedRows(board, ui, d, R)
    BY DEF OverviewRows
  <2>4. ui.order \in [key : SortKeys, descending : BOOLEAN] /\ EpicsHaveNoParent(board)
    BY DEF PageChoices, IsKept
  <2> HIDE DEF R
  <2>5. PICK heads, members, tail : OverviewGroupsAre(board, ui, d, R, heads, members, tail)
    <3>1. \E heads, members, tail : OverviewGroupsAre(board, ui, d, R, heads, members, tail)
      BY <1>1, <2>2, <2>4, OverviewGroups
    <3> QED BY <3>1
  <2>6. /\ Grouping(DOMAIN T, heads, members, tail, TopOf(board))
        /\ rows = GroupRows(heads, members, tail)
        /\ Range(heads) = {TopEpicFor(board, x) : x \in R} \ {0}
        /\ \A e \in Range(heads) : Range(members[e]) \subseteq R
        /\ Range(tail) \subseteq R
    BY <2>3, <2>5 DEF OverviewGroupsAre, Lists, T
  <2>7. Range(rows) = Range(heads) \union Range(tail) \union UNION {Range(members[e]) : e \in Range(heads)}
    BY <2>6, GroupsGrouped
  <2>8. Range(heads) \subseteq Tops(d.work)
    BY <2>2, <2>6 DEF Tops
  <2> HIDE DEF rows
  <2>9. Range(rows) \subseteq d.work \union Tops(d.work)
    BY <2>2, <2>6, <2>7, <2>8
  <2> QED BY <2>1, <2>9 DEF d
<1> QED BY <1>2, <1>3

(* So a chain on the screen is among the work.                             *)
LEMMA SeenIsWork ==
  ASSUME IsBoard(board), IsKept(board), ui \in PageChoices, ui.view \in PlanningViews,
         Chain # NoChain, Chain \subseteq Shown(board, ui, Drawn)
  PROVE  Chain \subseteq Drawn.work
<1>1. /\ Drawn.work = SprintFilteredWork(board, ui, Offered)
      /\ Offered \subseteq WorkTickets(board) /\ Chain \intersect WorkTickets(board) \subseteq Offered
  BY DrawnWorkIs
<1>2. CASE ui.view = "timeline" \/ SelectedPlanningSprint(board, ui) = NoSprint
  <2>1. Drawn.work = Offered
    BY <1>1, <1>2 DEF SprintFilteredWork
  <2>2. Chain \subseteq WorkTickets(board)
    BY ChainConnects, SprintWorkIsWork
  <2> QED BY <1>1, <2>1, <2>2
<1>3. CASE ~(ui.view = "timeline" \/ SelectedPlanningSprint(board, ui) = NoSprint)
  <2>1. Drawn.work = WithEpics(board, SprintTasks(board, Offered, ui.sprint))
    BY <1>1, <1>3 DEF SprintFilteredWork
  <2>2. Tops(Drawn.work) \subseteq Drawn.work
    <3> SUFFICES ASSUME NEW x \in Drawn.work, TopEpicFor(board, x) # 0
                 PROVE  TopEpicFor(board, x) \in Drawn.work
      BY DEF Tops
    <3>1. x \in WithEpics(board, SprintTasks(board, Offered, ui.sprint))
      BY <2>1
    <3>2. TopEpicFor(board, x) \in WithEpics(board, SprintTasks(board, Offered, ui.sprint))
      BY <1>1, <3>1, SprintHasTops DEF IsKept
    <3> QED BY <2>1, <3>2
  <2>3. Shown(board, ui, Drawn) \subseteq Drawn.work \union Tops(Drawn.work)
    BY <1>3, ShownIsDrawn DEF PlanningViews
  <2> QED BY <2>2, <2>3
<1> QED BY <1>2, <1>3

(* An open chain is all that is connected with its task among the work of  *)
(* the Sprint; its tasks are on the screen unless their Epic is collapsed, *)
(* completed (Board) or without dates (Timeline), whatever the filters     *)
(* say; the drawing marks them all; no Sprint cuts it on the Timeline; and *)
(* only an Epic whose tasks of the Sprint are all filtered out is missing. *)
(* Code: dependencyViewIds, planningWork, sprintFilteredWork,              *)
(* overviewRows, boardSwimlaneData, buildGanttRows.                        *)
THEOREM ChainsAreShown ==
  Spec => []ChainIsComplete
<1>1. ASSUME PlanningInv, KeptInv PROVE ChainIsComplete
  <2> SUFFICES ASSUME ui.view \in PlanningViews, Chain # NoChain
               PROVE  /\ ChainIsWhole
                      /\ ChainIsShown(Drawn, Shown(board, ui, Drawn))
                      /\ ui.view = "timeline" => ui.sprint = 0
    BY DEF ChainIsComplete
  <2>0. IsBoard(board) /\ ui \in PageChoices /\ IsKept(board)
    BY <1>1 DEF PlanningInv, TypeOK, KeptInv
  <2>1. ChainIsWhole
    BY <2>0, ChainConnects DEF ChainIsWhole
  <2>2. ui.view = "timeline" => ui.sprint = 0
    <3>1. ui.focus # 0
      BY DEF Chain, DependencyViewIds, ConnectedDependencyIds
    <3> QED BY <1>1, <3>1 DEF PlanningInv
  <2>3. Drawn.ids = Chain /\ Drawn.work \subseteq WorkTickets(board)
        /\ Drawn.work \subseteq SprintFilteredWork(board, ui, WorkTickets(board))
    <3>1. Drawn.work = SprintFilteredWork(board, ui, Offered) /\ Offered \subseteq WorkTickets(board)
          /\ Drawn.ids = Chain
      BY DrawnWorkIs
    <3> QED BY <3>1, SprintWorkGrows, SprintWorkIsWork
  <2>4. ASSUME NEW i \in Chain, i \notin Shown(board, ui, Drawn)
        PROVE  \/ Epic(i) \in ui.collapsed \/ LeftOut(Drawn, i)
               \/ ui.view = "board" /\ Epic(i) # 0 /\ BoardEpicCompleted(board, Epic(i))
               \/ ui.view = "timeline" /\ ~HasTask(board, Drawn, i)
    <3>1. i \in Drawn.work \/ LeftOut(Drawn, i)
      BY <2>0, ChainIsWork
    <3>2. CASE i \in Drawn.work /\ ui.view = "board"
      BY <2>0, <2>3, <2>4, <3>2, BoardShowsChain
    <3>3. CASE i \in Drawn.work /\ ui.view = "overview"
      BY <2>0, <2>3, <2>4, <3>3, OverviewShowsChain
    <3>4. CASE i \in Drawn.work /\ ui.view = "timeline"
      BY <2>0, <2>3, <2>4, <3>4, TimelineShowsChain
    <3> QED BY <3>1, <3>2, <3>3, <3>4 DEF PlanningViews
  <2>5. ASSUME Chain \subseteq Shown(board, ui, Drawn)
        PROVE  Related(DependencyHoverEdges(board, Drawn.work \intersect Shown(board, ui, Drawn)), ui.focus) = Chain
    <3>1. Chain \subseteq Drawn.work
      BY <2>0, <2>5, SeenIsWork
    <3> DEFINE N == Drawn.work \intersect Shown(board, ui, Drawn)
    <3>2. Chain \subseteq N /\ N \subseteq SprintFilteredWork(board, ui, WorkTickets(board))
      BY <2>3, <2>5, <3>1
    <3> HIDE DEF N
    <3>3. Related(DependencyHoverEdges(board, N), ui.focus) = Chain
      BY <2>0, <3>2, DrawingMarksAll
    <3> QED BY <3>3 DEF N
  <2>6. ChainIsShown(Drawn, Shown(board, ui, Drawn))
    BY <2>3, <2>4, <2>5, Zenon DEF ChainIsShown
  <2> QED BY <2>1, <2>2, <2>6
<1>2. Spec => [](PlanningInv /\ KeptInv)
  BY PlanningAssumption, ServerAssumption, KeptAlways
<1> QED BY <1>1, <1>2, PTL

-----------------------------------------------------------------------------
(* The browser and the server: the gate *)

(* The first column of a name.                                             *)
LEMMA FirstOfName ==
  ASSUME NEW b, IsBoard(b), NEW name, NEW k, k = ColumnNamed(b, name), NEW C, C = ColumnsNamed(b, name)
  PROVE  /\ C \subseteq DOMAIN b.columns /\ C \subseteq Nat \ {0}
         /\ C = {} => k = 0
         /\ C # {} => k \in C /\ \A other \in C : k <= other
<1>1. C \subseteq DOMAIN b.columns
  BY DEF ColumnsNamed
<1>2. DOMAIN b.columns = 1 .. Len(b.columns) /\ Len(b.columns) \in Nat
  BY DEF IsBoard
<1>3. C \in SUBSET Nat /\ C \subseteq Nat \ {0}
  BY <1>1, <1>2
<1>4. C = {} => k = 0
  BY DEF ColumnNamed
<1>5. C # {} => k \in C /\ \A other \in C : k <= other
  <2>1. C # {} => \E c \in C : \A other \in C : c <= other
    BY <1>3, LeastNumber
  <2>2. C # {} => k = CHOOSE c \in C : \A other \in C : c <= other
    BY DEF ColumnNamed
  <2> QED BY <2>1, <2>2
<1> QED BY <1>1, <1>3, <1>4, <1>5

(* The columns of a name, as the server finds them.                        *)
LEMMA ServerColumns ==
  ASSUME IsBoard(board), NEW name
  PROVE  Server!Named(name) = ColumnsNamed(board, name)
<1>1. DOMAIN board.columns = 1 .. Len(board.columns)
  BY DEF IsBoard
<1> QED BY <1>1 DEF Server!Named, Server!Columns, ColumnsNamed

(* Both sides ask for finished prerequisites in the same columns.          *)
LEMMA GateMatches ==
  ASSUME IsBoard(board), NEW c \in DOMAIN board.columns
  PROVE  ColumnRequiresCompletedDependencies(board, c) <=> Server!NeedsPrerequisites(c)
<1> DEFINE review == ColumnNamed(board, "review")
           progress == ColumnNamed(board, "in progress")
           reviews == ColumnsNamed(board, "review")
           active == ColumnsNamed(board, "in progress")
           name == board.columns[c]
<1>1. Server!NeedsPrerequisites(c) <=>
        \/ name \in {"review", "done"}
        \/ /\ name \notin {"to do", "backlog", "ready", "in progress"}
           /\ IF reviews # {} THEN \E r \in reviews : r <= c
              ELSE IF active # {} THEN \E p \in active : p < c
              ELSE c - 1 >= 3
  <2>1. Server!Named("review") = reviews /\ Server!Named("in progress") = active
    BY ServerColumns
  <2> QED BY <2>1 DEF Server!NeedsPrerequisites, Server!EarlyStages
<1>2. ColumnRequiresCompletedDependencies(board, c) <=>
        /\ name \notin {"to do", "backlog", "ready", "in progress"}
        /\ \/ name \in {"review", "done"}
           \/ IF review # 0 THEN c >= review ELSE IF progress # 0 THEN c > progress ELSE c - 1 >= 3
  BY DEF ColumnRequiresCompletedDependencies
<1>3. DOMAIN board.columns = 1 .. Len(board.columns) /\ Len(board.columns) \in Nat
  BY DEF IsBoard
<1>4. c \in Nat
  BY <1>3
<1>5. /\ reviews \subseteq Nat \ {0} /\ active \subseteq Nat \ {0}
      /\ reviews = {} => review = 0
      /\ active = {} => progress = 0
      /\ reviews # {} => review \in reviews /\ \A other \in reviews : review <= other
      /\ active # {} => progress \in active /\ \A other \in active : progress <= other
  <2> HIDE DEF review, progress, reviews, active
  <2>1. review = ColumnNamed(board, "review") /\ reviews = ColumnsNamed(board, "review")
    BY DEF review, reviews
  <2>2. progress = ColumnNamed(board, "in progress") /\ active = ColumnsNamed(board, "in progress")
    BY DEF progress, active
  <2> QED BY <2>1, <2>2, FirstOfName
<1> HIDE DEF review, progress, reviews, active
<1>6. (IF reviews # {} THEN \E r \in reviews : r <= c
       ELSE IF active # {} THEN \E p \in active : p < c ELSE c - 1 >= 3)
        <=> (IF review # 0 THEN c >= review ELSE IF progress # 0 THEN c > progress ELSE c - 1 >= 3)
  <2>1. reviews # {} => review # 0 /\ ((\E r \in reviews : r <= c) <=> c >= review)
    <3>1. ASSUME reviews # {} PROVE review \in reviews /\ review \in Nat \ {0} /\ \A r \in reviews : review <= r /\ r \in Nat
      BY <1>5, <3>1
    <3>2. ASSUME reviews # {}, NEW r \in reviews, r <= c PROVE c >= review
      <4>1. review \in Nat /\ r \in Nat /\ review <= r
        BY <3>1, <3>2
      <4> QED BY <1>4, <3>2, <4>1
    <3>3. ASSUME reviews # {}, c >= review PROVE \E r \in reviews : r <= c
      <4>1. review \in reviews /\ review \in Nat
        BY <3>1, <3>3
      <4>2. review <= c
        BY <1>4, <3>3, <4>1
      <4> QED BY <4>1, <4>2
    <3>4. reviews # {} => review # 0
      BY <3>1
    <3> QED BY <3>2, <3>3, <3>4
  <2>2. active # {} => progress # 0 /\ ((\E p \in active : p < c) <=> c > progress)
    <3>1. ASSUME active # {} PROVE progress \in active /\ progress \in Nat \ {0} /\ \A p \in active : progress <= p /\ p \in Nat
      BY <1>5, <3>1
    <3>2. ASSUME active # {}, NEW p \in active, p < c PROVE c > progress
      <4>1. progress \in Nat /\ p \in Nat /\ progress <= p
        BY <3>1, <3>2
      <4> QED BY <1>4, <3>2, <4>1
    <3>3. ASSUME active # {}, c > progress PROVE \E p \in active : p < c
      <4>1. progress \in active /\ progress \in Nat
        BY <3>1, <3>3
      <4>2. progress < c
        BY <1>4, <3>3, <4>1
      <4> QED BY <4>1, <4>2
    <3>4. active # {} => progress # 0
      BY <3>1
    <3> QED BY <3>2, <3>3, <3>4
  <2> QED BY <1>5, <2>1, <2>2
<1> HIDE DEF name
<1>7. name \in {"review", "done"} => name \notin {"to do", "backlog", "ready", "in progress"}
  OBVIOUS
<1> QED BY <1>1, <1>2, <1>6, <1>7

(* And they count the same prerequisites.                                  *)
LEMMA MovesMatch ==
  ASSUME IsBoard(board), IsKept(board), NEW i \in WorkTickets(board), NEW c \in DOMAIN board.columns, T[i].column # c
  PROVE  BoardMoveBlockedTasks(board, i, c) # {} <=> Server!Blocked(T, T[i].links, c)
<1>1. \A d \in DOMAIN T : board.columns[T[d].column] = "done" <=> T[d].column \notin DOMAIN board.columns \ ColumnsNamed(board, "done")
  BY DEF IsKept, ColumnsExist, ColumnsNamed, T
<1>2. Server!Blocked(T, T[i].links, c) <=>
        /\ Server!NeedsPrerequisites(c)
        /\ \E d \in T[i].links \intersect DOMAIN T : ~T[d].deleted /\ ~(board.columns[T[d].column] = "done")
  BY DEF Server!Blocked, Server!IsDone
<1>3. BoardMoveBlockedTasks(board, i, c) # {} <=>
        /\ ColumnRequiresCompletedDependencies(board, c)
        /\ \E d \in T[i].links \intersect DOMAIN T :
             ~T[d].deleted /\ T[d].column \in DOMAIN board.columns \ ColumnsNamed(board, "done")
  BY DEF BoardMoveBlockedTasks, DependencyTickets, T
<1> QED BY <1>1, <1>2, <1>3, GateMatches

(* So the gate is the same on both sides.                                  *)
LEMMA GatesMatch ==
  ASSUME IsBoard(board), IsKept(board) PROVE GateMatchesServer
<1>1. ASSUME NEW c \in DOMAIN board.columns
      PROVE  ColumnRequiresCompletedDependencies(board, c) = Server!NeedsPrerequisites(c)
  <2>1. ColumnRequiresCompletedDependencies(board, c) \in BOOLEAN /\ Server!NeedsPrerequisites(c) \in BOOLEAN
    BY Zenon DEF ColumnRequiresCompletedDependencies, Server!NeedsPrerequisites
  <2> QED BY <2>1, GateMatches
<1> QED BY <1>1, MovesMatch DEF GateMatchesServer

-----------------------------------------------------------------------------
(* A dropped card *)

(* What removing an element leaves.                                        *)
LEMMA Removed ==
  ASSUME NEW S, NEW s \in Seq(S), IsInjective(s), NEW k \in DOMAIN s
  PROVE  LET r == RemoveFirst(s, s[k])
         IN /\ r \in Seq(S) /\ Len(r) = Len(s) - 1 /\ IsInjective(r)
            /\ Range(r) \subseteq Range(s)
<1> DEFINE r == RemoveFirst(s, s[k])
           left == SubSeq(s, 1, k - 1)
           right == SubSeq(s, k + 1, Len(s))
<1>1. Len(s) \in Nat /\ DOMAIN s = 1 .. Len(s) /\ k \in 1 .. Len(s) /\ \A j \in 1 .. Len(s) : s[j] \in S
  OBVIOUS
<1>2. \A j \in 1 .. Len(s) : s[j] = s[k] => j = k
  BY <1>1 DEF IsInjective
<1>3. r = left \o right
  <2> DEFINE I == {i \in 1 .. Len(s) : s[i] = s[k]}
  <2>1. I = {k}
    BY <1>1, <1>2
  <2>2. r = IF \E i \in 1 .. Len(s) : s[i] = s[k]
            THEN RemoveAt(s, IF I # {} THEN Min(I) ELSE 0) ELSE s
    BY DEF RemoveFirst, SelectInSeq
  <2>3. \E i \in 1 .. Len(s) : s[i] = s[k]
    BY <1>1
  <2> HIDE DEF I, r
  <2>4. Min(I) = k
    <3>1. Min(I) = CHOOSE x \in {k} : \A y \in {k} : x <= y
      BY <2>1 DEF Min
    <3>2. k <= k
      BY <1>1
    <3> QED BY <3>1, <3>2
  <2>5. r = RemoveAt(s, k)
    BY <2>1, <2>2, <2>3, <2>4
  <2> QED BY <2>5 DEF RemoveAt
<1>4. /\ left \in Seq(S) /\ Len(left) = k - 1 /\ \A m \in 1 .. k - 1 : left[m] = s[m]
  <2>1. k - 1 \in Nat /\ k - 1 <= Len(s)
    BY <1>1
  <2> QED BY <1>1, <2>1
<1>5. /\ right \in Seq(S) /\ Len(right) = Len(s) - k /\ \A m \in 1 .. Len(s) - k : right[m] = s[m + k]
  <2>1. k + 1 \in Nat /\ Len(s) - k \in Nat
    BY <1>1
  <2>2. right \in Seq(S) /\ Len(right) = Len(s) - k
    BY <1>1, <2>1
  <2>3. ASSUME NEW m \in 1 .. Len(s) - k PROVE right[m] = s[m + k]
    <3>1. right[m] = s[(k + 1) + m - 1]
      BY <1>1, <2>1
    <3>2. (k + 1) + m - 1 = m + k
      BY <1>1
    <3> QED BY <3>1, <3>2
  <2> QED BY <2>2, <2>3
<1> HIDE DEF left, right, r
<1>6. r \in Seq(S) /\ Len(r) = Len(s) - 1
  <2>1. left \o right \in Seq(S) /\ Len(left \o right) = Len(left) + Len(right)
    <3>1. left \in Seq(S) /\ right \in Seq(S)
      BY <1>4, <1>5
    <3>2. left \o right \in Seq(S)
      BY <3>1, ConcatProperties
    <3>3. Len(left \o right) = Len(left) + Len(right)
      BY <3>1, ConcatProperties
    <3> QED BY <3>2, <3>3
  <2>2. Len(left) + Len(right) = Len(s) - 1
    BY <1>1, <1>4, <1>5
  <2> QED BY <1>3, <2>1, <2>2
<1> DEFINE from(m) == IF m < k THEN m ELSE m + 1
<1>7. ASSUME NEW m \in 1 .. Len(r) PROVE r[m] = s[from(m)] /\ from(m) \in 1 .. Len(s)
  <2>0. /\ \A j \in 1 .. Len(left) : (left \o right)[j] = left[j]
        /\ \A j \in Nat : (j > Len(left) /\ j <= Len(left) + Len(right)) => (left \o right)[j] = right[j - Len(left)]
    <3>1. left \in Seq(S) /\ right \in Seq(S) /\ Len(left) \in Nat /\ Len(right) \in Nat
      BY <1>4, <1>5
    <3>2. \A j \in 1 .. Len(left) + Len(right) :
            (left \o right)[j] = IF j <= Len(left) THEN left[j] ELSE right[j - Len(left)]
      BY <3>1, ConcatProperties
    <3> QED BY <3>1, <3>2
  <2>1. m \in 1 .. Len(s) - 1
    BY <1>6
  <2>2. CASE m < k
    <3>1. m \in 1 .. k - 1 /\ m \in 1 .. Len(left)
      BY <1>1, <1>4, <2>1, <2>2
    <3>2. (left \o right)[m] = left[m]
      BY <2>0, <3>1
    <3> QED BY <1>1, <1>3, <1>4, <2>2, <3>1, <3>2
  <2>3. CASE ~(m < k)
    <3>1. m - (k - 1) \in 1 .. Len(s) - k /\ m > Len(left) /\ m <= Len(left) + Len(right)
      BY <1>1, <1>4, <1>5, <2>1, <2>3
    <3>2. (left \o right)[m] = right[m - (k - 1)]
      BY <1>4, <2>0, <3>1
    <3>3. m - (k - 1) + k = m + 1 /\ m + 1 \in 1 .. Len(s)
      BY <1>1, <2>1, <2>3
    <3> QED BY <1>3, <1>5, <2>3, <3>1, <3>2, <3>3
  <2> QED BY <2>2, <2>3
<1>8. DOMAIN r = 1 .. Len(r)
  BY <1>6
<1>9. IsInjective(r)
  <2> SUFFICES ASSUME NEW m \in 1 .. Len(r), NEW n \in 1 .. Len(r), r[m] = r[n] PROVE m = n
    BY <1>8 DEF IsInjective
  <2>1. s[from(m)] = s[from(n)] /\ from(m) \in DOMAIN s /\ from(n) \in DOMAIN s
    BY <1>1, <1>7
  <2>2. from(m) = from(n)
    <3> HIDE DEF from
    <3> QED BY <2>1 DEF IsInjective
  <2> QED BY <1>1, <1>6, <2>2
<1>10. Range(r) \subseteq Range(s)
  <2> SUFFICES ASSUME NEW m \in 1 .. Len(r) PROVE r[m] \in Range(s)
    BY <1>8 DEF Range
  <2> HIDE DEF from
  <2> QED BY <1>1, <1>7 DEF Range
<1> QED BY <1>6, <1>9, <1>10 DEF r

(* A card comes to lie where it was dropped.                               *)
LEMMA DropsLand ==
  ASSUME NEW S, NEW cards \in Seq(S), IsInjective(cards), 0 \notin S
  PROVE  EveryDropLands(cards)
<1> SUFFICES ASSUME NEW dragged \in Range(cards), NEW n \in 1 .. Len(cards), RemoveFirst(cards, dragged) # <<>>
             PROVE  LET to == BoardDropPlacement(cards, n, dragged)
                        others == RemoveFirst(cards, dragged)
                    IN /\ {to.before, to.after} # {0} /\ {to.before, to.after} \subseteq {0} \union Range(others)
                       /\ StoredAt(others, to) = n
  BY DEF EveryDropLands
<1> DEFINE others == RemoveFirst(cards, dragged)
           to == BoardDropPlacement(cards, n, dragged)
<1>1. PICK k \in DOMAIN cards : dragged = cards[k]
  BY DEF Range
<1>2. others \in Seq(S) /\ Len(others) = Len(cards) - 1 /\ IsInjective(others)
  BY <1>1, Removed
<1>3. others # <<>>
  OBVIOUS
<1>4. /\ to.before = (IF n <= Len(others) THEN others[n] ELSE 0)
      /\ to.after = (IF n <= Len(others) \/ others = <<>> THEN 0 ELSE others[Len(others)])
  BY DEF BoardDropPlacement
<1>5. StoredAt(others, to) = IF to.before # 0 THEN Place(others, to.before) ELSE Place(others, to.after) + 1
  BY DEF StoredAt
<1> HIDE DEF others, to
<1>6. /\ Len(cards) \in Nat /\ Len(others) \in Nat \ {0} /\ DOMAIN others = 1 .. Len(others)
      /\ \A j \in DOMAIN others : others[j] \in S /\ others[j] \in Range(others)
  BY <1>2, <1>3 DEF Range
<1>7. CASE n <= Len(others)
  <2>1. n \in DOMAIN others
    BY <1>6, <1>7
  <2>2. to.before = others[n] /\ to.after = 0 /\ to.before # 0 /\ others[n] \in Range(others)
    BY <1>4, <1>6, <1>7, <2>1
  <2>3. Place(others, others[n]) = n
    BY <1>2, <2>1, PlaceIs
  <2> QED BY <1>5, <2>2, <2>3 DEF others, to
<1>8. CASE ~(n <= Len(others))
  <2>1. Len(others) \in DOMAIN others /\ n = Len(others) + 1
    BY <1>2, <1>6, <1>8
  <2>2. to.before = 0 /\ to.after = others[Len(others)] /\ to.after # 0 /\ others[Len(others)] \in Range(others)
    BY <1>3, <1>4, <1>6, <1>8, <2>1
  <2>3. Place(others, others[Len(others)]) = Len(others)
    BY <1>2, <2>1, PlaceIs
  <2> QED BY <1>5, <2>1, <2>2, <2>3 DEF others, to
<1> QED BY <1>7, <1>8

(* So does a card of any lane and column of the Board.                     *)
LEMMA BoardDropsLand ==
  ASSUME IsBoard(board), NEW lane \in BoardLanes(board, Drawn), NEW c
  PROVE  EveryDropLands(BoardLaneColumnItems(board, Drawn, lane, c))
<1> DEFINE S == {i \in lane.items : board.tickets[i].column = c}
           cards == BoardLaneColumnItems(board, Drawn, lane, c)
<1>1. Drawn.work \subseteq WorkTickets(board) /\ StepsTyped(Drawn.steps)
  BY SnapshotIs DEF Drawn
<1>2. lane.items \subseteq WorkTickets(board)
  <2>1. lane \in BoardSwimlaneData(board, Drawn.work)
    BY DEF BoardLanes
  <2> QED BY <1>1, <2>1 DEF BoardSwimlaneData
<1>3. S \in SUBSET DOMAIN board.tickets /\ 0 \notin S
  BY <1>2 DEF WorkTickets, IsBoard
<1>4. cards = BoardSorted(board, Drawn.steps, S)
  BY DEF BoardLaneColumnItems, BoardSorted
<1> HIDE DEF S, cards
<1>5. cards \in Seq(S) /\ IsInjective(cards)
  <2>1. Lists(cards, Staged(Drawn.steps, TicketOrderPairs(board), S), S)
    BY <1>1, <1>3, <1>4, BoardLists
  <2> QED BY <2>1 DEF Lists
<1> QED BY <1>3, <1>5, DropsLand DEF cards

-----------------------------------------------------------------------------
(* The tree as the browser and as the server walk it *)

(* The walk down, one level after the other.                               *)
DownFrom(b, i, met) ==
  /\ met[0] = Children(b, i)
  /\ \A n \in 1 .. Size(b) : met[n] = UNION {{j} \union Children(b, j) : j \in met[n - 1]}

(* Each level is work and keeps the one before.                            *)
LEMMA DownTyped ==
  ASSUME NEW b, IsBoard(b), NEW i, NEW met, DownFrom(b, i, met)
  PROVE  /\ \A n \in 0 .. Size(b) : met[n] \subseteq WorkTickets(b)
         /\ \A n \in 1 .. Size(b) : met[n - 1] \subseteq met[n]
<1> DEFINE K == Size(b)
           bad == {n \in 0 .. K : ~(met[n] \subseteq WorkTickets(b))}
<1>1. K \in Nat
  BY SizeTyped
<1>2. \A j : Children(b, j) \subseteq WorkTickets(b)
  BY DEF Children, ChildTickets
<1>3. bad = {}
  <2> SUFFICES ASSUME bad # {} PROVE FALSE
    OBVIOUS
  <2>1. PICK n \in bad : \A m \in bad : n <= m
    <3>1. bad \in SUBSET Nat
      OBVIOUS
    <3> HIDE DEF bad
    <3> QED BY <3>1, LeastNumber
  <2>2. n \in 0 .. K /\ ~(met[n] \subseteq WorkTickets(b))
    OBVIOUS
  <2> HIDE DEF bad
  <2>3. n # 0
    BY <1>2, <2>2 DEF DownFrom
  <2>4. n \in 1 .. K /\ n - 1 \in 0 .. K /\ ~(n <= n - 1)
    BY <1>1, <2>2, <2>3
  <2>5. met[n - 1] \subseteq WorkTickets(b)
    BY <2>1, <2>4 DEF bad
  <2>6. met[n] = UNION {{j} \union Children(b, j) : j \in met[n - 1]}
    BY <2>4 DEF DownFrom
  <2> QED BY <1>2, <2>2, <2>5, <2>6
<1>4. \A n \in 1 .. K : met[n - 1] \subseteq met[n]
  <2>1. \A X : X \subseteq UNION {{j} \union Children(b, j) : j \in X}
    OBVIOUS
  <2>2. \A n \in 1 .. K : met[n] = UNION {{j} \union Children(b, j) : j \in met[n - 1]}
    BY DEF DownFrom
  <2> QED BY <2>1, <2>2
<1> QED BY <1>3, <1>4

(* A level that adds nothing is the last one that could.                   *)
LEMMA DownEnds ==
  ASSUME NEW b, IsBoard(b), NEW i, NEW met, DownFrom(b, i, met),
         NEW n \in 1 .. Size(b), met[n] = met[n - 1]
  PROVE  \A m \in n .. Size(b) : met[m] = met[n - 1]
<1> DEFINE K == Size(b)
           bad == {m \in n .. K : met[m] # met[n - 1]}
<1>1. K \in Nat /\ n \in Nat
  BY SizeTyped
<1> SUFFICES ASSUME bad # {} PROVE FALSE
  OBVIOUS
<1>2. PICK m \in bad : \A j \in bad : m <= j
  <2>1. bad \in SUBSET Nat
    BY <1>1
  <2> HIDE DEF bad
  <2> QED BY <2>1, LeastNumber
<1>3. m \in n .. K /\ met[m] # met[n - 1]
  OBVIOUS
<1> HIDE DEF bad
<1>4. m # n
  BY <1>3
<1>5. m - 1 \in n .. K /\ m \in 1 .. K /\ ~(m <= m - 1)
  BY <1>1, <1>3, <1>4
<1>6. met[m - 1] = met[n - 1]
  BY <1>2, <1>5 DEF bad
<1>7. /\ met[m] = UNION {{j} \union Children(b, j) : j \in met[m - 1]}
      /\ met[n] = UNION {{j} \union Children(b, j) : j \in met[n - 1]}
  BY <1>5 DEF DownFrom
<1>8. met[m] = met[n]
  BY <1>6, <1>7
<1> QED BY <1>3, <1>8

(* The descendants are the least set with the children of the ticket and   *)
(* of each of its own members.                                             *)
LEMMA DescendantsAre ==
  ASSUME NEW b, IsBoard(b), NEW i
  PROVE  LET D == DescendantTickets(b, i)
         IN /\ D \subseteq WorkTickets(b)
            /\ Children(b, i) \subseteq D /\ \A j \in D : Children(b, j) \subseteq D
            /\ \A S : (Children(b, i) \subseteq S /\ \A j \in S : Children(b, j) \subseteq S) => D \subseteq S
<1> DEFINE K == Size(b)
           D == DescendantTickets(b, i)
           W == WorkTickets(b)
<1>1. K \in Nat
  BY SizeTyped
<1>2. PICK met : D = met[K] /\ DownFrom(b, i, met)
  <2>1. \E met : D = met[K] /\ DownFrom(b, i, met)
    BY DescendantsMet DEF DownFrom
  <2> QED BY <2>1
<1>3. /\ \A n \in 0 .. K : met[n] \subseteq W
      /\ \A n \in 1 .. K : met[n - 1] \subseteq met[n]
  BY <1>2, DownTyped
<1>4. /\ met[0] = Children(b, i)
      /\ \A n \in 1 .. K : met[n] = UNION {{j} \union Children(b, j) : j \in met[n - 1]}
  BY <1>2 DEF DownFrom
<1>5. \A j : Children(b, j) \subseteq W
  BY DEF Children, ChildTickets
<1>6. W \subseteq DOMAIN b.tickets /\ IsFiniteSet(DOMAIN b.tickets) /\ Cardinality(DOMAIN b.tickets) = K
  BY DEF WorkTickets, IsBoard, Size
<1> HIDE DEF K, D, W
<1>7. \A j \in D : Children(b, j) \subseteq D
  <2>1. CASE \E n \in 1 .. K : met[n] = met[n - 1]
    <3>1. PICK n \in 1 .. K : met[n] = met[n - 1]
      BY <2>1
    <3>2. \A m \in n .. K : met[m] = met[n - 1]
      BY <1>2, <3>1, DownEnds DEF K
    <3>3. D = met[n - 1]
      BY <1>1, <1>2, <3>2
    <3>4. met[n] = UNION {{j} \union Children(b, j) : j \in met[n - 1]}
      BY <1>4
    <3> QED BY <3>1, <3>3, <3>4
  <2>2. CASE \A n \in 1 .. K : met[n] # met[n - 1]
    <3> DEFINE E == DOMAIN b.tickets
               used == [n \in 0 .. K |-> met[n]]
    <3>1. \A n \in 1 .. K : n \in 0 .. K /\ n - 1 \in 0 .. K
      BY <1>1
    <3>2. used \in [0 .. K -> SUBSET E]
      BY <1>3, <1>6
    <3>3. \A n \in 1 .. K : used[n - 1] \subseteq used[n] /\ used[n - 1] # used[n]
      BY <1>3, <2>2, <3>1
    <3>4. used[K] = D
      BY <1>1, <1>2
    <3> HIDE DEF E, used
    <3>5. used[Cardinality(E)] = E
      <4>1. Cardinality(E) = K /\ IsFiniteSet(E)
        BY <1>6 DEF E
      <4> QED BY <3>2, <3>3, <4>1, StrictChain
    <3>6. D = DOMAIN b.tickets
      BY <1>6, <3>4, <3>5 DEF E
    <3> QED BY <1>5, <1>6, <3>6
  <2> QED BY <2>1, <2>2
<1>8. ASSUME NEW S, Children(b, i) \subseteq S, \A j \in S : Children(b, j) \subseteq S
      PROVE  D \subseteq S
  <2> DEFINE bad == {n \in 0 .. K : ~(met[n] \subseteq S)}
  <2>1. bad = {}
    <3> SUFFICES ASSUME bad # {} PROVE FALSE
      OBVIOUS
    <3>1. PICK n \in bad : \A m \in bad : n <= m
      <4>1. bad \in SUBSET Nat
        OBVIOUS
      <4> HIDE DEF bad
      <4> QED BY <4>1, LeastNumber
    <3>2. n \in 0 .. K /\ ~(met[n] \subseteq S)
      OBVIOUS
    <3> HIDE DEF bad
    <3>3. n # 0
      BY <1>4, <1>8, <3>2
    <3>4. n \in 1 .. K /\ n - 1 \in 0 .. K /\ ~(n <= n - 1)
      BY <1>1, <3>2, <3>3
    <3>5. met[n - 1] \subseteq S
      BY <3>1, <3>4 DEF bad
    <3>6. met[n] = UNION {{j} \union Children(b, j) : j \in met[n - 1]}
      BY <1>4, <3>4
    <3> QED BY <1>8, <3>2, <3>5, <3>6
  <2>2. K \in 0 .. K
    BY <1>1
  <2> QED BY <1>2, <2>1, <2>2
<1>9. met[0] \subseteq D
  <2> DEFINE bad == {n \in 0 .. K : ~(met[0] \subseteq met[n])}
  <2>1. bad = {}
    <3> SUFFICES ASSUME bad # {} PROVE FALSE
      OBVIOUS
    <3>1. PICK n \in bad : \A m \in bad : n <= m
      <4>1. bad \in SUBSET Nat
        OBVIOUS
      <4> HIDE DEF bad
      <4> QED BY <4>1, LeastNumber
    <3>2. n \in 0 .. K /\ ~(met[0] \subseteq met[n])
      OBVIOUS
    <3> HIDE DEF bad
    <3>3. n # 0
      BY <3>2
    <3>4. n \in 1 .. K /\ n - 1 \in 0 .. K /\ ~(n <= n - 1)
      BY <1>1, <3>2, <3>3
    <3>5. met[0] \subseteq met[n - 1]
      BY <3>1, <3>4 DEF bad
    <3> QED BY <1>3, <3>2, <3>4, <3>5
  <2>2. K \in 0 .. K
    BY <1>1
  <2> QED BY <1>2, <2>1, <2>2
<1>10. D \subseteq W
  <2>1. K \in 0 .. K
    BY <1>1
  <2> QED BY <1>2, <1>3, <2>1
<1> QED BY <1>4, <1>7, <1>8, <1>9, <1>10 DEF D, W

(* The ids the server walks over.                                          *)
ServerIds == 1 .. Greatest({1} \union DOMAIN board.tickets)

(* Every ticket of the board is among them.                                *)
LEMMA ServerKnowsAll ==
  ASSUME IsBoard(board)
  PROVE  Server!Ids = ServerIds /\ DOMAIN T \subseteq ServerIds /\ 0 \notin ServerIds
<1> DEFINE S == {1} \union DOMAIN board.tickets
<1>1. S \subseteq Nat /\ IsFiniteSet(S) /\ S # {}
  <2>1. DOMAIN board.tickets \subseteq Nat /\ IsFiniteSet(DOMAIN board.tickets)
    BY DEF IsBoard
  <2>2. IsFiniteSet({1})
    BY Zenon, FS_Singleton
  <2>3. IsFiniteSet(S)
    BY <2>1, <2>2, FS_Union
  <2> QED BY <2>1, <2>2, <2>3
<1> HIDE DEF S
<1>2. Greatest(S) \in S /\ \A x \in S : x <= Greatest(S)
  BY <1>1, GreatestIs
<1>3. DOMAIN T \subseteq S /\ 0 \notin DOMAIN T /\ DOMAIN T \subseteq Nat
  BY <1>1 DEF S, T, IsBoard
<1>4. Server!Ids = 1 .. Greatest(S) /\ ServerIds = 1 .. Greatest(S)
  BY DEF Server!Ids, ServerIds, S
<1>5. \A x \in DOMAIN T : x \in Nat \ {0} /\ x <= Greatest(S)
  BY <1>2, <1>3
<1>6. Greatest(S) \in Nat
  BY <1>1, <1>2
<1> QED BY <1>4, <1>5, <1>6

(* Where a walk up from tickets of a set cannot leave it.                  *)
LEMMA WaysUpStay ==
  ASSUME IsBoard(board), NEW S \in SUBSET DOMAIN T, NEW X, X \subseteq S,
         NEW E, \A x \in S : \A y : <<x, y>> \in E => y \in S, \A e \in E : e = <<e[1], e[2]>>
  PROVE  Server!Reach(E, ServerIds, X) \subseteq S
<1>1. S \in SUBSET ServerIds
  BY ServerKnowsAll
<1>2. Server!IsClosed(E, S)
  BY DEF Server!IsClosed
<1> QED BY <1>1, <1>2 DEF Server!Reach

(* Work that is not below a ticket, when all ways up are made of work.     *)
Elsewhere(e) == {i \in WorkTickets(board) : i # e /\ i \notin DescendantTickets(board, e)}

(* Nor do their parents lie below it.                                      *)
LEMMA ElsewhereStays ==
  ASSUME IsBoard(board), WaysUpAreWork, NEW e
  PROVE  \A i \in Elsewhere(e) : T[i].parent \in {0} \union Elsewhere(e)
<1> DEFINE D == DescendantTickets(board, e)
<1>1. Children(board, e) \subseteq D /\ \A j \in D : Children(board, j) \subseteq D
  BY DescendantsAre
<1>2. \A i \in WorkTickets(board) : i \in Children(board, T[i].parent)
  BY DEF Children, ChildTickets, T
<1> HIDE DEF D
<1>3. ASSUME NEW i \in WorkTickets(board), i \notin D, T[i].parent # 0
      PROVE  T[i].parent \in WorkTickets(board) /\ T[i].parent # e /\ T[i].parent \notin D
  BY <1>1, <1>2, <1>3 DEF WaysUpAreWork
<1> QED BY <1>3 DEF Elsewhere, D

(* No parent offered for a ticket is below it or on a circle.              *)
LEMMA OfferedAreSafe ==
  ASSUME IsBoard(board) PROVE ParentsOfferedAreSafe
<1> SUFFICES ASSUME WaysUpAreWork, WaysUpEnd, NEW i \in WorkTickets(board), NEW type \in TicketTypes,
                    NEW p \in ParentCandidates(board, type, i)
             PROVE  ~Server!ParentWouldCreateCycle(T, i, p)
  BY DEF ParentsOfferedAreSafe
<1> DEFINE S == Elsewhere(i)
           E == Server!ParentEdges(T)
           walk == Server!Reach(E, ServerIds, {p})
<1>1. S \subseteq WorkTickets(board) /\ WorkTickets(board) \subseteq DOMAIN T /\ i \notin S
  BY DEF Elsewhere, WorkTickets, T
<1>2. p \in S
  <2>1. i \in DOMAIN board.tickets /\ ~IsBacklogTicket(board.tickets[i])
    BY DEF WorkTickets
  <2>2. p \in WorkTickets(board) \ ({i} \union DescendantsWithin(board, i, WorkTickets(board)))
    BY <2>1 DEF ParentCandidates
  <2> QED BY <2>2 DEF Elsewhere, DescendantTickets
<1>3. E = {<<x, T[x].parent>> : x \in {y \in DOMAIN T : T[y].parent # 0}}
  BY DEF Server!ParentEdges
<1>4. \A x \in S : T[x].parent \in {0} \union S
  BY ElsewhereStays
<1> HIDE DEF S, E
<1>5. walk \subseteq S
  <2>1. \A x \in S : \A y : <<x, y>> \in E => y \in S
    BY <1>3, <1>4
  <2>2. \A e \in E : e = <<e[1], e[2]>>
    BY <1>3
  <2>3. S \in SUBSET DOMAIN T
    BY <1>1
  <2> QED BY <1>2, <2>1, <2>2, <2>3, WaysUpStay
<1>6. p \in walk /\ walk \subseteq ServerIds
  <2>1. p \in ServerIds
    BY <1>1, <1>2, ServerKnowsAll
  <2> QED BY <2>1 DEF Server!Reach
<1>7. \A x \in walk : T[x].parent # 0 => T[x].parent \in walk
  <2> SUFFICES ASSUME NEW x \in walk, T[x].parent # 0 PROVE T[x].parent \in walk
    OBVIOUS
  <2>1. x \in DOMAIN T /\ <<x, T[x].parent>> \in E /\ T[x].parent \in DOMAIN T
    BY <1>1, <1>3, <1>4, <1>5
  <2>2. T[x].parent \in ServerIds
    BY <2>1, ServerKnowsAll
  <2>3. \A Z \in SUBSET ServerIds : ({p} \subseteq Z /\ Server!IsClosed(E, Z)) => x \in Z
    BY DEF Server!Reach
  <2>4. ASSUME NEW Z \in SUBSET ServerIds, {p} \subseteq Z, Server!IsClosed(E, Z) PROVE T[x].parent \in Z
    <3>1. x \in Z
      BY <2>3, <2>4
    <3>2. \A e \in E : e[1] \in Z => e[2] \in Z
      BY <2>4 DEF Server!IsClosed
    <3> DEFINE e == <<x, T[x].parent>>
    <3>3. e \in E /\ e[1] = x /\ e[2] = T[x].parent
      BY <2>1
    <3> HIDE DEF e
    <3> QED BY <3>1, <3>2, <3>3
  <2> QED BY <2>2, <2>4 DEF Server!Reach
<1> HIDE DEF walk
<1>8. \E top \in walk \intersect DOMAIN T : T[top].parent = 0
  <2>1. walk \in SUBSET WorkTickets(board) /\ walk # {}
    BY <1>1, <1>5, <1>6
  <2>2. PICK top \in walk : T[top].parent \notin walk
    BY <2>1 DEF WaysUpEnd
  <2> QED BY <1>1, <1>5, <1>7, <2>2
<1>9. Server!ParentWouldCreateCycle(T, i, p) <=> (i \in walk \/ ~\E top \in walk \intersect DOMAIN T : T[top].parent = 0)
  <2>1. Server!Ids = ServerIds
    BY ServerKnowsAll
  <2> QED BY <2>1 DEF Server!ParentWouldCreateCycle, walk, E
<1> QED BY <1>1, <1>5, <1>8, <1>9

-----------------------------------------------------------------------------
(* The button of an Epic *)

(* From below a ticket the way up leads to it.                             *)
LEMMA BelowLeadsUp ==
  ASSUME IsBoard(board), NEW e \in WorkTickets(board), T[e].parent = 0,
         NEW d \in DescendantTickets(board, e)
  PROVE  /\ d \in WorkTickets(board) /\ d # e /\ T[d].parent # 0
         /\ e \in Server!Reach(Server!ParentEdges(T), ServerIds, {T[d].parent} \ {0})
<1> DEFINE W == WorkTickets(board)
           E == Server!ParentEdges(T)
           S == {i \in W : /\ i # e /\ T[i].parent # 0
                           /\ \A Z \in SUBSET ServerIds : Server!IsClosed(E, Z) /\ T[i].parent \in Z => e \in Z}
<1>1. E = {<<x, T[x].parent>> : x \in {y \in DOMAIN T : T[y].parent # 0}}
  BY DEF Server!ParentEdges
<1>2. W \subseteq DOMAIN T /\ 0 \notin W
  BY DEF WorkTickets, T, IsBoard
<1>3. \A j : Children(board, j) = {i \in W : T[i].parent = j}
  BY DEF Children, ChildTickets, T
<1>4. Children(board, e) \subseteq S
  BY <1>2, <1>3
<1>5. ASSUME NEW j \in S PROVE Children(board, j) \subseteq S
  <2> SUFFICES ASSUME NEW i \in W, T[i].parent = j PROVE i \in S
    BY <1>3
  <2>1. j \in W /\ j # 0 /\ i # e
    BY <1>2
  <2>2. <<j, T[j].parent>> \in E
    BY <1>1, <1>2, <2>1
  <2>3. ASSUME NEW Z \in SUBSET ServerIds, Server!IsClosed(E, Z), j \in Z PROVE e \in Z
    <3>1. \A x \in E : x[1] \in Z => x[2] \in Z
      BY <2>3 DEF Server!IsClosed
    <3> DEFINE x == <<j, T[j].parent>>
    <3>2. x \in E /\ x[1] = j /\ x[2] = T[j].parent
      BY <2>2
    <3> HIDE DEF x, E
    <3>3. T[j].parent \in Z
      BY <2>3, <3>1, <3>2
    <3> QED BY <2>3, <3>3
  <2> QED BY <2>1, <2>3
<1>6. d \in S
  <2> HIDE DEF S
  <2> QED BY <1>4, <1>5, DescendantsAre
<1>7. e \in ServerIds
  BY <1>2, ServerKnowsAll
<1> HIDE DEF E
<1>8. d \in W /\ d # e /\ T[d].parent # 0
      /\ \A Z \in SUBSET ServerIds : Server!IsClosed(E, Z) /\ T[d].parent \in Z => e \in Z
  BY <1>6
<1>9. e \in Server!Reach(E, ServerIds, {T[d].parent} \ {0})
  BY <1>7, <1>8 DEF Server!Reach
<1> QED BY <1>8, <1>9 DEF E

(* When all ways up are made of work, it leads there from below only.      *)
LEMMA OnlyBelowLeadsUp ==
  ASSUME IsBoard(board), WaysUpAreWork, NEW e, NEW d \in WorkTickets(board), d # e,
         d \notin DescendantTickets(board, e)
  PROVE  e \notin Server!Reach(Server!ParentEdges(T), ServerIds, {T[d].parent} \ {0})
<1> DEFINE S == Elsewhere(e)
           E == Server!ParentEdges(T)
<1>1. S \in SUBSET DOMAIN T /\ e \notin S /\ d \in S
  BY DEF Elsewhere, WorkTickets, T
<1>2. \A x \in S : T[x].parent \in {0} \union S
  BY ElsewhereStays
<1>3. E = {<<x, T[x].parent>> : x \in {y \in DOMAIN T : T[y].parent # 0}}
  BY DEF Server!ParentEdges
<1> HIDE DEF S, E
<1>4. \A x \in S : \A y : <<x, y>> \in E => y \in S
  BY <1>2, <1>3
<1>5. \A x \in E : x = <<x[1], x[2]>>
  BY <1>3
<1>6. {T[d].parent} \ {0} \subseteq S
  BY <1>1, <1>2
<1>7. Server!Reach(E, ServerIds, {T[d].parent} \ {0}) \subseteq S
  BY <1>1, <1>4, <1>5, <1>6, WaysUpStay
<1> QED BY <1>1, <1>7 DEF E

(* The table with the Epic in Done.                                        *)
Completed(e) == [T EXCEPT ![e].column = DoneColumn(board)]

(* What that changes for the server.                                       *)
LEMMA CompletedIs ==
  ASSUME IsBoard(board), IsKept(board), DoneColumn(board) # 0,
         NEW e \in WorkTickets(board), IsEpic(board, e)
  PROVE  /\ DOMAIN Completed(e) = DOMAIN T /\ DoneColumn(board) \in DOMAIN board.columns /\ T[e].parent = 0
         /\ \A i \in DOMAIN T : Completed(e)[i].parent = T[i].parent
         /\ Server!ParentEdges(Completed(e)) = Server!ParentEdges(T)
         /\ \A i \in DOMAIN T : Server!OpenWork(Completed(e), i)
                                  => i \in WorkTickets(board) /\ i # e /\ ~InDone(board, i)
         /\ OneDone => \A i \in WorkTickets(board) \ {e} :
                         ~InDone(board, i) => Server!OpenWork(Completed(e), i)
         /\ Server!ClosedEpic(Completed(e), e)
<1> DEFINE done == DoneColumn(board)
           U == Completed(e)
<1>1. done \in ColumnsNamed(board, "done") /\ done \in DOMAIN board.columns /\ done # 0
  <2> DEFINE C == ColumnsNamed(board, "done")
  <2>1. done = ColumnNamed(board, "done")
    BY DEF DoneColumn
  <2> HIDE DEF C, done
  <2>2. C \subseteq DOMAIN board.columns /\ (C = {} => done = 0) /\ (C # {} => done \in C)
    BY <2>1, FirstOfName DEF C
  <2>3. done # 0
    BY DEF done
  <2> QED BY <2>2, <2>3 DEF C
<1>2. /\ Server!IsDone(done)
      /\ OneDone => \A c \in DOMAIN board.columns : Server!IsDone(c) => c = done
  BY <1>1 DEF Server!IsDone, ColumnsNamed, OneDone
<1>3. e \in DOMAIN T /\ T[e].type = "epic" /\ T[e].parent = 0
  BY DEF WorkTickets, T, IsEpic, IsKept, EpicsHaveNoParent
<1>4. \A i \in DOMAIN T : T[i] \in TicketRow /\ T[i].column \in DOMAIN board.columns
  BY DEF T, IsBoard, IsKept, ColumnsExist
<1>5. /\ DOMAIN U = DOMAIN T
      /\ \A i \in DOMAIN T : /\ U[i].parent = T[i].parent /\ U[i].type = T[i].type /\ U[i].backlog = T[i].backlog
                             /\ U[i].archived = T[i].archived /\ U[i].deleted = T[i].deleted
                             /\ U[i].column = IF i = e THEN done ELSE T[i].column
  BY <1>3, <1>4 DEF Completed, TicketRow
<1> HIDE DEF U
<1>6. Server!ParentEdges(U) = Server!ParentEdges(T)
  BY <1>5 DEF Server!ParentEdges
<1>7. \A i \in DOMAIN T : Server!Active(U[i]) <=> i \in WorkTickets(board)
  BY <1>4, <1>5 DEF Server!Active, WorkTickets, Stored, IsBacklogTicket, IsIdea, T
<1>8. \A i \in DOMAIN T : InDone(board, i) <=> T[i].column = done
  BY <1>1 DEF InDone, T
<1>9. /\ \A i \in DOMAIN T : Server!OpenWork(U, i) => i \in WorkTickets(board) /\ i # e /\ ~InDone(board, i)
      /\ OneDone => \A i \in WorkTickets(board) \ {e} : ~InDone(board, i) => Server!OpenWork(U, i)
  <2>1. WorkTickets(board) \subseteq DOMAIN T
    BY DEF WorkTickets, T
  <2> QED BY <1>1, <1>2, <1>4, <1>5, <1>7, <1>8, <2>1 DEF Server!OpenWork
<1>10. Server!ClosedEpic(U, e)
  BY <1>1, <1>2, <1>3, <1>5, <1>7 DEF Server!ClosedEpic
<1> QED BY <1>1, <1>3, <1>5, <1>6, <1>9, <1>10 DEF U

(* The button of an Epic is enabled when its completion is accepted.       *)
LEMMA EpicButtons ==
  ASSUME IsBoard(board), IsKept(board) PROVE EpicButtonMatchesServer
<1> SUFFICES ASSUME DoneColumn(board) # 0, NEW e \in WorkTickets(board), IsEpic(board, e), ~InDone(board, e)
             PROVE  /\ OneDone /\ EpicAccepted(e, DoneColumn(board)) => EpicCompletionState(board, e).allowed
                    /\ WaysUpAreWork /\ EpicCompletionState(board, e).allowed => EpicAccepted(e, DoneColumn(board))
  BY DEF EpicButtonMatchesServer
<1> DEFINE done == DoneColumn(board)
           U == Completed(e)
           D == DescendantTickets(board, e)
           Up(p) == Server!Reach(Server!ParentEdges(T), ServerIds, {p} \ {0}) \intersect DOMAIN T
<1>1. /\ DOMAIN U = DOMAIN T /\ done \in DOMAIN board.columns /\ T[e].parent = 0
      /\ \A i \in DOMAIN T : U[i].parent = T[i].parent
      /\ Server!ParentEdges(U) = Server!ParentEdges(T)
      /\ \A i \in DOMAIN T : Server!OpenWork(U, i) => i \in WorkTickets(board) /\ i # e /\ ~InDone(board, i)
      /\ OneDone => \A i \in WorkTickets(board) \ {e} : ~InDone(board, i) => Server!OpenWork(U, i)
      /\ Server!ClosedEpic(U, e)
  BY CompletedIs
<1>2. e \in DOMAIN T /\ e \in ServerIds /\ e # 0 /\ WorkTickets(board) \subseteq DOMAIN T
  <2>1. WorkTickets(board) \subseteq DOMAIN T
    BY DEF WorkTickets, T
  <2> QED BY <2>1, ServerKnowsAll
<1>3. done # 0 /\ T[e].column # done
  <2>1. done # 0
    BY <1>1 DEF IsBoard
  <2> QED BY <2>1 DEF InDone, T
<1>4. EpicCompletionState(board, e).allowed
        <=> (\A d \in D : InDone(board, d)) /\ ~Server!Blocked(T, T[e].links, done)
  <2>1. EpicCompletionState(board, e).allowed
          <=> {d \in D : ~InDone(board, d)} = {} /\ BoardMoveBlockedTasks(board, e, done) = {}
    BY <1>3 DEF EpicCompletionState
  <2>2. BoardMoveBlockedTasks(board, e, done) # {} <=> Server!Blocked(T, T[e].links, done)
    BY <1>1, <1>3, MovesMatch
  <2> QED BY <2>1, <2>2
<1> HIDE DEF U, D
<1>5. \A p : Server!Above(U, {p}) = Up(p)
  <2>1. Server!Ids = ServerIds
    BY ServerKnowsAll
  <2> QED BY <1>1, <2>1 DEF Server!Above
<1>6. e \in Up(e) /\ Up(e) \subseteq {e}
  <2>1. \A x \in Server!ParentEdges(T) : x[1] # e
    <3>1. Server!ParentEdges(T) = {<<x, T[x].parent>> : x \in {y \in DOMAIN T : T[y].parent # 0}}
      BY DEF Server!ParentEdges
    <3> QED BY <1>1, <3>1
  <2>2. Server!IsClosed(Server!ParentEdges(T), {e})
    BY <2>1 DEF Server!IsClosed
  <2>3. {e} \in SUBSET ServerIds
    BY <1>2
  <2>4. {e} \ {0} = {e}
    BY <1>2
  <2> QED BY <1>2, <2>2, <2>3, <2>4 DEF Server!Reach
<1> HIDE DEF Up
<1>7. Server!EpicsRespected(U, e)
        <=> \A d \in DOMAIN T \ {e} : Server!OpenWork(U, d) => e \notin Up(T[d].parent)
  <2>1. Server!Above(U, {e}) = {e}
    <3>1. Server!Above(U, {e}) = Up(e)
      BY <1>5
    <3> QED BY <1>6, <3>1
  <2>2. Server!EpicsRespected(U, e)
          <=> \A f \in {e} : Server!ClosedEpic(U, f) =>
                \A d \in DOMAIN U \ {f} : Server!OpenWork(U, d) => f \notin Server!Above(U, {U[d].parent})
    BY <2>1 DEF Server!EpicsRespected
  <2>3. Server!EpicsRespected(U, e)
          <=> \A d \in DOMAIN T \ {e} : Server!OpenWork(U, d) => e \notin Server!Above(U, {U[d].parent})
    BY <1>1, <2>2
  <2>4. \A d \in DOMAIN T : Server!Above(U, {U[d].parent}) = Up(T[d].parent)
    <3> SUFFICES ASSUME NEW d \in DOMAIN T PROVE Server!Above(U, {U[d].parent}) = Up(T[d].parent)
      OBVIOUS
    <3>1. U[d].parent = T[d].parent
      BY <1>1
    <3> QED BY <1>5, <3>1
  <2> QED BY <2>3, <2>4
<1>8. EpicAccepted(e, done) <=> Server!EpicsRespected(U, e) /\ ~Server!Blocked(T, T[e].links, done)
  BY DEF EpicAccepted, U, Completed
<1>9. ASSUME OneDone, Server!EpicsRespected(U, e), NEW d \in D PROVE InDone(board, d)
  <2>1. /\ d \in WorkTickets(board) /\ d # e
        /\ e \in Server!Reach(Server!ParentEdges(T), ServerIds, {T[d].parent} \ {0})
    BY <1>1, BelowLeadsUp DEF D
  <2>2. e \in Up(T[d].parent) /\ d \in DOMAIN T \ {e}
    BY <1>2, <2>1 DEF Up
  <2>3. ~Server!OpenWork(U, d)
    BY <1>7, <1>9, <2>2
  <2> QED BY <1>1, <1>9, <2>1, <2>3
<1>10. ASSUME WaysUpAreWork, \A d \in D : InDone(board, d), NEW d \in DOMAIN T \ {e}, Server!OpenWork(U, d)
       PROVE  e \notin Up(T[d].parent)
  <2>1. d \in WorkTickets(board) /\ d # e /\ d \notin D
    BY <1>1, <1>10
  <2> QED BY <1>10, <2>1, OnlyBelowLeadsUp DEF Up, D
<1> QED BY <1>4, <1>7, <1>8, <1>9, <1>10

(* The browser offers what the server does: a card that may be dropped is  *)
(* not refused for its prerequisites, for every set of columns, and comes  *)
(* to lie where it was shown although only one neighbor is sent; the       *)
(* button of an Epic is enabled when its completion is accepted, and then  *)
(* only if no ticket above work is archived or in the backlog; nor does a  *)
(* parent offered in the editor close a circle then.  Code:                *)
(* columnRequiresCompletedDependencies, boardMoveBlockedTasks,             *)
(* epicCompletionState, parentCandidates, boardDropPlacement; on the       *)
(* server blockedDependencies, validateEpicCompletion,                     *)
(* parentWouldCreateCycle.                                                 *)
THEOREM BrowserAgreesWithServer ==
  Spec => []BrowserMatchesServer
<1>1. ASSUME PlanningInv, KeptInv PROVE BrowserMatchesServer
  <2>1. IsBoard(board) /\ IsKept(board)
    BY <1>1 DEF PlanningInv, TypeOK, KeptInv
  <2>2. GateMatchesServer /\ EpicButtonMatchesServer /\ ParentsOfferedAreSafe
    BY <2>1, GatesMatch, EpicButtons, OfferedAreSafe
  <2>3. \A lane \in BoardLanes(board, Drawn), c \in DOMAIN board.columns :
          EveryDropLands(BoardLaneColumnItems(board, Drawn, lane, c))
    BY <2>1, BoardDropsLand
  <2> QED BY <2>2, <2>3, Zenon DEF BrowserMatchesServer
<1>2. Spec => [](PlanningInv /\ KeptInv)
  BY PlanningAssumption, ServerAssumption, KeptAlways
<1> QED BY <1>1, <1>2, PTL

-----------------------------------------------------------------------------
(* The chart under zoom, scroll and pointer *)

(* Rounding a whole number of days.                                        *)
LEMMA RoundedDays ==
  ASSUME NEW k \in Nat, NEW d \in Nat \ {0} PROVE Rounded(k * d, d) = k
<1> DEFINE p == k * d
           q == k * (2 * d)
<1>1. p \in Nat /\ q \in Nat /\ q = 2 * p
  OBVIOUS
<1> HIDE DEF p
<1>2. 2 * p + d \in Nat /\ 2 * d \in Nat \ {0} /\ q <= 2 * p + d /\ 2 * p + d < q + 2 * d
  <2> HIDE DEF q
  <2> QED BY <1>1
<1>3. (2 * p + d) \div (2 * d) = k
  BY <1>2, Quotient
<1> QED BY <1>3 DEF Rounded, p

(* The nearest day is a whole number.                                      *)
LEMMA RoundedTyped ==
  ASSUME NEW x \in Int, NEW d \in Nat \ {0} PROVE Rounded(x, d) \in Int
BY DEF Rounded

(* The measures of a chart.                                                *)
LEMMA GeometryIs ==
  ASSUME NEW range, range.start \in Int, range.endExclusive \in Int, NEW zoom \in {65, 100, 300}
  PROVE  LET g == TimelineGeometry(range, Window, zoom)
         IN /\ g.start \in Int /\ g.days \in Nat \ {0} /\ g.dayWidth \in 10 .. 90
            /\ g.width \in Nat /\ g.width >= 700
<1> DEFINE days == Most(1, range.endExclusive - range.start)
           fitted == (Most(1, Window - LeftPad - RightPad) * zoom) \div (100 * days)
           dayWidth == Most(10, Least(90, fitted))
<1>1. days \in Nat \ {0}
  BY DEF Most
<1> HIDE DEF days
<1>2. Most(1, Window - LeftPad - RightPad) = 596
  BY DEF Most, Window, LeftPad, RightPad
<1>3. 596 * zoom \in Nat /\ 100 * days \in Nat \ {0}
  BY <1>1
<1>4. fitted \in Int
  BY <1>2, <1>3
<1> HIDE DEF fitted
<1>5. dayWidth \in 10 .. 90
  BY <1>4 DEF Most, Least
<1> HIDE DEF dayWidth
<1> DEFINE used == days * dayWidth
           width == Most(Window, used + LeftPad + RightPad)
<1>6. used \in Nat
  BY <1>1, <1>5
<1> HIDE DEF used
<1>7. width \in Nat /\ width >= 700
  BY <1>6 DEF Most, Window, LeftPad, RightPad
<1> HIDE DEF width
<1>8. TimelineGeometry(range, Window, zoom) = [start |-> range.start, days |-> days, dayWidth |-> dayWidth, width |-> width]
  BY DEF TimelineGeometry, days, fitted, dayWidth, used, width
<1> QED BY <1>1, <1>5, <1>7, <1>8

(* The day under the pointer ...                                           *)
LEMMA CursorDay ==
  ASSUME NEW g, NEW x, NEW left, NEW right, NEW label
  PROVE  GanttCursorAtX(g, x, left, right, label).day = Most(0, Least(g.days, Rounded(x - LeftPad, g.dayWidth)))
BY DEF GanttCursorAtX

(* ... the width of its tag ...                                            *)
LEMMA CursorWidth ==
  ASSUME NEW g, NEW x, NEW left, NEW right, NEW label
  PROVE  GanttCursorAtX(g, x, left, right, label).tagWidth =
           Least(Most(104, label), Most(60, Least(g.width - 4, right - 4) - Most(4, left + 4)))
BY DEF GanttCursorAtX

(* ... and the place of the tag.                                           *)
LEMMA CursorTag ==
  ASSUME NEW g, NEW x, NEW left, NEW right, NEW label
  PROVE  LET c == GanttCursorAtX(g, x, left, right, label)
             at == LeftPad + Most(0, Least(g.days, Rounded(x - LeftPad, g.dayWidth))) * g.dayWidth
             high == Least(g.width - 4, right - 4)
             w == Least(Most(104, label), Most(60, high - Most(4, left + 4)))
         IN c.tagX = Most(Most(4, left + 4), Least(at - w \div 2, high - w))
BY DEF GanttCursorAtX

(* The day is on the chart and the tag between the edges.                  *)
TagFits(g, x, left, right, label) ==
  LET c == GanttCursorAtX(g, x, left, right, label)
  IN c.day \in 0 .. g.days /\ c.tagX >= left /\ c.tagX + c.tagWidth <= right

(* So it is on a window of 700 pixels, the width of the runs.              *)
LEMMA TagsAlwaysFit ==
  ASSUME NEW g, g.days \in Nat \ {0}, g.dayWidth \in Nat \ {0}, g.width \in Nat, g.width >= 700,
         NEW x \in Int, NEW left \in {0, 150}, NEW right, right = left + 700, NEW label, label = 130
  PROVE  TagFits(g, x, left, right, label)
<1> DEFINE near == Rounded(x - LeftPad, g.dayWidth)
           day == Most(0, Least(g.days, near))
           low == Most(4, left + 4)
           high == Least(g.width - 4, right - 4)
           w == Least(Most(104, label), Most(60, high - low))
           at == LeftPad + day * g.dayWidth
           c == GanttCursorAtX(g, x, left, right, label)
<1>1. c.day = day
  BY CursorDay
<1>2. c.tagWidth = w
  BY CursorWidth
<1>3. c.tagX = Most(low, Least(at - w \div 2, high - w))
  BY CursorTag
<1> HIDE DEF c
<1>4. near \in Int
  BY RoundedTyped DEF LeftPad
<1> HIDE DEF near
<1>5. day \in 0 .. g.days
  BY <1>4 DEF Most, Least
<1>6. low = left + 4 /\ high \in Int /\ high >= low + 130 /\ high <= left + 696
  BY DEF Most, Least
<1> HIDE DEF low, high, day
<1>7. w = 130
  BY <1>6 DEF Most, Least
<1>8. at \in Int
  BY <1>5 DEF LeftPad
<1> HIDE DEF at, w
<1>9. c.tagX >= left /\ c.tagX + c.tagWidth <= right
  <2>1. w \div 2 = 65
    BY <1>7
  <2>2. c.tagX = Most(low, Least(at - 65, high - 130)) /\ c.tagWidth = 130
    BY <1>2, <1>3, <1>7, <2>1
  <2> QED BY <1>6, <1>8, <2>2 DEF Most, Least
<1> QED BY <1>1, <1>5, <1>9 DEF TagFits, c

(* Zooming keeps the day in the middle, the tag stays in sight.            *)
LEMMA ChartAlwaysScrolls ==
  ASSUME NEW range, range.start \in Int, range.endExclusive \in Int
  PROVE  ChartScrolls(range)
<1> SUFFICES ASSUME NEW zoom \in {65, 100, 300}
             PROVE  CenterReturns(TimelineGeometry(range, Window, zoom)) /\ TagsFit(TimelineGeometry(range, Window, zoom))
  BY DEF ChartScrolls
<1> DEFINE g == TimelineGeometry(range, Window, zoom)
<1>1. /\ g.start \in Int /\ g.days \in Nat \ {0} /\ g.dayWidth \in 10 .. 90
      /\ g.width \in Nat /\ g.width >= 700
  BY GeometryIs
<1>0. g.dayWidth \in Nat \ {0}
  BY <1>1
<1> HIDE DEF g
<1>2. CenterReturns(g)
  <2> SUFFICES ASSUME NEW day \in g.start .. g.start + g.days,
                      TimelineScrollForDate(g, day, Window) \in 1 .. g.width - Window - 1
               PROVE  TimelineDateAtScrollCenter(g, TimelineScrollForDate(g, day, Window), Window) = day
    BY DEF CenterReturns
  <2> DEFINE k == day - g.start
             at == k * g.dayWidth
             scroll == TimelineScrollForDate(g, day, Window)
  <2>1. k \in Nat /\ at \in Nat /\ day = g.start + k
    BY <1>1
  <2>2. scroll = Most(0, Least(Most(0, g.width - Window), LeftPad + at - Window \div 2))
    BY DEF TimelineScrollForDate
  <2>3. Window \div 2 = 350
    BY DEF Window
  <2> HIDE DEF at, scroll
  <2>4. scroll + Window \div 2 - LeftPad = at
    <3>1. scroll \in 1 .. g.width - 701
      BY <1>1 DEF scroll, Window
    <3>2. scroll = Most(0, Least(Most(0, g.width - 700), at - 262))
      BY <1>1, <2>1, <2>2, <2>3 DEF Window, LeftPad
    <3>3. scroll = at - 262
      BY <1>1, <2>1, <3>1, <3>2 DEF Most, Least
    <3> QED BY <2>1, <2>3, <3>3 DEF LeftPad
  <2>5. Rounded(at, g.dayWidth) = k
    BY <1>0, <2>1, RoundedDays DEF at
  <2>6. TimelineDateAtScrollCenter(g, scroll, Window) = g.start + Most(0, k)
    BY <2>4, <2>5 DEF TimelineDateAtScrollCenter
  <2> QED BY <1>1, <2>1, <2>6 DEF Most, scroll
<1>3. TagsFit(g)
  <2>1. ASSUME NEW left \in {0, 150}, NEW x \in {left, left + 90, left + 345, left + Window}
        PROVE  TagFits(g, x, left, left + Window, 130)
    <3>1. x \in Int /\ left + Window = left + 700
      BY <2>1 DEF Window
    <3> QED BY <1>0, <1>1, <3>1, TagsAlwaysFit
  <2> QED BY <2>1 DEF TagsFit, TagFits
<1> QED BY <1>2, <1>3 DEF g

-----------------------------------------------------------------------------
(* The bars *)

(* What the chart needs of a bar ...                                       *)
IsDrawnBar(t) ==
  /\ t.start \in Days /\ t.due \in Days /\ t.end \in Days /\ t.readyAt \in Days /\ t.plannedStart \in Perhaps
  /\ t.actualFinish \in Perhaps /\ t.delayEnd \in Perhaps /\ t.estimateEnd \in Perhaps
  /\ t.start < t.due /\ t.start <= t.end
  /\ t.delayEnd # NoDay => t.delayEnd >= t.due /\ t.delayEnd >= t.end
  /\ t.estimateEnd # NoDay => t.estimateEnd > t.delayEnd /\ t.estimateEnd > t.end

(* ... and what it has when it is the bar of a task.                       *)
IsBar(t) == IsDrawnBar(t) /\ (t.estimateEnd # NoDay => t.estimateEnd > t.due)

(* A bar from its start, due date and finish.                              *)
LEMMA BarIs ==
  ASSUME NEW b, NEW base, NEW i, NEW start \in Days, NEW due \in Days, NEW length \in Nat \ {0}, start < due,
         base.plannedStart \in Perhaps, base.actualFinish \in Perhaps, b.tickets[i].duration \in Nat
  PROVE  LET t == BarFrom(b, base, i, start, due, length)
         IN IsBar(t) /\ t.ticket = i /\ t.start = start
<1> DEFINE finish == FinishFrom(start, base.actualFinish)
           late == LateUntil(due, finish)
           rest == IF b.tickets[i].duration > 0 THEN b.tickets[i].duration ELSE length
           t == BarFrom(b, base, i, start, due, length)
           estimate == IF late # NoDay /\ finish = NoDay THEN AddDays(late, rest) ELSE NoDay
<1>1. Perhaps = Days \union {NoDay} /\ Days \subseteq Nat /\ NoDay = -1 /\ Today \in Days
  BY SprintsAssumption, TimelineAssumption DEF Perhaps, Days, NoDay
<1>2. /\ t.ticket = i /\ t.start = start /\ t.due = due /\ t.plannedStart = base.plannedStart
      /\ t.end = IF finish # NoDay /\ finish < due THEN finish ELSE due
      /\ t.actualFinish = finish /\ t.readyAt = FirstDay(finish, due) /\ t.delayEnd = late
      /\ t.estimateEnd = estimate
  BY DEF BarFrom, Bar
<1> HIDE DEF t
<1>3. finish \in Perhaps /\ (finish # NoDay => finish \in Days /\ start <= finish)
  BY <1>1 DEF FinishFrom, Most
<1>4. rest \in Nat \ {0}
  OBVIOUS
<1> HIDE DEF finish, rest
<1>5. late \in Perhaps /\ (late # NoDay => late \in Days /\ late > due /\ (finish # NoDay => late = finish))
  BY <1>1, <1>3 DEF LateUntil
<1> HIDE DEF late
<1>6. estimate \in Perhaps /\ (estimate # NoDay => late # NoDay /\ finish = NoDay /\ estimate > late)
  BY <1>1, <1>4, <1>5 DEF AddDays, ValidDate
<1> HIDE DEF estimate
<1>7. t.end \in Days /\ start <= t.end /\ t.end <= due /\ t.readyAt \in Days
  BY <1>1, <1>2, <1>3 DEF FirstDay
<1>8. t.delayEnd # NoDay => t.delayEnd >= t.due /\ t.delayEnd >= t.end
  BY <1>1, <1>2, <1>5, <1>7
<1>9. t.estimateEnd # NoDay => t.estimateEnd > t.delayEnd /\ t.estimateEnd > t.due /\ t.estimateEnd > t.end
  BY <1>1, <1>2, <1>5, <1>6, <1>7
<1>10. IsBar(t)
  BY <1>1, <1>2, <1>3, <1>5, <1>6, <1>7, <1>8, <1>9 DEF IsBar, IsDrawnBar
<1> QED BY <1>2, <1>10 DEF t

(* The bar of a task.                                                      *)
LEMMA BarsAreSound ==
  ASSUME NEW b, IsBoard(b), DatesFit(b), NEW d, NEW W \in SUBSET DOMAIN b.tickets, NEW bars, bars = GanttTasks(b, d, W)
  PROVE  /\ DOMAIN bars \subseteq W
         /\ \A i \in DOMAIN bars : /\ IsBar(bars[i]) /\ bars[i].ticket = i
                                   /\ \A ready \in GanttDependencyReady(b, i) : ready <= bars[i].start
<1>1. DOMAIN bars = {x \in W : HasTask(b, d, x)}
  BY DEF GanttTasks
<1>2. Perhaps = Days \union {NoDay} /\ Days = 0 .. LastDay /\ LastDay \in Nat /\ NoDay = -1
  BY SprintsAssumption DEF Perhaps, Days, NoDay
<1>3. ASSUME NEW i \in DOMAIN bars
      PROVE  /\ IsBar(bars[i]) /\ bars[i].ticket = i
             /\ \A ready \in GanttDependencyReady(b, i) : ready <= bars[i].start
  <2> DEFINE base == GanttBase(b, i)
             ready == GanttDependencyReady(b, i)
             at == IF ready = {} THEN base.plannedStart ELSE Greatest(ready)
             length == Most(1, base.due - base.plannedStart)
             due == IF base.due <= at THEN AddDays(at, length) ELSE base.due
  <2>1. i \in DOMAIN b.tickets /\ Dated(base)
    BY <1>1 DEF HasTask
  <2>2. base.plannedStart \in Days /\ base.due \in Days
    BY <2>1 DEF Dated, ValidDate
  <2>3. bars[i] = BarFrom(b, base, i, at, due, length)
    BY <1>1 DEF GanttTasks, GanttTask
  <2>4. /\ ready \in SUBSET Days
        /\ ready # {} => Greatest(ready) \in ready /\ \A x \in ready : x <= Greatest(ready)
    BY <2>1, ReadyTyped
  <2>5. \A x \in ready : base.due <= x => x + length <= LastDay
    BY <2>1 DEF DatesFit
  <2>6. base.actualFinish \in Perhaps /\ b.tickets[i].duration \in Nat
    <3>1. b.tickets[i].finished \in Perhaps /\ b.tickets[i].duration \in Nat
      BY <2>1, TicketsTyped DEF Perhaps
    <3>2. base.actualFinish \in {b.tickets[i].finished, NoDay}
      BY DEF GanttBase
    <3> QED BY <1>2, <3>1, <3>2
  <2>7. base.due > base.plannedStart
    <3> DEFINE start == PlannedStart(b.tickets[i])
               planned == FirstDay(b.tickets[i].due, AddDays(start, PlannedDays(b.tickets[i])))
    <3>1. base.plannedStart = start /\ base.due = DueAfter(start, planned)
      BY DEF GanttBase
    <3> HIDE DEF start, planned, base
    <3>2. planned \in Perhaps
      <4>1. \A x, n : AddDays(x, n) \in Perhaps
        BY DEF AddDays, ValidDate, Perhaps
      <4>2. b.tickets[i].due \in Perhaps
        BY <2>1, TicketsTyped DEF Perhaps
      <4> QED BY <4>1, <4>2 DEF planned, FirstDay
    <3> QED BY <1>2, <2>2, <3>1, <3>2 DEF DueAfter, AddDays, ValidDate
  <2> HIDE DEF base, ready
  <2>8. length \in Nat \ {0}
    BY <1>2, <2>2 DEF Most
  <2> HIDE DEF length
  <2>9. at \in Days /\ \A x \in ready : x <= at
    BY <2>2, <2>4
  <2>10. due \in Days /\ at < due
    <3>1. CASE base.due <= at
      <4>1. ready # {}
        BY <1>2, <2>2, <2>7, <3>1
      <4>2. at + length <= LastDay
        BY <2>4, <2>5, <3>1, <4>1
      <4>3. at + length \in Days /\ at < at + length
        BY <1>2, <2>8, <2>9, <4>2
      <4>4. due = at + length
        BY <3>1, <4>3 DEF AddDays, ValidDate
      <4> QED BY <4>3, <4>4
    <3>2. CASE ~(base.due <= at)
      BY <1>2, <2>2, <2>9, <3>2
    <3> QED BY <3>1, <3>2
  <2> HIDE DEF at, due
  <2>11. base.plannedStart \in Perhaps
    BY <1>2, <2>2
  <2>12. IsBar(bars[i]) /\ bars[i].ticket = i /\ bars[i].start = at
    BY <2>3, <2>6, <2>8, <2>9, <2>10, <2>11, BarIs
  <2> QED BY <2>9, <2>12 DEF ready
<1> QED BY <1>1, <1>3

(* The days of a bar that its Epic spans.                                  *)
Spanned(t) == {t.start, t.end, t.due, t.readyAt, t.delayEnd} \ {NoDay}

(* They are those the code collects.                                       *)
LEMMA SpannedAre ==
  ASSUME NEW tasks
  PROVE  (UNION {{t.start, t.end, t.due, t.readyAt, t.delayEnd} : t \in tasks}) \ {NoDay}
           = UNION {Spanned(t) : t \in tasks}
<1> DEFINE some(t) == {t.start, t.end, t.due, t.readyAt, t.delayEnd}
<1>1. \A t : Spanned(t) = some(t) \ {NoDay}
  BY DEF Spanned
<1> HIDE DEF some
<1>2. (UNION {some(t) : t \in tasks}) \ {NoDay} = UNION {Spanned(t) : t \in tasks}
  BY <1>1
<1> QED BY <1>2 DEF some

(* The bar of an Epic spans those of its tasks.                            *)
LEMMA EpicBarIs ==
  ASSUME NEW b, IsBoard(b), NEW e \in DOMAIN b.tickets, NEW tasks, tasks # {}, \A t \in tasks : IsBar(t),
         NEW bar, bar = GanttEpicAggregate(b, e, tasks)
  PROVE  /\ IsDrawnBar(bar) /\ bar.ticket = e
         /\ \A t \in tasks : bar.start <= t.start /\ t.end <= bar.end /\ t.readyAt <= bar.readyAt
<1> DEFINE days == UNION {Spanned(t) : t \in tasks}
           forecasts == {t.estimateEnd : t \in tasks} \ {NoDay}
           start == Smallest(days)
           latest == Greatest(days)
           due == DueAfter(start, FirstDay(b.tickets[e].due, latest))
           estimate == IF \E f \in forecasts : f > latest THEN Greatest(forecasts) ELSE NoDay
<1>1. Perhaps = Days \union {NoDay} /\ Days = 0 .. LastDay /\ Days \subseteq Nat /\ LastDay \in Nat /\ NoDay = -1
  BY SprintsAssumption DEF Perhaps, Days, NoDay
<1>2. ASSUME NEW t \in tasks
      PROVE  /\ Spanned(t) \subseteq Days /\ t.start \in Spanned(t) /\ t.end \in Spanned(t)
             /\ t.due \in Spanned(t) /\ t.readyAt \in Spanned(t)
             /\ t.start < t.due /\ t.estimateEnd \in Perhaps
  BY <1>1 DEF IsBar, IsDrawnBar, Spanned
<1>3. days \in SUBSET Days /\ \A t \in tasks : Spanned(t) \subseteq days
  BY <1>2
<1>4. PICK one \in tasks : TRUE
  OBVIOUS
<1> HIDE DEF days
<1>5. /\ start \in Days /\ \A y \in days : start <= y
      /\ latest \in Days /\ \A y \in days : y <= latest
  <2>1. days # {}
    BY <1>2, <1>3, <1>4
  <2> QED BY <1>3, <2>1, DaysBounded
<1> HIDE DEF start, latest
<1>6. start < latest
  BY <1>1, <1>2, <1>3, <1>4, <1>5
<1>7. due \in Days /\ start < due
  <2>1. b.tickets[e].due \in Perhaps
    BY TicketsTyped DEF Perhaps
  <2>2. FirstDay(b.tickets[e].due, latest) \in Days
    <3> DEFINE own == b.tickets[e].due
    <3> HIDE DEF own
    <3>1. FirstDay(own, latest) \in Days
      BY <1>1, <1>5, <2>1 DEF FirstDay, own
    <3> QED BY <3>1 DEF own
  <2>3. start + 1 \in Days
    BY <1>1, <1>5, <1>6
  <2> HIDE DEF due
  <2>4. due = IF FirstDay(b.tickets[e].due, latest) <= start THEN start + 1
              ELSE FirstDay(b.tickets[e].due, latest)
    BY <1>1, <2>2, <2>3 DEF due, DueAfter, AddDays, ValidDate
  <2> QED BY <1>1, <1>5, <2>2, <2>3, <2>4
<1>8. forecasts \in SUBSET Days
  BY <1>1, <1>2
<1> HIDE DEF forecasts, due
<1>9. estimate \in Perhaps /\ (estimate # NoDay => estimate > latest)
  <2>1. CASE \E f \in forecasts : f > latest
    <3>1. PICK f \in forecasts : f > latest
      BY <2>1
    <3>2. Greatest(forecasts) \in forecasts /\ f <= Greatest(forecasts)
      BY <1>8, <3>1, DaysBounded
    <3>3. estimate = Greatest(forecasts)
      BY <2>1
    <3> HIDE DEF estimate
    <3>4. estimate \in Days /\ f \in Days
      BY <1>8, <3>1, <3>2, <3>3
    <3>5. estimate \in Nat /\ f \in Nat /\ latest \in Nat
      BY <1>1, <1>5, <3>4
    <3> QED BY <1>1, <3>1, <3>2, <3>3, <3>4, <3>5
  <2>2. CASE ~\E f \in forecasts : f > latest
    BY <1>1, <2>2
  <2> QED BY <2>1, <2>2
<1> HIDE DEF estimate
<1>10. /\ bar.ticket = e /\ bar.start = start /\ bar.due = due /\ bar.end = latest /\ bar.actualFinish = NoDay
       /\ bar.plannedStart = start /\ bar.readyAt = latest /\ bar.delayEnd = NoDay
       /\ bar.estimateEnd = estimate
  <2>1. bar = EpicBar(e, start, FirstDay(b.tickets[e].due, latest), latest, forecasts)
    BY SpannedAre DEF GanttEpicAggregate, days, start, latest, forecasts
  <2>2. ~(latest <= start)
    BY <1>1, <1>5, <1>6
  <2> QED BY <2>1, <2>2 DEF EpicBar, due, estimate
<1>11. IsDrawnBar(bar)
  BY <1>1, <1>5, <1>6, <1>7, <1>9, <1>10 DEF IsDrawnBar
<1>12. \A t \in tasks : bar.start <= t.start /\ t.end <= bar.end /\ t.readyAt <= bar.readyAt
  BY <1>2, <1>3, <1>5, <1>10
<1> QED BY <1>10, <1>11, <1>12

(* What is drawn are sound bars, one for each row.                         *)
BarHolds(d, bars, t) ==
  /\ IsDrawnBar(t)
  /\ IF Epic(t.ticket) = t.ticket
     THEN \A i \in EpicTasks(board, ui, d, t.ticket, DOMAIN bars) :
            t.start <= bars[i].start /\ bars[i].end <= t.end /\ bars[i].readyAt <= t.readyAt
     ELSE /\ t.estimateEnd # NoDay => t.estimateEnd > t.due
          /\ \A ready \in GanttDependencyReady(board, t.ticket) : ready <= t.start

(* Rows are tasks, or Epics with tasks below them.                         *)
LEMMA DrawnAre ==
  ASSUME IsBoard(board), EpicsHaveNoParent(board), DatesFit(board),
         NEW t \in BarsOf(Drawn, Schedule(Drawn))
  PROVE  BarHolds(Drawn, Schedule(Drawn), t)
<1> DEFINE W == TimelineFilteredWork(board, ui, Drawn)
           bars == GanttTasks(board, Drawn, W)
           tasks == DOMAIN bars
           rows == BuildGanttRows(board, ui, Drawn, W, bars)
           spanned(e) == {bars[x] : x \in EpicTasks(board, ui, Drawn, e, tasks)}
<1>1. Drawn.work \subseteq WorkTickets(board) /\ StepsTyped(Drawn.steps)
  BY SnapshotIs DEF Drawn
<1>2. W \subseteq WorkTickets(board) /\ W \subseteq DOMAIN board.tickets
  BY <1>1, TimelineWorkIsWork DEF WorkTickets
<1>3. Schedule(Drawn) = bars /\ BarsOf(Drawn, bars) = GanttBars(board, ui, Drawn, bars, rows)
  BY DEF Schedule, RowsOf, BarsOf
<1> HIDE DEF W
<1>4. /\ tasks \subseteq W
      /\ \A i \in tasks : /\ IsBar(bars[i]) /\ bars[i].ticket = i
                          /\ \A ready \in GanttDependencyReady(board, i) : ready <= bars[i].start
  BY <1>2, BarsAreSound
<1>5. PICK heads, members, tail : TimelineGroupsAre(board, ui, Drawn, W, bars, heads, members, tail)
  <2>1. \E heads, members, tail : TimelineGroupsAre(board, ui, Drawn, W, bars, heads, members, tail)
    BY <1>1, <1>2, TimelineGroups
  <2> QED BY <2>1
<1> HIDE DEF bars
<1>6. /\ Grouping(DOMAIN T, heads, members, tail, TopOf(board))
      /\ rows = GroupRows(heads, members, tail)
      /\ Range(heads) = {e \in {TopEpicFor(board, i) : i \in W} \ {0} : EpicTasks(board, ui, Drawn, e, tasks) # {}}
      /\ \A e \in Range(heads) : \A i \in Range(members[e]) : i \in tasks /\ Epic(i) # i
      /\ \A i \in Range(tail) : i \in tasks /\ Epic(i) = 0
  <2> DEFINE below(e) == IF e \in ui.collapsed THEN {} ELSE {i \in tasks : TopEpicFor(board, i) = e /\ i # e}
             loose == {i \in tasks : TopEpicFor(board, i) = 0}
  <2>1. /\ Grouping(DOMAIN T, heads, members, tail, TopOf(board))
        /\ rows = GroupRows(heads, members, tail)
        /\ Range(heads) = {e \in {TopEpicFor(board, i) : i \in W} \ {0} : EpicTasks(board, ui, Drawn, e, tasks) # {}}
        /\ \A e \in Range(heads) : Range(members[e]) = below(e)
        /\ Range(tail) = loose
    BY <1>5 DEF TimelineGroupsAre, InOrder, Lists, T
  <2>2. \A e : \A i \in below(e) : i \in tasks /\ Epic(i) # i
    BY DEF Epic
  <2>3. \A i \in loose : i \in tasks /\ Epic(i) = 0
    BY DEF Epic
  <2> HIDE DEF below, loose
  <2>4. \A e \in Range(heads) : \A i \in Range(members[e]) : i \in tasks /\ Epic(i) # i
    BY <2>1, <2>2
  <2>5. \A i \in Range(tail) : i \in tasks /\ Epic(i) = 0
    BY <2>1, <2>3
  <2> QED BY <2>1, <2>4, <2>5
<1>7. Range(rows) = Range(heads) \union Range(tail) \union UNION {Range(members[e]) : e \in Range(heads)}
  BY <1>6, GroupsGrouped
<1> HIDE DEF rows
<1>8. PICK i \in Range(rows) : t = IF Epic(i) = i THEN GanttEpicAggregate(board, i, spanned(i)) ELSE bars[i]
  BY <1>3 DEF GanttBars, Epic
<1>9. CASE Epic(i) = i
  <2>1. i \in Range(heads)
    <3>1. tasks \subseteq Nat \ {0}
      BY <1>2, <1>4 DEF IsBoard
    <3> QED BY <1>6, <1>7, <1>9, <3>1
  <2>2. i \in DOMAIN board.tickets /\ EpicTasks(board, ui, Drawn, i, tasks) # {}
    BY <1>2, <1>6, <1>9, <2>1, TopTyped DEF Epic
  <2>3. EpicTasks(board, ui, Drawn, i, tasks) \subseteq tasks
    BY DEF EpicTasks
  <2>4. spanned(i) # {} /\ (\A x \in spanned(i) : IsBar(x)) /\ t = GanttEpicAggregate(board, i, spanned(i))
    BY <1>4, <1>8, <1>9, <2>2, <2>3
  <2>5. \A x \in EpicTasks(board, ui, Drawn, i, tasks) : bars[x] \in spanned(i)
    OBVIOUS
  <2> HIDE DEF spanned
  <2>6. /\ IsDrawnBar(t) /\ t.ticket = i
        /\ \A x \in spanned(i) : t.start <= x.start /\ x.end <= t.end /\ x.readyAt <= t.readyAt
    BY <2>2, <2>4, EpicBarIs
  <2> QED BY <1>3, <1>9, <2>5, <2>6 DEF BarHolds
<1>10. CASE Epic(i) # i
  <2>1. ASSUME i \in Range(heads) PROVE FALSE
    BY <1>2, <1>6, <1>10, <2>1, TopTyped DEF Epic
  <2>2. i \in tasks
    BY <1>6, <1>7, <2>1
  <2>3. t = bars[i]
    BY <1>8, <1>10
  <2> QED BY <1>3, <1>4, <1>10, <2>2, <2>3 DEF BarHolds, IsBar
<1> QED BY <1>9, <1>10

-----------------------------------------------------------------------------
(* The range of the chart *)

(* The days of a focused chain, and of all bars.                           *)
FocusDays(d, drawn) ==
  (UNION {{t.plannedStart, t.start, t.due, t.actualFinish} :
            t \in {x \in drawn : TopEpicFor(board, x.ticket) # x.ticket \/ x.ticket \in d.focusIds}}) \ {NoDay}

AllDays(drawn) ==
  (UNION {{t.plannedStart, t.start, t.end, t.due, t.actualFinish, t.readyAt, t.delayEnd,
           t.estimateEnd} : t \in drawn}) \ {NoDay}

(* They are days, and those of every focused bar are among them.           *)
LEMMA FocusDaysAre ==
  ASSUME NEW d, NEW drawn, \A t \in drawn : IsDrawnBar(t)
  PROVE  /\ FocusDays(d, drawn) \in SUBSET Days
         /\ \A t \in drawn : t.ticket \in d.focusIds =>
              {t.start, t.due, t.actualFinish} \ {NoDay} \subseteq FocusDays(d, drawn)
<1> DEFINE some(t) == {t.plannedStart, t.start, t.due, t.actualFinish}
           N == {x \in drawn : TopEpicFor(board, x.ticket) # x.ticket \/ x.ticket \in d.focusIds}
<1>1. \A t \in drawn : some(t) \ {NoDay} \subseteq Days
  BY DEF IsDrawnBar, Perhaps
<1>2. \A t : {t.start, t.due, t.actualFinish} \subseteq some(t)
  OBVIOUS
<1>3. N \subseteq drawn /\ \A t \in drawn : t.ticket \in d.focusIds => t \in N
  OBVIOUS
<1>4. FocusDays(d, drawn) = (UNION {some(t) : t \in N}) \ {NoDay}
  BY DEF FocusDays
<1> HIDE DEF some, N
<1>5. FocusDays(d, drawn) \in SUBSET Days
  BY <1>1, <1>3, <1>4
<1>6. \A t \in N : some(t) \ {NoDay} \subseteq FocusDays(d, drawn)
  BY <1>4
<1> QED BY <1>2, <1>3, <1>5, <1>6

(* They are days, and those of every bar are among them.                   *)
LEMMA AllDaysAre ==
  ASSUME NEW drawn, \A t \in drawn : IsDrawnBar(t)
  PROVE  /\ AllDays(drawn) \in SUBSET Days
         /\ \A t \in drawn : {t.start, t.due, t.end, t.actualFinish, t.delayEnd, t.estimateEnd} \ {NoDay} \subseteq AllDays(drawn)
<1> DEFINE some(t) == {t.plannedStart, t.start, t.end, t.due, t.actualFinish, t.readyAt, t.delayEnd, t.estimateEnd}
<1>1. \A t \in drawn : some(t) \ {NoDay} \subseteq Days
  BY DEF IsDrawnBar, Perhaps
<1>2. \A t : {t.start, t.due, t.end, t.actualFinish, t.delayEnd, t.estimateEnd} \subseteq some(t)
  OBVIOUS
<1>3. AllDays(drawn) = (UNION {some(t) : t \in drawn}) \ {NoDay}
  BY DEF AllDays
<1> HIDE DEF some
<1>4. AllDays(drawn) \in SUBSET Days
  BY <1>1, <1>3
<1>5. \A t \in drawn : some(t) \ {NoDay} \subseteq AllDays(drawn)
  BY <1>3
<1> QED BY <1>2, <1>4, <1>5

(* The days of a set lie in the range around it with a day to spare.       *)
LEMMA RangeSurrounds ==
  ASSUME NEW days \in SUBSET Days, days # {}
  PROVE  LET range == RangeAround(days)
         IN /\ range.start \in Int /\ range.endExclusive \in Int /\ range # NoRange
            /\ days \subseteq range.start + 1 .. range.endExclusive - 1
<1>1. Days \subseteq Nat /\ NoDay = -1
  BY SprintsAssumption DEF Days, NoDay
<1>2. /\ Smallest(days) \in Nat /\ Greatest(days) \in Nat
      /\ \A y \in days : y \in Nat /\ Smallest(days) <= y /\ y <= Greatest(days)
  BY <1>1, DaysBounded
<1>3. RangeAround(days).start = Smallest(days) - 1 /\ RangeAround(days).endExclusive = Greatest(days) + 2
  BY DEF RangeAround
<1>4. NoRange.endExclusive = -1
  BY <1>1 DEF NoRange
<1>5. RangeAround(days) # NoRange
  BY <1>2, <1>3, <1>4
<1>6. \A y \in days : y \in RangeAround(days).start + 1 .. RangeAround(days).endExclusive - 1
  BY <1>2, <1>3
<1> QED BY <1>2, <1>3, <1>5, <1>6

(* The range is that of the focused chain, the Sprint or all bars.         *)
LEMMA RangeIs ==
  ASSUME NEW d, NEW drawn, \A t \in drawn : IsDrawnBar(t)
  PROVE  LET range == ChartRange(board, ui, d, drawn)
             focus == FocusDays(d, drawn)
             days == AllDays(drawn)
             sprint == SelectedPlanningSprint(board, ui)
         IN \/ d.focusIds # NoChain /\ focus # {} /\ range = RangeAround(focus)
            \/ /\ d.focusIds = NoChain \/ focus = {}
               /\ \/ sprint # NoSprint /\ range = [start |-> sprint.start, endExclusive |-> sprint.endExclusive]
                  \/ sprint = NoSprint /\ days = {} /\ range = [start |-> Today - 1, endExclusive |-> Today + 16]
                  \/ sprint = NoSprint /\ days # {} /\ range = RangeAround(days)
<1> DEFINE focus == FocusDays(d, drawn)
           days == AllDays(drawn)
           sprint == SelectedPlanningSprint(board, ui)
           chain == IF d.focusIds = NoChain \/ focus = {} THEN NoRange ELSE RangeAround(focus)
<1>1. DependencyTimelineRange(board, d, drawn) = chain
  BY DEF DependencyTimelineRange, FocusDays
<1>2. ChartRange(board, ui, d, drawn) = ChartRangeOf(chain, sprint, days)
  BY <1>1 DEF ChartRange, AllDays
<1>3. focus \in SUBSET Days
  BY FocusDaysAre
<1> HIDE DEF focus, days, sprint
<1>4. focus # {} => RangeAround(focus) # NoRange
  BY <1>3, RangeSurrounds
<1>5. CASE d.focusIds # NoChain /\ focus # {}
  BY <1>2, <1>4, <1>5 DEF ChartRangeOf, focus
<1>6. CASE d.focusIds = NoChain \/ focus = {}
  <2>1. chain = NoRange
    BY <1>6
  <2> HIDE DEF chain
  <2> QED BY <1>2, <1>6, <2>1 DEF ChartRangeOf, focus, days, sprint
<1> QED BY <1>5, <1>6

(* The chart begins and ends at numbers.                                   *)
LEMMA RangeTyped ==
  ASSUME NEW d, NEW drawn, \A t \in drawn : IsDrawnBar(t)
  PROVE  ChartRange(board, ui, d, drawn).start \in Int /\ ChartRange(board, ui, d, drawn).endExclusive \in Int
<1> DEFINE range == ChartRange(board, ui, d, drawn)
           sprint == SelectedPlanningSprint(board, ui)
<1>1. Days \subseteq Int /\ Today \in Int
  BY SprintsAssumption, TimelineAssumption DEF Days
<1>2. sprint # NoSprint => sprint.start \in Int /\ sprint.endExclusive \in Int
  <2>1. sprint # NoSprint => Usable(sprint)
    BY DEF SelectedPlanningSprint, SprintByNumber
  <2> HIDE DEF sprint
  <2> QED BY <1>1, <2>1 DEF Usable, ValidDate
<1>3. \/ FocusDays(d, drawn) # {} /\ range = RangeAround(FocusDays(d, drawn))
      \/ sprint # NoSprint /\ range = [start |-> sprint.start, endExclusive |-> sprint.endExclusive]
      \/ range = [start |-> Today - 1, endExclusive |-> Today + 16]
      \/ AllDays(drawn) # {} /\ range = RangeAround(AllDays(drawn))
  BY RangeIs
<1>4. FocusDays(d, drawn) \in SUBSET Days /\ AllDays(drawn) \in SUBSET Days
  BY FocusDaysAre, AllDaysAre
<1> HIDE DEF range, sprint
<1>5. range.start \in Int /\ range.endExclusive \in Int
  BY <1>1, <1>2, <1>3, <1>4, RangeSurrounds
<1> QED BY <1>5 DEF range

(* Every bar, or those of the focused chain, lies on the chart.            *)
LEMMA ChartAlwaysHolds ==
  ASSUME ui \in PageChoices, NEW d, NEW drawn, \A t \in drawn : IsDrawnBar(t), ui.sprint = 0 \/ d.focusIds # NoChain
  PROVE  ChartHolds(ChartRange(board, ui, d, drawn), drawn, d.focusIds)
<1> DEFINE range == ChartRange(board, ui, d, drawn)
           shown == range.start + 1 .. range.endExclusive - 1
           focus == FocusDays(d, drawn)
           days == AllDays(drawn)
<1>1. /\ focus \in SUBSET Days /\ days \in SUBSET Days
      /\ \A t \in drawn : t.ticket \in d.focusIds => {t.start, t.due, t.actualFinish} \ {NoDay} \subseteq focus
      /\ \A t \in drawn : {t.start, t.due, t.end, t.actualFinish, t.delayEnd, t.estimateEnd} \ {NoDay} \subseteq days
  BY FocusDaysAre, AllDaysAre
<1>2. \A t \in drawn : t.start # NoDay /\ t.start \in {t.start, t.due, t.actualFinish}
                       /\ t.start \in {t.start, t.due, t.end, t.actualFinish, t.delayEnd, t.estimateEnd}
  BY SprintsAssumption DEF IsDrawnBar, Days, NoDay
<1>3. CASE d.focusIds # NoChain
  <2>1. focus # {} => range = RangeAround(focus)
    BY <1>3, RangeIs
  <2> HIDE DEF focus, range
  <2>2. focus # {} => focus \subseteq shown
    BY <1>1, <2>1, RangeSurrounds
  <2>3. \A t \in drawn : t.ticket \in d.focusIds => {t.start, t.due, t.actualFinish} \ {NoDay} \subseteq shown
    <3> HIDE DEF shown
    <3> QED BY <1>1, <1>2, <2>2
  <2> HIDE DEF shown
  <2> QED BY <1>3, <2>3 DEF ChartHolds, shown, range
<1>4. CASE d.focusIds = NoChain
  <2>1. SelectedPlanningSprint(board, ui) = NoSprint
    BY <1>4, SelectedIsNumbered
  <2>2. days # {} => range = RangeAround(days)
    BY <1>4, <2>1, RangeIs
  <2> HIDE DEF days, range
  <2>3. days # {} => days \subseteq shown
    BY <1>1, <2>2, RangeSurrounds
  <2>4. \A t \in drawn : {t.start, t.due, t.end, t.actualFinish, t.delayEnd, t.estimateEnd} \ {NoDay} \subseteq shown
    <3> HIDE DEF shown
    <3> QED BY <1>1, <1>2, <2>3
  <2> HIDE DEF shown
  <2> QED BY <1>4, <2>4 DEF ChartHolds, shown, range
<1> QED BY <1>3, <1>4

(* The chart of one rendering.                                             *)
LEMMA DrawnChartIsSound ==
  ASSUME IsBoard(board), EpicsHaveNoParent(board), DatesFit(board), ui \in PageChoices
  PROVE  SoundSchedule(Drawn, Schedule(Drawn))
<1> DEFINE bars == Schedule(Drawn)
           drawn == BarsOf(Drawn, bars)
<1>1. \A t \in drawn : BarHolds(Drawn, bars, t)
  BY DrawnAre
<1> HIDE DEF bars, drawn
<1>2. \A t \in drawn : IsDrawnBar(t)
  BY <1>1 DEF BarHolds
<1>3. SoundBars(Drawn, bars, drawn)
  BY <1>1 DEF SoundBars, BarHolds, IsDrawnBar
<1>4. ChartScrolls(ChartRange(board, ui, Drawn, drawn))
  BY <1>2, RangeTyped, ChartAlwaysScrolls
<1>5. ui.sprint = 0 \/ Drawn.focusIds # NoChain => ChartHolds(ChartRange(board, ui, Drawn, drawn), drawn, Drawn.focusIds)
  BY <1>2, ChartAlwaysHolds
<1>6. SoundChart(Drawn, bars, drawn)
  BY <1>3, <1>4, <1>5 DEF SoundChart
<1> QED BY <1>6 DEF SoundSchedule, bars, drawn

-----------------------------------------------------------------------------
(* The boards that are given and made *)

(* Saving a Sprint plan changes neither tickets nor columns.               *)
FitInv == DatesFit(board) /\ \A i \in DOMAIN server : DatesFit(server[i])

(* Only tickets and columns count.                                         *)
LEMMA SameDatesFit ==
  ASSUME NEW b, DatesFit(b), NEW x, x.tickets = b.tickets, x.columns = b.columns
  PROVE  DatesFit(x)
<1>1. DoneColumn(x) = DoneColumn(b)
  <2>1. ColumnsNamed(x, "done") = ColumnsNamed(b, "done")
    BY DEF ColumnsNamed
  <2> DEFINE first(C) == IF C = {} THEN 0 ELSE CHOOSE c \in C : \A other \in C : c <= other
  <2>2. DoneColumn(x) = first(ColumnsNamed(x, "done")) /\ DoneColumn(b) = first(ColumnsNamed(b, "done"))
    BY DEF DoneColumn, ColumnNamed
  <2> HIDE DEF first
  <2> QED BY <2>1, <2>2
<1>2. \A i : InDone(x, i) = InDone(b, i)
  BY <1>1 DEF InDone
<1>3. \A i : GanttBase(x, i) = GanttBase(b, i)
  BY <1>2 DEF GanttBase
<1>4. \A i : GanttDependencyReady(x, i) = GanttDependencyReady(b, i)
  BY <1>3 DEF GanttDependencyReady, DependencyTickets
<1> QED BY <1>3, <1>4 DEF DatesFit

(* So bars fit on every board that is stored or loaded.                    *)
LEMMA FitStays ==
  ASSUME PlanningInv, PlanningAssumption, DatesHold, FitInv, [Next]_vars
  PROVE  FitInv'
<1>1. Boards(server)
  BY DEF PlanningInv, TypeOK, Boards
<1>2. \A i \in DOMAIN server' : DatesFit(server'[i])
  <2>1. ASSUME NEW bd \in DOMAIN server \intersect DOMAIN BoardData, NEW data \in BoardData[bd], Change(bd, data)
        PROVE  \A i \in DOMAIN server' : DatesFit(server'[i])
    <3> DEFINE x == [data EXCEPT !.cadence = server[bd].cadence]
    <3>1. IsBoard(data) /\ DatesFit(data)
      BY DEF PlanningAssumption, DatesHold
    <3>2. x.tickets = data.tickets /\ x.columns = data.columns
      BY <3>1 DEF IsBoard
    <3>3. server' = [server EXCEPT ![bd] = x]
      BY <2>1 DEF Change
    <3> HIDE DEF x
    <3>4. DatesFit(x)
      BY <3>1, <3>2, SameDatesFit
    <3> QED BY <3>3, <3>4 DEF FitInv
  <2>2. ASSUME NEW s \in plan.saves, PutServed(s)
        PROVE  \A i \in DOMAIN server' : DatesFit(server'[i])
    <3>0. s.board \in DOMAIN server
      BY DEF PlanningInv, TypeOK
    <3> DEFINE x == [server[s.board] EXCEPT !.cadence = [start |-> s.start, weeks |-> s.weeks]]
    <3>1. IsBoard(server[s.board]) /\ DatesFit(server[s.board])
      BY <1>1, <3>0 DEF Boards, FitInv
    <3>2. x.tickets = server[s.board].tickets /\ x.columns = server[s.board].columns
      BY <3>1 DEF IsBoard
    <3>3. server' = [server EXCEPT ![s.board] = x]
      BY <2>2 DEF PutServed
    <3> HIDE DEF x
    <3>4. DatesFit(x)
      BY <3>1, <3>2, SameDatesFit
    <3> QED BY <3>3, <3>4 DEF FitInv
  <2> QED BY <2>1, <2>2, BoardIsStored DEF FitInv
<1>3. DatesFit(board')
  BY BoardIsLoaded DEF FitInv
<1> QED BY <1>2, <1>3 DEF FitInv

(* When a bar that prerequisites move ends before the last day of a Date,  *)
(* the chart is sound: bars start when their prerequisites are ready and   *)
(* last a day at least, Epics span their tasks, all bars lie on the chart, *)
(* and zoom and pointer stay on it: for every board, circles of links and  *)
(* parents included.  Code: ganttTask, ganttEpicAggregate,                 *)
(* dependencyTimelineRange, timelineGeometry, timelineDateAtScrollCenter,  *)
(* ganttCursorAtX.                                                         *)
THEOREM ChartsAreSound ==
  ASSUME DatesHold PROVE Spec => []ChartIsSound
<1>1. Init => FitInv
  BY PlanningAssumption DEF Init, FitInv, DatesHold, PlanningAssumption
<1>2. PlanningInv /\ KeptInv /\ FitInv /\ [Next]_vars => FitInv'
  BY PlanningAssumption, FitStays
<1>3. ASSUME PlanningInv, KeptInv, FitInv PROVE ChartIsSound
  <2>1. IsBoard(board) /\ EpicsHaveNoParent(board) /\ DatesFit(board) /\ ui \in PageChoices
    BY <1>3 DEF PlanningInv, TypeOK, KeptInv, IsKept, FitInv
  <2> QED BY <2>1, DrawnChartIsSound DEF ChartIsSound
<1>4. Spec => [](PlanningInv /\ KeptInv)
  BY PlanningAssumption, ServerAssumption, KeptAlways
<1> QED BY <1>1, <1>2, <1>3, <1>4, PTL DEF Spec
=============================================================================
