-------------------------- MODULE DependencyHover ---------------------------
(***************************************************************************)
(* The drawing of a dependency chain: which connections belong to it, the  *)
(* stage of every task in it, and what stays bright under the pointer.     *)
(* A connection is a pair <<prerequisite, dependent>>; where the lines run *)
(* on the screen is left out.                                              *)
(***************************************************************************)
EXTENDS Integers, FiniteSets

Ends(E) == {e[1] : e \in E} \union {e[2] : e \in E}

Valid(E) == {e \in E : e[1] > 0 /\ e[2] > 0 /\ e[1] # e[2]}

Greatest(S) == CHOOSE x \in S : \A y \in S : y <= x

DirectEdges(E, id) == {e \in Valid(E) : id \in {e[1], e[2]}}

(* Mutant: only the dependents of a task are followed.                     *)
RelatedMutant(E, id) ==
  LET dependents(i) == {e[2] : e \in {d \in Valid(E) : d[1] = i}}
      met[n \in 0 .. Cardinality(E)] ==
        IF n = 0 THEN {id} ELSE UNION {{i} \union dependents(i) : i \in met[n - 1]}
  IN met[Cardinality(E)]

(* The tasks connected with one, in both directions.                       *)
Related(E, id) ==
  LET met[n \in 0 .. Cardinality(E)] ==
        IF n = 0 THEN {id}
        ELSE UNION {{i} \union Ends(DirectEdges(E, i)) : i \in met[n - 1]}
  IN met[Cardinality(E)]

ConnectedEdges(E, id) ==
  IF id > 0 THEN {e \in Valid(E) : {e[1], e[2]} \subseteq Related(E, id)} ELSE {}

(* The tasks whose prerequisites are all numbered: none on a cycle, none   *)
(* behind one.                                                             *)
Numbered(E) ==
  LET ready(S) == {i \in Ends(E) : \A e \in E : e[2] = i => e[1] \in S}
      met[n \in 0 .. Cardinality(Ends(E))] ==
        IF n = 0 THEN {} ELSE LET before == met[n - 1] IN ready(before)
  IN met[Cardinality(Ends(E))]

(* Mutant: the stage follows the first prerequisite that is numbered.      *)
DependencyStepsMutant(E, id) ==
  LET V == Valid(E)
      numbered == Numbered(V)
      level[i \in Ends(V) \union {id}] ==
        LET before == {p \in numbered : <<p, i>> \in V}
        IN IF before = {} THEN 1
           ELSE 1 + level[CHOOSE p \in before : \A q \in before : level[p] <= level[q]]
  IN level

(* Kahn's numbering: one more than the latest numbered prerequisite.       *)
DependencySteps(E, id) ==
  LET V == Valid(E)
      numbered == Numbered(V)
      level[i \in Ends(V) \union {id}] ==
        LET before == {p \in numbered : <<p, i>> \in V}
        IN IF before = {} THEN 1 ELSE 1 + Greatest({level[p] : p \in before})
  IN level

StageNumber(step, last) == IF step < 1 THEN 1 ELSE IF step > last THEN last ELSE step

Middle(last) == (last + 1) \div 2

(* The color of a stage: the fraction of the way between two of the three  *)
(* palette colors.                                                         *)
StageColor(step, last) ==
  LET current == StageNumber(step, last)
  IN IF current = 1 THEN [from |-> "blue", to |-> "blue", part |-> 0, of |-> 1]
     ELSE IF current = last THEN [from |-> "teal", to |-> "teal", part |-> 0, of |-> 1]
     ELSE IF current <= Middle(last)
     THEN [from |-> "blue", to |-> "gold", part |-> current - 1, of |-> Middle(last) - 1]
     ELSE [from |-> "gold", to |-> "teal", part |-> current - Middle(last),
           of |-> last - Middle(last)]

RoleForStep(step, last) ==
  LET current == StageNumber(step, last)
  IN IF current = 1 THEN "prerequisite"
     ELSE IF last > 2 /\ current = Middle(last) THEN "active"
     ELSE IF current < Middle(last) THEN "prerequisite" ELSE "dependent"

-----------------------------------------------------------------------------
(* The controller of one rendered view *)

(* draw: what is drawn of E when only the tasks N are on the screen.       *)
Draw(E, N, pinned) ==
  LET edges == ConnectedEdges({e \in E : {e[1], e[2]} \subseteq N}, pinned)
      steps == DependencySteps(edges, pinned)
  IN [edges |-> edges,
      related |-> IF pinned > 0 THEN {pinned} \union Ends(edges) ELSE {},
      steps |-> steps,
      last |-> Greatest({1} \union {steps[i] : i \in DOMAIN steps})]

(* pointerFocus: the pointer is on a wire, on the mark of its source, on a *)
(* task of the chain, or elsewhere.                                        *)
PointerFocus(drawn) ==
  {[at |-> "nothing"]}
    \union {[at |-> "wire", edge |-> e] : e \in drawn.edges}
    \union {[at |-> "mark", id |-> e[1]] : e \in drawn.edges}
    \union {[at |-> "task", id |-> i] : i \in drawn.related}

(* isolateConnection: the wires and tasks that are not dimmed.             *)
IsolateConnection(drawn, focus) ==
  LET bright == {e \in drawn.edges :
                   \/ focus.at = "wire" /\ e = focus.edge
                   \/ focus.at = "mark" /\ e[1] = focus.id
                   \/ focus.at = "task" /\ focus.id \in {e[1], e[2]}}
  IN [wires |-> IF focus.at = "nothing" THEN drawn.edges ELSE bright,
      tasks |-> IF focus.at = "nothing" THEN drawn.related
                ELSE Ends(bright) \union (IF focus.at = "task" THEN {focus.id} ELSE {})]
=============================================================================
