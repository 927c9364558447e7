---------------------------- MODULE TicketGraph -----------------------------
(***************************************************************************)
(* Reachability over the two graphs the server walks: dependency links and *)
(* parent edges.  Graphs are sets of edges <<from, to>> over a node set N. *)
(*                                                                         *)
(* The code walks edges with a "seen" map and visits exactly the nodes     *)
(* that lie in every set which contains the start and is closed under the  *)
(* edges.  That least closed set is the definition used here, so that the  *)
(* same operators serve TLC (N is small) and the proofs (no recursion).    *)
(***************************************************************************)

IsClosed(E, S) == \A e \in E : e[1] \in S => e[2] \in S

(* The nodes visited by a walk that begins at the nodes of "start".        *)
Reach(E, N, start) ==
  {n \in N : \A S \in SUBSET N : start \subseteq S /\ IsClosed(E, S) => n \in S}

(* Every non-empty set of nodes has a member with no edge back into the    *)
(* set; over a finite graph this says that there is no cycle.              *)
Acyclic(E, N) ==
  \A S \in SUBSET N : S # {} => \E x \in S : \A e \in E : e[1] = x => e[2] \notin S

EdgesFrom(E, i) == {e \in E : e[1] = i}

(* replaceTicketMeta: the rows of one ticket are deleted and rewritten, a  *)
(* link to the ticket itself is skipped.                                   *)
ReplaceLinks(E, i, targets) ==
  {e \in E : e[1] # i} \union {<<i, to>> : to \in targets \ {i}}
=============================================================================
