------------------------------ MODULE Digraph ------------------------------
(***************************************************************************)
(* Reachability and acyclicity of a relation, the way the graph's checks   *)
(* mean them and without a path: a node is reached when no closed set      *)
(* keeps it out, and a relation has a cycle when some set of nodes can be  *)
(* left at none of them. Theorems about them need no induction.            *)
(***************************************************************************)

Closed(R, S) == \A e \in R : e[1] \in S => e[2] \in S

Reaches(R, V, start, target) ==
    \A S \in SUBSET V : start \in S /\ Closed(R, S) => target \in S

Acyclic(R, V) ==
    \A S \in SUBSET V : S # {} => \E x \in S : \A y \in S : <<x, y>> \notin R
=============================================================================
