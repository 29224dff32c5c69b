------------------------------ MODULE Reachability ------------------------------
(***************************************************************************)
(* Reachability in a finite directed graph given as a function from each   *)
(* node to the sequence of its successors, in the order a depth-first      *)
(* search follows them (a successor may be listed twice).  It is defined   *)
(* by closed sets rather than by recursion.                                *)
(***************************************************************************)
EXTENDS Naturals, Sequences

CONSTANT Node

Succ(graph, n) == {graph[n][e] : e \in 1 .. Len(graph[n])}

Closed(graph, S) == \A n \in S : Succ(graph, n) \subseteq S

Reach(graph, a, b) == \A S \in SUBSET Node : a \in S /\ Closed(graph, S) => b \in S

Mutual(graph, a, b) == Reach(graph, a, b) /\ Reach(graph, b, a)

\* The node sets the textbook calls strongly-connected components.
IsComponent(graph, S) ==
  /\ S # {}
  /\ \A a \in S : \A b \in Node : b \in S <=> Mutual(graph, a, b)
================================================================================
