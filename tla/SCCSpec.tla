--------------------------------- MODULE SCCSpec ---------------------------------
(***************************************************************************)
(* What the SCC finder promises its user (GUARANTEES in scc.h): it hands   *)
(* out the strongly-connected components of the graph one by one, each     *)
(* once, in a topological order with the leaves first.                     *)
(***************************************************************************)
EXTENDS Reachability

CONSTANT Graphs

VARIABLES graph,  \* the graph being searched
          sccs    \* the components handed out so far, in order

Emitted == UNION {sccs[k] : k \in 1 .. Len(sccs)}

Init == /\ graph \in Graphs
        /\ sccs = << >>

\* S is the next component: not seen before, all its other edges lead to
\* components already handed out.
Emit(S) == /\ S \cap Emitted = {}
           /\ IsComponent(graph, S)
           /\ \A n \in S : Succ(graph, n) \subseteq S \cup Emitted
           /\ sccs' = Append(sccs, S)
           /\ UNCHANGED graph

Next == \E S \in SUBSET Node : Emit(S)

Spec == Init /\ [][Next]_<<graph, sccs>>
================================================================================
