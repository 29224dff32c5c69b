---------------------------------- MODULE MCSCC ----------------------------------
(***************************************************************************)
(* SCCSearch on every graph of a few nodes.                                *)
(***************************************************************************)
EXTENDS SCCSearch

CONSTANT MaxDegree

\* Every list of at most MaxDegree successors: any order, loops, repeats.
Successors == UNION {[1 .. d -> Node] : d \in 0 .. MaxDegree}

MCGraphs == [Node -> Successors]
================================================================================
