------------------------------ MODULE GraphBuilder -------------------------------
(***************************************************************************)
(* The graph while a reader builds it (class Graph), and the map from the  *)
(* type ids of an input to its slots that both readers of types keep.      *)
(*                                                                         *)
(* A node is its kind, the values it has itself and the slots it refers    *)
(* to.  A builder is a record of the slots, nodes, the map ids and what    *)
(* the reader keeps besides.                                               *)
(***************************************************************************)
EXTENDS Naturals, SequencesExt

Node(kind, label, edges) == [kind |-> kind, label |-> label, edges |-> edges]

\* A slot that has been allocated and not set.
Null == [kind |-> "Null"]

NoMap == [t \in {} |-> Null]

\* Graph::Add; the new slot is the last.
Add(g, node) == [g EXCEPT !.nodes = Append(@, node)]
Allocate(g) == Add(g, Null)
LastSlot(g) == Len(g.nodes)

Is(g, slot) == g.nodes[slot] # Null
Set(g, slot, node) == [g EXCEPT !.nodes[slot] = node]

\* std::map::insert: an entry that there is already stays.
Insert(map, key, value) ==
  IF key \in DOMAIN map THEN map
  ELSE [k \in DOMAIN map \cup {key} |-> IF k = key THEN value ELSE map[k]]

\* The slot of a type id is allocated when the id is first seen.
GetNode(g, t) ==
  IF t \in DOMAIN g.ids THEN g
  ELSE [Allocate(g) EXCEPT !.ids = Insert(@, t, LastSlot(g) + 1)]
==================================================================================
