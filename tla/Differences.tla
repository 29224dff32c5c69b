------------------------------- MODULE Differences -------------------------------
(***************************************************************************)
(* The difference graph of doc/DIFFS.md: what it is, without saying how    *)
(* Compare builds it.                                                      *)
(*                                                                         *)
(* What a comparison of two nodes looks at depends on the nodes and the    *)
(* options only: its plan lists, in order, the differences it finds on the *)
(* spot and the comparisons it makes in turn.                              *)
(***************************************************************************)
EXTENDS Positions

CONSTANTS Comparison,  \* comparisons of two nodes
          OneSided,    \* comparisons of a node with nothing: removed, added
          NoEdge       \* the absence of an edge in a detail or a result

ASSUME ComparisonAssumption == /\ Comparison \cap OneSided = {}
                               /\ NoEdge \notin Comparison \cup OneSided

Item == [kind : {"node diff", "incomparable"}]
          \cup [kind : {"one-sided"}, to : OneSided]
          \cup [kind : {"compare"}, to : Comparison]

\* holds: the comparison is one a report is made for, if something in it
\* changed (holds_changes).
Plan == [holds : BOOLEAN, items : Seq(Item)]

Detail == Comparison \cup OneSided \cup {NoEdge}

Diff == [holds_changes : BOOLEAN, has_changes : BOOLEAN, details : Seq(Detail)]

EmptyDiff == [holds_changes |-> FALSE, has_changes |-> FALSE, details |-> << >>]

--------------------------------------------------------------------------------
IsEdge(item) == item.kind = "compare"

\* Where each item of each comparison leads, in order.  An item that is decided on
\* the spot leads nowhere else: it is an edge from the comparison to itself.
GraphOf(p) ==
  [c \in Comparison |-> [i \in 1 .. Len(p[c].items) |->
                           IF IsEdge(p[c].items[i]) THEN p[c].items[i].to ELSE c]]

Paths == INSTANCE Reachability WITH Node <- Comparison

\* The comparison itself finds a difference between its two nodes.
DiffersLocally(p, c) ==
  \E i \in 1 .. Len(p[c].items) : ~IsEdge(p[c].items[i])

\* Two nodes are equal iff no chain of comparisons leads to a difference: the
\* largest relation that the comparisons respect, cycles included.
Equal(p, c) == \A d \in Comparison :
                 Paths!Reach(GraphOf(p), c, d) => ~DiffersLocally(p, d)

\* The detail an item leaves: a node difference has no edge.
DetailOf(item) == IF item.kind = "node diff" THEN NoEdge ELSE item.to

\* The details that the items at the positions S leave, in order.
DetailsAt(items, S) == [k \in 1 .. Cardinality(S) |-> DetailOf(items[Nth(S, k)])]

\* An item leaves a detail, unless it says that types are incomparable or is a
\* comparison among the equal ones.
Recorded(item, equal) ==
  /\ item.kind # "incomparable"
  /\ ~(IsEdge(item) /\ item.to \in equal)

\* What the first n items of comparison c leave.
DiffAfter(p, c, n, equal) ==
  LET items == p[c].items
  IN  [holds_changes |-> p[c].holds,
       has_changes   |-> \E i \in 1 .. n : items[i].kind \in {"node diff", "incomparable"},
       details       |-> DetailsAt(items, {i \in 1 .. n : Recorded(items[i], equal)})]

\* What is recorded for an unequal comparison: an edge for every one-sided
\* comparison and for every unequal one, none for an equal one, one detail for
\* each node difference, in the plan's order.
ExpectedDiff(p, c) ==
  DiffAfter(p, c, Len(p[c].items), {d \in Comparison : Equal(p, d)})
================================================================================
