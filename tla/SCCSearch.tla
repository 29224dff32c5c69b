-------------------------------- MODULE SCCSearch --------------------------------
(***************************************************************************)
(* The depth-first search scc.h asks of its users, in the form of dfs() in *)
(* scc_test.cc, driving the SCC finder.  The C++ recursion is a stack of   *)
(* frames; the graph, any member of Graphs, is fixed when the search       *)
(* starts.                                                                 *)
(***************************************************************************)
EXTENDS Reachability, SCC

CONSTANT Graphs  \* the graphs a search may be given

ASSUME GraphsAssumption == Graphs \subseteq [Node -> Seq(Node)]

VARIABLES graph,     \* node to the successors dfs follows, in order
          visited,   \* nodes already assigned to an SCC
          scc,       \* the finder
          stack,     \* active calls of dfs, innermost last
          sccs,      \* the SCCs closed so far, in order
          examined   \* history: the nodes whose Open succeeded, in order

vars == <<graph, visited, scc, stack, sccs, examined>>

\* An active call: its node, the handle Open returned, and the position of
\* the next edge to follow.
Frame == [node : Node, handle : Nat \ {0}, next : Nat \ {0}]

\* What the variables hold: a finder in a state its code can make, calls with a
\* handle and a next edge, and the SCCs in the order dfs collected them.
TypeOK == /\ graph \in [Node -> Seq(Node)]
          /\ visited \subseteq Node
          /\ FinderOK(scc, Node)
          /\ stack \in Seq(Frame)
          /\ sccs \in Seq(SUBSET Node)
          /\ examined \in Seq(Node)

Init == /\ graph \in Graphs
        /\ visited = {}
        /\ scc = NewFinder
        /\ stack = << >>
        /\ sccs = << >>
        /\ examined = << >>

--------------------------------------------------------------------------------
Top == stack[Len(stack)]

Running == stack # << >>

HasEdge == Running /\ Top.next <= Len(graph[Top.node])

\* The node of the edge the innermost call follows next.
Child == graph[Top.node][Top.next]

\* Mutant: the loop over the edges never moves on.
StuckAdvanced == stack

\* The stack once the innermost call has taken its edge.
Advanced == [stack EXCEPT ![Len(stack)].next = @ + 1]

\* A call of dfs whose Open succeeds: the node is examined.
Enter(node, callers) ==
  /\ scc' = OpenNew(scc, node)
  /\ stack' = Append(callers, [node |-> node, handle |-> NextIndex(scc), next |-> 1])
  /\ examined' = Append(examined, node)
  /\ UNCHANGED <<graph, visited, sccs>>

\* The test calls dfs on every node in turn; an unvisited one is entered.
Start(node) == /\ ~Running
               /\ node \notin visited
               /\ Enter(node, stack)

\* An edge to a node nobody has seen.
Descend == /\ HasEdge
           /\ Child \notin visited
           /\ ~IsOpen(scc, Child)
           /\ Enter(Child, Advanced)

\* An edge to a node that already has its SCC: dfs returns at once.
SkipVisited == /\ HasEdge
               /\ Child \in visited
               /\ stack' = Advanced
               /\ UNCHANGED <<graph, visited, scc, sccs, examined>>

\* An edge to an open node: Open fails, having dropped candidate roots.
MeetOpen == /\ HasEdge
            /\ Child \notin visited
            /\ IsOpen(scc, Child)
            /\ scc' = OpenAgain(scc, Child)
            /\ stack' = Advanced
            /\ UNCHANGED <<graph, visited, sccs, examined>>

Finished == Running /\ ~HasEdge

\* The last edge is done and Close hands out an SCC.
CloseSCC == /\ Finished
            /\ LegalHandle(scc, Top.handle)
            /\ IsRoot(scc, Top.handle)
            /\ LET nodes == ClosedNodes(scc, Top.handle)
               IN  /\ visited' = visited \cup nodes
                   /\ sccs' = Append(sccs, nodes)
            /\ scc' = CloseRoot(scc, Top.handle)
            /\ stack' = SubSeq(stack, 1, Len(stack) - 1)
            /\ UNCHANGED <<graph, examined>>

\* The last edge is done but the node is not the root of its SCC.
CloseNothing == /\ Finished
                /\ LegalHandle(scc, Top.handle)
                /\ ~IsRoot(scc, Top.handle)
                /\ stack' = SubSeq(stack, 1, Len(stack) - 1)
                /\ UNCHANGED <<graph, visited, scc, sccs, examined>>

Done == ~Running /\ visited = Node

\* The whole graph has been traversed and the search is over.
Terminated == Done /\ UNCHANGED vars

Next == \/ \E node \in Node : Start(node)
        \/ Descend
        \/ SkipVisited
        \/ MeetOpen
        \/ CloseSCC
        \/ CloseNothing
        \/ Terminated

Spec == Init /\ [][Next]_vars

\* The program is one thread that runs until it is done.
FairSpec == Spec /\ WF_vars(Next)
--------------------------------------------------------------------------------
(***************************************************************************)
(* Safety.                                                                 *)
(***************************************************************************)
open_       == scc.open_
root_index_ == scc.root_index_

Handed == UNION {sccs[k] : k \in 1 .. Len(sccs)}

\* scc.h, GUARANTEES: the SCCs handed out are exactly the strongly-connected
\* components of the graph, pairwise disjoint and leaves first, and the nodes
\* recorded as visited are those of the SCCs handed out.
ComponentsCorrect ==
  /\ visited = Handed
  /\ \A k \in 1 .. Len(sccs) :
       /\ IsComponent(graph, sccs[k])
       /\ \A n \in sccs[k] :
            Succ(graph, n) \subseteq UNION {sccs[j] : j \in 1 .. k}
       /\ \A j \in 1 .. Len(sccs) : j # k => sccs[j] \cap sccs[k] = {}

\* scc.h, GUARANTEES: each node is examined exactly once, and a node that was
\* examined is either still open or in an SCC, never both.
ExaminedOnce ==
  /\ \A i, j \in 1 .. Len(examined) : i # j => examined[i] # examined[j]
  /\ {examined[i] : i \in 1 .. Len(examined)} = visited \cup DOMAIN scc.is_open_
  /\ visited \cap DOMAIN scc.is_open_ = {}

\* The two indexes of the finder agree: is_open_ is the inverse of open_, and
\* root_index_ is strictly increasing within open_, starting at the node of the
\* top-level call, so Open's loop can never empty root_index_.
FinderConsistent ==
  /\ Cardinality(DOMAIN scc.is_open_) = Len(open_)
  /\ \A i \in 1 .. Len(open_) :
       open_[i] \in DOMAIN scc.is_open_ /\ scc.is_open_[open_[i]] = i
  /\ \A n \in DOMAIN scc.is_open_ :
       scc.is_open_[n] \in 1 .. Len(open_) /\ open_[scc.is_open_[n]] = n
  /\ \A k \in 1 .. Len(root_index_) : root_index_[k] \in 1 .. Len(open_)
  /\ \A k, l \in 1 .. Len(root_index_) : k < l => root_index_[k] < root_index_[l]
  /\ open_ # << >> => root_index_ # << >> /\ root_index_[1] = 1

\* Every handle an active call holds still names that call's node: no Close
\* of an inner call invalidates the handle of an outer one, and the Check in
\* Close cannot fail.  Candidate roots are nodes of active calls.
HandlesValid ==
  /\ \A f \in 1 .. Len(stack) : /\ LegalHandle(scc, stack[f].handle)
                                /\ stack[f].handle >= 1
                                /\ open_[stack[f].handle] = stack[f].node
  /\ \A f, g \in 1 .. Len(stack) : f < g => stack[f].handle < stack[g].handle
  /\ \A k \in 1 .. Len(root_index_) :
       \E f \in 1 .. Len(stack) : stack[f].handle = root_index_[k]

\* scc.h, USAGE: after a top-level search the finder carries no state.
EmptyBetweenSearches == ~Running => Empty(scc)

\* The abstract specification: the search only hands out components.
Abstract == INSTANCE SCCSpec

Implements == Abstract!Spec

(***************************************************************************)
(* The inductive invariant: the three facts a reader needs to see why the  *)
(* search is right.                                                        *)
(***************************************************************************)

\* Root k is the candidate root of the open node at index i: the roots cut
\* open_ into segments.
RootOf(k, i) == /\ root_index_[k] <= i
                /\ k = Len(root_index_) \/ i < root_index_[k + 1]

\* The ends of the edges call f has taken.
Followed(f) == {graph[stack[f].node][e] : e \in 1 .. (stack[f].next - 1)}

\* Each active call was entered along an edge of the call outside it.
CallsReach ==
  \A f, g \in 1 .. Len(stack) :
    f < g => Reach(graph, stack[f].node, stack[g].node)

\* Open nodes of one segment are in one component, their root's.
SegmentsConnected ==
  \A i \in 1 .. Len(open_) :
    \E k \in 1 .. Len(root_index_) :
      RootOf(k, i) /\ Mutual(graph, open_[i], open_[root_index_[k]])

\* An edge that was followed from the open node at index i leads to a node
\* that has its SCC or to an open node in the same or a later segment.
EdgesAccounted ==
  \A i \in 1 .. Len(open_) : \A n \in Succ(graph, open_[i]) :
    \/ n \in visited
    \/ \E j \in 1 .. Len(open_) :
         /\ open_[j] = n
         /\ \A k \in 1 .. Len(root_index_) : root_index_[k] <= i => root_index_[k] <= j
    \/ \E f \in 1 .. Len(stack) : stack[f].handle = i /\ n \notin Followed(f)

FramesInRange ==
  \A f \in 1 .. Len(stack) : stack[f].next \in 1 .. (Len(graph[stack[f].node]) + 1)

\* Everything the proofs carry from one state to the next.
IInv == /\ TypeOK
        /\ FinderConsistent
        /\ HandlesValid
        /\ FramesInRange
        /\ CallsReach
        /\ SegmentsConnected
        /\ EdgesAccounted
        /\ ExaminedOnce
        /\ ComponentsCorrect

(***************************************************************************)
(* Liveness.  Every search ends with every node in an SCC.                 *)
(***************************************************************************)
Termination == <>Done
================================================================================
