---------------------------------- MODULE SCC ----------------------------------
(***************************************************************************)
(* The streamlined Strongly-Connected Component finder of scc.h, as pure   *)
(* operators on its three private fields.  The finder knows neither nodes  *)
(* nor edges in advance: its user runs a depth-first search and reports    *)
(* each node it enters (Open) and leaves (Close).                          *)
(*                                                                         *)
(* Indices are 1-based here and 0-based in C++.                            *)
(***************************************************************************)
EXTENDS Naturals, Sequences, FiniteSets, FiniteSetsExt

(***************************************************************************)
(* open_ lists the nodes waiting for an SCC, is_open_ is its inverse and   *)
(* root_index_ stacks the indices of the nodes that may still be roots.    *)
(***************************************************************************)
FinderOK(scc, Node) ==
  /\ scc = [open_       |-> scc.open_,
            is_open_    |-> scc.is_open_,
            root_index_ |-> scc.root_index_]
  /\ scc.open_ \in Seq(Node)
  /\ DOMAIN scc.is_open_ \subseteq Node
  /\ scc.is_open_ \in [DOMAIN scc.is_open_ -> Nat]
  /\ scc.root_index_ \in Seq(Nat)

NewFinder == [open_       |-> << >>,
              is_open_    |-> [n \in {} |-> 0],
              root_index_ |-> << >>]

Empty(scc) == /\ scc.open_ = << >>
              /\ DOMAIN scc.is_open_ = {}
              /\ scc.root_index_ = << >>

(***************************************************************************)
(* Open.  The insertion into is_open_ fails exactly for an open node.      *)
(***************************************************************************)
IsOpen(scc, node) == node \in DOMAIN scc.is_open_

NextIndex(scc) == Cardinality(DOMAIN scc.is_open_) + 1

OpenNew(scc, node) ==
  [open_       |-> Append(scc.open_, node),
   is_open_    |-> [n \in DOMAIN scc.is_open_ \cup {node} |->
                      IF n = node THEN NextIndex(scc) ELSE scc.is_open_[n]],
   root_index_ |-> Append(scc.root_index_, NextIndex(scc))]

\* Mutant: Open forgets to pop root indices.
RootsUnpopped(scc, ix) == Len(scc.root_index_)

\* Mutant: Open pops root indices down to the first.
RootsOverpopped(scc, ix) == 1

\* The length left once every trailing root index above ix is popped; there
\* is none, and back() is undefined, if every root index is above ix.
RootsUpTo(scc, ix) == Max({k \in 1 .. Len(scc.root_index_) :
                             scc.root_index_[k] <= ix})

OpenAgain(scc, node) ==
  [open_       |-> scc.open_,
   is_open_    |-> scc.is_open_,
   root_index_ |-> SubSeq(scc.root_index_, 1,
                          RootsUpTo(scc, scc.is_open_[node]))]

(***************************************************************************)
(* Close.  The handle must index an open node; only the node at the top    *)
(* of root_index_ closes an SCC, any other Close leaves the finder alone.  *)
(***************************************************************************)
LegalHandle(scc, ix) == ix <= Len(scc.open_)

\* Mutant: Close takes every node for a root.
AlwaysRoot(scc, ix) == TRUE

IsRoot(scc, ix) == ix = scc.root_index_[Len(scc.root_index_)]

ClosedNodes(scc, ix) == {scc.open_[o] : o \in ix .. Len(scc.open_)}

\* Mutant: Close leaves the root index behind.
CloseKeepsRoot(scc, ix) ==
  [open_       |-> SubSeq(scc.open_, 1, ix - 1),
   is_open_    |-> [n \in DOMAIN scc.is_open_ \ ClosedNodes(scc, ix) |->
                      scc.is_open_[n]],
   root_index_ |-> scc.root_index_]

CloseRoot(scc, ix) ==
  [open_       |-> SubSeq(scc.open_, 1, ix - 1),
   is_open_    |-> [n \in DOMAIN scc.is_open_ \ ClosedNodes(scc, ix) |->
                      scc.is_open_[n]],
   root_index_ |-> SubSeq(scc.root_index_, 1, Len(scc.root_index_) - 1)]
================================================================================
