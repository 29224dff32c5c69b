-------------------------------- MODULE SCCProofs --------------------------------
(***************************************************************************)
(* Proofs about SCCSearch, for every set of nodes and every set of graphs. *)
(***************************************************************************)
EXTENDS SCCSearch, FiniteSetTheorems, TLAPS

--------------------------------------------------------------------------------
(***************************************************************************)
(* Reachability.                                                           *)
(***************************************************************************)

\* Every node reaches itself.
LEMMA ReachReflexive ==
  ASSUME NEW g, NEW a PROVE Reach(g, a, a)
BY DEF Reach

\* A node reaches its successors.
LEMMA ReachEdge ==
  ASSUME NEW g, NEW a, NEW b \in Succ(g, a) PROVE Reach(g, a, b)
BY DEF Reach, Closed

\* Reachability is transitive.
LEMMA ReachTransitive ==
  ASSUME NEW g, NEW a, NEW b, NEW c, Reach(g, a, b), Reach(g, b, c)
  PROVE  Reach(g, a, c)
BY DEF Reach

\* A closed set of nodes cannot be left.
LEMMA ReachStaysInside ==
  ASSUME NEW g, NEW S \in SUBSET Node, Closed(g, S), NEW a \in S, NEW b,
         Reach(g, a, b)
  PROVE  b \in S
BY DEF Reach

\* Mutual reachability is reflexive, symmetric and transitive.
LEMMA MutualEquivalence ==
  ASSUME NEW g, NEW a, NEW b, NEW c
  PROVE  /\ Mutual(g, a, a)
         /\ Mutual(g, a, b) => Mutual(g, b, a)
         /\ Mutual(g, a, b) /\ Mutual(g, b, c) => Mutual(g, a, c)
BY ReachReflexive, ReachTransitive DEF Mutual

--------------------------------------------------------------------------------
(***************************************************************************)
(* The finder.                                                             *)
(***************************************************************************)

\* The next free index is one past the open nodes.
LEMMA NextIndexIsNew ==
  ASSUME IInv PROVE NextIndex(scc) = Len(open_) + 1
BY DEF IInv, FinderConsistent, NextIndex

\* Open on an open node keeps the roots up to that node's own segment.
LEMMA RootsKept ==
  ASSUME IInv, NEW n \in DOMAIN scc.is_open_
  PROVE  /\ RootsUpTo(scc, scc.is_open_[n]) \in 1 .. Len(root_index_)
         /\ RootOf(RootsUpTo(scc, scc.is_open_[n]), scc.is_open_[n])
         /\ Mutual(graph, n, open_[root_index_[RootsUpTo(scc, scc.is_open_[n])]])
<1> DEFINE ix == scc.is_open_[n]
           K == {k \in 1 .. Len(scc.root_index_) : scc.root_index_[k] <= ix}
<1>1. ix \in 1 .. Len(open_) /\ open_[ix] = n
  BY DEF IInv, FinderConsistent
<1>2. PICK k \in 1 .. Len(root_index_) :
         RootOf(k, ix) /\ Mutual(graph, open_[ix], open_[root_index_[k]])
  BY <1>1 DEF IInv, SegmentsConnected
<1>3. k \in K /\ \A l \in K : k >= l
  <2>1. scc.root_index_ \in Seq(Nat) /\ scc.is_open_[n] \in Nat
    BY <1>1 DEF IInv, TypeOK, FinderOK
  <2>2. k \in K
    BY <1>2 DEF RootOf, root_index_
  <2>3. ASSUME NEW l \in K, l > k PROVE FALSE
    <3>1. k # Len(root_index_) /\ k + 1 \in 1 .. Len(root_index_)
      BY <2>1, <2>3, SMTT(30) DEF root_index_
    <3>2. ix < root_index_[k + 1]
      BY <1>2, <3>1 DEF RootOf
    <3>3. root_index_[k + 1] <= root_index_[l]
      BY <2>1, <2>3, <3>1, SMTT(30) DEF IInv, FinderConsistent, root_index_
    <3> QED BY <2>1, <2>3, <3>1, <3>2, <3>3, SMTT(30) DEF root_index_
  <2> QED BY <2>2, <2>3
<1>4. RootsUpTo(scc, ix) = k
  <2>1. \A x \in K : (\A y \in K : x >= y) => x = k
    BY <1>3
  <2>2. Max(K) = k
    BY <1>3, <2>1 DEF Max
  <2> QED BY <2>2 DEF RootsUpTo
<1> QED BY <1>1, <1>2, <1>4
\* The types of the parts of the state, one by one.
LEMMA Types ==
  ASSUME IInv
  PROVE  /\ graph \in [Node -> Seq(Node)]
         /\ visited \subseteq Node
         /\ open_ \in Seq(Node) /\ Len(open_) \in Nat
         /\ root_index_ \in Seq(Nat) /\ Len(root_index_) \in Nat
         /\ DOMAIN scc.is_open_ \subseteq Node
         /\ scc.is_open_ \in [DOMAIN scc.is_open_ -> Nat]
         /\ stack \in Seq(Frame) /\ Len(stack) \in Nat
         /\ sccs \in Seq(SUBSET Node) /\ Len(sccs) \in Nat
         /\ examined \in Seq(Node) /\ Len(examined) \in Nat
BY DEF IInv, TypeOK, FinderOK, open_, root_index_

\* Open nodes are finitely many.
LEMMA OpenIsFinite ==
  ASSUME IInv PROVE IsFiniteSet(DOMAIN scc.is_open_)
<1> DEFINE D == DOMAIN scc.is_open_
           f == [i \in 1 .. Len(open_) |-> open_[i]]
<1>1. f \in Surjection(1 .. Len(open_), D)
  <2>1. f \in [1 .. Len(open_) -> D]
    BY DEF IInv, FinderConsistent
  <2>2. \A n \in D : \E i \in 1 .. Len(open_) : f[i] = n
    BY DEF IInv, FinderConsistent
  <2> QED BY <2>1, <2>2 DEF Surjection
<1>2. Len(open_) \in Int
  BY Types
<1>3. IsFiniteSet(1 .. Len(open_))
  BY <1>2, FS_Interval
<1> QED BY <1>1, <1>3, FS_Surjection

\* Every active call's handle is the index of its own node.
LEMMA Handles ==
  ASSUME IInv, NEW f \in 1 .. Len(stack)
  PROVE  /\ stack[f] \in Frame
         /\ stack[f].handle \in 1 .. Len(open_)
         /\ open_[stack[f].handle] = stack[f].node
<1>1. stack[f] \in Frame
  BY Types
<1>2. stack[f].handle \in Nat
  BY <1>1 DEF Frame
<1> QED BY <1>1, <1>2, Types DEF IInv, HandlesValid, LegalHandle, open_

\* The facts of the finder's consistency, one by one.
LEMMA Consistent ==
  ASSUME IInv
  PROVE  /\ Cardinality(DOMAIN scc.is_open_) = Len(open_)
         /\ \A i \in 1 .. Len(open_) :
              open_[i] \in DOMAIN scc.is_open_ /\ scc.is_open_[open_[i]] = i
         /\ \A n \in DOMAIN scc.is_open_ :
              scc.is_open_[n] \in 1 .. Len(open_) /\ open_[scc.is_open_[n]] = n
         /\ \A k \in 1 .. Len(root_index_) : root_index_[k] \in 1 .. Len(open_)
         /\ \A k, l \in 1 .. Len(root_index_) : k < l => root_index_[k] < root_index_[l]
         /\ open_ # << >> => root_index_ # << >> /\ root_index_[1] = 1
BY DEF IInv, FinderConsistent

\* What appending does to a sequence, element by element.
LEMMA AppendElements ==
  ASSUME NEW S, NEW s \in Seq(S), NEW e \in S
  PROVE  /\ Append(s, e) \in Seq(S)
         /\ Len(Append(s, e)) = Len(s) + 1
         /\ Append(s, e)[Len(s) + 1] = e
         /\ \A i \in 1 .. Len(s) : Append(s, e)[i] = s[i]
OBVIOUS

\* Appending adds one element to the range of a sequence.
LEMMA AppendRange ==
  ASSUME NEW S, NEW s \in Seq(S), NEW e \in S
  PROVE  {Append(s, e)[i] : i \in 1 .. Len(Append(s, e))}
           = {s[i] : i \in 1 .. Len(s)} \cup {e}
<1>1. ASSUME NEW t, Len(s) \in Nat, Len(t) = Len(s) + 1, t[Len(s) + 1] = e,
             \A i \in 1 .. Len(s) : t[i] = s[i]
      PROVE  {t[i] : i \in 1 .. Len(t)} = {s[i] : i \in 1 .. Len(s)} \cup {e}
  BY <1>1
<1>2. Len(s) \in Nat
  OBVIOUS
<1> QED BY <1>1, <1>2, AppendElements

\* What a prefix of a sequence is, element by element.
LEMMA PrefixElements ==
  ASSUME NEW S, NEW s \in Seq(S), NEW m \in 0 .. Len(s)
  PROVE  /\ SubSeq(s, 1, m) \in Seq(S)
         /\ Len(SubSeq(s, 1, m)) = m
         /\ \A i \in 1 .. m : SubSeq(s, 1, m)[i] = s[i]
OBVIOUS

--------------------------------------------------------------------------------
(***************************************************************************)
(* The call stack.                                                         *)
(***************************************************************************)

\* Taking an edge only moves the innermost call on to its next edge.
LEMMA AdvancedFacts ==
  ASSUME IInv, HasEdge
  PROVE  /\ Advanced \in Seq(Frame)
         /\ Len(Advanced) = Len(stack)
         /\ \A f \in 1 .. Len(stack) :
              /\ Advanced[f].node = stack[f].node
              /\ Advanced[f].handle = stack[f].handle
              /\ Advanced[f].next = IF f = Len(stack) THEN stack[f].next + 1
                                                      ELSE stack[f].next
         /\ Len(stack) \in 1 .. Len(stack)
         /\ Child \in Node
         /\ Child \in Succ(graph, Top.node)
<1>1. /\ stack \in Seq(Frame) /\ graph \in [Node -> Seq(Node)]
      /\ stack # << >> /\ Top.next <= Len(graph[Top.node])
  BY DEF IInv, TypeOK, HasEdge, Running
<1>2. Len(stack) \in Nat /\ Len(stack) \in 1 .. Len(stack)
  BY <1>1
<1>3. Top \in Frame
  BY <1>1, <1>2 DEF Top
<1>4. Top.next \in 1 .. Len(graph[Top.node]) /\ graph[Top.node] \in Seq(Node)
  BY <1>1, <1>2, <1>3 DEF IInv, FramesInRange, Top, Frame
<1>5. [Top EXCEPT !.next = @ + 1] \in Frame
  BY <1>3 DEF Frame
<1>6. Advanced = [stack EXCEPT ![Len(stack)] = [Top EXCEPT !.next = @ + 1]]
  BY DEF Advanced, Top
<1>7. Child \in Node /\ Child \in Succ(graph, Top.node)
  BY <1>4 DEF Child, Succ
<1>8. Advanced \in Seq(Frame) /\ Len(Advanced) = Len(stack)
  BY <1>1, <1>2, <1>5, <1>6
<1>9. ASSUME NEW f \in 1 .. Len(stack)
      PROVE  /\ Advanced[f].node = stack[f].node
             /\ Advanced[f].handle = stack[f].handle
             /\ Advanced[f].next = IF f = Len(stack) THEN stack[f].next + 1
                                                     ELSE stack[f].next
  BY <1>1, <1>2, <1>3, <1>6, SMTT(30) DEF Frame, Top
<1> QED BY <1>2, <1>7, <1>8, <1>9

--------------------------------------------------------------------------------
(***************************************************************************)
(* Entering a node.                                                        *)
(***************************************************************************)

\* A call that opens a node preserves the invariant, whether it comes from the
\* top level or along an edge of the innermost call.
LEMMA EnterPreserves ==
  ASSUME IInv, NEW node \in Node \ visited, ~IsOpen(scc, node),
         NEW callers \in Seq(Frame), Len(callers) = Len(stack),
         \A f \in 1 .. Len(stack) :
           /\ callers[f].node = stack[f].node
           /\ callers[f].handle = stack[f].handle
           /\ callers[f].next \in 1 .. (Len(graph[stack[f].node]) + 1)
           /\ Reach(graph, stack[f].node, node)
           /\ \A e \in 1 .. (callers[f].next - 1) :
                \/ graph[callers[f].node][e] \in Followed(f)
                \/ graph[callers[f].node][e] = node,
         Enter(node, callers)
  PROVE  IInv'
<1> DEFINE L == Len(open_)
           D == DOMAIN scc.is_open_
<1>1. L \in Nat /\ Len(root_index_) \in Nat /\ Len(stack) \in Nat
  BY Types
<1>2. NextIndex(scc) = L + 1
  BY NextIndexIsNew
<1>3. /\ open_' = Append(open_, node)
      /\ root_index_' = Append(root_index_, L + 1)
      /\ scc'.is_open_ = [n \in D \cup {node} |->
                             IF n = node THEN L + 1 ELSE scc.is_open_[n]]
      /\ scc' = [open_ |-> scc'.open_, is_open_ |-> scc'.is_open_,
                 root_index_ |-> scc'.root_index_]
  BY <1>2 DEF Enter, OpenNew, open_, root_index_
<1>4. /\ stack' = Append(callers, [node |-> node, handle |-> L + 1, next |-> 1])
      /\ examined' = Append(examined, node)
      /\ graph' = graph /\ visited' = visited /\ sccs' = sccs
  BY <1>2 DEF Enter
<1>o. /\ Len(open_') = L + 1
      /\ open_'[L + 1] = node
      /\ \A i \in 1 .. L : open_'[i] = open_[i]
  BY <1>3, Types, AppendElements
<1>r. /\ Len(root_index_') = Len(root_index_) + 1
      /\ root_index_'[Len(root_index_) + 1] = L + 1
      /\ \A k \in 1 .. Len(root_index_) : root_index_'[k] = root_index_[k]
  BY <1>1, <1>3, Types, AppendElements
<1>d. /\ DOMAIN scc'.is_open_ = D \cup {node}
      /\ scc'.is_open_[node] = L + 1
      /\ \A n \in D : scc'.is_open_[n] = scc.is_open_[n]
      /\ node \notin D
  BY <1>3 DEF IsOpen
<1>e. [node |-> node, handle |-> L + 1, next |-> 1] \in Frame
  BY <1>1 DEF Frame
<1>t. stack' \in Seq(Frame)
  BY <1>4, <1>e, AppendElements
<1>s. /\ Len(stack') = Len(stack) + 1
      /\ stack'[Len(stack) + 1] = [node |-> node, handle |-> L + 1, next |-> 1]
      /\ \A f \in 1 .. Len(stack) : stack'[f] = callers[f]
  BY <1>4, <1>e, AppendElements
<1>n. Len(stack') = Len(stack) + 1
  BY <1>s
<1>8. \A k \in 1 .. Len(root_index_) : root_index_[k] \in 1 .. L
  BY DEF IInv, FinderConsistent
<1>9. \A f \in 1 .. Len(stack) : /\ stack'[f].handle = stack[f].handle
                                /\ stack'[f].node = stack[f].node
                                /\ stack[f].handle \in 1 .. L
                                /\ open_[stack[f].handle] = stack[f].node
  BY <1>s, Handles
<1>h. /\ stack'[Len(stack) + 1].node = node
      /\ stack'[Len(stack) + 1].handle = L + 1
      /\ stack'[Len(stack) + 1].next = 1
  BY <1>s
<1>10. TypeOK'
  <2>1. /\ open_' \in Seq(Node) /\ root_index_' \in Seq(Nat)
        /\ D \cup {node} \subseteq Node
    BY <1>1, <1>3, Types, AppendElements
  <2>2. scc'.is_open_ \in [D \cup {node} -> Nat]
    BY <1>1, <1>3, Types
  <2>3. FinderOK(scc, Node)'
    BY <1>3, <1>d, <2>1, <2>2 DEF FinderOK, open_, root_index_
  <2>4. examined' \in Seq(Node)
    BY <1>4, Types, AppendElements
  <2> QED BY <1>4, <1>t, <2>3, <2>4, Types DEF TypeOK
<1>11. FinderConsistent'
  <2>1. Cardinality(D \cup {node}) = L + 1
    <3>1. Cardinality(D) = L
      BY DEF IInv, FinderConsistent
    <3> QED BY <1>d, <3>1, OpenIsFinite, FS_AddElement
  <2>2. ASSUME NEW i \in 1 .. Len(open_')
        PROVE  open_'[i] \in D \cup {node} /\ scc'.is_open_[open_'[i]] = i
    <3>1. CASE i = L + 1
      BY <1>o, <1>d, <3>1
    <3>2. CASE i \in 1 .. L
      <4>1. open_[i] \in D /\ scc.is_open_[open_[i]] = i
        BY <3>2 DEF IInv, FinderConsistent
      <4> QED BY <1>o, <1>d, <3>2, <4>1
    <3> QED BY <1>1, <1>o, <3>1, <3>2
  <2>3. ASSUME NEW n \in D \cup {node}
        PROVE  scc'.is_open_[n] \in 1 .. Len(open_') /\ open_'[scc'.is_open_[n]] = n
    <3>1. CASE n = node
      BY <1>1, <1>o, <1>d, <3>1
    <3>2. CASE n \in D
      <4>1. scc.is_open_[n] \in 1 .. L /\ open_[scc.is_open_[n]] = n
        BY <3>2 DEF IInv, FinderConsistent
      <4>2. scc'.is_open_[n] = scc.is_open_[n]
        BY <1>d, <3>2
      <4> QED BY <1>1, <1>o, <4>1, <4>2
    <3> QED BY <3>1, <3>2
  <2>4. ASSUME NEW k \in 1 .. Len(root_index_')
        PROVE  root_index_'[k] \in 1 .. Len(open_')
    <3>1. k = Len(root_index_) + 1 \/ k \in 1 .. Len(root_index_)
      BY <1>1, <1>r, SMTT(30)
    <3> QED BY <1>1, <1>o, <1>r, <1>8, <3>1
  <2>5. \A k, l \in 1 .. Len(root_index_') : k < l => root_index_'[k] < root_index_'[l]
    <3>1. \A k, l \in 1 .. Len(root_index_) : k < l => root_index_[k] < root_index_[l]
      BY DEF IInv, FinderConsistent
    <3> QED BY <1>1, <1>r, <1>8, <3>1, SMTT(30)
  <2>6. root_index_' # << >> /\ root_index_'[1] = 1
    <3>1. CASE L = 0
      <4>1. Len(root_index_) = 0
        <5>1. 1 \notin 1 .. Len(root_index_)
          BY <1>8, <3>1
        <5> QED BY <1>1, <5>1
      <4>2. root_index_'[1] = 1 /\ Len(root_index_') = 1
        BY <1>r, <3>1, <4>1
      <4> QED BY <4>2, <1>3, Types
    <3>2. CASE L # 0
      <4>1. root_index_ # << >> /\ root_index_[1] = 1
        BY <1>1, <3>2 DEF IInv, FinderConsistent
      <4>2. 1 \in 1 .. Len(root_index_)
        BY <4>1, Types
      <4> QED BY <1>1, <1>r, <4>1, <4>2
    <3> QED BY <3>1, <3>2
  <2> QED BY <1>o, <1>d, <2>1, <2>2, <2>3, <2>4, <2>5, <2>6 DEF FinderConsistent
<1>12. HandlesValid'
  <2>1. ASSUME NEW f \in 1 .. Len(stack')
        PROVE  /\ stack'[f].handle <= Len(open_')
               /\ stack'[f].handle >= 1
               /\ open_'[stack'[f].handle] = stack'[f].node
    <3>1. CASE f = Len(stack) + 1
      BY <1>1, <1>o, <1>h, <3>1
    <3>2. CASE f \in 1 .. Len(stack)
      <4>1. /\ stack[f].handle \in 1 .. L
            /\ open_[stack[f].handle] = stack[f].node
            /\ stack'[f].handle = stack[f].handle
            /\ stack'[f].node = stack[f].node
        BY <1>9, <3>2
      <4>2. open_'[stack[f].handle] = open_[stack[f].handle]
        BY <1>o, <4>1
      <4> QED BY <1>1, <1>o, <4>1, <4>2
    <3> QED BY <1>1, <1>s, <3>1, <3>2
  <2>2. ASSUME NEW f \in 1 .. Len(stack'), NEW g \in 1 .. Len(stack'), f < g
        PROVE  stack'[f].handle < stack'[g].handle
    <3>1. CASE g = Len(stack) + 1
      <4>1. f \in 1 .. Len(stack)
        BY <1>1, <1>s, <2>2, <3>1
      <4> QED BY <1>1, <1>h, <1>9, <3>1, <4>1
    <3>2. CASE g \in 1 .. Len(stack)
      <4>1. f \in 1 .. Len(stack)
        BY <1>1, <2>2, <3>2
      <4>2. stack[f].handle < stack[g].handle
        BY <2>2, <3>2, <4>1 DEF IInv, HandlesValid
      <4> QED BY <1>9, <3>2, <4>1, <4>2
    <3> QED BY <1>1, <1>s, <3>1, <3>2
  <2>3. ASSUME NEW k \in 1 .. Len(root_index_')
        PROVE  \E f \in 1 .. Len(stack') : stack'[f].handle = root_index_'[k]
    <3>1. CASE k = Len(root_index_) + 1
      <4>1. Len(stack) + 1 \in 1 .. Len(stack')
        BY <1>1, <1>s
      <4> QED BY <1>r, <1>h, <3>1, <4>1
    <3>2. CASE k \in 1 .. Len(root_index_)
      <4>1. PICK f \in 1 .. Len(stack) : stack[f].handle = root_index_[k]
        BY <3>2 DEF IInv, HandlesValid
      <4>2. f \in 1 .. Len(stack')
        BY <1>1, <1>s
      <4>3. stack'[f].handle = root_index_'[k]
        BY <1>r, <1>9, <3>2, <4>1
      <4> QED BY <4>2, <4>3
    <3> QED BY <1>1, <1>r, <3>1, <3>2
  <2> QED BY <2>1, <2>2, <2>3 DEF HandlesValid, LegalHandle, open_
<1>13. FramesInRange'
  <2>1. \A f \in 1 .. Len(stack') :
          stack'[f].next \in 1 .. (Len(graph[stack'[f].node]) + 1)
    <3> SUFFICES ASSUME NEW f \in 1 .. Len(stack')
                 PROVE  stack'[f].next \in 1 .. (Len(graph[stack'[f].node]) + 1)
      OBVIOUS
    <3>1. CASE f = Len(stack) + 1
      <4>1. Len(graph[node]) \in Nat
        BY Types
      <4> QED BY <1>h, <3>1, <4>1
    <3>2. CASE f \in 1 .. Len(stack)
      BY <1>s, <1>9, <3>2
    <3> QED BY <1>1, <1>s, <3>1, <3>2
  <2> QED BY <1>4, <2>1 DEF FramesInRange
<1>14. CallsReach'
  <2>1. \A f, g \in 1 .. Len(stack) : f < g => Reach(graph, stack[f].node, stack[g].node)
    BY DEF IInv, CallsReach
  <2>2. \A f, g \in 1 .. Len(stack') : f < g => Reach(graph, stack'[f].node, stack'[g].node)
    <3> SUFFICES ASSUME NEW f \in 1 .. Len(stack'), NEW g \in 1 .. Len(stack'), f < g
                 PROVE  Reach(graph, stack'[f].node, stack'[g].node)
      OBVIOUS
    <3>1. f \in 1 .. Len(stack)
      BY <1>1, <1>s
    <3>2. CASE g = Len(stack) + 1
      BY <1>h, <1>9, <3>1, <3>2
    <3>3. CASE g \in 1 .. Len(stack)
      <4>1. Reach(graph, stack[f].node, stack[g].node)
        BY <2>1, <3>1, <3>3, f < g
      <4>2. stack'[f].node = stack[f].node /\ stack'[g].node = stack[g].node
        BY <1>9, <3>1, <3>3
      <4> QED BY <4>1, <4>2
    <3>4. g = Len(stack) + 1 \/ g \in 1 .. Len(stack)
      BY <1>1, <1>n
    <3> QED BY <3>2, <3>3, <3>4
  <2> QED BY <1>4, <2>2 DEF CallsReach
<1>15. SegmentsConnected'
  <2> SUFFICES ASSUME NEW i \in 1 .. Len(open_')
               PROVE  \E k \in 1 .. Len(root_index_') :
                         RootOf(k, i)' /\ Mutual(graph, open_'[i], open_'[root_index_'[k]])
    BY <1>4 DEF SegmentsConnected
  <2>1. CASE i = L + 1
    <3> PICK m : m = Len(root_index_) + 1
      OBVIOUS
    <3>1. m \in 1 .. Len(root_index_') /\ root_index_'[m] = i
      BY <1>1, <1>r, <2>1
    <3>2. RootOf(m, i)'
      BY <1>1, <1>r, <2>1, <3>1 DEF RootOf
    <3>3. Mutual(graph, open_'[i], open_'[root_index_'[m]])
      BY <3>1, MutualEquivalence
    <3> QED BY <3>1, <3>2, <3>3
  <2>2. CASE i \in 1 .. L
    <3>1. PICK k \in 1 .. Len(root_index_) :
             RootOf(k, i) /\ Mutual(graph, open_[i], open_[root_index_[k]])
      BY <2>2 DEF IInv, SegmentsConnected
    <3>2. RootOf(k, i)'
      BY <1>1, <1>r, <2>2, <3>1, SMTT(30) DEF RootOf
    <3>3. Mutual(graph, open_'[i], open_'[root_index_'[k]])
      BY <1>o, <1>r, <1>8, <2>2, <3>1
    <3>4. k \in 1 .. Len(root_index_')
      BY <1>1, <1>r
    <3> QED BY <3>2, <3>3, <3>4
  <2>3. i = L + 1 \/ i \in 1 .. L
    BY <1>1, <1>o
  <2> QED BY <2>1, <2>2, <2>3
<1>16. EdgesAccounted'
  <2> DEFINE FollowedAfter(f) == {graph[stack'[f].node][e] : e \in 1 .. (stack'[f].next - 1)}
  <2> SUFFICES ASSUME NEW i \in 1 .. Len(open_'), NEW n \in Succ(graph, open_'[i])
               PROVE
                 \/ n \in visited
                 \/ \E j \in 1 .. Len(open_') :
                      /\ open_'[j] = n
                      /\ \A k \in 1 .. Len(root_index_') :
                           root_index_'[k] <= i => root_index_'[k] <= j
                 \/ \E f \in 1 .. Len(stack') :
                      stack'[f].handle = i /\ n \notin FollowedAfter(f)
    <3>1. \A f : Followed(f)' = FollowedAfter(f)
      BY <1>4 DEF Followed
    <3> HIDE DEF FollowedAfter
    <3> QED BY <1>4, <3>1 DEF EdgesAccounted
  <2>1. CASE i = L + 1
    <3>1. /\ Len(stack) + 1 \in 1 .. Len(stack')
          /\ stack'[Len(stack) + 1].handle = i
          /\ stack'[Len(stack) + 1].next = 1
      BY <1>1, <1>s, <1>h, <2>1
    <3>2. n \notin FollowedAfter(Len(stack) + 1)
      BY <3>1
    <3> QED BY <3>1, <3>2
  <2>2. CASE i \in 1 .. L
    <3>1. n \in Succ(graph, open_[i])
      BY <1>o, <2>2
    <3>2. CASE \E j \in 1 .. L :
                 /\ open_[j] = n
                 /\ \A k \in 1 .. Len(root_index_) : root_index_[k] <= i => root_index_[k] <= j
      <4>1. PICK j \in 1 .. L :
               /\ open_[j] = n
               /\ \A k \in 1 .. Len(root_index_) : root_index_[k] <= i => root_index_[k] <= j
        BY <3>2
      <4>2. j \in 1 .. Len(open_') /\ open_'[j] = n
        BY <1>1, <1>o, <4>1
      <4>3. ASSUME NEW k \in 1 .. Len(root_index_'), root_index_'[k] <= i
            PROVE  root_index_'[k] <= j
        <5>1. k # Len(root_index_) + 1
          BY <1>1, <1>r, <2>2, <4>3
        <5>2. k \in 1 .. Len(root_index_)
          BY <1>1, <1>r, <5>1, SMTT(30)
        <5> QED BY <1>r, <4>1, <4>3, <5>2
      <4> QED BY <4>2, <4>3
    <3>3. CASE \E f \in 1 .. Len(stack) : stack[f].handle = i /\ n \notin Followed(f)
      <4>1. PICK f \in 1 .. Len(stack) : stack[f].handle = i /\ n \notin Followed(f)
        BY <3>3
      <4>2. f \in 1 .. Len(stack') /\ stack'[f].handle = i
        BY <1>1, <1>s, <1>9, <4>1
      <4>3. n \in FollowedAfter(f) => n = node
        BY <1>s, <4>1
      <4>4. n = node => \E j \in 1 .. Len(open_') :
                          /\ open_'[j] = n
                          /\ \A k \in 1 .. Len(root_index_') :
                               root_index_'[k] <= i => root_index_'[k] <= j
        <5>1. ASSUME NEW k \in 1 .. Len(root_index_') PROVE root_index_'[k] <= L + 1
          <6>1. k = Len(root_index_) + 1 \/ k \in 1 .. Len(root_index_)
            BY <1>1, <1>r
          <6>2. CASE k = Len(root_index_) + 1
            BY <1>1, <1>r, <6>2
          <6>3. CASE k \in 1 .. Len(root_index_)
            BY <1>1, <1>r, <1>8, <6>3, SMTT(30)
          <6> QED BY <6>1, <6>2, <6>3
        <5>2. L + 1 \in 1 .. Len(open_') /\ open_'[L + 1] = node
          BY <1>1, <1>o
        <5> QED BY <5>1, <5>2
      <4> QED BY <4>2, <4>3, <4>4
    <3>4. CASE n \in visited
      BY <3>4
    <3>5. \/ n \in visited
          \/ \E j \in 1 .. L :
               /\ open_[j] = n
               /\ \A k \in 1 .. Len(root_index_) : root_index_[k] <= i => root_index_[k] <= j
          \/ \E f \in 1 .. Len(stack) : stack[f].handle = i /\ n \notin Followed(f)
      BY <2>2, <3>1 DEF IInv, EdgesAccounted
    <3> QED BY <3>2, <3>3, <3>4, <3>5
  <2>3. i = L + 1 \/ i \in 1 .. L
    BY <1>1, <1>o
  <2> QED BY <2>1, <2>2, <2>3
<1>17. ExaminedOnce'
  <2>1. Len(examined') = Len(examined) + 1 /\ examined'[Len(examined) + 1] = node
        /\ Len(examined) \in Nat
        /\ \A i \in 1 .. Len(examined) : examined'[i] = examined[i]
    BY <1>4, Types, AppendElements
  <2>2. /\ \A i, j \in 1 .. Len(examined) : i # j => examined[i] # examined[j]
        /\ {examined[i] : i \in 1 .. Len(examined)} = visited \cup D
        /\ visited \cap D = {}
    BY DEF IInv, ExaminedOnce
  <2>3. \A i \in 1 .. Len(examined) : examined[i] # node
    BY <1>d, <2>2
  <2>4. \A i, j \in 1 .. Len(examined') : i # j => examined'[i] # examined'[j]
    BY <2>1, <2>2, <2>3, SMTT(30)
  <2>5. {examined'[i] : i \in 1 .. Len(examined')}
          = {examined[i] : i \in 1 .. Len(examined)} \cup {node}
    <3>1. examined \in Seq(Node)
      BY Types
    <3> QED BY <1>4, <3>1, AppendRange
  <2> QED BY <1>4, <1>d, <2>2, <2>4, <2>5, SMTT(30) DEF ExaminedOnce
<1>18. ComponentsCorrect'
  BY <1>4 DEF IInv, ComponentsCorrect, Handed
<1> QED BY <1>10, <1>11, <1>12, <1>13, <1>14, <1>15, <1>16, <1>17, <1>18 DEF IInv
--------------------------------------------------------------------------------
(***************************************************************************)
(* Taking an edge that opens nothing.                                      *)
(***************************************************************************)

\* A call that follows an edge to a node that has its SCC, or to an open node
\* after Open popped the roots above that node's own, preserves the invariant.
LEMMA AdvancePreserves ==
  ASSUME IInv, HasEdge,
         stack' = Advanced,
         UNCHANGED <<graph, visited, sccs, examined>>,
         open_' = open_,
         NEW m \in 1 .. Len(root_index_),
         scc' = [open_ |-> open_, is_open_ |-> scc.is_open_,
                 root_index_ |-> SubSeq(root_index_, 1, m)],
         \/ Child \in visited /\ m = Len(root_index_)
         \/ \E j \in 1 .. Len(open_) :
              /\ open_[j] = Child
              /\ RootOf(m, j)
              /\ Mutual(graph, Child, open_[root_index_[m]])
  PROVE  IInv'
<1> DEFINE t == Len(stack)
<1>1. Len(open_) \in Nat /\ Len(root_index_) \in Nat /\ t \in Nat
  BY Types
<1>2. /\ Len(root_index_') = m
      /\ \A k \in 1 .. m : root_index_'[k] = root_index_[k]
      /\ root_index_' \in Seq(Nat)
  <2>1. root_index_' = SubSeq(root_index_, 1, m) /\ m \in 0 .. Len(root_index_)
    BY <1>1 DEF root_index_
  <2> QED BY <2>1, Types, PrefixElements
<1>3. \A k \in 1 .. m : k \in 1 .. Len(root_index_)
  BY <1>1
<1>4. /\ scc'.is_open_ = scc.is_open_
      /\ scc' = [open_ |-> scc'.open_, is_open_ |-> scc'.is_open_,
                 root_index_ |-> scc'.root_index_]
  OBVIOUS
<1>5. /\ stack' \in Seq(Frame) /\ Len(stack') = t /\ t \in 1 .. t
  BY AdvancedFacts
<1>6. \A f \in 1 .. t : /\ stack'[f].node = stack[f].node
                        /\ stack'[f].handle = stack[f].handle
                        /\ stack'[f].next = IF f = t THEN stack[f].next + 1
                                                     ELSE stack[f].next
  BY AdvancedFacts
<1>7. \A k \in 1 .. Len(root_index_) : root_index_[k] \in 1 .. Len(open_)
  BY Consistent
<1>8. TypeOK'
  <2>1. FinderOK(scc, Node)'
    BY <1>2, <1>4, Types DEF FinderOK, open_, root_index_
  <2> QED BY <1>5, <2>1, Types DEF TypeOK
<1>9. FinderConsistent'
  <2>1. \A k, l \in 1 .. m : k < l => root_index_'[k] < root_index_'[l]
    <3>1. \A k, l \in 1 .. m : k < l => root_index_[k] < root_index_[l]
      BY <1>3, Consistent
    <3> QED BY <1>2, <3>1
  <2>2. \A k \in 1 .. m : root_index_'[k] \in 1 .. Len(open_)
    BY <1>2, <1>3, <1>7
  <2>3. open_ # << >> => root_index_' # << >> /\ root_index_'[1] = 1
    <3>1. Len(root_index_') # 0 /\ 1 \in 1 .. m
      BY <1>1, <1>2
    <3>2. root_index_' # << >>
      BY <1>2, <3>1
    <3> QED BY <1>2, <3>1, <3>2, Consistent
  <2> QED BY <1>2, <1>4, <2>1, <2>2, <2>3, Consistent DEF FinderConsistent
<1>10. HandlesValid'
  <2>1. \A f \in 1 .. t : /\ stack'[f].handle <= Len(open_)
                          /\ stack'[f].handle >= 1
                          /\ open_[stack'[f].handle] = stack'[f].node
    BY <1>1, <1>6, Handles
  <2>2. \A f, g \in 1 .. t : f < g => stack'[f].handle < stack'[g].handle
    BY <1>6 DEF IInv, HandlesValid
  <2>3. \A k \in 1 .. m : \E f \in 1 .. t : stack'[f].handle = root_index_'[k]
    <3>1. \A k \in 1 .. Len(root_index_) : \E f \in 1 .. t : stack[f].handle = root_index_[k]
      BY DEF IInv, HandlesValid
    <3>2. \A f \in 1 .. t : stack'[f].handle = stack[f].handle
      BY <1>6
    <3> SUFFICES ASSUME NEW k \in 1 .. m
                 PROVE  \E f \in 1 .. t : stack'[f].handle = root_index_'[k]
      OBVIOUS
    <3>3. PICK f \in 1 .. t : stack[f].handle = root_index_[k]
      BY <1>3, <3>1
    <3> QED BY <1>2, <3>2, <3>3
  <2> QED BY <1>2, <1>5, <2>1, <2>2, <2>3 DEF HandlesValid, LegalHandle, open_
<1>11. FramesInRange'
  <2>1. ASSUME NEW f \in 1 .. t
        PROVE  stack'[f].next \in 1 .. (Len(graph[stack'[f].node]) + 1)
    <3>1. stack[f].next \in 1 .. (Len(graph[stack[f].node]) + 1)
      BY DEF IInv, FramesInRange
    <3>2. CASE f = t
      <4>1. stack[t].next <= Len(graph[stack[t].node])
        BY DEF HasEdge, Top
      <4>2. stack[t] \in Frame
        BY <1>5, Handles
      <4>3. Len(graph[stack[t].node]) \in Nat
        <5> HIDE DEF t
        <5>1. stack[t].node \in Node
          BY <4>2 DEF Frame
        <5>2. graph[stack[t].node] \in Seq(Node)
          BY <5>1, Types
        <5> QED BY <5>2
      <4> QED BY <1>6, <3>1, <3>2, <4>1, <4>3, SMTT(30)
    <3>3. CASE f # t
      BY <1>6, <3>1, <3>3
    <3> QED BY <3>2, <3>3
  <2> QED BY <1>5, <2>1 DEF FramesInRange
<1>12. CallsReach'
  BY <1>5, <1>6 DEF IInv, CallsReach
<1>13. SegmentsConnected'
  <2> SUFFICES ASSUME NEW i \in 1 .. Len(open_)
               PROVE  \E k \in 1 .. m :
                         RootOf(k, i)' /\ Mutual(graph, open_[i], open_[root_index_'[k]])
    BY <1>2 DEF SegmentsConnected
  <2>1. PICK k \in 1 .. Len(root_index_) :
           RootOf(k, i) /\ Mutual(graph, open_[i], open_[root_index_[k]])
    BY DEF IInv, SegmentsConnected
  <2>2. CASE k \in 1 .. m
    <3>1. RootOf(k, i)'
      <4>1. k = m \/ k + 1 \in 1 .. m
        BY <1>1, <2>2
      <4>2. k # m => k # Len(root_index_)
        BY <1>1, <2>2
      <4> QED BY <1>2, <2>1, <2>2, <4>1, <4>2 DEF RootOf
    <3> QED BY <1>2, <2>1, <2>2, <3>1
  <2>3. CASE k > m
    <3>1. root_index_[m] < root_index_[k]
      BY <1>1, <2>3, Consistent
    <3>2. PICK fm \in 1 .. t : stack[fm].handle = root_index_[m]
      BY DEF IInv, HandlesValid
    <3>3. PICK fk \in 1 .. t : stack[fk].handle = root_index_[k]
      BY DEF IInv, HandlesValid
    <3>4. fm < fk
      <4>1. ~ (fk < fm) /\ fk # fm
        <5>1. fk < fm => stack[fk].handle < stack[fm].handle
          BY DEF IInv, HandlesValid
        <5> QED BY <1>7, <3>1, <3>2, <3>3, <5>1, SMTT(30)
      <4> QED BY <1>1, <4>1
    <3>5. Reach(graph, open_[root_index_[m]], open_[root_index_[k]])
      <4>1. Reach(graph, stack[fm].node, stack[fk].node)
        BY <3>4 DEF IInv, CallsReach
      <4> QED BY <3>2, <3>3, <4>1, Handles
    <3>6. Reach(graph, open_[root_index_[k]], stack[t].node)
      <4>1. CASE fk = t
        BY <3>3, <4>1, Handles, ReachReflexive
      <4>2. CASE fk < t
        <5>1. Reach(graph, stack[fk].node, stack[t].node)
          BY <1>5, <4>2 DEF IInv, CallsReach
        <5> QED BY <3>3, <5>1, Handles
      <4> QED BY <1>1, <4>1, <4>2
    <3>7. Reach(graph, stack[t].node, Child)
      BY AdvancedFacts, ReachEdge DEF Top
    <3>8. Mutual(graph, Child, open_[root_index_[m]])
      BY <1>1, <2>3
    <3>9. Mutual(graph, open_[root_index_[k]], open_[root_index_[m]])
      BY <3>5, <3>6, <3>7, <3>8, ReachTransitive DEF Mutual
    <3>10. Mutual(graph, open_[i], open_[root_index_[m]])
      BY <2>1, <3>9, MutualEquivalence
    <3>11. RootOf(m, i)'
      <4>1. root_index_[k] <= i
        BY <2>1 DEF RootOf
      <4>2. root_index_[m] <= i
        BY <1>7, <3>1, <4>1
      <4> QED BY <1>2, <4>2 DEF RootOf
    <3>12. m \in 1 .. m /\ root_index_'[m] = root_index_[m]
      BY <1>1, <1>2
    <3> QED BY <3>10, <3>11, <3>12
  <2> QED BY <1>1, <2>2, <2>3
<1>14. EdgesAccounted'
  <2> SUFFICES ASSUME NEW i \in 1 .. Len(open_), NEW n \in Succ(graph, open_[i])
               PROVE
                 \/ n \in visited
                 \/ \E j \in 1 .. Len(open_) :
                      /\ open_[j] = n
                      /\ \A k \in 1 .. m : root_index_'[k] <= i => root_index_'[k] <= j
                 \/ \E f \in 1 .. t : stack'[f].handle = i /\ n \notin Followed(f)'
    BY <1>2, <1>5, ZenonT(40) DEF EdgesAccounted
  <2>1. \/ n \in visited
        \/ \E j \in 1 .. Len(open_) :
             /\ open_[j] = n
             /\ \A k \in 1 .. Len(root_index_) : root_index_[k] <= i => root_index_[k] <= j
        \/ \E f \in 1 .. t : stack[f].handle = i /\ n \notin Followed(f)
    BY DEF IInv, EdgesAccounted
  <2>2. CASE \E j \in 1 .. Len(open_) :
               /\ open_[j] = n
               /\ \A k \in 1 .. Len(root_index_) : root_index_[k] <= i => root_index_[k] <= j
    BY <1>2, <1>3, <2>2
  <2>3. CASE \E f \in 1 .. t : stack[f].handle = i /\ n \notin Followed(f)
    <3>1. PICK f \in 1 .. t : stack[f].handle = i /\ n \notin Followed(f)
      BY <2>3
    <3>2. stack'[f].handle = i
      BY <1>6, <3>1
    <3>3. n \in Followed(f)' => n = Child
      <4> SUFFICES ASSUME n \in Followed(f)' PROVE n = Child
        OBVIOUS
      <4>1. PICK e \in 1 .. (stack'[f].next - 1) : n = graph[stack[f].node][e]
        BY <1>6, SMTT(30) DEF Followed
      <4>2. stack[f].next \in Nat
        BY Handles DEF Frame
      <4>3. e \notin 1 .. (stack[f].next - 1)
        BY <3>1, <4>1 DEF Followed
      <4>4. f = t /\ e = stack[f].next
        <5>1. CASE f = t
          <6>1. stack'[f].next = stack[f].next + 1
            BY <1>6, <5>1
          <6> QED BY <4>2, <4>3, <5>1, <6>1
        <5>2. CASE f # t
          <6>1. stack'[f].next = stack[f].next
            BY <1>6, <5>2
          <6> QED BY <4>3, <6>1
        <5> QED BY <5>1, <5>2
      <4> QED BY <4>1, <4>4 DEF Child, Top
    <3>4. n = Child => \/ n \in visited
                       \/ \E j \in 1 .. Len(open_) :
                            /\ open_[j] = n
                            /\ \A k \in 1 .. m : root_index_'[k] <= j
      <4> SUFFICES ASSUME NEW j \in 1 .. Len(open_), open_[j] = Child, RootOf(m, j)
                   PROVE  \A k \in 1 .. m : root_index_'[k] <= j
        OBVIOUS
      <4>1. ASSUME NEW k \in 1 .. m PROVE root_index_[k] <= root_index_[m]
        <5>1. k < m => root_index_[k] < root_index_[m]
          BY <1>3, Consistent
        <5>2. k < m \/ k = m
          BY <1>1
        <5> QED BY <1>3, <1>7, <5>1, <5>2
      <4>2. root_index_[m] <= j
        BY DEF RootOf
      <4> QED BY <1>2, <1>3, <1>7, <4>1, <4>2, SMTT(30)
    <3> QED BY <3>1, <3>2, <3>3, <3>4
  <2> QED BY <2>1, <2>2, <2>3
<1>15. ExaminedOnce'
  BY <1>4 DEF IInv, ExaminedOnce
<1>16. ComponentsCorrect'
  BY SMTT(30) DEF IInv, ComponentsCorrect, Handed
<1> QED BY <1>8, <1>9, <1>10, <1>11, <1>12, <1>13, <1>14, <1>15, <1>16 DEF IInv
--------------------------------------------------------------------------------
(***************************************************************************)
(* Leaving a node.                                                         *)
(***************************************************************************)

\* A call that has followed its last edge has followed all of them.
LEMMA FinishedFacts ==
  ASSUME IInv, Finished
  PROVE  /\ Len(stack) \in 1 .. Len(stack)
         /\ Top.handle \in 1 .. Len(open_)
         /\ open_[Top.handle] = Top.node
         /\ Followed(Len(stack)) = Succ(graph, Top.node)
         /\ \A f \in 1 .. Len(stack) : stack[f].handle <= Top.handle
         /\ \A f \in 1 .. Len(stack) : f # Len(stack) => stack[f].handle < Top.handle
         /\ root_index_ # << >>
         /\ root_index_[Len(root_index_)] <= Top.handle
<1>1. Len(stack) \in 1 .. Len(stack)
  BY Types DEF Finished, Running
<1>2. /\ Top.handle \in 1 .. Len(open_) /\ open_[Top.handle] = Top.node
      /\ Top \in Frame
  BY <1>1, Handles DEF Top
<1>3. Top.node \in Node /\ Top.next \in Nat
  BY <1>2 DEF Frame
<1>4. Len(graph[Top.node]) \in Nat
  BY <1>3, Types
<1>5. Top.next = Len(graph[Top.node]) + 1
  <2>1. Top.next \in 1 .. (Len(graph[Top.node]) + 1)
    BY <1>1 DEF IInv, FramesInRange, Top
  <2>2. ~ (Top.next <= Len(graph[Top.node]))
    BY DEF Finished, HasEdge
  <2> QED BY <1>4, <2>1, <2>2
<1>6. Followed(Len(stack)) = Succ(graph, Top.node)
  BY <1>4, <1>5 DEF Followed, Succ, Top
<1>7. ASSUME NEW f \in 1 .. Len(stack), f # Len(stack)
      PROVE  stack[f].handle < Top.handle
  <2>1. f < Len(stack)
    BY <1>1, <1>7
  <2> QED BY <1>1, <2>1 DEF IInv, HandlesValid, Top
<1>8. ASSUME NEW f \in 1 .. Len(stack) PROVE stack[f].handle <= Top.handle
  <2>1. stack[f].handle \in 1 .. Len(open_)
    BY Handles
  <2>2. f = Len(stack) => stack[f].handle = Top.handle
    BY DEF Top
  <2> QED BY <1>2, <1>7, <2>1, <2>2
<1>9. root_index_ # << >>
  <2>1. open_ # << >>
    BY <1>2, Types
  <2> QED BY <2>1, Consistent
<1>10. Len(root_index_) \in 1 .. Len(root_index_)
  BY <1>9, Types
<1>11. root_index_[Len(root_index_)] <= Top.handle
  <2>1. PICK f \in 1 .. Len(stack) : stack[f].handle = root_index_[Len(root_index_)]
    BY <1>10 DEF IInv, HandlesValid
  <2> QED BY <1>8, <2>1
<1> QED BY <1>1, <1>2, <1>6, <1>7, <1>8, <1>9, <1>11

\* A call that returns without closing an SCC preserves the invariant.
LEMMA CloseNothingPreserves ==
  ASSUME IInv, CloseNothing PROVE IInv'
<1> DEFINE t == Len(stack)
<1>1. /\ Finished
      /\ ~IsRoot(scc, Top.handle)
      /\ stack' = SubSeq(stack, 1, t - 1)
      /\ graph' = graph /\ visited' = visited /\ scc' = scc
      /\ sccs' = sccs /\ examined' = examined
  BY DEF CloseNothing
<1>2. open_' = open_ /\ root_index_' = root_index_
  BY <1>1 DEF open_, root_index_
<1>3. t \in 1 .. t /\ t \in Nat
  BY <1>1, FinishedFacts, Types
<1>4. t - 1 \in 0 .. t
  BY <1>3
<1>5. /\ stack' \in Seq(Frame) /\ Len(stack') = t - 1
      /\ \A f \in 1 .. (t - 1) : stack'[f] = stack[f]
  BY <1>1, <1>4, Types, PrefixElements
<1>6. \A f \in 1 .. (t - 1) : f \in 1 .. t
  BY <1>3
<1>7. TypeOK'
  BY <1>1, <1>5 DEF IInv, TypeOK
<1>8. FinderConsistent'
  BY <1>1, <1>2 DEF IInv, FinderConsistent
<1>9. HandlesValid'
  <2>1. \A f \in 1 .. (t - 1) : /\ stack'[f].handle <= Len(open_)
                                /\ stack'[f].handle >= 1
                                /\ open_[stack'[f].handle] = stack'[f].node
    BY <1>5, <1>6 DEF IInv, HandlesValid, LegalHandle, open_
  <2>2. \A f, g \in 1 .. (t - 1) : f < g => stack'[f].handle < stack'[g].handle
    BY <1>5, <1>6 DEF IInv, HandlesValid
  <2>3. ASSUME NEW k \in 1 .. Len(root_index_)
        PROVE  \E f \in 1 .. (t - 1) : stack'[f].handle = root_index_[k]
    <3>1. PICK f \in 1 .. t : stack[f].handle = root_index_[k]
      BY DEF IInv, HandlesValid
    <3>2. f # t
      <4> SUFFICES ASSUME root_index_[k] = Top.handle PROVE FALSE
        BY <3>1 DEF Top
      <4>1. k # Len(root_index_)
        BY <1>1 DEF IsRoot, root_index_
      <4>2. k < Len(root_index_) /\ Len(root_index_) \in 1 .. Len(root_index_)
        BY <4>1, Types
      <4>3. root_index_[k] < root_index_[Len(root_index_)]
        BY <4>2, Consistent
      <4>4. root_index_[k] \in 1 .. Len(open_)
            /\ root_index_[Len(root_index_)] \in 1 .. Len(open_)
        BY <4>2, Consistent
      <4>5. root_index_[Len(root_index_)] <= Top.handle
        BY <1>1, FinishedFacts
      <4> QED BY <4>3, <4>4, <4>5
    <3>3. f \in 1 .. (t - 1)
      BY <1>3, <3>2
    <3> QED BY <1>5, <3>1, <3>3
  <2> QED BY <1>2, <1>5, <2>1, <2>2, <2>3 DEF HandlesValid, LegalHandle, open_
<1>10. FramesInRange'
  BY <1>1, <1>5, <1>6 DEF IInv, FramesInRange
<1>11. CallsReach'
  BY <1>1, <1>5, <1>6 DEF IInv, CallsReach
<1>12. SegmentsConnected'
  BY <1>1, <1>2 DEF IInv, SegmentsConnected, RootOf
<1>13. EdgesAccounted'
  <2> SUFFICES ASSUME NEW i \in 1 .. Len(open_), NEW n \in Succ(graph, open_[i])
               PROVE
                 \/ n \in visited
                 \/ \E j \in 1 .. Len(open_) :
                      /\ open_[j] = n
                      /\ \A k \in 1 .. Len(root_index_) :
                           root_index_[k] <= i => root_index_[k] <= j
                 \/ \E f \in 1 .. (t - 1) : stack'[f].handle = i /\ n \notin Followed(f)'
    BY <1>1, <1>2, <1>5 DEF EdgesAccounted
  <2>1. ASSUME NEW f \in 1 .. t, stack[f].handle = i, n \notin Followed(f)
        PROVE  f \in 1 .. (t - 1) /\ stack'[f].handle = i /\ n \notin Followed(f)'
    <3>1. f # t
      <4> SUFFICES ASSUME f = t PROVE FALSE
        OBVIOUS
      <4>1. open_[i] = Top.node
        BY <1>1, <2>1, FinishedFacts DEF Top
      <4> QED BY <1>1, <2>1, <4>1, FinishedFacts
    <3>2. f \in 1 .. (t - 1)
      BY <1>3, <3>1
    <3>3. Followed(f)' = Followed(f)
      BY <1>1, <1>5, <3>2 DEF Followed
    <3> QED BY <1>5, <2>1, <3>2, <3>3
  <2> QED BY <2>1 DEF IInv, EdgesAccounted
<1>14. ExaminedOnce'
  BY <1>1 DEF IInv, ExaminedOnce
<1>15. ComponentsCorrect'
  BY <1>1 DEF IInv, ComponentsCorrect, Handed
<1> QED BY <1>7, <1>8, <1>9, <1>10, <1>11, <1>12, <1>13, <1>14, <1>15 DEF IInv
\* The nodes of the last segment are in one component, and no edge leaves
\* them but to nodes that have their SCC: they are a whole component.
LEMMA LastSegmentIsComponent ==
  ASSUME IInv, Finished, IsRoot(scc, Top.handle)
  PROVE  /\ IsComponent(graph, ClosedNodes(scc, Top.handle))
         /\ \A n \in ClosedNodes(scc, Top.handle) :
              Succ(graph, n) \subseteq ClosedNodes(scc, Top.handle) \cup visited
         /\ ClosedNodes(scc, Top.handle) \subseteq DOMAIN scc.is_open_
<1> DEFINE ix == Top.handle
           S == ClosedNodes(scc, Top.handle)
           R == Len(root_index_)
<1>1. /\ ix \in 1 .. Len(open_) /\ open_[ix] = Top.node /\ Len(open_) \in Nat
      /\ R \in 1 .. R /\ R \in Nat /\ root_index_[R] = ix
  <2>1. R \in 1 .. R /\ R \in Nat
    BY FinishedFacts, Types
  <2> QED BY <2>1, FinishedFacts, Types DEF IsRoot, root_index_
<1>2. S = {open_[o] : o \in ix .. Len(open_)}
  BY DEF ClosedNodes, open_
<1>3. \A o \in ix .. Len(open_) : o \in 1 .. Len(open_)
  BY <1>1
<1>4. S \subseteq DOMAIN scc.is_open_
  <2>1. \A o \in ix .. Len(open_) : open_[o] \in DOMAIN scc.is_open_
    BY <1>3, Consistent
  <2> QED BY <1>2, <2>1
<1>5. S # {}
  <2>1. ix \in ix .. Len(open_)
    BY <1>1
  <2> QED BY <1>2, <2>1
<1>6. ASSUME NEW i \in ix .. Len(open_), NEW n \in Succ(graph, open_[i])
      PROVE  n \in S \cup visited
  <2>1. \/ n \in visited
        \/ \E j \in 1 .. Len(open_) :
             /\ open_[j] = n
             /\ \A k \in 1 .. R : root_index_[k] <= i => root_index_[k] <= j
        \/ \E f \in 1 .. Len(stack) : stack[f].handle = i /\ n \notin Followed(f)
    BY <1>3 DEF IInv, EdgesAccounted
  <2>2. ASSUME NEW j \in 1 .. Len(open_), open_[j] = n,
               \A k \in 1 .. R : root_index_[k] <= i => root_index_[k] <= j
        PROVE  n \in S
    <3>1. ix <= j
      BY <1>1, <2>2
    <3> QED BY <1>1, <1>2, <2>2, <3>1
  <2>3. ASSUME NEW f \in 1 .. Len(stack), stack[f].handle = i, n \notin Followed(f)
        PROVE  FALSE
    <3>1. f = Len(stack)
      <4> SUFFICES ASSUME f # Len(stack) PROVE FALSE
        OBVIOUS
      <4>1. i < ix
        BY <2>3, FinishedFacts
      <4> QED BY <1>1, <4>1
    <3>2. i = ix
      BY <2>3, <3>1 DEF Top
    <3>3. open_[i] = Top.node
      BY <1>1, <3>2
    <3> QED BY <2>3, <3>1, <3>3, FinishedFacts
  <2> QED BY <2>1, <2>2, <2>3
<1>7. \A n \in S : Succ(graph, n) \subseteq S \cup visited
  BY <1>2, <1>6
<1>8. ASSUME NEW i \in ix .. Len(open_) PROVE Mutual(graph, open_[i], open_[ix])
  <2>1. PICK k \in 1 .. R : RootOf(k, i) /\ Mutual(graph, open_[i], open_[root_index_[k]])
    BY <1>3 DEF IInv, SegmentsConnected
  <2>2. k = R
    <3> SUFFICES ASSUME k # R PROVE FALSE
      OBVIOUS
    <3>1. k + 1 \in 1 .. R
      BY <1>1
    <3>2. i < root_index_[k + 1]
      BY <2>1 DEF RootOf
    <3>3. k + 1 = R \/ root_index_[k + 1] < root_index_[R]
      <4>1. k + 1 = R \/ k + 1 < R
        BY <1>1, <3>1
      <4> QED BY <1>1, <3>1, <4>1, Consistent
    <3>4. root_index_[k + 1] \in Nat
      BY <3>1, Types, SMTT(30)
    <3> QED BY <1>1, <3>2, <3>3, <3>4
  <2> QED BY <1>1, <2>1, <2>2
<1>9. ASSUME NEW a \in S, NEW b \in S PROVE Mutual(graph, a, b)
  <2>1. Mutual(graph, a, open_[ix]) /\ Mutual(graph, b, open_[ix])
    BY <1>2, <1>8
  <2> QED BY <2>1, MutualEquivalence
<1>10. Closed(graph, visited)
  <2> SUFFICES ASSUME NEW n \in visited PROVE Succ(graph, n) \subseteq visited
    BY DEF Closed
  <2>1. PICK k \in 1 .. Len(sccs) : n \in sccs[k]
    BY DEF IInv, ComponentsCorrect, Handed
  <2>2. Succ(graph, n) \subseteq UNION {sccs[j] : j \in 1 .. k}
    BY <2>1 DEF IInv, ComponentsCorrect
  <2>3. \A j \in 1 .. k : j \in 1 .. Len(sccs)
    BY Types
  <2> QED BY <2>2, <2>3 DEF IInv, ComponentsCorrect, Handed
<1>11. Closed(graph, S \cup visited) /\ S \cup visited \subseteq Node
  BY <1>4, <1>7, <1>10, Types DEF Closed
<1>12. ASSUME NEW a \in S, NEW b \in Node, Mutual(graph, a, b) PROVE b \in S
  <2>1. Reach(graph, a, b) /\ Reach(graph, b, a)
    BY <1>12 DEF Mutual
  <2>2. b \in S \cup visited
    BY <1>11, <2>1, ReachStaysInside
  <2>3. b \notin visited
    <3> SUFFICES ASSUME b \in visited PROVE FALSE
      OBVIOUS
    <3>1. a \in visited
      BY <1>10, <2>1, ReachStaysInside, Types
    <3>2. visited \cap DOMAIN scc.is_open_ = {}
      BY DEF IInv, ExaminedOnce
    <3> QED BY <1>4, <3>1, <3>2
  <2> QED BY <2>2, <2>3
<1> QED BY <1>4, <1>5, <1>7, <1>9, <1>12 DEF IsComponent

\* A call that closes an SCC preserves the invariant.
LEMMA CloseSCCPreserves ==
  ASSUME IInv, CloseSCC PROVE IInv'
<1> DEFINE t == Len(stack)
           ix == Top.handle
           R == Len(root_index_)
           D == DOMAIN scc.is_open_
           S == ClosedNodes(scc, Top.handle)
<1>1. /\ Finished
      /\ IsRoot(scc, ix)
      /\ stack' = SubSeq(stack, 1, t - 1)
      /\ visited' = visited \cup S
      /\ sccs' = Append(sccs, S)
      /\ scc' = CloseRoot(scc, ix)
      /\ graph' = graph /\ examined' = examined
  BY DEF CloseSCC
<1>2. /\ ix \in 1 .. Len(open_) /\ Len(open_) \in Nat
      /\ R \in 1 .. R /\ R \in Nat /\ root_index_[R] = ix
      /\ t \in 1 .. t /\ t \in Nat
  <2>1. R \in 1 .. R /\ R \in Nat
    BY <1>1, FinishedFacts, Types
  <2> QED BY <1>1, <2>1, FinishedFacts, Types DEF IsRoot, root_index_
<1>3. ix - 1 \in 0 .. Len(open_) /\ R - 1 \in 0 .. R /\ t - 1 \in 0 .. t
  BY <1>2
<1>4. /\ stack' \in Seq(Frame) /\ Len(stack') = t - 1
      /\ \A f \in 1 .. (t - 1) : stack'[f] = stack[f]
  BY <1>1, <1>3, Types, PrefixElements
<1>5. /\ open_' \in Seq(Node) /\ Len(open_') = ix - 1
      /\ \A i \in 1 .. (ix - 1) : open_'[i] = open_[i]
  <2>1. open_' = SubSeq(open_, 1, ix - 1)
    BY <1>1 DEF CloseRoot, open_
  <2> QED BY <1>3, <2>1, Types, PrefixElements
<1>6. /\ root_index_' \in Seq(Nat) /\ Len(root_index_') = R - 1
      /\ \A k \in 1 .. (R - 1) : root_index_'[k] = root_index_[k]
  <2>1. root_index_' = SubSeq(root_index_, 1, R - 1)
    BY <1>1 DEF CloseRoot, root_index_
  <2> QED BY <1>3, <2>1, Types, PrefixElements
<1>7. /\ DOMAIN scc'.is_open_ = D \ S
      /\ scc'.is_open_ \in [D \ S -> Nat]
      /\ \A n \in D \ S : scc'.is_open_[n] = scc.is_open_[n]
      /\ scc' = [open_ |-> scc'.open_, is_open_ |-> scc'.is_open_,
                 root_index_ |-> scc'.root_index_]
  <2>1. scc'.is_open_ = [n \in D \ S |-> scc.is_open_[n]]
    BY <1>1 DEF CloseRoot
  <2>2. \A n \in D \ S : scc.is_open_[n] \in Nat
    BY Types
  <2> QED BY <1>1, <2>1, <2>2 DEF CloseRoot
<1>8. /\ \A f \in 1 .. (t - 1) : f \in 1 .. t /\ f # t
      /\ \A k \in 1 .. (R - 1) : k \in 1 .. R /\ k < R
      /\ \A i \in 1 .. (ix - 1) : i \in 1 .. Len(open_) /\ i < ix
  BY <1>2
<1>9. S = {open_[o] : o \in ix .. Len(open_)}
  BY DEF ClosedNodes, open_
<1>10. /\ IsComponent(graph, S)
       /\ \A n \in S : Succ(graph, n) \subseteq S \cup visited
       /\ S \subseteq D
  BY <1>1, LastSegmentIsComponent
<1>11. visited \cap D = {}
  BY DEF IInv, ExaminedOnce
<1>12. /\ Len(sccs') = Len(sccs) + 1 /\ sccs'[Len(sccs) + 1] = S
       /\ \A k \in 1 .. Len(sccs) : sccs'[k] = sccs[k]
       /\ Len(sccs) \in Nat /\ sccs' \in Seq(SUBSET Node)
  <2>1. S \in SUBSET Node /\ sccs \in Seq(SUBSET Node)
    BY <1>10, Types
  <2> QED BY <1>1, <2>1, Types, AppendElements
<1>13. TypeOK'
  <2>1. FinderOK(scc, Node)'
    BY <1>5, <1>6, <1>7, Types DEF FinderOK, open_, root_index_
  <2>2. visited' \subseteq Node
    BY <1>1, <1>10, Types
  <2> QED BY <1>1, <1>4, <1>12, <2>1, <2>2, Types DEF TypeOK
<1>14. FinderConsistent'
  <2>1. ASSUME NEW i \in 1 .. (ix - 1)
        PROVE  open_'[i] \in D \ S /\ scc'.is_open_[open_'[i]] = i
    <3>1. open_'[i] = open_[i] /\ open_[i] \in D /\ scc.is_open_[open_[i]] = i
      BY <1>5, <1>8, Consistent
    <3>2. open_[i] \notin S
      <4> SUFFICES ASSUME NEW o \in ix .. Len(open_), open_[o] = open_[i] PROVE FALSE
        BY <1>9
      <4>1. o \in 1 .. Len(open_)
        BY <1>2
      <4>2. scc.is_open_[open_[o]] = o
        BY <4>1, Consistent
      <4>3. o = i
        BY <3>1, <4>2
      <4> QED BY <1>2, <4>3
    <3> QED BY <1>7, <3>1, <3>2
  <2>2. ASSUME NEW n \in D \ S
        PROVE  scc'.is_open_[n] \in 1 .. (ix - 1) /\ open_'[scc'.is_open_[n]] = n
    <3>1. scc'.is_open_[n] = scc.is_open_[n]
      BY <1>7
    <3>2. scc.is_open_[n] \in 1 .. Len(open_) /\ open_[scc.is_open_[n]] = n
      BY Consistent
    <3>3. scc.is_open_[n] \notin ix .. Len(open_)
      BY <1>9, <3>2
    <3>4. scc.is_open_[n] \in 1 .. (ix - 1)
      BY <1>2, <3>2, <3>3
    <3> QED BY <1>5, <3>1, <3>2, <3>4
  <2>3. Cardinality(D \ S) = ix - 1
    <3> DEFINE f == [i \in 1 .. (ix - 1) |-> open_'[i]]
    <3>1. f \in [1 .. (ix - 1) -> D \ S]
      BY <2>1
    <3>2. \A i, j \in 1 .. (ix - 1) : f[i] = f[j] => i = j
      <4>1. \A i \in 1 .. (ix - 1) : scc'.is_open_[f[i]] = i
        BY <2>1
      <4> QED BY <4>1
    <3>3. \A n \in D \ S : \E i \in 1 .. (ix - 1) : f[i] = n
      BY <2>2
    <3>4. ExistsBijection(1 .. (ix - 1), D \ S)
      BY <3>1, <3>2, <3>3
      DEF ExistsBijection, Bijection, Injection, IsInjective, Surjection
    <3>5. IsFiniteSet(1 .. (ix - 1)) /\ Cardinality(1 .. (ix - 1)) = ix - 1
      <4>2. \A m \in Nat : IsFiniteSet(1 .. m) /\ Cardinality(1 .. m) = m
        BY FS_Interval
      <4>3. ix - 1 \in Nat
        BY <1>2
      <4> QED BY <4>2, <4>3
    <3> QED BY <3>4, <3>5, FS_Bijection
  <2>4. ASSUME NEW k \in 1 .. (R - 1) PROVE root_index_'[k] \in 1 .. (ix - 1)
    <3>1. root_index_[k] \in 1 .. Len(open_) /\ root_index_[k] < root_index_[R]
      BY <1>2, <1>8, Consistent
    <3> QED BY <1>2, <1>6, <3>1, SMTT(30)
  <2>5. \A k, l \in 1 .. (R - 1) : k < l => root_index_'[k] < root_index_'[l]
    <3>1. \A k, l \in 1 .. (R - 1) : k < l => root_index_[k] < root_index_[l]
      BY <1>8, Consistent
    <3> QED BY <1>6, <3>1
  <2>6. ASSUME open_' # << >> PROVE root_index_' # << >> /\ root_index_'[1] = 1
    <3>1. ix # 1
      <4> SUFFICES ASSUME ix = 1 PROVE open_' = << >>
        BY <2>6
      <4>1. Len(open_') = 0
        BY <1>5
      <4> QED BY <1>5, <4>1
    <3>2. open_ # << >>
      BY <1>2, Types, SMTT(30)
    <3>3. root_index_[1] = 1
      BY <3>2, Consistent
    <3>4. R # 1
      BY <1>2, <3>1, <3>3
    <3>5. 1 \in 1 .. (R - 1)
      <4>1. R \in Nat /\ R # 0
        BY <1>2
      <4>2. \A r \in Nat : r # 0 /\ r # 1 => 1 \in 1 .. (r - 1)
        OBVIOUS
      <4> QED BY <3>4, <4>1, <4>2
    <3>6. root_index_' # << >>
      BY <1>6, <3>5
    <3> QED BY <1>6, <3>3, <3>5, <3>6
  <2> QED BY <1>5, <1>6, <1>7, <2>1, <2>2, <2>3, <2>4, <2>5, <2>6 DEF FinderConsistent
<1>15. HandlesValid'
  <2>1. ASSUME NEW f \in 1 .. (t - 1)
        PROVE  /\ stack'[f].handle <= ix - 1
               /\ stack'[f].handle >= 1
               /\ open_'[stack'[f].handle] = stack'[f].node
    <3>1. stack'[f] = stack[f] /\ f \in 1 .. t /\ f # t
      BY <1>4, <1>8
    <3>2. stack[f].handle < ix
      BY <1>1, <3>1, FinishedFacts
    <3>3. stack[f].handle \in 1 .. Len(open_) /\ open_[stack[f].handle] = stack[f].node
      BY <3>1, Handles
    <3>4. stack[f].handle \in 1 .. (ix - 1)
      BY <1>2, <3>2, <3>3
    <3> QED BY <1>5, <3>1, <3>3, <3>4
  <2>2. \A f, g \in 1 .. (t - 1) : f < g => stack'[f].handle < stack'[g].handle
    BY <1>4, <1>8 DEF IInv, HandlesValid
  <2>3. ASSUME NEW k \in 1 .. (R - 1)
        PROVE  \E f \in 1 .. (t - 1) : stack'[f].handle = root_index_'[k]
    <3>1. PICK f \in 1 .. t : stack[f].handle = root_index_[k]
      BY <1>8 DEF IInv, HandlesValid
    <3>2. root_index_[k] < ix /\ root_index_[k] \in 1 .. Len(open_)
      BY <1>2, <1>8, Consistent
    <3>3. f # t
      BY <1>2, <3>1, <3>2 DEF Top
    <3>4. f \in 1 .. (t - 1)
      BY <1>2, <3>3
    <3> QED BY <1>4, <1>6, <3>1, <3>4
  <2> QED BY <1>4, <1>5, <1>6, <2>1, <2>2, <2>3 DEF HandlesValid, LegalHandle, open_
<1>16. FramesInRange'
  BY <1>1, <1>4, <1>8 DEF IInv, FramesInRange
<1>17. CallsReach'
  BY <1>1, <1>4, <1>8 DEF IInv, CallsReach
<1>18. SegmentsConnected'
  <2> SUFFICES ASSUME NEW i \in 1 .. (ix - 1)
               PROVE  \E k \in 1 .. (R - 1) :
                         RootOf(k, i)' /\ Mutual(graph, open_'[i], open_'[root_index_'[k]])
    BY <1>1, <1>5, <1>6 DEF SegmentsConnected
  <2>1. PICK k \in 1 .. R :
           RootOf(k, i) /\ Mutual(graph, open_[i], open_[root_index_[k]])
    BY <1>8 DEF IInv, SegmentsConnected
  <2>2. root_index_[k] <= i /\ root_index_[k] \in 1 .. Len(open_)
    BY <2>1, Consistent DEF RootOf
  <2>3. k # R /\ root_index_[k] \in 1 .. (ix - 1)
    BY <1>2, <2>2
  <2>4. k \in 1 .. (R - 1)
    BY <1>2, <2>3
  <2>5. RootOf(k, i)'
    <3>1. k = R - 1 \/ k + 1 \in 1 .. (R - 1)
      BY <1>2, <2>4
    <3> QED BY <1>6, <2>1, <2>3, <2>4, <3>1 DEF RootOf
  <2>6. Mutual(graph, open_'[i], open_'[root_index_'[k]])
    BY <1>5, <1>6, <2>1, <2>3, <2>4
  <2> QED BY <2>4, <2>5, <2>6
<1>19. EdgesAccounted'
  <2> SUFFICES ASSUME NEW i \in 1 .. (ix - 1), NEW n \in Succ(graph, open_[i])
               PROVE
                 \/ n \in visited \cup S
                 \/ \E j \in 1 .. (ix - 1) :
                      /\ open_'[j] = n
                      /\ \A k \in 1 .. (R - 1) :
                           root_index_'[k] <= i => root_index_'[k] <= j
                 \/ \E f \in 1 .. (t - 1) : stack'[f].handle = i /\ n \notin Followed(f)'
    BY <1>1, <1>4, <1>5, <1>6, ZenonT(40) DEF EdgesAccounted
  <2>1. \/ n \in visited
        \/ \E j \in 1 .. Len(open_) :
             /\ open_[j] = n
             /\ \A k \in 1 .. R : root_index_[k] <= i => root_index_[k] <= j
        \/ \E f \in 1 .. t : stack[f].handle = i /\ n \notin Followed(f)
    BY <1>8 DEF IInv, EdgesAccounted
  <2>2. ASSUME NEW j \in 1 .. Len(open_), open_[j] = n,
               \A k \in 1 .. R : root_index_[k] <= i => root_index_[k] <= j
        PROVE  \/ n \in S
               \/ /\ j \in 1 .. (ix - 1)
                  /\ open_'[j] = n
                  /\ \A k \in 1 .. (R - 1) : root_index_'[k] <= i => root_index_'[k] <= j
    <3>1. CASE j \in ix .. Len(open_)
      BY <1>9, <2>2, <3>1
    <3>2. CASE j \in 1 .. (ix - 1)
      BY <1>5, <1>6, <1>8, <2>2, <3>2
    <3> QED BY <1>2, <3>1, <3>2
  <2>3. ASSUME NEW f \in 1 .. t, stack[f].handle = i, n \notin Followed(f)
        PROVE  f \in 1 .. (t - 1) /\ stack'[f].handle = i /\ n \notin Followed(f)'
    <3>1. f # t
      BY <1>2, <2>3 DEF Top
    <3>2. f \in 1 .. (t - 1)
      BY <1>2, <3>1
    <3>3. Followed(f)' = Followed(f)
      BY <1>1, <1>4, <3>2 DEF Followed
    <3> QED BY <1>4, <2>3, <3>2, <3>3
  <2> QED BY <2>1, <2>2, <2>3
<1>20. ExaminedOnce'
  <2>1. visited' \cup (D \ S) = visited \cup D /\ visited' \cap (D \ S) = {}
    BY <1>1, <1>10, <1>11
  <2> QED BY <1>1, <1>7, <2>1 DEF IInv, ExaminedOnce
<1>21. ComponentsCorrect'
  <2> DEFINE K == Len(sccs)
  <2>1. /\ visited = UNION {sccs[k] : k \in 1 .. K}
        /\ \A k \in 1 .. K :
             /\ IsComponent(graph, sccs[k])
             /\ \A n \in sccs[k] : Succ(graph, n) \subseteq UNION {sccs[j] : j \in 1 .. k}
             /\ \A j \in 1 .. K : j # k => sccs[j] \cap sccs[k] = {}
    BY DEF IInv, ComponentsCorrect, Handed
  <2>2. 1 .. (K + 1) = 1 .. K \cup {K + 1}
    BY <1>12
  <2>3. visited' = UNION {sccs'[k] : k \in 1 .. (K + 1)}
    BY <1>1, <1>12, <2>1, <2>2
  <2>4. ASSUME NEW k \in 1 .. (K + 1)
        PROVE  /\ IsComponent(graph, sccs'[k])
               /\ \A n \in sccs'[k] : Succ(graph, n) \subseteq UNION {sccs'[j] : j \in 1 .. k}
               /\ \A j \in 1 .. (K + 1) : j # k => sccs'[j] \cap sccs'[k] = {}
    <3>1. S \cap visited = {}
      BY <1>10, <1>11
    <3>2. CASE k = K + 1
      <4>1. sccs'[k] = S
        BY <1>12, <3>2
      <4>2. UNION {sccs'[j] : j \in 1 .. k} = S \cup visited
        BY <1>1, <2>3, <3>2
      <4>3. \A j \in 1 .. K : sccs'[j] \subseteq visited
        BY <1>12, <2>1
      <4> QED BY <1>10, <2>2, <3>1, <3>2, <4>1, <4>2, <4>3
    <3>3. CASE k \in 1 .. K
      <4>1. sccs'[k] = sccs[k] /\ sccs[k] \subseteq visited
        BY <1>12, <2>1, <3>3
      <4>2. {sccs'[j] : j \in 1 .. k} = {sccs[j] : j \in 1 .. k}
        <5>1. \A j \in 1 .. k : j \in 1 .. K
          BY <1>12, <3>3
        <5> QED BY <1>12, <5>1
      <4>3. ASSUME NEW j \in 1 .. (K + 1), j # k PROVE sccs'[j] \cap sccs'[k] = {}
        <5>1. CASE j = K + 1
          BY <1>12, <3>1, <4>1, <5>1
        <5>2. CASE j \in 1 .. K
          BY <1>12, <2>1, <3>3, <4>3, <5>2
        <5> QED BY <2>2, <5>1, <5>2
      <4> QED BY <2>1, <3>3, <4>1, <4>2, <4>3
    <3> QED BY <2>2, <3>2, <3>3
  <2> QED BY <1>1, <1>12, <2>3, <2>4 DEF ComponentsCorrect, Handed
<1> QED BY <1>13, <1>14, <1>15, <1>16, <1>17, <1>18, <1>19, <1>20, <1>21 DEF IInv
--------------------------------------------------------------------------------
(***************************************************************************)
(* The theorems.                                                           *)
(***************************************************************************)

\* The invariant holds when a search starts.
LEMMA InitEstablishes ==
  ASSUME Init PROVE IInv
<1>1. /\ graph \in [Node -> Seq(Node)] /\ visited = {}
      /\ stack = << >> /\ sccs = << >> /\ examined = << >>
      /\ scc = NewFinder
  BY GraphsAssumption DEF Init
<1>2. open_ = << >> /\ root_index_ = << >> /\ DOMAIN scc.is_open_ = {}
      /\ scc.is_open_ \in [{} -> Nat]
  BY <1>1 DEF open_, root_index_, NewFinder
<1>3. TypeOK
  BY <1>1, <1>2 DEF TypeOK, FinderOK, NewFinder
<1>4. FinderConsistent
  BY <1>2, FS_EmptySet DEF FinderConsistent
<1>5. HandlesValid /\ FramesInRange /\ CallsReach
  BY <1>1, <1>2 DEF HandlesValid, FramesInRange, CallsReach
<1>6. SegmentsConnected /\ EdgesAccounted
  BY <1>2 DEF SegmentsConnected, EdgesAccounted
<1>7. ExaminedOnce
  BY <1>1, <1>2 DEF ExaminedOnce
<1>8. ComponentsCorrect
  BY <1>1 DEF ComponentsCorrect, Handed
<1> QED BY <1>3, <1>4, <1>5, <1>6, <1>7, <1>8 DEF IInv

\* The top level of the test opens a node nobody has seen.
LEMMA StartPreserves ==
  ASSUME IInv, NEW node \in Node, Start(node) PROVE IInv'
<1>1. stack = << >> /\ node \notin visited /\ Enter(node, stack)
  BY DEF Start, Running
<1>2. Len(stack) = 0
  BY <1>1
<1>3. \A k \in 1 .. Len(root_index_) : FALSE
  BY <1>2 DEF IInv, HandlesValid
<1>4. root_index_ = << >>
  BY <1>3, Types
<1>5. ~IsOpen(scc, node)
  <2>1. open_ = << >>
    BY <1>4, Consistent
  <2>2. \A n \in DOMAIN scc.is_open_ : scc.is_open_[n] \in 1 .. Len(open_)
    BY Consistent
  <2>3. DOMAIN scc.is_open_ = {}
    BY <2>1, <2>2
  <2> QED BY <2>3 DEF IsOpen
<1>6. stack \in Seq(Frame) /\ node \in Node \ visited
  BY <1>1, Types
<1>7. \A f \in 1 .. Len(stack) :
        /\ stack[f].next \in 1 .. (Len(graph[stack[f].node]) + 1)
        /\ Reach(graph, stack[f].node, node)
        /\ \A e \in 1 .. (stack[f].next - 1) :
             \/ graph[stack[f].node][e] \in Followed(f)
             \/ graph[stack[f].node][e] = node
  BY <1>2
<1>8. Enter(node, stack)
  BY <1>1
<1> QED BY <1>5, <1>6, <1>7, <1>8, EnterPreserves

\* Following an edge to a node nobody has seen.
LEMMA DescendPreserves ==
  ASSUME IInv, Descend PROVE IInv'
<1>1. /\ HasEdge /\ Child \notin visited /\ ~IsOpen(scc, Child)
      /\ Enter(Child, Advanced)
  BY DEF Descend
<1>2. Child \in Node \ visited
  BY <1>1, AdvancedFacts
<1>3. Advanced \in Seq(Frame) /\ Len(Advanced) = Len(stack)
  BY <1>1, AdvancedFacts
<1>4. ASSUME NEW f \in 1 .. Len(stack)
      PROVE  /\ Advanced[f].node = stack[f].node
             /\ Advanced[f].handle = stack[f].handle
             /\ Advanced[f].next \in 1 .. (Len(graph[stack[f].node]) + 1)
             /\ Reach(graph, stack[f].node, Child)
             /\ \A e \in 1 .. (Advanced[f].next - 1) :
                  \/ graph[Advanced[f].node][e] \in Followed(f)
                  \/ graph[Advanced[f].node][e] = Child
  <2>1. /\ Advanced[f].node = stack[f].node
        /\ Advanced[f].handle = stack[f].handle
        /\ Advanced[f].next = IF f = Len(stack) THEN stack[f].next + 1
                                                ELSE stack[f].next
        /\ Len(stack) \in 1 .. Len(stack)
        /\ Child \in Succ(graph, Top.node)
    BY <1>1, AdvancedFacts
  <2>2. stack[f] \in Frame
    BY Handles
  <2>3. stack[f].next \in Nat /\ Len(graph[stack[f].node]) \in Nat
    BY <2>2, Types, SMTT(30) DEF Frame
  <2>4. stack[f].next \in 1 .. (Len(graph[stack[f].node]) + 1)
    BY DEF IInv, FramesInRange
  <2>5. f = Len(stack) => stack[f].next <= Len(graph[stack[f].node])
    BY <1>1 DEF HasEdge, Top
  <2>6. Advanced[f].next \in 1 .. (Len(graph[stack[f].node]) + 1)
    BY <2>1, <2>3, <2>4, <2>5
  <2>7. Reach(graph, stack[f].node, Child)
    <3>1. Reach(graph, Top.node, Child)
      BY <2>1, ReachEdge
    <3>2. f = Len(stack) \/ f < Len(stack)
      BY <2>1
    <3>3. Reach(graph, stack[f].node, Top.node)
      BY <2>1, <3>2, ReachReflexive DEF IInv, CallsReach, Top
    <3> QED BY <3>1, <3>3, ReachTransitive
  <2>8. ASSUME NEW e \in 1 .. (Advanced[f].next - 1)
        PROVE  \/ graph[stack[f].node][e] \in Followed(f)
               \/ graph[stack[f].node][e] = Child
    <3>1. CASE e \in 1 .. (stack[f].next - 1)
      BY <3>1 DEF Followed
    <3>2. CASE e \notin 1 .. (stack[f].next - 1)
      <4>1. f = Len(stack)
        BY <2>1, <3>2
      <4>2. e = stack[f].next
        BY <2>1, <2>3, <3>2, <4>1
      <4> QED BY <4>1, <4>2 DEF Child, Top
    <3> QED BY <3>1, <3>2
  <2> QED BY <2>1, <2>6, <2>7, <2>8
<1>5. Enter(Child, Advanced) /\ ~IsOpen(scc, Child)
  BY <1>1
<1> QED BY <1>2, <1>3, <1>4, <1>5, EnterPreserves

\* Following an edge to a node that has its SCC.
LEMMA SkipVisitedPreserves ==
  ASSUME IInv, SkipVisited PROVE IInv'
<1> DEFINE R == Len(root_index_)
<1>1. /\ HasEdge /\ Child \in visited /\ stack' = Advanced /\ scc' = scc
      /\ UNCHANGED <<graph, visited, sccs, examined>>
  BY DEF SkipVisited
<1>2. R \in 1 .. R
  <2>1. Len(stack) \in 1 .. Len(stack)
    BY <1>1, AdvancedFacts
  <2>2. stack[Len(stack)].handle \in 1 .. Len(open_)
    BY <2>1, Handles
  <2>3. open_ # << >>
    BY <2>2, Types
  <2>4. root_index_ # << >>
    BY <2>3, Consistent
  <2> QED BY <2>4, Types
<1>3. SubSeq(root_index_, 1, R) = root_index_
  BY Types
<1>4. scc' = [open_ |-> open_, is_open_ |-> scc.is_open_,
              root_index_ |-> SubSeq(root_index_, 1, R)]
  BY <1>1, <1>3 DEF IInv, TypeOK, FinderOK, open_, root_index_
<1>5. open_' = open_
  BY <1>1 DEF open_
<1> QED BY <1>1, <1>2, <1>4, <1>5, AdvancePreserves

\* Following an edge to an open node.
LEMMA MeetOpenPreserves ==
  ASSUME IInv, MeetOpen PROVE IInv'
<1>1. /\ HasEdge /\ IsOpen(scc, Child) /\ stack' = Advanced
      /\ scc' = OpenAgain(scc, Child)
      /\ UNCHANGED <<graph, visited, sccs, examined>>
  BY DEF MeetOpen
<1> DEFINE m == RootsUpTo(scc, scc.is_open_[Child])
<1>2. /\ m \in 1 .. Len(root_index_)
      /\ RootOf(m, scc.is_open_[Child])
      /\ Mutual(graph, Child, open_[root_index_[m]])
  BY <1>1, RootsKept DEF IsOpen
<1>3. scc.is_open_[Child] \in 1 .. Len(open_) /\ open_[scc.is_open_[Child]] = Child
  BY <1>1, Consistent DEF IsOpen
<1>4. scc' = [open_ |-> open_, is_open_ |-> scc.is_open_,
              root_index_ |-> SubSeq(root_index_, 1, m)]
  BY <1>1 DEF OpenAgain, open_, root_index_
<1>5. open_' = open_
  BY <1>4 DEF open_
<1> HIDE DEF m
<1> QED BY <1>1, <1>2, <1>3, <1>4, <1>5, AdvancePreserves

\* Every step of the search preserves the invariant.
LEMMA StepPreserves ==
  ASSUME IInv, [Next]_vars PROVE IInv'
<1>1. ASSUME NEW node \in Node, Start(node) PROVE IInv'
  BY <1>1, StartPreserves
<1>2. CASE Descend
  BY <1>2, DescendPreserves
<1>3. CASE SkipVisited
  BY <1>3, SkipVisitedPreserves
<1>4. CASE MeetOpen
  BY <1>4, MeetOpenPreserves
<1>5. CASE CloseSCC
  BY <1>5, CloseSCCPreserves
<1>6. CASE CloseNothing
  BY <1>6, CloseNothingPreserves
<1>7. CASE UNCHANGED vars
  <2>1. /\ graph' = graph /\ visited' = visited /\ scc' = scc /\ stack' = stack
        /\ sccs' = sccs /\ examined' = examined
    BY <1>7 DEF vars
  <2>2. open_' = open_ /\ root_index_' = root_index_
    BY <2>1 DEF open_, root_index_
  <2>3. TypeOK' /\ ExaminedOnce'
    BY <2>1 DEF IInv, TypeOK, ExaminedOnce
  <2>4. FinderConsistent' /\ HandlesValid'
    BY <2>1, <2>2 DEF IInv, FinderConsistent, HandlesValid
  <2>5. FramesInRange' /\ CallsReach'
    BY <2>1 DEF IInv, FramesInRange, CallsReach
  <2>6. SegmentsConnected'
    BY <2>1, <2>2 DEF IInv, SegmentsConnected, RootOf
  <2>7. EdgesAccounted'
    BY <2>1, <2>2 DEF IInv, EdgesAccounted, Followed
  <2>8. ComponentsCorrect'
    BY <2>1 DEF IInv, ComponentsCorrect, Handed
  <2> QED BY <2>3, <2>4, <2>5, <2>6, <2>7, <2>8 DEF IInv
<1> QED BY <1>1, <1>2, <1>3, <1>4, <1>5, <1>6, <1>7 DEF Next, Terminated

\* The inductive invariant is an invariant of the search.
THEOREM Invariance == Spec => []IInv
<1>1. Init => IInv
  BY InitEstablishes
<1>2. IInv /\ [Next]_vars => IInv'
  BY StepPreserves
<1> QED BY <1>1, <1>2, PTL DEF Spec

\* Type correctness of the search and the finder.
THEOREM TypeCorrect == Spec => []TypeOK
<1>1. IInv => TypeOK
  BY DEF IInv
<1> QED BY <1>1, Invariance, PTL

\* The SCCs handed out are exactly the strongly-connected components of the
\* graph, disjoint and leaves first: the guarantee of scc.h.
THEOREM ComponentsTheorem == Spec => []ComponentsCorrect
<1>1. IInv => ComponentsCorrect
  BY DEF IInv
<1> QED BY <1>1, Invariance, PTL

\* No node is examined twice: the other guarantee of scc.h.
THEOREM ExaminedOnceTheorem == Spec => []ExaminedOnce
<1>1. IInv => ExaminedOnce
  BY DEF IInv
<1> QED BY <1>1, Invariance, PTL

\* The private fields of the finder stay consistent.
THEOREM FinderConsistentTheorem == Spec => []FinderConsistent
<1>1. IInv => FinderConsistent
  BY DEF IInv
<1> QED BY <1>1, Invariance, PTL

\* The Check in Close cannot fail: every handle in use names its own node.
THEOREM HandlesValidTheorem == Spec => []HandlesValid
<1>1. IInv => HandlesValid
  BY DEF IInv
<1> QED BY <1>1, Invariance, PTL

\* Between top-level searches the finder carries no state.
THEOREM EmptyTheorem == Spec => []EmptyBetweenSearches
<1>1. ASSUME IInv PROVE EmptyBetweenSearches
  <2> SUFFICES ASSUME stack = << >> PROVE Empty(scc)
    BY DEF EmptyBetweenSearches, Running
  <2>1. \A k \in 1 .. Len(root_index_) : FALSE
    BY <1>1 DEF IInv, HandlesValid
  <2>2. root_index_ = << >>
    BY <1>1, <2>1, Types
  <2>3. open_ = << >>
    BY <1>1, <2>2, Consistent
  <2>4. \A n \in DOMAIN scc.is_open_ : scc.is_open_[n] \in 1 .. Len(open_)
    BY <1>1, Consistent
  <2>5. DOMAIN scc.is_open_ = {}
    BY <2>3, <2>4
  <2> QED BY <2>2, <2>3, <2>5 DEF Empty, open_, root_index_
<1> QED BY <1>1, Invariance, PTL
\* The search implements its abstract specification: closing an SCC hands out
\* the next component, every other step is invisible.
THEOREM Refinement == Spec => Implements
<1>1. Init => Abstract!Init
  BY DEF Init, Abstract!Init
<1>2. ASSUME IInv, [Next]_vars PROVE [Abstract!Next]_<<graph, sccs>>
  <2>1. CASE CloseSCC
    <3> DEFINE S == ClosedNodes(scc, Top.handle)
    <3>1. /\ Finished /\ IsRoot(scc, Top.handle)
          /\ sccs' = Append(sccs, S) /\ graph' = graph
      BY <2>1 DEF CloseSCC
    <3>2. /\ IsComponent(graph, S) /\ S \subseteq DOMAIN scc.is_open_
          /\ \A n \in S : Succ(graph, n) \subseteq S \cup visited
      BY <1>2, <3>1, LastSegmentIsComponent
    <3>3. visited = Abstract!Emitted
      BY <1>2 DEF IInv, ComponentsCorrect, Handed, Abstract!Emitted
    <3>4. S \cap Abstract!Emitted = {}
      BY <1>2, <3>2, <3>3 DEF IInv, ExaminedOnce
    <3>5. Abstract!IsComponent(graph, S)
      BY <3>2 DEF IsComponent, Abstract!IsComponent, Mutual, Abstract!Mutual,
         Reach, Abstract!Reach, Closed, Abstract!Closed, Succ, Abstract!Succ
    <3>6. \A n \in S : Abstract!Succ(graph, n) \subseteq S \cup Abstract!Emitted
      BY <3>2, <3>3 DEF Succ, Abstract!Succ
    <3>7. S \in SUBSET Node
      BY <1>2, <3>2, Types
    <3>8. Abstract!Emit(S)
      BY <3>1, <3>4, <3>5, <3>6 DEF Abstract!Emit
    <3> QED BY <3>7, <3>8 DEF Abstract!Next
  <2>2. CASE UNCHANGED <<graph, sccs>>
    BY <2>2
  <2>3. CASE \E node \in Node : Start(node)
    BY <2>3 DEF Start, Enter
  <2>4. CASE Descend \/ SkipVisited \/ MeetOpen \/ CloseNothing
    BY <2>4 DEF Descend, Enter, SkipVisited, MeetOpen, CloseNothing
  <2>5. CASE UNCHANGED vars
    BY <2>5 DEF vars
  <2> QED BY <1>2, <2>1, <2>3, <2>4, <2>5 DEF Next, Terminated
<1>3. IInv /\ [Next]_vars => [Abstract!Next]_<<graph, sccs>>
  BY <1>2
<1> QED BY <1>1, <1>3, Invariance, PTL DEF Spec, Implements, Abstract!Spec
================================================================================
