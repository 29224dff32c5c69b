------------------------------- MODULE CompareProofs -------------------------------
(***************************************************************************)
(* Proofs about Compare, for every set of comparisons and every plan: the  *)
(* verdicts are right, and the outcomes are the difference graph.          *)
(***************************************************************************)
EXTENDS Compare, PositionsProofs

\* The search that Compare is, with what is proved of it.
P == INSTANCE SCCProofs WITH
       Node    <- Comparison,
       Graphs  <- [Comparison -> Seq(Comparison)],
       graph   <- GraphOf(plan),
       visited <- DOMAIN known,
       stack   <- CallsOf(stack)

--------------------------------------------------------------------------------
(***************************************************************************)
(* Plans and equality.                                                     *)
(***************************************************************************)

\* What the items of a plan are.
LEMMA PlanItems ==
  ASSUME plan \in [Comparison -> Plan], NEW c \in Comparison
  PROVE  /\ Len(plan[c].items) \in Nat /\ plan[c].holds \in BOOLEAN
         /\ \A i \in 1 .. Len(plan[c].items) :
              /\ plan[c].items[i] \in Item
              /\ IsEdge(plan[c].items[i]) => plan[c].items[i].to \in Comparison
<1>1. plan[c].items \in Seq(Item) /\ plan[c].holds \in BOOLEAN
  BY DEF Plan
<1>2. \A i \in 1 .. Len(plan[c].items) : plan[c].items[i] \in Item
  BY <1>1, ElementOfSeq
<1>3. \A item \in Item : IsEdge(item) => item.to \in Comparison
  BY Zenon DEF Item, IsEdge
<1> QED BY <1>1, <1>2, <1>3, LenProperties

\* The graph of comparisons: where each item leads.
LEMMA GraphItems ==
  ASSUME plan \in [Comparison -> Plan]
  PROVE  /\ GraphOf(plan) \in [Comparison -> Seq(Comparison)]
         /\ \A c \in Comparison :
              /\ Len(GraphOf(plan)[c]) = Len(plan[c].items)
              /\ \A i \in 1 .. Len(plan[c].items) :
                   GraphOf(plan)[c][i] = IF IsEdge(plan[c].items[i]) THEN plan[c].items[i].to
                                                                     ELSE c
<1> SUFFICES ASSUME NEW c \in Comparison
             PROVE  /\ GraphOf(plan)[c] \in Seq(Comparison)
                    /\ Len(GraphOf(plan)[c]) = Len(plan[c].items)
                    /\ \A i \in 1 .. Len(plan[c].items) :
                         GraphOf(plan)[c][i] = IF IsEdge(plan[c].items[i])
                                               THEN plan[c].items[i].to ELSE c
  BY DEF GraphOf
<1> DEFINE n == Len(plan[c].items)
           s == [i \in 1 .. n |-> IF IsEdge(plan[c].items[i]) THEN plan[c].items[i].to ELSE c]
<1>1. n \in Nat /\ s \in [1 .. n -> Comparison]
  BY PlanItems
<1>2. s \in Seq(Comparison) /\ Len(s) = n
  <2> HIDE DEF s, n
  <2>1. s \in Seq(Comparison)
    BY <1>1, SeqDef
  <2> QED BY <1>1, <2>1, LenProperties
<1>3. GraphOf(plan)[c] = s
  BY DEF GraphOf
<1> QED BY <1>2, <1>3

\* A comparison that finds a difference on the spot is unequal.
LEMMA LocalDifference ==
  ASSUME NEW c \in Comparison, DiffersLocally(plan, c) PROVE ~Equal(plan, c)
BY P!ReachReflexive DEF Equal, Paths!Reach, P!Reach, Paths!Closed, P!Closed, Paths!Succ, P!Succ

\* What is reached from equal nodes is equal.
LEMMA EqualReach ==
  ASSUME NEW c \in Comparison, NEW d \in Comparison, Equal(plan, c),
         Paths!Reach(GraphOf(plan), c, d)
  PROVE  Equal(plan, d)
<1> SUFFICES ASSUME NEW e \in Comparison, Paths!Reach(GraphOf(plan), d, e)
             PROVE  ~DiffersLocally(plan, e)
  BY DEF Equal
<1>1. Paths!Reach(GraphOf(plan), c, e)
  BY DEF Paths!Reach
<1> QED BY <1>1 DEF Equal

\* A comparison made by equal nodes is of equal ones.
LEMMA EqualEdge ==
  ASSUME plan \in [Comparison -> Plan], NEW c \in Comparison, Equal(plan, c),
         NEW i \in 1 .. Len(plan[c].items)
  PROVE  /\ IsEdge(plan[c].items[i])
         /\ plan[c].items[i].to \in Comparison /\ Equal(plan, plan[c].items[i].to)
<1>1. IsEdge(plan[c].items[i])
  BY LocalDifference DEF DiffersLocally
<1> DEFINE d == plan[c].items[i].to
<1>2. d \in Comparison
  BY <1>1, PlanItems
<1>3. d = GraphOf(plan)[c][i] /\ i \in 1 .. Len(GraphOf(plan)[c])
  BY <1>1, GraphItems
<1>4. d \in Paths!Succ(GraphOf(plan), c)
  BY <1>3 DEF Paths!Succ
<1>5. Paths!Reach(GraphOf(plan), c, d)
  BY <1>4 DEF Paths!Reach, Paths!Closed
<1> QED BY <1>1, <1>2, <1>5, EqualReach

\* A set of comparisons of which none finds a difference on the spot and none leads
\* out is one of equal nodes.
LEMMA EqualSet ==
  ASSUME plan \in [Comparison -> Plan], NEW S \in SUBSET Comparison,
         \A c \in S : \A i \in 1 .. Len(plan[c].items) :
           IsEdge(plan[c].items[i]) /\ plan[c].items[i].to \in S
  PROVE  \A c \in S : Equal(plan, c)
<1>1. Paths!Closed(GraphOf(plan), S)
  <2> SUFFICES ASSUME NEW c \in S, NEW i \in 1 .. Len(GraphOf(plan)[c])
               PROVE  GraphOf(plan)[c][i] \in S
    BY DEF Paths!Closed, Paths!Succ
  <2> QED BY GraphItems
<1> SUFFICES ASSUME NEW c \in S, NEW d \in Comparison, Paths!Reach(GraphOf(plan), c, d)
             PROVE  ~DiffersLocally(plan, d)
  BY DEF Equal
<1>2. d \in S
  BY <1>1 DEF Paths!Reach
<1> QED BY <1>2 DEF DiffersLocally

--------------------------------------------------------------------------------
(***************************************************************************)
(* Calls.                                                                  *)
(***************************************************************************)

\* The calls as those of the search.
LEMMA CallsElements ==
  ASSUME NEW s \in Seq(Frame)
  PROVE  /\ CallsOf(s) \in Seq(P!Frame) /\ Len(CallsOf(s)) = Len(s) /\ Len(s) \in Nat
         /\ \A f \in 1 .. Len(s) :
              /\ CallsOf(s)[f] = Call(s[f]) /\ s[f] \in Frame /\ Call(s[f]) \in P!Frame
              /\ CallsOf(s)[f].node = s[f].node
              /\ CallsOf(s)[f].handle = s[f].handle
              /\ CallsOf(s)[f].next = s[f].next
<1>1. Len(s) \in Nat /\ \A f \in 1 .. Len(s) : s[f] \in Frame
  BY LenProperties, ElementOfSeq
<1>2. \A f \in 1 .. Len(s) : Call(s[f]) \in P!Frame
  BY <1>1 DEF Call, Frame, P!Frame
<1>3. CallsOf(s) \in [1 .. Len(s) -> P!Frame]
  BY <1>2 DEF CallsOf
<1>4. CallsOf(s) \in Seq(P!Frame)
  BY <1>1, <1>3, SeqDef
<1>5. Len(CallsOf(s)) = Len(s)
  BY <1>1, <1>3, <1>4, LenProperties
<1>6. \A f \in 1 .. Len(s) : CallsOf(s)[f] = Call(s[f])
  BY DEF CallsOf
<1>7. \A f \in 1 .. Len(s) : /\ CallsOf(s)[f].node = s[f].node
                             /\ CallsOf(s)[f].handle = s[f].handle
                             /\ CallsOf(s)[f].next = s[f].next
  BY DEF CallsOf, Call
<1> QED BY <1>1, <1>2, <1>4, <1>5, <1>6, <1>7

\* A call more.
LEMMA CallsAppend ==
  ASSUME NEW s \in Seq(Frame), NEW frame \in Frame
  PROVE  CallsOf(Append(s, frame)) = Append(CallsOf(s), Call(frame))
<1> DEFINE t == Append(s, frame)
<1>1. t \in Seq(Frame) /\ Len(t) = Len(s) + 1 /\ t[Len(s) + 1] = frame
      /\ \A f \in 1 .. Len(s) : t[f] = s[f]
  BY AppendProperties
<1>2. /\ CallsOf(t) \in Seq(P!Frame) /\ Len(CallsOf(t)) = Len(s) + 1 /\ Len(s) \in Nat
      /\ \A f \in 1 .. Len(s) + 1 : CallsOf(t)[f] = Call(t[f])
  <2> HIDE DEF t
  <2> QED BY <1>1, CallsElements
<1> DEFINE u == Append(CallsOf(s), Call(frame))
<1>3. /\ u \in Seq(P!Frame) /\ Len(u) = Len(s) + 1 /\ u[Len(s) + 1] = Call(frame)
      /\ \A f \in 1 .. Len(s) : u[f] = Call(s[f])
  <2>1. Call(frame) \in P!Frame
    BY DEF Call, Frame, P!Frame
  <2>2. CallsOf(s) \in Seq(P!Frame) /\ Len(CallsOf(s)) = Len(s)
        /\ \A f \in 1 .. Len(s) : CallsOf(s)[f] = Call(s[f])
    BY CallsElements
  <2> QED BY <2>1, <2>2, AppendProperties
<1>4. \A f \in 1 .. Len(s) + 1 : CallsOf(t)[f] = u[f]
  BY <1>1, <1>2, <1>3
<1> QED
  <2> HIDE DEF t, u
  <2>1. CallsOf(t) = u
    BY <1>2, <1>3, <1>4, SeqEqual
  <2> QED BY <2>1 DEF t, u

\* A call less.
LEMMA CallsPrefix ==
  ASSUME NEW s \in Seq(Frame), NEW n \in 0 .. Len(s), NEW t \in Seq(Frame), Len(t) = n,
         \A f \in 1 .. n : Call(t[f]) = Call(s[f])
  PROVE  CallsOf(t) = SubSeq(CallsOf(s), 1, n)
<1>1. CallsOf(s) \in Seq(P!Frame) /\ Len(CallsOf(s)) = Len(s) /\ Len(s) \in Nat
      /\ \A f \in 1 .. Len(s) : CallsOf(s)[f] = Call(s[f])
  BY CallsElements
<1>2. CallsOf(t) \in Seq(P!Frame) /\ Len(CallsOf(t)) = n
      /\ \A f \in 1 .. n : CallsOf(t)[f] = Call(t[f])
  BY CallsElements
<1> DEFINE u == SubSeq(CallsOf(s), 1, n)
<1>3. u \in Seq(P!Frame) /\ Len(u) = n /\ \A f \in 1 .. n : u[f] = CallsOf(s)[f]
  <2>1. \A f \in 1 .. n : f \in 1 .. Len(s)
    BY <1>1
  <2>2. \A f \in 1 .. n : CallsOf(s)[f] \in P!Frame
    BY <1>1, <2>1, ElementOfSeq
  <2> QED BY <1>1, <2>2, SubSeqProperties
<1>4. \A f \in 1 .. n : CallsOf(t)[f] = u[f]
  BY <1>1, <1>2, <1>3
<1> HIDE DEF u
<1>5. CallsOf(t) = u
  BY <1>2, <1>3, <1>4, SeqEqual
<1> QED BY <1>5 DEF u

\* A call one item further on.
LEMMA CallsProceed ==
  ASSUME NEW s \in Seq(Frame), s # << >>, NEW t \in Seq(Frame), Len(t) = Len(s),
         \A f \in 1 .. Len(s) :
           Call(t[f]) = IF f = Len(s) THEN [Call(s[f]) EXCEPT !.next = @ + 1] ELSE Call(s[f])
  PROVE  CallsOf(t) = [CallsOf(s) EXCEPT ![Len(CallsOf(s))].next = @ + 1]
<1>1. CallsOf(s) \in Seq(P!Frame) /\ Len(CallsOf(s)) = Len(s) /\ Len(s) \in Nat
      /\ \A f \in 1 .. Len(s) : CallsOf(s)[f] = Call(s[f]) /\ Call(s[f]) \in P!Frame
  BY CallsElements
<1>2. Len(s) \in 1 .. Len(s)
  BY <1>1, EmptySeq
<1>3. CallsOf(t) \in Seq(P!Frame) /\ Len(CallsOf(t)) = Len(s)
      /\ \A f \in 1 .. Len(s) : CallsOf(t)[f] = Call(t[f])
  BY CallsElements
<1> DEFINE e == [Call(s[Len(s)]) EXCEPT !.next = @ + 1]
           u == [CallsOf(s) EXCEPT ![Len(s)] = e]
<1>4. e \in P!Frame
  <2> DEFINE x == Call(s[Len(s)])
  <2>1. x \in P!Frame
    BY <1>1, <1>2
  <2> HIDE DEF x
  <2>2. [x EXCEPT !.next = x.next + 1] \in P!Frame
    BY <2>1 DEF P!Frame
  <2> QED BY <2>2 DEF x
<1>5. u \in Seq(P!Frame) /\ Len(u) = Len(s)
      /\ \A f \in 1 .. Len(s) : u[f] = IF f = Len(s) THEN e ELSE CallsOf(s)[f]
  <2> HIDE DEF e
  <2> QED BY <1>1, <1>2, <1>4, ExceptSeq
<1>6. \A f \in 1 .. Len(s) : CallsOf(t)[f] = u[f]
  BY ZenonT(40), <1>1, <1>3, <1>5
<1>7. u = [CallsOf(s) EXCEPT ![Len(CallsOf(s))].next = @ + 1]
  BY <1>1, <1>2
<1> HIDE DEF u
<1>8. CallsOf(t) = u
  BY <1>3, <1>5, <1>6, SeqEqual
<1> QED BY <1>7, <1>8

--------------------------------------------------------------------------------
(***************************************************************************)
(* The finder is the search's.                                             *)
(***************************************************************************)

\* Their operators are the same.
LEMMA SameFinder ==
  ASSUME NEW f, NEW c
  PROVE  /\ P!Cardinality(c) = Cardinality(c)
         /\ P!Max(c) = Max(c)
         /\ P!NewFinder = NewFinder
         /\ P!OpenNew(f, c) = OpenNew(f, c)
         /\ P!OpenAgain(f, c) = OpenAgain(f, c)
         /\ P!CloseRoot(f, c) = CloseRoot(f, c)
         /\ P!ClosedNodes(f, c) = ClosedNodes(f, c)
         /\ P!NextIndex(f) = NextIndex(f)
<1>1. \A S : P!Cardinality(S) = Cardinality(S)
  BY DEF Cardinality, P!Cardinality
<1>2. \A S : P!Max(S) = Max(S)
  BY DEF Max, P!Max
<1>3. P!NextIndex(f) = NextIndex(f)
  BY <1>1 DEF NextIndex, P!NextIndex
<1>4. P!OpenNew(f, c) = OpenNew(f, c)
  BY <1>3 DEF OpenNew, P!OpenNew
<1>5. \A i : P!RootsUpTo(f, i) = RootsUpTo(f, i)
  BY <1>2 DEF RootsUpTo, P!RootsUpTo
<1>6. P!OpenAgain(f, c) = OpenAgain(f, c)
  BY <1>5 DEF OpenAgain, P!OpenAgain
<1>7. P!ClosedNodes(f, c) = ClosedNodes(f, c)
  BY DEF ClosedNodes, P!ClosedNodes
<1>8. P!CloseRoot(f, c) = CloseRoot(f, c)
  BY <1>7 DEF CloseRoot, P!CloseRoot
<1>9. P!NewFinder = NewFinder
  BY DEF NewFinder, P!NewFinder
<1> QED BY <1>1, <1>2, <1>3, <1>4, <1>6, <1>7, <1>8, <1>9

--------------------------------------------------------------------------------
(***************************************************************************)
(* What the search's invariant says of Compare.                            *)
(***************************************************************************)

\* The finder and the calls fit together.
LEMMA SearchFacts ==
  ASSUME P!IInv, stack \in Seq(Frame)
  PROVE  /\ scc.open_ \in Seq(Comparison) /\ Len(scc.open_) \in Nat
         /\ scc = [open_ |-> scc.open_, is_open_ |-> scc.is_open_, root_index_ |-> scc.root_index_]
         /\ DOMAIN scc.is_open_ \subseteq Comparison
         /\ NextIndex(scc) = Len(scc.open_) + 1
         /\ \A o \in 1 .. Len(scc.open_) :
              /\ scc.open_[o] \in Comparison /\ IsOpen(scc, scc.open_[o])
              /\ scc.is_open_[scc.open_[o]] = o
         /\ \A c : IsOpen(scc, c) =>
              scc.is_open_[c] \in 1 .. Len(scc.open_) /\ scc.open_[scc.is_open_[c]] = c
         /\ \A c : IsOpen(scc, c) => c \notin DOMAIN known
         /\ \A f \in 1 .. Len(stack) :
              /\ stack[f] \in Frame
              /\ stack[f].handle \in 1 .. Len(scc.open_)
              /\ scc.open_[stack[f].handle] = stack[f].node
         /\ \A f, g \in 1 .. Len(stack) : f < g => stack[f].handle < stack[g].handle
         /\ Len(stack) \in Nat
<1>1. /\ Len(CallsOf(stack)) = Len(stack) /\ Len(stack) \in Nat
      /\ \A f \in 1 .. Len(stack) :
           /\ CallsOf(stack)[f].node = stack[f].node
           /\ CallsOf(stack)[f].handle = stack[f].handle
           /\ stack[f] \in Frame
  BY CallsElements
<1>2. /\ scc.open_ \in Seq(Comparison)
      /\ scc = [open_ |-> scc.open_, is_open_ |-> scc.is_open_, root_index_ |-> scc.root_index_]
      /\ DOMAIN scc.is_open_ \subseteq Comparison
  BY DEF P!IInv, P!TypeOK, P!FinderOK
<1>3. Len(scc.open_) \in Nat /\ \A o \in 1 .. Len(scc.open_) : scc.open_[o] \in Comparison
  BY <1>2, LenProperties, ElementOfSeq
<1>4. /\ P!Cardinality(DOMAIN scc.is_open_) = Len(scc.open_)
      /\ \A o \in 1 .. Len(scc.open_) :
           scc.open_[o] \in DOMAIN scc.is_open_ /\ scc.is_open_[scc.open_[o]] = o
      /\ \A c \in DOMAIN scc.is_open_ :
           scc.is_open_[c] \in 1 .. Len(scc.open_) /\ scc.open_[scc.is_open_[c]] = c
  BY DEF P!IInv, P!FinderConsistent, P!open_
<1>5. \A c : c \in DOMAIN scc.is_open_ => c \notin DOMAIN known
  BY DEF P!IInv, P!ExaminedOnce
<1>6. \A f \in 1 .. Len(stack) :
        /\ stack[f].handle \in 1 .. Len(scc.open_)
        /\ scc.open_[stack[f].handle] = stack[f].node
  <2> SUFFICES ASSUME NEW f \in 1 .. Len(stack)
               PROVE  /\ stack[f].handle \in 1 .. Len(scc.open_)
                      /\ scc.open_[stack[f].handle] = stack[f].node
    OBVIOUS
  <2>1. /\ stack[f].handle <= Len(scc.open_)
        /\ scc.open_[stack[f].handle] = stack[f].node
    BY <1>1 DEF P!IInv, P!HandlesValid, P!LegalHandle, P!open_
  <2>2. stack[f].handle \in Nat \ {0}
    BY <1>1 DEF Frame
  <2> QED BY <1>3, <2>1, <2>2
<1>7. \A f, g \in 1 .. Len(stack) : f < g => stack[f].handle < stack[g].handle
  BY <1>1 DEF P!IInv, P!HandlesValid
<1> QED BY <1>1, <1>2, <1>3, <1>4, <1>5, <1>6, <1>7, SameFinder DEF IsOpen, NextIndex

\* The innermost call is for the last comparison opened that may still be a root.
LEMMA InnermostFacts ==
  ASSUME P!IInv, stack \in Seq(Frame), Running
  PROVE  /\ Len(stack) \in 1 .. Len(stack) /\ Top \in Frame /\ IsOpen(scc, Top.node)
         /\ Top.handle \in 1 .. Len(scc.open_) /\ scc.open_[Top.handle] = Top.node
         /\ LegalHandle(scc, Top.handle)
         /\ scc.root_index_ \in Seq(Nat) /\ Len(scc.root_index_) \in Nat \ {0}
         /\ \A k \in 1 .. Len(scc.root_index_) :
              /\ scc.root_index_[k] \in Nat /\ scc.root_index_[k] <= Top.handle
              /\ Len(stack) = 1 => scc.root_index_[k] = Top.handle
<1>1. Len(stack) \in 1 .. Len(stack)
  BY EmptySeq DEF Running
<1>2. /\ Top \in Frame /\ Top.handle \in 1 .. Len(scc.open_) /\ scc.open_[Top.handle] = Top.node
      /\ IsOpen(scc, Top.node) /\ Len(scc.open_) \in Nat
  BY <1>1, SearchFacts DEF Top
<1>3. LegalHandle(scc, Top.handle)
  BY <1>2 DEF LegalHandle
<1>4. scc.root_index_ \in Seq(Nat)
  BY DEF P!IInv, P!TypeOK, P!FinderOK
<1>5. scc.root_index_ # << >>
  <2>1. scc.open_ # << >>
    BY <1>2, SearchFacts, EmptySeq
  <2> QED BY <2>1 DEF P!IInv, P!FinderConsistent, P!open_, P!root_index_
<1>6. ASSUME NEW k \in 1 .. Len(scc.root_index_)
      PROVE  /\ scc.root_index_[k] <= Top.handle
             /\ Len(stack) = 1 => scc.root_index_[k] = Top.handle
  <2>1. PICK f \in 1 .. Len(CallsOf(stack)) : CallsOf(stack)[f].handle = scc.root_index_[k]
    BY DEF P!IInv, P!HandlesValid, P!root_index_
  <2>2. f \in 1 .. Len(stack) /\ stack[f].handle = scc.root_index_[k]
    BY <2>1, CallsElements
  <2>3. f = Len(stack) \/ f < Len(stack)
    BY <1>1, <2>2
  <2>4. f < Len(stack) => stack[f].handle < Top.handle
    BY <1>1, <2>2, SearchFacts DEF Top
  <2>5. stack[f].handle \in Nat
    BY <2>2, SearchFacts
  <2> QED BY <1>1, <1>2, <2>2, <2>3, <2>4, <2>5 DEF Top
<1>7. /\ Len(scc.root_index_) \in Nat \ {0}
      /\ \A k \in 1 .. Len(scc.root_index_) : scc.root_index_[k] \in Nat
  BY <1>4, <1>5, EmptySeq, ElementOfSeq
<1> QED BY <1>1, <1>2, <1>3, <1>4, <1>6, <1>7

\* Meeting the comparison being made again drops no candidate root.
LEMMA MeetSelf ==
  ASSUME P!IInv, stack \in Seq(Frame), Running
  PROVE  P!OpenAgain(scc, Top.node) = scc
<1> DEFINE r == scc.root_index_
           m == P!RootsUpTo(scc, scc.is_open_[Top.node])
<1>1. Top.node \in DOMAIN scc.is_open_ /\ scc.is_open_[Top.node] = Top.handle
  BY InnermostFacts, SearchFacts DEF IsOpen
<1>2. m \in 1 .. Len(r) /\ (m = Len(r) \/ Top.handle < r[m + 1])
  BY <1>1, P!RootsKept DEF P!RootOf, P!root_index_
<1>3. /\ Len(r) \in Nat /\ Top.handle \in Nat /\ r \in Seq(Nat)
      /\ \A k \in 1 .. Len(r) : r[k] \in Nat /\ r[k] <= Top.handle
  BY InnermostFacts DEF Frame
<1>4. m = Len(r)
  <2> HIDE DEF m, r
  <2> SUFFICES ASSUME m # Len(r) PROVE FALSE
    OBVIOUS
  <2>1. m + 1 \in 1 .. Len(r)
    BY <1>2, <1>3
  <2> QED BY <1>2, <1>3, <2>1
<1>5. SubSeq(r, 1, Len(r)) = r
  BY <1>3
<1> QED BY <1>4, <1>5, SearchFacts DEF P!OpenAgain

--------------------------------------------------------------------------------
(***************************************************************************)
(* Frames and stacks.                                                      *)
(***************************************************************************)

\* A frame with another result so far.
Updated(frame, new, equals) ==
  /\ new \in Frame
  /\ new.node = frame.node /\ new.handle = frame.handle /\ new.next = frame.next
  /\ new.equals <=> equals

\* Differences stay differences as details are added.
LEMMA DiffUpdates ==
  ASSUME NEW diff \in Diff, NEW edge \in Detail, NEW d \in Diff,
         d = [diff EXCEPT !.has_changes = TRUE] \/ d = diff
  PROVE  d \in Diff /\ [d EXCEPT !.details = Append(d.details, edge)] \in Diff
<1>1. d \in Diff /\ Append(d.details, edge) \in Seq(Detail)
  BY AppendProperties DEF Diff
<1>2. [d EXCEPT !.details = Append(d.details, edge)] \in Diff
  <2> DEFINE s == Append(d.details, edge)
  <2>1. s \in Seq(Detail)
    BY <1>1
  <2> HIDE DEF s
  <2>2. [d EXCEPT !.details = s] \in Diff
    BY <2>1 DEF Diff
  <2> QED BY <2>2 DEF s
<1> QED BY <1>1, <1>2

\* A frame with another difference and equality.
LEMMA FrameUpdate ==
  ASSUME NEW frame \in Frame, NEW e \in BOOLEAN, NEW d \in Diff
  PROVE  Updated(frame, [frame EXCEPT !.equals = e, !.diff = d], e)
BY DEF Frame, Updated

\* What the members of Result do to a frame.
LEMMA Updates ==
  ASSUME NEW frame \in Frame
  PROVE  /\ Updated(frame, MarkIncomparable(frame), FALSE)
         /\ Updated(frame, AddNodeDiff(frame), FALSE)
         /\ \A edge \in Detail : Updated(frame, AddEdgeDiff(frame, edge), FALSE)
         /\ \A result \in CallResult :
              Updated(frame, MaybeAddEdgeDiff(frame, result), frame.equals /\ result.equals)
<1> DEFINE diff == frame.diff
           changed == [diff EXCEPT !.has_changes = TRUE]
<1>1. diff \in Diff /\ frame.equals \in BOOLEAN
  BY DEF Frame
<1>2. changed \in Diff
  BY <1>1 DEF Diff
<1>3. /\ NoEdge \in Detail
      /\ \A result \in CallResult : result.edge \in Detail /\ result.equals \in BOOLEAN
  BY DEF Detail, CallResult
<1>4. \A d \in {diff, changed} : \A edge \in Detail :
        [d EXCEPT !.details = Append(d.details, edge)] \in Diff
  <2> SUFFICES ASSUME NEW d \in {diff, changed}, NEW edge \in Detail
               PROVE  [d EXCEPT !.details = Append(d.details, edge)] \in Diff
    BY Zenon
  <2>1. d \in Diff /\ (d = changed \/ d = diff)
    BY <1>1, <1>2
  <2> QED BY <1>1, <2>1, DiffUpdates
<1>5. Updated(frame, MarkIncomparable(frame), FALSE)
  <2>1. MarkIncomparable(frame) = [frame EXCEPT !.equals = FALSE, !.diff = changed]
    BY DEF MarkIncomparable
  <2> QED BY <1>2, <2>1, FrameUpdate, Zenon
<1>6. Updated(frame, AddNodeDiff(frame), FALSE)
  <2>1. AddNodeDiff(frame) =
          [frame EXCEPT !.equals = FALSE,
                        !.diff = [changed EXCEPT !.details = Append(changed.details, NoEdge)]]
    BY <1>1 DEF AddNodeDiff, Diff, Frame
  <2> DEFINE d == [changed EXCEPT !.details = Append(changed.details, NoEdge)]
  <2>2. d \in Diff
    BY <1>3, <1>4, Zenon
  <2> HIDE DEF d
  <2>3. Updated(frame, [frame EXCEPT !.equals = FALSE, !.diff = d], FALSE)
    BY <2>2, FrameUpdate, Zenon
  <2> QED BY <2>1, <2>3 DEF d
<1>7. ASSUME NEW edge \in Detail PROVE Updated(frame, AddEdgeDiff(frame, edge), FALSE)
  <2>1. AddEdgeDiff(frame, edge) =
          [frame EXCEPT !.equals = FALSE,
                        !.diff = [diff EXCEPT !.details = Append(diff.details, edge)]]
    BY DEF AddEdgeDiff
  <2> DEFINE d == [diff EXCEPT !.details = Append(diff.details, edge)]
  <2>2. d \in Diff
    BY <1>4, Zenon
  <2> HIDE DEF d
  <2>3. Updated(frame, [frame EXCEPT !.equals = FALSE, !.diff = d], FALSE)
    BY <2>2, FrameUpdate, Zenon
  <2> QED BY <2>1, <2>3 DEF d
<1>8. ASSUME NEW result \in CallResult
      PROVE  Updated(frame, MaybeAddEdgeDiff(frame, result), frame.equals /\ result.equals)
  <2> DEFINE e == frame.equals /\ result.equals
             d == IF result.edge = NoEdge THEN diff
                  ELSE [diff EXCEPT !.details = Append(diff.details, result.edge)]
  <2>1. e \in BOOLEAN /\ d \in Diff
    BY <1>1, <1>3, <1>4, Zenon
  <2>2. MaybeAddEdgeDiff(frame, result) = [frame EXCEPT !.equals = e, !.diff = d]
    <3>1. [diff EXCEPT !.details = diff.details] = diff
      BY <1>1 DEF Diff
    <3> QED BY <3>1 DEF MaybeAddEdgeDiff
  <2> HIDE DEF e, d
  <2>3. Updated(frame, [frame EXCEPT !.equals = e, !.diff = d], e)
    BY <2>1, FrameUpdate, Zenon
  <2> QED BY <2>2, <2>3 DEF e
<1> QED BY <1>5, <1>6, <1>7, <1>8

\* The calls once the innermost has dealt with an item.
LEMMA ProceedElements ==
  ASSUME stack \in Seq(Frame), Running, NEW frame, NEW equals, Updated(Top, frame, equals)
  PROVE  /\ Len(stack) \in Nat \ {0} /\ Top \in Frame
         /\ Proceed(frame) \in Seq(Frame) /\ Len(Proceed(frame)) = Len(stack)
         /\ \A f \in 1 .. Len(stack) :
              /\ f # Len(stack) => Proceed(frame)[f] = stack[f]
              /\ Proceed(frame)[f].node = stack[f].node
              /\ Proceed(frame)[f].handle = stack[f].handle
         /\ Proceed(frame)[Len(stack)].next = Top.next + 1
         /\ Proceed(frame)[Len(stack)].equals <=> equals
         /\ CallsOf(Proceed(frame)) = P!Advanced
<1>1. Len(stack) \in Nat \ {0} /\ Len(stack) \in 1 .. Len(stack) /\ Top \in Frame
  BY EmptySeq, ElementOfSeq DEF Running, Top
<1> DEFINE new == [frame EXCEPT !.next = @ + 1]
<1>2. /\ new \in Frame /\ new.node = Top.node /\ new.handle = Top.handle
      /\ new.next = Top.next + 1
      /\ new.equals <=> equals
  BY <1>1, SMTT(30) DEF Updated, Frame
<1>3. Proceed(frame) = [stack EXCEPT ![Len(stack)] = new]
  BY DEF Proceed
<1> HIDE DEF new
<1>4. /\ Proceed(frame) \in Seq(Frame) /\ Len(Proceed(frame)) = Len(stack)
      /\ \A f \in 1 .. Len(stack) :
           Proceed(frame)[f] = IF f = Len(stack) THEN new ELSE stack[f]
  BY <1>1, <1>2, <1>3, ExceptSeq
<1>5. \A f \in 1 .. Len(stack) :
        /\ Proceed(frame)[f].node = stack[f].node
        /\ Proceed(frame)[f].handle = stack[f].handle
  BY <1>2, <1>4 DEF Top
<1>6. CallsOf(Proceed(frame)) = P!Advanced
  <2>1. \A f \in 1 .. Len(stack) :
          Call(Proceed(frame)[f]) =
            IF f = Len(stack) THEN [Call(stack[f]) EXCEPT !.next = @ + 1] ELSE Call(stack[f])
    <3>1. Call(new) = [Call(Top) EXCEPT !.next = @ + 1]
      BY <1>2 DEF Call
    <3> QED BY <1>4, <3>1 DEF Top
  <2>2. stack # << >>
    BY DEF Running
  <2>3. CallsOf(Proceed(frame)) = [CallsOf(stack) EXCEPT ![Len(CallsOf(stack))].next = @ + 1]
    BY <1>4, <2>1, <2>2, CallsProceed
  <2> QED BY <2>3 DEF P!Advanced
<1>7. Proceed(frame)[Len(stack)] = new
  BY <1>1, <1>4
<1>8. Proceed(frame)[Len(stack)].next = Top.next + 1
  BY <1>2, <1>7
<1>9. Proceed(frame)[Len(stack)].equals <=> equals
  BY <1>2, <1>7, Zenon
<1>10. \A f \in 1 .. Len(stack) : f # Len(stack) => Proceed(frame)[f] = stack[f]
  BY <1>4
<1> QED BY <1>1, <1>4, <1>5, <1>6, <1>8, <1>9, <1>10, Zenon

--------------------------------------------------------------------------------
(***************************************************************************)
(* Compare is a search.                                                    *)
(***************************************************************************)

\* The innermost call is the search's.
LEMMA TopCall ==
  ASSUME TypeOK, Running
  PROVE  /\ Len(stack) \in Nat \ {0} /\ Len(CallsOf(stack)) = Len(stack)
         /\ Top \in Frame /\ Top.node \in Comparison /\ P!Running
         /\ P!Top.node = Top.node /\ P!Top.handle = Top.handle /\ P!Top.next = Top.next
<1>1. stack \in Seq(Frame)
  BY DEF TypeOK
<1>2. Len(stack) \in Nat \ {0} /\ Len(stack) \in 1 .. Len(stack)
  BY <1>1, EmptySeq DEF Running
<1>3. Top \in Frame /\ Top.node \in Comparison
  <2>1. Top \in Frame
    BY <1>1, <1>2, ElementOfSeq DEF Top
  <2> QED BY <2>1 DEF Frame
<1>4. Len(CallsOf(stack)) = Len(stack) /\ CallsOf(stack) \in Seq(P!Frame)
  BY <1>1, CallsElements
<1>5. P!Running
  BY <1>2, <1>4, EmptySeq DEF P!Running
<1>6. P!Top.node = Top.node /\ P!Top.handle = Top.handle /\ P!Top.next = Top.next
  BY <1>1, <1>2, <1>4, CallsElements DEF P!Top, Top
<1> QED BY <1>2, <1>3, <1>4, <1>5, <1>6

\* An item is an edge to follow.
LEMMA ItemFacts ==
  ASSUME TypeOK, HasItem
  PROVE  /\ Top.next \in 1 .. Len(plan[Top.node].items) /\ Current \in Item
         /\ IsEdge(Current) => Current.to \in Comparison
         /\ P!HasEdge
         /\ P!Child = IF IsEdge(Current) THEN Current.to ELSE Top.node
<1>1. Running /\ Top.next <= Len(plan[Top.node].items)
  BY DEF HasItem
<1>2. plan \in [Comparison -> Plan]
  BY DEF TypeOK
<1>3. Top \in Frame /\ Top.node \in Comparison /\ Top.next \in Nat \ {0}
  BY <1>1, TopCall DEF Frame
<1>4. Len(plan[Top.node].items) \in Nat
  BY <1>2, <1>3, PlanItems
<1>5. Top.next \in 1 .. Len(plan[Top.node].items)
  BY <1>1, <1>3, <1>4
<1>6. Current \in Item /\ (IsEdge(Current) => Current.to \in Comparison)
  BY <1>2, <1>3, <1>5, PlanItems DEF Current
<1>7. P!HasEdge
  BY <1>1, <1>2, <1>3, TopCall, GraphItems DEF P!HasEdge
<1>8. P!Child = IF IsEdge(Current) THEN Current.to ELSE Top.node
  BY <1>1, <1>2, <1>3, <1>5, TopCall, GraphItems, SMTT(30) DEF P!Child, Current
<1> QED BY <1>5, <1>6, <1>7, <1>8

\* A call that is finished is so in the search.
LEMMA FinishedFacts ==
  ASSUME TypeOK, Finished PROVE P!Finished /\ ~(Top.next <= Len(plan[Top.node].items))
<1>1. Running /\ ~(Top.next <= Len(plan[Top.node].items))
  BY DEF Finished, HasItem
<1>2. plan \in [Comparison -> Plan]
  BY DEF TypeOK
<1> QED BY <1>1, <1>2, TopCall, GraphItems DEF P!Finished, P!HasEdge

\* A difference found on the spot: the comparison being made is met again.
LEMMA SpotIsSearch ==
  ASSUME TypeOK, P!IInv, HasItem, ~IsEdge(Current), NEW frame, NEW equals,
         Updated(Top, frame, equals), stack' = Proceed(frame),
         UNCHANGED <<plan, known, scc, sccs, examined>>
  PROVE  P!MeetOpen
<1>1. Running /\ stack \in Seq(Frame)
  BY DEF HasItem, TypeOK
<1>2. P!HasEdge /\ P!Child = Top.node
  BY ItemFacts
<1>3. Top.node \notin DOMAIN known /\ P!IsOpen(scc, Top.node)
  <2>1. IsOpen(scc, Top.node)
    BY <1>1, InnermostFacts
  <2> QED BY <1>1, <2>1, SearchFacts DEF IsOpen, P!IsOpen
<1>4. scc' = P!OpenAgain(scc, Top.node)
  BY <1>1, MeetSelf
<1>5. CallsOf(stack)' = P!Advanced
  BY <1>1, ProceedElements
<1>6. UNCHANGED <<GraphOf(plan), DOMAIN known, sccs, examined>>
  OBVIOUS
<1> QED BY <1>2, <1>3, <1>4, <1>5, <1>6 DEF P!MeetOpen

\* A comparison that is known has its component.
LEMMA KnownIsSearch ==
  ASSUME TypeOK, P!IInv, CompareKnown PROVE P!SkipVisited
<1>1. /\ Running /\ stack \in Seq(Frame) /\ HasItem /\ IsEdge(Current)
      /\ Current.to \in DOMAIN known
      /\ stack' = Proceed(MaybeAddEdgeDiff(Top, KnownResult(Current.to)))
      /\ UNCHANGED <<plan, known, scc, sccs, examined>>
  BY DEF CompareKnown, At, HasItem, TypeOK, IsEdge
<1>2. P!HasEdge /\ P!Child = Current.to
  BY <1>1, ItemFacts
<1>3. KnownResult(Current.to) \in CallResult
  BY <1>1, ItemFacts DEF KnownResult, CallResult, TypeOK
<1>4. CallsOf(stack)' = P!Advanced
  <2>1. Updated(Top, MaybeAddEdgeDiff(Top, KnownResult(Current.to)),
                Top.equals /\ KnownResult(Current.to).equals)
    BY <1>1, <1>3, TopCall, Updates
  <2> QED BY <1>1, <2>1, ProceedElements
<1>5. UNCHANGED <<GraphOf(plan), DOMAIN known, scc, sccs, examined>>
  BY <1>1
<1> QED BY <1>1, <1>2, <1>4, <1>5 DEF P!SkipVisited

\* A comparison that is open is met again.
LEMMA OpenIsSearch ==
  ASSUME TypeOK, P!IInv, CompareOpen PROVE P!MeetOpen
<1> DEFINE result == [equals |-> TRUE, edge |-> Current.to]
<1>1. /\ Running /\ stack \in Seq(Frame) /\ HasItem /\ IsEdge(Current)
      /\ Current.to \notin DOMAIN known /\ IsOpen(scc, Current.to)
      /\ scc' = OpenAgain(scc, Current.to)
      /\ stack' = Proceed(MaybeAddEdgeDiff(Top, result))
      /\ UNCHANGED <<plan, known, sccs, examined>>
  BY DEF CompareOpen, At, HasItem, TypeOK, IsEdge
<1>2. P!HasEdge /\ P!Child = Current.to
  BY <1>1, ItemFacts
<1>3. result \in CallResult
  BY <1>1, ItemFacts DEF CallResult
<1>4. CallsOf(stack)' = P!Advanced
  <2> HIDE DEF result
  <2>1. Updated(Top, MaybeAddEdgeDiff(Top, result), Top.equals /\ result.equals)
    BY <1>1, <1>3, TopCall, Updates
  <2> QED BY <1>1, <2>1, ProceedElements
<1>5. UNCHANGED <<GraphOf(plan), DOMAIN known, sccs, examined>>
  BY <1>1
<1>6. scc' = P!OpenAgain(scc, Current.to) /\ P!IsOpen(scc, Current.to)
  BY <1>1, SameFinder DEF IsOpen, P!IsOpen
<1> QED BY <1>1, <1>2, <1>4, <1>5, <1>6 DEF P!MeetOpen

\* The frame of a comparison that is opened.
LEMMA NewFrame ==
  ASSUME TypeOK, P!IInv, NEW c \in Comparison
  PROVE  LET frame == [node |-> c, handle |-> NextIndex(scc), next |-> 1, equals |-> TRUE,
                       diff |-> [EmptyDiff EXCEPT !.holds_changes = plan[c].holds]]
         IN  /\ frame \in Frame /\ NextIndex(scc) = Len(scc.open_) + 1
             /\ Call(frame) = [node |-> c, handle |-> P!NextIndex(scc), next |-> 1]
<1> DEFINE d == [EmptyDiff EXCEPT !.holds_changes = plan[c].holds]
           frame == [node |-> c, handle |-> NextIndex(scc), next |-> 1, equals |-> TRUE, diff |-> d]
<1>1. stack \in Seq(Frame) /\ plan \in [Comparison -> Plan]
  BY DEF TypeOK
<1>2. d \in Diff
  <2>1. plan[c].holds \in BOOLEAN
    BY <1>1 DEF Plan
  <2>2. << >> \in Seq(Detail)
    BY EmptySeq
  <2> QED BY <2>1, <2>2 DEF EmptyDiff, Diff
<1>3. NextIndex(scc) = Len(scc.open_) + 1 /\ NextIndex(scc) \in Nat \ {0}
  BY <1>1, SearchFacts
<1> HIDE DEF d
<1>4. frame \in Frame
  BY <1>2, <1>3 DEF Frame
<1>5. Call(frame) = [node |-> c, handle |-> P!NextIndex(scc), next |-> 1]
  BY SameFinder DEF Call
<1> QED BY <1>3, <1>4, <1>5 DEF d

\* A comparison that is opened is entered.
LEMMA EnterIsSearch ==
  ASSUME TypeOK, P!IInv, NEW c \in Comparison, NEW callers \in Seq(Frame), Enter(c, callers)
  PROVE  /\ P!Enter(c, CallsOf(callers))
         /\ stack' = Append(callers, stack'[Len(callers) + 1]) /\ stack' \in Seq(Frame)
         /\ stack'[Len(callers) + 1] \in Frame
         /\ stack'[Len(callers) + 1].node = c
         /\ stack'[Len(callers) + 1].handle = Len(scc.open_) + 1
         /\ stack'[Len(callers) + 1].next = 1
         /\ stack'[Len(callers) + 1].equals = TRUE
<1> DEFINE frame == [node |-> c, handle |-> NextIndex(scc), next |-> 1, equals |-> TRUE,
                     diff |-> [EmptyDiff EXCEPT !.holds_changes = plan[c].holds]]
<1>1. /\ scc' = OpenNew(scc, c) /\ stack' = Append(callers, frame)
      /\ examined' = Append(examined, c)
      /\ UNCHANGED <<plan, known, sccs>>
  BY DEF Enter
<1>2. /\ frame \in Frame /\ NextIndex(scc) = Len(scc.open_) + 1
      /\ Call(frame) = [node |-> c, handle |-> P!NextIndex(scc), next |-> 1]
  BY NewFrame
<1>3. /\ frame.node = c /\ frame.handle = NextIndex(scc) /\ frame.next = 1
      /\ frame.equals = TRUE
  OBVIOUS
<1> HIDE DEF frame
<1>4. CallsOf(stack)' =
        Append(CallsOf(callers), [node |-> c, handle |-> P!NextIndex(scc), next |-> 1])
  BY <1>1, <1>2, CallsAppend
<1>5. scc' = P!OpenNew(scc, c)
  BY <1>1, SameFinder
<1>6. UNCHANGED <<GraphOf(plan), DOMAIN known, sccs>>
  BY <1>1
<1>7. P!Enter(c, CallsOf(callers))
  BY <1>1, <1>4, <1>5, <1>6 DEF P!Enter
<1>8. stack' \in Seq(Frame) /\ stack'[Len(callers) + 1] = frame
  BY <1>1, <1>2, AppendProperties
<1> QED BY <1>1, <1>2, <1>3, <1>7, <1>8

\* The caller's comparison starts a search.
LEMMA StartIsSearch ==
  ASSUME TypeOK, P!IInv, NEW c \in Comparison, Start(c) PROVE P!Start(c)
<1>1. ~Running /\ c \notin DOMAIN known /\ Enter(c, stack) /\ stack \in Seq(Frame)
  BY DEF Start, TypeOK
<1>2. P!Enter(c, CallsOf(stack))
  BY <1>1, EnterIsSearch
<1>3. ~P!Running
  <2>1. Len(stack) = 0 /\ CallsOf(stack) \in Seq(P!Frame) /\ Len(CallsOf(stack)) = 0
    BY <1>1, CallsElements, EmptySeq DEF Running
  <2> QED BY <2>1, EmptySeq DEF P!Running
<1> QED BY <1>1, <1>2, <1>3 DEF P!Start

\* A comparison that is new is entered from the one that makes it.
LEMMA NewIsSearch ==
  ASSUME TypeOK, P!IInv, CompareNew PROVE P!Descend
<1>1. /\ Running /\ stack \in Seq(Frame) /\ HasItem /\ IsEdge(Current)
      /\ Current.to \notin DOMAIN known /\ ~IsOpen(scc, Current.to)
      /\ Enter(Current.to, Proceed(Top))
  BY DEF CompareNew, At, HasItem, TypeOK, IsEdge
<1>2. P!HasEdge /\ P!Child = Current.to /\ Current.to \in Comparison
  BY <1>1, ItemFacts
<1>3. Updated(Top, Top, Top.equals)
  BY <1>1, TopCall DEF Updated
<1>4. Proceed(Top) \in Seq(Frame) /\ CallsOf(Proceed(Top)) = P!Advanced
  BY <1>1, <1>3, ProceedElements
<1>5. P!Enter(Current.to, P!Advanced)
  BY <1>1, <1>2, <1>4, EnterIsSearch
<1> QED BY <1>1, <1>2, <1>5 DEF P!Descend, IsOpen, P!IsOpen

\* The calls after a return.
LEMMA ReturnElements ==
  ASSUME TypeOK, Running, NEW result \in CallResult, Return(result)
  PROVE  /\ stack' \in Seq(Frame) /\ Len(stack') = Len(stack) - 1
         /\ CallsOf(stack)' = SubSeq(CallsOf(stack), 1, Len(CallsOf(stack)) - 1)
         /\ \A f \in 1 .. Len(stack) - 1 :
              /\ stack'[f].node = stack[f].node
              /\ stack'[f].handle = stack[f].handle
              /\ stack'[f].next = stack[f].next
              /\ stack'[f].equals <=>
                   stack[f].equals /\ (f = Len(stack) - 1 => result.equals)
         /\ IF Len(stack) = 1 THEN returned' = <<<<Top.node, result>>>> ELSE UNCHANGED returned
<1> DEFINE n == Len(stack) - 1
           callers == SubSeq(stack, 1, n)
<1>1. /\ stack \in Seq(Frame) /\ Len(stack) \in Nat \ {0} /\ n \in Nat /\ n \in 0 .. Len(stack)
      /\ n = Len(stack) - 1
  BY TopCall DEF TypeOK
<1>0. IF Len(callers) = 0 THEN stack' = callers /\ returned' = <<<<Top.node, result>>>>
      ELSE /\ stack' = [callers EXCEPT ![Len(callers)] =
                          MaybeAddEdgeDiff(callers[Len(callers)], result)]
           /\ UNCHANGED returned
  BY DEF Return
<1> HIDE DEF n
<1>2. /\ callers \in Seq(Frame) /\ Len(callers) = n
      /\ \A f \in 1 .. n : callers[f] = stack[f] /\ callers[f] \in Frame
  <2>1. \A f \in 1 .. n : f \in 1 .. Len(stack) /\ stack[f] \in Frame
    BY <1>1, ElementOfSeq
  <2>2. /\ callers \in Seq(Frame) /\ Len(callers) = n
        /\ \A f \in 1 .. n : callers[f] = stack[f]
    BY <1>1, <2>1, SubSeqProperties
  <2> QED BY <2>1, <2>2
<1>3. IF n = 0 THEN stack' = callers /\ returned' = <<<<Top.node, result>>>>
      ELSE /\ stack' = [callers EXCEPT ![n] = MaybeAddEdgeDiff(callers[n], result)]
           /\ UNCHANGED returned
  BY <1>0, <1>2
<1> HIDE DEF callers
<1>4. /\ stack' \in Seq(Frame) /\ Len(stack') = n
      /\ \A f \in 1 .. n : Updated(stack[f], stack'[f],
                                   stack[f].equals /\ (f = n => result.equals))
  <2>1. CASE n = 0
    BY <1>2, <1>3, <2>1
  <2>2. CASE n # 0
    <3>1. n \in 1 .. n
      BY <1>1, <2>2
    <3> DEFINE new == MaybeAddEdgeDiff(callers[n], result)
    <3>2. Updated(callers[n], new, callers[n].equals /\ result.equals)
      BY <1>2, <3>1, Updates
    <3>3. new \in Frame
      BY <3>2 DEF Updated
    <3>4. stack' = [callers EXCEPT ![n] = new]
      BY <1>3, <2>2
    <3> HIDE DEF new
    <3>5. /\ stack' \in Seq(Frame) /\ Len(stack') = n
          /\ \A f \in 1 .. n : stack'[f] = IF f = n THEN new ELSE callers[f]
      BY <1>2, <3>1, <3>3, <3>4, ExceptSeq
    <3>6. ASSUME NEW f \in 1 .. n
          PROVE  Updated(stack[f], stack'[f], stack[f].equals /\ (f = n => result.equals))
      <4>1. CASE f = n
        BY <1>2, <3>1, <3>2, <3>5, <4>1 DEF Updated
      <4>2. CASE f # n
        BY <1>2, <3>5, <4>2 DEF Updated
      <4> QED BY <4>1, <4>2
    <3> QED BY <3>5, <3>6
  <2> QED BY <2>1, <2>2
<1>5. CallsOf(stack') = SubSeq(CallsOf(stack), 1, n)
  <2>1. \A f \in 1 .. n : Call(stack'[f]) = Call(stack[f])
    BY <1>4 DEF Updated, Call
  <2> QED BY <1>1, <1>4, <2>1, CallsPrefix
<1>6. CallsOf(stack)' = SubSeq(CallsOf(stack), 1, Len(CallsOf(stack)) - 1)
  BY <1>1, <1>5, CallsElements
<1>7. \A f \in 1 .. n :
        /\ stack'[f].node = stack[f].node
        /\ stack'[f].handle = stack[f].handle
        /\ stack'[f].next = stack[f].next
        /\ stack'[f].equals <=> stack[f].equals /\ (f = n => result.equals)
  BY <1>4 DEF Updated
<1>8. Len(stack) = 1 <=> n = 0
  BY <1>1
<1>9. IF Len(stack) = 1 THEN returned' = <<<<Top.node, result>>>> ELSE UNCHANGED returned
  BY <1>3, <1>8
<1> QED BY <1>4, <1>6, <1>7, <1>9 DEF n

\* A result that is handed out.
LEMMA ClosedResult ==
  ASSUME TypeOK, Running, NEW result,
         \/ result = IF Top.equals THEN [equals |-> TRUE, edge |-> NoEdge]
                                   ELSE [equals |-> FALSE, edge |-> Top.node]
         \/ result = [equals |-> Top.equals, edge |-> Top.node]
  PROVE  result \in CallResult /\ (result.equals <=> Top.equals)
<1>1. Top.node \in Comparison /\ Top.equals \in BOOLEAN
  BY TopCall DEF Frame
<1>0. \A e \in BOOLEAN : \A edge \in Comparison \cup {NoEdge} :
        [equals |-> e, edge |-> edge] \in CallResult
  BY DEF CallResult
<1>2. CASE Top.equals = TRUE
  <2>1. \/ result = [equals |-> TRUE, edge |-> NoEdge]
        \/ result = [equals |-> TRUE, edge |-> Top.node]
    BY <1>2
  <2>2. result \in CallResult
    BY <1>0, <1>1, <2>1
  <2>3. result.equals = TRUE
    BY <2>1
  <2> QED BY <1>2, <2>2, <2>3, Zenon
<1>3. CASE Top.equals = FALSE
  <2>1. result = [equals |-> FALSE, edge |-> Top.node]
    BY <1>3
  <2>2. result \in CallResult
    BY <1>0, <1>1, <2>1
  <2>3. result.equals = FALSE
    BY <2>1
  <2> QED BY <1>3, <2>2, <2>3, Zenon
<1> QED BY <1>1, <1>2, <1>3

\* A component is closed.
LEMMA CloseIsSearch ==
  ASSUME TypeOK, P!IInv, CloseSCC PROVE P!CloseSCC
<1> DEFINE result == IF Top.equals THEN [equals |-> TRUE, edge |-> NoEdge]
                                   ELSE [equals |-> FALSE, edge |-> Top.node]
           S == ClosedNodes(scc, Top.handle)
<1>1. /\ Finished /\ Running /\ LegalHandle(scc, Top.handle) /\ IsRoot(scc, Top.handle)
      /\ known' = Inserted(known, [c \in S |-> Top.equals])
      /\ sccs' = Append(sccs, S) /\ scc' = CloseRoot(scc, Top.handle)
      /\ Return(result) /\ UNCHANGED <<plan, examined>>
  BY DEF CloseSCC, Finished
<1>2. P!Finished /\ P!Top.handle = Top.handle
  BY <1>1, FinishedFacts, TopCall
<1>3. P!LegalHandle(scc, Top.handle) /\ P!IsRoot(scc, Top.handle)
  BY <1>1 DEF LegalHandle, P!LegalHandle, IsRoot, P!IsRoot
<1>4. S = P!ClosedNodes(scc, Top.handle) /\ scc' = P!CloseRoot(scc, Top.handle)
  BY <1>1, SameFinder
<1>5. DOMAIN known' = DOMAIN known \cup S
  BY <1>1 DEF Inserted
<1>6. CallsOf(stack)' = SubSeq(CallsOf(stack), 1, Len(CallsOf(stack)) - 1)
  <2>1. result \in CallResult
    BY <1>1, ClosedResult
  <2> HIDE DEF result
  <2> QED BY <1>1, <2>1, ReturnElements
<1>7. UNCHANGED <<GraphOf(plan), examined>>
  BY <1>1
<1> HIDE DEF S
<1> QED BY <1>1, <1>2, <1>3, <1>4, <1>5, <1>6, <1>7 DEF P!CloseSCC

\* A component stays open.
LEMMA CloseNothingIsSearch ==
  ASSUME TypeOK, P!IInv, CloseNothing PROVE P!CloseNothing
<1> DEFINE result == [equals |-> Top.equals, edge |-> Top.node]
<1>1. /\ Finished /\ Running /\ LegalHandle(scc, Top.handle) /\ ~IsRoot(scc, Top.handle)
      /\ Return(result) /\ UNCHANGED <<plan, known, scc, sccs, examined>>
  BY DEF CloseNothing, Finished
<1>2. P!Finished /\ P!Top.handle = Top.handle
  BY <1>1, FinishedFacts, TopCall
<1>3. P!LegalHandle(scc, Top.handle) /\ ~P!IsRoot(scc, Top.handle)
  BY <1>1 DEF LegalHandle, P!LegalHandle, IsRoot, P!IsRoot
<1>4. CallsOf(stack)' = SubSeq(CallsOf(stack), 1, Len(CallsOf(stack)) - 1)
  <2>1. result \in CallResult
    BY <1>1, ClosedResult
  <2> HIDE DEF result
  <2> QED BY <1>1, <2>1, ReturnElements
<1>5. UNCHANGED <<GraphOf(plan), DOMAIN known, scc, sccs, examined>>
  BY <1>1
<1> QED BY <1>2, <1>3, <1>4, <1>5 DEF P!CloseNothing

\* The three ways to find a difference on the spot.
LEMMA SpotSteps ==
  ASSUME TypeOK, NodeDiff \/ Incomparable \/ RemovedOrAdded
  PROVE  /\ HasItem /\ ~IsEdge(Current)
         /\ \E frame \in Frame : Updated(Top, frame, FALSE) /\ stack' = Proceed(frame)
         /\ UNCHANGED <<plan, known, provisional, scc, returned, sccs, examined>>
<1>1. HasItem
  BY Zenon DEF NodeDiff, Incomparable, RemovedOrAdded, At
<1>2. Top \in Frame
  BY <1>1, TopCall DEF HasItem
<1>3. CASE NodeDiff
  BY <1>1, <1>2, <1>3, Updates, Zenon DEF NodeDiff, At, IsEdge, Updated
<1>4. CASE Incomparable
  BY <1>1, <1>2, <1>4, Updates DEF Incomparable, At, IsEdge, Updated
<1>5. CASE RemovedOrAdded
  <2>1. Current.kind = "one-sided"
    BY <1>5 DEF RemovedOrAdded, At
  <2>2. Current.to \in Detail
    BY <1>1, <2>1, ItemFacts, Zenon DEF Item, Detail
  <2> QED BY <1>1, <1>2, <1>5, <2>1, <2>2, Updates DEF RemovedOrAdded, IsEdge, Updated
<1> QED BY <1>3, <1>4, <1>5, Zenon

\* Every step of Compare is one of the search, or changes nothing of it.
LEMMA StepIsSearch ==
  ASSUME TypeOK, P!IInv, [Next]_vars PROVE [P!Next]_(P!vars)
<1>1. CASE NodeDiff \/ Incomparable \/ RemovedOrAdded
  <2>1. P!MeetOpen
    BY <1>1, SpotSteps, SpotIsSearch
  <2> QED BY <2>1 DEF P!Next
<1>2. CASE CompareKnown
  BY <1>2, KnownIsSearch DEF P!Next
<1>3. CASE CompareOpen
  BY <1>3, OpenIsSearch DEF P!Next
<1>4. CASE CompareNew
  BY <1>4, NewIsSearch DEF P!Next
<1>5. CASE CloseSCC
  BY <1>5, CloseIsSearch DEF P!Next
<1>6. CASE CloseNothing
  BY <1>6, CloseNothingIsSearch DEF P!Next
<1>7. ASSUME NEW c \in Comparison, Start(c) PROVE P!Next
  BY <1>7, StartIsSearch DEF P!Next
<1>8. ASSUME NEW c \in Comparison, StartKnown(c) PROVE UNCHANGED P!vars
  BY <1>8 DEF StartKnown, P!vars
<1>9. CASE UNCHANGED vars
  BY <1>9 DEF vars, P!vars
<1> QED BY <1>1, <1>2, <1>3, <1>4, <1>5, <1>6, <1>7, <1>8, <1>9 DEF Next, Step

\* State starts with a search that has not begun.
LEMMA InitIsSearch ==
  ASSUME Init PROVE TypeOK /\ P!Init /\ P!IInv
<1>1. /\ plan \in [Comparison -> Plan] /\ known = [c \in {} |-> TRUE] /\ outcomes = Nowhere
      /\ provisional = Nowhere /\ scc = NewFinder /\ stack = << >> /\ returned = << >>
      /\ sccs = << >> /\ examined = << >>
  BY PlansAssumption DEF Init, Fresh
<1>2. CallsOf(stack) = << >>
  <2>1. stack \in Seq(Frame) /\ Len(stack) = 0
    BY <1>1, EmptySeq
  <2>2. CallsOf(stack) \in Seq(P!Frame) /\ Len(CallsOf(stack)) = 0
    BY <2>1, CallsElements
  <2> QED BY <2>2, EmptySeq
<1>3. DOMAIN known = {}
  BY <1>1
<1>4. P!Init
  BY <1>1, <1>2, <1>3, GraphItems, SameFinder DEF P!Init
<1>5. P!IInv
  BY <1>4, P!InitEstablishes
<1>6. TypeOK
  <2>1. FinderOK(scc, Comparison)
    BY <1>5 DEF P!IInv, P!TypeOK, P!FinderOK, FinderOK
  <2>2. PartialDiffs(Nowhere, Comparison \cup OneSided) /\ PartialDiffs(Nowhere, Comparison)
    BY DEF PartialDiffs, Nowhere
  <2> QED BY <1>1, <2>1, <2>2, EmptySeq DEF TypeOK
<1> QED BY <1>4, <1>5, <1>6

--------------------------------------------------------------------------------
(***************************************************************************)
(* Types.                                                                  *)
(***************************************************************************)

\* Maps of differences stay so as entries are added.
LEMMA InsertedDiffs ==
  ASSUME NEW C, NEW f, PartialDiffs(f, C), NEW new, PartialDiffs(new, C)
  PROVE  /\ PartialDiffs(Inserted(f, new), C)
         /\ DOMAIN Inserted(f, new) = DOMAIN f \cup DOMAIN new
BY DEF PartialDiffs, Inserted

\* What is provisional when a call is finished.
LEMMA ProvidedDiffs ==
  ASSUME TypeOK, Running
  PROVE  /\ PartialDiffs(Provided, Comparison)
         /\ DOMAIN Provided = DOMAIN provisional \cup {Top.node}
<1> DEFINE new == [c \in {Top.node} |-> Top.diff]
<1>1. Top.node \in Comparison /\ Top.diff \in Diff
  BY TopCall DEF Frame
<1>2. PartialDiffs(new, Comparison) /\ DOMAIN new = {Top.node}
  BY <1>1 DEF PartialDiffs
<1>3. PartialDiffs(provisional, Comparison) /\ Provided = Inserted(provisional, new)
  BY DEF TypeOK, Provided
<1>4. DOMAIN Provided = DOMAIN provisional \cup {Top.node}
  BY <1>2, <1>3 DEF Inserted
<1>5. PartialDiffs(Provided, Comparison)
  <2>1. DOMAIN Provided \subseteq Comparison
    BY <1>1, <1>3, <1>4 DEF PartialDiffs
  <2>2. Provided = [c \in DOMAIN Provided |->
                      IF c \in DOMAIN provisional THEN provisional[c] ELSE new[c]]
    BY <1>2, <1>3, <1>4 DEF Inserted
  <2>3. \A c \in DOMAIN Provided :
          (IF c \in DOMAIN provisional THEN provisional[c] ELSE new[c]) \in Diff
    BY <1>1, <1>2, <1>3, <1>4 DEF PartialDiffs
  <2>4. Provided \in [DOMAIN Provided -> Diff]
    BY <2>2, <2>3
  <2> QED BY <2>1, <2>4 DEF PartialDiffs
<1> QED BY <1>4, <1>5

\* The finder and the histories keep their types as the search's do.
LEMMA SearchTypes ==
  ASSUME P!IInv'
  PROVE  /\ FinderOK(scc', Comparison)
         /\ sccs' \in Seq(SUBSET Comparison) /\ examined' \in Seq(Comparison)
BY DEF P!IInv, P!TypeOK, P!FinderOK, FinderOK

\* Every step of Compare keeps the types.
LEMMA TypePreserves ==
  ASSUME TypeOK, P!IInv, [Next]_vars, P!IInv' PROVE TypeOK'
<1>0. /\ plan \in [Comparison -> Plan]
      /\ DOMAIN known \subseteq Comparison /\ known \in [DOMAIN known -> BOOLEAN]
      /\ PartialDiffs(outcomes, Comparison \cup OneSided)
      /\ PartialDiffs(provisional, Comparison)
      /\ stack \in Seq(Frame)
      /\ returned \in Seq(Comparison \X CallResult)
  BY DEF TypeOK
<1>1. CASE NodeDiff \/ Incomparable
  <2>1. stack' \in Seq(Frame)
    <3>1. Running
      BY <1>1, SpotSteps DEF HasItem
    <3> QED BY <1>0, <1>1, <3>1, SpotSteps, ProceedElements
  <2>2. UNCHANGED <<plan, known, outcomes, provisional, returned>>
    BY <1>1, Zenon DEF NodeDiff, Incomparable
  <2> QED BY <1>0, <2>1, <2>2, SearchTypes DEF TypeOK
<1>2. CASE RemovedOrAdded
  <2>1. stack' \in Seq(Frame)
    <3>1. Running
      BY <1>2, SpotSteps DEF HasItem
    <3> QED BY <1>0, <1>2, <3>1, SpotSteps, ProceedElements
  <2>2. /\ outcomes' = Inserted(outcomes, [c \in {Current.to} |-> EmptyDiff])
        /\ UNCHANGED <<plan, known, provisional, returned>>
    BY <1>2 DEF RemovedOrAdded
  <2>3. PartialDiffs([c \in {Current.to} |-> EmptyDiff], Comparison \cup OneSided)
    <3>1. Current \in Item /\ Current.kind = "one-sided"
      BY <1>2, SpotSteps, ItemFacts DEF RemovedOrAdded, At
    <3>2. Current.to \in OneSided
      BY <3>1, Zenon DEF Item
    <3>3. EmptyDiff \in Diff
      BY EmptySeq DEF EmptyDiff, Diff
    <3> QED BY <3>2, <3>3 DEF PartialDiffs
  <2>4. PartialDiffs(outcomes', Comparison \cup OneSided)
    BY <1>0, <2>2, <2>3, InsertedDiffs
  <2> QED BY <1>0, <2>1, <2>2, <2>4, SearchTypes DEF TypeOK
<1>3. CASE CompareKnown
  <2>1. /\ Running /\ HasItem /\ IsEdge(Current) /\ Current.to \in DOMAIN known
        /\ stack' = Proceed(MaybeAddEdgeDiff(Top, KnownResult(Current.to)))
        /\ UNCHANGED <<plan, known, outcomes, provisional, returned>>
    BY <1>3 DEF CompareKnown, At, HasItem, IsEdge
  <2>2. KnownResult(Current.to) \in CallResult
    BY <2>1, ItemFacts DEF KnownResult, CallResult
  <2>3. Updated(Top, MaybeAddEdgeDiff(Top, KnownResult(Current.to)),
                Top.equals /\ KnownResult(Current.to).equals)
    BY <2>1, <2>2, TopCall, Updates
  <2>4. stack' \in Seq(Frame)
    BY <1>0, <2>1, <2>3, ProceedElements
  <2> QED BY <1>0, <2>1, <2>4, SearchTypes DEF TypeOK
<1>4. CASE CompareOpen
  <2> DEFINE result == [equals |-> TRUE, edge |-> Current.to]
  <2>1. /\ Running /\ HasItem /\ IsEdge(Current)
        /\ stack' = Proceed(MaybeAddEdgeDiff(Top, result))
        /\ UNCHANGED <<plan, known, outcomes, provisional, returned>>
    BY <1>4 DEF CompareOpen, At, HasItem, IsEdge
  <2>2. result \in CallResult
    BY <2>1, ItemFacts DEF CallResult
  <2> HIDE DEF result
  <2>3. Updated(Top, MaybeAddEdgeDiff(Top, result), Top.equals /\ result.equals)
    BY <2>1, <2>2, TopCall, Updates
  <2>4. stack' \in Seq(Frame)
    BY <1>0, <2>1, <2>3, ProceedElements
  <2> QED BY <1>0, <2>1, <2>4, SearchTypes DEF TypeOK
<1>5. CASE CompareNew
  <2>1. /\ Running /\ HasItem /\ IsEdge(Current) /\ Enter(Current.to, Proceed(Top))
        /\ UNCHANGED <<plan, known, outcomes, provisional, returned>>
    BY <1>5 DEF CompareNew, At, HasItem, IsEdge, Enter
  <2>2. Proceed(Top) \in Seq(Frame)
    <3>1. Updated(Top, Top, Top.equals)
      BY <2>1, TopCall DEF Updated
    <3> QED BY <1>0, <2>1, <3>1, ProceedElements
  <2>3. stack' \in Seq(Frame)
    BY <2>1, <2>2, ItemFacts, EnterIsSearch
  <2> QED BY <1>0, <2>1, <2>3, SearchTypes DEF TypeOK
<1>6. CASE CloseSCC
  <2> DEFINE result == IF Top.equals THEN [equals |-> TRUE, edge |-> NoEdge]
                                     ELSE [equals |-> FALSE, edge |-> Top.node]
             S == ClosedNodes(scc, Top.handle)
             new == [c \in S |-> Top.equals]
             diffs == [c \in S |-> Provided[c]]
  <2>1. /\ Running /\ S \subseteq DOMAIN Provided /\ known' = Inserted(known, new)
        /\ outcomes' = IF Top.equals THEN outcomes ELSE Inserted(outcomes, diffs)
        /\ provisional' = [c \in DOMAIN Provided \ S |-> Provided[c]]
        /\ Return(result) /\ UNCHANGED plan
    BY <1>6 DEF CloseSCC, Finished
  <2>2. /\ PartialDiffs(Provided, Comparison) /\ Top.equals \in BOOLEAN /\ Top.node \in Comparison
    BY <2>1, ProvidedDiffs, TopCall DEF Frame
  <2> HIDE DEF S
  <2>3. DOMAIN known' \subseteq Comparison /\ known' \in [DOMAIN known' -> BOOLEAN]
    BY <1>0, <2>1, <2>2 DEF Inserted, PartialDiffs
  <2>4. PartialDiffs(provisional', Comparison) /\ PartialDiffs(diffs, Comparison \cup OneSided)
    BY <2>1, <2>2 DEF PartialDiffs
  <2>5. PartialDiffs(outcomes', Comparison \cup OneSided)
    <3> HIDE DEF diffs
    <3> QED BY <1>0, <2>1, <2>4, InsertedDiffs
  <2>6. result \in CallResult
    BY <2>1, ClosedResult
  <2> HIDE DEF result
  <2>7. stack' \in Seq(Frame)
    BY <2>1, <2>6, ReturnElements
  <2>8. returned' \in Seq(Comparison \X CallResult)
    <3>1. <<<<Top.node, result>>>> \in Seq(Comparison \X CallResult)
      BY <2>2, <2>6
    <3> QED BY <1>0, <2>1, <2>6, <3>1, ReturnElements
  <2> QED BY <1>0, <2>1, <2>3, <2>4, <2>5, <2>7, <2>8, SearchTypes DEF TypeOK
<1>7. CASE CloseNothing
  <2> DEFINE result == [equals |-> Top.equals, edge |-> Top.node]
  <2>1. /\ Running /\ provisional' = Provided
        /\ Return(result) /\ UNCHANGED <<plan, known, outcomes>>
    BY <1>7 DEF CloseNothing, Finished
  <2>2. /\ PartialDiffs(Provided, Comparison) /\ Top.node \in Comparison
    BY <2>1, ProvidedDiffs, TopCall
  <2>3. result \in CallResult
    BY <2>1, ClosedResult
  <2> HIDE DEF result
  <2>4. stack' \in Seq(Frame)
    BY <2>1, <2>3, ReturnElements
  <2>5. returned' \in Seq(Comparison \X CallResult)
    <3>1. <<<<Top.node, result>>>> \in Seq(Comparison \X CallResult)
      BY <2>2, <2>3
    <3> QED BY <1>0, <2>1, <2>3, <3>1, ReturnElements
  <2> QED BY <1>0, <2>1, <2>2, <2>4, <2>5, SearchTypes DEF TypeOK
<1>8. ASSUME NEW c \in Comparison, Start(c) PROVE TypeOK'
  <2>1. /\ Enter(c, stack) /\ returned' = << >>
        /\ UNCHANGED <<plan, known, outcomes, provisional>>
    BY <1>8 DEF Start, Enter
  <2>2. stack' \in Seq(Frame)
    BY <1>0, <2>1, EnterIsSearch
  <2> QED BY <1>0, <2>1, <2>2, EmptySeq, SearchTypes DEF TypeOK
<1>9. ASSUME NEW c \in Comparison, StartKnown(c) PROVE TypeOK'
  <2>1. /\ c \in DOMAIN known /\ returned' = <<<<c, KnownResult(c)>>>>
        /\ UNCHANGED <<plan, known, outcomes, provisional, stack>>
    BY <1>9 DEF StartKnown
  <2>2. KnownResult(c) \in CallResult
    BY <1>9 DEF KnownResult, CallResult
  <2>3. <<<<c, KnownResult(c)>>>> \in Seq(Comparison \X CallResult)
    BY <2>2
  <2> QED BY <1>0, <2>1, <2>3, SearchTypes DEF TypeOK
<1>10. CASE UNCHANGED vars
  BY <1>10, SearchTypes DEF vars, TypeOK
<1> QED BY <1>1, <1>2, <1>3, <1>4, <1>5, <1>6, <1>7, <1>8, <1>9, <1>10 DEF Next, Step

--------------------------------------------------------------------------------
(***************************************************************************)
(* Verdicts.                                                               *)
(***************************************************************************)

\* The parts of open_ that belong to the calls.
LEMMA PartFacts ==
  ASSUME TypeOK, P!IInv
  PROVE  /\ Len(stack) \in Nat /\ Len(scc.open_) \in Nat
         /\ \A f \in 1 .. Len(stack) :
              /\ stack[f].node \in Comparison /\ stack[f].next \in Nat \ {0}
              /\ stack[f].equals \in BOOLEAN
              /\ stack[f].handle \in 1 .. Len(scc.open_)
              /\ scc.open_[stack[f].handle] = stack[f].node
              /\ EndOf(f) \in stack[f].handle + 1 .. Len(scc.open_) + 1
              /\ Len(plan[stack[f].node].items) \in Nat
         /\ \A o \in 1 .. Len(scc.open_) : Len(plan[scc.open_[o]].items) \in Nat
<1>1. stack \in Seq(Frame) /\ plan \in [Comparison -> Plan]
  BY DEF TypeOK
<1>2. Len(stack) \in Nat /\ Len(scc.open_) \in Nat
  BY <1>1, SearchFacts
<1>3. ASSUME NEW f \in 1 .. Len(stack)
      PROVE  /\ stack[f].node \in Comparison /\ stack[f].next \in Nat \ {0}
             /\ stack[f].equals \in BOOLEAN
             /\ stack[f].handle \in 1 .. Len(scc.open_)
             /\ scc.open_[stack[f].handle] = stack[f].node
             /\ EndOf(f) \in stack[f].handle + 1 .. Len(scc.open_) + 1
             /\ Len(plan[stack[f].node].items) \in Nat
  <2>1. /\ stack[f] \in Frame /\ stack[f].handle \in 1 .. Len(scc.open_)
        /\ scc.open_[stack[f].handle] = stack[f].node
    BY <1>1, SearchFacts
  <2>2. /\ stack[f].node \in Comparison /\ stack[f].next \in Nat \ {0}
        /\ stack[f].equals \in BOOLEAN
    BY <2>1 DEF Frame
  <2>3. EndOf(f) \in stack[f].handle + 1 .. Len(scc.open_) + 1
    <3>1. CASE f < Len(stack)
      <4>1. f + 1 \in 1 .. Len(stack) /\ f < f + 1
        BY <1>2, <3>1
      <4>2. /\ stack[f].handle < stack[f + 1].handle
            /\ stack[f + 1].handle \in 1 .. Len(scc.open_)
        BY <1>1, <4>1, SearchFacts
      <4> QED BY <1>2, <2>1, <3>1, <4>2 DEF EndOf
    <3>2. CASE ~(f < Len(stack))
      BY <1>2, <2>1, <3>2 DEF EndOf
    <3> QED BY <3>1, <3>2
  <2> QED BY <1>1, <2>1, <2>2, <2>3, PlanItems
<1>4. \A o \in 1 .. Len(scc.open_) : Len(plan[scc.open_[o]].items) \in Nat
  BY <1>1, SearchFacts, PlanItems
<1> QED BY <1>2, <1>3, <1>4

\* A step to the next item keeps the invariant, if its equality is justified.
LEMMA AdvanceSound ==
  ASSUME IInv, P!IInv, TypeOK', HasItem,
         NEW frame, NEW equals, Updated(Top, frame, equals), stack' = Proceed(frame),
         UNCHANGED <<plan, known, provisional, returned>>,
         scc'.open_ = scc.open_, scc'.is_open_ = scc.is_open_,
         equals => Top.equals /\ NoReason(Current, Len(scc.open_) + 1),
         ~equals => ~Equal(plan, Top.node)
  PROVE  IInv'
<1> DEFINE n == Len(stack)
<1>1. TypeOK /\ EqualSoFar /\ UnequalForGood /\ CallsAwaited /\ VerdictsCorrect /\ ProvisionalExact
  BY DEF IInv
<1>2. Running /\ stack \in Seq(Frame)
  BY <1>1 DEF HasItem, TypeOK
<1>3. /\ n \in Nat \ {0} /\ Len(stack') = n
      /\ \A f \in 1 .. n :
           /\ f # n => stack'[f] = stack[f]
           /\ stack'[f].node = stack[f].node
           /\ stack'[f].handle = stack[f].handle
      /\ stack'[n].next = Top.next + 1
      /\ stack'[n].equals <=> equals
  BY <1>2, ProceedElements
<1>4. Top.next \in 1 .. Len(plan[Top.node].items)
  BY <1>1, ItemFacts
<1>5. ASSUME NEW f \in 1 .. n
      PROVE  /\ stack[f].node \in Comparison /\ stack[f].next \in Nat \ {0}
             /\ stack[f].handle \in 1 .. Len(scc.open_)
             /\ scc.open_[stack[f].handle] = stack[f].node
             /\ f < n => f + 1 \in 1 .. n
             /\ f = n \/ f < n
  BY <1>1, <1>3, PartFacts
<1>6. ASSUME NEW f \in 1 .. n PROVE EndOf(f)' = EndOf(f)
  BY <1>3, <1>5 DEF EndOf
<1>7. Top.next \in Nat \ {0}
  BY <1>1, <1>2, TopCall DEF Frame
<1>8. EqualSoFar'
  <2> SUFFICES ASSUME NEW f \in 1 .. n, stack'[f].equals,
                      NEW o \in stack'[f].handle .. EndOf(f)' - 1, NEW i \in 1 .. DoneWith(f, o)'
               PROVE  NoReason(plan[scc.open_[o]].items[i], EndOf(f))
    BY <1>3, <1>6 DEF EqualSoFar, NoReason, IsOpen
  <2>1. o \in stack[f].handle .. EndOf(f) - 1
    BY <1>3, <1>6
  <2>2. CASE f # n
    <3>1. DoneWith(f, o)' = DoneWith(f, o)
      BY <1>3, <2>2 DEF DoneWith, ItemsDone
    <3> QED BY <1>1, <1>3, <2>1, <2>2, <3>1 DEF EqualSoFar
  <2>3. CASE f = n
    <3>1. stack[f] = Top /\ Top.equals /\ NoReason(Current, Len(scc.open_) + 1)
      BY <1>3, <2>3 DEF Top
    <3>2. EndOf(f) = Len(scc.open_) + 1
      BY <1>3, <2>3 DEF EndOf
    <3>3. CASE o # stack[f].handle
      <4>1. DoneWith(f, o)' = DoneWith(f, o)
        BY <1>3, <3>3 DEF DoneWith, ItemsDone
      <4> QED BY <1>1, <2>1, <3>1, <4>1 DEF EqualSoFar
    <3>4. CASE o = stack[f].handle
      <4>1. DoneWith(f, o)' = Top.next /\ DoneWith(f, o) = Top.next - 1
        BY <1>3, <1>7, <2>3, <3>1, <3>4 DEF DoneWith, ItemsDone
      <4>2. CASE i = Top.next
        <5>1. plan[scc.open_[o]].items[i] = Current
          BY <1>5, <3>1, <3>4, <4>2 DEF Current
        <5> QED BY <3>1, <3>2, <5>1
      <4>3. CASE i # Top.next
        <5>1. i \in 1 .. DoneWith(f, o)
          BY <1>4, <4>1, <4>3
        <5> QED BY <1>1, <2>1, <3>1, <5>1 DEF EqualSoFar
      <4> QED BY <4>2, <4>3
    <3> QED BY <3>3, <3>4
  <2> QED BY <2>2, <2>3, SMTT(30)
<1>9. UnequalForGood'
  <2> SUFFICES ASSUME NEW f \in 1 .. n PROVE stack'[f].equals \/ ~Equal(plan, stack[f].node)
    BY <1>3 DEF UnequalForGood
  <2>1. CASE f # n
    BY <1>1, <1>3, <2>1 DEF UnequalForGood
  <2>2. CASE f = n
    BY <1>3, <2>2, SMTT(30) DEF Top
  <2> QED BY <2>1, <2>2
<1>10. CallsAwaited'
  <2> SUFFICES ASSUME NEW f \in 1 .. n
               PROVE  /\ stack'[f].next - 1 \in 0 .. Len(plan[stack[f].node].items)
                      /\ f < n =>
                           LET items == plan[stack[f].node].items
                               i     == stack'[f].next - 1
                           IN  i # 0 /\ IsEdge(items[i]) /\ items[i].to = stack'[f + 1].node
    BY <1>3, SMTT(30) DEF CallsAwaited
  <2>1. CASE f # n
    BY <1>1, <1>3, <1>5, <2>1 DEF CallsAwaited
  <2>2. CASE f = n
    BY <1>3, <1>4, <2>2 DEF Top
  <2> QED BY <2>1, <2>2, SMTT(30)
<1>11. VerdictsCorrect'
  BY <1>1 DEF VerdictsCorrect
<1>12. ProvisionalExact'
  <2>1. {stack'[f].node : f \in 1 .. Len(stack')} = {stack[f].node : f \in 1 .. n}
    BY <1>3
  <2>2. Running'
    BY <1>3, EmptySeq DEF Running
  <2> QED BY <1>1, <2>1, <2>2 DEF ProvisionalExact
<1> QED BY <1>8, <1>9, <1>10, <1>11, <1>12 DEF IInv

\* The calls and the finder once a comparison is opened: the parts that belong to the
\* calls stay as they are.
LEMMA EnterFacts ==
  ASSUME IInv, P!IInv, NEW c \in Comparison, ~IsOpen(scc, c),
         NEW callers \in Seq(Frame), Enter(c, callers), Len(callers) = Len(stack),
         \A f \in 1 .. Len(stack) :
           /\ callers[f].node = stack[f].node
           /\ callers[f].handle = stack[f].handle
           /\ callers[f].equals = stack[f].equals
           /\ callers[f].next = IF f = Len(stack) THEN stack[f].next + 1 ELSE stack[f].next
  PROVE  /\ Len(stack) \in Nat /\ Len(scc.open_) \in Nat /\ plan \in [Comparison -> Plan]
         /\ stack' \in Seq(Frame)
         /\ stack'[Len(stack) + 1].node = c
         /\ stack'[Len(stack) + 1].handle = Len(scc.open_) + 1
         /\ stack'[Len(stack) + 1].next = 1
         /\ stack'[Len(stack) + 1].equals = TRUE
         /\ scc' = OpenNew(scc, c)
         /\ UNCHANGED <<plan, known, outcomes, provisional, sccs>>
         /\ Len(stack') = Len(stack) + 1
         /\ \A f \in 1 .. Len(stack) : stack'[f] = callers[f]
         /\ Len(scc'.open_) = Len(scc.open_) + 1
         /\ \A o \in 1 .. Len(scc.open_) : scc'.open_[o] = scc.open_[o]
         /\ DOMAIN scc'.is_open_ = DOMAIN scc.is_open_ \cup {c}
         /\ \A d \in DOMAIN scc.is_open_ : scc'.is_open_[d] = scc.is_open_[d]
         /\ \A f \in 1 .. Len(stack) :
              /\ stack[f].next \in Nat \ {0}
              /\ stack[f].handle \in 1 .. Len(scc.open_)
              /\ EndOf(f) \in stack[f].handle + 1 .. Len(scc.open_) + 1
              /\ stack'[f].handle = stack[f].handle
              /\ stack'[f].node = stack[f].node
              /\ stack'[f].equals = stack[f].equals
              /\ stack'[f].next = IF f = Len(stack) THEN stack[f].next + 1 ELSE stack[f].next
              /\ f < Len(stack) => f + 1 \in 1 .. Len(stack)
              /\ f = Len(stack) \/ f < Len(stack)
              /\ EndOf(f)' = EndOf(f)
              /\ \A o \in 1 .. Len(scc.open_) : DoneWith(f, o)' = DoneWith(f, o)
<1> DEFINE n == Len(stack)
           m == Len(scc.open_)
<1>1. TypeOK
  BY DEF IInv
<1>2. n \in Nat /\ m \in Nat /\ plan \in [Comparison -> Plan]
  BY <1>1, PartFacts DEF TypeOK
<1>3. /\ stack' = Append(callers, stack'[n + 1]) /\ stack' \in Seq(Frame)
      /\ stack'[n + 1].node = c
      /\ stack'[n + 1].handle = m + 1
      /\ stack'[n + 1].next = 1
      /\ stack'[n + 1].equals = TRUE
      /\ stack'[n + 1] \in Frame
      /\ scc' = OpenNew(scc, c)
      /\ UNCHANGED <<plan, known, outcomes, provisional, sccs>>
  <2>1. /\ scc' = OpenNew(scc, c)
        /\ UNCHANGED <<plan, known, outcomes, provisional, sccs>>
    BY DEF Enter
  <2> DEFINE k == Len(callers) + 1
  <2>2. /\ stack' = Append(callers, stack'[k]) /\ stack' \in Seq(Frame)
        /\ stack'[k] \in Frame /\ stack'[k].node = c /\ stack'[k].handle = m + 1
        /\ stack'[k].next = 1 /\ stack'[k].equals = TRUE
    BY <1>1, EnterIsSearch
  <2>3. k = n + 1
    OBVIOUS
  <2> HIDE DEF k, n
  <2> QED BY <2>1, <2>2, <2>3
<1>4. /\ Len(stack') = n + 1
      /\ \A f \in 1 .. n : stack'[f] = callers[f]
  BY SMTT(30), <1>3, AppendProperties
<1>5. /\ scc'.open_ = Append(scc.open_, c) /\ Len(scc'.open_) = m + 1
      /\ \A o \in 1 .. m : scc'.open_[o] = scc.open_[o]
      /\ DOMAIN scc'.is_open_ = DOMAIN scc.is_open_ \cup {c}
      /\ \A d \in DOMAIN scc.is_open_ : scc'.is_open_[d] = scc.is_open_[d]
  <2>1. scc.open_ \in Seq(Comparison)
    BY <1>1, SearchFacts DEF TypeOK
  <2>2. /\ scc'.open_ = Append(scc.open_, c)
        /\ scc'.is_open_ = [d \in DOMAIN scc.is_open_ \cup {c} |->
                              IF d = c THEN NextIndex(scc) ELSE scc.is_open_[d]]
    BY <1>3 DEF OpenNew
  <2>3. c \notin DOMAIN scc.is_open_
    BY DEF IsOpen
  <2> QED BY <2>1, <2>2, <2>3, AppendProperties
<1>6. ASSUME NEW f \in 1 .. n
      PROVE  /\ stack[f].next \in Nat \ {0}
             /\ stack[f].handle \in 1 .. m /\ EndOf(f) \in stack[f].handle + 1 .. m + 1
             /\ stack'[f].handle = stack[f].handle
             /\ stack'[f].node = stack[f].node
             /\ stack'[f].equals = stack[f].equals
             /\ stack'[f].next = IF f = n THEN stack[f].next + 1 ELSE stack[f].next
             /\ f < n => f + 1 \in 1 .. n
             /\ f = n \/ f < n
  BY <1>1, <1>2, <1>4, PartFacts, SMTT(30)
<1>7. ASSUME NEW f \in 1 .. n PROVE EndOf(f)' = EndOf(f)
  BY <1>2, <1>3, <1>4, <1>6 DEF EndOf
<1>8. ASSUME NEW f \in 1 .. n, NEW o \in 1 .. m PROVE DoneWith(f, o)' = DoneWith(f, o)
  <2>1. o # stack[f].handle => DoneWith(f, o)' = DoneWith(f, o)
    BY <1>3, <1>5, <1>6, SMTT(30) DEF DoneWith, ItemsDone
  <2>2. o = stack[f].handle => DoneWith(f, o)' = DoneWith(f, o)
    BY <1>2, <1>4, <1>6, SMTT(30) DEF DoneWith, ItemsDone
  <2> QED BY <2>1, <2>2
<1> QED BY <1>2, <1>3, <1>4, <1>5, <1>6, <1>7, <1>8

\* A comparison that is opened keeps the invariant.
LEMMA EnterSound ==
  ASSUME IInv, P!IInv, TypeOK', P!IInv', NEW c \in Comparison, ~IsOpen(scc, c),
         NEW callers \in Seq(Frame), Enter(c, callers), Len(callers) = Len(stack),
         \A f \in 1 .. Len(stack) :
           /\ callers[f].node = stack[f].node
           /\ callers[f].handle = stack[f].handle
           /\ callers[f].equals = stack[f].equals
           /\ callers[f].next = IF f = Len(stack) THEN stack[f].next + 1 ELSE stack[f].next,
         Running => HasItem /\ IsEdge(Current) /\ Current.to = c,
         returned' = returned \/ returned' = << >>
  PROVE  IInv'
<1> DEFINE n == Len(stack)
           m == Len(scc.open_)
<1>1. TypeOK /\ EqualSoFar /\ UnequalForGood /\ CallsAwaited /\ VerdictsCorrect /\ ProvisionalExact
  BY DEF IInv
<1>2. n \in Nat /\ m \in Nat /\ plan \in [Comparison -> Plan]
  BY EnterFacts
<1>3. /\ stack'[n + 1].node = c
      /\ stack'[n + 1].handle = m + 1
      /\ stack'[n + 1].next = 1
      /\ stack'[n + 1].equals = TRUE
      /\ scc' = OpenNew(scc, c)
      /\ UNCHANGED <<plan, known, outcomes, provisional, sccs>>
  BY EnterFacts
<1>4. /\ Len(stack') = n + 1
      /\ \A f \in 1 .. n : stack'[f] = callers[f]
  BY EnterFacts
<1>5. /\ Len(scc'.open_) = m + 1
      /\ \A o \in 1 .. m : scc'.open_[o] = scc.open_[o]
      /\ DOMAIN scc'.is_open_ = DOMAIN scc.is_open_ \cup {c}
      /\ \A d \in DOMAIN scc.is_open_ : scc'.is_open_[d] = scc.is_open_[d]
  BY EnterFacts
<1>6. ASSUME NEW f \in 1 .. n
      PROVE  /\ stack[f].next \in Nat \ {0}
             /\ stack[f].handle \in 1 .. m /\ EndOf(f) \in stack[f].handle + 1 .. m + 1
             /\ stack'[f].handle = stack[f].handle
             /\ stack'[f].node = stack[f].node
             /\ stack'[f].equals = stack[f].equals
             /\ stack'[f].next = IF f = n THEN stack[f].next + 1 ELSE stack[f].next
             /\ f < n => f + 1 \in 1 .. n
             /\ f = n \/ f < n
  BY EnterFacts
<1>7. ASSUME NEW f \in 1 .. n PROVE EndOf(f)' = EndOf(f)
  BY EnterFacts
<1>8. \A f \in 1 .. n : \A o \in 1 .. m : DoneWith(f, o)' = DoneWith(f, o)
  BY EnterFacts
<1>9. EqualSoFar'
  <2> SUFFICES ASSUME NEW f \in 1 .. n + 1, stack'[f].equals,
                      NEW o \in stack'[f].handle .. EndOf(f)' - 1, NEW i \in 1 .. DoneWith(f, o)'
               PROVE  NoReason(plan[scc.open_[o]].items[i], EndOf(f))'
    BY <1>3, <1>4 DEF EqualSoFar
  <2>1. CASE f = n + 1
    <3>1. EndOf(f)' = m + 2
      BY <1>2, <1>4, <1>5, <2>1 DEF EndOf
    <3>2. o = m + 1
      BY <1>2, <1>3, <2>1, <3>1
    <3>3. DoneWith(f, o)' = 0
      BY <1>2, <1>3, <1>4, <2>1, <3>2 DEF DoneWith, ItemsDone
    <3> QED BY <3>3
  <2>2. CASE f \in 1 .. n
    <3>1. /\ o \in stack[f].handle .. EndOf(f) - 1 /\ o \in 1 .. m
          /\ stack[f].equals /\ EndOf(f)' = EndOf(f)
      BY <1>2, <1>6, <1>7, <2>2, SMTT(30)
    <3>2. i \in 1 .. DoneWith(f, o) /\ scc'.open_[o] = scc.open_[o]
      BY <1>5, <1>8, <2>2, <3>1
    <3>3. NoReason(plan[scc.open_[o]].items[i], EndOf(f))
      BY <1>1, <2>2, <3>1, <3>2 DEF EqualSoFar
    <3> DEFINE item == plan[scc.open_[o]].items[i]
    <3>4. item' = item
      BY <1>3, <3>2
    <3>5. NoReason(item, EndOf(f))
      BY <3>3
    <3> HIDE DEF item
    <3>6. /\ IsEdge(item)
          /\ IF item.to \in DOMAIN known' THEN known'[item.to]
             ELSE item.to \in DOMAIN scc'.is_open_ /\ scc'.is_open_[item.to] < EndOf(f)'
      BY <1>3, <1>5, <3>1, <3>5 DEF NoReason, IsOpen
    <3>7. NoReason(item, EndOf(f))'
      BY <3>4, <3>6 DEF NoReason, IsOpen
    <3> QED BY <3>7 DEF item
  <2> QED BY <1>2, <2>1, <2>2
<1>10. UnequalForGood'
  <2> SUFFICES ASSUME NEW f \in 1 .. n + 1 PROVE stack'[f].equals \/ ~Equal(plan, stack'[f].node)
    BY <1>3, <1>4 DEF UnequalForGood
  <2>1. CASE f \in 1 .. n
    BY <1>1, <1>6, <2>1 DEF UnequalForGood
  <2> QED BY <1>2, <1>3, <2>1
<1>11. CallsAwaited'
  <2> SUFFICES ASSUME NEW f \in 1 .. n + 1
               PROVE  /\ stack'[f].next - 1 \in 0 .. Len(plan[stack'[f].node].items)
                      /\ f < n + 1 =>
                           LET items == plan[stack'[f].node].items
                               i     == stack'[f].next - 1
                           IN  i # 0 /\ IsEdge(items[i]) /\ items[i].to = stack'[f + 1].node
    BY <1>3, <1>4 DEF CallsAwaited
  <2>1. CASE f = n + 1
    BY <1>2, <1>3, <2>1, PlanItems
  <2>2. CASE f = n
    <3>1. f \in 1 .. n /\ stack[f] = Top /\ Running
      BY <1>2, <2>2, EmptySeq DEF Top, Running
    <3>2. Top.next \in 1 .. Len(plan[Top.node].items) /\ IsEdge(Current) /\ Current.to = c
      BY <1>1, <3>1, ItemFacts
    <3>3. stack'[f].next = Top.next + 1 /\ stack'[f].node = Top.node /\ Top.next \in Nat \ {0}
      BY <1>6, <2>2, <3>1, SMTT(30)
    <3> QED BY <1>3, <2>2, <3>2, <3>3, SMTT(30) DEF Current
  <2>3. CASE f \in 1 .. n /\ f # n
    BY <1>1, <1>6, <2>3 DEF CallsAwaited
  <2> QED BY <1>2, <2>1, <2>2, <2>3
<1>12. VerdictsCorrect'
  <2>1. Len(<< >>) = 0
    BY EmptySeq
  <2> QED BY <1>1, <1>3, <2>1, SMTT(30) DEF VerdictsCorrect
<1>13. ProvisionalExact'
  <2>1. {stack'[f].node : f \in 1 .. Len(stack')} = {stack[f].node : f \in 1 .. n} \cup {c}
    <3>1. \A f \in 1 .. n + 1 : f \in 1 .. n \/ f = n + 1
      BY <1>2
    <3>2. \A f \in 1 .. n : f \in 1 .. n + 1
      BY <1>2
    <3>3. n + 1 \in 1 .. n + 1
      BY <1>2
    <3>4. \A f \in 1 .. n : stack'[f].node = stack[f].node
      BY <1>6
    <3> QED BY <1>3, <1>4, <3>1, <3>2, <3>3, <3>4, SMTT(30)
  <2>2. Running'
    BY <1>2, <1>3, <1>4, EmptySeq DEF Running
  <2>3. c \notin DOMAIN provisional
    BY <1>1 DEF ProvisionalExact, IsOpen
  <2> DEFINE N == {stack[f].node : f \in 1 .. n}
             D == DOMAIN scc.is_open_
  <2>4. DOMAIN provisional = D \ N
    BY <1>1 DEF ProvisionalExact
  <2>5. DOMAIN provisional' = (D \cup {c}) \ (N \cup {c})
    <3> HIDE DEF N, D
    <3> QED BY <1>3, <2>3, <2>4
  <2> QED BY <1>5, <2>1, <2>2, <2>5 DEF ProvisionalExact
<1> QED BY <1>9, <1>10, <1>11, <1>12, <1>13 DEF IInv

\* A call that is finished has followed every item of the comparisons opened since.
LEMMA FinishedDone ==
  ASSUME IInv, P!IInv, Finished
  PROVE  /\ Len(stack) \in Nat \ {0} /\ Len(scc.open_) \in Nat
         /\ Top.handle \in 1 .. Len(scc.open_) /\ scc.open_[Top.handle] = Top.node
         /\ Top.node \in Comparison /\ Top.equals \in BOOLEAN
         /\ Top.equals =>
              \A o \in Top.handle .. Len(scc.open_) : \A i \in 1 .. Len(plan[scc.open_[o]].items) :
                NoReason(plan[scc.open_[o]].items[i], Len(scc.open_) + 1)
         /\ ~Top.equals => ~Equal(plan, Top.node)
<1> DEFINE n == Len(stack)
           m == Len(scc.open_)
<1>1. TypeOK /\ EqualSoFar /\ UnequalForGood /\ CallsAwaited /\ Running
  BY DEF IInv, Finished
<1>2. n \in Nat \ {0} /\ n \in 1 .. n /\ stack[n] = Top /\ m \in Nat
  BY <1>1, TopCall, PartFacts DEF Top
<1>3. /\ Top.node \in Comparison /\ Top.equals \in BOOLEAN /\ Top.next \in Nat \ {0}
      /\ Top.handle \in 1 .. m /\ scc.open_[Top.handle] = Top.node
      /\ Len(plan[Top.node].items) \in Nat
  BY <1>1, <1>2, PartFacts
<1>4. Top.next - 1 = Len(plan[Top.node].items)
  <2>1. ~(Top.next <= Len(plan[Top.node].items))
    BY <1>1, FinishedFacts
  <2>2. Top.next - 1 \in 0 .. Len(plan[Top.node].items)
    BY <1>1, <1>2 DEF CallsAwaited
  <2> QED BY <1>3, <2>1, <2>2
<1>5. EndOf(n) = m + 1
  BY <1>2 DEF EndOf
<1>6. \A o \in Top.handle .. m : DoneWith(n, o) = Len(plan[scc.open_[o]].items)
  BY <1>2, <1>3, <1>4 DEF DoneWith, ItemsDone
<1>7. ASSUME Top.equals, NEW o \in Top.handle .. m, NEW i \in 1 .. Len(plan[scc.open_[o]].items)
      PROVE  NoReason(plan[scc.open_[o]].items[i], m + 1)
  <2>1. o \in Top.handle .. EndOf(n) - 1
    BY <1>2, <1>3, <1>5
  <2>2. i \in 1 .. DoneWith(n, o)
    BY <1>6, SMTT(30)
  <2> QED BY <1>1, <1>2, <1>5, <1>7, <2>1, <2>2 DEF EqualSoFar
<1>8. ~Top.equals => ~Equal(plan, Top.node)
  BY <1>1, <1>2 DEF UnequalForGood
<1> QED BY <1>2, <1>3, <1>7, <1>8

\* The call that waits for the innermost one.
LEMMA CallerFacts ==
  ASSUME IInv, P!IInv, Running, Len(stack) # 1,
         NEW k, k = Len(stack) - 1, NEW i, i = stack[k].next - 1
  PROVE  /\ k \in 1 .. Len(stack) /\ k < Len(stack) /\ k + 1 = Len(stack)
         /\ EndOf(k) = Top.handle /\ stack[k].handle < Top.handle
         /\ stack[k].handle \in 1 .. Len(scc.open_)
         /\ stack[k].node \in Comparison /\ stack[k].equals \in BOOLEAN
         /\ scc.open_[stack[k].handle] = stack[k].node
         /\ i \in 1 .. Len(plan[stack[k].node].items)
         /\ IsEdge(plan[stack[k].node].items[i])
         /\ plan[stack[k].node].items[i].to = Top.node
         /\ Equal(plan, stack[k].node) => Equal(plan, Top.node)
<1>1. TypeOK /\ CallsAwaited /\ stack \in Seq(Frame) /\ plan \in [Comparison -> Plan]
  BY DEF IInv, TypeOK
<1>2. k \in 1 .. Len(stack) /\ k < Len(stack) /\ k + 1 = Len(stack) /\ k + 1 \in 1 .. Len(stack)
  BY <1>1, TopCall
<1>3. /\ stack[k].node \in Comparison /\ stack[k].equals \in BOOLEAN /\ stack[k].next \in Nat \ {0}
      /\ stack[k].handle \in 1 .. Len(scc.open_)
      /\ scc.open_[stack[k].handle] = stack[k].node
      /\ Len(plan[stack[k].node].items) \in Nat
  BY <1>1, <1>2, PartFacts
<1>4. stack[k].handle < Top.handle
  BY <1>1, <1>2, SearchFacts, SMTT(30) DEF Top
<1>5. EndOf(k) = Top.handle
  BY <1>2 DEF EndOf, Top
<1>6. /\ i \in 0 .. Len(plan[stack[k].node].items) /\ i # 0
      /\ IsEdge(plan[stack[k].node].items[i])
      /\ plan[stack[k].node].items[i].to = Top.node
  BY <1>1, <1>2, SMTT(30) DEF CallsAwaited, Top
<1>7. i \in 1 .. Len(plan[stack[k].node].items)
  BY <1>3, <1>6, SMTT(30)
<1>8. Equal(plan, stack[k].node) => Equal(plan, Top.node)
  BY <1>1, <1>3, <1>6, <1>7, EqualEdge
<1> QED BY <1>2, <1>3, <1>4, <1>5, <1>6, <1>7, <1>8

\* The calls that go on when one returns, and what they wait for.
LEMMA ReturnSound ==
  ASSUME IInv, P!IInv, Finished, UNCHANGED plan,
         NEW result \in CallResult, result.equals <=> Top.equals, Return(result)
  PROVE  /\ UnequalForGood' /\ CallsAwaited'
         /\ DOMAIN scc.is_open_ \ {stack[f].node : f \in 1 .. Len(stack)} =
              (DOMAIN scc.is_open_ \ {stack'[f].node : f \in 1 .. Len(stack')}) \ {Top.node}
<1> DEFINE n == Len(stack)
           k == n - 1
<1>1. TypeOK /\ EqualSoFar /\ UnequalForGood /\ CallsAwaited /\ Running
  BY DEF IInv, Finished
<1>2. n \in Nat \ {0} /\ n \in 1 .. n /\ stack[n] = Top /\ Top.equals \in BOOLEAN
  BY <1>1, FinishedDone DEF Top
<1>3. /\ Len(stack') = k
      /\ \A f \in 1 .. k :
           /\ stack'[f].node = stack[f].node
           /\ stack'[f].next = stack[f].next
           /\ stack'[f].equals <=> stack[f].equals /\ (f = k => result.equals)
  BY <1>1, ReturnElements
<1>4. \A f \in 1 .. k : f \in 1 .. n /\ f < n /\ f + 1 \in 1 .. n
  BY <1>2
<1>5. UnequalForGood'
  <2> SUFFICES ASSUME NEW f \in 1 .. k PROVE stack'[f].equals \/ ~Equal(plan, stack[f].node)
    BY <1>3 DEF UnequalForGood
  <2>1. stack[f].equals \/ ~Equal(plan, stack[f].node)
    BY <1>1, <1>4 DEF UnequalForGood
  <2>2. CASE f = k /\ ~Top.equals
    <3>1. ~Equal(plan, Top.node)
      BY <2>2, FinishedDone
    <3>2. Len(stack) # 1
      BY <2>2
    <3> QED BY <1>1, <2>2, <3>1, <3>2, CallerFacts
  <2>3. CASE f # k \/ Top.equals
    BY SMTT(30), <1>3, <2>1, <2>3
  <2> QED BY <2>2, <2>3
<1>6. CallsAwaited'
  <2> SUFFICES ASSUME NEW f \in 1 .. k
               PROVE  /\ stack[f].next - 1 \in 0 .. Len(plan[stack[f].node].items)
                      /\ f < k =>
                           LET items == plan[stack[f].node].items
                               i     == stack[f].next - 1
                           IN  i # 0 /\ IsEdge(items[i]) /\ items[i].to = stack'[f + 1].node
    BY <1>3 DEF CallsAwaited
  <2>1. f < k => f + 1 \in 1 .. k
    BY <1>2
  <2> QED BY SMTT(30), <1>1, <1>3, <1>4, <2>1 DEF CallsAwaited
<1>7. {stack[f].node : f \in 1 .. n} = {stack'[f].node : f \in 1 .. Len(stack')} \cup {Top.node}
  <2>1. \A f \in 1 .. n : f \in 1 .. k \/ f = n
    BY <1>2
  <2>2. {stack[f].node : f \in 1 .. n} = {stack[f].node : f \in 1 .. k} \cup {stack[n].node}
    BY <1>2, <1>4, <2>1
  <2>3. {stack'[f].node : f \in 1 .. k} = {stack[f].node : f \in 1 .. k}
    BY <1>3
  <2> QED BY <1>2, <1>3, <2>2, <2>3
<1> QED BY <1>5, <1>6, <1>7

\* A call that returns while its component stays open keeps the invariant.
LEMMA CloseNothingSound ==
  ASSUME IInv, P!IInv, TypeOK', CloseNothing PROVE IInv'
<1> DEFINE n == Len(stack)
           k == n - 1
           m == Len(scc.open_)
           result == [equals |-> Top.equals, edge |-> Top.node]
<1>1. TypeOK /\ EqualSoFar /\ VerdictsCorrect /\ ProvisionalExact
  BY DEF IInv
<1>2. /\ Finished /\ Running /\ ~IsRoot(scc, Top.handle)
      /\ provisional' = Provided /\ Return(result)
      /\ UNCHANGED <<plan, known, outcomes, scc, sccs, examined>>
  BY DEF CloseNothing, Finished
<1>3. result \in CallResult /\ (result.equals <=> Top.equals)
  BY <1>1, <1>2, ClosedResult
<1> HIDE DEF result
<1>4. n # 1
  <2> SUFFICES ASSUME n = 1 PROVE FALSE
    OBVIOUS
  <2>1. Len(scc.root_index_) \in 1 .. Len(scc.root_index_)
    BY <1>1, <1>2, InnermostFacts DEF TypeOK
  <2>2. scc.root_index_[Len(scc.root_index_)] = Top.handle
    BY <1>1, <1>2, <2>1, InnermostFacts DEF TypeOK
  <2> QED BY <1>2, <2>2 DEF IsRoot
<1>5. /\ Len(stack') = k
      /\ \A f \in 1 .. k :
           /\ stack'[f].node = stack[f].node
           /\ stack'[f].handle = stack[f].handle
           /\ stack'[f].next = stack[f].next
           /\ stack'[f].equals <=> stack[f].equals /\ (f = k => result.equals)
      /\ returned' = returned
  BY <1>1, <1>2, <1>3, <1>4, ReturnElements
<1>6. /\ n \in Nat \ {0} /\ m \in Nat /\ Top.handle \in 1 .. m /\ scc.open_[Top.handle] = Top.node
      /\ Top.equals => \A o \in Top.handle .. m : \A i \in 1 .. Len(plan[scc.open_[o]].items) :
                         NoReason(plan[scc.open_[o]].items[i], m + 1)
  BY <1>2, FinishedDone
<1>7. UnequalForGood' /\ CallsAwaited'
  BY <1>2, <1>3, ReturnSound
<1>8. IsOpen(scc, Top.node) /\ scc.is_open_[Top.node] = Top.handle /\ Top.node \notin DOMAIN known
  BY <1>1, <1>6, SearchFacts DEF TypeOK
<1>9. EqualSoFar'
  <2> SUFFICES ASSUME NEW f \in 1 .. k, stack'[f].equals,
                      NEW o \in stack[f].handle .. EndOf(f)' - 1, NEW i \in 1 .. DoneWith(f, o)'
               PROVE  NoReason(plan[scc.open_[o]].items[i], EndOf(f))'
    BY <1>5 DEF EqualSoFar
  <2> DEFINE item == plan[scc.open_[o]].items[i]
  <2>0. f \in 1 .. n /\ stack[f].equals
    BY <1>5, <1>6, SMTT(30)
  <2>1. CASE f # k
    <3>1. f + 1 \in 1 .. k /\ f < n /\ f < k
      BY <1>6, <2>1
    <3>2. EndOf(f)' = EndOf(f)
      BY <1>5, <3>1 DEF EndOf
    <3>3. DoneWith(f, o)' = DoneWith(f, o)
      BY <1>2, <1>5, <3>1, SMTT(30) DEF DoneWith, ItemsDone
    <3>4. NoReason(item, EndOf(f))
      BY <1>1, <2>0, <3>2, <3>3 DEF EqualSoFar
    <3> QED BY <1>2, <3>2, <3>4 DEF NoReason, IsOpen
  <2>2. CASE f = k
    <3>1. EndOf(f)' = m + 1
      BY <1>2, <1>5, <2>2 DEF EndOf
    <3>2. Top.equals
      BY <1>3, <1>5, <2>2
    <3>3. /\ EndOf(k) = Top.handle /\ stack[k].handle < Top.handle /\ stack[k].handle \in 1 .. m
          /\ k < n /\ scc.open_[stack[k].handle] = stack[k].node
      BY <1>2, <1>4, CallerFacts
    <3>4. NoReason(item, m + 1)
      <4>1. CASE o >= Top.handle
        <5>1. DoneWith(f, o)' = Len(plan[scc.open_[o]].items)
          BY <1>2, <1>5, <1>6, <2>2, <3>3, <4>1, SMTT(30) DEF DoneWith, ItemsDone
        <5> QED BY <1>6, <3>1, <3>2, <4>1, <5>1, SMTT(30)
      <4>2. CASE o < Top.handle
        <5>1. CASE i \in 1 .. DoneWith(f, o)
          <6>1. NoReason(item, Top.handle)
            BY <1>1, <1>6, <2>0, <2>2, <3>3, <4>2, <5>1, SMTT(30) DEF EqualSoFar
          <6>2. \A c : IsOpen(scc, c) => scc.is_open_[c] \in 1 .. m
            BY <1>1, SearchFacts DEF TypeOK
          <6> HIDE DEF item
          <6> QED BY <1>6, <6>1, <6>2 DEF NoReason
        <5>2. CASE i \notin 1 .. DoneWith(f, o)
          <6>1. o = stack[k].handle /\ i = stack[k].next - 1
            <7>1. o = stack[k].handle
              BY <1>2, <1>5, <2>2, <5>2 DEF DoneWith, ItemsDone
            <7>2. DoneWith(f, o)' = stack[k].next - 1 /\ DoneWith(f, o) = stack[k].next - 2
              BY SMTT(30), <1>5, <1>6, <2>2, <3>3, <7>1 DEF DoneWith, ItemsDone
            <7>3. stack[k].next \in Nat
              BY <1>1, <2>0, <2>2, PartFacts
            <7> QED BY <5>2, <7>1, <7>2, <7>3, SMTT(30)
          <6>2. IsEdge(item) /\ item.to = Top.node
            <7>1. item = plan[stack[k].node].items[stack[k].next - 1]
              BY <3>3, <6>1
            <7>2. /\ IsEdge(plan[stack[k].node].items[stack[k].next - 1])
                  /\ plan[stack[k].node].items[stack[k].next - 1].to = Top.node
              BY <1>2, <1>4, CallerFacts
            <7> HIDE DEF item
            <7> QED BY <7>1, <7>2
          <6> HIDE DEF item
          <6> QED BY <1>6, <1>8, <6>2 DEF NoReason
        <5> QED BY <5>1, <5>2
      <4> QED BY <1>6, <3>3, <4>1, <4>2
    <3> QED BY <1>2, <3>1, <3>4 DEF NoReason, IsOpen
  <2> QED BY <2>1, <2>2
<1>10. VerdictsCorrect'
  BY <1>1, <1>2, <1>5 DEF VerdictsCorrect
<1>11. ProvisionalExact'
  <2> DEFINE D == DOMAIN scc.is_open_
             N == {stack[f].node : f \in 1 .. n}
             N1 == {stack'[f].node : f \in 1 .. Len(stack')}
  <2>1. DOMAIN provisional' = DOMAIN provisional \cup {Top.node}
    BY <1>1, <1>2, ProvidedDiffs
  <2>2. DOMAIN provisional = D \ N /\ Top.node \in D
    BY <1>1, <1>8 DEF ProvisionalExact, IsOpen
  <2>3. D \ N = (D \ N1) \ {Top.node}
    BY <1>2, <1>3, ReturnSound
  <2>4. Top.node \notin N1
    <3>1. \A f \in 1 .. k : stack[f].node # Top.node
      <4> SUFFICES ASSUME NEW f \in 1 .. k, stack[f].node = Top.node PROVE FALSE
        OBVIOUS
      <4>1. f \in 1 .. n /\ f < n /\ n \in 1 .. n
        BY <1>6
      <4>2. scc.is_open_[stack[f].node] = stack[f].handle /\ stack[f].handle < Top.handle
            /\ stack[f].handle \in 1 .. m
        BY <1>1, <4>1, SearchFacts DEF TypeOK, Top
      <4> QED BY <1>6, <1>8, <4>2
    <3> QED BY <1>5, <3>1
  <2>5. DOMAIN provisional' = D \ N1
    <3> HIDE DEF D, N, N1
    <3> QED BY <2>1, <2>2, <2>3, <2>4
  <2>6. Running'
    <3>1. stack' # << >>
      BY <1>4, <1>5, <1>6, EmptySeq
    <3> QED BY <3>1 DEF Running
  <2> QED BY <1>2, <2>5, <2>6 DEF ProvisionalExact
<1> QED BY <1>7, <1>9, <1>10, <1>11 DEF IInv

\* All comparisons of a component are as equal as its root.
LEMMA ComponentVerdict ==
  ASSUME IInv, P!IInv, Finished, IsRoot(scc, Top.handle), NEW S, S = ClosedNodes(scc, Top.handle)
  PROVE  /\ S \subseteq Comparison /\ S \subseteq DOMAIN scc.is_open_
         /\ S = {scc.open_[o] : o \in Top.handle .. Len(scc.open_)}
         /\ Top.node \in S
         /\ \A c \in S : Equal(plan, c) <=> Top.equals
<1> DEFINE m == Len(scc.open_)
<1>1. /\ TypeOK /\ VerdictsCorrect /\ Running /\ stack \in Seq(Frame)
      /\ plan \in [Comparison -> Plan]
  BY DEF IInv, Finished, TypeOK
<1>2. /\ m \in Nat /\ Top.handle \in 1 .. m /\ scc.open_[Top.handle] = Top.node
      /\ Top.equals \in BOOLEAN /\ Top.node \in Comparison
      /\ Top.equals => \A o \in Top.handle .. m : \A i \in 1 .. Len(plan[scc.open_[o]].items) :
                         NoReason(plan[scc.open_[o]].items[i], m + 1)
      /\ ~Top.equals => ~Equal(plan, Top.node)
  BY FinishedDone
<1>3. P!Finished /\ P!Top.handle = Top.handle /\ P!IsRoot(scc, P!Top.handle)
  BY <1>1, FinishedFacts, TopCall DEF IsRoot, P!IsRoot
<1>4. S = P!ClosedNodes(scc, P!Top.handle)
  BY <1>3, SameFinder
<1>5. /\ P!IsComponent(GraphOf(plan), S)
      /\ \A c \in S : P!Succ(GraphOf(plan), c) \subseteq S \cup DOMAIN known
      /\ S \subseteq DOMAIN scc.is_open_
  BY <1>3, <1>4, P!LastSegmentIsComponent
<1>6. S = {scc.open_[o] : o \in Top.handle .. m}
  BY DEF ClosedNodes
<1>7. Top.node \in S
  <2>1. Top.handle \in Top.handle .. m
    BY <1>2
  <2> QED BY <1>2, <1>6, <2>1
<1>8. S \subseteq Comparison
  BY <1>1, <1>5, SearchFacts
<1>9. ASSUME Top.equals PROVE \A c \in S : Equal(plan, c)
  <2> DEFINE T == S \cup {c \in Comparison : Equal(plan, c)}
  <2>1. ASSUME NEW c \in S, NEW i \in 1 .. Len(plan[c].items)
        PROVE  IsEdge(plan[c].items[i]) /\ plan[c].items[i].to \in T
    <3> DEFINE item == plan[c].items[i]
    <3>1. PICK o \in Top.handle .. m : c = scc.open_[o]
      BY <1>6
    <3>2. NoReason(item, m + 1)
      BY <1>2, <1>9, <3>1
    <3>3. IsEdge(item)
      BY <3>2 DEF NoReason
    <3>4. item.to \in Comparison /\ item.to \in P!Succ(GraphOf(plan), c)
      <4>1. item.to \in Comparison
        BY <1>1, <1>8, <3>3, PlanItems
      <4>2. item.to = GraphOf(plan)[c][i] /\ i \in 1 .. Len(GraphOf(plan)[c])
        BY <1>1, <1>8, <3>3, GraphItems
      <4> HIDE DEF item
      <4> QED BY <4>1, <4>2 DEF P!Succ
    <3>5. CASE item.to \in DOMAIN known
      BY <1>1, <3>2, <3>3, <3>4, <3>5 DEF NoReason, VerdictsCorrect
    <3>6. CASE item.to \notin DOMAIN known
      BY <1>5, <3>3, <3>4, <3>6
    <3> QED BY <3>5, <3>6
  <2>2. ASSUME NEW c \in {c \in Comparison : Equal(plan, c)}, NEW i \in 1 .. Len(plan[c].items)
        PROVE  IsEdge(plan[c].items[i]) /\ plan[c].items[i].to \in T
    BY <1>1, EqualEdge
  <2>3. T \in SUBSET Comparison
    BY <1>8
  <2>4. \A c \in T : \A i \in 1 .. Len(plan[c].items) :
          IsEdge(plan[c].items[i]) /\ plan[c].items[i].to \in T
    BY <2>1, <2>2
  <2>5. \A c \in T : Equal(plan, c)
    <3> HIDE DEF T
    <3> QED BY <1>1, <2>3, <2>4, EqualSet
  <2> QED BY <2>5
<1>10. ASSUME ~Top.equals, NEW c \in S PROVE ~Equal(plan, c)
  <2>1. P!Mutual(GraphOf(plan), c, Top.node)
    BY <1>2, <1>5, <1>7, <1>8 DEF P!IsComponent
  <2>2. Paths!Reach(GraphOf(plan), c, Top.node)
    BY <2>1 DEF P!Mutual, P!Reach, Paths!Reach, P!Closed, Paths!Closed, P!Succ, Paths!Succ
  <2> QED BY <1>2, <1>8, <1>10, <2>2, EqualReach
<1> QED BY <1>2, <1>5, <1>6, <1>7, <1>8, <1>9, <1>10

\* The calls, the finder and the verdicts once a component is closed: what is left open
\* was opened before it.
LEMMA CloseSCCFacts ==
  ASSUME IInv, P!IInv, CloseSCC, NEW S, S = ClosedNodes(scc, Top.handle),
         NEW result, result = IF Top.equals THEN [equals |-> TRUE, edge |-> NoEdge]
                                            ELSE [equals |-> FALSE, edge |-> Top.node]
  PROVE  /\ result \in CallResult /\ (result.equals <=> Top.equals)
         /\ Len(stack') = Len(stack) - 1
         /\ \A f \in 1 .. Len(stack) - 1 :
              /\ stack'[f].node = stack[f].node
              /\ stack'[f].handle = stack[f].handle
              /\ stack'[f].next = stack[f].next
              /\ stack'[f].equals <=> stack[f].equals /\ (f = Len(stack) - 1 => result.equals)
         /\ IF Len(stack) = 1 THEN returned' = <<<<Top.node, result>>>> ELSE returned' = returned
         /\ Len(stack) \in Nat \ {0} /\ Len(scc.open_) \in Nat
         /\ Top.handle \in 1 .. Len(scc.open_) /\ scc.open_[Top.handle] = Top.node
         /\ Top.equals \in BOOLEAN /\ Top.node \in Comparison
         /\ S \subseteq Comparison /\ S \subseteq DOMAIN scc.is_open_
         /\ S = {scc.open_[o] : o \in Top.handle .. Len(scc.open_)}
         /\ Top.node \in S
         /\ \A c \in S : Equal(plan, c) <=> Top.equals
         /\ \A c \in S : c \notin DOMAIN known
         /\ DOMAIN known' = DOMAIN known \cup S
         /\ \A c \in DOMAIN known : known'[c] = known[c]
         /\ \A c \in S : known'[c] = Top.equals
         /\ Len(scc'.open_) = Top.handle - 1
         /\ \A o \in 1 .. Top.handle - 1 : scc'.open_[o] = scc.open_[o]
         /\ DOMAIN scc'.is_open_ = DOMAIN scc.is_open_ \ S
         /\ \A c \in DOMAIN scc.is_open_ \ S : scc'.is_open_[c] = scc.is_open_[c]
         /\ \A c \in DOMAIN scc.is_open_ :
              scc.is_open_[c] \in 1 .. Len(scc.open_) /\ (scc.is_open_[c] < Top.handle <=> c \notin S)
         /\ \A f \in 1 .. Len(stack) - 1 :
              /\ f \in 1 .. Len(stack) /\ f < Len(stack) /\ EndOf(f) <= Top.handle
              /\ EndOf(f)' = EndOf(f) /\ stack[f].handle < Top.handle
              /\ stack[f].handle \in 1 .. Len(scc.open_) /\ EndOf(f) \in 1 .. Len(scc.open_) + 1
<1> DEFINE n == Len(stack)
           k == n - 1
           m == Len(scc.open_)
<1>1. TypeOK /\ stack \in Seq(Frame) /\ DOMAIN known \subseteq Comparison
  BY DEF IInv, TypeOK
<1>2. /\ Finished /\ Running /\ IsRoot(scc, Top.handle) /\ Return(result)
      /\ known' = Inserted(known, [c \in S |-> Top.equals])
      /\ scc' = CloseRoot(scc, Top.handle)
  BY DEF CloseSCC, Finished
<1>3. result \in CallResult /\ (result.equals <=> Top.equals)
  BY <1>1, <1>2, ClosedResult
<1>4. /\ Len(stack') = k
      /\ \A f \in 1 .. k :
           /\ stack'[f].node = stack[f].node
           /\ stack'[f].handle = stack[f].handle
           /\ stack'[f].next = stack[f].next
           /\ stack'[f].equals <=> stack[f].equals /\ (f = k => result.equals)
      /\ IF n = 1 THEN returned' = <<<<Top.node, result>>>> ELSE returned' = returned
  <2> QED BY <1>1, <1>2, <1>3, ReturnElements
<1>5. /\ n \in Nat \ {0} /\ m \in Nat /\ Top.handle \in 1 .. m /\ scc.open_[Top.handle] = Top.node
      /\ Top.equals \in BOOLEAN /\ Top.node \in Comparison
  BY <1>2, FinishedDone
<1>6. /\ S \subseteq Comparison /\ S \subseteq DOMAIN scc.is_open_
      /\ S = {scc.open_[o] : o \in Top.handle .. m}
      /\ Top.node \in S
      /\ \A c \in S : Equal(plan, c) <=> Top.equals
  BY <1>2, ComponentVerdict
<1>8. \A c \in S : c \notin DOMAIN known
  BY <1>1, <1>6, SearchFacts DEF IsOpen
<1>9. /\ DOMAIN known' = DOMAIN known \cup S
      /\ \A c \in DOMAIN known : known'[c] = known[c]
      /\ \A c \in S : known'[c] = Top.equals
  BY <1>2, <1>8 DEF Inserted
<1>10. /\ Len(scc'.open_) = Top.handle - 1
       /\ \A o \in 1 .. Top.handle - 1 : scc'.open_[o] = scc.open_[o]
       /\ DOMAIN scc'.is_open_ = DOMAIN scc.is_open_ \ S
       /\ \A c \in DOMAIN scc.is_open_ \ S : scc'.is_open_[c] = scc.is_open_[c]
  <2>1. /\ scc'.open_ = SubSeq(scc.open_, 1, Top.handle - 1)
        /\ scc'.is_open_ = [c \in DOMAIN scc.is_open_ \ S |-> scc.is_open_[c]]
    BY <1>2 DEF CloseRoot
  <2>2. scc.open_ \in Seq(Comparison) /\ \A o \in 1 .. Top.handle - 1 : scc.open_[o] \in Comparison
    BY <1>1, <1>5, SearchFacts
  <2>3. Top.handle - 1 \in 0 .. m
    BY <1>5
  <2>4. /\ Len(scc'.open_) = Top.handle - 1
        /\ \A o \in 1 .. Top.handle - 1 : scc'.open_[o] = scc.open_[o]
    <3> DEFINE h == Top.handle - 1
    <3>1. h \in Nat /\ h <= m /\ scc'.open_ = SubSeq(scc.open_, 1, h)
      BY <1>5, <2>1, <2>3
    <3>2. \A o \in 1 .. h : scc.open_[o] \in Comparison
      BY <2>2
    <3> HIDE DEF h
    <3>3. Len(scc'.open_) = h /\ \A o \in 1 .. h : scc'.open_[o] = scc.open_[o]
      BY <3>1, <3>2, SubSeqProperties
    <3> QED BY <3>3 DEF h
  <2> QED BY <2>1, <2>4
<1>11. \A c \in DOMAIN scc.is_open_ :
         scc.is_open_[c] \in 1 .. m /\ (scc.is_open_[c] < Top.handle <=> c \notin S)
  <2> SUFFICES ASSUME NEW c \in DOMAIN scc.is_open_
               PROVE  scc.is_open_[c] \in 1 .. m /\ (scc.is_open_[c] < Top.handle <=> c \notin S)
    OBVIOUS
  <2>1. scc.is_open_[c] \in 1 .. m /\ scc.open_[scc.is_open_[c]] = c
    BY <1>1, SearchFacts DEF IsOpen
  <2>2. \A o \in 1 .. m : scc.is_open_[scc.open_[o]] = o
    BY <1>1, SearchFacts
  <2>3. c \in S => scc.is_open_[c] \in Top.handle .. m
    BY <1>5, <1>6, <2>2
  <2>4. scc.is_open_[c] \in Top.handle .. m => c \in S
    BY <1>6, <2>1
  <2> QED BY <1>5, <2>1, <2>3, <2>4
<1>12. ASSUME NEW f \in 1 .. k PROVE f \in 1 .. n /\ f < n /\ EndOf(f) <= Top.handle
                                    /\ EndOf(f)' = EndOf(f) /\ stack[f].handle < Top.handle
                                    /\ stack[f].handle \in 1 .. m /\ EndOf(f) \in 1 .. m + 1
  <2>1. f \in 1 .. n /\ f < n /\ n \in 1 .. n
    BY <1>5
  <2>2. stack[f].handle < Top.handle /\ stack[f].handle \in 1 .. m /\ EndOf(f) \in 1 .. m + 1
    BY SMTT(30), <1>1, <1>5, <2>1, SearchFacts, PartFacts DEF Top
  <2>3. CASE f = k
    <3>1. EndOf(f) = Top.handle
      BY <1>5, <2>1, <2>3 DEF EndOf, Top
    <3>2. EndOf(f)' = Top.handle
      BY <1>4, <1>5, <1>10, <2>3 DEF EndOf
    <3> QED BY <1>5, <2>1, <2>2, <3>1, <3>2
  <2>4. CASE f # k
    <3>1. f + 1 \in 1 .. k /\ f + 1 \in 1 .. n /\ f + 1 < n /\ f < k
      BY <1>5, <2>4
    <3>2. EndOf(f) = stack[f + 1].handle /\ stack[f + 1].handle < Top.handle
          /\ stack[f + 1].handle \in 1 .. m
      BY <1>1, <1>5, <2>1, <3>1, SearchFacts DEF EndOf, Top
    <3>3. EndOf(f)' = stack[f + 1].handle
      BY <1>4, <3>1 DEF EndOf
    <3> QED BY <1>5, <2>1, <2>2, <3>2, <3>3
  <2> QED BY <2>3, <2>4
<1> QED BY <1>3, <1>4, <1>5, <1>6, <1>8, <1>9, <1>10, <1>11, <1>12

\* A call that closes its component keeps the invariant.
LEMMA CloseSCCSound ==
  ASSUME IInv, P!IInv, TypeOK', P!IInv', CloseSCC PROVE IInv'
<1> DEFINE n == Len(stack)
           k == n - 1
           m == Len(scc.open_)
           S == ClosedNodes(scc, Top.handle)
           result == IF Top.equals THEN [equals |-> TRUE, edge |-> NoEdge]
                                   ELSE [equals |-> FALSE, edge |-> Top.node]
<1>1. TypeOK /\ EqualSoFar /\ VerdictsCorrect /\ ProvisionalExact /\ stack \in Seq(Frame)
      /\ DOMAIN known \subseteq Comparison
  BY DEF IInv, TypeOK
<1>2. /\ Finished /\ Running /\ IsRoot(scc, Top.handle) /\ Return(result)
      /\ known' = Inserted(known, [c \in S |-> Top.equals])
      /\ provisional' = [c \in DOMAIN Provided \ S |-> Provided[c]]
      /\ scc' = CloseRoot(scc, Top.handle) /\ plan' = plan
  BY DEF CloseSCC, Finished
<1>3. result \in CallResult /\ (result.equals <=> Top.equals)
  BY CloseSCCFacts
<1>4. /\ Len(stack') = k
      /\ \A f \in 1 .. k :
           /\ stack'[f].node = stack[f].node
           /\ stack'[f].handle = stack[f].handle
           /\ stack'[f].next = stack[f].next
           /\ stack'[f].equals <=> stack[f].equals /\ (f = k => result.equals)
      /\ IF n = 1 THEN returned' = <<<<Top.node, result>>>> ELSE returned' = returned
  BY ZenonT(40), CloseSCCFacts
<1>5. /\ n \in Nat \ {0} /\ m \in Nat /\ Top.handle \in 1 .. m /\ scc.open_[Top.handle] = Top.node
      /\ Top.equals \in BOOLEAN /\ Top.node \in Comparison
  BY CloseSCCFacts
<1>6. /\ S \subseteq Comparison /\ S \subseteq DOMAIN scc.is_open_
      /\ S = {scc.open_[o] : o \in Top.handle .. m}
      /\ Top.node \in S
      /\ \A c \in S : Equal(plan, c) <=> Top.equals
  BY CloseSCCFacts
<1>7. UnequalForGood' /\ CallsAwaited'
  <2> HIDE DEF result
  <2> QED BY <1>2, <1>3, ReturnSound
<1>8. \A c \in S : c \notin DOMAIN known
  BY CloseSCCFacts
<1>9. /\ DOMAIN known' = DOMAIN known \cup S
      /\ \A c \in DOMAIN known : known'[c] = known[c]
      /\ \A c \in S : known'[c] = Top.equals
  BY CloseSCCFacts
<1>10. /\ Len(scc'.open_) = Top.handle - 1
       /\ \A o \in 1 .. Top.handle - 1 : scc'.open_[o] = scc.open_[o]
       /\ DOMAIN scc'.is_open_ = DOMAIN scc.is_open_ \ S
       /\ \A c \in DOMAIN scc.is_open_ \ S : scc'.is_open_[c] = scc.is_open_[c]
  BY CloseSCCFacts
<1>11. \A c \in DOMAIN scc.is_open_ :
         scc.is_open_[c] \in 1 .. m /\ (scc.is_open_[c] < Top.handle <=> c \notin S)
  BY CloseSCCFacts
<1>12. ASSUME NEW f \in 1 .. k PROVE f \in 1 .. n /\ f < n /\ EndOf(f) <= Top.handle
                                    /\ EndOf(f)' = EndOf(f) /\ stack[f].handle < Top.handle
                                    /\ stack[f].handle \in 1 .. m /\ EndOf(f) \in 1 .. m + 1
  BY CloseSCCFacts
<1> HIDE DEF S
<1>13. EqualSoFar'
  <2> SUFFICES ASSUME NEW f \in 1 .. k, stack'[f].equals,
                      NEW o \in stack'[f].handle .. EndOf(f)' - 1, NEW i \in 1 .. DoneWith(f, o)'
               PROVE  NoReason(plan[scc.open_[o]].items[i], EndOf(f))'
    BY <1>4 DEF EqualSoFar
  <2> DEFINE item == plan[scc.open_[o]].items[i]
  <2>1. /\ stack[f].equals /\ o \in stack[f].handle .. EndOf(f) - 1
        /\ o \in 1 .. Top.handle - 1 /\ scc'.open_[o] = scc.open_[o]
    <3>1. stack[f].equals /\ stack'[f].handle = stack[f].handle
      BY <1>4
    <3>2. o \in stack[f].handle .. EndOf(f) - 1
      BY <1>12, <3>1
    <3>3. o \in 1 .. Top.handle - 1
      BY <1>5, <1>12, <3>2, SMTT(30)
    <3> QED BY <1>10, <3>1, <3>2, <3>3
  <2>2. item' = item
    BY <1>2, <2>1
  <2>3. CASE i \in 1 .. DoneWith(f, o)
    <3>1. NoReason(item, EndOf(f))
      BY <1>1, <1>12, <2>1, <2>3 DEF EqualSoFar
    <3>2. IsOpen(scc, item.to) /\ scc.is_open_[item.to] < EndOf(f) => item.to \notin S
      <4> HIDE DEF item
      <4> QED BY <1>5, <1>11, <1>12, SMTT(30) DEF IsOpen
    <3> HIDE DEF item
    <3>3. /\ IsEdge(item)
          /\ IF item.to \in DOMAIN known' THEN known'[item.to]
             ELSE item.to \in DOMAIN scc'.is_open_ /\ scc'.is_open_[item.to] < EndOf(f)'
      BY <1>8, <1>9, <1>10, <1>12, <3>1, <3>2 DEF NoReason, IsOpen
    <3>4. NoReason(item, EndOf(f))'
      BY <2>2, <3>3 DEF NoReason, IsOpen
    <3> QED BY <3>4 DEF item
  <2>4. CASE i \notin 1 .. DoneWith(f, o)
    <3>1. f = k /\ o = stack[k].handle /\ i = stack[k].next - 1
      <4>1. o = stack[f].handle
        BY <1>2, <1>4, <2>1, <2>4 DEF DoneWith, ItemsDone
      <4>2. f = k
        BY <1>4, <1>5, <1>12, <2>4, <4>1 DEF DoneWith, ItemsDone
      <4>3. DoneWith(f, o)' = stack[f].next - 1 /\ DoneWith(f, o) = stack[f].next - 2
        BY <1>4, <1>5, <1>12, <4>1, <4>2, SMTT(30) DEF DoneWith, ItemsDone
      <4>4. stack[f].next \in Nat
        BY <1>1, <1>12, PartFacts
      <4> QED BY <2>4, <4>1, <4>2, <4>3, <4>4, SMTT(30)
    <3>2. n # 1
      BY <3>1
    <3>3. IsEdge(item) /\ item.to = Top.node
      <4>1. item = plan[stack[k].node].items[stack[k].next - 1]
        BY <1>1, <1>12, <3>1, SearchFacts
      <4>2. /\ IsEdge(plan[stack[k].node].items[stack[k].next - 1])
            /\ plan[stack[k].node].items[stack[k].next - 1].to = Top.node
        BY <1>2, <3>2, CallerFacts
      <4> HIDE DEF item
      <4> QED BY <4>1, <4>2
    <3>4. Top.equals
      <4> HIDE DEF result
      <4> QED BY <1>3, <1>4, <3>1
    <3>5. Top.node \in DOMAIN known' /\ known'[Top.node] = TRUE
      BY <1>6, <1>9, <3>4
    <3> HIDE DEF item
    <3>6. NoReason(item, EndOf(f))'
      BY <2>2, <3>3, <3>5 DEF NoReason
    <3> QED BY <3>6 DEF item
  <2> QED BY <2>3, <2>4
<1>14. VerdictsCorrect'
  <2>1. \A c \in DOMAIN known' : known'[c] <=> Equal(plan, c)
    <3> SUFFICES ASSUME NEW c \in DOMAIN known' PROVE known'[c] <=> Equal(plan, c)
      OBVIOUS
    <3>1. CASE c \in S
      BY <1>6, <1>9, <3>1
    <3>2. CASE c \in DOMAIN known
      BY <1>1, <1>9, <3>2 DEF VerdictsCorrect
    <3> QED BY <1>9, <3>1, <3>2
  <2>2. result = [equals |-> Equal(plan, Top.node),
                  edge |-> IF Equal(plan, Top.node) THEN NoEdge ELSE Top.node]
    <3>1. Equal(plan, Top.node) = Top.equals
      <4>1. Equal(plan, Top.node) \in BOOLEAN
        BY DEF Equal
      <4> QED BY <1>5, <1>6, <4>1
    <3>2. CASE Top.equals = TRUE
      BY <3>1, <3>2
    <3>3. CASE Top.equals = FALSE
      BY <3>1, <3>3
    <3> QED BY <1>5, <3>2, <3>3
  <2> HIDE DEF result
  <2>3. \A i \in 1 .. Len(returned') :
          LET c == returned'[i][1] IN
          returned'[i][2] = [equals |-> Equal(plan, c),
                             edge |-> IF Equal(plan, c) THEN NoEdge ELSE c]
    <3>1. CASE n = 1
      <4>1. returned' = <<<<Top.node, result>>>>
        BY <1>4, <3>1
      <4>2. Len(returned') = 1 /\ returned'[1] = <<Top.node, result>>
        BY <4>1
      <4>3. returned'[1][1] = Top.node /\ returned'[1][2] = result
        BY <4>2
      <4> QED BY <2>2, <4>2, <4>3
    <3>2. CASE n # 1
      BY <1>1, <1>4, <3>2 DEF VerdictsCorrect
    <3> QED BY <3>1, <3>2
  <2> QED BY <1>2, <2>1, <2>3 DEF VerdictsCorrect
<1>15. ProvisionalExact'
  <2> DEFINE D == DOMAIN scc.is_open_
             N == {stack[f].node : f \in 1 .. n}
             N1 == {stack'[f].node : f \in 1 .. Len(stack')}
  <2>1. DOMAIN provisional' = (DOMAIN provisional \cup {Top.node}) \ S
    BY <1>1, <1>2, ProvidedDiffs
  <2>2. DOMAIN provisional = D \ N
    BY <1>1 DEF ProvisionalExact
  <2>3. D \ N = (D \ N1) \ {Top.node}
    <3> HIDE DEF result
    <3> QED BY <1>2, <1>3, ReturnSound
  <2>4. DOMAIN provisional' = (D \ S) \ N1
    <3> HIDE DEF D, N, N1
    <3> QED BY <1>6, <2>1, <2>2, <2>3
  <2>5. ASSUME ~Running' PROVE Empty(scc')
    <3>1. Len(CallsOf(stack')) = 0
      BY <2>5, CallsElements, EmptySeq DEF Running
    <3>2. scc'.root_index_ \in Seq(Nat)
      BY DEF P!IInv, P!TypeOK, P!FinderOK
    <3>3. \A r \in 1 .. Len(scc'.root_index_) : FALSE
      BY <3>1 DEF P!IInv, P!HandlesValid, P!root_index_
    <3>4. scc'.root_index_ = << >>
      BY <3>2, <3>3, EmptySeq, LenProperties
    <3>5. scc'.open_ = << >>
      BY <3>4 DEF P!IInv, P!FinderConsistent, P!open_, P!root_index_
    <3>6. \A c \in DOMAIN scc'.is_open_ : scc'.is_open_[c] \in 1 .. Len(scc'.open_)
      BY DEF P!IInv, P!FinderConsistent, P!open_
    <3>7. DOMAIN scc'.is_open_ = {}
      BY <3>5, <3>6
    <3> QED BY <3>4, <3>5, <3>7 DEF Empty
  <2> QED BY <1>10, <2>4, <2>5 DEF ProvisionalExact
<1> QED BY <1>7, <1>13, <1>14, <1>15 DEF IInv

\* A difference found on the spot keeps the invariant.
LEMMA SpotSound ==
  ASSUME IInv, P!IInv, TypeOK', NodeDiff \/ Incomparable \/ RemovedOrAdded PROVE IInv'
<1>1. TypeOK /\ plan \in [Comparison -> Plan]
  BY DEF IInv, TypeOK
<1>2. /\ HasItem /\ ~IsEdge(Current) /\ UNCHANGED <<plan, known, provisional, scc, returned>>
      /\ \E frame \in Frame : Updated(Top, frame, FALSE) /\ stack' = Proceed(frame)
  BY <1>1, SpotSteps
<1>3. PICK frame \in Frame : Updated(Top, frame, FALSE) /\ stack' = Proceed(frame)
  BY <1>2
<1>4. ~Equal(plan, Top.node)
  <2>1. Top.node \in Comparison /\ Top.next \in 1 .. Len(plan[Top.node].items)
    BY <1>1, <1>2, ItemFacts, TopCall DEF HasItem
  <2>2. DiffersLocally(plan, Top.node)
    BY <1>2, <2>1 DEF DiffersLocally, Current
  <2> QED BY <2>1, <2>2, LocalDifference
<1> QED BY <1>2, <1>3, <1>4, AdvanceSound

\* The use of a stored verdict keeps the invariant.
LEMMA KnownSound ==
  ASSUME IInv, P!IInv, TypeOK', CompareKnown PROVE IInv'
<1> DEFINE result == KnownResult(Current.to)
           equals == Top.equals /\ result.equals
<1>1. /\ TypeOK /\ plan \in [Comparison -> Plan] /\ known \in [DOMAIN known -> BOOLEAN]
      /\ VerdictsCorrect /\ UnequalForGood
  BY DEF IInv, TypeOK
<1>2. /\ Running /\ HasItem /\ IsEdge(Current) /\ Current.to \in DOMAIN known
      /\ stack' = Proceed(MaybeAddEdgeDiff(Top, result))
      /\ UNCHANGED <<plan, known, provisional, scc, returned>>
  BY DEF CompareKnown, At, HasItem, IsEdge
<1>3. /\ Top.next \in 1 .. Len(plan[Top.node].items) /\ Top.node \in Comparison
      /\ Top.equals \in BOOLEAN /\ Current.to \in Comparison /\ known[Current.to] \in BOOLEAN
  BY <1>1, <1>2, ItemFacts, TopCall DEF Frame
<1>4. result \in CallResult /\ result.equals = known[Current.to]
  BY <1>3 DEF KnownResult, CallResult
<1>5. Updated(Top, MaybeAddEdgeDiff(Top, result), equals)
  BY <1>1, <1>2, <1>4, TopCall, Updates
<1>6. equals => Top.equals /\ NoReason(Current, Len(scc.open_) + 1)
  BY <1>2, <1>4 DEF NoReason
<1>7. ~equals => ~Equal(plan, Top.node)
  <2>1. ~Top.equals => ~Equal(plan, Top.node)
    <3>1. Len(stack) \in 1 .. Len(stack)
      BY <1>1, <1>2, TopCall
    <3> QED BY <1>1, <3>1 DEF UnequalForGood, Top
  <2>2. ~known[Current.to] => ~Equal(plan, Current.to)
    BY <1>1, <1>2 DEF VerdictsCorrect
  <2>3. Equal(plan, Top.node) => Equal(plan, Current.to)
    BY <1>1, <1>3, EqualEdge DEF Current
  <2> QED BY <1>4, <2>1, <2>2, <2>3
<1> HIDE DEF equals, result
<1> QED BY <1>2, <1>5, <1>6, <1>7, AdvanceSound

\* Meeting an open comparison keeps the invariant.
LEMMA OpenSound ==
  ASSUME IInv, P!IInv, TypeOK', CompareOpen PROVE IInv'
<1> DEFINE result == [equals |-> TRUE, edge |-> Current.to]
           equals == Top.equals /\ result.equals
<1>1. TypeOK /\ UnequalForGood /\ stack \in Seq(Frame)
  BY DEF IInv, TypeOK
<1>2. /\ Running /\ HasItem /\ IsEdge(Current) /\ Current.to \notin DOMAIN known
      /\ IsOpen(scc, Current.to)
      /\ stack' = Proceed(MaybeAddEdgeDiff(Top, result))
      /\ scc' = OpenAgain(scc, Current.to)
      /\ UNCHANGED <<plan, known, provisional, returned>>
  BY DEF CompareOpen, At, HasItem, IsEdge
<1>3. Top.equals \in BOOLEAN /\ Current.to \in Comparison
  BY <1>1, <1>2, ItemFacts, TopCall DEF Frame
<1>4. result \in CallResult /\ result.equals = TRUE
  BY <1>3 DEF CallResult
<1> HIDE DEF result
<1>5. Updated(Top, MaybeAddEdgeDiff(Top, result), equals)
  BY <1>1, <1>2, <1>4, TopCall, Updates
<1>6. NoReason(Current, Len(scc.open_) + 1)
  <2>1. scc.is_open_[Current.to] \in 1 .. Len(scc.open_) /\ Len(scc.open_) \in Nat
    BY <1>1, <1>2, SearchFacts
  <2>2. scc.is_open_[Current.to] < Len(scc.open_) + 1
    BY <2>1
  <2> QED BY <1>2, <2>2 DEF NoReason
<1>7. ~equals => ~Equal(plan, Top.node)
  <2>1. Len(stack) \in 1 .. Len(stack)
    BY <1>1, <1>2, TopCall
  <2> QED BY <1>1, <1>4, <2>1 DEF UnequalForGood, Top
<1>8. scc'.open_ = scc.open_ /\ scc'.is_open_ = scc.is_open_
  BY <1>2 DEF OpenAgain
<1>9. equals => Top.equals /\ NoReason(Current, Len(scc.open_) + 1)
  BY <1>6
<1> HIDE DEF equals
<1> QED BY <1>2, <1>5, <1>7, <1>8, <1>9, AdvanceSound

\* The calls, once the innermost waits for the comparison its item asks for.
LEMMA AwaitingCallers ==
  ASSUME TypeOK, Running
  PROVE  /\ Proceed(Top) \in Seq(Frame) /\ Len(Proceed(Top)) = Len(stack)
         /\ \A f \in 1 .. Len(stack) :
              /\ Proceed(Top)[f].node = stack[f].node
              /\ Proceed(Top)[f].handle = stack[f].handle
              /\ Proceed(Top)[f].equals = stack[f].equals
              /\ Proceed(Top)[f].diff = stack[f].diff
              /\ Proceed(Top)[f].next = IF f = Len(stack) THEN stack[f].next + 1 ELSE stack[f].next
<1> DEFINE callers == Proceed(Top)
           n == Len(stack)
<1>1. stack \in Seq(Frame) /\ n \in 1 .. n /\ Top \in Frame /\ Updated(Top, Top, Top.equals)
  BY TopCall DEF TypeOK, Updated
<1>2. /\ callers \in Seq(Frame) /\ Len(callers) = n
      /\ \A f \in 1 .. n :
           /\ f # n => callers[f] = stack[f]
           /\ callers[f].node = stack[f].node
           /\ callers[f].handle = stack[f].handle
      /\ callers[n].next = Top.next + 1
  BY <1>1, ProceedElements
<1>3. callers[n] = [Top EXCEPT !.next = Top.next + 1]
  BY <1>1 DEF Proceed
<1>4. callers[n].equals = Top.equals /\ callers[n].diff = Top.diff
  BY <1>1, <1>3 DEF Frame
<1> HIDE DEF callers
<1>5. \A f \in 1 .. n :
        /\ callers[f].node = stack[f].node
        /\ callers[f].handle = stack[f].handle
        /\ callers[f].equals = stack[f].equals
        /\ callers[f].diff = stack[f].diff
        /\ callers[f].next = IF f = n THEN stack[f].next + 1 ELSE stack[f].next
  BY <1>2, <1>4 DEF Top
<1> QED BY <1>2, <1>5 DEF callers

\* A new comparison keeps the invariant.
LEMMA NewSound ==
  ASSUME IInv, P!IInv, TypeOK', P!IInv', CompareNew PROVE IInv'
<1> DEFINE callers == Proceed(Top)
           c == Current.to
<1>1. TypeOK /\ stack \in Seq(Frame)
  BY DEF IInv, TypeOK
<1>2. /\ Running /\ HasItem /\ IsEdge(Current) /\ ~IsOpen(scc, c) /\ Enter(c, callers)
      /\ returned' = returned
  BY DEF CompareNew, At, HasItem, IsEdge
<1>3. c \in Comparison
  BY <1>1, <1>2, ItemFacts
<1>4. callers \in Seq(Frame) /\ Len(callers) = Len(stack)
  BY <1>1, <1>2, AwaitingCallers
<1>5. \A f \in 1 .. Len(stack) :
        /\ callers[f].node = stack[f].node
        /\ callers[f].handle = stack[f].handle
        /\ callers[f].equals = stack[f].equals
        /\ callers[f].next = IF f = Len(stack) THEN stack[f].next + 1 ELSE stack[f].next
  BY <1>1, <1>2, AwaitingCallers
<1> HIDE DEF callers, c
<1>6. Running => HasItem /\ IsEdge(Current) /\ Current.to = c
  BY <1>2 DEF c
<1> QED BY <1>2, <1>3, <1>4, <1>5, <1>6, EnterSound

\* The caller's comparison keeps the invariant.
LEMMA StartSound ==
  ASSUME IInv, P!IInv, TypeOK', P!IInv', NEW c \in Comparison, Start(c) PROVE IInv'
<1>1. TypeOK /\ stack \in Seq(Frame) /\ ProvisionalExact
  BY DEF IInv, TypeOK
<1>2. ~Running /\ Enter(c, stack) /\ returned' = << >>
  BY DEF Start
<1>3. ~IsOpen(scc, c)
  BY <1>1, <1>2 DEF ProvisionalExact, Empty, IsOpen
<1>4. Len(stack) = 0
  BY <1>1, <1>2, EmptySeq DEF Running
<1>5. \A f \in 1 .. Len(stack) :
        /\ stack[f].node = stack[f].node
        /\ stack[f].handle = stack[f].handle
        /\ stack[f].equals = stack[f].equals
        /\ stack[f].next = IF f = Len(stack) THEN stack[f].next + 1 ELSE stack[f].next
  BY <1>4
<1> QED BY <1>1, <1>2, <1>3, <1>5, EnterSound

\* What the invariant is about stays the same.
LEMMA SameSound ==
  ASSUME IInv, TypeOK', VerdictsCorrect', UNCHANGED <<plan, known, provisional, scc, stack>>
  PROVE  IInv'
<1>1. EqualSoFar'
  BY SMTT(30) DEF IInv, EqualSoFar, EndOf, DoneWith, ItemsDone, NoReason, IsOpen
<1>2. UnequalForGood' /\ CallsAwaited'
  BY DEF IInv, UnequalForGood, CallsAwaited
<1>3. ProvisionalExact'
  BY DEF IInv, ProvisionalExact, Running
<1> QED BY <1>1, <1>2, <1>3, SMTT(30) DEF IInv

\* The invariant holds initially.
LEMMA InitSound ==
  ASSUME Init PROVE IInv
<1>1. TypeOK
  BY InitIsSearch
<1>2. known = [c \in {} |-> TRUE] /\ provisional = Nowhere /\ scc = NewFinder
      /\ stack = << >> /\ returned = << >>
  BY DEF Init, Fresh
<1>3. Len(stack) = 0 /\ Len(returned) = 0
  BY <1>2, EmptySeq
<1>4. EqualSoFar /\ UnequalForGood /\ CallsAwaited
  BY <1>3 DEF EqualSoFar, UnequalForGood, CallsAwaited
<1>5. VerdictsCorrect
  BY <1>2, <1>3 DEF VerdictsCorrect
<1>6. ProvisionalExact
  BY <1>2, <1>3 DEF ProvisionalExact, Nowhere, NewFinder, Empty
<1> QED BY <1>1, <1>4, <1>5, <1>6 DEF IInv

\* Every step keeps the invariant, and the search's.
LEMMA StepSound ==
  ASSUME IInv, P!IInv, [Next]_vars PROVE IInv' /\ P!IInv'
<1>1. TypeOK /\ VerdictsCorrect
  BY DEF IInv
<1>2. P!IInv'
  <2>1. [P!Next]_(P!vars)
    BY <1>1, StepIsSearch
  <2> QED BY <2>1, P!StepPreserves
<1>3. TypeOK'
  BY <1>1, <1>2, TypePreserves
<1>4. CASE NodeDiff \/ Incomparable \/ RemovedOrAdded
  BY <1>2, <1>3, <1>4, SpotSound
<1>5. CASE CompareKnown
  BY <1>2, <1>3, <1>5, KnownSound
<1>6. CASE CompareOpen
  BY <1>2, <1>3, <1>6, OpenSound
<1>7. CASE CompareNew
  BY <1>2, <1>3, <1>7, NewSound
<1>8. CASE CloseSCC
  BY <1>2, <1>3, <1>8, CloseSCCSound
<1>9. CASE CloseNothing
  BY <1>2, <1>3, <1>9, CloseNothingSound
<1>10. ASSUME NEW c \in Comparison, Start(c) PROVE IInv'
  BY <1>2, <1>3, <1>10, StartSound
<1>11. ASSUME NEW c \in Comparison, StartKnown(c) PROVE IInv'
  <2>1. /\ c \in DOMAIN known /\ returned' = <<<<c, KnownResult(c)>>>>
        /\ UNCHANGED <<plan, known, provisional, scc, stack>>
    BY <1>11 DEF StartKnown
  <2>2. KnownResult(c) = [equals |-> Equal(plan, c), edge |-> IF Equal(plan, c) THEN NoEdge ELSE c]
    <3>1. known[c] <=> Equal(plan, c)
      BY <1>1, <2>1 DEF VerdictsCorrect
    <3>2. CASE Equal(plan, c) = TRUE
      BY <3>1, <3>2 DEF KnownResult
    <3>3. CASE Equal(plan, c) = FALSE
      BY <3>1, <3>3 DEF KnownResult
    <3>4. Equal(plan, c) \in BOOLEAN
      BY DEF Equal
    <3> QED BY <3>2, <3>3, <3>4
  <2>3. VerdictsCorrect'
    <3>1. Len(returned') = 1 /\ returned'[1][1] = c /\ returned'[1][2] = KnownResult(c)
      BY <2>1
    <3> HIDE DEF KnownResult
    <3> QED BY <1>1, <2>1, <2>2, <3>1 DEF VerdictsCorrect
  <2> QED BY <1>3, <2>1, <2>3, SameSound
<1>12. CASE UNCHANGED vars
  <2>1. UNCHANGED <<plan, known, provisional, scc, stack, returned>>
    BY <1>12 DEF vars
  <2>2. VerdictsCorrect'
    BY <1>1, <2>1 DEF VerdictsCorrect
  <2> QED BY <1>2, <1>3, <2>1, <2>2, SameSound
<1>13. IInv'
  BY <1>4, <1>5, <1>6, <1>7, <1>8, <1>9, <1>10, <1>11, <1>12 DEF Next, Step
<1> QED BY <1>2, <1>13

\* Entries of a map survive insertion.
LEMMA InsertedKeeps ==
  ASSUME NEW f, NEW new
  PROVE  \A c \in DOMAIN f : c \in DOMAIN Inserted(f, new) /\ Inserted(f, new)[c] = f[c]
BY DEF Inserted

\* Every step keeps the verdicts and the outcomes.
LEMMA StepKeeps ==
  ASSUME [Next]_vars
  PROVE  /\ \A c \in DOMAIN known : c \in DOMAIN known' /\ known'[c] = known[c]
         /\ \A c \in DOMAIN outcomes : c \in DOMAIN outcomes' /\ outcomes'[c] = outcomes[c]
<1>1. CASE CloseSCC
  <2>1. PICK new : known' = Inserted(known, new)
    BY <1>1 DEF CloseSCC
  <2>2. outcomes' = outcomes \/ \E diffs : outcomes' = Inserted(outcomes, diffs)
    BY <1>1 DEF CloseSCC
  <2> QED BY <2>1, <2>2, InsertedKeeps
<1>2. CASE RemovedOrAdded
  <2>1. known' = known /\ \E diffs : outcomes' = Inserted(outcomes, diffs)
    BY <1>2 DEF RemovedOrAdded
  <2> QED BY <2>1, InsertedKeeps
<1>3. CASE UNCHANGED <<known, outcomes>>
  BY <1>3
<1>4. CASE NodeDiff \/ Incomparable \/ CompareKnown \/ CompareOpen \/ CompareNew \/ CloseNothing
  <2>1. UNCHANGED <<known, outcomes>>
    BY <1>4, Zenon
    DEF NodeDiff, Incomparable, CompareKnown, CompareOpen, CompareNew, Enter, CloseNothing
  <2> QED BY <1>3, <2>1
<1>5. ASSUME NEW c \in Comparison, Start(c) \/ StartKnown(c) PROVE UNCHANGED <<known, outcomes>>
  BY <1>5 DEF Start, Enter, StartKnown
<1> QED BY <1>1, <1>2, <1>3, <1>4, <1>5 DEF Next, Step, vars

\* The search as Compare states it is the search that the proofs are about.
LEMMA SameSearch ==
  /\ P!Init => Search!Init
  /\ [P!Next]_(P!vars) => [Search!Next]_(Search!vars)
<1>1. \A S : Search!Cardinality(S) = P!Cardinality(S)
  BY DEF Search!Cardinality, P!Cardinality
<1>2. \A S : Search!Max(S) = P!Max(S)
  BY DEF Search!Max, P!Max
<1>3. \A f : Search!NextIndex(f) = P!NextIndex(f)
  BY <1>1 DEF Search!NextIndex, P!NextIndex
<1>4. \A f, i : Search!RootsUpTo(f, i) = P!RootsUpTo(f, i)
  BY <1>2 DEF Search!RootsUpTo, P!RootsUpTo
<1>5. \A f, c : /\ Search!OpenNew(f, c) = P!OpenNew(f, c)
                /\ Search!OpenAgain(f, c) = P!OpenAgain(f, c)
  BY <1>3, <1>4 DEF Search!OpenNew, P!OpenNew, Search!OpenAgain, P!OpenAgain
<1>6. \A f, i : Search!ClosedNodes(f, i) = P!ClosedNodes(f, i)
  BY DEF Search!ClosedNodes, P!ClosedNodes
<1>7. \A f, i : Search!CloseRoot(f, i) = P!CloseRoot(f, i)
  BY <1>6 DEF Search!CloseRoot, P!CloseRoot
<1>8. /\ Search!Top = P!Top /\ Search!Child = P!Child /\ Search!Advanced = P!Advanced
      /\ Search!HasEdge <=> P!HasEdge
      /\ Search!Running <=> P!Running
      /\ Search!Finished <=> P!Finished
  BY DEF Search!Top, P!Top, Search!Child, P!Child, Search!Advanced, P!Advanced, Search!HasEdge,
     P!HasEdge, Search!Running, P!Running, Search!Finished, P!Finished
<1>9. ASSUME NEW c, NEW s PROVE P!Enter(c, s) => Search!Enter(c, s)
  BY <1>3, <1>5 DEF Search!Enter, P!Enter
<1>10. ASSUME NEW c \in Comparison, P!Start(c) PROVE Search!Start(c)
  BY <1>8, <1>9, <1>10 DEF Search!Start, P!Start
<1>11. P!Descend => Search!Descend
  BY <1>8, <1>9 DEF Search!Descend, P!Descend, Search!IsOpen, P!IsOpen
<1>12. P!SkipVisited => Search!SkipVisited
  BY <1>8 DEF Search!SkipVisited, P!SkipVisited
<1>13. P!MeetOpen => Search!MeetOpen
  BY <1>5, <1>8 DEF Search!MeetOpen, P!MeetOpen, Search!IsOpen, P!IsOpen
<1>14. P!CloseSCC => Search!CloseSCC
  BY <1>6, <1>7, <1>8 DEF Search!CloseSCC, P!CloseSCC, Search!LegalHandle, P!LegalHandle,
     Search!IsRoot, P!IsRoot
<1>15. P!CloseNothing => Search!CloseNothing
  BY <1>8 DEF Search!CloseNothing, P!CloseNothing, Search!LegalHandle, P!LegalHandle,
     Search!IsRoot, P!IsRoot
<1>16. P!Terminated => Search!Terminated
  BY <1>8 DEF Search!Terminated, P!Terminated, Search!Done, P!Done, Search!vars, P!vars
<1>17. P!Next => Search!Next
  BY <1>10, <1>11, <1>12, <1>13, <1>14, <1>15, <1>16 DEF Search!Next, P!Next
<1>18. P!Init => Search!Init
  BY DEF Search!Init, P!Init, Search!NewFinder, P!NewFinder
<1>19. UNCHANGED P!vars => UNCHANGED Search!vars
  BY DEF Search!vars, P!vars
<1> QED BY <1>17, <1>18, <1>19

--------------------------------------------------------------------------------
\* The inductive invariant holds, and Compare keeps that of the search.
THEOREM Invariance == Spec => [](IInv /\ P!IInv)
<1>1. Init => IInv /\ P!IInv
  BY InitSound, InitIsSearch
<1>2. IInv /\ P!IInv /\ [Next]_vars => IInv' /\ P!IInv'
  BY StepSound
<1> QED BY <1>1, <1>2, PTL DEF Spec

\* Every stored verdict and every result is right for the whole graph: two nodes are
\* found equal exactly if no chain of comparisons leads to a difference.
THEOREM VerdictsCorrectTheorem == Spec => []VerdictsCorrect
<1>1. IInv => VerdictsCorrect
  BY DEF IInv
<1> QED BY <1>1, Invariance, PTL

\* The Check on missing provisional differences cannot fail, and nothing stays open
\* between top-level comparisons.
THEOREM ProvisionalExactTheorem == Spec => []ProvisionalExact
<1>1. IInv => ProvisionalExact
  BY DEF IInv
<1> QED BY <1>1, Invariance, PTL

\* No verdict and no outcome is ever changed or dropped.
THEOREM VerdictsFinalTheorem == Spec => VerdictsFinal
<1>1. [Next]_vars =>
        [/\ \A c \in DOMAIN known : c \in DOMAIN known' /\ known'[c] = known[c]
         /\ \A c \in DOMAIN outcomes : c \in DOMAIN outcomes' /\ outcomes'[c] = outcomes[c]]_vars
  BY StepKeeps
<1> QED BY <1>1, PTL DEF Spec, VerdictsFinal

\* Compare is a search as scc.h requires, so all that is proved of the finder holds of
\* Compare's use of it.
THEOREM SearchTheorem == Spec => ImplementsSearch
<1>1. Init => Search!Init
  BY InitIsSearch, SameSearch
<1>2. IInv /\ P!IInv /\ [Next]_vars => [Search!Next]_(Search!vars)
  <2>1. IInv => TypeOK
    BY DEF IInv
  <2> QED BY <2>1, StepIsSearch, SameSearch
<1> QED BY <1>1, <1>2, Invariance, PTL DEF Spec, ImplementsSearch, Search!Spec

--------------------------------------------------------------------------------
(***************************************************************************)
(* What the items of a plan leave.                                         *)
(***************************************************************************)

\* One detail for each position.
LEMMA DetailsElements ==
  ASSUME NEW items, NEW n \in Nat, NEW S \in SUBSET (1 .. n)
  PROVE  LET s == DetailsAt(items, S)
             V == {DetailOf(items[i]) : i \in 1 .. n}
         IN  /\ Cardinality(S) \in Nat
             /\ s \in Seq(V) /\ Len(s) = Cardinality(S)
             /\ \A k \in 1 .. Cardinality(S) : s[k] = DetailOf(items[Nth(S, k)])
             /\ \A k \in 1 .. Cardinality(S) : Nth(S, k) \in S
<1> DEFINE V == {DetailOf(items[i]) : i \in 1 .. n}
           s == DetailsAt(items, S)
<1>1. Cardinality(S) \in Nat /\ \A k \in 1 .. Cardinality(S) : Nth(S, k) \in S
  BY FinitePositions, NthProperties
<1>2. s = [k \in 1 .. Cardinality(S) |-> DetailOf(items[Nth(S, k)])]
  BY DEF DetailsAt
<1>3. \A k \in 1 .. Cardinality(S) : DetailOf(items[Nth(S, k)]) \in V
  BY <1>1
<1> HIDE DEF s, V
<1>4. s \in [1 .. Cardinality(S) -> V]
  BY <1>2, <1>3
<1>5. s \in Seq(V)
  BY <1>1, <1>4, SeqDef
<1>6. Len(s) = Cardinality(S)
  BY <1>1, <1>4, <1>5, LenProperties
<1> QED BY <1>1, <1>2, <1>5, <1>6 DEF s, V

\* No position leaves no detail, and a last position leaves a last one.
LEMMA DetailsNone == ASSUME NEW items PROVE DetailsAt(items, {}) = << >>
BY FS_EmptySet DEF DetailsAt

LEMMA DetailsNext ==
  ASSUME NEW items, NEW n \in Nat, NEW S \in SUBSET (1 .. n)
  PROVE  DetailsAt(items, S \cup {n + 1}) = Append(DetailsAt(items, S), DetailOf(items[n + 1]))
<1> DEFINE T == S \cup {n + 1}
           V == {DetailOf(items[i]) : i \in 1 .. n + 1}
           a == DetailsAt(items, T)
           s == DetailsAt(items, S)
           b == Append(s, DetailOf(items[n + 1]))
           m == Cardinality(S)
<1>1. T \in SUBSET (1 .. n + 1) /\ S \in SUBSET (1 .. n + 1) /\ n + 1 \in Nat /\ n + 1 \in 1 .. n + 1
  OBVIOUS
<1>2. /\ m \in Nat /\ Cardinality(T) = m + 1
      /\ \A k \in 1 .. m : Nth(T, k) = Nth(S, k)
      /\ Nth(T, m + 1) = n + 1
  <2>1. m \in Nat
    BY FinitePositions
  <2> QED BY SMTT(30), <2>1, NextRanked DEF Nth
<1>3. /\ a \in Seq(V) /\ Len(a) = m + 1
      /\ \A k \in 1 .. m + 1 : a[k] = DetailOf(items[Nth(T, k)])
  <2> DEFINE l == n + 1
  <2>1. l \in Nat /\ T \in SUBSET (1 .. l)
    BY <1>1
  <2> HIDE DEF l, T
  <2>2. /\ a \in Seq({DetailOf(items[i]) : i \in 1 .. l}) /\ Len(a) = Cardinality(T)
        /\ \A k \in 1 .. Cardinality(T) : a[k] = DetailOf(items[Nth(T, k)])
    BY SMTT(30), <2>1, DetailsElements
  <2> HIDE DEF a
  <2> QED BY <1>2, <2>2 DEF l
<1>4. /\ s \in Seq(V) /\ Len(s) = m
      /\ \A k \in 1 .. m : s[k] = DetailOf(items[Nth(S, k)])
  <2> DEFINE l == n + 1
  <2>1. l \in Nat /\ S \in SUBSET (1 .. l)
    BY <1>1
  <2> HIDE DEF l
  <2>2. /\ s \in Seq({DetailOf(items[i]) : i \in 1 .. l}) /\ Len(s) = m
        /\ \A k \in 1 .. m : s[k] = DetailOf(items[Nth(S, k)])
    BY <2>1, DetailsElements
  <2> HIDE DEF s, m
  <2> QED BY <2>2 DEF l
<1>5. DetailOf(items[n + 1]) \in V
  BY <1>1
<1> HIDE DEF T, V, a, s, m
<1>6. /\ b \in Seq(V) /\ Len(b) = m + 1 /\ b[m + 1] = DetailOf(items[n + 1])
      /\ \A k \in 1 .. m : b[k] = s[k]
  BY <1>2, <1>4, <1>5, AppendProperties
<1> HIDE DEF b
<1>7. ASSUME NEW k \in 1 .. m + 1 PROVE a[k] = b[k]
  <2>1. CASE k = m + 1
    BY <1>2, <1>3, <1>6, <2>1
  <2>2. CASE k # m + 1
    <3>1. k \in 1 .. m
      BY <1>2, <2>2
    <3> QED BY <1>2, <1>3, <1>4, <1>6, <3>1
  <2> QED BY <2>1, <2>2
<1>8. a = b
  BY <1>3, <1>6, <1>7, SeqEqual
<1> QED BY <1>8 DEF a, b, s, T

\* The difference with one more item recorded.
Extended(diff, item, equal) ==
  [holds_changes |-> diff.holds_changes,
   has_changes   |-> diff.has_changes \/ item.kind \in {"node diff", "incomparable"},
   details       |-> IF Recorded(item, equal) THEN Append(diff.details, DetailOf(item))
                     ELSE diff.details]

\* The difference of a comparison is built item by item.
LEMMA AfterNone ==
  ASSUME NEW p, NEW c, NEW equal
  PROVE  DiffAfter(p, c, 0, equal) = [EmptyDiff EXCEPT !.holds_changes = p[c].holds]
<1>1. {i \in 1 .. 0 : Recorded(p[c].items[i], equal)} = {}
  OBVIOUS
<1>2. (\E i \in 1 .. 0 : p[c].items[i].kind \in {"node diff", "incomparable"}) = FALSE
  OBVIOUS
<1>3. DetailsAt(p[c].items, {}) = << >>
  BY DetailsNone
<1>4. DiffAfter(p, c, 0, equal) =
        [holds_changes |-> p[c].holds, has_changes |-> FALSE, details |-> << >>]
  <2> DEFINE S == {i \in 1 .. 0 : Recorded(p[c].items[i], equal)}
             h == \E i \in 1 .. 0 : p[c].items[i].kind \in {"node diff", "incomparable"}
  <2>1. DiffAfter(p, c, 0, equal) = [holds_changes |-> p[c].holds, has_changes |-> h,
                                     details |-> DetailsAt(p[c].items, S)]
    BY DEF DiffAfter
  <2>2. S = {} /\ h = FALSE
    BY <1>1, <1>2, Zenon
  <2> HIDE DEF S, h
  <2> QED BY <1>3, <2>1, <2>2
<1>5. EmptyDiff \in Diff
  BY EmptySeq DEF EmptyDiff, Diff
<1> DEFINE e == EmptyDiff
           holds == p[c].holds
<1>6. e \in Diff /\ e.has_changes = FALSE /\ e.details = << >>
  BY <1>5 DEF EmptyDiff
<1> HIDE DEF e, holds
<1>7. [e EXCEPT !.holds_changes = holds] =
        [holds_changes |-> holds, has_changes |-> e.has_changes, details |-> e.details]
  BY <1>6 DEF Diff
<1> QED BY <1>4, <1>6, <1>7 DEF e, holds

LEMMA AfterNext ==
  ASSUME NEW p, NEW c, NEW n \in Nat, NEW equal
  PROVE  DiffAfter(p, c, n + 1, equal) =
           Extended(DiffAfter(p, c, n, equal), p[c].items[n + 1], equal)
<1> DEFINE items == p[c].items
           S == {i \in 1 .. n : Recorded(items[i], equal)}
           T == {i \in 1 .. n + 1 : Recorded(items[i], equal)}
           Changing(i) == items[i].kind \in {"node diff", "incomparable"}
           d == DiffAfter(p, c, n, equal)
<1>1. DetailsAt(items, T) = IF Recorded(items[n + 1], equal)
                            THEN Append(DetailsAt(items, S), DetailOf(items[n + 1]))
                            ELSE DetailsAt(items, S)
  <2>1. CASE Recorded(items[n + 1], equal)
    <3>1. T = S \cup {n + 1}
      BY <2>1
    <3>2. S \in SUBSET (1 .. n)
      OBVIOUS
    <3> HIDE DEF S, T, items
    <3> QED BY <2>1, <3>1, <3>2, DetailsNext
  <2>2. CASE ~Recorded(items[n + 1], equal)
    <3>1. T = S
      <4>1. \A i \in 1 .. n + 1 : i \in 1 .. n \/ i = n + 1
        OBVIOUS
      <4>2. \A i \in 1 .. n : i \in 1 .. n + 1
        OBVIOUS
      <4> HIDE DEF items
      <4> QED BY <2>2, <4>1, <4>2
    <3> HIDE DEF S, T, items
    <3> QED BY <2>2, <3>1
  <2> QED BY <2>1, <2>2
<1>2. (\E i \in 1 .. n + 1 : Changing(i)) = ((\E i \in 1 .. n : Changing(i)) \/ Changing(n + 1))
  <2>1. \A i \in 1 .. n + 1 : i \in 1 .. n \/ i = n + 1
    OBVIOUS
  <2>2. (\A i \in 1 .. n : i \in 1 .. n + 1) /\ n + 1 \in 1 .. n + 1
    OBVIOUS
  <2> HIDE DEF Changing
  <2> QED BY <2>1, <2>2, Zenon
<1>3. /\ d.holds_changes = p[c].holds
      /\ d.has_changes = (\E i \in 1 .. n : Changing(i))
      /\ d.details = DetailsAt(items, S)
  BY DEF DiffAfter
<1>4. DiffAfter(p, c, n + 1, equal) =
        [holds_changes |-> p[c].holds, has_changes |-> \E i \in 1 .. n + 1 : Changing(i),
         details |-> DetailsAt(items, T)]
  BY DEF DiffAfter
<1>5. Extended(d, items[n + 1], equal) =
        [holds_changes |-> d.holds_changes, has_changes |-> d.has_changes \/ Changing(n + 1),
         details |-> IF Recorded(items[n + 1], equal)
                     THEN Append(d.details, DetailOf(items[n + 1])) ELSE d.details]
  BY DEF Extended
<1> HIDE DEF d, S, T, Changing, items
<1>6. DiffAfter(p, c, n + 1, equal) = Extended(d, items[n + 1], equal)
  BY <1>1, <1>2, <1>3, <1>4, <1>5, Zenon
<1> QED BY <1>6 DEF d, items

\* Only what is known of the comparisons an item makes counts.
LEMMA AfterSame ==
  ASSUME NEW p, NEW c, NEW n, NEW E, NEW F,
         \A i \in 1 .. n : Recorded(p[c].items[i], E) <=> Recorded(p[c].items[i], F)
  PROVE  DiffAfter(p, c, n, E) = DiffAfter(p, c, n, F)
<1>1. {i \in 1 .. n : Recorded(p[c].items[i], E)} = {i \in 1 .. n : Recorded(p[c].items[i], F)}
  BY Zenon
<1> QED BY Zenon, <1>1 DEF DiffAfter

\* More to lead to does no harm.
LEMMA SettledMore ==
  ASSUME NEW item, NEW C, NEW O, Settled(item, C, O), NEW D, C \subseteq D, NEW Q, O \subseteq Q
  PROVE  Settled(item, D, Q)
BY DEF Settled

--------------------------------------------------------------------------------
(***************************************************************************)
(* What the members of Result record.                                      *)
(***************************************************************************)

\* Records that differ in one part.
LEMMA DiffParts ==
  ASSUME NEW diff \in Diff
  PROVE  /\ diff = [holds_changes |-> diff.holds_changes, has_changes |-> diff.has_changes,
                    details |-> diff.details]
         /\ [diff EXCEPT !.has_changes = TRUE] =
              [holds_changes |-> diff.holds_changes, has_changes |-> TRUE, details |-> diff.details]
         /\ \A s : [diff EXCEPT !.details = s] =
                     [holds_changes |-> diff.holds_changes, has_changes |-> diff.has_changes,
                      details |-> s]
         /\ \A s : [diff EXCEPT !.has_changes = TRUE, !.details = s] =
                     [holds_changes |-> diff.holds_changes, has_changes |-> TRUE, details |-> s]
         /\ diff.has_changes \in BOOLEAN
<1>1. diff.has_changes \in BOOLEAN
  BY DEF Diff
<1>2. diff = [holds_changes |-> diff.holds_changes, has_changes |-> diff.has_changes,
              details |-> diff.details]
  BY DEF Diff
<1>3. ASSUME NEW b
      PROVE  [diff EXCEPT !.has_changes = b] =
               [holds_changes |-> diff.holds_changes, has_changes |-> b, details |-> diff.details]
  BY DEF Diff
<1>4. ASSUME NEW s
      PROVE  [diff EXCEPT !.details = s] =
               [holds_changes |-> diff.holds_changes, has_changes |-> diff.has_changes,
                details |-> s]
  BY DEF Diff
<1>5. ASSUME NEW b, NEW s
      PROVE  [diff EXCEPT !.has_changes = b, !.details = s] =
               [holds_changes |-> diff.holds_changes, has_changes |-> b, details |-> s]
  <2> DEFINE d == [diff EXCEPT !.has_changes = b]
  <2>1. d = [holds_changes |-> diff.holds_changes, has_changes |-> b, details |-> diff.details]
    BY <1>3
  <2> HIDE DEF d
  <2>2. [d EXCEPT !.details = s] =
          [holds_changes |-> diff.holds_changes, has_changes |-> b, details |-> s]
    BY <2>1
  <2> QED BY <2>2 DEF d
<1> QED BY <1>1, <1>2, <1>3, <1>4, <1>5, Zenon

LEMMA FrameDiffs ==
  ASSUME NEW frame \in Frame
  PROVE  /\ frame.diff \in Diff
         /\ MarkIncomparable(frame).diff = [frame.diff EXCEPT !.has_changes = TRUE]
         /\ AddNodeDiff(frame).diff =
              [frame.diff EXCEPT !.has_changes = TRUE, !.details = Append(frame.diff.details, NoEdge)]
         /\ \A edge : AddEdgeDiff(frame, edge).diff =
                        [frame.diff EXCEPT !.details = Append(frame.diff.details, edge)]
         /\ \A result : MaybeAddEdgeDiff(frame, result).diff =
                          [frame.diff EXCEPT !.details =
                             IF result.edge = NoEdge THEN frame.diff.details
                             ELSE Append(frame.diff.details, result.edge)]
<1>1. frame.diff \in Diff
  BY DEF Frame
<1>2. MarkIncomparable(frame).diff = [frame.diff EXCEPT !.has_changes = TRUE]
  BY DEF MarkIncomparable, Frame
<1>3. AddNodeDiff(frame).diff =
        [frame.diff EXCEPT !.has_changes = TRUE, !.details = Append(frame.diff.details, NoEdge)]
  BY <1>1 DEF AddNodeDiff, Frame, Diff
<1>4. \A edge : AddEdgeDiff(frame, edge).diff =
                  [frame.diff EXCEPT !.details = Append(frame.diff.details, edge)]
  BY DEF AddEdgeDiff, Frame
<1>5. \A result : MaybeAddEdgeDiff(frame, result).diff =
                    [frame.diff EXCEPT !.details =
                       IF result.edge = NoEdge THEN frame.diff.details
                       ELSE Append(frame.diff.details, result.edge)]
  BY DEF MaybeAddEdgeDiff, Frame
<1> QED BY <1>1, <1>2, <1>3, <1>4, <1>5

\* A difference found on the spot is recorded.
LEMMA SpotRecords ==
  ASSUME TypeOK, NodeDiff \/ Incomparable \/ RemovedOrAdded
  PROVE  \E frame \in Frame : /\ Updated(Top, frame, FALSE) /\ stack' = Proceed(frame)
                              /\ frame.diff = Extended(Top.diff, Current, KnownEqual)
<1>1. HasItem /\ ~IsEdge(Current)
  BY SpotSteps
<1>2. Top \in Frame /\ Top.diff \in Diff
  BY Zenon, <1>1, TopCall, FrameDiffs DEF HasItem
<1>3. CASE NodeDiff
  <2>1. Current.kind = "node diff" /\ stack' = Proceed(AddNodeDiff(Top))
    BY Zenon, <1>3 DEF NodeDiff, At
  <2>2. AddNodeDiff(Top).diff = Extended(Top.diff, Current, KnownEqual)
    <3>1. Recorded(Current, KnownEqual) /\ DetailOf(Current) = NoEdge
      BY Zenon, <1>1, <2>1 DEF Recorded, DetailOf
    <3>2. (Top.diff.has_changes \/ Current.kind \in {"node diff", "incomparable"}) = TRUE
      BY Zenon, <2>1
    <3>3. Extended(Top.diff, Current, KnownEqual) =
            [holds_changes |-> Top.diff.holds_changes, has_changes |-> TRUE,
             details |-> Append(Top.diff.details, NoEdge)]
      BY <3>1, <3>2, Zenon DEF Extended
    <3> QED BY <1>2, <3>3, FrameDiffs, DiffParts, Zenon
  <2>3. Updated(Top, AddNodeDiff(Top), FALSE)
    BY <1>2, Updates
  <2> QED BY Zenon, <2>1, <2>2, <2>3 DEF Updated
<1>4. CASE Incomparable
  <2>1. Current.kind = "incomparable" /\ stack' = Proceed(MarkIncomparable(Top))
    BY <1>4 DEF Incomparable, At
  <2>2. MarkIncomparable(Top).diff = Extended(Top.diff, Current, KnownEqual)
    <3>1. ~Recorded(Current, KnownEqual)
      BY <2>1 DEF Recorded
    <3>2. (Top.diff.has_changes \/ Current.kind \in {"node diff", "incomparable"}) = TRUE
      BY <2>1
    <3>3. Extended(Top.diff, Current, KnownEqual) =
            [holds_changes |-> Top.diff.holds_changes, has_changes |-> TRUE,
             details |-> Top.diff.details]
      BY <3>1, <3>2, Zenon DEF Extended
    <3> QED BY <1>2, <3>3, FrameDiffs, DiffParts, Zenon
  <2>3. Updated(Top, MarkIncomparable(Top), FALSE)
    BY <1>2, Updates
  <2> QED BY <2>1, <2>2, <2>3 DEF Updated
<1>5. CASE RemovedOrAdded
  <2>1. Current.kind = "one-sided" /\ stack' = Proceed(AddEdgeDiff(Top, Current.to))
    BY <1>5 DEF RemovedOrAdded, At
  <2>2. AddEdgeDiff(Top, Current.to).diff = Extended(Top.diff, Current, KnownEqual)
    <3>1. Recorded(Current, KnownEqual) /\ DetailOf(Current) = Current.to
      BY <1>1, <2>1 DEF Recorded, DetailOf
    <3>2. (Top.diff.has_changes \/ Current.kind \in {"node diff", "incomparable"})
            = Top.diff.has_changes
      <4>1. Top.diff.has_changes \in BOOLEAN
        BY Zenon, <1>2, DiffParts
      <4>2. ~(Current.kind \in {"node diff", "incomparable"})
        BY <2>1
      <4> QED BY <4>1, <4>2, Zenon
    <3>3. Extended(Top.diff, Current, KnownEqual) =
            [holds_changes |-> Top.diff.holds_changes, has_changes |-> Top.diff.has_changes,
             details |-> Append(Top.diff.details, Current.to)]
      BY <3>1, <3>2, Zenon DEF Extended
    <3> DEFINE s == Append(Top.diff.details, Current.to)
    <3>4. AddEdgeDiff(Top, Current.to).diff = [Top.diff EXCEPT !.details = s]
      BY Zenon, <1>2, FrameDiffs
    <3> HIDE DEF s
    <3>5. [Top.diff EXCEPT !.details = s] =
            [holds_changes |-> Top.diff.holds_changes, has_changes |-> Top.diff.has_changes,
             details |-> s]
      BY Zenon, <1>2, DiffParts
    <3> QED BY <3>3, <3>4, <3>5, Zenon DEF s
  <2>3. Updated(Top, AddEdgeDiff(Top, Current.to), FALSE)
    <3>1. Current.to \in Detail
      BY <1>1, <2>1, ItemFacts, Zenon DEF Item, Detail
    <3> QED BY <1>2, <3>1, Updates
  <2> QED BY <2>1, <2>2, <2>3 DEF Updated
<1> QED BY <1>3, <1>4, <1>5

\* The result of a comparison is recorded: no edge if it is known to be equal.
LEMMA ResultRecorded ==
  ASSUME NEW frame \in Frame, NEW item, IsEdge(item), item.to \in Comparison, NEW equal,
         NEW result, result.edge = IF item.to \in equal THEN NoEdge ELSE item.to
  PROVE  MaybeAddEdgeDiff(frame, result).diff = Extended(frame.diff, item, equal)
<1>1. frame.diff \in Diff
  BY Zenon, FrameDiffs
<1>2. item.kind = "compare" /\ DetailOf(item) = item.to /\ item.to # NoEdge
  BY ComparisonAssumption DEF IsEdge, DetailOf
<1>3. Recorded(item, equal) <=> item.to \notin equal
  BY <1>2 DEF Recorded, IsEdge
<1> DEFINE s == IF result.edge = NoEdge THEN frame.diff.details
                ELSE Append(frame.diff.details, result.edge)
<1>4. (frame.diff.has_changes \/ item.kind \in {"node diff", "incomparable"})
        = frame.diff.has_changes
  <2>1. frame.diff.has_changes \in BOOLEAN
    BY Zenon, <1>1, DiffParts
  <2>2. ~(item.kind \in {"node diff", "incomparable"})
    BY <1>2
  <2> QED BY <2>1, <2>2, Zenon
<1>5. s = IF Recorded(item, equal) THEN Append(frame.diff.details, DetailOf(item))
          ELSE frame.diff.details
  BY <1>2, <1>3
<1> HIDE DEF s
<1>6. Extended(frame.diff, item, equal) =
        [holds_changes |-> frame.diff.holds_changes, has_changes |-> frame.diff.has_changes,
         details |-> s]
  BY <1>4, <1>5, Zenon DEF Extended
<1>7. MaybeAddEdgeDiff(frame, result).diff = [frame.diff EXCEPT !.details = s]
  BY Zenon, FrameDiffs DEF s
<1> QED BY <1>1, <1>6, <1>7, DiffParts, Zenon

--------------------------------------------------------------------------------
(***************************************************************************)
(* Steps of the innermost call.                                            *)
(***************************************************************************)

\* The calls and their parts once the innermost has dealt with an item.
LEMMA AdvanceFacts ==
  ASSUME IInv, P!IInv, HasItem, NEW frame, NEW equals, Updated(Top, frame, equals),
         stack' = Proceed(frame), plan' = plan, scc'.open_ = scc.open_
  PROVE  /\ Len(stack) \in Nat \ {0} /\ Len(stack') = Len(stack) /\ Len(scc.open_) \in Nat
         /\ Top.node \in Comparison /\ Top.handle \in 1 .. Len(scc.open_)
         /\ scc.open_[Top.handle] = Top.node
         /\ Top.next \in 1 .. Len(plan[Top.node].items)
         /\ stack'[Len(stack)].diff = frame.diff
         /\ EndOf(Len(stack)) = Len(scc.open_) + 1
         /\ \A f \in 1 .. Len(stack) :
              /\ stack[f].handle \in 1 .. Len(scc.open_)
              /\ stack'[f].node = stack[f].node
              /\ stack'[f].handle = stack[f].handle
              /\ EndOf(f)' = EndOf(f)
              /\ f # Len(stack) => stack'[f].diff = stack[f].diff
              /\ f # Len(stack) => ItemsDone(f)' = ItemsDone(f)
              /\ f = Len(stack) => ItemsDone(f) = Top.next - 1 /\ ItemsDone(f)' = Top.next
              /\ \A o : f # Len(stack) \/ o # Top.handle => DoneWith(f, o)' = DoneWith(f, o)
<1> DEFINE n == Len(stack)
<1>1. TypeOK /\ Running /\ stack \in Seq(Frame)
  BY DEF IInv, HasItem, TypeOK
<1>2. /\ n \in Nat \ {0} /\ Len(stack') = n /\ n \in 1 .. n
      /\ \A f \in 1 .. n :
           /\ f # n => stack'[f] = stack[f]
           /\ stack'[f].node = stack[f].node
           /\ stack'[f].handle = stack[f].handle
      /\ stack'[n].next = Top.next + 1
  BY <1>1, ProceedElements
<1>3. /\ Top.next \in 1 .. Len(plan[Top.node].items) /\ Top.next \in Nat \ {0}
      /\ Top.node \in Comparison
  BY <1>1, ItemFacts, TopCall DEF Frame
<1>4. /\ Len(scc.open_) \in Nat
      /\ \A f \in 1 .. n : stack[f].handle \in 1 .. Len(scc.open_)
      /\ scc.open_[Top.handle] = Top.node
  BY <1>1, <1>2, PartFacts DEF Top
<1>5. stack'[n].diff = frame.diff
  <2>1. stack' = [stack EXCEPT ![n] = [frame EXCEPT !.next = frame.next + 1]] /\ frame \in Frame
    BY DEF Proceed, Updated
  <2>2. stack'[n] = [frame EXCEPT !.next = frame.next + 1]
    BY <1>1, <1>2, <2>1
  <2> QED BY <2>1, <2>2 DEF Frame
<1>6. ASSUME NEW f \in 1 .. n PROVE EndOf(f)' = EndOf(f)
  <2>1. f < n => f + 1 \in 1 .. n
    BY <1>2
  <2> QED BY <1>2, <2>1 DEF EndOf
<1>7. EndOf(n) = Len(scc.open_) + 1
  BY <1>2 DEF EndOf
<1>8. ASSUME NEW f \in 1 .. n, f = n PROVE ItemsDone(f) = Top.next - 1 /\ ItemsDone(f)' = Top.next
  <2>1. stack[f].next = Top.next /\ ~(f < n)
    BY <1>2, <1>8 DEF Top
  <2>2. stack'[f].next = Top.next + 1 /\ Len(stack') = n
    BY <1>2, <1>8
  <2>3. ItemsDone(f) = Top.next - 1
    BY <2>1 DEF ItemsDone
  <2>4. ItemsDone(f)' = stack'[f].next - 1
    BY <2>1, <2>2 DEF ItemsDone
  <2> QED BY <1>3, <2>2, <2>3, <2>4
<1>9. ASSUME NEW f \in 1 .. n, f # n PROVE ItemsDone(f)' = ItemsDone(f)
  BY <1>2, <1>9 DEF ItemsDone
<1>10. ASSUME NEW f \in 1 .. n, NEW o, f # n \/ o # Top.handle PROVE DoneWith(f, o)' = DoneWith(f, o)
  <2>1. CASE f # n
    BY <1>2, <1>9, <2>1 DEF DoneWith
  <2>2. CASE f = n /\ o # Top.handle
    <3>1. stack'[f].handle = Top.handle /\ stack[f].handle = Top.handle
      BY <1>2, <2>2 DEF Top
    <3> QED BY <2>2, <3>1 DEF DoneWith
  <2> QED BY <1>10, <2>1, <2>2
<1>11. \A f \in 1 .. n : f # n => stack'[f].diff = stack[f].diff
  BY <1>2
<1>12. Top.handle \in 1 .. Len(scc.open_)
  BY <1>2, <1>4 DEF Top
<1> QED BY <1>2, <1>3, <1>4, <1>5, <1>6, <1>7, <1>8, <1>9, <1>10, <1>11, <1>12

\* A step to the next item keeps the records, if it records the item and what the item
\* leads to is there.
LEMMA AdvanceRecords ==
  ASSUME IInv, P!IInv, RecordsInv, HasItem,
         NEW frame, NEW equals, Updated(Top, frame, equals), stack' = Proceed(frame),
         frame.diff = Extended(Top.diff, Current, KnownEqual),
         UNCHANGED <<plan, known, provisional>>,
         scc'.open_ = scc.open_, scc'.is_open_ = scc.is_open_,
         DOMAIN outcomes \subseteq DOMAIN outcomes',
         Settled(Current, DOMAIN known \cup OpenBefore(Len(scc.open_) + 1), DOMAIN outcomes')
  PROVE  RecordsInv'
<1> DEFINE n == Len(stack)
<1>1. /\ n \in Nat \ {0} /\ Len(stack') = n /\ Len(scc.open_) \in Nat
      /\ Top.node \in Comparison /\ Top.handle \in 1 .. Len(scc.open_)
      /\ scc.open_[Top.handle] = Top.node
      /\ Top.next \in 1 .. Len(plan[Top.node].items)
      /\ stack'[n].diff = frame.diff
      /\ EndOf(n) = Len(scc.open_) + 1
      /\ \A f \in 1 .. n :
           /\ stack[f].handle \in 1 .. Len(scc.open_)
           /\ stack'[f].node = stack[f].node
           /\ stack'[f].handle = stack[f].handle
           /\ EndOf(f)' = EndOf(f)
           /\ f # n => stack'[f].diff = stack[f].diff
           /\ f # n => ItemsDone(f)' = ItemsDone(f)
           /\ f = n => ItemsDone(f) = Top.next - 1 /\ ItemsDone(f)' = Top.next
           /\ \A o : f # n \/ o # Top.handle => DoneWith(f, o)' = DoneWith(f, o)
  BY AdvanceFacts
<1>2. DiffsSoFar /\ ItemsSettled
  BY DEF RecordsInv
<1>3. KnownEqual' = KnownEqual
  BY DEF KnownEqual
<1>4. \A f \in 1 .. n : OpenBefore(EndOf(f))' = OpenBefore(EndOf(f))
  BY <1>1 DEF OpenBefore
<1>5. ASSUME NEW f \in 1 .. n
      PROVE  stack'[f].diff = DiffAfter(plan, stack[f].node, ItemsDone(f)', KnownEqual)
  <2>1. stack[f].diff = DiffAfter(plan, stack[f].node, ItemsDone(f), KnownEqual)
    BY <1>2 DEF DiffsSoFar
  <2>2. CASE f # n
    BY <1>1, <2>1, <2>2
  <2>3. CASE f = n
    <3>1. stack[f] = Top
      BY <2>3 DEF Top
    <3>2. Top.diff = DiffAfter(plan, Top.node, Top.next - 1, KnownEqual)
      BY <1>1, <2>1, <2>3, <3>1
    <3>3. DiffAfter(plan, Top.node, Top.next, KnownEqual) = Extended(Top.diff, Current, KnownEqual)
      <4> DEFINE j == Top.next - 1
      <4>1. j \in Nat /\ j + 1 = Top.next
        BY <1>1
      <4> HIDE DEF j
      <4>2. DiffAfter(plan, Top.node, j + 1, KnownEqual) =
              Extended(DiffAfter(plan, Top.node, j, KnownEqual),
                       plan[Top.node].items[j + 1], KnownEqual)
        BY <4>1, AfterNext
      <4> QED BY <3>2, <4>1, <4>2 DEF Current, j
    <3> QED BY <1>1, <2>3, <3>1, <3>3
  <2> QED BY <2>2, <2>3
<1>6. DiffsSoFar'
  <2>1. \A c \in DOMAIN provisional :
          provisional[c] = DiffAfter(plan, c, Len(plan[c].items), KnownEqual)
    BY <1>2 DEF DiffsSoFar
  <2> QED BY <1>1, <1>3, <1>5, <2>1 DEF DiffsSoFar
<1>7. ASSUME NEW f \in 1 .. n, NEW o \in stack[f].handle .. EndOf(f) - 1,
             NEW i \in 1 .. DoneWith(f, o)'
      PROVE  Settled(plan[scc.open_[o]].items[i], DOMAIN known \cup OpenBefore(EndOf(f)),
                     DOMAIN outcomes')
  <2> DEFINE item == plan[scc.open_[o]].items[i]
  <2>1. CASE i \in 1 .. DoneWith(f, o)
    <3>1. Settled(item, DOMAIN known \cup OpenBefore(EndOf(f)), DOMAIN outcomes)
      BY <1>2, <2>1 DEF ItemsSettled
    <3> HIDE DEF item
    <3>2. Settled(item, DOMAIN known \cup OpenBefore(EndOf(f)), DOMAIN outcomes')
      BY <3>1, SettledMore
    <3> QED BY <3>2 DEF item
  <2>2. CASE i \notin 1 .. DoneWith(f, o)
    <3>1. f = n /\ o = Top.handle
      BY <1>1, <2>2
    <3>2. stack[f].handle = o /\ stack'[f].handle = o
      BY <1>1, <3>1 DEF Top
    <3>3. DoneWith(f, o) = Top.next - 1 /\ DoneWith(f, o)' = Top.next
      BY <1>1, <3>1, <3>2 DEF DoneWith
    <3>4. i = Top.next
      BY <1>1, <2>2, <3>3
    <3>5. item = Current
      BY <1>1, <3>1, <3>4 DEF Current
    <3> HIDE DEF item
    <3>6. Settled(item, DOMAIN known \cup OpenBefore(EndOf(f)), DOMAIN outcomes')
      BY <1>1, <3>1, <3>5
    <3> QED BY <3>6 DEF item
  <2> QED BY <2>1, <2>2
<1>8. ItemsSettled'
  <2>1. ASSUME NEW c \in DOMAIN known, NEW i \in 1 .. Len(plan[c].items)
        PROVE  Settled(plan[c].items[i], DOMAIN known, DOMAIN outcomes')
    <3>1. Settled(plan[c].items[i], DOMAIN known, DOMAIN outcomes)
      BY <1>2 DEF ItemsSettled
    <3> QED BY <3>1, SettledMore
  <2>2. ASSUME NEW f \in 1 .. n, NEW o \in stack'[f].handle .. EndOf(f)' - 1,
               NEW i \in 1 .. DoneWith(f, o)'
        PROVE  Settled(plan'[scc'.open_[o]].items[i], DOMAIN known' \cup OpenBefore(EndOf(f))',
                       DOMAIN outcomes')
    <3>1. o \in stack[f].handle .. EndOf(f) - 1
      BY <1>1
    <3>2. Settled(plan[scc.open_[o]].items[i], DOMAIN known \cup OpenBefore(EndOf(f)),
                  DOMAIN outcomes')
      BY <1>7, <3>1
    <3> QED BY <1>4, <3>2
  <2> QED BY <1>1, <2>1, <2>2 DEF ItemsSettled
<1> QED BY <1>6, <1>8 DEF RecordsInv

--------------------------------------------------------------------------------
(***************************************************************************)
(* The outcomes, but for where their edges lead: that follows from what    *)
(* the items of closed comparisons lead to.                                *)
(***************************************************************************)
OutcomesRight ==
  /\ \A c \in DOMAIN known : c \in DOMAIN outcomes <=> ~known[c]
  /\ \A c \in DOMAIN outcomes \cap Comparison :
       c \in DOMAIN known /\ outcomes[c] = ExpectedDiff(plan, c)

\* An outcome for a removed or added node changes no other.
LEMMA OutcomesKept ==
  ASSUME OutcomesRight, DOMAIN known \subseteq Comparison, UNCHANGED <<plan, known>>,
         \A c \in DOMAIN outcomes : c \in DOMAIN outcomes' /\ outcomes'[c] = outcomes[c],
         DOMAIN outcomes' \cap Comparison \subseteq DOMAIN outcomes
  PROVE  OutcomesRight'
<1>1. ASSUME NEW c \in DOMAIN known PROVE c \in DOMAIN outcomes' <=> ~known[c]
  BY DEF OutcomesRight
<1>2. ASSUME NEW c \in DOMAIN outcomes' \cap Comparison
      PROVE  c \in DOMAIN known /\ outcomes'[c] = ExpectedDiff(plan, c)
  BY DEF OutcomesRight
<1> QED BY <1>1, <1>2 DEF OutcomesRight

LEMMA SpotOutcomes ==
  ASSUME IInv, P!IInv, RecordsInv, OutcomesRight, NodeDiff \/ Incomparable \/ RemovedOrAdded
  PROVE  RecordsInv' /\ OutcomesRight'
<1>1. TypeOK /\ DOMAIN known \subseteq Comparison
  BY DEF IInv, TypeOK
<1>2. /\ HasItem /\ ~IsEdge(Current)
      /\ UNCHANGED <<plan, known, provisional, scc>>
  BY <1>1, SpotSteps
<1>3. Current \in Item
  BY <1>1, <1>2, ItemFacts
<1>4. /\ \A c \in DOMAIN outcomes : c \in DOMAIN outcomes' /\ outcomes'[c] = outcomes[c]
      /\ DOMAIN outcomes' \cap Comparison \subseteq DOMAIN outcomes
      /\ Current.kind = "one-sided" => Current.to \in DOMAIN outcomes'
  <2>1. CASE NodeDiff \/ Incomparable
    BY Zenon, <2>1 DEF NodeDiff, Incomparable, At
  <2>2. CASE RemovedOrAdded
    <3>1. /\ Current.kind = "one-sided"
          /\ outcomes' = Inserted(outcomes, [c \in {Current.to} |-> EmptyDiff])
      BY <2>2 DEF RemovedOrAdded, At
    <3>2. Current.to \in OneSided
      BY <1>3, <3>1, Zenon DEF Item
    <3>3. DOMAIN outcomes' = DOMAIN outcomes \cup {Current.to}
      BY <3>1 DEF Inserted
    <3>4. \A c \in DOMAIN outcomes : outcomes'[c] = outcomes[c]
      BY <3>1 DEF Inserted
    <3> QED BY <3>2, <3>3, <3>4, ComparisonAssumption
  <2> QED BY <2>1, <2>2
<1>5. PICK frame \in Frame : /\ Updated(Top, frame, FALSE) /\ stack' = Proceed(frame)
                             /\ frame.diff = Extended(Top.diff, Current, KnownEqual)
  BY <1>1, SpotRecords
<1>6. Settled(Current, DOMAIN known \cup OpenBefore(Len(scc.open_) + 1), DOMAIN outcomes')
  BY <1>2, <1>4 DEF Settled
<1>7. RecordsInv'
  BY <1>2, <1>4, <1>5, <1>6, AdvanceRecords
<1> QED BY <1>1, <1>2, <1>4, <1>7, OutcomesKept

LEMMA KnownOutcomes ==
  ASSUME IInv, P!IInv, RecordsInv, OutcomesRight, CompareKnown
  PROVE  RecordsInv' /\ OutcomesRight'
<1> DEFINE c == Current.to
           result == KnownResult(c)
           frame == MaybeAddEdgeDiff(Top, result)
<1>1. TypeOK /\ DOMAIN known \subseteq Comparison /\ known \in [DOMAIN known -> BOOLEAN]
  BY DEF IInv, TypeOK
<1>2. /\ HasItem /\ IsEdge(Current) /\ Current.kind = "compare" /\ c \in DOMAIN known
      /\ stack' = Proceed(frame)
      /\ UNCHANGED <<plan, known, outcomes, provisional, scc>>
  BY DEF CompareKnown, At, IsEdge
<1>3. Top \in Frame /\ c \in Comparison
  BY <1>1, <1>2, ItemFacts, TopCall DEF HasItem
<1>4. result \in CallResult /\ result.edge = IF c \in KnownEqual THEN NoEdge ELSE c
  BY <1>1, <1>2, <1>3 DEF KnownResult, CallResult, KnownEqual
<1>5. Updated(Top, frame, Top.equals /\ result.equals)
  <2> HIDE DEF result
  <2> QED BY <1>3, <1>4, Updates
<1>6. frame.diff = Extended(Top.diff, Current, KnownEqual)
  <2> HIDE DEF result
  <2> QED BY <1>2, <1>3, <1>4, ResultRecorded
<1>7. Settled(Current, DOMAIN known \cup OpenBefore(Len(scc.open_) + 1), DOMAIN outcomes')
  BY <1>2 DEF Settled
<1> HIDE DEF frame, result
<1>8. RecordsInv'
  <2> DEFINE equals == Top.equals /\ result.equals
  <2>1. Updated(Top, frame, equals)
    BY <1>5
  <2> HIDE DEF equals
  <2> QED BY <1>2, <1>6, <1>7, <2>1, AdvanceRecords
<1> QED BY <1>1, <1>2, <1>8, OutcomesKept

LEMMA OpenOutcomes ==
  ASSUME IInv, P!IInv, RecordsInv, OutcomesRight, CompareOpen
  PROVE  RecordsInv' /\ OutcomesRight'
<1> DEFINE c == Current.to
           result == [equals |-> TRUE, edge |-> c]
           frame == MaybeAddEdgeDiff(Top, result)
<1>1. TypeOK /\ DOMAIN known \subseteq Comparison /\ stack \in Seq(Frame)
  BY DEF IInv, TypeOK
<1>2. /\ HasItem /\ IsEdge(Current) /\ Current.kind = "compare" /\ c \notin DOMAIN known
      /\ IsOpen(scc, c)
      /\ stack' = Proceed(frame)
      /\ scc' = OpenAgain(scc, c)
      /\ UNCHANGED <<plan, known, outcomes, provisional>>
  BY DEF CompareOpen, At, IsEdge
<1>3. Top \in Frame /\ c \in Comparison
  BY <1>1, <1>2, ItemFacts, TopCall DEF HasItem
<1>4. result \in CallResult /\ result.edge = IF c \in KnownEqual THEN NoEdge ELSE c
  BY <1>2, <1>3 DEF CallResult, KnownEqual
<1>5. Updated(Top, frame, Top.equals /\ result.equals)
  <2> HIDE DEF result
  <2> QED BY <1>3, <1>4, Updates
<1>6. frame.diff = Extended(Top.diff, Current, KnownEqual)
  <2> HIDE DEF result
  <2> QED BY <1>2, <1>3, <1>4, ResultRecorded
<1>7. scc'.open_ = scc.open_ /\ scc'.is_open_ = scc.is_open_
  BY <1>2 DEF OpenAgain
<1>8. Settled(Current, DOMAIN known \cup OpenBefore(Len(scc.open_) + 1), DOMAIN outcomes')
  <2>1. scc.is_open_[c] \in 1 .. Len(scc.open_) /\ Len(scc.open_) \in Nat
    BY <1>1, <1>2, SearchFacts
  <2>2. c \in OpenBefore(Len(scc.open_) + 1)
    BY <1>2, <2>1 DEF OpenBefore, IsOpen
  <2> QED BY <1>2, <2>2 DEF Settled
<1> HIDE DEF frame, result
<1>9. RecordsInv'
  <2> DEFINE equals == Top.equals /\ result.equals
  <2>1. Updated(Top, frame, equals)
    BY <1>5
  <2> HIDE DEF equals
  <2> QED BY <1>2, <1>6, <1>7, <1>8, <2>1, AdvanceRecords
<1> QED BY <1>1, <1>2, <1>9, OutcomesKept

\* A new call has recorded nothing, and the calls outside it still have what they had.
LEMMA EnterRecords ==
  ASSUME IInv, P!IInv, RecordsInv, OutcomesRight,
         NEW c \in Comparison, ~IsOpen(scc, c),
         NEW callers \in Seq(Frame), Enter(c, callers), Len(callers) = Len(stack),
         \A f \in 1 .. Len(stack) :
           /\ callers[f].node = stack[f].node
           /\ callers[f].handle = stack[f].handle
           /\ callers[f].equals = stack[f].equals
           /\ callers[f].diff = stack[f].diff
           /\ callers[f].next = IF f = Len(stack) THEN stack[f].next + 1 ELSE stack[f].next
  PROVE  RecordsInv' /\ OutcomesRight'
<1> DEFINE n == Len(stack)
           m == Len(scc.open_)
<1>1. TypeOK /\ DOMAIN known \subseteq Comparison
  BY DEF IInv, TypeOK
<1>2. DiffsSoFar /\ ItemsSettled
  BY DEF RecordsInv
<1>3. /\ n \in Nat /\ m \in Nat
      /\ stack'[n + 1].node = c
      /\ stack'[n + 1].handle = m + 1
      /\ stack'[n + 1].next = 1
      /\ UNCHANGED <<plan, known, outcomes, provisional, sccs>>
      /\ Len(stack') = n + 1
      /\ \A f \in 1 .. n : stack'[f] = callers[f]
      /\ Len(scc'.open_) = m + 1
      /\ \A o \in 1 .. m : scc'.open_[o] = scc.open_[o]
      /\ DOMAIN scc'.is_open_ = DOMAIN scc.is_open_ \cup {c}
      /\ \A d \in DOMAIN scc.is_open_ : scc'.is_open_[d] = scc.is_open_[d]
      /\ \A f \in 1 .. n :
           /\ stack[f].next \in Nat \ {0}
           /\ stack[f].handle \in 1 .. m
           /\ EndOf(f) \in stack[f].handle + 1 .. m + 1
           /\ stack'[f].handle = stack[f].handle
           /\ stack'[f].node = stack[f].node
           /\ stack'[f].next = IF f = n THEN stack[f].next + 1 ELSE stack[f].next
           /\ f = n \/ f < n
           /\ EndOf(f)' = EndOf(f)
           /\ \A o \in 1 .. m : DoneWith(f, o)' = DoneWith(f, o)
  BY ZenonT(40), EnterFacts
<1>4. stack'[n + 1].diff = DiffAfter(plan, c, 0, KnownEqual)
  <2> DEFINE e == [EmptyDiff EXCEPT !.holds_changes = plan[c].holds]
             frame == [node |-> c, handle |-> NextIndex(scc), next |-> 1, equals |-> TRUE,
                       diff |-> e]
  <2>1. stack' = Append(callers, frame)
    BY DEF Enter
  <2>2. frame \in Frame
    BY <1>1, NewFrame
  <2>3. frame.diff = e
    BY Zenon
  <2> HIDE DEF frame, e
  <2>4. stack'[n + 1] = frame
    BY <1>3, <2>1, <2>2, AppendProperties
  <2>5. e = DiffAfter(plan, c, 0, KnownEqual)
    BY AfterNone DEF e
  <2> QED BY <2>3, <2>4, <2>5
<1>5. KnownEqual' = KnownEqual
  BY <1>3 DEF KnownEqual
<1>6. ASSUME NEW f \in 1 .. n PROVE ItemsDone(f)' = ItemsDone(f)
  BY <1>3 DEF ItemsDone
<1>7. ASSUME NEW f, f = n + 1 PROVE ItemsDone(f)' = 0
  <2>1. ~(f < n + 1) /\ stack'[f].next = 1
    BY <1>3, <1>7
  <2> QED BY <1>3, <2>1 DEF ItemsDone
<1>8. DiffsSoFar'
  <2>1. ASSUME NEW f \in 1 .. n + 1
        PROVE  stack'[f].diff = DiffAfter(plan, stack'[f].node, ItemsDone(f)', KnownEqual)
    <3>1. CASE f \in 1 .. n
      BY <1>2, <1>3, <1>6, <3>1 DEF DiffsSoFar
    <3>2. CASE f = n + 1
      BY <1>3, <1>4, <1>7, <3>2
    <3> QED BY <1>3, <3>1, <3>2
  <2>2. \A d \in DOMAIN provisional :
          provisional[d] = DiffAfter(plan, d, Len(plan[d].items), KnownEqual)
    BY <1>2 DEF DiffsSoFar
  <2> QED BY <1>3, <1>5, <2>1, <2>2 DEF DiffsSoFar
<1>9. ASSUME NEW f \in 1 .. n, NEW o \in stack[f].handle .. EndOf(f) - 1,
             NEW i \in 1 .. DoneWith(f, o)'
      PROVE  Settled(plan[scc'.open_[o]].items[i], DOMAIN known \cup OpenBefore(EndOf(f))',
                     DOMAIN outcomes)
  <2>1. o \in 1 .. m
    BY SMTT(30), <1>3
  <2>2. Settled(plan[scc.open_[o]].items[i], DOMAIN known \cup OpenBefore(EndOf(f)),
                DOMAIN outcomes)
    BY <1>2, <1>3, <2>1 DEF ItemsSettled
  <2>3. OpenBefore(EndOf(f)) \subseteq OpenBefore(EndOf(f))'
    BY <1>3 DEF OpenBefore
  <2> DEFINE item == plan[scc.open_[o]].items[i]
  <2>4. item = plan[scc'.open_[o]].items[i]
    BY <1>3, <2>1
  <2> HIDE DEF item
  <2>5. Settled(item, DOMAIN known \cup OpenBefore(EndOf(f)), DOMAIN outcomes)
    BY <2>2 DEF item
  <2>6. Settled(item, DOMAIN known \cup OpenBefore(EndOf(f))', DOMAIN outcomes)
    BY <2>3, <2>5, SettledMore
  <2> QED BY <2>4, <2>6
<1>10. ASSUME NEW f, f = n + 1, NEW o, o \in stack'[f].handle .. EndOf(f)' - 1
       PROVE  DoneWith(f, o)' = 0
  <2>1. stack'[f].handle = m + 1
    BY <1>3, <1>10
  <2>2. EndOf(f)' = m + 2
    <3>1. ~(f < n + 1)
      BY <1>3, <1>10
    <3>2. EndOf(f)' = m + 1 + 1
      BY <1>3, <3>1 DEF EndOf
    <3> QED BY <1>3, <3>2
  <2>3. o = stack'[f].handle
    BY <1>3, <1>10, <2>1, <2>2
  <2> QED BY <1>7, <1>10, <2>3 DEF DoneWith
<1>11. ItemsSettled'
  <2>1. ASSUME NEW f \in 1 .. n + 1, NEW o \in stack'[f].handle .. EndOf(f)' - 1,
               NEW i \in 1 .. DoneWith(f, o)'
        PROVE  Settled(plan[scc'.open_[o]].items[i], DOMAIN known \cup OpenBefore(EndOf(f))',
                       DOMAIN outcomes)
    <3>1. CASE f \in 1 .. n
      <4>1. o \in stack[f].handle .. EndOf(f) - 1
        BY <1>3, <3>1
      <4> QED BY <1>9, <3>1, <4>1
    <3>2. CASE f = n + 1
      <4>1. DoneWith(f, o)' = 0
        BY <1>10, <3>2
      <4> QED BY <4>1
    <3> QED BY <1>3, <3>1, <3>2
  <2>2. \A d \in DOMAIN known : \A i \in 1 .. Len(plan[d].items) :
          Settled(plan[d].items[i], DOMAIN known, DOMAIN outcomes)
    BY <1>2 DEF ItemsSettled
  <2> QED BY <1>3, <2>1, <2>2 DEF ItemsSettled
<1>12. OutcomesRight'
  BY <1>1, <1>3, OutcomesKept
<1> QED BY <1>8, <1>11, <1>12 DEF RecordsInv

LEMMA NewOutcomes ==
  ASSUME IInv, P!IInv, RecordsInv, OutcomesRight, CompareNew
  PROVE  RecordsInv' /\ OutcomesRight'
<1> DEFINE callers == Proceed(Top)
           c == Current.to
<1>1. TypeOK
  BY DEF IInv
<1>2. Running /\ HasItem /\ IsEdge(Current) /\ ~IsOpen(scc, c) /\ Enter(c, callers)
  BY DEF CompareNew, At, HasItem, IsEdge
<1>3. c \in Comparison
  BY <1>1, <1>2, ItemFacts
<1>4. callers \in Seq(Frame) /\ Len(callers) = Len(stack)
  BY <1>1, <1>2, AwaitingCallers
<1>5. \A f \in 1 .. Len(stack) :
        /\ callers[f].node = stack[f].node
        /\ callers[f].handle = stack[f].handle
        /\ callers[f].equals = stack[f].equals
        /\ callers[f].diff = stack[f].diff
        /\ callers[f].next = IF f = Len(stack) THEN stack[f].next + 1 ELSE stack[f].next
  BY <1>1, <1>2, AwaitingCallers
<1> HIDE DEF callers, c
<1> QED BY <1>2, <1>3, <1>4, <1>5, EnterRecords

LEMMA StartOutcomes ==
  ASSUME IInv, P!IInv, RecordsInv, OutcomesRight, NEW c \in Comparison, Start(c)
  PROVE  RecordsInv' /\ OutcomesRight'
<1>1. TypeOK /\ stack \in Seq(Frame) /\ ProvisionalExact
  BY DEF IInv, TypeOK
<1>2. ~Running /\ Enter(c, stack)
  BY DEF Start
<1>3. ~IsOpen(scc, c)
  BY <1>1, <1>2 DEF ProvisionalExact, Empty, IsOpen
<1>4. Len(stack) = 0
  BY <1>1, <1>2, EmptySeq DEF Running
<1>5. \A f \in 1 .. Len(stack) :
        /\ stack[f].node = stack[f].node
        /\ stack[f].handle = stack[f].handle
        /\ stack[f].equals = stack[f].equals
        /\ stack[f].diff = stack[f].diff
        /\ stack[f].next = IF f = Len(stack) THEN stack[f].next + 1 ELSE stack[f].next
  BY <1>4
<1> QED BY <1>1, <1>2, <1>3, <1>5, EnterRecords

--------------------------------------------------------------------------------
(***************************************************************************)
(* Returns.                                                                *)
(***************************************************************************)

\* What the calls have recorded once the innermost has returned.
LEMMA ReturnDiffs ==
  ASSUME TypeOK, Running, NEW result \in CallResult, Return(result)
  PROVE  /\ \A f \in 1 .. Len(stack) - 1 : f # Len(stack) - 1 => stack'[f].diff = stack[f].diff
         /\ \A k : k = Len(stack) - 1 /\ k # 0 =>
              /\ stack[k] \in Frame
              /\ stack'[k].diff = MaybeAddEdgeDiff(stack[k], result).diff
<1> DEFINE n == Len(stack) - 1
           callers == SubSeq(stack, 1, n)
<1>1. stack \in Seq(Frame) /\ Len(stack) \in Nat \ {0}
  BY TopCall DEF TypeOK
<1>2. n \in Nat /\ n <= Len(stack) /\ \A f \in 1 .. n : f \in 1 .. Len(stack)
  BY <1>1
<1>3. \A f \in 1 .. n : stack[f] \in Frame
  BY <1>1, <1>2, ElementOfSeq
<1>4. callers \in Seq(Frame) /\ Len(callers) = n /\ \A f \in 1 .. n : callers[f] = stack[f]
  <2> HIDE DEF n
  <2> QED BY <1>2, <1>3, SubSeqProperties
<1>5. stack' = IF n = 0 THEN callers
               ELSE [callers EXCEPT ![n] = MaybeAddEdgeDiff(callers[n], result)]
  BY <1>4 DEF Return
<1> HIDE DEF n, callers
<1>6. \A f \in 1 .. n : f # n => stack'[f] = stack[f]
  BY <1>4, <1>5
<1>7. n # 0 => stack'[n] = MaybeAddEdgeDiff(stack[n], result) /\ stack[n] \in Frame
  <2>1. n # 0 => n \in 1 .. n
    BY <1>2
  <2> QED BY <1>3, <1>4, <1>5, <2>1
<1>8. \A k : k = n /\ k # 0 => /\ stack[k] \in Frame
                               /\ stack'[k].diff = MaybeAddEdgeDiff(stack[k], result).diff
  BY SMTT(30), <1>7
<1> QED BY <1>6, <1>8 DEF n

\* When a call returns, its caller is done with one more item, the one that asked for it.
LEMMA ReturnDone ==
  ASSUME IInv, P!IInv, Running, NEW result \in CallResult, Return(result),
         NEW f \in 1 .. Len(stack) - 1
  PROVE  /\ f \in 1 .. Len(stack) /\ f < Len(stack) /\ Len(stack) \in Nat
         /\ stack'[f].node = stack[f].node /\ stack[f].node \in Comparison
         /\ stack'[f].handle = stack[f].handle /\ stack[f].handle \in 1 .. Len(scc.open_)
         /\ scc.open_[stack[f].handle] = stack[f].node
         /\ ItemsDone(f) \in Nat
         /\ f # Len(stack) - 1 => ItemsDone(f)' = ItemsDone(f)
         /\ f = Len(stack) - 1 =>
              /\ ItemsDone(f)' = ItemsDone(f) + 1
              /\ IsEdge(plan[stack[f].node].items[ItemsDone(f) + 1])
              /\ plan[stack[f].node].items[ItemsDone(f) + 1].to = Top.node
<1> DEFINE n == Len(stack)
<1>1. TypeOK /\ stack \in Seq(Frame) /\ n \in Nat \ {0} /\ CallsAwaited
  BY TopCall DEF IInv, TypeOK
<1>2. f \in 1 .. n /\ f < n
  BY <1>1
<1>3. /\ stack[f].node \in Comparison /\ stack[f].handle \in 1 .. Len(scc.open_)
      /\ scc.open_[stack[f].handle] = stack[f].node /\ stack[f].next \in Nat \ {0}
  BY <1>1, <1>2, PartFacts
<1>4. /\ Len(stack') = n - 1
      /\ stack'[f].node = stack[f].node
      /\ stack'[f].handle = stack[f].handle
      /\ stack'[f].next = stack[f].next
  BY <1>1, ReturnElements
<1>5. stack[f].next - 1 # 0 /\ ItemsDone(f) = stack[f].next - 2 /\ ItemsDone(f) \in Nat
  <2>1. stack[f].next - 1 # 0
    BY <1>1, <1>2 DEF CallsAwaited
  <2> QED BY <1>2, <1>3, <2>1 DEF ItemsDone
<1>6. ASSUME f # n - 1 PROVE ItemsDone(f)' = ItemsDone(f)
  BY SMTT(30), <1>1, <1>2, <1>4, <1>6 DEF ItemsDone
<1>7. ASSUME f = n - 1
      PROVE  /\ ItemsDone(f)' = ItemsDone(f) + 1
             /\ IsEdge(plan[stack[f].node].items[ItemsDone(f) + 1])
             /\ plan[stack[f].node].items[ItemsDone(f) + 1].to = Top.node
  <2>1. ItemsDone(f)' = stack[f].next - 1
    BY <1>1, <1>4, <1>7 DEF ItemsDone
  <2>2. ItemsDone(f) + 1 = stack[f].next - 1
    BY <1>3, <1>5
  <2>3. n # 1
    BY <1>1, <1>2, <1>7
  <2> DEFINE i == stack[f].next - 1
  <2>4. i = stack[f].next - 1
    OBVIOUS
  <2> HIDE DEF i
  <2>5. /\ IsEdge(plan[stack[f].node].items[i])
        /\ plan[stack[f].node].items[i].to = Top.node
    BY <1>7, <2>3, <2>4, CallerFacts
  <2> QED BY <2>1, <2>2, <2>4, <2>5
<1> QED BY <1>1, <1>2, <1>3, <1>4, <1>5, <1>6, <1>7

\* The calls left have recorded what they are done with, whatever verdicts were stored
\* meanwhile, if those are not about what they were done with.
LEMMA ReturnRecords ==
  ASSUME IInv, P!IInv, DiffsSoFar, Running, plan' = plan,
         NEW result \in CallResult, Return(result), NEW E, E = KnownEqual',
         result.edge = IF Top.node \in E THEN NoEdge ELSE Top.node,
         \A f \in 1 .. Len(stack) - 1 : \A i \in 1 .. ItemsDone(f) :
           Recorded(plan[stack[f].node].items[i], KnownEqual) <=>
             Recorded(plan[stack[f].node].items[i], E)
  PROVE  \A f \in 1 .. Len(stack) - 1 :
           stack'[f].diff = DiffAfter(plan, stack'[f].node, ItemsDone(f)', E)
<1> SUFFICES ASSUME NEW f \in 1 .. Len(stack) - 1
             PROVE  stack'[f].diff = DiffAfter(plan, stack'[f].node, ItemsDone(f)', E)
  OBVIOUS
<1> DEFINE n == Len(stack)
           j == ItemsDone(f)
           D(i) == DiffAfter(plan, stack[f].node, i, E)
<1>1. TypeOK /\ Top.node \in Comparison
  BY TopCall DEF IInv
<1>2. /\ f \in 1 .. n /\ n \in Nat
      /\ stack'[f].node = stack[f].node /\ stack[f].node \in Comparison
      /\ j \in Nat
      /\ f # n - 1 => ItemsDone(f)' = j
      /\ f = n - 1 =>
           /\ ItemsDone(f)' = j + 1
           /\ IsEdge(plan[stack[f].node].items[j + 1])
           /\ plan[stack[f].node].items[j + 1].to = Top.node
  BY ReturnDone
<1>3. stack[f].diff = DiffAfter(plan, stack[f].node, j, KnownEqual)
  BY <1>2 DEF DiffsSoFar
<1> HIDE DEF j
<1>4. DiffAfter(plan, stack[f].node, j, KnownEqual) = D(j)
  <2>1. \A i \in 1 .. j : Recorded(plan[stack[f].node].items[i], KnownEqual) <=>
                          Recorded(plan[stack[f].node].items[i], E)
    BY DEF j
  <2> QED BY <2>1, AfterSame
<1>5. CASE f # n - 1
  <2>1. stack'[f].diff = stack[f].diff
    BY <1>1, <1>5, ReturnDiffs
  <2> QED BY <1>2, <1>3, <1>4, <1>5, <2>1
<1>6. CASE f = n - 1
  <2> DEFINE item == plan[stack[f].node].items[j + 1]
             frame == stack[f]
  <2>1. frame \in Frame /\ stack'[f].diff = MaybeAddEdgeDiff(frame, result).diff
    BY SMTT(30), <1>1, <1>2, <1>6, ReturnDiffs
  <2>2. IsEdge(item) /\ item.to = Top.node
    BY <1>2, <1>6
  <2>3. D(j + 1) = Extended(D(j), item, E)
    BY <1>2, AfterNext
  <2>4. frame.diff = D(j)
    BY <1>3, <1>4
  <2> HIDE DEF item, frame, D
  <2>5. MaybeAddEdgeDiff(frame, result).diff = Extended(frame.diff, item, E)
    <3>1. IsEdge(item) /\ item.to \in Comparison /\ frame \in Frame
      BY <1>1, <2>1, <2>2
    <3>2. result.edge = IF item.to \in E THEN NoEdge ELSE item.to
      BY <2>2
    <3> QED BY <3>1, <3>2, ResultRecorded, Zenon
  <2>6. stack'[f].diff = D(j + 1)
    BY <2>1, <2>3, <2>4, <2>5
  <2> QED BY SMTT(30), <1>2, <1>6, <2>6 DEF D
<1> QED BY <1>5, <1>6

\* The items the calls left are done with: those of before, and one that leads to the
\* comparison just dealt with.
LEMMA ReturnItems ==
  ASSUME IInv, P!IInv, Running, plan' = plan, NEW result \in CallResult, Return(result),
         NEW f \in 1 .. Len(stack) - 1, NEW o \in 1 .. Len(scc.open_), scc'.open_[o] = scc.open_[o],
         NEW i \in 1 .. DoneWith(f, o)'
  PROVE  LET item == plan[scc.open_[o]].items[i]
         IN  i \in 1 .. DoneWith(f, o) \/ (IsEdge(item) /\ item.to = Top.node)
<1>1. /\ stack'[f].handle = stack[f].handle
      /\ scc.open_[stack[f].handle] = stack[f].node
      /\ ItemsDone(f) \in Nat
      /\ f # Len(stack) - 1 => ItemsDone(f)' = ItemsDone(f)
      /\ f = Len(stack) - 1 =>
           /\ ItemsDone(f)' = ItemsDone(f) + 1
           /\ IsEdge(plan[stack[f].node].items[ItemsDone(f) + 1])
           /\ plan[stack[f].node].items[ItemsDone(f) + 1].to = Top.node
  BY ReturnDone
<1>2. CASE o # stack[f].handle
  <2>1. DoneWith(f, o)' = DoneWith(f, o)
    BY <1>1, <1>2 DEF DoneWith
  <2> QED BY <2>1
<1>3. CASE o = stack[f].handle
  <2>1. DoneWith(f, o) = ItemsDone(f) /\ DoneWith(f, o)' = ItemsDone(f)'
    BY <1>1, <1>3 DEF DoneWith
  <2>2. i \in 1 .. DoneWith(f, o) \/ (f = Len(stack) - 1 /\ i = ItemsDone(f) + 1)
    BY <1>1, <2>1
  <2> QED BY <1>1, <1>3, <2>2
<1> QED BY <1>2, <1>3

\* A call that is done has recorded its whole plan, as have those it made that are still
\* open, and they lead to what is closed or open.
LEMMA FinishedRecords ==
  ASSUME IInv, P!IInv, RecordsInv, Finished
  PROVE  /\ \A o \in Top.handle .. Len(scc.open_) : \A i \in 1 .. Len(plan[scc.open_[o]].items) :
              Settled(plan[scc.open_[o]].items[i],
                      DOMAIN known \cup OpenBefore(Len(scc.open_) + 1), DOMAIN outcomes)
         /\ DOMAIN Provided = DOMAIN provisional \cup {Top.node}
         /\ \A c \in DOMAIN Provided :
              Provided[c] = DiffAfter(plan, c, Len(plan[c].items), KnownEqual)
<1> DEFINE n == Len(stack)
           m == Len(scc.open_)
<1>1. TypeOK /\ Running /\ CallsAwaited /\ ProvisionalExact
  BY DEF IInv, Finished
<1>2. n \in Nat \ {0} /\ n \in 1 .. n /\ Top.next \in Nat \ {0} /\ Top.node \in Comparison
  BY <1>1, TopCall DEF Frame
<1>3. m \in Nat /\ Top.handle \in 1 .. m /\ scc.open_[Top.handle] = Top.node
  BY FinishedDone
<1>4. Len(plan[Top.node].items) \in Nat /\ Top.next - 1 \in 0 .. Len(plan[Top.node].items)
  <2>1. /\ Len(plan[stack[n].node].items) \in Nat
        /\ stack[n].next - 1 \in 0 .. Len(plan[stack[n].node].items)
    BY <1>1, <1>2, PartFacts DEF CallsAwaited
  <2> QED BY <2>1 DEF Top
<1>5. Top.next - 1 = Len(plan[Top.node].items)
  <2>1. ~(Top.next <= Len(plan[Top.node].items))
    BY <1>1, FinishedFacts
  <2> QED BY <1>2, <1>4, <2>1
<1>6. ASSUME NEW f, f = n
      PROVE  /\ ItemsDone(f) = Len(plan[Top.node].items) /\ EndOf(f) = m + 1
             /\ stack[f] = Top
  BY <1>2, <1>5, <1>6 DEF ItemsDone, EndOf, Top
<1>7. ASSUME NEW o \in Top.handle .. m, NEW i \in 1 .. Len(plan[scc.open_[o]].items)
      PROVE  Settled(plan[scc.open_[o]].items[i], DOMAIN known \cup OpenBefore(m + 1),
                     DOMAIN outcomes)
  <2> SUFFICES ASSUME NEW f, f = n
               PROVE  Settled(plan[scc.open_[o]].items[i], DOMAIN known \cup OpenBefore(m + 1),
                              DOMAIN outcomes)
    OBVIOUS
  <2>1. DoneWith(f, o) = Len(plan[scc.open_[o]].items)
    BY <1>3, <1>6 DEF DoneWith
  <2>2. o \in stack[f].handle .. EndOf(f) - 1 /\ i \in 1 .. DoneWith(f, o)
    BY <1>3, <1>6, <2>1
  <2>3. Settled(plan[scc.open_[o]].items[i], DOMAIN known \cup OpenBefore(EndOf(f)),
                DOMAIN outcomes)
    BY <1>2, <2>2 DEF RecordsInv, ItemsSettled
  <2> QED BY <1>6, <2>3
<1>8. Top.diff = DiffAfter(plan, Top.node, Len(plan[Top.node].items), KnownEqual)
  <2> SUFFICES ASSUME NEW f, f = n
               PROVE  Top.diff = DiffAfter(plan, Top.node, Len(plan[Top.node].items), KnownEqual)
    OBVIOUS
  <2>1. stack[f].diff = DiffAfter(plan, stack[f].node, ItemsDone(f), KnownEqual)
    BY <1>2 DEF RecordsInv, DiffsSoFar
  <2> QED BY <1>6, <2>1
<1>9. DOMAIN Provided = DOMAIN provisional \cup {Top.node}
  BY <1>1, ProvidedDiffs
<1>10. ASSUME NEW c \in DOMAIN Provided
       PROVE  Provided[c] = DiffAfter(plan, c, Len(plan[c].items), KnownEqual)
  <2>1. CASE c \in DOMAIN provisional
    <3>1. Provided[c] = provisional[c]
      BY <2>1 DEF Provided, Inserted
    <3> QED BY <2>1, <3>1 DEF RecordsInv, DiffsSoFar
  <2>2. CASE c \notin DOMAIN provisional
    <3>1. c = Top.node
      BY <1>9, <2>2
    <3>2. Provided[c] = Top.diff
      BY <2>2, <3>1 DEF Provided, Inserted
    <3> QED BY <1>8, <3>1, <3>2
  <2> QED BY <2>1, <2>2
<1> QED BY <1>7, <1>9, <1>10

LEMMA CloseNothingOutcomes ==
  ASSUME IInv, P!IInv, RecordsInv, OutcomesRight, CloseNothing
  PROVE  RecordsInv' /\ OutcomesRight'
<1> DEFINE n == Len(stack)
           m == Len(scc.open_)
           result == [equals |-> Top.equals, edge |-> Top.node]
<1>1. TypeOK /\ stack \in Seq(Frame) /\ DOMAIN known \subseteq Comparison /\ DiffsSoFar /\ ItemsSettled
  BY DEF IInv, TypeOK, RecordsInv
<1>2. /\ Finished /\ Running /\ provisional' = Provided /\ Return(result)
      /\ UNCHANGED <<plan, known, outcomes, scc>>
  BY DEF CloseNothing, Finished
<1>3. result \in CallResult /\ result.edge = Top.node
  BY <1>1, <1>2, ClosedResult
<1> HIDE DEF result
<1>4. /\ n \in Nat \ {0} /\ m \in Nat /\ Top.handle \in 1 .. m /\ scc.open_[Top.handle] = Top.node
      /\ Top.node \in Comparison /\ Len(stack') = n - 1
      /\ \A f \in 1 .. n - 1 : stack'[f].node = stack[f].node /\ stack'[f].handle = stack[f].handle
  BY <1>1, <1>2, <1>3, FinishedDone, ReturnElements
<1>5. IsOpen(scc, Top.node) /\ Top.node \notin DOMAIN known /\ scc.is_open_[Top.node] = Top.handle
  BY <1>1, <1>4, SearchFacts
<1>6. KnownEqual' = KnownEqual /\ Top.node \notin KnownEqual
  BY <1>2, <1>5 DEF KnownEqual
<1>7. /\ \A o \in Top.handle .. m : \A i \in 1 .. Len(plan[scc.open_[o]].items) :
           Settled(plan[scc.open_[o]].items[i], DOMAIN known \cup OpenBefore(m + 1), DOMAIN outcomes)
      /\ \A c \in DOMAIN Provided :
           Provided[c] = DiffAfter(plan, c, Len(plan[c].items), KnownEqual)
  BY <1>2, FinishedRecords
<1>8. DiffsSoFar'
  <2>1. \A f \in 1 .. n - 1 :
          stack'[f].diff = DiffAfter(plan, stack'[f].node, ItemsDone(f)', KnownEqual)
    BY <1>1, <1>2, <1>3, <1>6, ReturnRecords
  <2> QED BY <1>2, <1>4, <1>6, <1>7, <2>1 DEF DiffsSoFar
<1>9. ASSUME NEW f \in 1 .. n - 1
      PROVE  /\ f \in 1 .. n /\ EndOf(f) \in stack[f].handle + 1 .. m + 1 /\ stack[f].handle \in 1 .. m
             /\ f # n - 1 => EndOf(f)' = EndOf(f)
             /\ f = n - 1 => EndOf(f) = Top.handle /\ EndOf(f)' = m + 1
  <2>1. f \in 1 .. n /\ f < n
    BY <1>4
  <2>2. EndOf(f) \in stack[f].handle + 1 .. m + 1 /\ stack[f].handle \in 1 .. m
    BY <1>1, <2>1, PartFacts
  <2>3. CASE f # n - 1
    <3>1. f < n - 1 /\ f + 1 \in 1 .. n - 1
      BY <1>4, <2>3
    <3>2. EndOf(f) = stack[f + 1].handle
      BY <2>1 DEF EndOf
    <3>3. EndOf(f)' = stack'[f + 1].handle
      BY <1>4, <3>1 DEF EndOf
    <3> QED BY <1>4, <2>1, <2>2, <2>3, <3>1, <3>2, <3>3
  <2>4. CASE f = n - 1
    <3>1. f + 1 = n /\ ~(f < n - 1)
      BY <1>4, <2>4
    <3>2. EndOf(f) = Top.handle
      BY <2>1, <3>1 DEF EndOf, Top
    <3>3. EndOf(f)' = m + 1
      BY <1>2, <1>4, <3>1 DEF EndOf
    <3> QED BY <2>1, <2>2, <2>4, <3>2, <3>3
  <2> QED BY <2>3, <2>4
<1>10. \A e : OpenBefore(e)' = OpenBefore(e)
  BY <1>2 DEF OpenBefore
<1>11. ASSUME NEW f \in 1 .. n - 1, NEW o \in stack[f].handle .. EndOf(f)' - 1,
              NEW i \in 1 .. DoneWith(f, o)', NEW e, e = EndOf(f)'
       PROVE  Settled(plan[scc.open_[o]].items[i], DOMAIN known \cup OpenBefore(e), DOMAIN outcomes)
  <2> DEFINE item == plan[scc.open_[o]].items[i]
  <2>1. /\ e \in Int /\ EndOf(f) \in Int /\ EndOf(f) <= e /\ o \in 1 .. m
        /\ o \in stack[f].handle .. EndOf(f) - 1 \/ (o \in Top.handle .. m /\ e = m + 1)
        /\ o \in stack[f].handle .. EndOf(f) - 1 \/ o # stack[f].handle
    <3>1. CASE f = n - 1
      BY SMTT(30), <1>4, <1>9, <1>11, <3>1
    <3>2. CASE f # n - 1
      BY SMTT(30), <1>4, <1>9, <1>11, <3>2
    <3> QED BY <3>1, <3>2
  <2>2. OpenBefore(EndOf(f)) \subseteq OpenBefore(e)
    <3>1. \A c : IsOpen(scc, c) => scc.is_open_[c] \in 1 .. m
      BY <1>1, SearchFacts
    <3> QED BY <2>1, <3>1 DEF OpenBefore, IsOpen
  <2>3. CASE o \in stack[f].handle .. EndOf(f) - 1
    <3>1. i \in 1 .. DoneWith(f, o) \/ (IsEdge(item) /\ item.to = Top.node)
      BY <1>2, <1>3, <2>1, ReturnItems
    <3>2. CASE i \in 1 .. DoneWith(f, o)
      <4>1. Settled(item, DOMAIN known \cup OpenBefore(EndOf(f)), DOMAIN outcomes)
        BY <1>1, <1>9, <2>3, <3>2 DEF ItemsSettled
      <4> HIDE DEF item
      <4>2. Settled(item, DOMAIN known \cup OpenBefore(e), DOMAIN outcomes)
        BY <2>2, <4>1, SettledMore
      <4> QED BY <4>2 DEF item
    <3>3. CASE i \notin 1 .. DoneWith(f, o)
      <4>1. IsEdge(item) /\ item.to = Top.node
        BY <3>1, <3>3
      <4>2. f = n - 1
        <5>1. f # n - 1 => DoneWith(f, o)' = DoneWith(f, o)
          <6>1. f # n - 1 => ItemsDone(f)' = ItemsDone(f)
            BY <1>2, <1>3, ReturnDone
          <6> QED BY <1>2, <1>4, <6>1 DEF DoneWith
        <5> QED BY <3>3, <5>1
      <4>3. Top.node \in OpenBefore(e)
        <5>1. e = m + 1
          BY <1>9, <1>11, <4>2
        <5>2. Top.handle < e
          BY <1>4, <5>1
        <5> QED BY <1>5, <5>2 DEF OpenBefore, IsOpen
      <4> QED BY <4>1, <4>3 DEF Settled, IsEdge
    <3> QED BY <3>2, <3>3
  <2>4. CASE o \notin stack[f].handle .. EndOf(f) - 1
    <3>1. DoneWith(f, o)' = Len(plan[scc.open_[o]].items)
      BY <1>2, <1>4, <2>1, <2>4 DEF DoneWith
    <3> QED BY <1>7, <2>1, <2>4, <3>1
  <2> QED BY <2>3, <2>4
<1>12. ItemsSettled'
  <2>1. \A f \in 1 .. n - 1 : \A o \in stack[f].handle .. EndOf(f)' - 1 :
          \A i \in 1 .. DoneWith(f, o)' :
            Settled(plan[scc.open_[o]].items[i], DOMAIN known \cup OpenBefore(EndOf(f)'),
                    DOMAIN outcomes)
    BY <1>11
  <2>2. \A f \in 1 .. n - 1 : OpenBefore(EndOf(f))' = OpenBefore(EndOf(f)')
    BY <1>2 DEF OpenBefore
  <2>3. \A c \in DOMAIN known : \A i \in 1 .. Len(plan[c].items) :
          Settled(plan[c].items[i], DOMAIN known, DOMAIN outcomes)
    BY <1>1 DEF ItemsSettled
  <2> QED BY <1>2, <1>4, <2>1, <2>2, <2>3 DEF ItemsSettled
<1>13. OutcomesRight'
  BY <1>1, <1>2, OutcomesKept
<1> QED BY <1>8, <1>12, <1>13 DEF RecordsInv

\* Every open comparison is in the part of some call.
LEMMA PartOf ==
  ASSUME IInv, P!IInv, NEW o \in 1 .. Len(scc.open_)
  PROVE  \E f \in 1 .. Len(stack) : o \in stack[f].handle .. EndOf(f) - 1
<1> DEFINE n == Len(stack)
           m == Len(scc.open_)
           Part(f) == o \in stack[f].handle .. EndOf(f) - 1
           N == {k \in Nat : k \in 1 .. n /\ o < stack[k].handle => \E f \in 1 .. n : Part(f)}
<1>1. TypeOK /\ ProvisionalExact /\ stack \in Seq(Frame) /\ m \in Nat
  BY SearchFacts DEF IInv, TypeOK
<1>2. Running
  <2>1. scc.open_ # << >>
    OBVIOUS
  <2> QED BY <1>1, <2>1 DEF ProvisionalExact, Empty
<1>3. /\ n \in Nat \ {0}
      /\ \A f \in 1 .. n : stack[f].handle \in 1 .. m
      /\ \A f, g \in 1 .. n : f < g => stack[f].handle < stack[g].handle
  BY <1>1, <1>2, SearchFacts, TopCall
<1>4. stack[1].handle = 1
  <2>1. scc.root_index_ # << >> /\ scc.root_index_[1] = 1
    <3>1. scc.open_ # << >>
      OBVIOUS
    <3> QED BY <3>1 DEF P!IInv, P!FinderConsistent, P!open_, P!root_index_
  <2>2. 1 \in 1 .. Len(scc.root_index_)
    BY <1>1, <1>2, <2>1, InnermostFacts
  <2>3. PICK f \in 1 .. Len(CallsOf(stack)) : CallsOf(stack)[f].handle = scc.root_index_[1]
    BY <2>2 DEF P!IInv, P!HandlesValid, P!root_index_
  <2>4. f \in 1 .. n /\ stack[f].handle = 1
    BY <1>1, <2>1, <2>3, CallsElements
  <2>5. 1 \in 1 .. n /\ (f = 1 \/ 1 < f)
    BY <1>3, <2>4
  <2>6. stack[1].handle \in 1 .. m
    BY <1>3, <2>5
  <2> QED BY <1>3, <2>4, <2>5, <2>6
<1>5. 0 \in N
  OBVIOUS
<1>6. ASSUME NEW k \in Nat, k \in N PROVE k + 1 \in N
  <2> SUFFICES ASSUME k + 1 \in 1 .. n, o < stack[k + 1].handle PROVE \E f \in 1 .. n : Part(f)
    OBVIOUS
  <2>1. k # 0
    BY <1>4
  <2>2. k \in 1 .. n /\ k < n
    BY <2>1
  <2>3. CASE o < stack[k].handle
    BY <1>6, <2>2, <2>3
  <2>4. CASE ~(o < stack[k].handle)
    <3>1. EndOf(k) = stack[k + 1].handle
      BY <2>2 DEF EndOf
    <3>2. stack[k].handle \in 1 .. m /\ stack[k + 1].handle \in 1 .. m
      BY <1>3, <2>2
    <3>3. Part(k)
      BY <2>4, <3>1, <3>2
    <3> HIDE DEF Part
    <3> QED BY <2>2, <3>3
  <2> QED BY <2>3, <2>4
<1>7. n \in N
  <2> HIDE DEF N
  <2>1. Nat \subseteq N
    BY <1>5, <1>6, NatSet
  <2> QED BY <1>3, <2>1
<1>8. CASE o < stack[n].handle
  <2> HIDE DEF Part
  <2>1. \E f \in 1 .. n : Part(f)
    BY <1>3, <1>7, <1>8
  <2> QED BY <2>1 DEF Part
<1>9. CASE ~(o < stack[n].handle)
  <2>1. n \in 1 .. n /\ EndOf(n) = m + 1
    BY <1>3 DEF EndOf
  <2>2. stack[n].handle \in 1 .. m
    BY <1>3, <2>1
  <2>3. Part(n)
    BY <1>1, <1>9, <2>1, <2>2
  <2> HIDE DEF Part
  <2>4. \E f \in 1 .. n : Part(f)
    BY <2>1, <2>3
  <2> QED BY <2>4 DEF Part
<1> QED BY <1>8, <1>9

\* No comparison in a component that is closed leads to one left open.
LEMMA ComponentLeads ==
  ASSUME IInv, P!IInv, Finished, IsRoot(scc, Top.handle), NEW S, S = ClosedNodes(scc, Top.handle)
  PROVE  \A c \in S : \A i \in 1 .. Len(plan[c].items) :
           IsEdge(plan[c].items[i]) => plan[c].items[i].to \in DOMAIN known \cup S
<1>1. TypeOK /\ Running /\ plan \in [Comparison -> Plan] /\ S \subseteq Comparison
  BY ComponentVerdict DEF IInv, Finished, TypeOK
<1>2. P!Finished /\ P!Top.handle = Top.handle /\ P!IsRoot(scc, P!Top.handle)
  BY <1>1, FinishedFacts, TopCall DEF IsRoot, P!IsRoot
<1>3. S = P!ClosedNodes(scc, P!Top.handle)
  BY <1>2, SameFinder
<1>4. \A c \in S : P!Succ(GraphOf(plan), c) \subseteq S \cup DOMAIN known
  BY <1>2, <1>3, P!LastSegmentIsComponent
<1> SUFFICES ASSUME NEW c \in S, NEW i \in 1 .. Len(plan[c].items), IsEdge(plan[c].items[i])
             PROVE  plan[c].items[i].to \in DOMAIN known \cup S
  OBVIOUS
<1> DEFINE item == plan[c].items[i]
<1>5. item.to = GraphOf(plan)[c][i] /\ i \in 1 .. Len(GraphOf(plan)[c])
  BY <1>1, GraphItems
<1> HIDE DEF item
<1>6. item.to \in P!Succ(GraphOf(plan), c)
  BY <1>5 DEF P!Succ
<1> QED BY <1>4, <1>6 DEF item

\* What is decided when a component is closed says nothing of comparisons settled by
\* others before.
LEMMA SameRecorded ==
  ASSUME NEW item, NEW C, NEW O, NEW E, NEW F, NEW S, Settled(item, C, O),
         C \cap S = {}, E \subseteq F, F \subseteq E \cup S
  PROVE  Recorded(item, E) <=> Recorded(item, F)
BY DEF Settled, Recorded

\* The comparisons of a component, and what they lead to, have their outcomes or need
\* none once it is closed.
LEMMA CloseSCCOutcomes ==
  ASSUME IInv, P!IInv, RecordsInv, OutcomesRight, CloseSCC
  PROVE  RecordsInv' /\ OutcomesRight'
<1> DEFINE n == Len(stack)
           m == Len(scc.open_)
           H == Top.handle
           S == ClosedNodes(scc, H)
           result == IF Top.equals THEN [equals |-> TRUE, edge |-> NoEdge]
                                   ELSE [equals |-> FALSE, edge |-> Top.node]
           E == {d \in Comparison : Equal(plan, d)}
<1>1. /\ TypeOK /\ stack \in Seq(Frame) /\ DOMAIN known \subseteq Comparison
      /\ known \in [DOMAIN known -> BOOLEAN]
      /\ DiffsSoFar /\ ItemsSettled /\ ProvisionalExact /\ VerdictsCorrect
      /\ plan \in [Comparison -> Plan]
  BY DEF IInv, TypeOK, RecordsInv
<1>2. /\ Finished /\ Running /\ IsRoot(scc, H) /\ Return(result)
      /\ S \subseteq DOMAIN Provided
      /\ outcomes' = IF Top.equals THEN outcomes
                     ELSE Inserted(outcomes, [c \in S |-> Provided[c]])
      /\ provisional' = [c \in DOMAIN Provided \ S |-> Provided[c]]
      /\ plan' = plan
  BY DEF CloseSCC, Finished
<1>3. /\ result \in CallResult
      /\ Len(stack') = n - 1
      /\ \A f \in 1 .. n - 1 : stack'[f].node = stack[f].node /\ stack'[f].handle = stack[f].handle
      /\ n \in Nat \ {0} /\ m \in Nat
      /\ H \in 1 .. m /\ scc.open_[H] = Top.node
      /\ Top.equals \in BOOLEAN /\ Top.node \in Comparison
      /\ S \subseteq Comparison /\ S \subseteq DOMAIN scc.is_open_
      /\ S = {scc.open_[o] : o \in H .. m}
      /\ Top.node \in S
      /\ \A c \in S : Equal(plan, c) <=> Top.equals
      /\ \A c \in S : c \notin DOMAIN known
      /\ DOMAIN known' = DOMAIN known \cup S
      /\ \A c \in DOMAIN known : known'[c] = known[c]
      /\ \A c \in S : known'[c] = Top.equals
      /\ Len(scc'.open_) = H - 1
      /\ \A o \in 1 .. H - 1 : scc'.open_[o] = scc.open_[o]
      /\ DOMAIN scc'.is_open_ = DOMAIN scc.is_open_ \ S
      /\ \A c \in DOMAIN scc.is_open_ \ S : scc'.is_open_[c] = scc.is_open_[c]
      /\ \A c \in DOMAIN scc.is_open_ :
           scc.is_open_[c] \in 1 .. m /\ (scc.is_open_[c] < H <=> c \notin S)
      /\ \A f \in 1 .. n - 1 :
           /\ f \in 1 .. n /\ f < n /\ EndOf(f) <= H
           /\ EndOf(f)' = EndOf(f) /\ stack[f].handle < H
           /\ stack[f].handle \in 1 .. m /\ EndOf(f) \in 1 .. m + 1
  BY CloseSCCFacts
<1>4. /\ \A o \in H .. m : \A i \in 1 .. Len(plan[scc.open_[o]].items) :
           Settled(plan[scc.open_[o]].items[i], DOMAIN known \cup OpenBefore(m + 1), DOMAIN outcomes)
      /\ DOMAIN Provided = DOMAIN provisional \cup {Top.node}
      /\ \A c \in DOMAIN Provided :
           Provided[c] = DiffAfter(plan, c, Len(plan[c].items), KnownEqual)
  BY <1>2, FinishedRecords
<1>5. \A c \in S : \A i \in 1 .. Len(plan[c].items) :
        IsEdge(plan[c].items[i]) => plan[c].items[i].to \in DOMAIN known \cup S
  BY <1>2, ComponentLeads
<1>6. result.edge = IF Top.equals THEN NoEdge ELSE Top.node
  OBVIOUS
<1> HIDE DEF S, result, E, H
<1>7. /\ KnownEqual \subseteq KnownEqual' /\ KnownEqual' \subseteq KnownEqual \cup S
      /\ Top.node \in KnownEqual' <=> Top.equals
  BY <1>3 DEF KnownEqual
\* What is left open was opened before.
<1>8. ASSUME NEW f \in 1 .. n - 1
      PROVE  /\ (DOMAIN known \cup OpenBefore(EndOf(f))) \cap S = {}
             /\ OpenBefore(EndOf(f)) = OpenBefore(EndOf(f))'
  <2>1. \A c \in OpenBefore(EndOf(f)) :
          c \in DOMAIN scc.is_open_ /\ scc.is_open_[c] < EndOf(f) /\ scc.is_open_[c] < H
    BY <1>3 DEF OpenBefore
  <2>2. \A c \in OpenBefore(EndOf(f)) : c \notin S
    BY <1>3, <2>1
  <2>3. \A c \in DOMAIN scc'.is_open_ :
          c \in DOMAIN scc.is_open_ /\ c \notin S /\ scc'.is_open_[c] = scc.is_open_[c]
    BY <1>3
  <2>4. OpenBefore(EndOf(f))' = {c \in DOMAIN scc'.is_open_ : scc'.is_open_[c] < EndOf(f)}
    BY <1>3 DEF OpenBefore
  <2>5. OpenBefore(EndOf(f)) \subseteq OpenBefore(EndOf(f))'
    BY <1>3, <2>1, <2>2, <2>4
  <2>6. OpenBefore(EndOf(f))' \subseteq OpenBefore(EndOf(f))
    BY <2>3, <2>4 DEF OpenBefore
  <2> QED BY <1>3, <2>2, <2>5, <2>6
<1>9. ASSUME NEW f \in 1 .. n - 1, NEW o \in stack[f].handle .. EndOf(f) - 1,
             NEW i \in 1 .. DoneWith(f, o)
      PROVE  Recorded(plan[scc.open_[o]].items[i], KnownEqual) <=>
               Recorded(plan[scc.open_[o]].items[i], KnownEqual')
  <2> DEFINE item == plan[scc.open_[o]].items[i]
             C == DOMAIN known \cup OpenBefore(EndOf(f))
  <2>1. Settled(item, C, DOMAIN outcomes)
    BY <1>1, <1>3 DEF ItemsSettled
  <2>2. C \cap S = {}
    BY <1>8
  <2> HIDE DEF item, C
  <2> DEFINE new == KnownEqual'
  <2>3. KnownEqual \subseteq new /\ new \subseteq KnownEqual \cup S
    BY <1>7
  <2> HIDE DEF new
  <2>4. Recorded(item, KnownEqual) <=> Recorded(item, new)
    BY <2>1, <2>2, <2>3, SameRecorded
  <2> QED BY <2>4 DEF item, new
<1>10. \A f \in 1 .. n - 1 :
         stack'[f].diff = DiffAfter(plan, stack'[f].node, ItemsDone(f)', KnownEqual')
  <2> DEFINE new == KnownEqual'
  <2>1. new = KnownEqual'
    OBVIOUS
  <2>2. result.edge = IF Top.node \in new THEN NoEdge ELSE Top.node
    BY <1>6, <1>7
  <2>3. ASSUME NEW f \in 1 .. n - 1, NEW i \in 1 .. ItemsDone(f)
        PROVE  Recorded(plan[stack[f].node].items[i], KnownEqual) <=>
                 Recorded(plan[stack[f].node].items[i], new)
    <3> DEFINE o == stack[f].handle
    <3>1. o \in stack[f].handle .. EndOf(f) - 1
      <4>1. EndOf(f) \in stack[f].handle + 1 .. m + 1 /\ stack[f].handle \in 1 .. m
        BY <1>1, <1>3, PartFacts
      <4> QED BY SMTT(30), <1>3, <4>1
    <3>2. DoneWith(f, o) = ItemsDone(f) /\ scc.open_[o] = stack[f].node
      BY <1>1, <1>3, PartFacts DEF DoneWith
    <3> HIDE DEF o
    <3> QED BY <1>9, <3>1, <3>2
  <2> HIDE DEF new
  <2> QED BY <1>1, <1>2, <1>3, <2>1, <2>2, <2>3, ReturnRecords
<1>11. ASSUME NEW c \in DOMAIN Provided, c \notin S
       PROVE  Provided[c] = DiffAfter(plan, c, Len(plan[c].items), KnownEqual')
  <2> DEFINE new == KnownEqual'
             items == plan[c].items
  <2>1. /\ c \in DOMAIN provisional /\ c \in DOMAIN scc.is_open_
        /\ \A f \in 1 .. n : c # stack[f].node
    BY <1>1, <1>3, <1>4, <1>11 DEF ProvisionalExact
  <2>2. PICK o \in 1 .. m : o = scc.is_open_[c] /\ scc.open_[o] = c /\ o < H
    BY <1>1, <1>3, <1>11, <2>1, SearchFacts DEF IsOpen
  <2>3. PICK f \in 1 .. n : o \in stack[f].handle .. EndOf(f) - 1
    BY PartOf
  <2>4. f \in 1 .. n - 1
    <3>1. stack[n].handle = H
      BY DEF H, Top
    <3>2. f # n
      BY <1>3, <2>2, <2>3, <3>1
    <3> QED BY <1>3, <3>2
  <2>5. DoneWith(f, o) = Len(items)
    <3>1. scc.open_[stack[f].handle] = stack[f].node
      BY <1>1, PartFacts
    <3>2. o # stack[f].handle
      BY <2>1, <2>2, <3>1
    <3> QED BY <2>2, <3>2 DEF DoneWith
  <2>6. \A i \in 1 .. Len(items) : Recorded(items[i], KnownEqual) <=> Recorded(items[i], new)
    BY <1>9, <2>2, <2>3, <2>4, <2>5
  <2> HIDE DEF new
  <2>7. DiffAfter(plan, c, Len(items), KnownEqual) = DiffAfter(plan, c, Len(items), new)
    BY <2>6, AfterSame
  <2> QED BY <1>4, <2>7 DEF new
<1>12. DiffsSoFar'
  <2>1. \A c \in DOMAIN provisional' :
          provisional'[c] = DiffAfter(plan', c, Len(plan'[c].items), KnownEqual')
    BY <1>2, <1>11
  <2>2. \A f \in 1 .. Len(stack') :
          stack'[f].diff = DiffAfter(plan', stack'[f].node, ItemsDone(f)', KnownEqual')
    BY <1>2, <1>3, <1>10
  <2> QED BY <2>1, <2>2 DEF DiffsSoFar
<1>13. DOMAIN outcomes \subseteq DOMAIN outcomes'
  BY <1>2 DEF Inserted
<1>14. ASSUME NEW f \in 1 .. n - 1, NEW o \in stack[f].handle .. EndOf(f) - 1,
              NEW i \in 1 .. DoneWith(f, o)'
       PROVE  Settled(plan[scc'.open_[o]].items[i], DOMAIN known' \cup OpenBefore(EndOf(f))',
                      DOMAIN outcomes')
  <2> DEFINE item == plan[scc.open_[o]].items[i]
             C == DOMAIN known' \cup OpenBefore(EndOf(f))'
             D == DOMAIN known \cup OpenBefore(EndOf(f))
             O == DOMAIN outcomes'
  <2>1. o \in 1 .. m /\ o \in 1 .. H - 1 /\ scc'.open_[o] = scc.open_[o]
    <3>1. stack[f].handle \in 1 .. m /\ EndOf(f) \in 1 .. m + 1 /\ EndOf(f) <= H
      BY <1>3
    <3>2. o \in 1 .. m /\ o \in 1 .. H - 1
      BY SMTT(30), <1>3, <3>1
    <3> QED BY <1>3, <3>2
  <2>2. i \in 1 .. DoneWith(f, o) \/ (IsEdge(item) /\ item.to = Top.node)
    BY SMTT(30), <1>2, <1>3, <2>1, ReturnItems
  <2>3. D \subseteq C /\ DOMAIN outcomes \subseteq O /\ Top.node \in C
    BY <1>3, <1>8, <1>13
  <2>4. CASE i \in 1 .. DoneWith(f, o)
    <3>1. Settled(item, D, DOMAIN outcomes)
      BY <1>1, <1>3, <2>4 DEF ItemsSettled
    <3> HIDE DEF item, C, D, O
    <3>2. Settled(item, C, O)
      BY <2>3, <3>1, SettledMore
    <3> QED BY <2>1, <3>2 DEF item, C, O
  <2>5. CASE IsEdge(item) /\ item.to = Top.node
    <3> HIDE DEF item, C, D, O
    <3>1. Settled(item, C, O)
      BY <2>3, <2>5 DEF Settled, IsEdge
    <3> QED BY <2>1, <3>1 DEF item, C, O
  <2> QED BY <2>2, <2>4, <2>5
<1>15. ASSUME NEW c \in DOMAIN known', NEW i \in 1 .. Len(plan[c].items)
       PROVE  Settled(plan[c].items[i], DOMAIN known', DOMAIN outcomes')
  <2> DEFINE item == plan[c].items[i]
             C == DOMAIN known'
             O == DOMAIN outcomes'
  <2>1. DOMAIN known \subseteq C /\ S \subseteq C /\ DOMAIN outcomes \subseteq O
    BY <1>3, <1>13
  <2>2. CASE c \in DOMAIN known
    <3>1. Settled(item, DOMAIN known, DOMAIN outcomes)
      BY <1>1, <2>2 DEF ItemsSettled
    <3> HIDE DEF item, C, O
    <3>2. Settled(item, C, O)
      BY <2>1, <3>1, SettledMore
    <3> QED BY <3>2 DEF item, C, O
  <2>3. CASE c \in S
    <3>1. PICK o \in H .. m : c = scc.open_[o]
      BY <1>3, <2>3
    <3>2. Settled(item, DOMAIN known \cup OpenBefore(m + 1), DOMAIN outcomes)
      BY <1>4, <3>1
    <3>3. IsEdge(item) => item.to \in DOMAIN known \cup S
      BY <1>5, <2>3
    <3> HIDE DEF item, C, O
    <3>4. Settled(item, C, O)
      BY <2>1, <3>2, <3>3 DEF Settled
    <3> QED BY <3>4 DEF item, C, O
  <2> QED BY <1>3, <2>2, <2>3
<1>16. ItemsSettled'
  <2>1. \A f \in 1 .. Len(stack') : \A o \in stack'[f].handle .. EndOf(f)' - 1 :
          \A i \in 1 .. DoneWith(f, o)' :
            Settled(plan'[scc'.open_[o]].items[i], DOMAIN known' \cup OpenBefore(EndOf(f))',
                    DOMAIN outcomes')
    BY <1>2, <1>3, <1>14
  <2>2. \A c \in DOMAIN known' : \A i \in 1 .. Len(plan'[c].items) :
          Settled(plan'[c].items[i], DOMAIN known', DOMAIN outcomes')
    BY <1>2, <1>15
  <2> QED BY <2>1, <2>2 DEF ItemsSettled
\* What is provisional for an unequal component is its outcome.
<1>17. ASSUME ~Top.equals, NEW c \in S PROVE Provided[c] = ExpectedDiff(plan, c)
  <2> DEFINE items == plan[c].items
  <2>1. Provided[c] = DiffAfter(plan, c, Len(items), KnownEqual)
    BY <1>2, <1>4
  <2>2. ASSUME NEW i \in 1 .. Len(items), IsEdge(items[i])
        PROVE  items[i].to \in KnownEqual <=> items[i].to \in E
    <3> DEFINE d == items[i].to
    <3>1. d \in DOMAIN known \cup S
      BY <1>5, <2>2
    <3> HIDE DEF d
    <3>2. d \in KnownEqual <=> d \in E
      <4>1. CASE d \in DOMAIN known
        BY <1>1, <4>1 DEF KnownEqual, E, VerdictsCorrect
      <4>2. CASE d \in S
        BY <1>3, <1>17, <4>2 DEF KnownEqual, E
      <4> QED BY <3>1, <4>1, <4>2
    <3> QED BY <3>2 DEF d
  <2>3. \A i \in 1 .. Len(items) : Recorded(items[i], KnownEqual) <=> Recorded(items[i], E)
    BY <2>2 DEF Recorded
  <2>4. DiffAfter(plan, c, Len(items), KnownEqual) = DiffAfter(plan, c, Len(items), E)
    BY <2>3, AfterSame
  <2> QED BY <2>1, <2>4 DEF ExpectedDiff, E
<1>18. OutcomesRight'
  <2>1. /\ \A c \in DOMAIN known : c \in DOMAIN outcomes <=> ~known[c]
        /\ \A c \in DOMAIN outcomes \cap Comparison :
             c \in DOMAIN known /\ outcomes[c] = ExpectedDiff(plan, c)
    BY DEF OutcomesRight
  <2>2. CASE Top.equals
    <3>1. outcomes' = outcomes /\ \A c \in S : c \notin DOMAIN outcomes /\ known'[c]
      BY <1>2, <1>3, <2>1, <2>2
    <3> QED BY ZenonT(40), <1>2, <1>3, <2>1, <3>1 DEF OutcomesRight
  <2>3. CASE ~Top.equals
    <3>1. /\ DOMAIN outcomes' = DOMAIN outcomes \cup S
          /\ \A c \in DOMAIN outcomes : outcomes'[c] = outcomes[c]
          /\ \A c \in S : c \notin DOMAIN outcomes => outcomes'[c] = Provided[c]
      BY <1>2, <2>3 DEF Inserted
    <3>2. \A c \in S : c \notin DOMAIN outcomes /\ ~known'[c]
      BY <1>3, <2>1, <2>3
    <3>3. ASSUME NEW c \in DOMAIN known' PROVE c \in DOMAIN outcomes' <=> ~known'[c]
      BY <1>1, <1>3, <2>1, <3>1, <3>2, <3>3
    <3>4. ASSUME NEW c \in DOMAIN outcomes' \cap Comparison
          PROVE  c \in DOMAIN known' /\ outcomes'[c] = ExpectedDiff(plan', c)
      <4>1. CASE c \in DOMAIN outcomes
        BY <1>2, <1>3, <2>1, <3>1, <4>1
      <4>2. CASE c \in S
        BY <1>2, <1>3, <1>17, <2>3, <3>1, <3>2, <4>2
      <4> QED BY <3>1, <4>1, <4>2
    <3> QED BY <3>3, <3>4 DEF OutcomesRight
  <2> QED BY <2>2, <2>3
<1> QED BY <1>12, <1>16, <1>18 DEF RecordsInv

--------------------------------------------------------------------------------
(***************************************************************************)
(* The outcomes.                                                           *)
(***************************************************************************)
LEMMA InitOutcomes == ASSUME Init PROVE RecordsInv /\ OutcomesRight
<1>1. /\ DOMAIN known = {} /\ DOMAIN outcomes = {} /\ DOMAIN provisional = {} /\ Len(stack) = 0
  BY EmptySeq DEF Init, Fresh, Nowhere
<1> QED BY <1>1 DEF RecordsInv, DiffsSoFar, ItemsSettled, OutcomesRight

\* Nothing the records are about changes when a stored result is handed out.
LEMMA SameOutcomes ==
  ASSUME RecordsInv, OutcomesRight, UNCHANGED <<plan, known, outcomes, provisional, scc, stack>>
  PROVE  RecordsInv' /\ OutcomesRight'
<1>1. KnownEqual' = KnownEqual /\ \A f : EndOf(f)' = EndOf(f)
  BY DEF KnownEqual, EndOf
<1>2. \A f : ItemsDone(f)' = ItemsDone(f)
  BY DEF ItemsDone
<1>3. \A f, o : DoneWith(f, o)' = DoneWith(f, o)
  BY <1>2 DEF DoneWith
<1>4. \A f : OpenBefore(EndOf(f))' = OpenBefore(EndOf(f))
  BY <1>1 DEF OpenBefore
<1>5. DiffsSoFar'
  BY <1>1, <1>2 DEF RecordsInv, DiffsSoFar
<1>6. ItemsSettled'
  <2>1. ItemsSettled
    BY DEF RecordsInv
  <2>2. \A f \in 1 .. Len(stack) : \A o \in stack[f].handle .. EndOf(f)' - 1 :
          \A i \in 1 .. DoneWith(f, o)' :
            Settled(plan[scc.open_[o]].items[i], DOMAIN known \cup OpenBefore(EndOf(f))',
                    DOMAIN outcomes)
    BY <1>1, <1>3, <1>4, <2>1 DEF ItemsSettled
  <2> QED BY <2>1, <2>2 DEF ItemsSettled
<1>7. OutcomesRight'
  BY DEF OutcomesRight
<1> QED BY <1>5, <1>6, <1>7 DEF RecordsInv

LEMMA StepOutcomes ==
  ASSUME IInv, P!IInv, RecordsInv, OutcomesRight, [Next]_vars PROVE RecordsInv' /\ OutcomesRight'
<1>1. CASE \E c \in Comparison : Start(c)
  BY <1>1, StartOutcomes
<1>2. CASE \E c \in Comparison : StartKnown(c)
  <2>1. UNCHANGED <<plan, known, outcomes, provisional, scc, stack>>
    BY <1>2 DEF StartKnown
  <2> QED BY <2>1, SameOutcomes
<1>3. CASE NodeDiff \/ Incomparable \/ RemovedOrAdded
  BY <1>3, SpotOutcomes
<1>4. CASE CompareKnown
  BY <1>4, KnownOutcomes
<1>5. CASE CompareOpen
  BY <1>5, OpenOutcomes
<1>6. CASE CompareNew
  BY <1>6, NewOutcomes
<1>7. CASE CloseSCC
  BY <1>7, CloseSCCOutcomes
<1>8. CASE CloseNothing
  BY <1>8, CloseNothingOutcomes
<1>9. CASE UNCHANGED vars
  BY <1>9, SameOutcomes DEF vars
<1> QED BY <1>1, <1>2, <1>3, <1>4, <1>5, <1>6, <1>7, <1>8, <1>9 DEF Next, Step

\* The edges of an outcome lead to outcomes: what they lead to is closed, and unequal, or
\* there from the start.
LEMMA EdgesLead ==
  ASSUME IInv, RecordsInv, OutcomesRight PROVE OutcomesExact
<1>1. /\ TypeOK /\ VerdictsCorrect /\ ItemsSettled /\ DOMAIN known \subseteq Comparison
      /\ plan \in [Comparison -> Plan]
  BY DEF IInv, TypeOK, RecordsInv
<1>2. /\ \A c \in DOMAIN known : c \in DOMAIN outcomes <=> ~known[c]
      /\ \A c \in DOMAIN outcomes \cap Comparison :
           c \in DOMAIN known /\ outcomes[c] = ExpectedDiff(plan, c)
  BY DEF OutcomesRight
<1>3. ASSUME NEW c \in DOMAIN outcomes \cap Comparison, NEW k \in 1 .. Len(outcomes[c].details)
      PROVE  outcomes[c].details[k] \in DOMAIN outcomes \cup {NoEdge}
  <2> DEFINE items == plan[c].items
             l == Len(items)
             E == {d \in Comparison : Equal(plan, d)}
             T == {i \in 1 .. l : Recorded(items[i], E)}
             i == Nth(T, k)
             item == items[i]
  <2>1. outcomes[c].details = DetailsAt(items, T)
    <3>1. DiffAfter(plan, c, l, E).details = DetailsAt(items, T)
      <4> DEFINE changed == \E j \in 1 .. l : items[j].kind \in {"node diff", "incomparable"}
      <4>1. DiffAfter(plan, c, l, E) =
              [holds_changes |-> plan[c].holds, has_changes |-> changed,
               details |-> DetailsAt(items, T)]
        BY DEF DiffAfter
      <4> HIDE DEF changed, items, l, T
      <4> QED BY <4>1
    <3>2. outcomes[c] = ExpectedDiff(plan, c)
      BY <1>2
    <3>3. ExpectedDiff(plan, c) = DiffAfter(plan, c, l, E)
      BY Zenon DEF ExpectedDiff
    <3> HIDE DEF items, l, T, E
    <3> QED BY <3>1, <3>2, <3>3
  <2>2. l \in Nat
    BY <1>1, PlanItems
  <2> HIDE DEF l
  <2>3. T \in SUBSET (1 .. l)
    OBVIOUS
  <2> HIDE DEF T
  <2>4. /\ Len(DetailsAt(items, T)) = Cardinality(T)
        /\ \A j \in 1 .. Cardinality(T) : DetailsAt(items, T)[j] = DetailOf(items[Nth(T, j)])
        /\ \A j \in 1 .. Cardinality(T) : Nth(T, j) \in T
    BY <2>2, <2>3, DetailsElements
  <2>5. k \in 1 .. Cardinality(T)
    BY <2>1, <2>4
  <2>6. outcomes[c].details[k] = DetailOf(item) /\ i \in T
    BY <2>1, <2>4, <2>5
  <2>7. Recorded(item, E) /\ i \in 1 .. Len(items)
    BY <2>6 DEF T, l
  <2>8. Settled(item, DOMAIN known, DOMAIN outcomes)
    BY <1>1, <1>2, <2>7 DEF ItemsSettled
  <2>9. items[i] \in Item
    BY <1>1, <2>7, PlanItems
  <2> HIDE DEF item, items, i
  <2>10. item \in Item
    BY <2>9 DEF item
  <2>11. CASE item.kind = "node diff"
    BY Zenon, <2>6, <2>11 DEF DetailOf
  <2>12. CASE item.kind = "one-sided"
    <3>1. DetailOf(item) = item.to
      BY <2>12 DEF DetailOf
    <3> QED BY <2>6, <2>8, <2>12, <3>1 DEF Settled
  <2>13. CASE item.kind = "compare"
    <3>1. DetailOf(item) = item.to /\ IsEdge(item)
      BY <2>13 DEF DetailOf, IsEdge
    <3>2. item.to \in DOMAIN known /\ item.to \notin E
      BY <2>7, <2>8, <3>1 DEF Settled, Recorded
    <3>3. ~known[item.to]
      BY <1>1, <3>2 DEF VerdictsCorrect
    <3> QED BY <1>2, <2>6, <3>1, <3>2, <3>3
  <2>14. item.kind \in {"node diff", "incomparable", "one-sided", "compare"}
    BY Zenon, <2>10 DEF Item
  <2>15. item.kind # "incomparable"
    BY <2>7 DEF Recorded
  <2> QED BY Zenon, <2>11, <2>12, <2>13, <2>14, <2>15
<1> QED BY <1>2, <1>3 DEF OutcomesExact

\* Every call records what it is done with, and what it is done with leads to what is
\* there: the inductive invariant that the outcomes rest on.
THEOREM RecordsInvariance == Spec => [](IInv /\ P!IInv /\ RecordsInv /\ OutcomesRight)
<1>1. Init => RecordsInv /\ OutcomesRight
  BY InitOutcomes
<1>2. IInv /\ P!IInv /\ RecordsInv /\ OutcomesRight /\ [Next]_vars =>
        (RecordsInv /\ OutcomesRight)'
  BY StepOutcomes
<1> QED BY <1>1, <1>2, Invariance, PTL DEF Spec

\* Differences recorded before it is known whether they will be needed are those of the
\* comparison's plan, with an edge for each comparison still open and none for one found
\* equal since (Compare of stg.cc).
THEOREM RecordsTheorem == Spec => []RecordsInv
BY RecordsInvariance, PTL

\* The outcomes are the difference graph: one for each unequal comparison, holding exactly
\* what its plan finds, no edge dangling or lost (Compare of stg.cc).
THEOREM OutcomesExactTheorem == Spec => []OutcomesExact
<1>1. IInv /\ RecordsInv /\ OutcomesRight => OutcomesExact
  BY EdgesLead
<1> QED BY <1>1, RecordsInvariance, PTL
================================================================================
