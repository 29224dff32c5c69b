--------------------------------- MODULE Compare ---------------------------------
(***************************************************************************)
(* Compare of stg.cc: the recursive comparison of two nodes of a type      *)
(* graph, with its memory of closed comparisons (known), the differences   *)
(* found (outcomes), the differences of comparisons still open             *)
(* (provisional) and the SCC finder that decides when a cycle of           *)
(* comparisons is complete.                                                *)
(*                                                                         *)
(* What each comparison looks at is its plan (see Differences); module     *)
(* TypeGraph derives the plans of a type graph.  The C++ recursion is a    *)
(* stack of frames.                                                        *)
(***************************************************************************)
EXTENDS SCC, Differences

CONSTANT Plans  \* the plans a State may be made for

ASSUME PlansAssumption == Plans \subseteq [Comparison -> Plan]

VARIABLES plan,         \* what every comparison looks at
          known,        \* closed comparisons: are the nodes equal?
          outcomes,     \* the differences of unequal comparisons
          provisional,  \* the differences of finished comparisons not closed yet
          scc,          \* the SCC finder
          stack,        \* active calls, innermost last
          returned,     \* the last top-level call and its result, if any
          sccs,         \* history: the sets of comparisons closed, in order
          examined      \* history: the comparisons opened, in order

vars == <<plan, known, outcomes, provisional, scc, stack, returned, sccs, examined>>

\* The result of a call: equality, and the edge to the comparison if there may
\* be a difference to describe.
CallResult == [equals : BOOLEAN, edge : Comparison \cup {NoEdge}]

\* An active call: the comparison, its SCC handle, the next item of its plan
\* and its Result so far.
Frame == [node : Comparison, handle : Nat \ {0}, next : Nat \ {0},
          equals : BOOLEAN, diff : Diff]

PartialDiffs(f, C) == DOMAIN f \subseteq C /\ f \in [DOMAIN f -> Diff]

\* What State and the active calls of Compare hold; verdicts and tentative
\* differences are about comparisons of two nodes, outcomes also about one.
TypeOK ==
  /\ plan \in [Comparison -> Plan]
  /\ DOMAIN known \subseteq Comparison /\ known \in [DOMAIN known -> BOOLEAN]
  /\ PartialDiffs(outcomes, Comparison \cup OneSided)
  /\ PartialDiffs(provisional, Comparison)
  /\ FinderOK(scc, Comparison)
  /\ stack \in Seq(Frame)
  /\ returned \in Seq(Comparison \X CallResult)
  /\ sccs \in Seq(SUBSET Comparison)
  /\ examined \in Seq(Comparison)

Nowhere == [c \in {} |-> EmptyDiff]

Fresh == /\ known = [c \in {} |-> TRUE]
         /\ outcomes = Nowhere
         /\ provisional = Nowhere
         /\ scc = NewFinder
         /\ stack = << >>
         /\ returned = << >>
         /\ sccs = << >>
         /\ examined = << >>

Init == plan \in Plans /\ Fresh

--------------------------------------------------------------------------------
(***************************************************************************)
(* Result, as in stg.h.                                                    *)
(***************************************************************************)
Top == stack[Len(stack)]

Running == stack # << >>

\* Mutant: the difference has no trace in the Diff.
MarkUnequal(frame) == [frame EXCEPT !.equals = FALSE]

MarkIncomparable(frame) ==
  [frame EXCEPT !.equals = FALSE, !.diff.has_changes = TRUE]

AddNodeDiff(frame) ==
  [frame EXCEPT !.equals = FALSE, !.diff.has_changes = TRUE,
                !.diff.details = Append(@, NoEdge)]

AddEdgeDiff(frame, edge) ==
  [frame EXCEPT !.equals = FALSE, !.diff.details = Append(@, edge)]

\* Mutant: the edge is recorded but the inequality is not.
LazyAddEdgeDiff(frame, result) ==
  [frame EXCEPT !.diff.details = IF result.edge = NoEdge THEN @
                                 ELSE Append(@, result.edge)]

\* Mutant: a tentative edge is not recorded.
CertainAddEdgeDiff(frame, result) ==
  [frame EXCEPT !.equals = @ /\ result.equals,
                !.diff.details = IF result.equals THEN @ ELSE Append(@, result.edge)]

MaybeAddEdgeDiff(frame, result) ==
  [frame EXCEPT !.equals = @ /\ result.equals,
                !.diff.details = IF result.edge = NoEdge THEN @
                                 ELSE Append(@, result.edge)]

\* Mutant: an equal comparison is still given an edge.
KnownResultWithEdge(c) == [equals |-> known[c], edge |-> c]

\* What a comparison already closed returns.
KnownResult(c) == IF known[c] THEN [equals |-> TRUE, edge |-> NoEdge]
                              ELSE [equals |-> FALSE, edge |-> c]

\* Mutant: the map is assigned instead of extended.
Replaced(f, new) == new

\* unordered_map::insert of a set of new entries: old entries stay.
Inserted(f, new) == [c \in DOMAIN f \cup DOMAIN new |->
                       IF c \in DOMAIN f THEN f[c] ELSE new[c]]

--------------------------------------------------------------------------------
(***************************************************************************)
(* Compare.                                                                *)
(***************************************************************************)
HasItem == Running /\ Top.next <= Len(plan[Top.node].items)

Current == plan[Top.node].items[Top.next]

At(kind) == HasItem /\ Current.kind = kind

\* Mutant: the comparison is made over and over.
Repeat(frame) == [stack EXCEPT ![Len(stack)] = frame]

\* The calls with the innermost one at its next item and updated to frame.
Proceed(frame) == [stack EXCEPT ![Len(stack)] = [frame EXCEPT !.next = @ + 1]]

\* A call for a comparison neither known nor open: it is opened.
Enter(c, callers) ==
  /\ scc' = OpenNew(scc, c)
  /\ stack' = Append(callers, [node |-> c, handle |-> NextIndex(scc), next |-> 1,
                               equals |-> TRUE,
                               diff |-> [EmptyDiff EXCEPT !.holds_changes = plan[c].holds]])
  /\ examined' = Append(examined, c)
  /\ UNCHANGED <<plan, known, outcomes, provisional, sccs>>

\* The top-level caller compares two nodes; it may do so repeatedly.
Start(c) == /\ ~Running
            /\ c \notin DOMAIN known
            /\ Enter(c, stack)
            /\ returned' = << >>

StartKnown(c) == /\ ~Running
                 /\ c \in DOMAIN known
                 /\ returned' = <<<<c, KnownResult(c)>>>>
                 /\ UNCHANGED <<plan, known, outcomes, provisional, scc, stack, sccs, examined>>

NodeDiff == /\ At("node diff")
            /\ stack' = Proceed(AddNodeDiff(Top))
            /\ UNCHANGED <<plan, known, outcomes, provisional, scc, returned, sccs, examined>>

Incomparable ==
  /\ At("incomparable")
  /\ stack' = Proceed(MarkIncomparable(Top))
  /\ UNCHANGED <<plan, known, outcomes, provisional, scc, returned, sccs, examined>>

\* Removed and Added record an empty difference and always make an edge.
RemovedOrAdded ==
  /\ At("one-sided")
  /\ outcomes' = Inserted(outcomes, [c \in {Current.to} |-> EmptyDiff])
  /\ stack' = Proceed(AddEdgeDiff(Top, Current.to))
  /\ UNCHANGED <<plan, known, provisional, scc, returned, sccs, examined>>

\* 1. The comparison is closed: its stored result is used.
CompareKnown ==
  /\ At("compare")
  /\ Current.to \in DOMAIN known
  /\ stack' = Proceed(MaybeAddEdgeDiff(Top, KnownResult(Current.to)))
  /\ UNCHANGED <<plan, known, outcomes, provisional, scc, returned, sccs, examined>>

\* Mutant: an open comparison is recognised without telling the finder.
CompareOpenUntold ==
  /\ At("compare")
  /\ Current.to \notin DOMAIN known
  /\ IsOpen(scc, Current.to)
  /\ stack' = Proceed(MaybeAddEdgeDiff(Top, [equals |-> TRUE, edge |-> Current.to]))
  /\ UNCHANGED <<plan, known, outcomes, provisional, scc, returned, sccs, examined>>

\* 2. The comparison is open: tentatively equal, with a tentative edge.
CompareOpen ==
  /\ At("compare")
  /\ Current.to \notin DOMAIN known
  /\ IsOpen(scc, Current.to)
  /\ scc' = OpenAgain(scc, Current.to)
  /\ stack' = Proceed(MaybeAddEdgeDiff(Top, [equals |-> TRUE, edge |-> Current.to]))
  /\ UNCHANGED <<plan, known, outcomes, provisional, returned, sccs, examined>>

\* 3. to 5. The comparison is new: it is examined.
CompareNew ==
  /\ At("compare")
  /\ Current.to \notin DOMAIN known
  /\ ~IsOpen(scc, Current.to)
  /\ Enter(Current.to, Proceed(Top))
  /\ UNCHANGED returned

\* A call returns: its result joins the caller's, or is the top-level result.
Return(result) ==
  LET callers == SubSeq(stack, 1, Len(stack) - 1)
      n       == Len(callers)
  IN  IF n = 0
      THEN stack' = callers /\ returned' = <<<<Top.node, result>>>>
      ELSE /\ stack' = [callers EXCEPT ![n] = MaybeAddEdgeDiff(callers[n], result)]
           /\ UNCHANGED returned

Finished == Running /\ ~HasItem

\* Mutant: the result is not made provisional.
NotProvided == provisional

\* 6. The result becomes provisional before Close is called.
Provided == Inserted(provisional, [c \in {Top.node} |-> Top.diff])

\* Every comparison of a closed SCC gets the result of its root.
CloseSCC ==
  /\ Finished
  /\ LegalHandle(scc, Top.handle)
  /\ IsRoot(scc, Top.handle)
  /\ LET comparisons == ClosedNodes(scc, Top.handle)
     IN  /\ comparisons \subseteq DOMAIN Provided  \* Check: missing provisional diffs
         /\ known' = Inserted(known, [c \in comparisons |-> Top.equals])
         /\ outcomes' = IF Top.equals THEN outcomes
                        ELSE Inserted(outcomes, [c \in comparisons |-> Provided[c]])
         /\ provisional' = [c \in DOMAIN Provided \ comparisons |-> Provided[c]]
         /\ sccs' = Append(sccs, comparisons)
  /\ scc' = CloseRoot(scc, Top.handle)
  /\ Return(IF Top.equals THEN [equals |-> TRUE, edge |-> NoEdge]
                          ELSE [equals |-> FALSE, edge |-> Top.node])
  /\ UNCHANGED <<plan, examined>>

\* The SCC is still open: both the equality and the edge are tentative.
CloseNothing ==
  /\ Finished
  /\ LegalHandle(scc, Top.handle)
  /\ ~IsRoot(scc, Top.handle)
  /\ provisional' = Provided
  /\ Return([equals |-> Top.equals, edge |-> Top.node])
  /\ UNCHANGED <<plan, known, outcomes, scc, sccs, examined>>

Step == \/ NodeDiff
        \/ Incomparable
        \/ RemovedOrAdded
        \/ CompareKnown
        \/ CompareOpen
        \/ CompareNew
        \/ CloseSCC
        \/ CloseNothing

Next == \/ \E c \in Comparison : Start(c) \/ StartKnown(c)
        \/ Step

Spec == Init /\ [][Next]_vars

\* One thread: a call that has begun runs on.
FairSpec == Spec /\ WF_vars(Next)

--------------------------------------------------------------------------------
(***************************************************************************)
(* Correctness, stated over the graph of comparisons the plans make.       *)
(***************************************************************************)
\* The active calls as those of a search that goes from item to item.
Call(frame) == [node |-> frame.node, handle |-> frame.handle, next |-> frame.next]

CallsOf(s) == [f \in 1 .. Len(s) |-> Call(s[f])]

Search == INSTANCE SCCSearch WITH
            Node    <- Comparison,
            Graphs  <- [Comparison -> Seq(Comparison)],
            graph   <- GraphOf(plan),
            visited <- DOMAIN known,
            stack   <- CallsOf(stack)

\* Every stored verdict, and every result at the top level, is right for the
\* whole graph, although a cycle is decided while parts of it are open.
VerdictsCorrect ==
  /\ \A c \in DOMAIN known : known[c] <=> Equal(plan, c)
  /\ \A i \in 1 .. Len(returned) :
       LET c == returned[i][1] IN
       returned[i][2] = [equals |-> Equal(plan, c), edge |-> IF Equal(plan, c) THEN NoEdge ELSE c]

\* The outcomes are those of the unequal comparisons, and the removed and added
\* nodes of comparisons examined.  The differences recorded for a comparison
\* are the ones its plan finds, and every edge leads to an outcome: no edge of
\* a tentative difference is left dangling or lost.
OutcomesExact ==
  /\ \A c \in DOMAIN known : c \in DOMAIN outcomes <=> ~known[c]
  /\ \A c \in DOMAIN outcomes \cap Comparison :
       /\ c \in DOMAIN known
       /\ outcomes[c] = ExpectedDiff(plan, c)
       /\ \A i \in 1 .. Len(outcomes[c].details) :
            outcomes[c].details[i] \in DOMAIN outcomes \cup {NoEdge}

\* A comparison has provisional differences exactly while it is open but its
\* call has returned: the Check on missing provisional diffs cannot fail, and
\* nothing provisional outlives its SCC.  Between top-level calls nothing is
\* open (the Check on the SCC state in stgdiff.cc).
ProvisionalExact ==
  /\ DOMAIN provisional =
       DOMAIN scc.is_open_ \ {stack[f].node : f \in 1 .. Len(stack)}
  /\ ~Running => Empty(scc)

(***************************************************************************)
(* Why the verdicts are right: the inductive invariant, given that Compare *)
(* is a search.                                                            *)
(***************************************************************************)

\* Where the comparisons end in open_ that were opened by call f and by the calls
\* it made before the one it waits for.
EndOf(f) == IF f < Len(stack) THEN stack[f + 1].handle ELSE Len(scc.open_) + 1

\* How many items of its own comparison call f is done with: not the one it waits for.
ItemsDone(f) == IF f < Len(stack) THEN stack[f].next - 2 ELSE stack[f].next - 1

\* And of the comparison at place o of open_, in the part of call f: all of them if
\* its call has returned.
DoneWith(f, o) ==
  IF o # stack[f].handle THEN Len(plan[scc.open_[o]].items) ELSE ItemsDone(f)

\* An item that gives no reason to find the nodes unequal yet: a comparison that was
\* equal, or is open and among those opened before place end.
NoReason(item, end) ==
  /\ IsEdge(item)
  /\ IF item.to \in DOMAIN known THEN known[item.to]
     ELSE IsOpen(scc, item.to) /\ scc.is_open_[item.to] < end

\* Equality is tentative: call f and those it made before the one it waits for have
\* found no reason against it.
EqualSoFar ==
  \A f \in 1 .. Len(stack) : stack[f].equals =>
    \A o \in stack[f].handle .. EndOf(f) - 1 : \A i \in 1 .. DoneWith(f, o) :
      NoReason(plan[scc.open_[o]].items[i], EndOf(f))

\* Inequality is not.
UnequalForGood == \A f \in 1 .. Len(stack) : stack[f].equals \/ ~Equal(plan, stack[f].node)

\* A call waits for the comparison that its last item asked for.
CallsAwaited ==
  \A f \in 1 .. Len(stack) :
    /\ stack[f].next - 1 \in 0 .. Len(plan[stack[f].node].items)
    /\ f < Len(stack) =>
         LET items == plan[stack[f].node].items
             i     == stack[f].next - 1
         IN  i # 0 /\ IsEdge(items[i]) /\ items[i].to = stack[f + 1].node

IInv == /\ TypeOK
        /\ EqualSoFar
        /\ UnequalForGood
        /\ CallsAwaited
        /\ VerdictsCorrect
        /\ ProvisionalExact

(***************************************************************************)
(* Why the outcomes are right: what is recorded before it is known whether *)
(* it will be needed.                                                      *)
(***************************************************************************)

KnownEqual == {c \in DOMAIN known : known[c]}

\* Every call has recorded what it is done with, and what is provisional is what a
\* whole plan leaves: an edge for a comparison still open, and none left from one
\* found equal in the meantime.
DiffsSoFar ==
  /\ \A f \in 1 .. Len(stack) :
       stack[f].diff = DiffAfter(plan, stack[f].node, ItemsDone(f), KnownEqual)
  /\ \A c \in DOMAIN provisional :
       provisional[c] = DiffAfter(plan, c, Len(plan[c].items), KnownEqual)

\* What an item leads to is there.
Settled(item, comparisons, oneSided) ==
  /\ IsEdge(item) => item.to \in comparisons
  /\ item.kind = "one-sided" => item.to \in oneSided

OpenBefore(end) == {c \in DOMAIN scc.is_open_ : scc.is_open_[c] < end}

\* What calls are done with leads to what is closed or was opened before they end,
\* and nothing leads out of what is closed.
ItemsSettled ==
  /\ \A f \in 1 .. Len(stack) :
       \A o \in stack[f].handle .. EndOf(f) - 1 : \A i \in 1 .. DoneWith(f, o) :
         Settled(plan[scc.open_[o]].items[i], DOMAIN known \cup OpenBefore(EndOf(f)),
                 DOMAIN outcomes)
  /\ \A c \in DOMAIN known : \A i \in 1 .. Len(plan[c].items) :
       Settled(plan[c].items[i], DOMAIN known, DOMAIN outcomes)

RecordsInv == DiffsSoFar /\ ItemsSettled

\* Verdicts and outcomes are final: later comparisons, in the same call or in
\* another, never change or drop one.
VerdictsFinal ==
  [][/\ \A c \in DOMAIN known : c \in DOMAIN known' /\ known'[c] = known[c]
     /\ \A c \in DOMAIN outcomes : c \in DOMAIN outcomes' /\ outcomes'[c] = outcomes[c]
    ]_vars

\* Compare is a search the SCC finder supports: it follows every edge and never
\* re-examines a comparison that has its SCC.
ImplementsSearch == Search!Spec

\* Every comparison ends.
Termination == Running ~> ~Running
================================================================================
