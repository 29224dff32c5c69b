---------------------------------- MODULE Order ----------------------------------
(***************************************************************************)
(* Reorder of order.h: put the result of matching two sequences into an    *)
(* order that respects both sequences as far as they are compatible, the   *)
(* first taking precedence.  Reorder splits the matches into two orderings *)
(* of their indices, merges the second into the first (ExtendOrder) and    *)
(* applies the merged ordering to the matches in place (Permute).          *)
(*                                                                         *)
(* Indices are 1-based here; pos counts the items before the next          *)
(* insertion point, exactly as in C++.                                     *)
(***************************************************************************)
EXTENDS OrderSpec, FiniteSets

CONSTANT Inputs  \* the sequences of matches Reorder may be called with

\* At least one position is present, and no two matches share one.
IsInput(s) ==
  /\ s \in Seq(Match)
  /\ \A i \in 1 .. Len(s) : s[i] # <<None, None>>
  /\ \A i, j \in 1 .. Len(s) : \A side \in {1, 2} :
       i # j /\ s[i][side] # None => s[i][side] # s[j][side]

ASSUME OrderAssumption == \A s \in Inputs : IsInput(s)

VARIABLES input,     \* history: the data Reorder was called with
          data,      \* the matches, permuted in place
          indexes1,  \* the first ordering; ExtendOrder extends it; Permute's permutation
          indexes2,  \* the second ordering
          pos,       \* ExtendOrder: items of indexes1 before the insertion point
          next,      \* ExtendOrder: the item of indexes2 to place next
          merged,    \* history: the permutation Permute was called with
          from, to,  \* Permute: the cycle being resolved and the position in it
          phase      \* what Reorder is doing

vars == <<input, data, indexes1, indexes2, pos, next, merged, from, to, phase>>

Size == Len(input)

\* The indices stay indices of the matches, and ExtendOrder's position and
\* Permute's cycle stay within the vectors.
TypeOK ==
  /\ IsInput(input) /\ data \in Seq(Match) /\ Len(data) = Size
  /\ indexes1 \in Seq(1 .. Size)
  /\ indexes2 \in Seq(1 .. Size)
  /\ pos \in 0 .. Len(indexes1)
  /\ next \in 1 .. Len(indexes2) + 1
  /\ merged \in Seq(1 .. Size)
  /\ from \in 1 .. Size + 1
  /\ to \in 1 .. Size + 1
  /\ phase \in {"split", "extend", "permute", "done"}

Init == /\ input \in Inputs
        /\ data = input
        /\ indexes1 = << >>
        /\ indexes2 = << >>
        /\ pos = 0
        /\ next = 1
        /\ merged = << >>
        /\ from = 1
        /\ to = 1
        /\ phase = "split"

--------------------------------------------------------------------------------
(***************************************************************************)
(* Reorder: the indices of the matches with a position on one side, by     *)
(* that position.                                                          *)
(***************************************************************************)
Placed(matches, side) == {i \in 1 .. Len(matches) : matches[i][side] # None}

SortedBy(matches, side, s) ==
  /\ \A k, l \in 1 .. Len(s) : k < l => matches[s[k]][side] < matches[s[l]][side]
  /\ {s[k] : k \in 1 .. Len(s)} = Placed(matches, side)

Split ==
  /\ phase = "split"
  /\ \A i \in 1 .. Size : data[i] # <<None, None>>  \* Check: no positions
  /\ \E s \in [1 .. Cardinality(Placed(data, 1)) -> Placed(data, 1)] :
       SortedBy(data, 1, s) /\ indexes1' = s
  /\ \E s \in [1 .. Cardinality(Placed(data, 2)) -> Placed(data, 2)] :
       SortedBy(data, 2, s) /\ indexes2' = s
  /\ phase' = "extend"
  /\ UNCHANGED <<input, data, pos, next, merged, from, to>>

--------------------------------------------------------------------------------
(***************************************************************************)
(* ExtendOrder.                                                            *)
(***************************************************************************)
Extending == phase = "extend" /\ next <= Len(indexes2)

\* Mutant: only the places after the insertion point are searched.
FoundLater(value) == {k \in pos + 1 .. Len(indexes1) : indexes1[k] = value}

Found(value) == {k \in 1 .. Len(indexes1) : indexes1[k] = value}

\* Mutant: the insertion point stays before the inserted value.
SamePlace == pos

AfterInserted == pos + 1

\* A new value goes to the first possible place.
Insert ==
  /\ Extending
  /\ Found(indexes2[next]) = {}
  /\ indexes1' = SubSeq(indexes1, 1, pos) \o <<indexes2[next]>>
                   \o SubSeq(indexes1, pos + 1, Len(indexes1))
  /\ pos' = AfterInserted
  /\ next' = next + 1
  /\ UNCHANGED <<input, data, indexes2, merged, from, to, phase>>

\* Mutant: every value found constrains the next one.
AnyConstraint(k) == TRUE

\* A value found at k can be used if that does not move the insertion point back.
SafeConstraint(k) == pos <= k - 1

UseConstraint ==
  /\ Extending
  /\ \E k \in Found(indexes2[next]) : SafeConstraint(k) /\ pos' = k
  /\ next' = next + 1
  /\ UNCHANGED <<input, data, indexes1, indexes2, merged, from, to, phase>>

DropConstraint ==
  /\ Extending
  /\ \E k \in Found(indexes2[next]) : ~SafeConstraint(k)
  /\ next' = next + 1
  /\ UNCHANGED <<input, data, indexes1, indexes2, pos, merged, from, to, phase>>

Extended ==
  /\ phase = "extend"
  /\ next > Len(indexes2)
  /\ Len(indexes1) = Size  \* Check: bad Permute vectors
  /\ merged' = indexes1
  /\ phase' = "permute"
  /\ UNCHANGED <<input, data, indexes1, indexes2, pos, next, from, to>>

--------------------------------------------------------------------------------
(***************************************************************************)
(* Permute: data[i] <- data[permutation[i]], one cycle after another.      *)
(***************************************************************************)
Permuting == phase = "permute" /\ from <= Size

Swapped(s, i, j) == [s EXCEPT ![i] = s[j], ![j] = s[i]]

\* swap(data[to], data[permutation[to]]) then swap(to, permutation[to]).
FollowCycle ==
  /\ Permuting
  /\ indexes1[to] # from
  /\ indexes1[to] <= Size  \* Check: bad Permute index
  /\ data' = Swapped(data, to, indexes1[to])
  /\ to' = indexes1[to]
  /\ indexes1' = [indexes1 EXCEPT ![to] = to]
  /\ UNCHANGED <<input, indexes2, pos, next, merged, from, phase>>

\* Mutant: the last position of the cycle keeps its permutation entry.
CycleUnfixed == indexes1

CycleFixed == [indexes1 EXCEPT ![to] = to]

EndCycle ==
  /\ Permuting
  /\ indexes1[to] = from
  /\ indexes1' = CycleFixed
  /\ from' = from + 1
  /\ to' = from + 1
  /\ UNCHANGED <<input, data, indexes2, pos, next, merged, phase>>

Permuted ==
  /\ phase = "permute"
  /\ from > Size
  /\ phase' = "done"
  /\ UNCHANGED <<input, data, indexes1, indexes2, pos, next, merged, from, to>>

Terminated == phase = "done" /\ UNCHANGED vars

Next == \/ Split
        \/ Insert
        \/ UseConstraint
        \/ DropConstraint
        \/ Extended
        \/ FollowCycle
        \/ EndCycle
        \/ Permuted
        \/ Terminated

Spec == Init /\ [][Next]_vars

FairSpec == Spec /\ WF_vars(Next)

--------------------------------------------------------------------------------
(***************************************************************************)
(* Correctness.                                                            *)
(***************************************************************************)
Item(i) == input[i]
PlaceOf(i) == Place(input, Item(i))

\* The matches of the second sequence only, up to that one, are placed.
PlacesFound(s, n) ==
  \A k \in 1 .. n : Item(s[k])[1] = None =>
    Furthest(PlaceOf(s[k]), Anchors(input, Item(s[k])))

InOrder(s) == \A k, l \in 1 .. Len(s) : k < l => Before(input, Item(s[k]), Item(s[l]))

\* Reorder works on what it was given until it has an order.
StartSound ==
  /\ phase \in {"split", "extend"} => data = input /\ from = 1 /\ to = 1
  /\ phase = "split" => pos = 0 /\ next = 1 /\ indexes2 = << >>
  /\ phase # "split" => SortedBy(input, 2, indexes2)

Anchored == {Item(indexes2[k])[1] + 1 :
               k \in {l \in 1 .. next - 1 : Item(indexes2[l])[1] # None}}

\* The place that the next item of the second sequence goes to.
Frontier == IF pos = 0 THEN 0 ELSE PlaceOf(indexes1[pos])

\* While ExtendOrder runs: it has the first sequence and what it has merged of the
\* second, in the order that Reorder promises.  The insertion point is after all
\* that goes to the furthest place of a common match so far, and before items of
\* the first sequence with places further on.
MergeSound ==
  phase = "extend" =>
    /\ {indexes1[k] : k \in 1 .. Len(indexes1)} =
         Placed(input, 1) \cup {indexes2[k] : k \in 1 .. next - 1}
    /\ InOrder(indexes1)
    /\ PlacesFound(indexes2, next - 1)
    /\ Furthest(Frontier, Anchored)
    /\ \A k \in pos + 1 .. Len(indexes1) :
         Item(indexes1[k])[1] # None /\ Frontier < PlaceOf(indexes1[k])

\* What has been merged is all there is, in the order that Reorder promises.
MergedSound ==
  phase \in {"permute", "done"} =>
    /\ Len(merged) = Size /\ Len(indexes1) = Size
    /\ {merged[k] : k \in 1 .. Size} = 1 .. Size
    /\ InOrder(merged)
    /\ PlacesFound(indexes2, Len(indexes2))

\* Where the item is that goes to position i: the position that closes the open
\* cycle takes the item now at to, every other one what the permutation says.
Source(i) == IF indexes1[i] = from /\ i # from THEN to ELSE indexes1[i]

\* While Permute runs, following the permutation from the current data gives
\* the data that was asked for, and no item is used twice.  Positions before from
\* have their items, and that at which a cycle is cut open has its own.
PermuteSound ==
  phase \in {"permute", "done"} =>
    /\ \A i \in 1 .. Size : Item(merged[i]) = data[Source(i)]
    /\ \A i, j \in 1 .. Size : Source(i) = Source(j) => i = j
    /\ \A i \in 1 .. from - 1 : indexes1[i] = i
    /\ to # from => /\ to \in 1 .. Size
                    /\ from \in 1 .. Size
                    /\ indexes1[from] = from
                    /\ \A i \in 1 .. Size : indexes1[i] # to
    /\ phase = "done" => from = Size + 1

\* What holds while Reorder works, and why its result is right.
IInv == TypeOK /\ StartSound /\ MergeSound /\ MergedSound /\ PermuteSound

\* Reorder returns its matches, each once, in that order and no other: nothing
\* is lost or duplicated, and the result does not depend on the order of the
\* input (which comes from sorting names).
ReorderExact ==
  phase = "done" =>
    /\ {data[i] : i \in 1 .. Size} = {input[i] : i \in 1 .. Size}
    /\ \A i, j \in 1 .. Size : i < j => Before(input, data[i], data[j])

\* The two sequences contradict each other only if some common items come in
\* different orders.  Unless they do, the result has both orders.
Compatible ==
  \A i, j \in Placed(input, 1) \cap Placed(input, 2) :
    input[i][1] < input[j][1] => input[i][2] < input[j][2]

BothOrdersKept ==
  phase = "done" /\ Compatible =>
    \A side \in {1, 2} : \A i, j \in Placed(data, side) :
      i < j => data[i][side] < data[j][side]

\* Reorder ends, whatever the cycles of the permutation.
Termination == <>(phase = "done")
================================================================================
