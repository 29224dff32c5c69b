------------------------------- MODULE OrderProofs -------------------------------
(***************************************************************************)
(* Proofs about Order, for every set of inputs.                            *)
(***************************************************************************)
EXTENDS Order, FiniteSetTheorems, SequenceTheorems, TLAPS

--------------------------------------------------------------------------------
(***************************************************************************)
(* Matches, places and their order.                                        *)
(***************************************************************************)

\* A match has a position of one sequence or the other.
LEMMA ItemProperties ==
  ASSUME IsInput(input), NEW i \in 1 .. Size
  PROVE  /\ Item(i) = <<Item(i)[1], Item(i)[2]>>
         /\ Item(i)[1] \in Nat \cup {None}
         /\ Item(i)[2] \in Nat \cup {None}
         /\ Item(i)[1] = None => Item(i)[2] \in Nat
<1>1. Item(i) \in Match
  BY ElementOfSeq DEF IsInput, Size, Item
<1> QED
  BY <1>1 DEF IsInput, Size, Item, Match

\* A match of the first sequence has its place there.
LEMMA PlaceFirst ==
  ASSUME NEW i, Item(i)[1] # None PROVE PlaceOf(i) = Item(i)[1] + 1
BY DEF PlaceOf, Place

\* The anchors of a match are places.
LEMMA AnchorsArePlaces ==
  ASSUME IsInput(input), NEW m PROVE Anchors(input, m) \subseteq Nat \ {0}
<1> SUFFICES ASSUME NEW j \in 1 .. Len(input), None \notin {input[j][1], input[j][2]}
             PROVE  input[j][1] + 1 \in Nat \ {0}
  BY DEF Anchors
<1> QED BY ItemProperties DEF Item, Size

\* There is one furthest place at most.
LEMMA FurthestUnique ==
  ASSUME NEW P \in SUBSET Nat, NEW p, NEW q, Furthest(p, P), Furthest(q, P)
  PROVE  p = q
BY DEF Furthest

\* What is furthest of its anchors is the place of a match that has no other.
LEMMA PlaceSecond ==
  ASSUME IsInput(input), NEW i, Item(i)[1] = None, NEW p,
         Furthest(p, Anchors(input, Item(i)))
  PROVE  PlaceOf(i) = p
<1> DEFINE A == Anchors(input, Item(i))
<1>1. PlaceOf(i) = CHOOSE q \in A \cup {0} : Furthest(q, A)
  BY DEF PlaceOf, Place
<1>2. p \in A \cup {0} /\ Furthest(p, A)
  BY DEF Furthest
<1>3. Furthest(PlaceOf(i), A)
  BY <1>1, <1>2, Zenon
<1>4. A \in SUBSET Nat
  BY AnchorsArePlaces
<1> QED BY <1>3, <1>4, FurthestUnique

\* Places are numbers.
LEMMA PlaceIsNat ==
  ASSUME IsInput(input), NEW i \in 1 .. Size,
         Item(i)[1] = None => Furthest(PlaceOf(i), Anchors(input, Item(i)))
  PROVE  /\ PlaceOf(i) \in Nat
         /\ Item(i)[1] # None => PlaceOf(i) \in Nat \ {0}
<1>1. CASE Item(i)[1] = None
  BY <1>1, AnchorsArePlaces DEF Furthest
<1>2. CASE Item(i)[1] # None
  BY <1>2, PlaceFirst, ItemProperties
<1> QED BY <1>1, <1>2

\* The parts of Before, for two of the matches.
LEMMA BeforeParts ==
  ASSUME NEW i, NEW j
  PROVE  Before(input, Item(i), Item(j)) <=>
           \/ PlaceOf(i) < PlaceOf(j)
           \/ PlaceOf(i) = PlaceOf(j) /\ Item(i)[1] # None /\ Item(j)[1] = None
           \/ /\ PlaceOf(i) = PlaceOf(j) /\ Item(i)[1] = None /\ Item(j)[1] = None
              /\ Item(i)[2] < Item(j)[2]
BY DEF Before, PlaceOf

--------------------------------------------------------------------------------
(***************************************************************************)
(* Permute.                                                                *)
(***************************************************************************)

\* Where the items are, after a step along a cycle.
LEMMA FollowCyclePreserves ==
  ASSUME IInv, FollowCycle PROVE IInv'
<1> USE DEF FollowCycle, Permuting, Size
<1> DEFINE p == indexes1
<1>1. /\ Len(p) = Size /\ p \in [1 .. Size -> 1 .. Size] /\ Size \in Nat
      /\ Len(data) = Size /\ data \in [1 .. Size -> Match]
      /\ from \in 1 .. Size /\ to \in 1 .. Size /\ p[to] \in 1 .. Size /\ p[to] # from
  <2>1. /\ Len(p) = Size /\ data \in Seq(Match) /\ Len(data) = Size
        /\ p \in Seq(1 .. Size)
    BY DEF IInv, TypeOK, MergedSound
  <2>2. /\ p \in [1 .. Size -> 1 .. Size] /\ Size \in Nat
        /\ data \in [1 .. Size -> Match]
    BY <2>1, LenProperties
  <2>3. from \in 1 .. Size /\ to \in 1 .. Size
    BY <2>2 DEF IInv, TypeOK, PermuteSound
  <2> QED BY <2>1, <2>2, <2>3
<1>2. /\ indexes1' \in Seq(1 .. Size) /\ Len(indexes1') = Size
      /\ \A i \in 1 .. Size : indexes1'[i] = IF i = to THEN to ELSE p[i]
  BY <1>1, ExceptSeq DEF IInv, TypeOK
<1>3. /\ data' \in Seq(Match) /\ Len(data') = Size
      /\ \A i \in 1 .. Size : data'[i] = IF i = p[to] THEN data[to]
                                          ELSE IF i = to THEN data[p[to]] ELSE data[i]
  <2> DEFINE d == [data EXCEPT ![to] = data[p[to]]]
  <2>1. /\ d \in Seq(Match) /\ Len(d) = Size
        /\ \A i \in 1 .. Size : d[i] = IF i = to THEN data[p[to]] ELSE data[i]
    BY <1>1, ExceptSeq DEF IInv, TypeOK
  <2>2. data' = [d EXCEPT ![p[to]] = data[to]]
    BY DEF Swapped
  <2> QED BY <1>1, <2>1, <2>2, ExceptSeq
<1>4. TypeOK'
  BY <1>1, <1>2, <1>3 DEF IInv, TypeOK
<1>5. PermuteSound'
  <2>1. /\ \A i \in 1 .. Size : Item(merged[i]) = data[Source(i)]
        /\ \A i, j \in 1 .. Size : Source(i) = Source(j) => i = j
        /\ \A i \in 1 .. from - 1 : p[i] = i
        /\ to # from => p[from] = from /\ \A i \in 1 .. Size : p[i] # to
    BY DEF IInv, PermuteSound
  <2>2. ASSUME NEW i \in 1 .. Size, i = to PROVE Source(i) = p[i] /\ Source(i)' = to
    BY <1>1, <1>2, <2>2 DEF Source
  <2>3. ASSUME NEW i \in 1 .. Size, i # to, p[i] = from, i # from
        PROVE  Source(i) = to /\ Source(i)' = p[to]
    BY <1>1, <1>2, <2>3 DEF Source
  <2>4. ASSUME NEW i \in 1 .. Size, i # to, ~(p[i] = from /\ i # from)
        PROVE  Source(i) = p[i] /\ Source(i)' = p[i] /\ p[i] # to /\ p[i] # p[to]
    <3>1. Source(i) = p[i] /\ Source(i)' = p[i]
      BY <1>1, <1>2, <2>4 DEF Source
    <3>2. p[i] # to
      BY <1>1, <2>1, <2>4
    <3> QED BY <1>1, <2>1, <2>2, <2>4, <3>1, <3>2
  <2>5. \A i \in 1 .. Size : (Item(merged[i]) = data[Source(i)])'
    <3> SUFFICES ASSUME NEW i \in 1 .. Size PROVE Item(merged[i]) = data'[Source(i)']
      BY DEF Item
    <3> Item(merged[i]) = data[Source(i)]
      BY <2>1
    <3>1. CASE i = to
      BY <1>1, <1>3, <2>2, <3>1
    <3>2. CASE i # to /\ p[i] = from /\ i # from
      BY <1>1, <1>3, <2>3, <3>2
    <3>3. CASE i # to /\ ~(p[i] = from /\ i # from)
      <4>1. p[i] \in 1 .. Size
        BY <1>1
      <4> QED BY <1>1, <1>3, <2>4, <3>3, <4>1
    <3> QED BY <3>1, <3>2, <3>3
  <2>6. ASSUME NEW i \in 1 .. Size, NEW j \in 1 .. Size, Source(i)' = Source(j)'
        PROVE  i = j
    <3>1. p[to] # to
      BY <1>1, <2>1
    <3>2. CASE i = to
      BY <2>2, <2>3, <2>4, <2>6, <3>1, <3>2
    <3>3. CASE j = to
      BY <2>2, <2>3, <2>4, <2>6, <3>1, <3>3
    <3>4. CASE i # to /\ j # to
      BY <2>1, <2>3, <2>4, <2>6, <3>4
    <3> QED BY <3>2, <3>3, <3>4
  <2>7. \A i \in 1 .. from - 1 : indexes1'[i] = i
    BY <1>1, <1>2, <2>1
  <2>8. /\ to' \in 1 .. Size /\ from \in 1 .. Size
        /\ indexes1'[from] = from
    BY <1>1, <1>2, <2>1
  <2>9. ASSUME NEW i \in 1 .. Size PROVE indexes1'[i] # to'
    <3>1. CASE i = to
      BY <1>1, <1>2, <2>1, <3>1
    <3>2. CASE i # to /\ p[i] = from
      BY <1>1, <1>2, <3>2
    <3>3. CASE i # to /\ p[i] # from
      BY <1>1, <1>2, <2>4, <3>3
    <3> QED BY <3>1, <3>2, <3>3
  <2> QED BY <1>1, <2>5, <2>6, <2>7, <2>8, <2>9 DEF PermuteSound
<1>6. StartSound' /\ MergeSound' /\ MergedSound'
  BY SMTT(30), <1>2 DEF IInv, StartSound, MergeSound, MergedSound, SortedBy, Placed, InOrder,
     PlacesFound, Item, PlaceOf
<1> QED BY <1>4, <1>5, <1>6 DEF IInv

\* Where the items are does not change when a cycle is closed.
LEMMA EndCyclePreserves ==
  ASSUME IInv, EndCycle PROVE IInv'
<1> USE DEF EndCycle, Permuting, Size, CycleFixed
<1> DEFINE p == indexes1
<1>1. /\ Len(p) = Size /\ p \in Seq(1 .. Size) /\ Size \in Nat
      /\ from \in 1 .. Size /\ to \in 1 .. Size /\ p[to] = from
  <2>1. /\ Len(p) = Size /\ p \in Seq(1 .. Size) /\ Len(data) = Size /\ data \in Seq(Match)
    BY DEF IInv, TypeOK, MergedSound
  <2>2. Size \in Nat
    BY <2>1, LenProperties
  <2>3. from \in 1 .. Size /\ to \in 1 .. Size
    BY <2>2 DEF IInv, TypeOK, PermuteSound
  <2> QED BY <2>1, <2>2, <2>3
<1>2. /\ indexes1' \in Seq(1 .. Size) /\ Len(indexes1') = Size
      /\ \A i \in 1 .. Size : indexes1'[i] = IF i = to THEN to ELSE p[i]
  BY <1>1, ExceptSeq
<1>3. TypeOK'
  BY <1>1, <1>2 DEF IInv, TypeOK
<1>4. PermuteSound'
  <2>1. /\ \A i \in 1 .. Size : Item(merged[i]) = data[Source(i)]
        /\ \A i, j \in 1 .. Size : Source(i) = Source(j) => i = j
        /\ \A i \in 1 .. from - 1 : p[i] = i
        /\ to # from => p[from] = from
    BY DEF IInv, PermuteSound
  <2>2. ASSUME NEW i \in 1 .. Size, i = to PROVE Source(i) = i
    BY <1>1, <2>2 DEF Source
  <2>3. ASSUME NEW i \in 1 .. Size, i # to PROVE Source(i) = p[i]
    <3>1. ~(p[i] = from /\ i # from)
      BY <1>1, <2>1, <2>2, <2>3 DEF Source
    <3> QED BY <3>1 DEF Source
  <2>4. ASSUME NEW i \in 1 .. Size PROVE Source(i)' = Source(i)
    <3>1. Source(i)' = indexes1'[i]
      BY DEF Source
    <3> QED BY <1>2, <2>2, <2>3, <3>1
  <2>5. \A i \in 1 .. Size : (Item(merged[i]) = data[Source(i)])'
    <3> SUFFICES ASSUME NEW i \in 1 .. Size PROVE Item(merged[i]) = data[Source(i)']
      BY DEF Item
    <3> QED BY <2>1, <2>4
  <2>6. \A i, j \in 1 .. Size : Source(i)' = Source(j)' => i = j
    BY <2>1, <2>4
  <2>7. \A i \in 1 .. from' - 1 : indexes1'[i] = i
    <3> SUFFICES ASSUME NEW i \in 1 .. from PROVE indexes1'[i] = i
      BY <1>1
    <3>1. i \in 1 .. Size
      BY <1>1
    <3>2. CASE i = to
      BY <1>2, <3>1, <3>2
    <3>3. CASE i # to /\ i = from
      BY <1>2, <2>1, <3>1, <3>3
    <3>4. CASE i # to /\ i # from
      BY <1>1, <1>2, <2>1, <3>1, <3>4
    <3> QED BY <3>2, <3>3, <3>4
  <2> QED BY <2>5, <2>6, <2>7 DEF PermuteSound
<1>5. StartSound' /\ MergeSound' /\ MergedSound'
  BY SMTT(30), <1>2 DEF IInv, StartSound, MergeSound, MergedSound, SortedBy, Placed, InOrder,
     PlacesFound, Item, PlaceOf
<1> QED BY <1>3, <1>4, <1>5 DEF IInv

\* When all cycles are closed Reorder is done.
LEMMA PermutedPreserves ==
  ASSUME IInv, Permuted PROVE IInv'
<1> USE DEF Permuted, Size
<1>1. Size \in Nat
  BY LenProperties DEF IInv, TypeOK, IsInput
<1>2. from = Size + 1
  <2>1. from \in 1 .. Size + 1
    BY DEF IInv, TypeOK
  <2> QED BY <1>1, <2>1
<1>3. TypeOK'
  BY DEF IInv, TypeOK
<1>4. PermuteSound'
  BY <1>2 DEF IInv, PermuteSound, Source, Item
<1>5. StartSound' /\ MergeSound' /\ MergedSound'
  BY DEF IInv, StartSound, MergeSound, MergedSound, SortedBy, Placed, InOrder,
     PlacesFound, Item, PlaceOf
<1> QED BY <1>3, <1>4, <1>5 DEF IInv

--------------------------------------------------------------------------------
(***************************************************************************)
(* ExtendOrder.                                                            *)
(***************************************************************************)

\* What has been merged has places.
LEMMA MergedPlaces ==
  ASSUME IInv, phase = "extend", NEW k \in 1 .. Len(indexes1)
  PROVE  /\ indexes1[k] \in 1 .. Size
         /\ PlaceOf(indexes1[k]) \in Nat
<1>1. indexes1[k] \in 1 .. Size
  BY ElementOfSeq DEF IInv, TypeOK
<1>2. IsInput(input)
  BY DEF IInv, TypeOK
<1>3. indexes1[k] \in Placed(input, 1) \cup {indexes2[l] : l \in 1 .. next - 1}
  BY DEF IInv, MergeSound
<1>4. Item(indexes1[k])[1] = None =>
        Furthest(PlaceOf(indexes1[k]), Anchors(input, Item(indexes1[k])))
  BY <1>3 DEF IInv, MergeSound, PlacesFound, Placed, Item
<1> QED BY <1>1, <1>2, <1>4, PlaceIsNat

\* No match is before itself, so none is in the order twice.
LEMMA MergedOnce ==
  ASSUME IInv, phase = "extend",
         NEW k \in 1 .. Len(indexes1), NEW l \in 1 .. Len(indexes1),
         indexes1[k] = indexes1[l]
  PROVE  k = l
<1>1. ASSUME NEW i \in 1 .. Len(indexes1), NEW j \in 1 .. Len(indexes1), i < j,
             indexes1[i] = indexes1[j]
      PROVE  FALSE
  <2>1. Before(input, Item(indexes1[i]), Item(indexes1[i]))
    BY <1>1 DEF IInv, MergeSound, InOrder
  <2>2. PlaceOf(indexes1[i]) \in Nat /\ indexes1[i] \in 1 .. Size
    BY MergedPlaces
  <2>3. Item(indexes1[i])[1] = None => Item(indexes1[i])[2] \in Nat
    BY <2>2, ItemProperties DEF IInv, TypeOK
  <2> QED BY <2>1, <2>2, <2>3, BeforeParts
<1>2. Len(indexes1) \in Nat
  BY LenProperties DEF IInv, TypeOK
<1> QED BY <1>1, <1>2

\* Everything has been merged: the permutation is one of all the matches.
LEMMA ExtendedPreserves ==
  ASSUME IInv, Extended PROVE IInv'
<1> USE DEF Extended, Size
<1>1. /\ Size \in Nat /\ IsInput(input) /\ Len(indexes1) = Size /\ indexes1 \in Seq(1 .. Size)
      /\ indexes2 \in Seq(1 .. Size) /\ Len(indexes2) \in Nat /\ next = Len(indexes2) + 1
      /\ from = 1 /\ to = 1 /\ data = input
  <2>1. /\ IsInput(input) /\ indexes2 \in Seq(1 .. Size) /\ next \in 1 .. Len(indexes2) + 1
        /\ input \in Seq(Match)
    BY DEF IInv, TypeOK, IsInput
  <2>2. Size \in Nat /\ Len(indexes2) \in Nat
    BY <2>1, LenProperties
  <2> QED BY <2>1, <2>2 DEF IInv, TypeOK, StartSound
<1>2. TypeOK'
  BY <1>1 DEF IInv, TypeOK
<1>3. StartSound' /\ MergeSound'
  BY DEF IInv, StartSound, MergeSound, SortedBy, Placed
<1>4. {indexes1[k] : k \in 1 .. Size} = 1 .. Size
  <2>1. {indexes1[k] : k \in 1 .. Size} =
          Placed(input, 1) \cup {indexes2[k] : k \in 1 .. Len(indexes2)}
    <3>1. 1 .. next - 1 = 1 .. Len(indexes2)
      BY <1>1
    <3> QED BY <1>1, <3>1 DEF IInv, MergeSound
  <2>2. {indexes2[k] : k \in 1 .. Len(indexes2)} = Placed(input, 2)
    BY DEF IInv, StartSound, SortedBy
  <2>3. ASSUME NEW i \in 1 .. Size PROVE i \in Placed(input, 1) \cup Placed(input, 2)
    BY <1>1, ItemProperties, NoneAssumption DEF Placed, Item
  <2>4. Placed(input, 1) \cup Placed(input, 2) \subseteq 1 .. Size
    BY DEF Placed
  <2> QED BY <2>1, <2>2, <2>3, <2>4
<1>5. MergedSound'
  <2>1. InOrder(indexes1) /\ PlacesFound(indexes2, Len(indexes2))
    BY <1>1 DEF IInv, MergeSound
  <2>2. InOrder(merged)' /\ PlacesFound(indexes2, Len(indexes2))'
    BY <2>1 DEF InOrder, PlacesFound, Item, PlaceOf
  <2> QED BY <1>1, <1>4, <2>2 DEF MergedSound
<1>6. PermuteSound'
  <2>1. ASSUME NEW i \in 1 .. Size PROVE Source(i)' = indexes1[i]
    BY <1>1 DEF Source
  <2>2. \A i \in 1 .. Size : (Item(merged[i]) = data[Source(i)])'
    <3> SUFFICES ASSUME NEW i \in 1 .. Size PROVE input[indexes1[i]] = input[Source(i)']
      BY <1>1 DEF Item
    <3> QED BY <2>1
  <2>3. \A i, j \in 1 .. Size : Source(i)' = Source(j)' => i = j
    BY <1>1, <2>1, MergedOnce
  <2> QED BY <1>1, <2>2, <2>3 DEF PermuteSound
<1> QED BY <1>2, <1>3, <1>5, <1>6 DEF IInv

\* The matches that have been merged of the second sequence precede the next one
\* in it, and no other does.
LEMMA SecondOrder ==
  ASSUME IInv, phase = "extend", next <= Len(indexes2)
  PROVE  /\ next \in 1 .. Len(indexes2) /\ indexes2[next] \in 1 .. Size
         /\ Item(indexes2[next])[2] \in Nat
         /\ \A i \in 1 .. Size :
              i \in {indexes2[k] : k \in 1 .. next - 1} <=>
                Item(i)[2] # None /\ Item(i)[2] < Item(indexes2[next])[2]
<1> DEFINE v == indexes2[next]
<1>1. /\ indexes2 \in Seq(1 .. Size) /\ next \in 1 .. Len(indexes2) /\ IsInput(input)
      /\ Len(indexes2) \in Nat
  <2>1. indexes2 \in Seq(1 .. Size) /\ next \in 1 .. Len(indexes2) + 1 /\ IsInput(input)
    BY DEF IInv, TypeOK
  <2>2. Len(indexes2) \in Nat
    BY <2>1, LenProperties
  <2> QED BY <2>1, <2>2
<1>2. /\ \A k, l \in 1 .. Len(indexes2) :
           k < l => Item(indexes2[k])[2] < Item(indexes2[l])[2]
      /\ {indexes2[k] : k \in 1 .. Len(indexes2)} = {i \in 1 .. Size : Item(i)[2] # None}
  BY DEF IInv, StartSound, SortedBy, Placed, Item, Size
<1>3. \A k \in 1 .. Len(indexes2) : indexes2[k] \in 1 .. Size /\ Item(indexes2[k])[2] \in Nat
  BY <1>1, <1>2, ItemProperties
<1>4. ASSUME NEW k \in 1 .. next - 1
      PROVE  /\ indexes2[k] \in 1 .. Size /\ Item(indexes2[k])[2] # None
             /\ Item(indexes2[k])[2] < Item(v)[2]
  <2>1. k \in 1 .. Len(indexes2) /\ k < next
    BY <1>1
  <2> QED BY <1>1, <1>2, <1>3, <2>1, NoneAssumption
<1>5. ASSUME NEW i \in 1 .. Size, Item(i)[2] # None, Item(i)[2] < Item(v)[2]
      PROVE  \E k \in 1 .. next - 1 : i = indexes2[k]
  <2>1. PICK k \in 1 .. Len(indexes2) : i = indexes2[k]
    BY <1>2, <1>5
  <2>2. ~(next < k) /\ next # k
    BY <1>1, <1>2, <1>3, <1>5, <2>1
  <2> QED BY <1>1, <2>1, <2>2
<1> QED BY <1>1, <1>3, <1>4, <1>5

\* The anchors of the next match of the second sequence are the places of the
\* common matches merged so far.
LEMMA AnchorsOfNext ==
  ASSUME IInv, phase = "extend", next <= Len(indexes2)
  PROVE  Anchors(input, Item(indexes2[next])) = Anchored
<1> DEFINE v == indexes2[next]
<1>1. \A i \in 1 .. Size :
        i \in {indexes2[k] : k \in 1 .. next - 1} <=> Item(i)[2] # None /\ Item(i)[2] < Item(v)[2]
  BY SecondOrder
<1>2. \A k \in 1 .. next - 1 : indexes2[k] \in 1 .. Size
  <2>1. indexes2 \in Seq(1 .. Size) /\ next \in 1 .. Len(indexes2)
    BY SecondOrder DEF IInv, TypeOK
  <2>2. Len(indexes2) \in Nat
    BY <2>1, LenProperties
  <2>3. \A k \in 1 .. next - 1 : k \in 1 .. Len(indexes2)
    BY <2>1, <2>2
  <2> QED BY <2>1, <2>3, ElementOfSeq
<1>3. ASSUME NEW a \in Anchors(input, Item(v)) PROVE a \in Anchored
  <2>1. PICK i \in 1 .. Size : /\ Item(i)[1] # None /\ Item(i)[2] # None
                               /\ Item(i)[2] < Item(v)[2] /\ a = Item(i)[1] + 1
    BY DEF Anchors, Item, Size
  <2> QED BY <1>1, <2>1 DEF Anchored
<1>4. ASSUME NEW a \in Anchored PROVE a \in Anchors(input, Item(v))
  <2>1. PICK k \in 1 .. next - 1 : Item(indexes2[k])[1] # None /\ a = Item(indexes2[k])[1] + 1
    BY DEF Anchored
  <2>2. /\ indexes2[k] \in 1 .. Size /\ Item(indexes2[k])[2] # None
        /\ Item(indexes2[k])[2] < Item(v)[2]
    BY <1>1, <1>2
  <2> QED BY <2>1, <2>2 DEF Anchors, Item, Size
<1> QED BY <1>3, <1>4

\* All that has been merged up to the insertion point is at the frontier or before.
LEMMA BeforeFrontier ==
  ASSUME IInv, phase = "extend", NEW k \in 1 .. pos
  PROVE  /\ k \in 1 .. Len(indexes1) /\ Frontier \in Nat
         /\ PlaceOf(indexes1[k]) <= Frontier
<1>1. pos \in 0 .. Len(indexes1) /\ Len(indexes1) \in Nat
  BY LenProperties DEF IInv, TypeOK
<1>2. /\ k \in 1 .. Len(indexes1) /\ pos \in 1 .. Len(indexes1) /\ pos # 0
  BY <1>1
<1>3. PlaceOf(indexes1[k]) \in Nat /\ PlaceOf(indexes1[pos]) \in Nat
  BY <1>2, MergedPlaces
<1>4. Frontier = PlaceOf(indexes1[pos])
  BY <1>2 DEF Frontier
<1>5. k < pos => Before(input, Item(indexes1[k]), Item(indexes1[pos]))
  BY <1>2 DEF IInv, MergeSound, InOrder
<1>6. k = pos \/ k < pos
  BY <1>1
<1> QED BY <1>2, <1>3, <1>4, <1>5, <1>6, BeforeParts

\* A value inserted at the insertion point.
LEMMA InsertAt ==
  ASSUME NEW v \in 1 .. Size, indexes1 \in Seq(1 .. Size), pos \in 0 .. Len(indexes1),
         indexes1' = SubSeq(indexes1, 1, pos) \o <<v>>
                       \o SubSeq(indexes1, pos + 1, Len(indexes1))
  PROVE  /\ indexes1' \in Seq(1 .. Size) /\ Len(indexes1') = Len(indexes1) + 1
         /\ Len(indexes1) \in Nat
         /\ \A k \in 1 .. Len(indexes1') :
              indexes1'[k] = IF k <= pos THEN indexes1[k]
                             ELSE IF k = pos + 1 THEN v ELSE indexes1[k - 1]
<1> DEFINE S == 1 .. Size
           s == indexes1
           t == indexes1'
           p == pos
<1>0. /\ s \in Seq(S) /\ v \in S /\ p \in 0 .. Len(s)
      /\ t = SubSeq(s, 1, p) \o <<v>> \o SubSeq(s, p + 1, Len(s))
  OBVIOUS
<1> SUFFICES /\ t \in Seq(S) /\ Len(t) = Len(s) + 1 /\ Len(s) \in Nat
             /\ \A k \in 1 .. Len(t) : t[k] = IF k <= p THEN s[k]
                                              ELSE IF k = p + 1 THEN v ELSE s[k - 1]
  OBVIOUS
<1> HIDE DEF S, s, t, p
<1> DEFINE x == SubSeq(s, 1, p)
           y == SubSeq(s, p + 1, Len(s))
<1>1. Len(s) \in Nat /\ \A k \in 1 .. Len(s) : s[k] \in S
  BY <1>0, LenProperties, ElementOfSeq
<1>2. x \in Seq(S) /\ Len(x) = p /\ \A k \in 1 .. p : x[k] = s[k]
  <2>1. \A k \in 1 .. p : s[k] \in S
    BY <1>0, <1>1
  <2> QED BY <1>0, <1>1, <2>1, SubSeqProperties, SMTT(30)
<1>3. y \in Seq(S) /\ Len(y) = Len(s) - p /\ \A k \in 1 .. Len(s) - p : y[k] = s[p + k]
  <2>1. \A k \in p + 1 .. Len(s) : s[k] \in S
    BY <1>0, <1>1
  <2> QED BY <1>0, <1>1, <2>1, SubSeqProperties
<1>4. <<v>> \in Seq(S) /\ Len(<<v>>) = 1 /\ <<v>>[1] = v
  BY <1>0
<1> DEFINE z == x \o <<v>>
<1>5. /\ z \in Seq(S) /\ Len(z) = p + 1
      /\ \A k \in 1 .. p + 1 : z[k] = IF k <= p THEN s[k] ELSE v
  <2>1. /\ z \in Seq(S) /\ Len(z) = p + 1
        /\ \A k \in 1 .. p + 1 : z[k] = IF k <= p THEN x[k] ELSE <<v>>[k - p]
    BY <1>0, <1>2, <1>4, ConcatProperties
  <2> QED BY <1>0, <1>1, <1>2, <1>4, <2>1
<1>6. /\ t \in Seq(S) /\ Len(t) = Len(s) + 1
      /\ \A k \in 1 .. Len(s) + 1 : t[k] = IF k <= p + 1 THEN z[k] ELSE y[k - (p + 1)]
  <2>1. /\ z \o y \in Seq(S) /\ Len(z \o y) = Len(z) + Len(y)
        /\ \A k \in 1 .. Len(z) + Len(y) :
             (z \o y)[k] = IF k <= Len(z) THEN z[k] ELSE y[k - Len(z)]
    BY <1>0, <1>3, <1>5, ConcatProperties, Zenon
  <2> HIDE DEF y, z
  <2>2. Len(z) + Len(y) = Len(s) + 1
    BY <1>0, <1>1, <1>3, <1>5
  <2>3. t = z \o y
    BY <1>0 DEF y, z
  <2> QED BY <1>5, <2>1, <2>2, <2>3
<1>7. \A k \in p + 2 .. Len(s) + 1 : y[k - (p + 1)] = s[k - 1]
  BY <1>0, <1>1, <1>3
<1> HIDE DEF y, z
<1>8. ASSUME NEW k \in 1 .. Len(t)
      PROVE  t[k] = IF k <= p THEN s[k] ELSE IF k = p + 1 THEN v ELSE s[k - 1]
  <2>1. k \in 1 .. Len(s) + 1 /\ t[k] = IF k <= p + 1 THEN z[k] ELSE y[k - (p + 1)]
    BY <1>6
  <2>2. CASE k <= p + 1
    <3>1. k \in 1 .. p + 1 /\ t[k] = z[k]
      BY <1>0, <1>1, <2>1, <2>2
    <3> QED BY <1>0, <1>1, <1>5, <3>1
  <2>3. CASE k > p + 1
    <3>1. k \in p + 2 .. Len(s) + 1 /\ t[k] = y[k - (p + 1)]
      BY <1>0, <1>1, <2>1, <2>3
    <3> QED BY <1>0, <1>1, <1>7, <2>3, <3>1
  <2> QED BY <1>0, <1>1, <2>1, <2>2, <2>3
<1> QED BY <1>0, <1>1, <1>6, <1>8

\* Merging a match that is found adds nothing.
LEMMA NextMerged ==
  ASSUME NEW k \in 1 .. Len(indexes1), indexes1[k] = indexes2[next], next \in Nat \ {0},
         {indexes1[l] : l \in 1 .. Len(indexes1)} =
           Placed(input, 1) \cup {indexes2[l] : l \in 1 .. next - 1}
  PROVE  {indexes1[l] : l \in 1 .. Len(indexes1)} =
           Placed(input, 1) \cup {indexes2[l] : l \in 1 .. next}
<1>1. {indexes2[l] : l \in 1 .. next} = {indexes2[l] : l \in 1 .. next - 1} \cup {indexes2[next]}
  OBVIOUS
<1> QED BY <1>1

\* A common match that is merged is an anchor for those that follow.
LEMMA NextAnchored ==
  ASSUME next \in Nat \ {0}, next' = next + 1, UNCHANGED <<input, indexes2>>,
         Item(indexes2[next])[1] # None
  PROVE  Anchored' = Anchored \cup {Item(indexes2[next])[1] + 1}
<1>1. Anchored' = {Item(indexes2[k])[1] + 1 :
                     k \in {l \in 1 .. next : Item(indexes2[l])[1] # None}}
  BY DEF Anchored, Item
<1>2. \A l \in 1 .. next : l \in 1 .. next - 1 \/ l = next
  OBVIOUS
<1>3. next \in 1 .. next /\ \A l \in 1 .. next - 1 : l \in 1 .. next
  OBVIOUS
<1> QED BY <1>1, <1>2, <1>3 DEF Anchored

\* What steps of ExtendOrder leave as it is.
LEMMA ExtendingKeeps ==
  ASSUME IInv, phase = "extend", phase' = "extend",
         UNCHANGED <<input, data, indexes2, merged, from, to>>
  PROVE  StartSound' /\ MergedSound' /\ PermuteSound'
BY DEF IInv, StartSound, MergedSound, PermuteSound, SortedBy, Placed

\* A match that is not there yet goes to its place.
LEMMA InsertPreserves ==
  ASSUME IInv, Insert PROVE IInv'
<1> DEFINE v == indexes2[next]
           t == indexes1'
<1>0. /\ phase = "extend" /\ phase' = "extend" /\ next <= Len(indexes2)
      /\ Found(v) = {} /\ pos' = pos + 1 /\ next' = next + 1
      /\ UNCHANGED <<input, data, indexes2, merged, from, to>>
  BY DEF Insert, Extending, AfterInserted
<1>1. /\ next \in 1 .. Len(indexes2) /\ v \in 1 .. Size /\ Item(v)[2] \in Nat
      /\ pos \in 0 .. Len(indexes1) /\ indexes1 \in Seq(1 .. Size) /\ IsInput(input)
      /\ indexes2 \in Seq(1 .. Size) /\ Len(indexes2) \in Nat
  <2>1. indexes2 \in Seq(1 .. Size)
    BY DEF IInv, TypeOK
  <2> QED BY <1>0, <2>1, SecondOrder, LenProperties DEF IInv, TypeOK
<1>2. /\ t \in Seq(1 .. Size) /\ Len(t) = Len(indexes1) + 1 /\ Len(indexes1) \in Nat
      /\ \A k \in 1 .. Len(t) : t[k] = IF k <= pos THEN indexes1[k]
                                      ELSE IF k = pos + 1 THEN v ELSE indexes1[k - 1]
  <2>1. t = SubSeq(indexes1, 1, pos) \o <<v>> \o SubSeq(indexes1, pos + 1, Len(indexes1))
    BY DEF Insert
  <2>2. indexes1 \in Seq(1 .. Size) /\ v \in 1 .. Size /\ pos \in 0 .. Len(indexes1)
    BY <1>1
  <2> QED BY <2>1, <2>2, InsertAt
<1>3. TypeOK'
  <2>1. pos' \in 0 .. Len(t) /\ next' \in 1 .. Len(indexes2) + 1
    BY <1>0, <1>1, <1>2
  <2> QED BY <1>0, <1>2, <2>1 DEF IInv, TypeOK, Size
<1>4. Item(v)[1] = None
  <2>1. v \notin {indexes1[k] : k \in 1 .. Len(indexes1)}
    BY <1>0 DEF Found
  <2>2. v \notin Placed(input, 1)
    BY <1>0, <2>1 DEF IInv, MergeSound
  <2> QED BY <1>1, <2>2 DEF Placed, Item, Size
<1>5. /\ PlaceOf(v) = Frontier /\ Furthest(Frontier, Anchored)
      /\ Furthest(PlaceOf(v), Anchors(input, Item(v)))
  <2>1. Furthest(Frontier, Anchored)
    BY <1>0 DEF IInv, MergeSound
  <2>2. Anchors(input, Item(v)) = Anchored
    BY <1>0, AnchorsOfNext
  <2> QED BY <1>1, <1>4, <2>1, <2>2, PlaceSecond
<1>6. Anchored' = Anchored /\ Frontier' = Frontier
  <2>1. Anchored' = Anchored
    <3>1. \A l \in 1 .. next : Item(indexes2[l])[1] # None => l \in 1 .. next - 1
      BY <1>1, <1>4
    <3>2. \A l \in 1 .. next - 1 : l \in 1 .. next
      BY <1>1
    <3>3. Anchored' = {Item(indexes2[k])[1] + 1 :
                         k \in {l \in 1 .. next : Item(indexes2[l])[1] # None}}
      BY <1>0, <1>1 DEF Anchored, Item
    <3> QED BY <3>1, <3>2, <3>3 DEF Anchored
  <2>2. Frontier' = PlaceOf(v)
    <3>1. pos' # 0 /\ t[pos'] = v
      BY <1>0, <1>1, <1>2
    <3> QED BY <1>0, <3>1 DEF Frontier, PlaceOf, Item
  <2> QED BY <1>5, <2>1, <2>2
<1>7. /\ PlaceOf(v) \in Nat
      /\ \A k \in 1 .. Len(indexes1) : PlaceOf(indexes1[k]) \in Nat
  BY <1>0, <1>1, <1>5, PlaceIsNat, MergedPlaces
<1>8. ASSUME NEW k \in 1 .. pos PROVE Before(input, Item(indexes1[k]), Item(v))
  <2>1. k \in 1 .. Len(indexes1) /\ PlaceOf(indexes1[k]) <= PlaceOf(v)
    BY <1>0, <1>5, BeforeFrontier
  <2>2. Item(indexes1[k])[1] = None => Item(indexes1[k])[2] < Item(v)[2]
    <3>1. indexes1[k] \in Placed(input, 1) \cup {indexes2[l] : l \in 1 .. next - 1}
      BY <1>0, <2>1 DEF IInv, MergeSound
    <3>2. indexes1[k] \in 1 .. Size
      BY <1>0, <2>1, MergedPlaces
    <3> QED BY <1>0, <3>1, <3>2, SecondOrder DEF Placed, Item, Size
  <2> QED BY <1>4, <1>7, <2>1, <2>2, BeforeParts
<1>9. ASSUME NEW k \in pos + 1 .. Len(indexes1)
      PROVE  /\ Before(input, Item(v), Item(indexes1[k]))
             /\ Item(indexes1[k])[1] # None /\ Frontier < PlaceOf(indexes1[k])
  <2>1. Item(indexes1[k])[1] # None /\ Frontier < PlaceOf(indexes1[k])
    BY <1>0 DEF IInv, MergeSound
  <2> QED BY <1>5, <2>1, BeforeParts
<1>10. {t[k] : k \in 1 .. Len(t)} = Placed(input, 1) \cup {indexes2[k] : k \in 1 .. next}
  <2>1. {indexes1[k] : k \in 1 .. Len(indexes1)} =
          Placed(input, 1) \cup {indexes2[k] : k \in 1 .. next - 1}
    BY <1>0 DEF IInv, MergeSound
  <2>2. {indexes2[k] : k \in 1 .. next} = {indexes2[k] : k \in 1 .. next - 1} \cup {v}
    BY <1>1, SMTT(30)
  <2>3. {t[k] : k \in 1 .. Len(t)} = {indexes1[k] : k \in 1 .. Len(indexes1)} \cup {v}
    <3>1. ASSUME NEW k \in 1 .. Len(t)
          PROVE  t[k] \in {indexes1[l] : l \in 1 .. Len(indexes1)} \cup {v}
      <4>1. CASE k <= pos
        BY <1>1, <1>2, <4>1
      <4>2. CASE k = pos + 1
        BY <1>1, <1>2, <4>2
      <4>3. CASE k > pos + 1
        BY <1>1, <1>2, <4>3, SMTT(30)
      <4> QED BY <1>1, <4>1, <4>2, <4>3
    <3>2. ASSUME NEW k \in 1 .. Len(indexes1)
          PROVE  indexes1[k] \in {t[l] : l \in 1 .. Len(t)}
      <4>1. CASE k <= pos
        BY <1>1, <1>2, <4>1, SMTT(30)
      <4>2. CASE k > pos
        <5>1. k + 1 \in 1 .. Len(t) /\ t[k + 1] = indexes1[k]
          BY <1>1, <1>2, <4>2
        <5> QED BY <5>1
      <4> QED BY <1>1, <4>1, <4>2
    <3>3. v \in {t[l] : l \in 1 .. Len(t)}
      <4>1. pos + 1 \in 1 .. Len(t) /\ t[pos + 1] = v
        BY <1>1, <1>2
      <4> QED BY <4>1
    <3> QED BY <3>1, <3>2, <3>3
  <2> QED BY <2>1, <2>2, <2>3
<1>11. InOrder(t)
  <2>1. \A k, l \in 1 .. Len(indexes1) :
           k < l => Before(input, Item(indexes1[k]), Item(indexes1[l]))
    BY <1>0 DEF IInv, MergeSound, InOrder
  <2> SUFFICES ASSUME NEW k \in 1 .. Len(t), NEW l \in 1 .. Len(t), k < l
               PROVE  Before(input, Item(t[k]), Item(t[l]))
    BY DEF InOrder
  <2>2. CASE l <= pos
    <3>1. k \in 1 .. Len(indexes1) /\ l \in 1 .. Len(indexes1)
      BY <1>1, <1>2, <2>2
    <3>2. t[k] = indexes1[k] /\ t[l] = indexes1[l]
      BY <1>1, <1>2, <2>2
    <3> QED BY <2>1, <3>1, <3>2
  <2>3. CASE l = pos + 1
    <3>1. k \in 1 .. pos /\ t[k] = indexes1[k] /\ t[l] = v
      BY <1>1, <1>2, <2>3
    <3> QED BY <1>8, <3>1
  <2>4. CASE k <= pos /\ l > pos + 1
    <3>1. k \in 1 .. Len(indexes1) /\ l - 1 \in 1 .. Len(indexes1) /\ k < l - 1
      BY <1>1, <1>2, <2>4
    <3>2. t[k] = indexes1[k] /\ t[l] = indexes1[l - 1]
      BY <1>1, <1>2, <2>4
    <3> QED BY <2>1, <3>1, <3>2
  <2>5. CASE k = pos + 1
    <3>1. l - 1 \in pos + 1 .. Len(indexes1) /\ t[k] = v /\ t[l] = indexes1[l - 1]
      BY <1>1, <1>2, <2>5
    <3> QED BY <1>9, <3>1
  <2>6. CASE k > pos + 1
    <3>1. k - 1 \in 1 .. Len(indexes1) /\ l - 1 \in 1 .. Len(indexes1) /\ k - 1 < l - 1
      BY <1>1, <1>2, <2>6
    <3>2. t[k] = indexes1[k - 1] /\ t[l] = indexes1[l - 1]
      BY <1>1, <1>2, <2>6
    <3> QED BY <2>1, <3>1, <3>2
  <2> QED BY <1>1, <1>2, <2>2, <2>3, <2>4, <2>5, <2>6
<1>12. PlacesFound(indexes2, next)
  <2>1. PlacesFound(indexes2, next - 1)
    BY <1>0 DEF IInv, MergeSound
  <2>2. \A k \in 1 .. next : k \in 1 .. next - 1 \/ k = next
    BY <1>1
  <2> QED BY <1>5, <2>1, <2>2 DEF PlacesFound
<1>13. \A k \in pos + 2 .. Len(t) : Item(t[k])[1] # None /\ Frontier < PlaceOf(t[k])
  <2> SUFFICES ASSUME NEW k \in pos + 2 .. Len(t)
               PROVE  Item(t[k])[1] # None /\ Frontier < PlaceOf(t[k])
    OBVIOUS
  <2>1. k - 1 \in pos + 1 .. Len(indexes1) /\ t[k] = indexes1[k - 1]
    BY <1>1, <1>2
  <2> QED BY <1>9, <2>1
<1>14. MergeSound'
  <2>1. next' - 1 = next /\ pos' + 1 = pos + 2
    BY <1>0, <1>1
  <2>2. InOrder(indexes1)' /\ PlacesFound(indexes2, next - 1)'
    BY <1>0, <1>11, <1>12, <2>1 DEF InOrder, PlacesFound, Item, PlaceOf
  <2>3. Furthest(Frontier, Anchored)'
    BY <1>5, <1>6 DEF Furthest
  <2>4. \A k \in pos' + 1 .. Len(t) :
          (Item(indexes1[k])[1] # None /\ Frontier < PlaceOf(indexes1[k]))'
    BY <1>0, <1>6, <1>13, <2>1 DEF Item, PlaceOf
  <2> QED BY <1>0, <1>10, <2>1, <2>2, <2>3, <2>4 DEF MergeSound
<1> QED BY <1>0, <1>3, <1>14, ExtendingKeeps DEF IInv

\* A match found at or after the insertion point moves it on.
LEMMA UseConstraintPreserves ==
  ASSUME IInv, UseConstraint PROVE IInv'
<1> DEFINE v == indexes2[next]
<1>0. /\ phase = "extend" /\ phase' = "extend" /\ next <= Len(indexes2) /\ next' = next + 1
      /\ UNCHANGED <<input, data, indexes1, indexes2, merged, from, to>>
  BY DEF UseConstraint, Extending
<1>1. PICK k \in 1 .. Len(indexes1) : indexes1[k] = v /\ pos <= k - 1 /\ pos' = k
  BY DEF UseConstraint, Found, SafeConstraint
<1>2. /\ next \in 1 .. Len(indexes2) /\ pos \in 0 .. Len(indexes1) /\ Len(indexes1) \in Nat
      /\ Len(indexes2) \in Nat
  <2>1. indexes2 \in Seq(1 .. Size) /\ indexes1 \in Seq(1 .. Size) /\ pos \in 0 .. Len(indexes1)
    BY DEF IInv, TypeOK
  <2> QED BY <1>0, <2>1, SecondOrder, LenProperties
<1>3. TypeOK'
  <2>1. pos' \in 0 .. Len(indexes1) /\ next' \in 1 .. Len(indexes2) + 1
    BY <1>0, <1>1, <1>2
  <2> QED BY <1>0, <2>1 DEF IInv, TypeOK, Size
<1>4. /\ {indexes1[l] : l \in 1 .. Len(indexes1)} =
           Placed(input, 1) \cup {indexes2[l] : l \in 1 .. next - 1}
      /\ InOrder(indexes1) /\ PlacesFound(indexes2, next - 1)
      /\ Furthest(Frontier, Anchored)
      /\ \A l \in pos + 1 .. Len(indexes1) :
           Item(indexes1[l])[1] # None /\ Frontier < PlaceOf(indexes1[l])
  BY <1>0 DEF IInv, MergeSound
<1>5. Item(v)[1] # None /\ Frontier < PlaceOf(v) /\ PlaceOf(v) = Item(v)[1] + 1
  <2>1. k \in pos + 1 .. Len(indexes1)
    BY <1>1, <1>2
  <2> QED BY <1>1, <1>4, <2>1, PlaceFirst
<1>6. Frontier' = PlaceOf(v)
  <2>1. pos' # 0
    BY <1>1, <1>2
  <2> QED BY <1>0, <1>1, <2>1 DEF Frontier, PlaceOf, Item
<1>7. Anchored' = Anchored \cup {PlaceOf(v)}
  BY <1>0, <1>2, <1>5, NextAnchored
<1>8. PlaceOf(v) \in Nat
  BY <1>0, <1>1, MergedPlaces
<1>9. Furthest(PlaceOf(v), Anchored \cup {PlaceOf(v)})
  <2>1. Anchored \subseteq Nat /\ Frontier \in Nat
    <3>1. Anchored \subseteq Nat
      BY <1>0, AnchorsOfNext, AnchorsArePlaces DEF IInv, TypeOK
    <3> QED BY <1>4, <3>1 DEF Furthest
  <2>2. \A a \in Anchored : Frontier >= a
    BY <1>4 DEF Furthest
  <2>3. \A a \in Anchored : PlaceOf(v) >= a
    BY <1>5, <1>8, <2>1, <2>2
  <2> QED BY <1>8, <2>3 DEF Furthest
<1>10. {indexes1[l] : l \in 1 .. Len(indexes1)} =
         Placed(input, 1) \cup {indexes2[l] : l \in 1 .. next}
  <2>1. next \in Nat \ {0} /\ indexes1[k] = indexes2[next] /\ k \in 1 .. Len(indexes1)
    BY <1>1, <1>2
  <2>2. {indexes1[l] : l \in 1 .. Len(indexes1)} =
          Placed(input, 1) \cup {indexes2[l] : l \in 1 .. next - 1}
    BY <1>4
  <2> QED BY <2>1, <2>2, NextMerged
<1>11. PlacesFound(indexes2, next)
  BY <1>2, <1>4, <1>5 DEF PlacesFound
<1>12. ASSUME NEW l \in k + 1 .. Len(indexes1)
       PROVE  Item(indexes1[l])[1] # None /\ PlaceOf(v) < PlaceOf(indexes1[l])
  <2>1. l \in pos + 1 .. Len(indexes1) /\ l \in 1 .. Len(indexes1) /\ k < l
    BY <1>1, <1>2
  <2>2. Item(indexes1[l])[1] # None
    BY <1>4, <2>1
  <2>3. Before(input, Item(v), Item(indexes1[l]))
    BY <1>1, <1>4, <2>1 DEF InOrder
  <2> QED BY <1>5, <2>2, <2>3, BeforeParts
<1>13. MergeSound'
  <2>1. next' - 1 = next
    BY <1>0, <1>2
  <2>2. InOrder(indexes1)' /\ PlacesFound(indexes2, next - 1)'
    BY <1>0, <1>4, <1>11, <2>1 DEF InOrder, PlacesFound, Item, PlaceOf
  <2>3. Furthest(Frontier, Anchored)'
    BY <1>6, <1>7, <1>9 DEF Furthest
  <2>4. \A l \in pos' + 1 .. Len(indexes1) :
          (Item(indexes1[l])[1] # None /\ Frontier < PlaceOf(indexes1[l]))'
    BY <1>0, <1>1, <1>6, <1>12 DEF Item, PlaceOf
  <2> QED BY <1>0, <1>10, <2>1, <2>2, <2>3, <2>4 DEF MergeSound
<1> QED BY <1>0, <1>3, <1>13, ExtendingKeeps DEF IInv

\* A match found before the insertion point is at the frontier or before.
LEMMA DropConstraintPreserves ==
  ASSUME IInv, DropConstraint PROVE IInv'
<1> DEFINE v == indexes2[next]
<1>0. /\ phase = "extend" /\ phase' = "extend" /\ next <= Len(indexes2) /\ next' = next + 1
      /\ UNCHANGED <<input, data, indexes1, indexes2, pos, merged, from, to>>
  BY DEF DropConstraint, Extending
<1>1. PICK k \in 1 .. Len(indexes1) : indexes1[k] = v /\ ~(pos <= k - 1)
  BY DEF DropConstraint, Found, SafeConstraint
<1>2. /\ next \in 1 .. Len(indexes2) /\ pos \in 0 .. Len(indexes1) /\ Len(indexes1) \in Nat
      /\ Len(indexes2) \in Nat /\ v \in 1 .. Size
  <2>1. indexes2 \in Seq(1 .. Size) /\ indexes1 \in Seq(1 .. Size) /\ pos \in 0 .. Len(indexes1)
    BY DEF IInv, TypeOK
  <2> QED BY <1>0, <2>1, SecondOrder, LenProperties
<1>3. TypeOK'
  <2>1. next' \in 1 .. Len(indexes2) + 1
    BY <1>0, <1>2
  <2> QED BY <1>0, <2>1 DEF IInv, TypeOK, Size
<1>4. /\ {indexes1[l] : l \in 1 .. Len(indexes1)} =
           Placed(input, 1) \cup {indexes2[l] : l \in 1 .. next - 1}
      /\ InOrder(indexes1) /\ PlacesFound(indexes2, next - 1)
      /\ Furthest(Frontier, Anchored)
      /\ \A l \in pos + 1 .. Len(indexes1) :
           Item(indexes1[l])[1] # None /\ Frontier < PlaceOf(indexes1[l])
  BY <1>0 DEF IInv, MergeSound
<1>5. Item(v)[1] # None /\ PlaceOf(v) = Item(v)[1] + 1
  <2>1. v \in Placed(input, 1) \cup {indexes2[l] : l \in 1 .. next - 1}
    BY <1>1, <1>4
  <2>2. v \notin {indexes2[l] : l \in 1 .. next - 1}
    BY <1>0, <1>2, SecondOrder, SMTT(30)
  <2>3. Item(v)[1] # None
    BY <2>1, <2>2 DEF Placed, Item
  <2> QED BY <2>3, PlaceFirst
<1>6. PlaceOf(v) \in Nat /\ PlaceOf(v) <= Frontier
  <2>1. k \in 1 .. pos
    BY <1>1, <1>2
  <2> QED BY <1>0, <1>1, <2>1, BeforeFrontier, MergedPlaces
<1>7. Anchored' = Anchored \cup {PlaceOf(v)} /\ Frontier' = Frontier
  BY <1>0, <1>2, <1>5, NextAnchored DEF Frontier, PlaceOf, Item
<1>8. Furthest(Frontier, Anchored \cup {PlaceOf(v)})
  <2>1. Frontier \in Nat
    <3>1. Anchored \subseteq Nat
      BY <1>0, AnchorsOfNext, AnchorsArePlaces DEF IInv, TypeOK
    <3> QED BY <1>4, <3>1 DEF Furthest
  <2> QED BY <1>4, <1>6, <2>1 DEF Furthest
<1>9. {indexes1[l] : l \in 1 .. Len(indexes1)} =
        Placed(input, 1) \cup {indexes2[l] : l \in 1 .. next}
  <2>1. next \in Nat \ {0} /\ indexes1[k] = indexes2[next] /\ k \in 1 .. Len(indexes1)
    BY <1>1, <1>2
  <2>2. {indexes1[l] : l \in 1 .. Len(indexes1)} =
          Placed(input, 1) \cup {indexes2[l] : l \in 1 .. next - 1}
    BY <1>4
  <2> QED BY <2>1, <2>2, NextMerged
<1>10. PlacesFound(indexes2, next)
  BY <1>2, <1>4, <1>5 DEF PlacesFound
<1>11. MergeSound'
  <2>1. next' - 1 = next
    BY <1>0, <1>2
  <2>2. InOrder(indexes1)' /\ PlacesFound(indexes2, next - 1)'
    BY <1>0, <1>4, <1>10, <2>1 DEF InOrder, PlacesFound, Item, PlaceOf
  <2>3. Furthest(Frontier, Anchored)'
    BY <1>7, <1>8 DEF Furthest
  <2>4. \A l \in pos + 1 .. Len(indexes1) :
          (Item(indexes1[l])[1] # None /\ Frontier < PlaceOf(indexes1[l]))'
    BY <1>0, <1>4, <1>7 DEF Item, PlaceOf
  <2> QED BY <1>0, <1>9, <2>1, <2>2, <2>3, <2>4 DEF MergeSound
<1> QED BY <1>0, <1>3, <1>11, ExtendingKeeps DEF IInv

--------------------------------------------------------------------------------
(***************************************************************************)
(* Reorder.                                                                *)
(***************************************************************************)

\* A sequence made of the matches with a position on one side is one of indices.
LEMMA PlacedSequence ==
  ASSUME IsInput(input), NEW side \in {1, 2},
         NEW s \in [1 .. Cardinality(Placed(input, side)) -> Placed(input, side)]
  PROVE  /\ s \in Seq(1 .. Size) /\ Len(s) \in Nat
         /\ \A k \in 1 .. Len(s) : s[k] \in Placed(input, side)
<1> DEFINE P == Placed(input, side)
<1>1. Size \in Nat
  BY LenProperties DEF IsInput, Size
<1>2. IsFiniteSet(1 .. Size) /\ P \subseteq 1 .. Size
  <2>1. 1 \in Int /\ Size \in Int
    BY <1>1
  <2>2. IsFiniteSet(1 .. Size)
    BY <2>1, FS_Interval
  <2>3. P \subseteq 1 .. Size
    BY Zenon DEF Placed, Size
  <2> QED BY <2>2, <2>3
<1>3. Cardinality(P) \in Nat
  BY <1>2, FS_Subset, FS_CardinalityType
<1>4. s \in [1 .. Cardinality(P) -> 1 .. Size]
  BY <1>2
<1>5. s \in Seq(1 .. Size) /\ Len(s) = Cardinality(P)
  <2> DEFINE n == Cardinality(P)
  <2>1. n \in Nat /\ s \in [1 .. n -> 1 .. Size]
    BY <1>3, <1>4
  <2> HIDE DEF n
  <2>2. s \in Seq(1 .. Size)
    BY <2>1, SeqDef, ZenonT(40)
  <2>3. Len(s) = n
    BY <2>1, <2>2, LenProperties
  <2> QED BY <2>2, <2>3 DEF n
<1> QED BY <1>3, <1>5

\* The first sequence is in order by itself, and nothing else has been merged.
LEMMA SplitPreserves ==
  ASSUME IInv, Split PROVE IInv'
<1>0. /\ phase = "split" /\ phase' = "extend" /\ data = input
      /\ pos = 0 /\ next = 1 /\ from = 1 /\ to = 1
      /\ UNCHANGED <<input, data, pos, next, merged, from, to>>
  BY DEF Split, IInv, StartSound
<1>1. /\ indexes1' \in [1 .. Cardinality(Placed(input, 1)) -> Placed(input, 1)]
      /\ SortedBy(input, 1, indexes1')
      /\ indexes2' \in [1 .. Cardinality(Placed(input, 2)) -> Placed(input, 2)]
      /\ SortedBy(input, 2, indexes2')
  BY <1>0 DEF Split
<1>2. IsInput(input)
  BY DEF IInv, TypeOK
<1>3. /\ indexes1' \in Seq(1 .. Size) /\ Len(indexes1') \in Nat
      /\ indexes2' \in Seq(1 .. Size) /\ Len(indexes2') \in Nat
      /\ \A k \in 1 .. Len(indexes1') : indexes1'[k] \in Placed(input, 1)
  BY <1>1, <1>2, PlacedSequence
<1>4. TypeOK'
  BY <1>0, <1>3 DEF IInv, TypeOK, Size
<1>5. StartSound'
  BY <1>0, <1>1 DEF StartSound, SortedBy, Placed
<1>6. \A k \in 1 .. Len(indexes1') :
        Item(indexes1'[k])[1] # None /\ PlaceOf(indexes1'[k]) = Item(indexes1'[k])[1] + 1
  BY <1>3, PlaceFirst DEF Placed, Item
<1>7. \A k \in 1 .. Len(indexes1') : PlaceOf(indexes1'[k]) \in Nat \ {0}
  BY <1>2, <1>3, <1>6, PlaceIsNat DEF Placed, Size
<1>8. MergeSound'
  <2>1. {indexes1'[k] : k \in 1 .. Len(indexes1')} =
          Placed(input, 1) \cup {indexes2'[k] : k \in 1 .. next - 1}
    BY <1>0, <1>1 DEF SortedBy
  <2>2. InOrder(indexes1')
    <3> SUFFICES ASSUME NEW k \in 1 .. Len(indexes1'), NEW l \in 1 .. Len(indexes1'), k < l
                 PROVE  Before(input, Item(indexes1'[k]), Item(indexes1'[l]))
      BY DEF InOrder
    <3>1. Item(indexes1'[k])[1] < Item(indexes1'[l])[1]
      BY <1>1 DEF SortedBy, Item
    <3>2. Item(indexes1'[k])[1] \in Nat /\ Item(indexes1'[l])[1] \in Nat
      <4>1. \A m \in 1 .. Len(indexes1') : indexes1'[m] \in 1 .. Size
        BY <1>3 DEF Placed, Size
      <4> QED BY <1>2, <1>6, <4>1, ItemProperties
    <3>3. PlaceOf(indexes1'[k]) < PlaceOf(indexes1'[l])
      BY <1>6, <3>1, <3>2
    <3> QED BY <3>3, BeforeParts
  <2>3. PlacesFound(indexes2', next - 1)
    BY <1>0 DEF PlacesFound
  <2>4. Frontier' = 0 /\ Anchored' = {}
    BY <1>0 DEF Frontier, Anchored
  <2>5. Furthest(Frontier, Anchored)'
    BY <2>4 DEF Furthest
  <2>6. InOrder(indexes1)' /\ PlacesFound(indexes2, next - 1)'
    BY <1>0, <2>2, <2>3 DEF InOrder, PlacesFound, Item, PlaceOf
  <2>7. \A k \in pos' + 1 .. Len(indexes1') :
          (Item(indexes1[k])[1] # None /\ Frontier < PlaceOf(indexes1[k]))'
    <3> SUFFICES ASSUME NEW k \in 1 .. Len(indexes1')
                 PROVE  Item(indexes1'[k])[1] # None /\ 0 < PlaceOf(indexes1'[k])
      BY <1>0, <2>4 DEF Item, PlaceOf
    <3> QED BY <1>6, <1>7
  <2> QED BY <1>0, <2>1, <2>5, <2>6, <2>7 DEF MergeSound, Placed
<1>9. MergedSound' /\ PermuteSound'
  BY <1>0 DEF MergedSound, PermuteSound
<1> QED BY <1>4, <1>5, <1>8, <1>9 DEF IInv

\* Reorder starts with an input and nothing else.
LEMMA InitSound ==
  ASSUME Init PROVE IInv
<1>1. IsInput(input)
  BY OrderAssumption DEF Init
<1>2. Size \in Nat
  BY <1>1, LenProperties DEF IsInput, Size
<1>3. TypeOK
  BY <1>1, <1>2 DEF Init, TypeOK, IsInput, Size
<1> QED BY <1>3 DEF Init, IInv, StartSound, MergeSound, MergedSound, PermuteSound

\* A step that changes nothing.
LEMMA StutterPreserves ==
  ASSUME IInv, UNCHANGED vars PROVE IInv'
<1> USE DEF vars
<1>1. TypeOK' /\ StartSound'
  BY SMTT(30) DEF IInv, TypeOK, StartSound, Size, SortedBy, Placed
<1>2. Frontier' = Frontier /\ Anchored' = Anchored
  BY DEF Frontier, Anchored, PlaceOf, Item
<1>3. InOrder(indexes1)' /\ PlacesFound(indexes2, next - 1)' <=>
        InOrder(indexes1) /\ PlacesFound(indexes2, next - 1)
  BY DEF InOrder, PlacesFound, PlaceOf, Item
<1>4. InOrder(merged)' /\ PlacesFound(indexes2, Len(indexes2))' <=>
        InOrder(merged) /\ PlacesFound(indexes2, Len(indexes2))
  BY DEF InOrder, PlacesFound, PlaceOf, Item
<1>5. MergeSound'
  BY <1>2, <1>3 DEF IInv, MergeSound, Furthest, Placed, PlaceOf, Item
<1>6. MergedSound'
  BY <1>4 DEF IInv, MergedSound, Size
<1>7. PermuteSound'
  BY DEF IInv, PermuteSound, Source, Item, Size
<1> QED BY <1>1, <1>5, <1>6, <1>7 DEF IInv

\* IInv holds throughout Reorder, whatever matches it is given.
THEOREM Invariance == Spec => []IInv
<1>1. Init => IInv
  BY InitSound
<1>2. IInv /\ [Next]_vars => IInv'
  <2> SUFFICES ASSUME IInv, [Next]_vars PROVE IInv'
    OBVIOUS
  <2>1. CASE Split
    BY <2>1, SplitPreserves
  <2>2. CASE Insert
    BY <2>2, InsertPreserves
  <2>3. CASE UseConstraint
    BY <2>3, UseConstraintPreserves
  <2>4. CASE DropConstraint
    BY <2>4, DropConstraintPreserves
  <2>5. CASE Extended
    BY <2>5, ExtendedPreserves
  <2>6. CASE FollowCycle
    BY <2>6, FollowCyclePreserves
  <2>7. CASE EndCycle
    BY <2>7, EndCyclePreserves
  <2>8. CASE Permuted
    BY <2>8, PermutedPreserves
  <2>9. CASE UNCHANGED vars
    BY <2>9, StutterPreserves
  <2>10. CASE Terminated
    BY <2>10, StutterPreserves DEF Terminated
  <2> QED BY <2>1, <2>2, <2>3, <2>4, <2>5, <2>6, <2>7, <2>8, <2>9, <2>10 DEF Next
<1> QED BY <1>1, <1>2, PTL DEF Spec

--------------------------------------------------------------------------------
(***************************************************************************)
(* The result.                                                             *)
(***************************************************************************)

\* In the end every item is where the merged order wants it.
LEMMA Result ==
  ASSUME IInv, phase = "done"
  PROVE  /\ Size \in Nat /\ Len(data) = Size
         /\ {merged[k] : k \in 1 .. Size} = 1 .. Size
         /\ \A i \in 1 .. Size : merged[i] \in 1 .. Size /\ data[i] = Item(merged[i])
         /\ \A i, j \in 1 .. Size : i < j => Before(input, data[i], data[j])
<1>1. Size \in Nat
  BY LenProperties DEF IInv, TypeOK, IsInput, Size
<1>2. /\ from = Size + 1 /\ \A i \in 1 .. from - 1 : indexes1[i] = i
      /\ \A i \in 1 .. Size : Item(merged[i]) = data[Source(i)]
  BY DEF IInv, PermuteSound
<1>3. /\ {merged[k] : k \in 1 .. Size} = 1 .. Size /\ Len(merged) = Size /\ InOrder(merged)
  BY DEF IInv, MergedSound
<1>4. ASSUME NEW i \in 1 .. Size PROVE merged[i] \in 1 .. Size /\ data[i] = Item(merged[i])
  <2>1. indexes1[i] = i /\ i # from
    BY <1>1, <1>2
  <2>2. Source(i) = i
    BY <2>1 DEF Source
  <2> QED BY <1>2, <1>3, <2>2
<1>5. \A i, j \in 1 .. Size : i < j => Before(input, data[i], data[j])
  BY <1>3, <1>4, SMTT(30) DEF InOrder
<1> QED BY <1>1, <1>3, <1>4, <1>5 DEF IInv, TypeOK

\* Nothing is lost or duplicated, and the order is the one that OrderSpec states.
THEOREM ReorderExactTheorem == Spec => []ReorderExact
<1>1. IInv => ReorderExact
  <2> SUFFICES ASSUME IInv, phase = "done"
               PROVE  /\ {data[i] : i \in 1 .. Size} = {input[i] : i \in 1 .. Size}
                      /\ \A i, j \in 1 .. Size : i < j => Before(input, data[i], data[j])
    BY DEF ReorderExact
  <2>1. ASSUME NEW i \in 1 .. Size PROVE data[i] \in {input[j] : j \in 1 .. Size}
    BY Result DEF Item
  <2>2. ASSUME NEW i \in 1 .. Size PROVE input[i] \in {data[j] : j \in 1 .. Size}
    <3>1. PICK k \in 1 .. Size : merged[k] = i
      BY Result
    <3> QED BY <3>1, Result DEF Item
  <2> QED BY <2>1, <2>2, Result
<1> QED BY <1>1, Invariance, PTL

\* The place of a match of the second sequence only has been found.
LEMMA SecondPlaces ==
  ASSUME IInv, phase = "done", NEW i \in 1 .. Size, Item(i)[1] = None
  PROVE  Furthest(PlaceOf(i), Anchors(input, Item(i)))
<1>1. Item(i)[2] # None
  BY ItemProperties, NoneAssumption DEF IInv, TypeOK
<1>2. i \in {indexes2[k] : k \in 1 .. Len(indexes2)}
  BY <1>1 DEF IInv, StartSound, SortedBy, Placed, Item, Size
<1> QED BY <1>2 DEF IInv, MergedSound, PlacesFound

\* What is before in the result is before in the second sequence, unless the two
\* contradict each other.
LEMMA SecondKept ==
  ASSUME IInv, phase = "done", Compatible, NEW x \in 1 .. Size, NEW y \in 1 .. Size,
         Before(input, Item(x), Item(y)), Item(x)[2] # None, Item(y)[2] # None
  PROVE  Item(x)[2] < Item(y)[2]
<1>0. IsInput(input)
  BY DEF IInv, TypeOK
<1>1. \A i \in 1 .. Size :
        /\ Item(i)[1] \in Nat \cup {None} /\ Item(i)[2] \in Nat \cup {None}
        /\ PlaceOf(i) \in Nat
        /\ Item(i)[1] # None => PlaceOf(i) = Item(i)[1] + 1
  BY <1>0, ItemProperties, SecondPlaces, PlaceIsNat, PlaceFirst
<1>2. \A i, j \in 1 .. Size : \A side \in {1, 2} :
        i # j /\ Item(i)[side] # None => Item(i)[side] # Item(j)[side]
  BY <1>0 DEF IsInput, Item, Size
<1>3. \A i, j \in 1 .. Size :
        /\ Item(i)[1] # None /\ Item(i)[2] # None /\ Item(j)[1] # None /\ Item(j)[2] # None
        /\ Item(i)[1] < Item(j)[1]
        => Item(i)[2] < Item(j)[2]
  BY DEF Compatible, Placed, Item, Size
<1>4. \A i \in 1 .. Size : \A a :
        a \in Anchors(input, Item(i)) <=>
          \E j \in 1 .. Size : /\ Item(j)[1] # None /\ Item(j)[2] # None
                               /\ Item(j)[2] < Item(i)[2] /\ a = Item(j)[1] + 1
  BY DEF Anchors, Item, Size
<1>5. /\ x # y
      /\ \/ PlaceOf(x) < PlaceOf(y)
         \/ PlaceOf(x) = PlaceOf(y) /\ Item(x)[1] # None /\ Item(y)[1] = None
         \/ /\ PlaceOf(x) = PlaceOf(y) /\ Item(x)[1] = None /\ Item(y)[1] = None
            /\ Item(x)[2] < Item(y)[2]
  BY <1>1, BeforeParts
<1> SUFFICES ASSUME Item(y)[2] < Item(x)[2] PROVE FALSE
  BY <1>1, <1>2, <1>5
<1>6. CASE Item(x)[1] # None /\ Item(y)[1] # None
  BY <1>1, <1>3, <1>5, <1>6
<1>7. CASE Item(x)[1] # None /\ Item(y)[1] = None
  <2>1. PlaceOf(y) \in Anchors(input, Item(y))
    <3>1. PlaceOf(y) # 0
      BY <1>1, <1>5, <1>7
    <3> QED BY <1>7, <3>1, SecondPlaces DEF Furthest
  <2>2. PICK z \in 1 .. Size : /\ Item(z)[1] # None /\ Item(z)[2] # None
                               /\ Item(z)[2] < Item(y)[2] /\ PlaceOf(y) = Item(z)[1] + 1
    BY <1>4, <2>1
  <2>3. z # x /\ Item(z)[1] # Item(x)[1]
    BY <1>1, <1>2, <1>7, <2>2
  <2>4. Item(x)[1] < Item(z)[1]
    BY <1>1, <1>5, <1>7, <2>2, <2>3
  <2>5. Item(x)[2] < Item(z)[2]
    BY <1>3, <1>7, <2>2, <2>4
  <2> QED BY <1>1, <2>2, <2>5
<1>8. CASE Item(x)[1] = None /\ Item(y)[1] # None
  <2>1. PlaceOf(y) \in Anchors(input, Item(x))
    BY <1>1, <1>4, <1>8
  <2>2. PlaceOf(x) >= PlaceOf(y)
    BY <1>8, <2>1, SecondPlaces DEF Furthest
  <2> QED BY <1>1, <1>5, <1>8, <2>2
<1>9. CASE Item(x)[1] = None /\ Item(y)[1] = None
  <2>1. PlaceOf(x) < PlaceOf(y)
    BY <1>1, <1>5, <1>9
  <2>2. PlaceOf(y) \in Anchors(input, Item(y))
    BY <1>1, <1>9, <2>1, SecondPlaces DEF Furthest
  <2>3. PICK z \in 1 .. Size : /\ Item(z)[1] # None /\ Item(z)[2] # None
                               /\ Item(z)[2] < Item(y)[2] /\ PlaceOf(y) = Item(z)[1] + 1
    BY <1>4, <2>2
  <2>4. Item(z)[2] < Item(x)[2]
    BY <1>1, <2>3
  <2>5. PlaceOf(y) \in Anchors(input, Item(x))
    BY <1>4, <2>3, <2>4
  <2>6. PlaceOf(x) >= PlaceOf(y)
    BY <1>9, <2>5, SecondPlaces DEF Furthest
  <2> QED BY <1>1, <2>1, <2>6
<1> QED BY <1>6, <1>7, <1>8, <1>9

\* The result has the first sequence's order, and the second's unless the two
\* contradict each other.
THEOREM BothOrdersKeptTheorem == Spec => []BothOrdersKept
<1>1. IInv => BothOrdersKept
  <2> SUFFICES ASSUME IInv, phase = "done", Compatible, NEW side \in {1, 2},
                      NEW i \in Placed(data, side), NEW j \in Placed(data, side), i < j
               PROVE  data[i][side] < data[j][side]
    BY DEF BothOrdersKept
  <2> DEFINE x == merged[i]
             y == merged[j]
  <2>1. i \in 1 .. Size /\ j \in 1 .. Size /\ data[i][side] # None /\ data[j][side] # None
    BY Result DEF Placed
  <2>2. /\ x \in 1 .. Size /\ y \in 1 .. Size /\ data[i] = Item(x) /\ data[j] = Item(y)
        /\ Before(input, Item(x), Item(y))
    BY <2>1, Result
  <2> HIDE DEF x, y
  <2>3. CASE side = 1
    <3>1. /\ Item(x)[1] # None /\ Item(y)[1] # None
          /\ Item(x)[1] \in Nat /\ Item(y)[1] \in Nat
      BY <2>1, <2>2, <2>3, ItemProperties DEF IInv, TypeOK
    <3>2. PlaceOf(x) = Item(x)[1] + 1 /\ PlaceOf(y) = Item(y)[1] + 1
      BY <3>1, PlaceFirst
    <3>3. PlaceOf(x) < PlaceOf(y)
      BY <2>2, <3>1, BeforeParts
    <3> QED BY <2>2, <2>3, <3>1, <3>2, <3>3
  <2>4. CASE side = 2
    BY <2>1, <2>2, <2>4, SecondKept
  <2> QED BY <2>3, <2>4
<1> QED BY <1>1, Invariance, PTL
================================================================================
